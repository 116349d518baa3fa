------------------------------ MODULE UserAdmin ------------------------------
(***************************************************************************)
(* The table users and every request that changes it: the first login that *)
(* inserts a row, accepting and rejecting new users, deleting users and    *)
(* setting their role.                                                     *)
(*                                                                         *)
(* A request is authenticated first, on a row it reads in a transaction of *)
(* its own; the guard of the route and the handler work with that copy.    *)
(* One action is one transaction of the handler: InnoDB answers all reads  *)
(* of a transaction from the snapshot its first read took, and an UPDATE   *)
(* writes only a column whose value the handler changed.                   *)
(***************************************************************************)
EXTENDS Naturals, FiniteSets

CONSTANTS
    Users,      \* subjects of the tokens Keycloak signs
    Requests,   \* slots for requests in flight
    Roles       \* the roles administrators assign

ASSUME UsersAssumption == IsFiniteSet(Users)
ASSUME RolesAssumption == {"User", "Admin"} \subseteq Roles /\ "absent" \notin Roles

VARIABLES
    row,        \* the table users: row[u] is NoRow when u has none
    req,        \* what each request is doing
    trusted,    \* observer: who has been an active administrator so far
    outrun      \* observer: requests for which what they decided on has changed

vars == <<row, req, trusted, outrun>>

Row == [role : Roles, active : BOOLEAN]
NoRow == [role |-> "absent", active |-> FALSE]
FirstRow == [role |-> "Admin", active |-> TRUE]

\* Mutant: a new user is active at once
NewRowActive == [role |-> "User", active |-> TRUE]

\* Mutant: a new user has the role of an empty column
NewRowWithoutRole == [role |-> "None", active |-> FALSE]

NewRow == [role |-> "User", active |-> FALSE]

AdminOps == {"delete_user", "set_user_role", "accept", "reject"}
Ops == {"get", "delete_me"} \union AdminOps
Pcs == {"get_user", "create_user", "refresh_user", "count_admins",
        "get_target", "write", "delete"}

\* copy is the row the request read last; db_user before create_user commits.
Request == [op : Ops, by : Users, target : Users, role : Roles, pc : Pcs,
            copy : Row \union {NoRow}]
Idle == [pc |-> "idle"]

TypeOK ==
    /\ row \in [Users -> Row \union {NoRow}]
    /\ req \in [Requests -> Request \union {Idle}]
    /\ trusted \subseteq Users
    /\ outrun \subseteq Requests

Init ==
    /\ row = [u \in Users |-> NoRow]
    /\ req = [r \in Requests |-> Idle]
    /\ trusted = {}
    /\ outrun = {}

-----------------------------------------------------------------------------
Exists(u) == row[u] # NoRow
Admins == {u \in Users : row[u].role = "Admin"}
ActiveAdmins == {u \in Admins : row[u].active}

At(r, pc) == req[r].pc = pc
Goto(r, pc, copy) == req' = [req EXCEPT ![r].pc = pc, ![r].copy = copy]
Done(r) == req' = [req EXCEPT ![r] = Idle]
Store(u, new) == row' = [row EXCEPT ![u] = new]

\* The first awaited call of the handler of request q when by's row is seen;
\* "done" when the guard, the inactive user or the handler refuses, and for
\* routes that only read.
Refused(q, seen) ==
    \/ ~seen.active
    \/ q.op \in AdminOps /\ seen.role # "Admin"
    \/ q.op = "delete_user" /\ q.by = q.target

FirstCall(q, seen) ==
    IF Refused(q, seen) \/ q.op = "get" THEN "done" ELSE
    CASE \/ q.op = "delete_me" /\ seen.role = "Admin"
         \/ q.op = "set_user_role" /\ q.by = q.target  -> "count_admins"
      [] \/ q.op = "set_user_role" /\ q.by # q.target
         \/ q.op = "accept"                            -> "get_target"
      [] OTHER                                         -> "delete"

Admit(r, seen) ==
    IF FirstCall(req[r], seen) = "done"
    THEN Done(r)
    ELSE Goto(r, FirstCall(req[r], seen), seen)

\* What the request makes of the row it read.
Changed(q) ==
    IF q.op = "accept" THEN [q.copy EXCEPT !.active = TRUE]
                       ELSE [q.copy EXCEPT !.role = q.role]

-----------------------------------------------------------------------------
(* Authentication.                                                         *)

Arrive(r, u, op, t, role) ==
    /\ req[r] = Idle
    /\ op \in {"get", "delete_me"} => t = u
    /\ op # "set_user_role" => role = "User"
    /\ req' = [req EXCEPT ![r] = [op |-> op, by |-> u, target |-> t, role |-> role,
                                  pc |-> "get_user", copy |-> NoRow]]
    /\ UNCHANGED row

\* session.get, and the look whether the table is empty in the same snapshot
GetUser(r) ==
    /\ At(r, "get_user")
    /\ IF Exists(req[r].by)
       THEN Admit(r, row[req[r].by])
       ELSE Goto(r, "create_user",
                 IF \A u \in Users : ~Exists(u) THEN FirstRow ELSE NewRow)
    /\ UNCHANGED row

CreateUser(r) ==
    /\ At(r, "create_user")
    /\ \/ /\ ~Exists(req[r].by)
          /\ Store(req[r].by, req[r].copy)
          /\ Goto(r, "refresh_user", req[r].copy)
       \/ /\ Exists(req[r].by)            \* IntegrityError
          /\ Done(r)
          /\ UNCHANGED row

\* Mutant: the row just inserted is not looked at again
RefreshUserUnguarded(r) ==
    /\ At(r, "refresh_user")
    /\ Goto(r, IF req[r].op = "delete_me" THEN "count_admins" ELSE "get_target",
            req[r].copy)
    /\ UNCHANGED row

RefreshUser(r) ==
    /\ At(r, "refresh_user")
    /\ IF Exists(req[r].by) THEN Admit(r, row[req[r].by]) ELSE Done(r)
    /\ UNCHANGED row

-----------------------------------------------------------------------------
(* Handlers.                                                               *)

\* get_user(target); a row that is not there ends in AttributeError
Load(r) ==
    IF Exists(req[r].target) THEN Goto(r, "write", row[req[r].target]) ELSE Done(r)

\* Mutant: the count is compared with < instead of <=
CountAdminsOffByOne(r) ==
    /\ At(r, "count_admins")
    /\ IF Cardinality(Admins) < 1 THEN Done(r)
       ELSE IF req[r].op = "delete_me" THEN Goto(r, "delete", req[r].copy)
       ELSE Load(r)
    /\ UNCHANGED row

CountAdmins(r) ==
    /\ At(r, "count_admins")
    /\ IF Cardinality(Admins) <= 1 THEN Done(r)   \* the only remaining admin
       ELSE IF req[r].op = "delete_me" THEN Goto(r, "delete", req[r].copy)
       ELSE Load(r)
    /\ UNCHANGED row

GetTarget(r) ==
    /\ At(r, "get_target")
    /\ Load(r)
    /\ UNCHANGED row

\* The commit of set_user_role and accept_user_request.
Write(r) ==
    LET q == req[r] IN
    /\ At(r, "write")
    /\ Done(r)
    /\ IF Changed(q) = q.copy \/ ~Exists(q.target)  \* no UPDATE; StaleDataError
       THEN UNCHANGED row
       ELSE Store(q.target,
                  IF q.op = "accept" THEN [row[q.target] EXCEPT !.active = TRUE]
                                     ELSE [row[q.target] EXCEPT !.role = q.role])

DeleteUser(r) ==
    /\ At(r, "delete")
    /\ Store(req[r].target, NoRow)
    /\ Done(r)

\* A call to the database fails, the client leaves, or the process dies.
Fails(r) ==
    /\ req[r] # Idle
    /\ Done(r)
    /\ UNCHANGED row

Step(r) ==
    \/ \E u, t \in Users, op \in Ops, role \in Roles : Arrive(r, u, op, t, role)
    \/ GetUser(r) \/ CreateUser(r) \/ RefreshUser(r)
    \/ CountAdmins(r) \/ GetTarget(r) \/ Write(r) \/ DeleteUser(r)
    \/ Fails(r)

-----------------------------------------------------------------------------
(* The observers.                                                          *)

\* The handler works with what the guard saw, an insert with what its look at
\* the table saw: nothing holds a lock in between.
HandlerPcs == {"count_admins", "get_target", "write", "delete"}
Decided(r) == req[r].pc \in HandlerPcs \union {"create_user"}

\* What request r decided on is another after this step.
Shifted(r) ==
    IF At(r, "create_user") THEN \E u \in Users : Exists(u)' # Exists(u)
    ELSE Admins' # Admins \/ ActiveAdmins' # ActiveAdmins

Next ==
    /\ \E r \in Requests : Step(r)
    /\ trusted' = trusted \union ActiveAdmins'
    /\ outrun' = {r \in Requests : Decided(r) /\ Decided(r)' /\ (r \in outrun \/ Shifted(r))}

Spec == Init /\ [][Next]_vars

-----------------------------------------------------------------------------
(* Properties.                                                             *)

\* The last active administrator goes in three ways only, however requests
\* overlap: by a request that was outrun (who is administrator has changed
\* since its guard, as when two of them leave at once: neither count_admins nor
\* the guard is repeated before the write); by rejecting his own account, which
\* reject_user_request checks nothing for; or by leaving or stepping down while
\* an administrator is counted who is not active.  In every other interleaving
\* the guard, the comparison of delete_user and count_admins keep one.
AdminStays ==
    [][ActiveAdmins # {} /\ ActiveAdmins' = {} =>
         \E r \in Requests :
             /\ req'[r] # req[r]
             /\ \/ r \in outrun
                \/ /\ req[r].by = req[r].target
                   /\ req[r].op = "reject" \/ Admins # ActiveAdmins]_vars

Rises(u) ==
    \/ ~row[u].active /\ row'[u].active
    \/ row[u].role # "Admin" /\ row'[u].role = "Admin"

\* Privilege is granted, never taken: whoever becomes active or administrator
\* was let in by a request of someone who is an active administrator at that
\* moment, or is inserted into a table that is empty at that moment.  The two
\* exceptions are races: a request of somebody who was an active administrator
\* at its guard is carried out after the administrators have changed, and of
\* two first logins that both found the table empty (create_user looks, then
\* inserts) both become active administrators.
PrivilegeIsGranted ==
    [][\A u \in Users : Rises(u) =>
         \E r \in Requests :
             /\ req'[r] # req[r]
             /\ \/ req[r].by \in ActiveAdmins
                \/ req[r].by = u /\ \A v \in Users : ~Exists(v)
                \/ /\ r \in outrun
                   /\ \/ req[r].by \in trusted
                      \/ req[r].by = u /\ req[r].copy = FirstRow]_vars

\* However requests overlap, the row of a user is changed only by requests of
\* that user and of those who have been active administrators: the guard is
\* passed on the copy of the row that authentication read, on every path,
\* that of a request which inserts its user's row included.
StrangersChangeNothing ==
    [][\A u \in Users : row'[u] # row[u] =>
         \E r \in Requests :
             /\ req'[r] # req[r]
             /\ req[r].by \in trusted \union {u}]_vars
=============================================================================
