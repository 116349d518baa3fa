--------------------------- MODULE UserAdminProofs ---------------------------
(***************************************************************************)
(* Theorems about UserAdmin, for any number of users, requests and roles.  *)
(*                                                                         *)
(* TypeOK is inductive.  The other properties take an invariant that says  *)
(* what each request in flight knows: the path it took (Shape), and, as    *)
(* long as it is not outrun, what its last look still tells of the table   *)
(* (Sound).  Shifted watches exactly what Sound speaks of, so a request    *)
(* that waits keeps Sound or is outrun.                                    *)
(***************************************************************************)
EXTENDS UserAdmin, FiniteSetTheorems, TLAPS

-----------------------------------------------------------------------------
(* Types.                                                                  *)

\* The handler's copy and the call it makes next are of the right kind.
LEMMA GotoType ==
    ASSUME NEW r \in Requests, NEW pc \in Pcs, NEW copy \in Row \union {NoRow},
           TypeOK, req[r].pc \in Pcs, Goto(r, pc, copy)
    PROVE  req' \in [Requests -> Request \union {Idle}]
<1>1. req[r] \in Request
  BY DEF TypeOK, Idle, Pcs
<1>2. [req[r] EXCEPT !.pc = pc, !.copy = copy] \in Request
  BY <1>1 DEF Request
<1> QED
  BY <1>2 DEF Goto, TypeOK

LEMMA DoneType ==
    ASSUME NEW r \in Requests, TypeOK, Done(r)
    PROVE  req' \in [Requests -> Request \union {Idle}]
BY DEF Done, TypeOK

LEMMA StoreType ==
    ASSUME NEW u \in Users, NEW new \in Row \union {NoRow}, TypeOK, Store(u, new)
    PROVE  row' \in [Users -> Row \union {NoRow}]
BY DEF Store, TypeOK

\* Where FirstCall leads.
LEMMA FirstCallType ==
    ASSUME NEW q, NEW seen
    PROVE  FirstCall(q, seen) \in {"done", "count_admins", "get_target", "delete"}
BY DEF FirstCall

LEMMA AdmitType ==
    ASSUME NEW r \in Requests, NEW seen \in Row \union {NoRow}, TypeOK,
           req[r].pc \in Pcs, Admit(r, seen)
    PROVE  req' \in [Requests -> Request \union {Idle}]
<1>1. CASE FirstCall(req[r], seen) = "done"
  BY <1>1, DoneType DEF Admit
<1>2. CASE FirstCall(req[r], seen) # "done"
  <2>1. FirstCall(req[r], seen) \in Pcs
    BY <1>2, FirstCallType DEF Pcs
  <2> QED
    BY <1>2, <2>1, GotoType DEF Admit
<1> QED
  BY <1>1, <1>2

LEMMA LoadType ==
    ASSUME NEW r \in Requests, TypeOK, req[r].pc \in Pcs, Load(r)
    PROVE  req' \in [Requests -> Request \union {Idle}]
<1>1. req[r].target \in Users
  BY DEF TypeOK, Idle, Pcs, Request
<1>2. row[req[r].target] \in Row \union {NoRow}
  BY <1>1 DEF TypeOK
<1>3. "write" \in Pcs
  BY DEF Pcs
<1>4. CASE Exists(req[r].target)
  BY <1>2, <1>3, <1>4, GotoType DEF Load
<1>5. CASE ~Exists(req[r].target)
  BY <1>5, DoneType DEF Load
<1> QED
  BY <1>4, <1>5

\* The rows that are there to be inserted are rows.
LEMMA InsertedRows == {FirstRow, NewRow} \subseteq Row
BY RolesAssumption DEF FirstRow, NewRow, Row

LEMMA StepType ==
    ASSUME NEW r \in Requests, TypeOK, Step(r)
    PROVE  /\ req' \in [Requests -> Request \union {Idle}]
           /\ row' \in [Users -> Row \union {NoRow}]
<1> DEFINE q == req[r]
<1>0. q.pc \in Pcs => q \in Request
  BY DEF TypeOK, Idle, Pcs
<1>a. q.pc \in Pcs => q.by \in Users /\ q.target \in Users /\ q.role \in Roles
                      /\ q.copy \in Row \union {NoRow}
  BY <1>0 DEF Request
<1>b. UNCHANGED row => row' \in [Users -> Row \union {NoRow}]
  BY DEF TypeOK
<1>c. \A u \in Users : row[u] \in Row \union {NoRow}
  BY DEF TypeOK
<1>1. ASSUME NEW u \in Users, NEW t \in Users, NEW op \in Ops, NEW role \in Roles,
             Arrive(r, u, op, t, role)
      PROVE  /\ req' \in [Requests -> Request \union {Idle}]
             /\ UNCHANGED row
  <2>1. "get_user" \in Pcs
    BY DEF Pcs
  <2>2. [op |-> op, by |-> u, target |-> t, role |-> role,
         pc |-> "get_user", copy |-> NoRow] \in Request
    BY <2>1 DEF Request
  <2> QED
    BY <1>1, <2>2 DEF Arrive, TypeOK
<1>2. CASE GetUser(r)
  <2>1. q.pc \in Pcs /\ "create_user" \in Pcs
    BY <1>2 DEF GetUser, At, Pcs
  <2>2. CASE Exists(q.by)
    BY <1>2, <1>a, <1>b, <1>c, <2>1, <2>2, AdmitType DEF GetUser
  <2>3. CASE ~Exists(q.by)
    <3>1. PICK copy \in Row : Goto(r, "create_user", copy)
      BY <1>2, <2>3, InsertedRows DEF GetUser
    <3> QED
      BY <1>2, <1>b, <2>1, <3>1, GotoType DEF GetUser
  <2> QED
    BY <2>2, <2>3
<1>3. CASE CreateUser(r)
  <2>1. q.pc \in Pcs /\ "refresh_user" \in Pcs
    BY <1>3 DEF CreateUser, At, Pcs
  <2>2. CASE Exists(q.by)
    BY <1>3, <1>b, <2>2, DoneType DEF CreateUser
  <2>3. CASE ~Exists(q.by)
    BY <1>3, <1>a, <2>1, <2>3, GotoType, StoreType DEF CreateUser
  <2> QED
    BY <2>2, <2>3
<1>4. CASE RefreshUser(r)
  <2>1. q.pc \in Pcs
    BY <1>4 DEF RefreshUser, At, Pcs
  <2> QED
    BY <1>4, <1>a, <1>b, <1>c, <2>1, AdmitType, DoneType DEF RefreshUser
<1>5. CASE CountAdmins(r)
  <2>1. q.pc \in Pcs /\ "delete" \in Pcs
    BY <1>5 DEF CountAdmins, At, Pcs
  <2>2. \/ Done(r)
        \/ Goto(r, "delete", q.copy)
        \/ Load(r)
    BY <1>5 DEF CountAdmins
  <2> QED
    BY <1>5, <1>a, <1>b, <2>1, <2>2, DoneType, GotoType, LoadType DEF CountAdmins
<1>6. CASE GetTarget(r)
  <2>1. q.pc \in Pcs
    BY <1>6 DEF GetTarget, At, Pcs
  <2> QED
    BY <1>6, <1>b, <2>1, LoadType DEF GetTarget
<1>7. CASE Write(r)
  <2>1. q.pc \in Pcs
    BY <1>7 DEF Write, At, Pcs
  <2>2. CASE UNCHANGED row
    BY <1>7, <1>b, <2>2, DoneType DEF Write
  <2>3. CASE ~UNCHANGED row
    <3>1. row[q.target] \in Row
      BY <1>7, <1>a, <1>c, <2>1, <2>3 DEF Write, Exists
    <3>2. /\ [row[q.target] EXCEPT !.active = TRUE] \in Row
          /\ [row[q.target] EXCEPT !.role = q.role] \in Row
      BY <1>a, <2>1, <3>1 DEF Row
    <3>3. PICK new \in Row : Store(q.target, new)
      BY <1>7, <2>3, <3>2 DEF Write
    <3> QED
      BY <1>7, <1>a, <2>1, <3>3, DoneType, StoreType DEF Write
  <2> QED
    BY <2>2, <2>3
<1>8. CASE DeleteUser(r)
  <2>1. q.pc \in Pcs
    BY <1>8 DEF DeleteUser, At, Pcs
  <2> QED
    BY <1>8, <1>a, <2>1, DoneType, StoreType DEF DeleteUser
<1>9. CASE Fails(r)
  BY <1>9, <1>b, DoneType DEF Fails
<1> QED
  BY <1>1, <1>2, <1>3, <1>4, <1>5, <1>6, <1>7, <1>8, <1>9, <1>b DEF Step

LEMMA InitType == Init => TypeOK
BY DEF Init, TypeOK

LEMMA NextType == TypeOK /\ [Next]_vars => TypeOK'
<1> SUFFICES ASSUME TypeOK, [Next]_vars PROVE TypeOK'
  OBVIOUS
<1>1. CASE Next
  <2>1. trusted' \subseteq Users /\ outrun' \subseteq Requests
    BY <1>1 DEF Next, TypeOK, ActiveAdmins, Admins
  <2>2. PICK r \in Requests : Step(r)
    BY <1>1 DEF Next
  <2> QED
    BY <2>1, <2>2, StepType DEF TypeOK
<1>2. CASE UNCHANGED vars
  BY <1>2 DEF vars, TypeOK
<1> QED
  BY <1>1, <1>2

\* Every row and every request keeps its type, for any users, requests, roles.
THEOREM TypeCorrect == Spec => []TypeOK
<1> QED
  BY InitType, NextType, PTL DEF Spec

-----------------------------------------------------------------------------
(* What a request may rely on between two of its transactions.             *)

InFlight(r) == req[r] # Idle

\* Somebody other than t is an active administrator.
Spared(t) == \E v \in ActiveAdmins : v # t

\* The request leaves or steps down after count_admins, if it is an administrator's.
Departs(q) == q.by = q.target /\ q.op \in {"delete_me", "set_user_role"}

\* The path a request took, whatever the others did.
Shape(q) ==
    /\ q.op = "get" => q.pc \notin HandlerPcs
    /\ q.op = "delete_me" => q.target = q.by
    /\ q.pc = "create_user" => q.copy \in {FirstRow, NewRow}
    /\ q.pc = "count_admins" => q.op \in {"delete_me", "set_user_role"}
    /\ q.pc = "count_admins" => q.by = q.target
    /\ q.pc \in {"get_target", "write"} => q.op \in {"accept", "set_user_role"}
    /\ q.pc = "get_target" /\ q.op = "set_user_role" => q.by # q.target
    /\ q.pc = "delete" => q.op \in {"delete_me", "delete_user", "reject"}
    /\ q.pc \in HandlerPcs /\ q.op = "delete_user" => q.by # q.target

\* What holds of the table as long as the request is not outrun.
Sound(q) ==
    /\ q.pc = "create_user" /\ q.copy = FirstRow => \A u \in Users : ~Exists(u)
    /\ q.pc \in HandlerPcs /\ q.op \in AdminOps => q.by \in ActiveAdmins
    /\ q.pc \in {"write", "delete"} /\ Departs(q) =>
           Admins # ActiveAdmins \/ q.by \notin Admins \/ Spared(q.by)

Settled(r) == InFlight(r) => Shape(req[r]) /\ (r \notin outrun => Sound(req[r]))

IInv == TypeOK /\ \A r \in Requests : Settled(r)

\* Two administrators counted are one more than the one who leaves.
LEMMA Counted ==
    ASSUME NEW t, ~(Cardinality(Admins) <= 1)
    PROVE  \E v \in Admins : v # t
<1> SUFFICES ASSUME \A v \in Admins : v = t
             PROVE  FALSE
  OBVIOUS
<1>1. Admins \subseteq {t}
  OBVIOUS
<1>2. IsFiniteSet({t}) /\ Cardinality({t}) = 1
  BY FS_Singleton
<1>3. Cardinality(Admins) <= Cardinality({t})
  BY <1>1, <1>2, FS_Subset
<1> QED
  BY <1>2, <1>3

\* Sound speaks of what Shifted watches, and of nothing else.
LEMMA SoundSame ==
    ASSUME NEW q, Sound(q),
           q.pc = "create_user" => \A u \in Users : Exists(u)' = Exists(u),
           q.pc \in HandlerPcs => Admins' = Admins /\ ActiveAdmins' = ActiveAdmins
    PROVE  Sound(q)'
<1>1. CASE q.pc \in HandlerPcs
  <2>1. q.pc # "create_user" /\ Admins' = Admins /\ ActiveAdmins' = ActiveAdmins
    BY <1>1 DEF HandlerPcs
  <2> QED
    BY <2>1 DEF Sound, Spared, Departs
<1>2. CASE q.pc \notin HandlerPcs
  BY <1>2 DEF Sound, HandlerPcs
<1> QED
  BY <1>1, <1>2

LEMMA SoundStutter ==
    ASSUME NEW q, Sound(q), UNCHANGED row
    PROVE  Sound(q)'
<1>1. Admins' = Admins /\ ActiveAdmins' = ActiveAdmins
  BY DEF Admins, ActiveAdmins
<1>2. \A u \in Users : Exists(u)' = Exists(u)
  BY DEF Exists
<1> QED
  BY <1>1, <1>2, SoundSame

Watched == outrun' = {r \in Requests : Decided(r) /\ Decided(r)' /\ (r \in outrun \/ Shifted(r))}

\* A request that does not move is outrun, or what it relies on has not changed.
LEMMA Waiting ==
    ASSUME NEW s \in Requests, TypeOK, Settled(s), req'[s] = req[s], Watched
    PROVE  Settled(s)'
<1> SUFFICES ASSUME InFlight(s)
             PROVE  Shape(req[s]) /\ (s \notin outrun' => Sound(req[s])')
  BY DEF Settled, InFlight, Shape
<1>1. PICK q \in Request : q = req[s]
  BY DEF TypeOK, InFlight
<1>2. ASSUME s \notin outrun'
      PROVE  Sound(q)'
  <2>1. Decided(s)' <=> Decided(s)
    BY DEF Decided
  <2>2. CASE Decided(s)
    <3>1. s \notin outrun /\ ~Shifted(s)
      BY <1>2, <2>1, <2>2 DEF Watched
    <3>2. Sound(q)
      BY <1>1, <3>1 DEF Settled
    <3>3. q.pc = "create_user" => \A u \in Users : Exists(u)' = Exists(u)
      BY <1>1, <3>1 DEF Shifted, At
    <3>4. q.pc \in HandlerPcs => Admins' = Admins /\ ActiveAdmins' = ActiveAdmins
      BY <1>1, <3>1 DEF Shifted, At, HandlerPcs
    <3> QED
      BY <3>2, <3>3, <3>4, SoundSame
  <2>3. CASE ~Decided(s)
    BY <1>1, <2>3 DEF Decided, Sound, HandlerPcs
  <2> QED
    BY <2>2, <2>3
<1>3. s \notin outrun' => Sound(req[s])'
  BY <1>1, <1>2 DEF Sound, Departs
<1> QED
  BY <1>3 DEF Settled

\* The request moves on to q.
LEMMA Going ==
    ASSUME NEW r \in Requests, NEW pc \in Pcs, NEW copy, NEW q,
           q = [req[r] EXCEPT !.pc = pc, !.copy = copy],
           TypeOK, req[r] \in Request, Goto(r, pc, copy),
           Shape(q), r \notin outrun' => Sound(q)'
    PROVE  Settled(r)'
<1>1. req'[r] = q
  BY DEF Goto, TypeOK
<1>2. Shape(req[r])'
  BY <1>1 DEF Shape
<1>3. r \notin outrun' => Sound(req[r])'
  BY <1>1 DEF Sound, Departs
<1> QED
  BY <1>2, <1>3 DEF Settled

LEMMA Ending ==
    ASSUME NEW r \in Requests, TypeOK, Done(r)
    PROVE  Settled(r)'
BY DEF Done, TypeOK, Settled, InFlight

\* The handler goes on with the row of its user, which exists.
LEMMA Admitting ==
    ASSUME NEW r \in Requests, IInv, UNCHANGED row,
           req[r].pc \in {"get_user", "refresh_user"}, Exists(req[r].by),
           Admit(r, row[req[r].by])
    PROVE  Settled(r)'
<1>1. PICK p \in Request : p = req[r]
  BY DEF IInv, TypeOK, Idle
<1>2. Shape(p)
  BY <1>1 DEF IInv, Settled, InFlight, Idle
<1>3. PICK seen : seen = row[p.by]
  OBVIOUS
<1>4. p.by \in Users /\ p.target \in Users /\ p.op \in Ops /\ seen \in Row
  BY <1>1, <1>3 DEF Request, IInv, TypeOK, Exists
<1>5. PICK next : next = FirstCall(p, seen)
  OBVIOUS
<1>6. CASE next = "done"
  BY <1>1, <1>3, <1>5, <1>6, Ending DEF Admit, IInv
<1>7. CASE next # "done"
  <2>1. next \in HandlerPcs /\ next \in Pcs
    BY <1>5, <1>7, FirstCallType DEF HandlerPcs, Pcs
  <2>2. Goto(r, next, seen)
    BY <1>1, <1>3, <1>5, <1>7 DEF Admit
  <2>3. PICK q \in Request : q = [p EXCEPT !.pc = next, !.copy = seen]
    BY <1>4, <2>1 DEF Request
  <2>4. /\ q.op = p.op /\ q.by = p.by /\ q.target = p.target /\ q.role = p.role
        /\ q.pc = next
    BY <2>3 DEF Request
  <2>5. /\ seen.active
        /\ p.op \in AdminOps => seen.role = "Admin"
        /\ p.op # "get"
        /\ p.op = "delete_user" => p.by # p.target
        /\ next = "count_admins" =>
               p.op = "delete_me" \/ (p.op = "set_user_role" /\ p.by = p.target)
        /\ next = "get_target" => p.op \in {"accept", "set_user_role"}
        /\ next = "get_target" /\ p.op = "set_user_role" => p.by # p.target
        /\ next # "write"
        /\ next = "delete" /\ p.op = "delete_me" => seen.role # "Admin"
        /\ next = "delete" => p.op # "set_user_role" /\ p.op # "accept"
    BY <1>5, <1>7 DEF FirstCall, Refused
  <2>6. p.op \in AdminOps => p.by \in ActiveAdmins
    BY <1>3, <1>4, <2>5 DEF ActiveAdmins, Admins
  <2>7. next = "delete" /\ p.op = "delete_me" => p.by \notin Admins
    BY <1>3, <2>5 DEF Admins
  <2>8. Shape(q)
    BY <1>2, <1>4, <2>1, <2>4, <2>5 DEF Shape, HandlerPcs, Ops, AdminOps
  <2>9. Sound(q)
    BY <2>1, <2>4, <2>5, <2>6, <2>7 DEF Sound, Departs, HandlerPcs
  <2> QED
    BY <1>1, <2>1, <2>2, <2>3, <2>8, <2>9, Going, SoundStutter DEF IInv
<1> QED
  BY <1>6, <1>7

\* The handler goes on with the row of the target, which it may change.
LEMMA Loading ==
    ASSUME NEW r \in Requests, IInv, Watched, UNCHANGED row,
           req[r].pc \in {"count_admins", "get_target"}, Load(r),
           req[r].op \in {"accept", "set_user_role"},
           Departs(req[r]) => Admins # ActiveAdmins \/ Spared(req[r].by)
    PROVE  Settled(r)'
<1>1. PICK p \in Request : p = req[r]
  BY DEF IInv, TypeOK, Idle
<1>2. Shape(p) /\ p.pc \in HandlerPcs /\ (r \notin outrun => Sound(p))
  BY <1>1 DEF IInv, Settled, InFlight, Idle, HandlerPcs
<1>3. CASE ~Exists(p.target)
  BY <1>1, <1>3, Ending DEF Load, IInv
<1>4. CASE Exists(p.target)
  <2>1. PICK seen : seen = row[p.target]
    OBVIOUS
  <2>2. seen \in Row \union {NoRow} /\ "write" \in Pcs
    BY <2>1 DEF Request, IInv, TypeOK, Pcs
  <2>3. Goto(r, "write", seen)
    BY <1>1, <1>4, <2>1 DEF Load
  <2>4. PICK q \in Request : q = [p EXCEPT !.pc = "write", !.copy = seen]
    BY <2>2 DEF Request
  <2>5. /\ q.op = p.op /\ q.by = p.by /\ q.target = p.target /\ q.role = p.role
        /\ q.pc = "write"
    BY <2>4 DEF Request
  <2>6. Shape(q)
    BY <1>1, <1>2, <2>5 DEF Shape, HandlerPcs
  <2>7. ASSUME r \notin outrun'
        PROVE  Sound(q)'
    <3>1. Decided(r) /\ Decided(r)'
      BY <1>1, <1>2, <2>3 DEF Decided, Goto, IInv, TypeOK, Request, HandlerPcs
    <3>2. Sound(p)
      BY <1>2, <2>7, <3>1 DEF Watched
    <3>3. Sound(q)
      BY <1>1, <1>2, <2>5, <3>2 DEF Sound, Departs, HandlerPcs
    <3> QED
      BY <3>3, SoundStutter
  <2> QED
    BY <1>1, <2>2, <2>3, <2>4, <2>6, <2>7, Going DEF IInv
<1> QED
  BY <1>3, <1>4

LEMMA Arriving ==
    ASSUME NEW r \in Requests, IInv,
           NEW u \in Users, NEW t \in Users, NEW op \in Ops, NEW role \in Roles,
           Arrive(r, u, op, t, role)
    PROVE  Settled(r)'
<1>1. PICK new : new = [op |-> op, by |-> u, target |-> t, role |-> role,
                        pc |-> "get_user", copy |-> NoRow]
  OBVIOUS
<1>2. req'[r] = new /\ (op = "delete_me" => t = u)
  BY <1>1 DEF Arrive, IInv, TypeOK
<1>3. Shape(req[r])'
  BY <1>1, <1>2 DEF Shape, HandlerPcs
<1>4. Sound(req[r])'
  BY <1>1, <1>2 DEF Sound, HandlerPcs
<1> QED
  BY <1>3, <1>4 DEF Settled

LEMMA GettingUser ==
    ASSUME NEW r \in Requests, IInv, GetUser(r)
    PROVE  Settled(r)'
<1>1. PICK p \in Request : p = req[r] /\ p.pc = "get_user"
  BY DEF GetUser, At, IInv, TypeOK, Idle
<1>2. CASE Exists(p.by)
  BY <1>1, <1>2, Admitting DEF GetUser
<1>3. CASE ~Exists(p.by)
  <2>1. PICK copy \in {FirstRow, NewRow} :
            /\ Goto(r, "create_user", copy)
            /\ copy = FirstRow => \A u \in Users : ~Exists(u)
    BY <1>1, <1>3 DEF GetUser, FirstRow, NewRow
  <2>2. "create_user" \in Pcs /\ copy \in Row
    BY InsertedRows DEF Pcs
  <2>3. PICK q \in Request : q = [p EXCEPT !.pc = "create_user", !.copy = copy]
    BY <2>2 DEF Request
  <2>4. q.op = p.op /\ q.by = p.by /\ q.target = p.target /\ q.pc = "create_user" /\ q.copy = copy
    BY <2>3 DEF Request
  <2>5. Shape(p)
    BY <1>1 DEF IInv, Settled, InFlight, Idle
  <2>6. Shape(q)
    BY <2>4, <2>5 DEF Shape, HandlerPcs
  <2>7. Sound(q)
    BY <2>1, <2>4 DEF Sound, HandlerPcs
  <2> QED
    BY <1>1, <2>1, <2>2, <2>3, <2>6, <2>7, Going, SoundStutter DEF GetUser, IInv
<1> QED
  BY <1>2, <1>3

LEMMA CreatingUser ==
    ASSUME NEW r \in Requests, IInv, CreateUser(r)
    PROVE  Settled(r)'
<1>1. PICK p \in Request : p = req[r] /\ p.pc = "create_user"
  BY DEF CreateUser, At, IInv, TypeOK, Idle
<1>2. CASE Exists(p.by)
  BY <1>1, <1>2, Ending DEF CreateUser, IInv
<1>3. CASE ~Exists(p.by)
  <2>1. Goto(r, "refresh_user", p.copy)
    BY <1>1, <1>3 DEF CreateUser
  <2>2. "refresh_user" \in Pcs
    BY DEF Pcs
  <2>3. PICK q : q = [p EXCEPT !.pc = "refresh_user", !.copy = p.copy]
    OBVIOUS
  <2>4. q.op = p.op /\ q.by = p.by /\ q.target = p.target /\ q.pc = "refresh_user"
    BY <2>3 DEF Request
  <2>5. Shape(p)
    BY <1>1 DEF IInv, Settled, InFlight, Idle
  <2>6. Shape(q)
    BY <2>4, <2>5 DEF Shape, HandlerPcs
  <2>7. Sound(q)'
    BY <2>4 DEF Sound, HandlerPcs
  <2> QED
    BY <1>1, <2>1, <2>2, <2>3, <2>6, <2>7, Going DEF IInv
<1> QED
  BY <1>2, <1>3

LEMMA CountingAdmins ==
    ASSUME NEW r \in Requests, IInv, Watched, CountAdmins(r)
    PROVE  Settled(r)'
<1>1. PICK p \in Request : p = req[r] /\ p.pc = "count_admins"
  BY DEF CountAdmins, At, IInv, TypeOK, Idle
<1>2. /\ Shape(p) /\ p.pc \in HandlerPcs /\ (r \notin outrun => Sound(p))
      /\ p.op \in {"delete_me", "set_user_role"}
  BY <1>1 DEF IInv, Settled, InFlight, Idle, Shape, HandlerPcs
<1>3. CASE Cardinality(Admins) <= 1
  BY <1>1, <1>3, Ending DEF CountAdmins, IInv
<1>4. CASE ~(Cardinality(Admins) <= 1)
  <2>1. PICK v \in Admins : v # p.by
    BY <1>4, Counted
  <2>2. Admins # ActiveAdmins \/ Spared(p.by)
    BY <2>1 DEF Spared
  <2>3. CASE p.op = "delete_me"
    <3>1. Goto(r, "delete", p.copy)
      BY <1>1, <1>4, <2>3 DEF CountAdmins
    <3>2. "delete" \in Pcs
      BY DEF Pcs
    <3>3. PICK q : q = [p EXCEPT !.pc = "delete", !.copy = p.copy]
      OBVIOUS
    <3>4. /\ q.op = p.op /\ q.by = p.by /\ q.target = p.target
          /\ q.pc = "delete"
      BY <3>3 DEF Request
    <3>5. Shape(q)
      BY <1>2, <2>3, <3>4 DEF Shape
    <3>6. Sound(q)
      BY <2>2, <2>3, <3>4 DEF Sound, AdminOps
    <3> QED
      BY <1>1, <3>1, <3>2, <3>3, <3>5, <3>6, Going, SoundStutter DEF CountAdmins, IInv
  <2>4. CASE p.op = "set_user_role"
    <3>1. Load(r)
      BY <1>1, <1>4, <2>4 DEF CountAdmins
    <3> QED
      BY <1>1, <2>2, <2>4, <3>1, Loading DEF CountAdmins
  <2> QED
    BY <1>2, <2>3, <2>4
<1> QED
  BY <1>3, <1>4

LEMMA GettingTarget ==
    ASSUME NEW r \in Requests, IInv, Watched, GetTarget(r)
    PROVE  Settled(r)'
<1>1. PICK p \in Request : p = req[r] /\ p.pc = "get_target"
  BY DEF GetTarget, At, IInv, TypeOK, Idle
<1>2. Shape(p)
  BY <1>1 DEF IInv, Settled, InFlight, Idle
<1>3. p.op \in {"accept", "set_user_role"} /\ ~Departs(p)
  BY <1>1, <1>2 DEF Shape, Departs
<1> QED
  BY <1>1, <1>3, Loading DEF GetTarget

LEMMA NextInv == IInv /\ [Next]_vars => IInv'
<1> SUFFICES ASSUME IInv, [Next]_vars PROVE IInv'
  OBVIOUS
<1>1. TypeOK /\ TypeOK'
  BY NextType DEF IInv
<1>2. CASE Next
  <2>1. PICK r \in Requests : Step(r)
    BY <1>2 DEF Next
  <2>2. Watched
    BY <1>2 DEF Next, Watched
  <2>3. \A s \in Requests : s # r => req'[s] = req[s]
    BY <1>1, <2>1 DEF Step, Arrive, GetUser, CreateUser, RefreshUser, CountAdmins, GetTarget,
       Write, DeleteUser, Fails, Admit, Load, Goto, Done, TypeOK
  <2>4. ASSUME NEW s \in Requests, s # r
        PROVE  Settled(s)'
    BY <1>1, <2>2, <2>3, <2>4, Waiting DEF IInv
  <2>5. Settled(r)'
    <3>1. CASE \E u, t \in Users, op \in Ops, role \in Roles : Arrive(r, u, op, t, role)
      BY <3>1, Arriving
    <3>2. CASE RefreshUser(r)
      BY <1>1, <3>2, Admitting, Ending DEF RefreshUser, At
    <3>3. CASE Write(r) \/ DeleteUser(r) \/ Fails(r)
      BY <1>1, <3>3, Ending DEF Write, DeleteUser, Fails
    <3> QED
      BY <2>1, <2>2, <3>1, <3>2, <3>3, GettingUser, CreatingUser, CountingAdmins,
         GettingTarget DEF Step
  <2> QED
    BY <1>1, <2>4, <2>5 DEF IInv
<1>3. CASE UNCHANGED vars
  BY <1>1, <1>3 DEF vars, IInv, Settled, InFlight, Shape, Sound, Departs, Spared,
     Exists, ActiveAdmins, Admins
<1> QED
  BY <1>2, <1>3

LEMMA InitInv == Init => IInv
BY InitType DEF Init, IInv, Settled, InFlight

-----------------------------------------------------------------------------
(* No step takes the last administrator away unseen.                       *)

\* The step that takes the last active administrator is one of the three kinds.
LEMMA LastStep ==
    ASSUME IInv, NEW r \in Requests, Step(r), ActiveAdmins # {}, ActiveAdmins' = {}
    PROVE  /\ req'[r] # req[r]
           /\ \/ r \in outrun
              \/ /\ req[r].by = req[r].target
                 /\ req[r].op = "reject" \/ Admins # ActiveAdmins
<1>1. PICK a \in ActiveAdmins : TRUE
  OBVIOUS
<1>2. a \in Users /\ row[a] # NoRow /\ row'[a] # row[a]
  BY DEF ActiveAdmins, Admins, NoRow
<1>3. CASE CreateUser(r)
  <2>1. PICK p \in Request : p = req[r] /\ p.pc = "create_user"
    BY <1>3 DEF CreateUser, At, IInv, TypeOK, Idle
  <2>2. ~Exists(p.by) /\ row' = [row EXCEPT ![p.by] = p.copy]
    BY <1>2, <1>3, <2>1 DEF CreateUser, Store
  <2>3. a # p.by
    BY <1>2, <2>2 DEF Exists
  <2> QED
    BY <1>2, <2>2, <2>3 DEF IInv, TypeOK
<1>4. CASE DeleteUser(r)
  <2>1. PICK p \in Request : p = req[r] /\ p.pc = "delete"
    BY <1>4 DEF DeleteUser, At, IInv, TypeOK, Idle
  <2>2. /\ Shape(p) /\ p.op \in {"delete_me", "delete_user", "reject"}
        /\ r \notin outrun => Sound(p)
    BY <2>1 DEF IInv, Settled, InFlight, Idle, Shape
  <2>3. \A v \in Users : v # p.target => row'[v] = row[v]
    BY <1>4, <2>1 DEF DeleteUser, Store, IInv, TypeOK
  <2>4. \A v \in ActiveAdmins : v = p.target
    BY <2>3 DEF ActiveAdmins, Admins
  <2>5. req'[r] # req[r]
    BY <1>4, <2>1 DEF DeleteUser, Done, Idle, IInv, TypeOK
  <2>6. ASSUME r \notin outrun
        PROVE  p.by = p.target /\ (p.op = "reject" \/ Admins # ActiveAdmins)
    <3>1. CASE p.op = "delete_me"
      BY <1>1, <2>1, <2>2, <2>4, <2>6, <3>1 DEF Shape, Sound, Departs, Spared, ActiveAdmins
    <3>2. CASE p.op # "delete_me"
      BY <2>1, <2>2, <2>4, <2>6, <3>2 DEF Shape, Sound, HandlerPcs, AdminOps
    <3> QED
      BY <3>1, <3>2
  <2> QED
    BY <2>1, <2>5, <2>6
<1>5. CASE Write(r)
  <2>1. PICK p \in Request : p = req[r] /\ p.pc = "write"
    BY <1>5 DEF Write, At, IInv, TypeOK, Idle
  <2>2. /\ Shape(p) /\ p.op \in {"accept", "set_user_role"}
        /\ r \notin outrun => Sound(p)
    BY <2>1 DEF IInv, Settled, InFlight, Idle, Shape
  <2>3. /\ p.target \in Users
        /\ \A v \in Users : v # p.target => row'[v] = row[v]
    BY <1>5, <2>1 DEF Write, Store, IInv, TypeOK, Request
  <2>4. \A v \in ActiveAdmins : v = p.target
    BY <2>3 DEF ActiveAdmins, Admins
  <2>5. p.op # "accept"
    <3>1. ASSUME p.op = "accept"
          PROVE  row'[a].role = row[a].role /\ row'[a].active
      <4>1. row'[a] = [row[a] EXCEPT !.active = TRUE]
        BY <1>1, <1>2, <1>5, <2>1, <2>3, <2>4, <3>1 DEF Write, Store, IInv, TypeOK
      <4>2. row[a] \in Row
        BY <1>2 DEF IInv, TypeOK
      <4> QED
        BY <4>1, <4>2 DEF Row
    <3> QED
      BY <1>1, <1>2, <3>1 DEF ActiveAdmins, Admins
  <2>6. req'[r] # req[r]
    BY <1>5, <2>1 DEF Write, Done, Idle, IInv, TypeOK
  <2>7. ASSUME r \notin outrun
        PROVE  p.by = p.target /\ Admins # ActiveAdmins
    BY <1>1, <2>1, <2>2, <2>4, <2>5, <2>7
       DEF Sound, Departs, Spared, HandlerPcs, AdminOps, ActiveAdmins
  <2> QED
    BY <2>1, <2>6, <2>7
<1> QED
  BY <1>2, <1>3, <1>4, <1>5
     DEF Step, Arrive, GetUser, RefreshUser, CountAdmins, GetTarget, Fails

\* For any number of users and requests, in every interleaving: the last active
\* administrator goes by a request that was outrun, by rejecting himself, or by
\* leaving while an inactive one is counted, and in no other way (delete_me,
\* delete_user, set_user_role, reject_user_request).
THEOREM AdminStaysAlways == Spec => AdminStays
<1>1. ASSUME IInv, [Next]_vars
      PROVE  [ActiveAdmins # {} /\ ActiveAdmins' = {} =>
                \E r \in Requests :
                    /\ req'[r] # req[r]
                    /\ \/ r \in outrun
                       \/ /\ req[r].by = req[r].target
                          /\ req[r].op = "reject" \/ Admins # ActiveAdmins]_vars
  <2>1. CASE Next
    <3>1. PICK r \in Requests : Step(r)
      BY <2>1 DEF Next
    <3> QED
      BY <1>1, <3>1, LastStep
  <2> QED
    BY <1>1, <2>1
<1>2. IInv /\ [Next]_vars => IInv'
  BY NextInv
<1> QED
  BY <1>1, <1>2, InitInv, PTL DEF Spec, AdminStays

-----------------------------------------------------------------------------
(* Strangers, however requests overlap and whatever clients ask for.       *)

\* Past the guard a request deletes its own user, or is from somebody trusted.
Authorised(q) ==
    /\ q.op = "delete_me" => q.target = q.by
    /\ q.pc \in HandlerPcs => q.op = "delete_me" \/ q.by \in trusted

SInv ==
    /\ TypeOK
    /\ ActiveAdmins \subseteq trusted
    /\ \A r \in Requests : InFlight(r) => Authorised(req[r])

LEMMA AdmitAuthorised ==
    ASSUME SInv, NEW r \in Requests, req[r].pc \in {"get_user", "refresh_user"},
           Exists(req[r].by), Admit(r, row[req[r].by]), InFlight(r)'
    PROVE  Authorised(req'[r])
<1>1. PICK p \in Request : p = req[r]
  BY DEF SInv, TypeOK, Idle
<1>2. PICK seen \in Row : seen = row[p.by] /\ p.by \in Users
  BY <1>1 DEF SInv, TypeOK, Exists, Request
<1>3. p.op = "delete_me" => p.target = p.by
  BY <1>1 DEF SInv, Authorised, InFlight, Idle
<1>4. PICK next : next = FirstCall(p, seen)
  OBVIOUS
<1>5. next # "done"
  BY <1>1, <1>2, <1>4 DEF Admit, Done, InFlight, SInv, TypeOK
<1>6. req' = [req EXCEPT ![r].pc = next, ![r].copy = seen]
  BY <1>1, <1>2, <1>4, <1>5 DEF Admit, Goto
<1>7. req'[r].op = p.op /\ req'[r].by = p.by /\ req'[r].target = p.target
  BY <1>1, <1>6 DEF SInv, TypeOK, Request
<1>8. p.op # "get" /\ seen.active /\ (p.op \in AdminOps => seen.role = "Admin")
  BY <1>4, <1>5 DEF FirstCall, Refused
<1>9. p.op = "delete_me" \/ p.by \in ActiveAdmins
  BY <1>2, <1>8 DEF Request, Ops, AdminOps, ActiveAdmins, Admins
<1> QED
  BY <1>3, <1>7, <1>9 DEF SInv, Authorised

\* The step of a request leaves it authorised, and others as they are.
LEMMA StepAuthorised ==
    ASSUME SInv, NEW r \in Requests, Step(r)
    PROVE  /\ \A s \in Requests : s # r => req'[s] = req[s]
           /\ InFlight(r)' => Authorised(req'[r])
<1>1. ASSUME NEW u \in Users, NEW t \in Users, NEW op \in Ops, NEW role \in Roles,
             Arrive(r, u, op, t, role)
      PROVE  /\ \A s \in Requests : s # r => req'[s] = req[s]
             /\ Authorised(req'[r])
  <2>1. PICK new : new = [op |-> op, by |-> u, target |-> t, role |-> role,
                          pc |-> "get_user", copy |-> NoRow]
    OBVIOUS
  <2>2. req' = [req EXCEPT ![r] = new] /\ (op = "delete_me" => t = u)
    BY <1>1, <2>1 DEF Arrive
  <2>3. req'[r] = new /\ \A s \in Requests : s # r => req'[s] = req[s]
    BY <2>2 DEF SInv, TypeOK
  <2>4. Authorised(new)
    BY <2>1, <2>2 DEF Authorised, HandlerPcs
  <2> QED
    BY <2>3, <2>4
<1>2. \A s \in Requests : s # r => req'[s] = req[s]
  BY <1>1 DEF Step, GetUser, CreateUser, RefreshUser, CountAdmins, GetTarget, Write,
     DeleteUser, Fails, Admit, Load, Goto, Done, SInv, TypeOK
<1>3. ASSUME Done(r)
      PROVE  ~InFlight(r)'
  BY <1>3 DEF Done, InFlight, SInv, TypeOK
<1>4. ASSUME NEW pc, NEW copy, Goto(r, pc, copy), req[r] \in Request,
             pc \in HandlerPcs => req[r].pc \in HandlerPcs
      PROVE  Authorised(req'[r])
  <2>1. PICK p \in Request : p = req[r]
    BY <1>4
  <2>2. Authorised(p)
    BY <2>1 DEF SInv, InFlight, Idle, Request
  <2>3. /\ req'[r].op = p.op /\ req'[r].by = p.by /\ req'[r].target = p.target
        /\ req'[r].pc = pc
    BY <1>4, <2>1 DEF Goto, SInv, TypeOK, Request
  <2> QED
    BY <1>4, <2>1, <2>2, <2>3 DEF Authorised
<1>5. req[r].pc \in Pcs => req[r] \in Request
  BY DEF SInv, TypeOK, Idle, Pcs
<1>6. CASE GetUser(r)
  <2>1. req[r].pc = "get_user" /\ req[r] \in Request
    BY <1>5, <1>6 DEF GetUser, At, Pcs
  <2>2. CASE Exists(req[r].by)
    BY <1>2, <1>6, <2>1, <2>2, AdmitAuthorised DEF GetUser
  <2>3. CASE ~Exists(req[r].by)
    BY <1>2, <1>4, <1>6, <2>1, <2>3 DEF GetUser, HandlerPcs
  <2> QED
    BY <2>2, <2>3
<1>7. CASE CreateUser(r)
  <2>1. req[r] \in Request
    BY <1>5, <1>7 DEF CreateUser, At, Pcs
  <2> QED
    BY <1>2, <1>3, <1>4, <1>7, <2>1 DEF CreateUser, HandlerPcs
<1>8. CASE RefreshUser(r)
  BY <1>2, <1>3, <1>8, AdmitAuthorised DEF RefreshUser, At
<1>9. ASSUME Load(r), req[r].pc \in HandlerPcs
      PROVE  InFlight(r)' => Authorised(req'[r])
  <2>1. req[r] \in Request
    BY <1>5, <1>9 DEF HandlerPcs, Pcs
  <2> QED
    BY <1>3, <1>4, <1>9, <2>1 DEF Load
<1>10. CASE CountAdmins(r)
  <2>1. req[r].pc \in HandlerPcs /\ req[r] \in Request
    BY <1>5, <1>10 DEF CountAdmins, At, HandlerPcs, Pcs
  <2> QED
    BY <1>2, <1>3, <1>4, <1>9, <1>10, <2>1 DEF CountAdmins
<1>11. CASE GetTarget(r)
  BY <1>2, <1>9, <1>11 DEF GetTarget, At, HandlerPcs
<1>12. CASE Write(r) \/ DeleteUser(r) \/ Fails(r)
  BY <1>2, <1>3, <1>12 DEF Write, DeleteUser, Fails
<1> QED
  BY <1>1, <1>2, <1>6, <1>7, <1>8, <1>10, <1>11, <1>12 DEF Step

LEMMA InitStrangers == Init => SInv
<1> SUFFICES ASSUME Init PROVE SInv
  OBVIOUS
<1>1. ActiveAdmins = {}
  BY DEF Init, ActiveAdmins, Admins, NoRow
<1> QED
  BY <1>1, InitType DEF Init, SInv, InFlight

LEMMA NextStrangers == SInv /\ [Next]_vars => SInv'
<1> SUFFICES ASSUME SInv, [Next]_vars PROVE SInv'
  OBVIOUS
<1>1. TypeOK'
  BY NextType DEF SInv
<1>2. CASE Next
  <2>1. PICK r \in Requests : Step(r)
    BY <1>2 DEF Next
  <2>2. trusted \subseteq trusted' /\ ActiveAdmins' \subseteq trusted'
    BY <1>2 DEF Next
  <2>3. ASSUME NEW s \in Requests, InFlight(s)'
        PROVE  Authorised(req[s])'
    <3>1. Authorised(req'[s])
      BY <2>1, <2>3, StepAuthorised DEF SInv, InFlight
    <3> QED
      BY <2>2, <3>1 DEF Authorised
  <2> QED
    BY <1>1, <2>2, <2>3 DEF SInv
<1>3. CASE UNCHANGED vars
  BY <1>1, <1>3 DEF vars, SInv, InFlight, Authorised, ActiveAdmins, Admins
<1> QED
  BY <1>2, <1>3

\* Only three transactions change a row, and each ends or moves its request on.
LEMMA StrangersStep ==
    ASSUME SInv, NEW r \in Requests, Step(r), NEW u \in Users, row'[u] # row[u]
    PROVE  req'[r] # req[r] /\ req[r].by \in trusted \union {u}
<1>1. CASE CreateUser(r)
  <2>1. PICK p \in Request : p = req[r] /\ p.pc = "create_user"
    BY <1>1 DEF CreateUser, At, SInv, TypeOK, Idle
  <2>2. row' = [row EXCEPT ![p.by] = p.copy]
    BY <1>1, <2>1 DEF CreateUser, Store
  <2>3. u = p.by
    BY <2>1, <2>2 DEF SInv, TypeOK, Request
  <2>4. req'[r].pc # "create_user"
    BY <1>1, <2>1 DEF CreateUser, Goto, Done, Idle, SInv, TypeOK, Request
  <2> QED
    BY <2>1, <2>3, <2>4
<1>2. CASE Write(r) \/ DeleteUser(r)
  <2>1. PICK p \in Request : p = req[r] /\ p.pc \in {"write", "delete"}
    BY <1>2 DEF Write, DeleteUser, At, SInv, TypeOK, Idle
  <2>2. Authorised(p)
    BY <2>1 DEF SInv, InFlight, Idle
  <2>3. PICK new : row' = [row EXCEPT ![p.target] = new]
    BY <1>2, <2>1 DEF Write, DeleteUser, Store
  <2>4. u = p.target
    BY <2>1, <2>3 DEF SInv, TypeOK, Request
  <2>5. req'[r].pc = "idle"
    BY <1>2 DEF Write, DeleteUser, Done, Idle, SInv, TypeOK
  <2> QED
    BY <2>1, <2>2, <2>4, <2>5 DEF Authorised, HandlerPcs
<1> QED
  BY <1>1, <1>2 DEF Step, Arrive, GetUser, RefreshUser, CountAdmins, GetTarget, Fails

\* However requests overlap and whatever clients ask for, the row of a user is
\* changed only by that user and by those who have been active administrators.
THEOREM StrangersChangeNothingAlways == Spec => StrangersChangeNothing
<1>1. ASSUME SInv, [Next]_vars
      PROVE  [\A u \in Users : row'[u] # row[u] =>
                 \E r \in Requests :
                     /\ req'[r] # req[r]
                     /\ req[r].by \in trusted \union {u}]_vars
  <2>1. CASE Next
    <3>1. PICK r \in Requests : Step(r)
      BY <2>1 DEF Next
    <3> QED
      BY <1>1, <3>1, StrangersStep
  <2> QED
    BY <1>1, <2>1
<1> QED
  BY <1>1, InitStrangers, NextStrangers, PTL DEF Spec, StrangersChangeNothing

-----------------------------------------------------------------------------
(* Privilege is granted.                                                   *)

\* A row that rises was inserted first of all, or written by an administrator,
\* or its request was outrun.
LEMMA GrantStep ==
    ASSUME IInv, SInv, NEW r \in Requests, Step(r), NEW u \in Users, Rises(u)
    PROVE  /\ req'[r] # req[r]
           /\ \/ req[r].by \in ActiveAdmins
              \/ req[r].by = u /\ \A v \in Users : ~Exists(v)
              \/ /\ r \in outrun
                 /\ \/ req[r].by \in trusted
                    \/ req[r].by = u /\ req[r].copy = FirstRow
<1>1. row' # row
  BY DEF Rises
<1>2. CASE CreateUser(r)
  <2>1. PICK p \in Request : p = req[r] /\ p.pc = "create_user"
    BY <1>2 DEF CreateUser, At, IInv, TypeOK, Idle
  <2>2. Shape(p) /\ (r \notin outrun => Sound(p)) /\ p.by \in Users
    BY <2>1 DEF IInv, Settled, InFlight, Idle, Request
  <2>3. ~Exists(p.by) /\ row' = [row EXCEPT ![p.by] = p.copy]
    BY <1>1, <1>2, <2>1 DEF CreateUser, Store
  <2>4. u = p.by /\ row'[u] = p.copy /\ row[u] = NoRow
    BY <2>2, <2>3 DEF Rises, IInv, TypeOK, Exists
  <2>5. p.copy = FirstRow
    BY <2>1, <2>2, <2>4 DEF Shape, Rises, NewRow, NoRow
  <2>6. req'[r].pc = "refresh_user"
    BY <1>2, <2>1, <2>3 DEF CreateUser, Goto, IInv, TypeOK, Request
  <2>7. r \notin outrun => \A v \in Users : ~Exists(v)
    BY <2>1, <2>2, <2>5 DEF Sound
  <2> QED
    BY <2>1, <2>4, <2>5, <2>6, <2>7
<1>3. CASE Write(r)
  <2>1. PICK p \in Request : p = req[r] /\ p.pc = "write"
    BY <1>3 DEF Write, At, IInv, TypeOK, Idle
  <2>2. Shape(p) /\ (r \notin outrun => Sound(p)) /\ Authorised(p)
    BY <2>1 DEF IInv, Settled, InFlight, Idle, SInv
  <2>3. p.op \in AdminOps /\ p.op # "delete_me"
    BY <2>1, <2>2 DEF Shape, AdminOps
  <2>4. p.by \in trusted /\ (r \notin outrun => p.by \in ActiveAdmins)
    BY <2>1, <2>2, <2>3 DEF Sound, Authorised, HandlerPcs
  <2>5. req'[r].pc = "idle"
    BY <1>3 DEF Write, Done, Idle, IInv, TypeOK
  <2> QED
    BY <2>1, <2>4, <2>5
<1>4. CASE DeleteUser(r)
  <2>1. PICK p \in Request : p = req[r]
    BY <1>4 DEF DeleteUser, At, IInv, TypeOK, Idle
  <2>2. row'[u] = row[u] \/ row'[u] = NoRow
    BY <1>4, <2>1 DEF DeleteUser, Store, IInv, TypeOK, Request
  <2> QED
    BY <2>2 DEF Rises, NoRow
<1> QED
  BY <1>1, <1>2, <1>3, <1>4
     DEF Step, Arrive, GetUser, RefreshUser, CountAdmins, GetTarget, Fails

\* In every interleaving: whoever becomes active or administrator was let in by
\* an active administrator or inserted into an empty table, but for requests
\* that were outrun since the guard or since they found the table empty.
THEOREM PrivilegeIsGrantedAlways == Spec => PrivilegeIsGranted
<1>1. ASSUME IInv, SInv, [Next]_vars
      PROVE  [\A u \in Users : Rises(u) =>
                 \E r \in Requests :
                     /\ req'[r] # req[r]
                     /\ \/ req[r].by \in ActiveAdmins
                        \/ req[r].by = u /\ \A v \in Users : ~Exists(v)
                        \/ /\ r \in outrun
                           /\ \/ req[r].by \in trusted
                              \/ req[r].by = u /\ req[r].copy = FirstRow]_vars
  <2>1. CASE Next
    <3>1. PICK r \in Requests : Step(r)
      BY <2>1 DEF Next
    <3> QED
      BY <1>1, <3>1, GrantStep
  <2> QED
    BY <1>1, <2>1
<1>2. IInv /\ [Next]_vars => IInv'
  BY NextInv
<1> QED
  BY <1>1, <1>2, InitInv, InitStrangers, NextStrangers, PTL DEF Spec, PrivilegeIsGranted
=============================================================================
