----------------------------- MODULE ProxyRoutes -----------------------------
(***************************************************************************)
(* routes.json, the file that tells mc-router which miniverse a subdomain  *)
(* leads to, next to the table it is generated from. A request that        *)
(* creates, changes or deletes a miniverse commits the row first and       *)
(* writes the whole file later, from the rows its transaction has read:    *)
(* the snapshot that begins with the last refresh, before Docker starts    *)
(* the container. Requests overlap as they like; the API may be killed     *)
(* between any two steps and writes the file again when it starts, before  *)
(* the hooks that may end the start.                                       *)
(*                                                                         *)
(* The router watches the file, so the SIGHUP it is sent as well is not    *)
(* modelled, and of the columns only the subdomain is: an update that      *)
(* leaves it and changes allow_bedrock writes the file as well.            *)
(***************************************************************************)
EXTENDS Naturals

CONSTANTS
    Miniverses,     \* ids; each belongs to one miniverse for ever
    Subdomains,
    NoOne,          \* the subdomain leads nowhere
    Requests,       \* slots for requests in flight
    MaxFaults       \* bound on failed calls and kills of the API

ASSUME NoOneAssumption == NoOne \notin Miniverses
ASSUME SubdomainsAssumption ==
    Subdomains # {} /\ {"unborn", "gone", "same"} \cap Subdomains = {}
ASSUME FaultsAssumption == MaxFaults \in Nat

VARIABLES
    api,        \* "down", "starting" (its file is written) or "up", serving
    table,      \* the subdomain of each miniverse that has a row
    routes,     \* routes.json, or Truncated
    req,        \* what each request is doing
    behind,     \* observer: a request failed half way or met another one since
                \* the file was last written with nobody else about
    faults

vars == <<api, table, routes, req, behind, faults>>

Rows == [Miniverses -> Subdomains \union {"unborn", "gone"}]
Files == [Subdomains -> Miniverses \union {NoOne}]
Truncated == <<>>       \* open(..., "w") has emptied the file

Ops == {"create", "update", "delete"}
Pcs == {"check", "commit", "refresh", "write"}
Same == "same"          \* the request names no subdomain, or the one it has
Request == {q \in [op : Ops, m : Miniverses, s : Subdomains \union {Same}, pc : Pcs,
                   seen : Rows, alone : BOOLEAN] : q.op = "create" => q.s # Same}
Idle == [pc |-> "idle"]

TypeOK ==
    /\ api \in {"down", "starting", "up"}
    /\ table \in Rows
    /\ routes \in Files \union {Truncated}
    /\ req \in [Requests -> Request \union {Idle}]
    /\ behind \in BOOLEAN
    /\ faults \in 0 .. MaxFaults

Holders(rows, s) == {m \in Miniverses : rows[m] = s}

\* generate_router_routes: of the rows that share a subdomain one wins.
Mappings(rows) ==
    {f \in Files : \A s \in Subdomains :
        IF Holders(rows, s) = {} THEN f[s] = NoOne ELSE f[s] \in Holders(rows, s)}

Init ==
    /\ api = "down"
    /\ table = [m \in Miniverses |-> "unborn"]
    /\ routes = Truncated
    /\ req = [r \in Requests |-> Idle]
    /\ behind = FALSE
    /\ faults = 0

-----------------------------------------------------------------------------
At(r, pc) == req[r].pc = pc
AllIdle == \A r \in Requests : req[r] = Idle
Goto(r, pc) == req' = [req EXCEPT ![r].pc = pc]
Done(r) == req' = [req EXCEPT ![r] = Idle]
Store(m, value) == table' = [table EXCEPT ![m] = value]

\* A request for a miniverse; create_miniverse takes any subdomain and a new id.
\* Every request in flight learns that it is not alone.
Arrive(r, op, m, s) ==
    /\ api = "up"
    /\ req[r] = Idle
    /\ op = "create" => /\ table[m] = "unborn" /\ s # Same
                        /\ \A q \in Requests : req[q] # Idle => req[q].m # m
    /\ op = "delete" => s = Same
    /\ req' = [q \in Requests |->
                 IF q = r
                 THEN [op |-> op, m |-> m, s |-> s, seen |-> table, alone |-> AllIdle,
                       pc |-> IF op = "create" THEN "commit" ELSE "check"]
                 ELSE IF req[q] = Idle THEN Idle ELSE [req[q] EXCEPT !.alone = FALSE]]
    /\ behind' = (behind \/ ~AllIdle)
    /\ UNCHANGED <<api, table, routes, faults>>

\* get_miniverse, and the unique subdomain of an update, in one snapshot.
Refused(q) ==
    \/ table[q.m] \notin Subdomains
    \/ q.op = "update" /\ Holders(table, q.s) # {}

Check(r) ==
    /\ At(r, "check")
    /\ IF Refused(req[r]) THEN Done(r) ELSE Goto(r, "commit")
    /\ UNCHANGED <<api, table, routes, behind, faults>>

CommitCreate(r) ==
    /\ At(r, "commit") /\ req[r].op = "create"
    /\ Goto(r, "refresh")
    /\ Store(req[r].m, req[r].s)
    /\ UNCHANGED <<api, routes, behind, faults>>

\* Mutant: a field the request does not name is written as well
CommitUpdateAbsent(r) ==
    /\ At(r, "commit") /\ req[r].op = "update"
    /\ IF table[req[r].m] = "gone"
       THEN Done(r) /\ UNCHANGED table
       ELSE Goto(r, "refresh") /\ Store(req[r].m, req[r].s)
    /\ UNCHANGED <<api, routes, behind, faults>>

\* An UPDATE that finds its row gone raises; a DELETE is content.
CommitUpdate(r) ==
    /\ At(r, "commit") /\ req[r].op = "update"
    /\ IF table[req[r].m] = "gone"
       THEN Done(r) /\ UNCHANGED table
       ELSE /\ Goto(r, "refresh")
            /\ IF req[r].s = Same THEN UNCHANGED table ELSE Store(req[r].m, req[r].s)
    /\ UNCHANGED <<api, routes, behind, faults>>

CommitDelete(r) ==
    /\ At(r, "commit") /\ req[r].op = "delete"
    /\ Goto(r, "refresh")
    /\ Store(req[r].m, "gone")
    /\ UNCHANGED <<api, routes, behind, faults>>

\* Mutant: the rows are those read with the miniverse, before the commit
RefreshEarlier(r) ==
    /\ At(r, "refresh")
    /\ IF req[r].op # "delete" /\ table[req[r].m] \notin Subdomains
       THEN Done(r)
       ELSE Goto(r, "write")
    /\ UNCHANGED <<api, table, routes, behind, faults>>

\* The snapshot: db.refresh, which raises when the row is gone, or the SELECT.
Refresh(r) ==
    /\ At(r, "refresh")
    /\ IF req[r].op # "delete" /\ table[req[r].m] \notin Subdomains
       THEN Done(r)
       ELSE req' = [req EXCEPT ![r].pc = "write", ![r].seen = table]
    /\ UNCHANGED <<api, table, routes, behind, faults>>

\* Mutant: the router gets the new file only when something is added
WriteUnlessDeleted(r) ==
    /\ At(r, "write")
    /\ IF req[r].op = "delete" THEN UNCHANGED routes ELSE routes' \in Mappings(req[r].seen)
    /\ Done(r)
    /\ behind' = (behind /\ ~req[r].alone)
    /\ UNCHANGED <<api, table, faults>>

\* update_proxy_config
Write(r) ==
    /\ At(r, "write")
    /\ routes' \in Mappings(req[r].seen)
    /\ Done(r)
    /\ behind' = (behind /\ ~req[r].alone)
    /\ UNCHANGED <<api, table, faults>>

-----------------------------------------------------------------------------
(* Faults.                                                                 *)

\* A call fails: Docker, the database, the store, or the checks and the mods of
\* a new game version, which come after the commit of the subdomain.
Fail(r) ==
    /\ req[r] # Idle
    /\ faults < MaxFaults
    /\ faults' = faults + 1
    /\ Done(r)
    /\ behind' = (behind \/ req[r].pc \in {"refresh", "write"})
    /\ UNCHANGED <<api, table, routes>>

\* The API is killed, maybe while it writes the file.
Crash ==
    /\ api # "down"
    /\ faults < MaxFaults
    /\ faults' = faults + 1
    /\ api' = "down"
    /\ req' = [r \in Requests |-> Idle]
    /\ \/ UNCHANGED routes
       \/ (\E r \in Requests : At(r, "write")) /\ routes' = Truncated
    /\ UNCHANGED <<table, behind>>

\* proxy_startup, the first hook
Startup ==
    /\ api = "down"
    /\ api' = "starting"
    /\ routes' \in Mappings(table)
    /\ behind' = FALSE
    /\ UNCHANGED <<table, req, faults>>

\* The other two hooks: they come through and requests are served, or raise,
\* which ends the process (at every start, if a row cannot be digested).
Serve ==
    /\ api = "starting"
    /\ api' = "up"
    /\ UNCHANGED <<table, routes, req, behind, faults>>

StartFails ==
    /\ api = "starting"
    /\ api' = "down"
    /\ UNCHANGED <<table, routes, req, behind, faults>>

-----------------------------------------------------------------------------
Next ==
    \/ \E r \in Requests :
        \/ \E op \in Ops, m \in Miniverses, s \in Subdomains \union {Same} :
               Arrive(r, op, m, s)
        \/ Check(r) \/ CommitCreate(r) \/ CommitUpdate(r) \/ CommitDelete(r)
        \/ Refresh(r) \/ Write(r) \/ Fail(r)
    \/ Crash
    \/ Startup \/ Serve \/ StartFails

Spec == Init /\ [][Next]_vars

-----------------------------------------------------------------------------
(* Properties.                                                             *)

\* With no request in flight the file says what the table says, unless a
\* request failed after its commit or ran beside another one; the next request
\* that runs by itself, or the next start of the API, makes up for both.  The
\* start does so before its other hooks, so the file is also right when they
\* raise, and after a kill that left a row without its route or half a file.
RoutesCurrent == api # "down" /\ AllIdle /\ ~behind => routes \in Mappings(table)

\* However requests overlap, the file a request writes leads nobody to a
\* miniverse it deleted, and leads the subdomain of the one it created or
\* changed somewhere.
OwnChangeRouted ==
    [][\A r \in Requests : Write(r) =>
        IF req[r].op = "delete"
        THEN \A s \in Subdomains : routes'[s] # req[r].m
        ELSE \E s \in Subdomains : req[r].seen[req[r].m] = s /\ routes'[s] # NoOne]_vars
=============================================================================
