-------------------------- MODULE ProxyRoutesProofs --------------------------
(***************************************************************************)
(* Theorems about ProxyRoutes, for any number of miniverses, subdomains,   *)
(* requests and faults.                                                    *)
(*                                                                         *)
(* RoutesCurrent is not inductive: it takes that a request without company *)
(* still vouches for what it has read (Vouched), that company always shows *)
(* in behind (Company), and what each request knows of its own miniverse   *)
(* whoever overlaps with it (Known).                                       *)
(***************************************************************************)
EXTENDS ProxyRoutes, TLAPS

-----------------------------------------------------------------------------
(* Types.                                                                  *)

LEMMA GotoType ==
    ASSUME NEW r \in Requests, NEW pc \in Pcs, TypeOK, req[r] # Idle, Goto(r, pc)
    PROVE  req' \in [Requests -> Request \union {Idle}]
<1>1. req[r] \in Request
  BY DEF TypeOK
<1>2. [req[r] EXCEPT !.pc = pc] \in Request
  BY <1>1 DEF Request
<1> QED
  BY <1>2 DEF Goto, TypeOK

LEMMA DoneType ==
    ASSUME NEW r \in Requests, TypeOK, Done(r)
    PROVE  req' \in [Requests -> Request \union {Idle}]
BY DEF Done, TypeOK

\* A request at one of its program counters is in flight, with its fields.
LEMMA InFlightType ==
    ASSUME NEW r \in Requests, TypeOK, req[r].pc \in Pcs \/ req[r] # Idle
    PROVE  req[r] # Idle /\ req[r] \in Request
BY DEF TypeOK, Idle, Pcs

LEMMA MappingsType ==
    ASSUME NEW rows, NEW f \in Mappings(rows)
    PROVE  f \in Files
BY DEF Mappings

\* What the refresh reads is the snapshot of the table.
LEMMA SnapshotType ==
    ASSUME NEW r \in Requests, TypeOK, req[r] \in Request,
           req' = [req EXCEPT ![r].pc = "write", ![r].seen = table]
    PROVE  req' \in [Requests -> Request \union {Idle}]
<1>1. [req[r] EXCEPT !.pc = "write", !.seen = table] \in Request
  BY DEF Request, Pcs, TypeOK
<1> QED
  BY <1>1 DEF TypeOK

LEMMA ArriveType ==
    ASSUME NEW r \in Requests, NEW op \in Ops, NEW m \in Miniverses,
           NEW s \in Subdomains \union {Same}, TypeOK, Arrive(r, op, m, s)
    PROVE  req' \in [Requests -> Request \union {Idle}]
<1> DEFINE new == [op |-> op, m |-> m, s |-> s, seen |-> table, alone |-> AllIdle,
                   pc |-> IF op = "create" THEN "commit" ELSE "check"]
           at(q) == IF q = r THEN new
                    ELSE IF req[q] = Idle THEN Idle ELSE [req[q] EXCEPT !.alone = FALSE]
<1>1. AllIdle \in BOOLEAN
  BY DEF AllIdle
<1>2. new \in Request
  BY <1>1 DEF Request, Pcs, TypeOK, Arrive
<1>3. ASSUME NEW q \in Requests
      PROVE  at(q) \in Request \union {Idle}
  BY <1>2 DEF TypeOK, Request
<1>4. req' = [q \in Requests |-> at(q)]
  BY DEF Arrive
<1> QED
  BY <1>3, <1>4

Commit(r) == CommitCreate(r) \/ CommitUpdate(r) \/ CommitDelete(r)

\* What a commit does to the row of its miniverse.
Stores(r) ==
    /\ req[r].op = "update" => table[req[r].m] # "gone"
    /\ \/ \E x \in Subdomains \union {"gone"} :
              Store(req[r].m, x) /\ (req[r].op = "delete" <=> x = "gone")
       \/ req[r].op = "update" /\ UNCHANGED table

\* A commit gives its miniverse a subdomain, leaves the table as it is, or
\* deletes the row; an update whose row is gone raises.
LEMMA CommitEffect ==
    ASSUME NEW r \in Requests, TypeOK, Commit(r)
    PROVE  /\ req[r] # Idle /\ req[r] \in Request /\ req[r].pc = "commit"
           /\ UNCHANGED <<api, routes, behind, faults>>
           /\ \/ Done(r) /\ UNCHANGED table
              \/ Goto(r, "refresh") /\ Stores(r)
<1>1. req[r] # Idle /\ req[r] \in Request /\ req[r].pc = "commit"
  BY InFlightType DEF Commit, CommitCreate, CommitUpdate, CommitDelete, At, Pcs
<1>2. UNCHANGED <<api, routes, behind, faults>>
  BY DEF Commit, CommitCreate, CommitUpdate, CommitDelete
<1>3. \A s \in Subdomains : s # "gone"
  BY SubdomainsAssumption
<1>4. req[r].s \in Subdomains \union {Same}
  BY <1>1 DEF Request
<1>5. CASE CommitCreate(r)
  <2>1. req[r].s \in Subdomains
    BY <1>1, <1>4, <1>5 DEF CommitCreate, Request
  <2> QED
    BY <1>1, <1>2, <1>3, <1>5, <2>1 DEF CommitCreate, Stores
<1>6. CASE CommitUpdate(r)
  BY <1>1, <1>2, <1>3, <1>4, <1>6 DEF CommitUpdate, Stores
<1>7. CASE CommitDelete(r)
  BY <1>1, <1>2, <1>7 DEF CommitDelete, Stores
<1> QED
  BY <1>5, <1>6, <1>7 DEF Commit

LEMMA InitType == Init => TypeOK
<1> SUFFICES ASSUME Init PROVE TypeOK
  OBVIOUS
<1>1. faults \in 0 .. MaxFaults
  BY FaultsAssumption DEF Init
<1>2. table \in Rows /\ req \in [Requests -> Request \union {Idle}]
  BY DEF Init, Rows
<1> QED
  BY <1>1, <1>2 DEF Init, TypeOK

LEMMA NextType == TypeOK /\ [Next]_vars => TypeOK'
<1> SUFFICES ASSUME TypeOK, [Next]_vars PROVE TypeOK'
  OBVIOUS
<1>1. ASSUME NEW r \in Requests, NEW op \in Ops, NEW m \in Miniverses,
             NEW s \in Subdomains \union {Same}, Arrive(r, op, m, s)
      PROVE  TypeOK'
  <2>1. behind' \in BOOLEAN
    BY <1>1 DEF Arrive, TypeOK, AllIdle
  <2> QED
    BY <1>1, <2>1, ArriveType DEF Arrive, TypeOK
<1>2. ASSUME NEW r \in Requests, Check(r)
      PROVE  TypeOK'
  <2>1. req[r] # Idle /\ "commit" \in Pcs
    BY <1>2, InFlightType DEF Check, At, Pcs
  <2> QED
    BY <1>2, <2>1, GotoType, DoneType DEF Check, TypeOK
<1>3. ASSUME NEW r \in Requests, Commit(r)
      PROVE  TypeOK'
  <2>1. /\ req[r] # Idle /\ req[r].m \in Miniverses /\ "refresh" \in Pcs
        /\ UNCHANGED <<api, routes, behind, faults>>
    BY <1>3, CommitEffect DEF Request, Pcs
  <2>2. CASE Done(r) /\ UNCHANGED table
    BY <2>1, <2>2, DoneType DEF TypeOK
  <2>3. CASE Goto(r, "refresh") /\ Stores(r)
    <3>1. req' \in [Requests -> Request \union {Idle}]
      BY <2>1, <2>3, GotoType
    <3>2. table' \in Rows
      BY <2>1, <2>3 DEF Stores, Store, TypeOK, Rows
    <3> QED
      BY <2>1, <3>1, <3>2 DEF TypeOK
  <2> QED
    BY <1>3, <2>2, <2>3, CommitEffect
<1>4. ASSUME NEW r \in Requests, Refresh(r)
      PROVE  TypeOK'
  <2>1. req[r] \in Request
    BY <1>4, InFlightType DEF Refresh, At, Pcs
  <2>2. req' \in [Requests -> Request \union {Idle}]
    BY <1>4, <2>1, DoneType, SnapshotType DEF Refresh
  <2> QED
    BY <1>4, <2>2 DEF Refresh, TypeOK
<1>5. ASSUME NEW r \in Requests, Write(r)
      PROVE  TypeOK'
  <2>1. behind' \in BOOLEAN
    BY <1>5 DEF Write, TypeOK
  <2>2. routes' \in Files
    BY <1>5, MappingsType DEF Write
  <2> QED
    BY <1>5, <2>1, <2>2, DoneType DEF Write, TypeOK
<1>6. ASSUME NEW r \in Requests, Fail(r)
      PROVE  TypeOK'
  <2>1. faults' \in 0 .. MaxFaults
    BY <1>6, FaultsAssumption DEF Fail, TypeOK
  <2>2. behind' \in BOOLEAN
    BY <1>6 DEF Fail, TypeOK
  <2> QED
    BY <1>6, <2>1, <2>2, DoneType DEF Fail, TypeOK
<1>7. CASE Crash
  <2>1. faults' \in 0 .. MaxFaults
    BY <1>7, FaultsAssumption DEF Crash, TypeOK
  <2> QED
    BY <1>7, <2>1 DEF Crash, TypeOK
<1>8. CASE Startup
  BY <1>8, MappingsType DEF Startup, TypeOK
<1>10. CASE Serve \/ StartFails
  BY <1>10 DEF Serve, StartFails, TypeOK
<1>9. CASE UNCHANGED vars
  BY <1>9 DEF vars, TypeOK
<1> QED
  BY <1>1, <1>2, <1>3, <1>4, <1>5, <1>6, <1>7, <1>8, <1>9, <1>10 DEF Next, Commit

\* Table, file and requests keep their types, for any of them and any faults.
THEOREM TypeCorrect == Spec => []TypeOK
<1> QED
  BY InitType, NextType, PTL DEF Spec

-----------------------------------------------------------------------------
(* The invariant.                                                          *)

\* What a request knows of its miniverse, however many others are in flight:
\* an id is created once, and a deleted miniverse never comes back.
Known(q) ==
    /\ q.op = "create" => q.pc # "check"
    /\ q.op = "create" /\ q.pc = "commit" => table[q.m] = "unborn"
    /\ q.op # "create" /\ q.pc = "commit" => table[q.m] # "unborn"
    /\ q.pc \in {"refresh", "write"} => table[q.m] # "unborn"
    /\ q.op = "delete" /\ q.pc \in {"refresh", "write"} => table[q.m] = "gone"
    /\ q.op = "delete" /\ q.pc = "write" => q.seen[q.m] = "gone"
    /\ q.op # "delete" /\ q.pc = "write" => q.seen[q.m] \in Subdomains

\* What a request without company knows besides.
Vouched(q) ==
    /\ q.op # "delete" /\ q.pc = "refresh" => table[q.m] \in Subdomains
    /\ q.pc = "write" => q.seen = table

InFlight(r) == req[r] # Idle

OneCreator ==
    \A r, q \in Requests : /\ InFlight(r) /\ InFlight(q) /\ r # q
                           /\ req[r].op = "create" /\ req[q].op = "create"
                           => req[r].m # req[q].m

Company ==
    \A r \in Requests : InFlight(r) =>
        IF req[r].alone THEN \A q \in Requests : q # r => ~InFlight(q) ELSE behind

Downtime == api # "up" => AllIdle

\* Between a commit and the write that follows it the file may be late.
Late == \E r \in Requests : req[r].pc \in {"refresh", "write"}
RoutesFollow == api # "down" /\ ~behind /\ ~Late => routes \in Mappings(table)

Informed ==
    \A r \in Requests : InFlight(r) => /\ Known(req[r])
                                       /\ req[r].alone => Vouched(req[r])

IInv == TypeOK /\ OneCreator /\ Company /\ Downtime /\ RoutesFollow /\ Informed

\* A step of request r, given what it does to the table and to the others.
LEMMA OwnStep ==
    ASSUME IInv, TypeOK', NEW r \in Requests, InFlight(r), api' = api,
           \A q \in Requests : q # r => req'[q] = req[q],
           InFlight(r)' => /\ req'[r].op = req[r].op /\ req'[r].m = req[r].m
                           /\ req'[r].alone = req[r].alone
                           /\ Known(req[r])'
                           /\ req[r].alone => Vouched(req[r])',
           \A q \in Requests : q # r /\ InFlight(q) => Known(req[q])',
           behind /\ ~behind' => req[r].alone /\ ~InFlight(r)',
           RoutesFollow'
    PROVE  IInv'
<1>1. OneCreator'
  <2> SUFFICES ASSUME NEW s \in Requests, NEW q \in Requests, s # q,
                      InFlight(s)', InFlight(q)',
                      req'[s].op = "create", req'[q].op = "create"
               PROVE  req'[s].m # req'[q].m
    BY DEF OneCreator
  <2>1. InFlight(s) /\ req[s].op = "create" /\ req'[s].m = req[s].m
    BY DEF InFlight
  <2>2. InFlight(q) /\ req[q].op = "create" /\ req'[q].m = req[q].m
    BY DEF InFlight
  <2> QED
    BY <2>1, <2>2 DEF IInv, OneCreator
<1>2. ASSUME NEW s \in Requests, InFlight(s)'
      PROVE  IF req'[s].alone THEN \A q \in Requests : q # s => ~InFlight(q)' ELSE behind'
  <2>1. InFlight(s) /\ req'[s].alone = req[s].alone
    BY <1>2 DEF InFlight
  <2>2. CASE req[s].alone
    <3>1. \A q \in Requests : q # s => ~InFlight(q)
      BY <2>1, <2>2 DEF IInv, Company
    <3>2. s = r
      BY <3>1
    <3> QED
      BY <2>1, <2>2, <3>1, <3>2 DEF InFlight
  <2>3. CASE ~req[s].alone
    <3>1. behind
      BY <2>1, <2>3 DEF IInv, Company
    <3>2. s # r => ~req[r].alone
      BY <2>1 DEF IInv, Company
    <3> QED
      BY <1>2, <2>1, <2>3, <3>1, <3>2
  <2> QED
    BY <2>2, <2>3
<1>3. Company'
  BY <1>2 DEF Company
<1>4. Downtime'
  BY DEF IInv, Downtime, AllIdle, InFlight
<1>5. ASSUME NEW s \in Requests, InFlight(s)'
      PROVE  Known(req[s])' /\ (req'[s].alone => Vouched(req[s])')
  <2>1. CASE s = r
    BY <1>5, <2>1
  <2>2. CASE s # r
    <3>1. InFlight(s) /\ req'[s] = req[s]
      BY <1>5, <2>2 DEF InFlight
    <3>2. ~req[s].alone
      BY <2>2, <3>1 DEF IInv, Company
    <3> QED
      BY <2>2, <3>1, <3>2
  <2> QED
    BY <2>1, <2>2
<1> QED
  BY <1>1, <1>3, <1>4, <1>5 DEF IInv, Informed

\* With the table as it is the others know what they knew.
LEMMA OthersKnow ==
    ASSUME IInv, NEW r \in Requests, UNCHANGED table,
           \A q \in Requests : q # r => req'[q] = req[q]
    PROVE  \A q \in Requests : q # r /\ InFlight(q) => Known(req[q])'
BY DEF IInv, Informed, Known

LEMMA DoneStep ==
    ASSUME IInv, NEW r \in Requests, Done(r)
    PROVE  req'[r] = Idle /\ \A q \in Requests : q # r => req'[q] = req[q]
BY DEF Done, IInv, TypeOK

LEMMA GotoStep ==
    ASSUME IInv, NEW r \in Requests, InFlight(r), NEW pc, Goto(r, pc)
    PROVE  /\ req'[r] = [req[r] EXCEPT !.pc = pc]
           /\ req'[r].op = req[r].op /\ req'[r].m = req[r].m /\ req'[r].s = req[r].s
           /\ req'[r].alone = req[r].alone /\ req'[r].seen = req[r].seen
           /\ req'[r].pc = pc
           /\ \A q \in Requests : q # r => req'[q] = req[q]
<1>1. req[r] \in Request
  BY DEF IInv, TypeOK, InFlight
<1> QED
  BY <1>1 DEF Goto, IInv, TypeOK, Request

\* Nothing is late before the step and the table stays: the file still follows.
LEMMA StillFollows ==
    ASSUME IInv, NEW r \in Requests, UNCHANGED <<api, table, routes>>,
           behind => behind', req[r].pc \notin {"refresh", "write"} \/ behind',
           \A q \in Requests : q # r => req'[q] = req[q]
    PROVE  RoutesFollow'
<1> SUFFICES ASSUME (api # "down")', ~behind', ~Late'
             PROVE  routes' \in Mappings(table)'
  BY DEF RoutesFollow
<1>1. ~Late
  BY DEF Late
<1>2. routes \in Mappings(table)
  BY <1>1 DEF IInv, RoutesFollow
<1> QED
  BY <1>2 DEF Mappings, Holders

-----------------------------------------------------------------------------
(* The steps.                                                              *)

LEMMA Arriving ==
    ASSUME IInv, TypeOK', NEW r \in Requests, NEW op \in Ops, NEW m \in Miniverses,
           NEW s \in Subdomains \union {Same}, Arrive(r, op, m, s)
    PROVE  IInv'
<1> DEFINE new == [op |-> op, m |-> m, s |-> s, seen |-> table, alone |-> AllIdle,
                   pc |-> IF op = "create" THEN "commit" ELSE "check"]
<1>1. req'[r] = new /\ api' = api /\ api = "up"
  BY DEF Arrive
<1>2. ASSUME NEW q \in Requests, q # r, InFlight(q)'
      PROVE  /\ InFlight(q) /\ req[q] \in Request
             /\ req'[q] = [req[q] EXCEPT !.alone = FALSE]
  BY <1>2 DEF Arrive, InFlight, IInv, TypeOK
<1>3. ASSUME NEW q \in Requests, q # r, InFlight(q)'
      PROVE  /\ req'[q].op = req[q].op /\ req'[q].m = req[q].m /\ req'[q].pc = req[q].pc
             /\ req'[q].seen = req[q].seen /\ ~req'[q].alone
  BY <1>2, <1>3 DEF Request
<1>4. OneCreator'
  <2> SUFFICES ASSUME NEW p \in Requests, NEW q \in Requests, p # q,
                      InFlight(p)', InFlight(q)',
                      req'[p].op = "create", req'[q].op = "create"
               PROVE  req'[p].m # req'[q].m
    BY DEF OneCreator
  <2>1. ASSUME NEW o \in Requests, o # r, InFlight(o)', op = "create"
        PROVE  req'[o].m # m
    BY <1>2, <1>3, <2>1 DEF Arrive, InFlight
  <2>2. CASE p = r
    BY <1>1, <2>1, <2>2
  <2>3. CASE q = r
    BY <1>1, <2>1, <2>3
  <2>4. CASE p # r /\ q # r
    <3>1. InFlight(p) /\ req[p].op = "create" /\ req'[p].m = req[p].m
      BY <1>2, <1>3, <2>4
    <3>2. InFlight(q) /\ req[q].op = "create" /\ req'[q].m = req[q].m
      BY <1>2, <1>3, <2>4
    <3> QED
      BY <3>1, <3>2 DEF IInv, OneCreator
  <2> QED
    BY <2>2, <2>3, <2>4
<1>5. Company'
  <2>1. ASSUME NEW q \in Requests, InFlight(q)'
        PROVE  IF req'[q].alone THEN \A p \in Requests : p # q => ~InFlight(p)' ELSE behind'
    <3>1. CASE q = r /\ AllIdle
      <4>1. req'[q].alone
        BY <1>1, <3>1
      <4>2. \A p \in Requests : p # q => ~InFlight(p)'
        BY <1>2, <3>1 DEF AllIdle, InFlight
      <4> QED
        BY <4>1, <4>2
    <3>2. CASE q = r /\ ~AllIdle
      BY <1>1, <3>2 DEF Arrive
    <3>3. CASE q # r
      BY <1>2, <1>3, <2>1, <3>3 DEF Arrive, AllIdle, InFlight
    <3> QED
      BY <3>1, <3>2, <3>3
  <2> QED
    BY <2>1 DEF Company
<1>6. Downtime'
  BY <1>1 DEF Downtime
<1>7. RoutesFollow'
  <2> SUFFICES ASSUME ~behind'
               PROVE  routes' \in Mappings(table)'
    BY DEF RoutesFollow
  <2>1. ~behind /\ AllIdle
    BY DEF Arrive
  <2>2. ~Late
    BY <2>1 DEF AllIdle, Late, Idle
  <2>3. routes \in Mappings(table)
    BY <1>1, <2>1, <2>2 DEF IInv, RoutesFollow
  <2>4. UNCHANGED <<routes, table>>
    BY DEF Arrive
  <2> QED
    BY <2>3, <2>4 DEF Mappings, Holders
<1>8. table' = table
  BY DEF Arrive
<1>9. Informed'
  <2>1. ASSUME NEW q \in Requests, InFlight(q)'
        PROVE  Known(req[q])' /\ (req'[q].alone => Vouched(req[q])')
    <3>1. CASE q = r
      <4>1. /\ req'[q].op = op /\ req'[q].m = m
            /\ req'[q].pc = (IF op = "create" THEN "commit" ELSE "check")
        BY <1>1, <3>1
      <4>2. op = "create" => table[m] = "unborn"
        BY DEF Arrive
      <4> QED
        BY <1>8, <4>1, <4>2 DEF Known, Vouched
    <3>2. CASE q # r
      <4>1. Known(req[q])
        BY <1>2, <2>1, <3>2 DEF IInv, Informed
      <4> QED
        BY <1>3, <1>8, <2>1, <3>2, <4>1 DEF Known
    <3> QED
      BY <3>1, <3>2
  <2> QED
    BY <2>1 DEF Informed
<1> QED
  BY <1>4, <1>5, <1>6, <1>7, <1>9 DEF IInv

\* The row is there, and no other has the subdomain of an update.
LEMMA Checking ==
    ASSUME IInv, TypeOK', NEW r \in Requests, Check(r)
    PROVE  IInv'
<1>1. InFlight(r) /\ req[r] \in Request /\ req[r].pc = "check"
  BY InFlightType DEF Check, At, Pcs, IInv, InFlight
<1>2. UNCHANGED <<api, table, routes, behind>>
  BY DEF Check
<1>3. CASE Refused(req[r])
  <2>1. req'[r] = Idle /\ \A q \in Requests : q # r => req'[q] = req[q]
    BY <1>3, DoneStep DEF Check
  <2> QED
    BY <1>1, <1>2, <2>1, OwnStep, OthersKnow, StillFollows DEF InFlight
<1>4. CASE ~Refused(req[r])
  <2>1. Goto(r, "commit")
    BY <1>4 DEF Check
  <2>2. /\ req'[r].op = req[r].op /\ req'[r].m = req[r].m /\ req'[r].s = req[r].s
        /\ req'[r].alone = req[r].alone /\ req'[r].pc = "commit"
        /\ \A q \in Requests : q # r => req'[q] = req[q]
    BY <1>1, <2>1, GotoStep
  <2>3. table[req[r].m] \in Subdomains
    BY <1>4 DEF Refused
  <2>4. req[r].op # "create"
    BY <1>1 DEF IInv, Informed, Known
  <2>5. Known(req[r])'
    BY <1>2, <2>2, <2>3, <2>4, SubdomainsAssumption DEF Known
  <2>6. Vouched(req[r])'
    BY <2>2 DEF Vouched
  <2> QED
    BY <1>1, <1>2, <2>2, <2>5, <2>6, OwnStep, OthersKnow, StillFollows
<1> QED
  BY <1>3, <1>4

\* Nobody else can have heard of an id that is about to be created, and a
\* commit leaves a deleted miniverse deleted.
LEMMA Committing ==
    ASSUME IInv, TypeOK', NEW r \in Requests, Commit(r)
    PROVE  IInv'
<1>1. InFlight(r) /\ req[r] \in Request /\ req[r].pc = "commit"
  BY CommitEffect DEF IInv, InFlight
<1>2. UNCHANGED <<api, routes, behind>>
  BY CommitEffect DEF IInv
<1>3. CASE Done(r) /\ UNCHANGED table
  <2>1. req'[r] = Idle /\ \A q \in Requests : q # r => req'[q] = req[q]
    BY <1>3, DoneStep
  <2> QED
    BY <1>1, <1>2, <1>3, <2>1, OwnStep, OthersKnow, StillFollows DEF InFlight
<1>4. CASE Goto(r, "refresh") /\ Stores(r)
  <2>1. PICK p \in Request : p = req[r]
    BY <1>1
  <2>2. p.m \in Miniverses /\ p.op \in Ops /\ p.pc = "commit" /\ Known(p)
    BY <1>1, <2>1 DEF Request, IInv, Informed
  <2>3. PICK x \in Subdomains \union {"gone"} :
            /\ table' = [table EXCEPT ![p.m] = x]
            /\ p.op = "delete" <=> x = "gone"
            /\ table[p.m] = "gone" => x = "gone"
    <3>1. table[p.m] = "gone" => p.op = "delete"
      BY <1>4, <2>1, <2>2 DEF Stores, Known, Ops
    <3>2. CASE \E y \in Subdomains \union {"gone"} :
                   Store(p.m, y) /\ (p.op = "delete" <=> y = "gone")
      BY <3>1, <3>2 DEF Store
    <3>3. CASE p.op = "update" /\ UNCHANGED table
      <4>1. table[p.m] \in Subdomains
        BY <2>2, <3>1, <3>3 DEF IInv, TypeOK, Rows, Known
      <4>2. table' = [table EXCEPT ![p.m] = table[p.m]]
        BY <3>3 DEF IInv, TypeOK, Rows
      <4>3. table[p.m] # "gone"
        BY <3>1, <3>3
      <4> QED
        BY <3>3, <4>1, <4>2, <4>3
    <3> QED
      BY <1>4, <2>1, <3>2, <3>3 DEF Stores
  <2>4. table'[p.m] = x /\ \A m \in Miniverses : m # p.m => table'[m] = table[m]
    BY <2>2, <2>3 DEF IInv, TypeOK, Rows
  <2>5. /\ req'[r].op = p.op /\ req'[r].m = p.m
        /\ req'[r].alone = p.alone /\ req'[r].pc = "refresh"
        /\ \A q \in Requests : q # r => req'[q] = req[q]
    BY <1>1, <1>4, <2>1, GotoStep
  <2>6. x # "unborn"
    BY SubdomainsAssumption
  <2>7. Known(req[r])' /\ Vouched(req[r])'
    BY <2>2, <2>3, <2>4, <2>5, <2>6 DEF Known, Vouched
  <2>8. ASSUME NEW q \in Requests, q # r, InFlight(q)
        PROVE  Known(req[q])'
    <3>1. PICK o \in Request : o = req[q] /\ o = req'[q]
      BY <2>5, <2>8 DEF IInv, TypeOK, InFlight
    <3>2. Known(o) /\ Known(p)
      BY <1>1, <2>1, <2>8, <3>1 DEF IInv, Informed
    <3>3. CASE o.m # p.m
      BY <2>4, <3>1, <3>2, <3>3 DEF Known, Request
    <3>4. CASE o.m = p.m
      <4>1. o.op = "create" => p.op # "create"
        BY <1>1, <2>1, <2>8, <3>1, <3>4 DEF IInv, OneCreator
      <4>2. o.op = "create" => o.pc # "commit"
        BY <2>2, <3>2, <3>4, <4>1 DEF Known
      <4>3. Known(o)'
        BY <2>3, <2>4, <2>6, <3>2, <3>4, <4>2 DEF Known
      <4> QED
        BY <3>1, <4>3 DEF Known
    <3> QED
      BY <3>3, <3>4
  <2>9. RoutesFollow'
    BY <2>5 DEF RoutesFollow, Late
  <2> QED
    BY <1>1, <1>2, <2>1, <2>5, <2>7, <2>8, <2>9, OwnStep
<1> QED
  BY <1>3, <1>4, CommitEffect DEF IInv

\* The snapshot shows a request its own commit.
LEMMA Refreshing ==
    ASSUME IInv, TypeOK', NEW r \in Requests, Refresh(r)
    PROVE  IInv'
<1>1. InFlight(r) /\ req[r] \in Request /\ req[r].pc = "refresh"
  BY InFlightType DEF Refresh, At, Pcs, IInv, InFlight
<1>2. UNCHANGED <<api, table, routes, behind>>
  BY DEF Refresh
<1>3. Known(req[r]) /\ (req[r].alone => Vouched(req[r]))
  BY <1>1 DEF IInv, Informed
<1>4. CASE req[r].op # "delete" /\ table[req[r].m] \notin Subdomains
  <2>1. req'[r] = Idle /\ \A q \in Requests : q # r => req'[q] = req[q]
    BY <1>4, DoneStep DEF Refresh
  <2>2. ~req[r].alone
    BY <1>1, <1>3, <1>4 DEF Vouched
  <2>3. behind'
    BY <1>1, <1>2, <2>2 DEF IInv, Company
  <2> QED
    BY <1>1, <1>2, <2>1, <2>3, OwnStep, OthersKnow, StillFollows DEF InFlight
<1>5. CASE ~(req[r].op # "delete" /\ table[req[r].m] \notin Subdomains)
  <2>1. req' = [req EXCEPT ![r].pc = "write", ![r].seen = table]
    BY <1>5 DEF Refresh
  <2>2. /\ req'[r].op = req[r].op /\ req'[r].m = req[r].m
        /\ req'[r].alone = req[r].alone /\ req'[r].pc = "write"
        /\ req'[r].seen = table
        /\ \A q \in Requests : q # r => req'[q] = req[q]
    BY <1>1, <2>1 DEF IInv, TypeOK, Request
  <2>3. Known(req[r])'
    BY <1>1, <1>2, <1>3, <1>5, <2>2 DEF Known
  <2>4. Vouched(req[r])'
    BY <1>2, <2>2 DEF Vouched
  <2>5. RoutesFollow'
    BY <2>2 DEF RoutesFollow, Late
  <2> QED
    BY <1>1, <1>2, <2>2, <2>3, <2>4, <2>5, OwnStep, OthersKnow
<1> QED
  BY <1>4, <1>5

\* A request without company writes what the table says.
LEMMA Writing ==
    ASSUME IInv, TypeOK', NEW r \in Requests, Write(r)
    PROVE  IInv'
<1>1. InFlight(r) /\ req[r] \in Request /\ req[r].pc = "write"
  BY InFlightType DEF Write, At, Pcs, IInv, InFlight
<1>2. UNCHANGED <<api, table>> /\ behind' = (behind /\ ~req[r].alone)
  BY DEF Write
<1>3. req'[r] = Idle /\ \A q \in Requests : q # r => req'[q] = req[q]
  BY DoneStep DEF Write
<1>4. RoutesFollow'
  <2>1. CASE req[r].alone
    <3>1. req[r].seen = table
      BY <1>1, <2>1 DEF IInv, Informed, Vouched
    <3>2. routes' \in Mappings(table)
      BY <3>1 DEF Write
    <3> QED
      BY <1>2, <3>2 DEF RoutesFollow, Mappings, Holders
  <2>2. CASE ~req[r].alone
    <3>1. behind'
      BY <1>1, <1>2, <2>2 DEF IInv, Company
    <3> QED
      BY <3>1 DEF RoutesFollow
  <2> QED
    BY <2>1, <2>2
<1> QED
  BY <1>1, <1>2, <1>3, <1>4, OwnStep, OthersKnow DEF InFlight

LEMMA Failing ==
    ASSUME IInv, TypeOK', NEW r \in Requests, Fail(r)
    PROVE  IInv'
<1>1. InFlight(r)
  BY DEF Fail, InFlight
<1>2. /\ UNCHANGED <<api, table, routes>>
      /\ behind => behind'
      /\ req[r].pc \notin {"refresh", "write"} \/ behind'
  BY DEF Fail
<1>3. req'[r] = Idle /\ \A q \in Requests : q # r => req'[q] = req[q]
  BY DoneStep DEF Fail
<1> QED
  BY <1>1, <1>2, <1>3, OwnStep, OthersKnow, StillFollows DEF InFlight

\* When nothing is in flight nothing is known.
LEMMA Resting ==
    ASSUME TypeOK', AllIdle', RoutesFollow'
    PROVE  IInv'
<1>1. \A r \in Requests : ~InFlight(r)'
  BY DEF AllIdle, InFlight
<1>2. OneCreator' /\ Company' /\ Informed'
  BY <1>1 DEF OneCreator, Company, Informed
<1> QED
  BY <1>2 DEF IInv, Downtime

LEMMA InitInv == Init => IInv
<1> SUFFICES ASSUME Init PROVE IInv
  OBVIOUS
<1>1. \A r \in Requests : ~InFlight(r)
  BY DEF Init, InFlight
<1>2. OneCreator /\ Company /\ Informed
  BY <1>1 DEF OneCreator, Company, Informed
<1>3. Downtime /\ RoutesFollow
  BY DEF Init, Downtime, RoutesFollow, AllIdle
<1> QED
  BY <1>2, <1>3, InitType DEF IInv

LEMMA NextInv == IInv /\ [Next]_vars => IInv'
<1> SUFFICES ASSUME IInv, [Next]_vars PROVE IInv'
  OBVIOUS
<1>1. TypeOK'
  BY NextType DEF IInv
<1>2. ASSUME NEW r \in Requests,
             \/ \E op \in Ops, m \in Miniverses, s \in Subdomains \union {Same} :
                    Arrive(r, op, m, s)
             \/ Check(r) \/ Commit(r) \/ Refresh(r) \/ Write(r) \/ Fail(r)
      PROVE  IInv'
  BY <1>1, <1>2, Arriving, Checking, Committing, Refreshing, Writing, Failing
<1>3. CASE Crash
  <2>1. AllIdle' /\ api' = "down"
    BY <1>3 DEF Crash, AllIdle
  <2> QED
    BY <1>1, <2>1, Resting DEF RoutesFollow
<1>4. CASE Startup
  <2>1. AllIdle'
    BY <1>4 DEF Startup, IInv, Downtime, AllIdle
  <2>2. routes' \in Mappings(table)'
    BY <1>4 DEF Startup, Mappings, Holders
  <2> QED
    BY <1>1, <2>1, <2>2, Resting DEF RoutesFollow
<1>6. CASE Serve \/ StartFails
  <2>1. AllIdle'
    BY <1>6 DEF Serve, StartFails, IInv, Downtime, AllIdle
  <2>2. RoutesFollow'
    BY <1>6 DEF Serve, StartFails, IInv, RoutesFollow, Late, Mappings, Holders
  <2> QED
    BY <1>1, <2>1, <2>2, Resting
<1>5. CASE UNCHANGED vars
  BY <1>1, <1>5 DEF vars, IInv, OneCreator, Company, Downtime, AllIdle, RoutesFollow, Late,
     Mappings, Holders, Informed, InFlight, Known, Vouched
<1> QED
  BY <1>2, <1>3, <1>4, <1>5, <1>6 DEF Next, Commit

-----------------------------------------------------------------------------
(* What it gives.                                                          *)

\* For any number of miniverses, requests and faults: with nothing in flight
\* routes.json says what the table says, unless a request failed after its
\* commit or ran beside another one since the file was last written by one
\* that did not (update_proxy_config, proxy_startup).
THEOREM RoutesCurrentAlways == Spec => []RoutesCurrent
<1>1. IInv => RoutesCurrent
  BY DEF IInv, RoutesFollow, RoutesCurrent, Late, AllIdle, Idle
<1> QED
  BY <1>1, InitInv, NextInv, PTL DEF Spec

\* The file a request writes, from whatever old snapshot, does right by its
\* own miniverse.
LEMMA WriteRoutes ==
    ASSUME IInv, NEW r \in Requests, Write(r)
    PROVE  IF req[r].op = "delete"
           THEN \A s \in Subdomains : routes'[s] # req[r].m
           ELSE \E s \in Subdomains : req[r].seen[req[r].m] = s /\ routes'[s] # NoOne
<1>1. PICK q \in Request : q = req[r] /\ q.pc = "write"
  BY InFlightType DEF Write, At, Pcs, IInv
<1>2. Known(q) /\ q.m \in Miniverses
  BY <1>1 DEF IInv, Informed, InFlight, Idle, Request
<1>3. /\ routes' \in [Subdomains -> Miniverses \union {NoOne}]
      /\ \A s \in Subdomains :
            IF Holders(q.seen, s) = {} THEN routes'[s] = NoOne
                                       ELSE routes'[s] \in Holders(q.seen, s)
  BY <1>1 DEF Write, Mappings, Files
<1>4. CASE q.op = "delete"
  <2>1. q.seen[q.m] = "gone"
    BY <1>1, <1>2, <1>4 DEF Known
  <2>2. ASSUME NEW s \in Subdomains
        PROVE  routes'[s] # q.m
    BY <1>2, <1>3, <2>1, SubdomainsAssumption, NoOneAssumption DEF Holders
  <2> QED
    BY <1>1, <1>4, <2>2
<1>5. CASE q.op # "delete"
  <2>1. PICK s \in Subdomains : s = q.seen[q.m]
    BY <1>1, <1>2, <1>5 DEF Known
  <2>2. q.m \in Holders(q.seen, s)
    BY <1>2, <2>1 DEF Holders
  <2>3. routes'[s] \in Miniverses
    BY <1>3, <2>2 DEF Holders
  <2> QED
    BY <1>1, <1>5, <2>1, <2>3, NoOneAssumption
<1> QED
  BY <1>4, <1>5

\* However requests overlap, the file a request writes leads nobody to a
\* miniverse it deleted, and the subdomain of one it created or changed
\* somewhere.
THEOREM OwnChangeRoutedAlways == Spec => OwnChangeRouted
<1>1. ASSUME IInv, [Next]_vars
      PROVE  [\A r \in Requests : Write(r) =>
                IF req[r].op = "delete"
                THEN \A s \in Subdomains : routes'[s] # req[r].m
                ELSE \E s \in Subdomains : req[r].seen[req[r].m] = s /\ routes'[s] # NoOne]_vars
  BY <1>1, WriteRoutes
<1> QED
  BY <1>1, InitInv, NextInv, PTL DEF Spec, OwnChangeRouted
=============================================================================
