----------------------- MODULE MiniverseLifecycleProofs -----------------------
(***************************************************************************)
(* What holds of MiniverseLifecycle for every set of miniverses, workers   *)
(* and container ids and any number of faults: type correctness, Recorded, *)
(* the refinement of MiniversePromise, LoopOwned and ControllerCovers, and *)
(* Settled.                                                                *)
(***************************************************************************)
EXTENDS LifecycleRefinement, TLAPS

\* A process is idle exactly when it works on no miniverse.
Targets == \A p \in Procs : At(p, "idle") <=> req[p].m = None

TypeInv == TypeOK /\ Targets

(***************************************************************************)
(* Type correctness.                                                       *)
(***************************************************************************)

LEMMA NoRequestType == NoRequest \in Requests
  BY DEF NoRequest, Requests, NoRow, Row, Ops, Pcs, Ids, Versions

\* A process that takes on, or goes on with, a well-formed request.
LEMMA BecomesType ==
  ASSUME TypeInv, NEW p \in Procs, NEW r \in Requests, Becomes(p, r),
         r.pc = "idle" <=> r.m = None
  PROVE  req' \in [Procs -> Requests] /\ Targets'
  BY DEF TypeInv, TypeOK, Targets, At, Becomes

LEMMA GotoType ==
  ASSUME TypeInv, NEW p \in Procs, ~At(p, "idle"),
         NEW pc \in Pcs \ {"idle"}, Goto(p, pc)
  PROVE  req' \in [Procs -> Requests] /\ Targets'
<1>1. [req[p] EXCEPT !.pc = pc] \in Requests
  BY DEF TypeInv, TypeOK, Requests
<1>2. req[p].m # None
  BY DEF TypeInv, Targets
<1> QED
  BY <1>1, <1>2, BecomesType DEF Goto, TypeInv, TypeOK, Requests

LEMMA FinishType ==
  ASSUME TypeInv, NEW p \in Procs, Finish(p)
  PROVE  req' \in [Procs -> Requests] /\ Targets'
  BY NoRequestType, BecomesType DEF Finish, NoRequest

\* Every well-formed change of a row leaves the table well-formed.
LEMMA StoreType ==
  ASSUME TypeOK, NEW m \in Miniverses, NEW r \in Row, Store(m, r)
  PROVE  row' \in [Miniverses -> Row]
  BY DEF TypeOK, Store

\* The parts of a handler that is at work.
LEMMA HandlerType ==
  ASSUME TypeInv, NEW p \in Procs, ~At(p, "idle")
  PROVE  /\ req[p] \in Requests
         /\ req[p].m \in Miniverses
         /\ req[p].row \in Row
         /\ req[p].target \in Ids
         /\ row[req[p].m] \in Row
         /\ container[req[p].m].id \in Ids
  BY DEF TypeInv, TypeOK, Targets, Requests

LEMMA AbortType ==
  ASSUME TypeInv, NEW p \in Procs, ~At(p, "idle"), Abort(p),
         faults' \in 0 .. MaxFaults
  PROVE  TypeInv'
<1>1. UNCHANGED <<stored, container>> BY DEF Abort
<1>2. CASE p # Boot /\ Finish(p) /\ troubled' = troubled \union {req[p].m}
             /\ UNCHANGED process
  BY <1>1, <1>2, FinishType, HandlerType DEF TypeInv, TypeOK, stored, process
<1>3. CASE p = Boot /\ ProcessDies
  <2>1. req' \in [Procs -> Requests] /\ Targets'
    BY <1>3, NoRequestType DEF ProcessDies, Targets, At, NoRequest
  <2> QED
    BY <1>1, <1>3, <2>1 DEF TypeInv, TypeOK, ProcessDies, stored, process
<1> QED BY <1>2, <1>3 DEF Abort

LEMMA CreateType ==
  ASSUME TypeInv, NEW p \in Procs,
         \/ CreateRole(p) \/ CreateRegister(p)
         \/ \E m \in Miniverses, version \in Versions :
               CreateInsert(p, m, version)
  PROVE  TypeInv'
<1>1. CASE CreateRole(p)
  BY <1>1, GotoType, HandlerType
  DEF CreateRole, At, TypeInv, TypeOK, stored, process, Pcs, CreatePcs
<1>2. CASE CreateRegister(p)
  BY <1>2, GotoType, HandlerType
  DEF CreateRegister, At, TypeInv, TypeOK, stored, process, Pcs, StartPcs,
      KindFor, LoopAfterStart
<1>3. ASSUME NEW m \in Miniverses, NEW version \in Versions,
             CreateInsert(p, m, version)
      PROVE  TypeInv'
  <2> DEFINE r == [NoRow EXCEPT !.version = version]
  <2>1. r \in Row
    BY DEF NoRow, Row, Ids
  <2>2. Handler("create", m, "commitRole", r) \in Requests
    BY <2>1 DEF Handler, Requests, Ops, Pcs, CreatePcs, Ids, Versions
  <2>3. req' \in [Procs -> Requests] /\ Targets'
    BY <1>3, <2>2, BecomesType, ConstantsAssumption DEF CreateInsert, Handler
  <2>4. row' \in [Miniverses -> Row]
    BY <1>3, <2>1, StoreType DEF CreateInsert, TypeInv
  <2> QED
    BY <1>3, <2>3, <2>4 DEF CreateInsert, TypeInv, TypeOK, process
<1> QED BY <1>1, <1>2, <1>3

\* The handler that LoadRow starts, whatever version an update asks for.
Loaded(p, m, op, r) ==
    /\ Becomes(p, r)
    /\ r.op = op /\ r.m = m /\ r.pc = FirstPc[op] /\ r.row = row[m] /\ r.target = None

LEMMA LoadedIs ==
  ASSUME TypeInv, NEW p \in Procs, NEW m \in Miniverses,
         NEW op \in DOMAIN FirstPc, LoadRow(p, m, op)
  PROVE  \E r \in Requests : Loaded(p, m, op, r)
<1>1. FirstPc[op] \in Pcs /\ op \in Ops
  BY DEF FirstPc, Pcs, StartPcs, StopPcs, DeletePcs, Ops
<1>2. PICK h : h = Handler(op, m, FirstPc[op], row[m])
  OBVIOUS
<1>3. h \in Requests
  BY <1>1, <1>2 DEF Handler, Requests, TypeInv, TypeOK, Ids, Versions
<1>4. PICK version \in Versions : Becomes(p, [h EXCEPT !.asked = version])
  BY <1>2 DEF LoadRow, Upgrades, Versions
<1>5. PICK r : r = [h EXCEPT !.asked = version]
  OBVIOUS
<1>6. r \in Requests /\ r.op = h.op /\ r.m = h.m /\ r.pc = h.pc /\ r.row = h.row
      /\ r.target = h.target
  BY <1>3, <1>5 DEF Requests
<1>7. h.op = op /\ h.m = m /\ h.pc = FirstPc[op] /\ h.row = row[m] /\ h.target = None
  BY <1>2 DEF Handler
<1>8. Loaded(p, m, op, r)
  BY <1>4, <1>5, <1>6, <1>7 DEF Loaded
<1> QED
  BY <1>6, <1>8

LEMMA LoadType ==
  ASSUME TypeInv, NEW p \in Procs, NEW m \in Miniverses,
         NEW op \in DOMAIN FirstPc, LoadRow(p, m, op)
  PROVE  TypeInv'
<1>1. FirstPc[op] \in Pcs \ {"idle"} /\ op \in Ops
  BY DEF FirstPc, Pcs, StartPcs, StopPcs, DeletePcs, Ops
<1>2. PICK r \in Requests : Loaded(p, m, op, r)
  BY LoadedIs
<1>3. req' \in [Procs -> Requests] /\ Targets'
  BY <1>1, <1>2, BecomesType, ConstantsAssumption DEF Loaded
<1> QED
  BY <1>3 DEF LoadRow, TypeInv, TypeOK, stored, process

LEMMA RefreshType ==
  ASSUME TypeInv, NEW p \in Procs, Refresh(p)
  PROVE  TypeInv'
<1> DEFINE r == [req[p] EXCEPT !.row = row[req[p].m], !.pc = AfterRefresh[@]]
<1>1. ~At(p, "idle")
  BY DEF Refresh, AfterRefresh, At
<1>2. AfterRefresh[req[p].pc] \in Pcs \ {"idle"}
  BY DEF Refresh, AfterRefresh, Pcs, StartPcs
<1>3. r \in Requests /\ r.m # None /\ r.pc # "idle"
  BY <1>1, <1>2, HandlerType, ConstantsAssumption DEF Requests
<1>4. req' \in [Procs -> Requests] /\ Targets'
  BY <1>3, BecomesType DEF Refresh
<1> QED
  BY <1>4 DEF Refresh, TypeInv, TypeOK, stored, process

LEMMA StartType ==
  ASSUME TypeInv, NEW p \in Procs,
         StartStep(p) \/ StartLookupSwallowsError(p)
  PROVE  TypeInv'
<1> DEFINE m == req[p].m
<1>1. CASE StartCommit(p)
  <2> DEFINE r == [req[p] EXCEPT !.row = [@ EXCEPT !.started = TRUE],
                                 !.pc = "refreshStarted"]
             s == [row[m] EXCEPT !.started = TRUE]
  <2>1. ~At(p, "idle") BY <1>1 DEF StartCommit, At
  <2>2. r \in Requests /\ r.m # None /\ r.pc # "idle" /\ s \in Row
    BY <2>1, HandlerType, ConstantsAssumption
    DEF Requests, Row, Pcs, StartPcs
  <2>3. req' \in [Procs -> Requests] /\ Targets'
    BY <1>1, <2>2, BecomesType DEF StartCommit
  <2>4. row' \in [Miniverses -> Row]
    BY <1>1, <2>1, <2>2, StoreType, HandlerType DEF StartCommit, TypeInv, TypeOK
  <2> QED
    BY <1>1, <2>3, <2>4 DEF StartCommit, TypeInv, TypeOK, process
<1>2. CASE StartLookup(p)
  <2> DEFINE r == [req[p] EXCEPT !.target = container[m].id,
                                 !.pc = "commitFound"]
  <2>1. ~At(p, "idle") BY <1>2 DEF StartLookup, At
  <2>2. r \in Requests /\ r.m # None /\ r.pc # "idle"
    BY <2>1, HandlerType, ConstantsAssumption DEF Requests, Pcs, StartPcs
  <2>3. CASE Goto(p, "createContainer")
    BY <1>2, <2>1, <2>3, GotoType
    DEF StartLookup, Pcs, StartPcs, TypeInv, TypeOK, stored, process
  <2>4. CASE Becomes(p, r)
    BY <1>2, <2>2, <2>4, BecomesType
    DEF StartLookup, TypeInv, TypeOK, stored, process
  <2> QED BY <1>2, <2>3, <2>4 DEF StartLookup
<1>3. CASE StartLookupSwallowsError(p)
  BY <1>3, GotoType, ConstantsAssumption
  DEF StartLookupSwallowsError, At, Pcs, StartPcs, TypeInv, TypeOK, stored,
      process
<1>4. ASSUME NEW id \in ContainerIds, CreateContainer(p, id)
      PROVE  TypeInv'
  <2> DEFINE r == [req[p] EXCEPT !.target = id, !.pc = "commitCreated"]
  <2>1. ~At(p, "idle") BY <1>4 DEF CreateContainer, At
  <2>2. r \in Requests /\ r.m # None /\ r.pc # "idle"
    BY <2>1, HandlerType, ConstantsAssumption DEF Requests, Pcs, StartPcs, Ids
  <2>3. req' \in [Procs -> Requests] /\ Targets'
    BY <1>4, <2>2, BecomesType DEF CreateContainer
  <2> QED
    BY <1>4, <2>3 DEF CreateContainer, TypeInv, TypeOK, stored, process, Ids
<1>5. CASE RecordContainer(p)
  <2> DEFINE r == [req[p] EXCEPT
                     !.row = [@ EXCEPT !.container_id = req[p].target],
                     !.pc = AfterRecord[@]]
             s == [row[m] EXCEPT !.container_id = req[p].target]
  <2>1. ~At(p, "idle") BY <1>5 DEF RecordContainer, AfterRecord, At
  <2>2. AfterRecord[req[p].pc] \in Pcs \ {"idle"}
    BY <1>5 DEF RecordContainer, AfterRecord, Pcs, StartPcs
  <2>3. r \in Requests /\ r.m # None /\ r.pc # "idle" /\ s \in Row
    BY <2>1, <2>2, HandlerType, ConstantsAssumption DEF Requests, Row
  <2>4. req' \in [Procs -> Requests] /\ Targets'
    BY <1>5, <2>3, BecomesType DEF RecordContainer
  <2>5. row' \in [Miniverses -> Row]
    BY <1>5, <2>1, <2>3, StoreType, HandlerType
    DEF RecordContainer, TypeInv, TypeOK
  <2> QED
    BY <1>5, <2>4, <2>5 DEF RecordContainer, TypeInv, TypeOK, process
<1>6. CASE RunFound(p)
  BY <1>6, FinishType, HandlerType
  DEF RunFound, At, TypeInv, TypeOK, stored, process
<1>7. CASE RunCreated(p)
  BY <1>7, GotoType, HandlerType
  DEF RunCreated, At, TypeInv, TypeOK, stored, process, Pcs, StartPcs
<1>8. CASE StartControl(p)
  BY <1>8, FinishType, HandlerType
  DEF StartControl, LoopAfterStart, At, TypeInv, TypeOK, stored, process
<1> QED
  BY <1>1, <1>2, <1>3, <1>4, <1>5, <1>6, <1>7, <1>8 DEF StartStep

LEMMA StopType ==
  ASSUME TypeInv, NEW p \in Procs, StopStep(p)
  PROVE  TypeInv'
<1> DEFINE m == req[p].m
<1>1. CASE StopContainer(p)
  BY <1>1, GotoType, HandlerType
  DEF StopContainer, At, TypeInv, TypeOK, stored, process, Pcs, StopPcs
<1>2. CASE StopGetControl(p)
  BY <1>2, GotoType
  DEF StopGetControl, At, TypeInv, TypeOK, stored, process, Pcs, StopPcs
<1>3. CASE StopCancelLoop(p)
  BY <1>3, GotoType
  DEF StopCancelLoop, At, TypeInv, TypeOK, stored, process, Pcs, StopPcs
<1>4. CASE StopCommit(p)
  <2> DEFINE r == [req[p] EXCEPT
                     !.row = [@ EXCEPT !.started = FALSE,
                                       !.container_id = None],
                     !.pc = "refreshStopped"]
             s == Merged(req[p].row, row[m])
  <2>1. ~At(p, "idle") BY <1>4 DEF StopCommit, At
  <2>2. r \in Requests /\ r.m # None /\ r.pc # "idle"
    BY <2>1, HandlerType, ConstantsAssumption
    DEF Requests, Row, Ids, Pcs, StopPcs
  <2>3. s \in Row
    BY <2>1, HandlerType DEF Merged, Row, Ids
  <2>4. req' \in [Procs -> Requests] /\ Targets'
    BY <1>4, <2>2, BecomesType DEF StopCommit
  <2>5. row' \in [Miniverses -> Row]
    BY <1>4, <2>1, <2>3, StoreType, HandlerType DEF StopCommit, TypeInv, TypeOK
  <2> QED
    BY <1>4, <2>4, <2>5 DEF StopCommit, TypeInv, TypeOK, process
<1>5. CASE StopRefresh(p)
  <2>1. ~At(p, "idle") BY <1>5 DEF StopRefresh, At
  <2>2. \A pc \in {"commitStarted", "commitVersion"} :
           LET r == [req[p] EXCEPT !.row = row[m], !.pc = pc]
           IN  r \in Requests /\ r.m # None /\ r.pc # "idle"
    BY <2>1, HandlerType, ConstantsAssumption
    DEF Requests, Pcs, StartPcs, StopPcs
  <2>3. req' \in [Procs -> Requests] /\ Targets'
    BY <1>5, <2>2, BecomesType, FinishType DEF StopRefresh
  <2> QED
    BY <1>5, <2>3 DEF StopRefresh, TypeInv, TypeOK, stored, process
<1>6. CASE UpdateCommitVersion(p)
  <2> DEFINE r == [req[p] EXCEPT !.row = [@ EXCEPT !.version = req[p].asked],
                                 !.pc = "refreshVersion"]
             s == [row[m] EXCEPT !.version = req[p].asked]
  <2>1. ~At(p, "idle") BY <1>6 DEF UpdateCommitVersion, At
  <2>2. r \in Requests /\ r.m # None /\ r.pc # "idle" /\ s \in Row
    BY <2>1, HandlerType, ConstantsAssumption
    DEF Requests, Row, Pcs, StopPcs
  <2>3. req' \in [Procs -> Requests] /\ Targets'
    BY <1>6, <2>2, BecomesType DEF UpdateCommitVersion
  <2>4. row' \in [Miniverses -> Row]
    BY <1>6, <2>1, <2>2, StoreType, HandlerType DEF UpdateCommitVersion, TypeInv
  <2> QED
    BY <1>6, <2>3, <2>4 DEF UpdateCommitVersion, TypeInv, TypeOK, process
<1> QED
  BY <1>1, <1>2, <1>3, <1>4, <1>5, <1>6 DEF StopStep

LEMMA DeleteType ==
  ASSUME TypeInv, NEW p \in Procs, DeleteStep(p)
  PROVE  TypeInv'
<1>1. CASE DeletePopControl(p)
  BY <1>1, GotoType
  DEF DeletePopControl, At, TypeInv, TypeOK, stored, process, Pcs, DeletePcs
<1>2. CASE DeleteCancelLoop(p)
  BY <1>2, GotoType
  DEF DeleteCancelLoop, At, TypeInv, TypeOK, stored, process, Pcs, DeletePcs
<1>3. CASE DeleteContainer(p)
  BY <1>3, GotoType, HandlerType
  DEF DeleteContainer, NoContainer, Ids, At, TypeInv, TypeOK, stored, process,
      Pcs, DeletePcs
<1>4. CASE DeleteData(p)
  BY <1>4, GotoType
  DEF DeleteData, At, TypeInv, TypeOK, process, Pcs, DeletePcs
<1>5. CASE DeleteRow(p)
  <2>1. ~At(p, "idle") BY <1>5 DEF DeleteRow, At
  <2>2. row' \in [Miniverses -> Row]
    BY <1>5, <2>1, StoreType, HandlerType
    DEF DeleteRow, TypeInv, NoRow, Row, Ids, Versions
  <2> QED
    BY <1>5, <2>1, <2>2, FinishType, HandlerType
    DEF DeleteRow, TypeInv, TypeOK, process
<1> QED BY <1>1, <1>2, <1>3, <1>4, <1>5 DEF DeleteStep

LEMMA BootType ==
  ASSUME TypeInv, BootStep
  PROVE  TypeInv'
<1>1. CASE BootRegister
  BY <1>1 DEF BootRegister, KindFor, TypeInv, TypeOK, Targets, At, stored
<1>2. CASE BootDone
  BY <1>2 DEF BootDone, TypeInv, TypeOK, Targets, At, stored
<1>3. ASSUME NEW m \in Miniverses, BootStart(m)
      PROVE  TypeInv'
  <2>1. Handler("boot", m, "commitStarted", row[m]) \in Requests
    BY DEF Handler, Requests, TypeInv, TypeOK, Ids, Ops, Pcs, StartPcs, Versions
  <2>2. req' \in [Procs -> Requests] /\ Targets'
    BY <1>3, <2>1, BecomesType, ConstantsAssumption DEF BootStart, Handler, Procs
  <2> QED
    BY <1>3, <2>2 DEF BootStart, TypeInv, TypeOK, stored
<1> QED BY <1>1, <1>2, <1>3 DEF BootStep

LEMMA EnvironmentType ==
  ASSUME TypeInv, Environment
  PROVE  TypeInv'
<1>1. CASE Crash
  <2>1. req' \in [Procs -> Requests] /\ Targets'
    BY <1>1, NoRequestType DEF Crash, ProcessDies, Targets, At, NoRequest
  <2> QED
    BY <1>1, <2>1, ConstantsAssumption
    DEF Crash, ProcessDies, TypeInv, TypeOK, stored
<1>2. ASSUME NEW p \in Procs, CallFails(p)
      PROVE  TypeInv'
  BY <1>2, AbortType, ConstantsAssumption DEF CallFails, TypeInv, TypeOK
<1>3. ASSUME NEW p \in Procs, StartLookupSwallowsError(p)
      PROVE  TypeInv'
  BY <1>3, StartType
<1>4. ASSUME NEW m \in Miniverses, ContainerExits(m)
      PROVE  TypeInv'
  BY <1>4, ConstantsAssumption
  DEF ContainerExits, TypeInv, TypeOK, Targets, At, stored, process
<1>5. ASSUME NEW m \in Miniverses, ContainerReaped(m)
      PROVE  TypeInv'
  BY <1>5
  DEF ContainerReaped, NoContainer, Ids, TypeInv, TypeOK, Targets, At, stored,
      process
<1> QED BY <1>1, <1>2, <1>3, <1>4, <1>5 DEF Environment

LEMMA NextType == TypeInv /\ [Next]_vars => TypeInv'
<1> SUFFICES ASSUME TypeInv, [Next]_vars PROVE TypeInv'
  OBVIOUS
<1>1. ASSUME NEW p \in Procs, HandlerStep(p)
      PROVE  TypeInv'
  <2>1. CASE HandlerRaises(p)
    BY <2>1, AbortType DEF HandlerRaises, TypeInv, TypeOK
  <2> QED
    BY <1>1, <2>1, CreateType, RefreshType, StartType, StopType, DeleteType
    DEF HandlerStep
<1>2. ASSUME NEW p \in Procs, Request(p)
      PROVE  TypeInv'
  BY <1>2, CreateType, LoadType DEF Request
<1>3. CASE UNCHANGED vars
  BY <1>3 DEF vars, stored, process, TypeInv, TypeOK, Targets, At
<1> QED
  BY <1>1, <1>2, <1>3, BootType, EnvironmentType DEF Next

LEMMA InitType == Init => TypeInv
  BY NoRequestType, ConstantsAssumption
  DEF Init, TypeInv, TypeOK, Targets, At, NoRequest, NoRow, NoContainer, Row,
      Ids, Versions

\* Every reachable state is well-typed: whatever the handlers, the startup
\* hooks and Docker do, no variable leaves the values declared for it.
THEOREM TypeCorrect == Spec => []TypeOK
<1>1. Spec => []TypeInv
  BY InitType, NextType, PTL DEF Spec
<1>2. TypeInv => TypeOK
  BY DEF TypeInv
<1> QED BY <1>1, <1>2, PTL

(***************************************************************************)
(* Recorded.  The invariant is not inductive: that a running container is  *)
(* in the row after the next step depends on what the handler at work read *)
(* and has already committed.  SerialInv adds that.                        *)
(***************************************************************************)

\* start_miniverse has committed started = True.
StartedPcs == StartPcs \ {"commitStarted"}

\* It has committed the id of the container it is about to start.
RecordedPcs == {"refreshFound", "runFound", "refreshCreated", "runCreated"}

\* stop_miniverse and delete_miniverse have brought the container to rest.
RestPcs == (StopPcs \ {"dockerStop"}) \union {"removeData", "deleteRow"}

\* What a handler r knows of its miniverse, whose life, row and container are
\* l, w and c.
Knows(r, l, w, c) ==
    /\ l = "present"
    /\ r.row = w
    /\ r.pc \in StartedPcs => w.started
    /\ r.pc \in DOMAIN AfterRecord /\ c.state = "running" => c.id = r.target
    /\ r.pc \in RecordedPcs => w.container_id = r.target
    /\ r.pc \in RestPcs => c.state # "running"

\* Recorded, for one miniverse.
InRow(l, w, c) ==
    /\ c.state # "none" => c.id # None
    /\ c.state = "running" =>
         l = "present" /\ w.started /\ w.container_id = c.id

HandlerInv(p) ==
    LET m == req[p].m
    IN  ~At(p, "idle") => Knows(req[p], life[m], row[m], container[m])

ContainerInv(m) == InRow(life[m], row[m], container[m])

\* No two handlers work on one miniverse.
Exclusive ==
    \A p, q \in Procs : ~At(p, "idle") /\ req[q].m = req[p].m => p = q

\* Requests are served only after the startup hooks, which only start rows.
BootInv ==
    /\ api # "serving" => \A p \in Workers : At(p, "idle")
    /\ \A m \in bootQueue : api = "starting" /\ Present(m)
    /\ req[Boot].pc \in StartPcs \union {"idle"}

SerialInv ==
    /\ Exclusive
    /\ BootInv
    /\ \A p \in Procs : HandlerInv(p)
    /\ \A m \in Miniverses : ContainerInv(m)

\* Handler p becomes r, and the life, row and container of m become l, w and c.
Effect(p, m, r, l, w, c) ==
    /\ Becomes(p, r)
    /\ life' = [life EXCEPT ![m] = l]
    /\ row' = [row EXCEPT ![m] = w]
    /\ container' = [container EXCEPT ![m] = c]
    /\ UNCHANGED <<api, bootQueue>>

\* A step of one handler leaves the other miniverses alone, so only what it
\* says of its own miniverse has to be looked at.
LEMMA OwnStep ==
  ASSUME TypeInv, SerialInv, NEW p \in Procs, ~At(p, "idle"),
         NEW m \in Miniverses, m = req[p].m,
         NEW r \in Requests, NEW l, NEW w, NEW c, Effect(p, m, r, l, w, c),
         p = Boot => r.pc \in StartPcs \union {"idle"},
         l = "present" \/ p # Boot,
         r = NoRequest \/ (r.m = m /\ r.pc # "idle" /\ Knows(r, l, w, c)),
         InRow(l, w, c)
  PROVE  SerialInv'
<1>0. None \notin Miniverses
  BY ConstantsAssumption
<1>1. \A q \in Procs \ {p} : req'[q] = req[q]
  BY DEF Effect, Becomes, TypeInv, TypeOK
<1>2. req'[p] = r
  BY DEF Effect, Becomes, TypeInv, TypeOK
<1>3. \A q \in Procs \ {p} : ~At(q, "idle") => req[q].m \in Miniverses \ {m}
  BY HandlerType DEF SerialInv, Exclusive
<1>4. /\ life'[m] = l /\ row'[m] = w /\ container'[m] = c
      /\ \A n \in Miniverses \ {m} :
            life'[n] = life[n] /\ row'[n] = row[n] /\ container'[n] = container[n]
  BY DEF Effect, TypeInv, TypeOK
<1>5. Exclusive'
  <2> SUFFICES ASSUME NEW q \in Procs, NEW q2 \in Procs, ~At(q, "idle")',
                      req'[q2].m = req'[q].m
               PROVE  q = q2
    BY DEF Exclusive
  <2>1. CASE q = p /\ q2 # p
    BY <2>1, <1>1, <1>2 DEF SerialInv, Exclusive, At, NoRequest
  <2>2. CASE q # p /\ q2 = p
    BY <2>2, <1>0, <1>1, <1>2, <1>3 DEF At, NoRequest
  <2>3. CASE q # p /\ q2 # p
    BY <2>3, <1>1 DEF SerialInv, Exclusive, At
  <2> QED BY <2>1, <2>2, <2>3
<1>6. BootInv'
  <2>1. api' # "serving" => \A q \in Workers : At(q, "idle")'
    BY <1>1, <1>2, ConstantsAssumption
    DEF Effect, SerialInv, BootInv, At, Procs
  <2>2. ASSUME NEW n \in bootQueue'
        PROVE  api' = "starting" /\ Present(n)'
    <3>1. n \in bootQueue /\ n \in Miniverses
      BY DEF Effect, TypeInv, TypeOK
    <3>2. api = "starting" /\ Present(n)
      BY <3>1 DEF SerialInv, BootInv
    <3>3. p = Boot
      BY <3>2 DEF SerialInv, BootInv, Procs
    <3> QED BY <1>4, <3>1, <3>2, <3>3 DEF Effect, Present
  <2>3. req'[Boot].pc \in StartPcs \union {"idle"}
    BY <1>1, <1>2 DEF SerialInv, BootInv, Procs
  <2> QED BY <2>1, <2>2, <2>3 DEF BootInv
<1>7. ASSUME NEW q \in Procs
      PROVE  HandlerInv(q)'
  <2>1. CASE q = p
    BY <2>1, <1>2, <1>4 DEF HandlerInv, At, NoRequest
  <2>2. CASE q # p
    BY <2>2, <1>1, <1>3, <1>4 DEF SerialInv, HandlerInv, At
  <2> QED BY <2>1, <2>2
<1>8. ASSUME NEW n \in Miniverses
      PROVE  ContainerInv(n)'
  BY <1>4 DEF SerialInv, ContainerInv
<1> QED BY <1>5, <1>6, <1>7, <1>8 DEF SerialInv

\* What the invariant says of the handler at work and of its miniverse.
LEMMA Facts ==
  ASSUME TypeInv, SerialInv, NEW p \in Procs, ~At(p, "idle"),
         NEW m \in Miniverses, m = req[p].m
  PROVE  /\ Knows(req[p], life[m], row[m], container[m])
         /\ InRow(life[m], row[m], container[m])
         /\ req[p] \in Requests /\ req[p].row = row[m] /\ row[m] \in Row
         /\ Present(m)
         /\ p = Boot => req[p].pc \in StartPcs
  BY HandlerType
  DEF SerialInv, HandlerInv, ContainerInv, BootInv, Knows, Present, At,
      TypeInv, TypeOK

\* A step that leaves the stored state alone.
LEMMA KeepStep ==
  ASSUME TypeInv, SerialInv, NEW p \in Procs, ~At(p, "idle"),
         NEW m \in Miniverses, m = req[p].m,
         NEW r \in Requests, Becomes(p, r),
         p = Boot => r.pc \in StartPcs \union {"idle"},
         UNCHANGED <<api, bootQueue, life, row, container>>,
         \/ r = NoRequest
         \/ /\ r.m = m /\ r.pc # "idle"
            /\ Knows(r, life[m], row[m], container[m])
  PROVE  SerialInv'
<1>1. Effect(p, m, r, life[m], row[m], container[m])
  BY DEF Effect, TypeInv, TypeOK
<1>2. InRow(life[m], row[m], container[m]) /\ life[m] = "present"
  BY Facts DEF Present
<1> QED BY <1>1, <1>2, OwnStep

\* A step that only moves the handler on to pc.
LEMMA GotoStep ==
  ASSUME TypeInv, SerialInv, NEW p \in Procs, ~At(p, "idle"),
         NEW pc \in Pcs \ {"idle"} , Goto(p, pc),
         p = Boot => pc \in StartPcs,
         UNCHANGED <<api, bootQueue, life, row, container>>,
         pc \in StartedPcs => req[p].pc \in StartedPcs,
         pc \notin RecordedPcs \union DOMAIN AfterRecord,
         pc \in RestPcs => req[p].pc \in RestPcs
  PROVE  SerialInv'
<1>1. PICK m \in Miniverses : m = req[p].m
  BY HandlerType
<1> DEFINE r == [req[p] EXCEPT !.pc = pc]
<1>2. /\ r \in Requests /\ r.m = m /\ r.pc = pc
      /\ r.row = req[p].row /\ r.target = req[p].target
  BY <1>1, Facts DEF Requests
<1>3. Becomes(p, r)
  BY DEF Goto
<1> HIDE DEF r
<1>4. Knows(r, life[m], row[m], container[m])
  BY <1>1, <1>2, Facts DEF Knows
<1> QED BY <1>1, <1>2, <1>3, <1>4, KeepStep

LEMMA CreateSerial ==
  ASSUME TypeInv, SerialInv, NEW p \in Procs,
         CreateRole(p) \/ CreateRegister(p)
  PROVE  SerialInv'
<1>1. ~At(p, "idle") /\ req[p].pc \notin StartPcs
  BY DEF CreateRole, CreateRegister, At, StartPcs
<1>2. p # Boot
  BY <1>1 DEF SerialInv, BootInv, At
<1>3. PICK pc \in {"register", "commitStarted"} : Goto(p, pc)
  BY DEF CreateRole, CreateRegister
<1>4. UNCHANGED <<api, bootQueue, life, row, container>>
  BY DEF CreateRole, CreateRegister, stored, process
<1>5. /\ pc \in Pcs \ {"idle"}
      /\ pc \notin StartedPcs \union RecordedPcs \union DOMAIN AfterRecord
                     \union RestPcs
  BY DEF Pcs, StartPcs, CreatePcs, StartedPcs, RecordedPcs, AfterRecord,
         RestPcs, StopPcs
<1> QED
  BY <1>1, <1>2, <1>3, <1>4, <1>5, GotoStep

LEMMA RefreshSerial ==
  ASSUME TypeInv, SerialInv, NEW p \in Procs, Refresh(p)
  PROVE  SerialInv'
<1>1. ~At(p, "idle")
  BY DEF Refresh, AfterRefresh, At
<1>2. PICK m \in Miniverses : m = req[p].m
  BY <1>1, HandlerType
<1> DEFINE r == [req[p] EXCEPT !.row = row[m], !.pc = AfterRefresh[@]]
<1>3. AfterRefresh[req[p].pc] \in StartPcs
  BY DEF Refresh, AfterRefresh, StartPcs
<1>4. /\ r \in Requests /\ r.m = m
      /\ r.pc = AfterRefresh[req[p].pc] /\ r.pc # "idle"
      /\ r.row = row[m] /\ r.target = req[p].target
  BY <1>1, <1>2, <1>3, Facts DEF Requests, Pcs, StartPcs
<1>5. Becomes(p, r) /\ UNCHANGED <<api, bootQueue, life, row, container>>
  BY <1>2 DEF Refresh, stored, process
<1> HIDE DEF r
<1>6. Knows(r, life[m], row[m], container[m])
  <2>1. /\ r.pc \in StartedPcs => req[p].pc \in StartedPcs
        /\ r.pc \notin DOMAIN AfterRecord
        /\ r.pc \in RecordedPcs => req[p].pc \in RecordedPcs
        /\ r.pc \notin RestPcs
    BY <1>4
    DEF Refresh, AfterRefresh, AfterRecord, StartedPcs, StartPcs, RecordedPcs,
        RestPcs, StopPcs
  <2> QED
    BY <1>1, <1>2, <1>4, <2>1, Facts DEF Knows
<1> QED BY <1>1, <1>2, <1>3, <1>4, <1>5, <1>6, KeepStep

LEMMA StartSerial ==
  ASSUME TypeInv, SerialInv, NEW p \in Procs,
         StartStep(p) \/ StartLookupSwallowsError(p)
  PROVE  SerialInv'
<1>0. ~At(p, "idle")
  BY DEF StartStep, StartCommit, StartLookup, RecordContainer, AfterRecord,
         CreateContainer, RunFound, RunCreated, StartControl,
         StartLookupSwallowsError, At
<1>1. PICK m \in Miniverses : m = req[p].m
  BY <1>0, HandlerType
<1>2. /\ Knows(req[p], life[m], row[m], container[m])
      /\ InRow(life[m], row[m], container[m])
      /\ req[p] \in Requests /\ req[p].row = row[m] /\ row[m] \in Row
      /\ life[m] = "present"
  BY <1>0, <1>1, Facts DEF Present
<1>3. CASE StartCommit(p)
  <2> DEFINE s == [row[m] EXCEPT !.started = TRUE]
             r == [req[p] EXCEPT !.row = [@ EXCEPT !.started = TRUE],
                                 !.pc = "refreshStarted"]
  <2>1. /\ r \in Requests /\ r.m = m /\ r.pc = "refreshStarted" /\ r.row = s
        /\ s \in Row /\ s.started /\ s.container_id = row[m].container_id
    BY <1>1, <1>2 DEF Requests, Row, Pcs, StartPcs
  <2>2. row' = [row EXCEPT ![m] = s]
    <3>1. CASE row[m].started
      <4>1. s = row[m] BY <1>2, <3>1 DEF Row
      <4>2. row' = row BY <1>1, <1>2, <1>3, <3>1 DEF StartCommit
      <4> HIDE DEF s
      <4> QED BY <4>1, <4>2 DEF TypeInv, TypeOK
    <3>2. CASE ~row[m].started
      BY <1>1, <1>2, <1>3, <3>2 DEF StartCommit, Store
    <3> QED BY <3>1, <3>2
  <2>3. Effect(p, m, r, life[m], s, container[m])
    BY <1>1, <1>3, <2>2 DEF Effect, StartCommit, process, TypeInv, TypeOK
  <2> HIDE DEF r, s
  <2>4. Knows(r, life[m], s, container[m])
    BY <1>2, <2>1
    DEF Knows, AfterRecord, RecordedPcs, RestPcs, StopPcs
  <2>5. InRow(life[m], s, container[m])
    BY <1>2, <2>1 DEF InRow
  <2> QED
    BY <1>0, <1>1, <1>2, <2>1, <2>3, <2>4, <2>5, OwnStep DEF StartPcs
<1>4. CASE StartLookup(p) \/ StartLookupSwallowsError(p)
  <2>1. UNCHANGED <<api, bootQueue, life, row, container>> /\ At(p, "lookup")
    BY <1>4 DEF StartLookup, StartLookupSwallowsError, stored, process
  <2>2. CASE Goto(p, "createContainer")
    BY <1>0, <2>1, <2>2, GotoStep
    DEF At, Pcs, StartPcs, StartedPcs, RecordedPcs, AfterRecord, RestPcs,
        StopPcs
  <2>3. CASE ~Goto(p, "createContainer")
    <3> DEFINE r == [req[p] EXCEPT !.target = container[m].id,
                                   !.pc = "commitFound"]
    <3>1. Becomes(p, r)
      BY <1>1, <1>4, <2>3 DEF StartLookup, StartLookupSwallowsError
    <3>2. /\ r \in Requests /\ r.m = m /\ r.pc = "commitFound"
          /\ r.row = row[m] /\ r.target = container[m].id
      BY <1>0, <1>1, <1>2, HandlerType DEF Requests, Pcs, StartPcs
    <3> HIDE DEF r
    <3>3. Knows(r, life[m], row[m], container[m])
      BY <1>2, <2>1, <3>2
      DEF Knows, At, StartedPcs, StartPcs, AfterRecord, RecordedPcs, RestPcs,
          StopPcs
    <3> QED
      BY <1>0, <1>1, <2>1, <3>1, <3>2, <3>3, KeepStep DEF StartPcs
  <2> QED BY <2>2, <2>3
<1>5. ASSUME NEW id \in ContainerIds, CreateContainer(p, id)
      PROVE  SerialInv'
  <2> DEFINE r == [req[p] EXCEPT !.target = id, !.pc = "commitCreated"]
             c == [state |-> "created", id |-> id]
  <2>1. /\ r \in Requests /\ r.m = m /\ r.pc = "commitCreated"
        /\ r.row = row[m] /\ c.state = "created" /\ c.id # None
    BY <1>1, <1>2, ConstantsAssumption DEF Requests, Pcs, StartPcs, Ids
  <2>2. Effect(p, m, r, life[m], row[m], c)
    BY <1>1, <1>5
    DEF Effect, CreateContainer, stored, process, TypeInv, TypeOK
  <2>3. req[p].pc = "createContainer"
    BY <1>5 DEF CreateContainer, At
  <2> HIDE DEF r, c
  <2>4. Knows(r, life[m], row[m], c)
    BY <1>2, <2>1, <2>3
    DEF Knows, StartedPcs, StartPcs, RecordedPcs, RestPcs, StopPcs
  <2>5. InRow(life[m], row[m], c)
    BY <2>1 DEF InRow
  <2> QED
    BY <1>0, <1>1, <1>2, <2>1, <2>2, <2>4, <2>5, OwnStep DEF StartPcs
<1>6. CASE RecordContainer(p)
  <2> DEFINE s == [row[m] EXCEPT !.container_id = req[p].target]
             r == [req[p] EXCEPT
                     !.row = [@ EXCEPT !.container_id = req[p].target],
                     !.pc = AfterRecord[@]]
  <2>1. AfterRecord[req[p].pc] \in {"refreshFound", "refreshCreated"}
    BY <1>6 DEF RecordContainer, AfterRecord
  <2>2. /\ r \in Requests /\ r.m = m
        /\ r.pc \in {"refreshFound", "refreshCreated"}
        /\ r.row = s /\ r.target = req[p].target
        /\ s \in Row /\ s.started = row[m].started /\ s.container_id = r.target
    BY <1>0, <1>1, <1>2, <2>1, HandlerType DEF Requests, Row, Pcs, StartPcs
  <2>3. row' = [row EXCEPT ![m] = s]
    <3>1. CASE row[m].container_id = req[p].target
      <4>1. s = row[m] BY <1>2, <3>1 DEF Row
      <4>2. row' = row BY <1>1, <1>2, <1>6, <3>1 DEF RecordContainer
      <4> HIDE DEF s
      <4> QED BY <4>1, <4>2 DEF TypeInv, TypeOK
    <3>2. CASE row[m].container_id # req[p].target
      BY <1>1, <1>2, <1>6, <3>2 DEF RecordContainer, Store
    <3> QED BY <3>1, <3>2
  <2>4. Effect(p, m, r, life[m], s, container[m])
    BY <1>1, <1>6, <2>3 DEF Effect, RecordContainer, process, TypeInv, TypeOK
  <2>5. req[p].pc \in DOMAIN AfterRecord /\ req[p].pc \in StartedPcs
    BY <1>6 DEF RecordContainer, AfterRecord, StartedPcs, StartPcs
  <2> HIDE DEF r, s
  <2>6. Knows(r, life[m], s, container[m])
    BY <1>2, <2>2, <2>5 DEF Knows, AfterRecord, RestPcs, StopPcs
  <2>7. InRow(life[m], s, container[m])
    BY <1>2, <2>2, <2>5 DEF InRow, Knows
  <2>8. r.pc \in StartPcs \union {"idle"} /\ r.pc # "idle"
    BY <2>2 DEF StartPcs
  <2> QED
    BY <1>0, <1>1, <1>2, <2>2, <2>4, <2>6, <2>7, <2>8, OwnStep
<1>7. CASE RunFound(p) \/ RunCreated(p)
  <2> DEFINE c == [container[m] EXCEPT !.state = "running"]
             r == [req[p] EXCEPT !.pc = "startControl"]
  <2>1. /\ container' = [container EXCEPT ![m].state = "running"]
        /\ req[p].pc \in {"runFound", "runCreated"}
        /\ container[m].id = req[p].target /\ container[m].state # "none"
        /\ Becomes(p, r) \/ Becomes(p, NoRequest)
        /\ UNCHANGED <<api, bootQueue, life, row>>
    BY <1>1, <1>7
    DEF RunFound, RunCreated, CanRun, At, Goto, Finish, stored, process
  <2>2. /\ r \in Requests /\ r.m = m /\ r.pc = "startControl"
        /\ r.row = row[m] /\ c.state = "running" /\ c.id = container[m].id
    BY <1>1, <1>2 DEF Requests, Pcs, StartPcs, TypeInv, TypeOK
  <2>3. \/ Effect(p, m, r, life[m], row[m], c)
        \/ Effect(p, m, NoRequest, life[m], row[m], c)
    BY <2>1 DEF Effect, TypeInv, TypeOK
  <2> HIDE DEF r, c
  <2>4. /\ row[m].started
        /\ row[m].container_id = c.id
        /\ c.id # None
    BY <1>2, <2>1, <2>2
    DEF Knows, InRow, StartedPcs, StartPcs, RecordedPcs
  <2>5. Knows(r, life[m], row[m], c)
    BY <1>2, <2>2, <2>4 DEF Knows, RecordedPcs, AfterRecord, RestPcs, StopPcs
  <2>6. InRow(life[m], row[m], c)
    BY <1>2, <2>4 DEF InRow
  <2>7. NoRequest \in Requests /\ NoRequest.pc = "idle" /\ r.pc \in StartPcs
    BY <2>2, NoRequestType DEF NoRequest, StartPcs
  <2>8. CASE Effect(p, m, r, life[m], row[m], c)
    BY <1>0, <1>1, <1>2, <2>2, <2>5, <2>6, <2>7, <2>8, OwnStep
  <2>9. CASE Effect(p, m, NoRequest, life[m], row[m], c)
    BY <1>0, <1>1, <1>2, <2>6, <2>7, <2>9, OwnStep
  <2> QED BY <2>3, <2>8, <2>9
<1>8. CASE StartControl(p)
  <2>1. Becomes(p, NoRequest)
        /\ UNCHANGED <<api, bootQueue, life, row, container>>
    BY <1>8 DEF StartControl, Finish, stored
  <2>2. NoRequest \in Requests /\ NoRequest.pc = "idle"
    BY NoRequestType DEF NoRequest
  <2> QED BY <1>0, <1>1, <2>1, <2>2, KeepStep
<1> QED
  BY <1>3, <1>4, <1>5, <1>6, <1>7, <1>8 DEF StartStep

LEMMA StopSerial ==
  ASSUME TypeInv, SerialInv, NEW p \in Procs, StopStep(p)
  PROVE  SerialInv'
<1>0. req[p].pc \in StopPcs
  BY DEF StopStep, StopContainer, StopGetControl, StopCancelLoop, StopCommit,
         StopRefresh, UpdateCommitVersion, At, StopPcs
<1>1. ~At(p, "idle") /\ p # Boot
  BY <1>0 DEF SerialInv, BootInv, At, StopPcs, StartPcs
<1>2. PICK m \in Miniverses : m = req[p].m
  BY <1>1, HandlerType
<1>3. /\ Knows(req[p], life[m], row[m], container[m])
      /\ InRow(life[m], row[m], container[m])
      /\ req[p] \in Requests /\ req[p].row = row[m] /\ row[m] \in Row
      /\ life[m] = "present"
  BY <1>1, <1>2, Facts DEF Present
<1>4. CASE StopContainer(p)
  <2> DEFINE c == IF /\ row[m].container_id # None
                     /\ container[m].id = row[m].container_id
                     /\ container[m].state = "running"
                  THEN [container[m] EXCEPT !.state = "exited"]
                  ELSE container[m]
             r == [req[p] EXCEPT !.pc = "getControl"]
  <2>1. Effect(p, m, r, life[m], row[m], c)
    BY <1>2, <1>3, <1>4
    DEF Effect, StopContainer, Running, Goto, stored, process, TypeInv, TypeOK
  <2>2. r \in Requests /\ r.m = m /\ r.pc = "getControl" /\ r.row = row[m]
    BY <1>2, <1>3 DEF Requests, Pcs, StopPcs
  <2>3. c.state # "running" /\ (c.state # "none" => c.id # None)
    BY <1>3 DEF InRow, TypeInv, TypeOK
  <2> HIDE DEF r, c
  <2>4. Knows(r, life[m], row[m], c)
    BY <1>3, <2>2, <2>3
    DEF Knows, StartedPcs, StartPcs, RecordedPcs, AfterRecord
  <2>5. InRow(life[m], row[m], c)
    BY <2>3 DEF InRow
  <2> QED
    BY <1>1, <1>2, <2>1, <2>2, <2>4, <2>5, OwnStep
<1>5. CASE StopGetControl(p) \/ StopCancelLoop(p)
  <2>1. PICK pc \in {"cancelLoop", "commitStopped"} : Goto(p, pc)
    BY <1>5 DEF StopGetControl, StopCancelLoop
  <2>2. /\ UNCHANGED <<api, bootQueue, life, row, container>>
        /\ req[p].pc \in {"getControl", "cancelLoop"}
    BY <1>5 DEF StopGetControl, StopCancelLoop, At, stored, process
  <2>3. /\ pc \in Pcs \ {"idle"}
        /\ pc \notin StartedPcs \union RecordedPcs \union DOMAIN AfterRecord
        /\ req[p].pc \in RestPcs
    BY <2>2 DEF Pcs, StartPcs, StopPcs, StartedPcs, RecordedPcs, AfterRecord,
                RestPcs
  <2> QED BY <1>1, <2>1, <2>2, <2>3, GotoStep
<1>6. CASE StopCommit(p)
  <2> DEFINE s == [row[m] EXCEPT !.started = FALSE, !.container_id = None]
             r == [req[p] EXCEPT !.row = [@ EXCEPT !.started = FALSE,
                                                   !.container_id = None],
                                 !.pc = "refreshStopped"]
  <2>1. /\ r \in Requests /\ r.m = m /\ r.pc = "refreshStopped" /\ r.row = s
        /\ s \in Row
    BY <1>2, <1>3 DEF Requests, Row, Pcs, StopPcs, Ids
  <2>2. row' = [row EXCEPT ![m] = s]
    <3>1. CASE row[m].started \/ row[m].container_id # None
      <4>1. row' = [row EXCEPT ![m] = Merged(row[m], row[m])]
        BY <1>2, <1>3, <1>6, <3>1 DEF StopCommit, Store
      <4>2. Merged(row[m], row[m]) = s
        BY <1>3 DEF Merged, Row
      <4> QED BY <4>1, <4>2
    <3>2. CASE ~(row[m].started \/ row[m].container_id # None)
      <4>1. s = row[m] BY <1>3, <3>2 DEF Row
      <4>2. row' = row BY <1>2, <1>3, <1>6, <3>2 DEF StopCommit
      <4> HIDE DEF s
      <4> QED BY <4>1, <4>2 DEF TypeInv, TypeOK
    <3> QED BY <3>1, <3>2
  <2>3. Effect(p, m, r, life[m], s, container[m])
    BY <1>2, <1>6, <2>2 DEF Effect, StopCommit, process, TypeInv, TypeOK
  <2>4. container[m].state # "running"
    BY <1>3, <1>6 DEF Knows, StopCommit, At, RestPcs, StopPcs
  <2> HIDE DEF r, s
  <2>5. Knows(r, life[m], s, container[m])
    BY <1>3, <2>1, <2>4
    DEF Knows, StartedPcs, StartPcs, RecordedPcs, AfterRecord
  <2>6. InRow(life[m], s, container[m])
    BY <1>3, <2>4 DEF InRow
  <2> QED
    BY <1>1, <1>2, <2>1, <2>3, <2>5, <2>6, OwnStep
<1>7. CASE StopRefresh(p)
  <2>1. /\ UNCHANGED <<api, bootQueue, life, row, container>>
        /\ At(p, "refreshStopped")
    BY <1>7 DEF StopRefresh, stored, process
  <2>2. CASE Finish(p)
    BY <1>1, <1>2, <2>1, <2>2, NoRequestType, KeepStep DEF Finish
  <2>3. CASE ~Finish(p)
    <3>1. PICK pc \in {"commitStarted", "commitVersion"} :
             Becomes(p, [req[p] EXCEPT !.row = row[m], !.pc = pc])
      BY <1>2, <1>7, <2>3 DEF StopRefresh
    <3> DEFINE r == [req[p] EXCEPT !.row = row[m], !.pc = pc]
    <3>2. r \in Requests /\ r.m = m /\ r.pc = pc /\ r.row = row[m]
      BY <1>2, <1>3 DEF Requests, Pcs, StartPcs, StopPcs
    <3> HIDE DEF r
    <3>3. Knows(r, life[m], row[m], container[m])
      BY <1>3, <2>1, <3>2
      DEF Knows, At, StartedPcs, RecordedPcs, AfterRecord, RestPcs, StopPcs,
          StartPcs
    <3> QED
      BY <1>1, <1>2, <2>1, <3>1, <3>2, <3>3, KeepStep DEF r
  <2> QED BY <2>2, <2>3
<1>8. CASE UpdateCommitVersion(p)
  <2> DEFINE s == [row[m] EXCEPT !.version = req[p].asked]
             r == [req[p] EXCEPT !.row = [@ EXCEPT !.version = req[p].asked],
                                 !.pc = "refreshVersion"]
  <2>1. r \in Requests /\ r.m = m /\ r.pc = "refreshVersion" /\ r.row = s
    BY <1>2, <1>3 DEF Requests, Row, Pcs, StopPcs
  <2>2. Effect(p, m, r, life[m], s, container[m])
    BY <1>2, <1>8
    DEF Effect, UpdateCommitVersion, Store, process, TypeInv, TypeOK
  <2>3. container[m].state # "running"
    BY <1>3, <1>8 DEF Knows, UpdateCommitVersion, At, RestPcs, StopPcs
  <2> HIDE DEF r, s
  <2>4. Knows(r, life[m], s, container[m])
    BY <1>3, <2>1, <2>3
    DEF Knows, StartedPcs, StartPcs, RecordedPcs, AfterRecord
  <2>5. InRow(life[m], s, container[m])
    BY <1>3, <2>3 DEF InRow
  <2> QED
    BY <1>1, <1>2, <2>1, <2>2, <2>4, <2>5, OwnStep
<1> QED
  BY <1>4, <1>5, <1>6, <1>7, <1>8 DEF StopStep

LEMMA DeleteSerial ==
  ASSUME TypeInv, SerialInv, NEW p \in Procs, DeleteStep(p)
  PROVE  SerialInv'
<1>0. req[p].pc \in DeletePcs
  BY DEF DeleteStep, DeletePopControl, DeleteCancelLoop, DeleteContainer,
         DeleteData, DeleteRow, At, DeletePcs
<1>1. ~At(p, "idle") /\ p # Boot
  BY <1>0 DEF SerialInv, BootInv, At, DeletePcs, StartPcs
<1>2. PICK m \in Miniverses : m = req[p].m
  BY <1>1, HandlerType
<1>3. /\ Knows(req[p], life[m], row[m], container[m])
      /\ InRow(life[m], row[m], container[m])
      /\ req[p] \in Requests /\ req[p].row = row[m]
      /\ life[m] = "present"
  BY <1>1, <1>2, Facts DEF Present
<1>4. CASE DeletePopControl(p) \/ DeleteCancelLoop(p) \/ DeleteData(p)
  <2>1. PICK pc \in {"cancelPopped", "removeContainer", "deleteRow"} :
           /\ Goto(p, pc)
           /\ pc = "deleteRow" => req[p].pc = "removeData"
    BY <1>4 DEF DeletePopControl, DeleteCancelLoop, DeleteData, At
  <2>2. UNCHANGED <<api, bootQueue, life, row, container>>
    BY <1>4 DEF DeletePopControl, DeleteCancelLoop, DeleteData, stored, process
  <2>3. /\ pc \in Pcs \ {"idle"}
        /\ pc \notin StartedPcs \union RecordedPcs \union DOMAIN AfterRecord
        /\ pc \in RestPcs => req[p].pc \in RestPcs
    BY <2>1 DEF Pcs, StartPcs, StopPcs, DeletePcs, StartedPcs, RecordedPcs,
                AfterRecord, RestPcs
  <2> QED BY <1>1, <2>1, <2>2, <2>3, GotoStep
<1>5. CASE DeleteContainer(p)
  <2> DEFINE c == IF /\ row[m].container_id # None
                     /\ container[m].id = row[m].container_id
                  THEN NoContainer ELSE container[m]
             r == [req[p] EXCEPT !.pc = "removeData"]
  <2>1. Effect(p, m, r, life[m], row[m], c)
    BY <1>2, <1>3, <1>5
    DEF Effect, DeleteContainer, Goto, stored, process, TypeInv, TypeOK
  <2>2. r \in Requests /\ r.m = m /\ r.pc = "removeData" /\ r.row = row[m]
    BY <1>2, <1>3 DEF Requests, Pcs, DeletePcs
  <2>3. c.state # "running" /\ (c.state # "none" => c.id # None)
    BY <1>3 DEF InRow, NoContainer
  <2> HIDE DEF r, c
  <2>4. Knows(r, life[m], row[m], c)
    BY <1>3, <2>2, <2>3
    DEF Knows, StartedPcs, StartPcs, RecordedPcs, AfterRecord
  <2>5. InRow(life[m], row[m], c)
    BY <2>3 DEF InRow
  <2> QED
    BY <1>1, <1>2, <2>1, <2>2, <2>4, <2>5, OwnStep
<1>6. CASE DeleteRow(p)
  <2>1. Effect(p, m, NoRequest, "deleted", NoRow, container[m])
    BY <1>2, <1>6 DEF Effect, DeleteRow, Store, Finish, process, TypeInv, TypeOK
  <2>2. InRow("deleted", NoRow, container[m])
    BY <1>3, <1>6 DEF InRow, Knows, DeleteRow, At, RestPcs
  <2> QED
    BY <1>1, <1>2, <2>1, <2>2, NoRequestType, OwnStep
<1> QED BY <1>4, <1>5, <1>6 DEF DeleteStep

\* When the process dies every handler is forgotten; what is stored stays.
LEMMA DeathSerial ==
  ASSUME TypeInv, SerialInv, ProcessDies, UNCHANGED <<stored, container>>
  PROVE  SerialInv'
<1>1. \A p \in Procs : req'[p] = NoRequest
  BY DEF ProcessDies
<1>2. ASSUME NEW m \in Miniverses PROVE ContainerInv(m)'
  BY DEF SerialInv, ContainerInv, stored
<1> QED
  BY <1>1, <1>2
  DEF SerialInv, Exclusive, BootInv, HandlerInv, ProcessDies, At, NoRequest,
      Procs

LEMMA AbortSerial ==
  ASSUME TypeInv, SerialInv, NEW p \in Procs, ~At(p, "idle"), Abort(p)
  PROVE  SerialInv'
<1>1. PICK m \in Miniverses : m = req[p].m
  BY HandlerType
<1>2. UNCHANGED <<stored, container>>
  BY DEF Abort
<1>3. CASE p = Boot
  BY <1>2, <1>3, DeathSerial DEF Abort
<1>4. CASE p # Boot
  BY <1>1, <1>2, <1>4, NoRequestType, KeepStep
  DEF Abort, Finish, stored, process
<1> QED BY <1>3, <1>4

\* A process that was idle takes on miniverse m, on which nobody works.
LEMMA TakeOnSerial ==
  ASSUME TypeInv, SerialInv, NEW p \in Procs, At(p, "idle"),
         NEW m \in Miniverses, ~Busy(m),
         NEW r \in Requests, r.m = m, Becomes(p, r),
         api = (IF p = Boot THEN "starting" ELSE "serving"),
         p = Boot => r.pc \in StartPcs,
         api' = api, bootQueue' \in SUBSET bootQueue,
         \A n \in Miniverses :
            /\ life[n] = "present" => life'[n] = "present"
            /\ row'[n] = row[n]
            /\ container'[n] = container[n],
         Knows(r, life'[m], row[m], container[m])
  PROVE  SerialInv'
<1>1. req'[p] = r /\ \A q \in Procs \ {p} : req'[q] = req[q]
  BY DEF Becomes, TypeInv, TypeOK
<1>2. Exclusive'
  BY <1>1, HandlerType DEF SerialInv, Exclusive, Busy, At
<1>3. BootInv'
  BY <1>1, ConstantsAssumption
  DEF SerialInv, BootInv, Present, At, Procs, TypeInv, TypeOK
<1>4. ASSUME NEW q \in Procs PROVE HandlerInv(q)'
  <2>1. CASE q = p
    BY <2>1, <1>1 DEF HandlerInv, At
  <2>2. CASE q # p
    BY <2>2, <1>1, HandlerType DEF SerialInv, HandlerInv, Knows, At
  <2> QED BY <2>1, <2>2
<1>5. ASSUME NEW n \in Miniverses PROVE ContainerInv(n)'
  BY DEF SerialInv, ContainerInv, InRow
<1> QED BY <1>2, <1>3, <1>4, <1>5 DEF SerialInv

LEMMA RequestSerial ==
  ASSUME TypeInv, SerialInv, Serial, NEW p \in Procs, Request(p)
  PROVE  SerialInv'
<1>1. ASSUME NEW m \in Miniverses, NEW version \in Versions,
             CreateInsert(p, m, version)
      PROVE  SerialInv'
  <2> DEFINE w == [NoRow EXCEPT !.version = version]
             r == Handler("create", m, "commitRole", w)
  <2>1. w \in Row /\ r \in Requests
    BY DEF NoRow, Row, Ids, Handler, Requests, Ops, Pcs, CreatePcs, Versions
  <2>2. r.m = m /\ r.pc = "commitRole" /\ r.row = w
    BY DEF Handler
  <2>3. /\ Becomes(p, r) /\ life' = [life EXCEPT ![m] = "present"]
        /\ row' = [row EXCEPT ![m] = w] /\ UNCHANGED <<container, process>>
        /\ At(p, "idle") /\ api = "serving" /\ p # Boot /\ life[m] = "unborn"
    BY <1>1, ConstantsAssumption DEF CreateInsert, Store
  <2> HIDE DEF r, w
  <2>4. req'[p] = r /\ \A q \in Procs \ {p} : req'[q] = req[q]
    BY <2>3 DEF Becomes, TypeInv, TypeOK
  <2>5. /\ life'[m] = "present" /\ row'[m] = w
        /\ container' = container
        /\ \A n \in Miniverses \ {m} : life'[n] = life[n] /\ row'[n] = row[n]
    BY <2>3 DEF TypeInv, TypeOK
  <2>6. \A q \in Procs : req[q].m # m
    <3> SUFFICES ASSUME NEW q \in Procs, req[q].m = m PROVE FALSE
      OBVIOUS
    <3>1. ~At(q, "idle")
      BY ConstantsAssumption DEF TypeInv, Targets
    <3> QED
      BY <2>3, <3>1 DEF SerialInv, HandlerInv, Knows
  <2>7. Exclusive'
    BY <2>2, <2>4, <2>6, HandlerType DEF SerialInv, Exclusive, At
  <2>8. BootInv'
    BY <2>3, <2>4, ConstantsAssumption
    DEF SerialInv, BootInv, Present, At, process, Procs
  <2>9. ASSUME NEW q \in Procs PROVE HandlerInv(q)'
    <3>1. CASE q = p
      <4>1. Knows(r, "present", w, container[m])
        BY <2>2
        DEF Knows, StartedPcs, StartPcs, AfterRecord, RecordedPcs, RestPcs,
            StopPcs
      <4> QED BY <2>2, <2>4, <2>5, <3>1, <4>1 DEF HandlerInv
    <3>2. CASE q # p
      BY <2>4, <2>5, <2>6, <3>2, HandlerType DEF SerialInv, HandlerInv, At
    <3> QED BY <3>1, <3>2
  <2>10. ASSUME NEW n \in Miniverses PROVE ContainerInv(n)'
    BY <2>3, <2>5 DEF SerialInv, ContainerInv, InRow
  <2> QED BY <2>7, <2>8, <2>9, <2>10 DEF SerialInv
<1>2. ASSUME NEW m \in Miniverses, NEW op \in DOMAIN FirstPc, LoadRow(p, m, op)
      PROVE  SerialInv'
  <2>1. FirstPc[op] \in {"commitStarted", "dockerStop", "popControl"}
    BY DEF FirstPc
  <2>2. PICK r \in Requests : Loaded(p, m, op, r)
    BY <1>2, LoadedIs
  <2>3. r.m = m /\ r.pc = FirstPc[op] /\ r.row = row[m]
    BY <2>2 DEF Loaded
  <2>4. /\ Becomes(p, r) /\ UNCHANGED <<life, row, container, api, bootQueue>>
        /\ At(p, "idle") /\ api = "serving" /\ p # Boot /\ ~Busy(m)
        /\ life[m] = "present"
    BY <1>2, <2>2, ConstantsAssumption DEF Loaded, LoadRow, Present, stored, process
  <2>5. Knows(r, life[m], row[m], container[m])
    BY <2>1, <2>3, <2>4
    DEF Knows, StartedPcs, StartPcs, AfterRecord, RecordedPcs, RestPcs, StopPcs
  <2> QED
    BY <2>2, <2>3, <2>4, <2>5, TakeOnSerial
<1> QED BY <1>1, <1>2 DEF Request

LEMMA BootSerial ==
  ASSUME TypeInv, SerialInv, BootStep
  PROVE  SerialInv'
<1>1. CASE BootRegister \/ BootDone
  <2>1. /\ UNCHANGED <<life, row, container, req>>
        /\ api' = "serving" \/ (api = "down" /\ api' = "starting")
        /\ bootQueue' # {} => api' = "starting"
        /\ \A m \in bootQueue' : Present(m)
    BY <1>1 DEF BootRegister, BootDone, stored
  <2>2. Exclusive' /\ BootInv'
    BY <2>1 DEF SerialInv, Exclusive, BootInv, At, Present
  <2> QED
    BY <2>1, <2>2
    DEF SerialInv, HandlerInv, ContainerInv, At
<1>2. ASSUME NEW m \in Miniverses, BootStart(m)
      PROVE  SerialInv'
  <2> DEFINE r == Handler("boot", m, "commitStarted", row[m])
  <2>1. r \in Requests /\ r.m = m /\ r.pc = "commitStarted" /\ r.row = row[m]
    BY DEF Handler, Requests, Ops, Pcs, StartPcs, TypeInv, TypeOK, Ids, Versions
  <2>2. /\ Becomes(Boot, r) /\ UNCHANGED <<life, row, container, api>>
        /\ At(Boot, "idle") /\ api = "starting"
        /\ bootQueue' \in SUBSET bootQueue
        /\ m \in bootQueue
    BY <1>2 DEF BootStart, stored
  <2> HIDE DEF r
  <2>3. ~Busy(m) /\ life[m] = "present"
    BY <2>2, ConstantsAssumption
    DEF Busy, SerialInv, BootInv, TypeInv, Targets, Procs, Present
  <2>4. Knows(r, life[m], row[m], container[m])
    BY <2>1, <2>3
    DEF Knows, StartedPcs, StartPcs, AfterRecord, RecordedPcs, RestPcs, StopPcs
  <2>5. Boot \in Procs /\ r.pc \in StartPcs
    BY <2>1 DEF Procs, StartPcs
  <2> QED BY <2>1, <2>2, <2>3, <2>4, <2>5, TakeOnSerial
<1> QED BY <1>1, <1>2 DEF BootStep

LEMMA EnvironmentSerial ==
  ASSUME TypeInv, SerialInv, Environment
  PROVE  SerialInv'
<1>1. CASE Crash
  BY <1>1, DeathSerial DEF Crash
<1>2. ASSUME NEW p \in Procs, CallFails(p)
      PROVE  SerialInv'
  BY <1>2, AbortSerial DEF CallFails
<1>3. ASSUME NEW p \in Procs, StartLookupSwallowsError(p)
      PROVE  SerialInv'
  BY <1>3, StartSerial
<1>4. ASSUME NEW m \in Miniverses, ContainerExits(m) \/ ContainerReaped(m)
      PROVE  SerialInv'
  <2>1. UNCHANGED <<life, row, req, api, bootQueue>>
    BY <1>4 DEF ContainerExits, ContainerReaped, stored, process
  <2>2. /\ container'[m].state # "running"
        /\ container'[m].state # "none" => container'[m].id # None
        /\ \A n \in Miniverses \ {m} : container'[n] = container[n]
    BY <1>4
    DEF ContainerExits, ContainerReaped, NoContainer, Running, SerialInv,
        ContainerInv, InRow, TypeInv, TypeOK
  <2>3. Exclusive' /\ BootInv'
    BY <2>1 DEF SerialInv, Exclusive, BootInv, At, Present
  <2>4. ASSUME NEW p \in Procs PROVE HandlerInv(p)'
    BY <2>1, <2>2, HandlerType DEF SerialInv, HandlerInv, Knows, At
  <2>5. ASSUME NEW n \in Miniverses PROVE ContainerInv(n)'
    BY <2>1, <2>2 DEF SerialInv, ContainerInv, InRow
  <2> QED BY <2>3, <2>4, <2>5 DEF SerialInv
<1> QED BY <1>1, <1>2, <1>3, <1>4 DEF Environment

LEMMA NextSerial ==
  ASSUME Serial, TypeInv, SerialInv, [Next]_vars
  PROVE  SerialInv'
<1>1. ASSUME NEW p \in Procs, HandlerStep(p)
      PROVE  SerialInv'
  BY <1>1, CreateSerial, RefreshSerial, StartSerial, StopSerial, DeleteSerial,
     AbortSerial
  DEF HandlerStep, HandlerRaises
<1>2. CASE UNCHANGED vars
  BY <1>2
  DEF vars, stored, process, SerialInv, Exclusive, BootInv, HandlerInv,
      ContainerInv, At, Present
<1> QED
  BY <1>1, <1>2, RequestSerial, BootSerial, EnvironmentSerial DEF Next

LEMMA InitSerial == Init => SerialInv
  BY ConstantsAssumption
  DEF Init, SerialInv, Exclusive, BootInv, HandlerInv, ContainerInv, InRow, At,
      NoRequest, NoContainer, Procs

IInv == TypeInv /\ (Serial => SerialInv)

\* No server runs behind the database's back, with any number of miniverses,
\* workers, crashes and failed calls, as long as clients do not overlap two
\* requests on one miniverse.
THEOREM RecordedAlways == Spec => []Recorded
<1>1. Init => IInv
  BY InitType, InitSerial DEF IInv
<1>2. IInv /\ [Next]_vars => IInv'
  BY NextType, NextSerial DEF IInv
<1>3. IInv => Recorded
  BY DEF IInv, SerialInv, ContainerInv, InRow, Recorded, Running, Present
<1> QED BY <1>1, <1>2, <1>3, PTL DEF Spec

(***************************************************************************)
(* The lifecycle implements MiniversePromise.                              *)
(***************************************************************************)

\* wantedBy, for one miniverse.
WantedOf(l, w) ==
    IF l # "present" THEN l ELSE IF w.started THEN "started" ELSE "stopped"

LEMMA MappingOf ==
  /\ wantedBy = [n \in Miniverses |-> WantedOf(life[n], row[n])]
  /\ runsBy = [n \in Miniverses |-> container[n].state = "running"]
  BY DEF wantedBy, runsBy, WantedOf, Present, Running

LEMMA MappingNext ==
  /\ wantedBy' = [n \in Miniverses |-> WantedOf(life'[n], row'[n])]
  /\ runsBy' = [n \in Miniverses |-> container'[n].state = "running"]
  BY DEF wantedBy, runsBy, WantedOf, Present, Running

\* A step that touches the stored state and the container of no miniverse but
\* m moves the promise at m alone.
LEMMA PromiseMove ==
  ASSUME NEW m \in Miniverses, NEW l, NEW w, NEW c,
         life'[m] = l, row'[m] = w, container'[m] = c,
         \A n \in Miniverses \ {m} :
            /\ life'[n] = life[n]
            /\ row'[n] = row[n]
            /\ container'[n] = container[n]
  PROVE  /\ wantedBy' = [wantedBy EXCEPT ![m] = WantedOf(l, w)]
         /\ c.state = "running" => runsBy' = [runsBy EXCEPT ![m] = TRUE]
         /\ c.state # "running" => runsBy' = [runsBy EXCEPT ![m] = FALSE]
         /\ wantedBy[m] = WantedOf(life[m], row[m])
         /\ runsBy[m] = (container[m].state = "running")
         /\ WantedOf(l, w) = WantedOf(life[m], row[m]) => wantedBy' = wantedBy
         /\ (c.state = "running") = (container[m].state = "running")
              => runsBy' = runsBy
<1>1. wantedBy' = [wantedBy EXCEPT ![m] = WantedOf(l, w)]
  BY MappingOf, MappingNext
<1>2. runsBy' = [runsBy EXCEPT ![m] = (c.state = "running")]
  BY MappingOf, MappingNext
<1>3. /\ wantedBy[m] = WantedOf(life[m], row[m])
      /\ runsBy[m] = (container[m].state = "running")
  BY MappingOf
<1>4. WantedOf(l, w) = WantedOf(life[m], row[m]) => wantedBy' = wantedBy
  BY MappingOf, MappingNext
<1>5. (c.state = "running") = (container[m].state = "running")
        => runsBy' = runsBy
  BY MappingOf, MappingNext
<1>6. CASE c.state = "running"
  <2>1. (c.state = "running") = TRUE BY <1>6
  <2> QED BY <1>1, <1>2, <1>3, <1>4, <1>5, <1>6, <2>1
<1>7. CASE c.state # "running"
  <2>1. (c.state = "running") = FALSE BY <1>7
  <2> QED BY <1>1, <1>2, <1>3, <1>4, <1>5, <1>7, <2>1
<1> QED BY <1>6, <1>7

\* Nothing the promise is about changes.
LEMMA PromiseStutter ==
  ASSUME UNCHANGED <<stored, container>>
  PROVE  UNCHANGED Promise!promise
  BY DEF Promise!promise, wantedBy, runsBy, Present, Running, stored

PromiseStep == [Promise!PromiseNext]_(Promise!promise)

LEMMA HandlerPromise ==
  ASSUME TypeInv, SerialInv, NEW p \in Procs, HandlerStep(p)
  PROVE  PromiseStep
<1>0. CASE UNCHANGED <<stored, container>>
  BY <1>0, PromiseStutter DEF PromiseStep
<1>1. CASE ~UNCHANGED <<stored, container>>
  <2>1. \/ CreateRole(p) \/ StartCommit(p) \/ RecordContainer(p)
        \/ (\E id \in ContainerIds : CreateContainer(p, id))
        \/ RunFound(p) \/ RunCreated(p) \/ StopContainer(p) \/ StopCommit(p)
        \/ UpdateCommitVersion(p)
        \/ DeleteContainer(p) \/ DeleteData(p) \/ DeleteRow(p)
    BY <1>1
    DEF HandlerStep, StartStep, StopStep, DeleteStep, CreateRegister, Refresh,
        StartLookup, StartControl, StopGetControl, StopCancelLoop, StopRefresh,
        DeletePopControl, DeleteCancelLoop, HandlerRaises, Abort
  <2>2. ~At(p, "idle")
    BY <2>1
    DEF CreateRole, StartCommit, RecordContainer, CreateContainer, RunFound,
        RunCreated, StopContainer, StopCommit, UpdateCommitVersion,
        DeleteContainer, DeleteData, DeleteRow, AfterRecord, At
  <2>3. PICK m \in Miniverses : m = req[p].m
    BY <2>2, HandlerType
  <2>4. /\ Knows(req[p], life[m], row[m], container[m])
        /\ InRow(life[m], row[m], container[m])
        /\ req[p].row = row[m] /\ row[m] \in Row /\ life[m] = "present"
    BY <2>2, <2>3, Facts DEF Present
  <2>5. wantedBy[m] = WantedOf("present", row[m])
    BY <2>4, MappingOf
  <2>6. CASE CreateRole(p) \/ DeleteData(p)
    BY <2>6
    DEF CreateRole, DeleteData, PromiseStep, Promise!promise, wantedBy, runsBy,
        Present, Running
  <2>7. CASE StartCommit(p)
    <3> DEFINE s == [row[m] EXCEPT !.started = TRUE]
    <3>1. s \in Row /\ s.started /\ life' = life /\ container' = container
      BY <2>4, <2>7 DEF StartCommit, Row
    <3>2. CASE row[m].started
      BY <2>3, <2>4, <2>7, <3>2, PromiseStutter, <1>1
      DEF StartCommit, stored
    <3>3. CASE ~row[m].started
      <4>1. row' = [row EXCEPT ![m] = s]
        BY <2>3, <2>4, <2>7, <3>3 DEF StartCommit, Store
      <4> HIDE DEF s
      <4>2. row'[m] = s /\ \A n \in Miniverses \ {m} : row'[n] = row[n]
        BY <4>1 DEF TypeInv, TypeOK
      <4>3. /\ wantedBy' = [wantedBy EXCEPT ![m] = "started"]
            /\ runsBy' = runsBy
        BY <2>4, <3>1, <4>2, PromiseMove DEF WantedOf
      <4>4. wantedBy[m] = "stopped"
        BY <2>5, <3>3 DEF WantedOf
      <4>5. Promise!WantStarted(m)
        BY <4>3, <4>4 DEF Promise!WantStarted, Promise!Want
      <4> QED BY <4>5 DEF PromiseStep, Promise!PromiseNext
    <3> QED BY <3>2, <3>3
  <2>8. CASE RecordContainer(p)
    <3>1. row'[m].started = row[m].started
          /\ \A n \in Miniverses \ {m} : row'[n] = row[n]
      BY <2>3, <2>8 DEF RecordContainer, Store, TypeInv, TypeOK, Row
    <3>2. WantedOf(life[m], row'[m]) = WantedOf(life[m], row[m])
      BY <3>1 DEF WantedOf
    <3>3. life' = life /\ container' = container
      BY <2>8 DEF RecordContainer
    <3> QED BY <3>1, <3>2, <3>3, PromiseMove DEF PromiseStep, Promise!promise
  <2>9. ASSUME NEW id \in ContainerIds, CreateContainer(p, id)
        PROVE  PromiseStep
    <3>1. /\ container[m].state = "none" /\ container'[m].state = "created"
          /\ \A n \in Miniverses \ {m} : container'[n] = container[n]
          /\ life' = life /\ row' = row
      BY <2>3, <2>9 DEF CreateContainer, stored, TypeInv, TypeOK
    <3> QED BY <3>1, PromiseMove DEF PromiseStep, Promise!promise
  <2>10. CASE RunFound(p) \/ RunCreated(p)
    <3>1. /\ req[p].pc \in {"runFound", "runCreated"}
          /\ container'[m].state = "running"
          /\ \A n \in Miniverses \ {m} : container'[n] = container[n]
          /\ life' = life /\ row' = row
      BY <2>3, <2>10 DEF RunFound, RunCreated, At, stored, TypeInv, TypeOK
    <3>2. row[m].started
      BY <2>4, <3>1 DEF Knows, StartedPcs, StartPcs
    <3>3. /\ wantedBy' = wantedBy
          /\ runsBy' = [runsBy EXCEPT ![m] = TRUE]
      BY <3>1, PromiseMove
    <3>4. Promise!Launch(m)
      BY <2>5, <3>2, <3>3 DEF Promise!Launch, WantedOf
    <3> QED BY <3>4 DEF PromiseStep, Promise!PromiseNext
  <2>11. CASE StopContainer(p) \/ DeleteContainer(p)
    <3>1. container' # container
      BY <1>1, <2>11 DEF StopContainer, DeleteContainer
    <3>2. /\ container'[m].state # "running"
          /\ \A n \in Miniverses \ {m} : container'[n] = container[n]
          /\ life' = life /\ row' = row
      BY <2>3, <2>11, <3>1
      DEF StopContainer, DeleteContainer, NoContainer, stored, TypeInv, TypeOK
    <3>3. /\ wantedBy' = wantedBy
          /\ runsBy' = [runsBy EXCEPT ![m] = FALSE]
      BY <3>2, PromiseMove
    <3>4. Promise!Rest(m)
      BY <3>3 DEF Promise!Rest
    <3> QED BY <3>4 DEF PromiseStep, Promise!PromiseNext
  <2>12. CASE StopCommit(p)
    <3> DEFINE s == Merged(row[m], row[m])
    <3>1. /\ row[m].started \/ row[m].container_id # None
          /\ row' = [row EXCEPT ![m] = s]
          /\ life' = life /\ container' = container
      BY <1>1, <2>3, <2>4, <2>12 DEF StopCommit, Store, stored
    <3>2. s \in Row /\ s.started = FALSE
      BY <2>4 DEF Merged, Row, Ids
    <3>3. container[m].state # "running"
      BY <2>4, <2>12 DEF Knows, StopCommit, At, RestPcs, StopPcs
    <3> HIDE DEF s
    <3>4. row'[m] = s /\ \A n \in Miniverses \ {m} : row'[n] = row[n]
      BY <3>1 DEF TypeInv, TypeOK
    <3>5. /\ wantedBy' = [wantedBy EXCEPT ![m] = "stopped"]
          /\ runsBy' = runsBy /\ runsBy[m] = FALSE
      BY <2>4, <3>1, <3>2, <3>3, <3>4, PromiseMove DEF WantedOf
    <3>6. CASE row[m].started
      <4>1. wantedBy[m] = "started"
        BY <2>5, <3>6 DEF WantedOf
      <4>2. Promise!WantStopped(m)
        BY <3>5, <4>1 DEF Promise!WantStopped, Promise!Want
      <4> QED BY <4>2 DEF PromiseStep, Promise!PromiseNext
    <3>7. CASE ~row[m].started
      <4>1. WantedOf(life[m], s) = WantedOf(life[m], row[m])
        BY <3>2, <3>7 DEF WantedOf
      <4>2. wantedBy' = wantedBy
        BY <3>1, <3>4, <4>1, PromiseMove
      <4> QED BY <3>5, <4>2 DEF PromiseStep, Promise!promise
    <3> QED BY <3>6, <3>7
  <2>13. CASE UpdateCommitVersion(p)
    <3>1. row'[m].started = row[m].started
          /\ \A n \in Miniverses \ {m} : row'[n] = row[n]
      BY <2>3, <2>13 DEF UpdateCommitVersion, Store, TypeInv, TypeOK, Row
    <3>2. WantedOf(life[m], row'[m]) = WantedOf(life[m], row[m])
      BY <3>1 DEF WantedOf
    <3>3. life' = life /\ container' = container
      BY <2>13 DEF UpdateCommitVersion
    <3> QED BY <3>1, <3>2, <3>3, PromiseMove DEF PromiseStep, Promise!promise
  <2>14. CASE DeleteRow(p)
    <3>1. /\ life' = [life EXCEPT ![m] = "deleted"] /\ Store(m, NoRow)
          /\ container' = container
          /\ container[m].state # "running"
      BY <2>3, <2>4, <2>14 DEF DeleteRow, Knows, At, RestPcs
    <3>2. /\ life'[m] = "deleted" /\ row'[m] = NoRow
          /\ \A n \in Miniverses \ {m} : life'[n] = life[n] /\ row'[n] = row[n]
      BY <3>1 DEF Store, TypeInv, TypeOK
    <3>3. /\ wantedBy' = [wantedBy EXCEPT ![m] = "deleted"]
          /\ runsBy' = runsBy /\ runsBy[m] = FALSE
      BY <3>1, <3>2, PromiseMove DEF WantedOf
    <3>4. wantedBy[m] \in {"stopped", "started"}
      BY <2>5 DEF WantedOf
    <3>5. Promise!Delete(m)
      BY <3>3, <3>4 DEF Promise!Delete, Promise!Want
    <3> QED BY <3>5 DEF PromiseStep, Promise!PromiseNext
  <2> QED
    BY <2>1, <2>6, <2>7, <2>8, <2>9, <2>10, <2>11, <2>12, <2>13, <2>14
<1> QED BY <1>0, <1>1

LEMMA NextPromise ==
  ASSUME TypeInv, SerialInv, [Next]_vars
  PROVE  PromiseStep
<1>1. ASSUME NEW p \in Procs, HandlerStep(p)
      PROVE  PromiseStep
  BY <1>1, HandlerPromise
<1>2. ASSUME NEW p \in Procs, NEW m \in Miniverses, NEW version \in Versions,
             CreateInsert(p, m, version)
      PROVE  PromiseStep
  <2> DEFINE r == [NoRow EXCEPT !.version = version]
  <2>1. /\ life[m] = "unborn" /\ life' = [life EXCEPT ![m] = "present"]
        /\ row' = [row EXCEPT ![m] = r] /\ container' = container
        /\ r.started = FALSE
    BY <1>2 DEF CreateInsert, Store, NoRow
  <2> HIDE DEF r
  <2>2. /\ life'[m] = "present" /\ row'[m] = r
        /\ \A n \in Miniverses \ {m} : life'[n] = life[n] /\ row'[n] = row[n]
    BY <2>1 DEF TypeInv, TypeOK
  <2>3. /\ wantedBy' = [wantedBy EXCEPT ![m] = "stopped"]
        /\ wantedBy[m] = "unborn" /\ runsBy' = runsBy
    BY <2>1, <2>2, PromiseMove DEF WantedOf
  <2>4. Promise!Create(m)
    BY <2>3 DEF Promise!Create, Promise!Want
  <2> QED BY <2>4 DEF PromiseStep, Promise!PromiseNext
<1>3. ASSUME NEW m \in Miniverses, ContainerExits(m) \/ ContainerReaped(m)
      PROVE  PromiseStep
  <2>1. /\ container'[m].state # "running"
        /\ \A n \in Miniverses \ {m} : container'[n] = container[n]
        /\ life' = life /\ row' = row
    BY <1>3
    DEF ContainerExits, ContainerReaped, NoContainer, stored, TypeInv, TypeOK
  <2>2. wantedBy' = wantedBy /\ runsBy' = [runsBy EXCEPT ![m] = FALSE]
    BY <2>1, PromiseMove
  <2>3. Promise!Rest(m)
    BY <2>2 DEF Promise!Rest
  <2> QED BY <2>3 DEF PromiseStep, Promise!PromiseNext
<1>4. CASE UNCHANGED <<stored, container>>
  BY <1>4, PromiseStutter DEF PromiseStep
<1>5. \/ \E p \in Procs : HandlerStep(p)
      \/ \E p \in Procs, m \in Miniverses, version \in Versions :
            CreateInsert(p, m, version)
      \/ \E m \in Miniverses : ContainerExits(m) \/ ContainerReaped(m)
      \/ UNCHANGED <<stored, container>>
  <2>1. ASSUME NEW p \in Procs, NEW m \in Miniverses,
               NEW op \in DOMAIN FirstPc, LoadRow(p, m, op)
        PROVE  UNCHANGED <<stored, container>>
    BY <2>1 DEF LoadRow
  <2>2. CASE BootStep
    BY <2>2 DEF BootStep, BootRegister, BootDone, BootStart
  <2>3. CASE Crash \/ (\E p \in Procs : CallFails(p) \/ StartLookupSwallowsError(p))
    BY <2>3 DEF Crash, CallFails, Abort, StartLookupSwallowsError
  <2>4. CASE UNCHANGED vars
    BY <2>4 DEF vars
  <2> QED
    BY <2>1, <2>2, <2>3, <2>4 DEF Next, Request, Environment
<1> QED BY <1>1, <1>2, <1>3, <1>4, <1>5

\* The whole lifecycle - handlers, startup hooks, crashes, failed calls and
\* Docker - is an implementation of the promise, with any number of
\* miniverses, workers and faults, as long as clients do not overlap two
\* requests on one miniverse.
THEOREM KeepsPromiseAlways == ASSUME Serial PROVE Spec => KeepsPromise
<1>1. Init => Promise!PromiseInit
  <2> SUFFICES ASSUME Init PROVE Promise!PromiseInit
    OBVIOUS
  <2>1. wantedBy = [m \in Miniverses |-> "unborn"]
    BY DEF Init, wantedBy, Present
  <2>2. \A m \in Miniverses : (container[m].state = "running") = FALSE
    BY DEF Init, NoContainer
  <2>3. runsBy = [m \in Miniverses |-> FALSE]
    BY <2>2, MappingOf
  <2> QED BY <2>1, <2>3 DEF Promise!PromiseInit
<1>2. Init => IInv
  BY InitType, InitSerial DEF IInv
<1>3. IInv /\ [Next]_vars => IInv'
  BY NextType, NextSerial DEF IInv
<1>4. IInv /\ [Next]_vars => [Promise!PromiseNext]_(Promise!promise)
  BY NextPromise DEF IInv, PromiseStep
<1> QED
  BY <1>1, <1>2, <1>3, <1>4, PTL DEF Spec, KeepsPromise, Promise!PromiseSpec

(***************************************************************************)
(* LoopOwned and ControllerCovers hold however requests overlap: here      *)
(* Serial is not assumed.                                                  *)
(***************************************************************************)

\* The handlers behind which a row may have no controller.
CoverPcs == CreatePcs \union (DeletePcs \ {"popControl"})

\* What a start of the API has registered stays until requests are served.
BootCovers ==
    /\ api # "serving" => \A p \in Workers : At(p, "idle")
    /\ req[Boot].pc \in StartPcs \union {"idle"}
    /\ api = "starting" =>
         \A m \in Miniverses : Present(m) => controller[m] # "none"

RaceInv == BootCovers /\ LoopOwned /\ ControllerCovers

\* A handler of m other than p that is at one of these steps.
Other(p, m, pcs) ==
    \E q \in Workers \ {p} : req[q].m = m /\ req[q].pc \in pcs

\* A step of handler p, at work on m, that leaves other miniverses alone.
LEMMA RaceOwn ==
  ASSUME TypeInv, RaceInv, NEW p \in Procs, ~At(p, "idle"),
         NEW m \in Miniverses, m = req[p].m,
         NEW r \in Requests, Becomes(p, r), r = NoRequest \/ r.m = m,
         p = Boot => r.pc \in StartPcs \union {"idle"},
         api' = api, troubled \subseteq troubled',
         \A n \in Miniverses \ {m} :
            life'[n] = life[n] /\ controller'[n] = controller[n]
              /\ loop'[n] = loop[n],
         m \notin troubled' /\ loop'[m] /\ controller'[m] = "none" =>
            r.pc = "cancelPopped" \/ Other(p, m, {"cancelPopped"}),
         m \notin troubled' /\ api = "serving" /\ life'[m] = "present"
              /\ controller'[m] = "none" =>
            r.pc \in CoverPcs \/ Other(p, m, CoverPcs),
         api = "starting" /\ life'[m] = "present" => controller'[m] # "none"
  PROVE  RaceInv'
<1>1. req'[p] = r /\ \A q \in Procs \ {p} : req'[q] = req[q]
  BY DEF Becomes, TypeInv, TypeOK
<1>2. /\ \A pc \in CoverPcs : pc \notin StartPcs \union {"idle"}
      /\ "cancelPopped" \in CoverPcs
  BY DEF CoverPcs, CreatePcs, DeletePcs, StartPcs
<1>3. r.pc \in CoverPcs => p \in Workers /\ r.m = m
  BY <1>2 DEF Procs, NoRequest
<1>4. Workers \subseteq Procs
  BY DEF Procs
<1>5. BootCovers'
  <2>1. api' # "serving" => \A q \in Workers : At(q, "idle")'
    BY <1>1, <1>4 DEF RaceInv, BootCovers, At
  <2>2. req'[Boot].pc \in StartPcs \union {"idle"}
    BY <1>1 DEF RaceInv, BootCovers, Procs
  <2>3. ASSUME api' = "starting", NEW n \in Miniverses, Present(n)'
        PROVE  controller'[n] # "none"
    BY <2>3 DEF RaceInv, BootCovers, Present
  <2> QED BY <2>1, <2>2, <2>3 DEF BootCovers
<1>6. LoopOwned'
  <2> SUFFICES ASSUME NEW n \in Miniverses, n \notin troubled',
                      loop'[n], controller'[n] = "none"
               PROVE  \E q \in Workers : req'[q].m = n /\ req'[q].pc = "cancelPopped"
    BY DEF LoopOwned, At
  <2>1. CASE n = m
    BY <2>1, <1>1, <1>2, <1>3, <1>4 DEF Other
  <2>2. CASE n # m
    <3>1. PICK q \in Workers : req[q].m = n /\ req[q].pc = "cancelPopped"
      BY <2>2 DEF RaceInv, LoopOwned, At
    <3> QED BY <2>2, <3>1, <1>1, <1>4
  <2> QED BY <2>1, <2>2
<1>7. ControllerCovers'
  <2> SUFFICES ASSUME NEW n \in Miniverses, n \notin troubled', api' = "serving",
                      life'[n] = "present", controller'[n] = "none"
               PROVE  \E q \in Workers : req'[q].m = n /\ req'[q].pc \in CoverPcs
    BY DEF ControllerCovers, Present, CoverPcs
  <2>1. CASE n = m
    BY <2>1, <1>1, <1>2, <1>3, <1>4 DEF Other
  <2>2. CASE n # m
    <3>1. PICK q \in Workers : req[q].m = n /\ req[q].pc \in CoverPcs
      BY <2>2 DEF RaceInv, ControllerCovers, Present, CoverPcs
    <3> QED BY <2>2, <3>1, <1>1, <1>4
  <2> QED BY <2>1, <2>2
<1> QED BY <1>5, <1>6, <1>7 DEF RaceInv

\* A step that has no effect on controllers, loops and rows.
LEMMA RaceKeep ==
  ASSUME TypeInv, RaceInv, NEW p \in Procs, ~At(p, "idle"),
         NEW m \in Miniverses, m = req[p].m,
         NEW r \in Requests, Becomes(p, r), r = NoRequest \/ r.m = m,
         p = Boot => r.pc \in StartPcs \union {"idle"},
         UNCHANGED <<api, troubled, life, controller, loop>>,
         req[p].pc # "cancelPopped",
         req[p].pc \in CoverPcs => r.pc \in CoverPcs
  PROVE  RaceInv'
<1>1. m \notin troubled /\ loop[m] /\ controller[m] = "none" =>
        Other(p, m, {"cancelPopped"})
  BY DEF RaceInv, LoopOwned, At, Other
<1>2. m \notin troubled /\ api = "serving" /\ life[m] = "present"
        /\ controller[m] = "none" =>
        r.pc \in CoverPcs \/ Other(p, m, CoverPcs)
  BY DEF RaceInv, ControllerCovers, CoverPcs, Present, Other
<1>3. api = "starting" /\ life[m] = "present" => controller[m] # "none"
  BY DEF RaceInv, BootCovers, Present
<1> QED BY <1>1, <1>2, <1>3, RaceOwn

\* The next step of a handler: where it stands, and that it is well-formed.
LEMMA HandlerMove ==
  ASSUME TypeInv, NEW p \in Procs, HandlerStep(p), ~HandlerRaises(p)
  PROVE  /\ ~At(p, "idle")
         /\ req'[p] \in Requests
         /\ Becomes(p, req'[p])
         /\ req'[p] = NoRequest \/ req'[p].m = req[p].m
<1>1. ~At(p, "idle")
  BY DEF HandlerStep, CreateRole, CreateRegister, Refresh, AfterRefresh,
         StartStep, StartCommit, StartLookup, RecordContainer, AfterRecord,
         CreateContainer, RunFound, RunCreated, StartControl,
         StopStep, StopContainer, StopGetControl, StopCancelLoop, StopCommit,
         StopRefresh, UpdateCommitVersion, DeleteStep, DeletePopControl,
         DeleteCancelLoop, DeleteContainer, DeleteData, DeleteRow, At
<1>2. req'[p] \in Requests
  BY CreateType, RefreshType, StartType, StopType, DeleteType
  DEF HandlerStep, TypeInv, TypeOK
<1> DEFINE Good == /\ req' = [req EXCEPT ![p] = req'[p]]
                   /\ req'[p] = NoRequest \/ req'[p].m = req[p].m
<1> SUFFICES Good
  BY <1>1, <1>2 DEF Becomes
<1>3. req \in [Procs -> Requests] /\ req[p] \in Requests
  BY DEF TypeInv, TypeOK
<1>4. CASE CreateRole(p)
  BY <1>3, <1>4 DEF CreateRole, Goto, Becomes, Requests
<1>5. CASE CreateRegister(p)
  BY <1>3, <1>5 DEF CreateRegister, Goto, Becomes, Requests
<1>6. CASE Refresh(p)
  BY <1>3, <1>6 DEF Refresh, Becomes, Requests
<1>7. CASE StartCommit(p)
  BY <1>3, <1>7 DEF StartCommit, Becomes, Requests
<1>8. CASE StartLookup(p)
  BY <1>3, <1>8 DEF StartLookup, Goto, Becomes, Requests
<1>9. CASE RecordContainer(p)
  BY <1>3, <1>9 DEF RecordContainer, Becomes, Requests
<1>10. CASE \E id \in ContainerIds : CreateContainer(p, id)
  BY <1>3, <1>10 DEF CreateContainer, Becomes, Requests
<1>11. CASE RunFound(p) \/ RunCreated(p) \/ StartControl(p)
  BY <1>3, <1>11 DEF RunFound, RunCreated, StartControl, Goto, Finish, Becomes, Requests
<1>12. CASE StopContainer(p) \/ StopGetControl(p) \/ StopCancelLoop(p)
  BY <1>3, <1>12 DEF StopContainer, StopGetControl, StopCancelLoop, Goto, Becomes, Requests
<1>13. CASE StopCommit(p)
  BY <1>3, <1>13 DEF StopCommit, Becomes, Requests
<1>14. CASE StopRefresh(p)
  BY <1>3, <1>14 DEF StopRefresh, Finish, Becomes, Requests
<1>15. CASE UpdateCommitVersion(p)
  BY <1>3, <1>15 DEF UpdateCommitVersion, Becomes, Requests
<1>16. CASE DeleteStep(p)
  BY <1>3, <1>16 DEF DeleteStep, DeletePopControl, DeleteCancelLoop, DeleteContainer,
      DeleteData, DeleteRow, Goto, Finish, Becomes, Requests
<1> QED
  BY <1>4, <1>5, <1>6, <1>7, <1>8, <1>9, <1>10, <1>11, <1>12, <1>13, <1>14, <1>15, <1>16
  DEF HandlerStep, StartStep, StopStep, Becomes

\* Startup hooks only start miniverses.
LEMMA BootMove ==
  ASSUME TypeInv, NEW p \in Procs, HandlerStep(p), ~HandlerRaises(p),
         req[p].pc \in StartPcs
  PROVE  req'[p].pc \in StartPcs \union {"idle"}
<1>1. req[p].pc \notin StopPcs \union DeletePcs \union CreatePcs
  BY DEF StartPcs, StopPcs, DeletePcs, CreatePcs
<1>2. Refresh(p) \/ StartStep(p)
  BY <1>1
  DEF HandlerStep, CreateRole, CreateRegister, CreatePcs, StopStep,
      StopContainer, StopGetControl, StopCancelLoop, StopCommit, StopRefresh,
      UpdateCommitVersion, StopPcs, DeleteStep, DeletePopControl,
      DeleteCancelLoop, DeleteContainer, DeleteData, DeleteRow, DeletePcs, At
<1>3. req \in [Procs -> Requests] /\ req[p] \in Requests
  BY DEF TypeInv, TypeOK
<1>4. CASE Refresh(p)
  BY <1>3, <1>4 DEF Refresh, Becomes, Requests, AfterRefresh, StartPcs
<1>5. CASE StartStep(p)
  <2>1. CASE StartCommit(p)
    BY <1>3, <2>1 DEF StartCommit, Becomes, Requests, StartPcs
  <2>2. CASE StartLookup(p)
    BY <1>3, <2>2 DEF StartLookup, Goto, Becomes, Requests, StartPcs
  <2>3. CASE RecordContainer(p)
    BY <1>3, <2>3 DEF RecordContainer, AfterRecord, Becomes, Requests, StartPcs
  <2>4. CASE \E id \in ContainerIds : CreateContainer(p, id)
    BY <1>3, <2>4 DEF CreateContainer, Becomes, Requests, StartPcs
  <2>5. CASE RunFound(p) \/ RunCreated(p) \/ StartControl(p)
    BY <1>3, <2>5
    DEF RunFound, RunCreated, StartControl, Goto, Finish, Becomes, NoRequest,
        Requests, StartPcs
  <2> QED BY <1>5, <2>1, <2>2, <2>3, <2>4, <2>5 DEF StartStep
<1> QED BY <1>2, <1>4, <1>5

LEMMA AbortRace ==
  ASSUME TypeInv, RaceInv, NEW p \in Procs, ~At(p, "idle"), Abort(p)
  PROVE  RaceInv'
<1>1. CASE p # Boot
  <2>1. req[p].m \in Miniverses /\ NoRequest \in Requests
    BY HandlerType, NoRequestType
  <2>2. /\ Becomes(p, NoRequest) /\ UNCHANGED <<api, life, controller, loop>>
        /\ troubled' = troubled \union {req[p].m}
    BY <1>1 DEF Abort, Finish, ProcessDies, process, stored
  <2>3. api = "starting" /\ life[req[p].m] = "present" =>
          controller[req[p].m] # "none"
    BY <2>1 DEF RaceInv, BootCovers, Present
  <2> QED BY <1>1, <2>1, <2>2, <2>3, RaceOwn
<1>2. CASE p = Boot
  <2>1. ProcessDies
    BY <1>2 DEF Abort
  <2>2. \A q \in Procs : req'[q].pc = "idle"
    BY <2>1 DEF ProcessDies, NoRequest
  <2>3. api' = "down" /\ \A m \in Miniverses : ~loop'[m]
    BY <2>1 DEF ProcessDies
  <2> QED
    BY <2>2, <2>3
    DEF RaceInv, BootCovers, LoopOwned, ControllerCovers, At, Procs
<1> QED BY <1>1, <1>2

\* The handler steps that have to do with controllers, loops and rows.
LEMMA ControlRace ==
  ASSUME TypeInv, RaceInv, NEW p \in Procs,
         \/ CreateRegister(p) \/ StartControl(p) \/ StopCancelLoop(p)
         \/ DeletePopControl(p) \/ DeleteCancelLoop(p) \/ DeleteRow(p)
  PROVE  RaceInv'
<1>1. HandlerStep(p) /\ ~At(p, "idle")
  BY DEF HandlerStep, StartStep, StopStep, DeleteStep, CreateRegister,
         StartControl, StopCancelLoop, DeletePopControl, DeleteCancelLoop,
         DeleteRow, At
<1>2. PICK m \in Miniverses : m = req[p].m
  BY <1>1, HandlerType
<1>3. CASE HandlerRaises(p)
  BY <1>1, <1>3, AbortRace DEF HandlerRaises
<1>4. CASE ~HandlerRaises(p)
  <2> DEFINE r == req'[p]
  <2>1. r \in Requests /\ Becomes(p, r) /\ (r = NoRequest \/ r.m = m)
    BY <1>1, <1>2, <1>4, HandlerMove
  <2>2. p = Boot => r.pc \in StartPcs \union {"idle"}
    BY <1>1, <1>4, BootMove DEF RaceInv, BootCovers, At
  <2>3. req[p] \in Requests /\ req \in [Procs -> Requests]
    BY DEF TypeInv, TypeOK
  <2>4. p = Boot => req[p].pc \in StartPcs
    BY <1>1 DEF RaceInv, BootCovers, At
  <2>5. p # Boot => api = "serving"
    BY <1>1 DEF RaceInv, BootCovers, Procs
  <2>6. m \notin troubled /\ loop[m] /\ controller[m] = "none" =>
          req[p].pc = "cancelPopped" \/ Other(p, m, {"cancelPopped"})
    BY <1>2 DEF RaceInv, LoopOwned, At, Other
  <2>7. m \notin troubled /\ api = "serving" /\ life[m] = "present"
          /\ controller[m] = "none" =>
          req[p].pc \in CoverPcs \/ Other(p, m, CoverPcs)
    BY <1>2 DEF RaceInv, ControllerCovers, CoverPcs, Present, Other
  <2>8. api = "starting" /\ life[m] = "present" => controller[m] # "none"
    BY DEF RaceInv, BootCovers, Present
  <2> HIDE DEF r
  <2>9. CASE CreateRegister(p)
    <3>1. /\ controller'[m] # "none"
          /\ UNCHANGED <<api, troubled, life>>
          /\ \A n \in Miniverses \ {m} :
               controller'[n] = controller[n] /\ loop'[n] = loop[n]
      BY <1>2, <2>9 DEF CreateRegister, KindFor, stored, TypeInv, TypeOK
    <3> QED
      BY <1>1, <1>2, <2>1, <2>2, <3>1, RaceOwn
  <2>10. CASE StartControl(p)
    <3>1. /\ controller'[m] # "none"
          /\ UNCHANGED <<api, troubled, life>>
          /\ \A n \in Miniverses \ {m} :
               controller'[n] = controller[n] /\ loop'[n] = loop[n]
      BY <1>2, <2>10 DEF StartControl, stored, TypeInv, TypeOK
    <3> QED BY <1>1, <1>2, <2>1, <2>2, <3>1, RaceOwn
  <2>11. CASE StopCancelLoop(p)
    <3>1. /\ ~loop'[m] /\ req[p].pc = "cancelLoop"
          /\ UNCHANGED <<api, troubled, life, controller>>
          /\ \A n \in Miniverses \ {m} : loop'[n] = loop[n]
      BY <1>2, <2>11 DEF StopCancelLoop, At, stored, TypeInv, TypeOK
    <3>2. req[p].pc \notin CoverPcs
      BY <3>1 DEF CoverPcs, CreatePcs, DeletePcs
    <3> QED BY <1>1, <1>2, <2>1, <2>2, <2>7, <2>8, <3>1, <3>2, RaceOwn
  <2>12. CASE DeletePopControl(p)
    <3>1. /\ req[p].pc = "popControl" /\ p # Boot
          /\ r.pc = IF controller[m] # "none" THEN "cancelPopped"
                                               ELSE "removeContainer"
          /\ UNCHANGED <<api, troubled, life, loop>>
          /\ \A n \in Miniverses \ {m} : controller'[n] = controller[n]
      BY <1>2, <2>3, <2>4, <2>12
      DEF DeletePopControl, Goto, Becomes, Requests, At, StartPcs, stored,
          TypeInv, TypeOK, r
    <3>2. r.pc \in CoverPcs
      BY <3>1 DEF CoverPcs, DeletePcs
    <3> QED
      BY <1>1, <1>2, <2>1, <2>2, <2>5, <2>6, <3>1, <3>2, RaceOwn
  <2>13. CASE DeleteCancelLoop(p)
    <3>1. /\ r.pc = "removeContainer" /\ p # Boot /\ ~loop'[m]
          /\ UNCHANGED <<api, troubled, life, controller>>
          /\ \A n \in Miniverses \ {m} : loop'[n] = loop[n]
      BY <1>2, <2>3, <2>4, <2>13
      DEF DeleteCancelLoop, Goto, Becomes, Requests, At, StartPcs, stored,
          TypeInv, TypeOK, r
    <3>2. r.pc \in CoverPcs
      BY <3>1 DEF CoverPcs, DeletePcs
    <3> QED
      BY <1>1, <1>2, <2>1, <2>2, <2>5, <3>1, <3>2, RaceOwn
  <2>14. CASE DeleteRow(p)
    <3>1. /\ req[p].pc = "deleteRow" /\ p # Boot /\ life'[m] = "deleted"
          /\ UNCHANGED <<api, troubled, controller, loop>>
          /\ \A n \in Miniverses \ {m} : life'[n] = life[n]
      BY <1>2, <2>4, <2>14
      DEF DeleteRow, At, StartPcs, process, TypeInv, TypeOK
    <3> QED BY <1>1, <1>2, <2>1, <2>2, <2>5, <2>6, <3>1, RaceOwn
  <2> QED BY <2>9, <2>10, <2>11, <2>12, <2>13, <2>14
<1> QED BY <1>3, <1>4

LEMMA HandlerRace ==
  ASSUME TypeInv, RaceInv, NEW p \in Procs, HandlerStep(p)
  PROVE  RaceInv'
<1>1. CASE HandlerRaises(p)
  BY <1>1, AbortRace DEF HandlerRaises
<1>2. CASE \/ CreateRegister(p) \/ StartControl(p) \/ StopCancelLoop(p)
           \/ DeletePopControl(p) \/ DeleteCancelLoop(p) \/ DeleteRow(p)
  BY <1>2, ControlRace
<1>3. CASE ~HandlerRaises(p)
           /\ (\/ CreateRole(p) \/ Refresh(p) \/ StartCommit(p) \/ StartLookup(p)
               \/ RecordContainer(p)
               \/ (\E id \in ContainerIds : CreateContainer(p, id))
               \/ RunFound(p) \/ RunCreated(p)
               \/ StopContainer(p) \/ StopGetControl(p) \/ StopCommit(p)
               \/ StopRefresh(p)
               \/ UpdateCommitVersion(p)
               \/ DeleteContainer(p) \/ DeleteData(p))
  <2>1. /\ ~At(p, "idle") /\ req'[p] \in Requests /\ Becomes(p, req'[p])
        /\ req'[p] = NoRequest \/ req'[p].m = req[p].m
    BY <1>3, HandlerMove
  <2>2. PICK m \in Miniverses : m = req[p].m
    BY <2>1, HandlerType
  <2>3. p = Boot => req'[p].pc \in StartPcs \union {"idle"}
    BY <1>3, <2>1, BootMove DEF RaceInv, BootCovers, At
  <2>4. UNCHANGED <<api, troubled, life, controller, loop>>
    BY <1>3
    DEF CreateRole, Refresh, StartCommit, StartLookup, RecordContainer,
        CreateContainer, RunFound, RunCreated, StopContainer, StopGetControl,
        StopCommit, StopRefresh, UpdateCommitVersion, DeleteContainer,
        DeleteData, stored, process
  <2>5. \/ req[p].pc \notin CoverPcs
        \/ CreateRole(p) \/ DeleteContainer(p) \/ DeleteData(p)
    BY <1>3
    DEF Refresh, AfterRefresh, StartCommit, StartLookup, RecordContainer,
        AfterRecord, CreateContainer, RunFound, RunCreated, StopContainer,
        StopGetControl, StopCommit, StopRefresh, UpdateCommitVersion, At,
        CoverPcs, CreatePcs, DeletePcs
  <2>6. /\ req[p].pc # "cancelPopped"
        /\ req[p].pc \in CoverPcs => req'[p].pc \in CoverPcs
    <3>1. CASE req[p].pc \notin CoverPcs
      BY <3>1 DEF CoverPcs, DeletePcs
    <3>2. CASE CreateRole(p) \/ DeleteContainer(p) \/ DeleteData(p)
      BY <3>2
      DEF CreateRole, DeleteContainer, DeleteData, Goto, Becomes, At, CoverPcs,
          CreatePcs, DeletePcs, TypeInv, TypeOK, Requests
    <3> QED BY <2>5, <3>1, <3>2
  <2> QED BY <2>1, <2>2, <2>3, <2>4, <2>6, RaceKeep
<1> QED
  BY <1>1, <1>2, <1>3 DEF HandlerStep, StartStep, StopStep, DeleteStep

LEMMA RequestRace ==
  ASSUME TypeInv, RaceInv, NEW p \in Procs, Request(p)
  PROVE  RaceInv'
<1>1. /\ p \in Workers /\ p # Boot /\ At(p, "idle") /\ api = "serving"
      /\ \A q \in Procs \ {p} : req'[q] = req[q]
      /\ UNCHANGED <<api, troubled, controller, loop>>
  BY ConstantsAssumption
  DEF Request, CreateInsert, LoadRow, Becomes, process, TypeInv, TypeOK
<1>2. \A q \in Workers : req[q].pc \in CoverPcs => q # p
  BY <1>1 DEF At, CoverPcs, CreatePcs, DeletePcs
<1>3. Workers \subseteq Procs /\ Boot \in Procs
  BY DEF Procs
<1>4. BootCovers'
  BY <1>1, <1>3 DEF RaceInv, BootCovers, At
<1>5. LoopOwned'
  <2> SUFFICES ASSUME NEW n \in Miniverses, n \notin troubled, loop[n],
                      controller[n] = "none"
               PROVE  \E q \in Workers : req'[q].m = n /\ req'[q].pc = "cancelPopped"
    BY <1>1 DEF LoopOwned, At
  <2>1. PICK q \in Workers : req[q].m = n /\ req[q].pc = "cancelPopped"
    BY DEF RaceInv, LoopOwned, At
  <2>2. q # p
    BY <1>1, <2>1 DEF At
  <2> QED BY <1>1, <1>3, <2>1, <2>2
<1>6. ControllerCovers'
  <2> SUFFICES ASSUME NEW n \in Miniverses, n \notin troubled,
                      life'[n] = "present", controller[n] = "none"
               PROVE  \E q \in Workers : req'[q].m = n /\ req'[q].pc \in CoverPcs
    BY <1>1 DEF ControllerCovers, Present, CoverPcs
  <2>1. CASE life[n] = "present"
    <3>1. PICK q \in Workers : req[q].m = n /\ req[q].pc \in CoverPcs
      BY <1>1, <2>1 DEF RaceInv, ControllerCovers, Present, CoverPcs
    <3> QED BY <1>1, <1>2, <1>3, <3>1
  <2>2. CASE life[n] # "present"
    <3>1. PICK m \in Miniverses, version \in Versions : CreateInsert(p, m, version)
      BY <2>2 DEF Request, LoadRow, stored
    <3>2. n = m
      BY <2>2, <3>1 DEF CreateInsert, TypeInv, TypeOK
    <3>3. req'[p].m = m /\ req'[p].pc = "commitRole"
      BY <3>1 DEF CreateInsert, Becomes, Handler, TypeInv, TypeOK
    <3> QED BY <1>1, <3>2, <3>3 DEF CoverPcs, CreatePcs
  <2> QED BY <2>1, <2>2
<1> QED BY <1>4, <1>5, <1>6 DEF RaceInv

LEMMA BootRace ==
  ASSUME TypeInv, RaceInv, BootStep
  PROVE  RaceInv'
<1>1. CASE BootRegister
  <2>1. /\ api = "down" /\ api' = "starting" /\ UNCHANGED <<req, life>>
        /\ \A m \in Miniverses :
             /\ Present(m) => controller'[m] # "none"
             /\ loop'[m] => Present(m)
    BY <1>1 DEF BootRegister, KindFor, stored
  <2>2. BootCovers'
    BY <2>1 DEF RaceInv, BootCovers, At, Present
  <2>3. LoopOwned' /\ ControllerCovers'
    BY <2>1 DEF LoopOwned, ControllerCovers
  <2> QED BY <2>2, <2>3 DEF RaceInv
<1>2. CASE BootDone
  BY <1>2
  DEF BootDone, stored, RaceInv, BootCovers, LoopOwned, ControllerCovers,
      Present, At
<1>3. ASSUME NEW m \in Miniverses, BootStart(m)
      PROVE  RaceInv'
  <2>1. /\ api = "starting"
        /\ UNCHANGED <<api, life, controller, loop, troubled>>
        /\ \A q \in Procs \ {Boot} : req'[q] = req[q]
        /\ req'[Boot].pc = "commitStarted"
    BY <1>3 DEF BootStart, Becomes, Handler, stored, TypeInv, TypeOK, Procs
  <2>2. \A q \in Workers : req'[q] = req[q]
    BY <2>1, ConstantsAssumption DEF Procs
  <2>3. BootCovers'
    BY <2>1, <2>2 DEF RaceInv, BootCovers, At, Present, StartPcs
  <2>4. LoopOwned' /\ ControllerCovers'
    BY <2>1, <2>2 DEF RaceInv, LoopOwned, ControllerCovers, At
  <2> QED BY <2>3, <2>4 DEF RaceInv
<1> QED BY <1>1, <1>2, <1>3 DEF BootStep

LEMMA NextRace == TypeInv /\ RaceInv /\ [Next]_vars => RaceInv'
<1> SUFFICES ASSUME TypeInv, RaceInv, [Next]_vars PROVE RaceInv'
  OBVIOUS
<1>1. CASE UNCHANGED <<api, life, controller, loop, req>> /\ troubled \subseteq troubled'
  BY <1>1
  DEF RaceInv, BootCovers, LoopOwned, ControllerCovers, Present, At
<1>2. CASE Crash
  <2>1. \A q \in Procs : req'[q].pc = "idle"
    BY <1>2 DEF Crash, ProcessDies, NoRequest
  <2>2. api' = "down" /\ \A m \in Miniverses : ~loop'[m]
    BY <1>2 DEF Crash, ProcessDies
  <2> QED
    BY <2>1, <2>2
    DEF RaceInv, BootCovers, LoopOwned, ControllerCovers, At, Procs
<1>3. ASSUME NEW p \in Procs, CallFails(p)
      PROVE  RaceInv'
  BY <1>3, AbortRace DEF CallFails
<1>4. ASSUME NEW p \in Procs, StartLookupSwallowsError(p)
      PROVE  RaceInv'
  <2>1. ~At(p, "idle") /\ req[p].pc = "lookup"
    BY <1>4 DEF StartLookupSwallowsError, At
  <2>2. PICK m \in Miniverses : m = req[p].m
    BY <2>1, HandlerType
  <2> DEFINE r == [req[p] EXCEPT !.pc = "createContainer"]
  <2>3. r \in Requests /\ r.m = m /\ r.pc = "createContainer"
    BY <2>1, <2>2, HandlerType DEF Requests, Pcs, StartPcs
  <2>4. Becomes(p, r) /\ UNCHANGED <<api, troubled, life, controller, loop>>
    BY <1>4 DEF StartLookupSwallowsError, Goto, stored, process
  <2>5. req[p].pc \notin CoverPcs /\ r.pc \in StartPcs
    BY <2>1, <2>3 DEF CoverPcs, CreatePcs, DeletePcs, StartPcs
  <2> HIDE DEF r
  <2> QED BY <2>1, <2>2, <2>3, <2>4, <2>5, RaceKeep
<1>5. ASSUME NEW m \in Miniverses, ContainerExits(m) \/ ContainerReaped(m)
      PROVE  UNCHANGED <<api, life, controller, loop, req>>
               /\ troubled \subseteq troubled'
  BY <1>5 DEF ContainerExits, ContainerReaped, stored, process
<1>6. CASE UNCHANGED vars
  BY <1>1, <1>6 DEF vars, stored, process
<1> QED
  BY <1>1, <1>2, <1>3, <1>4, <1>5, <1>6, HandlerRace, RequestRace, BootRace
  DEF Next, Environment

LEMMA InitRace == Init => RaceInv
  BY DEF Init, RaceInv, BootCovers, LoopOwned, ControllerCovers, Present, At,
         NoRequest, Procs

\* However requests overlap, a connect loop without a registered controller is
\* about to be cancelled by the delete_miniverse that popped the controller.
THEOREM LoopOwnedAlways == Spec => []LoopOwned
<1>1. Init => TypeInv /\ RaceInv
  BY InitType, InitRace
<1>2. TypeInv /\ RaceInv /\ [Next]_vars => (TypeInv /\ RaceInv)'
  BY NextType, NextRace
<1>3. RaceInv => LoopOwned
  BY DEF RaceInv
<1> QED BY <1>1, <1>2, <1>3, PTL DEF Spec

\* However requests overlap, a row of a serving API has a controller but for
\* the windows of create_miniverse and delete_miniverse.
THEOREM ControllerCoversAlways == Spec => []ControllerCovers
<1>1. Init => TypeInv /\ RaceInv
  BY InitType, InitRace
<1>2. TypeInv /\ RaceInv /\ [Next]_vars => (TypeInv /\ RaceInv)'
  BY NextType, NextRace
<1>3. RaceInv => ControllerCovers
  BY DEF RaceInv
<1> QED BY <1>1, <1>2, <1>3, PTL DEF Spec

(***************************************************************************)
(* Settled.  Between two requests the row, the container, the controller   *)
(* and its loop agree; within one they do not, so the invariant says for   *)
(* each step of a handler how far it has brought the four.                 *)
(***************************************************************************)

\* A handler that is at one of these steps ends without a start of the
\* controller when it finds a container that can run.
FindingPcs == {"commitStarted", "refreshStarted", "lookup", "createContainer",
               "commitFound", "refreshFound", "runFound"}

StoppedPcs == {"refreshStopped", "commitVersion", "refreshVersion"}

\* What Settled says of a miniverse with life l, row w, container c, kind of
\* controller k and loop lp; and no container waits to be started.
Quiet(l, w, c, k, lp) ==
    /\ c.state = "running" <=> w.started
    /\ c.state # "created"
    /\ w.container_id # None <=> w.started
    /\ lp <=> w.started /\ k = "websocket"
    /\ k # "none" <=> l = "present"

\* A started miniverse before docker_startup comes to it.
Waiting(k, lp) == k # "none" /\ (lp <=> k = "websocket")

\* How far the handler that is at pc has brought its miniverse.
Stage(pc, w, c, k, lp) ==
    /\ pc \in CreatePcs =>
         /\ k = "none" /\ ~lp
         /\ ~w.started /\ c.state = "none"
    /\ pc \in StartPcs => k # "none" /\ (lp => k = "websocket")
    /\ pc \in FindingPcs /\ c.state \in {"created", "running"} =>
         (k = "websocket" => lp)
    /\ pc = "startControl" => c.state = "running"
    /\ pc \in {"dockerStop", "popControl"} => Quiet("present", w, c, k, lp)
    /\ pc \in StopPcs \ {"dockerStop"} =>
         k # "none" /\ c.state \notin {"created", "running"}
    /\ pc \in StoppedPcs \union {"commitStopped"} => ~lp
    /\ pc \in StoppedPcs => ~w.started
    /\ pc \in DeletePcs \ {"popControl"} =>
         k = "none" /\ c.state # "created"
    /\ pc \in {"removeContainer", "removeData", "deleteRow"} => ~lp

\* What holds of a miniverse at any time, whatever failed.
Sane(l, w, c) ==
    /\ l # "present" => w = NoRow
    /\ w.container_id # None => w.started
    /\ l = "unborn" => c.state = "none"

SettledInv ==
    /\ api = "down" => \A p \in Procs : At(p, "idle")
    /\ \A m \in Miniverses : Sane(life[m], row[m], container[m])
    /\ \A m \in Miniverses \ troubled :
         container[m].state = "created" => row[m].started
    /\ \A p \in Procs :
         LET m == req[p].m IN
         ~At(p, "idle") /\ m \notin troubled =>
            Stage(req[p].pc, row[m], container[m], controller[m], loop[m])
    /\ \A m \in Miniverses \ troubled :
         api # "down" /\ ~Busy(m) =>
            \/ Quiet(life[m], row[m], container[m], controller[m], loop[m])
            \/ m \in bootQueue /\ Waiting(controller[m], loop[m])

\* A step of the one handler p of m.
LEMMA SettledOwn ==
  ASSUME TypeInv, SerialInv, SettledInv, NEW p \in Procs, ~At(p, "idle"),
         NEW m \in Miniverses, m = req[p].m,
         NEW r \in Requests, Becomes(p, r),
         UNCHANGED <<api, bootQueue>>, troubled \subseteq troubled',
         \A n \in Miniverses \ {m} :
            /\ life'[n] = life[n] /\ row'[n] = row[n]
            /\ container'[n] = container[n]
            /\ controller'[n] = controller[n] /\ loop'[n] = loop[n],
         Sane(life'[m], row'[m], container'[m]),
         r = NoRequest \/ (r.m = m /\ r.pc # "idle"),
         m \notin troubled' =>
            /\ container'[m].state = "created" => row'[m].started
            /\ r = NoRequest =>
                 Quiet(life'[m], row'[m], container'[m], controller'[m], loop'[m])
            /\ r # NoRequest =>
                 Stage(r.pc, row'[m], container'[m], controller'[m], loop'[m])
  PROVE  SettledInv'
<1>1. req'[p] = r /\ \A q \in Procs \ {p} : req'[q] = req[q]
  BY DEF Becomes, TypeInv, TypeOK
<1>2. \A q \in Procs \ {p} : ~At(q, "idle") => req[q].m \in Miniverses \ {m}
  BY HandlerType DEF SerialInv, Exclusive
<1>3. api # "down" /\ api' # "down"
  BY DEF SettledInv
<1>4. ASSUME NEW n \in Miniverses
      PROVE  Sane(life'[n], row'[n], container'[n])
  BY DEF SettledInv
<1>5. ASSUME NEW n \in Miniverses, n \notin troubled',
             container'[n].state = "created"
      PROVE  row'[n].started
  <2>1. CASE n = m
    BY <1>5, <2>1
  <2>2. CASE n # m
    BY <1>5, <2>2 DEF SettledInv
  <2> QED BY <2>1, <2>2
<1>6. ASSUME NEW q \in Procs, ~At(q, "idle")', req'[q].m \notin troubled'
      PROVE  LET n == req'[q].m IN
             Stage(req'[q].pc, row'[n], container'[n], controller'[n], loop'[n])
  <2>1. CASE q = p
    BY <1>1, <1>6, <2>1 DEF At, NoRequest
  <2>2. CASE q # p
    <3>1. req'[q] = req[q] /\ req[q].m \in Miniverses \ {m} /\ ~At(q, "idle")
      BY <1>1, <1>2, <1>6, <2>2 DEF At
    <3> QED BY <1>6, <3>1 DEF SettledInv
  <2> QED BY <2>1, <2>2
<1>7. ASSUME NEW n \in Miniverses, n \notin troubled', ~Busy(n)'
      PROVE  \/ Quiet(life'[n], row'[n], container'[n], controller'[n], loop'[n])
             \/ n \in bootQueue' /\ Waiting(controller'[n], loop'[n])
  <2>1. CASE n = m
    <3>1. r.m # m
      BY <1>1, <1>7, <2>1 DEF Busy
    <3> QED BY <1>7, <2>1, <3>1
  <2>2. CASE n # m
    <3>1. ~Busy(n)
      BY <1>1, <1>7, <2>2 DEF Busy
    <3> QED BY <1>3, <1>7, <2>2, <3>1 DEF SettledInv
  <2> QED BY <2>1, <2>2
<1> QED BY <1>3, <1>4, <1>5, <1>6, <1>7 DEF SettledInv

\* What is known of the handler at work, and of its miniverse.
LEMMA SettledFacts ==
  ASSUME TypeInv, SerialInv, SettledInv, NEW p \in Procs, ~At(p, "idle"),
         NEW m \in Miniverses, m = req[p].m
  PROVE  /\ Knows(req[p], life[m], row[m], container[m])
         /\ InRow(life[m], row[m], container[m])
         /\ Sane(life[m], row[m], container[m])
         /\ req[p].row = row[m] /\ row[m] \in Row /\ life[m] = "present"
         /\ req \in [Procs -> Requests] /\ req[p] \in Requests
         /\ m \notin troubled =>
              /\ Stage(req[p].pc, row[m], container[m], controller[m], loop[m])
              /\ container[m].state = "created" => row[m].started
  BY Facts DEF SettledInv, Present, TypeInv, TypeOK

\* A handler changes nothing of another miniverse.
LEMMA HandlerLocal ==
  ASSUME TypeInv, NEW p \in Procs, HandlerStep(p), ~HandlerRaises(p),
         NEW m \in Miniverses, m = req[p].m
  PROVE  /\ UNCHANGED <<api, bootQueue, troubled>>
         /\ \A n \in Miniverses \ {m} :
              /\ life'[n] = life[n] /\ row'[n] = row[n]
              /\ container'[n] = container[n]
              /\ controller'[n] = controller[n] /\ loop'[n] = loop[n]
<1>1. CASE CreateRole(p) \/ CreateRegister(p) \/ Refresh(p)
  BY <1>1
  DEF CreateRole, CreateRegister, Refresh, stored, process, TypeInv, TypeOK
<1>2. CASE StartStep(p)
  BY <1>2
  DEF StartStep, StartCommit, StartLookup, RecordContainer, CreateContainer,
      RunFound, RunCreated, StartControl, Store, stored, process, TypeInv,
      TypeOK
<1>3. CASE StopStep(p)
  BY <1>3
  DEF StopStep, StopContainer, StopGetControl, StopCancelLoop, StopCommit,
      StopRefresh, UpdateCommitVersion, Store, stored, process, TypeInv, TypeOK
<1>4. CASE DeleteStep(p)
  BY <1>4
  DEF DeleteStep, DeletePopControl, DeleteCancelLoop, DeleteContainer,
      DeleteData, DeleteRow, Store, stored, process, TypeInv, TypeOK
<1> QED BY <1>1, <1>2, <1>3, <1>4 DEF HandlerStep

\* What is left to show of a step of handler p.
LEMMA SettledStep ==
  ASSUME TypeInv, SerialInv, SettledInv, NEW p \in Procs,
         HandlerStep(p), ~HandlerRaises(p),
         NEW m \in Miniverses, m = req[p].m,
         Sane(life'[m], row'[m], container'[m]),
         m \notin troubled =>
            /\ container'[m].state = "created" => row'[m].started
            /\ req'[p].pc = "idle" =>
                 Quiet(life'[m], row'[m], container'[m], controller'[m], loop'[m])
            /\ req'[p].pc # "idle" =>
                 Stage(req'[p].pc, row'[m], container'[m], controller'[m], loop'[m])
  PROVE  SettledInv'
<1> DEFINE r == req'[p]
<1>1. /\ ~At(p, "idle") /\ r \in Requests /\ Becomes(p, r)
      /\ r = NoRequest \/ r.m = m
  BY HandlerMove
<1>2. r = NoRequest <=> r.pc = "idle"
  <2>1. TypeInv'
    BY NextType DEF Next
  <2>2. r.pc = "idle" <=> r.m = None
    BY <2>1 DEF TypeInv, Targets, At
  <2> QED BY <1>1, <2>2, ConstantsAssumption DEF NoRequest
<1>3. /\ UNCHANGED <<api, bootQueue, troubled>>
      /\ \A n \in Miniverses \ {m} :
           /\ life'[n] = life[n] /\ row'[n] = row[n]
           /\ container'[n] = container[n]
           /\ controller'[n] = controller[n] /\ loop'[n] = loop[n]
  BY HandlerLocal
<1> HIDE DEF r
<1>4. m \notin troubled =>
        /\ container'[m].state = "created" => row'[m].started
        /\ r.pc = "idle" =>
             Quiet(life'[m], row'[m], container'[m], controller'[m], loop'[m])
        /\ r.pc # "idle" =>
             Stage(r.pc, row'[m], container'[m], controller'[m], loop'[m])
  BY DEF r
<1> QED BY <1>1, <1>2, <1>3, <1>4, SettledOwn

LEMMA CreateSettled ==
  ASSUME TypeInv, SerialInv, SettledInv, NEW p \in Procs,
         CreateRole(p) \/ CreateRegister(p), ~HandlerRaises(p)
  PROVE  SettledInv'
<1>1. HandlerStep(p) /\ ~At(p, "idle")
  BY DEF HandlerStep, CreateRole, CreateRegister, At
<1>2. PICK m \in Miniverses : m = req[p].m
  BY <1>1, HandlerType
<1>3. /\ req \in [Procs -> Requests] /\ req[p] \in Requests
      /\ Sane(life[m], row[m], container[m])
      /\ m \notin troubled =>
           /\ Stage(req[p].pc, row[m], container[m], controller[m], loop[m])
           /\ container[m].state = "created" => row[m].started
  BY <1>1, <1>2, SettledFacts
<1>4. UNCHANGED <<life, row, container>>
  BY DEF CreateRole, CreateRegister, stored
<1>5. \/ /\ req[p].pc = "commitRole" /\ req'[p].pc = "register"
         /\ UNCHANGED <<controller, loop>>
      \/ /\ req[p].pc = "register" /\ req'[p].pc = "commitStarted"
         /\ \/ /\ controller[m] = "none" /\ controller'[m] \in {"router", "websocket"}
               /\ loop' = loop
            \/ controller[m] # "none"
  BY <1>2, <1>3
  DEF CreateRole, CreateRegister, Goto, Becomes, Requests, At, KindFor, process,
      TypeInv, TypeOK
<1>6. ASSUME m \notin troubled
      PROVE  Stage(req'[p].pc, row[m], container[m], controller'[m], loop'[m])
  <2>1. /\ controller[m] = "none" /\ ~loop[m] /\ ~row[m].started
        /\ container[m].state = "none"
    BY <1>3, <1>5, <1>6 DEF Stage, CreatePcs
  <2> QED
    BY <1>5, <2>1
    DEF Stage, CreatePcs, StartPcs, StopPcs, DeletePcs, FindingPcs, StoppedPcs
<1> QED BY <1>1, <1>2, <1>3, <1>4, <1>5, <1>6, SettledStep

LEMMA RefreshSettled ==
  ASSUME TypeInv, SerialInv, SettledInv, NEW p \in Procs, Refresh(p),
         ~HandlerRaises(p)
  PROVE  SettledInv'
<1>1. HandlerStep(p) /\ ~At(p, "idle")
  BY DEF HandlerStep, Refresh, AfterRefresh, At
<1>2. PICK m \in Miniverses : m = req[p].m
  BY <1>1, HandlerType
<1>3. /\ req \in [Procs -> Requests] /\ req[p] \in Requests
      /\ Sane(life[m], row[m], container[m])
      /\ m \notin troubled =>
           /\ Stage(req[p].pc, row[m], container[m], controller[m], loop[m])
           /\ container[m].state = "created" => row[m].started
  BY <1>1, <1>2, SettledFacts
<1>4. UNCHANGED <<life, row, container, controller, loop>>
  BY DEF Refresh, stored, process
<1>5. /\ req[p].pc \in {"refreshStarted", "refreshFound", "refreshCreated",
                        "refreshVersion"}
      /\ req'[p].pc = AfterRefresh[req[p].pc]
  BY <1>2, <1>3 DEF Refresh, AfterRefresh, Becomes, Requests
<1>6. ASSUME m \notin troubled
      PROVE  Stage(req'[p].pc, row[m], container[m], controller[m], loop[m])
  BY <1>3, <1>5, <1>6
  DEF AfterRefresh, Stage, CreatePcs, StartPcs, StopPcs, DeletePcs, FindingPcs,
      StoppedPcs
<1>7. req'[p].pc # "idle"
  BY <1>5 DEF AfterRefresh
<1> QED BY <1>1, <1>2, <1>3, <1>4, <1>6, <1>7, SettledStep

LEMMA StartSettled ==
  ASSUME TypeInv, SerialInv, SettledInv, NEW p \in Procs, StartStep(p),
         ~HandlerRaises(p)
  PROVE  SettledInv'
<1>1. HandlerStep(p) /\ ~At(p, "idle")
  BY DEF HandlerStep, StartStep, StartCommit, StartLookup, RecordContainer,
         AfterRecord, CreateContainer, RunFound, RunCreated, StartControl, At
<1>2. PICK m \in Miniverses : m = req[p].m
  BY <1>1, HandlerType
<1>3. /\ Knows(req[p], life[m], row[m], container[m])
      /\ InRow(life[m], row[m], container[m])
      /\ req \in [Procs -> Requests] /\ req[p] \in Requests
      /\ req[p].row = row[m] /\ row[m] \in Row /\ life[m] = "present"
      /\ Sane(life[m], row[m], container[m])
  BY <1>1, <1>2, SettledFacts
<1>4. m \notin troubled =>
        /\ Stage(req[p].pc, row[m], container[m], controller[m], loop[m])
        /\ container[m].state = "created" => row[m].started
  BY <1>1, <1>2, SettledFacts
<1>5. CASE StartCommit(p)
  <2>1. /\ req[p].pc = "commitStarted" /\ req'[p].pc = "refreshStarted"
        /\ UNCHANGED <<life, container, controller, loop>>
    BY <1>2, <1>3, <1>5 DEF StartCommit, At, Becomes, Requests, process
  <2>2. row'[m].started /\ row'[m].container_id = row[m].container_id
    BY <1>2, <1>3, <1>5 DEF StartCommit, Store, Row, TypeInv, TypeOK
  <2>3. Sane(life'[m], row'[m], container'[m])
    BY <1>3, <2>1, <2>2 DEF Sane
  <2>4. m \notin troubled =>
          Stage(req'[p].pc, row'[m], container'[m], controller'[m], loop'[m])
    BY <1>4, <2>1, <2>2
    DEF Stage, CreatePcs, StartPcs, StopPcs, DeletePcs, FindingPcs, StoppedPcs
  <2> QED BY <1>1, <1>2, <2>1, <2>2, <2>3, <2>4, SettledStep
<1>6. CASE StartLookup(p)
  <2>1. /\ req[p].pc = "lookup" /\ req'[p].pc \in {"createContainer", "commitFound"}
        /\ UNCHANGED <<life, row, container, controller, loop>>
    BY <1>2, <1>3, <1>6
    DEF StartLookup, At, Goto, Becomes, Requests, stored, process
  <2>2. m \notin troubled =>
          Stage(req'[p].pc, row[m], container[m], controller[m], loop[m])
    BY <1>4, <2>1
    DEF Stage, CreatePcs, StartPcs, StopPcs, DeletePcs, FindingPcs, StoppedPcs
  <2> QED BY <1>1, <1>2, <1>3, <1>4, <2>1, <2>2, SettledStep
<1>7. ASSUME NEW id \in ContainerIds, CreateContainer(p, id)
      PROVE  SettledInv'
  <2>1. /\ req[p].pc = "createContainer" /\ req'[p].pc = "commitCreated"
        /\ UNCHANGED <<life, row, controller, loop>>
        /\ container'[m].state = "created"
    BY <1>2, <1>3, <1>7
    DEF CreateContainer, At, Becomes, Requests, stored, process, TypeInv, TypeOK
  <2>2. row[m].started
    BY <1>3, <2>1 DEF Knows, StartedPcs, StartPcs
  <2>3. Sane(life'[m], row'[m], container'[m])
    BY <1>3, <2>1 DEF Sane
  <2>4. m \notin troubled =>
          Stage(req'[p].pc, row'[m], container'[m], controller'[m], loop'[m])
    BY <1>4, <2>1
    DEF Stage, CreatePcs, StartPcs, StopPcs, DeletePcs, FindingPcs, StoppedPcs
  <2> QED BY <1>1, <1>2, <2>1, <2>2, <2>3, <2>4, SettledStep
<1>8. CASE RecordContainer(p)
  <2>1. /\ req[p].pc \in {"commitFound", "commitCreated"}
        /\ req'[p].pc = AfterRecord[req[p].pc]
        /\ UNCHANGED <<life, container, controller, loop>>
    BY <1>2, <1>3, <1>8
    DEF RecordContainer, AfterRecord, Becomes, Requests, process
  <2>2. row'[m].started = row[m].started /\ row[m].started
    BY <1>2, <1>3, <1>8, <2>1
    DEF RecordContainer, Store, Row, TypeInv, TypeOK, Knows, StartedPcs, StartPcs
  <2>3. Sane(life'[m], row'[m], container'[m])
    BY <1>3, <2>1, <2>2 DEF Sane
  <2>4. m \notin troubled =>
          Stage(req'[p].pc, row'[m], container'[m], controller'[m], loop'[m])
    BY <1>4, <2>1, <2>2
    DEF AfterRecord, Stage, CreatePcs, StartPcs, StopPcs, DeletePcs, FindingPcs,
        StoppedPcs
  <2>5. req'[p].pc # "idle"
    BY <2>1 DEF AfterRecord
  <2> QED BY <1>1, <1>2, <1>4, <2>1, <2>2, <2>3, <2>4, <2>5, SettledStep
<1>9. CASE RunFound(p)
  <2>1. /\ req[p].pc = "runFound" /\ req'[p].pc = "idle"
        /\ UNCHANGED <<life, row, controller, loop>>
        /\ container[m].state \in {"created", "running"}
        /\ container[m].id = req[p].target
        /\ container'[m].state = "running"
    BY <1>2, <1>3, <1>9
    DEF RunFound, CanRun, At, Finish, Becomes, NoRequest, stored, process,
        TypeInv, TypeOK
  <2>2. row[m].started /\ row[m].container_id # None
    BY <1>3, <2>1 DEF Knows, InRow, StartedPcs, RecordedPcs, StartPcs
  <2>3. Sane(life'[m], row'[m], container'[m])
    BY <1>3, <2>1 DEF Sane
  <2>4. m \notin troubled =>
          Quiet(life'[m], row'[m], container'[m], controller'[m], loop'[m])
    BY <1>3, <1>4, <2>1, <2>2 DEF Stage, Quiet, StartPcs, FindingPcs
  <2> QED BY <1>1, <1>2, <2>1, <2>3, <2>4, SettledStep
<1>10. CASE RunCreated(p)
  <2>1. /\ req[p].pc = "runCreated" /\ req'[p].pc = "startControl"
        /\ UNCHANGED <<life, row, controller, loop>>
        /\ container'[m].state = "running"
    BY <1>2, <1>3, <1>10
    DEF RunCreated, At, Goto, Becomes, Requests, stored, process, TypeInv,
        TypeOK
  <2>2. Sane(life'[m], row'[m], container'[m])
    BY <1>3, <2>1 DEF Sane
  <2>3. m \notin troubled =>
          Stage(req'[p].pc, row'[m], container'[m], controller'[m], loop'[m])
    BY <1>4, <2>1
    DEF Stage, CreatePcs, StartPcs, StopPcs, DeletePcs, FindingPcs, StoppedPcs
  <2> QED BY <1>1, <1>2, <2>1, <2>2, <2>3, SettledStep
<1>11. CASE StartControl(p)
  <2>1. /\ req[p].pc = "startControl" /\ req'[p].pc = "idle"
        /\ UNCHANGED <<life, row, container, controller>>
        /\ controller[m] # "none"
        /\ loop'[m] <=> loop[m] \/ controller[m] = "websocket"
    BY <1>2, <1>3, <1>11
    DEF StartControl, LoopAfterStart, At, Finish, Becomes, NoRequest, stored,
        TypeInv, TypeOK
  <2>2. m \notin troubled =>
          Quiet(life'[m], row'[m], container'[m], controller'[m], loop'[m])
    BY <1>3, <1>4, <2>1
    DEF Stage, Quiet, Knows, InRow, StartedPcs, StartPcs
  <2> QED BY <1>1, <1>2, <1>3, <1>4, <2>1, <2>2, SettledStep
<1> QED
  BY <1>5, <1>6, <1>7, <1>8, <1>9, <1>10, <1>11 DEF StartStep

LEMMA StopSettled ==
  ASSUME TypeInv, SerialInv, SettledInv, NEW p \in Procs, StopStep(p),
         ~HandlerRaises(p)
  PROVE  SettledInv'
<1>1. HandlerStep(p) /\ ~At(p, "idle")
  BY DEF HandlerStep, StopStep, StopContainer, StopGetControl, StopCancelLoop,
         StopCommit, StopRefresh, UpdateCommitVersion, At
<1>2. PICK m \in Miniverses : m = req[p].m
  BY <1>1, HandlerType
<1>3. /\ Knows(req[p], life[m], row[m], container[m])
      /\ InRow(life[m], row[m], container[m])
      /\ req \in [Procs -> Requests] /\ req[p] \in Requests
      /\ req[p].row = row[m] /\ row[m] \in Row /\ life[m] = "present"
      /\ Sane(life[m], row[m], container[m])
  BY <1>1, <1>2, SettledFacts
<1>4. m \notin troubled =>
        /\ Stage(req[p].pc, row[m], container[m], controller[m], loop[m])
        /\ container[m].state = "created" => row[m].started
  BY <1>1, <1>2, SettledFacts
<1>5. CASE StopContainer(p)
  <2>1. /\ req[p].pc = "dockerStop" /\ req'[p].pc = "getControl"
        /\ UNCHANGED <<life, row, controller, loop>>
    BY <1>2, <1>3, <1>5
    DEF StopContainer, At, Goto, Becomes, Requests, stored, process
  <2>2. /\ row[m].container_id # None /\ container[m].id = row[m].container_id
             /\ container[m].state = "running" => container'[m].state = "exited"
        /\ ~(row[m].container_id # None /\ container[m].id = row[m].container_id
             /\ container[m].state = "running") => container' = container
    BY <1>2, <1>3, <1>5 DEF StopContainer, Running, TypeInv, TypeOK
  <2>3. Sane(life'[m], row'[m], container'[m])
    BY <1>3, <2>1 DEF Sane
  <2>4. ASSUME m \notin troubled
        PROVE  /\ controller[m] # "none"
               /\ container'[m].state \notin {"created", "running"}
    BY <1>3, <1>4, <2>1, <2>2, <2>4 DEF Stage, Quiet, InRow
  <2>5. m \notin troubled =>
          Stage(req'[p].pc, row'[m], container'[m], controller'[m], loop'[m])
    BY <2>1, <2>4
    DEF Stage, CreatePcs, StartPcs, StopPcs, DeletePcs, FindingPcs, StoppedPcs
  <2> QED BY <1>1, <1>2, <2>1, <2>3, <2>4, <2>5, SettledStep
<1>6. CASE StopGetControl(p) \/ StopCancelLoop(p)
  <2>1. /\ UNCHANGED <<life, row, container, controller>>
        /\ \/ /\ req[p].pc = "getControl" /\ req'[p].pc = "cancelLoop"
              /\ loop' = loop
           \/ /\ req[p].pc = "cancelLoop" /\ req'[p].pc = "commitStopped"
              /\ ~loop'[m]
    BY <1>2, <1>3, <1>6
    DEF StopGetControl, StopCancelLoop, At, Goto, Becomes, Requests, stored,
        process, TypeInv, TypeOK
  <2>2. m \notin troubled =>
          Stage(req'[p].pc, row'[m], container'[m], controller'[m], loop'[m])
    BY <1>4, <2>1
    DEF Stage, CreatePcs, StartPcs, StopPcs, DeletePcs, FindingPcs, StoppedPcs
  <2> QED BY <1>1, <1>2, <1>3, <1>4, <2>1, <2>2, SettledStep
<1>7. CASE StopCommit(p)
  <2>1. /\ req[p].pc = "commitStopped" /\ req'[p].pc = "refreshStopped"
        /\ UNCHANGED <<life, container, controller, loop>>
    BY <1>2, <1>3, <1>7 DEF StopCommit, At, Becomes, Requests, process
  <2>2. ~row'[m].started /\ row'[m].container_id = None
    <3>1. CASE row[m].started \/ row[m].container_id # None
      <4>1. row' = [row EXCEPT ![m] = Merged(row[m], row[m])]
        BY <1>2, <1>3, <1>7, <3>1 DEF StopCommit, Store
      <4> QED BY <1>3, <4>1 DEF Merged, Row, TypeInv, TypeOK
    <3>2. CASE ~(row[m].started \/ row[m].container_id # None)
      BY <1>2, <1>3, <1>7, <3>2 DEF StopCommit
    <3> QED BY <3>1, <3>2
  <2>3. Sane(life'[m], row'[m], container'[m])
    BY <1>3, <2>1, <2>2 DEF Sane
  <2>4. m \notin troubled =>
          /\ container'[m].state # "created"
          /\ Stage(req'[p].pc, row'[m], container'[m], controller'[m], loop'[m])
    BY <1>4, <2>1, <2>2
    DEF Stage, CreatePcs, StartPcs, StopPcs, DeletePcs, FindingPcs, StoppedPcs
  <2> QED BY <1>1, <1>2, <2>1, <2>2, <2>3, <2>4, SettledStep
<1>8. CASE StopRefresh(p)
  <2>1. /\ req[p].pc = "refreshStopped"
        /\ req'[p].pc \in {"idle", "commitStarted", "commitVersion"}
        /\ UNCHANGED <<life, row, container, controller, loop>>
    <3>1. /\ req[p].pc = "refreshStopped"
          /\ UNCHANGED <<life, row, container, controller, loop>>
      BY <1>8 DEF StopRefresh, At, stored, process
    <3>2. CASE Finish(p)
      BY <1>3, <3>1, <3>2 DEF Finish, Becomes, NoRequest
    <3>3. CASE ~Finish(p)
      <4>1. PICK pc \in {"commitStarted", "commitVersion"} :
              req' = [req EXCEPT ![p] = [req[p] EXCEPT !.row = row[m], !.pc = pc]]
        BY <1>2, <1>8, <3>3 DEF StopRefresh, Becomes
      <4>2. req'[p].pc = pc
        BY <1>3, <4>1 DEF Requests
      <4> QED BY <3>1, <4>2
    <3> QED BY <3>2, <3>3
  <2>2. m \notin troubled =>
          /\ controller[m] # "none" /\ ~loop[m] /\ ~row[m].started
          /\ container[m].state \notin {"created", "running"}
    BY <1>4, <2>1 DEF Stage, StopPcs, StoppedPcs
  <2>3. m \notin troubled /\ req'[p].pc = "idle" =>
          Quiet(life[m], row[m], container[m], controller[m], loop[m])
    BY <1>3, <2>2 DEF Quiet, Sane
  <2>4. m \notin troubled /\ req'[p].pc # "idle" =>
          Stage(req'[p].pc, row[m], container[m], controller[m], loop[m])
    BY <2>1, <2>2
    DEF Stage, CreatePcs, StartPcs, StopPcs, DeletePcs, FindingPcs, StoppedPcs
  <2> QED BY <1>1, <1>2, <1>3, <1>4, <2>1, <2>3, <2>4, SettledStep
<1>9. CASE UpdateCommitVersion(p)
  <2>1. /\ req[p].pc = "commitVersion" /\ req'[p].pc = "refreshVersion"
        /\ UNCHANGED <<life, container, controller, loop>>
    BY <1>2, <1>3, <1>9 DEF UpdateCommitVersion, At, Becomes, Requests, process
  <2>2. /\ row'[m].started = row[m].started
        /\ row'[m].container_id = row[m].container_id
    BY <1>2, <1>3, <1>9 DEF UpdateCommitVersion, Store, Row, TypeInv, TypeOK
  <2>3. Sane(life'[m], row'[m], container'[m])
    BY <1>3, <2>1, <2>2 DEF Sane
  <2>4. m \notin troubled =>
          Stage(req'[p].pc, row'[m], container'[m], controller'[m], loop'[m])
    BY <1>4, <2>1, <2>2
    DEF Stage, CreatePcs, StartPcs, StopPcs, DeletePcs, FindingPcs, StoppedPcs
  <2> QED BY <1>1, <1>2, <1>4, <2>1, <2>2, <2>3, <2>4, SettledStep
<1> QED
  BY <1>5, <1>6, <1>7, <1>8, <1>9 DEF StopStep

LEMMA DeleteSettled ==
  ASSUME TypeInv, SerialInv, SettledInv, NEW p \in Procs, DeleteStep(p),
         ~HandlerRaises(p)
  PROVE  SettledInv'
<1>1. HandlerStep(p) /\ ~At(p, "idle")
  BY DEF HandlerStep, DeleteStep, DeletePopControl, DeleteCancelLoop,
         DeleteContainer, DeleteData, DeleteRow, At
<1>2. PICK m \in Miniverses : m = req[p].m
  BY <1>1, HandlerType
<1>3. /\ Knows(req[p], life[m], row[m], container[m])
      /\ InRow(life[m], row[m], container[m])
      /\ req \in [Procs -> Requests] /\ req[p] \in Requests
      /\ req[p].row = row[m] /\ row[m] \in Row /\ life[m] = "present"
      /\ Sane(life[m], row[m], container[m])
  BY <1>1, <1>2, SettledFacts
<1>4. m \notin troubled =>
        /\ Stage(req[p].pc, row[m], container[m], controller[m], loop[m])
        /\ container[m].state = "created" => row[m].started
  BY <1>1, <1>2, SettledFacts
<1>5. CASE DeletePopControl(p)
  <2>1. /\ req[p].pc = "popControl"
        /\ req'[p].pc = IF controller[m] # "none" THEN "cancelPopped"
                                                  ELSE "removeContainer"
        /\ UNCHANGED <<life, row, container, loop>>
        /\ controller'[m] = "none"
    BY <1>2, <1>3, <1>5
    DEF DeletePopControl, At, Goto, Becomes, Requests, stored, TypeInv, TypeOK
  <2>2. m \notin troubled =>
          controller[m] # "none" /\ container[m].state # "created"
    BY <1>4, <2>1 DEF Stage, Quiet
  <2>3. m \notin troubled =>
          Stage(req'[p].pc, row'[m], container'[m], controller'[m], loop'[m])
    BY <2>1, <2>2
    DEF Stage, CreatePcs, StartPcs, StopPcs, DeletePcs, FindingPcs, StoppedPcs
  <2> QED BY <1>1, <1>2, <1>3, <1>4, <2>1, <2>3, SettledStep
<1>6. CASE DeleteCancelLoop(p)
  <2>1. /\ req[p].pc = "cancelPopped" /\ req'[p].pc = "removeContainer"
        /\ UNCHANGED <<life, row, container, controller>>
        /\ ~loop'[m]
    BY <1>2, <1>3, <1>6
    DEF DeleteCancelLoop, At, Goto, Becomes, Requests, stored, TypeInv, TypeOK
  <2>2. m \notin troubled =>
          Stage(req'[p].pc, row'[m], container'[m], controller'[m], loop'[m])
    BY <1>4, <2>1
    DEF Stage, CreatePcs, StartPcs, StopPcs, DeletePcs, FindingPcs, StoppedPcs
  <2> QED BY <1>1, <1>2, <1>3, <1>4, <2>1, <2>2, SettledStep
<1>7. CASE DeleteContainer(p) \/ DeleteData(p)
  <2>1. /\ UNCHANGED <<life, row, controller, loop>>
        /\ \/ req[p].pc = "removeContainer" /\ req'[p].pc = "removeData"
           \/ req[p].pc = "removeData" /\ req'[p].pc = "deleteRow"
        /\ container'[m] \in {container[m], NoContainer}
    BY <1>2, <1>3, <1>7
    DEF DeleteContainer, DeleteData, At, Goto, Becomes, Requests, stored,
        process, TypeInv, TypeOK
  <2>2. Sane(life'[m], row'[m], container'[m])
    BY <1>3, <2>1 DEF Sane
  <2>3. m \notin troubled =>
          /\ container'[m].state # "created"
          /\ Stage(req'[p].pc, row'[m], container'[m], controller'[m], loop'[m])
    BY <1>4, <2>1
    DEF NoContainer, Stage, CreatePcs, StartPcs, StopPcs, DeletePcs, FindingPcs,
        StoppedPcs
  <2> QED BY <1>1, <1>2, <2>1, <2>2, <2>3, SettledStep
<1>8. CASE DeleteRow(p)
  <2>1. /\ req[p].pc = "deleteRow" /\ req'[p].pc = "idle"
        /\ UNCHANGED <<container, controller, loop>>
        /\ life'[m] = "deleted" /\ row'[m] = NoRow
    BY <1>2, <1>3, <1>8
    DEF DeleteRow, At, Store, Finish, Becomes, NoRequest, process, TypeInv,
        TypeOK
  <2>2. Sane(life'[m], row'[m], container'[m])
    BY <2>1 DEF Sane, NoRow
  <2>3. m \notin troubled =>
          /\ container'[m].state # "created"
          /\ Quiet(life'[m], row'[m], container'[m], controller'[m], loop'[m])
    BY <1>3, <1>4, <2>1
    DEF Stage, Quiet, NoRow, Knows, RestPcs, DeletePcs
  <2> QED BY <1>1, <1>2, <2>1, <2>2, <2>3, SettledStep
<1> QED
  BY <1>5, <1>6, <1>7, <1>8 DEF DeleteStep

\* The process dies: no handler is left, and nothing is said of loops.
LEMMA DeathSettled ==
  ASSUME TypeInv, SettledInv, ProcessDies, UNCHANGED <<stored, container>>
  PROVE  SettledInv'
<1>1. api' = "down" /\ \A p \in Procs : At(p, "idle")'
  BY DEF ProcessDies, At, NoRequest
<1>2. UNCHANGED <<life, row, container, troubled>>
  BY DEF ProcessDies, stored
<1> QED BY <1>1, <1>2 DEF SettledInv

LEMMA AbortSettled ==
  ASSUME TypeInv, SerialInv, SettledInv, NEW p \in Procs, ~At(p, "idle"),
         Abort(p)
  PROVE  SettledInv'
<1>1. CASE p = Boot
  BY <1>1, DeathSettled DEF Abort
<1>2. CASE p # Boot
  <2>1. PICK m \in Miniverses : m = req[p].m
    BY HandlerType
  <2>2. /\ Becomes(p, NoRequest) /\ troubled' = troubled \union {m}
        /\ UNCHANGED <<api, bootQueue, life, row, container, controller, loop>>
    BY <1>2, <2>1 DEF Abort, Finish, stored, process
  <2>3. Sane(life[m], row[m], container[m])
    BY DEF SettledInv
  <2> QED
    BY <2>1, <2>2, <2>3, NoRequestType, SettledOwn
<1> QED BY <1>1, <1>2

\* The lookup that finds nothing because it failed.
LEMMA SwallowSettled ==
  ASSUME TypeInv, SerialInv, SettledInv, NEW p \in Procs,
         StartLookupSwallowsError(p)
  PROVE  SettledInv'
<1>1. ~At(p, "idle") /\ req[p].pc = "lookup"
  BY DEF StartLookupSwallowsError, At
<1>2. PICK m \in Miniverses : m = req[p].m
  BY <1>1, HandlerType
<1> DEFINE r == [req[p] EXCEPT !.pc = "createContainer"]
<1>3. /\ r \in Requests /\ r.m = m /\ r.pc = "createContainer"
      /\ Becomes(p, r)
  BY <1>1, <1>2, HandlerType
  DEF StartLookupSwallowsError, Goto, Requests, Pcs, StartPcs
<1>4. UNCHANGED <<api, bootQueue, troubled, life, row, container, controller, loop>>
  BY DEF StartLookupSwallowsError, stored, process
<1> HIDE DEF r
<1>5. /\ Sane(life[m], row[m], container[m])
      /\ m \notin troubled =>
           /\ Stage(req[p].pc, row[m], container[m], controller[m], loop[m])
           /\ container[m].state = "created" => row[m].started
  BY <1>1, <1>2, SettledFacts
<1>6. m \notin troubled =>
        Stage(r.pc, row[m], container[m], controller[m], loop[m])
  BY <1>1, <1>3, <1>5
  DEF Stage, CreatePcs, StartPcs, StopPcs, DeletePcs, FindingPcs, StoppedPcs
<1>7. r.pc # "idle" /\ r # NoRequest
  BY <1>3 DEF NoRequest
<1> QED BY <1>1, <1>2, <1>3, <1>4, <1>5, <1>6, <1>7, SettledOwn

LEMMA HandlerSettled ==
  ASSUME TypeInv, SerialInv, SettledInv, NEW p \in Procs, HandlerStep(p)
  PROVE  SettledInv'
<1>1. CASE HandlerRaises(p)
  BY <1>1, AbortSettled DEF HandlerRaises
<1>2. CASE ~HandlerRaises(p)
  BY <1>2, CreateSettled, RefreshSettled, StartSettled, StopSettled,
     DeleteSettled
  DEF HandlerStep
<1> QED BY <1>1, <1>2

\* A process that was idle takes on miniverse m, on which nobody works.
LEMMA TakeOnSettled ==
  ASSUME TypeInv, SettledInv, NEW p \in Procs, At(p, "idle"),
         NEW m \in Miniverses, ~Busy(m), api # "down", api' = api,
         NEW r, Becomes(p, r), r.m = m, r.pc # "idle",
         bootQueue \ {m} \subseteq bootQueue',
         UNCHANGED <<troubled, container, controller, loop>>,
         \A n \in Miniverses \ {m} : life'[n] = life[n] /\ row'[n] = row[n],
         Sane(life'[m], row'[m], container[m]),
         m \notin troubled =>
            /\ container[m].state = "created" => row'[m].started
            /\ Stage(r.pc, row'[m], container[m], controller[m], loop[m])
  PROVE  SettledInv'
<1>1. req'[p] = r /\ \A q \in Procs \ {p} : req'[q] = req[q]
  BY DEF Becomes, TypeInv, TypeOK
<1>2. req[p].m = None /\ None \notin Miniverses
  BY ConstantsAssumption DEF TypeInv, Targets
<1>3. ASSUME NEW n \in Miniverses
      PROVE  Sane(life'[n], row'[n], container'[n])
  BY DEF SettledInv
<1>4. ASSUME NEW n \in Miniverses, n \notin troubled',
             container'[n].state = "created"
      PROVE  row'[n].started
  <2>1. CASE n = m
    BY <1>4, <2>1
  <2>2. CASE n # m
    BY <1>4, <2>2 DEF SettledInv
  <2> QED BY <2>1, <2>2
<1>5. ASSUME NEW q \in Procs, ~At(q, "idle")', req'[q].m \notin troubled'
      PROVE  LET n == req'[q].m IN
             Stage(req'[q].pc, row'[n], container'[n], controller'[n], loop'[n])
  <2>1. CASE q = p
    BY <1>1, <1>5, <2>1
  <2>2. CASE q # p
    <3>1. req'[q] = req[q] /\ ~At(q, "idle")
      BY <1>1, <1>5, <2>2 DEF At
    <3>2. req[q].m \in Miniverses \ {m}
      BY <3>1, HandlerType DEF Busy
    <3> QED BY <1>5, <3>1, <3>2 DEF SettledInv
  <2> QED BY <2>1, <2>2
<1>6. ASSUME NEW n \in Miniverses, n \notin troubled', ~Busy(n)'
      PROVE  \/ Quiet(life'[n], row'[n], container'[n], controller'[n], loop'[n])
             \/ n \in bootQueue' /\ Waiting(controller'[n], loop'[n])
  <2>1. n # m
    BY <1>1, <1>6 DEF Busy
  <2>2. ~Busy(n)
    BY <1>1, <1>2, <1>6 DEF Busy
  <2> QED BY <1>6, <2>1, <2>2 DEF SettledInv
<1> QED BY <1>3, <1>4, <1>5, <1>6 DEF SettledInv

LEMMA RequestSettled ==
  ASSUME TypeInv, SerialInv, SettledInv, Serial, NEW p \in Procs, Request(p)
  PROVE  SettledInv'
<1>1. api = "serving" /\ p # Boot /\ At(p, "idle") /\ bootQueue = {}
  BY ConstantsAssumption
  DEF Request, CreateInsert, LoadRow, SerialInv, BootInv, TypeInv, TypeOK
<1>2. ASSUME NEW m \in Miniverses, NEW version \in Versions,
             CreateInsert(p, m, version)
      PROVE  SettledInv'
  <2> DEFINE w == [NoRow EXCEPT !.version = version]
             r == Handler("create", m, "commitRole", w)
  <2>1. w.container_id = None /\ ~w.started
    BY DEF NoRow
  <2>2. r.m = m /\ r.pc = "commitRole"
    BY DEF Handler
  <2>3. /\ Becomes(p, r) /\ life'[m] = "present" /\ row'[m] = w
        /\ \A n \in Miniverses \ {m} : life'[n] = life[n] /\ row'[n] = row[n]
        /\ UNCHANGED <<api, bootQueue, troubled, container, controller, loop>>
        /\ life[m] = "unborn"
    BY <1>2 DEF CreateInsert, Store, process, TypeInv, TypeOK
  <2> HIDE DEF r, w
  <2>4. ~Busy(m)
    <3> SUFFICES ASSUME NEW q \in Procs, req[q].m = m PROVE FALSE
      BY DEF Busy
    <3>1. ~At(q, "idle")
      BY ConstantsAssumption DEF TypeInv, Targets
    <3> QED BY <2>3, <3>1 DEF SerialInv, HandlerInv, Knows
  <2>5. row[m] = NoRow /\ container[m].state = "none"
    BY <2>3 DEF SettledInv, Sane
  <2>6. m \notin troubled => controller[m] = "none" /\ ~loop[m]
    BY <1>1, <2>3, <2>4, <2>5 DEF SettledInv, Quiet, NoRow
  <2>7. m \notin troubled =>
          Stage(r.pc, w, container[m], controller[m], loop[m])
    BY <2>1, <2>2, <2>5, <2>6
    DEF Stage, CreatePcs, StartPcs, StopPcs, DeletePcs, FindingPcs, StoppedPcs
  <2>8. Sane("present", w, container[m])
    BY <2>1 DEF Sane
  <2> QED
    BY <1>1, <2>2, <2>3, <2>4, <2>5, <2>7, <2>8, TakeOnSettled
<1>3. ASSUME NEW m \in Miniverses, NEW op \in DOMAIN FirstPc, LoadRow(p, m, op)
      PROVE  SettledInv'
  <2>0. PICK r \in Requests : Loaded(p, m, op, r)
    BY <1>3, LoadedIs
  <2>1. FirstPc[op] \in {"commitStarted", "dockerStop", "popControl"}
    BY DEF FirstPc
  <2>2. r.m = m /\ r.pc = FirstPc[op]
    BY <2>0 DEF Loaded
  <2>3. /\ Becomes(p, r) /\ ~Busy(m) /\ life[m] = "present"
        /\ UNCHANGED <<api, bootQueue, life, row, troubled, container,
                       controller, loop>>
    BY <1>3, <2>0 DEF Loaded, LoadRow, Present, stored, process
  <2>4. Sane(life[m], row[m], container[m])
    BY DEF SettledInv
  <2>5. m \notin troubled =>
          Quiet("present", row[m], container[m], controller[m], loop[m])
    BY <1>1, <2>3 DEF SettledInv
  <2>6. m \notin troubled =>
          Stage(r.pc, row[m], container[m], controller[m], loop[m])
    BY <2>1, <2>2, <2>5
    DEF Stage, Quiet, CreatePcs, StartPcs, StopPcs, DeletePcs, FindingPcs,
        StoppedPcs
  <2>7. m \notin troubled => container[m].state # "created"
    BY <2>5 DEF Quiet
  <2> QED
    BY <1>1, <2>1, <2>2, <2>3, <2>4, <2>6, <2>7, TakeOnSettled
<1> QED BY <1>2, <1>3 DEF Request

LEMMA BootSettled ==
  ASSUME TypeInv, SerialInv, SettledInv, BootStep
  PROVE  SettledInv'
<1>1. CASE BootRegister
  <2> DEFINE started == {m \in Miniverses : Present(m) /\ row[m].started}
  <2>1. /\ UNCHANGED <<life, row, container, req>>
        /\ \A p \in Procs : At(p, "idle")'
        /\ api' = "starting" /\ bootQueue' = started
        /\ troubled' = troubled \ started
    BY <1>1 DEF BootRegister, SettledInv, stored, At
  <2>2. ASSUME NEW m \in Miniverses
        PROVE  /\ loop'[m] <=> m \in started /\ row[m].version = "new"
               /\ controller'[m] = IF Present(m) THEN KindFor(row[m]) ELSE "none"
    BY <1>1 DEF BootRegister
  <2>3. ASSUME NEW m \in Miniverses
        PROVE  Sane(life[m], row[m], container[m])
    BY DEF SettledInv
  <2>4. ASSUME NEW m \in Miniverses, m \notin troubled'
        PROVE  container[m].state = "created" => row[m].started
    BY <2>1, <2>4 DEF SettledInv
  <2>5. ASSUME NEW m \in Miniverses, m \notin troubled'
        PROVE  \/ Quiet(life[m], row[m], container[m], controller'[m], loop'[m])
               \/ m \in started /\ Waiting(controller'[m], loop'[m])
    <3>1. CASE m \in started
      BY <2>2, <3>1 DEF Waiting, KindFor
    <3>2. CASE m \notin started
      <4>1. ~row[m].started
        BY <2>3, <3>2 DEF Sane, NoRow, Present
      <4>2. container[m].state \notin {"created", "running"}
        BY <2>4, <2>5, <4>1 DEF SerialInv, ContainerInv, InRow
      <4>3. row[m].container_id = None
        BY <2>3, <4>1 DEF Sane
      <4> QED
        BY <2>2, <3>2, <4>1, <4>2, <4>3 DEF Quiet, KindFor, Present
    <3> QED BY <3>1, <3>2
  <2> HIDE DEF started
  <2> QED BY <2>1, <2>3, <2>4, <2>5 DEF SettledInv
<1>2. CASE BootDone
  <2>1. /\ UNCHANGED <<life, row, container, controller, loop, bootQueue, req,
                       troubled>>
        /\ api = "starting" /\ api' = "serving"
    BY <1>2 DEF BootDone, stored
  <2> QED BY <2>1 DEF SettledInv, At, Busy
<1>3. ASSUME NEW m \in Miniverses, BootStart(m)
      PROVE  SettledInv'
  <2> DEFINE r == Handler("boot", m, "commitStarted", row[m])
  <2>1. r.m = m /\ r.pc = "commitStarted"
    BY DEF Handler
  <2>2. /\ Becomes(Boot, r) /\ At(Boot, "idle") /\ m \in bootQueue
        /\ api = "starting" /\ bootQueue' = bootQueue \ {m}
        /\ UNCHANGED <<api, life, row, troubled, container, controller, loop>>
    BY <1>3 DEF BootStart, stored
  <2> HIDE DEF r
  <2>3. ~Busy(m) /\ life[m] = "present"
    BY <2>2, ConstantsAssumption
    DEF Busy, SerialInv, BootInv, TypeInv, Targets, Procs, Present
  <2>4. /\ Sane(life[m], row[m], container[m])
        /\ m \notin troubled =>
             /\ container[m].state = "created" => row[m].started
             /\ \/ Quiet("present", row[m], container[m], controller[m], loop[m])
                \/ Waiting(controller[m], loop[m])
    BY <2>2, <2>3 DEF SettledInv
  <2>5. m \notin troubled =>
          Stage(r.pc, row[m], container[m], controller[m], loop[m])
    BY <2>1, <2>4
    DEF Stage, Quiet, Waiting, CreatePcs, StartPcs, StopPcs, DeletePcs,
        FindingPcs, StoppedPcs
  <2>6. Boot \in Procs
    BY DEF Procs
  <2> QED
    BY <2>1, <2>2, <2>3, <2>4, <2>5, <2>6, TakeOnSettled
<1> QED BY <1>1, <1>2, <1>3 DEF BootStep

LEMMA EnvironmentSettled ==
  ASSUME TypeInv, SerialInv, SettledInv, Environment
  PROVE  SettledInv'
<1>1. CASE Crash
  BY <1>1, DeathSettled DEF Crash
<1>2. ASSUME NEW p \in Procs, CallFails(p)
      PROVE  SettledInv'
  BY <1>2, AbortSettled DEF CallFails
<1>3. ASSUME NEW p \in Procs, StartLookupSwallowsError(p)
      PROVE  SettledInv'
  BY <1>3, SwallowSettled
<1>4. ASSUME NEW m \in Miniverses, ContainerExits(m)
      PROVE  SettledInv'
  <2>1. /\ UNCHANGED <<api, life, row, controller, loop, bootQueue, req>>
        /\ troubled' = troubled \union {m}
        /\ container[m].state = "running" /\ container'[m].state = "exited"
        /\ \A n \in Miniverses \ {m} : container'[n] = container[n]
    BY <1>4 DEF ContainerExits, Running, stored, process, TypeInv, TypeOK
  <2>2. ASSUME NEW n \in Miniverses
        PROVE  Sane(life'[n], row'[n], container'[n])
    <3>1. Sane(life[n], row[n], container[n])
      BY DEF SettledInv
    <3>2. n = m => life[n] # "unborn"
      BY <2>1, <3>1 DEF Sane
    <3> QED BY <2>1, <3>1, <3>2 DEF Sane
  <2>3. ASSUME NEW p \in Procs, ~At(p, "idle")', req'[p].m \notin troubled'
        PROVE  LET n == req'[p].m IN
               Stage(req'[p].pc, row'[n], container'[n], controller'[n], loop'[n])
    <3>1. req[p].m \in Miniverses \ {m} /\ ~At(p, "idle")
      BY <2>1, <2>3, HandlerType DEF At
    <3> QED BY <2>1, <2>3, <3>1 DEF SettledInv
  <2> QED BY <2>1, <2>2, <2>3 DEF SettledInv, At, Busy
<1>5. ASSUME NEW m \in Miniverses, ContainerReaped(m)
      PROVE  SettledInv'
  <2>1. /\ UNCHANGED <<api, life, row, controller, loop, bootQueue, req, troubled>>
        /\ container[m].state = "exited" /\ container'[m].state = "none"
        /\ \A n \in Miniverses \ {m} : container'[n] = container[n]
    BY <1>5
    DEF ContainerReaped, NoContainer, stored, process, TypeInv, TypeOK
  <2>2. ASSUME NEW n \in Miniverses
        PROVE  /\ Sane(life'[n], row'[n], container'[n])
               /\ container'[n].state = "created" <=> container[n].state = "created"
               /\ container'[n].state = "running" <=> container[n].state = "running"
               /\ container[n].state = "none" => container'[n].state = "none"
    <3>1. Sane(life[n], row[n], container[n])
      BY DEF SettledInv
    <3>2. CASE n = m
      BY <2>1, <3>1, <3>2 DEF Sane
    <3>3. CASE n # m
      BY <2>1, <3>1, <3>3
    <3> QED BY <3>2, <3>3
  <2>3. ASSUME NEW p \in Procs, ~At(p, "idle")', req'[p].m \notin troubled'
        PROVE  LET n == req'[p].m IN
               Stage(req'[p].pc, row'[n], container'[n], controller'[n], loop'[n])
    <3>1. req[p].m \in Miniverses /\ ~At(p, "idle")
      BY <2>1, <2>3, HandlerType DEF At
    <3>2. LET n == req[p].m IN
          Stage(req[p].pc, row[n], container[n], controller[n], loop[n])
      BY <2>1, <2>3, <3>1 DEF SettledInv
    <3> QED BY <2>1, <2>2, <3>1, <3>2 DEF Stage, Quiet
  <2>4. ASSUME NEW n \in Miniverses, n \notin troubled', api' # "down", ~Busy(n)'
        PROVE  \/ Quiet(life'[n], row'[n], container'[n], controller'[n], loop'[n])
               \/ n \in bootQueue' /\ Waiting(controller'[n], loop'[n])
    BY <2>1, <2>2, <2>4 DEF SettledInv, Busy, Quiet
  <2>5. ASSUME NEW n \in Miniverses, n \notin troubled',
               container'[n].state = "created"
        PROVE  row'[n].started
    BY <2>1, <2>2, <2>5 DEF SettledInv
  <2> QED BY <2>1, <2>2, <2>3, <2>4, <2>5 DEF SettledInv, At
<1> QED BY <1>1, <1>2, <1>3, <1>4, <1>5 DEF Environment

LEMMA NextSettled ==
  ASSUME Serial, TypeInv, SerialInv, SettledInv, [Next]_vars
  PROVE  SettledInv'
<1>1. CASE UNCHANGED vars
  BY <1>1 DEF vars, stored, process, SettledInv, At, Busy
<1> QED
  BY <1>1, HandlerSettled, RequestSettled, BootSettled, EnvironmentSettled
  DEF Next

LEMMA InitSettled == Init => SettledInv
<1> SUFFICES ASSUME Init PROVE SettledInv
  OBVIOUS
<1>1. api = "down" /\ \A p \in Procs : At(p, "idle")
  BY DEF Init, At, NoRequest
<1>2. ASSUME NEW m \in Miniverses
      PROVE  /\ life[m] = "unborn" /\ row[m] = NoRow
             /\ row[m].container_id = None /\ container[m].state = "none"
  BY DEF Init, NoRow, NoContainer
<1> QED BY <1>1, <1>2 DEF SettledInv, Sane

\* When no request on m is in flight, none failed and the server did not exit
\* by itself, row, container, controller and connect loop agree, after any
\* number of crashes and restarts of the API.
THEOREM SettledAlways == Spec => []Settled
<1> DEFINE SInv == IInv /\ (Serial => SettledInv)
<1>1. Init => SInv
  BY InitType, InitSerial, InitSettled DEF IInv
<1>2. SInv /\ [Next]_vars => SInv'
  BY NextType, NextSerial, NextSettled DEF IInv
<1>3. SInv => Settled
  <2> SUFFICES ASSUME IInv, Serial, SettledInv, NEW m \in Miniverses \ troubled,
                      api = "serving", ~Busy(m)
               PROVE  /\ Running(m) <=> row[m].started
                      /\ row[m].container_id # None <=> row[m].started
                      /\ loop[m] <=> row[m].started /\ controller[m] = "websocket"
                      /\ controller[m] # "none" <=> Present(m)
    BY DEF Settled
  <2>1. m \notin bootQueue
    BY DEF IInv, SerialInv, BootInv
  <2>2. Quiet(life[m], row[m], container[m], controller[m], loop[m])
    BY <2>1 DEF SettledInv
  <2> QED BY <2>2 DEF Quiet, Running, Present
<1> HIDE DEF SInv
<1> QED BY <1>1, <1>2, <1>3, PTL DEF Spec

=============================================================================
