-------------------------- MODULE MiniverseLifecycle --------------------------
(***************************************************************************)
(* The life of a miniverse (a managed Minecraft server): its row in the    *)
(* database, its data directory, its Docker container, its controller in   *)
(* the API process and the websocket connect loop of that controller.      *)
(*                                                                         *)
(* The API is one asyncio process.  A request handler runs alone between   *)
(* two awaits and may be overtaken by any other handler at each await, so  *)
(* a handler is a process and every action below is the effect of one      *)
(* awaited call together with the synchronous code around it.  A handler   *)
(* works on its own copy of the row (the session's identity map) and an    *)
(* UPDATE writes only the columns whose value it changed.                  *)
(*                                                                         *)
(* Docker is external: it is modelled by what dockerctl asks of it.        *)
(***************************************************************************)
EXTENDS Naturals

CONSTANTS
    Miniverses,    \* ids that create_miniverse may draw (uuid4, never reused)
    Workers,       \* slots for requests in flight
    Boot,          \* the task that runs the on_startup hooks
    ContainerIds,  \* Docker ids; an id nothing mentions may be drawn again
    None,
    Serial,        \* TRUE: clients never overlap two requests on a miniverse
    MaxFaults      \* bound on crashes, failed calls and spontaneous exits

Procs == Workers \union {Boot}
Ids == ContainerIds \union {None}

ASSUME ConstantsAssumption ==
    /\ Boot \notin Workers
    /\ None \notin Miniverses
    /\ None \notin ContainerIds
    /\ Serial \in BOOLEAN
    /\ MaxFaults \in Nat

VARIABLES
    api,        \* "down", "starting" (on_startup hooks) or "serving"
    life,       \* life[m]: is the row of m not yet inserted, there, or deleted
    row,        \* row[m]: the columns started, container_id and mc_version
    volume,     \* volume[m]: the data directory of m exists
    container,  \* container[m]: the Docker container named "miniverse-<m>"
    controller, \* _miniverse_control_services of the process
    loop,       \* loop[m]: the connect loop task of m's controller is live
    req,        \* req[p]: the handler process p is executing
    bootQueue,  \* started rows docker_startup has still to start
    troubled,   \* observer: a handler of m raised, or m's server exited by
                \* itself, and no start of the API has restarted m since
    faults      \* faults spent, at most MaxFaults

stored  == <<life, row, volume>>
process == <<api, controller, loop, bootQueue>>
vars == <<stored, container, process, req, troubled, faults>>

\* mc_version as compare_versions(mc_version, "1.21.9") sees it: "new" when the
\* answer is 1, "bad" when the string cannot be parsed, "old" otherwise.
Versions == {"old", "new", "bad"}

Row == [started : BOOLEAN, container_id : Ids, version : Versions]
NoRow == [started |-> FALSE, container_id |-> None, version |-> "old"]
NoContainer == [state |-> "none", id |-> None]

Ops == {"none", "create", "start", "stop", "restart", "update", "delete", "boot"}

StartPcs == {"commitStarted", "refreshStarted", "lookup", "commitFound",
             "refreshFound", "runFound", "createContainer", "commitCreated",
             "refreshCreated", "runCreated", "startControl"}
StopPcs == {"dockerStop", "getControl", "cancelLoop", "commitStopped",
            "refreshStopped", "commitVersion", "refreshVersion"}
DeletePcs == {"popControl", "cancelPopped", "removeContainer", "removeData",
              "deleteRow"}
CreatePcs == {"commitRole", "register"}
Pcs == {"idle"} \union StartPcs \union StopPcs \union DeletePcs
                \union CreatePcs

NoRequest == [op |-> "none", m |-> None, pc |-> "idle", row |-> NoRow,
              target |-> None, asked |-> "old"]
Requests == [op : Ops, m : Miniverses \union {None}, pc : Pcs, row : Row,
             target : Ids, asked : Versions]

TypeOK ==
    /\ api \in {"down", "starting", "serving"}
    /\ life \in [Miniverses -> {"unborn", "present", "deleted"}]
    /\ row \in [Miniverses -> Row]
    /\ volume \in [Miniverses -> BOOLEAN]
    /\ container \in [Miniverses ->
           [state : {"none", "created", "running", "exited"}, id : Ids]]
    /\ controller \in [Miniverses -> {"none", "router", "websocket"}]
    /\ loop \in [Miniverses -> BOOLEAN]
    /\ req \in [Procs -> Requests]
    /\ bootQueue \in SUBSET Miniverses
    /\ troubled \in SUBSET Miniverses
    /\ faults \in 0 .. MaxFaults

Init ==
    /\ api = "down"
    /\ life = [m \in Miniverses |-> "unborn"]
    /\ row = [m \in Miniverses |-> NoRow]
    /\ volume = [m \in Miniverses |-> FALSE]
    /\ container = [m \in Miniverses |-> NoContainer]
    /\ controller = [m \in Miniverses |-> "none"]
    /\ loop = [m \in Miniverses |-> FALSE]
    /\ req = [p \in Procs |-> NoRequest]
    /\ bootQueue = {}
    /\ troubled = {}
    /\ faults = 0

-----------------------------------------------------------------------------
(* Vocabulary of the handlers.                                             *)

Present(m) == life[m] = "present"
Running(m) == container[m].state = "running"
Busy(m) == \E p \in Procs : req[p].m = m

At(p, pc) == req[p].pc = pc
Becomes(p, r) == req' = [req EXCEPT ![p] = r]
Goto(p, pc) == Becomes(p, [req[p] EXCEPT !.pc = pc])
Finish(p) == Becomes(p, NoRequest)

\* A handler that just loaded the columns r of m.
Handler(op, m, pc, r) ==
    [op |-> op, m |-> m, pc |-> pc, row |-> r, target |-> None, asked |-> "old"]

\* The effect of a commit on the row of m.
Store(m, r) == row' = [row EXCEPT ![m] = r]

\* Ids of different miniverses never meet, so an id is as good as new for m
\* when neither its row, nor Docker, nor a handler of m still mentions it.
FreshFor(m, id) ==
    /\ id \notin {row[m].container_id, container[m].id}
    /\ \A p \in Procs : req[p].m = m =>
         id \notin {req[p].row.container_id, req[p].target}

\* The kind of controller add_miniverse makes for a row.
KindFor(r) == IF r.version = "new" THEN "websocket" ELSE "router"

\* control.start(): creates the connect loop task unless there is one; the
\* mc-router service has no task.
LoopAfterStart(m) == loop[m] \/ controller[m] = "websocket"

\* The process is gone: its handlers, controllers and tasks with it.
ProcessDies ==
    /\ api' = "down"
    /\ controller' = [m \in Miniverses |-> "none"]
    /\ loop' = [m \in Miniverses |-> FALSE]
    /\ bootQueue' = {}
    /\ req' = [p \in Procs |-> NoRequest]
    /\ UNCHANGED troubled

\* An exception leaves handler p: a request is answered with an error, an
\* on_startup hook takes the process down.
Abort(p) ==
    /\ \/ /\ p # Boot
          /\ Finish(p)
          /\ troubled' = troubled \union {req[p].m}
          /\ UNCHANGED process
       \/ p = Boot /\ ProcessDies
    /\ UNCHANGED <<stored, container>>

-----------------------------------------------------------------------------
(* create_miniverse: insert the row, then the creator's role and the data  *)
(* directory, then the controller; the rest is start_miniverse.            *)

CreateInsert(p, m, version) ==
    /\ api = "serving"
    /\ p \in Workers /\ At(p, "idle")
    /\ life[m] = "unborn"
    /\ LET r == [NoRow EXCEPT !.version = version] IN
         /\ Store(m, r)
         /\ Becomes(p, Handler("create", m, "commitRole", r))
    /\ life' = [life EXCEPT ![m] = "present"]
    /\ UNCHANGED <<volume, container, process, troubled, faults>>

\* The role's foreign key needs the row.
CreateRole(p) ==
    LET m == req[p].m IN
    /\ At(p, "commitRole")
    /\ Present(m)
    /\ volume' = [volume EXCEPT ![m] = TRUE]
    /\ Goto(p, "register")
    /\ UNCHANGED <<life, row, container, process, troubled, faults>>

\* add_miniverse: a controller that is there already is started instead; a
\* version that cannot be parsed makes compare_versions raise.
CreateRegister(p) ==
    LET m == req[p].m IN
    /\ At(p, "register")
    /\ \/ /\ controller[m] = "none"
          /\ req[p].row.version # "bad"
          /\ controller' = [controller EXCEPT ![m] = KindFor(req[p].row)]
          /\ UNCHANGED loop
       \/ /\ controller[m] # "none"
          /\ loop' = [loop EXCEPT ![m] = LoopAfterStart(m)]
          /\ UNCHANGED controller
    /\ Goto(p, "commitStarted")
    /\ UNCHANGED <<stored, container, api, bootQueue, troubled, faults>>

-----------------------------------------------------------------------------
(* The other endpoints load the row (404 without one) and call the         *)
(* service function.  An update of an unparsable version raises before it  *)
(* changes anything.                                                       *)

FirstPc == [start   |-> "commitStarted",
            stop    |-> "dockerStop",
            restart |-> "dockerStop",
            update  |-> "dockerStop",
            delete  |-> "popControl"]

\* What an update of a miniverse with the columns r may ask for: downgrades are
\* refused, so a version can only gain the management server.
Upgrades(r) ==
    IF r.version = "bad" THEN {} ELSE IF r.version = "new" THEN {"new"} ELSE {"old", "new"}

LoadRow(p, m, op) ==
    /\ api = "serving"
    /\ p \in Workers /\ At(p, "idle")
    /\ Present(m)
    /\ Serial => ~Busy(m)
    /\ \E version \in IF op = "update" THEN Upgrades(row[m]) ELSE {"old"} :
         Becomes(p, [Handler(op, m, FirstPc[op], row[m]) EXCEPT !.asked = version])
    /\ UNCHANGED <<stored, container, process, troubled, faults>>

\* db.refresh: the copy is read again; the row must still be there.
AfterRefresh == [refreshStarted |-> "lookup",
                 refreshFound   |-> "runFound",
                 refreshCreated |-> "runCreated",
                 refreshVersion |-> "commitStarted"]

Refresh(p) ==
    LET m == req[p].m IN
    /\ req[p].pc \in DOMAIN AfterRefresh
    /\ Present(m)
    /\ Becomes(p, [req[p] EXCEPT !.row = row[m], !.pc = AfterRefresh[@]])
    /\ UNCHANGED <<stored, container, process, troubled, faults>>

-----------------------------------------------------------------------------
(* start_miniverse: the row says "started" before Docker is asked anything,*)
(* and the container's id is committed before the container is started.    *)

StartCommit(p) ==
    LET m == req[p].m
        dirty == ~req[p].row.started IN
    /\ At(p, "commitStarted")
    /\ volume[m]
    /\ dirty => Present(m)
    /\ IF dirty THEN Store(m, [row[m] EXCEPT !.started = TRUE])
                ELSE UNCHANGED row
    /\ Becomes(p, [req[p] EXCEPT !.row = [@ EXCEPT !.started = TRUE],
                                 !.pc = "refreshStarted"])
    /\ UNCHANGED <<life, volume, container, process, troubled, faults>>

\* Mutant: the lookup without all=True, which sees running containers only.
StartLookupRunningOnly(p) ==
    LET m == req[p].m IN
    /\ At(p, "lookup")
    /\ \/ /\ ~Running(m)
          /\ Goto(p, "createContainer")
       \/ /\ Running(m)
          /\ Becomes(p, [req[p] EXCEPT !.target = container[m].id,
                                       !.pc = "commitFound"])
    /\ UNCHANGED <<stored, container, process, troubled, faults>>

StartLookup(p) ==
    LET m == req[p].m IN
    /\ At(p, "lookup")
    /\ \/ /\ container[m].state = "none"
          /\ Goto(p, "createContainer")
       \/ /\ container[m].state # "none"
          /\ Becomes(p, [req[p] EXCEPT !.target = container[m].id,
                                       !.pc = "commitFound"])
    /\ UNCHANGED <<stored, container, process, troubled, faults>>

\* get_container_by_name turns every exception into "no such container".
StartLookupSwallowsError(p) ==
    /\ At(p, "lookup")
    /\ faults < MaxFaults
    /\ faults' = faults + 1
    /\ Goto(p, "createContainer")
    /\ UNCHANGED <<stored, container, process, troubled>>

\* The name must be free, else Docker answers 409.
CreateContainer(p, id) ==
    LET m == req[p].m IN
    /\ At(p, "createContainer")
    /\ container[m].state = "none"
    /\ FreshFor(m, id)
    /\ container' = [container EXCEPT ![m] = [state |-> "created", id |-> id]]
    /\ Becomes(p, [req[p] EXCEPT !.target = id, !.pc = "commitCreated"])
    /\ UNCHANGED <<stored, process, troubled, faults>>

AfterRecord == [commitFound |-> "refreshFound",
                commitCreated |-> "refreshCreated"]

\* Mutant: the container's name is recorded in place of its id.
RecordContainerName(p) ==
    LET m == req[p].m IN
    /\ req[p].pc \in DOMAIN AfterRecord
    /\ Present(m)
    /\ Store(m, [row[m] EXCEPT !.container_id = m])
    /\ Becomes(p, [req[p] EXCEPT !.row = [@ EXCEPT !.container_id = m],
                                 !.pc = AfterRecord[@]])
    /\ UNCHANGED <<life, volume, container, process, troubled, faults>>

RecordContainer(p) ==
    LET m == req[p].m
        dirty == req[p].row.container_id # req[p].target IN
    /\ req[p].pc \in DOMAIN AfterRecord
    /\ dirty => Present(m)
    /\ IF dirty THEN Store(m, [row[m] EXCEPT !.container_id = req[p].target])
                ELSE UNCHANGED row
    /\ Becomes(p, [req[p] EXCEPT
                      !.row = [@ EXCEPT !.container_id = req[p].target],
                      !.pc = AfterRecord[@]])
    /\ UNCHANGED <<life, volume, container, process, troubled, faults>>

CanRun(m, id) ==
    container[m].id = id /\ container[m].state \in {"created", "running"}

\* Mutant: a container found by name is taken to be running.
RunFoundAssumed(p) ==
    /\ At(p, "runFound")
    /\ CanRun(req[p].m, req[p].target)
    /\ Finish(p)
    /\ UNCHANGED <<stored, container, process, troubled, faults>>

\* A container that was found by name is started and nothing else is done.
RunFound(p) ==
    LET m == req[p].m IN
    /\ At(p, "runFound")
    /\ CanRun(m, req[p].target)
    /\ container' = [container EXCEPT ![m].state = "running"]
    /\ Finish(p)
    /\ UNCHANGED <<stored, process, troubled, faults>>

RunCreated(p) ==
    LET m == req[p].m IN
    /\ At(p, "runCreated")
    /\ CanRun(m, req[p].target)
    /\ container' = [container EXCEPT ![m].state = "running"]
    /\ Goto(p, "startControl")
    /\ UNCHANGED <<stored, process, troubled, faults>>

\* Mutant: the controller is taken before the container is started and used
\* after the await.
StartControlHeld(p) ==
    /\ At(p, "startControl")
    /\ loop' = [loop EXCEPT ![req[p].m] = TRUE]
    /\ Finish(p)
    /\ UNCHANGED <<stored, container, api, controller, bootQueue, troubled,
                   faults>>

StartControl(p) ==
    LET m == req[p].m IN
    /\ At(p, "startControl")
    /\ controller[m] # "none"
    /\ loop' = [loop EXCEPT ![m] = LoopAfterStart(m)]
    /\ Finish(p)
    /\ UNCHANGED <<stored, container, api, controller, bootQueue, troubled,
                   faults>>

-----------------------------------------------------------------------------
(* stop_miniverse, and the tails restart_miniverse and                     *)
(* update_miniverse_game_version give it.                                  *)

\* Mutant: every exception of the stop is swallowed, not only NotFound.
StopContainerSwallowsAll(p) ==
    LET m == req[p].m IN
    /\ At(p, "dockerStop")
    /\ \/ /\ Running(m) /\ container[m].id = req[p].row.container_id
          /\ container' = [container EXCEPT ![m].state = "exited"]
       \/ UNCHANGED container
    /\ Goto(p, "getControl")
    /\ UNCHANGED <<stored, process, troubled, faults>>

\* Only the container the row names is stopped; NotFound is swallowed and a
\* container that is not running is left alone.
StopContainer(p) ==
    LET m == req[p].m IN
    /\ At(p, "dockerStop")
    /\ container' =
         IF /\ req[p].row.container_id # None
            /\ container[m].id = req[p].row.container_id
            /\ Running(m)
         THEN [container EXCEPT ![m].state = "exited"] ELSE container
    /\ Goto(p, "getControl")
    /\ UNCHANGED <<stored, process, troubled, faults>>

StopGetControl(p) ==
    /\ At(p, "getControl")
    /\ controller[req[p].m] # "none"
    /\ Goto(p, "cancelLoop")
    /\ UNCHANGED <<stored, container, process, troubled, faults>>

\* Mutant: the task is forgotten without being cancelled.
StopForgetsLoop(p) ==
    /\ At(p, "cancelLoop")
    /\ Goto(p, "commitStopped")
    /\ UNCHANGED <<stored, container, process, troubled, faults>>

\* control.stop(): the players are fetched once more, then the task goes.
StopCancelLoop(p) ==
    /\ At(p, "cancelLoop")
    /\ loop' = [loop EXCEPT ![req[p].m] = FALSE]
    /\ Goto(p, "commitStopped")
    /\ UNCHANGED <<stored, container, api, controller, bootQueue, troubled,
                   faults>>

\* The UPDATE of stop_miniverse: only the columns it changes in its own copy.
Merged(mine, theirs) ==
    [theirs EXCEPT
       !.started = IF mine.started THEN FALSE ELSE @,
       !.container_id = IF mine.container_id # None THEN None ELSE @]

StopCommit(p) ==
    LET m == req[p].m
        mine == req[p].row
        dirty == mine.started \/ mine.container_id # None IN
    /\ At(p, "commitStopped")
    /\ dirty => Present(m)
    /\ IF dirty THEN Store(m, Merged(mine, row[m])) ELSE UNCHANGED row
    /\ Becomes(p, [req[p] EXCEPT
                      !.row = [@ EXCEPT !.started = FALSE,
                                        !.container_id = None],
                      !.pc = "refreshStopped"])
    /\ UNCHANGED <<life, volume, container, process, troubled, faults>>

StopRefresh(p) ==
    LET m == req[p].m IN
    /\ At(p, "refreshStopped")
    /\ Present(m)
    /\ \/ req[p].op = "stop" /\ Finish(p)
       \/ /\ req[p].op = "restart"
          /\ Becomes(p, [req[p] EXCEPT !.row = row[m],
                                       !.pc = "commitStarted"])
       \/ /\ req[p].op = "update"
          /\ Becomes(p, [req[p] EXCEPT !.row = row[m],
                                       !.pc = "commitVersion"])
    /\ UNCHANGED <<stored, container, process, troubled, faults>>

\* The version was judged by the copy loaded before the stop. The controller
\* keeps the kind it was created with.
UpdateCommitVersion(p) ==
    LET m == req[p].m IN
    /\ At(p, "commitVersion")
    /\ Present(m)
    /\ Store(m, [row[m] EXCEPT !.version = req[p].asked])
    /\ Becomes(p, [req[p] EXCEPT !.row = [@ EXCEPT !.version = req[p].asked],
                                 !.pc = "refreshVersion"])
    /\ UNCHANGED <<life, volume, container, process, troubled, faults>>

-----------------------------------------------------------------------------
(* delete_miniverse.                                                       *)

\* remove_miniverse pops the controller first and stops it afterwards.
DeletePopControl(p) ==
    LET m == req[p].m IN
    /\ At(p, "popControl")
    /\ controller' = [controller EXCEPT ![m] = "none"]
    /\ Goto(p, IF controller[m] # "none" THEN "cancelPopped"
                                         ELSE "removeContainer")
    /\ UNCHANGED <<stored, container, api, loop, bootQueue, troubled, faults>>

DeleteCancelLoop(p) ==
    /\ At(p, "cancelPopped")
    /\ loop' = [loop EXCEPT ![req[p].m] = FALSE]
    /\ Goto(p, "removeContainer")
    /\ UNCHANGED <<stored, container, api, controller, bootQueue, troubled,
                   faults>>

\* Mutant: removal without force=True, which leaves a running container.
DeleteContainerUnforced(p) ==
    LET m == req[p].m IN
    /\ At(p, "removeContainer")
    /\ container' =
         IF /\ container[m].id = req[p].row.container_id
            /\ ~Running(m)
         THEN [container EXCEPT ![m] = NoContainer] ELSE container
    /\ Goto(p, "removeData")
    /\ UNCHANGED <<stored, process, troubled, faults>>

\* remove(force=True) kills a running container; NotFound is swallowed.
DeleteContainer(p) ==
    LET m == req[p].m IN
    /\ At(p, "removeContainer")
    /\ container' =
         IF /\ req[p].row.container_id # None
            /\ container[m].id = req[p].row.container_id
         THEN [container EXCEPT ![m] = NoContainer] ELSE container
    /\ Goto(p, "removeData")
    /\ UNCHANGED <<stored, process, troubled, faults>>

DeleteData(p) ==
    /\ At(p, "removeData")
    /\ volume' = [volume EXCEPT ![req[p].m] = FALSE]
    /\ Goto(p, "deleteRow")
    /\ UNCHANGED <<life, row, container, process, troubled, faults>>

\* Deleting a row that is gone only logs a warning.
DeleteRow(p) ==
    LET m == req[p].m IN
    /\ At(p, "deleteRow")
    /\ life' = [life EXCEPT ![m] = "deleted"]
    /\ Store(m, NoRow)
    /\ Finish(p)
    /\ UNCHANGED <<volume, container, process, troubled, faults>>

-----------------------------------------------------------------------------
(* Exceptions the code runs into by itself.                                *)

RowGone(p) ==
    /\ ~Present(req[p].m)
    /\ \/ req[p].pc \in DOMAIN AfterRefresh
       \/ req[p].pc \in {"commitRole", "refreshStopped", "commitVersion"}
       \/ At(p, "commitStarted") /\ ~req[p].row.started
       \/ /\ req[p].pc \in DOMAIN AfterRecord
          /\ req[p].row.container_id # req[p].target
       \/ /\ At(p, "commitStopped")
          /\ req[p].row.started \/ req[p].row.container_id # None

DockerRefuses(p) ==
    LET m == req[p].m IN
    \/ At(p, "createContainer") /\ container[m].state # "none"
    \/ At(p, "runFound") /\ ~CanRun(m, req[p].target)
    \/ At(p, "runCreated") /\ ~CanRun(m, req[p].target)
    \* its automatic removal is already in progress
    \/ /\ At(p, "removeContainer")
       /\ container[m] = [state |-> "exited", id |-> req[p].row.container_id]

NoController(p) ==
    /\ req[p].pc \in {"startControl", "getControl"}
    /\ controller[req[p].m] = "none"

\* init_data_path copies the icon into a directory it does not create.
NoDataDirectory(p) == At(p, "commitStarted") /\ ~volume[req[p].m]

\* compare_versions dereferences the None of an unparsable first argument.
BadVersion(p) ==
    /\ At(p, "register")
    /\ controller[req[p].m] = "none" /\ req[p].row.version = "bad"

HandlerRaises(p) ==
    /\ ~At(p, "idle")
    /\ \/ RowGone(p) \/ DockerRefuses(p) \/ NoController(p)
       \/ NoDataDirectory(p) \/ BadVersion(p)
    /\ Abort(p)
    /\ UNCHANGED faults

-----------------------------------------------------------------------------
(* The startup hooks, in their order, and the environment.                 *)

\* Mutant: only started miniverses get a controller.
BootRegisterStarted ==
    LET started == {m \in Miniverses : Present(m) /\ row[m].started} IN
    /\ api = "down"
    /\ \A m \in Miniverses : Present(m) => row[m].version # "bad"
    /\ api' = "starting"
    /\ controller' = [m \in Miniverses |->
                        IF m \in started THEN KindFor(row[m]) ELSE "none"]
    /\ loop' = [m \in Miniverses |-> m \in started /\ row[m].version = "new"]
    /\ bootQueue' = started
    /\ troubled' = troubled \ started
    /\ UNCHANGED <<stored, container, req, faults>>

\* miniverse_controller_manager_startup, and the query of docker_startup.  One
\* row whose version cannot be parsed is enough for the start to fail.
BootRegister ==
    LET started == {m \in Miniverses : Present(m) /\ row[m].started} IN
    /\ api = "down"
    /\ \A m \in Miniverses : Present(m) => row[m].version # "bad"
    /\ api' = "starting"
    /\ controller' = [m \in Miniverses |->
                        IF Present(m) THEN KindFor(row[m]) ELSE "none"]
    /\ loop' = [m \in Miniverses |-> m \in started /\ row[m].version = "new"]
    /\ bootQueue' = started
    /\ troubled' = troubled \ started
    /\ UNCHANGED <<stored, container, req, faults>>

BootStart(m) ==
    /\ api = "starting"
    /\ At(Boot, "idle")
    /\ m \in bootQueue
    /\ bootQueue' = bootQueue \ {m}
    /\ Becomes(Boot, Handler("boot", m, "commitStarted", row[m]))
    /\ UNCHANGED <<stored, container, api, controller, loop, troubled, faults>>

BootDone ==
    /\ api = "starting"
    /\ At(Boot, "idle")
    /\ bootQueue = {}
    /\ api' = "serving"
    /\ UNCHANGED <<stored, container, controller, loop, bootQueue, req,
                   troubled, faults>>

\* The API process is killed; on_shutdown is empty, so containers run on.
Crash ==
    /\ api # "down"
    /\ faults < MaxFaults
    /\ faults' = faults + 1
    /\ ProcessDies
    /\ UNCHANGED <<stored, container>>

\* The call handler p awaits fails, or its answer is lost: Docker, the
\* database, the management websocket or the version list.
CallFails(p) ==
    /\ ~At(p, "idle")
    /\ faults < MaxFaults
    /\ faults' = faults + 1
    /\ Abort(p)

\* The Minecraft server ends by itself or by a command typed in its console.
ContainerExits(m) ==
    /\ Running(m)
    /\ faults < MaxFaults
    /\ faults' = faults + 1
    /\ container' = [container EXCEPT ![m].state = "exited"]
    /\ troubled' = troubled \union {m}
    /\ UNCHANGED <<stored, process, req>>

\* auto_remove=True: the daemon removes an exited container a little later.
ContainerReaped(m) ==
    /\ container[m].state = "exited"
    /\ container' = [container EXCEPT ![m] = NoContainer]
    /\ UNCHANGED <<stored, process, req, troubled, faults>>

-----------------------------------------------------------------------------

StartStep(p) ==
    \/ StartCommit(p) \/ StartLookup(p) \/ RecordContainer(p)
    \/ \E id \in ContainerIds : CreateContainer(p, id)
    \/ RunFound(p) \/ RunCreated(p) \/ StartControl(p)

StopStep(p) ==
    \/ StopContainer(p) \/ StopGetControl(p) \/ StopCancelLoop(p)
    \/ StopCommit(p) \/ StopRefresh(p)
    \/ UpdateCommitVersion(p)

DeleteStep(p) ==
    \/ DeletePopControl(p) \/ DeleteCancelLoop(p) \/ DeleteContainer(p)
    \/ DeleteData(p) \/ DeleteRow(p)

\* What the event loop does for the handler p once its await is answered.
HandlerStep(p) ==
    \/ CreateRole(p) \/ CreateRegister(p) \/ Refresh(p)
    \/ StartStep(p) \/ StopStep(p) \/ DeleteStep(p)
    \/ HandlerRaises(p)

Request(p) ==
    \E m \in Miniverses :
       \/ \E version \in Versions : CreateInsert(p, m, version)
       \/ \E op \in DOMAIN FirstPc : LoadRow(p, m, op)

BootStep == BootRegister \/ BootDone \/ \E m \in Miniverses : BootStart(m)

Environment ==
    \/ Crash
    \/ \E p \in Procs : CallFails(p) \/ StartLookupSwallowsError(p)
    \/ \E m \in Miniverses : ContainerExits(m) \/ ContainerReaped(m)

Next ==
    \/ \E p \in Procs : HandlerStep(p) \/ Request(p)
    \/ BootStep
    \/ Environment

Spec == Init /\ [][Next]_vars

\* Awaited calls are answered or fail, the supervisor restarts the API
\* (restart: unless-stopped) and Docker completes automatic removals.  Nobody
\* promises that requests come.
Fairness ==
    /\ \A p \in Procs : WF_vars(HandlerStep(p))
    /\ WF_vars(BootStep)
    /\ \A m \in Miniverses : WF_vars(ContainerReaped(m))

FairSpec == Spec /\ Fairness

-----------------------------------------------------------------------------
(* Properties.                                                             *)

\* A server never runs behind the database's back: while the container of m
\* runs, the row of m exists, says "started" and names that container, so a
\* later stop or delete reaches it.  It rests on start_miniverse committing
\* started and container_id before it starts the container, and on
\* stop_miniverse and delete_miniverse forgetting the container only after
\* they stopped it - across crashes, failed calls and restarts of the API.
Recorded ==
    Serial => \A m \in Miniverses : Running(m) =>
        /\ Present(m)
        /\ row[m].started
        /\ row[m].container_id = container[m].id

\* When no request on m is in flight, none failed and the server did not exit
\* by itself, the four places that know about m agree: the row's started flag,
\* the container, the controller and its connect loop - also right after a
\* start of the API that recovered from a crash in the middle of anything.
Settled ==
    Serial => \A m \in Miniverses \ troubled :
        api = "serving" /\ ~Busy(m) =>
            /\ Running(m) <=> row[m].started
            /\ row[m].container_id # None <=> row[m].started
            /\ loop[m] <=> row[m].started /\ controller[m] = "websocket"
            /\ controller[m] # "none" <=> Present(m)

\* However requests overlap, a connect loop that no registered controller
\* owns is one that a delete_miniverse in flight is about to cancel, unless a
\* handler of m raised: remove_miniverse pops the controller before it awaits,
\* and start_miniverse takes the controller and starts it without an await.
LoopOwned ==
    \A m \in Miniverses \ troubled :
        loop[m] /\ controller[m] = "none" =>
            \E p \in Workers : req[p].m = m /\ At(p, "cancelPopped")

\* The windows in which a row has no controller while the API serves: before
\* create_miniverse reaches add_miniverse and after delete_miniverse popped
\* it, however requests overlap; or for good after a handler of m raised.
ControllerCovers ==
    \A m \in Miniverses \ troubled :
        api = "serving" /\ Present(m) /\ controller[m] = "none" =>
            \E p \in Workers :
                /\ req[p].m = m
                /\ req[p].pc \in CreatePcs \union (DeletePcs \ {"popControl"})

\* The rows the startup hooks can digest.  A create_miniverse with a version
\* that cannot be parsed, or a delete_miniverse that dies between
\* shutil.rmtree and its commit, leave one they cannot, for good.
RowsDigestible ==
    \A m \in Miniverses : Present(m) =>
        row[m].version # "bad" /\ (row[m].started => volume[m])

\* A start of the API that finds digestible rows comes through,
\* whatever a crash left behind: half created, stopped or exited containers.
BootComesThrough ==
    (api = "down" /\ RowsDigestible) ~> (api = "serving")

\* docker_startup brings every server back that was started when the API died.
BootRestores ==
    \A m \in Miniverses :
        (api = "down" /\ RowsDigestible /\ Present(m) /\ row[m].started)
            ~> Running(m)
=============================================================================
