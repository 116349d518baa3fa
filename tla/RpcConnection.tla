---------------------------- MODULE RpcConnection ----------------------------
(***************************************************************************)
(* The connection of one WebSocketMiniverseService to the management       *)
(* server of its miniverse: the connect loop of its RpcService, a task     *)
(* that start() creates and stop() cancels, and the attribute server that  *)
(* every call goes through.                                                *)
(*                                                                         *)
(* Each round of the loop makes a new Server, tries to connect, greets     *)
(* (on_connect), polls while the link is up, and closes in a finally.  A   *)
(* cancelled task goes on from its await to that finally, which awaits     *)
(* again; meanwhile a new task may have been started.                      *)
(***************************************************************************)
EXTENDS Naturals

CONSTANTS
    Tasks,      \* the tasks start() creates, each once
    NoTask,
    MaxFaults   \* bound on the failures of a running server

ASSUME TasksAssumption == NoTask \notin Tasks
ASSUME FaultsAssumption == MaxFaults \in Nat

VARIABLES
    up,         \* the management server answers
    task,       \* WebSocketMiniverseService.task
    server,     \* RpcService.server: NoTask for None, else the task whose loop
                \* made it
    loop,       \* loop[t]: what the task is awaiting
    link,       \* link[t]: connected of the Server of t's round
    cancelled,  \* tasks whose cancellation is asked and not yet delivered
    ending,     \* tasks on their way out after a cancellation
    stopping,   \* what stop() awaits of its refresh: the answer of the server,
                \* or, answered, the store
    faults

vars == <<up, task, server, loop, link, cancelled, ending, stopping, faults>>
env == <<up, faults>>

Pcs == {"unborn", "connect", "greet", "poll", "close", "wait", "done"}

Alive(t) == loop[t] \notin {"unborn", "done"}

\* Every variable has its type, and a link belongs to a round that is not over.
TypeOK ==
    /\ up \in BOOLEAN
    /\ task \in Tasks \union {NoTask}
    /\ server \in Tasks \union {NoTask}
    /\ loop \in [Tasks -> Pcs]
    /\ link \in [Tasks -> BOOLEAN]
    /\ cancelled \subseteq Tasks
    /\ ending \subseteq Tasks
    /\ stopping \in {"no", "asking", "answered"}
    /\ faults \in 0 .. MaxFaults
    /\ \A t \in Tasks : link[t] => loop[t] \in {"greet", "poll", "close"}

Init ==
    /\ up = FALSE
    /\ task = NoTask
    /\ server = NoTask
    /\ loop = [t \in Tasks |-> "unborn"]
    /\ link = [t \in Tasks |-> FALSE]
    /\ cancelled = {}
    /\ ending = {}
    /\ stopping = "no"
    /\ faults = 0

Goto(t, pc) == loop' = [loop EXCEPT ![t] = pc]

-----------------------------------------------------------------------------
(* The service.                                                            *)

\* Mutant: start() does not look at self.task
StartAgain(t) ==
    /\ loop[t] = "unborn"
    /\ Goto(t, "connect")
    /\ task' = t
    /\ UNCHANGED <<env, server, link, cancelled, ending, stopping>>

Start(t) ==
    /\ loop[t] = "unborn"
    /\ task = NoTask
    /\ Goto(t, "connect")
    /\ task' = t
    /\ UNCHANGED <<env, server, link, cancelled, ending, stopping>>

\* stop() refreshes the players first, through the server there is.
BeginStop ==
    /\ stopping = "no"
    /\ stopping' = "asking"
    /\ UNCHANGED <<env, task, server, loop, link, cancelled, ending>>

StopAnswered ==
    /\ stopping = "asking"
    /\ server # NoTask => link[server]
    /\ stopping' = "answered"
    /\ UNCHANGED <<env, task, server, loop, link, cancelled, ending>>

\* The link is gone under the call, or the server has been closed.
StopRaises ==
    /\ stopping = "asking"
    /\ server # NoTask => ~link[server]
    /\ stopping' = "no"
    /\ UNCHANGED <<env, task, server, loop, link, cancelled, ending>>

\* The store fails.
StoreRaises ==
    /\ stopping = "answered"
    /\ faults < MaxFaults
    /\ faults' = faults + 1
    /\ stopping' = "no"
    /\ UNCHANGED <<up, task, server, loop, link, cancelled, ending>>

EndStop ==
    /\ stopping = "answered"
    /\ stopping' = "no"
    /\ cancelled' = IF task # NoTask THEN cancelled \union {task} ELSE cancelled
    /\ task' = NoTask
    /\ UNCHANGED <<env, server, loop, link, ending>>

-----------------------------------------------------------------------------
(* The loop.                                                               *)

\* ws_connect, and the assignment that follows it
Connect(t) ==
    /\ loop[t] = "connect" /\ t \notin cancelled
    /\ IF up
       THEN /\ Goto(t, "greet")
            /\ link' = [link EXCEPT ![t] = TRUE]
            /\ server' = t
       ELSE Goto(t, "close") /\ UNCHANGED <<link, server>>
    /\ UNCHANGED <<env, task, cancelled, ending, stopping>>

\* on_connect: the handlers are set and three lists refreshed
Greet(t) ==
    /\ loop[t] = "greet" /\ t \notin cancelled
    /\ Goto(t, IF link[t] THEN "poll" ELSE "close")
    /\ UNCHANGED <<env, task, server, link, cancelled, ending, stopping>>

GreetRaises(t) ==
    /\ loop[t] = "greet" /\ t \notin cancelled
    /\ faults < MaxFaults
    /\ faults' = faults + 1
    /\ Goto(t, "close")
    /\ UNCHANGED <<up, task, server, link, cancelled, ending, stopping>>

Poll(t) ==
    /\ loop[t] = "poll" /\ t \notin cancelled
    /\ ~link[t]
    /\ Goto(t, "close")
    /\ UNCHANGED <<env, task, server, link, cancelled, ending, stopping>>

\* Mutant: the finally forgets to close the server
CloseNot(t) ==
    /\ loop[t] = "close" /\ t \notin cancelled
    /\ Goto(t, IF t \in ending THEN "done" ELSE "wait")
    /\ server' = NoTask
    /\ ending' = ending \ {t}
    /\ UNCHANGED <<env, task, link, cancelled, stopping>>

\* Mutant: a continue in the finally swallows the cancellation
CloseContinues(t) ==
    /\ loop[t] = "close" /\ t \notin cancelled
    /\ Goto(t, "wait")
    /\ link' = [link EXCEPT ![t] = FALSE]
    /\ server' = NoTask
    /\ UNCHANGED <<env, task, cancelled, ending, stopping>>

\* Mutant: a failure ends the loop
CloseForGood(t) ==
    /\ loop[t] = "close" /\ t \notin cancelled
    /\ Goto(t, "done")
    /\ link' = [link EXCEPT ![t] = FALSE]
    /\ server' = NoTask
    /\ ending' = ending \ {t}
    /\ UNCHANGED <<env, task, cancelled, stopping>>

\* the finally: server.close(), then self.server = None, whoever set it
Close(t) ==
    /\ loop[t] = "close" /\ t \notin cancelled
    /\ Goto(t, IF t \in ending THEN "done" ELSE "wait")
    /\ link' = [link EXCEPT ![t] = FALSE]
    /\ server' = NoTask
    /\ ending' = ending \ {t}
    /\ UNCHANGED <<env, task, cancelled, stopping>>

Wait(t) ==
    /\ loop[t] = "wait" /\ t \notin cancelled
    /\ Goto(t, "connect")
    /\ UNCHANGED <<env, task, server, link, cancelled, ending, stopping>>

\* CancelledError is raised from the await: inside the try it leads to the
\* finally; inside the finally, and during the pause, out of the loop.
CancelDelivered(t) ==
    /\ t \in cancelled
    /\ cancelled' = cancelled \ {t}
    /\ IF loop[t] \in {"connect", "greet", "poll"}
       THEN Goto(t, "close") /\ ending' = ending \union {t} /\ UNCHANGED link
       ELSE /\ Goto(t, "done")
            /\ link' = [link EXCEPT ![t] = FALSE]    \* the ClientSession closes
            /\ UNCHANGED ending
    /\ UNCHANGED <<env, task, server, stopping>>

LoopStep(t) ==
    Connect(t) \/ Greet(t) \/ Poll(t) \/ Close(t) \/ Wait(t) \/ CancelDelivered(t)

-----------------------------------------------------------------------------
(* The management server.                                                  *)

ServerUp ==
    /\ ~up
    /\ up' = TRUE
    /\ UNCHANGED <<task, server, loop, link, cancelled, ending, stopping, faults>>

ServerDown ==
    /\ up /\ faults < MaxFaults
    /\ up' = FALSE
    /\ link' = [t \in Tasks |-> FALSE]
    /\ faults' = faults + 1
    /\ UNCHANGED <<task, server, loop, cancelled, ending, stopping>>

Next ==
    \/ \E t \in Tasks : Start(t) \/ LoopStep(t) \/ GreetRaises(t)
    \/ BeginStop \/ StopAnswered \/ StopRaises \/ StoreRaises \/ EndStop
    \/ ServerUp \/ ServerDown

\* Awaited calls of the loop return or raise, and sleeps end.
Fairness == \A t \in Tasks : WF_vars(LoopStep(t))

Spec == Init /\ [][Next]_vars /\ Fairness

-----------------------------------------------------------------------------
(* Properties.                                                             *)

\* However start and stop follow one another, at most one loop goes on: every
\* other one has been told to end (start, stop).
SingleLoop ==
    \A t \in Tasks : Alive(t) => t = task \/ t \in cancelled \union ending

\* A loop that stop() cancelled comes to its end, wherever it was
\* (async_connect_loop catches Exception, not CancelledError).
CancelledEnds == \A t \in Tasks : t \in cancelled ~> loop[t] = "done"

\* "Automatic reconnection": when a loop is left running and the server stays
\* up, calls reach the server from some time on, whatever failed before.  It
\* needs that start() never finds the loop of an earlier task still alive: that
\* one's finally would clear the server of the new loop.
Alone == \A s, t \in Tasks : Alive(s) /\ Alive(t) => s = t

Reconnects ==
    []Alone =>
        (<>[](up /\ task # NoTask) => <>[](task # NoTask /\ server = task /\ link[task]))
=============================================================================
