----------------------------- MODULE StatusCache -----------------------------
(***************************************************************************)
(* The list of players of one miniverse in the status store (Redis), with  *)
(* the record of everybody seen there and the events that tell the open    *)
(* pages of a change. A refresh asks the source, compares with the value   *)
(* stored, stores, publishes and then adds to the record, an awaited call  *)
(* each; notifications, webhooks, a new connection and reads of an absent  *)
(* value all start refreshes, which run beside each other. The lists of    *)
(* operators and of bans go the same way and keep no record.               *)
(***************************************************************************)
EXTENDS Naturals, FiniteSets

CONSTANTS
    Players,
    Tasks,          \* slots for refreshes in flight
    MaxChanges,     \* bound on players who come or go and on pages opened
    MaxFaults       \* bound on failed calls, lost connections and restarts

ASSUME PlayersAssumption == "none" \notin Players
ASSUME BoundsAssumption == MaxChanges \in Nat /\ MaxFaults \in Nat

VARIABLES
    kind,       \* the class of the controller; it does not change
    up,         \* the websocket is connected
    listening,  \* its handlers are added
    players,    \* on the server; in _online_players of the router service
    pending,    \* notifications that have not reached their handler
    opening,    \* slots of the refresh on_connect awaits, till they are used again
    stored,     \* minecraft:players in the store
    seen,       \* miniverse:seen_players in the store
    news,       \* the value published last
    task,       \* what each refresh is doing
    shown,      \* observer: everybody in a value ever stored
    lost,       \* observer: those whom the record may lack for good, their
                \* refresh having failed or met another at the record
    behind,     \* observer: a refresh was overtaken or failed, or the list of
                \* the router was emptied, and no refresh has run alone since
    changes, faults

vars == <<kind, up, listening, players, pending, opening, stored, seen, news, task,
          shown, lost, behind, changes, faults>>
sourceVars == <<kind, up, listening, players, pending, opening, changes>>
storeVars == <<stored, seen, news>>

\* No value in the store; no answer without a connection.
None == {"none"}
Values == (SUBSET Players) \union {None}
Kinds == {"websocket", "router"}
Rank == [ask |-> 0, get |-> 1, put |-> 2, publish |-> 3,
         seen_get |-> 4, seen_put |-> 5]
Refresh == [pc : DOMAIN Rank, value : Values, copy : SUBSET Players,
            older : SUBSET Tasks, alone : BOOLEAN]
Idle == [pc |-> "idle"]

TypeOK ==
    /\ kind \in Kinds /\ up \in BOOLEAN /\ listening \in BOOLEAN
    /\ players \subseteq Players
    /\ pending \in 0 .. MaxChanges /\ opening \subseteq Tasks
    /\ stored \in Values /\ news \in Values
    /\ seen \subseteq Players /\ shown \subseteq Players /\ lost \subseteq Players
    /\ task \in [Tasks -> Refresh \union {Idle}]
    /\ behind \in BOOLEAN
    /\ changes \in 0 .. MaxChanges /\ faults \in 0 .. MaxFaults

Init ==
    /\ kind \in Kinds
    /\ up = FALSE /\ listening = FALSE
    /\ players = {} /\ pending = 0 /\ opening = {}
    /\ stored = None /\ seen = {} /\ news = None
    /\ task = [t \in Tasks |-> Idle]
    /\ shown = {} /\ lost = {} /\ behind = FALSE
    /\ changes = 0 /\ faults = 0

-----------------------------------------------------------------------------
At(t, pc) == task[t].pc = pc
InFlight == {t \in Tasks : task[t] # Idle}
Asked == {t \in InFlight : Rank[task[t].pc] >= 1}

\* get_msmp_player_list makes [] of an absent value.
ListOf(v) == IF v = None THEN {} ELSE v

Source == IF kind = "websocket" /\ ~up THEN None ELSE players

Started(t, pc) ==
    [task EXCEPT ![t] = [pc |-> pc, value |-> None, copy |-> {}, older |-> {},
                         alone |-> FALSE]]

\* No refresh in flight vouches for the store any more.
Met == [t \in Tasks |-> IF task[t] = Idle THEN Idle ELSE [task[t] EXCEPT !.alone = FALSE]]

\* The players of the refreshes in S who are shown and not yet in the record.
Unrecorded(S) ==
    UNION {ListOf(task[t].value) : t \in {o \in S \intersect InFlight : Rank[task[o].pc] >= 3}}

Recording == {t \in Tasks : At(t, "seen_put")}

\* t does in its turn what a refresh that asked before it has still to do.
Overtakes(t, pc) ==
    \E o \in task[t].older \cap InFlight :
        Rank[task[o].pc] <= Rank[pc]

-----------------------------------------------------------------------------
(* A refresh.                                                              *)

\* _get_data_cached without refresh_cache: a page is opened.
Read(t) ==
    /\ task[t] = Idle
    /\ stored = None
    /\ changes < MaxChanges
    /\ changes' = changes + 1
    /\ task' = Started(t, "ask") /\ opening' = opening \ {t}
    /\ UNCHANGED <<kind, up, listening, players, pending, storeVars, shown, lost, behind, faults>>

\* _get_data_from_source
Ask(t) ==
    /\ At(t, "ask")
    /\ task' = [Met EXCEPT ![t] = [@ EXCEPT !.pc = "get", !.value = Source, !.older = Asked,
                                            !.alone = Asked = {}]]
    /\ UNCHANGED <<sourceVars, storeVars, shown, lost, behind, faults>>

\* Mutant: no answer goes into the record like a list
OnwardsAlways(t) == task' = [task EXCEPT ![t].pc = "seen_get"]

\* What is left of a refresh once its value is stored; no answer ends it.
Onwards(t) ==
    task' = [task EXCEPT ![t] = IF @.value = None THEN Idle ELSE [@ EXCEPT !.pc = "seen_get"]]

\* ServerStatusStore.set compares bytes with a string: only two absent values
\* are equal.
GetOld(t) ==
    /\ At(t, "get")
    /\ IF stored = None /\ task[t].value = None
       THEN Onwards(t) /\ behind' = (behind \/ Overtakes(t, "publish"))
       ELSE task' = [task EXCEPT ![t].pc = "put"] /\ UNCHANGED behind
    /\ UNCHANGED <<sourceVars, storeVars, shown, lost, faults>>

\* Mutant: no value deletes nothing
PutAnswered(t) ==
    /\ At(t, "put")
    /\ stored' = IF task[t].value = None THEN stored ELSE task[t].value
    /\ shown' = shown \union ListOf(task[t].value)
    /\ behind' = (behind \/ Overtakes(t, "put"))
    /\ task' = [task EXCEPT ![t].pc = "publish"]
    /\ UNCHANGED <<sourceVars, seen, news, lost, faults>>

Put(t) ==
    /\ At(t, "put")
    /\ stored' = task[t].value
    /\ shown' = shown \union ListOf(task[t].value)
    /\ behind' = (behind \/ Overtakes(t, "put"))
    /\ task' = [task EXCEPT ![t].pc = "publish"]
    /\ UNCHANGED <<sourceVars, seen, news, lost, faults>>

Publish(t) ==
    /\ At(t, "publish")
    /\ news' = task[t].value
    /\ behind' = (behind \/ Overtakes(t, "publish"))
    /\ Onwards(t)
    /\ UNCHANGED <<sourceVars, stored, seen, shown, lost, faults>>

SeenGet(t) ==
    /\ At(t, "seen_get")
    /\ task' = [task EXCEPT ![t].pc = "seen_put", ![t].copy = seen]
    /\ behind' = (behind \/ Overtakes(t, "seen_put"))
    /\ lost' = IF Recording = {} THEN lost ELSE lost \union Unrecorded(Recording \union {t})
    /\ UNCHANGED <<sourceVars, storeVars, shown, faults>>

\* Mutant: the record is replaced, not extended
SeenPutReplaces(t) ==
    /\ At(t, "seen_put")
    /\ seen' = task[t].value
    /\ task' = [task EXCEPT ![t] = Idle]
    /\ lost' = IF Recording = {t} THEN lost \ seen' ELSE lost
    /\ behind' = (behind /\ ~task[t].alone)
    /\ UNCHANGED <<sourceVars, stored, news, shown, faults>>

SeenPut(t) ==
    /\ At(t, "seen_put")
    /\ seen' = task[t].copy \union task[t].value
    /\ task' = [task EXCEPT ![t] = Idle]
    /\ lost' = IF Recording = {t} THEN lost \ seen' ELSE lost
    /\ behind' = (behind /\ ~task[t].alone)
    /\ UNCHANGED <<sourceVars, stored, news, shown, faults>>

-----------------------------------------------------------------------------
(* What starts refreshes.                                                  *)

Toggled(p) == IF p \in players THEN players \ {p} ELSE players \union {p}

\* Mutant: no handler for players who leave
ChangeJoined(p) ==
    /\ kind = "websocket"
    /\ changes < MaxChanges
    /\ changes' = changes + 1
    /\ players' = Toggled(p)
    /\ pending' = IF listening /\ p \notin players THEN pending + 1 ELSE pending
    /\ UNCHANGED <<kind, up, listening, opening, storeVars, task, shown, lost, behind, faults>>

\* The server lets a player in or out and notifies the handlers there are.
Change(p) ==
    /\ kind = "websocket"
    /\ changes < MaxChanges
    /\ changes' = changes + 1
    /\ players' = Toggled(p)
    /\ pending' = IF listening THEN pending + 1 ELSE 0
    /\ UNCHANGED <<kind, up, listening, opening, storeVars, task, shown, lost, behind, faults>>

\* _handle_msmp_player_list
Notify(t) ==
    /\ pending > 0
    /\ task[t] = Idle
    /\ pending' = pending - 1
    /\ task' = Started(t, "ask") /\ opening' = opening \ {t}
    /\ UNCHANGED <<kind, up, listening, players, storeVars, shown, lost, behind, changes,
                   faults>>

\* process_webhook
Webhook(t, p) ==
    /\ kind = "router"
    /\ task[t] = Idle
    /\ changes < MaxChanges
    /\ changes' = changes + 1
    /\ players' = Toggled(p)
    /\ task' = Started(t, "ask") /\ opening' = opening \ {t}
    /\ UNCHANGED <<kind, up, listening, pending, storeVars, shown, lost, behind, faults>>

\* The refresh of WebSocketMiniverseService.stop; the cancel that follows it
\* is a Disconnect, and the next start the Connect after that.
StopRefresh(t) ==
    /\ kind = "websocket"
    /\ task[t] = Idle
    /\ changes < MaxChanges
    /\ changes' = changes + 1
    /\ task' = Started(t, "ask") /\ opening' = opening \ {t}
    /\ UNCHANGED <<kind, up, listening, players, pending, storeVars, shown, lost, behind, faults>>

Connect ==
    /\ kind = "websocket"
    /\ ~up
    /\ up' = TRUE
    /\ UNCHANGED <<kind, listening, players, pending, opening, storeVars, task, shown, lost,
                   behind, changes, faults>>

\* Mutant: a new connection does not refresh
OnConnectSilent(t) ==
    /\ up /\ ~listening
    /\ task[t] = Idle
    /\ listening' = TRUE
    /\ UNCHANGED <<kind, up, players, pending, opening, storeVars, task, shown, lost, behind,
                   changes, faults>>

\* on_connect
OnConnect(t) ==
    /\ up /\ ~listening
    /\ task[t] = Idle
    /\ listening' = TRUE
    /\ task' = Started(t, "ask") /\ opening' = {t}
    /\ UNCHANGED <<kind, up, players, pending, storeVars, shown, lost, behind, changes, faults>>

-----------------------------------------------------------------------------
(* Faults.                                                                 *)

Drop == up' = FALSE /\ listening' = FALSE /\ pending' = 0 /\ opening' = {}

\* The call a refresh awaits raises; with on_connect the connection goes too.
Fail(t) ==
    /\ task[t] # Idle
    /\ faults < MaxFaults
    /\ faults' = faults + 1
    /\ task' = [Met EXCEPT ![t] = Idle]
    /\ behind' = TRUE /\ lost' = lost \union Unrecorded({t})
    /\ IF t \in opening THEN Drop ELSE UNCHANGED <<up, listening, pending, opening>>
    /\ UNCHANGED <<kind, players, storeVars, shown, changes>>

\* The connection is lost, and with it the notifications on their way.
Disconnect ==
    /\ up
    /\ faults < MaxFaults
    /\ faults' = faults + 1
    /\ Drop
    /\ UNCHANGED <<kind, players, storeVars, task, shown, lost, behind, changes>>

\* stop of the router service empties its list and refreshes nothing.
Stop ==
    /\ kind = "router"
    /\ faults < MaxFaults
    /\ faults' = faults + 1
    /\ players' = {}
    /\ behind' = TRUE
    /\ task' = Met
    /\ UNCHANGED <<kind, up, listening, pending, opening, storeVars, shown, lost, changes>>

\* The API is restarted; the store outlives it, the router's list does not.
Restart ==
    /\ faults < MaxFaults
    /\ faults' = faults + 1
    /\ Drop
    /\ players' = IF kind = "router" THEN {} ELSE players
    /\ task' = [t \in Tasks |-> Idle]
    /\ behind' = TRUE /\ lost' = lost \union Unrecorded(Tasks)
    /\ UNCHANGED <<kind, storeVars, shown, changes>>

-----------------------------------------------------------------------------
Step(t) == Ask(t) \/ GetOld(t) \/ Put(t) \/ Publish(t) \/ SeenGet(t) \/ SeenPut(t)

Next ==
    \/ \E t \in Tasks : \/ Read(t) \/ Step(t) \/ Notify(t) \/ OnConnect(t) \/ Fail(t)
                        \/ StopRefresh(t)
                        \/ \E p \in Players : Webhook(t, p)
    \/ \E p \in Players : Change(p)
    \/ Connect \/ Disconnect \/ Stop \/ Restart

Spec == Init /\ [][Next]_vars

\* The event loop runs every task, and the connect loop tries again and again.
FairSpec ==
    /\ Spec
    /\ \A t \in Tasks : WF_vars(Step(t))
    /\ WF_vars(\E t \in Tasks : Notify(t))
    /\ WF_vars(\E t \in Tasks : OnConnect(t))
    /\ WF_vars(Connect)

-----------------------------------------------------------------------------
(* Properties.                                                             *)

Rest == InFlight = {} /\ pending = 0 /\ (kind = "websocket" => listening)

\* At rest the list in the store is the list of the source, unless a refresh
\* was overtaken or failed; the next refresh that runs alone makes up for it.
ListCurrent == Rest /\ ~behind => ListOf(stored) = players

\* At rest an open page, which shows what was published last, agrees with a
\* page opened now, which reads the store.
NewsIsStored == InFlight = {} /\ ~behind => ListOf(news) = ListOf(stored)

\* At rest everybody who was ever in the list is in the record of players seen,
\* through every overtaking and restart, but those whose own refresh failed
\* before the record, or read or wrote it between another's get and set: they
\* stay out until they are in a list again.
SeenComplete == InFlight = {} => shown \subseteq seen \union lost

\* While no refresh is overtaken or fails, a lost connection alone keeps the
\* list from settling on the players the server has.
CatchesUp == []~behind => <>[](ListOf(stored) = players)
=============================================================================
