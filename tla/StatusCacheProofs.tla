-------------------------- MODULE StatusCacheProofs --------------------------
(***************************************************************************)
(* Theorems about StatusCache, for any number of players and of refreshes  *)
(* that run beside each other, any number of changes and of faults.        *)
(*                                                                         *)
(* What holds of list and news at rest takes an order on the way there: as *)
(* long as nobody is behind, the refreshes pass the store and the news in  *)
(* the order in which they asked (Ordered), the last of them to store is   *)
(* the last to publish (Told), and when nothing more will ask, the         *)
(* youngest has the list of the source (Fresh). Behind ends with a refresh *)
(* that answers for everything by itself (Vouches). The record needs no    *)
(* order: whoever was shown is in it, or lost, or in the hands of a        *)
(* refresh that stored them (Kept), whose copy of the record lacks only    *)
(* lost ones (Copied).                                                     *)
(***************************************************************************)
EXTENDS StatusCache, TLAPS

-----------------------------------------------------------------------------
(* Types.                                                                  *)

AskedPcs == {"get", "put", "publish", "seen_get", "seen_put"}

LEMMA RankDomain == DOMAIN Rank = AskedPcs \union {"ask"}
BY DEF Rank, AskedPcs

LEMMA RankValues ==
    /\ Rank["ask"] = 0 /\ Rank["get"] = 1 /\ Rank["put"] = 2
    /\ Rank["publish"] = 3 /\ Rank["seen_get"] = 4 /\ Rank["seen_put"] = 5
BY DEF Rank

\* What a slot holds, told by its program counter.
LEMMA SlotType ==
    ASSUME NEW x \in Refresh \union {Idle}
    PROVE  /\ x = Idle \/ x \in Refresh
           /\ x = Idle <=> x.pc = "idle"
           /\ x # Idle <=> x.pc \in AskedPcs \union {"ask"}
<1>1. CASE x = Idle
  BY <1>1 DEF Idle, AskedPcs
<1>2. CASE x \in Refresh
  BY <1>2, RankDomain DEF Idle, Refresh, AskedPcs
<1> QED
  BY <1>1, <1>2

LEMMA AtType ==
    ASSUME NEW t \in Tasks, TypeOK, task[t].pc \in AskedPcs \union {"ask"}
    PROVE  task[t] \in Refresh /\ task[t] # Idle
BY SlotType DEF TypeOK

LEMMA AskedIs ==
    ASSUME TypeOK
    PROVE  /\ InFlight = {t \in Tasks : task[t].pc \in AskedPcs \union {"ask"}}
           /\ Asked = {t \in Tasks : task[t].pc \in AskedPcs}
<1>1. InFlight = {t \in Tasks : task[t].pc \in AskedPcs \union {"ask"}}
  BY SlotType DEF InFlight, TypeOK
<1>2. ASSUME NEW t \in InFlight
      PROVE  Rank[task[t].pc] >= 1 <=> task[t].pc \in AskedPcs
  BY <1>1, RankValues DEF AskedPcs
<1> QED
  BY <1>1, <1>2 DEF Asked

LEMMA AskedIsNext ==
    ASSUME TypeOK'
    PROVE  /\ InFlight' = {t \in Tasks : task'[t].pc \in AskedPcs \union {"ask"}}
           /\ Asked' = {t \in Tasks : task'[t].pc \in AskedPcs}
<1>1. InFlight' = {t \in Tasks : task'[t].pc \in AskedPcs \union {"ask"}}
  BY SlotType DEF InFlight, TypeOK
<1>2. ASSUME NEW t \in InFlight'
      PROVE  Rank[task'[t].pc] >= 1 <=> task'[t].pc \in AskedPcs
  BY <1>1, RankValues DEF AskedPcs
<1> QED
  BY <1>1, <1>2 DEF Asked

\* The steps of a refresh change only its own slot, and of that only the place
\* and the copy of the record.
LEMMA StepType ==
    ASSUME NEW t \in Tasks, NEW pc \in DOMAIN Rank, NEW copy \in SUBSET Players,
           TypeOK, task[t] \in Refresh,
           task' = [task EXCEPT ![t] = [@ EXCEPT !.pc = pc, !.copy = copy]]
    PROVE  task' \in [Tasks -> Refresh \union {Idle}]
<1>1. [task[t] EXCEPT !.pc = pc, !.copy = copy] \in Refresh
  BY DEF Refresh
<1> QED
  BY <1>1 DEF TypeOK

LEMMA GotoType ==
    ASSUME NEW t \in Tasks, NEW pc \in DOMAIN Rank, TypeOK, task[t] \in Refresh,
           task' = [task EXCEPT ![t].pc = pc]
    PROVE  task' \in [Tasks -> Refresh \union {Idle}]
<1>1. [task[t] EXCEPT !.pc = pc] \in Refresh
  BY DEF Refresh
<1> QED
  BY <1>1 DEF TypeOK

LEMMA StartedType ==
    ASSUME NEW t \in Tasks, TypeOK
    PROVE  Started(t, "ask") \in [Tasks -> Refresh \union {Idle}]
<1>1. [pc |-> "ask", value |-> None, copy |-> {}, older |-> {}, alone |-> FALSE] \in Refresh
  BY RankDomain DEF Refresh, Values, None
<1> QED
  BY <1>1 DEF Started, TypeOK

LEMMA MetType ==
    ASSUME TypeOK
    PROVE  /\ Met \in [Tasks -> Refresh \union {Idle}]
           /\ \A u \in Tasks : task[u] = Idle => Met[u] = Idle
           /\ \A u \in Tasks : task[u] # Idle =>
                  /\ Met[u] \in Refresh
                  /\ Met[u].pc = task[u].pc /\ Met[u].value = task[u].value
                  /\ Met[u].copy = task[u].copy /\ Met[u].older = task[u].older
                  /\ Met[u].alone = FALSE
<1>1. ASSUME NEW u \in Tasks
      PROVE  Met[u] = IF task[u] = Idle THEN Idle ELSE [task[u] EXCEPT !.alone = FALSE]
  BY DEF Met
<1>2. ASSUME NEW u \in Tasks, task[u] # Idle
      PROVE  /\ Met[u] \in Refresh
             /\ Met[u].pc = task[u].pc /\ Met[u].value = task[u].value
             /\ Met[u].copy = task[u].copy /\ Met[u].older = task[u].older
             /\ Met[u].alone = FALSE
  <2>1. PICK q \in Refresh : q = task[u]
    BY <1>2 DEF TypeOK
  <2>2. Met[u] = [q EXCEPT !.alone = FALSE]
    BY <1>1, <1>2, <2>1
  <2>3. [q EXCEPT !.alone = FALSE] \in Refresh
    BY DEF Refresh
  <2> QED
    BY <2>1, <2>2, <2>3 DEF Refresh
<1>3. Met \in [Tasks -> Refresh \union {Idle}]
  <2>1. Met = [u \in Tasks |-> IF task[u] = Idle THEN Idle ELSE [task[u] EXCEPT !.alone = FALSE]]
    BY DEF Met
  <2> QED
    BY <1>1, <1>2, <2>1
<1> QED
  BY <1>1, <1>2, <1>3

LEMMA SourceType ==
    ASSUME TypeOK
    PROVE  Source \in Values /\ (Source # None => Source = players)
BY DEF Source, TypeOK, Values

\* Who is not in the record yet is in the hands of a refresh that will add them.
Stored(t) == task[t].pc \in {"publish", "seen_get", "seen_put"}

LEMMA UnrecordedIs ==
    ASSUME TypeOK, NEW S \in SUBSET Tasks
    PROVE  /\ Unrecorded(S) \subseteq Players
           /\ \A p : p \in Unrecorded(S) <=> \E t \in S : Stored(t) /\ p \in ListOf(task[t].value)
<1>1. ASSUME NEW t \in InFlight
      PROVE  Rank[task[t].pc] >= 3 <=> Stored(t)
  <2>1. task[t].pc \in AskedPcs \union {"ask"}
    BY AskedIs
  <2> QED
    BY <2>1, RankValues DEF AskedPcs, Stored
<1>2. ASSUME NEW t \in Tasks, Stored(t)
      PROVE  t \in InFlight
  BY <1>2, AskedIs DEF Stored, AskedPcs
<1>3. ASSUME NEW t \in InFlight
      PROVE  ListOf(task[t].value) \subseteq Players
  <2>1. task[t] \in Refresh
    BY DEF InFlight, TypeOK
  <2> QED
    BY <2>1 DEF Refresh, ListOf, Values
<1>4. \A p : p \in Unrecorded(S) <=> \E t \in S : Stored(t) /\ p \in ListOf(task[t].value)
  BY <1>1, <1>2 DEF Unrecorded
<1> QED
  BY <1>2, <1>3, <1>4

LEMMA OnwardsType ==
    ASSUME NEW t \in Tasks, TypeOK, task[t] \in Refresh, Onwards(t)
    PROVE  task' \in [Tasks -> Refresh \union {Idle}]
<1>1. [task[t] EXCEPT !.pc = "seen_get"] \in Refresh
  BY RankDomain DEF Refresh, AskedPcs
<1> QED
  BY <1>1 DEF Onwards, TypeOK

\* What a refresh that asks takes with it.
LEMMA AskEffect ==
    ASSUME NEW t \in Tasks, TypeOK, Ask(t)
    PROVE  /\ task' \in [Tasks -> Refresh \union {Idle}]
           /\ task'[t].pc = "get" /\ task'[t].value = Source
           /\ task'[t].older = Asked /\ task'[t].alone = (Asked = {})
           /\ \A u \in Tasks \ {t} : task'[u] = Met[u]
<1>1. task[t] # Idle /\ task[t] \in Refresh
  BY AtType DEF Ask, At
<1>2. Met[t] \in Refresh
  BY <1>1, MetType
<1> DEFINE new == [Met[t] EXCEPT !.pc = "get", !.value = Source, !.older = Asked,
                                 !.alone = Asked = {}]
<1>3. Asked \in SUBSET Tasks /\ (Asked = {}) \in BOOLEAN
  BY DEF Asked, InFlight
<1>4. "get" \in DOMAIN Rank /\ Source \in Values
  BY RankDomain, SourceType DEF AskedPcs
<1>5. /\ new \in Refresh
      /\ new.pc = "get" /\ new.value = Source /\ new.older = Asked
      /\ new.alone = (Asked = {})
  BY <1>2, <1>3, <1>4 DEF Refresh
<1>6. task' = [Met EXCEPT ![t] = new]
  BY DEF Ask
<1>7. task'[t] = new /\ \A u \in Tasks \ {t} : task'[u] = Met[u]
  BY <1>6, MetType
<1>8. task' \in [Tasks -> Refresh \union {Idle}]
  BY <1>5, <1>6, MetType
<1> QED
  BY <1>5, <1>7, <1>8

-----------------------------------------------------------------------------
\* TypeOK is not inductive: a notification on its way has to be of a change,
\* and no answer must not get into the record.
Answered == \A t \in Tasks : task[t].pc \in {"seen_get", "seen_put"} => task[t].value # None
TypeInv == TypeOK /\ Answered /\ pending <= changes

LEMMA InitType == Init => TypeInv
<1> SUFFICES ASSUME Init PROVE TypeInv
  OBVIOUS
<1>1. 0 \in 0 .. MaxChanges /\ 0 \in 0 .. MaxFaults
  BY BoundsAssumption
<1>2. task \in [Tasks -> Refresh \union {Idle}]
  BY DEF Init
<1>3. Answered
  BY DEF Init, Answered, Idle
<1>4. pending <= changes
  BY DEF Init
<1>5. stored \in Values /\ news \in Values
  BY DEF Init, Values
<1> QED
  BY <1>1, <1>2, <1>3, <1>4, <1>5 DEF Init, TypeInv, TypeOK

\* The actions that change neither the source nor a bound.
LEMMA StepsType ==
    ASSUME NEW t \in Tasks, TypeInv, Step(t)
    PROVE  TypeOK'
<1>0. TypeOK /\ Answered
  BY DEF TypeInv
<1> USE RankDomain DEF AskedPcs
<1>1. CASE Ask(t)
  BY <1>0, <1>1, AskEffect DEF Ask, TypeOK, sourceVars, storeVars
<1>2. ASSUME NEW pc
      PROVE  Overtakes(t, pc) \in BOOLEAN
  BY DEF Overtakes
<1>3. CASE GetOld(t)
  <2>1. task[t] \in Refresh
    BY <1>3, <1>0, AtType DEF GetOld, At
  <2>2. task' \in [Tasks -> Refresh \union {Idle}]
    BY <1>3, <2>1, <1>0, OnwardsType, GotoType DEF GetOld
  <2>3. behind' \in BOOLEAN
    BY <1>0, <1>2, <1>3 DEF GetOld, TypeOK
  <2> QED
    BY <1>0, <1>3, <2>2, <2>3 DEF GetOld, TypeOK, sourceVars, storeVars
<1>4. CASE Put(t)
  <2>1. task[t] \in Refresh
    BY <1>4, <1>0, AtType DEF Put, At
  <2>2. task' \in [Tasks -> Refresh \union {Idle}]
    BY <1>0, <1>4, <2>1, GotoType DEF Put
  <2>3. behind' \in BOOLEAN
    BY <1>0, <1>2, <1>4 DEF Put, TypeOK
  <2>4. stored' \in Values
    BY <1>4, <2>1 DEF Put, Refresh
  <2>5. ListOf(task[t].value) \subseteq Players
    BY <2>1 DEF Refresh, ListOf, Values
  <2> QED
    BY <1>0, <1>4, <2>2, <2>3, <2>4, <2>5 DEF Put, TypeOK, sourceVars
<1>5. CASE Publish(t)
  <2>1. task[t] \in Refresh
    BY <1>5, <1>0, AtType DEF Publish, At
  <2>2. task' \in [Tasks -> Refresh \union {Idle}]
    BY <1>5, <2>1, <1>0, OnwardsType DEF Publish
  <2>3. behind' \in BOOLEAN
    BY <1>0, <1>2, <1>5 DEF Publish, TypeOK
  <2>4. news' \in Values
    BY <1>5, <2>1 DEF Publish, Refresh
  <2> QED
    BY <1>0, <1>5, <2>2, <2>3, <2>4 DEF Publish, TypeOK, sourceVars
<1>6. CASE SeenGet(t)
  <2>1. task[t] \in Refresh
    BY <1>6, <1>0, AtType DEF SeenGet, At
  <2>2. [task[t] EXCEPT !.pc = "seen_put", !.copy = seen] \in Refresh
    BY <1>0, <2>1 DEF Refresh, TypeOK
  <2>3. task' \in [Tasks -> Refresh \union {Idle}]
    BY <1>0, <1>6, <2>2 DEF SeenGet, TypeOK
  <2>4. behind' \in BOOLEAN
    BY <1>0, <1>2, <1>6 DEF SeenGet, TypeOK
  <2>5. lost' \subseteq Players
    <3>1. Recording \union {t} \in SUBSET Tasks
      BY DEF Recording
    <3>2. Unrecorded(Recording \union {t}) \subseteq Players
      BY <1>0, <3>1, UnrecordedIs
    <3> QED
      BY <1>0, <1>6, <3>2 DEF SeenGet, TypeOK
  <2> QED
    BY <1>0, <1>6, <2>3, <2>4, <2>5 DEF SeenGet, TypeOK, sourceVars, storeVars
<1>7. CASE SeenPut(t)
  <2>1. task[t] \in Refresh /\ task[t].value # None
    BY <1>0, <1>7, AtType DEF SeenPut, At, Answered
  <2>2. task[t].value \subseteq Players /\ task[t].copy \subseteq Players
    BY <2>1 DEF Refresh, Values
  <2>3. task' \in [Tasks -> Refresh \union {Idle}]
    BY <1>0, <1>7 DEF SeenPut, TypeOK
  <2>4. behind' \in BOOLEAN /\ lost' \subseteq Players
    BY <1>0, <1>7, <2>2 DEF SeenPut, TypeOK
  <2> QED
    BY <1>0, <1>7, <2>2, <2>3, <2>4 DEF SeenPut, TypeOK, sourceVars
<1> QED
  BY <1>1, <1>3, <1>4, <1>5, <1>6, <1>7 DEF Step

-----------------------------------------------------------------------------
(* What the steps of a refresh do to the slots.                            *)

Others(t) == \A u \in Tasks \ {t} : task'[u] = task[u]
Leaves(t) == task'[t] = Idle /\ Others(t)
Moves(t, pc) ==
    /\ task'[t].pc = pc
    /\ task'[t].value = task[t].value /\ task'[t].older = task[t].older
    /\ task'[t].alone = task[t].alone
    /\ Others(t)

LEMMA GotoMoves ==
    ASSUME NEW t \in Tasks, NEW pc, TypeOK, task[t] \in Refresh,
           task' = [task EXCEPT ![t].pc = pc]
    PROVE  Moves(t, pc) /\ task'[t].copy = task[t].copy
<1>1. PICK q \in Refresh : q = task[t]
  OBVIOUS
<1>2. task'[t] = [q EXCEPT !.pc = pc] /\ Others(t)
  BY <1>1 DEF TypeOK, Others
<1> QED
  BY <1>1, <1>2 DEF Moves, Refresh

LEMMA OnwardsEffect ==
    ASSUME NEW t \in Tasks, TypeOK, task[t] \in Refresh, Onwards(t)
    PROVE  IF task[t].value = None THEN Leaves(t) ELSE Moves(t, "seen_get")
<1>1. CASE task[t].value = None
  <2>1. task' = [task EXCEPT ![t] = Idle]
    BY <1>1 DEF Onwards, TypeOK
  <2> QED
    BY <1>1, <2>1 DEF Leaves, Others, TypeOK
<1>2. CASE task[t].value # None
  <2>1. task' = [task EXCEPT ![t].pc = "seen_get"]
    BY <1>2 DEF Onwards, TypeOK
  <2> QED
    BY <1>2, <2>1, GotoMoves
<1> QED
  BY <1>1, <1>2

LEMMA GetOldEffect ==
    ASSUME NEW t \in Tasks, TypeOK, GetOld(t)
    PROVE  /\ At(t, "get") /\ task[t] \in Refresh
           /\ IF stored = None /\ task[t].value = None THEN Leaves(t) ELSE Moves(t, "put")
<1>1. At(t, "get") /\ task[t] \in Refresh
  BY AtType DEF GetOld, At, AskedPcs
<1> QED
  BY <1>1, OnwardsEffect, GotoMoves DEF GetOld

LEMMA PutEffect ==
    ASSUME NEW t \in Tasks, TypeOK, Put(t)
    PROVE  At(t, "put") /\ task[t] \in Refresh /\ Moves(t, "publish")
<1>1. At(t, "put") /\ task[t] \in Refresh
  BY AtType DEF Put, At, AskedPcs
<1> QED
  BY <1>1, GotoMoves DEF Put

LEMMA PublishEffect ==
    ASSUME NEW t \in Tasks, TypeOK, Publish(t)
    PROVE  /\ At(t, "publish") /\ task[t] \in Refresh
           /\ IF task[t].value = None THEN Leaves(t) ELSE Moves(t, "seen_get")
<1>1. At(t, "publish") /\ task[t] \in Refresh
  BY AtType DEF Publish, At, AskedPcs
<1> QED
  BY <1>1, OnwardsEffect DEF Publish

LEMMA SeenGetEffect ==
    ASSUME NEW t \in Tasks, TypeOK, SeenGet(t)
    PROVE  /\ At(t, "seen_get") /\ task[t] \in Refresh
           /\ Moves(t, "seen_put") /\ task'[t].copy = seen
<1>1. At(t, "seen_get") /\ task[t] \in Refresh
  BY AtType DEF SeenGet, At, AskedPcs
<1>2. PICK q \in Refresh : q = task[t]
  BY <1>1
<1>3. task'[t] = [q EXCEPT !.pc = "seen_put", !.copy = seen] /\ Others(t)
  BY <1>2 DEF SeenGet, TypeOK, Others
<1>4. /\ task'[t].pc = "seen_put" /\ task'[t].value = q.value
      /\ task'[t].older = q.older /\ task'[t].alone = q.alone
      /\ task'[t].copy = seen
  BY <1>3 DEF Refresh
<1> QED
  BY <1>1, <1>2, <1>3, <1>4 DEF Moves

LEMMA SeenPutEffect ==
    ASSUME NEW t \in Tasks, TypeOK, SeenPut(t)
    PROVE  At(t, "seen_put") /\ task[t] \in Refresh /\ Leaves(t)
<1>1. At(t, "seen_put") /\ task[t] \in Refresh
  BY AtType DEF SeenPut, At, AskedPcs
<1> QED
  BY <1>1 DEF SeenPut, TypeOK, Leaves, Others

\* Every step of a refresh that has asked.
Advances(t) == GetOld(t) \/ Put(t) \/ Publish(t) \/ SeenGet(t) \/ SeenPut(t)

LEMMA AdvancesEffect ==
    ASSUME NEW t \in Tasks, TypeOK, Advances(t)
    PROVE  /\ task[t].pc \in AskedPcs /\ task[t] \in Refresh
           /\ \/ Leaves(t)
              \/ Moves(t, task'[t].pc) /\ task'[t].pc \in AskedPcs
           /\ UNCHANGED sourceVars
<1> USE DEF At, AskedPcs
<1>1. CASE GetOld(t)
  BY <1>1, GetOldEffect DEF GetOld, Moves
<1>2. CASE Put(t)
  BY <1>2, PutEffect DEF Put, Moves
<1>3. CASE Publish(t)
  BY <1>3, PublishEffect DEF Publish, Moves
<1>4. CASE SeenGet(t)
  BY <1>4, SeenGetEffect DEF SeenGet, Moves
<1>5. CASE SeenPut(t)
  BY <1>5, SeenPutEffect DEF SeenPut, Moves
<1> QED
  BY <1>1, <1>2, <1>3, <1>4, <1>5 DEF Advances

\* A refresh begins in an idle slot.
Begins(t) ==
    /\ task[t] = Idle
    /\ task'[t].pc = "ask" /\ task'[t].value = None
    /\ task'[t].older = {} /\ task'[t].alone = FALSE
    /\ Others(t)

LEMMA StartedBegins ==
    ASSUME NEW t \in Tasks, TypeOK, task[t] = Idle, task' = Started(t, "ask")
    PROVE  Begins(t) /\ task' \in [Tasks -> Refresh \union {Idle}]
<1>1. task'[t] = [pc |-> "ask", value |-> None, copy |-> {}, older |-> {}, alone |-> FALSE]
      /\ Others(t)
  BY DEF Started, TypeOK, Others
<1> QED
  BY <1>1, StartedType DEF Begins

LEMMA ReadEffect ==
    ASSUME NEW t \in Tasks, TypeOK, Read(t)
    PROVE  Begins(t) /\ TypeOK' /\ pending' = pending /\ changes' = changes + 1
<1>1. Begins(t) /\ task' \in [Tasks -> Refresh \union {Idle}]
  BY StartedBegins DEF Read
<1>2. changes' \in 0 .. MaxChanges
  BY BoundsAssumption DEF Read, TypeOK
<1> QED
  BY <1>1, <1>2 DEF Read, TypeOK, storeVars

LEMMA NotifyEffect ==
    ASSUME NEW t \in Tasks, TypeOK, Notify(t)
    PROVE  Begins(t) /\ TypeOK' /\ pending' = pending - 1 /\ changes' = changes
<1>1. Begins(t) /\ task' \in [Tasks -> Refresh \union {Idle}]
  BY StartedBegins DEF Notify
<1>2. pending' \in 0 .. MaxChanges
  BY BoundsAssumption DEF Notify, TypeOK
<1> QED
  BY <1>1, <1>2 DEF Notify, TypeOK, storeVars

LEMMA OnConnectEffect ==
    ASSUME NEW t \in Tasks, TypeOK, OnConnect(t)
    PROVE  Begins(t) /\ TypeOK' /\ pending' = pending /\ changes' = changes
<1>1. Begins(t) /\ task' \in [Tasks -> Refresh \union {Idle}]
  BY StartedBegins DEF OnConnect
<1> QED
  BY <1>1 DEF OnConnect, TypeOK, storeVars

LEMMA WebhookEffect ==
    ASSUME NEW t \in Tasks, NEW p \in Players, TypeOK, Webhook(t, p)
    PROVE  Begins(t) /\ TypeOK' /\ pending' = pending /\ changes' = changes + 1
<1>1. Begins(t) /\ task' \in [Tasks -> Refresh \union {Idle}]
  BY StartedBegins DEF Webhook
<1>2. changes' \in 0 .. MaxChanges
  BY BoundsAssumption DEF Webhook, TypeOK
<1>3. players' \subseteq Players
  BY DEF Webhook, Toggled, TypeOK
<1> QED
  BY <1>1, <1>2, <1>3 DEF Webhook, TypeOK, storeVars

LEMMA StopRefreshEffect ==
    ASSUME NEW t \in Tasks, TypeOK, StopRefresh(t)
    PROVE  Begins(t) /\ TypeOK' /\ pending' = pending /\ changes' = changes + 1
<1>1. Begins(t) /\ task' \in [Tasks -> Refresh \union {Idle}]
  BY StartedBegins DEF StopRefresh
<1>2. changes' \in 0 .. MaxChanges
  BY BoundsAssumption DEF StopRefresh, TypeOK
<1> QED
  BY <1>1, <1>2 DEF StopRefresh, TypeOK, storeVars

\* The actions that leave the slots alone.
Elsewhere == (\E p \in Players : Change(p)) \/ Connect \/ Disconnect

LEMMA ElsewhereType ==
    ASSUME TypeInv, Elsewhere
    PROVE  TypeOK' /\ task' = task /\ pending' <= changes'
<1>0. TypeOK /\ pending <= changes
  BY DEF TypeInv
<1>1. ASSUME NEW p \in Players, Change(p)
      PROVE  TypeOK' /\ task' = task /\ pending' <= changes'
  <2>1. changes' \in 0 .. MaxChanges /\ pending' \in 0 .. MaxChanges /\ pending' <= changes'
    BY <1>0, <1>1, BoundsAssumption DEF Change, TypeOK
  <2>2. players' \subseteq Players
    BY <1>0, <1>1 DEF Change, Toggled, TypeOK
  <2> QED
    BY <1>0, <1>1, <2>1, <2>2 DEF Change, TypeOK, storeVars
<1>2. CASE Connect
  BY <1>0, <1>2 DEF Connect, TypeOK, storeVars
<1>3. CASE Disconnect
  <2>1. faults' \in 0 .. MaxFaults /\ pending' \in 0 .. MaxChanges /\ pending' <= changes'
    BY <1>0, <1>3, BoundsAssumption DEF Disconnect, Drop, TypeOK
  <2> QED
    BY <1>0, <1>3, <2>1 DEF Disconnect, Drop, TypeOK, storeVars
<1> QED
  BY <1>1, <1>2, <1>3 DEF Elsewhere

\* What a fault leaves of the slots: nothing vouches, and each is as it was,
\* its mark of being alone aside, or idle.
Disrupts ==
    /\ behind' = TRUE
    /\ \A u \in Tasks : task'[u] = Idle \/ (task[u] # Idle /\ task'[u] = Met[u])

LEMMA FailEffect ==
    ASSUME NEW t \in Tasks, TypeOK, Fail(t)
    PROVE  Disrupts /\ TypeOK' /\ pending' \in {0, pending} /\ changes' = changes
<1>1. task' = [Met EXCEPT ![t] = Idle]
  BY DEF Fail
<1>2. task' \in [Tasks -> Refresh \union {Idle}]
  BY <1>1, MetType
<1>3. \A u \in Tasks : task'[u] = Idle \/ (task[u] # Idle /\ task'[u] = Met[u])
  BY <1>1, MetType
<1>4. faults' \in 0 .. MaxFaults
  BY BoundsAssumption DEF Fail, TypeOK
<1>5. lost' \subseteq Players
  BY UnrecordedIs DEF Fail, TypeOK
<1>6. /\ up' \in BOOLEAN /\ listening' \in BOOLEAN /\ opening' \subseteq Tasks
      /\ pending' \in {0, pending} /\ pending' \in 0 .. MaxChanges
  <2>1. CASE t \in opening
    <3>1. /\ up' \in BOOLEAN /\ listening' \in BOOLEAN /\ opening' = {} /\ pending' = 0
      BY <2>1, Zenon DEF Fail, Drop
    <3> QED
      BY <3>1, BoundsAssumption
  <2>2. CASE t \notin opening
    BY <2>2 DEF Fail, TypeOK
  <2> QED
    BY <2>1, <2>2
<1> QED
  BY <1>2, <1>3, <1>4, <1>5, <1>6 DEF Fail, TypeOK, storeVars, Disrupts

LEMMA StopEffect ==
    ASSUME TypeOK, Stop
    PROVE  Disrupts /\ TypeOK' /\ pending' = pending /\ changes' = changes
<1>1. task' = Met
  BY DEF Stop
<1>2. \A u \in Tasks : task'[u] = Idle \/ (task[u] # Idle /\ task'[u] = Met[u])
  BY <1>1, MetType
<1>3. faults' \in 0 .. MaxFaults
  BY BoundsAssumption DEF Stop, TypeOK
<1> QED
  BY <1>1, <1>2, <1>3, MetType DEF Stop, TypeOK, storeVars, Disrupts

LEMMA RestartEffect ==
    ASSUME TypeOK, Restart
    PROVE  Disrupts /\ TypeOK' /\ pending' = 0 /\ changes' = changes
<1>1. faults' \in 0 .. MaxFaults /\ pending' \in 0 .. MaxChanges
  BY BoundsAssumption DEF Restart, Drop, TypeOK
<1>2. players' \subseteq Players /\ lost' \subseteq Players
  BY UnrecordedIs DEF Restart, TypeOK
<1> QED
  BY <1>1, <1>2 DEF Restart, Drop, TypeOK, storeVars, Disrupts

Disturbs == (\E t \in Tasks : Fail(t)) \/ Stop \/ Restart

LEMMA DisturbsEffect ==
    ASSUME TypeOK, Disturbs
    PROVE  Disrupts /\ TypeOK' /\ pending' \in {0, pending} /\ changes' = changes
BY FailEffect, StopEffect, RestartEffect DEF Disturbs

\* The actions that start a refresh.
Starts(t) ==
    Read(t) \/ Notify(t) \/ OnConnect(t) \/ StopRefresh(t) \/ \E p \in Players : Webhook(t, p)

LEMMA StartsEffect ==
    ASSUME NEW t \in Tasks, TypeInv, Starts(t)
    PROVE  Begins(t) /\ TypeOK' /\ pending' <= changes'
<1>1. TypeOK /\ pending <= changes /\ pending \in Nat /\ changes \in Nat
  BY BoundsAssumption DEF TypeInv, TypeOK
<1>2. CASE Read(t)
  BY <1>1, <1>2, ReadEffect
<1>3. CASE Notify(t)
  BY <1>1, <1>3, NotifyEffect
<1>4. CASE OnConnect(t)
  BY <1>1, <1>4, OnConnectEffect
<1>5. ASSUME NEW p \in Players, Webhook(t, p)
      PROVE  Begins(t) /\ TypeOK' /\ pending' <= changes'
  BY <1>1, <1>5, WebhookEffect
<1>6. CASE StopRefresh(t)
  BY <1>1, <1>6, StopRefreshEffect
<1> QED
  BY <1>2, <1>3, <1>4, <1>5, <1>6 DEF Starts

\* Every step is of one of these kinds.
LEMMA StepKinds ==
    ASSUME Next
    PROVE  \/ \E t \in Tasks : Ask(t) \/ Advances(t) \/ Starts(t)
           \/ Elsewhere \/ Disturbs
BY DEF Next, Step, Advances, Starts, Elsewhere, Disturbs

LEMMA AdvancesAnswered ==
    ASSUME NEW t \in Tasks, TypeInv, Advances(t)
    PROVE  Answered'
<1>0. TypeOK /\ Answered
  BY DEF TypeInv
<1>1. ASSUME task'[t].pc \in {"seen_get", "seen_put"}
      PROVE  task'[t].value # None
  <2> USE <1>0, <1>1 DEF Leaves, Moves, Idle
  <2>1. CASE GetOld(t)
    BY <2>1, GetOldEffect
  <2>2. CASE Put(t)
    BY <2>2, PutEffect
  <2>3. CASE Publish(t)
    BY <2>3, PublishEffect
  <2>4. CASE SeenGet(t)
    BY <2>4, SeenGetEffect DEF Answered, At
  <2>5. CASE SeenPut(t)
    BY <2>5, SeenPutEffect
  <2> QED
    BY <2>1, <2>2, <2>3, <2>4, <2>5 DEF Advances
<1>2. Others(t)
  BY <1>0, AdvancesEffect DEF Leaves, Moves
<1> QED
  BY <1>0, <1>1, <1>2 DEF Answered, Others

LEMMA NextType == TypeInv /\ [Next]_vars => TypeInv'
<1> SUFFICES ASSUME TypeInv, [Next]_vars PROVE TypeInv'
  OBVIOUS
<1>0. TypeOK /\ Answered /\ pending <= changes
  BY DEF TypeInv
<1>1. ASSUME NEW t \in Tasks, Ask(t)
      PROVE  TypeInv'
  <2>1. TypeOK'
    BY <1>1, StepsType DEF Step
  <2>2. ASSUME NEW u \in Tasks, task'[u].pc \in {"seen_get", "seen_put"}
        PROVE  task'[u].value # None
    <3>1. u # t /\ task'[u] = Met[u]
      BY <1>0, <1>1, <2>2, AskEffect
    <3>2. task[u] # Idle
      BY <1>0, <2>2, <3>1, MetType DEF Idle
    <3> QED
      BY <1>0, <2>2, <3>1, <3>2, MetType DEF Answered
  <2> QED
    BY <1>0, <1>1, <2>1, <2>2 DEF Ask, sourceVars, TypeInv, Answered
<1>2. ASSUME NEW t \in Tasks, Advances(t)
      PROVE  TypeInv'
  <2>1. TypeOK'
    BY <1>2, StepsType DEF Step, Advances
  <2>2. Answered'
    BY <1>2, AdvancesAnswered
  <2> QED
    BY <1>0, <1>2, <2>1, <2>2, AdvancesEffect DEF sourceVars, TypeInv
<1>3. ASSUME NEW t \in Tasks, Starts(t)
      PROVE  TypeInv'
  BY <1>0, <1>3, StartsEffect DEF Begins, Others, Answered, TypeInv
<1>4. CASE Elsewhere
  BY <1>0, <1>4, ElsewhereType DEF Answered, TypeInv
<1>5. CASE Disturbs
  <2>1. Disrupts /\ TypeOK' /\ pending' \in {0, pending} /\ changes' = changes
    BY <1>0, <1>5, DisturbsEffect
  <2>2. ASSUME NEW u \in Tasks, task'[u].pc \in {"seen_get", "seen_put"}
        PROVE  task'[u].value # None
    <3>1. task[u] # Idle /\ task'[u] = Met[u]
      BY <2>1, <2>2 DEF Disrupts, Idle
    <3> QED
      BY <1>0, <2>2, <3>1, MetType DEF Answered
  <2>3. changes \in Nat
    BY <1>0, BoundsAssumption DEF TypeOK
  <2> QED
    BY <1>0, <2>1, <2>2, <2>3 DEF TypeInv, Answered
<1>6. CASE UNCHANGED vars
  BY <1>0, <1>6 DEF vars, TypeInv, TypeOK, Answered
<1> QED
  BY <1>1, <1>2, <1>3, <1>4, <1>5, <1>6, StepKinds

\* Store, record, slots and counters keep their types, for any of them.
THEOREM TypeCorrect == Spec => []TypeOK
<1>1. TypeInv => TypeOK
  BY DEF TypeInv
<1> QED
  BY <1>1, InitType, NextType, PTL DEF Spec

-----------------------------------------------------------------------------
(* The invariant.                                                          *)

\* How far a refresh is on its way; the store is read before the check whether
\* it overtakes, so two that have not stored yet are at the same place.
Pos(t) ==
    IF At(t, "seen_put") THEN 5
    ELSE IF At(t, "seen_get") THEN 4
    ELSE IF At(t, "publish") THEN 3 ELSE 2

Connection == (up => kind = "websocket") /\ (listening => up)

\* Of two refreshes that have asked one knows that the other came before it.
Linked ==
    \A t \in Asked : /\ t \notin task[t].older
                     /\ \A u \in Asked \ {t} : u \in task[t].older \/ t \in task[u].older

\* No refresh is ahead of one that asked before it.
Ordered ==
    \A t, u \in Asked : u \in task[t].older /\ t \notin task[u].older => Pos(u) >= Pos(t)

\* What is published last is what is stored last.
Publishing == {t \in Tasks : At(t, "publish")}
Told ==
    IF Publishing = {}
    THEN ListOf(news) = ListOf(stored)
    ELSE \E y \in Publishing : /\ stored = task[y].value
                               /\ Publishing \ {y} \subseteq task[y].older

\* Nothing is on its way that would start another refresh.
Quiet ==
    /\ kind = "websocket" => listening
    /\ pending = 0
    /\ \A t \in Tasks : ~At(t, "ask")

Youngest(y) ==
    /\ y \in Asked
    /\ \A t \in Asked \ {y} : /\ t \in task[y].older
                              /\ Pos(t) >= Pos(y)
                              /\ ~At(y, "seen_put")

\* Then the refresh that asked last brings the list of the source.
Fresh ==
    Quiet => IF Asked = {}
             THEN ListOf(stored) = players
             ELSE \E y \in Tasks : /\ Youngest(y)
                                   /\ task[y].value = players
                                   /\ Stored(y) => stored = players

\* A refresh that nobody has disturbed answers for everything.
Vouches(t) ==
    /\ Asked = {t}
    /\ Stored(t) => stored = task[t].value
    /\ task[t].pc \in {"seen_get", "seen_put"} => news = task[t].value
    /\ Quiet => task[t].value = players
Solo == \A t \in InFlight : task[t].alone => Vouches(t)

InOrder == Ordered /\ Told /\ Fresh

\* The record. Somebody not in it is in the hands of a refresh that will add
\* them, or lost; a copy of it differs from it in lost ones; and two refreshes
\* that hold copies have lost what they would add.
Kept ==
    \A p \in shown :
        p \in seen \/ p \in lost \/ \E t \in Tasks : Stored(t) /\ p \in ListOf(task[t].value)
Copied ==
    \A t \in Tasks : At(t, "seen_put") =>
        seen \subseteq task[t].copy \union lost /\ task[t].copy \subseteq seen \union lost
Clashed ==
    \A t, u \in Tasks : At(t, "seen_put") /\ At(u, "seen_put") /\ t # u =>
        ListOf(task[t].value) \subseteq lost
Record == Kept /\ Copied /\ Clashed

IInv == TypeInv /\ Connection /\ Linked /\ Solo /\ Record /\ (~behind => InOrder)

LEMMA InitInv == Init => IInv
<1> SUFFICES ASSUME Init PROVE IInv
  OBVIOUS
<1>1. TypeInv /\ TypeOK
  BY InitType DEF TypeInv
<1>2. \A t \in Tasks : task[t].pc = "idle"
  BY DEF Init, Idle
<1>3. Asked = {} /\ InFlight = {} /\ Publishing = {}
  BY <1>1, <1>2, AskedIs DEF AskedPcs, Publishing, At
<1>4. Connection /\ Linked /\ Solo
  BY <1>3 DEF Init, Connection, Linked, Solo
<1>5. Ordered /\ Told
  BY <1>3 DEF Init, Ordered, Told
<1>6. Record
  BY <1>2 DEF Init, Record, Kept, Copied, Clashed, At
<1>7. Fresh
  BY <1>3 DEF Init, Fresh, ListOf
<1> QED
  BY <1>1, <1>4, <1>5, <1>6, <1>7 DEF IInv, InOrder

-----------------------------------------------------------------------------
(* What each kind of step leaves as it was.                                *)

Same(u) ==
    /\ task'[u].pc = task[u].pc /\ task'[u].value = task[u].value
    /\ task'[u].copy = task[u].copy /\ task'[u].older = task[u].older

LEMMA AskFrame ==
    ASSUME NEW t \in Tasks, TypeInv, Ask(t)
    PROVE  /\ TypeOK'
           /\ t \notin Asked /\ Asked' = Asked \union {t}
           /\ \A u \in Tasks \ {t} : Same(u) /\ (task'[u] # Idle => task'[u].alone = FALSE)
           /\ Quiet' => (kind = "websocket" => listening)
<1>0. TypeOK
  BY DEF TypeInv
<1>1. TypeOK'
  BY StepsType DEF Step
<1>2. ASSUME NEW u \in Tasks \ {t}
      PROVE  Same(u) /\ (task'[u] # Idle => task'[u].alone = FALSE)
  BY <1>0, AskEffect, MetType DEF Same
<1>3. task[t].pc = "ask" /\ task'[t].pc = "get"
  BY <1>0, AskEffect DEF Ask, At
<1>4. t \notin Asked /\ Asked' = Asked \union {t}
  BY <1>0, <1>1, <1>2, <1>3, AskedIs, AskedIsNext DEF Same, AskedPcs
<1>5. Quiet' => (kind = "websocket" => listening)
  BY DEF Quiet, Ask, sourceVars
<1> QED
  BY <1>1, <1>2, <1>4, <1>5

LEMMA AdvancesFrame ==
    ASSUME NEW t \in Tasks, TypeInv, Advances(t)
    PROVE  /\ TypeOK'
           /\ t \in Asked
           /\ \/ Leaves(t) /\ Asked' = Asked \ {t}
              \/ Moves(t, task'[t].pc) /\ task'[t].pc \in AskedPcs /\ Asked' = Asked
           /\ \A u \in Tasks \ {t} : Same(u)
           /\ Quiet' <=> Quiet
<1>0. TypeOK
  BY DEF TypeInv
<1>1. TypeOK'
  BY StepsType DEF Step, Advances
<1>2. \A u \in Tasks \ {t} : task'[u] = task[u]
  BY <1>0, AdvancesEffect DEF Leaves, Moves, Others
<1>3. \A u \in Tasks \ {t} : Same(u)
  BY <1>2 DEF Same
<1>4. t \in Asked
  BY <1>0, AdvancesEffect, AskedIs
<1>5. task[t].pc # "ask" /\ task'[t].pc # "ask"
  BY <1>0, AdvancesEffect DEF AskedPcs, Leaves, Idle
<1>6. Quiet' <=> Quiet
  BY <1>0, <1>2, <1>5, AdvancesEffect DEF Quiet, At, sourceVars
<1>7. \/ Leaves(t)
      \/ Moves(t, task'[t].pc) /\ task'[t].pc \in AskedPcs
  BY <1>0, AdvancesEffect
<1>8. \/ Leaves(t) /\ Asked' = Asked \ {t}
      \/ Moves(t, task'[t].pc) /\ task'[t].pc \in AskedPcs /\ Asked' = Asked
  <2>1. Leaves(t) => Asked' = Asked \ {t}
    <3> SUFFICES ASSUME Leaves(t) PROVE Asked' = Asked \ {t}
      OBVIOUS
    <3>1. task'[t].pc = "idle"
      BY DEF Leaves, Idle
    <3> QED
      BY <1>0, <1>1, <1>2, <3>1, AskedIs, AskedIsNext DEF AskedPcs
  <2>2. task'[t].pc \in AskedPcs => Asked' = Asked
    BY <1>0, <1>1, <1>2, <1>4, AskedIs, AskedIsNext
  <2> QED
    BY <1>7, <2>1, <2>2
<1> QED
  BY <1>1, <1>3, <1>4, <1>6, <1>8

LEMMA StartsFrame ==
    ASSUME NEW t \in Tasks, TypeInv, Starts(t)
    PROVE  /\ TypeOK'
           /\ Asked' = Asked
           /\ \A u \in Tasks \ {t} : task'[u] = task[u]
           /\ task[t] = Idle /\ task'[t].pc = "ask" /\ task'[t].alone = FALSE
           /\ ~Quiet'
           /\ UNCHANGED <<storeVars, shown, lost, behind>>
<1>0. TypeOK
  BY DEF TypeInv
<1>1. Begins(t) /\ TypeOK'
  BY StartsEffect
<1>2. task[t].pc = "idle"
  BY <1>1 DEF Begins, Idle
<1>3. Asked' = Asked
  BY <1>0, <1>1, <1>2, AskedIs, AskedIsNext DEF Begins, Others, AskedPcs
<1>4. ~Quiet'
  BY <1>1 DEF Quiet, Begins, At
<1>5. UNCHANGED <<storeVars, shown, lost, behind>>
  BY DEF Starts, Read, Notify, OnConnect, Webhook, StopRefresh
<1> QED
  BY <1>1, <1>3, <1>4, <1>5 DEF Begins, Others

LEMMA ElsewhereFrame ==
    ASSUME TypeInv, Connection, Elsewhere
    PROVE  /\ TypeOK' /\ task' = task
           /\ Quiet' => Quiet /\ players' = players
           /\ UNCHANGED <<storeVars, shown, lost, behind>>
<1>0. TypeOK
  BY DEF TypeInv
<1>1. TypeOK' /\ task' = task
  BY ElsewhereType
<1>2. UNCHANGED <<storeVars, shown, lost, behind>>
  BY DEF Elsewhere, Change, Connect, Disconnect
<1>3. ASSUME NEW p \in Players, Change(p)
      PROVE  ~Quiet'
  BY <1>0, <1>3 DEF Change, Quiet, TypeOK
<1>4. CASE Connect
  BY <1>1, <1>4 DEF Connect, Quiet, At
<1>5. CASE Disconnect
  BY <1>1, <1>5 DEF Disconnect, Drop, Quiet, Connection
<1> QED
  BY <1>1, <1>2, <1>3, <1>4, <1>5 DEF Elsewhere

LEMMA DisruptsFrame ==
    ASSUME TypeOK, TypeOK', Disrupts
    PROVE  /\ Asked' \subseteq Asked
           /\ \A u \in InFlight' : task'[u].older = task[u].older /\ task'[u].alone = FALSE
<1>1. ASSUME NEW u \in Tasks, task'[u].pc \in AskedPcs \union {"ask"}
      PROVE  /\ task'[u].pc = task[u].pc /\ task'[u].older = task[u].older
             /\ task'[u].alone = FALSE
  <2>1. task'[u] # Idle
    BY <1>1 DEF Idle, AskedPcs
  <2> QED
    BY <2>1, MetType DEF Disrupts
<1> QED
  BY <1>1, AskedIs, AskedIsNext

-----------------------------------------------------------------------------
(* The parts of the invariant that faults do not touch.                    *)

LEMMA ConnectionNext ==
    ASSUME TypeInv, Connection, [Next]_vars
    PROVE  Connection'
<1>0. TypeOK
  BY DEF TypeInv
<1>1. ASSUME NEW t \in Tasks, Ask(t) \/ Advances(t)
      PROVE  Connection'
  BY <1>0, <1>1, AdvancesEffect DEF Ask, Connection, sourceVars
<1>2. ASSUME NEW t \in Tasks, Starts(t)
      PROVE  Connection'
  BY <1>2 DEF Starts, Read, Notify, OnConnect, Webhook, StopRefresh, Connection
<1>3. CASE Elsewhere
  BY <1>3 DEF Elsewhere, Change, Connect, Disconnect, Drop, Connection
<1>4. CASE Disturbs
  BY <1>4 DEF Disturbs, Fail, Stop, Restart, Drop, Connection
<1>5. CASE UNCHANGED vars
  BY <1>5 DEF vars, Connection
<1> QED
  BY <1>1, <1>2, <1>3, <1>4, <1>5, StepKinds

LEMMA LinkedShrinks ==
    ASSUME Linked, Asked' \subseteq Asked,
           \A u \in Asked' : task'[u].older = task[u].older
    PROVE  Linked'
BY DEF Linked

LEMMA LinkedNext ==
    ASSUME TypeInv, Connection, Linked, [Next]_vars
    PROVE  Linked'
<1>0. TypeOK
  BY DEF TypeInv
<1>1. ASSUME NEW t \in Tasks, Ask(t)
      PROVE  Linked'
  <2>1. task'[t].older = Asked
    BY <1>0, <1>1, AskEffect
  <2>2. \A u \in Asked : u \in Tasks \ {t} /\ task'[u].older = task[u].older
    BY <1>1, AskFrame DEF Asked, InFlight, Same
  <2>3. t \notin Asked /\ Asked' = Asked \union {t}
    BY <1>1, AskFrame
  <2>4. ASSUME NEW x \in Asked'
        PROVE  x \notin task'[x].older
    BY <2>1, <2>2, <2>3, <2>4 DEF Linked
  <2>5. ASSUME NEW x \in Asked', NEW y \in Asked' \ {x}
        PROVE  y \in task'[x].older \/ x \in task'[y].older
    BY <2>1, <2>2, <2>3, <2>5 DEF Linked
  <2> QED
    BY <2>4, <2>5 DEF Linked
<1>2. ASSUME NEW t \in Tasks, Advances(t)
      PROVE  Linked'
  <2>1. Asked' \subseteq Asked
    BY <1>2, AdvancesFrame
  <2>2. \A u \in Asked' : u # t => task'[u].older = task[u].older
    BY <1>2, AdvancesFrame DEF Asked, InFlight, Same
  <2>3. t \in Asked' => task'[t].older = task[t].older
    BY <1>2, AdvancesFrame DEF Moves
  <2> QED
    BY <2>1, <2>2, <2>3, LinkedShrinks
<1>3. ASSUME NEW t \in Tasks, Starts(t)
      PROVE  Linked'
  <2>1. Asked' = Asked
    BY <1>3, StartsFrame
  <2>2. \A u \in Asked : u \in Tasks \ {t}
    BY <1>3, StartsFrame DEF Asked, InFlight
  <2> QED
    BY <1>3, <2>1, <2>2, StartsFrame, LinkedShrinks
<1>4. CASE Elsewhere
  BY <1>4, ElsewhereType DEF Linked, Asked, InFlight
<1>5. CASE Disturbs
  <2>1. TypeOK' /\ Disrupts
    BY <1>0, <1>5, DisturbsEffect
  <2> QED
    BY <1>0, <2>1, DisruptsFrame, LinkedShrinks DEF Asked
<1>6. CASE UNCHANGED vars
  BY <1>6 DEF vars, Linked, Asked, InFlight
<1> QED
  BY <1>1, <1>2, <1>3, <1>4, <1>5, <1>6, StepKinds

\* A refresh that is alone goes on vouching, step by step.
LEMMA AloneAdvances ==
    ASSUME NEW t \in Tasks, TypeInv, Vouches(t), Advances(t), task'[t].pc \in AskedPcs
    PROVE  Vouches(t)'
<1>0. TypeOK
  BY DEF TypeInv
<1>1. Asked' = {t} /\ task'[t].value = task[t].value /\ players' = players
      /\ (Quiet' <=> Quiet) /\ ~Leaves(t)
  BY <1>0, AdvancesFrame, AdvancesEffect DEF Moves, Vouches, sourceVars, Leaves, Idle, AskedPcs
<1>2. CASE GetOld(t)
  <2>1. task'[t].pc = "put"
    BY <1>0, <1>1, <1>2, GetOldEffect DEF Moves
  <2> QED
    BY <1>1, <2>1 DEF Vouches, Stored, At
<1>3. CASE Put(t)
  <2>1. task'[t].pc = "publish" /\ stored' = task[t].value
    BY <1>0, <1>3, PutEffect DEF Moves, Put
  <2> QED
    BY <1>1, <2>1 DEF Vouches, Stored, At
<1>4. CASE Publish(t)
  <2>1. /\ task[t].pc = "publish" /\ task'[t].pc = "seen_get"
        /\ stored' = stored /\ news' = task[t].value
    BY <1>0, <1>1, <1>4, PublishEffect DEF Moves, Publish, At
  <2> QED
    BY <1>1, <2>1 DEF Vouches, Stored, At
<1>5. CASE SeenGet(t)
  <2>1. /\ task[t].pc = "seen_get" /\ task'[t].pc = "seen_put"
        /\ UNCHANGED storeVars /\ task'[t].copy = seen
    BY <1>0, <1>5, SeenGetEffect DEF Moves, SeenGet, At
  <2> QED
    BY <1>1, <2>1 DEF Vouches, Stored, At, storeVars
<1>6. CASE SeenPut(t)
  BY <1>0, <1>1, <1>6, SeenPutEffect
<1> QED
  BY <1>2, <1>3, <1>4, <1>5, <1>6 DEF Advances

LEMMA SoloNext ==
    ASSUME TypeInv, Connection, Solo, [Next]_vars
    PROVE  Solo'
<1>0. TypeOK
  BY DEF TypeInv
<1>1. ASSUME NEW t \in Tasks, Ask(t)
      PROVE  Solo'
  <2>1. \A u \in InFlight' : u # t => ~task'[u].alone
    BY <1>1, AskFrame DEF InFlight
  <2>2. /\ task'[t].alone = (Asked = {}) /\ task'[t].pc = "get"
        /\ task'[t].value = Source /\ Asked' = Asked \union {t}
    BY <1>0, <1>1, AskEffect, AskFrame
  <2>3. Quiet' => Source = players /\ players' = players
    <3>1. Quiet' => (kind = "websocket" => listening)
      BY <1>1, AskFrame
    <3> QED
      BY <1>1, <3>1 DEF Source, Connection, Ask, sourceVars
  <2> QED
    BY <2>1, <2>2, <2>3 DEF Solo, Vouches, Stored, At
<1>2. ASSUME NEW t \in Tasks, Advances(t)
      PROVE  Solo'
  <2>1. ASSUME NEW u \in InFlight', task'[u].alone
        PROVE  Vouches(u)'
    <3>1. CASE u # t
      <4>1. task'[u] = task[u] /\ u \in InFlight
        BY <1>0, <1>2, <2>1, <3>1, AdvancesEffect DEF InFlight, Leaves, Moves, Others
      <4>2. Asked = {u}
        BY <2>1, <4>1 DEF Solo, Vouches
      <4> QED
        BY <1>2, <3>1, <4>2, AdvancesFrame
    <3>2. CASE u = t
      <4>1. Moves(t, task'[t].pc) /\ task'[t].pc \in AskedPcs /\ t \in Asked
        BY <1>2, <2>1, <3>2, AdvancesFrame DEF Leaves, InFlight
      <4>2. Vouches(t)
        BY <2>1, <3>2, <4>1 DEF Moves, Solo, Asked
      <4> QED
        BY <1>2, <3>2, <4>1, <4>2, AloneAdvances
    <3> QED
      BY <3>1, <3>2
  <2> QED
    BY <2>1 DEF Solo
<1>3. ASSUME NEW t \in Tasks, Starts(t)
      PROVE  Solo'
  <2>1. ASSUME NEW u \in InFlight', task'[u].alone
        PROVE  Vouches(u)'
    <3>1. u # t /\ task'[u] = task[u] /\ u \in InFlight
      BY <1>3, <2>1, StartsFrame DEF InFlight
    <3>2. Vouches(u)
      BY <2>1, <3>1 DEF Solo
    <3> QED
      BY <1>3, <3>1, <3>2, StartsFrame DEF Vouches, Stored, At, storeVars
  <2> QED
    BY <2>1 DEF Solo
<1>4. CASE Elsewhere
  <2>1. InFlight' = InFlight /\ Asked' = Asked /\ task' = task
    BY <1>4, ElsewhereType DEF InFlight, Asked
  <2>2. ASSUME NEW u \in InFlight', task'[u].alone
        PROVE  Vouches(u)'
    <3>1. Vouches(u)
      BY <2>1, <2>2 DEF Solo
    <3> QED
      BY <1>4, <2>1, <3>1, ElsewhereFrame DEF Vouches, Stored, At, storeVars
  <2> QED
    BY <2>2 DEF Solo
<1>5. CASE Disturbs
  BY <1>0, <1>5, DisturbsEffect, DisruptsFrame DEF Solo
<1>6. CASE UNCHANGED vars
  BY <1>6 DEF vars, Solo, Vouches, Stored, At, Quiet, Asked, InFlight
<1> QED
  BY <1>1, <1>2, <1>3, <1>4, <1>5, <1>6, StepKinds

-----------------------------------------------------------------------------
(* The order of the refreshes, as long as nobody is behind.                *)

LEMMA PosType == \A t \in Tasks : Pos(t) \in 2 .. 5
BY DEF Pos

\* What it means not to overtake.
LEMMA Waits ==
    ASSUME NEW t \in Tasks, TypeOK, NEW pc \in AskedPcs, ~Overtakes(t, pc),
           NEW o \in Asked, o \in task[t].older
    PROVE  Rank[task[o].pc] > Rank[pc] /\ task[o].pc \in AskedPcs
<1>1. o \in InFlight /\ task[o].pc \in AskedPcs
  BY AskedIs DEF Asked
<1>2. ~(Rank[task[o].pc] <= Rank[pc])
  BY <1>1 DEF Overtakes
<1>3. Rank[task[o].pc] \in 0 .. 5 /\ Rank[pc] \in 0 .. 5
  BY <1>1, RankValues DEF AskedPcs
<1> QED
  BY <1>1, <1>2, <1>3

\* A refresh that goes on has waited for those that asked before it.
Waited(t) ==
    task'[t].pc \in AskedPcs =>
        /\ Pos(t)' >= Pos(t)
        /\ \A o \in Asked : o \in task[t].older => Pos(o) >= Pos(t)' /\ ~At(t, "seen_put")'

LEMMA AdvancesWaited ==
    ASSUME NEW t \in Tasks, TypeInv, Advances(t), ~behind'
    PROVE  Waited(t)
<1> SUFFICES ASSUME task'[t].pc \in AskedPcs PROVE Waited(t)
  BY DEF Waited
<1>0. TypeOK /\ Answered
  BY DEF TypeInv
<1>1. CASE GetOld(t)
  <2>1. task[t].pc = "get"
    BY <1>0, <1>1, GetOldEffect DEF At
  <2>2. task'[t].pc = "put"
    BY <1>0, <1>1, GetOldEffect DEF Moves, Leaves, Idle, AskedPcs
  <2> QED
    BY <2>1, <2>2, PosType DEF Waited, Pos, At, Asked, InFlight
<1>2. CASE Put(t)
  <2>1. task[t].pc = "put" /\ task'[t].pc = "publish" /\ ~Overtakes(t, "put")
    BY <1>0, <1>2, PutEffect DEF At, Moves, Put
  <2>2. ASSUME NEW o \in Asked, o \in task[t].older
        PROVE  task[o].pc \in {"publish", "seen_get", "seen_put"}
    BY <1>0, <2>1, <2>2, Waits, RankValues DEF AskedPcs
  <2> QED
    BY <2>1, <2>2 DEF Waited, Pos, At
<1>3. CASE Publish(t)
  <2>1. task[t].pc = "publish" /\ ~Overtakes(t, "publish")
    BY <1>0, <1>3, PublishEffect DEF At, Publish
  <2>2. task'[t].pc = "seen_get"
    BY <1>0, <1>3, PublishEffect DEF Moves, Leaves, Idle, AskedPcs
  <2>3. ASSUME NEW o \in Asked, o \in task[t].older
        PROVE  task[o].pc \in {"seen_get", "seen_put"}
    BY <1>0, <2>1, <2>3, Waits, RankValues DEF AskedPcs
  <2> QED
    BY <2>1, <2>2, <2>3 DEF Waited, Pos, At
<1>4. CASE SeenGet(t)
  <2>1. task[t].pc = "seen_get" /\ task'[t].pc = "seen_put" /\ ~Overtakes(t, "seen_put")
    BY <1>0, <1>4, SeenGetEffect DEF At, Moves, SeenGet
  <2>2. ASSUME NEW o \in Asked, o \in task[t].older
        PROVE  FALSE
    BY <1>0, <2>1, <2>2, Waits, RankValues DEF AskedPcs
  <2> QED
    BY <2>1, <2>2 DEF Waited, Pos, At
<1>5. CASE SeenPut(t)
  BY <1>0, <1>5, SeenPutEffect DEF Leaves, Idle, AskedPcs
<1> QED
  BY <1>1, <1>2, <1>3, <1>4, <1>5 DEF Advances

LEMMA SamePos ==
    ASSUME NEW u \in Tasks, Same(u)
    PROVE  Pos(u)' = Pos(u) /\ (Stored(u)' <=> Stored(u))
BY DEF Same, Pos, At, Stored

\* The slot of a refresh that goes on, next to those of the others.
LEMMA AdvancesSlots ==
    ASSUME NEW t \in Tasks, TypeInv, Advances(t)
    PROVE  /\ Asked' \subseteq Asked /\ Asked \subseteq Tasks /\ t \in Asked
           /\ \A u \in Asked \ {t} : Same(u) /\ Pos(u)' = Pos(u) /\ u \in Asked'
           /\ t \in Asked' <=> task'[t].pc \in AskedPcs
           /\ t \in Asked' => /\ task'[t].older = task[t].older
                              /\ task'[t].value = task[t].value
<1>0. Asked \subseteq Tasks
  BY DEF Asked, InFlight
<1>1. \A u \in Asked \ {t} : Same(u) /\ Pos(u)' = Pos(u)
  BY <1>0, AdvancesFrame, SamePos
<1>2. t \in Asked' <=> task'[t].pc \in AskedPcs
  BY AdvancesFrame, AskedIsNext
<1>3. t \in Asked' => /\ task'[t].older = task[t].older
                      /\ task'[t].value = task[t].value
  BY AdvancesFrame DEF Moves
<1> QED
  BY <1>0, <1>1, <1>2, <1>3, AdvancesFrame

LEMMA AdvancesOrdered ==
    ASSUME NEW t \in Tasks, TypeInv, Ordered, Advances(t), Waited(t)
    PROVE  Ordered'
<1>1. \A u \in Tasks : Pos(u) \in Nat /\ Pos(u)' \in Nat
  BY DEF Pos
<1>2. ASSUME NEW x \in Asked', NEW y \in Asked', y \in task'[x].older, x \notin task'[y].older
      PROVE  Pos(y)' >= Pos(x)'
  <2>1. x \in Asked /\ y \in Asked /\ x \in Tasks /\ y \in Tasks
    BY AdvancesSlots
  <2>2. task'[x].older = task[x].older /\ task'[y].older = task[y].older
    BY <1>2, <2>1, AdvancesSlots DEF Same
  <2>3. Pos(y) >= Pos(x)
    BY <1>2, <2>1, <2>2 DEF Ordered
  <2>4. CASE x = y
    BY <1>1, <2>1, <2>4
  <2>5. CASE x # t /\ y # t
    BY <2>1, <2>3, <2>5, AdvancesSlots
  <2>6. CASE x = t /\ y # t
    BY <1>2, <2>1, <2>2, <2>6, AdvancesSlots DEF Waited
  <2>7. CASE x # t /\ y = t
    <3>1. Pos(y)' >= Pos(y) /\ Pos(x)' = Pos(x)
      BY <2>1, <2>7, AdvancesSlots DEF Waited
    <3> QED
      BY <1>1, <2>1, <2>3, <3>1
  <2> QED
    BY <2>4, <2>5, <2>6, <2>7
<1> QED
  BY <1>2 DEF Ordered

LEMMA PublishingAsked == TypeOK => Publishing \subseteq Asked
BY AskedIs DEF Publishing, At, AskedPcs

LEMMA ToldSame ==
    ASSUME Told, Publishing' = Publishing, stored' = stored, news' = news,
           \A u \in Publishing : task'[u].value = task[u].value /\ task'[u].older = task[u].older
    PROVE  Told'
BY DEF Told, ListOf

\* A refresh that stores is the last to publish of those that have stored.
LEMMA PutTold ==
    ASSUME NEW t \in Tasks, TypeInv, Linked, Ordered, Put(t)
    PROVE  Told'
<1>0. TypeOK
  BY DEF TypeInv
<1>1. /\ task[t].pc = "put" /\ task'[t].pc = "publish" /\ stored' = task[t].value
      /\ task'[t].value = task[t].value /\ task'[t].older = task[t].older
  BY <1>0, PutEffect DEF At, Moves, Put
<1>2. Publishing' = Publishing \union {t} /\ t \notin Publishing
  BY <1>1, AdvancesFrame DEF Publishing, At, Same, Advances
<1>3. ASSUME NEW u \in Publishing
      PROVE  u \in task[t].older
  <2>1. u \in Asked /\ t \in Asked /\ u # t
    BY <1>0, <1>2, PublishingAsked, AdvancesFrame DEF Advances
  <2>2. Pos(u) = 3 /\ Pos(t) = 2
    BY <1>1 DEF Publishing, Pos, At
  <2>3. ~(Pos(t) >= Pos(u))
    BY <2>2
  <2> QED
    BY <2>1, <2>3 DEF Linked, Ordered
<1>4. t \in Publishing' /\ stored' = task'[t].value /\ Publishing' \ {t} \subseteq task'[t].older
  BY <1>1, <1>2, <1>3
<1> QED
  BY <1>4 DEF Told

\* A refresh that publishes last publishes what is stored.
LEMMA PublishTold ==
    ASSUME NEW t \in Tasks, TypeInv, Told, Publish(t), ~behind'
    PROVE  Told'
<1>0. TypeOK
  BY DEF TypeInv
<1>1. /\ task[t].pc = "publish" /\ task'[t].pc # "publish"
      /\ news' = task[t].value /\ stored' = stored /\ ~Overtakes(t, "publish")
  <2>1. task'[t].pc # "publish"
    BY <1>0, PublishEffect DEF Leaves, Moves, Idle
  <2> QED
    BY <1>0, <2>1, PublishEffect DEF At, Publish
<1>2. Publishing' = Publishing \ {t} /\ t \in Publishing
  BY <1>1, AdvancesFrame DEF Publishing, At, Same, Advances
<1>3. PICK y \in Publishing : stored = task[y].value /\ Publishing \ {y} \subseteq task[y].older
  BY <1>2 DEF Told
<1>4. CASE y = t
  <2>1. ASSUME NEW o \in Publishing \ {t}
        PROVE  FALSE
    <3>1. o \in Asked /\ o \in task[t].older /\ task[o].pc = "publish"
      BY <1>0, <1>3, <1>4, PublishingAsked DEF Publishing, At
    <3> QED
      BY <1>0, <1>1, <3>1, Waits, RankValues DEF AskedPcs
  <2>2. Publishing' = {}
    BY <1>2, <2>1
  <2> QED
    BY <1>1, <1>3, <1>4, <2>2 DEF Told, ListOf
<1>5. CASE y # t
  <2>1. y \in Publishing' /\ Publishing' \ {y} \subseteq task[y].older
    BY <1>2, <1>3, <1>5
  <2>2. task'[y].value = task[y].value /\ task'[y].older = task[y].older
    BY <1>5, AdvancesFrame DEF Same, Advances, Publishing
  <2> QED
    BY <1>1, <1>3, <2>1, <2>2 DEF Told
<1> QED
  BY <1>4, <1>5

LEMMA AdvancesTold ==
    ASSUME NEW t \in Tasks, TypeInv, Linked, Ordered, Told, Advances(t), ~behind'
    PROVE  Told'
<1>0. TypeOK
  BY DEF TypeInv
<1>1. ASSUME task[t].pc # "publish", task'[t].pc # "publish", stored' = stored, news' = news
      PROVE  Told'
  <2>1. Publishing' = Publishing /\ t \notin Publishing
    BY <1>1, AdvancesFrame DEF Publishing, At, Same
  <2> QED
    BY <1>1, <2>1, AdvancesFrame, ToldSame DEF Publishing, Same
<1>2. CASE GetOld(t)
  BY <1>0, <1>1, <1>2, GetOldEffect DEF GetOld, storeVars, At, Leaves, Moves, Idle
<1>3. CASE Put(t)
  BY <1>3, PutTold
<1>4. CASE Publish(t)
  BY <1>4, PublishTold
<1>5. CASE SeenGet(t)
  BY <1>0, <1>1, <1>5, SeenGetEffect DEF SeenGet, storeVars, At, Moves
<1>6. CASE SeenPut(t)
  BY <1>0, <1>1, <1>6, SeenPutEffect DEF SeenPut, storeVars, At, Leaves, Idle
<1> QED
  BY <1>2, <1>3, <1>4, <1>5, <1>6 DEF Advances

LEMMA ListsAnswer == TypeOK => players # None /\ ListOf(players) = players
BY PlayersAssumption DEF TypeOK, None, ListOf

\* What asked last stays what asked last while another goes on.
LEMMA OtherFresh ==
    ASSUME NEW t \in Tasks, TypeInv, Advances(t), Waited(t),
           NEW y \in Tasks \ {t}, Youngest(y), Stored(y) => stored = players,
           task[y].value = players
    PROVE  /\ Youngest(y)' /\ task'[y].value = players'
           /\ Stored(y)' => stored' = players'
<1>0. TypeOK
  BY DEF TypeInv
<1>1. t \in Asked /\ y \in Asked /\ Same(y) /\ Pos(y)' = Pos(y) /\ y \in Asked'
      /\ players' = players /\ Pos(t) >= Pos(y) /\ ~At(y, "seen_put")
  BY <1>0, AdvancesSlots, AdvancesEffect DEF Youngest, sourceVars
<1>2. \A u \in Tasks : Pos(u) \in Nat /\ Pos(u)' \in Nat
  BY DEF Pos
<1>3. ASSUME NEW x \in Asked' \ {y}
      PROVE  x \in task'[y].older /\ Pos(x)' >= Pos(y)' /\ ~At(y, "seen_put")'
  <2>1. x \in Asked \ {y} /\ x \in Tasks
    BY AdvancesSlots
  <2>2. Pos(x)' >= Pos(x)
    <3>1. CASE x = t
      BY <3>1, <1>3, AdvancesSlots DEF Waited
    <3>2. CASE x # t
      BY <1>2, <2>1, <3>2, AdvancesSlots
    <3> QED
      BY <3>1, <3>2
  <2>3. x \in task[y].older /\ Pos(x) >= Pos(y)
    BY <2>1 DEF Youngest
  <2>4. Pos(x)' >= Pos(y)'
    BY <1>1, <1>2, <2>1, <2>2, <2>3
  <2> QED
    BY <1>1, <2>3, <2>4 DEF Same, At
<1>4. ASSUME Stored(y)'
      PROVE  stored' = players'
  <2>1. Stored(y) /\ Pos(y) > 2
    BY <1>1, <1>4 DEF Stored, Same, Pos, At
  <2>2. CASE Put(t)
    <3>1. Pos(t) = 2
      BY <1>0, <2>2, PutEffect DEF Pos, At
    <3> QED
      BY <1>1, <1>2, <2>1, <3>1
  <2>3. CASE ~Put(t)
    <3>1. stored' = stored
      BY <2>3 DEF Advances, GetOld, Publish, SeenGet, SeenPut, storeVars
    <3> QED
      BY <1>1, <2>1, <3>1
  <2> QED
    BY <2>2, <2>3
<1> QED
  BY <1>1, <1>3, <1>4 DEF Youngest, Same

\* What asked last brings its list into the store.
LEMMA OwnFresh ==
    ASSUME NEW t \in Tasks, TypeInv, Advances(t), Waited(t),
           Youngest(t), Stored(t) => stored = players, task[t].value = players
    PROVE  IF Asked' = {}
           THEN ListOf(stored') = players'
           ELSE /\ Youngest(t)' /\ task'[t].value = players'
                /\ Stored(t)' => stored' = players'
<1>0. TypeOK /\ players' = players /\ task[t].value # None
  BY AdvancesEffect, ListsAnswer DEF TypeInv, sourceVars
<1>1. CASE SeenPut(t)
  <2>1. At(t, "seen_put") /\ Leaves(t) /\ stored' = stored
    BY <1>0, <1>1, SeenPutEffect DEF SeenPut
  <2>2. Asked' = {}
    <3>1. Asked = {t}
      BY <2>1 DEF Youngest
    <3>2. task'[t].pc \notin AskedPcs
      BY <2>1 DEF Leaves, Idle, AskedPcs
    <3> QED
      BY <3>1, <3>2, AdvancesSlots
  <2> QED
    BY <1>0, <2>1, <2>2, ListsAnswer DEF Stored, At
<1>2. CASE ~SeenPut(t)
  <2>1. ~Leaves(t) /\ task'[t].pc \in AskedPcs /\ t \in Asked'
        /\ (Stored(t)' => Stored(t) \/ Put(t))
    <3>1. CASE GetOld(t)
      BY <1>0, <3>1, GetOldEffect, AdvancesSlots DEF Moves, Leaves, Idle, Stored, AskedPcs
    <3>2. CASE Put(t)
      BY <1>0, <3>2, PutEffect, AdvancesSlots DEF Moves, Leaves, Idle, AskedPcs
    <3>3. CASE Publish(t)
      BY <1>0, <3>3, PublishEffect, AdvancesSlots DEF Moves, Leaves, Idle, Stored, At, AskedPcs
    <3>4. CASE SeenGet(t)
      BY <1>0, <3>4, SeenGetEffect, AdvancesSlots DEF Moves, Leaves, Idle, Stored, At, AskedPcs
    <3> QED
      BY <1>2, <3>1, <3>2, <3>3, <3>4 DEF Advances
  <2>2. ASSUME NEW x \in Asked' \ {t}
        PROVE  x \in task'[t].older /\ Pos(x)' >= Pos(t)' /\ ~At(t, "seen_put")'
    <3>1. x \in Asked \ {t} /\ x \in task[t].older
      BY AdvancesSlots DEF Youngest
    <3> QED
      BY <2>1, <3>1, AdvancesSlots DEF Waited
  <2>3. Stored(t)' => stored' = players
    <3>1. Put(t) => stored' = players
      BY <1>0 DEF Put
    <3>2. ~Put(t) => stored' = stored
      BY DEF Advances, GetOld, Publish, SeenGet, SeenPut, storeVars
    <3> QED
      BY <2>1, <3>1, <3>2
  <2> QED
    BY <1>0, <2>1, <2>2, <2>3, AdvancesSlots DEF Youngest
<1> QED
  BY <1>1, <1>2

LEMMA AdvancesFresh ==
    ASSUME NEW t \in Tasks, TypeInv, Fresh, Advances(t), Waited(t)
    PROVE  Fresh'
<1> SUFFICES ASSUME Quiet' PROVE Fresh'
  BY DEF Fresh
<1>1. Quiet /\ t \in Asked
  BY AdvancesFrame
<1>2. PICK y \in Tasks : /\ Youngest(y) /\ task[y].value = players
                         /\ Stored(y) => stored = players
  BY <1>1 DEF Fresh
<1>3. CASE y # t
  <2>1. /\ Youngest(y)' /\ task'[y].value = players'
        /\ Stored(y)' => stored' = players'
    BY <1>2, <1>3, OtherFresh
  <2>2. Asked' # {}
    BY <2>1 DEF Youngest
  <2> QED
    BY <2>1, <2>2 DEF Fresh, ListOf
<1>4. CASE y = t
  BY <1>2, <1>4, OwnFresh DEF Fresh, ListOf
<1> QED
  BY <1>3, <1>4

-----------------------------------------------------------------------------
(* The record.                                                             *)

\* A step that leaves the record alone: what a refresh has in its hands stays
\* there or is lost, and no copy is made.
Hands(u) ==
    /\ Stored(u) => \/ Stored(u)' /\ task'[u].value = task[u].value
                    \/ ListOf(task[u].value) \subseteq lost'
    /\ At(u, "seen_put")' => Same(u)
InHand(p) == \E u \in Tasks : Stored(u) /\ p \in ListOf(task[u].value)

LEMMA RecordApart ==
    ASSUME Record, seen' = seen, lost \subseteq lost',
           \A u \in Tasks : Hands(u),
           \A p \in shown' : p \in shown \/ InHand(p)'
    PROVE  Record'
<1>1. ASSUME NEW p \in shown, p \notin seen, p \notin lost'
      PROVE  InHand(p)'
  <2>1. PICK u \in Tasks : Stored(u) /\ p \in ListOf(task[u].value)
    BY <1>1 DEF Record, Kept
  <2>2. Stored(u)' /\ task'[u].value = task[u].value
    BY <1>1, <2>1 DEF Hands
  <2> QED
    BY <2>1, <2>2 DEF InHand, ListOf
<1>2. Kept'
  BY <1>1 DEF Kept, InHand
<1>3. \A u \in Tasks : At(u, "seen_put")' =>
          At(u, "seen_put") /\ task'[u].copy = task[u].copy /\ task'[u].value = task[u].value
  BY DEF Hands, Same, At
<1>4. Copied' /\ Clashed'
  BY <1>3 DEF Record, Copied, Clashed, ListOf
<1> QED
  BY <1>2, <1>4 DEF Record

LEMMA SeenGetRecord ==
    ASSUME NEW t \in Tasks, TypeInv, Record, SeenGet(t)
    PROVE  Record'
<1>0. TypeOK
  BY DEF TypeInv
<1>1. /\ task[t].pc = "seen_get" /\ task'[t].pc = "seen_put"
      /\ task'[t].value = task[t].value /\ task'[t].copy = seen
      /\ seen' = seen /\ shown' = shown
  BY <1>0, SeenGetEffect DEF At, Moves, SeenGet, storeVars
<1>2. \A u \in Tasks \ {t} : Same(u) /\ (Stored(u)' <=> Stored(u))
  BY AdvancesFrame, SamePos DEF Advances
<1>3. lost \subseteq lost'
  BY DEF SeenGet
<1>4. ASSUME NEW u \in Tasks \ {t}, At(u, "seen_put")
      PROVE  /\ ListOf(task[u].value) \subseteq lost'
             /\ ListOf(task[t].value) \subseteq lost'
  <2>1. u \in Recording /\ Recording \union {t} \in SUBSET Tasks
    BY <1>4 DEF Recording
  <2>2. Stored(u) /\ Stored(t)
    BY <1>1, <1>4 DEF Stored, At
  <2>3. lost' = lost \union Unrecorded(Recording \union {t})
    BY <2>1 DEF SeenGet
  <2>4. \A p : p \in Unrecorded(Recording \union {t})
              <=> \E v \in Recording \union {t} : Stored(v) /\ p \in ListOf(task[v].value)
    BY <1>0, <2>1, UnrecordedIs
  <2> QED
    BY <2>1, <2>2, <2>3, <2>4
<1>5. Kept'
  <2>1. Stored(t)' /\ \A u \in Tasks : Stored(u) => Stored(u)' /\ task'[u].value = task[u].value
    BY <1>1, <1>2 DEF Stored, Same
  <2> QED
    BY <1>1, <1>3, <2>1 DEF Record, Kept, ListOf
<1>6. Copied'
  BY <1>1, <1>2, <1>3 DEF Record, Copied, Same, At
<1>7. Clashed'
  BY <1>1, <1>2, <1>3, <1>4 DEF Record, Clashed, Same, At, ListOf
<1> QED
  BY <1>5, <1>6, <1>7 DEF Record

LEMMA SeenPutRecord ==
    ASSUME NEW t \in Tasks, TypeInv, Record, SeenPut(t)
    PROVE  Record'
<1>0. TypeOK /\ Answered
  BY DEF TypeInv
<1>1. /\ At(t, "seen_put") /\ task[t].value # None /\ task'[t].pc = "idle"
      /\ shown' = shown
  <2>1. At(t, "seen_put") /\ task'[t] = Idle
    BY <1>0, SeenPutEffect DEF Leaves
  <2>2. task'[t].pc = "idle"
    BY <2>1 DEF Idle
  <2>3. task[t].value # None
    BY <1>0, <2>1 DEF Answered, At
  <2> QED
    BY <2>1, <2>2, <2>3 DEF SeenPut
<1>2. PICK list : list = task[t].value /\ list = ListOf(task[t].value)
  BY <1>1 DEF ListOf
<1>3. seen' = task[t].copy \union list
  BY <1>2 DEF SeenPut
<1>4. ~Stored(t)' /\ ~At(t, "seen_put")'
  BY <1>1 DEF Stored, At
<1>5. \A u \in Tasks \ {t} : Same(u) /\ (Stored(u)' <=> Stored(u))
  BY AdvancesFrame, SamePos DEF Advances
<1>6. /\ seen \subseteq task[t].copy \union lost
      /\ task[t].copy \subseteq seen \union lost
  BY <1>1 DEF Record, Copied
<1>7. CASE Recording = {t}
  <2>1. lost' = lost \ seen'
    BY <1>7 DEF SeenPut
  <2>2. \A u \in Tasks : ~At(u, "seen_put")'
    BY <1>4, <1>5, <1>7 DEF Recording, At, Same
  <2>3. ASSUME NEW p \in shown, p \notin seen', p \notin lost
        PROVE  \E u \in Tasks : Stored(u)' /\ p \in ListOf(task'[u].value)
    <3>1. PICK u \in Tasks : Stored(u) /\ p \in ListOf(task[u].value)
      BY <1>3, <1>6, <2>3 DEF Record, Kept
    <3>2. u # t
      BY <1>2, <1>3, <2>3, <3>1
    <3> QED
      BY <1>5, <3>1, <3>2 DEF Same, ListOf
  <2> QED
    BY <1>1, <2>1, <2>2, <2>3 DEF Record, Kept, Copied, Clashed
<1>8. CASE Recording # {t}
  <2>1. lost' = lost
    BY <1>8 DEF SeenPut
  <2>2. PICK o \in Tasks \ {t} : At(o, "seen_put")
    BY <1>1, <1>8 DEF Recording
  <2>3. list \subseteq lost
    BY <1>1, <1>2, <2>2 DEF Record, Clashed
  <2>4. ASSUME NEW p \in shown, p \notin seen', p \notin lost
        PROVE  \E u \in Tasks : Stored(u)' /\ p \in ListOf(task'[u].value)
    <3>1. PICK u \in Tasks : Stored(u) /\ p \in ListOf(task[u].value)
      BY <1>3, <1>6, <2>4 DEF Record, Kept
    <3>2. u # t
      BY <1>2, <2>3, <2>4, <3>1
    <3> QED
      BY <1>5, <3>1, <3>2 DEF Same, ListOf
  <2>5. ASSUME NEW u \in Tasks, At(u, "seen_put")'
        PROVE  /\ seen' \subseteq task'[u].copy \union lost
               /\ task'[u].copy \subseteq seen' \union lost
    <3>1. u # t /\ At(u, "seen_put") /\ task'[u].copy = task[u].copy
      BY <1>4, <1>5, <2>5 DEF Same, At
    <3>2. /\ seen \subseteq task[u].copy \union lost
          /\ task[u].copy \subseteq seen \union lost
      BY <3>1 DEF Record, Copied
    <3> QED
      BY <1>3, <1>6, <2>3, <3>1, <3>2
  <2>6. Clashed'
    BY <1>4, <1>5, <2>1 DEF Record, Clashed, Same, At, ListOf
  <2> QED
    BY <1>1, <2>1, <2>4, <2>5, <2>6 DEF Record, Kept, Copied
<1> QED
  BY <1>7, <1>8

LEMMA AdvancesRecord ==
    ASSUME NEW t \in Tasks, TypeInv, Record, Advances(t)
    PROVE  Record'
<1>0. TypeOK
  BY DEF TypeInv
<1>1. \A u \in Tasks \ {t} : Hands(u)
  BY AdvancesFrame, SamePos DEF Hands, Same
<1>2. CASE GetOld(t)
  <2>1. ~Stored(t) /\ ~At(t, "seen_put")'
    BY <1>0, <1>2, GetOldEffect DEF Stored, At, Leaves, Moves, Idle
  <2> QED
    BY <1>1, <1>2, <2>1, RecordApart DEF Hands, GetOld, storeVars
<1>3. CASE Put(t)
  <2>1. /\ ~Stored(t) /\ ~At(t, "seen_put")' /\ Stored(t)'
        /\ task'[t].value = task[t].value
        /\ shown' = shown \union ListOf(task[t].value) /\ seen' = seen /\ lost' = lost
    BY <1>0, <1>3, PutEffect DEF Stored, At, Moves, Put
  <2>2. \A p \in shown' : p \in shown \/ InHand(p)'
    BY <2>1 DEF InHand, ListOf
  <2> QED
    BY <1>1, <2>1, <2>2, RecordApart DEF Hands
<1>4. CASE Publish(t)
  <2>1. ~At(t, "seen_put")' /\ shown' = shown /\ seen' = seen /\ lost' = lost
    BY <1>0, <1>4, PublishEffect DEF Publish, At, Leaves, Moves, Idle
  <2>2. CASE task[t].value = None
    BY <1>1, <2>1, <2>2, RecordApart DEF Hands, ListOf
  <2>3. CASE task[t].value # None
    <3>1. Stored(t)' /\ task'[t].value = task[t].value
      BY <1>0, <1>4, <2>3, PublishEffect DEF Stored, Moves
    <3> QED
      BY <1>1, <2>1, <3>1, RecordApart DEF Hands
  <2> QED
    BY <2>2, <2>3
<1>5. CASE SeenGet(t)
  BY <1>5, SeenGetRecord
<1>6. CASE SeenPut(t)
  BY <1>6, SeenPutRecord
<1> QED
  BY <1>2, <1>3, <1>4, <1>5, <1>6 DEF Advances

\* A refresh that fails or is killed loses what it has in its hands.
LEMMA DisturbsRecord ==
    ASSUME TypeInv, Record, Disturbs
    PROVE  Record'
<1>0. TypeOK
  BY DEF TypeInv
<1>1. Disrupts /\ seen' = seen /\ shown' = shown /\ lost \subseteq lost'
  BY <1>0, DisturbsEffect DEF Disturbs, Fail, Stop, Restart, storeVars
<1>2. ASSUME NEW u \in Tasks
      PROVE  \/ task[u] # Idle /\ Same(u) /\ (Stored(u)' <=> Stored(u))
             \/ task'[u] = Idle
  BY <1>0, <1>1, MetType, SamePos DEF Disrupts, Same
<1>3. ASSUME NEW u \in Tasks, task'[u] = Idle, Stored(u)
      PROVE  ListOf(task[u].value) \subseteq lost'
  <2>0. task[u] # Idle
    BY <1>3 DEF Stored, Idle
  <2>1. ASSUME NEW t \in Tasks, Fail(t)
        PROVE  ListOf(task[u].value) \subseteq lost'
    <3>1. u = t
      <4>1. u # t => task'[u] = Met[u]
        BY <1>0, <2>1, MetType DEF Fail
      <4>2. Met[u].pc = task[u].pc
        BY <1>0, <2>0, MetType
      <4>3. Met[u] = Idle => Met[u].pc = "idle"
        BY DEF Idle
      <4> QED
        BY <1>3, <4>1, <4>2, <4>3 DEF Stored
    <3>2. \A p \in ListOf(task[u].value) : p \in Unrecorded({t})
      BY <1>0, <1>3, <3>1, UnrecordedIs
    <3> QED
      BY <2>1, <3>2 DEF Fail
  <2>2. CASE Stop
    <3>1. task'[u] = Met[u] /\ Met[u].pc = task[u].pc
      BY <1>0, <2>0, <2>2, MetType DEF Stop
    <3> QED
      BY <1>3, <3>1 DEF Stored, Idle
  <2>3. CASE Restart
    <3>1. \A p \in ListOf(task[u].value) : p \in Unrecorded(Tasks)
      BY <1>0, <1>3, UnrecordedIs
    <3> QED
      BY <2>3, <3>1 DEF Restart
  <2> QED
    BY <2>1, <2>2, <2>3 DEF Disturbs
<1>4. ASSUME NEW u \in Tasks
      PROVE  Hands(u)
  <2>1. CASE task'[u] = Idle
    BY <1>3, <2>1 DEF Hands, At, Idle
  <2>2. CASE task'[u] # Idle
    BY <1>2, <2>2 DEF Hands, Same
  <2> QED
    BY <2>1, <2>2
<1> QED
  BY <1>1, <1>4, RecordApart

LEMMA RecordNext ==
    ASSUME TypeInv, Connection, Record, [Next]_vars
    PROVE  Record'
<1>0. TypeOK
  BY DEF TypeInv
<1>1. ASSUME NEW t \in Tasks, Ask(t)
      PROVE  Record'
  <2>1. task[t].pc = "ask" /\ task'[t].pc = "get"
    BY <1>0, <1>1, AskEffect DEF Ask, At
  <2>2. \A u \in Tasks : Hands(u)
    BY <1>1, <2>1, AskFrame, SamePos DEF Hands, Stored, At, Same
  <2> QED
    BY <1>1, <2>2, RecordApart DEF Ask, storeVars
<1>2. ASSUME NEW t \in Tasks, Advances(t)
      PROVE  Record'
  BY <1>2, AdvancesRecord
<1>3. ASSUME NEW t \in Tasks, Starts(t)
      PROVE  Record'
  <2>0. task[t] = Idle /\ task'[t].pc = "ask"
    BY <1>3, StartsFrame
  <2>1. task[t].pc = "idle" /\ task'[t].pc = "ask"
    BY <2>0 DEF Idle
  <2>2. \A u \in Tasks : Hands(u)
    BY <1>3, <2>1, StartsFrame DEF Hands, Stored, At, Same
  <2> QED
    BY <1>3, <2>2, StartsFrame, RecordApart DEF storeVars
<1>4. CASE Elsewhere
  <2>1. \A u \in Tasks : Hands(u)
    BY <1>4, ElsewhereFrame DEF Hands, Stored, At, Same
  <2> QED
    BY <1>4, <2>1, ElsewhereFrame, RecordApart DEF storeVars
<1>5. CASE Disturbs
  BY <1>5, DisturbsRecord
<1>6. CASE UNCHANGED vars
  BY <1>6 DEF vars, Record, Kept, Copied, Clashed, Stored, At, ListOf
<1> QED
  BY <1>1, <1>2, <1>3, <1>4, <1>5, <1>6, StepKinds

-----------------------------------------------------------------------------
(* The order through all steps.                                            *)

\* A refresh that ran alone makes up for whatever was behind.
LEMMA AloneCatchesUp ==
    ASSUME NEW t \in Tasks, TypeInv, Solo, Advances(t), behind, ~behind'
    PROVE  InOrder'
<1>0. TypeOK /\ TypeOK' /\ Answered
  BY AdvancesFrame DEF TypeInv
<1>1. SeenPut(t) /\ task[t].alone
  BY DEF Advances, GetOld, Put, Publish, SeenGet, SeenPut
<1>2. At(t, "seen_put") /\ Leaves(t) /\ task[t].value # None
  BY <1>0, <1>1, SeenPutEffect DEF Answered, At
<1>3. Vouches(t)
  BY <1>1, AdvancesFrame DEF Solo, Asked
<1>4. /\ Asked' = {} /\ stored = task[t].value /\ news = task[t].value
      /\ Quiet => task[t].value = players
  <2>1. task'[t].pc \notin AskedPcs
    BY <1>2 DEF Leaves, Idle, AskedPcs
  <2> QED
    BY <1>2, <1>3, <2>1, AdvancesSlots DEF Vouches, Stored, At
<1>5. /\ stored' = stored /\ news' = news /\ players' = players
  BY <1>1 DEF SeenPut, sourceVars
<1>6. \A u \in Tasks : task'[u].pc \notin AskedPcs
  BY <1>0, <1>4, AskedIsNext
<1>7. Publishing' = {}
  BY <1>6 DEF Publishing, At, AskedPcs
<1>8. Ordered'
  BY <1>4 DEF Ordered
<1>9. Told'
  BY <1>4, <1>5, <1>7 DEF Told, ListOf
<1>10. Fresh'
  BY <1>0, <1>4, <1>5, AdvancesFrame, ListsAnswer DEF Fresh, ListOf
<1> QED
  BY <1>8, <1>9, <1>10 DEF InOrder

LEMMA AdvancesInOrder ==
    ASSUME NEW t \in Tasks, TypeInv, Linked, Solo, ~behind => InOrder, Advances(t), ~behind'
    PROVE  InOrder'
<1>1. CASE behind
  BY <1>1, AloneCatchesUp
<1>2. CASE ~behind
  <2>1. Waited(t) /\ InOrder
    BY <1>2, AdvancesWaited
  <2> QED
    BY <1>2, <2>1, AdvancesOrdered, AdvancesTold, AdvancesFresh DEF InOrder
<1> QED
  BY <1>1, <1>2

\* A refresh that asks is the youngest, and its answer is the list there is.
LEMMA AskInOrder ==
    ASSUME NEW t \in Tasks, TypeInv, Connection, InOrder, Ask(t)
    PROVE  InOrder'
<1>0. TypeOK
  BY DEF TypeInv
<1>1. /\ task'[t].pc = "get" /\ task'[t].value = Source /\ task'[t].older = Asked
      /\ task[t].pc = "ask" /\ t \notin Asked /\ Asked' = Asked \union {t}
      /\ Asked \subseteq Tasks
  BY <1>0, AskEffect, AskFrame DEF Ask, At, Asked, InFlight
<1>2. /\ stored' = stored /\ seen' = seen /\ news' = news /\ shown' = shown
      /\ players' = players
  BY DEF Ask, sourceVars, storeVars
<1>3. \A u \in Tasks \ {t} : Same(u) /\ Pos(u)' = Pos(u) /\ (Stored(u)' <=> Stored(u))
  BY AskFrame, SamePos
<1>4. Pos(t)' = 2 /\ ~Stored(t)' /\ ~Stored(t) /\ ~At(t, "seen_put")' /\ ~At(t, "publish")'
      /\ ~At(t, "publish")
  BY <1>1 DEF Pos, Stored, At
<1>5. Ordered'
  <2>1. ASSUME NEW x \in Asked', NEW y \in Asked',
               y \in task'[x].older, x \notin task'[y].older
        PROVE  Pos(y)' >= Pos(x)'
    <3>1. y # t
      BY <1>1, <2>1
    <3>2. CASE x = t
      BY <1>1, <1>4, <3>1, <3>2 DEF Pos
    <3>3. CASE x # t
      BY <1>1, <1>3, <2>1, <3>1, <3>3 DEF InOrder, Ordered, Same
    <3> QED
      BY <3>2, <3>3
  <2> QED
    BY <2>1 DEF Ordered
<1>7. Told'
  <2>1. Publishing' = Publishing /\ t \notin Publishing
    BY <1>3, <1>4 DEF Publishing, Same, At
  <2> QED
    BY <1>2, <1>3, <2>1, ToldSame DEF InOrder, Publishing, Same
<1>9. Fresh'
  <2> SUFFICES ASSUME Quiet' PROVE Fresh'
    BY DEF Fresh
  <2>1. Source = players
    BY AskFrame DEF Source, Connection
  <2>2. Youngest(t)'
    <3>1. ASSUME NEW x \in Asked' \ {t}
          PROVE  x \in task'[t].older /\ Pos(x)' >= Pos(t)' /\ ~At(t, "seen_put")'
      BY <1>1, <1>4, <3>1 DEF Pos
    <3> QED
      BY <1>1, <3>1 DEF Youngest
  <2> QED
    BY <1>1, <1>2, <1>4, <2>1, <2>2 DEF Fresh
<1> QED
  BY <1>5, <1>7, <1>9 DEF InOrder

\* A refresh that has not asked yet has no part in the order.
LEMMA StartsInOrder ==
    ASSUME NEW t \in Tasks, TypeInv, InOrder, Starts(t)
    PROVE  InOrder'
<1>1. /\ Asked' = Asked /\ t \notin Asked /\ ~Quiet' /\ Asked \subseteq Tasks
      /\ stored' = stored /\ seen' = seen /\ news' = news /\ shown' = shown
  BY StartsFrame DEF storeVars, Asked, InFlight
<1>2. \A u \in Tasks \ {t} : Same(u) /\ Pos(u)' = Pos(u) /\ (Stored(u)' <=> Stored(u))
  BY StartsFrame, SamePos DEF Same
<1>3. /\ ~Stored(t)' /\ ~Stored(t) /\ ~At(t, "seen_put")' /\ ~At(t, "publish")'
      /\ ~At(t, "publish")
  <2>0. task[t] = Idle /\ task'[t].pc = "ask"
    BY StartsFrame
  <2>1. task[t].pc = "idle" /\ task'[t].pc = "ask"
    BY <2>0 DEF Idle
  <2> QED
    BY <2>1 DEF Stored, At
<1>4. Ordered'
  BY <1>1, <1>2 DEF InOrder, Ordered, Same
<1>6. Told'
  <2>1. Publishing' = Publishing /\ t \notin Publishing
    BY <1>2, <1>3 DEF Publishing, Same, At
  <2> QED
    BY <1>1, <1>2, <2>1, ToldSame DEF InOrder, Publishing, Same
<1> QED
  BY <1>1, <1>4, <1>6 DEF InOrder, Fresh

\* Nor has what happens to the server and the connection.
LEMMA ElsewhereInOrder ==
    ASSUME TypeInv, Connection, InOrder, Elsewhere
    PROVE  InOrder'
<1>1. /\ task' = task /\ (Quiet' => Quiet /\ players' = players)
      /\ stored' = stored /\ seen' = seen /\ news' = news /\ shown' = shown
  BY ElsewhereFrame DEF storeVars
<1>2. Asked' = Asked /\ Publishing' = Publishing
  BY <1>1 DEF Asked, InFlight, Publishing, At
<1>3. Ordered'
  BY <1>1, <1>2 DEF InOrder, Ordered, Pos, At
<1>4. Told'
  BY <1>1, <1>2 DEF InOrder, Told, ListOf
<1>5. Fresh'
  BY <1>1, <1>2 DEF InOrder, Fresh, Youngest, Stored, Pos, At, ListOf
<1> QED
  BY <1>3, <1>4, <1>5 DEF InOrder

LEMMA NextInv == IInv /\ [Next]_vars => IInv'
<1> SUFFICES ASSUME IInv, [Next]_vars PROVE IInv'
  OBVIOUS
<1>1. TypeInv /\ Connection /\ Linked /\ Solo /\ Record /\ (~behind => InOrder)
  BY DEF IInv
<1>2. TypeInv' /\ Connection' /\ Linked' /\ Solo' /\ Record'
  BY <1>1, NextType, ConnectionNext, LinkedNext, SoloNext, RecordNext
<1>3. ASSUME ~behind'
      PROVE  InOrder'
  <2>1. ASSUME NEW t \in Tasks, Ask(t)
        PROVE  InOrder'
    BY <1>1, <1>3, <2>1, AskInOrder DEF Ask
  <2>2. ASSUME NEW t \in Tasks, Advances(t)
        PROVE  InOrder'
    BY <1>1, <1>3, <2>2, AdvancesInOrder
  <2>3. ASSUME NEW t \in Tasks, Starts(t)
        PROVE  InOrder'
    BY <1>1, <1>3, <2>3, StartsInOrder, StartsFrame
  <2>4. CASE Elsewhere
    BY <1>1, <1>3, <2>4, ElsewhereInOrder, ElsewhereFrame
  <2>5. CASE Disturbs
    BY <1>1, <1>3, <2>5, DisturbsEffect DEF Disrupts, TypeInv
  <2>6. CASE UNCHANGED vars
    BY <1>1, <1>3, <2>6 DEF vars, InOrder, Ordered, Told, Fresh,
       Publishing, Youngest, Quiet, Stored, Pos, At, Asked, InFlight, ListOf
  <2> QED
    BY <2>1, <2>2, <2>3, <2>4, <2>5, <2>6, StepKinds
<1> QED
  BY <1>2, <1>3 DEF IInv

\* However many refreshes interleave: at rest the list in the store is that of
\* the source, unless a refresh was overtaken or failed and none has run alone
\* since.
THEOREM ListCurrentAlways == Spec => []ListCurrent
<1>1. IInv => ListCurrent
  <2> SUFFICES ASSUME IInv, Rest, ~behind
               PROVE  ListOf(stored) = players
    BY DEF ListCurrent
  <2>1. TypeOK /\ Asked = {}
    BY DEF IInv, TypeInv, Rest, Asked
  <2>2. Quiet
    BY <2>1, AskedIs DEF Rest, Quiet, At
  <2> QED
    BY <2>1, <2>2 DEF IInv, InOrder, Fresh
<1> QED
  BY <1>1, InitInv, NextInv, PTL DEF Spec

\* Under the same condition what was published last is what is stored.
THEOREM NewsIsStoredAlways == Spec => []NewsIsStored
<1>1. IInv => NewsIsStored
  <2> SUFFICES ASSUME IInv, InFlight = {}, ~behind
               PROVE  ListOf(news) = ListOf(stored)
    BY DEF NewsIsStored
  <2>1. Publishing = {}
    BY PublishingAsked DEF IInv, TypeInv, Asked
  <2> QED
    BY <2>1 DEF IInv, InOrder, Told
<1> QED
  BY <1>1, InitInv, NextInv, PTL DEF Spec

\* However many refreshes interleave, fail or are killed: at rest everybody who
\* was ever in the list is in the record, but those whose own refresh failed
\* before the record or met another there.
THEOREM SeenCompleteAlways == Spec => []SeenComplete
<1>1. IInv => SeenComplete
  <2> SUFFICES ASSUME IInv, InFlight = {}
               PROVE  shown \subseteq seen \union lost
    BY DEF SeenComplete
  <2>1. \A t \in Tasks : ~Stored(t)
    BY AskedIs DEF IInv, TypeInv, Stored, AskedPcs
  <2> QED
    BY <2>1 DEF IInv, Record, Kept
<1> QED
  BY <1>1, InitInv, NextInv, PTL DEF Spec
=============================================================================
