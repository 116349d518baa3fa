------------------------- MODULE EventDeliveryProofs -------------------------
(***************************************************************************)
(* Theorems about EventDelivery, for any number of users, handlers, queued *)
(* events and lost commits.                                                *)
(*                                                                         *)
(* TypeOK is inductive.  The other properties are not: what a socket does  *)
(* with an event depends on every event before it.  UserInv says what the  *)
(* queues hold for one user: news in them fits the role in the database,   *)
(* and news that no notice for the user precedes fits the role the socket  *)
(* remembers.                                                              *)
(***************************************************************************)
EXTENDS EventDelivery, SequenceTheorems, TLAPS

(***************************************************************************)
(* Queues.                                                                 *)
(***************************************************************************)

\* Some event of the queue names u.
Names(queue, u) == \E i \in DOMAIN queue : u \in queue[i].users

\* A user whose role is k may be told of the event, and has to be only if the
\* role entitles to it.
Fits(event, u, k) ==
    /\ k >= 1 => u \in event.may
    /\ u \in event.must => k >= 1

AllFit(queue, u, k) == \A i \in DOMAIN queue : Fits(queue[i], u, k)

\* Every event of the queue that no notice for u precedes fits k.
Judged(queue, u, k) ==
    \A j \in DOMAIN queue :
        (\A i \in 1 .. j - 1 : u \notin queue[i].users) => Fits(queue[j], u, k)

LEMMA NamesAppend ==
    ASSUME NEW q \in Seq(Event), NEW e \in Event, NEW u
    PROVE  Names(Append(q, e), u) <=> Names(q, u) \/ u \in e.users
<1>1. /\ DOMAIN q = 1 .. Len(q) /\ Len(q) \in Nat
      /\ DOMAIN Append(q, e) = 1 .. Len(q) + 1
      /\ \A i \in 1 .. Len(q) : Append(q, e)[i] = q[i]
      /\ Append(q, e)[Len(q) + 1] = e
  BY AppendProperties, LenProperties
<1> QED BY <1>1 DEF Names

LEMMA NamesTail ==
    ASSUME NEW q \in Seq(Event), q # <<>>, NEW u
    PROVE  Names(q, u) <=> u \in Head(q).users \/ Names(Tail(q), u)
<1>1. /\ DOMAIN q = 1 .. Len(q) /\ Len(q) \in Nat \ {0} /\ Head(q) = q[1]
      /\ DOMAIN Tail(q) = 1 .. Len(q) - 1
      /\ \A i \in 1 .. Len(q) - 1 : Tail(q)[i] = q[i + 1]
  BY HeadTailProperties, LenProperties, EmptySeq
<1>2. ASSUME NEW i \in 2 .. Len(q) PROVE i - 1 \in DOMAIN Tail(q) /\ q[i] = Tail(q)[i - 1]
  BY <1>1
<1>3. ASSUME Names(q, u), u \notin Head(q).users PROVE Names(Tail(q), u)
  <2>1. PICK i \in 1 .. Len(q) : u \in q[i].users
    BY <1>1, <1>3 DEF Names
  <2>2. i \in 2 .. Len(q)
    BY <1>1, <1>3, <2>1
  <2> QED BY <1>2, <2>1, <2>2 DEF Names
<1>4. ASSUME Names(Tail(q), u) PROVE Names(q, u)
  BY <1>1, <1>4 DEF Names
<1>5. u \in Head(q).users => Names(q, u)
  BY <1>1 DEF Names
<1> QED BY <1>3, <1>4, <1>5

LEMMA JudgedAppend ==
    ASSUME NEW q \in Seq(Event), NEW e \in Event, NEW u, NEW k,
           Judged(q, u, k), Names(q, u) \/ Fits(e, u, k)
    PROVE  Judged(Append(q, e), u, k)
<1>1. /\ DOMAIN q = 1 .. Len(q) /\ Len(q) \in Nat
      /\ DOMAIN Append(q, e) = 1 .. Len(q) + 1
      /\ \A i \in 1 .. Len(q) : Append(q, e)[i] = q[i]
      /\ Append(q, e)[Len(q) + 1] = e
  BY AppendProperties, LenProperties
<1> SUFFICES ASSUME NEW j \in 1 .. Len(q) + 1,
                    \A i \in 1 .. j - 1 : u \notin Append(q, e)[i].users
             PROVE  Fits(Append(q, e)[j], u, k)
  BY <1>1 DEF Judged
<1>2. CASE j = Len(q) + 1
  BY <1>1, <1>2 DEF Names
<1>3. CASE j # Len(q) + 1
  BY <1>1, <1>3 DEF Judged
<1> QED BY <1>2, <1>3

LEMMA JudgedTail ==
    ASSUME NEW q \in Seq(Event), q # <<>>, NEW u, NEW k, Judged(q, u, k)
    PROVE  /\ Fits(Head(q), u, k)
           /\ u \notin Head(q).users => Judged(Tail(q), u, k)
<1>1. /\ DOMAIN q = 1 .. Len(q) /\ Len(q) \in Nat \ {0} /\ Head(q) = q[1]
      /\ DOMAIN Tail(q) = 1 .. Len(q) - 1
      /\ \A i \in 1 .. Len(q) - 1 : Tail(q)[i] = q[i + 1]
  BY HeadTailProperties, LenProperties, EmptySeq
<1>2. Fits(Head(q), u, k)
  BY <1>1 DEF Judged
<1>3. ASSUME u \notin Head(q).users, NEW j \in 1 .. Len(q) - 1,
             \A i \in 1 .. j - 1 : u \notin Tail(q)[i].users
      PROVE  Fits(Tail(q)[j], u, k)
  <2>1. ASSUME NEW i \in 1 .. j PROVE u \notin q[i].users
    <3>1. CASE i = 1
      BY <1>1, <1>3, <3>1
    <3>2. CASE i # 1
      <4>1. i - 1 \in 1 .. j - 1 /\ i - 1 \in 1 .. Len(q) - 1
        BY <1>1, <3>2
      <4>2. Tail(q)[i - 1] = q[i]
        BY <1>1, <4>1
      <4> QED BY <1>3, <4>1, <4>2
    <3> QED BY <3>1, <3>2
  <2>2. j + 1 \in DOMAIN q /\ Tail(q)[j] = q[j + 1] /\ (j + 1) - 1 = j
    BY <1>1
  <2> QED BY <2>1, <2>2 DEF Judged
<1> QED BY <1>1, <1>2, <1>3 DEF Judged

LEMMA FitJudged ==
    ASSUME NEW q, NEW u, NEW k, AllFit(q, u, k)
    PROVE  Judged(q, u, k)
BY DEF AllFit, Judged

LEMMA FitAppend ==
    ASSUME NEW q \in Seq(Event), NEW e \in Event, NEW u, NEW k,
           AllFit(q, u, k), Fits(e, u, k)
    PROVE  AllFit(Append(q, e), u, k)
<1>1. /\ DOMAIN q = 1 .. Len(q) /\ Len(q) \in Nat
      /\ DOMAIN Append(q, e) = 1 .. Len(q) + 1
      /\ \A i \in 1 .. Len(q) : Append(q, e)[i] = q[i]
      /\ Append(q, e)[Len(q) + 1] = e
  BY AppendProperties, LenProperties
<1> QED BY <1>1 DEF AllFit

LEMMA FitTail ==
    ASSUME NEW q \in Seq(Event), q # <<>>, NEW u, NEW k, AllFit(q, u, k)
    PROVE  AllFit(Tail(q), u, k) /\ Fits(Head(q), u, k)
<1>1. /\ DOMAIN q = 1 .. Len(q) /\ Len(q) \in Nat \ {0} /\ Head(q) = q[1]
      /\ DOMAIN Tail(q) = 1 .. Len(q) - 1
      /\ \A i \in 1 .. Len(q) - 1 : Tail(q)[i] = q[i + 1]
  BY HeadTailProperties, LenProperties, EmptySeq
<1> QED BY <1>1 DEF AllFit

\* A change of roles leaves the queues as long as they were.
LEMMA AdjustedType ==
    ASSUME NEW q \in Seq(Event), NEW new
    PROVE  /\ Adjusted(q, new) \in Seq(Event)
           /\ Len(Adjusted(q, new)) = Len(q)
           /\ Adjusted(q, new) # <<>> => q # <<>>
           /\ DOMAIN Adjusted(q, new) = DOMAIN q
           /\ \A i \in DOMAIN q :
                /\ Adjusted(q, new)[i].users = q[i].users
                /\ Adjusted(q, new)[i].may =
                     q[i].may \union {u \in Users : new[u] >= 1}
                /\ Adjusted(q, new)[i].must = {u \in q[i].must : new[u] >= 1}
<1> DEFINE a == Adjusted(q, new)
<1>1. DOMAIN q = 1 .. Len(q) /\ Len(q) \in Nat /\ \A i \in DOMAIN q : q[i] \in Event
  BY LenProperties, ElementOfSeq
<1>2. /\ DOMAIN a = DOMAIN q
      /\ \A i \in DOMAIN q :
           a[i] = [q[i] EXCEPT !.may = q[i].may \union {u \in Users : new[u] >= 1},
                               !.must = {u \in q[i].must : new[u] >= 1}]
  BY DEF Adjusted
<1>3. \A i \in DOMAIN q :
        /\ a[i] \in Event /\ a[i].users = q[i].users
        /\ a[i].may = q[i].may \union {u \in Users : new[u] >= 1}
        /\ a[i].must = {u \in q[i].must : new[u] >= 1}
  <2> HIDE DEF a
  <2> SUFFICES ASSUME NEW i \in DOMAIN q
               PROVE  /\ a[i] \in Event /\ a[i].users = q[i].users
                      /\ a[i].may = q[i].may \union {u \in Users : new[u] >= 1}
                      /\ a[i].must = {u \in q[i].must : new[u] >= 1}
    OBVIOUS
  <2> DEFINE allowed == q[i].may \union {u \in Users : new[u] >= 1}
             required == {u \in q[i].must : new[u] >= 1}
  <2>1. q[i] \in Event
    BY <1>1
  <2>2. allowed \in SUBSET Users /\ required \in SUBSET Users
    BY <2>1 DEF Event
  <2>3. a[i] = [q[i] EXCEPT !.may = allowed, !.must = required]
    BY <1>2
  <2> HIDE DEF allowed, required
  <2>4. /\ a[i] \in Event /\ a[i].users = q[i].users
        /\ a[i].may = allowed /\ a[i].must = required
    BY <2>1, <2>2, <2>3 DEF Event
  <2> QED BY <2>4 DEF allowed, required
<1>4. a = [i \in 1 .. Len(q) |-> a[i]]
  BY <1>1 DEF Adjusted
<1> HIDE DEF a
<1>5. a \in [1 .. Len(q) -> Event]
  BY <1>1, <1>3, <1>4
<1>6. a \in Seq(Event)
  BY <1>1, <1>5, SeqDef
<1>7. Len(a) = Len(q)
  BY <1>1, <1>5, <1>6
<1>8. a # <<>> => q # <<>>
  BY <1>6, <1>7, EmptySeq
<1> QED BY <1>2, <1>3, <1>6, <1>7, <1>8 DEF a

LEMMA AdjustedFits ==
    ASSUME NEW q \in Seq(Event), NEW new, NEW u \in Users
    PROVE  /\ Names(Adjusted(q, new), u) <=> Names(q, u)
           /\ AllFit(Adjusted(q, new), u, new[u])
<1> QED BY AdjustedType DEF Names, AllFit, Fits

\* New roles only ever allow more and require less.
LEMMA AdjustedJudged ==
    ASSUME NEW q \in Seq(Event), NEW new, NEW u \in Users, NEW k,
           Judged(q, u, k)
    PROVE  Judged(Adjusted(q, new), u, k)
<1>1. DOMAIN q = 1 .. Len(q) /\ Len(q) \in Nat
  BY LenProperties
<1> DEFINE a == Adjusted(q, new)
<1>2. DOMAIN a = DOMAIN q
  BY AdjustedType
<1>3. \A i \in DOMAIN q :
        /\ a[i].users = q[i].users
        /\ q[i].may \subseteq a[i].may
        /\ a[i].must \subseteq q[i].must
  BY AdjustedType
<1> HIDE DEF a
<1> SUFFICES ASSUME NEW j \in 1 .. Len(q), \A i \in 1 .. j - 1 : u \notin a[i].users
             PROVE  Fits(a[j], u, k)
  BY <1>1, <1>2 DEF Judged, a
<1>4. \A i \in 1 .. j - 1 : u \notin q[i].users
  BY <1>1, <1>3
<1> QED BY <1>1, <1>3, <1>4 DEF Judged, Fits

(***************************************************************************)
(* Types.                                                                  *)
(***************************************************************************)

\* What TypeOK says of one handler.
LEMMA HandlerKind ==
    ASSUME TypeOK, NEW h \in Handlers
    PROVE  /\ handler[h] \in Handler \union {Free}
           /\ handler[h].pc \in {"commit", "publish"} =>
                /\ handler[h].user \in Users
                /\ handler[h].rank \in Ranks /\ handler[h].copy \in Ranks
                /\ [handler[h] EXCEPT !.pc = "publish"] \in Handler
           /\ handler[h].pc \in {"delete", "publishDeleted"} =>
                /\ handler[h].users \subseteq Users
                /\ [handler[h] EXCEPT !.pc = "publishDeleted"] \in Handler
<1>1. handler[h] \in Handler \union {Free}
  BY DEF TypeOK
<1>2. CASE handler[h] = Free
  BY <1>1, <1>2 DEF Free
<1>3. CASE handler[h] \in [pc : {"commit", "publish"}, user : Users,
                           rank : Ranks, copy : Ranks]
  BY <1>1, <1>3 DEF Handler
<1>4. CASE handler[h] \in [pc : {"delete", "publishDeleted"},
                           users : SUBSET Users]
  BY <1>1, <1>4 DEF Handler
<1> QED BY <1>1, <1>2, <1>3, <1>4 DEF Handler

LEMMA BecomesType ==
    ASSUME TypeOK, NEW h \in Handlers, NEW record \in Handler \union {Free},
           Becomes(h, record)
    PROVE  /\ handler' \in [Handlers -> Handler \union {Free}]
           /\ handler'[h] = record
           /\ \A g \in Handlers \ {h} : handler'[g] = handler[g]
BY DEF TypeOK, Becomes

LEMMA PublishType ==
    ASSUME TypeOK, NEW e \in Event, Publish(e)
    PROVE  wire' \in Seq(Event) /\ Len(wire') <= MaxQueue
<1>1. /\ Append(wire, e) \in Seq(Event)
      /\ Len(Append(wire, e)) = Len(wire) + 1
      /\ Len(wire) \in Nat
  BY AppendProperties, LenProperties DEF TypeOK
<1> QED BY <1>1, BoundsAssumption DEF Publish

LEMMA ChangeType ==
    ASSUME TypeOK, NEW new \in [Users -> Ranks], ChangeRoles(new)
    PROVE  /\ role' \in [Users -> Ranks]
           /\ wire' \in Seq(Event) /\ Len(wire') <= MaxQueue
           /\ inbox' \in [Users -> Seq(Event)]
           /\ \A u \in Users : /\ Len(inbox'[u]) <= MaxQueue
                               /\ inbox'[u] # <<>> => inbox[u] # <<>>
<1>1. wire \in Seq(Event) /\ \A u \in Users : inbox[u] \in Seq(Event)
  BY DEF TypeOK
<1>2. wire' \in Seq(Event) /\ Len(wire') = Len(wire)
  BY <1>1, AdjustedType DEF ChangeRoles
<1>3. ASSUME NEW u \in Users
      PROVE  /\ Adjusted(inbox[u], new) \in Seq(Event)
             /\ Len(Adjusted(inbox[u], new)) = Len(inbox[u])
             /\ Adjusted(inbox[u], new) # <<>> => inbox[u] # <<>>
  BY <1>1, AdjustedType
<1>4. inbox' = [u \in Users |-> Adjusted(inbox[u], new)]
  BY DEF ChangeRoles
<1>5. /\ inbox' \in [Users -> Seq(Event)]
      /\ \A u \in Users : inbox'[u] = Adjusted(inbox[u], new)
  BY <1>3, <1>4
<1> QED
  BY <1>2, <1>3, <1>5 DEF ChangeRoles, TypeOK

LEMMA WrittenType ==
    ASSUME TypeOK, NEW h \in Handlers, handler[h].pc = "commit"
    PROVE  Written(handler[h]) \in [Users -> Ranks]
BY HandlerKind DEF Written, TypeOK

LEMMA HandlerStepType ==
    ASSUME TypeOK, NEW h \in Handlers,
           \/ \E u \in Users, rank \in Ranks : LoadRole(h, u, rank)
           \/ CommitRole(h) \/ CommitLost(h) \/ PublishNotice(h)
           \/ LoadDelete(h) \/ CommitDelete(h) \/ PublishDeleted(h)
    PROVE  TypeOK'
<1>1. ASSUME NEW u \in Users, NEW rank \in Ranks, LoadRole(h, u, rank)
      PROVE  TypeOK'
  <2>1. [pc |-> "commit", user |-> u, rank |-> rank, copy |-> role[u]] \in Handler
    BY DEF Handler, TypeOK
  <2>2. handler' \in [Handlers -> Handler \union {Free}]
    BY <1>1, <2>1, BecomesType DEF LoadRole
  <2> QED BY <1>1, <2>2 DEF LoadRole, TypeOK
<1>2. CASE CommitRole(h)
  <2>1. CASE Raises(handler[h])
    <3>1. handler' \in [Handlers -> Handler \union {Free}]
      BY <1>2, <2>1, BecomesType DEF CommitRole
    <3> QED BY <1>2, <2>1, <3>1 DEF CommitRole, TypeOK
  <2>2. CASE ~Raises(handler[h])
    <3>1. handler' \in [Handlers -> Handler \union {Free}]
      BY <1>2, <2>2, BecomesType, HandlerKind DEF CommitRole
    <3>2. Written(handler[h]) \in [Users -> Ranks] /\ ChangeRoles(Written(handler[h]))
      BY <1>2, <2>2, WrittenType DEF CommitRole
    <3>3. /\ role' \in [Users -> Ranks]
          /\ wire' \in Seq(Event) /\ Len(wire') <= MaxQueue
          /\ inbox' \in [Users -> Seq(Event)]
          /\ \A u \in Users : /\ Len(inbox'[u]) <= MaxQueue
                              /\ inbox'[u] # <<>> => inbox[u] # <<>>
      BY <3>2, ChangeType
    <3> QED BY <1>2, <3>1, <3>3 DEF CommitRole, TypeOK
  <2> QED BY <2>1, <2>2
<1>3. CASE CommitLost(h)
  <2>1. handler' \in [Handlers -> Handler \union {Free}]
    BY <1>3, BecomesType DEF CommitLost
  <2>2. /\ Written(handler[h]) \in [Users -> Ranks]
        /\ ChangeRoles(Written(handler[h])) /\ handler[h].user \in Users
    BY <1>3, WrittenType, HandlerKind DEF CommitLost
  <2>3. /\ role' \in [Users -> Ranks]
        /\ wire' \in Seq(Event) /\ Len(wire') <= MaxQueue
        /\ inbox' \in [Users -> Seq(Event)]
        /\ \A u \in Users : /\ Len(inbox'[u]) <= MaxQueue
                            /\ inbox'[u] # <<>> => inbox[u] # <<>>
    BY <2>2, ChangeType
  <2>4. faults' \in 0 .. MaxFaults
    BY <1>3, BoundsAssumption DEF CommitLost, TypeOK
  <2> QED BY <1>3, <2>1, <2>2, <2>3, <2>4 DEF CommitLost, TypeOK
<1>4. CASE PublishNotice(h)
  <2>1. [users |-> {handler[h].user}, may |-> Users, must |-> {}] \in Event
    BY <1>4, HandlerKind DEF PublishNotice, Event
  <2>2. /\ handler' \in [Handlers -> Handler \union {Free}]
        /\ wire' \in Seq(Event) /\ Len(wire') <= MaxQueue
    BY <1>4, <2>1, BecomesType, PublishType DEF PublishNotice
  <2> QED BY <1>4, <2>2 DEF PublishNotice, TypeOK
<1>5. CASE LoadDelete(h)
  <2>1. [pc |-> "delete", users |-> {u \in Users : Entitled(u)}] \in Handler
    BY DEF Handler
  <2>2. handler' \in [Handlers -> Handler \union {Free}]
    BY <1>5, <2>1, BecomesType DEF LoadDelete
  <2> QED BY <1>5, <2>2 DEF LoadDelete, TypeOK
<1>6. CASE CommitDelete(h)
  <2>1. handler' \in [Handlers -> Handler \union {Free}]
    BY <1>6, BecomesType, HandlerKind DEF CommitDelete
  <2>2. CASE alive
    <3>1. [u \in Users |-> 0] \in [Users -> Ranks]
      BY RanksAssumption
    <3>2. /\ role' \in [Users -> Ranks]
          /\ wire' \in Seq(Event) /\ Len(wire') <= MaxQueue
          /\ inbox' \in [Users -> Seq(Event)]
          /\ \A u \in Users : /\ Len(inbox'[u]) <= MaxQueue
                              /\ inbox'[u] # <<>> => inbox[u] # <<>>
      BY <1>6, <2>2, <3>1, ChangeType DEF CommitDelete
    <3> QED BY <1>6, <2>1, <2>2, <3>2 DEF CommitDelete, TypeOK
  <2>3. CASE ~alive
    BY <1>6, <2>1, <2>3 DEF CommitDelete, TypeOK
  <2> QED BY <2>2, <2>3
<1>7. CASE PublishDeleted(h)
  <2>1. [users |-> handler[h].users, may |-> Users, must |-> {}] \in Event
    BY <1>7, HandlerKind DEF PublishDeleted, Event
  <2>2. /\ handler' \in [Handlers -> Handler \union {Free}]
        /\ wire' \in Seq(Event) /\ Len(wire') <= MaxQueue
    BY <1>7, <2>1, BecomesType, PublishType DEF PublishDeleted
  <2> QED BY <1>7, <2>2 DEF PublishDeleted, TypeOK
<1> QED BY <1>1, <1>2, <1>3, <1>4, <1>5, <1>6, <1>7

LEMMA NewsType ==
    ASSUME TypeOK, PublishNews
    PROVE  TypeOK'
<1> DEFINE e == [users |-> {},
                 may |-> {u \in Users : Entitled(u) \/ Unannounced(u)},
                 must |-> {u \in Users : Entitled(u) /\ ~Unannounced(u)}]
<1>1. e \in Event
  BY DEF Event
<1>2. Publish(e)
  BY DEF PublishNews
<1> HIDE DEF e
<1>3. wire' \in Seq(Event) /\ Len(wire') <= MaxQueue
  BY <1>1, <1>2, PublishType
<1> QED BY <1>3 DEF PublishNews, TypeOK

LEMMA DispatchType ==
    ASSUME TypeOK, Dispatch
    PROVE  TypeOK'
<1> DEFINE e == Head(wire)
<1>1. /\ e \in Event /\ wire' \in Seq(Event)
      /\ Len(wire') = Len(wire) - 1 /\ Len(wire) \in Nat
  BY HeadTailProperties, LenProperties DEF Dispatch, TypeOK
<1>2. e.users \subseteq Users
  BY <1>1 DEF Event
<1> HIDE DEF e
<1>3. inbox' = [u \in Users |-> IF Open(u) THEN Append(inbox[u], e) ELSE inbox[u]]
  BY DEF Dispatch, e
<1>4. ASSUME NEW u \in Users
      PROVE  /\ inbox'[u] \in Seq(Event) /\ Len(inbox'[u]) <= MaxQueue
             /\ inbox'[u] # <<>> => socket[u].pc = "open"
  <2>1. inbox[u] \in Seq(Event) /\ Len(inbox[u]) \in Nat
    BY LenProperties DEF TypeOK
  <2>2. CASE Open(u)
    <3>1. /\ Append(inbox[u], e) \in Seq(Event)
          /\ Len(Append(inbox[u], e)) = Len(inbox[u]) + 1
      BY <1>1, <2>1, AppendProperties
    <3> QED
      BY <1>3, <2>1, <2>2, <3>1, BoundsAssumption DEF Dispatch, Open
  <2>3. CASE ~Open(u)
    BY <1>3, <2>1, <2>3 DEF TypeOK
  <2> QED BY <2>2, <2>3
<1>5. inbox' \in [Users -> Seq(Event)]
  <2>1. inbox' = [u \in Users |-> inbox'[u]]
    BY <1>3
  <2> HIDE DEF e
  <2> QED BY <1>4, <2>1
<1>6. unheard' \subseteq Users
  BY <1>2 DEF Dispatch, TypeOK, e
<1> QED BY <1>1, <1>4, <1>5, <1>6, BoundsAssumption DEF Dispatch, TypeOK

LEMMA SocketType ==
    ASSUME TypeOK, NEW u \in Users,
           Connect(u) \/ SendFirst(u) \/ Subscribe(u) \/ Handle(u) \/ Disconnect(u)
    PROVE  TypeOK'
<1>1. CASE Connect(u)
  BY <1>1 DEF Connect, TypeOK, Socket, Closed
<1>2. CASE SendFirst(u)
  BY <1>2 DEF SendFirst, TypeOK, Socket
<1>3. CASE Subscribe(u)
  BY <1>3 DEF Subscribe, TypeOK, Socket
<1>4. CASE Handle(u)
  <2>1. /\ Tail(inbox[u]) \in Seq(Event) /\ Len(inbox[u]) \in Nat
        /\ Len(Tail(inbox[u])) = Len(inbox[u]) - 1
    BY <1>4, HeadTailProperties, LenProperties DEF Handle, TypeOK
  <2>2. inbox' = [inbox EXCEPT ![u] = Tail(inbox[u])]
    BY <1>4 DEF Handle
  <2>3. /\ inbox' \in [Users -> Seq(Event)]
        /\ inbox'[u] = Tail(inbox[u]) /\ inbox[u] # <<>>
        /\ \A v \in Users \ {u} : inbox'[v] = inbox[v]
    BY <1>4, <2>1, <2>2 DEF Handle, TypeOK
  <2>4. After(u, Head(inbox[u])) \in Ranks
    BY DEF After, TypeOK, Socket
  <2>5. /\ socket' = [socket EXCEPT ![u].known = After(u, Head(inbox[u]))]
        /\ out' \in [Users -> {"nothing", "first", "event"}]
        /\ unheard' \subseteq Users
        /\ UNCHANGED <<alive, role, handler, wire, faults>>
    BY <1>4 DEF Handle, TypeOK
  <2>6. socket' \in [Users -> Socket] /\ \A v \in Users : socket'[v].pc = socket[v].pc
    BY <2>4, <2>5 DEF TypeOK, Socket
  <2>7. ASSUME NEW v \in Users
        PROVE  /\ Len(inbox'[v]) <= MaxQueue
               /\ inbox'[v] # <<>> => inbox[v] # <<>>
    <3>1. Len(inbox[v]) <= MaxQueue
      BY DEF TypeOK
    <3>2. CASE v = u
      BY <2>1, <2>3, <3>1, <3>2, BoundsAssumption
    <3>3. CASE v # u
      BY <2>3, <3>1, <3>3
    <3> QED BY <3>2, <3>3
  <2> QED BY <2>3, <2>5, <2>6, <2>7 DEF TypeOK
<1>5. CASE Disconnect(u)
  <2>1. inbox' \in [Users -> Seq(Event)] /\ inbox'[u] = <<>> /\ Len(<<>>) = 0
        /\ \A v \in Users \ {u} : inbox'[v] = inbox[v]
    BY <1>5, EmptySeq DEF Disconnect, TypeOK
  <2>2. /\ socket' \in [Users -> Socket]
        /\ \A v \in Users \ {u} : socket'[v] = socket[v]
    BY <1>5, RanksAssumption DEF Disconnect, TypeOK, Socket, Closed
  <2>3. ASSUME NEW v \in Users
        PROVE  /\ Len(inbox'[v]) <= MaxQueue
               /\ inbox'[v] # <<>> => socket'[v].pc = "open"
    <3>1. CASE v = u
      <4>1. inbox'[v] = <<>>
        BY <2>1, <3>1
      <4> QED BY <2>1, <4>1, BoundsAssumption
    <3>2. CASE v # u
      BY <2>1, <2>2, <3>2 DEF TypeOK
    <3> QED BY <3>1, <3>2
  <2> QED BY <1>5, <2>1, <2>2, <2>3 DEF Disconnect, TypeOK
<1> QED BY <1>1, <1>2, <1>3, <1>4, <1>5

LEMMA NextType ==
    ASSUME TypeOK, [Next]_vars
    PROVE  TypeOK'
<1>1. CASE UNCHANGED vars
  BY <1>1 DEF vars, TypeOK
<1> QED
  BY <1>1, HandlerStepType, NewsType, DispatchType, SocketType DEF Next

LEMMA InitType == Init => TypeOK
<1> SUFFICES ASSUME Init PROVE TypeOK
  OBVIOUS
<1>1. <<>> \in Seq(Event) /\ Len(<<>>) = 0
  BY EmptySeq
<1>2. Closed \in Socket
  BY RanksAssumption DEF Closed, Socket
<1> QED BY <1>1, <1>2, BoundsAssumption DEF Init, TypeOK

\* The queues, the sockets and what the handlers hold stay well-formed, and a
\* socket without a subscription has no backlog.
THEOREM TypeCorrect == Spec => []TypeOK
BY InitType, NextType, PTL DEF Spec

(***************************************************************************)
(* What the queues hold for one user.                                      *)
(***************************************************************************)

\* RoleKnown, for every socket that is not closed.
Remembers(u) == OnItsWay(u) \/ socket[u].known = role[u]

\* What u's socket will see first: its backlog, then the wire.
Sees(u) ==
    /\ Judged(inbox[u], u, socket[u].known)
    /\ Names(inbox[u], u) \/ Judged(wire, u, socket[u].known)

UserInv(u) ==
    /\ AllFit(wire, u, role[u]) /\ AllFit(inbox[u], u, role[u])
    /\ socket[u].pc # "closed" /\ u \notin unheard => Remembers(u) /\ Sees(u)

LEMMA OnItsWayIs ==
    ASSUME NEW u
    PROVE  OnItsWay(u) <=> Unannounced(u) \/ Names(wire, u) \/ Names(inbox[u], u)
BY DEF OnItsWay, Names

\* Nothing that UserInv speaks of changes, except that a notice is announced.
LEMMA UserKeeps ==
    ASSUME NEW u \in Users, UserInv(u), UNCHANGED <<role, wire, inbox>>,
           Unannounced(u) => Unannounced(u)',
           socket'[u].pc # "closed" => socket[u].pc # "closed",
           socket'[u].known = socket[u].known \/ socket'[u].pc = "closed",
           u \in unheard => u \in unheard'
    PROVE  UserInv(u)'
BY DEF UserInv, Remembers, Sees, OnItsWay

\* A change of roles: either u's stays, or it is announced or goes unheard.
LEMMA UserChanges ==
    ASSUME TypeOK, NEW u \in Users, UserInv(u), UNCHANGED socket,
           NEW new \in [Users -> Ranks], ChangeRoles(new),
           Unannounced(u) => Unannounced(u)',
           u \in unheard => u \in unheard',
           new[u] = role[u] \/ Unannounced(u)' \/ u \in unheard'
    PROVE  UserInv(u)'
<1>1. wire \in Seq(Event) /\ inbox[u] \in Seq(Event)
  BY DEF TypeOK
<1>2. /\ wire' = Adjusted(wire, new) /\ inbox'[u] = Adjusted(inbox[u], new)
      /\ role'[u] = new[u]
  BY DEF ChangeRoles
<1>3. AllFit(wire', u, role'[u]) /\ AllFit(inbox'[u], u, role'[u])
  BY <1>1, <1>2, AdjustedFits
<1>4. /\ Names(wire', u) <=> Names(wire, u)
      /\ Names(inbox'[u], u) <=> Names(inbox[u], u)
  BY <1>1, <1>2, AdjustedFits
<1>5. ASSUME socket[u].pc # "closed", u \notin unheard'
      PROVE  Remembers(u)' /\ Sees(u)'
  <2>1. Remembers(u) /\ Sees(u)
    BY <1>5 DEF UserInv
  <2>2. Remembers(u)'
    <3>1. OnItsWay(u)' <=> Unannounced(u)' \/ Names(wire', u) \/ Names(inbox'[u], u)
      BY DEF OnItsWay, Names
    <3> QED
      BY <1>2, <1>4, <1>5, <2>1, <3>1, OnItsWayIs DEF Remembers
  <2>3. Sees(u)'
    <3>1. Judged(inbox'[u], u, socket[u].known)
      BY <1>1, <1>2, <2>1, AdjustedJudged DEF Sees
    <3>2. Names(inbox'[u], u) \/ Judged(wire', u, socket[u].known)
      BY <1>1, <1>2, <1>4, <2>1, AdjustedJudged DEF Sees
    <3> QED BY <3>1, <3>2 DEF Sees
  <2> QED BY <2>2, <2>3
<1> QED BY <1>3, <1>5 DEF UserInv

\* An event goes out: a notice fits every role; news that is published while
\* nothing about u is unannounced fits the role in the database.
LEMMA UserPublishes ==
    ASSUME TypeOK, NEW u \in Users, UserInv(u), UNCHANGED <<role, inbox, socket, unheard>>,
           NEW e \in Event, wire' = Append(wire, e),
           Unannounced(u) => Unannounced(u)' \/ u \in e.users,
           Fits(e, u, role[u]),
           ~Unannounced(u) \/ \A k \in Ranks : Fits(e, u, k)
    PROVE  UserInv(u)'
<1>1. wire \in Seq(Event) /\ socket[u].known \in Ranks
  BY DEF TypeOK, Socket
<1>2. AllFit(wire', u, role[u])
  BY <1>1, FitAppend DEF UserInv
<1>3. Names(wire', u) <=> Names(wire, u) \/ u \in e.users
  BY <1>1, NamesAppend
<1>4. ASSUME socket[u].pc # "closed", u \notin unheard
      PROVE  Remembers(u)' /\ Sees(u)'
  <2>1. Remembers(u) /\ Sees(u)
    BY <1>4 DEF UserInv
  <2>2. Remembers(u)'
    <3>1. OnItsWay(u)' <=> Unannounced(u)' \/ Names(wire', u) \/ Names(inbox'[u], u)
      BY DEF OnItsWay, Names
    <3> QED
      BY <1>3, <2>1, <3>1, OnItsWayIs DEF Remembers
  <2>3. ASSUME ~Names(inbox[u], u)
        PROVE  Judged(wire', u, socket[u].known)
    <3>1. Judged(wire, u, socket[u].known)
      BY <2>1, <2>3 DEF Sees
    <3>2. Names(wire, u) \/ Fits(e, u, socket[u].known)
      BY <1>1, <2>1, <2>3, OnItsWayIs DEF Remembers
    <3> QED BY <1>1, <3>1, <3>2, JudgedAppend
  <2> QED BY <2>1, <2>2, <2>3 DEF Sees
<1> QED BY <1>2, <1>4 DEF UserInv

LEMMA UserDispatch ==
    ASSUME TypeOK, NEW u \in Users, UserInv(u), Dispatch
    PROVE  UserInv(u)'
<1> DEFINE e == Head(wire)
<1>1. /\ wire \in Seq(Event) /\ wire # <<>> /\ wire' = Tail(wire)
      /\ inbox[u] \in Seq(Event) /\ e \in Event
  BY HeadTailProperties DEF TypeOK, Dispatch
<1>2. /\ UNCHANGED <<role, handler, socket>>
      /\ u \in unheard => u \in unheard'
      /\ inbox'[u] = IF Open(u) THEN Append(inbox[u], e) ELSE inbox[u]
      /\ u \in e.users /\ socket[u].pc \in {"first", "subscribe"} => u \in unheard'
  BY DEF Dispatch
<1> HIDE DEF e
<1>3. Fits(e, u, role[u]) /\ AllFit(wire', u, role[u])
  BY <1>1, FitTail DEF UserInv, e
<1>4. AllFit(inbox'[u], u, role[u])
  BY <1>1, <1>2, <1>3, FitAppend DEF UserInv
<1>5. /\ Names(wire, u) <=> u \in e.users \/ Names(wire', u)
      /\ Open(u) => (Names(inbox'[u], u) <=> Names(inbox[u], u) \/ u \in e.users)
  BY <1>1, <1>2, NamesTail, NamesAppend DEF e
<1>6. ASSUME socket[u].pc # "closed", u \notin unheard'
      PROVE  Remembers(u)' /\ Sees(u)'
  <2>1. Remembers(u) /\ Sees(u)
    BY <1>2, <1>6 DEF UserInv
  <2>2. Open(u) \/ u \notin e.users
    BY <1>2, <1>6 DEF TypeOK, Socket, Open
  <2>3. Remembers(u)'
    <3>1. OnItsWay(u)' <=> Unannounced(u) \/ Names(wire', u) \/ Names(inbox'[u], u)
      BY <1>2 DEF OnItsWay, Names, Unannounced
    <3> QED
      BY <1>2, <1>5, <2>1, <2>2, <3>1, OnItsWayIs DEF Remembers
  <2>4. ASSUME Judged(wire, u, socket[u].known)
        PROVE  /\ Fits(e, u, socket[u].known)
               /\ u \notin e.users => Judged(wire', u, socket[u].known)
    BY <1>1, <2>4, JudgedTail DEF e
  <2>5. Sees(u)'
    <3>1. CASE Open(u)
      <4>1. Judged(inbox'[u], u, socket[u].known)
        BY <1>1, <1>2, <2>1, <2>4, <3>1, JudgedAppend DEF Sees
      <4>2. Names(inbox'[u], u) \/ Judged(wire', u, socket[u].known)
        BY <1>5, <2>1, <2>4, <3>1 DEF Sees
      <4> QED BY <1>2, <4>1, <4>2 DEF Sees
    <3>2. CASE ~Open(u)
      <4>1. inbox'[u] = inbox[u]
        BY <1>2, <3>2
      <4> QED BY <1>2, <2>1, <2>2, <2>4, <3>2, <4>1 DEF Sees
    <3> QED BY <3>1, <3>2
  <2> QED BY <2>3, <2>5
<1> QED BY <1>2, <1>3, <1>4, <1>6 DEF UserInv

LEMMA UserSocket ==
    ASSUME TypeOK, NEW u \in Users, UserInv(u), NEW v \in Users,
           Connect(v) \/ SendFirst(v) \/ Subscribe(v) \/ Handle(v) \/ Disconnect(v)
    PROVE  UserInv(u)'
<1>1. UNCHANGED <<role, handler, wire>>
  BY DEF Connect, SendFirst, Subscribe, Handle, Disconnect
<1>2. CASE u # v
  <2>1. /\ socket'[u] = socket[u] /\ inbox'[u] = inbox[u]
        /\ u \in unheard => u \in unheard'
    BY <1>2
    DEF Connect, SendFirst, Subscribe, Handle, Disconnect, TypeOK
  <2> QED
    BY <1>1, <2>1 DEF UserInv, Remembers, Sees, OnItsWay, Unannounced
<1>3. CASE u = v /\ Connect(v)
  <2>1. socket'[u].known = role'[u] /\ inbox'[u] = inbox[u]
    BY <1>3 DEF Connect, TypeOK
  <2>2. AllFit(wire', u, role'[u]) /\ AllFit(inbox'[u], u, role'[u])
    BY <1>1, <2>1 DEF UserInv
  <2> QED
    BY <2>1, <2>2, FitJudged DEF UserInv, Remembers, Sees
<1>4. CASE u = v /\ (SendFirst(v) \/ Subscribe(v))
  <2>1. /\ socket'[u].known = socket[u].known /\ socket[u].pc # "closed"
        /\ UNCHANGED <<inbox, unheard>>
    BY <1>4 DEF SendFirst, Subscribe, TypeOK, Socket
  <2> QED
    BY <1>1, <2>1 DEF UserInv, Remembers, Sees, OnItsWay, Unannounced
<1>5. CASE u = v /\ Handle(v)
  <2> DEFINE e == Head(inbox[u])
  <2>1. /\ inbox[u] \in Seq(Event) /\ inbox[u] # <<>>
        /\ inbox'[u] = Tail(inbox[u]) /\ socket[u].pc = "open"
        /\ socket'[u].known = IF u \in e.users THEN role[u] ELSE socket[u].known
        /\ u \notin e.users => unheard' = unheard
    BY <1>5 DEF Handle, After, Open, TypeOK, Socket
  <2> HIDE DEF e
  <2>2. AllFit(wire', u, role'[u]) /\ AllFit(inbox'[u], u, role'[u])
    BY <1>1, <2>1, FitTail DEF UserInv
  <2>3. CASE u \in e.users
    <3>1. socket'[u].known = role'[u]
      BY <1>1, <2>1, <2>3
    <3> QED BY <2>2, <3>1, FitJudged DEF UserInv, Remembers, Sees
  <2>4. CASE u \notin e.users
    <3>1. Names(inbox'[u], u) <=> Names(inbox[u], u)
      BY <2>1, <2>4, NamesTail DEF e
    <3>2. socket'[u].known = socket[u].known
      BY <2>1, <2>4
    <3>3. ASSUME u \notin unheard'
          PROVE  Remembers(u)' /\ Sees(u)'
      <4>1. Remembers(u) /\ Sees(u)
        BY <2>1, <2>4, <3>3 DEF UserInv
      <4>2. OnItsWay(u)' <=> OnItsWay(u)
        BY <1>1, <3>1, OnItsWayIs DEF OnItsWay, Names, Unannounced
      <4>3. Judged(inbox'[u], u, socket[u].known)
        BY <2>1, <2>4, <4>1, JudgedTail DEF Sees, e
      <4> QED
        BY <1>1, <3>1, <3>2, <4>1, <4>2, <4>3 DEF Remembers, Sees
    <3> QED BY <2>2, <3>3 DEF UserInv
  <2> QED BY <2>3, <2>4
<1>6. CASE u = v /\ Disconnect(v)
  <2>1. inbox'[u] = <<>> /\ socket'[u].pc = "closed"
    BY <1>6 DEF Disconnect, Closed, TypeOK
  <2>2. AllFit(inbox'[u], u, role'[u])
    BY <2>1 DEF AllFit
  <2> QED BY <1>1, <2>1, <2>2 DEF UserInv
<1> QED BY <1>2, <1>3, <1>4, <1>5, <1>6

LEMMA UserHandlers ==
    ASSUME TypeOK, NEW u \in Users, UserInv(u), NEW h \in Handlers,
           \/ \E v \in Users, rank \in Ranks : LoadRole(h, v, rank)
           \/ CommitRole(h) \/ CommitLost(h) \/ PublishNotice(h)
           \/ LoadDelete(h) \/ CommitDelete(h) \/ PublishDeleted(h)
    PROVE  UserInv(u)'
<1>1. ASSUME NEW record, Becomes(h, record),
             handler[h].pc \notin {"publish", "publishDeleted"}
      PROVE  Unannounced(u) => Unannounced(u)'
  BY <1>1 DEF Becomes, Unannounced, TypeOK
<1>2. ASSUME NEW v \in Users, NEW rank \in Ranks, LoadRole(h, v, rank)
      PROVE  UserInv(u)'
  BY <1>1, <1>2, UserKeeps DEF LoadRole, Free
<1>3. CASE LoadDelete(h)
  BY <1>1, <1>3, UserKeeps DEF LoadDelete, Free
<1>4. CASE CommitRole(h) /\ Raises(handler[h])
  BY <1>1, <1>4, UserKeeps DEF CommitRole
<1>5. CASE \/ CommitRole(h) /\ ~Raises(handler[h])
           \/ CommitLost(h)
  <2> DEFINE new == Written(handler[h])
  <2>1. /\ handler[h].pc = "commit" /\ handler[h].user \in Users
        /\ new \in [Users -> Ranks]
    BY <1>5, HandlerKind, WrittenType DEF CommitRole, CommitLost
  <2>2. /\ ChangeRoles(new) /\ UNCHANGED socket
        /\ unheard \subseteq unheard'
        /\ Unannounced(u) => Unannounced(u)'
    BY <1>1, <1>5, <2>1 DEF CommitRole, CommitLost
  <2>3. u # handler[h].user => new[u] = role[u]
    BY <2>1 DEF Written, TypeOK
  <2>4. \/ handler'[h].pc = "publish" /\ handler'[h].user = handler[h].user
        \/ handler[h].user \in unheard'
    <3>1. CASE CommitLost(h)
      BY <3>1 DEF CommitLost
    <3>2. CASE CommitRole(h) /\ ~Raises(handler[h])
      <4>1. handler'[h] = [handler[h] EXCEPT !.pc = "publish"]
        BY <2>1, <3>2, HandlerKind, BecomesType DEF CommitRole
      <4>2. handler[h] \in [pc : {"commit", "publish"}, user : Users,
                            rank : Ranks, copy : Ranks]
        BY <2>1, HandlerKind DEF Handler, Free
      <4> QED BY <4>1, <4>2
    <3> QED BY <1>5, <3>1, <3>2
  <2>5. new[u] = role[u] \/ Unannounced(u)' \/ u \in unheard'
    BY <2>3, <2>4 DEF Unannounced
  <2> HIDE DEF new
  <2> QED BY <2>1, <2>2, <2>5, UserChanges
<1>6. CASE CommitDelete(h)
  <2>1. CASE ~alive
    BY <1>1, <1>6, <2>1, UserKeeps DEF CommitDelete
  <2>2. CASE alive
    <3> DEFINE new == [w \in Users |-> 0]
    <3>1. new \in [Users -> Ranks] /\ new[u] = 0
      BY RanksAssumption
    <3>2. /\ ChangeRoles(new) /\ UNCHANGED socket
          /\ unheard \subseteq unheard'
          /\ Unannounced(u) => Unannounced(u)'
      BY <1>1, <1>6, <2>2 DEF CommitDelete
    <3>3. CASE u \in handler[h].users
      <4>1. handler'[h] = [handler[h] EXCEPT !.pc = "publishDeleted"]
        BY <1>6, <2>2, HandlerKind, BecomesType DEF CommitDelete
      <4>2. handler[h] \in [pc : {"delete", "publishDeleted"}, users : SUBSET Users]
        BY <1>6, HandlerKind DEF CommitDelete, Handler, Free
      <4>3. Unannounced(u)'
        BY <3>3, <4>1, <4>2 DEF Unannounced
      <4> HIDE DEF new
      <4> QED BY <3>1, <3>2, <4>3, UserChanges
    <3>4. CASE u \notin handler[h].users
      <4>1. role[u] = 0 \/ role[u] >= 1
        <5>1. role[u] \in 0 .. 3
          BY RanksAssumption DEF TypeOK
        <5> QED BY <5>1
      <4>2. new[u] = role[u] \/ u \in unheard'
        BY <1>6, <2>2, <3>1, <3>4, <4>1 DEF CommitDelete, Entitled
      <4> HIDE DEF new
      <4> QED BY <3>1, <3>2, <4>2, UserChanges
    <3> QED BY <3>3, <3>4
  <2> QED BY <2>1, <2>2
<1>7. CASE PublishNotice(h) \/ PublishDeleted(h)
  <2> DEFINE named == IF PublishNotice(h) THEN {handler[h].user} ELSE handler[h].users
             e == [users |-> named, may |-> Users, must |-> {}]
  <2>1. /\ named \subseteq Users /\ wire' = Append(wire, e)
        /\ UNCHANGED <<role, inbox, socket, unheard>> /\ Becomes(h, Free)
        /\ \/ handler[h].pc = "publish" /\ named = {handler[h].user}
           \/ handler[h].pc = "publishDeleted" /\ named = handler[h].users
    BY <1>7, HandlerKind DEF PublishNotice, PublishDeleted, Publish
  <2> HIDE DEF named
  <2>2. /\ e \in Event /\ e.users = named
        /\ \A k \in Ranks : Fits(e, u, k)
    BY <2>1 DEF Event, Fits
  <2> HIDE DEF e
  <2>3. Unannounced(u) => Unannounced(u)' \/ u \in named
    BY <2>1 DEF Unannounced, Becomes, TypeOK
  <2>4. role[u] \in Ranks
    BY DEF TypeOK
  <2> QED BY <2>1, <2>2, <2>3, <2>4, UserPublishes
<1> QED BY <1>2, <1>3, <1>4, <1>5, <1>6, <1>7

LEMMA UserNews ==
    ASSUME TypeOK, NEW u \in Users, UserInv(u), PublishNews
    PROVE  UserInv(u)'
<1> DEFINE e == [users |-> {},
                 may |-> {w \in Users : Entitled(w) \/ Unannounced(w)},
                 must |-> {w \in Users : Entitled(w) /\ ~Unannounced(w)}]
<1>1. /\ e \in Event
      /\ u \in e.may <=> Entitled(u) \/ Unannounced(u)
      /\ u \in e.must <=> Entitled(u) /\ ~Unannounced(u)
  BY DEF Event
<1>2. wire' = Append(wire, e) /\ UNCHANGED <<role, handler, inbox, socket, unheard>>
  BY DEF PublishNews, Publish
<1> HIDE DEF e
<1>3. Fits(e, u, role[u])
  BY <1>1 DEF Fits, Entitled
<1>4. Unannounced(u) => \A k \in Ranks : Fits(e, u, k)
  BY <1>1 DEF Fits
<1>5. Unannounced(u) => Unannounced(u)'
  BY <1>2 DEF Unannounced
<1> QED BY <1>1, <1>2, <1>3, <1>4, <1>5, UserPublishes

EInv == TypeOK /\ \A u \in Users : UserInv(u)

LEMMA InitEInv == Init => EInv
<1> SUFFICES ASSUME Init PROVE EInv
  OBVIOUS
<1>1. wire = <<>> /\ \A u \in Users : inbox[u] = <<>> /\ socket[u].pc = "closed"
  BY DEF Init, Closed
<1>2. \A u, k : AllFit(<<>>, u, k)
  <2>1. <<>> \in Seq(Event) /\ Len(<<>>) = 0
    BY EmptySeq
  <2>2. DOMAIN <<>> = {}
    BY <2>1, LenProperties
  <2> QED BY <2>2 DEF AllFit
<1>3. \A u \in Users : UserInv(u)
  BY <1>1, <1>2 DEF UserInv
<1> QED BY <1>3, InitType DEF EInv

LEMMA NextEInv == EInv /\ [Next]_vars => EInv'
<1> SUFFICES ASSUME EInv, [Next]_vars PROVE EInv'
  OBVIOUS
<1>1. TypeOK'
  BY NextType DEF EInv
<1> SUFFICES ASSUME NEW u \in Users PROVE UserInv(u)'
  BY <1>1 DEF EInv
<1>2. TypeOK /\ UserInv(u)
  BY DEF EInv
<1>3. CASE UNCHANGED vars
  BY <1>2, <1>3 DEF vars, UserInv, Remembers, Sees, OnItsWay, Unannounced
<1> QED
  BY <1>2, <1>3, UserHandlers, UserNews, UserDispatch, UserSocket DEF Next

\* With any number of users and handlers that change roles, the role an open
\* socket remembers is the one in the database unless a notice about it is on
\* its way or one escaped the socket.
THEOREM RoleKnownAlways == Spec => []RoleKnown
<1>1. EInv => RoleKnown
  BY DEF EInv, UserInv, Remembers, RoleKnown, Open
<1> QED BY <1>1, InitEInv, NextEInv, PTL DEF Spec

\* The only step that takes an event out of the backlog of an open socket.
LEMMA HandlesNewsIs ==
    ASSUME TypeOK, NEW u \in Users, Next, HandlesNews(u)
    PROVE  Handle(u)
<1>1. /\ inbox[u] \in Seq(Event) /\ inbox[u] # <<>>
      /\ inbox'[u] = Tail(inbox[u]) /\ Len(inbox[u]) \in Nat
      /\ Len(Tail(inbox[u])) = Len(inbox[u]) - 1
  BY HeadTailProperties, LenProperties DEF HandlesNews, TypeOK
<1>2. Len(inbox'[u]) # Len(inbox[u]) /\ Len(inbox'[u]) # Len(inbox[u]) + 1
  BY <1>1
<1>3. inbox'[u] # inbox[u]
  BY <1>2
<1>4. ASSUME NEW new, ChangeRoles(new) PROVE FALSE
  <2>1. inbox'[u] = Adjusted(inbox[u], new)
    BY <1>4 DEF ChangeRoles
  <2>2. Len(Adjusted(inbox[u], new)) = Len(inbox[u])
    BY <1>1, AdjustedType
  <2> QED BY <1>2, <2>1, <2>2
<1>5. ASSUME Dispatch PROVE FALSE
  <2>1. Head(wire) \in Event
    BY <1>5, HeadTailProperties DEF Dispatch, TypeOK
  <2>2. inbox'[u] = inbox[u] \/ inbox'[u] = Append(inbox[u], Head(wire))
    BY <1>5 DEF Dispatch
  <2> QED BY <1>1, <1>2, <1>3, <2>1, <2>2, AppendProperties
<1>6. ASSUME NEW v \in Users, Disconnect(v) PROVE FALSE
  BY <1>3, <1>6 DEF Disconnect, HandlesNews, Open, Closed, TypeOK
<1>7. ASSUME NEW v \in Users, Handle(v) PROVE v = u
  BY <1>3, <1>7 DEF Handle, TypeOK
<1>8. ASSUME NEW h \in Handlers,
             \/ \E v \in Users, rank \in Ranks : LoadRole(h, v, rank)
             \/ CommitRole(h) \/ CommitLost(h) \/ PublishNotice(h)
             \/ LoadDelete(h) \/ CommitDelete(h) \/ PublishDeleted(h)
      PROVE  FALSE
  BY <1>3, <1>4, <1>8
  DEF LoadRole, CommitRole, CommitLost, PublishNotice, LoadDelete,
      CommitDelete, PublishDeleted
<1>9. ASSUME NEW v \in Users, Connect(v) \/ SendFirst(v) \/ Subscribe(v)
      PROVE  FALSE
  BY <1>3, <1>9 DEF Connect, SendFirst, Subscribe
<1>10. ~PublishNews
  BY <1>3 DEF PublishNews
<1> QED
  BY <1>5, <1>6, <1>7, <1>8, <1>9, <1>10 DEF Next

\* The first event of the backlog fits the role the socket judges it by.
LEMMA NewsFits ==
    ASSUME EInv, NEW u \in Users \ unheard, Next, HandlesNews(u)
    PROVE  /\ Fits(Head(inbox[u]), u, socket[u].known)
           /\ out'[u] = "event" <=> socket[u].known >= 1
<1>1. Handle(u) /\ TypeOK /\ UserInv(u)
  BY HandlesNewsIs DEF EInv
<1>2. Judged(inbox[u], u, socket[u].known)
  BY <1>1 DEF UserInv, Sees, HandlesNews, Open
<1>3. Fits(Head(inbox[u]), u, socket[u].known)
  BY <1>1, <1>2, JudgedTail DEF Handle, TypeOK
<1>4. After(u, Head(inbox[u])) = socket[u].known
  BY DEF HandlesNews, After
<1>5. out'[u] = IF socket[u].known >= 1 THEN "event" ELSE "nothing"
  BY <1>1, <1>4 DEF Handle, Delivered, TypeOK
<1> QED BY <1>3, <1>5

\* News published while u had no role, with the notice of that published
\* before, is never sent to u, unless u got a role since.
THEOREM NewsStaysInsideAlways == Spec => NewsStaysInside
<1>1. EInv /\ [Next]_vars =>
        [\A u \in Users \ unheard :
           HandlesNews(u) /\ out'[u] = "event" => u \in Head(inbox[u]).may]_vars
  <2> SUFFICES ASSUME EInv, Next, NEW u \in Users \ unheard, HandlesNews(u),
                      out'[u] = "event"
               PROVE  u \in Head(inbox[u]).may
    OBVIOUS
  <2> QED BY NewsFits DEF Fits
<1> QED BY <1>1, InitEInv, NextEInv, PTL DEF Spec, NewsStaysInside

\* Whoever had a role when news was published, announced before, and still has
\* it when the news is handled, is told.
THEOREM NewsArrivesAlways == Spec => NewsArrives
<1>1. EInv /\ [Next]_vars =>
        [\A u \in Users \ unheard :
           HandlesNews(u) /\ u \in Head(inbox[u]).must => out'[u] = "event"]_vars
  <2> SUFFICES ASSUME EInv, Next, NEW u \in Users \ unheard, HandlesNews(u),
                      u \in Head(inbox[u]).must
               PROVE  out'[u] = "event"
    OBVIOUS
  <2> QED BY NewsFits DEF Fits
<1> QED BY <1>1, InitEInv, NextEInv, PTL DEF Spec, NewsArrives
=============================================================================
