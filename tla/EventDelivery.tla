---------------------------- MODULE EventDelivery ----------------------------
(***************************************************************************)
(* Who learns what about one miniverse over the updates websocket.         *)
(*                                                                         *)
(* A change of a role commits first and publishes a notice naming the user *)
(* afterwards; news about the miniverse (players, state, settings) names   *)
(* nobody.  Events go through one Redis channel, in order, to the sockets  *)
(* subscribed when they arrive.  A socket reads its user's role when the   *)
(* client connects, sends the first message, subscribes, and then judges   *)
(* each event by the role it remembers, which it reads again only when the *)
(* event names its user.                                                   *)
(*                                                                         *)
(* Roles on different miniverses are different rows and an event carries   *)
(* the id of its miniverse, so one miniverse stands for all.               *)
(***************************************************************************)
EXTENDS Naturals, Sequences

CONSTANTS
    Users,      \* each with at most one socket
    Handlers,   \* slots for handlers that change roles
    Ranks,      \* role_value of the roles given: 0 is None, 1 is User
    MaxQueue,   \* bound on the events on their way to one place
    MaxFaults   \* bound on lost commits

ASSUME RanksAssumption == {0, 1} \subseteq Ranks /\ Ranks \subseteq 0 .. 3
ASSUME BoundsAssumption == MaxQueue \in Nat \ {0} /\ MaxFaults \in Nat

VARIABLES
    alive,      \* the row of the miniverse exists
    role,       \* role[u]: u's row in miniverse_user_roles, 0 without one
    handler,    \* what each handler is doing
    wire,       \* events published and not yet dispatched
    socket,     \* socket[u]: where u's socket is and the role it remembers
    inbox,      \* inbox[u]: events dispatched to u's subscription
    out,        \* out[u]: what the last step of u's socket sent
    unheard,    \* observer: a change of u's role since u's socket read it last
                \* of which no notice will come to u
    faults      \* commits lost, at most MaxFaults

vars == <<alive, role, handler, wire, socket, inbox, out, unheard, faults>>

\* users is updated_user_ids, empty for news.  Observers: may and must are the
\* users who may, and who have to, be told the news.
Event == [users : SUBSET Users, may : SUBSET Users, must : SUBSET Users]

Free == [pc |-> "free"]
Handler ==
    [pc : {"commit", "publish"}, user : Users, rank : Ranks, copy : Ranks]
        \union [pc : {"delete", "publishDeleted"}, users : SUBSET Users]
Socket == [pc : {"closed", "first", "subscribe", "open"}, known : Ranks]
Closed == [pc |-> "closed", known |-> 0]

\* Every variable has its type, and only a subscription has an inbox.
TypeOK ==
    /\ alive \in BOOLEAN
    /\ role \in [Users -> Ranks]
    /\ handler \in [Handlers -> Handler \union {Free}]
    /\ wire \in Seq(Event) /\ Len(wire) <= MaxQueue
    /\ socket \in [Users -> Socket]
    /\ inbox \in [Users -> Seq(Event)]
    /\ \A u \in Users : Len(inbox[u]) <= MaxQueue
    /\ \A u \in Users : inbox[u] # <<>> => socket[u].pc = "open"
    /\ out \in [Users -> {"nothing", "first", "event"}]
    /\ unheard \subseteq Users
    /\ faults \in 0 .. MaxFaults

Init ==
    /\ alive = TRUE
    /\ role \in [Users -> Ranks]
    /\ handler = [h \in Handlers |-> Free]
    /\ wire = <<>>
    /\ socket = [u \in Users |-> Closed]
    /\ inbox = [u \in Users |-> <<>>]
    /\ out = [u \in Users |-> "nothing"]
    /\ unheard = {}
    /\ faults = 0

-----------------------------------------------------------------------------
Entitled(u) == role[u] >= 1
Open(u) == socket[u].pc = "open"

\* u's role has changed and the notice that says so is not yet published.
Unannounced(u) ==
    \E h \in Handlers :
        \/ handler[h].pc = "publish" /\ handler[h].user = u
        \/ handler[h].pc = "publishDeleted" /\ u \in handler[h].users

Becomes(h, record) == handler' = [handler EXCEPT ![h] = record]
Publish(event) ==
    /\ Len(wire) < MaxQueue
    /\ wire' = Append(wire, event)

\* The news on the way, told to whom a change of roles allows from now on.
Adjusted(queue, new) ==
    [i \in DOMAIN queue |->
        [queue[i] EXCEPT !.may = @ \union {u \in Users : new[u] >= 1},
                         !.must = {u \in @ : new[u] >= 1}]]

ChangeRoles(new) ==
    /\ role' = new
    /\ wire' = Adjusted(wire, new)
    /\ inbox' = [u \in Users |-> Adjusted(inbox[u], new)]

-----------------------------------------------------------------------------
(* set_user_role.                                                          *)

LoadRole(h, u, rank) ==
    /\ handler[h] = Free
    /\ Becomes(h, [pc |-> "commit", user |-> u, rank |-> rank, copy |-> role[u]])
    /\ UNCHANGED <<alive, role, wire, socket, inbox, out, unheard, faults>>

\* Inserting a row that is there, updating one that is gone, and a role on a
\* miniverse that is gone raise; the handler ends without an event.
Raises(q) ==
    \/ q.copy = 0 /\ q.rank # 0 /\ (role[q.user] # 0 \/ ~alive)
    \/ q.copy # 0 /\ q.rank \notin {0, q.copy} /\ role[q.user] = 0

\* A handler that did not find what it would delete, or keeps the role as it
\* read it, writes nothing.
Written(q) ==
    IF q.rank = q.copy THEN role ELSE [role EXCEPT ![q.user] = q.rank]

CommitRole(h) ==
    LET q == handler[h] IN
    /\ q.pc = "commit"
    /\ IF Raises(q)
       THEN Becomes(h, Free) /\ UNCHANGED <<role, wire, inbox>>
       ELSE /\ ChangeRoles(Written(q))
            /\ Becomes(h, [q EXCEPT !.pc = "publish"])
    /\ UNCHANGED <<alive, socket, out, unheard, faults>>

\* The commit is done but its answer is lost: the handler raises.
CommitLost(h) ==
    LET q == handler[h] IN
    /\ q.pc = "commit" /\ ~Raises(q)
    /\ faults < MaxFaults
    /\ faults' = faults + 1
    /\ ChangeRoles(Written(q))
    /\ Becomes(h, Free)
    /\ unheard' = unheard \union {q.user}
    /\ UNCHANGED <<alive, socket, out>>

PublishNotice(h) ==
    /\ handler[h].pc = "publish"
    /\ Publish([users |-> {handler[h].user}, may |-> Users, must |-> {}])
    /\ Becomes(h, Free)
    /\ UNCHANGED <<alive, role, socket, inbox, out, unheard, faults>>

-----------------------------------------------------------------------------
(* delete_miniverse: the rows of all roles go with the miniverse; the users *)
(* named are those the handler loaded at its beginning.                     *)

LoadDelete(h) ==
    /\ alive
    /\ handler[h] = Free
    /\ Becomes(h, [pc |-> "delete", users |-> {u \in Users : Entitled(u)}])
    /\ UNCHANGED <<alive, role, wire, socket, inbox, out, unheard, faults>>

CommitDelete(h) ==
    /\ handler[h].pc = "delete"
    /\ IF alive
       THEN /\ alive' = FALSE
            /\ ChangeRoles([u \in Users |-> 0])
            /\ unheard' = unheard \union ({u \in Users : Entitled(u)} \ handler[h].users)
            /\ Becomes(h, [handler[h] EXCEPT !.pc = "publishDeleted"])
       ELSE /\ Becomes(h, [handler[h] EXCEPT !.pc = "publishDeleted"])
            /\ UNCHANGED <<alive, role, wire, inbox, unheard>>
    /\ UNCHANGED <<socket, out, faults>>

PublishDeleted(h) ==
    /\ handler[h].pc = "publishDeleted"
    /\ Publish([users |-> handler[h].users, may |-> Users, must |-> {}])
    /\ Becomes(h, Free)
    /\ UNCHANGED <<alive, role, socket, inbox, out, unheard, faults>>

\* Any event that names nobody: the status store, start, stop, settings, mods.
PublishNews ==
    /\ Publish([users |-> {},
                may |-> {u \in Users : Entitled(u) \/ Unannounced(u)},
                must |-> {u \in Users : Entitled(u) /\ ~Unannounced(u)}])
    /\ UNCHANGED <<alive, role, handler, socket, inbox, out, unheard, faults>>

-----------------------------------------------------------------------------
(* The socket.                                                             *)

\* accept, get_user
Connect(u) ==
    /\ socket[u] = Closed
    /\ socket' = [socket EXCEPT ![u] = [pc |-> "first", known |-> role[u]]]
    /\ unheard' = unheard \ {u}
    /\ out' = [out EXCEPT ![u] = "nothing"]
    /\ UNCHANGED <<alive, role, handler, wire, inbox, faults>>

\* send_init_data, with the miniverse if the remembered role allows it
SendFirst(u) ==
    /\ socket[u].pc = "first"
    /\ socket' = [socket EXCEPT ![u].pc = "subscribe"]
    /\ out' = [out EXCEPT ![u] = IF socket[u].known >= 1 THEN "first" ELSE "nothing"]
    /\ UNCHANGED <<alive, role, handler, wire, inbox, unheard, faults>>

Subscribe(u) ==
    /\ socket[u].pc = "subscribe"
    /\ socket' = [socket EXCEPT ![u].pc = "open"]
    /\ out' = [out EXCEPT ![u] = "nothing"]
    /\ UNCHANGED <<alive, role, handler, wire, inbox, unheard, faults>>

\* Mutant: the backlog of a subscription is a stack
DispatchFirst ==
    /\ wire # <<>>
    /\ \A u \in Users : Open(u) => Len(inbox[u]) < MaxQueue
    /\ wire' = Tail(wire)
    /\ inbox' = [u \in Users |-> IF Open(u) THEN <<Head(wire)>> \o inbox[u] ELSE inbox[u]]
    /\ unheard' = unheard \union
                    {u \in Head(wire).users : socket[u].pc \in {"first", "subscribe"}}
    /\ UNCHANGED <<alive, role, handler, socket, out, faults>>

\* The channels plugin puts an event into every subscription there is.
Dispatch ==
    /\ wire # <<>>
    /\ \A u \in Users : Open(u) => Len(inbox[u]) < MaxQueue
    /\ wire' = Tail(wire)
    /\ inbox' = [u \in Users |-> IF Open(u) THEN Append(inbox[u], Head(wire)) ELSE inbox[u]]
    /\ unheard' = unheard \union
                    {u \in Head(wire).users : socket[u].pc \in {"first", "subscribe"}}
    /\ UNCHANGED <<alive, role, handler, socket, out, faults>>

\* Mutant: db.refresh without db.rollback answers from the old snapshot
AfterOldSnapshot(u, event) == socket[u].known

\* The role the socket judges by, and remembers, after db.rollback() and
\* db.refresh() if the event names its user.
After(u, event) == IF u \in event.users THEN role[u] ELSE socket[u].known

\* Mutant: the role is compared with Role.NONE instead of Role.USER
DeliveredToNone(before, after) == before >= 0 \/ after >= 0

Delivered(before, after) == before >= 1 \/ after >= 1

Handle(u) ==
    /\ Open(u) /\ inbox[u] # <<>>
    /\ LET event == Head(inbox[u])
           before == socket[u].known
           after == After(u, event)
       IN /\ socket' = [socket EXCEPT ![u].known = after]
          /\ out' = [out EXCEPT ![u] =
                        IF Delivered(before, after) THEN "event" ELSE "nothing"]
          /\ unheard' = IF u \in event.users THEN unheard \ {u} ELSE unheard
    /\ inbox' = [inbox EXCEPT ![u] = Tail(@)]
    /\ UNCHANGED <<alive, role, handler, wire, faults>>

\* Mutant: the socket goes and its subscription stays
DisconnectOnly(u) ==
    /\ socket[u] # Closed
    /\ socket' = [socket EXCEPT ![u] = Closed]
    /\ out' = [out EXCEPT ![u] = "nothing"]
    /\ UNCHANGED <<alive, role, handler, wire, inbox, unheard, faults>>

Disconnect(u) ==
    /\ socket[u] # Closed
    /\ socket' = [socket EXCEPT ![u] = Closed]
    /\ inbox' = [inbox EXCEPT ![u] = <<>>]
    /\ out' = [out EXCEPT ![u] = "nothing"]
    /\ UNCHANGED <<alive, role, handler, wire, unheard, faults>>

Next ==
    \/ \E h \in Handlers :
          \/ \E u \in Users, rank \in Ranks : LoadRole(h, u, rank)
          \/ CommitRole(h) \/ CommitLost(h) \/ PublishNotice(h)
          \/ LoadDelete(h) \/ CommitDelete(h) \/ PublishDeleted(h)
    \/ PublishNews \/ Dispatch
    \/ \E u \in Users :
          Connect(u) \/ SendFirst(u) \/ Subscribe(u) \/ Handle(u) \/ Disconnect(u)

Spec == Init /\ [][Next]_vars

-----------------------------------------------------------------------------
(* Properties.                                                             *)

\* A notice for u is on its way.
OnItsWay(u) ==
    \/ Unannounced(u)
    \/ \E i \in DOMAIN wire : u \in wire[i].users
    \/ \E i \in DOMAIN inbox[u] : u \in inbox[u][i].users

\* The role a socket remembers is the one in the database, unless a notice
\* about it is on its way or one escaped the socket: by a lost commit, or in
\* the window between reading the role and subscribing
\* (websocket_miniverse_updates_handler, set_user_role).
RoleKnown ==
    \A u \in Users :
        Open(u) /\ u \notin unheard /\ ~OnItsWay(u) => socket[u].known = role[u]

\* News published while u had no role, with the notice of that published
\* before, is never sent to u, unless u got a role since: events are handled
\* in the order of their publication, and a notice is answered by reading the
\* role again (handle_miniverse_channel_message).
HandlesNews(u) ==
    /\ Open(u) /\ Open(u)'
    /\ inbox[u] # <<>> /\ inbox'[u] = Tail(inbox[u])
    /\ Head(inbox[u]).users = {}

NewsStaysInside ==
    [][\A u \in Users \ unheard :
         HandlesNews(u) /\ out'[u] = "event" => u \in Head(inbox[u]).may]_vars

\* Whoever had a role when news was published, announced before, and still has
\* it when the news is handled, is told.
NewsArrives ==
    [][\A u \in Users \ unheard :
         HandlesNews(u) /\ u \in Head(inbox[u]).must => out'[u] = "event"]_vars
=============================================================================
