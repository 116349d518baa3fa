------------------------------- MODULE InitSync -------------------------------
(***************************************************************************)
(* The first message of the updates websocket (send_init_data) composed    *)
(* with the lifecycle: the rows are read from the database once, and the   *)
(* controllers are looked up in memory one by one, with awaits in between. *)
(***************************************************************************)
EXTENDS MiniverseLifecycle

VARIABLES
    pending,   \* rows of the query that are still to be sent
    asserted   \* the assertion on a controller has failed

syncVars == <<vars, pending, asserted>>

SyncInit == Init /\ pending = {} /\ asserted = FALSE

\* get_miniverses, filtered by the user's role.
SyncLoad ==
    /\ api = "serving"
    /\ pending = {}
    /\ \E visible \in SUBSET {m \in Miniverses : Present(m)} :
          pending' = visible
    /\ UNCHANGED <<vars, asserted>>

\* One turn of the loop: look the controller up, then await its player lists.
SyncItem(m) ==
    /\ m \in pending
    /\ IF controller[m] # "none"
       THEN pending' = pending \ {m} /\ UNCHANGED asserted
       ELSE pending' = {} /\ asserted' = TRUE
    /\ UNCHANGED vars

\* The lifecycle goes on meanwhile; a handler dies with its process.
SyncDuring ==
    /\ Next
    /\ pending' = IF api' = "down" THEN {} ELSE pending
    /\ UNCHANGED asserted

SyncNext == SyncDuring \/ SyncLoad \/ \E m \in Miniverses : SyncItem(m)

SyncSpec == SyncInit /\ [][SyncNext]_syncVars

\* send_init_data asserts that every row it loaded has a controller.  The code
\* lets a row be visible before create_miniverse registers its controller and
\* after delete_miniverse popped it.
AssertControllerIsNotNone == ~asserted
=============================================================================
