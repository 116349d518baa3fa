------------------------- MODULE LifecycleRefinement -------------------------
(***************************************************************************)
(* MiniverseLifecycle implements MiniversePromise: what the database says  *)
(* is what is wanted, what Docker runs is what runs.                       *)
(***************************************************************************)
EXTENDS MiniverseLifecycle

wantedBy == [m \in Miniverses |->
               IF ~Present(m) THEN life[m]
               ELSE IF row[m].started THEN "started" ELSE "stopped"]

runsBy == [m \in Miniverses |-> Running(m)]

Promise == INSTANCE MiniversePromise WITH wanted <- wantedBy, runs <- runsBy

\* Every step of the handlers, of the startup hooks and of the environment is
\* a step of the promise or leaves it alone: start_miniverse launches a server
\* only after its row says "started", stop_miniverse says "stopped" and
\* delete_miniverse drops the row only once the server rests - provided that
\* clients do not overlap two requests on one miniverse.
KeepsPromise == Promise!PromiseSpec
=============================================================================
