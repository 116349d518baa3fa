--------------------------- MODULE MiniversePromise ---------------------------
(***************************************************************************)
(* What the API promises about servers, whatever its handlers do in        *)
(* between: a server runs only while it is wanted, and it is no longer     *)
(* wanted, or no longer there, only after it came to rest.                 *)
(***************************************************************************)
CONSTANT Miniverses

VARIABLES
    wanted,   \* "unborn", "stopped", "started" or "deleted"
    runs      \* runs[m]: the Minecraft server of m executes

promise == <<wanted, runs>>

PromiseInit ==
    /\ wanted = [m \in Miniverses |-> "unborn"]
    /\ runs = [m \in Miniverses |-> FALSE]

Want(m, from, to) ==
    /\ wanted[m] \in from
    /\ wanted' = [wanted EXCEPT ![m] = to]
    /\ UNCHANGED runs

Create(m) == Want(m, {"unborn"}, "stopped")
WantStarted(m) == Want(m, {"stopped"}, "started")
WantStopped(m) == ~runs[m] /\ Want(m, {"started"}, "stopped")
Delete(m) == ~runs[m] /\ Want(m, {"stopped", "started"}, "deleted")

Launch(m) ==
    /\ wanted[m] = "started"
    /\ runs' = [runs EXCEPT ![m] = TRUE]
    /\ UNCHANGED wanted

\* Stopped, killed, or the server ended by itself.
Rest(m) ==
    /\ runs' = [runs EXCEPT ![m] = FALSE]
    /\ UNCHANGED wanted

PromiseNext ==
    \E m \in Miniverses :
        \/ Create(m) \/ WantStarted(m) \/ WantStopped(m) \/ Delete(m)
        \/ Launch(m) \/ Rest(m)

PromiseSpec == PromiseInit /\ [][PromiseNext]_promise
=============================================================================
