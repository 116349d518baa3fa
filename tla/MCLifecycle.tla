----------------------------- MODULE MCLifecycle -----------------------------
(* Instances of MiniverseLifecycle for TLC.                                *)
EXTENDS LifecycleRefinement, TLC

Symmetry ==
    Permutations(Miniverses) \union Permutations(Workers)
        \union Permutations(ContainerIds)
=============================================================================
