----------------------------- MODULE MCModsStore -----------------------------
(* Instances of ModsStore for TLC.                                         *)
EXTENDS ModsStore, TLC

CONSTANTS p1, p2

\* p1 has one version for each game; p2 has nothing for the newer one.
MCCatalogues == {(p1 :> <<{1}, {2}>>) @@ (p2 :> <<{1}, {1}>>)}

Symmetry == Permutations(ModIds) \union Permutations(Requests)
=============================================================================
