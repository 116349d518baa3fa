----------------------------- MODULE MCUserAdmin -----------------------------
(* Instances of UserAdmin for TLC.                                         *)
EXTENDS UserAdmin, TLC

Symmetry == Permutations(Users) \union Permutations(Requests)
=============================================================================
