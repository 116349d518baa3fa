--------------------------- MODULE MCEventDelivery ---------------------------
(* Instances of EventDelivery for TLC.                                     *)
EXTENDS EventDelivery, TLC

Symmetry == Permutations(Users) \union Permutations(Handlers)
=============================================================================
