------------------------------ MODULE MCVersions ------------------------------
(* Small sets of version numbers around the boundaries the code knows.     *)
EXTENDS MinecraftVersions

MCMains == {<<1, 20, 0>>, <<1, 20, 1>>, <<1, 21, 0>>, <<26, 1, 0>>, <<26, 1, 1>>}
MCWeeks == {<<23, 12>>, <<25, 37>>}
=============================================================================
