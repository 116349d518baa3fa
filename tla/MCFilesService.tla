--------------------------- MODULE MCFilesService ---------------------------
(* Instances of FilesService for TLC.                                      *)
EXTENDS FilesService, TLC

CONSTANTS plain, archived, core, core2, conf, pack, sub, all

\* A file of the name of a directory of the server and of a file in it; a zip of
\* such a directory, with the file and another directory. Numbers are given to
\* the one name that clashes.
MCNameOf == plain :> core @@ archived :> pack
MCRootOf == archived :> core
MCFilesOf == archived :> {core}
MCDirsOf == archived :> {sub}
MCNumbered == [n \in Names |-> IF n = core THEN {core2} ELSE {}]

MCStartTree == <<>> :> <<"dir">> @@ <<core>> :> <<"dir">> @@ <<core, core>> :> <<"server">>

Symmetry == Permutations(Threads)
=============================================================================
