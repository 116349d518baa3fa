------------------------------ MODULE ModsStore ------------------------------
(***************************************************************************)
(* The mods of one miniverse: the rows of the table mods, the jars in its  *)
(* directory data/mods, and the Minecraft version they have to fit. Every  *)
(* operation changes rows and jars in separate steps, with downloads and   *)
(* commits awaited between them, and works with the rows its transaction   *)
(* read when it began. Requests overlap and fail as they like.             *)
(*                                                                         *)
(* A version of a mod is a number that grows with date_published, and the  *)
(* name of its jar holds the project and the version, so a jar is the pair *)
(* of them. The loader of the miniverse takes mods and never changes;      *)
(* versions for other loaders are left out of the catalogue.               *)
(***************************************************************************)
EXTENDS Naturals, FiniteSets

CONSTANTS
    Projects,       \* mods in the catalogue of Modrinth
    Versions,       \* versions of a mod, by date_published
    Releases,       \* those whose version_type is release
    Games,          \* versions of Minecraft, in order
    Catalogues,     \* [project -> [version -> the games it supports]]
    ModIds,         \* ids of rows
    NoMod,
    Requests,       \* slots for requests in flight
    MaxFaults       \* bound on failing calls

ASSUME NumbersAssumption ==
    /\ Versions \subseteq Nat /\ Versions # {} /\ IsFiniteSet(Versions)
    /\ Games \subseteq Nat /\ Games # {}
    /\ Releases \subseteq Versions
ASSUME CataloguesAssumption == Catalogues \subseteq [Projects -> [Versions -> SUBSET Games]]
ASSUME NoModAssumption == NoMod \notin ModIds /\ NoMod \notin Projects
ASSUME FaultsAssumption == MaxFaults \in Nat

VARIABLES
    supports,   \* the catalogue; it does not change
    there,      \* the miniverse has its row
    game,       \* its mc_version
    row,        \* the table mods
    jars,       \* the files in data/mods
    req,        \* what each request is doing
    unclean,    \* observer: projects an operation failed on, or two met on
    faults

vars == <<supports, there, game, row, jars, req, unclean, faults>>

NoRow == [project |-> NoMod]
Row == [project : Projects, version : Versions]
Rows == [ModIds -> Row \union {NoRow}]

Ops == {"install", "automatic", "uninstall", "change", "delete"}
Pcs == {"begin", "remove", "download", "save", "drop", "next", "rmtree", "commit"}

\* seen: the rows of the snapshot; mod: the row it works on; todo: the mods of
\* a new game version still to be updated.
Request == [op : Ops, project : Projects, version : Versions, game : Games,
            mod : ModIds \union {NoMod}, pc : Pcs, seen : Rows,
            todo : SUBSET ModIds, alone : BOOLEAN]
Idle == [pc |-> "idle"]

TypeOK ==
    /\ supports \in Catalogues
    /\ there \in BOOLEAN
    /\ game \in Games
    /\ row \in Rows
    /\ jars \subseteq Projects \X Versions
    /\ req \in [Requests -> Request \union {Idle}]
    /\ unclean \subseteq Projects
    /\ faults \in 0 .. MaxFaults

Init ==
    /\ supports \in Catalogues
    /\ there = TRUE
    /\ game \in Games
    /\ row = [i \in ModIds |-> NoRow]
    /\ jars = {}
    /\ req = [r \in Requests |-> Idle]
    /\ unclean = {}
    /\ faults = 0

-----------------------------------------------------------------------------
(* The catalogue.                                                          *)

Latest(V) == CHOOSE v \in V : \A w \in V : w <= v

\* list_project_versions
Fitting(p, g) == {v \in Versions : g \in supports[p][v]}

\* The newest of V, and of its releases when it has any.
Released(V) == Latest(IF V \cap Releases = {} THEN V ELSE V \cap Releases)

\* Mutant: no second look when no version fits
ChosenOrNone(p) == IF Fitting(p, game) = {} THEN 0 ELSE Released(Fitting(p, game))

\* automatic_mod_install, which the route lets retry with the latest version.
Chosen(p) == Released(IF Fitting(p, game) = {} THEN Versions ELSE Fitting(p, game))

\* list_possible_mod_updates: with no fitting version it lists them all, and
\* stops at the one installed, so the mod counts as up to date.
Update(p, v, g) == IF Fitting(p, g) = {} THEN v ELSE Latest(Fitting(p, g))

-----------------------------------------------------------------------------
Installed(rows, p) == {i \in ModIds : rows[i].project = p}
Jar(i, rows) == <<rows[i].project, rows[i].version>>
At(r, pc) == req[r].pc = pc
InFlight == {r \in Requests : req[r] # Idle}

\* The rows with these ids as a request remembers them.
Copy(ids) == [i \in ModIds |-> IF i \in ids THEN row[i] ELSE NoRow]

Goto(r, pc) == req' = [req EXCEPT ![r].pc = pc]
Done(r) == req' = [req EXCEPT ![r] = Idle]

\* An id no request can still hold: they are random and never used again.
Fresh(i) ==
    row[i] = NoRow /\ \A r \in InFlight : req[r].mod # i /\ req[r].seen[i] = NoRow

\* The projects a request may change.
Touches(q) == IF q.op \in {"change", "delete"} THEN Projects ELSE {q.project}

Arrive(r, op, p, v, i, g) ==
    LET new == [op |-> op, project |-> p, version |-> v, game |-> g, mod |-> i,
                pc |-> "begin", seen |-> Copy({}), todo |-> {}, alone |-> TRUE]
        met == {q \in InFlight : Touches(req[q]) \cap Touches(new) # {}}
    IN
    /\ req[r] = Idle
    /\ there
    /\ op = "uninstall" => i # NoMod /\ row[i].project = p
    /\ op # "uninstall" => i = NoMod
    \* what the operation is not told is some fixed value
    /\ op # "install" => v = Latest(Versions)
    /\ op # "change" => g = CHOOSE any \in Games : TRUE
    /\ op \in {"change", "delete"} => p = CHOOSE any \in Projects : TRUE
    /\ req' = [q \in Requests |->
                 IF q = r THEN [new EXCEPT !.alone = met = {}]
                 ELSE IF q \in met THEN [req[q] EXCEPT !.alone = FALSE] ELSE req[q]]
    /\ unclean' = unclean \union UNION {Touches(req[q]) \cap Touches(new) : q \in met}
    /\ UNCHANGED <<supports, there, game, row, jars, faults>>

\* install_mod turns into update_mod when a row of the project was read.
BeginInstall(r, v) ==
    IF Installed(row, req[r].project) = {}
    THEN req' = [req EXCEPT ![r].pc = "download", ![r].version = v]
    ELSE \E i \in Installed(row, req[r].project) :
            req' = [req EXCEPT ![r].pc = "remove", ![r].version = v, ![r].mod = i,
                               ![r].seen = Copy({i})]

\* update_miniverse_game_version refuses the same and an older version.
BeginChange(r) ==
    LET q == req[r]
        behindOnes == {i \in ModIds : row[i] # NoRow
                          /\ Update(row[i].project, row[i].version, q.game) # row[i].version}
    IN IF q.game <= game
       THEN Done(r)
       ELSE req' = [req EXCEPT ![r].pc = "next", ![r].todo = behindOnes,
                               ![r].seen = Copy(behindOnes)]

\* The snapshot, and what the handler decides on it.
Begin(r) ==
    /\ At(r, "begin")
    /\ LET q == req[r] IN
       CASE ~there -> Done(r)
         [] there /\ q.op = "install" -> BeginInstall(r, q.version)
         [] there /\ q.op = "automatic" -> BeginInstall(r, Chosen(q.project))
         [] there /\ q.op = "uninstall" ->
                IF row[q.mod] = NoRow THEN Done(r)
                ELSE req' = [req EXCEPT ![r].pc = "remove", ![r].seen = Copy({q.mod})]
         [] there /\ q.op = "change" -> BeginChange(r)
         [] there /\ q.op = "delete" -> req' = [req EXCEPT ![r].pc = "rmtree", ![r].seen = Copy(ModIds)]
    /\ UNCHANGED <<supports, there, game, row, jars, unclean, faults>>

\* Mutant: update_mod keeps the jar it replaces
RemoveNothing(r) ==
    /\ At(r, "remove")
    /\ Goto(r, IF req[r].op = "uninstall" THEN "drop" ELSE "download")
    /\ UNCHANGED <<supports, there, game, row, jars, unclean, faults>>

\* delete_mod_file
Remove(r) ==
    /\ At(r, "remove")
    /\ jars' = jars \ {Jar(req[r].mod, req[r].seen)}
    /\ Goto(r, IF req[r].op = "uninstall" THEN "drop" ELSE "download")
    /\ UNCHANGED <<supports, there, game, row, unclean, faults>>

\* download_mod_file makes the directory when there is none, also for a
\* miniverse that has just been deleted; DownloadRaises has the other order.
Download(r) ==
    /\ At(r, "download")
    /\ jars' = jars \union {<<req[r].project, req[r].version>>}
    /\ Goto(r, "save")
    /\ UNCHANGED <<supports, there, game, row, unclean, faults>>

AfterUpdate(r) == IF req[r].op = "change" THEN Goto(r, "next") ELSE Done(r)

\* The INSERT breaks a foreign key when the miniverse is gone.
Insert(r) ==
    /\ At(r, "save") /\ req[r].mod = NoMod
    /\ IF there
       THEN \E i \in ModIds :
              /\ Fresh(i)
              /\ row' = [row EXCEPT ![i] = [project |-> req[r].project,
                                            version |-> req[r].version]]
       ELSE UNCHANGED row
    /\ Done(r)
    /\ UNCHANGED <<supports, there, game, jars, unclean, faults>>

\* Mutant: the old jar is deleted once the new one is recorded
SaveThenRemove(r) ==
    /\ At(r, "save") /\ req[r].mod # NoMod
    /\ jars' = jars \ {Jar(req[r].mod, req[r].seen)}
    /\ row' = [row EXCEPT ![req[r].mod].version = req[r].version]
    /\ AfterUpdate(r)
    /\ UNCHANGED <<supports, there, game, unclean, faults>>

\* The UPDATE writes a version that changed, and raises when the row is gone.
Save(r) ==
    LET q == req[r] IN
    /\ At(r, "save") /\ q.mod # NoMod
    /\ CASE q.seen[q.mod].version = q.version -> AfterUpdate(r) /\ UNCHANGED row
         [] q.seen[q.mod].version # q.version /\ row[q.mod] = NoRow ->
                Done(r) /\ UNCHANGED row
         [] q.seen[q.mod].version # q.version /\ row[q.mod] # NoRow ->
                AfterUpdate(r) /\ row' = [row EXCEPT ![q.mod].version = q.version]
    /\ UNCHANGED <<supports, there, game, jars, unclean, faults>>

\* uninstall_mod
Drop(r) ==
    /\ At(r, "drop")
    /\ row' = [row EXCEPT ![req[r].mod] = NoRow]
    /\ Done(r)
    /\ UNCHANGED <<supports, there, game, jars, unclean, faults>>

\* The next mod of a new game version, in any order.
NextMod(r, i) ==
    LET old == req[r].seen[i] IN
    /\ At(r, "next") /\ i \in req[r].todo
    /\ req' = [req EXCEPT ![r].pc = "remove", ![r].mod = i, ![r].todo = @ \ {i},
                          ![r].project = old.project,
                          ![r].version = Update(old.project, old.version, req[r].game)]
    /\ UNCHANGED <<supports, there, game, row, jars, unclean, faults>>

\* Mutant: the version is set before the mods are brought up to it
CommitGameFirst(r) ==
    /\ At(r, "next")
    /\ IF there THEN game' = req[r].game ELSE UNCHANGED game
    /\ Done(r)
    /\ UNCHANGED <<supports, there, row, jars, unclean, faults>>

CommitGame(r) ==
    /\ At(r, "next") /\ req[r].todo = {}
    /\ IF there THEN game' = req[r].game ELSE UNCHANGED game
    /\ Done(r)
    /\ UNCHANGED <<supports, there, row, jars, unclean, faults>>

\* delete_miniverse
Rmtree(r) ==
    /\ At(r, "rmtree")
    /\ jars' = {}
    /\ Goto(r, "commit")
    /\ UNCHANGED <<supports, there, game, row, unclean, faults>>

\* The rows it had read go with it; one inserted since breaks the foreign key.
CommitDeletion(r) ==
    /\ At(r, "commit")
    /\ IF \A i \in ModIds : row[i] # NoRow => req[r].seen[i] # NoRow
       THEN there' = FALSE /\ row' = [i \in ModIds |-> NoRow] /\ UNCHANGED unclean
       ELSE unclean' = Projects /\ UNCHANGED <<there, row>>
    /\ Done(r)
    /\ UNCHANGED <<supports, game, jars, faults>>

\* A request ends in the middle.
Breaks(r) ==
    /\ req[r] # Idle
    /\ unclean' = unclean \union
          CASE req[r].pc = "commit" -> Projects
            [] req[r].pc \in {"save", "drop"} -> {req[r].project}
            [] req[r].pc = "download" /\ req[r].mod # NoMod -> {req[r].project}
            [] OTHER -> {}
    /\ Done(r)
    /\ UNCHANGED <<supports, there, game, row, jars>>

\* download_mod_file makes the directory before it awaits the jar: a deletion
\* that empties data in between leaves nowhere to write it.
DownloadRaises(r) ==
    /\ At(r, "download")
    /\ ~there \/ \E q \in Requests : At(q, "commit")
    /\ Breaks(r)
    /\ UNCHANGED faults

\* Modrinth, the disk or the database fails, or the API is killed.
Fail(r) ==
    /\ faults < MaxFaults
    /\ faults' = faults + 1
    /\ Breaks(r)

-----------------------------------------------------------------------------
Next ==
    \E r \in Requests :
        \/ \E op \in Ops, p \in Projects, v \in Versions, i \in ModIds \union {NoMod},
              g \in Games : Arrive(r, op, p, v, i, g)
        \/ Begin(r)
        \/ Remove(r) \/ Download(r) \/ Insert(r) \/ Save(r) \/ Drop(r)
        \/ (\E i \in ModIds : NextMod(r, i)) \/ CommitGame(r)
        \/ Rmtree(r) \/ CommitDeletion(r)
        \/ DownloadRaises(r) \/ Fail(r)

Spec == Init /\ [][Next]_vars

-----------------------------------------------------------------------------
(* Properties.                                                             *)

\* At rest a mod no operation failed on and no two met on has one row at most,
\* and data/mods holds the jar of that row and no other of the mod: whatever
\* was installed, updated, removed or deleted in between.
JarsMatchRows ==
    InFlight = {} => \A p \in Projects \ unclean :
        /\ Cardinality(Installed(row, p)) <= 1
        /\ {j \in jars : j[1] = p} = {Jar(i, row) : i \in Installed(row, p)}

\* An installation that meets no other operation on its mod and ends well
\* leaves the version asked for in a row and its jar on the disk, also when an
\* earlier operation had lost the jar.
InstallDelivers ==
    [][\A r \in InFlight : req[r].alone /\ req[r].op \in {"install", "automatic"}
                           /\ (Insert(r) \/ Save(r))
        => LET jar == <<req[r].project, req[r].version>> IN
           jar \in jars' /\ \E i \in ModIds : row'[i] # NoRow /\ Jar(i, row') = jar]_vars

\* When the game version moves with no other operation about, every mod that
\* has a version for it is at such a version; earlier failures do not matter.
ModsMoveAlong ==
    [][\A r \in InFlight : req[r].alone /\ CommitGame(r)
        => \A i \in ModIds : row[i] # NoRow /\ Fitting(row[i].project, game') # {}
                => row[i].version \in Fitting(row[i].project, game')]_vars
=============================================================================
