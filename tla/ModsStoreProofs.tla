--------------------------- MODULE ModsStoreProofs ---------------------------
(***************************************************************************)
(* Theorems about ModsStore, for any finite set of versions, any catalogue *)
(* and any number of mods, requests and failures.                          *)
(*                                                                         *)
(* Rows and jars agree at rest only: an operation takes them apart and     *)
(* puts them together. The invariant says how far apart they are at each   *)
(* step of the request that works on the mod, and that the other requests  *)
(* stay away from a mod that is not in unclean, or from one that is alone. *)
(***************************************************************************)
EXTENDS ModsStore, FiniteSetTheorems, WellFoundedInduction, TLAPS

(***************************************************************************)
(* The invariant.                                                          *)
(***************************************************************************)

Touching(r, p) == r \in InFlight /\ p \in Touches(req[r])

\* Nobody else may touch p while r does.
Sole(r, p) == Touching(r, p) /\ (req[r].alone \/ p \notin unclean)

\* Whoever is in flight: ids are not used again, so a row it has read is still
\* the row of the same mod, or gone.
Sane(r) ==
    LET q == req[r] IN
    /\ q.pc = "begin" => q.todo = {} /\ (q.op # "uninstall" => q.mod = NoMod)
    /\ q.pc = "next" => q.op = "change"
    /\ q.pc \in {"rmtree", "commit"} => q.op = "delete"
    /\ q.op = "change" => q.pc \in {"begin", "next"} \/ q.mod # NoMod
    /\ q.pc \in {"remove", "drop"} \/ q.op = "uninstall" => q.mod # NoMod
    /\ q.mod # NoMod /\ q.pc # "begin" => q.seen[q.mod].project = q.project
    /\ q.mod # NoMod => row[q.mod] = NoRow \/ row[q.mod].project = q.project
    /\ q.mod \notin q.todo
    /\ \A i \in ModIds : q.seen[i] # NoRow =>
          row[i] = NoRow \/ row[i].project = q.seen[i].project
    /\ \A i \in q.todo : q.seen[i] # NoRow
    /\ q.op = "change" /\ q.pc \notin {"begin", "next"} =>
          q.version = Update(q.project, q.seen[q.mod].version, q.game)

Working(r, p) == req[r].pc \in {"remove", "download", "save", "drop"} /\ req[r].project = p

Apart(r, p) ==
    Sole(r, p) => there /\ \A b \in Requests : Touching(b, p) => b = r

\* The row r works on is as it was read, and so are those it still has to
\* work on; the jar is there before the row is written.
Current(r, p) ==
    Sole(r, p) =>
        /\ Working(r, p) /\ req[r].mod # NoMod => row[req[r].mod] = req[r].seen[req[r].mod]
        /\ \A i \in req[r].todo : req[r].seen[i].project = p => row[i] = req[r].seen[i]
        /\ Working(r, p) /\ req[r].pc = "save" => <<p, req[r].version>> \in jars

FitsGame(p, v, g) == Fitting(p, g) # {} => v \in Fitting(p, g)

\* A change of the game version has brought p up to it, or will.
Moved(r, p) ==
    Sole(r, p) /\ req[r].op = "change" /\ req[r].pc # "begin" =>
        \A i \in Installed(row, p) :
            \/ i \in req[r].todo
            \/ req[r].pc # "next" /\ i = req[r].mod
            \/ FitsGame(p, row[i].version, req[r].game)

OneRow(p) == \A i, j \in Installed(row, p) : i = j

JarsOf(p) == {v \in Versions : <<p, v>> \in jars}
RowsOf(p) == {row[i].version : i \in Installed(row, p)}

\* Between the removal of the old jar and the row of the new one.
Torn(r, p) ==
    \/ req[r].pc \in {"download", "save", "drop"} /\ req[r].project = p
    \/ req[r].pc = "commit"

\* What a request that works on p leaves of it on its way.
Halfway(r, p) ==
    /\ Torn(r, p) => JarsOf(p) = IF req[r].pc = "save" THEN {req[r].version} ELSE {}
    /\ Working(r, p) /\ req[r].mod = NoMod => Installed(row, p) = {}

Tidy(p) ==
    p \notin unclean =>
        /\ OneRow(p)
        /\ (\A r \in InFlight : ~Torn(r, p)) => JarsOf(p) = RowsOf(p)
        /\ \A r \in InFlight : Halfway(r, p)

IInv ==
    /\ TypeOK
    /\ \A r \in InFlight : Sane(r)
    /\ \A r \in Requests, p \in Projects : Apart(r, p) /\ Current(r, p) /\ Moved(r, p)
    /\ \A p \in Projects : Tidy(p)

-----------------------------------------------------------------------------
(***************************************************************************)
(* The catalogue.                                                          *)
(***************************************************************************)

HasLatest(V) == \E v \in V : \A w \in V : w <= v

\* A smallest set without a last version would have one: the greater of the
\* last of the others and the one that is left over.
LEMMA LatestExists ==
    ASSUME NEW V \in SUBSET Versions, V # {}
    PROVE  HasLatest(V)
<1> DEFINE Sets == FiniteSubsetsOf(Versions)
           Bad == {W \in Sets : W # {} /\ ~HasLatest(W)}
           R == StrictSubsetOrdering(Versions)
<1>1. Versions \subseteq Nat /\ IsFiniteSet(Versions)
  BY NumbersAssumption
<1>2. Sets = SUBSET Versions
  BY <1>1, FS_FiniteSubsetsOfFinite
<1>3. IsWellFoundedOn(R, Sets)
  BY FS_StrictSubsetOrderingWellFounded
<1>4. ASSUME NEW W \in Bad, \A U \in Bad : ~ (<<U, W>> \in R)
      PROVE  FALSE
  <2>1. W \subseteq Versions /\ W # {} /\ ~HasLatest(W)
    BY <1>2
  <2>2. PICK x \in W : TRUE
    BY <2>1
  <2> DEFINE U == W \ {x}
  <2>3. CASE U = {}
    <3>1. \A w \in W : w = x
      BY <2>3
    <3> QED BY <1>1, <2>1, <2>2, <3>1 DEF HasLatest
  <2>4. CASE U # {}
    <3>1. <<U, W>> \in R
      BY <2>1, <2>2 DEF StrictSubsetOrdering
    <3>2. HasLatest(U)
      BY <1>2, <1>4, <2>1, <2>4, <3>1
    <3>3. PICK m \in U : \A w \in U : w <= m
      BY <3>2 DEF HasLatest
    <3>4. CASE x <= m
      BY <1>1, <2>1, <2>2, <3>3, <3>4 DEF HasLatest
    <3>5. CASE ~(x <= m)
      <4>1. \A w \in W : w <= x
        BY <1>1, <2>1, <2>2, <3>3, <3>5
      <4> QED BY <2>1, <2>2, <4>1 DEF HasLatest
    <3> QED BY <3>4, <3>5
  <2> QED BY <2>3, <2>4
<1>5. Bad = {}
  <2>1. SUFFICES ASSUME Bad # {} PROVE FALSE
    OBVIOUS
  <2>2. Bad \subseteq Sets
    OBVIOUS
  <2> HIDE DEF Bad, Sets, R
  <2>3. \E W \in Bad : \A U \in Bad : ~ (<<U, W>> \in R)
    BY <1>3, <2>1, <2>2, WFMin
  <2> QED BY <1>4, <2>3
<1> QED BY <1>2, <1>5

LEMMA LatestIs ==
    ASSUME NEW V \in SUBSET Versions, V # {}
    PROVE  Latest(V) \in V
BY LatestExists DEF HasLatest, Latest

LEMMA ReleasedIs ==
    ASSUME NEW V \in SUBSET Versions, V # {}
    PROVE  Released(V) \in V
<1>1. CASE V \cap Releases = {}
  BY LatestIs, <1>1 DEF Released
<1>2. CASE V \cap Releases # {}
  <2>1. Latest(V \cap Releases) \in V \cap Releases
    BY LatestIs, <1>2
  <2> QED BY <1>2, <2>1 DEF Released
<1> QED BY <1>1, <1>2

LEMMA ChosenIs ==
    ASSUME NEW p
    PROVE  Chosen(p) \in Versions
<1> DEFINE V == IF Fitting(p, game) = {} THEN Versions ELSE Fitting(p, game)
<1>1. V \in SUBSET Versions /\ V # {}
  BY NumbersAssumption DEF Fitting
<1>2. Chosen(p) = Released(V)
  BY DEF Chosen
<1> HIDE DEF V
<1> QED BY <1>1, <1>2, ReleasedIs

\* The update of a mod fits the game version when any version does, and a mod
\* that needs none is at such a version.
LEMMA UpdateIs ==
    ASSUME NEW p, NEW v \in Versions, NEW g
    PROVE  Update(p, v, g) \in Versions /\ FitsGame(p, Update(p, v, g), g)
<1>1. Fitting(p, g) \in SUBSET Versions
  BY DEF Fitting
<1> QED BY <1>1, LatestIs DEF Update, FitsGame

(***************************************************************************)
(* Requests.                                                               *)
(***************************************************************************)

LEMMA FieldTypes ==
    ASSUME NEW q \in Request
    PROVE  /\ q # Idle
           /\ q.op \in Ops /\ q.project \in Projects /\ q.version \in Versions
           /\ q.game \in Games /\ q.mod \in ModIds \union {NoMod} /\ q.pc \in Pcs
           /\ q.seen \in Rows /\ q.todo \subseteq ModIds /\ q.alone \in BOOLEAN
           /\ Touches(q) \subseteq Projects /\ q.project \in Touches(q)
<1>1. q.pc \in Pcs /\ q.project \in Projects
  BY DEF Request
<1>2. q # Idle
  BY <1>1 DEF Pcs, Idle
<1> QED BY <1>1, <1>2 DEF Request, Touches

LEMMA FlightType ==
    ASSUME TypeOK, NEW r \in Requests
    PROVE  /\ r \in InFlight <=> req[r] \in Request
           /\ r \in InFlight <=> req[r] # Idle
           /\ req[r].pc \in Pcs => r \in InFlight
<1>1. req[r] \in Request \union {Idle}
  BY DEF TypeOK
<1>2. Idle.pc \notin Pcs
  BY DEF Idle, Pcs
<1> QED BY <1>1, <1>2, FieldTypes DEF InFlight

\* A row of a mod is not the row that is none.
LEMMA RowTypes ==
    ASSUME NEW rows \in Rows, NEW i \in ModIds
    PROVE  /\ rows[i] \in Row \/ rows[i] = NoRow
           /\ rows[i] # NoRow <=> rows[i].project \in Projects
           /\ rows[i] # NoRow => /\ rows[i] \in Row /\ rows[i].version \in Versions
                                 /\ rows[i] = [project |-> rows[i].project,
                                               version |-> rows[i].version]
<1>1. rows[i] \in Row \union {NoRow}
  BY DEF Rows
<1>2. NoRow.project = NoMod /\ NoMod \notin Projects
  BY NoModAssumption DEF NoRow
<1> QED BY <1>1, <1>2 DEF Row

LEMMA CopyIs ==
    ASSUME TypeOK, NEW ids
    PROVE  /\ Copy(ids) \in Rows
           /\ \A i \in ModIds : Copy(ids)[i] = IF i \in ids THEN row[i] ELSE NoRow
BY DEF TypeOK, Copy, Rows

(***************************************************************************)
(* A step of one request.                                                  *)
(***************************************************************************)

\* The request takes a step and leaves the others where they are.
Own(r) ==
    /\ r \in InFlight
    /\ supports' = supports /\ unclean \subseteq unclean'
    /\ \A b \in Requests \ {r} : req'[b] = req[b]
    /\ req'[r] # Idle =>
          /\ req'[r].op = req[r].op /\ req'[r].alone = req[r].alone
          /\ req'[r].project = req[r].project \/ req[r].op = "change"
    /\ there' = there \/ (req'[r] = Idle /\ Touches(req[r]) = Projects)

\* It changes the rows and jars of its own mods only, and a row that was there
\* keeps its mod.
Spares(r) ==
    /\ \A i \in ModIds :
          \/ row'[i] = NoRow
          \/ row[i] # NoRow /\ row'[i].project = row[i].project
          \/ Fresh(i)
    /\ \A p \in Projects \ Touches(req[r]) :
          /\ \A i \in Installed(row, p) \union Installed(row', p) : row'[i] = row[i]
          /\ \A v \in Versions : <<p, v>> \in jars' <=> <<p, v>> \in jars

\* What Tidy says when only r is about.
OwnTidy(r, p) ==
    p \notin unclean =>
        /\ OneRow(p)
        /\ (r \in InFlight => ~Torn(r, p)) => JarsOf(p) = RowsOf(p)
        /\ r \in InFlight => Halfway(r, p)

LEMMA TornTouches ==
    ASSUME TypeOK, NEW b \in InFlight, Sane(b), NEW p \in Projects,
           Torn(b, p) \/ Working(b, p)
    PROVE  Touching(b, p)
<1>1. b \in Requests /\ req[b] \in Request
  BY FlightType DEF InFlight
<1>2. CASE req[b].pc = "commit"
  BY <1>1, <1>2 DEF Sane, Touches, Touching
<1>3. CASE req[b].project = p
  BY <1>1, <1>3, FieldTypes DEF Touching
<1> QED BY <1>2, <1>3 DEF Torn, Working

LEMMA SoleIsAlone ==
    ASSUME IInv, NEW b \in Requests, NEW r \in Requests, NEW p \in Projects,
           Sole(b, p), Touching(r, p)
    PROVE  there /\ r = b
BY DEF IInv, Apart

LEMMA OwnTidyIs ==
    ASSUME IInv, NEW r \in InFlight, NEW p \in Touches(req[r])
    PROVE  /\ p \in Projects /\ Touching(r, p)
           /\ OwnTidy(r, p)
           /\ p \notin unclean => Sole(r, p)
           /\ Sole(r, p) => there /\ \A b \in Requests : Touching(b, p) => b = r
<1>1. r \in Requests /\ TypeOK /\ p \in Projects /\ Touching(r, p)
  BY FlightType, FieldTypes DEF InFlight, IInv, Touching
<1>2. Apart(r, p) /\ Tidy(p) /\ \A b \in InFlight : Sane(b) /\ b \in Requests
  BY <1>1 DEF IInv, InFlight
<1>3. p \notin unclean => Sole(r, p)
  BY <1>1 DEF Sole
<1>4. ASSUME p \notin unclean PROVE OwnTidy(r, p)
  <2>1. \A b \in InFlight : Torn(b, p) => b = r
    BY <1>1, <1>2, <1>3, <1>4, TornTouches DEF Apart
  <2> QED BY <1>2, <1>4, <2>1 DEF Tidy, OwnTidy
<1> QED BY <1>1, <1>2, <1>3, <1>4 DEF Apart, OwnTidy

LEMMA StepTouches ==
    ASSUME TypeOK, TypeOK', NEW r \in Requests, Own(r), NEW b \in Requests, NEW p
    PROVE  /\ b \in InFlight' => b \in InFlight
           /\ Touching(b, p)' => Touching(b, p)
           /\ Sole(b, p)' => Sole(b, p)
           /\ b # r => (b \in InFlight <=> b \in InFlight')
           /\ b # r => (Touching(b, p) <=> Touching(b, p)')
<1>1. CASE b # r
  BY <1>1 DEF Own, InFlight, Touching, Sole
<1>2. CASE b = r
  <2>1. b \in InFlight
    BY <1>2 DEF Own
  <2>2. ASSUME b \in InFlight' PROVE req'[b].op = req[b].op /\ Touches(req'[b]) = Touches(req[b])
                                    /\ req'[b].alone = req[b].alone
    BY <1>2, <2>2 DEF Own, Touches, InFlight
  <2> QED BY <1>2, <2>1, <2>2 DEF Own, Touching, Sole
<1> QED BY <1>1, <1>2

\* What the step leaves true of a request that does not take it.
LEMMA OthersSane ==
    ASSUME TypeOK, TypeOK', NEW r \in Requests, Own(r), Spares(r),
           NEW b \in InFlight, b # r, Sane(b)
    PROVE  Sane(b)'
<1>1. b \in Requests /\ req[b] \in Request /\ req'[b] = req[b]
  BY FlightType DEF InFlight, Own
<1>2. req[b].mod \in ModIds \union {NoMod} /\ req[b].seen \in Rows
  BY <1>1, FieldTypes
<1>3. ASSUME NEW i \in ModIds, NEW p, req[b].mod = i \/ req[b].seen[i] # NoRow,
             row[i] = NoRow \/ row[i].project = p
      PROVE  row'[i] = NoRow \/ row'[i].project = p
  <2>1. ~Fresh(i)
    BY <1>3 DEF Fresh
  <2> QED BY <1>3, <2>1 DEF Spares
<1>4. req[b].mod # NoMod => row'[req[b].mod] = NoRow \/ row'[req[b].mod].project = req[b].project
  BY <1>2, <1>3 DEF Sane
<1>5. \A i \in ModIds : req[b].seen[i] # NoRow =>
          row'[i] = NoRow \/ row'[i].project = req[b].seen[i].project
  BY <1>3 DEF Sane
<1>6. \A p, v, g : Update(p, v, g)' = Update(p, v, g)
  BY DEF Own, Update, Fitting
<1> QED BY <1>1, <1>4, <1>5, <1>6 DEF Sane

LEMMA SparedMod ==
    ASSUME TypeOK, TypeOK', NEW r \in Requests, Spares(r),
           NEW p \in Projects, p \notin Touches(req[r])
    PROVE  /\ Installed(row', p) = Installed(row, p)
           /\ \A i \in Installed(row, p) : row'[i] = row[i]
           /\ JarsOf(p)' = JarsOf(p) /\ RowsOf(p)' = RowsOf(p)
           /\ OneRow(p) => OneRow(p)'
<1>1. /\ \A i \in Installed(row, p) \union Installed(row', p) : row'[i] = row[i]
      /\ \A v \in Versions : <<p, v>> \in jars' <=> <<p, v>> \in jars
  BY DEF Spares
<1>2. Installed(row', p) = Installed(row, p)
  BY <1>1 DEF Installed
<1>3. JarsOf(p)' = JarsOf(p)
  BY <1>1 DEF JarsOf
<1>4. RowsOf(p)' = RowsOf(p)
  BY <1>1, <1>2 DEF RowsOf
<1> QED BY <1>1, <1>2, <1>3, <1>4 DEF OneRow

LEMMA OthersUndisturbed ==
    ASSUME IInv, TypeOK', NEW r \in Requests, Own(r), Spares(r),
           NEW b \in Requests, b # r, NEW p \in Projects
    PROVE  Current(b, p)' /\ Moved(b, p)'
<1>1. /\ TypeOK /\ Current(b, p) /\ Moved(b, p) /\ r \in InFlight
      /\ req'[b] = req[b] /\ supports' = supports
  BY DEF IInv, Own
<1> SUFFICES ASSUME Sole(b, p)' PROVE Current(b, p)' /\ Moved(b, p)'
  BY DEF Current, Moved
<1>2. Sole(b, p)
  BY <1>1, StepTouches
<1>3. b \in InFlight /\ req[b] \in Request /\ (b \in InFlight => Sane(b))
  BY <1>1, <1>2, FlightType DEF Sole, Touching, IInv
<1>4. p \notin Touches(req[r])
  BY <1>1, <1>2, SoleIsAlone DEF Touching
<1>5. /\ Installed(row', p) = Installed(row, p)
      /\ \A i \in Installed(row, p) : row'[i] = row[i]
      /\ JarsOf(p)' = JarsOf(p)
  BY <1>1, <1>4, SparedMod
<1>6. req[b].seen \in Rows /\ req[b].mod \in ModIds \union {NoMod}
      /\ req[b].todo \subseteq ModIds /\ req[b].version \in Versions
  BY <1>3, FieldTypes
<1>7. Current(b, p)'
  <2>1. ASSUME Working(b, p), req[b].mod # NoMod PROVE row'[req[b].mod] = req[b].seen[req[b].mod]
    <3>1. row[req[b].mod] = req[b].seen[req[b].mod]
      BY <1>1, <1>2, <2>1 DEF Current
    <3>2. req[b].seen[req[b].mod].project = p
      BY <1>3, <2>1 DEF Sane, Working
    <3>3. req[b].mod \in Installed(row, p)
      BY <1>6, <2>1, <3>1, <3>2 DEF Installed
    <3> QED BY <1>5, <3>1, <3>3
  <2>2. ASSUME NEW i \in req[b].todo, req[b].seen[i].project = p PROVE row'[i] = req[b].seen[i]
    <3>1. row[i] = req[b].seen[i]
      BY <1>1, <1>2, <2>2 DEF Current
    <3>2. i \in Installed(row, p)
      BY <1>6, <2>2, <3>1 DEF Installed
    <3> QED BY <1>5, <3>1, <3>2
  <2>3. ASSUME Working(b, p), req[b].pc = "save" PROVE <<p, req[b].version>> \in jars'
    <3>1. <<p, req[b].version>> \in jars
      BY <1>1, <1>2, <2>3 DEF Current
    <3> QED BY <1>5, <1>6, <3>1 DEF JarsOf
  <2> QED BY <1>1, <2>1, <2>2, <2>3 DEF Current, Working
<1>8. Moved(b, p)'
  <2>1. SUFFICES ASSUME req[b].op = "change", req[b].pc # "begin", NEW i \in Installed(row, p)
                 PROVE  \/ i \in req[b].todo
                        \/ req[b].pc # "next" /\ i = req[b].mod
                        \/ FitsGame(p, row[i].version, req[b].game)'
    BY <1>1, <1>5 DEF Moved
  <2>2. FitsGame(p, row[i].version, req[b].game)' <=> FitsGame(p, row[i].version, req[b].game)
    BY <1>1, <1>5, <2>1 DEF FitsGame, Fitting
  <2> QED BY <1>1, <1>2, <1>5, <2>1, <2>2 DEF Moved
<1> QED BY <1>7, <1>8

LEMMA OthersTidy ==
    ASSUME IInv, TypeOK', NEW r \in Requests, Own(r), Spares(r),
           r \in InFlight' => Sane(r)',
           NEW p \in Projects, p \notin Touches(req[r])
    PROVE  Tidy(p)'
<1>1. TypeOK /\ Tidy(p) /\ r \in InFlight /\ Sane(r) /\ unclean \subseteq unclean'
  BY DEF IInv, Own
<1>2. ~Torn(r, p)
  BY <1>1, TornTouches DEF Touching
<1>3. r \in InFlight' => ~Torn(r, p)' /\ ~Working(r, p)'
  <2> SUFFICES ASSUME r \in InFlight' PROVE ~Torn(r, p)' /\ ~Working(r, p)'
    OBVIOUS
  <2>1. req'[r] # Idle /\ req'[r].op = req[r].op
    BY DEF Own, InFlight
  <2>2. req'[r] \in Request /\ Touches(req'[r]) = Touches(req[r])
    BY <2>1 DEF TypeOK, Own, Touches
  <2>3. req'[r].project # p
    BY <2>2, FieldTypes
  <2>4. req'[r].pc # "commit"
    BY <2>1, <2>2 DEF Sane, Touches
  <2> QED BY <2>3, <2>4 DEF Torn, Working
<1>4. /\ Installed(row', p) = Installed(row, p)
      /\ JarsOf(p)' = JarsOf(p) /\ RowsOf(p)' = RowsOf(p)
      /\ OneRow(p) => OneRow(p)'
  BY <1>1, SparedMod
<1>5. \A b \in InFlight : b # r => req'[b] = req[b] /\ b \in InFlight'
  BY DEF Own, InFlight
<1>6. \A b \in InFlight' : b # r => b \in InFlight /\ req'[b] = req[b]
  BY DEF Own, InFlight
<1> SUFFICES ASSUME p \notin unclean'
             PROVE  /\ OneRow(p)'
                    /\ (\A b \in InFlight' : ~Torn(b, p)') => JarsOf(p)' = RowsOf(p)'
                    /\ \A b \in InFlight' : Halfway(b, p)'
  BY DEF Tidy
<1>7. ASSUME \A b \in InFlight' : ~Torn(b, p)' PROVE JarsOf(p)' = RowsOf(p)'
  <2>1. ASSUME NEW b \in InFlight PROVE ~Torn(b, p)
    <3>1. CASE b = r
      BY <1>2, <3>1
    <3>2. CASE b # r
      BY <1>5, <1>7, <3>2 DEF Torn
    <3> QED BY <3>1, <3>2
  <2> QED BY <1>1, <1>4, <2>1 DEF Tidy
<1>8. ASSUME NEW b \in InFlight' PROVE Halfway(b, p)'
  <2>1. CASE b = r
    BY <1>3, <2>1 DEF Halfway
  <2>2. CASE b # r
    <3>1. Halfway(b, p)
      BY <1>1, <1>6, <2>2 DEF Tidy
    <3> QED BY <1>4, <1>6, <2>2, <3>1 DEF Halfway, Torn, Working
  <2> QED BY <2>1, <2>2
<1> QED BY <1>1, <1>4, <1>7, <1>8 DEF Tidy

\* What a request has to show of its own mods, and of nothing else.
LEMMA OwnStep ==
    ASSUME IInv, TypeOK', NEW r \in Requests, Own(r), Spares(r),
           r \in InFlight' => Sane(r)',
           \A p \in Touches(req[r]) : Current(r, p)' /\ Moved(r, p)' /\ OwnTidy(r, p)'
    PROVE  IInv'
<1>1. TypeOK /\ r \in InFlight /\ Touches(req[r]) \subseteq Projects
  BY FlightType, FieldTypes DEF IInv, Own
<1>2. ASSUME NEW b \in InFlight' PROVE Sane(b)'
  <2>1. b \in Requests
    BY DEF InFlight
  <2>2. CASE b # r
    BY <1>1, <2>1, <2>2, StepTouches, OthersSane DEF IInv
  <2> QED BY <2>2
<1>3. ASSUME NEW b \in Requests, NEW p \in Projects PROVE Apart(b, p)'
  <2> SUFFICES ASSUME Sole(b, p)'
               PROVE  there' /\ \A c \in Requests : Touching(c, p)' => c = b
    BY DEF Apart
  <2>1. Sole(b, p) /\ Touching(b, p)'
    BY <1>1, StepTouches DEF Sole
  <2>2. there /\ \A c \in Requests : Touching(c, p) => c = b
    BY <2>1, SoleIsAlone DEF Sole
  <2>3. \A c \in Requests : Touching(c, p)' => c = b
    BY <1>1, <2>2, StepTouches
  <2>4. there'
    <3> SUFFICES ASSUME req'[r] = Idle, Touches(req[r]) = Projects PROVE FALSE
      BY <2>2 DEF Own
    <3>1. Touching(r, p)
      BY <1>1 DEF Touching
    <3>2. b = r
      BY <2>2, <3>1
    <3> QED BY <2>1, <3>2 DEF Touching, InFlight
  <2> QED BY <2>3, <2>4
<1>4. ASSUME NEW b \in Requests, NEW p \in Projects PROVE Current(b, p)' /\ Moved(b, p)'
  <2>1. CASE b # r
    BY <2>1, OthersUndisturbed
  <2>2. CASE b = r /\ p \in Touches(req[r])
    BY <2>2
  <2>3. CASE b = r /\ p \notin Touches(req[r])
    <3>1. ~Sole(b, p)'
      BY <1>1, <2>3, StepTouches DEF Sole, Touching
    <3> QED BY <3>1 DEF Current, Moved
  <2> QED BY <2>1, <2>2, <2>3
<1>5. ASSUME NEW p \in Projects PROVE Tidy(p)'
  <2>1. CASE p \notin Touches(req[r])
    BY <2>1, OthersTidy
  <2>2. CASE p \in Touches(req[r])
    <3> SUFFICES ASSUME p \notin unclean' PROVE Tidy(p)'
      BY DEF Tidy
    <3>1. p \notin unclean /\ Sole(r, p)
      BY <1>1, <2>2 DEF Own, Sole, Touching
    <3>2. \A b \in Requests : Touching(b, p) => b = r
      BY <3>1, SoleIsAlone
    <3>3. ASSUME NEW b \in InFlight', b # r PROVE ~Torn(b, p)' /\ ~Working(b, p)'
      <4>1. b \in InFlight /\ b \in Requests /\ req'[b] = req[b] /\ Sane(b)
        BY <3>3 DEF Own, InFlight, IInv
      <4>2. ~Torn(b, p) /\ ~Working(b, p)
        BY <1>1, <3>2, <3>3, <4>1, TornTouches
      <4> QED BY <4>1, <4>2 DEF Torn, Working
    <3>4. OwnTidy(r, p)'
      BY <2>2
    <3>5. ASSUME NEW b \in InFlight' PROVE Halfway(b, p)'
      <4>1. CASE b # r
        BY <3>3, <4>1 DEF Halfway
      <4>2. CASE b = r
        BY <3>4, <4>2 DEF OwnTidy
      <4> QED BY <4>1, <4>2
    <3>6. OneRow(p)' /\ ((\A b \in InFlight' : ~Torn(b, p)') => JarsOf(p)' = RowsOf(p)')
      BY <3>4 DEF OwnTidy
    <3> QED BY <3>5, <3>6 DEF Tidy
  <2> QED BY <2>1, <2>2
<1> QED BY <1>2, <1>3, <1>4, <1>5 DEF IInv

\* A request that arrives marks those it meets, and its mods.
LEMMA ArriveKeeps ==
    ASSUME IInv, NEW r \in Requests, NEW op \in Ops, NEW p \in Projects, NEW v \in Versions,
           NEW i \in ModIds \union {NoMod}, NEW g \in Games, Arrive(r, op, p, v, i, g)
    PROVE  IInv'
<1> DEFINE new == [op |-> op, project |-> p, version |-> v, game |-> g, mod |-> i,
                   pc |-> "begin", seen |-> Copy({}), todo |-> {}, alone |-> TRUE]
           met == {q \in InFlight : Touches(req[q]) \cap Touches(new) # {}}
           mine == Touches(new)
<1>1. /\ req[r] = Idle /\ there
      /\ op = "uninstall" => i # NoMod /\ row[i].project = p
      /\ op # "uninstall" => i = NoMod
      /\ req' = [q \in Requests |->
                   IF q = r THEN [new EXCEPT !.alone = met = {}]
                   ELSE IF q \in met THEN [req[q] EXCEPT !.alone = FALSE] ELSE req[q]]
      /\ unclean' = unclean \union UNION {Touches(req[q]) \cap mine : q \in met}
      /\ UNCHANGED <<supports, there, game, row, jars, faults>>
  BY DEF Arrive
<1>2. TypeOK /\ r \notin InFlight /\ \A b \in InFlight : b \in Requests /\ req[b] \in Request
  BY <1>1, FlightType DEF IInv, InFlight
<1>3. new \in Request
  <2>1. Copy({}) \in Rows /\ "begin" \in Pcs /\ {} \subseteq ModIds
    BY <1>2, CopyIs DEF Pcs
  <2> QED BY <2>1 DEF Request
<1>4. /\ Copy({}) \in Rows
      /\ \A j \in ModIds : Copy({})[j] = NoRow
  BY <1>2, CopyIs
<1>5. /\ req'[r] \in Request /\ Touches(req'[r]) = mine
      /\ req'[r].op = op /\ req'[r].project = p /\ req'[r].mod = i /\ req'[r].pc = "begin"
      /\ req'[r].seen = Copy({}) /\ req'[r].todo = {}
      /\ req'[r].alone <=> met = {}
  <2>1. req'[r] = [new EXCEPT !.alone = met = {}]
    BY <1>1
  <2> HIDE DEF met
  <2>3. req'[r] \in Request
    <3> HIDE DEF new
    <3>1. CASE met = {}
      <4>1. req'[r] = [new EXCEPT !.alone = TRUE]
        BY <2>1, <3>1
      <4> QED BY <1>3, <4>1 DEF Request
    <3>2. CASE met # {}
      <4>1. req'[r] = [new EXCEPT !.alone = FALSE]
        BY <2>1, <3>2
      <4> QED BY <1>3, <4>1 DEF Request
    <3> QED BY <3>1, <3>2
  <2>4. /\ req'[r].op = new.op /\ req'[r].project = new.project
        /\ req'[r].mod = new.mod /\ req'[r].pc = new.pc /\ req'[r].seen = new.seen
        /\ req'[r].todo = new.todo
    <3> HIDE DEF new
    <3> QED BY <1>3, <2>1 DEF Request
  <2>5. req'[r].alone <=> met = {}
    <3> HIDE DEF new
    <3>1. CASE met = {}
      <4>1. req'[r] = [new EXCEPT !.alone = TRUE]
        BY <2>1, <3>1
      <4> QED BY <1>3, <3>1, <4>1 DEF Request
    <3>2. CASE met # {}
      <4>1. req'[r] = [new EXCEPT !.alone = FALSE]
        BY <2>1, <3>2
      <4> QED BY <1>3, <3>2, <4>1 DEF Request
    <3> QED BY <3>1, <3>2
  <2> QED BY <2>3, <2>4, <2>5 DEF Touches
<1>6. mine \subseteq Projects
  BY <1>3, FieldTypes
<1> HIDE DEF new
<1>7. ASSUME NEW b \in InFlight
      PROVE  /\ b # r /\ b \in Requests /\ b \in InFlight' /\ req'[b] \in Request
             /\ Touches(req'[b]) = Touches(req[b]) /\ Touches(req[b]) \subseteq Projects
             /\ req'[b].op = req[b].op /\ req'[b].project = req[b].project
             /\ req'[b].version = req[b].version /\ req'[b].game = req[b].game
             /\ req'[b].mod = req[b].mod /\ req'[b].pc = req[b].pc
             /\ req'[b].seen = req[b].seen /\ req'[b].todo = req[b].todo
             /\ req'[b].alone => req[b].alone
             /\ b \in met => ~req'[b].alone
  <2>1. b # r /\ b \in Requests /\ req[b] \in Request
    BY <1>2
  <2>2. req'[b] = IF b \in met THEN [req[b] EXCEPT !.alone = FALSE] ELSE req[b]
    BY <1>1, <2>1
  <2>3. CASE b \in met
    <3>1. req'[b] = [req[b] EXCEPT !.alone = FALSE]
      BY <2>2, <2>3
    <3> HIDE DEF met
    <3>2. req'[b] \in Request
      BY <2>1, <3>1 DEF Request
    <3> QED BY <2>1, <3>1, <3>2, FieldTypes DEF Request, Touches, InFlight
  <2>4. CASE b \notin met
    BY <2>1, <2>2, <2>4, FieldTypes DEF InFlight
  <2> QED BY <2>3, <2>4
<1>8. InFlight' = InFlight \union {r}
  <2>1. \A b \in Requests : b # r /\ b \notin InFlight => req'[b] = req[b]
    BY <1>1
  <2>2. r \in InFlight'
    BY <1>5, FieldTypes DEF InFlight
  <2> QED BY <1>7, <2>1, <2>2 DEF InFlight
<1>9. TypeOK'
  <2>1. ASSUME NEW b \in Requests PROVE req'[b] \in Request \union {Idle}
    <3>1. CASE b = r
      BY <1>5, <3>1
    <3>2. CASE b # r
      BY <1>1, <1>7, <1>8, <3>2 DEF InFlight
    <3> QED BY <3>1, <3>2
  <2>2. req' \in [Requests -> Request \union {Idle}]
    BY <1>1, <2>1
  <2>3. unclean' \subseteq Projects
    BY <1>1, <1>2, <1>6 DEF TypeOK
  <2> QED BY <1>1, <1>2, <2>2, <2>3 DEF TypeOK
\* The mods it shares with others are unclean, and none of those is alone.
<1>10. ASSUME NEW b \in InFlight, NEW s \in Projects, Sole(b, s)'
       PROVE  Sole(b, s) /\ s \notin mine
  <2>1. s \in Touches(req[b]) /\ (req'[b].alone \/ s \notin unclean')
    BY <1>7, <1>10 DEF Sole, Touching
  <2>2. Sole(b, s)
    BY <1>1, <1>7, <2>1 DEF Sole, Touching
  <2>3. ASSUME s \in mine PROVE FALSE
    <3>1. b \in met
      BY <2>1, <2>3
    <3>2. ~req'[b].alone
      BY <1>7, <3>1
    <3>3. s \in unclean'
      BY <1>1, <2>1, <2>3, <3>1
    <3> QED BY <2>1, <3>2, <3>3
  <2> QED BY <2>2, <2>3
<1>11. ASSUME NEW s \in Projects, Sole(r, s)', NEW b \in InFlight
       PROVE  ~Touching(b, s)'
  <2>1. s \in mine /\ (met = {} \/ s \notin unclean')
    BY <1>5, <1>11 DEF Sole, Touching
  <2>2. ASSUME s \in Touches(req[b]) PROVE FALSE
    <3>1. b \in met
      BY <2>1, <2>2
    <3> QED BY <1>1, <2>1, <2>2, <3>1
  <2> QED BY <1>7, <2>2 DEF Touching
<1> HIDE DEF met, mine
<1>16. row' = row /\ jars' = jars /\ supports' = supports /\ there' = there
  BY <1>1
<1>12. ASSUME NEW b \in InFlight' PROVE Sane(b)'
  <2>1. CASE b = r
    BY <1>1, <1>4, <1>5, <2>1 DEF Sane
  <2>2. CASE b # r
    <3>1. b \in InFlight /\ Sane(b)
      BY <1>8, <2>2 DEF IInv
    <3>2. \A s, w, h : Update(s, w, h)' = Update(s, w, h)
      BY <1>16 DEF Update, Fitting
    <3>3. /\ req'[b].op = req[b].op /\ req'[b].project = req[b].project
          /\ req'[b].version = req[b].version /\ req'[b].game = req[b].game
          /\ req'[b].mod = req[b].mod /\ req'[b].pc = req[b].pc
          /\ req'[b].seen = req[b].seen /\ req'[b].todo = req[b].todo
      BY <1>7, <3>1
    <3> QED BY <1>16, <3>1, <3>2, <3>3 DEF Sane
  <2> QED BY <2>1, <2>2
<1>13. ASSUME NEW b \in Requests, NEW s \in Projects PROVE Apart(b, s)'
  <2> SUFFICES ASSUME Sole(b, s)'
               PROVE  there' /\ \A c \in Requests : Touching(c, s)' => c = b
    BY DEF Apart
  <2>1. CASE b = r
    BY <1>1, <1>8, <1>11, <2>1 DEF Touching
  <2>2. CASE b # r
    <3>1. b \in InFlight
      BY <1>8, <2>2 DEF Sole, Touching
    <3>2. Sole(b, s) /\ s \notin mine
      BY <1>10, <3>1
    <3>3. \A c \in Requests : Touching(c, s) => c = b
      BY <3>2 DEF IInv, Apart
    <3>4. ASSUME NEW c \in Requests, Touching(c, s)' PROVE c = b
      <4>1. c # r
        BY <1>5, <3>2, <3>4 DEF Touching
      <4>2. Touching(c, s)
        BY <1>7, <1>8, <3>4, <4>1 DEF Touching
      <4> QED BY <3>3, <4>2
    <3> QED BY <1>1, <3>4
  <2> QED BY <2>1, <2>2
<1>14. ASSUME NEW b \in Requests, NEW s \in Projects PROVE Current(b, s)' /\ Moved(b, s)'
  <2> SUFFICES ASSUME Sole(b, s)' PROVE Current(b, s)' /\ Moved(b, s)'
    BY DEF Current, Moved
  <2>1. CASE b = r
    BY <1>5, <2>1 DEF Current, Moved, Working
  <2>2. CASE b # r
    <3>1. b \in InFlight
      BY <1>8, <2>2 DEF Sole, Touching
    <3>2. Sole(b, s) /\ Current(b, s) /\ Moved(b, s)
      BY <1>10, <3>1 DEF IInv
    <3>3. /\ req'[b].op = req[b].op /\ req'[b].project = req[b].project
          /\ req'[b].version = req[b].version /\ req'[b].game = req[b].game
          /\ req'[b].mod = req[b].mod /\ req'[b].pc = req[b].pc
          /\ req'[b].seen = req[b].seen /\ req'[b].todo = req[b].todo
      BY <1>7, <3>1
    <3>4. Current(b, s)'
      BY <1>16, <3>2, <3>3 DEF Current, Working
    <3>5. \A h : Fitting(s, h)' = Fitting(s, h)
      BY <1>16 DEF Fitting
    <3>6. Installed(row, s)' = Installed(row, s)
      BY <1>16
    <3>7. Moved(b, s)'
      BY <1>16, <3>2, <3>3, <3>5, <3>6 DEF Moved, FitsGame
    <3> QED BY <3>4, <3>7
  <2> QED BY <2>1, <2>2
<1>15. ASSUME NEW s \in Projects PROVE Tidy(s)'
  <2> SUFFICES ASSUME s \notin unclean' PROVE Tidy(s)'
    BY DEF Tidy
  <2>1. Tidy(s) /\ s \notin unclean
    BY <1>1 DEF IInv
  <2>2. OneRow(s)' = OneRow(s) /\ JarsOf(s)' = JarsOf(s) /\ RowsOf(s)' = RowsOf(s)
    BY <1>1 DEF OneRow, JarsOf, RowsOf
  <2>3. \A b \in InFlight : Torn(b, s)' <=> Torn(b, s)
    BY <1>7 DEF Torn
  <2>4. ASSUME NEW b \in InFlight PROVE Halfway(b, s)'
    <3>1. /\ req'[b].project = req[b].project /\ req'[b].version = req[b].version
          /\ req'[b].mod = req[b].mod /\ req'[b].pc = req[b].pc
      BY <1>7
    <3>2. Halfway(b, s) /\ (Torn(b, s)' <=> Torn(b, s)) /\ Installed(row, s)' = Installed(row, s)
      BY <1>16, <2>1, <2>3 DEF Tidy
    <3> QED BY <2>2, <3>1, <3>2 DEF Halfway, Working
  <2>5. Halfway(r, s)'
    BY <1>5 DEF Halfway, Torn, Working
  <2>6. (\A b \in InFlight' : ~Torn(b, s)') => JarsOf(s)' = RowsOf(s)'
    BY <1>8, <2>1, <2>2, <2>3 DEF Tidy
  <2> QED BY <1>8, <2>1, <2>2, <2>4, <2>5, <2>6 DEF Tidy
<1> QED BY <1>9, <1>12, <1>13, <1>14, <1>15 DEF IInv

(***************************************************************************)
(* The two ways a step ends.                                               *)
(***************************************************************************)

LEMMA SparesAll ==
    ASSUME NEW r, row' = row, jars' = jars
    PROVE  Spares(r)
BY DEF Spares

\* The request is over: its mods have to be tidy, unless they are unclean now.
LEMMA DoneKeeps ==
    ASSUME IInv, NEW r \in InFlight, Done(r), Spares(r),
           supports' = supports, unclean \subseteq unclean', unclean' \subseteq Projects,
           there' \in BOOLEAN, game' \in Games, row' \in Rows,
           jars' \subseteq Projects \X Versions, faults' \in 0 .. MaxFaults,
           there' = there \/ Touches(req[r]) = Projects,
           \A p \in Touches(req[r]) : p \notin unclean' => OneRow(p)' /\ JarsOf(p)' = RowsOf(p)'
    PROVE  IInv'
<1>1. TypeOK /\ r \in Requests
  BY DEF IInv, InFlight
<1>2. req'[r] = Idle /\ \A b \in Requests \ {r} : req'[b] = req[b]
  BY <1>1 DEF Done, TypeOK
<1>3. TypeOK'
  BY <1>1 DEF TypeOK, Done
<1>4. Own(r)
  <2>1. there' = there \/ (req'[r] = Idle /\ Touches(req[r]) = Projects)
    BY <1>2
  <2>2. supports' = supports /\ unclean \subseteq unclean'
    OBVIOUS
  <2> QED BY <1>2, <2>1, <2>2 DEF Own
<1>5. r \notin InFlight'
  BY <1>2 DEF InFlight
<1>6. \A p \in Touches(req[r]) : Current(r, p)' /\ Moved(r, p)' /\ OwnTidy(r, p)'
  BY <1>5 DEF Current, Moved, OwnTidy, Sole, Touching
<1> QED BY <1>1, <1>3, <1>4, <1>5, <1>6, OwnStep

\* The request goes on.
LEMMA GoKeeps ==
    ASSUME IInv, NEW r \in InFlight, NEW q \in Request, req' = [req EXCEPT ![r] = q],
           q.op = req[r].op, q.alone = req[r].alone,
           q.project = req[r].project \/ req[r].op = "change",
           supports' = supports, there' = there, game' = game,
           unclean' = unclean, faults' = faults,
           row' \in Rows, jars' \subseteq Projects \X Versions,
           Spares(r), Sane(r)',
           \A p \in Touches(req[r]) : Current(r, p)' /\ Moved(r, p)' /\ OwnTidy(r, p)'
    PROVE  IInv'
<1>1. TypeOK /\ r \in Requests
  BY DEF IInv, InFlight
<1>2. req'[r] = q /\ \A b \in Requests \ {r} : req'[b] = req[b]
  BY <1>1 DEF TypeOK
<1>3. TypeOK'
  BY <1>1 DEF TypeOK
<1>4. Own(r)
  <2>1. there' = there /\ supports' = supports /\ unclean' = unclean
    OBVIOUS
  <2>2. req'[r].op = req[r].op /\ req'[r].alone = req[r].alone
    BY <1>2
  <2>3. req'[r].project = req[r].project \/ req[r].op = "change"
    BY <1>2
  <2> QED BY <1>2, <2>1, <2>2, <2>3 DEF Own
<1> QED BY <1>1, <1>3, <1>4, OwnStep

\* What is known of a request in flight and of its mods.
LEMMA Knows ==
    ASSUME IInv, NEW r \in InFlight
    PROVE  /\ TypeOK /\ r \in Requests /\ req[r] \in Request /\ Sane(r)
           /\ req[r].project \in Touches(req[r]) /\ Touches(req[r]) \subseteq Projects
           /\ \A p \in Touches(req[r]) :
                /\ Current(r, p) /\ Moved(r, p) /\ OwnTidy(r, p)
                /\ p \notin unclean => Sole(r, p)
                /\ Sole(r, p) => there
<1>1. TypeOK /\ r \in Requests /\ req[r] \in Request /\ Sane(r)
  BY FlightType DEF IInv, InFlight
<1>2. req[r].project \in Touches(req[r]) /\ Touches(req[r]) \subseteq Projects
  BY <1>1, FieldTypes
<1>3. ASSUME NEW p \in Touches(req[r])
      PROVE  /\ Current(r, p) /\ Moved(r, p) /\ OwnTidy(r, p)
             /\ p \notin unclean => Sole(r, p)
             /\ Sole(r, p) => there
  BY <1>1, <1>2, OwnTidyIs DEF IInv
<1> QED BY <1>1, <1>2, <1>3

\* The row of the mod at work is the only one, and was read as it is.
LEMMA OnlyRow ==
    ASSUME IInv, NEW r \in InFlight, NEW p \in Touches(req[r]),
           p \notin unclean, Working(r, p), req[r].mod # NoMod
    PROVE  /\ Installed(row, p) = {req[r].mod}
           /\ row[req[r].mod] = req[r].seen[req[r].mod]
           /\ row[req[r].mod] # NoRow /\ row[req[r].mod].project = p
           /\ RowsOf(p) = {row[req[r].mod].version}
<1>1. /\ TypeOK /\ req[r] \in Request /\ Sane(r) /\ Sole(r, p) /\ Current(r, p)
      /\ OwnTidy(r, p) /\ p \in Projects
  BY Knows
<1>2. req[r].mod \in ModIds /\ row \in Rows
  BY <1>1, FieldTypes DEF TypeOK
<1>3. row[req[r].mod] = req[r].seen[req[r].mod]
  BY <1>1 DEF Current
<1>4. row[req[r].mod].project = p
  BY <1>1, <1>3 DEF Sane, Working
<1>5. row[req[r].mod] # NoRow
  BY <1>1, <1>2, <1>4, RowTypes
<1>6. Installed(row, p) = {req[r].mod}
  BY <1>1, <1>2, <1>4 DEF OwnTidy, OneRow, Installed
<1> QED BY <1>3, <1>4, <1>5, <1>6 DEF RowsOf

(***************************************************************************)
(* The steps, one by one.                                                  *)
(***************************************************************************)

\* With rows and jars as they were, a mod nobody tears keeps them together.
LEMMA SameMod ==
    ASSUME NEW p, row' = row, jars' = jars, supports' = supports
    PROVE  /\ Installed(row', p) = Installed(row, p)
           /\ OneRow(p)' = OneRow(p) /\ JarsOf(p)' = JarsOf(p) /\ RowsOf(p)' = RowsOf(p)
           /\ \A v, g : FitsGame(p, v, g)' = FitsGame(p, v, g)
BY DEF OneRow, JarsOf, RowsOf, FitsGame, Fitting

LEMMA QuietDone ==
    ASSUME IInv, NEW r \in InFlight, Done(r), req[r].pc \in {"begin", "next", "remove"},
           UNCHANGED <<supports, there, row, jars, unclean, faults>>, game' \in Games
    PROVE  IInv'
<1>1. TypeOK /\ Spares(r)
  BY Knows, SparesAll
<1>2. \A p \in Touches(req[r]) : p \notin unclean' => OneRow(p)' /\ JarsOf(p)' = RowsOf(p)'
  BY Knows, SameMod DEF OwnTidy, Torn
<1>3. /\ there' \in BOOLEAN /\ row' \in Rows /\ jars' \subseteq Projects \X Versions
      /\ unclean' \subseteq Projects /\ faults' \in 0 .. MaxFaults
  BY <1>1 DEF TypeOK
<1> QED BY <1>1, <1>2, <1>3, DoneKeeps

LEMMA BeginInstallKeeps ==
    ASSUME IInv, NEW r \in InFlight, NEW v \in Versions, BeginInstall(r, v),
           At(r, "begin"), req[r].op \in {"install", "automatic"},
           UNCHANGED <<supports, there, game, row, jars, unclean, faults>>
    PROVE  IInv'
<1> SUFFICES ASSUME NEW p, p = req[r].project PROVE IInv'
  OBVIOUS
<1>1. /\ TypeOK /\ r \in Requests /\ req[r] \in Request /\ Sane(r)
      /\ p \in Projects /\ Touches(req[r]) = {p} /\ Spares(r)
      /\ row' \in Rows /\ jars' \subseteq Projects \X Versions
      /\ OwnTidy(r, p)
  BY Knows, FieldTypes, SparesAll DEF Touches, TypeOK
<1>2. req[r].todo = {} /\ req[r].mod = NoMod /\ req[r].seen \in Rows
  BY <1>1, FieldTypes DEF Sane, At
<1>3. req[r].pc = "begin" /\ ~Torn(r, p)
  BY DEF Torn, At
<1>4. CASE Installed(row, p) = {}
  <2> DEFINE q == [req[r] EXCEPT !.pc = "download", !.version = v]
  <2>1. q \in Request
    BY <1>1 DEF Request, Pcs
  <2>2. /\ q.op = req[r].op /\ q.alone = req[r].alone /\ q.project = p /\ q.pc = "download"
        /\ q.version = v /\ q.todo = {} /\ q.mod = NoMod /\ q.seen = req[r].seen
    BY <1>1, <1>2 DEF Request
  <2>3. req' = [req EXCEPT ![r] = q]
    BY <1>4 DEF BeginInstall
  <2>4. req'[r] = q
    BY <1>1, <2>3 DEF TypeOK
  <2> HIDE DEF q
  <2>5. Sane(r)'
    BY <1>1, <2>2, <2>4 DEF Sane
  <2>6. Current(r, p)'
    BY <1>1, <2>2, <2>4 DEF Current
  <2>7. Moved(r, p)'
    BY <2>2, <2>4 DEF Moved
  <2>8. OwnTidy(r, p)'
    <3>1. p \notin unclean => OneRow(p) /\ JarsOf(p) = RowsOf(p)
      BY <1>1, <1>3 DEF OwnTidy
    <3>2. RowsOf(p) = {}
      BY <1>4 DEF RowsOf
    <3> QED BY <1>4, <2>2, <2>4, <3>1, <3>2, SameMod DEF OwnTidy, Halfway, Torn
  <2>9. \A s \in Touches(req[r]) : Current(r, s)' /\ Moved(r, s)' /\ OwnTidy(r, s)'
    BY <1>1, <2>6, <2>7, <2>8
  <2>10. supports' = supports /\ there' = there /\ game' = game
         /\ unclean' = unclean /\ faults' = faults
    OBVIOUS
  <2> QED BY <1>1, <2>1, <2>2, <2>3, <2>5, <2>9, <2>10, GoKeeps
<1>5. CASE Installed(row, p) # {}
  <2>1. PICK i \in Installed(row, p) :
            req' = [req EXCEPT ![r].pc = "remove", ![r].version = v, ![r].mod = i,
                               ![r].seen = Copy({i})]
    BY <1>5 DEF BeginInstall
  <2> DEFINE q == [req[r] EXCEPT !.pc = "remove", !.version = v, !.mod = i, !.seen = Copy({i})]
  <2>2. /\ Copy({i}) \in Rows /\ i \in ModIds /\ row[i].project = p
        /\ \A j \in ModIds : Copy({i})[j] = IF j = i THEN row[i] ELSE NoRow
    BY <1>1, CopyIs DEF Installed
  <2>3. q \in Request
    BY <1>1, <2>2 DEF Request, Pcs
  <2>4. /\ q.op = req[r].op /\ q.alone = req[r].alone /\ q.project = p /\ q.pc = "remove"
        /\ q.version = v /\ q.todo = {} /\ q.mod = i /\ q.seen = Copy({i})
    BY <1>1, <1>2 DEF Request
  <2>5. req' = [req EXCEPT ![r] = q]
    BY <2>1
  <2>6. req'[r] = q
    BY <1>1, <2>5 DEF TypeOK
  <2> HIDE DEF q
  <2>7. i # NoMod
    BY <2>2, NoModAssumption
  <2>8. Sane(r)'
    BY <2>2, <2>4, <2>6, <2>7 DEF Sane
  <2>9. Current(r, p)'
    BY <2>2, <2>4, <2>6 DEF Current, Working
  <2>10. Moved(r, p)'
    BY <2>4, <2>6 DEF Moved
  <2>11. OwnTidy(r, p)'
    BY <1>1, <1>3, <2>4, <2>6, <2>7, SameMod DEF OwnTidy, Halfway, Torn
  <2>12. \A s \in Touches(req[r]) : Current(r, s)' /\ Moved(r, s)' /\ OwnTidy(r, s)'
    BY <1>1, <2>9, <2>10, <2>11
  <2>13. supports' = supports /\ there' = there /\ game' = game
         /\ unclean' = unclean /\ faults' = faults
    OBVIOUS
  <2> QED BY <1>1, <2>3, <2>4, <2>5, <2>8, <2>12, <2>13, GoKeeps
<1> QED BY <1>4, <1>5

\* A step that reads: rows and jars stay, and nothing is torn before or after.
LEMMA QuietGo ==
    ASSUME IInv, NEW r \in InFlight, NEW q \in Request, req' = [req EXCEPT ![r] = q],
           q.op = req[r].op, q.alone = req[r].alone,
           q.project = req[r].project \/ req[r].op = "change",
           UNCHANGED <<supports, there, game, row, jars, unclean, faults>>,
           req[r].pc \in {"begin", "next"}, q.pc \in {"remove", "next", "rmtree"},
           q.pc = "remove" => q.mod # NoMod,
           Sane(r)',
           \A p \in Touches(req[r]) : Current(r, p)' /\ Moved(r, p)'
    PROVE  IInv'
<1>1. /\ TypeOK /\ r \in Requests /\ Spares(r)
      /\ row' \in Rows /\ jars' \subseteq Projects \X Versions
  BY Knows, SparesAll DEF TypeOK
<1>2. req'[r] = q
  BY <1>1 DEF TypeOK
<1>3. ASSUME NEW p \in Touches(req[r]) PROVE OwnTidy(r, p)'
  <2>1. OwnTidy(r, p) /\ ~Torn(r, p)
    BY Knows DEF Torn
  <2>2. ~Torn(r, p)' /\ (Working(r, p)' => req'[r].mod # NoMod)
    BY <1>2 DEF Torn, Working
  <2> QED BY <2>1, <2>2, SameMod DEF OwnTidy, Halfway
<1>4. /\ supports' = supports /\ there' = there /\ game' = game
      /\ unclean' = unclean /\ faults' = faults
  OBVIOUS
<1> QED BY <1>1, <1>3, <1>4, GoKeeps

LEMMA BeginUninstallKeeps ==
    ASSUME IInv, NEW r \in InFlight, At(r, "begin"), req[r].op = "uninstall",
           row[req[r].mod] # NoRow,
           req' = [req EXCEPT ![r].pc = "remove", ![r].seen = Copy({req[r].mod})],
           UNCHANGED <<supports, there, game, row, jars, unclean, faults>>
    PROVE  IInv'
<1> SUFFICES ASSUME NEW i, i = req[r].mod PROVE IInv'
  OBVIOUS
<1> DEFINE q == [req[r] EXCEPT !.pc = "remove", !.seen = Copy({i})]
<1>1. /\ TypeOK /\ r \in Requests /\ req[r] \in Request /\ Sane(r)
      /\ \A p \in Touches(req[r]) : p \in Projects
  BY Knows
<1>2. req[r].pc = "begin" /\ req[r].todo = {} /\ i \in ModIds \ {NoMod}
      /\ row[i].project = req[r].project
  BY <1>1, FieldTypes DEF Sane, At
<1>3. /\ Copy({i}) \in Rows
      /\ \A j \in ModIds : Copy({i})[j] = IF j = i THEN row[i] ELSE NoRow
  BY <1>1, CopyIs
<1>4. q \in Request
  BY <1>1, <1>3 DEF Request, Pcs
<1>5. /\ q.op = req[r].op /\ q.alone = req[r].alone /\ q.project = req[r].project
      /\ q.pc = "remove" /\ q.todo = {} /\ q.mod = i /\ q.seen = Copy({i})
  BY <1>1, <1>2 DEF Request
<1>6. req' = [req EXCEPT ![r] = q]
  OBVIOUS
<1>7. req'[r] = q
  BY <1>1, <1>6 DEF TypeOK
<1> HIDE DEF q
<1>8. Sane(r)'
  BY <1>2, <1>3, <1>5, <1>7 DEF Sane
<1>9. \A p \in Touches(req[r]) : Current(r, p)' /\ Moved(r, p)'
  BY <1>2, <1>3, <1>5, <1>7 DEF Current, Working, Moved
<1> QED BY <1>2, <1>4, <1>5, <1>6, <1>8, <1>9, QuietGo

LEMMA BeginDeleteKeeps ==
    ASSUME IInv, NEW r \in InFlight, At(r, "begin"), req[r].op = "delete",
           req' = [req EXCEPT ![r].pc = "rmtree", ![r].seen = Copy(ModIds)],
           UNCHANGED <<supports, there, game, row, jars, unclean, faults>>
    PROVE  IInv'
<1> DEFINE q == [req[r] EXCEPT !.pc = "rmtree", !.seen = Copy(ModIds)]
<1>1. /\ TypeOK /\ r \in Requests /\ req[r] \in Request /\ Sane(r)
  BY Knows
<1>2. req[r].pc = "begin" /\ req[r].todo = {} /\ req[r].mod = NoMod
  BY <1>1 DEF Sane, At
<1>3. /\ Copy(ModIds) \in Rows
      /\ \A j \in ModIds : Copy(ModIds)[j] = row[j]
  BY <1>1, CopyIs
<1>4. q \in Request
  BY <1>1, <1>3 DEF Request, Pcs
<1>5. /\ q.op = req[r].op /\ q.alone = req[r].alone /\ q.project = req[r].project
      /\ q.pc = "rmtree" /\ q.todo = {} /\ q.mod = NoMod /\ q.seen = Copy(ModIds)
  BY <1>1, <1>2 DEF Request
<1>6. req' = [req EXCEPT ![r] = q]
  OBVIOUS
<1>7. req'[r] = q
  BY <1>1, <1>6 DEF TypeOK
<1> HIDE DEF q
<1>8. Sane(r)'
  BY <1>3, <1>5, <1>7 DEF Sane
<1>9. \A p \in Touches(req[r]) : Current(r, p)' /\ Moved(r, p)'
  BY <1>5, <1>7 DEF Current, Working, Moved
<1> QED BY <1>2, <1>4, <1>5, <1>6, <1>8, <1>9, QuietGo

\* A mod that needs no update fits the new game version.
LEMMA BeginChangeKeeps ==
    ASSUME IInv, NEW r \in InFlight, At(r, "begin"), req[r].op = "change", BeginChange(r),
           UNCHANGED <<supports, there, game, row, jars, unclean, faults>>
    PROVE  IInv'
<1>1. /\ TypeOK /\ r \in Requests /\ req[r] \in Request /\ Sane(r)
  BY Knows
<1>2. req[r].pc = "begin" /\ req[r].mod = NoMod /\ row \in Rows /\ game' \in Games
  BY <1>1 DEF Sane, At, TypeOK
<1>3. CASE req[r].game <= game
  BY <1>2, <1>3, QuietDone DEF BeginChange
<1>4. CASE ~(req[r].game <= game)
  <2> SUFFICES ASSUME NEW behindOnes,
                      behindOnes = {i \in ModIds : row[i] # NoRow
                          /\ Update(row[i].project, row[i].version, req[r].game) # row[i].version}
               PROVE  IInv'
    OBVIOUS
  <2> DEFINE q == [req[r] EXCEPT !.pc = "next", !.todo = behindOnes, !.seen = Copy(behindOnes)]
  <2>1. req' = [req EXCEPT ![r].pc = "next", ![r].todo = behindOnes, ![r].seen = Copy(behindOnes)]
    BY <1>4 DEF BeginChange
  <2>2. /\ Copy(behindOnes) \in Rows /\ behindOnes \subseteq ModIds
        /\ \A j \in ModIds : Copy(behindOnes)[j] = IF j \in behindOnes THEN row[j] ELSE NoRow
    BY <1>1, CopyIs
  <2>3. q \in Request
    BY <1>1, <2>2 DEF Request, Pcs
  <2>4. /\ q.op = req[r].op /\ q.alone = req[r].alone /\ q.project = req[r].project
        /\ q.game = req[r].game /\ q.pc = "next" /\ q.todo = behindOnes /\ q.mod = NoMod
        /\ q.seen = Copy(behindOnes)
    BY <1>1, <1>2 DEF Request
  <2>5. req' = [req EXCEPT ![r] = q]
    BY <2>1
  <2>6. req'[r] = q
    BY <1>1, <2>5 DEF TypeOK
  <2> HIDE DEF q
  <2>7. \A i \in behindOnes : row[i] # NoRow
    OBVIOUS
  <2>8. Sane(r)'
    BY <2>2, <2>4, <2>6, <2>7, NoModAssumption DEF Sane
  <2>9. ASSUME NEW p \in Touches(req[r]) PROVE Current(r, p)' /\ Moved(r, p)'
    <3>1. Current(r, p)'
      BY <2>2, <2>4, <2>6 DEF Current, Working
    <3>2. ASSUME NEW i \in Installed(row, p), i \notin behindOnes
          PROVE  FitsGame(p, row[i].version, req[r].game)
      <4>1. i \in ModIds /\ row[i].project = p /\ p \in Projects
        BY Knows, <3>2 DEF Installed
      <4>2. row[i] # NoRow /\ row[i].version \in Versions
        BY <1>2, <4>1, RowTypes
      <4>3. Update(p, row[i].version, req[r].game) = row[i].version
        BY <3>2, <4>1, <4>2
      <4> QED BY <4>2, <4>3, UpdateIs
    <3>3. Installed(row', p) = Installed(row, p)
          /\ \A v, g : FitsGame(p, v, g)' = FitsGame(p, v, g)
      BY SameMod
    <3>4. Moved(r, p)'
      BY <2>4, <2>6, <3>2, <3>3 DEF Moved
    <3> QED BY <3>1, <3>4
  <2> QED BY <1>2, <2>3, <2>4, <2>5, <2>8, <2>9, QuietGo
<1> QED BY <1>3, <1>4

LEMMA BeginKeeps ==
    ASSUME IInv, NEW r \in InFlight, Begin(r)
    PROVE  IInv'
<1>1. /\ TypeOK /\ req[r].op \in Ops /\ At(r, "begin")
      /\ UNCHANGED <<supports, there, game, row, jars, unclean, faults>>
      /\ game' \in Games
  BY Knows, FieldTypes DEF Begin, TypeOK
<1>2. ASSUME Done(r) PROVE IInv'
  BY <1>1, <1>2, QuietDone DEF At
<1>3. CASE ~there
  BY <1>2, <1>3 DEF Begin
<1>4. CASE there /\ req[r].op = "install"
  <2>1. BeginInstall(r, req[r].version) /\ req[r].version \in Versions
    BY <1>4, Knows, FieldTypes DEF Begin
  <2> QED BY <1>1, <1>4, <2>1, BeginInstallKeeps
<1>5. CASE there /\ req[r].op = "automatic"
  <2>1. BeginInstall(r, Chosen(req[r].project)) /\ Chosen(req[r].project) \in Versions
    BY <1>5, ChosenIs DEF Begin
  <2> QED BY <1>1, <1>5, <2>1, BeginInstallKeeps
<1>6. CASE there /\ req[r].op = "uninstall"
  <2>1. CASE row[req[r].mod] = NoRow
    BY <1>2, <1>6, <2>1 DEF Begin
  <2>2. CASE row[req[r].mod] # NoRow
    BY <1>1, <1>6, <2>2, BeginUninstallKeeps DEF Begin
  <2> QED BY <2>1, <2>2
<1>7. CASE there /\ req[r].op = "change"
  BY <1>1, <1>7, BeginChangeKeeps DEF Begin
<1>8. CASE there /\ req[r].op = "delete"
  BY <1>1, <1>8, BeginDeleteKeeps DEF Begin
<1> QED BY <1>1, <1>3, <1>4, <1>5, <1>6, <1>7, <1>8 DEF Ops

\* The old jar goes: the mod has a row and no jar, or will not have the row.
LEMMA RemoveKeeps ==
    ASSUME IInv, NEW r \in InFlight, Remove(r)
    PROVE  IInv'
<1> SUFFICES ASSUME NEW s, s = req[r].project, NEW old, old = req[r].seen[req[r].mod].version
             PROVE  IInv'
  OBVIOUS
<1> DEFINE q == [req[r] EXCEPT !.pc = IF req[r].op = "uninstall" THEN "drop" ELSE "download"]
<1>1. /\ TypeOK /\ r \in Requests /\ req[r] \in Request /\ Sane(r)
      /\ s \in Touches(req[r]) /\ Touches(req[r]) \subseteq Projects
  BY Knows
<1>2. /\ req[r].pc = "remove" /\ req[r].mod # NoMod
      /\ req[r].seen[req[r].mod].project = s
      /\ req[r].op = "change" => req[r].version = Update(s, old, req[r].game)
  BY <1>1 DEF Sane, Remove, At
<1>3. /\ jars' = jars \ {<<s, old>>}
      /\ req' = [req EXCEPT ![r] = q]
      /\ supports' = supports /\ there' = there /\ game' = game
      /\ row' = row /\ unclean' = unclean /\ faults' = faults
  BY <1>2 DEF Remove, Goto, Jar
<1>4. q \in Request /\ q.pc \in {"drop", "download"} /\ (q.pc = "drop" => q.op = "uninstall")
  BY <1>1 DEF Request, Pcs
<1>5. /\ q.op = req[r].op /\ q.alone = req[r].alone /\ q.project = s /\ q.game = req[r].game
      /\ q.version = req[r].version
      /\ q.mod = req[r].mod /\ q.seen = req[r].seen /\ q.todo = req[r].todo
  BY <1>1 DEF Request
<1>6. req'[r] = q
  BY <1>1, <1>3 DEF TypeOK
<1> HIDE DEF q
<1>7. Spares(r)
  BY <1>1, <1>3 DEF Spares
<1>8. \A p, v, g : FitsGame(p, v, g)' = FitsGame(p, v, g) /\ Update(p, v, g)' = Update(p, v, g)
  BY <1>3 DEF FitsGame, Update, Fitting
<1>9. Sane(r)'
  BY <1>1, <1>2, <1>3, <1>4, <1>5, <1>6, <1>8 DEF Sane
<1>10. ASSUME NEW p \in Touches(req[r])
       PROVE  Current(r, p)' /\ Moved(r, p)' /\ OwnTidy(r, p)'
  <2>1. /\ Current(r, p) /\ Moved(r, p) /\ OwnTidy(r, p) /\ ~Torn(r, p)
        /\ p \notin unclean => Sole(r, p)
        /\ Sole(r, p)' => Sole(r, p)
    BY <1>2, <1>3, <1>5, <1>6, Knows DEF Torn, Sole, Touching, Touches
  <2>2. Current(r, p)'
    BY <1>2, <1>3, <1>4, <1>5, <1>6, <2>1 DEF Current, Working
  <2>3. Moved(r, p)'
    BY <1>2, <1>3, <1>4, <1>5, <1>6, <1>8, <2>1 DEF Moved, Installed
  <2>4. OwnTidy(r, p)'
    <3> SUFFICES ASSUME p \notin unclean
                 PROVE  /\ OneRow(p)'
                        /\ ~Torn(r, p)' => JarsOf(p)' = RowsOf(p)'
                        /\ Halfway(r, p)'
      BY <1>1, <1>3, <1>4, <1>6, FieldTypes DEF OwnTidy, InFlight
    <3>1. OneRow(p) /\ JarsOf(p) = RowsOf(p)
      BY <2>1 DEF OwnTidy
    <3>2. OneRow(p)' /\ RowsOf(p)' = RowsOf(p)
      BY <1>3, <3>1 DEF OneRow, RowsOf
    <3>3. CASE p = s
      <4>1. Working(r, p)
        BY <1>2, <3>3 DEF Working
      <4>2. RowsOf(p) = {old}
        BY <1>2, <4>1, OnlyRow
      <4>3. JarsOf(p)' = {}
        BY <1>3, <3>1, <3>3, <4>2 DEF JarsOf
      <4>4. Torn(r, p)' /\ req'[r].pc # "save" /\ req'[r].mod # NoMod
        BY <1>2, <1>4, <1>5, <1>6, <3>3 DEF Torn
      <4> QED BY <3>2, <4>3, <4>4 DEF Halfway
    <3>4. CASE p # s
      <4>1. JarsOf(p)' = JarsOf(p)
        BY <1>3, <3>4 DEF JarsOf
      <4>2. ~Torn(r, p)' /\ ~Working(r, p)'
        BY <1>4, <1>5, <1>6, <3>4 DEF Torn, Working
      <4> QED BY <3>1, <3>2, <4>1, <4>2 DEF Halfway
    <3> QED BY <3>3, <3>4
  <2> QED BY <2>2, <2>3, <2>4
<1>11. row' \in Rows /\ jars' \subseteq Projects \X Versions
  BY <1>1, <1>3 DEF TypeOK
<1> QED BY <1>3, <1>4, <1>5, <1>7, <1>9, <1>10, <1>11, GoKeeps

LEMMA DownloadKeeps ==
    ASSUME IInv, NEW r \in InFlight, Download(r)
    PROVE  IInv'
<1> SUFFICES ASSUME NEW s, s = req[r].project, NEW v, v = req[r].version PROVE IInv'
  OBVIOUS
<1> DEFINE q == [req[r] EXCEPT !.pc = "save"]
<1>1. /\ TypeOK /\ r \in Requests /\ req[r] \in Request /\ Sane(r)
      /\ s \in Touches(req[r]) /\ Touches(req[r]) \subseteq Projects /\ v \in Versions
  BY Knows, FieldTypes
<1>2. req[r].pc = "download"
  BY DEF Download, At
<1>3. /\ jars' = jars \union {<<s, v>>}
      /\ req' = [req EXCEPT ![r] = q]
      /\ supports' = supports /\ there' = there /\ game' = game
      /\ row' = row /\ unclean' = unclean /\ faults' = faults
  BY <1>2 DEF Download, Goto
<1>4. q \in Request
  BY <1>1 DEF Request, Pcs
<1>5. /\ q.op = req[r].op /\ q.alone = req[r].alone /\ q.project = s /\ q.game = req[r].game
      /\ q.version = v /\ q.pc = "save"
      /\ q.mod = req[r].mod /\ q.seen = req[r].seen /\ q.todo = req[r].todo
  BY <1>1 DEF Request
<1>6. req'[r] = q
  BY <1>1, <1>3 DEF TypeOK
<1> HIDE DEF q
<1>7. Spares(r)
  BY <1>1, <1>3 DEF Spares
<1>8. \A p, w, g : FitsGame(p, w, g)' = FitsGame(p, w, g) /\ Update(p, w, g)' = Update(p, w, g)
  BY <1>3 DEF FitsGame, Update, Fitting
<1>9. Sane(r)'
  BY <1>1, <1>2, <1>3, <1>5, <1>6, <1>8 DEF Sane
<1>10. ASSUME NEW p \in Touches(req[r])
       PROVE  Current(r, p)' /\ Moved(r, p)' /\ OwnTidy(r, p)'
  <2>1. /\ Current(r, p) /\ Moved(r, p) /\ OwnTidy(r, p)
        /\ Sole(r, p)' => Sole(r, p)
    BY <1>3, <1>5, <1>6, Knows DEF Sole, Touching, Touches
  <2>2. Current(r, p)'
    BY <1>2, <1>3, <1>5, <1>6, <2>1 DEF Current, Working
  <2>3. Moved(r, p)'
    BY <1>2, <1>3, <1>5, <1>6, <1>8, <2>1 DEF Moved, Installed
  <2>4. OwnTidy(r, p)'
    <3> SUFFICES ASSUME p \notin unclean
                 PROVE  /\ OneRow(p)'
                        /\ ~Torn(r, p)' => JarsOf(p)' = RowsOf(p)'
                        /\ Halfway(r, p)'
      BY <1>1, <1>3, <1>4, <1>6, FieldTypes DEF OwnTidy, InFlight
    <3>1. OneRow(p) /\ Halfway(r, p) /\ (~Torn(r, p) => JarsOf(p) = RowsOf(p))
      BY <2>1 DEF OwnTidy
    <3>2. /\ OneRow(p)' /\ RowsOf(p)' = RowsOf(p)
          /\ Installed(row', p) = Installed(row, p)
      BY <1>3, <3>1 DEF OneRow, RowsOf
    <3>3. CASE p = s
      <4>1. JarsOf(p) = {} /\ (req[r].mod = NoMod => Installed(row, p) = {})
        BY <1>2, <3>1, <3>3 DEF Halfway, Torn, Working
      <4>2. JarsOf(p)' = {v}
        BY <1>1, <1>3, <3>3, <4>1 DEF JarsOf
      <4>3. Torn(r, p)'
        BY <1>5, <1>6, <3>3 DEF Torn
      <4> QED BY <1>5, <1>6, <3>2, <4>1, <4>2, <4>3 DEF Halfway
    <3>4. CASE p # s
      <4>1. JarsOf(p)' = JarsOf(p)
        BY <1>3, <3>4 DEF JarsOf
      <4>2. ~Torn(r, p)' /\ ~Working(r, p)' /\ ~Torn(r, p)
        BY <1>2, <1>5, <1>6, <3>4 DEF Torn, Working
      <4> QED BY <3>1, <3>2, <4>1, <4>2 DEF Halfway
    <3> QED BY <3>3, <3>4
  <2> QED BY <2>2, <2>3, <2>4
<1>11. row' \in Rows /\ jars' \subseteq Projects \X Versions
  BY <1>1, <1>3 DEF TypeOK
<1> QED BY <1>3, <1>4, <1>5, <1>7, <1>9, <1>10, <1>11, GoKeeps

\* Alone on its mod, the miniverse is there and gets the row of the jar.
LEMMA InsertKeeps ==
    ASSUME IInv, NEW r \in InFlight, Insert(r)
    PROVE  IInv'
<1> SUFFICES ASSUME NEW s, s = req[r].project, NEW v, v = req[r].version PROVE IInv'
  OBVIOUS
<1>1. /\ TypeOK /\ r \in Requests /\ req[r] \in Request /\ Sane(r)
      /\ s \in Touches(req[r]) /\ Touches(req[r]) \subseteq Projects /\ v \in Versions
      /\ row \in Rows
  BY Knows, FieldTypes DEF TypeOK
<1>2. /\ req[r].pc = "save" /\ req[r].mod = NoMod /\ Done(r)
      /\ supports' = supports /\ there' = there /\ game' = game
      /\ jars' = jars /\ unclean' = unclean /\ faults' = faults
  BY DEF Insert, At
<1>3. /\ there' \in BOOLEAN /\ game' \in Games /\ jars' \subseteq Projects \X Versions
      /\ unclean' \subseteq Projects /\ faults' \in 0 .. MaxFaults
  BY <1>1, <1>2 DEF TypeOK
<1>4. ASSUME NEW p \in Touches(req[r]), p \notin unclean
      PROVE  /\ there /\ OneRow(p)
             /\ p = s => Installed(row, p) = {} /\ JarsOf(p) = {v}
             /\ p # s => JarsOf(p) = RowsOf(p)
  BY <1>2, <1>4, Knows DEF OwnTidy, Halfway, Torn, Working
<1>5. JarsOf(s)' = JarsOf(s) /\ \A p : JarsOf(p)' = JarsOf(p)
  BY <1>2 DEF JarsOf
<1>6. CASE ~there
  <2>1. row' = row /\ Spares(r)
    BY <1>2, <1>6, SparesAll DEF Insert
  <2>2. \A p \in Touches(req[r]) : p \in unclean'
    BY <1>2, <1>4, <1>6
  <2> QED BY <1>1, <1>2, <1>3, <2>1, <2>2, DoneKeeps
<1>7. CASE there
  <2>1. PICK i \in ModIds : /\ Fresh(i)
                            /\ row' = [row EXCEPT ![i] = [project |-> s, version |-> v]]
    BY <1>7 DEF Insert
  <2>2. /\ row[i] = NoRow
        /\ \A j \in ModIds : row'[j] = IF j = i THEN [project |-> s, version |-> v] ELSE row[j]
    BY <1>1, <2>1 DEF Fresh, Rows
  <2>3. row' \in Rows
    BY <1>1, <2>1 DEF Rows, Row
  <2>4. NoRow.project = NoMod /\ NoMod \notin Projects
    BY NoModAssumption DEF NoRow
  <2>5. ASSUME NEW p \in Projects, p # s
        PROVE  /\ Installed(row', p) = Installed(row, p)
               /\ \A j \in Installed(row, p) : row'[j] = row[j]
    BY <2>2, <2>4, <2>5 DEF Installed
  <2>6. Spares(r)
    <3>1. \A j \in ModIds :
             \/ row'[j] = NoRow
             \/ row[j] # NoRow /\ row'[j].project = row[j].project
             \/ Fresh(j)
      BY <2>1, <2>2
    <3> QED BY <1>1, <1>2, <2>5, <3>1 DEF Spares
  <2>7. ASSUME NEW p \in Touches(req[r]), p \notin unclean'
        PROVE  OneRow(p)' /\ JarsOf(p)' = RowsOf(p)'
    <3>1. CASE p = s
      <4>1. Installed(row, p) = {} /\ JarsOf(p)' = {v}
        BY <1>2, <1>4, <1>5, <2>7, <3>1
      <4>2. Installed(row', p) = {i} /\ row'[i].version = v
        BY <2>2, <3>1, <4>1 DEF Installed
      <4> QED BY <4>1, <4>2 DEF OneRow, RowsOf
    <3>2. CASE p # s
      <4>1. OneRow(p) /\ JarsOf(p)' = RowsOf(p)
        BY <1>2, <1>4, <1>5, <2>7, <3>2
      <4>2. p \in Projects
        BY <1>1
      <4>3. /\ Installed(row', p) = Installed(row, p)
            /\ \A j \in Installed(row, p) : row'[j] = row[j]
        BY <2>5, <3>2, <4>2
      <4> QED BY <4>1, <4>3 DEF OneRow, RowsOf
    <3> QED BY <3>1, <3>2
  <2> QED BY <1>1, <1>2, <1>3, <2>3, <2>6, <2>7, DoneKeeps
<1> QED BY <1>6, <1>7

LEMMA DropKeeps ==
    ASSUME IInv, NEW r \in InFlight, Drop(r)
    PROVE  IInv'
<1> SUFFICES ASSUME NEW s, s = req[r].project, NEW m, m = req[r].mod PROVE IInv'
  OBVIOUS
<1>1. /\ TypeOK /\ r \in Requests /\ req[r] \in Request /\ Sane(r)
      /\ s \in Touches(req[r]) /\ Touches(req[r]) \subseteq Projects
      /\ row \in Rows
  BY Knows DEF TypeOK
<1>2. /\ req[r].pc = "drop" /\ Done(r)
      /\ supports' = supports /\ there' = there /\ game' = game
      /\ jars' = jars /\ unclean' = unclean /\ faults' = faults
      /\ row' = [row EXCEPT ![m] = NoRow]
  BY DEF Drop, At
<1>3. m # NoMod /\ m \in ModIds /\ (row[m] = NoRow \/ row[m].project = s)
  BY <1>1, <1>2, FieldTypes DEF Sane
<1>4. /\ there' \in BOOLEAN /\ game' \in Games /\ jars' \subseteq Projects \X Versions
      /\ unclean' \subseteq Projects /\ faults' \in 0 .. MaxFaults
  BY <1>1, <1>2 DEF TypeOK
<1>5. /\ row' \in Rows
      /\ \A j \in ModIds : row'[j] = IF j = m THEN NoRow ELSE row[j]
  BY <1>1, <1>2, <1>3 DEF Rows
<1>6. NoRow.project = NoMod /\ NoMod \notin Projects
  BY NoModAssumption DEF NoRow
<1>7. ASSUME NEW p \in Projects, p # s
      PROVE  /\ Installed(row', p) = Installed(row, p)
             /\ \A j \in Installed(row, p) : row'[j] = row[j]
  BY <1>3, <1>5, <1>6, <1>7 DEF Installed
<1>8. Spares(r)
  BY <1>1, <1>2, <1>5, <1>7 DEF Spares
<1>9. ASSUME NEW p \in Touches(req[r]), p \notin unclean'
      PROVE  OneRow(p)' /\ JarsOf(p)' = RowsOf(p)'
  <2>1. p \in Projects /\ OwnTidy(r, p) /\ JarsOf(p)' = JarsOf(p) /\ p \notin unclean
    BY <1>1, <1>2, <1>9, Knows DEF JarsOf
  <2>2. CASE p = s
    <3>1. Working(r, p) /\ Torn(r, p)
      BY <1>2, <2>2 DEF Working, Torn
    <3>2. Installed(row, p) = {m} /\ JarsOf(p)' = {}
      BY <1>2, <1>3, <2>1, <3>1, OnlyRow DEF OwnTidy, Halfway
    <3>3. Installed(row', p) = {}
      BY <1>5, <1>6, <2>1, <3>2 DEF Installed
    <3> QED BY <3>2, <3>3 DEF OneRow, RowsOf
  <2>3. CASE p # s
    <3>1. OneRow(p) /\ JarsOf(p) = RowsOf(p)
      BY <1>2, <2>1, <2>3 DEF OwnTidy, Torn
    <3>2. /\ Installed(row', p) = Installed(row, p)
          /\ \A j \in Installed(row, p) : row'[j] = row[j]
      BY <1>7, <2>1, <2>3
    <3> QED BY <2>1, <3>1, <3>2 DEF OneRow, RowsOf
  <2> QED BY <2>2, <2>3
<1> QED BY <1>1, <1>2, <1>4, <1>5, <1>8, <1>9, DoneKeeps

LEMMA NextModKeeps ==
    ASSUME IInv, NEW r \in InFlight, NEW i \in ModIds, NextMod(r, i)
    PROVE  IInv'
<1> SUFFICES ASSUME NEW old, old = req[r].seen[i] PROVE IInv'
  OBVIOUS
<1> DEFINE q == [req[r] EXCEPT !.pc = "remove", !.mod = i, !.todo = @ \ {i},
                               !.project = old.project,
                               !.version = Update(old.project, old.version, req[r].game)]
<1>1. /\ TypeOK /\ r \in Requests /\ req[r] \in Request /\ Sane(r)
      /\ req[r].seen \in Rows /\ req[r].todo \subseteq ModIds
  BY Knows, FieldTypes
<1>2. /\ req[r].pc = "next" /\ req[r].op = "change" /\ i \in req[r].todo
      /\ UNCHANGED <<supports, there, game, row, jars, unclean, faults>>
  BY <1>1 DEF NextMod, At, Sane
<1>3. old # NoRow /\ old.project \in Projects /\ old.version \in Versions
  BY <1>1, <1>2, RowTypes DEF Sane
<1>4. Update(old.project, old.version, req[r].game) \in Versions
  BY <1>3, UpdateIs
<1>5. q \in Request
  BY <1>1, <1>3, <1>4 DEF Request, Pcs
<1>6. /\ q.op = req[r].op /\ q.alone = req[r].alone /\ q.game = req[r].game
      /\ q.pc = "remove" /\ q.mod = i /\ q.todo = req[r].todo \ {i} /\ q.seen = req[r].seen
      /\ q.project = old.project
      /\ q.version = Update(old.project, old.version, req[r].game)
  BY <1>1 DEF Request
<1>7. req' = [req EXCEPT ![r] = q]
  BY DEF NextMod
<1>8. req'[r] = q
  BY <1>1, <1>7 DEF TypeOK
<1> HIDE DEF q
<1>9. i # NoMod
  BY NoModAssumption
<1>10. \A p, v, g : FitsGame(p, v, g)' = FitsGame(p, v, g) /\ Update(p, v, g)' = Update(p, v, g)
  BY <1>2 DEF FitsGame, Update, Fitting
<1>11. Sane(r)'
  BY <1>1, <1>2, <1>3, <1>6, <1>8, <1>9, <1>10 DEF Sane
<1>12. ASSUME NEW p \in Touches(req[r]) PROVE Current(r, p)' /\ Moved(r, p)'
  <2>1. /\ Current(r, p) /\ Moved(r, p)
        /\ Sole(r, p)' => Sole(r, p)
    BY <1>2, <1>6, <1>8, Knows DEF Sole, Touching, Touches
  <2>2. Current(r, p)'
    BY <1>2, <1>6, <1>8, <2>1 DEF Current, Working
  <2>3. Moved(r, p)'
    BY <1>2, <1>6, <1>8, <1>10, <2>1 DEF Moved, Installed
  <2> QED BY <2>2, <2>3
<1> QED BY <1>2, <1>5, <1>6, <1>7, <1>9, <1>11, <1>12, QuietGo

LEMMA CommitGameKeeps ==
    ASSUME IInv, NEW r \in InFlight, CommitGame(r)
    PROVE  IInv'
<1>1. TypeOK /\ req[r] \in Request /\ req[r].game \in Games
  BY Knows, FieldTypes
<1>2. game' \in Games
  BY <1>1 DEF CommitGame, TypeOK
<1>3. /\ Done(r) /\ req[r].pc = "next"
      /\ UNCHANGED <<supports, there, row, jars, unclean, faults>>
  BY DEF CommitGame, At
<1> QED BY <1>2, <1>3, QuietDone

LEMMA RmtreeKeeps ==
    ASSUME IInv, NEW r \in InFlight, Rmtree(r)
    PROVE  IInv'
<1> DEFINE q == [req[r] EXCEPT !.pc = "commit"]
<1>1. /\ TypeOK /\ r \in Requests /\ req[r] \in Request /\ Sane(r)
  BY Knows
<1>2. req[r].pc = "rmtree" /\ req[r].op = "delete" /\ Touches(req[r]) = Projects
  BY <1>1 DEF Rmtree, At, Sane, Touches
<1>3. /\ jars' = {} /\ req' = [req EXCEPT ![r] = q]
      /\ supports' = supports /\ there' = there /\ game' = game
      /\ row' = row /\ unclean' = unclean /\ faults' = faults
  BY DEF Rmtree, Goto
<1>4. q \in Request
  BY <1>1 DEF Request, Pcs
<1>5. /\ q.op = "delete" /\ q.alone = req[r].alone /\ q.project = req[r].project
      /\ q.pc = "commit" /\ q.version = req[r].version
      /\ q.mod = req[r].mod /\ q.seen = req[r].seen /\ q.todo = req[r].todo
  BY <1>1, <1>2 DEF Request
<1>6. req'[r] = q
  BY <1>1, <1>3 DEF TypeOK
<1> HIDE DEF q
<1>7. Spares(r)
  BY <1>2, <1>3 DEF Spares
<1>8. Sane(r)'
  BY <1>1, <1>2, <1>3, <1>5, <1>6 DEF Sane
<1>9. ASSUME NEW p \in Touches(req[r])
      PROVE  Current(r, p)' /\ Moved(r, p)' /\ OwnTidy(r, p)'
  <2>1. /\ Current(r, p) /\ OwnTidy(r, p)
        /\ Sole(r, p)' => Sole(r, p)
    BY <1>2, <1>3, <1>5, <1>6, Knows DEF Sole, Touching, Touches
  <2>2. Current(r, p)' /\ Moved(r, p)'
    BY <1>3, <1>5, <1>6, <2>1 DEF Current, Working, Moved
  <2>3. OwnTidy(r, p)'
    BY <1>3, <1>4, <1>5, <1>6, <2>1, FieldTypes
    DEF OwnTidy, InFlight, OneRow, Halfway, Torn, Working, JarsOf
  <2> QED BY <2>2, <2>3
<1>10. row' \in Rows /\ jars' \subseteq Projects \X Versions
  BY <1>1, <1>3 DEF TypeOK
<1> QED BY <1>2, <1>3, <1>4, <1>5, <1>7, <1>8, <1>9, <1>10, GoKeeps

\* The jars went before; the rows go now, or every mod is unclean.
LEMMA CommitDeletionKeeps ==
    ASSUME IInv, NEW r \in InFlight, CommitDeletion(r)
    PROVE  IInv'
<1>1. /\ TypeOK /\ r \in Requests /\ req[r] \in Request /\ Sane(r)
  BY Knows
<1>2. /\ req[r].pc = "commit" /\ Touches(req[r]) = Projects /\ Done(r)
      /\ supports' = supports /\ game' = game /\ jars' = jars /\ faults' = faults
  BY <1>1 DEF CommitDeletion, At, Sane, Touches
<1>3. game' \in Games /\ jars' \subseteq Projects \X Versions /\ faults' \in 0 .. MaxFaults
      /\ unclean \subseteq Projects /\ row \in Rows /\ there \in BOOLEAN
  BY <1>1, <1>2 DEF TypeOK
<1>4. CASE /\ there' = FALSE /\ row' = [i \in ModIds |-> NoRow] /\ unclean' = unclean
  <2>1. row' \in Rows /\ there' \in BOOLEAN /\ unclean' \subseteq Projects
    BY <1>3, <1>4 DEF Rows
  <2>2. Spares(r)
    BY <1>2, <1>4 DEF Spares
  <2>3. NoRow.project = NoMod /\ NoMod \notin Projects
    BY NoModAssumption DEF NoRow
  <2>4. ASSUME NEW p \in Touches(req[r]), p \notin unclean'
        PROVE  OneRow(p)' /\ JarsOf(p)' = RowsOf(p)'
    <3>1. JarsOf(p) = {} /\ p \in Projects
      BY <1>2, <1>4, <2>4, Knows DEF OwnTidy, Halfway, Torn
    <3>2. Installed(row', p) = {}
      BY <1>4, <2>3, <3>1 DEF Installed
    <3>3. JarsOf(p)' = {}
      BY <1>2, <3>1 DEF JarsOf
    <3> QED BY <3>2, <3>3 DEF OneRow, RowsOf
  <2> QED BY <1>2, <1>3, <1>4, <2>1, <2>2, <2>4, DoneKeeps
<1>5. CASE unclean' = Projects /\ there' = there /\ row' = row
  <2>1. Spares(r)
    BY <1>2, <1>5, SparesAll
  <2>2. \A p \in Touches(req[r]) : p \in unclean'
    BY <1>2, <1>5
  <2> QED BY <1>2, <1>3, <1>5, <2>1, <2>2, DoneKeeps
<1> QED BY <1>4, <1>5 DEF CommitDeletion

\* A mod that a failure leaves torn is unclean.
LEMMA FailKeeps ==
    ASSUME IInv, NEW r \in InFlight, Fail(r) \/ DownloadRaises(r)
    PROVE  IInv'
<1> SUFFICES ASSUME NEW s, s = req[r].project PROVE IInv'
  OBVIOUS
<1>1. /\ TypeOK /\ r \in Requests /\ req[r] \in Request /\ Sane(r)
      /\ s \in Projects
  BY Knows, FieldTypes
<1>2. /\ Done(r) /\ supports' = supports /\ there' = there /\ game' = game
      /\ row' = row /\ jars' = jars
      /\ faults' = faults \/ (faults < MaxFaults /\ faults' = faults + 1)
  BY DEF Fail, DownloadRaises, Breaks
<1>3. /\ unclean' = unclean \union
          CASE req[r].pc = "commit" -> Projects
            [] req[r].pc \in {"save", "drop"} -> {s}
            [] req[r].pc = "download" /\ req[r].mod # NoMod -> {s}
            [] OTHER -> {}
  BY DEF Fail, DownloadRaises, Breaks
<1>4. /\ unclean \subseteq unclean' /\ unclean' \subseteq Projects
      /\ req[r].pc = "commit" => unclean' = Projects
      /\ req[r].pc \in {"save", "drop"} => s \in unclean'
      /\ req[r].pc = "download" /\ req[r].mod # NoMod => s \in unclean'
  <2>1. unclean \subseteq Projects
    BY <1>1 DEF TypeOK
  <2>2. CASE req[r].pc = "commit"
    BY <1>3, <2>1, <2>2
  <2>3. CASE req[r].pc \in {"save", "drop"}
    BY <1>1, <1>3, <2>1, <2>3
  <2>4. CASE req[r].pc = "download" /\ req[r].mod # NoMod
    BY <1>1, <1>3, <2>1, <2>4
  <2>5. CASE /\ req[r].pc \notin {"commit", "save", "drop"}
             /\ ~(req[r].pc = "download" /\ req[r].mod # NoMod)
    BY <1>3, <2>1, <2>5
  <2> QED BY <2>2, <2>3, <2>4, <2>5
<1>5. Spares(r)
  BY <1>2, SparesAll
<1>6. ASSUME NEW p \in Touches(req[r]), p \notin unclean'
      PROVE  OneRow(p)' /\ JarsOf(p)' = RowsOf(p)'
  <2>1. OwnTidy(r, p) /\ p \notin unclean /\ p \in Projects
    BY <1>4, <1>6, Knows
  <2>2. JarsOf(p) = RowsOf(p)
    <3>1. CASE ~Torn(r, p)
      BY <2>1, <3>1 DEF OwnTidy
    <3>2. CASE Torn(r, p)
      <4>1. req[r].pc = "download" /\ p = s /\ req[r].mod = NoMod
        BY <1>4, <1>6, <2>1, <3>2 DEF Torn
      <4>2. Working(r, p)
        BY <4>1 DEF Working
      <4>3. JarsOf(p) = {} /\ Installed(row, p) = {}
        BY <2>1, <3>2, <4>1, <4>2 DEF OwnTidy, Halfway
      <4> QED BY <4>3 DEF RowsOf
    <3> QED BY <3>1, <3>2
  <2> QED BY <1>2, <2>1, <2>2, SameMod DEF OwnTidy
<1>7. /\ there' \in BOOLEAN /\ game' \in Games /\ row' \in Rows
      /\ jars' \subseteq Projects \X Versions /\ faults' \in 0 .. MaxFaults
  BY <1>1, <1>2, FaultsAssumption DEF TypeOK
<1> QED BY <1>2, <1>4, <1>5, <1>6, <1>7, DoneKeeps

\* The row gets the version of the jar, which fits a new game version.
LEMMA SaveKeeps ==
    ASSUME IInv, NEW r \in InFlight, Save(r)
    PROVE  IInv'
<1> SUFFICES ASSUME NEW s, s = req[r].project, NEW m, m = req[r].mod,
                    NEW v, v = req[r].version, NEW old, old = req[r].seen[m].version
             PROVE  IInv'
  OBVIOUS
<1>1. /\ TypeOK /\ r \in Requests /\ req[r] \in Request /\ Sane(r)
      /\ s \in Touches(req[r]) /\ Touches(req[r]) \subseteq Projects /\ v \in Versions
      /\ row \in Rows /\ req[r].todo \subseteq ModIds
  BY Knows, FieldTypes DEF TypeOK
<1>2. /\ req[r].pc = "save" /\ m # NoMod
      /\ supports' = supports /\ there' = there /\ game' = game
      /\ jars' = jars /\ unclean' = unclean /\ faults' = faults
  BY DEF Save, At
<1>3. /\ m \in ModIds /\ m \notin req[r].todo
      /\ req[r].seen[m].project = s
      /\ row[m] = NoRow \/ row[m].project = s
      /\ req[r].seen \in Rows
      /\ req[r].op = "change" => v = Update(s, old, req[r].game)
  BY <1>1, <1>2, FieldTypes DEF Sane
<1>4. NoRow.project = NoMod /\ NoMod \notin Projects
  BY NoModAssumption DEF NoRow
<1>5. /\ there' \in BOOLEAN /\ game' \in Games /\ jars' \subseteq Projects \X Versions
      /\ unclean' \subseteq Projects /\ faults' \in 0 .. MaxFaults
  BY <1>1, <1>2 DEF TypeOK
<1>6. \/ row' = row /\ old = v
      \/ row' = row /\ row[m] = NoRow
      \/ row[m] # NoRow /\ row' = [row EXCEPT ![m].version = v]
  BY DEF Save
<1>7. /\ row' \in Rows
      /\ \A j \in ModIds : j # m => row'[j] = row[j]
      /\ row[m] = NoRow => row'[m] = NoRow
      /\ row[m] # NoRow => row'[m].project = s
      /\ row[m] # NoRow => \/ row'[m].version = v
                           \/ old = v /\ row'[m] = row[m]
  <2>1. CASE row' = row /\ (old = v \/ row[m] = NoRow)
    BY <1>1, <1>3, <2>1
  <2>2. CASE row[m] # NoRow /\ row' = [row EXCEPT ![m].version = v]
    <3>1. row[m] \in Row
      BY <1>1, <1>3, <2>2, RowTypes
    <3>2. row'[m] = [row[m] EXCEPT !.version = v] /\ \A j \in ModIds : j # m => row'[j] = row[j]
      BY <1>1, <1>3, <2>2 DEF Rows
    <3>3. row'[m] \in Row /\ row'[m].project = s /\ row'[m].version = v
      BY <1>1, <1>3, <2>2, <3>1, <3>2 DEF Row
    <3>4. row' \in Rows
      BY <1>1, <1>3, <2>2, <3>2, <3>3 DEF Rows
    <3> QED BY <2>2, <3>2, <3>3, <3>4
  <2> QED BY <1>6, <2>1, <2>2
<1>8. ASSUME NEW p \in Projects, p # s
      PROVE  /\ Installed(row', p) = Installed(row, p)
             /\ \A j \in Installed(row, p) : row'[j] = row[j]
  BY <1>3, <1>4, <1>7, <1>8 DEF Installed
<1>9. Installed(row', s) = Installed(row, s)
  BY <1>1, <1>3, <1>4, <1>7 DEF Installed
<1>10. Spares(r)
  <2>1. \A i \in ModIds :
            \/ row'[i] = NoRow
            \/ row[i] # NoRow /\ row'[i].project = row[i].project
    BY <1>3, <1>7
  <2> QED BY <1>1, <1>2, <1>8, <2>1 DEF Spares
<1>11. ASSUME NEW p \in Touches(req[r]), p \notin unclean
       PROVE  OneRow(p)' /\ JarsOf(p)' = RowsOf(p)'
  <2>1. p \in Projects /\ OwnTidy(r, p) /\ JarsOf(p)' = JarsOf(p)
    BY <1>1, <1>2, Knows DEF JarsOf
  <2>2. CASE p = s
    <3>1. Working(r, p) /\ Torn(r, p)
      BY <1>2, <2>2 DEF Working, Torn
    <3>2. Installed(row, p) = {m} /\ JarsOf(p)' = {v}
      BY <1>2, <1>11, <2>1, <3>1, OnlyRow DEF OwnTidy, Halfway
    <3>3. row[m] # NoRow /\ row[m].version = old
      BY <1>2, <1>11, <3>1, OnlyRow
    <3>4. row'[m].version = v
      BY <1>7, <3>3
    <3> QED BY <1>9, <2>2, <3>2, <3>4 DEF OneRow, RowsOf
  <2>3. CASE p # s
    <3>1. OneRow(p) /\ JarsOf(p) = RowsOf(p)
      BY <1>2, <1>11, <2>1, <2>3 DEF OwnTidy, Torn
    <3>2. /\ Installed(row', p) = Installed(row, p)
          /\ \A j \in Installed(row, p) : row'[j] = row[j]
      BY <1>8, <2>1, <2>3
    <3> QED BY <2>1, <3>1, <3>2 DEF OneRow, RowsOf
  <2> QED BY <2>2, <2>3
<1>12. CASE Done(r)
  BY <1>2, <1>5, <1>7, <1>10, <1>11, <1>12, DoneKeeps
<1>13. CASE req[r].op = "change" /\ Goto(r, "next")
  <2> DEFINE q == [req[r] EXCEPT !.pc = "next"]
  <2>1. q \in Request
    BY <1>1 DEF Request, Pcs
  <2>2. /\ q.op = req[r].op /\ q.alone = req[r].alone /\ q.project = s /\ q.game = req[r].game
        /\ q.pc = "next" /\ q.version = v
        /\ q.mod = m /\ q.seen = req[r].seen /\ q.todo = req[r].todo
    BY <1>1 DEF Request
  <2>3. req' = [req EXCEPT ![r] = q]
    BY <1>13 DEF Goto
  <2>4. req'[r] = q
    BY <1>1, <2>3 DEF TypeOK
  <2> HIDE DEF q
  <2>5. Sane(r)'
    <3>1. row'[m] = NoRow \/ row'[m].project = s
      BY <1>7
    <3>2. \A i \in ModIds : req[r].seen[i] # NoRow =>
              row'[i] = NoRow \/ row'[i].project = req[r].seen[i].project
      BY <1>1, <1>3, <1>7 DEF Sane
    <3>3. \A i \in req[r].todo : req[r].seen[i] # NoRow
      BY <1>1 DEF Sane
    <3> QED BY <1>2, <1>3, <1>13, <2>2, <2>4, <3>1, <3>2, <3>3 DEF Sane
  <2>6. ASSUME NEW p \in Touches(req[r])
        PROVE  Current(r, p)' /\ Moved(r, p)' /\ OwnTidy(r, p)'
    <3>1. /\ p \in Projects /\ Current(r, p) /\ Moved(r, p)
          /\ Sole(r, p)' => Sole(r, p)
      BY <1>1, <1>2, <2>2, <2>4, Knows DEF Sole, Touching, Touches
    <3>2. Current(r, p)'
      <4>1. ASSUME Sole(r, p), NEW i \in req[r].todo, req[r].seen[i].project = p
            PROVE  row'[i] = req[r].seen[i]
        <5>1. row[i] = req[r].seen[i]
          BY <3>1, <4>1 DEF Current
        <5>2. i # m /\ i \in ModIds
          BY <1>1, <1>3
        <5> QED BY <1>7, <5>1, <5>2
      <4> QED BY <2>2, <2>4, <3>1, <4>1 DEF Current, Working
    <3>3. Moved(r, p)'
      <4>1. \A w, g : FitsGame(p, w, g)' = FitsGame(p, w, g)
        BY <1>2 DEF FitsGame, Fitting
      <4>2. ASSUME Sole(r, p), NEW i \in Installed(row', p), i \notin req[r].todo
            PROVE  FitsGame(p, row'[i].version, req[r].game)
        <5>1. CASE i = m
          <6>1. row[m] # NoRow /\ p = s
            BY <1>3, <1>4, <1>7, <3>1, <4>2, <5>1 DEF Installed
          <6>2. row[m] = req[r].seen[m]
            BY <1>2, <3>1, <4>2, <6>1 DEF Current, Working
          <6>3. row'[m].version = v
            BY <1>7, <6>1, <6>2
          <6>4. old \in Versions
            BY <1>1, <1>3, <6>1, <6>2, RowTypes
          <6> QED BY <1>3, <1>13, <5>1, <6>1, <6>3, <6>4, UpdateIs
        <5>2. CASE i # m
          <6>1. i \in ModIds /\ row'[i] = row[i] /\ i \in Installed(row, p)
            BY <1>7, <4>2, <5>2 DEF Installed
          <6> QED BY <1>2, <1>13, <3>1, <4>2, <5>2, <6>1 DEF Moved
        <5> QED BY <5>1, <5>2
      <4> QED BY <1>13, <2>2, <2>4, <3>1, <4>1, <4>2 DEF Moved
    <3>4. OwnTidy(r, p)'
      BY <1>2, <1>11, <2>2, <2>4 DEF OwnTidy, Halfway, Torn, Working
    <3> QED BY <3>2, <3>3, <3>4
  <2> QED BY <1>2, <1>5, <1>7, <1>10, <2>1, <2>2, <2>3, <2>5, <2>6, GoKeeps
<1> QED BY <1>12, <1>13 DEF Save, AfterUpdate

(***************************************************************************)
(* The theorems.                                                           *)
(***************************************************************************)

LEMMA InitIInv == Init => IInv
<1> SUFFICES ASSUME Init PROVE IInv
  OBVIOUS
<1>1. /\ supports \in Catalogues /\ there = TRUE /\ game \in Games
      /\ row = [i \in ModIds |-> NoRow] /\ jars = {} /\ req = [r \in Requests |-> Idle]
      /\ unclean = {} /\ faults = 0
  BY DEF Init
<1>2. TypeOK
  BY <1>1, FaultsAssumption DEF TypeOK, Rows
<1>3. InFlight = {}
  BY <1>1 DEF InFlight
<1>4. ASSUME NEW p \in Projects PROVE Installed(row, p) = {}
  <2>1. NoRow.project # p
    BY NoModAssumption DEF NoRow
  <2> QED BY <1>1, <2>1 DEF Installed
<1>5. \A p \in Projects : JarsOf(p) = {} /\ RowsOf(p) = {} /\ OneRow(p)
  BY <1>1, <1>4 DEF JarsOf, RowsOf, OneRow
<1>6. \A p \in Projects : Tidy(p)
  BY <1>3, <1>5 DEF Tidy
<1>7. \A r \in Requests, p \in Projects : Apart(r, p) /\ Current(r, p) /\ Moved(r, p)
  BY <1>3 DEF Apart, Current, Moved, Sole, Touching
<1> QED BY <1>2, <1>3, <1>6, <1>7 DEF IInv

LEMMA NextIInv == IInv /\ [Next]_vars => IInv'
<1> SUFFICES ASSUME IInv, [Next]_vars PROVE IInv'
  OBVIOUS
<1>1. CASE UNCHANGED vars
  <2>1. /\ supports' = supports /\ there' = there /\ game' = game /\ row' = row
        /\ jars' = jars /\ req' = req /\ unclean' = unclean /\ faults' = faults
    BY <1>1 DEF vars
  <2>2. TypeOK'
    BY <2>1 DEF IInv, TypeOK
  <2>3. /\ InFlight' = InFlight
        /\ \A r, p : Touching(r, p)' = Touching(r, p) /\ Sole(r, p)' = Sole(r, p)
    BY <2>1 DEF InFlight, Touching, Sole
  <2>4. \A p, v, g : Update(p, v, g)' = Update(p, v, g) /\ FitsGame(p, v, g)' = FitsGame(p, v, g)
    BY <2>1 DEF Update, FitsGame, Fitting
  <2>5. \A r : Sane(r)' = Sane(r)
    BY <2>1, <2>4 DEF Sane
  <2>6. \A r, p : Apart(r, p)' = Apart(r, p) /\ Current(r, p)' = Current(r, p)
    BY <2>1, <2>3 DEF Apart, Current, Working
  <2>7. \A r, p : Moved(r, p)' = Moved(r, p)
    BY <2>1, <2>3, <2>4 DEF Moved, Installed
  <2>8. \A p : Tidy(p)' = Tidy(p)
    BY <2>1, <2>3 DEF Tidy, OneRow, JarsOf, RowsOf, Torn, Halfway, Working
  <2> QED BY <2>2, <2>3, <2>5, <2>6, <2>7, <2>8 DEF IInv
<1>2. CASE Next
  <2>1. PICK r \in Requests :
            \/ \E op \in Ops, p \in Projects, v \in Versions, i \in ModIds \union {NoMod},
                  g \in Games : Arrive(r, op, p, v, i, g)
            \/ Begin(r)
            \/ Remove(r) \/ Download(r) \/ Insert(r) \/ Save(r) \/ Drop(r)
            \/ (\E i \in ModIds : NextMod(r, i)) \/ CommitGame(r)
            \/ Rmtree(r) \/ CommitDeletion(r)
            \/ DownloadRaises(r) \/ Fail(r)
    BY <1>2 DEF Next
  <2>2. CASE \E op \in Ops, p \in Projects, v \in Versions, i \in ModIds \union {NoMod},
                g \in Games : Arrive(r, op, p, v, i, g)
    BY <2>2, ArriveKeeps
  <2>3. \A pc \in Pcs : At(r, pc) => r \in InFlight
    BY FlightType DEF At, IInv
  <2>4. CASE Begin(r)
    BY <2>3, <2>4, BeginKeeps DEF Begin, Pcs
  <2>5. CASE Remove(r)
    BY <2>3, <2>5, RemoveKeeps DEF Remove, Pcs
  <2>6. CASE Download(r)
    BY <2>3, <2>6, DownloadKeeps DEF Download, Pcs
  <2>7. CASE Insert(r)
    BY <2>3, <2>7, InsertKeeps DEF Insert, Pcs
  <2>8. CASE Save(r)
    BY <2>3, <2>8, SaveKeeps DEF Save, Pcs
  <2>9. CASE Drop(r)
    BY <2>3, <2>9, DropKeeps DEF Drop, Pcs
  <2>10. CASE \E i \in ModIds : NextMod(r, i)
    BY <2>3, <2>10, NextModKeeps DEF NextMod, Pcs
  <2>11. CASE CommitGame(r)
    BY <2>3, <2>11, CommitGameKeeps DEF CommitGame, Pcs
  <2>12. CASE Rmtree(r)
    BY <2>3, <2>12, RmtreeKeeps DEF Rmtree, Pcs
  <2>13. CASE CommitDeletion(r)
    BY <2>3, <2>13, CommitDeletionKeeps DEF CommitDeletion, Pcs
  <2>14. CASE DownloadRaises(r) \/ Fail(r)
    BY <2>14, FailKeeps DEF Fail, DownloadRaises, Breaks, InFlight
  <2> QED BY <2>1, <2>2, <2>4, <2>5, <2>6, <2>7, <2>8, <2>9, <2>10, <2>11, <2>12, <2>13, <2>14
<1> QED BY <1>1, <1>2

LEMMA IInvAlways == Spec => []IInv
BY InitIInv, NextIInv, PTL DEF Spec

\* Rows, jars and the requests of the routes of mods.py keep their types: a
\* request in flight always works on a mod of the catalogue, at a version of it.
THEOREM TypeCorrect == Spec => []TypeOK
<1>1. IInv => TypeOK
  BY DEF IInv
<1> QED BY <1>1, IInvAlways, PTL

\* When no request is in flight, a mod that no operation of mods_service failed
\* on and no two met on has one row at most, and exactly the jar of that row.
THEOREM JarsMatchRowsAlways == Spec => []JarsMatchRows
<1>1. ASSUME IInv, InFlight = {}, NEW p \in Projects \ unclean
      PROVE  /\ Cardinality(Installed(row, p)) <= 1
             /\ {j \in jars : j[1] = p} = {Jar(i, row) : i \in Installed(row, p)}
  <2>1. OneRow(p) /\ JarsOf(p) = RowsOf(p) /\ TypeOK
    BY <1>1 DEF IInv, Tidy
  <2>2. Cardinality(Installed(row, p)) <= 1
    <3>1. CASE Installed(row, p) = {}
      BY <3>1, FS_EmptySet
    <3>2. CASE Installed(row, p) # {}
      <4>1. PICK i \in Installed(row, p) : TRUE
        BY <3>2
      <4>2. Installed(row, p) = {i}
        BY <2>1, <4>1 DEF OneRow
      <4> QED BY <4>2, FS_Singleton
    <3> QED BY <3>1, <3>2
  <2>3. ASSUME NEW j \in jars, j[1] = p PROVE \E i \in Installed(row, p) : j = Jar(i, row)
    <3>1. j \in Projects \X Versions
      BY <2>1 DEF TypeOK
    <3>2. j = <<p, j[2]>> /\ j[2] \in JarsOf(p)
      BY <2>3, <3>1 DEF JarsOf
    <3>3. PICK i \in Installed(row, p) : row[i].version = j[2]
      BY <2>1, <3>2 DEF RowsOf
    <3>4. row[i].project = p
      BY DEF Installed
    <3> QED BY <3>2, <3>3, <3>4 DEF Jar
  <2>4. ASSUME NEW i \in Installed(row, p) PROVE Jar(i, row) \in jars /\ Jar(i, row)[1] = p
    <3>1. row[i].project = p /\ row[i].version \in JarsOf(p)
      BY <2>1 DEF Installed, RowsOf
    <3> QED BY <3>1 DEF Jar, JarsOf
  <2> QED BY <2>2, <2>3, <2>4
<1>2. IInv => JarsMatchRows
  BY <1>1 DEF JarsMatchRows
<1> QED BY <1>2, IInvAlways, PTL

\* install_mod and update_mod, when nothing else touched the mod since the
\* request arrived, end with the row and the jar of the version asked for,
\* whatever earlier operations lost.
THEOREM InstallDeliversAlways == Spec => InstallDelivers
<1>1. ASSUME IInv, NEW r \in InFlight, req[r].alone, req[r].op \in {"install", "automatic"},
             Insert(r) \/ Save(r),
             NEW jar, jar = <<req[r].project, req[r].version>>
      PROVE  jar \in jars' /\ \E i \in ModIds : row'[i] # NoRow /\ Jar(i, row') = jar
  <2> SUFFICES ASSUME NEW p, p = req[r].project, NEW v, v = req[r].version
               PROVE  jar \in jars' /\ \E i \in ModIds : row'[i] # NoRow /\ Jar(i, row') = jar
    OBVIOUS
  <2>1. /\ TypeOK /\ req[r] \in Request /\ Sane(r) /\ p \in Projects /\ v \in Versions
        /\ row \in Rows
    <3>1. TypeOK /\ req[r] \in Request /\ Sane(r)
      BY <1>1, Knows
    <3> QED BY <3>1, FieldTypes DEF TypeOK
  <2>2. Sole(r, p) /\ there /\ Current(r, p)
    BY <1>1, Knows DEF Sole, Touching
  <2>3. Working(r, p) /\ req[r].pc = "save" /\ jars' = jars
    BY <1>1 DEF Working, Insert, Save, At
  <2>4. jar \in jars'
    BY <1>1, <2>2, <2>3 DEF Current
  <2>5. CASE Insert(r)
    <3>1. PICK i \in ModIds : row' = [row EXCEPT ![i] = [project |-> p, version |-> v]]
      BY <2>2, <2>5 DEF Insert
    <3>2. row'[i] = [project |-> p, version |-> v]
      BY <2>1, <3>1 DEF Rows
    <3>3. row'[i] # NoRow
      BY <2>1, <3>2, NoModAssumption DEF NoRow
    <3> QED BY <1>1, <2>4, <3>2, <3>3 DEF Jar
  <2>6. CASE Save(r)
    <3> SUFFICES ASSUME NEW m, m = req[r].mod
                 PROVE  jar \in jars' /\ \E i \in ModIds : row'[i] # NoRow /\ Jar(i, row') = jar
      OBVIOUS
    <3>1. m # NoMod /\ m \in ModIds /\ row[m] = req[r].seen[m] /\ row[m].project = p
      BY <2>1, <2>2, <2>3, <2>6, FieldTypes DEF Current, Save, Sane
    <3>2. row[m] # NoRow /\ row[m] \in Row
      BY <2>1, <3>1, RowTypes
    <3>3. \/ row' = row /\ row[m].version = v
          \/ row' = [row EXCEPT ![m].version = v]
      BY <2>6, <3>1, <3>2 DEF Save
    <3>4. row'[m].project = p /\ row'[m].version = v
      <4>1. CASE row' = row /\ row[m].version = v
        BY <3>1, <4>1
      <4>2. CASE row' = [row EXCEPT ![m].version = v]
        <5>1. row'[m] = [row[m] EXCEPT !.version = v]
          BY <2>1, <3>1, <4>2 DEF Rows
        <5> QED BY <3>1, <3>2, <5>1 DEF Row
      <4> QED BY <3>3, <4>1, <4>2
    <3>5. row'[m] # NoRow
      BY <2>1, <3>4, NoModAssumption DEF NoRow
    <3> QED BY <1>1, <2>4, <3>1, <3>4, <3>5 DEF Jar
  <2> QED BY <1>1, <2>5, <2>6
<1>2. IInv /\ [Next]_vars =>
        [\A r \in InFlight : req[r].alone /\ req[r].op \in {"install", "automatic"}
                             /\ (Insert(r) \/ Save(r))
          => LET jar == <<req[r].project, req[r].version>> IN
             jar \in jars' /\ \E i \in ModIds : row'[i] # NoRow /\ Jar(i, row') = jar]_vars
  BY <1>1
<1> QED BY <1>2, IInvAlways, PTL DEF Spec, InstallDelivers

\* update_miniverse_game_version, alone from beginning to end, leaves every mod
\* that has a version for the new game version at such a version.
THEOREM ModsMoveAlongAlways == Spec => ModsMoveAlong
<1>1. ASSUME IInv, NEW r \in InFlight, req[r].alone, CommitGame(r),
             NEW i \in ModIds, row[i] # NoRow, Fitting(row[i].project, game') # {}
      PROVE  row[i].version \in Fitting(row[i].project, game')
  <2> SUFFICES ASSUME NEW p, p = row[i].project PROVE row[i].version \in Fitting(p, game')
    OBVIOUS
  <2>1. /\ TypeOK /\ req[r] \in Request /\ Sane(r)
        /\ req[r].pc = "next" /\ req[r].todo = {} /\ req[r].op = "change"
    BY <1>1, Knows DEF CommitGame, At, Sane
  <2>2. p \in Projects /\ p \in Touches(req[r]) /\ i \in Installed(row, p)
    BY <1>1, <2>1, RowTypes DEF TypeOK, Touches, Installed
  <2>3. Sole(r, p) /\ Moved(r, p) /\ there
    BY <1>1, <2>2, Knows DEF Sole, Touching
  <2>4. FitsGame(p, row[i].version, req[r].game)
    BY <2>1, <2>2, <2>3 DEF Moved
  <2>5. game' = req[r].game
    BY <1>1, <2>3 DEF CommitGame
  <2> QED BY <1>1, <2>4, <2>5 DEF FitsGame
<1>2. IInv /\ [Next]_vars =>
        [\A r \in InFlight : req[r].alone /\ CommitGame(r)
          => \A i \in ModIds : row[i] # NoRow /\ Fitting(row[i].project, game') # {}
                => row[i].version \in Fitting(row[i].project, game')]_vars
  BY <1>1
<1> QED BY <1>2, IInvAlways, PTL DEF Spec, ModsMoveAlong
=============================================================================
