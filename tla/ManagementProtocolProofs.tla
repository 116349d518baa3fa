----------------------- MODULE ManagementProtocolProofs -----------------------
(***************************************************************************)
(* Theorems about the management protocol of a server: compare_versions    *)
(* decides whether its version speaks it, RpcConnection is the connection  *)
(* through which it is spoken.                                             *)
(***************************************************************************)
EXTENDS MinecraftVersions, RpcConnection, TLAPS

(***************************************************************************)
(* MinecraftVersions, for any set of version numbers, weeks and dates:     *)
(* what compare_versions answers agrees with the order versions are        *)
(* published in, and a downgrade is never accepted.                        *)
(***************************************************************************)

Formats == {"release", "pre", "rc", "snapshot", "week", "other"}
Triples == Nat \X Nat \X Nat

LEMMA VersionType ==
    ASSUME NEW v \in Versions
    PROVE  /\ v \in [format : Formats, main : Triples, n : Nat]
           /\ v.format = "release" => v.n \in {0, 1}
           /\ v.format = "other" => v = Invalid
<1>1. CASE v \in [format : {"release"}, main : Mains, n : {0}]
  BY <1>1, VersionsAssumption DEF Formats, Triples
<1>2. CASE v \in [format : {"release"}, main : {m \in Mains : m[3] = 0}, n : {1}]
  BY <1>2, VersionsAssumption DEF Formats, Triples
<1>3. CASE v \in [format : {"pre", "rc", "snapshot"}, main : Mains, n : Numbers]
  BY <1>3, VersionsAssumption DEF Formats, Triples
<1>4. CASE v \in {[format |-> "week", main |-> <<w[1], w[2], 0>>, n |-> k] :
                    w \in Weeks, k \in Numbers}
  <2>1. PICK w \in Weeks, k \in Numbers :
          v = [format |-> "week", main |-> <<w[1], w[2], 0>>, n |-> k]
    BY <1>4
  <2>2. w[1] \in Nat /\ w[2] \in Nat /\ k \in Nat
    BY VersionsAssumption
  <2>3. <<w[1], w[2], 0>> \in Triples
    BY <2>2 DEF Triples
  <2> QED BY <2>1, <2>2, <2>3 DEF Formats
<1>5. CASE v = Invalid
  BY <1>5 DEF Invalid, Formats, Triples
<1> QED BY <1>1, <1>2, <1>3, <1>4, <1>5 DEF Versions

\* Versions with the same parts are the same.
LEMMA SameVersion ==
    ASSUME NEW v \in Versions, NEW w \in Versions,
           v.format = w.format, v.main = w.main, v.n = w.n
    PROVE  v = w
<1>1. /\ v \in [format : Formats, main : Triples, n : Nat]
      /\ w \in [format : Formats, main : Triples, n : Nat]
  BY VersionType
<1> QED BY <1>1

(***************************************************************************)
(* The order of main numbers.                                              *)
(***************************************************************************)

LEMMA LowerMainIs ==
    ASSUME NEW a \in Triples, NEW b \in Triples
    PROVE  LowerMain(a, b) <=>
             \/ a[1] < b[1]
             \/ a[1] = b[1] /\ a[2] < b[2]
             \/ a[1] = b[1] /\ a[2] = b[2] /\ a[3] < b[3]
<1>1. ASSUME LowerMain(a, b)
      PROVE  \/ a[1] < b[1]
             \/ a[1] = b[1] /\ a[2] < b[2]
             \/ a[1] = b[1] /\ a[2] = b[2] /\ a[3] < b[3]
  <2>1. PICK i \in 1 .. 3 : a[i] < b[i] /\ \A j \in 1 .. i - 1 : a[j] = b[j]
    BY <1>1 DEF LowerMain
  <2>2. i = 1 \/ i = 2 \/ i = 3
    OBVIOUS
  <2> QED BY <2>1, <2>2
<1>2. ASSUME a[1] < b[1] PROVE LowerMain(a, b)
  <2>1. 1 \in 1 .. 3 /\ \A j \in 1 .. 1 - 1 : a[j] = b[j]
    OBVIOUS
  <2> QED BY <1>2, <2>1 DEF LowerMain
<1>3. ASSUME a[1] = b[1], a[2] < b[2] PROVE LowerMain(a, b)
  <2>1. 2 \in 1 .. 3 /\ \A j \in 1 .. 2 - 1 : a[j] = b[j]
    BY <1>3
  <2> QED BY <1>3, <2>1 DEF LowerMain
<1>4. ASSUME a[1] = b[1], a[2] = b[2], a[3] < b[3] PROVE LowerMain(a, b)
  <2>1. 3 \in 1 .. 3 /\ \A j \in 1 .. 3 - 1 : a[j] = b[j]
    BY <1>4
  <2> QED BY <1>4, <2>1 DEF LowerMain
<1> QED BY <1>1, <1>2, <1>3, <1>4

\* compare_main_versions decides that order, which is total.
LEMMA MainOrder ==
    ASSUME NEW a \in Triples, NEW b \in Triples
    PROVE  /\ CompareMain(a, b) \in {"lower", "same", "higher"}
           /\ CompareMain(a, b) = "lower" <=> LowerMain(a, b)
           /\ CompareMain(a, b) = "higher" <=> LowerMain(b, a)
           /\ CompareMain(a, b) = "same" <=> a = b
           /\ ~(LowerMain(a, b) /\ LowerMain(b, a))
           /\ ~LowerMain(a, a)
<1>1. /\ a[1] \in Nat /\ a[2] \in Nat /\ a[3] \in Nat
      /\ b[1] \in Nat /\ b[2] \in Nat /\ b[3] \in Nat
  BY DEF Triples
<1>2. a = b <=> a[1] = b[1] /\ a[2] = b[2] /\ a[3] = b[3]
  BY DEF Triples
<1> QED BY <1>1, <1>2, LowerMainIs DEF CompareMain, Sign

(***************************************************************************)
(* The order of versions.                                                  *)
(***************************************************************************)

LEMMA LowerAsymmetric ==
    ASSUME NEW v \in Versions, NEW w \in Versions, Comparable(v, w), Lower(v, w)
    PROVE  ~Lower(w, v)
<1>1. /\ v \in [format : Formats, main : Triples, n : Nat]
      /\ w \in [format : Formats, main : Triples, n : Nat]
      /\ v.format # "other" /\ w.format # "other"
  BY VersionType DEF Comparable
<1>2. /\ ~(LowerMain(v.main, w.main) /\ LowerMain(w.main, v.main))
      /\ v.main = w.main => ~LowerMain(v.main, w.main) /\ ~LowerMain(w.main, v.main)
  BY <1>1, MainOrder
<1>3. Stage[v.format] \in Nat /\ Stage[w.format] \in Nat
  BY <1>1 DEF Formats, Stage
<1> QED BY <1>1, <1>2, <1>3 DEF Lower

\* Of two listed versions that differ one is lower.
LEMMA LowerTotal ==
    ASSUME NEW v \in Versions, NEW w \in Versions, Comparable(v, w),
           Listable(v), Listable(w), v # w
    PROVE  Lower(v, w) \/ Lower(w, v)
<1>1. /\ v \in [format : Formats, main : Triples, n : Nat]
      /\ w \in [format : Formats, main : Triples, n : Nat]
      /\ v.format # "other" /\ w.format # "other"
      /\ v.format = "release" => v.n = 0
      /\ w.format = "release" => w.n = 0
  BY VersionType DEF Comparable, Listable
<1>2. CASE v.main # w.main
  BY <1>1, <1>2, MainOrder DEF Lower
<1>3. CASE v.main = w.main /\ v.format # w.format
  <2>1. Stage[v.format] < Stage[w.format] \/ Stage[w.format] < Stage[v.format]
    BY <1>1, <1>3 DEF Comparable, Formats, Stage
  <2> QED BY <1>3, <2>1 DEF Lower
<1>4. CASE v.main = w.main /\ v.format = w.format
  <2>1. v.n # w.n
    BY <1>4, SameVersion
  <2> QED BY <1>1, <1>4, <2>1 DEF Lower
<1> QED BY <1>2, <1>3, <1>4

\* What compare_versions answers without the list of versions.
LEMMA CompareRight ==
    ASSUME NEW v \in Versions, NEW w \in Versions, Comparable(v, w)
    PROVE  /\ Compare(v, w) = "lower" => Lower(v, w)
           /\ Compare(v, w) = "higher" => Lower(w, v)
           /\ Compare(v, w) = "same" =>
                \/ v = w
                \/ Prerelease(v) /\ v.format = w.format /\ v.main = w.main
           /\ Compare(v, w) \in {"lower", "same", "higher", "raises", "dates"}
<1>1. /\ v \in [format : Formats, main : Triples, n : Nat]
      /\ w \in [format : Formats, main : Triples, n : Nat]
      /\ v # Invalid /\ w # Invalid
  BY VersionType DEF Comparable
<1>2. CASE v = w
  BY <1>2 DEF Compare
<1>3. CASE v # w /\ "week" \in {v.format, w.format}
  BY <1>1, <1>3 DEF Compare
<1>4. CASE v # w /\ "week" \notin {v.format, w.format}
  <2>1. Compare(v, w) = CompareParsed(v, w)
    BY <1>1, <1>4 DEF Compare
  <2>2. /\ CompareMain(v.main, w.main) \in {"lower", "same", "higher"}
        /\ CompareMain(v.main, w.main) = "lower" <=> LowerMain(v.main, w.main)
        /\ CompareMain(v.main, w.main) = "higher" <=> LowerMain(w.main, v.main)
        /\ CompareMain(v.main, w.main) = "same" <=> v.main = w.main
    BY <1>1, MainOrder
  <2>3. CASE v.main # w.main
    BY <2>1, <2>2, <2>3 DEF CompareParsed, Lower
  <2>4. CASE v.main = w.main
    BY <2>1, <2>2, <2>4
    DEF CompareParsed, ComparePrerelease, Prerelease, Lower, Stage
  <2> QED BY <2>3, <2>4
<1> QED BY <1>2, <1>3, <1>4

\* What it answers with the list, whose dates follow the order.
LEMMA DatesRight ==
    ASSUME from \in Versions, to \in Versions, fromDate \in Nat, toDate \in Nat,
           DatesFollowOrder, Comparable(from, to), from # to,
           CompareDates(fromDate, toDate) # "None"
    PROVE  /\ CompareDates(fromDate, toDate) = "lower" => Lower(from, to)
           /\ CompareDates(fromDate, toDate) = "higher" => Lower(to, from)
           /\ CompareDates(fromDate, toDate) # "same"
<1>1. 0 \notin {fromDate, toDate}
  BY DEF CompareDates
<1>2. Listable(from) /\ Listable(to)
  BY <1>1 DEF DatesFollowOrder
<1>3. Lower(from, to) \/ Lower(to, from)
  BY <1>2, LowerTotal
<1>4. /\ Lower(from, to) => fromDate < toDate
      /\ Lower(to, from) => toDate < fromDate
  BY <1>1 DEF DatesFollowOrder
<1> QED BY <1>1, <1>3, <1>4 DEF CompareDates, Sign

(***************************************************************************)
(* The invariant: what is answered, and what is made of it.                *)
(***************************************************************************)

VInv ==
    /\ from \in Versions /\ to \in Versions
    /\ fromDate \in Nat /\ toDate \in Nat /\ DatesFollowOrder
    /\ pc \in {"compare", "list", "decide", "done"}
    /\ pc = "compare" => answer = ""
    /\ pc = "list" => answer = "dates" /\ Compare(from, to) = "dates"
    /\ pc \in {"decide", "done"} =>
         \/ answer = Compare(from, to) /\ answer # "dates"
         \/ /\ Compare(from, to) = "dates"
            /\ answer \in {CompareDates(fromDate, toDate), "raises"}
    /\ pc # "done" => change = ""
    /\ change = "accepted" =>
         from # to /\ answer \notin {"raises", "None", "higher"}

LEMMA InitVInv == VersionsInit => VInv
BY VersionsAssumption DEF VersionsInit, VInv

LEMMA NextVInv == VInv /\ [VersionsNext]_versionsVars => VInv'
<1> SUFFICES ASSUME VInv, [VersionsNext]_versionsVars PROVE VInv'
  OBVIOUS
<1>1. CASE CompareNow
  <2>1. DatesFollowOrder' /\ UNCHANGED <<from, to, fromDate, toDate, change>>
    BY <1>1 DEF CompareNow, VInv, DatesFollowOrder
  <2> QED BY <1>1, <2>1 DEF CompareNow, VInv
<1>2. CASE CompareByList
  <2>1. DatesFollowOrder' /\ UNCHANGED <<from, to, fromDate, toDate, change>>
    BY <1>2 DEF CompareByList, VInv, DatesFollowOrder
  <2> QED BY <1>2, <2>1 DEF CompareByList, VInv
<1>3. CASE Decide
  <2>1. DatesFollowOrder' /\ UNCHANGED <<from, to, fromDate, toDate, answer>>
    BY <1>3 DEF Decide, VInv, DatesFollowOrder
  <2> QED BY <1>3, <2>1 DEF Decide, VInv
<1>4. CASE UNCHANGED versionsVars
  BY <1>4 DEF versionsVars, VInv, DatesFollowOrder
<1> QED BY <1>1, <1>2, <1>3, <1>4 DEF VersionsNext

LEMMA VInvNeverInverted == VInv => NeverInverted
<1> SUFFICES ASSUME VInv, Comparable(from, to),
                    answer \in {"lower", "same", "higher"}
             PROVE  /\ answer = "lower" => Lower(from, to)
                    /\ answer = "higher" => Lower(to, from)
                    /\ answer = "same" /\ "release" \in {from.format, to.format} =>
                         from = to
  BY DEF NeverInverted
<1>1. pc \in {"decide", "done"}
  BY DEF VInv
<1>2. CASE answer = Compare(from, to)
  BY <1>2, CompareRight DEF VInv, Prerelease
<1>3. CASE Compare(from, to) = "dates" /\ answer = CompareDates(fromDate, toDate)
  <2>1. from # to
    BY <1>3 DEF Compare
  <2> QED BY <1>3, <2>1, DatesRight DEF VInv
<1> QED BY <1>1, <1>2, <1>3 DEF VInv

LEMMA VInvMovesForward == VInv => AcceptedMovesForward
<1> SUFFICES ASSUME VInv, change = "accepted", Comparable(from, to), Lower(to, from)
             PROVE  Prerelease(from) /\ to.format = from.format
                      /\ to.main = from.main
  BY DEF AcceptedMovesForward
<1>1. /\ pc = "done" /\ from # to
      /\ answer \notin {"raises", "None", "higher"}
  BY DEF VInv
<1>2. ~Lower(from, to)
  BY LowerAsymmetric DEF VInv, Comparable
<1>3. CASE answer = Compare(from, to) /\ answer # "dates"
  BY <1>1, <1>2, <1>3, CompareRight DEF VInv
<1>4. CASE Compare(from, to) = "dates" /\ answer = CompareDates(fromDate, toDate)
  <2>1. answer \in {"lower", "same"}
    BY <1>1, <1>4 DEF CompareDates, Sign
  <2> QED BY <1>1, <1>2, <1>4, <2>1, DatesRight DEF VInv
<1> QED BY <1>1, <1>3, <1>4 DEF VInv

\* For all versions of all formats, compare_versions never answers with the
\* wrong sign, whichever of numbers, suffixes and dates decides, and an answer
\* "same" about a release is exact.
THEOREM NeverInvertedAlways == VersionsSpec => []NeverInverted
BY InitVInv, NextVInv, VInvNeverInverted, PTL DEF VersionsSpec

\* For all versions of all formats, a version change that is accepted does not
\* go back, but for the number of a prerelease of the same kind.
THEOREM AcceptedMovesForwardAlways == VersionsSpec => []AcceptedMovesForward
BY InitVInv, NextVInv, VInvMovesForward, PTL DEF VersionsSpec

(***************************************************************************)
(* RpcConnection, for any set of tasks and any number of failures of the   *)
(* management server.                                                      *)
(***************************************************************************)

IInv == TypeOK /\ SingleLoop

\* A step of the loop of one task leaves the loops of the others alone and
\* ends either in the same task's next await or in its end.
LEMMA LoopKeeps ==
    ASSUME IInv, NEW t \in Tasks, LoopStep(t)
    PROVE  IInv'
<1> USE TasksAssumption, FaultsAssumption DEF IInv, TypeOK, SingleLoop, Alive, Pcs, env
<1>1. CASE Connect(t)
  BY <1>1 DEF Connect, Goto
<1>2. CASE Greet(t)
  BY <1>2 DEF Greet, Goto
<1>3. CASE Poll(t)
  BY <1>3 DEF Poll, Goto
<1>4. CASE Close(t)
  BY <1>4 DEF Close, Goto
<1>5. CASE Wait(t)
  BY <1>5 DEF Wait, Goto
<1>6. CASE CancelDelivered(t)
  BY <1>6 DEF CancelDelivered, Goto
<1>7. QED
  BY <1>1, <1>2, <1>3, <1>4, <1>5, <1>6 DEF LoopStep

\* start() and stop(), whose test and cancellation keep a loop that is not the
\* task from going on uncancelled.
LEMMA ServiceKeeps ==
    ASSUME IInv,
           (\E t \in Tasks : Start(t)) \/ BeginStop \/ StopAnswered \/ StopRaises \/ EndStop
    PROVE  IInv'
<1> USE TasksAssumption, FaultsAssumption DEF IInv, TypeOK, SingleLoop, Alive, Pcs, env
<1>1. CASE \E t \in Tasks : Start(t)
  BY <1>1 DEF Start, Goto
<1>2. CASE BeginStop
  BY <1>2 DEF BeginStop
<1>3. CASE StopRaises
  BY <1>3 DEF StopRaises
<1>4. CASE EndStop
  BY <1>4 DEF EndStop
<1>5. CASE StopAnswered
  BY <1>5 DEF StopAnswered
<1>6. QED
  BY <1>1, <1>2, <1>3, <1>4, <1>5

\* The management server, the store, and the calls that fail.
LEMMA EnvironmentKeeps ==
    ASSUME IInv,
           (\E t \in Tasks : GreetRaises(t)) \/ StoreRaises \/ ServerUp \/ ServerDown
    PROVE  IInv'
<1> USE TasksAssumption, FaultsAssumption DEF IInv, TypeOK, SingleLoop, Alive, Pcs, env
<1>1. CASE \E t \in Tasks : GreetRaises(t)
  <2>1. PICK t \in Tasks : GreetRaises(t)
    BY <1>1
  <2>2. faults' \in 0 .. MaxFaults
    BY <2>1 DEF GreetRaises
  <2>3. QED
    BY <2>1, <2>2 DEF GreetRaises, Goto
<1>2. CASE ServerUp
  BY <1>2 DEF ServerUp
<1>3. CASE ServerDown
  <2>1. faults' \in 0 .. MaxFaults
    BY <1>3 DEF ServerDown
  <2>2. link' = [t \in Tasks |-> FALSE] /\ up' = FALSE
    BY <1>3 DEF ServerDown
  <2>3. UNCHANGED <<task, server, loop, cancelled, ending, stopping>>
    BY <1>3 DEF ServerDown
  <2>4. SingleLoop'
    BY <2>3
  <2>5. TypeOK'
    <3>1. link' \in [Tasks -> BOOLEAN] /\ \A t \in Tasks : ~link'[t]
      BY <2>2
    <3>2. QED
      BY <2>1, <2>2, <2>3, <3>1
  <2>6. QED
    BY <2>4, <2>5
<1>4. CASE StoreRaises
  <2>1. faults' \in 0 .. MaxFaults
    BY <1>4 DEF StoreRaises
  <2>2. QED
    BY <1>4, <2>1 DEF StoreRaises
<1>5. QED
  BY <1>1, <1>2, <1>3, <1>4

LEMMA Inductive == Spec => []IInv
<1>1. Init => IInv
  <2> SUFFICES ASSUME Init PROVE IInv
    OBVIOUS
  <2>1. link \in [Tasks -> BOOLEAN] /\ \A t \in Tasks : ~link[t]
    BY DEF Init
  <2>2. loop \in [Tasks -> Pcs] /\ \A t \in Tasks : ~Alive(t)
    BY DEF Init, Alive, Pcs
  <2>3. /\ up = FALSE /\ task = NoTask /\ server = NoTask /\ stopping = "no"
        /\ cancelled = {} /\ ending = {} /\ faults = 0
    BY DEF Init
  <2>4. faults \in 0 .. MaxFaults
    BY <2>3, FaultsAssumption
  <2>5. TypeOK
    BY <2>1, <2>2, <2>3, <2>4 DEF TypeOK
  <2>6. SingleLoop
    BY <2>2 DEF SingleLoop
  <2>7. QED
    BY <2>5, <2>6 DEF IInv
<1>2. IInv /\ [Next]_vars => IInv'
  <2> SUFFICES ASSUME IInv, [Next]_vars PROVE IInv'
    OBVIOUS
  <2>1. CASE \E t \in Tasks : LoopStep(t)
    BY <2>1, LoopKeeps
  <2>2. CASE (\E t \in Tasks : Start(t)) \/ BeginStop \/ StopAnswered \/ StopRaises \/ EndStop
    BY <2>2, ServiceKeeps
  <2>3. CASE (\E t \in Tasks : GreetRaises(t)) \/ StoreRaises \/ ServerUp \/ ServerDown
    BY <2>3, EnvironmentKeeps
  <2>4. CASE UNCHANGED vars
    BY <2>4 DEF vars, IInv, TypeOK, SingleLoop, Alive
  <2>5. QED
    BY <2>1, <2>2, <2>3, <2>4 DEF Next
<1>3. QED
  BY <1>1, <1>2, PTL DEF Spec

\* Every variable keeps its type, and a link belongs to a round that is not
\* over: whatever way a round ends, async_connect_loop closes its Server.
THEOREM TypeCorrect == Spec => []TypeOK
BY Inductive, PTL DEF IInv

\* However often start() and stop() are called, and wherever the cancellation
\* meets the loop, every loop but that of the current task is on its way out.
THEOREM SingleLoopAlways == Spec => []SingleLoop
BY Inductive, PTL DEF IInv
=============================================================================
