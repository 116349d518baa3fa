--------------------------- MODULE MinecraftVersions ---------------------------
(***************************************************************************)
(* compare_versions: the order of Minecraft versions that decides whether  *)
(* a server speaks the management protocol and whether a version change is *)
(* a downgrade (update_miniverse_game_version).                            *)
(*                                                                         *)
(* A version string is a record of its format and the numbers in it.  The  *)
(* answers -1, 0, 1 and None are "lower", "same", "higher" and "None";     *)
(* "raises" is an exception and "dates" means that the answer has to wait  *)
(* for the list of versions.                                               *)
(***************************************************************************)
EXTENDS Naturals

CONSTANTS
    Mains,      \* <<major, minor, patch>> of releases and what precedes them
    Numbers,    \* the number after pre, rc and snapshot, the letter of a week
    Weeks,      \* <<year, week>> of old snapshots
    Dates       \* publication dates; 0 is that of a version not in the list

ASSUME VersionsAssumption ==
    /\ Mains \subseteq Nat \X Nat \X Nat
    /\ Numbers \subseteq Nat
    /\ Weeks \subseteq Nat \X Nat
    /\ Dates \subseteq Nat

VARIABLES
    from, to,            \* the arguments: the version now, the version asked for
    fromDate, toDate,    \* what the list of versions says of them
    answer,              \* of compare_versions, "" before it
    change,              \* what update_miniverse_game_version makes of it
    pc                   \* "compare", "list" (awaited), "decide" or "done"

versionsVars == <<from, to, fromDate, toDate, answer, change, pc>>

-----------------------------------------------------------------------------
(* Version strings: "release" 1.21.9, "pre" 1.21-pre2 or 26.1-pre-2, "rc",  *)
(* "snapshot" 26.1-snapshot-1, "week" 25w37a, "other" anything else.  The   *)
(* number of a release is 1 for the spelling with a patch of .0, which the  *)
(* list of versions does not have.                                          *)

Invalid == [format |-> "other", main |-> <<0, 0, 0>>, n |-> 0]

Versions ==
    [format : {"release"}, main : Mains, n : {0}]
        \union [format : {"release"}, main : {m \in Mains : m[3] = 0}, n : {1}]
        \union [format : {"pre", "rc", "snapshot"}, main : Mains, n : Numbers]
        \union {[format |-> "week", main |-> <<w[1], w[2], 0>>, n |-> k] :
                    w \in Weeks, k \in Numbers}
        \union {Invalid}

Prerelease(v) == v.format \in {"pre", "rc"}

\* The sign of a - b, as compare_main_versions computes it.
Sign(a, b) == IF a > b THEN "higher" ELSE IF a < b THEN "lower" ELSE "same"

\* Mutant: the minor number is looked at before the major one.
CompareMainMinorFirst(a, b) ==
    IF a[2] # b[2] THEN Sign(a[2], b[2])
    ELSE IF a[1] # b[1] THEN Sign(a[1], b[1])
    ELSE Sign(a[3], b[3])

\* compare_main_versions; its type_version arguments are never passed.
CompareMain(a, b) ==
    IF a[1] # b[1] THEN Sign(a[1], b[1])
    ELSE IF a[2] # b[2] THEN Sign(a[2], b[2])
    ELSE Sign(a[3], b[3])

\* compare_prerelease_identifiers is given the suffixes "pre" and "rc" alone:
\* equal ones are the same, different ones do not match its pattern.
ComparePrerelease(v, w) == IF v.format = w.format THEN "same" ELSE "raises"

CompareParsed(v, w) ==
    IF CompareMain(v.main, w.main) # "same" THEN CompareMain(v.main, w.main)
    ELSE IF v.format = "release" /\ Prerelease(w) THEN "higher"
    ELSE IF Prerelease(v) /\ w.format = "release" THEN "lower"
    ELSE IF Prerelease(v) /\ Prerelease(w) THEN ComparePrerelease(v, w)
    ELSE "dates"

\* compare_versions up to its await.  The check for invalid arguments looks at
\* the second one twice, so an invalid first one is dereferenced.
Compare(v, w) ==
    IF v = w THEN "same"
    ELSE IF w = Invalid THEN "None"
    ELSE IF v = Invalid THEN "raises"
    ELSE IF "week" \in {v.format, w.format} THEN "dates"
    ELSE CompareParsed(v, w)

\* compare_by_publish_date.
CompareDates(d, e) == IF 0 \in {d, e} THEN "None" ELSE Sign(d, e)

-----------------------------------------------------------------------------
(* The order Mojang publishes versions in, for reference: by main number,   *)
(* then snapshots, prereleases, release candidates and the release.  Weekly *)
(* snapshots are ordered among themselves; dates follow the order.          *)

Stage == [snapshot |-> 0, pre |-> 1, rc |-> 2, release |-> 3, week |-> 0]

Comparable(v, w) ==
    Invalid \notin {v, w} /\ (v.format = "week" <=> w.format = "week")

LowerMain(a, b) ==
    \E i \in 1 .. 3 : a[i] < b[i] /\ \A j \in 1 .. i - 1 : a[j] = b[j]

Lower(v, w) ==
    \/ LowerMain(v.main, w.main)
    \/ /\ v.main = w.main
       /\ \/ Stage[v.format] < Stage[w.format]
          \/ v.format = w.format /\ v.format # "release" /\ v.n < w.n

Listable(v) == v # Invalid /\ ~(v.format = "release" /\ v.n = 1)

DatesFollowOrder ==
    /\ from = to => fromDate = toDate
    /\ Comparable(from, to) /\ 0 \notin {fromDate, toDate} =>
         /\ Lower(from, to) => fromDate < toDate
         /\ Lower(to, from) => toDate < fromDate
    /\ Listable(from) \/ fromDate = 0
    /\ Listable(to) \/ toDate = 0

-----------------------------------------------------------------------------

VersionsInit ==
    /\ from \in Versions /\ to \in Versions
    /\ fromDate \in Dates /\ toDate \in Dates
    /\ DatesFollowOrder
    /\ answer = "" /\ change = "" /\ pc = "compare"

CompareNow ==
    /\ pc = "compare"
    /\ answer' = Compare(from, to)
    /\ pc' = IF answer' = "dates" THEN "list" ELSE "decide"
    /\ UNCHANGED <<from, to, fromDate, toDate, change>>

\* get_minecraft_versions asks Modrinth each time and may raise.
CompareByList ==
    /\ pc = "list"
    /\ answer' \in {CompareDates(fromDate, toDate), "raises"}
    /\ pc' = "decide"
    /\ UNCHANGED <<from, to, fromDate, toDate, change>>

\* Mutant: the arguments of the comparison are taken the other way round.
DecideReversed ==
    /\ pc = "decide"
    /\ change' = IF from = to THEN "refused"
                 ELSE IF answer = "raises" THEN "error"
                 ELSE IF answer \in {"None", "lower"} THEN "refused"
                 ELSE "accepted"
    /\ pc' = "done"
    /\ UNCHANGED <<from, to, fromDate, toDate, answer>>

\* update_miniverse_game_version: an unchanged version, an incomparable one
\* and a downgrade are refused.
Decide ==
    /\ pc = "decide"
    /\ change' = IF from = to THEN "refused"
                 ELSE IF answer = "raises" THEN "error"
                 ELSE IF answer \in {"None", "higher"} THEN "refused"
                 ELSE "accepted"
    /\ pc' = "done"
    /\ UNCHANGED <<from, to, fromDate, toDate, answer>>

VersionsNext == CompareNow \/ CompareByList \/ Decide

VersionsSpec == VersionsInit /\ [][VersionsNext]_versionsVars

-----------------------------------------------------------------------------
(* Properties.                                                             *)

\* compare_versions never answers with the wrong sign, whichever mixture of
\* numbers, suffixes and dates decides; and between two releases, or between
\* a release and a prerelease, it is exact.
NeverInverted ==
    Comparable(from, to) /\ answer \in {"lower", "same", "higher"} =>
        /\ answer = "lower" => Lower(from, to)
        /\ answer = "higher" => Lower(to, from)
        /\ answer = "same" /\ "release" \in {from.format, to.format} =>
             from = to

\* A version change is accepted only towards a version that is not older than
\* the present one, up to the number of a prerelease of the same kind, which
\* compare_versions does not look at.
AcceptedMovesForward ==
    change = "accepted" /\ Comparable(from, to) =>
        ~Lower(to, from) \/ (Prerelease(from) /\ to.format = from.format
                                /\ to.main = from.main)
=============================================================================
