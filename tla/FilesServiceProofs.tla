-------------------------- MODULE FilesServiceProofs --------------------------
(***************************************************************************)
(* Theorems about FilesService, for any names, uploads and zips, any       *)
(* number of extractions and any bounds on the tree.                       *)
(*                                                                         *)
(* A path, a copy and a rename are prefixes of sequences; the first part   *)
(* says what those do to paths, the second that each change of the tree    *)
(* leaves a tree and keeps the files beside it. The third is the invariant *)
(* about names found free: nothing was below one when it was chosen, and   *)
(* what is there when a handler uses it was extracted in between.          *)
(***************************************************************************)
EXTENDS FilesService, SequenceTheorems, TLAPS

(***************************************************************************)
(* Paths.                                                                  *)
(***************************************************************************)

LEMMA PathIs ==
    ASSUME NEW p \in Paths
    PROVE  /\ Len(p) \in Nat /\ DOMAIN p = 1 .. Len(p)
           /\ \A i \in 1 .. Len(p) : p[i] \in Names
           /\ p = <<>> <=> Len(p) = 0
<1>1. p \in Seq(Names)
  BY DEF Paths
<1> HIDE DEF Paths
<1> QED BY <1>1, LenProperties, ElementOfSeq, EmptySeq

LEMMA PathsEqual ==
    ASSUME NEW p \in Paths, NEW q \in Paths, Len(p) = Len(q),
           \A i \in 1 .. Len(p) : p[i] = q[i]
    PROVE  p = q
BY SeqEqual DEF Paths

LEMMA SubPath ==
    ASSUME NEW p \in Paths, NEW m \in Nat \ {0}, NEW n \in 0 .. Len(p)
    PROVE  /\ SubSeq(p, m, n) \in Paths
           /\ Len(SubSeq(p, m, n)) = IF m <= n THEN n - m + 1 ELSE 0
           /\ \A i \in 1 .. n - m + 1 : SubSeq(p, m, n)[i] = p[m + i - 1]
<1>1. \A i \in m .. n : p[i] \in Names
  BY PathIs
<1>2. m \in Int /\ n \in Int
  BY PathIs
<1>3. /\ SubSeq(p, m, n) \in Seq(Names)
      /\ Len(SubSeq(p, m, n)) = IF m <= n THEN n - m + 1 ELSE 0
      /\ \A i \in 1 .. n - m + 1 : SubSeq(p, m, n)[i] = p[m + i - 1]
  BY <1>1, <1>2, SubSeqProperties
<1> QED BY <1>3 DEF Paths

LEMMA Joined ==
    ASSUME NEW p \in Paths, NEW s \in Paths
    PROVE  /\ p \o s \in Paths
           /\ Len(p \o s) = Len(p) + Len(s)
           /\ \A i \in 1 .. Len(p) : (p \o s)[i] = p[i]
           /\ \A i \in 1 .. Len(s) : (p \o s)[Len(p) + i] = s[i]
<1>1. /\ p \o s \in Paths
      /\ Len(p \o s) = Len(p) + Len(s)
      /\ \A i \in 1 .. Len(p) + Len(s) :
            (p \o s)[i] = IF i <= Len(p) THEN p[i] ELSE s[i - Len(p)]
  BY ConcatProperties DEF Paths
<1> QED BY <1>1, PathIs

LEMMA Appended ==
    ASSUME NEW p \in Paths, NEW n \in Names
    PROVE  /\ Append(p, n) \in Paths
           /\ Append(p, n) # <<>>
           /\ Len(Append(p, n)) = Len(p) + 1
           /\ \A i \in 1 .. Len(p) : Append(p, n)[i] = p[i]
           /\ Append(p, n)[Len(p) + 1] = n
BY AppendProperties DEF Paths

\* Prefixes, name by name.
LEMMA PrefixIs ==
    ASSUME NEW p \in Paths, NEW q \in Paths
    PROVE  IsPrefix(p, q) <=>
             Len(p) <= Len(q) /\ \A i \in 1 .. Len(p) : p[i] = q[i]
<1>1. Len(p) \in Nat /\ Len(q) \in Nat
  BY PathIs
<1>2. SubSeq(p, 1, Len(p)) = p
  BY SubSeqFull DEF Paths
<1>3. SUFFICES ASSUME Len(p) <= Len(q)
               PROVE  p = SubSeq(q, 1, Len(p)) <=> \A i \in 1 .. Len(p) : p[i] = q[i]
  BY <1>1, <1>2 DEF IsPrefix
<1> DEFINE r == SubSeq(q, 1, Len(p))
<1>4. Len(p) \in 0 .. Len(q) /\ 1 \in Nat \ {0}
  BY <1>1, <1>3
<1>5. /\ r \in Paths
      /\ Len(r) = IF 1 <= Len(p) THEN Len(p) - 1 + 1 ELSE 0
      /\ \A i \in 1 .. Len(p) - 1 + 1 : r[i] = q[1 + i - 1]
  BY <1>4, SubPath
<1>6. Len(r) = Len(p) /\ \A i \in 1 .. Len(p) : r[i] = q[i]
  BY <1>1, <1>5
<1> HIDE DEF r
<1>7. p = r <=> \A i \in 1 .. Len(p) : p[i] = q[i]
  BY <1>5, <1>6, PathsEqual
<1> QED BY <1>7 DEF r

\* The prefixes of q are what SubSeq(q, 1, i) is.
LEMMA PrefixAt ==
    ASSUME NEW q \in Paths, NEW i \in 0 .. Len(q)
    PROVE  /\ SubSeq(q, 1, i) \in Paths
           /\ Len(SubSeq(q, 1, i)) = i
           /\ IsPrefix(SubSeq(q, 1, i), q)
<1>1. Len(q) \in Nat /\ 1 \in Nat \ {0} /\ i \in Nat
  BY PathIs
<1>2. /\ SubSeq(q, 1, i) \in Paths
      /\ Len(SubSeq(q, 1, i)) = IF 1 <= i THEN i - 1 + 1 ELSE 0
      /\ \A j \in 1 .. i - 1 + 1 : SubSeq(q, 1, i)[j] = q[1 + j - 1]
  BY <1>1, SubPath
<1>3. Len(SubSeq(q, 1, i)) = i /\ \A j \in 1 .. i : SubSeq(q, 1, i)[j] = q[j]
  BY <1>1, <1>2
<1>4. IsPrefix(SubSeq(q, 1, i), q)
  <2> DEFINE r == SubSeq(q, 1, i)
  <2>1. r \in Paths /\ Len(r) <= Len(q) /\ \A j \in 1 .. Len(r) : r[j] = q[j]
    BY <1>1, <1>2, <1>3
  <2> HIDE DEF r
  <2>2. IsPrefix(r, q)
    BY <2>1, PrefixIs
  <2> QED BY <2>2 DEF r
<1> QED BY <1>2, <1>3, <1>4

LEMMA PrefixIsAt ==
    ASSUME NEW p \in Paths, NEW q \in Paths, IsPrefix(p, q)
    PROVE  Len(p) \in 0 .. Len(q) /\ p = SubSeq(q, 1, Len(p))
<1>1. Len(p) \in Nat /\ Len(q) \in Nat
  BY PathIs
<1>2. SubSeq(p, 1, Len(p)) = p
  BY SubSeqFull DEF Paths
<1> QED BY <1>1, <1>2 DEF IsPrefix

LEMMA PrefixOfItself ==
    ASSUME NEW p \in Paths
    PROVE  IsPrefix(p, p)
BY PrefixIs, PathIs

LEMMA PrefixTransitive ==
    ASSUME NEW p \in Paths, NEW q \in Paths, NEW r \in Paths,
           IsPrefix(p, q), IsPrefix(q, r)
    PROVE  IsPrefix(p, r)
<1>1. Len(p) \in Nat /\ Len(q) \in Nat /\ Len(r) \in Nat
  BY PathIs
<1>2. Len(p) <= Len(q) /\ \A i \in 1 .. Len(p) : p[i] = q[i]
  BY PrefixIs
<1>3. Len(q) <= Len(r) /\ \A i \in 1 .. Len(q) : q[i] = r[i]
  BY PrefixIs
<1>4. Len(p) <= Len(r) /\ \A i \in 1 .. Len(p) : p[i] = r[i]
  BY <1>1, <1>2, <1>3
<1> QED BY <1>4, PrefixIs

LEMMA PrefixShorter ==
    ASSUME NEW p \in Paths, NEW q \in Paths, IsPrefix(p, q), p # q
    PROVE  Len(p) < Len(q)
BY PrefixIs, PathIs, PathsEqual

\* Two prefixes of one path.
LEMMA PrefixesCompare ==
    ASSUME NEW p \in Paths, NEW q \in Paths, NEW r \in Paths,
           IsPrefix(p, r), IsPrefix(q, r), Len(p) <= Len(q)
    PROVE  IsPrefix(p, q)
<1>1. Len(p) \in Nat /\ Len(q) \in Nat /\ Len(r) \in Nat
  BY PathIs
<1>2. Len(p) <= Len(r) /\ \A i \in 1 .. Len(p) : p[i] = r[i]
  BY PrefixIs
<1>3. Len(q) <= Len(r) /\ \A i \in 1 .. Len(q) : q[i] = r[i]
  BY PrefixIs
<1>4. Len(p) <= Len(q) /\ \A i \in 1 .. Len(p) : p[i] = q[i]
  BY <1>1, <1>2, <1>3
<1> QED BY <1>4, PrefixIs

LEMMA PrefixOfJoin ==
    ASSUME NEW p \in Paths, NEW s \in Paths
    PROVE  /\ p \o s \in Paths
           /\ IsPrefix(p, p \o s)
           /\ Rest(p, p \o s) = s
<1>1. Len(p) \in Nat /\ Len(s) \in Nat
  BY PathIs
<1>2. /\ p \o s \in Paths
      /\ Len(p \o s) = Len(p) + Len(s)
      /\ \A i \in 1 .. Len(p) : (p \o s)[i] = p[i]
      /\ \A i \in 1 .. Len(s) : (p \o s)[Len(p) + i] = s[i]
  BY Joined
<1> DEFINE q == p \o s
           r == Rest(p, q)
<1>3. IsPrefix(p, q)
  <2>1. q \in Paths /\ Len(p) <= Len(q) /\ \A i \in 1 .. Len(p) : p[i] = q[i]
    BY <1>1, <1>2
  <2> HIDE DEF q
  <2> QED BY <2>1, PrefixIs
<1>4. q \in Paths /\ Len(p) + 1 \in Nat \ {0} /\ Len(q) \in 0 .. Len(q)
  BY <1>1, <1>2
<1>5. /\ r \in Paths
      /\ Len(r) = IF Len(p) + 1 <= Len(q) THEN Len(q) - (Len(p) + 1) + 1 ELSE 0
      /\ \A i \in 1 .. Len(q) - (Len(p) + 1) + 1 : r[i] = q[Len(p) + 1 + i - 1]
  <2> HIDE DEF q
  <2> QED BY <1>4, SubPath DEF Rest
<1>6. Len(r) = Len(s)
  BY <1>1, <1>2, <1>5
<1>7. ASSUME NEW i \in 1 .. Len(s) PROVE r[i] = s[i]
  <2>1. i \in 1 .. Len(q) - (Len(p) + 1) + 1 /\ Len(p) + 1 + i - 1 = Len(p) + i
    BY <1>1, <1>2
  <2> QED BY <1>2, <1>5, <2>1
<1>8. r = s
  <2> HIDE DEF r
  <2> QED BY <1>5, <1>6, <1>7, PathsEqual
<1> QED BY <1>2, <1>3, <1>8

LEMMA PrefixSplits ==
    ASSUME NEW p \in Paths, NEW q \in Paths, IsPrefix(p, q)
    PROVE  /\ Rest(p, q) \in Paths
           /\ Len(Rest(p, q)) = Len(q) - Len(p)
           /\ p \o Rest(p, q) = q
<1>1. Len(p) \in Nat /\ Len(q) \in Nat /\ Len(p) <= Len(q)
      /\ \A i \in 1 .. Len(p) : p[i] = q[i]
  BY PathIs, PrefixIs
<1> DEFINE r == Rest(p, q)
           u == p \o r
<1>2. Len(p) + 1 \in Nat \ {0} /\ Len(q) \in 0 .. Len(q)
  BY <1>1
<1>3. /\ r \in Paths
      /\ Len(r) = IF Len(p) + 1 <= Len(q) THEN Len(q) - (Len(p) + 1) + 1 ELSE 0
      /\ \A i \in 1 .. Len(q) - (Len(p) + 1) + 1 : r[i] = q[Len(p) + 1 + i - 1]
  BY <1>2, SubPath DEF Rest
<1>4. Len(r) = Len(q) - Len(p)
  BY <1>1, <1>3
<1>5. ASSUME NEW i \in 1 .. Len(r) PROVE r[i] = q[Len(p) + i]
  <2>1. i \in 1 .. Len(q) - (Len(p) + 1) + 1 /\ Len(p) + 1 + i - 1 = Len(p) + i
    BY <1>1, <1>4
  <2> QED BY <1>3, <2>1
<1> HIDE DEF r
<1>6. /\ u \in Paths
      /\ Len(u) = Len(p) + Len(r)
      /\ \A i \in 1 .. Len(p) : u[i] = p[i]
      /\ \A i \in 1 .. Len(r) : u[Len(p) + i] = r[i]
  BY <1>3, Joined
<1>7. Len(u) = Len(q)
  BY <1>1, <1>4, <1>6
<1>8. ASSUME NEW i \in 1 .. Len(u) PROVE u[i] = q[i]
  <2>1. CASE i <= Len(p)
    BY <1>1, <1>6, <2>1
  <2>2. CASE ~(i <= Len(p))
    <3> DEFINE j == i - Len(p)
    <3>1. j \in 1 .. Len(r) /\ i = Len(p) + j
      BY <1>1, <1>4, <1>7, <2>2
    <3> HIDE DEF j
    <3> QED BY <1>5, <1>6, <3>1
  <2> QED BY <2>1, <2>2
<1>9. u = q
  <2> HIDE DEF u
  <2> QED BY <1>6, <1>7, <1>8, PathsEqual
<1> QED BY <1>3, <1>4, <1>9 DEF r

(***************************************************************************)
(* Trees.                                                                  *)
(***************************************************************************)

Filled(t) == \A p \in DOMAIN t : t[p] \in Contents \union {Dir}

\* What is above a path is there, and is a directory.
Closed(t) ==
    \A q \in DOMAIN t : \A p \in Paths :
        IsPrefix(p, q) /\ p # q => p \in DOMAIN t /\ t[p] = Dir

LEMMA TreeIs ==
    ASSUME NEW t
    PROVE  IsTree(t) <=> DOMAIN t \subseteq Paths /\ Filled(t) /\ Closed(t)
<1>1. ASSUME IsTree(t) PROVE Closed(t)
  <2> SUFFICES ASSUME NEW q \in DOMAIN t, NEW p \in Paths, IsPrefix(p, q), p # q
               PROVE  p \in DOMAIN t /\ t[p] = Dir
    BY DEF Closed
  <2>1. q \in Paths
    BY <1>1 DEF IsTree
  <2>2. Len(p) \in 0 .. Len(q) /\ p = SubSeq(q, 1, Len(p)) /\ Len(p) < Len(q)
    BY <2>1, PrefixIsAt, PrefixShorter
  <2>3. Len(p) \in 0 .. Len(q) - 1
    BY <2>1, <2>2, PathIs
  <2> QED BY <1>1, <2>2, <2>3 DEF IsTree
<1>2. ASSUME DOMAIN t \subseteq Paths, Closed(t), NEW q \in DOMAIN t, NEW i \in 0 .. Len(q) - 1
      PROVE  SubSeq(q, 1, i) \in DOMAIN t /\ t[SubSeq(q, 1, i)] = Dir
  <2>1. q \in Paths /\ i \in 0 .. Len(q) /\ i < Len(q)
    BY <1>2, PathIs
  <2>2. /\ SubSeq(q, 1, i) \in Paths
        /\ Len(SubSeq(q, 1, i)) = i
        /\ IsPrefix(SubSeq(q, 1, i), q)
    BY <2>1, PrefixAt
  <2>3. SubSeq(q, 1, i) # q
    BY <2>1, <2>2
  <2> QED BY <1>2, <2>2, <2>3 DEF Closed
<1> QED BY <1>1, <1>2 DEF IsTree, Filled

LEMMA AboveIsDir ==
    ASSUME NEW t, Closed(t), NEW q \in DOMAIN t, NEW p \in Paths, IsPrefix(p, q)
    PROVE  p \in DOMAIN t /\ (p # q => t[p] = Dir)
BY DEF Closed

\* There is nothing below a place where there is nothing, or a file.
LEMMA NothingBelow ==
    ASSUME NEW t, IsTree(t), NEW p \in Paths
    PROVE  /\ p \notin DOMAIN t => Under(t, p) = {}
           /\ p \in DOMAIN t /\ t[p] # Dir => Under(t, p) = {p}
<1>1. DOMAIN t \subseteq Paths /\ Closed(t)
  BY TreeIs
<1>2. IsPrefix(p, p)
  BY PrefixOfItself
<1> QED BY <1>1, <1>2, AboveIsDir DEF Under

\* Some paths are taken away, with all that is below them.
LEMMA Pruned ==
    ASSUME NEW t, IsTree(t), NEW R \in SUBSET DOMAIN t,
           \A q \in R : \A p \in Paths : IsPrefix(p, q) => p \in R
    PROVE  /\ IsTree(Restrict(t, R)) /\ DOMAIN Restrict(t, R) = R
           /\ \A q \in R : Restrict(t, R)[q] = t[q]
<1> DEFINE u == Restrict(t, R)
<1>1. DOMAIN u = R /\ \A q \in R : u[q] = t[q]
  BY DEF Restrict
<1>2. DOMAIN t \subseteq Paths /\ Filled(t) /\ Closed(t)
  BY TreeIs
<1> HIDE DEF u
<1>3. Filled(u)
  BY <1>1, <1>2 DEF Filled
<1>4. Closed(u)
  BY <1>1, <1>2 DEF Closed
<1>5. IsTree(u)
  BY <1>1, <1>2, <1>3, <1>4, TreeIs
<1> QED BY <1>1, <1>5 DEF u

\* A file is put where there is none but the directories above it.
LEMMA WithTree ==
    ASSUME NEW t, DOMAIN t \subseteq Paths, Filled(t), Closed(t),
           NEW p \in Paths, p \in DOMAIN t => t[p] # Dir,
           \A q \in Paths : IsPrefix(q, p) /\ q # p => q \in DOMAIN t /\ t[q] = Dir,
           NEW c \in Contents
    PROVE  IsTree(With(t, p, c))
<1> DEFINE u == With(t, p, c)
<1>1. /\ DOMAIN u = DOMAIN t \union {p} /\ u[p] = c
      /\ \A q \in DOMAIN t : q # p => u[q] = t[q]
  BY DEF With
<1> HIDE DEF u
<1>2. DOMAIN u \subseteq Paths /\ Filled(u)
  BY <1>1 DEF Filled
<1>3. Closed(u)
  <2> SUFFICES ASSUME NEW q \in DOMAIN u, NEW r \in Paths, IsPrefix(r, q), r # q
               PROVE  r \in DOMAIN u /\ u[r] = Dir
    BY DEF Closed
  <2>1. r \in DOMAIN t /\ t[r] = Dir
    BY <1>1 DEF Closed
  <2> QED BY <1>1, <2>1
<1>4. IsTree(u)
  BY <1>2, <1>3, TreeIs
<1> QED BY <1>4 DEF u

\* mkdir with parents: nothing that was there changes.
LEMMA MadeIs ==
    ASSUME IsTree(tree), NEW d \in Paths, CanMake(d)
    PROVE  /\ IsTree(Made(d))
           /\ Existing \subseteq DOMAIN Made(d) /\ DOMAIN Made(d) \subseteq Paths
           /\ \A q \in Existing : Made(d)[q] = tree[q]
           /\ \A q \in Paths : IsPrefix(q, d) => q \in DOMAIN Made(d) /\ Made(d)[q] = Dir
           /\ Filled(Made(d)) /\ Closed(Made(d))
           /\ \A q \in DOMAIN Made(d) \ Existing : IsPrefix(q, d) /\ Made(d)[q] = Dir
<1> DEFINE New == {SubSeq(d, 1, i) : i \in 0 .. Len(d)}
           u == Made(d)
<1>1. /\ DOMAIN u = Existing \union New
      /\ \A q \in Existing : u[q] = tree[q]
      /\ \A q \in New \ Existing : u[q] = Dir
  BY DEF Made
<1>2. Existing \subseteq Paths /\ Filled(tree) /\ Closed(tree)
  BY TreeIs DEF Existing
<1>3. \A q \in New : q \in Paths /\ IsPrefix(q, d)
  BY PrefixAt
<1>4. ASSUME NEW q \in Paths, IsPrefix(q, d)
      PROVE  q \in New /\ u[q] = Dir
  <2>1. Len(q) \in 0 .. Len(d) /\ q = SubSeq(d, 1, Len(q))
    BY <1>4, PrefixIsAt
  <2>2. ~IsFile(q)
    BY <2>1 DEF CanMake
  <2> QED BY <1>1, <2>1, <2>2 DEF IsFile
<1> HIDE DEF New, u
<1>5. Filled(u)
  BY <1>1, <1>2 DEF Filled, Existing
<1>6. Closed(u)
  <2> SUFFICES ASSUME NEW q \in DOMAIN u, NEW r \in Paths, IsPrefix(r, q), r # q
               PROVE  r \in DOMAIN u /\ u[r] = Dir
    BY DEF Closed
  <2>1. CASE q \in Existing
    <3>1. r \in Existing /\ tree[r] = Dir
      BY <1>2, <2>1 DEF Closed, Existing
    <3> QED BY <1>1, <3>1
  <2>2. CASE q \in New
    <3>1. IsPrefix(r, d)
      BY <1>3, <2>2, PrefixTransitive
    <3> QED BY <1>1, <1>4, <3>1
  <2> QED BY <1>1, <2>1, <2>2
<1>7. DOMAIN u \subseteq Paths
  BY <1>1, <1>2, <1>3
<1>8. \A q \in DOMAIN u \ Existing : IsPrefix(q, d) /\ u[q] = Dir
  BY <1>1, <1>3
<1>9. IsTree(u)
  BY <1>5, <1>6, <1>7, TreeIs
<1>10. \A q \in Paths : IsPrefix(q, d) => q \in DOMAIN u /\ u[q] = Dir
  BY <1>1, <1>4
<1> QED BY <1>1, <1>5, <1>6, <1>7, <1>8, <1>9, <1>10 DEF u

(***************************************************************************)
(* A directory that goes, or is copied, to another place.                  *)
(***************************************************************************)

LEMMA PrefixJoin ==
    ASSUME NEW p \in Paths, NEW v \in Paths, NEW s \in Paths
    PROVE  IsPrefix(p \o v, p \o s) <=> IsPrefix(v, s)
<1> DEFINE a == p \o v
           b == p \o s
<1>1. Len(p) \in Nat /\ Len(v) \in Nat /\ Len(s) \in Nat
  BY PathIs
<1>2. /\ a \in Paths /\ Len(a) = Len(p) + Len(v)
      /\ \A i \in 1 .. Len(p) : a[i] = p[i]
      /\ \A i \in 1 .. Len(v) : a[Len(p) + i] = v[i]
  BY Joined
<1>3. /\ b \in Paths /\ Len(b) = Len(p) + Len(s)
      /\ \A i \in 1 .. Len(p) : b[i] = p[i]
      /\ \A i \in 1 .. Len(s) : b[Len(p) + i] = s[i]
  BY Joined
<1> HIDE DEF a, b
<1>4. ASSUME IsPrefix(a, b) PROVE IsPrefix(v, s)
  <2>1. Len(a) <= Len(b) /\ \A i \in 1 .. Len(a) : a[i] = b[i]
    BY <1>2, <1>3, <1>4, PrefixIs
  <2>2. Len(v) <= Len(s)
    BY <1>1, <1>2, <1>3, <2>1
  <2>3. ASSUME NEW i \in 1 .. Len(v) PROVE v[i] = s[i]
    <3>1. Len(p) + i \in 1 .. Len(a) /\ i \in 1 .. Len(s)
      BY <1>1, <1>2, <2>2
    <3> QED BY <1>2, <1>3, <2>1, <3>1
  <2> QED BY <2>2, <2>3, PrefixIs
<1>5. ASSUME IsPrefix(v, s) PROVE IsPrefix(a, b)
  <2>1. Len(v) <= Len(s) /\ \A i \in 1 .. Len(v) : v[i] = s[i]
    BY <1>5, PrefixIs
  <2>2. ASSUME NEW i \in 1 .. Len(a) PROVE a[i] = b[i]
    <3>1. CASE i <= Len(p)
      BY <1>1, <1>2, <1>3, <3>1
    <3>2. CASE ~(i <= Len(p))
      <4> DEFINE j == i - Len(p)
      <4>1. j \in 1 .. Len(v) /\ j \in 1 .. Len(s) /\ i = Len(p) + j
        BY <1>1, <1>2, <2>1, <3>2
      <4> HIDE DEF j
      <4> QED BY <1>2, <1>3, <2>1, <4>1
    <3> QED BY <3>1, <3>2
  <2>3. Len(a) <= Len(b)
    BY <1>1, <1>2, <1>3, <2>1
  <2> QED BY <1>2, <1>3, <2>2, <2>3, PrefixIs
<1> QED BY <1>4, <1>5 DEF a, b

\* What t has from src down, put at to.
Moved(t, src, to) == {to \o Rest(src, q) : q \in Under(t, src)}

LEMMA MovedIs ==
    ASSUME NEW t, DOMAIN t \subseteq Paths, NEW src \in Paths, NEW to \in Paths
    PROVE  /\ \A s \in Paths : to \o s \in Moved(t, src, to) <=> src \o s \in DOMAIN t
           /\ \A q \in Moved(t, src, to) :
                /\ q \in Paths /\ IsPrefix(to, q) /\ Rest(to, q) \in Paths
                /\ q = to \o Rest(to, q) /\ src \o Rest(to, q) \in DOMAIN t
<1>1. ASSUME NEW x \in DOMAIN t, IsPrefix(src, x)
      PROVE  Rest(src, x) \in Paths /\ src \o Rest(src, x) = x
  BY <1>1, PrefixSplits
<1>2. ASSUME NEW s \in Paths, src \o s \in DOMAIN t
      PROVE  to \o s \in Moved(t, src, to)
  <2>1. IsPrefix(src, src \o s) /\ Rest(src, src \o s) = s
    BY PrefixOfJoin
  <2> QED BY <1>2, <2>1 DEF Moved, Under
<1>3. ASSUME NEW q \in Moved(t, src, to)
      PROVE  /\ q \in Paths /\ IsPrefix(to, q) /\ Rest(to, q) \in Paths
             /\ q = to \o Rest(to, q) /\ src \o Rest(to, q) \in DOMAIN t
  <2>1. PICK x \in DOMAIN t : IsPrefix(src, x) /\ q = to \o Rest(src, x)
    BY DEF Moved, Under
  <2>2. Rest(src, x) \in Paths /\ src \o Rest(src, x) = x
    BY <1>1, <2>1
  <2>3. q \in Paths /\ IsPrefix(to, q) /\ Rest(to, q) = Rest(src, x)
    BY <2>1, <2>2, PrefixOfJoin
  <2> QED BY <2>1, <2>2, <2>3
<1>4. ASSUME NEW s \in Paths, to \o s \in Moved(t, src, to)
      PROVE  src \o s \in DOMAIN t
  <2>1. Rest(to, to \o s) = s
    BY PrefixOfJoin
  <2> QED BY <1>3, <1>4, <2>1
<1> QED BY <1>2, <1>3, <1>4

\* Two trees, a place src in the second and a free place to below a directory
\* of the first.
Graftable(base, t, src, to) ==
    /\ IsTree(base) /\ IsTree(t)
    /\ src \in Paths /\ to \in Paths /\ to \notin DOMAIN base
    /\ \A p \in Paths : IsPrefix(p, to) /\ p # to => p \in DOMAIN base /\ base[p] = Dir

\* What is in u then.
Grafted(u, base, t, src, to) ==
    /\ DOMAIN u = DOMAIN base \union Moved(t, src, to)
    /\ \A q \in DOMAIN base : u[q] = base[q]
    /\ \A s \in Paths : src \o s \in DOMAIN t =>
         to \o s \in DOMAIN u /\ u[to \o s] = t[src \o s]

LEMMA GraftIs ==
    ASSUME NEW base, NEW t, NEW src, NEW to, Graftable(base, t, src, to),
           NEW u, u = Placed(base, t, src, to)
    PROVE  Grafted(u, base, t, src, to)
<1> DEFINE M == Moved(t, src, to)
<1>1. /\ DOMAIN u = DOMAIN base \union M
      /\ \A q \in M : u[q] = t[src \o Rest(to, q)]
      /\ \A q \in DOMAIN base \ M : u[q] = base[q]
  BY DEF Placed, Moved
<1>2. DOMAIN t \subseteq Paths /\ DOMAIN base \subseteq Paths /\ Closed(base)
  BY TreeIs DEF Graftable
<1>3. src \in Paths /\ to \in Paths /\ to \notin DOMAIN base
  BY DEF Graftable
<1>4. DOMAIN base \cap M = {}
  <2> SUFFICES ASSUME NEW q \in DOMAIN base, q \in M PROVE FALSE
    OBVIOUS
  <2>1. IsPrefix(to, q)
    BY <1>2, <1>3, MovedIs
  <2> QED BY <1>2, <1>3, <2>1, AboveIsDir
<1>5. ASSUME NEW s \in Paths, src \o s \in DOMAIN t
      PROVE  to \o s \in DOMAIN u /\ u[to \o s] = t[src \o s]
  <2>1. to \o s \in M /\ Rest(to, to \o s) = s
    BY <1>2, <1>3, <1>5, MovedIs, PrefixOfJoin
  <2> QED BY <1>1, <2>1
<1> HIDE DEF M
<1>6. \A q \in DOMAIN base : u[q] = base[q]
  BY <1>1, <1>4
<1> QED BY <1>1, <1>5, <1>6 DEF M, Grafted

LEMMA GraftTree ==
    ASSUME NEW base, NEW t, NEW src, NEW to, Graftable(base, t, src, to)
    PROVE  IsTree(Placed(base, t, src, to))
<1> DEFINE M == Moved(t, src, to)
<1>0. PICK u : u = Placed(base, t, src, to)
  OBVIOUS
<1>1. /\ DOMAIN t \subseteq Paths /\ Filled(t) /\ Closed(t)
      /\ DOMAIN base \subseteq Paths /\ Filled(base) /\ Closed(base)
  BY TreeIs DEF Graftable
<1>2. src \in Paths /\ to \in Paths /\ to \notin DOMAIN base
  BY DEF Graftable
<1>3. \A q \in M : /\ q \in Paths /\ IsPrefix(to, q) /\ Rest(to, q) \in Paths
                   /\ q = to \o Rest(to, q) /\ src \o Rest(to, q) \in DOMAIN t
  BY <1>1, <1>2, MovedIs
<1>4. /\ DOMAIN u = DOMAIN base \union M
      /\ \A q \in DOMAIN base : u[q] = base[q]
      /\ \A s \in Paths : src \o s \in DOMAIN t =>
           to \o s \in DOMAIN u /\ u[to \o s] = t[src \o s]
  <2>1. Grafted(u, base, t, src, to)
    BY <1>0, GraftIs
  <2> QED BY <2>1 DEF Grafted
<1> HIDE DEF M
<1>5. Filled(u)
  <2> SUFFICES ASSUME NEW q \in DOMAIN u PROVE u[q] \in Contents \union {Dir}
    BY DEF Filled
  <2>1. CASE q \in DOMAIN base
    BY <1>1, <1>4, <2>1 DEF Filled
  <2>2. CASE q \in M
    <3>1. u[q] = t[src \o Rest(to, q)] /\ src \o Rest(to, q) \in DOMAIN t
      BY <1>3, <1>4, <2>2
    <3> QED BY <1>1, <3>1 DEF Filled
  <2> QED BY <1>4, <2>1, <2>2
<1>6. Closed(u)
  <2> SUFFICES ASSUME NEW q \in DOMAIN u, NEW r \in Paths, IsPrefix(r, q), r # q
               PROVE  r \in DOMAIN u /\ u[r] = Dir
    BY DEF Closed
  <2>1. CASE q \in DOMAIN base
    <3>1. r \in DOMAIN base /\ base[r] = Dir
      BY <1>1, <2>1 DEF Closed
    <3> QED BY <1>4, <3>1
  <2>2. CASE q \in M /\ Len(r) < Len(to)
    <3>1. Len(r) \in Nat /\ Len(to) \in Nat
      BY <1>2, PathIs
    <3>2. IsPrefix(r, to) /\ r # to
      BY <1>2, <1>3, <2>2, <3>1, PrefixesCompare
    <3>3. r \in DOMAIN base /\ base[r] = Dir
      BY <3>2 DEF Graftable
    <3> QED BY <1>4, <3>3
  <2>3. CASE q \in M /\ ~(Len(r) < Len(to))
    <3> DEFINE s == Rest(to, q)
               v == Rest(to, r)
    <3>1. Len(r) \in Nat /\ Len(to) \in Nat
      BY <1>2, PathIs
    <3>2. q \in Paths /\ IsPrefix(to, q) /\ s \in Paths /\ q = to \o s
          /\ src \o s \in DOMAIN t
      BY <1>3, <2>3
    <3>3. IsPrefix(to, r)
      BY <1>2, <2>3, <3>1, <3>2, PrefixesCompare
    <3>4. v \in Paths /\ r = to \o v
      BY <1>2, <3>3, PrefixSplits
    <3> HIDE DEF s, v
    <3>5. IsPrefix(v, s) /\ v # s
      BY <1>2, <3>2, <3>4, PrefixJoin
    <3>6. IsPrefix(src \o v, src \o s) /\ src \o v \in Paths
      BY <1>2, <3>2, <3>4, <3>5, PrefixJoin, PrefixOfJoin
    <3>7. src \o v # src \o s
      <4>1. Rest(src, src \o v) = v /\ Rest(src, src \o s) = s
        BY <1>2, <3>2, <3>4, PrefixOfJoin
      <4> QED BY <3>5, <4>1
    <3>8. src \o v \in DOMAIN t /\ t[src \o v] = Dir
      BY <1>1, <3>2, <3>6, <3>7 DEF Closed
    <3> QED BY <1>4, <3>4, <3>8
  <2> QED BY <1>4, <2>1, <2>2, <2>3
<1>7. DOMAIN u \subseteq Paths
  BY <1>1, <1>3, <1>4
<1>8. IsTree(u)
  BY <1>5, <1>6, <1>7, TreeIs
<1> QED BY <1>0, <1>8

(***************************************************************************)
(* The invariant.                                                          *)
(***************************************************************************)

Member(c) == \E z \in Zips, m \in Names : c = <<"member", z, m>>

UploadsOK ==
    /\ upload \in [Uploads -> {"none", "sending", "whole", "admitted", "bare", "gone"}]
    /\ granted \subseteq Uploads /\ moderator \in BOOLEAN
    /\ \A u \in Uploads : upload[u] = "admitted" => u \in granted
    /\ moderator => \A u \in Uploads : upload[u] = "whole" => u \in granted

CountersOK == requests \in 0 .. MaxRequests /\ waiting \in 0 .. requests

\* Nothing was below the directory of an extraction when it was chosen.
ThreadsOK ==
    /\ thread \in [Threads -> Extraction \union {Idle}]
    /\ \A t \in Threads : thread[t].pc \in {"mkdir", "write"} => thread[t].had = {}

\* Nothing was below the name of a handler, and what is there was extracted since.
Found ==
    /\ handler \in Handler
    /\ handler.to # <<>> /\ handler.had = {}
    /\ \A p \in Below(handler.to) : tree[p] = Dir \/ Member(tree[p])
    /\ handler.pc \in {"copy", "rename"} => handler.from # <<>>
    /\ handler.pc = "rename" => Parent(handler.to) = Parent(handler.from)
    /\ handler.pc = "upload" => upload[handler.from] = "admitted"

HandlerOK == handler # Idle => Found

IInv == IsTree(tree) /\ UploadsOK /\ CountersOK /\ ThreadsOK /\ HandlerOK

LEMMA TypeInvariant == IInv => TypeOK
<1> SUFFICES ASSUME IInv PROVE TypeOK
  OBVIOUS
<1>1. DOMAIN tree \subseteq Paths /\ \A p \in DOMAIN tree : tree[p] \in Contents \union {Dir}
  BY TreeIs DEF IInv, Filled
<1>2. handler \in Handler \union {Idle}
  BY DEF IInv, HandlerOK, Found
<1>3. waiting \in 0 .. MaxRequests /\ requests \in 0 .. MaxRequests
  BY BoundsAssumption DEF IInv, CountersOK
<1> QED BY <1>1, <1>2, <1>3 DEF IInv, UploadsOK, ThreadsOK, TypeOK

LEMMA TypeTree ==
    ASSUME IInv
    PROVE  /\ IsTree(tree) /\ Existing \subseteq Paths
           /\ Filled(tree) /\ Closed(tree)
BY TreeIs DEF IInv, Existing

LEMMA HandlerIs ==
    ASSUME IInv, handler.pc \in {"copy", "compress", "rename", "upload"}
    PROVE  /\ handler # Idle /\ Found /\ handler.to \in Paths
           /\ handler.pc = "upload" => handler.from \in Uploads
           /\ handler.pc # "upload" => handler.from \in Paths
<1>1. handler # Idle
  BY DEF Idle
<1>2. Found
  BY <1>1 DEF IInv, HandlerOK
<1> QED BY <1>1, <1>2 DEF Found, Handler

LEMMA ThreadIs ==
    ASSUME IInv, NEW t \in Threads
    PROVE  /\ thread[t].pc = "open" => thread[t].path \in Paths
           /\ thread[t].pc \in {"mkdir", "write"} =>
                /\ thread[t] \in [pc : {"mkdir", "write"}, zip : Zips, in : Paths,
                                  left : SUBSET Names, had : SUBSET Paths]
                /\ thread[t].had = {}
<1>1. thread[t] \in Extraction \union {Idle}
  BY DEF IInv, ThreadsOK
<1>2. ASSUME thread[t].pc \in {"open", "mkdir", "write"} PROVE thread[t] \in Extraction
  BY <1>1, <1>2 DEF Idle
<1> QED BY <1>1, <1>2 DEF Extraction, IInv, ThreadsOK

(***************************************************************************)
(* What each action does to the tree.                                      *)
(***************************************************************************)

Spared(p) == p \in DOMAIN tree' /\ tree'[p] = tree[p]

\* Everything that was there stays as it was.
Kept == \A p \in Existing : Spared(p)

\* What a handler may take the place of.
Newcomer(p) == IsPrefix(handler.to, p) /\ p \notin handler.had /\ Member(tree[p])

LEMMA ParentIs ==
    ASSUME NEW p \in Paths, p # <<>>
    PROVE  /\ Parent(p) \in Paths /\ IsPrefix(Parent(p), p) /\ Parent(p) # p
           /\ Len(Parent(p)) = Len(p) - 1
           /\ Last(p) \in Names
<1>1. Len(p) \in Nat /\ Len(p) # 0
  BY PathIs
<1>2. Len(p) - 1 \in 0 .. Len(p) /\ Len(p) \in 1 .. Len(p)
  BY <1>1
<1>3. Parent(p) = SubSeq(p, 1, Len(p) - 1)
  BY DEF Parent, Front
<1>4. /\ Parent(p) \in Paths /\ Len(Parent(p)) = Len(p) - 1
      /\ IsPrefix(Parent(p), p)
  BY <1>2, <1>3, PrefixAt
<1>5. Last(p) \in Names
  BY <1>2, PathIs DEF Last
<1>6. Parent(p) # p
  BY <1>1, <1>4
<1> QED BY <1>4, <1>5, <1>6

\* What is above a path is its parent and what is above that.
LEMMA AboveParent ==
    ASSUME NEW p \in Paths, p # <<>>, NEW q \in Paths, IsPrefix(q, p), q # p
    PROVE  IsPrefix(q, Parent(p))
<1>1. /\ Parent(p) \in Paths /\ IsPrefix(Parent(p), p)
      /\ Len(Parent(p)) = Len(p) - 1
  BY ParentIs
<1>2. Len(q) < Len(p) /\ Len(q) \in Nat /\ Len(p) \in Nat
  BY PrefixShorter, PathIs
<1>3. Len(q) <= Len(Parent(p))
  BY <1>1, <1>2
<1> QED BY <1>1, <1>3, PrefixesCompare

LEMMA ChildIs ==
    ASSUME NEW d \in Paths, NEW n \in Names
    PROVE  /\ Append(d, n) \in Paths /\ Append(d, n) # <<>>
           /\ Parent(Append(d, n)) = d /\ IsPrefix(d, Append(d, n))
           /\ ~IsPrefix(Append(d, n), d)
<1> DEFINE c == Append(d, n)
<1>1. /\ c \in Paths /\ c # <<>> /\ Len(c) = Len(d) + 1 /\ Len(d) \in Nat
      /\ \A i \in 1 .. Len(d) : c[i] = d[i]
  BY Appended, PathIs
<1> HIDE DEF c
<1>2. IsPrefix(d, c)
  BY <1>1, PrefixIs
<1>3. ~IsPrefix(c, d)
  BY <1>1, PrefixIs
<1>4. Parent(c) = d
  <2>1. Parent(c) \in Paths /\ Len(Parent(c)) = Len(d) /\ IsPrefix(Parent(c), c)
    BY <1>1, ParentIs
  <2>2. \A i \in 1 .. Len(d) : Parent(c)[i] = d[i]
    BY <1>1, <2>1, PrefixIs
  <2> QED BY <1>1, <2>1, <2>2, PathsEqual
<1> QED BY <1>1, <1>2, <1>3, <1>4 DEF c

LEMMA FreeIsFree ==
    ASSUME NEW t, NEW d, NEW name \in Names, NEW n \in Free(t, d, name)
    PROVE  n \in Names /\ Append(d, n) \notin DOMAIN t
BY NamesAssumption DEF Free

\* open(p, "wb"), or rename of a file to p.
LEMMA WriteTree ==
    ASSUME IsTree(tree), NEW p \in Paths, CanWrite(p), NEW c \in Contents,
           tree' = With(tree, p, c)
    PROVE  /\ IsTree(tree') /\ p \in DOMAIN tree' /\ tree'[p] = c
           /\ \A q \in Existing : q # p => Spared(q)
<1>1. /\ DOMAIN tree \subseteq Paths /\ Filled(tree) /\ Closed(tree)
  BY TreeIs
<1>2. p # <<>> /\ Parent(p) \in DOMAIN tree /\ tree[Parent(p)] = Dir
      /\ (p \in DOMAIN tree => tree[p] # Dir)
  BY DEF CanWrite, IsDir, Existing
<1>3. ASSUME NEW q \in Paths, IsPrefix(q, p), q # p PROVE q \in DOMAIN tree /\ tree[q] = Dir
  <2>1. IsPrefix(q, Parent(p))
    BY <1>2, <1>3, AboveParent
  <2> QED BY <1>1, <1>2, <2>1, AboveIsDir
<1>4. IsTree(With(tree, p, c))
  BY <1>1, <1>2, <1>3, WithTree
<1>5. PICK u : u = With(tree, p, c)
  OBVIOUS
<1>6. /\ DOMAIN u = DOMAIN tree \union {p} /\ u[p] = c
      /\ \A q \in DOMAIN tree : q # p => u[q] = tree[q]
  BY <1>5 DEF With
<1> QED BY <1>4, <1>5, <1>6 DEF Spared, Existing

\* A handler that writes at its name, or below it, replaces newcomers only.
LEMMA UseTree ==
    ASSUME IInv, handler # Idle, NEW p \in Paths, IsPrefix(handler.to, p), CanWrite(p),
           NEW c \in Contents, tree' = With(tree, p, c)
    PROVE  /\ IsTree(tree') /\ p \in DOMAIN tree' /\ tree'[p] = c
           /\ p \in Existing => Newcomer(p)
           /\ \A q \in Existing : Spared(q) \/ Newcomer(q)
<1>1. /\ IsTree(tree') /\ p \in DOMAIN tree' /\ tree'[p] = c
      /\ \A q \in Existing : q # p => Spared(q)
  BY WriteTree DEF IInv
<1>2. ASSUME p \in Existing PROVE Newcomer(p)
  <2>1. Found
    BY DEF IInv, HandlerOK
  <2>2. p \in Below(handler.to) /\ tree[p] # Dir
    BY <1>2 DEF Below, Under, CanWrite, IsDir, Existing
  <2> QED BY <2>1, <2>2 DEF Found, Newcomer
<1> QED BY <1>1, <1>2

LEMMA DeleteTree ==
    ASSUME IInv, NEW p, Delete(p)
    PROVE  IsTree(tree')
<1>1. PICK R \in SUBSET Below(p) :
        /\ \A q \in R : Below(q) \subseteq R
        /\ tree' = Restrict(tree, Existing \ R)
  BY DEF Delete
<1>2. Existing \subseteq Paths /\ Closed(tree) /\ IsTree(tree)
  BY TypeTree
<1> DEFINE K == Existing \ R
<1>3. ASSUME NEW q \in K, NEW r \in Paths, IsPrefix(r, q) PROVE r \in K
  <2>1. r \in Existing
    BY <1>2, <1>3, AboveIsDir DEF Existing
  <2>2. r \notin R
    BY <1>1, <1>3 DEF Below, Under, Existing
  <2> QED BY <2>1, <2>2
<1>4. K \in SUBSET DOMAIN tree
  BY DEF Existing
<1> HIDE DEF K
<1>5. IsTree(Restrict(tree, K))
  BY <1>2, <1>3, <1>4, Pruned
<1> QED BY <1>1, <1>5 DEF K

LEMMA DeleteSpares ==
    ASSUME NEW p, Delete(p), NEW q \in Existing, ~IsPrefix(p, q)
    PROVE  Spared(q)
<1>1. PICK R \in SUBSET Below(p) : tree' = Restrict(tree, Existing \ R)
  BY DEF Delete
<1>2. q \notin R
  BY <1>1 DEF Below, Under
<1> QED BY <1>1, <1>2 DEF Restrict, Spared

LEMMA SetContentTree ==
    ASSUME IInv, NEW p, SetContent(p)
    PROVE  IsTree(tree') /\ \A q \in Existing : q # p => Spared(q)
<1>1. p \in Existing /\ tree[p] # Dir /\ tree' = [tree EXCEPT ![p] = <<"edited">>]
  BY DEF SetContent, IsFile
<1>2. /\ DOMAIN tree' = DOMAIN tree /\ tree'[p] = <<"edited">>
      /\ \A q \in DOMAIN tree : q # p => tree'[q] = tree[q]
  BY <1>1 DEF Existing
<1>3. <<"edited">> \in Contents
  BY DEF Contents
<1>4. Existing \subseteq Paths /\ Filled(tree) /\ Closed(tree)
  BY TypeTree
<1>5. Filled(tree')
  BY <1>2, <1>3, <1>4 DEF Filled
<1>6. Closed(tree')
  <2> SUFFICES ASSUME NEW q \in DOMAIN tree', NEW r \in Paths, IsPrefix(r, q), r # q
               PROVE  r \in DOMAIN tree' /\ tree'[r] = Dir
    BY DEF Closed
  <2>1. r \in DOMAIN tree /\ tree[r] = Dir
    BY <1>2, <1>4 DEF Closed
  <2> QED BY <1>1, <1>2, <2>1
<1>7. DOMAIN tree' \subseteq Paths
  BY <1>2, <1>4 DEF Existing
<1>8. IsTree(tree')
  BY <1>5, <1>6, <1>7, TreeIs
<1> QED BY <1>2, <1>8 DEF Existing, Spared

LEMMA CopyDirTree ==
    ASSUME IInv, CopyDir
    PROVE  IsTree(tree') /\ Kept
<1> DEFINE src == handler.from
           to == handler.to
           d == Parent(to)
<1>1. /\ handler.pc = "copy" /\ to \notin Existing /\ CanMake(d)
      /\ tree' = Placed(Made(d), tree, src, to)
  BY DEF CopyDir
<1>2. src \in Paths /\ to \in Paths /\ to # <<>>
  BY <1>1, HandlerIs DEF Found
<1>3. d \in Paths /\ Len(d) = Len(to) - 1 /\ Len(to) \in Nat
  BY <1>2, ParentIs, PathIs
<1>4. /\ IsTree(Made(d)) /\ Existing \subseteq DOMAIN Made(d)
      /\ \A q \in Existing : Made(d)[q] = tree[q]
      /\ \A q \in Paths : IsPrefix(q, d) => q \in DOMAIN Made(d) /\ Made(d)[q] = Dir
      /\ \A q \in DOMAIN Made(d) \ Existing : IsPrefix(q, d)
  BY <1>1, <1>3, MadeIs DEF IInv
<1>5. to \notin DOMAIN Made(d)
  <2>1. ~IsPrefix(to, d)
    BY <1>2, <1>3, PrefixIs
  <2> QED BY <1>1, <1>4, <2>1
<1>6. ASSUME NEW q \in Paths, IsPrefix(q, to), q # to
      PROVE  q \in DOMAIN Made(d) /\ Made(d)[q] = Dir
  BY <1>2, <1>4, <1>6, AboveParent
<1> HIDE DEF src, to, d
<1>7. Graftable(Made(d), tree, src, to)
  BY <1>2, <1>4, <1>5, <1>6 DEF Graftable, IInv
<1>8. IsTree(tree')
  BY <1>1, <1>7, GraftTree
<1>9. Grafted(tree', Made(d), tree, src, to)
  BY <1>1, <1>7, GraftIs
<1> QED BY <1>4, <1>8, <1>9 DEF Grafted, Kept, Spared

LEMMA CopyFileTree ==
    ASSUME IInv, CopyFile
    PROVE  IsTree(tree') /\ \A q \in Existing : Spared(q) \/ Newcomer(q)
<1>1. /\ handler.pc = "copy" /\ IsFile(handler.from) /\ CanWrite(CopyPlace)
      /\ tree' = With(tree, CopyPlace, tree[handler.from])
  BY DEF CopyFile
<1>2. handler # Idle /\ handler.from \in Paths /\ handler.to \in Paths /\ handler.from # <<>>
  BY <1>1, HandlerIs DEF Found
<1>3. CopyPlace \in Paths /\ IsPrefix(handler.to, CopyPlace)
  BY <1>2, ParentIs, ChildIs, PrefixOfItself DEF CopyPlace
<1>4. tree[handler.from] \in Contents
  BY <1>1, TypeTree DEF IsFile, Filled, Existing
<1> QED BY <1>1, <1>2, <1>3, <1>4, UseTree

LEMMA CompressTree ==
    ASSUME IInv, Compress
    PROVE  IsTree(tree') /\ \A q \in Existing : Spared(q) \/ Newcomer(q)
<1>1. /\ handler.pc = "compress" /\ CanWrite(handler.to)
      /\ tree' = With(tree, handler.to, <<"archive">>)
  BY DEF Compress
<1>2. handler # Idle /\ handler.to \in Paths
  BY <1>1, HandlerIs
<1>3. <<"archive">> \in Contents
  BY DEF Contents
<1> QED BY <1>1, <1>2, <1>3, PrefixOfItself, UseTree

LEMMA PlaceTree ==
    ASSUME IInv, PlaceUpload
    PROVE  /\ IsTree(tree') /\ \A q \in Existing : Spared(q) \/ Newcomer(q)
           /\ handler.to \in DOMAIN tree' /\ tree'[handler.to] = <<"upload", handler.from>>
           /\ handler.to \in Existing => Newcomer(handler.to)
<1>1. /\ handler.pc = "upload" /\ CanWrite(handler.to)
      /\ tree' = With(tree, handler.to, <<"upload", handler.from>>)
  BY DEF PlaceUpload
<1>2. handler # Idle /\ handler.to \in Paths /\ handler.from \in Uploads
  BY <1>1, HandlerIs
<1>3. <<"upload", handler.from>> \in Contents
  BY <1>2 DEF Contents
<1> QED BY <1>1, <1>2, <1>3, PrefixOfItself, UseTree

\* What is below the old name is below the new one; what was there is replaced.
LEMMA RenameTree ==
    ASSUME IInv, Rename
    PROVE  /\ IsTree(tree')
           /\ \A q \in Existing :
                \/ Spared(q)
                \/ /\ IsPrefix(handler.from, q)
                   /\ handler.to \o Rest(handler.from, q) \in DOMAIN tree'
                   /\ tree'[handler.to \o Rest(handler.from, q)] = tree[q]
                \/ q = handler.to /\ (IsFile(q) => Newcomer(q))
<1> DEFINE src == handler.from
           to == handler.to
           K == Existing \ (Below(src) \union {to})
           base == Restrict(tree, K)
<1>1. /\ handler.pc = "rename" /\ CanMove(src, to)
      /\ tree' = Placed(base, tree, src, to)
  BY DEF Rename
<1>2. /\ handler # Idle /\ Found /\ src \in Paths /\ to \in Paths
      /\ src # <<>> /\ to # <<>> /\ Parent(to) = Parent(src)
  BY <1>1, HandlerIs DEF Found
<1>3. IsTree(tree) /\ Existing \subseteq Paths /\ Closed(tree)
  BY TypeTree
<1>4. /\ Parent(src) \in Paths /\ IsPrefix(Parent(src), src) /\ Parent(src) # src
      /\ Len(Parent(src)) = Len(src) - 1 /\ Len(Parent(src)) = Len(to) - 1
      /\ Len(src) \in Nat /\ Len(to) \in Nat
  BY <1>2, ParentIs, PathIs
<1>5. ASSUME to \in Existing PROVE Below(to) = {to}
  <2>1. CASE tree[to] # Dir
    BY <1>2, <1>3, <1>5, <2>1, NothingBelow DEF Below, Existing
  <2>2. CASE tree[to] = Dir
    BY <1>1, <1>5, <2>2 DEF CanMove, IsFile, IsDir
  <2> QED BY <2>1, <2>2
<1>6. ASSUME NEW q \in K, NEW r \in Paths, IsPrefix(r, q) PROVE r \in K
  <2>1. r \in Existing /\ q \in Existing /\ q \in Paths
    BY <1>3, <1>6, AboveIsDir DEF Existing
  <2>2. ~IsPrefix(src, r)
    BY <1>2, <1>6, <2>1, PrefixTransitive DEF Below, Under, Existing
  <2>3. r # to
    <3> SUFFICES ASSUME r = to PROVE FALSE
      OBVIOUS
    <3>1. q \in Below(to)
      BY <1>6, <2>1 DEF Below, Under, Existing
    <3> QED BY <1>5, <1>6, <2>1, <3>1
  <2> QED BY <2>1, <2>2, <2>3 DEF Below, Under
<1>7. ASSUME NEW q \in Paths, IsPrefix(q, to), q # to
      PROVE  q \in K /\ tree[q] = Dir
  <2>1. IsPrefix(q, Parent(src))
    BY <1>2, <1>7, AboveParent
  <2>2. IsPrefix(q, src)
    BY <1>2, <1>4, <2>1, PrefixTransitive
  <2>3. Len(q) <= Len(Parent(src)) /\ Len(q) \in Nat
    BY <1>4, <2>1, PrefixIs, PathIs
  <2>4. q # src
    BY <1>4, <2>3
  <2>5. src \in Existing
    BY <1>1 DEF CanMove
  <2>6. q \in Existing /\ tree[q] = Dir
    BY <1>3, <2>2, <2>4, <2>5, AboveIsDir DEF Existing
  <2>7. ~IsPrefix(src, q)
    BY <1>2, <1>4, <2>3, PrefixIs
  <2> QED BY <1>7, <2>6, <2>7 DEF Below, Under
<1>8. K \in SUBSET DOMAIN tree /\ to \notin K
  BY DEF Existing
<1>9. \A q \in Existing : q # to /\ ~IsPrefix(src, q) => q \in K
  BY DEF Below, Under
<1> HIDE DEF K, src, to
<1>10. IsTree(base) /\ DOMAIN base = K /\ \A q \in K : base[q] = tree[q]
  BY <1>3, <1>6, <1>8, Pruned
<1> HIDE DEF base
<1>11. Graftable(base, tree, src, to)
  BY <1>2, <1>3, <1>7, <1>8, <1>10 DEF Graftable
<1>12. IsTree(tree')
  BY <1>1, <1>11, GraftTree
<1>13. Grafted(tree', base, tree, src, to)
  BY <1>1, <1>11, GraftIs
<1>14. ASSUME NEW q \in Existing, q # to, ~IsPrefix(src, q) PROVE Spared(q)
  BY <1>9, <1>10, <1>13, <1>14 DEF Grafted, Spared
<1>15. ASSUME NEW q \in Existing, IsPrefix(src, q)
       PROVE  to \o Rest(src, q) \in DOMAIN tree' /\ tree'[to \o Rest(src, q)] = tree[q]
  <2>1. Rest(src, q) \in Paths /\ src \o Rest(src, q) = q
    BY <1>2, <1>3, <1>15, PrefixSplits
  <2>2. to \o Rest(src, q) \in DOMAIN tree' /\ tree'[to \o Rest(src, q)] = tree[src \o Rest(src, q)]
    BY <1>13, <2>1 DEF Grafted, Existing
  <2> QED BY <2>1, <2>2
<1>16. ASSUME to \in Existing, IsFile(to) PROVE Newcomer(to)
  <2>1. to \in Below(handler.to) /\ IsPrefix(handler.to, to) /\ tree[to] # Dir
    BY <1>2, <1>16, PrefixOfItself DEF to, Below, Under, IsFile, Existing
  <2> QED BY <1>2, <2>1 DEF Found, Newcomer
<1> QED BY <1>12, <1>14, <1>15, <1>16 DEF src, to

\* A file in a directory that is made for it.
LEMMA NewFile ==
    ASSUME IsTree(tree), NEW d \in Paths, CanMake(d), NEW n \in Names, ~IsDir(Append(d, n)),
           NEW c \in Contents, tree' = With(Made(d), Append(d, n), c)
    PROVE  /\ IsTree(tree')
           /\ \A q \in Existing : q # Append(d, n) => Spared(q)
           /\ \A q \in DOMAIN tree' :
                \/ q \in Existing /\ tree'[q] = tree[q]
                \/ tree'[q] \in {Dir, c}
<1> DEFINE p == Append(d, n)
           m == Made(d)
<1>1. /\ Existing \subseteq DOMAIN m /\ DOMAIN m \subseteq Paths
      /\ \A q \in Existing : m[q] = tree[q]
      /\ \A q \in Paths : IsPrefix(q, d) => q \in DOMAIN m /\ m[q] = Dir
      /\ Filled(m) /\ Closed(m)
      /\ \A q \in DOMAIN m \ Existing : IsPrefix(q, d) /\ m[q] = Dir
  BY MadeIs
<1>2. /\ p \in Paths /\ p # <<>> /\ Parent(p) = d /\ ~IsPrefix(p, d)
  BY ChildIs
<1>3. p \in DOMAIN m => m[p] # Dir
  BY <1>1, <1>2 DEF IsDir
<1> HIDE DEF m, p
<1>4. \A q \in Paths : IsPrefix(q, p) /\ q # p => q \in DOMAIN m /\ m[q] = Dir
  BY <1>1, <1>2, AboveParent
<1>5. IsTree(With(m, p, c))
  BY <1>1, <1>2, <1>3, <1>4, WithTree
<1>6. PICK u : u = With(m, p, c)
  OBVIOUS
<1>7. /\ DOMAIN u = DOMAIN m \union {p} /\ u[p] = c
      /\ \A q \in DOMAIN m : q # p => u[q] = m[q]
  BY <1>6 DEF With
<1>8. tree' = u
  BY <1>6 DEF m, p
<1>9. \A q \in Existing : q # p => Spared(q)
  BY <1>1, <1>7, <1>8 DEF Spared
<1>10. ASSUME NEW q \in DOMAIN tree'
       PROVE  (q \in Existing /\ tree'[q] = tree[q]) \/ tree'[q] \in {Dir, c}
  <2>1. CASE q = p
    BY <1>7, <1>8, <2>1
  <2>2. CASE q # p
    <3>1. q \in DOMAIN m /\ tree'[q] = m[q]
      BY <1>7, <1>8, <1>10, <2>2
    <3> QED BY <1>1, <3>1
  <2> QED BY <2>1, <2>2
<1> QED BY <1>5, <1>6, <1>8, <1>9, <1>10 DEF p

\* What a thread does to the tree: it makes directories and extracts members.
Extracts ==
    \A q \in DOMAIN tree' :
        \/ q \in Existing /\ tree'[q] = tree[q]
        \/ tree'[q] = Dir
        \/ Member(tree'[q])

LEMMA MkdirTree ==
    ASSUME IInv, NEW t \in Threads, Mkdir(t)
    PROVE  IsTree(tree') /\ Kept /\ Extracts
<1>1. thread[t].in \in Paths /\ CanMake(thread[t].in) /\ tree' = Made(thread[t].in)
  BY ThreadIs DEF Mkdir
<1>2. PICK d \in Paths : d = thread[t].in
  BY <1>1
<1>3. /\ IsTree(Made(d)) /\ Existing \subseteq DOMAIN Made(d)
      /\ \A q \in Existing : Made(d)[q] = tree[q]
      /\ \A q \in DOMAIN Made(d) \ Existing : Made(d)[q] = Dir
  BY <1>1, <1>2, MadeIs DEF IInv
<1> QED BY <1>1, <1>2, <1>3 DEF Kept, Spared, Extracts

LEMMA MemberTree ==
    ASSUME IInv, NEW t \in Threads, NEW m \in Names, WriteMember(t, m)
    PROVE  /\ IsTree(tree') /\ Extracts
           /\ \A q \in Existing : q # Append(thread[t].in, m) => Spared(q)
<1>1. /\ thread[t].pc = "write" /\ m \in FilesOf[thread[t].zip]
      /\ CanMake(thread[t].in) /\ ~IsDir(Append(thread[t].in, m))
      /\ tree' = With(Made(thread[t].in), Append(thread[t].in, m), <<"member", thread[t].zip, m>>)
  BY DEF WriteMember
<1>2. thread[t].in \in Paths /\ thread[t].zip \in Zips
  BY <1>1, ThreadIs
<1>3. PICK d \in Paths, z \in Zips : d = thread[t].in /\ z = thread[t].zip
  BY <1>2
<1>4. PICK c : c = <<"member", z, m>>
  OBVIOUS
<1>5. c \in Contents /\ Member(c)
  BY <1>1, <1>3, <1>4 DEF Contents, Member
<1>6. /\ IsTree(tree')
      /\ \A q \in Existing : q # Append(d, m) => Spared(q)
      /\ \A q \in DOMAIN tree' :
           \/ q \in Existing /\ tree'[q] = tree[q]
           \/ tree'[q] \in {Dir, c}
  <2>1. CanMake(d) /\ ~IsDir(Append(d, m)) /\ tree' = With(Made(d), Append(d, m), c)
    BY <1>1, <1>3, <1>4
  <2> QED BY <1>5, <2>1, NewFile DEF IInv
<1> QED BY <1>3, <1>5, <1>6 DEF Extracts

(***************************************************************************)
(* The actions keep the invariant.                                         *)
(***************************************************************************)

\* What is extracted leaves what a handler found as it must be.
LEMMA ExtractKeeps ==
    ASSUME IInv, IsTree(tree'), Extracts, ThreadsOK',
           UNCHANGED <<upload, handler, waiting, moderator, requests, granted>>
    PROVE  IInv'
<1>1. UploadsOK' /\ CountersOK'
  BY DEF IInv, UploadsOK, CountersOK
<1>2. ASSUME handler # Idle PROVE Found'
  <2>1. Found
    BY <1>2 DEF IInv, HandlerOK
  <2>2. ASSUME NEW p \in DOMAIN tree', IsPrefix(handler.to, p)
        PROVE  tree'[p] = Dir \/ Member(tree'[p])
    <3>1. CASE p \in Existing /\ tree'[p] = tree[p]
      BY <2>1, <2>2, <3>1 DEF Found, Below, Under, Existing
    <3> QED BY <3>1 DEF Extracts
  <2> QED BY <2>1, <2>2 DEF Found, Below, Under
<1>3. HandlerOK'
  BY <1>2 DEF HandlerOK
<1> QED BY <1>1, <1>3 DEF IInv

\* A thread goes on, or ends.
LEMMA ThreadKeeps ==
    ASSUME IInv, NEW t \in Threads, NEW e,
           thread' = [thread EXCEPT ![t] = e],
           e \in Extraction \union {Idle}, e.pc \in {"mkdir", "write"} => e.had = {}
    PROVE  ThreadsOK'
<1>1. thread \in [Threads -> Extraction \union {Idle}]
  BY DEF IInv, ThreadsOK
<1>2. /\ thread' \in [Threads -> Extraction \union {Idle}]
      /\ thread'[t] = e /\ \A r \in Threads : r # t => thread'[r] = thread[r]
  BY <1>1
<1>3. ASSUME NEW r \in Threads, thread'[r].pc \in {"mkdir", "write"} PROVE thread'[r].had = {}
  <2>1. CASE r = t
    BY <1>2, <1>3, <2>1
  <2>2. CASE r # t
    BY <1>2, <1>3, <2>2 DEF IInv, ThreadsOK
  <2> QED BY <2>1, <2>2
<1> QED BY <1>2, <1>3 DEF ThreadsOK

\* A tree that stays as it is does too.
LEMMA SameTree ==
    ASSUME IInv, UNCHANGED tree
    PROVE  IsTree(tree') /\ Kept /\ Extracts
BY DEF IInv, Kept, Spared, Extracts, Existing

LEMMA WithoutIs ==
    ASSUME NEW e \in [pc : {"mkdir", "write"}, zip : Zips, in : Paths,
                      left : SUBSET Names, had : SUBSET Paths],
           e.had = {}, NEW m
    PROVE  /\ Without(e, m) \in Extraction \union {Idle}
           /\ Without(e, m).pc \in {"mkdir", "write"} => Without(e, m).had = {}
<1>1. PICK g : g = [e EXCEPT !.left = @ \ {m}]
  OBVIOUS
<1>2. g \in Extraction /\ g.had = {}
  BY <1>1 DEF Extraction
<1>3. CASE e.left = {m}
  BY <1>3 DEF Without, Idle
<1>4. CASE e.left # {m}
  BY <1>1, <1>2, <1>4 DEF Without
<1> QED BY <1>3, <1>4

LEMMA IdleIs == Idle.pc = "idle"
BY DEF Idle

LEMMA MkdirKeeps ==
    ASSUME IInv, NEW t \in Threads, Mkdir(t)
    PROVE  IInv'
<1>1. /\ thread[t].pc = "mkdir" /\ thread' = [thread EXCEPT ![t].pc = "write"]
      /\ UNCHANGED <<upload, handler, waiting, moderator, requests, granted>>
  BY DEF Mkdir
<1>2. /\ thread[t] \in [pc : {"mkdir", "write"}, zip : Zips, in : Paths,
                        left : SUBSET Names, had : SUBSET Paths]
      /\ thread[t].had = {}
  BY <1>1, ThreadIs
<1>3. PICK e : e = [thread[t] EXCEPT !.pc = "write"]
  OBVIOUS
<1>4. e \in Extraction /\ e.had = {}
  BY <1>2, <1>3 DEF Extraction
<1>5. thread' = [thread EXCEPT ![t] = e]
  BY <1>1, <1>3 DEF IInv, ThreadsOK
<1>6. ThreadsOK'
  BY <1>4, <1>5, ThreadKeeps
<1> QED BY <1>1, <1>6, MkdirTree, ExtractKeeps

LEMMA MemberKeeps ==
    ASSUME IInv, NEW t \in Threads, NEW m \in Names, WriteMember(t, m) \/ SkipMember(t, m)
    PROVE  IInv'
<1>1. /\ thread[t].pc = "write" /\ thread' = [thread EXCEPT ![t] = Without(thread[t], m)]
      /\ UNCHANGED <<upload, handler, waiting, moderator, requests, granted>>
  BY DEF WriteMember, SkipMember
<1>2. /\ thread[t] \in [pc : {"mkdir", "write"}, zip : Zips, in : Paths,
                        left : SUBSET Names, had : SUBSET Paths]
      /\ thread[t].had = {}
  BY <1>1, ThreadIs
<1>3. ThreadsOK'
  BY <1>1, <1>2, WithoutIs, ThreadKeeps
<1>4. IsTree(tree') /\ Extracts
  <2>1. CASE WriteMember(t, m)
    BY <2>1, MemberTree
  <2>2. CASE SkipMember(t, m)
    BY <2>2, SameTree DEF SkipMember
  <2> QED BY <2>1, <2>2
<1> QED BY <1>1, <1>3, <1>4, ExtractKeeps

\* The directory of an extraction is free when it is chosen.
LEMMA ChooseKeeps ==
    ASSUME IInv, NEW t \in Threads, Choose(t)
    PROVE  IInv'
<1>1. thread[t].pc = "open" /\ UNCHANGED <<tree, upload, handler, waiting, moderator, requests, granted>>
  BY DEF Choose
<1>2. PICK z \in Zips :
        LET p == thread[t].path
            root == RootOf[z]
        IN
        /\ p \in Existing /\ tree[p] = <<"upload", z>>
        /\ \E n \in {root} \union Numbered[root] :
            LET container == Append(Parent(p), n) IN
            /\ container \notin Existing
            /\ thread' = [thread EXCEPT ![t] =
                  [pc |-> "mkdir", zip |-> z, in |-> container,
                   left |-> FilesOf[z] \union DirsOf[z], had |-> Below(container)]]
  BY DEF Choose
<1>3. thread[t].path \in Paths
  BY <1>1, ThreadIs
<1>4. PICK p \in Paths : p = thread[t].path
  BY <1>3
<1>5. PICK n \in {RootOf[z]} \union Numbered[RootOf[z]] :
        /\ Append(Parent(p), n) \notin Existing
        /\ thread' = [thread EXCEPT ![t] =
              [pc |-> "mkdir", zip |-> z, in |-> Append(Parent(p), n),
               left |-> FilesOf[z] \union DirsOf[z], had |-> Below(Append(Parent(p), n))]]
  BY <1>2, <1>4
<1>6. n \in Names
  BY <1>5, NamesAssumption, ZipsAssumption
<1>7. Parent(p) \in Paths
  <2>1. CASE p # <<>>
    BY <2>1, ParentIs
  <2>2. CASE p = <<>>
    <3>1. Len(p) = 0
      BY <2>2, PathIs
    <3>2. Parent(p) = <<>>
      BY <3>1, SubSeqEmpty DEF Parent, Front
    <3> QED BY <2>2, <3>2
  <2> QED BY <2>1, <2>2
<1>8. PICK c \in Paths : c = Append(Parent(p), n)
  BY <1>6, <1>7, ChildIs
<1>9. Below(c) = {}
  BY <1>5, <1>8, NothingBelow DEF IInv, Below, Existing
<1>10. PICK e : e = [pc |-> "mkdir", zip |-> z, in |-> c,
                     left |-> FilesOf[z] \union DirsOf[z], had |-> {}]
  OBVIOUS
<1>11. e \in Extraction /\ e.had = {}
  <2>1. FilesOf[z] \union DirsOf[z] \in SUBSET Names /\ {} \in SUBSET Paths
    BY ZipsAssumption
  <2> QED BY <1>10, <2>1 DEF Extraction
<1>12. thread' = [thread EXCEPT ![t] = e]
  BY <1>5, <1>8, <1>9, <1>10
<1>13. ThreadsOK'
  BY <1>11, <1>12, ThreadKeeps
<1> QED BY <1>1, <1>13, SameTree, ExtractKeeps

LEMMA EndKeeps ==
    ASSUME IInv, NEW t \in Threads, NoArchive(t) \/ EndEarly(t)
    PROVE  IInv'
<1>1. /\ thread' = [thread EXCEPT ![t] = Idle]
      /\ UNCHANGED <<tree, upload, handler, waiting, moderator, requests, granted>>
  BY DEF NoArchive, EndEarly
<1>2. ThreadsOK'
  BY <1>1, IdleIs, ThreadKeeps
<1> QED BY <1>1, <1>2, SameTree, ExtractKeeps

\* A handler begins to use a name that is free in the tree as it is then.
LEMMA TakeKeeps ==
    ASSUME IInv, NEW pc \in {"copy", "compress", "rename"},
           NEW from \in Paths, NEW d \in Paths, NEW n \in Names,
           Append(d, n) \notin Existing, Take(pc, from, d, n),
           pc \in {"copy", "rename"} => from # <<>>, pc = "rename" => d = Parent(from)
    PROVE  IInv' /\ Kept
<1>1. /\ handler' = [pc |-> pc, from |-> from, to |-> Append(d, n), had |-> Below(Append(d, n))]
      /\ UNCHANGED <<tree, upload, thread, moderator, requests, granted>>
      /\ waiting > 0 /\ waiting' = waiting - 1
  BY DEF Take, Run
<1>2. PICK c \in Paths : c = Append(d, n) /\ c # <<>> /\ Parent(c) = d
  BY ChildIs
<1>3. Below(c) = {}
  BY <1>2, NothingBelow DEF IInv, Below, Existing
<1>4. PICK h : h = [pc |-> pc, from |-> from, to |-> c, had |-> {}]
  OBVIOUS
<1>5. h \in Handler /\ h.pc = pc /\ h.from = from /\ h.to = c /\ h.had = {}
  <2>1. {} \in SUBSET Paths
    OBVIOUS
  <2> QED BY <1>4, <2>1 DEF Handler
<1>6. handler' = h
  BY <1>1, <1>2, <1>3, <1>4
<1>7. Below(c)' = {}
  BY <1>1, <1>3 DEF Below
<1>8. Found'
  BY <1>2, <1>5, <1>6, <1>7 DEF Found
<1>9. IsTree(tree') /\ Kept
  BY <1>1, SameTree
<1>10. UploadsOK' /\ ThreadsOK'
  BY <1>1 DEF IInv, UploadsOK, ThreadsOK
<1>11. CountersOK'
  BY <1>1, BoundsAssumption DEF IInv, CountersOK
<1> QED BY <1>8, <1>9, <1>10, <1>11 DEF IInv, HandlerOK

LEMMA DestinationIs ==
    ASSUME IInv, NEW d \in Destinations
    PROVE  d \in Paths
<1>1. \A n \in Asked : <<n>> \in Paths
  BY NamesAssumption DEF Paths
<1> QED BY <1>1, TypeTree DEF Destinations

LEMMA LookKeeps ==
    ASSUME IInv, NEW p \in Existing,
           \/ \E d \in Destinations : LookCopy(p, d)
           \/ \E n \in Archives : LookCompress(p, n)
           \/ \E n \in Asked : LookRename(p, n)
    PROVE  IInv' /\ Kept
<1>1. p \in Paths
  BY TypeTree
<1>2. ASSUME NEW d \in Destinations, LookCopy(p, d) PROVE IInv' /\ Kept
  <2>1. d \in Paths /\ p # <<>> /\ Last(p) \in Names
    BY <1>1, <1>2, DestinationIs, ParentIs DEF LookCopy
  <2>2. PICK n \in Free(tree, d, Last(p)) : Take("copy", p, d, n)
    BY <1>2 DEF LookCopy
  <2>3. n \in Names /\ Append(d, n) \notin Existing
    BY <2>1, FreeIsFree DEF Existing
  <2> QED BY <1>1, <2>1, <2>2, <2>3, TakeKeeps
<1>3. ASSUME NEW name \in Archives, LookCompress(p, name) PROVE IInv' /\ Kept
  <2>1. PICK n \in Free(tree, p, name) : Take("compress", p, p, n)
    BY <1>3 DEF LookCompress
  <2>2. n \in Names /\ Append(p, n) \notin Existing
    BY NamesAssumption, FreeIsFree DEF Existing
  <2> QED BY <1>1, <2>1, <2>2, TakeKeeps
<1>4. ASSUME NEW n \in Asked, LookRename(p, n) PROVE IInv' /\ Kept
  <2>1. /\ p # <<>> /\ Append(Parent(p), n) \notin Existing
        /\ Take("rename", p, Parent(p), n)
    BY <1>4 DEF LookRename
  <2>2. Parent(p) \in Paths /\ n \in Names
    BY <1>1, <2>1, ParentIs, NamesAssumption
  <2> QED BY <1>1, <2>1, <2>2, TakeKeeps
<1> QED BY <1>2, <1>3, <1>4

\* The name of an upload is free in the tree with its directories made.
LEMMA LookUploadKeeps ==
    ASSUME IInv, NEW u \in Uploads, NEW d \in Destinations, LookUpload(u, d)
    PROVE  IInv' /\ Kept
<1>1. /\ CanMake(d) /\ tree' = Made(d) /\ upload[u] = "admitted"
      /\ UNCHANGED <<upload, thread, waiting, moderator, requests, granted>>
  BY DEF LookUpload
<1>2. PICK n \in Free(Made(d), d, NameOf[u]) :
        handler' = [pc |-> "upload", from |-> u, to |-> Append(d, n),
                    had |-> Under(Made(d), Append(d, n))]
  BY DEF LookUpload
<1>3. d \in Paths
  BY DestinationIs
<1>4. /\ IsTree(Made(d)) /\ Existing \subseteq DOMAIN Made(d)
      /\ \A q \in Existing : Made(d)[q] = tree[q]
  BY <1>1, <1>3, MadeIs DEF IInv
<1>5. n \in Names /\ Append(d, n) \notin DOMAIN Made(d)
  BY NamesAssumption, FreeIsFree
<1>6. PICK c \in Paths : c = Append(d, n) /\ c # <<>>
  BY <1>3, <1>5, ChildIs
<1>7. Under(Made(d), c) = {}
  BY <1>4, <1>5, <1>6, NothingBelow
<1>8. PICK h : h = [pc |-> "upload", from |-> u, to |-> c, had |-> {}]
  OBVIOUS
<1>9. h \in Handler /\ h.pc = "upload" /\ h.from = u /\ h.to = c /\ h.had = {}
  <2>1. {} \in SUBSET Paths
    OBVIOUS
  <2> QED BY <1>8, <2>1 DEF Handler
<1>10. handler' = h
  BY <1>2, <1>6, <1>7, <1>8
<1>11. Below(c)' = {}
  BY <1>1, <1>7 DEF Below
<1>12. Found'
  BY <1>1, <1>6, <1>9, <1>10, <1>11 DEF Found
<1>13. UploadsOK' /\ ThreadsOK' /\ CountersOK'
  BY <1>1 DEF IInv, UploadsOK, ThreadsOK, CountersOK
<1>14. IsTree(tree') /\ Kept
  BY <1>1, <1>4 DEF Kept, Spared
<1> QED BY <1>12, <1>13, <1>14 DEF IInv, HandlerOK

\* With no handler at a name, the tree may be any and uploads go on.
LEMMA FreelyKeeps ==
    ASSUME IInv, IsTree(tree'), UploadsOK', CountersOK', ThreadsOK', handler' = Idle
    PROVE  IInv'
BY DEF IInv, HandlerOK

LEMMA UseKeeps ==
    ASSUME IInv, CopyDir \/ CopyFile \/ Compress \/ Rename \/ Raise
    PROVE  IInv'
<1>1. /\ handler' = Idle
      /\ UNCHANGED <<upload, thread, waiting, moderator, requests, granted>>
  BY DEF CopyDir, CopyFile, Compress, Rename, Raise
<1>2. IsTree(tree')
  BY CopyDirTree, CopyFileTree, CompressTree, RenameTree, SameTree DEF Raise
<1>3. UploadsOK' /\ CountersOK' /\ ThreadsOK'
  BY <1>1 DEF IInv, UploadsOK, CountersOK, ThreadsOK
<1> QED BY <1>1, <1>2, <1>3, FreelyKeeps

\* An upload ends, with the tree it left.
LEMMA UploadEndKeeps ==
    ASSUME IInv, PlaceUpload \/ LoseInfo
    PROVE  IInv'
<1>1. /\ handler' = Idle /\ handler.pc = "upload"
      /\ UNCHANGED <<thread, waiting, moderator, requests, granted>>
      /\ \E s \in {"gone", "bare"} : upload' = [upload EXCEPT ![handler.from] = s]
  BY DEF PlaceUpload, LoseInfo
<1>2. IsTree(tree')
  BY PlaceTree, SameTree DEF LoseInfo
<1>3. UploadsOK'
  BY <1>1 DEF IInv, UploadsOK
<1>4. CountersOK' /\ ThreadsOK'
  BY <1>1 DEF IInv, CountersOK, ThreadsOK
<1> QED BY <1>1, <1>2, <1>3, <1>4, FreelyKeeps

LEMMA UploadKeeps ==
    ASSUME IInv, NEW u \in Uploads,
           \/ PreCreate(u) \/ Check(u)
           \/ \E n \in Asked : RefuseUpload(u, <<n>>)
    PROVE  IInv'
<1>1. /\ handler' = Idle /\ UNCHANGED <<tree, thread, waiting, moderator, requests, granted>>
      /\ \/ upload' = [upload EXCEPT ![u] = "sending"]
         \/ upload[u] = "whole"
            /\ upload' = [upload EXCEPT ![u] = IF moderator THEN "admitted" ELSE "gone"]
         \/ upload[u] = "admitted" /\ upload' = [upload EXCEPT ![u] = "whole"]
  BY DEF PreCreate, Check, RefuseUpload
<1>2. UploadsOK'
  BY <1>1 DEF IInv, UploadsOK
<1>3. CountersOK' /\ ThreadsOK' /\ IsTree(tree')
  BY <1>1 DEF IInv, CountersOK, ThreadsOK
<1> QED BY <1>1, <1>2, <1>3, FreelyKeeps

LEMMA SentKeeps ==
    ASSUME IInv, NEW u \in Uploads, Sent(u)
    PROVE  IInv'
<1>1. /\ upload[u] = "sending" /\ upload' = [upload EXCEPT ![u] = "whole"]
      /\ granted' = IF moderator THEN granted \union {u} ELSE granted
      /\ UNCHANGED <<tree, thread, handler, waiting, moderator, requests>>
  BY DEF Sent
<1>2. UploadsOK'
  BY <1>1 DEF IInv, UploadsOK
<1>3. CountersOK' /\ ThreadsOK' /\ IsTree(tree')
  BY <1>1 DEF IInv, CountersOK, ThreadsOK
<1>4. ASSUME handler # Idle PROVE Found'
  <2>1. Found
    BY <1>4 DEF IInv, HandlerOK
  <2>2. handler.pc = "upload" => handler.from \in Uploads /\ upload'[handler.from] = "admitted"
    <3>1. handler.pc = "upload" => handler.from \in Uploads
      BY HandlerIs
    <3> QED BY <1>1, <2>1, <3>1 DEF Found, IInv, UploadsOK
  <2> QED BY <1>1, <2>1, <2>2 DEF Found, Below
<1> QED BY <1>1, <1>2, <1>3, <1>4 DEF IInv, HandlerOK

LEMMA RunKeeps ==
    ASSUME IInv, Run, IsTree(tree'), ThreadsOK', UNCHANGED handler
    PROVE  IInv'
<1>1. handler' = Idle
  BY DEF Run
<1>2. UploadsOK'
  BY DEF Run, IInv, UploadsOK
<1>3. CountersOK'
  BY BoundsAssumption DEF Run, IInv, CountersOK
<1> QED BY <1>1, <1>2, <1>3, FreelyKeeps

LEMMA RequestKeeps ==
    ASSUME IInv,
           \/ Refuse
           \/ \E p \in Existing : Delete(p) \/ SetContent(p)
    PROVE  IInv'
<1>1. Run /\ UNCHANGED <<thread, handler>>
  BY DEF Refuse, Delete, SetContent
<1>2. IsTree(tree')
  BY DeleteTree, SetContentTree, SameTree DEF Refuse
<1>3. ThreadsOK'
  BY <1>1 DEF IInv, ThreadsOK
<1> QED BY <1>1, <1>2, <1>3, RunKeeps

LEMMA OpenKeeps ==
    ASSUME IInv, NEW p \in Existing, NEW t \in Threads, Open(t, p)
    PROVE  IInv'
<1>1. /\ Run /\ UNCHANGED <<tree, handler>>
      /\ thread' = [thread EXCEPT ![t] = [pc |-> "open", path |-> p]]
  BY DEF Open
<1>2. p \in Paths
  BY TypeTree
<1>3. PICK e : e = [pc |-> "open", path |-> p]
  OBVIOUS
<1>4. e \in Extraction \union {Idle} /\ e.pc = "open"
  BY <1>2, <1>3 DEF Extraction
<1>5. ThreadsOK'
  BY <1>1, <1>3, <1>4, ThreadKeeps
<1>6. IsTree(tree')
  BY <1>1, SameTree
<1> QED BY <1>1, <1>5, <1>6, RunKeeps

LEMMA RoleKeeps ==
    ASSUME IInv, Admit \/ SetRole
    PROVE  IInv'
<1>1. /\ handler' = Idle /\ UNCHANGED <<tree, upload, thread>>
      /\ requests < MaxRequests /\ requests' = requests + 1
      /\ waiting' \in {waiting, waiting + 1}
  BY DEF Admit, SetRole
<1>2. UploadsOK'
  <2>1. CASE Admit
    BY <2>1 DEF Admit, IInv, UploadsOK
  <2>2. CASE SetRole /\ moderator
    <3>1. moderator' = FALSE /\ granted' = granted /\ upload' = upload
      BY <2>2 DEF SetRole, IInv, UploadsOK
    <3> QED BY <3>1 DEF IInv, UploadsOK
  <2>3. CASE SetRole /\ ~moderator
    <3>1. /\ granted' = granted \union {u \in Uploads : upload[u] = "whole"}
          /\ moderator' = TRUE /\ upload' = upload
      BY <2>3 DEF SetRole, IInv, UploadsOK
    <3>2. granted' \subseteq Uploads
      BY <3>1 DEF IInv, UploadsOK
    <3>3. \A u \in Uploads : upload[u] = "admitted" \/ upload[u] = "whole" => u \in granted'
      BY <3>1 DEF IInv, UploadsOK
    <3> QED BY <3>1, <3>2, <3>3 DEF IInv, UploadsOK
  <2> QED BY <1>1, <2>1, <2>2, <2>3
<1>3. IsTree(tree') /\ ThreadsOK'
  BY <1>1 DEF IInv, ThreadsOK
<1>4. CountersOK'
  BY <1>1, BoundsAssumption DEF IInv, CountersOK
<1> QED BY <1>1, <1>2, <1>3, <1>4, FreelyKeeps

LEMMA CrashKeeps ==
    ASSUME IInv, Crash
    PROVE  IInv' /\ Kept
<1>1. PICK again : again = [u \in Uploads |-> IF upload[u] = "admitted" THEN "whole" ELSE upload[u]]
  OBVIOUS
<1>2. /\ \/ upload' = again
         \/ handler.pc = "upload" /\ upload' = [again EXCEPT ![handler.from] = "bare"]
      /\ thread' = [t \in Threads |-> Idle] /\ handler' = Idle /\ waiting' = 0
      /\ UNCHANGED <<tree, moderator, requests, granted>>
  BY <1>1 DEF Crash
<1>3. /\ again \in [Uploads -> {"none", "sending", "whole", "admitted", "bare", "gone"}]
      /\ \A u \in Uploads : again[u] \in {"admitted", "whole"} =>
            again[u] = "whole" /\ upload[u] \in {"admitted", "whole"}
  BY <1>1 DEF IInv, UploadsOK
<1>4. \A u \in Uploads : /\ upload'[u] # "admitted"
                         /\ upload'[u] = "whole" => upload[u] \in {"admitted", "whole"}
  BY <1>2, <1>3
<1>5. UploadsOK'
  <2>1. upload' \in [Uploads -> {"none", "sending", "whole", "admitted", "bare", "gone"}]
    BY <1>2, <1>3
  <2>2. /\ \A u \in Uploads : upload[u] = "admitted" => u \in granted
        /\ moderator => \A u \in Uploads : upload[u] = "whole" => u \in granted
    BY DEF IInv, UploadsOK
  <2>3. /\ granted' \subseteq Uploads /\ moderator' \in BOOLEAN
        /\ granted' = granted /\ moderator' = moderator
    BY <1>2 DEF IInv, UploadsOK
  <2> QED BY <1>4, <2>1, <2>2, <2>3 DEF UploadsOK
<1>6. ThreadsOK'
  <2>1. thread' \in [Threads -> Extraction \union {Idle}] /\ \A t \in Threads : thread'[t] = Idle
    BY <1>2
  <2> QED BY <2>1, IdleIs DEF ThreadsOK
<1>7. CountersOK'
  BY <1>2, BoundsAssumption DEF IInv, CountersOK
<1>8. IsTree(tree') /\ Kept
  BY <1>2, SameTree
<1> QED BY <1>2, <1>5, <1>6, <1>7, <1>8, FreelyKeeps

\* The tree is as it was when the process starts, nothing is under way.
LEMMA InitInv == Init => IInv
<1> SUFFICES ASSUME Init PROVE IInv
  OBVIOUS
<1>1. IsTree(tree)
  BY TreeAssumption DEF Init
<1>2. UploadsOK
  BY DEF Init, UploadsOK
<1>3. ThreadsOK
  <2>1. thread \in [Threads -> Extraction \union {Idle}] /\ \A t \in Threads : thread[t] = Idle
    BY DEF Init
  <2> QED BY <2>1, IdleIs DEF ThreadsOK
<1>4. CountersOK /\ HandlerOK
  BY BoundsAssumption DEF Init, CountersOK, HandlerOK
<1> QED BY <1>1, <1>2, <1>3, <1>4 DEF IInv

LEMMA StutterKeeps ==
    ASSUME IInv, UNCHANGED vars
    PROVE  IInv'
<1>1. IsTree(tree') /\ UploadsOK' /\ CountersOK' /\ ThreadsOK'
  BY DEF vars, IInv, UploadsOK, CountersOK, ThreadsOK
<1>2. HandlerOK'
  BY DEF vars, IInv, HandlerOK, Found, Below
<1> QED BY <1>1, <1>2 DEF IInv

LEMMA NextInv == IInv /\ [Next]_vars => IInv'
<1> SUFFICES ASSUME IInv, [Next]_vars PROVE IInv'
  OBVIOUS
<1>1. CASE Refuse \/ \E p \in Existing : Delete(p) \/ SetContent(p)
  BY <1>1, RequestKeeps
<1>2. ASSUME NEW p \in Existing,
             \/ \E d \in Destinations : LookCopy(p, d)
             \/ \E n \in Archives : LookCompress(p, n)
             \/ \E n \in Asked : LookRename(p, n)
      PROVE  IInv'
  BY <1>2, LookKeeps
<1>3. ASSUME NEW p \in Existing, NEW t \in Threads, Open(t, p) PROVE IInv'
  BY <1>3, OpenKeeps
<1>4. CASE CopyDir \/ CopyFile \/ Compress \/ Rename \/ Raise
  BY <1>4, UseKeeps
<1>5. ASSUME NEW u \in Uploads,
             PreCreate(u) \/ Check(u) \/ \E n \in Asked : RefuseUpload(u, <<n>>)
      PROVE  IInv'
  BY <1>5, UploadKeeps
<1>6. ASSUME NEW u \in Uploads, Sent(u) PROVE IInv'
  BY <1>6, SentKeeps
<1>7. ASSUME NEW u \in Uploads, NEW d \in Destinations, LookUpload(u, d) PROVE IInv'
  BY <1>7, LookUploadKeeps
<1>8. CASE PlaceUpload \/ LoseInfo
  BY <1>8, UploadEndKeeps
<1>9. ASSUME NEW t \in Threads, Choose(t) PROVE IInv'
  BY <1>9, ChooseKeeps
<1>10. ASSUME NEW t \in Threads, NoArchive(t) \/ EndEarly(t) PROVE IInv'
  BY <1>10, EndKeeps
<1>11. ASSUME NEW t \in Threads, Mkdir(t) PROVE IInv'
  BY <1>11, MkdirKeeps
<1>12. ASSUME NEW t \in Threads, NEW m \in Names, WriteMember(t, m) \/ SkipMember(t, m)
       PROVE  IInv'
  BY <1>12, MemberKeeps
<1>13. CASE Admit \/ SetRole
  BY <1>13, RoleKeeps
<1>14. CASE Crash
  BY <1>14, CrashKeeps
<1>15. CASE UNCHANGED vars
  BY <1>15, StutterKeeps
<1> QED
  BY <1>1, <1>2, <1>3, <1>4, <1>5, <1>6, <1>7, <1>8, <1>9, <1>10, <1>11, <1>12,
     <1>13, <1>14, <1>15 DEF Next

\* Whatever requests, uploads, extractions and kills do at the same time, each
\* path holds what one of them put there whole, and no directory of an archive is
\* ever a file.
THEOREM TypeCorrect == Spec => []TypeOK
BY InitInv, NextInv, TypeInvariant, PTL DEF Spec

\* No file loses its place or its content but to the one request that says so, or
\* to a handler or an extraction that looked before the file came; a handler takes
\* the place of nothing but what was extracted since it looked.
THEOREM FilesStayAlways == Spec => FilesStay
<1> DEFINE Stays(p) ==
        \/ p \in DOMAIN tree' /\ tree'[p] = tree[p]
        \/ \E q \in Existing : IsPrefix(q, p) /\ Delete(q)
        \/ SetContent(p)
        \/ /\ Rename /\ IsPrefix(handler.from, p)
           /\ LET new == handler.to \o Rest(handler.from, p)
              IN new \in DOMAIN tree' /\ tree'[new] = tree[p]
        \/ /\ handler # Idle /\ handler' = Idle
           /\ IsPrefix(handler.to, p) /\ p \notin handler.had
           /\ \E z \in Zips, m \in Names : tree[p] = <<"member", z, m>>
        \/ \E t \in Threads, m \in Names :
            /\ WriteMember(t, m) /\ p = Append(thread[t].in, m)
            /\ p \notin thread[t].had
<1>1. IInv /\ [Next]_vars => [\A p \in {q \in Existing : IsFile(q)} : Stays(p)]_vars
  <2> SUFFICES ASSUME IInv, Next, NEW p \in Existing, IsFile(p)
               PROVE  Stays(p)
    OBVIOUS
  <2>1. CASE Kept
    BY <2>1 DEF Kept, Spared
  <2>2. ASSUME handler.pc \in {"copy", "compress", "rename", "upload"}, handler' = Idle, Newcomer(p)
        PROVE  Stays(p)
    <3>1. handler # Idle
      BY <2>2, HandlerIs
    <3> QED BY <2>2, <3>1 DEF Newcomer, Member
  <2>3. ASSUME NEW q \in Existing, Delete(q) PROVE Stays(p)
    <3>1. CASE IsPrefix(q, p)
      BY <2>3, <3>1
    <3>2. CASE ~IsPrefix(q, p)
      BY <2>3, <3>2, DeleteSpares DEF Spared
    <3> QED BY <3>1, <3>2
  <2>4. ASSUME NEW q \in Existing, SetContent(q) PROVE Stays(p)
    BY <2>4, SetContentTree DEF Spared
  <2>5. CASE Rename
    <3>1. handler.pc = "rename" /\ handler' = Idle
      BY <2>5 DEF Rename
    <3>2. \/ Spared(p)
          \/ /\ IsPrefix(handler.from, p)
             /\ handler.to \o Rest(handler.from, p) \in DOMAIN tree'
             /\ tree'[handler.to \o Rest(handler.from, p)] = tree[p]
          \/ Newcomer(p)
      BY <2>5, RenameTree
    <3>3. CASE Spared(p)
      BY <3>3 DEF Spared
    <3>4. CASE Newcomer(p)
      <4> HIDE DEF Stays
      <4> QED BY <2>2, <3>1, <3>4
    <3> QED BY <2>5, <3>2, <3>3, <3>4
  <2>6. CASE CopyFile \/ Compress \/ PlaceUpload
    <3>1. handler.pc \in {"copy", "compress", "rename", "upload"} /\ handler' = Idle
      BY <2>6 DEF CopyFile, Compress, PlaceUpload
    <3>2. Spared(p) \/ Newcomer(p)
      BY <2>6, CopyFileTree, CompressTree, PlaceTree
    <3>3. CASE Spared(p)
      BY <3>3 DEF Spared
    <3>4. CASE Newcomer(p)
      <4> HIDE DEF Stays
      <4> QED BY <2>2, <3>1, <3>4
    <3> QED BY <3>2, <3>3, <3>4
  <2>7. ASSUME NEW t \in Threads, NEW m \in Names, WriteMember(t, m) PROVE Stays(p)
    <3>1. thread[t].had = {}
      BY <2>7, ThreadIs DEF WriteMember
    <3>2. CASE p = Append(thread[t].in, m)
      BY <2>7, <3>1, <3>2
    <3>3. CASE p # Append(thread[t].in, m)
      BY <2>7, <3>3, MemberTree DEF Spared
    <3> QED BY <3>2, <3>3
  <2>8. CASE CopyDir
    BY <2>1, <2>8, CopyDirTree
  <2>9. ASSUME NEW q \in Existing,
               \/ \E d \in Destinations : LookCopy(q, d)
               \/ \E n \in Archives : LookCompress(q, n)
               \/ \E n \in Asked : LookRename(q, n)
        PROVE  Kept
    BY <2>9, LookKeeps
  <2>10. ASSUME NEW u \in Uploads, NEW d \in Destinations, LookUpload(u, d) PROVE Kept
    BY <2>10, LookUploadKeeps
  <2>11. ASSUME NEW t \in Threads, Mkdir(t) PROVE Kept
    BY <2>11, MkdirTree
  <2>12. CASE UNCHANGED tree
    BY <2>1, <2>12, SameTree
  <2>13. /\ Admit \/ Refuse \/ Raise \/ LoseInfo \/ SetRole \/ Crash => UNCHANGED tree
         /\ \A u \in Uploads : PreCreate(u) \/ Sent(u) \/ Check(u) => UNCHANGED tree
         /\ \A u \in Uploads : \A n \in Asked : RefuseUpload(u, <<n>>) => UNCHANGED tree
         /\ \A t \in Threads : Choose(t) \/ NoArchive(t) \/ EndEarly(t) => UNCHANGED tree
         /\ \A t \in Threads : \A m \in Names : SkipMember(t, m) => UNCHANGED tree
         /\ \A t \in Threads : \A q \in Existing : Open(t, q) => UNCHANGED tree
    BY DEF Admit, Refuse, Raise, LoseInfo, SetRole, Crash, PreCreate, Sent, Check,
           RefuseUpload, Choose, NoArchive, EndEarly, SkipMember, Open
  <2> HIDE DEF Stays
  <2> QED
    BY <2>1, <2>3, <2>4, <2>5, <2>6, <2>7, <2>8, <2>9, <2>10, <2>11, <2>12, <2>13 DEF Next
<1> QED BY <1>1, InitInv, NextInv, PTL DEF Spec, FilesStay

\* An upload that ends is removed by a hook that sees no role, or lands for a
\* client who had the role after all of it had come, at a place that is new or of
\* a member extracted since.
THEOREM UploadLandsAlways == Spec => UploadLands
<1> DEFINE Lands(u) ==
        \/ ~moderator /\ tree' = tree
        \/ /\ u \in granted
           /\ \E p \in DOMAIN tree' :
                /\ tree'[p] = <<"upload", u>>
                /\ p \in Existing => \E z \in Zips, m \in Names : tree[p] = <<"member", z, m>>
<1>1. IInv /\ [Next]_vars =>
        [\A u \in Uploads : upload[u] # "gone" /\ upload'[u] = "gone" => Lands(u)]_vars
  <2> SUFFICES ASSUME IInv, Next, NEW u \in Uploads,
                      upload[u] # "gone", upload'[u] = "gone"
               PROVE  Lands(u)
    OBVIOUS
  <2>1. upload \in [Uploads -> {"none", "sending", "whole", "admitted", "bare", "gone"}]
    BY DEF IInv, UploadsOK
  <2>2. upload' # upload
    OBVIOUS
  <2>3. ~Crash
    BY <2>1 DEF Crash
  <2>4. \/ \E v \in Uploads : \/ PreCreate(v) \/ Sent(v) \/ Check(v)
                              \/ \E n \in Asked : RefuseUpload(v, <<n>>)
        \/ PlaceUpload \/ LoseInfo
    BY <2>2, <2>3
    DEF Next, Admit, Refuse, Run, Delete, SetContent, LookCopy, LookCompress, LookRename, Take,
        Open, CopyDir, CopyFile, Compress, Rename, Raise, LookUpload, Choose, NoArchive,
        Mkdir, EndEarly, WriteMember, SkipMember, SetRole
  <2>5. ~LoseInfo
    BY <2>1 DEF LoseInfo
  <2>6. CASE \E v \in Uploads : \/ PreCreate(v) \/ Sent(v) \/ Check(v)
                                \/ \E n \in Asked : RefuseUpload(v, <<n>>)
    <3>1. Check(u)
      BY <2>1, <2>6 DEF PreCreate, Sent, Check, RefuseUpload
    <3>2. ~moderator /\ tree' = tree
      BY <2>1, <3>1 DEF Check
    <3> QED BY <3>2
  <2>7. CASE PlaceUpload
    <3>1. handler.pc = "upload" /\ upload' = [upload EXCEPT ![handler.from] = "gone"]
      BY <2>7 DEF PlaceUpload
    <3>2. handler.from = u
      BY <2>1, <3>1
    <3>3. u \in granted
      <4>1. Found
        BY <3>1, HandlerIs
      <4>2. upload[u] = "admitted"
        BY <3>1, <3>2, <4>1 DEF Found
      <4> QED BY <4>2 DEF IInv, UploadsOK
    <3>4. /\ handler.to \in DOMAIN tree' /\ tree'[handler.to] = <<"upload", u>>
          /\ handler.to \in Existing => Newcomer(handler.to)
      BY <2>7, <3>2, PlaceTree
    <3> QED BY <3>3, <3>4 DEF Newcomer, Member
  <2> QED BY <2>4, <2>5, <2>6, <2>7
<1> QED BY <1>1, InitInv, NextInv, PTL DEF Spec, UploadLands
=============================================================================
