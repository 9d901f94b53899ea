---------------------------- MODULE PlaybackProofs ----------------------------
(***************************************************************************)
(* Playback, for any library, any lists and any number of tracks.          *)
(*                                                                         *)
(* The queue.  Every operation keeps a queue sound: its cursor in its      *)
(* order (InRange), its order such that a track found by its id is the     *)
(* one meant (Ordered), and the current track in it (OnTrack).  A lazy     *)
(* order may have a track twice, but queued for its first occurrence only; *)
(* an eager one may not.  That the current track can be played             *)
(* (CurrentPlayable) is needed where a refresh before a play must not drop *)
(* it.  A move of a track the order has twice breaks Ordered for good,     *)
(* until a new queue: `doubled` records it, and only the range is kept.    *)
(* One lemma per operation also says what stays queued, so that            *)
(* CuratedSurvives follows from the same cases.                            *)
(*                                                                         *)
(* The statistics.  The counts of a row are the plays and skips there      *)
(* were, for any number of plays, merges, scans, failing calls and         *)
(* restarts, unless a task has crossed one of them.  CountsKept is not     *)
(* inductive: a count is written from the runtime's copy of the row, so it *)
(* rests on where the copy agrees with SQLite (InSync), which a task       *)
(* replaces by what it has read before (MergeCurrent, ScanCurrent), and on *)
(* each session registering once (Unregistered).                           *)
(***************************************************************************)
EXTENDS PlaybackQueue, ListeningStatistics, FiniteSetTheorems, SequenceTheorems,
        WellFoundedInduction, TLAPS

-----------------------------------------------------------------------------
(* Selections, extremes and insertions.                                    *)

Rank(S, x) == Cardinality({j \in S : j <= x})

\* A selection has the values at the numbers selected, each at its rank.
LEMMA Selection ==
    ASSUME NEW f, NEW S \in SUBSET Nat, IsFiniteSet(S)
    PROVE  /\ Cardinality(S) \in Nat /\ DOMAIN Those(f, S) = 1 .. Cardinality(S)
           /\ \A x \in S : Rank(S, x) \in 1 .. Cardinality(S) /\ Those(f, S)[Rank(S, x)] = f[x]
           /\ \A x, y \in S : x < y => Rank(S, x) < Rank(S, y)
           /\ \A k \in 1 .. Cardinality(S) : \E x \in S : Rank(S, x) = k
<1> DEFINE n == Cardinality(S)
           Upto(i) == {j \in S : j <= i}
           rank == [x \in S |-> Rank(S, x)]
<1>1. n \in Nat  BY FS_CardinalityType
<1>2. ASSUME NEW i \in S
      PROVE  IsFiniteSet(Upto(i)) /\ Rank(S, i) = Cardinality(Upto(i))
             /\ Rank(S, i) \in Nat /\ Rank(S, i) \in 1 .. n
  <2>1. IsFiniteSet(Upto(i)) /\ Cardinality(Upto(i)) <= n  BY FS_Subset
  <2>2. Cardinality(Upto(i)) \in Nat  BY <2>1, FS_CardinalityType
  <2>3. i \in Upto(i)  OBVIOUS
  <2>4. Cardinality(Upto(i)) # 0  BY <2>1, <2>3, FS_EmptySet
  <2>5. Rank(S, i) = Cardinality(Upto(i))  BY DEF Rank
  <2> HIDE DEF Upto
  <2> QED  BY <1>1, <2>1, <2>2, <2>4, <2>5
<1>3. ASSUME NEW x \in S, NEW y \in S, x < y PROVE Rank(S, x) < Rank(S, y)
  <2>1. Upto(x) \in SUBSET Upto(y) /\ y \in Upto(y) /\ y \notin Upto(x)
    <3>1. x \in Nat /\ y \in Nat /\ x < y  BY <1>3
    <3>2. \A m \in S : m \in Nat  OBVIOUS
    <3>3. \A m \in S : m <= x => m <= y  BY <3>1, <3>2
    <3>4. y <= y /\ ~(y <= x)  BY <3>1
    <3> QED  BY <3>3, <3>4
  <2>2. IsFiniteSet(Upto(y))  BY <1>2
  <2>3. Rank(S, x) = Cardinality(Upto(x)) /\ Rank(S, x) \in Nat  BY <1>2
  <2>4. Rank(S, y) = Cardinality(Upto(y)) /\ Rank(S, y) \in Nat  BY <1>2
  <2> HIDE DEF Upto
  <2>5. Cardinality(Upto(x)) <= Cardinality(Upto(y)) /\ Cardinality(Upto(x)) # Cardinality(Upto(y))
    BY <2>1, <2>2, FS_Subset
  <2> QED  BY <2>3, <2>4, <2>5
<1>4. ASSUME NEW x \in S, NEW y \in S, rank[x] = rank[y] PROVE x = y
  <2>1. x \in Nat /\ y \in Nat  OBVIOUS
  <2>2. Rank(S, x) = Rank(S, y)  BY <1>4
  <2>4. Rank(S, x) \in Nat  BY <1>2, Zenon
  <2>3. x < y \/ y < x \/ x = y  BY <2>1
  <2> QED  BY <1>3, <2>2, <2>3, <2>4
<1>5. rank \in Injection(S, 1 .. n)
  <2>1. rank \in [S -> 1 .. n]  BY <1>2
  <2> HIDE DEF rank
  <2> QED  BY <1>4, <2>1 DEF Injection, IsInjective
<1>6. IsFiniteSet(1 .. n) /\ Cardinality(1 .. n) = n  BY <1>1, FS_Interval
<1>7. rank \in Surjection(S, 1 .. n)  BY <1>5, <1>6, FS_Injection
<1>8. ASSUME NEW k \in 1 .. n PROVE \E x \in S : Rank(S, x) = k
  BY <1>7 DEF Surjection
<1>9. DOMAIN Those(f, S) = 1 .. n  BY DEF Those
<1>10. ASSUME NEW x \in S PROVE Rank(S, x) \in 1 .. n /\ Those(f, S)[Rank(S, x)] = f[x]
  <2> DEFINE z == CHOOSE i \in S : Cardinality({j \in S : j <= i}) = Rank(S, x)
  <2>1. Those(f, S)[Rank(S, x)] = f[z]  BY <1>2 DEF Those
  <2>2. z \in S /\ Rank(S, z) = Rank(S, x)  BY DEF Rank
  <2> HIDE DEF z
  <2> QED  BY <1>2, <1>4, <2>1, <2>2
<1> HIDE DEF n
<1>11. n = Cardinality(S)  BY DEF n
<1> QED  BY <1>1, <1>3, <1>8, <1>9, <1>10, <1>11

\* The same of a selection from a sequence: it is a sequence too.
LEMMA Subsequence ==
    ASSUME NEW T, NEW s \in Seq(T), NEW S \in SUBSET DOMAIN s
    PROVE  /\ Those(s, S) \in Seq(T) /\ Len(Those(s, S)) = Cardinality(S)
           /\ IsFiniteSet(S) /\ Cardinality(S) \in Nat /\ Cardinality(S) <= Len(s)
           /\ \A x \in S : Rank(S, x) \in 1 .. Cardinality(S) /\ Those(s, S)[Rank(S, x)] = s[x]
           /\ \A x, y \in S : x < y => Rank(S, x) < Rank(S, y)
           /\ \A k \in 1 .. Cardinality(S) : \E x \in S : Rank(S, x) = k
<1>1. Len(s) \in Nat /\ DOMAIN s = 1 .. Len(s) /\ \A i \in DOMAIN s : s[i] \in T
  OBVIOUS
<1>2. IsFiniteSet(DOMAIN s) /\ Cardinality(DOMAIN s) = Len(s)
  <2>1. Len(s) \in Nat  OBVIOUS
  <2>2. IsFiniteSet(1 .. Len(s)) /\ Cardinality(1 .. Len(s)) = Len(s)  BY <2>1, FS_Interval
  <2> QED  BY <1>1, <2>2
<1>3. IsFiniteSet(S) /\ Cardinality(S) <= Len(s) /\ S \in SUBSET Nat  BY <1>1, <1>2, FS_Subset
<1>4. /\ Cardinality(S) \in Nat /\ DOMAIN Those(s, S) = 1 .. Cardinality(S)
      /\ \A x \in S : Rank(S, x) \in 1 .. Cardinality(S) /\ Those(s, S)[Rank(S, x)] = s[x]
      /\ \A x, y \in S : x < y => Rank(S, x) < Rank(S, y)
      /\ \A k \in 1 .. Cardinality(S) : \E x \in S : Rank(S, x) = k
  BY <1>3, Selection
<1>5. \A k \in 1 .. Cardinality(S) : Those(s, S)[k] \in T
  <2> SUFFICES ASSUME NEW k \in 1 .. Cardinality(S) PROVE Those(s, S)[k] \in T
    OBVIOUS
  <2>1. PICK x \in S : Rank(S, x) = k  BY <1>4
  <2> QED  BY <1>1, <1>4, <2>1
<1>6. Those(s, S) = [k \in 1 .. Cardinality(S) |-> Those(s, S)[k]]  BY <1>4 DEF Those
<1> HIDE DEF Those
<1>7. Those(s, S) \in Seq(T)  BY <1>4, <1>5, <1>6
<1>8. Len(Those(s, S)) = Cardinality(S)  BY <1>4, <1>7
<1> QED  BY <1>3, <1>4, <1>7, <1>8

\* A finite set of numbers that is not empty has a greatest and a least element: a
\* least counterexample would have one left after the loss of any of its elements.
LEMMA FiniteMax ==
    ASSUME NEW S \in SUBSET Nat, IsFiniteSet(S), S # {}
    PROVE  Max(S) \in S /\ \A y \in S : Max(S) >= y
  <1> DEFINE Bounded(T) == \E x \in T : \A y \in T : x >= y
             Bad == {T \in SUBSET Nat : IsFiniteSet(T) /\ T # {} /\ ~Bounded(T)}
  <1>1. SUFFICES Bounded(S)
    BY DEF Max
  <1>2. SUFFICES ASSUME S \in Bad PROVE FALSE
    OBVIOUS
  <1>3. PICK T \in Bad : \A U \in Bad : <<U, T>> \notin StrictSubsetOrdering(Nat)
    <2>1. Bad \subseteq FiniteSubsetsOf(Nat) /\ Bad # {}
      BY <1>2 DEF FiniteSubsetsOf
    <2>2. IsWellFoundedOn(StrictSubsetOrdering(Nat), FiniteSubsetsOf(Nat))
      BY FS_StrictSubsetOrderingWellFounded
    <2> HIDE DEF Bad
    <2> QED
      BY <2>1, <2>2, WFMin
  <1>4. PICK x \in T : TRUE
    OBVIOUS
  <1>5. T \ {x} \notin Bad
    BY <1>3, <1>4 DEF StrictSubsetOrdering
  <1>6. IsFiniteSet(T \ {x})
    BY FS_RemoveElement
  <1>7. CASE T \ {x} = {}
    BY <1>4, <1>7
  <1>8. CASE \E m \in T \ {x} : \A y \in T \ {x} : m >= y
    BY <1>4, <1>8
  <1> QED
    BY <1>5, <1>6, <1>7, <1>8

LEMMA FiniteMin ==
    ASSUME NEW S \in SUBSET Nat, S # {}
    PROVE  Min(S) \in S /\ \A y \in S : Min(S) <= y
<1> DEFINE D == {m \in Nat : \A y \in S : m <= y}
<1>1. PICK x \in S : TRUE  OBVIOUS
<1>2. D \in SUBSET (0 .. x) /\ 0 \in D  BY <1>1
<1>3. IsFiniteSet(D) /\ D \in SUBSET Nat /\ D # {}
  <2>1. IsFiniteSet(0 .. x)  BY <1>1, FS_Interval
  <2> QED  BY <1>2, <2>1, FS_Subset
<1>4. Max(D) \in D /\ \A m \in D : Max(D) >= m  BY <1>3, FiniteMax
<1> DEFINE m == Max(D)
<1>5. m \in Nat /\ m + 1 \notin D /\ \A y \in S : y \in Nat /\ m <= y  BY <1>4
<1>6. PICK y \in S : ~(m + 1 <= y)  BY <1>5
<1> HIDE DEF m
<1>7. y = m  BY <1>5, <1>6
<1> QED  BY <1>5, <1>7 DEF Min

LEMMA InsertionElements ==
    ASSUME NEW T, NEW s \in Seq(T), NEW u \in Seq(T), NEW i \in 1 .. Len(s) + 1
    PROVE  /\ Splice(s, i, u) \in Seq(T) /\ Len(Splice(s, i, u)) = Len(s) + Len(u)
           /\ \A k \in 1 .. i - 1 : Splice(s, i, u)[k] = s[k]
           /\ \A k \in 1 .. Len(u) : Splice(s, i, u)[i - 1 + k] = u[k]
           /\ \A k \in i .. Len(s) : Splice(s, i, u)[k + Len(u)] = s[k]
<1> DEFINE a == SubSeq(s, 1, i - 1)
           b == SubSeq(s, i, Len(s))
           r == (a \o u) \o b
<1>1. Len(s) \in Nat /\ Len(u) \in Nat /\ i \in Nat /\ i >= 1 /\ i <= Len(s) + 1  OBVIOUS
<1>2. a \in Seq(T) /\ Len(a) = i - 1 /\ \A k \in 1 .. i - 1 : a[k] = s[k]
  BY <1>1, SMTT(30)
<1>3. b \in Seq(T) /\ Len(b) = Len(s) + 1 - i /\ \A k \in 1 .. Len(s) + 1 - i : b[k] = s[k + i - 1]
  BY <1>1, SMTT(30)
<1>4. Splice(s, i, u) = r  BY DEF Splice
<1> HIDE DEF a, b
<1>5. /\ a \o u \in Seq(T) /\ Len(a \o u) = Len(a) + Len(u)
      /\ \A k \in 1 .. Len(a) + Len(u) :
            (a \o u)[k] = IF k <= Len(a) THEN a[k] ELSE u[k - Len(a)]
  BY <1>2, ConcatProperties
<1> DEFINE c == a \o u
<1>7. /\ c \in Seq(T) /\ Len(c) = Len(a) + Len(u)
      /\ \A k \in 1 .. Len(a) + Len(u) : c[k] = IF k <= Len(a) THEN a[k] ELSE u[k - Len(a)]
  BY <1>5
<1> HIDE DEF c
<1>8. /\ c \o b \in Seq(T) /\ Len(c \o b) = Len(c) + Len(b)
      /\ \A k \in 1 .. Len(c) + Len(b) :
            (c \o b)[k] = IF k <= Len(c) THEN c[k] ELSE b[k - Len(c)]
  <2>1. b \in Seq(T) /\ c \in Seq(T)  BY <1>3, <1>7
  <2> QED  BY <2>1, ConcatProperties
<1>10. r = c \o b  BY DEF c
<1> HIDE DEF r
<1>9. Len(a) \in Nat /\ Len(b) \in Nat /\ Len(c) \in Nat  BY <1>2, <1>3, <1>7
<1>15. Len(r) = Len(s) + Len(u)
  <2>1. Len(r) = Len(c) + Len(b) /\ Len(c) = Len(a) + Len(u)  BY <1>7, <1>8, <1>10
  <2>2. Len(a) = i - 1 /\ Len(b) = Len(s) + 1 - i  BY <1>2, <1>3
  <2> QED  BY <1>1, <2>1, <2>2
<1>11. r \in Seq(T)  BY <1>8, <1>10
<1>12. ASSUME NEW k \in 1 .. i - 1 PROVE r[k] = s[k]
  <2>1. k \in 1 .. Len(c) + Len(b) /\ k <= Len(c) /\ k \in 1 .. Len(a) + Len(u) /\ k <= Len(a)
    BY <1>1, <1>2, <1>7, <1>9
  <2>2. r[k] = c[k] /\ c[k] = a[k]  BY <1>7, <1>8, <1>10, <2>1
  <2> QED  BY <1>2, <2>2
<1>13. ASSUME NEW k \in 1 .. Len(u) PROVE r[i - 1 + k] = u[k]
  <2> DEFINE l == i - 1 + k
  <2>1. /\ l \in 1 .. Len(c) + Len(b) /\ l <= Len(c) /\ l \in 1 .. Len(a) + Len(u)
        /\ ~(l <= Len(a)) /\ l - Len(a) = k
    BY <1>1, <1>2, <1>7, <1>9
  <2> HIDE DEF l
  <2>2. r[l] = c[l] /\ c[l] = u[l - Len(a)]  BY <1>7, <1>8, <1>10, <2>1
  <2> QED  BY <2>1, <2>2 DEF l
<1>14. ASSUME NEW k \in i .. Len(s) PROVE r[k + Len(u)] = s[k]
  <2> DEFINE m == k - (i - 1)
             l == k + Len(u)
  <2>1. /\ l \in 1 .. Len(c) + Len(b) /\ ~(l <= Len(c)) /\ l - Len(c) = m
        /\ m \in 1 .. Len(s) + 1 - i /\ m + i - 1 = k
    BY <1>1, <1>2, <1>3, <1>7, <1>9
  <2> HIDE DEF m, l
  <2>2. r[l] = b[l - Len(c)]  BY <1>8, <1>10, <2>1
  <2>3. b[m] = s[m + i - 1]  BY <1>3, <2>1
  <2> QED  BY <2>1, <2>2, <2>3 DEF l
<1> QED  BY <1>4, <1>11, <1>12, <1>13, <1>14, <1>15

LEMMA RemovalElements ==
    ASSUME NEW T, NEW s \in Seq(T), NEW i \in 1 .. Len(s)
    PROVE  /\ RemoveAt(s, i) \in Seq(T) /\ Len(RemoveAt(s, i)) = Len(s) - 1
           /\ \A k \in 1 .. i - 1 : RemoveAt(s, i)[k] = s[k]
           /\ \A k \in i + 1 .. Len(s) : RemoveAt(s, i)[k - 1] = s[k]
<1> DEFINE a == SubSeq(s, 1, i - 1)
           b == SubSeq(s, i + 1, Len(s))
<1>1. Len(s) \in Nat /\ i \in Nat /\ i >= 1 /\ i <= Len(s)  OBVIOUS
<1>2. a \in Seq(T) /\ Len(a) = i - 1 /\ \A k \in 1 .. i - 1 : a[k] = s[k]
  BY <1>1, SMTT(30)
<1>3. b \in Seq(T) /\ Len(b) = Len(s) - i /\ \A k \in 1 .. Len(s) - i : b[k] = s[k + i]
  BY <1>1, SMTT(30)
<1>4. RemoveAt(s, i) = a \o b  BY DEF RemoveAt
<1> HIDE DEF a, b
<1>5. /\ a \o b \in Seq(T) /\ Len(a \o b) = Len(a) + Len(b)
      /\ \A k \in 1 .. Len(a) + Len(b) :
            (a \o b)[k] = IF k <= Len(a) THEN a[k] ELSE b[k - Len(a)]
  <2>1. a \in Seq(T) /\ b \in Seq(T)  BY <1>2, <1>3
  <2> QED  BY <2>1, ConcatProperties
<1> DEFINE r == a \o b
<1> HIDE DEF r
<1>6. /\ r \in Seq(T) /\ Len(r) = Len(a) + Len(b)
      /\ \A k \in 1 .. Len(a) + Len(b) : r[k] = IF k <= Len(a) THEN a[k] ELSE b[k - Len(a)]
  BY <1>5 DEF r
<1>7. Len(r) = Len(s) - 1  BY <1>1, <1>2, <1>3, <1>6
<1>8. ASSUME NEW k \in 1 .. i - 1 PROVE r[k] = s[k]
  <2>1. k \in 1 .. Len(a) + Len(b) /\ k <= Len(a)  BY <1>1, <1>2, <1>3
  <2>2. r[k] = a[k]  BY <1>6, <2>1
  <2> QED  BY <1>2, <2>2
<1>9. ASSUME NEW k \in i + 1 .. Len(s) PROVE r[k - 1] = s[k]
  <2> DEFINE m == k - i
             l == k - 1
  <2>1. l \in 1 .. Len(a) + Len(b) /\ ~(l <= Len(a)) /\ l - Len(a) = m
        /\ m \in 1 .. Len(s) - i /\ m + i = k
    BY <1>1, <1>2, <1>3
  <2> HIDE DEF m, l
  <2>2. r[l] = b[l - Len(a)] /\ b[m] = s[m + i]  BY <1>3, <1>6, <2>1
  <2> QED  BY <2>1, <2>2 DEF l
<1> QED  BY <1>4, <1>6, <1>7, <1>8, <1>9 DEF r

-----------------------------------------------------------------------------
(* Orders.                                                                 *)

\* A track in an order twice was queued for its first occurrence only.
QueuedOnce(order) ==
    \A i, j \in DOMAIN order : i < j /\ order[i].track = order[j].track => ~order[j].curated

OnceEach(order) ==
    \A i, j \in DOMAIN order : i < j => order[i].track # order[j].track

\* An order thinned out of another has entries of it, in their order.
Thinned(r, s) ==
    \E h : /\ \A k \in DOMAIN r : h[k] \in DOMAIN s /\ r[k] = s[h[k]]
           /\ \A k, l \in DOMAIN r : k < l => h[k] < h[l]

LEMMA ThinnedKeeps ==
    ASSUME NEW r, NEW s, Thinned(r, s)
    PROVE  /\ QueuedOnce(s) => QueuedOnce(r)
           /\ OnceEach(s) => OnceEach(r)
<1>1. PICK h : /\ \A k \in DOMAIN r : h[k] \in DOMAIN s /\ r[k] = s[h[k]]
               /\ \A k, l \in DOMAIN r : k < l => h[k] < h[l]
  BY DEF Thinned
<1> QED  BY <1>1 DEF QueuedOnce, OnceEach

LEMMA SelectionThinned ==
    ASSUME NEW T, NEW s \in Seq(T), NEW S \in SUBSET DOMAIN s
    PROVE  Thinned(Those(s, S), s)
<1> DEFINE r == Those(s, S)
           h == [k \in DOMAIN r |-> CHOOSE x \in S : Rank(S, x) = k]
<1>1. /\ r \in Seq(T) /\ Len(r) = Cardinality(S)
      /\ \A x \in S : r[Rank(S, x)] = s[x]
      /\ \A x, y \in S : x < y => Rank(S, x) < Rank(S, y)
      /\ \A k \in 1 .. Cardinality(S) : \E x \in S : Rank(S, x) = k
  BY Subsequence, SMTT(30)
<1>2. DOMAIN r = 1 .. Cardinality(S)  BY <1>1
<1> HIDE DEF r
<1>3. ASSUME NEW k \in DOMAIN r PROVE h[k] \in S /\ Rank(S, h[k]) = k
  BY <1>1, <1>2
<1> HIDE DEF h
<1>4. ASSUME NEW k \in DOMAIN r PROVE h[k] \in DOMAIN s /\ r[k] = s[h[k]]
  BY <1>1, <1>3
<1>5. ASSUME NEW k \in DOMAIN r, NEW l \in DOMAIN r, k < l PROVE h[k] < h[l]
  <2>1. h[k] \in S /\ h[l] \in S /\ Rank(S, h[k]) = k /\ Rank(S, h[l]) = l  BY <1>3
  <2>2. h[k] \in Nat /\ h[l] \in Nat /\ k \in Int /\ l \in Int  BY <1>2, <2>1
  <2>3. ~(h[l] < h[k]) /\ h[l] # h[k]  BY <1>1, <1>5, <2>1, <2>2
  <2> QED  BY <2>2, <2>3
<1> QED  BY <1>4, <1>5 DEF r, Thinned

LEMMA RemovalThinned ==
    ASSUME NEW T, NEW s \in Seq(T), NEW i \in 1 .. Len(s)
    PROVE  Thinned(RemoveAt(s, i), s)
<1> DEFINE r == RemoveAt(s, i)
           h == [k \in DOMAIN r |-> IF k < i THEN k ELSE k + 1]
<1>1. /\ r \in Seq(T) /\ Len(r) = Len(s) - 1
      /\ \A k \in 1 .. i - 1 : r[k] = s[k]
      /\ \A k \in i + 1 .. Len(s) : r[k - 1] = s[k]
  BY RemovalElements
<1>2. Len(s) \in Nat /\ i \in Nat /\ i >= 1 /\ i <= Len(s)  OBVIOUS
<1>3. DOMAIN r = 1 .. Len(s) - 1  BY <1>1, <1>2
<1> HIDE DEF r
<1>4. ASSUME NEW k \in DOMAIN r PROVE h[k] \in 1 .. Len(s) /\ r[k] = s[h[k]]
  <2>1. CASE k < i
    <3>1. k \in 1 .. i - 1 /\ k \in 1 .. Len(s)  BY <1>2, <1>3, <2>1
    <3> QED  BY <1>1, <2>1, <3>1
  <2>2. CASE ~(k < i)
    <3>1. k + 1 \in i + 1 .. Len(s) /\ k + 1 \in 1 .. Len(s) /\ (k + 1) - 1 = k  BY <1>2, <1>3, <2>2
    <3>2. r[(k + 1) - 1] = s[k + 1]  BY <1>1, <3>1
    <3> QED  BY <2>2, <3>1, <3>2
  <2> QED  BY <2>1, <2>2
<1>5. \A k, l \in DOMAIN r : k < l => h[k] < h[l]  BY <1>2, <1>3
<1>6. DOMAIN s = 1 .. Len(s)  OBVIOUS
<1> HIDE DEF h
<1> QED  BY <1>4, <1>5, <1>6 DEF r, Thinned

LEMMA MaxOfTwo ==
    ASSUME NEW a \in Int, NEW b \in Int
    PROVE  Max({a, b}) = IF a >= b THEN a ELSE b
<1>1. CASE a >= b
  <2>1. a \in {a, b} /\ \A y \in {a, b} : a >= y  BY <1>1
  <2>2. Max({a, b}) \in {a, b} /\ \A y \in {a, b} : Max({a, b}) >= y  BY <2>1 DEF Max
  <2> QED  BY <1>1, <2>2
<1>2. CASE ~(a >= b)
  <2>1. b \in {a, b} /\ \A y \in {a, b} : b >= y  BY <1>2
  <2>2. Max({a, b}) \in {a, b} /\ \A y \in {a, b} : Max({a, b}) >= y  BY <2>1 DEF Max
  <2> QED  BY <1>2, <2>2
<1> QED  BY <1>1, <1>2

LEMMA MinOfTwo ==
    ASSUME NEW a \in Int, NEW b \in Int
    PROVE  Min({a, b}) = IF a <= b THEN a ELSE b
<1>1. CASE a <= b
  <2>1. a \in {a, b} /\ \A y \in {a, b} : a <= y  BY <1>1
  <2>2. Min({a, b}) \in {a, b} /\ \A y \in {a, b} : Min({a, b}) <= y  BY <2>1 DEF Min
  <2> QED  BY <1>1, <2>2
<1>2. CASE ~(a <= b)
  <2>1. b \in {a, b} /\ \A y \in {a, b} : b <= y  BY <1>2
  <2>2. Min({a, b}) \in {a, b} /\ \A y \in {a, b} : Min({a, b}) <= y  BY <2>1 DEF Min
  <2> QED  BY <1>2, <2>2
<1> QED  BY <1>1, <1>2

\* The first place of a track in an order.
LEMMA PositionFirst ==
    ASSUME NEW order \in Seq(Entry), NEW t
    PROVE  /\ Position(order, t) \in Nat /\ Position(order, t) <= Len(order)
           /\ PlacesOf(order, t) = {} => Position(order, t) = 0
           /\ PlacesOf(order, t) # {} =>
                /\ Position(order, t) \in PlacesOf(order, t)
                /\ \A i \in PlacesOf(order, t) : Position(order, t) <= i
<1>1. Len(order) \in Nat  OBVIOUS
<1>2. DOMAIN order = 1 .. Len(order)  OBVIOUS
<1>3. PlacesOf(order, t) \in SUBSET (1 .. Len(order))  BY <1>2 DEF PlacesOf
<1>4. CASE PlacesOf(order, t) = {}  BY <1>1, <1>4 DEF Position, First
<1>5. CASE PlacesOf(order, t) # {}
  <2>1. PlacesOf(order, t) \in SUBSET Nat  BY <1>3
  <2>2. Position(order, t) = Min(PlacesOf(order, t))  BY <1>5 DEF Position, First
  <2>3. /\ Position(order, t) \in PlacesOf(order, t)
        /\ \A i \in PlacesOf(order, t) : Position(order, t) <= i
    BY <1>5, <2>1, <2>2, FiniteMin
  <2> QED  BY <1>1, <1>3, <1>5, <2>3
<1> QED  BY <1>4, <1>5

-----------------------------------------------------------------------------
(* Queues.                                                                 *)

InRange(q) == q.lazy => q.cursor \in 1 .. Max({1, Len(q.order)})

Ordered(q) == (q.lazy => QueuedOnce(q.order)) /\ (~q.lazy => OnceEach(q.order))

OnTrack(q) ==
    q.current # NoId => At(q) \in DOMAIN q.order /\ q.order[At(q)].track = q.current

Anchored(q) == Ordered(q) /\ OnTrack(q)

LEMMA RangeMeans ==
    ASSUME NEW q \in PlayQueue
    PROVE  InRange(q) <=> (q.lazy => /\ q.cursor >= 1
                                     /\ q.cursor <= Len(q.order) \/ q.cursor = 1)
<1>1. Len(q.order) \in Nat /\ q.cursor \in Nat  BY DEF PlayQueue
<1>2. Max({1, Len(q.order)}) = IF 1 >= Len(q.order) THEN 1 ELSE Len(q.order)
  BY <1>1, MaxOfTwo
<1> QED  BY <1>1, <1>2 DEF InRange

\* An eager order is on its current track wherever that track is.
LEMMA EagerAt ==
    ASSUME NEW q \in PlayQueue, ~q.lazy, NEW i \in DOMAIN q.order,
           q.order[i].track = q.current
    PROVE  /\ OnTrack(q)
           /\ OnceEach(q.order) => At(q) = i
<1>1. q.order \in Seq(Entry)  BY DEF PlayQueue
<1>2. i \in PlacesOf(q.order, q.current)  BY DEF PlacesOf
<1>3. At(q) \in PlacesOf(q.order, q.current)  BY <1>1, <1>2, PositionFirst DEF At
<1>4. At(q) \in DOMAIN q.order /\ q.order[At(q)].track = q.current  BY <1>3 DEF PlacesOf
<1>5. DOMAIN q.order \in SUBSET Nat  BY <1>1
<1>6. ASSUME OnceEach(q.order) PROVE At(q) = i
  <2>1. ~(At(q) < i) /\ ~(i < At(q))  BY <1>4, <1>6 DEF OnceEach
  <2>2. At(q) \in Nat /\ i \in Nat  BY <1>4, <1>5
  <2> QED  BY <2>1, <2>2
<1> QED  BY <1>4, <1>6 DEF OnTrack

\* What of an anchored queue is ahead.
LEMMA AheadMeans ==
    ASSUME NEW q \in PlayQueue, Anchored(q), q.current # NoId
    PROVE  Queued(q) = {i \in DOMAIN q.order : i > At(q) /\ q.order[i].curated}
<1>1. At(q) \in DOMAIN q.order  BY DEF Anchored, OnTrack
<1>2. q.order \in Seq(Entry)  BY DEF PlayQueue
<1>3. At(q) # 0  BY <1>1, <1>2
<1> QED  BY <1>3 DEF Queued, Ahead

\* Taking tracks out of an order: what stays queued, and where the current one is.
LEMMA WithoutSound ==
    ASSUME NEW q \in PlayQueue, NEW S
    PROVE  LET r == WithoutAndReanchored(q, S)
           IN  /\ r \in PlayQueue /\ r.lazy = q.lazy /\ r.current = q.current /\ r.pool = q.pool
               /\ \A i \in DOMAIN r.order : r.order[i].track \notin S
               /\ InRange(r)
               /\ Ordered(q) => Ordered(r)
               /\ Anchored(q) /\ q.current \notin S =>
                    Anchored(r) /\ QueuedIds(q) \ S \subseteq QueuedIds(r)
<1> DEFINE s == q.order
           K == {i \in DOMAIN s : s[i].track \notin S}
           Left == {i \in DOMAIN s : i < q.cursor /\ s[i].track \in S}
           before == Cardinality(Left)
           w == Those(s, K)
           c == IF q.lazy THEN Max({1, Min({q.cursor - before, Len(w)})}) ELSE q.cursor
           r == WithoutAndReanchored(q, S)
<1>1. s \in Seq(Entry) /\ Len(s) \in Nat /\ q.cursor \in Nat /\ q.lazy \in BOOLEAN  BY DEF PlayQueue
<1>2. DOMAIN s = 1 .. Len(s)  BY <1>1
<1>3. r = [q EXCEPT !.order = w, !.cursor = c]
  BY DEF WithoutAndReanchored, Without
<1>9. K \in SUBSET DOMAIN s /\ \A x \in DOMAIN s : x \in K <=> s[x].track \notin S  OBVIOUS
<1> HIDE DEF K
<1>4. /\ w \in Seq(Entry) /\ Len(w) = Cardinality(K) /\ Cardinality(K) \in Nat
      /\ \A x \in K : Rank(K, x) \in 1 .. Cardinality(K) /\ w[Rank(K, x)] = s[x]
      /\ \A x, y \in K : x < y => Rank(K, x) < Rank(K, y)
      /\ \A k \in 1 .. Cardinality(K) : \E x \in K : Rank(K, x) = k
  BY <1>1, <1>9, Subsequence
<1>5. IsFiniteSet(Left) /\ before \in Nat
  <2>1. Left \in SUBSET DOMAIN s  OBVIOUS
  <2>2. IsFiniteSet(Left)  BY <1>1, <2>1, Subsequence
  <2> QED  BY <2>2, FS_CardinalityType
<1>6. DOMAIN w = 1 .. Cardinality(K)  BY <1>4
<1>7. Thinned(w, s)  BY <1>1, <1>9, SelectionThinned
<1>8. c \in Nat /\ (q.lazy => c >= 1 /\ (c <= Len(w) \/ c = 1))
      /\ \A k \in 1 .. Len(w) : q.lazy /\ q.cursor - before = k => c = k
  <2> DEFINE d == q.cursor - before
             n == Len(w)
             m == Min({d, n})
  <2>1. d \in Int /\ n \in Nat  BY <1>1, <1>4, <1>5
  <2>2. c = IF q.lazy THEN Max({1, m}) ELSE q.cursor  OBVIOUS
  <2> HIDE DEF c, d, n
  <2>3. m = IF d <= n THEN d ELSE n  BY <2>1, MinOfTwo
  <2> HIDE DEF m
  <2>4. m \in Int /\ m <= n /\ (d \in 1 .. n => m = d)  BY <2>1, <2>3
  <2>5. Max({1, m}) = IF 1 >= m THEN 1 ELSE m  BY <2>4, MaxOfTwo
  <2>6. CASE q.lazy
    <3>1. c = IF 1 >= m THEN 1 ELSE m  BY <2>2, <2>5, <2>6
    <3>2. c \in Nat /\ c >= 1 /\ (c <= n \/ c = 1) /\ (d \in 1 .. n => c = d)
      BY <2>1, <2>4, <3>1
    <3> QED  BY <3>2 DEF d, n
  <2>7. CASE ~q.lazy  BY <1>1, <2>2, <2>7
  <2> QED  BY <1>1, <2>6, <2>7
<1>10. ASSUME NEW x \in K, q.lazy, x = q.cursor
       PROVE  q.cursor - before = Rank(K, x)
  <2> DEFINE Upto == {j \in K : j <= x}
  <2>1. x \in 1 .. Len(s)  BY <1>2, <1>9
  <2>2. Left \union Upto = 1 .. x /\ Left \intersect Upto = {}
    BY <1>2, <1>9, <1>10, <2>1
  <2>3. IsFiniteSet(Upto) /\ Cardinality(Upto) \in Nat
    <3>1. Upto \in SUBSET DOMAIN s  BY <1>9
    <3> QED  BY <1>1, <3>1, Subsequence
  <2>4. Cardinality(1 .. x) = x  BY <2>1, FS_Interval
  <2>5. Cardinality(Left \union Upto) = Cardinality(Left) + Cardinality(Upto) - Cardinality(Left \intersect Upto)
    BY <1>5, <2>3, FS_Union
  <2>6. Cardinality(Left \intersect Upto) = 0  BY <2>2, FS_EmptySet
  <2>7. Rank(K, x) = Cardinality(Upto)  BY DEF Rank
  <2> HIDE DEF Upto, Left
  <2>9. Cardinality(Left \union Upto) = x  BY <2>2, <2>4
  <2>10. Cardinality(Left) \in Nat /\ Cardinality(Upto) \in Nat  BY <1>5, <2>3
  <2>8. x = Cardinality(Left) + Cardinality(Upto)  BY <2>5, <2>6, <2>9, <2>10
  <2> QED  BY <1>5, <1>10, <2>3, <2>7, <2>8
<1> HIDE DEF w, c, K, Left
<1>11. r \in PlayQueue /\ r.lazy = q.lazy /\ r.current = q.current /\ r.pool = q.pool
       /\ r.order = w /\ r.cursor = c
  BY <1>3, <1>4, <1>8 DEF PlayQueue
<1> HIDE DEF r
<1>12. InRange(r)  BY <1>8, <1>11, RangeMeans
<1>13. ASSUME NEW i \in DOMAIN r.order PROVE r.order[i].track \notin S
  <2>1. PICK x \in K : Rank(K, x) = i  BY <1>4, <1>6, <1>11
  <2>2. w[i] = s[x] /\ s[x].track \notin S  BY <1>4, <1>9, <2>1
  <2> QED  BY <1>11, <2>2
<1>14. Ordered(q) => Ordered(r)  BY <1>7, <1>11, ThinnedKeeps DEF Ordered
<1>15. ASSUME Anchored(q), q.current \notin S
       PROVE  Anchored(r) /\ QueuedIds(q) \ S \subseteq QueuedIds(r)
  <2>1. CASE q.current = NoId
    BY <1>11, <1>14, <1>15, <2>1 DEF Anchored, OnTrack, QueuedIds, Queued, Ahead
  <2>2. CASE q.current # NoId
    <3> DEFINE a == At(q)
    <3>1. a \in DOMAIN s /\ s[a].track = q.current  BY <1>15, <2>2 DEF Anchored, OnTrack
    <3>2. a \in K  BY <1>9, <1>15, <3>1
    <3>3. Rank(K, a) \in DOMAIN w /\ w[Rank(K, a)] = s[a]  BY <1>4, <1>6, <3>2
    <3>4. OnTrack(r) /\ At(r) = Rank(K, a)
      <4>1. CASE q.lazy
        <5>1. a = q.cursor  BY <4>1 DEF At
        <5>2. q.cursor - before = Rank(K, a)  BY <1>10, <3>2, <4>1, <5>1
        <5>3. c = Rank(K, a)  BY <1>4, <1>8, <3>2, <4>1, <5>2
        <5>4. At(r) = c  BY <1>11, <4>1 DEF At
        <5> QED  BY <1>11, <3>1, <3>3, <5>3, <5>4 DEF OnTrack
      <4>2. CASE ~q.lazy
        <5>1. OnceEach(r.order)  BY <1>11, <1>14, <1>15, <4>2 DEF Anchored, Ordered
        <5> QED  BY <1>11, <3>1, <3>3, <4>2, <5>1, EagerAt
      <4> QED  BY <4>1, <4>2
    <3>5. Anchored(r)  BY <1>14, <1>15, <3>4 DEF Anchored
    <3>6. Queued(q) = {i \in DOMAIN s : i > a /\ s[i].curated}  BY <1>15, <2>2, AheadMeans
    <3>7. Queued(r) = {i \in DOMAIN w : i > Rank(K, a) /\ w[i].curated}
      BY <1>11, <2>2, <3>4, <3>5, AheadMeans
    <3> HIDE DEF a
    <3>8. ASSUME NEW i \in Queued(q), s[i].track \notin S PROVE s[i].track \in QueuedIds(r)
      <4>1. i \in DOMAIN s /\ i > a /\ s[i].curated  BY <3>6
      <4>2. i \in K /\ a < i  BY <1>2, <1>9, <3>1, <3>8, <4>1
      <4>3. Rank(K, i) \in DOMAIN w /\ w[Rank(K, i)] = s[i]  BY <1>4, <1>6, <4>2
      <4>4. Rank(K, a) < Rank(K, i)  BY <1>4, <3>2, <4>2
      <4>5. Rank(K, a) \in Int /\ Rank(K, i) \in Int  BY <1>6, <3>3, <4>3
      <4>6. Rank(K, i) \in Queued(r)  BY <3>7, <4>1, <4>3, <4>4, <4>5
      <4> QED  BY <1>11, <4>3, <4>6 DEF QueuedIds
    <3> QED  BY <3>5, <3>8 DEF QueuedIds
  <2> QED  BY <2>1, <2>2
<1> QED  BY <1>11, <1>12, <1>13, <1>14, <1>15 DEF r

LEMMA EntriesElements ==
    ASSUME NEW ids \in Seq(Ids), NEW curated \in BOOLEAN
    PROVE  /\ Entries(ids, curated) \in Seq(Entry) /\ Len(Entries(ids, curated)) = Len(ids)
           /\ \A k \in 1 .. Len(ids) : Entries(ids, curated)[k].track = ids[k]
                                    /\ Entries(ids, curated)[k].curated = curated
<1> DEFINE e == Entries(ids, curated)
<1>1. DOMAIN ids = 1 .. Len(ids) /\ \A k \in 1 .. Len(ids) : ids[k] \in Ids  OBVIOUS
<1>2. e = [k \in 1 .. Len(ids) |-> [track |-> ids[k], curated |-> curated]]
  BY <1>1 DEF Entries
<1>3. \A k \in 1 .. Len(ids) : e[k] = [track |-> ids[k], curated |-> curated]
  BY <1>2
<1>4. \A k \in 1 .. Len(ids) : e[k] \in Entry
  <2> SUFFICES ASSUME NEW k \in 1 .. Len(ids) PROVE e[k] \in Entry
    OBVIOUS
  <2>1. e[k] = [track |-> ids[k], curated |-> curated]  BY <1>3
  <2>2. ids[k] \in Ids  BY <1>1
  <2> HIDE DEF e
  <2>3. CASE curated = TRUE  BY <2>1, <2>2, <2>3 DEF Entry
  <2>4. CASE curated = FALSE  BY <2>1, <2>2, <2>4 DEF Entry
  <2> QED  BY <2>3, <2>4, Zenon
<1> DEFINE n == Len(ids)
<1>7. n \in Nat  OBVIOUS
<1>5. DOMAIN e = 1 .. n  BY <1>2
<1>6. e = [k \in 1 .. n |-> e[k]]  BY <1>2, <1>3
<1>10. \A k \in 1 .. n : e[k] \in Entry  BY <1>4
<1> HIDE DEF e, n
<1>8. e \in Seq(Entry)  BY <1>6, <1>7, <1>10
<1>9. Len(e) = Len(ids)  BY <1>5, <1>7, <1>8 DEF n
<1>11. ASSUME NEW k \in 1 .. Len(ids) PROVE e[k].track = ids[k] /\ e[k].curated = curated
  <2>1. e[k] = [track |-> ids[k], curated |-> curated]  BY <1>3
  <2>2. e[k].track = ids[k]  BY <2>1
  <2>3. CASE curated = TRUE  BY <2>1, <2>2, <2>3
  <2>4. CASE curated = FALSE  BY <2>1, <2>2, <2>4
  <2> QED  BY <2>3, <2>4, Zenon
<1> QED  BY <1>8, <1>9, <1>11, Zenon DEF e

\* Tracks that are not in an order may be queued anywhere after the current one.
Inserted(q, k, ids) == [q EXCEPT !.order = Splice(@, k, Entries(ids, TRUE))]

LEMMA InsertionSound ==
    ASSUME NEW q \in PlayQueue, NEW ids \in Seq(Ids), NEW k \in 1 .. Len(q.order) + 1, InRange(q),
           NEW r, r = Inserted(q, k, ids)
    PROVE  /\ r \in PlayQueue /\ InRange(r) /\ r.pool = q.pool /\ r.current = q.current
           /\ \A i \in DOMAIN q.order : \E j \in DOMAIN r.order : r.order[j] = q.order[i]
           /\ /\ Anchored(q) /\ IsInjective(ids) /\ q.current # NoId /\ At(q) < k
              /\ \A i \in DOMAIN q.order, j \in DOMAIN ids : q.order[i].track # ids[j]
              => /\ Anchored(r)
                 /\ QueuedIds(q) \union {ids[j] : j \in DOMAIN ids} \subseteq QueuedIds(r)
<1> DEFINE s == q.order
           e == Entries(ids, TRUE)
           n == Len(ids)
           w == Splice(s, k, e)
<1>1. s \in Seq(Entry) /\ Len(s) \in Nat /\ n \in Nat /\ q.lazy \in BOOLEAN  BY DEF PlayQueue
<1>2. DOMAIN s = 1 .. Len(s) /\ DOMAIN ids = 1 .. n  BY <1>1
<1>3. /\ e \in Seq(Entry) /\ Len(e) = n
      /\ \A j \in 1 .. n : e[j].track = ids[j] /\ e[j].curated
  BY EntriesElements
<1> HIDE DEF e
<1>4. /\ w \in Seq(Entry) /\ Len(w) = Len(s) + n
      /\ \A j \in 1 .. k - 1 : w[j] = s[j]
      /\ \A j \in 1 .. n : w[k - 1 + j] = e[j]
      /\ \A j \in k .. Len(s) : w[j + n] = s[j]
  <2>1. e \in Seq(Entry)  BY <1>3
  <2>2. /\ Splice(s, k, e) \in Seq(Entry) /\ Len(Splice(s, k, e)) = Len(s) + Len(e)
        /\ \A j \in 1 .. k - 1 : Splice(s, k, e)[j] = s[j]
        /\ \A j \in 1 .. Len(e) : Splice(s, k, e)[k - 1 + j] = e[j]
        /\ \A j \in k .. Len(s) : Splice(s, k, e)[j + Len(e)] = s[j]
    BY <1>1, <2>1, InsertionElements
  <2> QED  BY <1>3, <2>2
<1>11. r = [q EXCEPT !.order = w]  BY DEF Inserted, w, e
<1> HIDE DEF w
<1>5. DOMAIN w = 1 .. Len(s) + n  BY <1>4
<1>6. /\ r \in PlayQueue /\ r.order = w /\ r.lazy = q.lazy /\ r.current = q.current
      /\ r.cursor = q.cursor /\ r.pool = q.pool
  BY <1>4, <1>11 DEF PlayQueue
<1>7. k \in Nat /\ k >= 1 /\ k <= Len(s) + 1  BY <1>1
<1>8. InRange(r)
  <2>1. q.lazy => q.cursor >= 1 /\ (q.cursor <= Len(s) \/ q.cursor = 1)  BY RangeMeans
  <2>2. q.cursor \in Nat  BY DEF PlayQueue
  <2>3. q.lazy => q.cursor >= 1 /\ (q.cursor <= Len(w) \/ q.cursor = 1)
    BY <1>1, <1>4, <2>1, <2>2
  <2> QED  BY <1>6, <2>3, RangeMeans
<1>10. ASSUME NEW i \in DOMAIN s PROVE \E j \in DOMAIN w : w[j] = s[i]
  <2>1. CASE i < k
    <3>1. i \in 1 .. k - 1 /\ i \in 1 .. Len(s) + n  BY <1>1, <1>2, <1>7, <2>1
    <3> QED  BY <1>4, <1>5, <3>1
  <2>2. CASE ~(i < k)
    <3>1. i \in k .. Len(s) /\ i + n \in 1 .. Len(s) + n  BY <1>1, <1>2, <1>7, <2>2
    <3> QED  BY <1>4, <1>5, <3>1
  <2> QED  BY <2>1, <2>2
<1>9. ASSUME Anchored(q), IsInjective(ids), q.current # NoId, At(q) < k,
             \A i \in DOMAIN s, j \in DOMAIN ids : s[i].track # ids[j]
      PROVE  /\ Anchored(r)
             /\ QueuedIds(q) \union {ids[j] : j \in DOMAIN ids} \subseteq QueuedIds(r)
  <2> DEFINE a == At(q)
             old(j) == IF j < k THEN j ELSE j - n
             New == {j \in DOMAIN w : k <= j /\ j < k + n}
  <2>1. a \in DOMAIN s /\ s[a].track = q.current  BY <1>9 DEF Anchored, OnTrack
  <2> HIDE DEF a
  <2>2. ASSUME NEW j \in DOMAIN w, j \notin New
        PROVE  old(j) \in DOMAIN s /\ w[j] = s[old(j)]
    <3>1. CASE j < k
      <4>1. j \in 1 .. k - 1 /\ j \in 1 .. Len(s)  BY <1>1, <1>5, <1>7, <3>1
      <4> QED  BY <1>2, <1>4, <3>1, <4>1
    <3>2. CASE ~(j < k)
      <4>1. j - n \in k .. Len(s) /\ (j - n) + n = j /\ j - n \in 1 .. Len(s)
        BY <1>1, <1>5, <1>7, <2>2, <3>2
      <4>2. w[(j - n) + n] = s[j - n]  BY <1>4, <4>1
      <4> QED  BY <1>2, <3>2, <4>1, <4>2
    <3> QED  BY <3>1, <3>2
  <2>3. ASSUME NEW j \in New
        PROVE  /\ j - (k - 1) \in 1 .. n /\ w[j].track = ids[j - (k - 1)] /\ w[j].curated
    <3>1. j - (k - 1) \in 1 .. n /\ k - 1 + (j - (k - 1)) = j  BY <1>1, <1>5, <1>7
    <3>2. w[k - 1 + (j - (k - 1))] = e[j - (k - 1)]  BY <1>4, <3>1
    <3> QED  BY <1>3, <3>1, <3>2
  <2>4. ASSUME NEW i \in DOMAIN w, NEW j \in DOMAIN w, i < j, w[i].track = w[j].track
        PROVE  i \notin New /\ j \notin New /\ old(i) < old(j)
    <3>1. CASE i \in New /\ j \in New
      <4>1. ids[i - (k - 1)] = ids[j - (k - 1)]  BY <2>3, <2>4, <3>1
      <4>2. i - (k - 1) = j - (k - 1)
        <5>1. i - (k - 1) \in DOMAIN ids /\ j - (k - 1) \in DOMAIN ids  BY <1>2, <2>3, <3>1
        <5> QED  BY <1>9, <4>1, <5>1 DEF IsInjective
      <4> QED  BY <1>5, <1>7, <2>4, <4>2
    <3>2. CASE i \in New /\ j \notin New
      <4>1. old(j) \in DOMAIN s /\ w[j] = s[old(j)]  BY <2>2, <3>2
      <4>2. i - (k - 1) \in DOMAIN ids /\ w[i].track = ids[i - (k - 1)]  BY <1>2, <2>3, <3>2
      <4> QED  BY <1>9, <2>4, <4>1, <4>2
    <3>3. CASE i \notin New /\ j \in New
      <4>1. old(i) \in DOMAIN s /\ w[i] = s[old(i)]  BY <2>2, <3>3
      <4>2. j - (k - 1) \in DOMAIN ids /\ w[j].track = ids[j - (k - 1)]  BY <1>2, <2>3, <3>3
      <4> QED  BY <1>9, <2>4, <4>1, <4>2
    <3>4. CASE i \notin New /\ j \notin New
      <4>1. old(i) < old(j)  BY <1>1, <1>5, <1>7, <2>4, <3>4
      <4> QED  BY <3>4, <4>1
    <3> QED  BY <3>1, <3>2, <3>3, <3>4
  <2>5. Ordered(r)
    <3>1. q.lazy => QueuedOnce(w)
      <4> SUFFICES ASSUME q.lazy, NEW i \in DOMAIN w, NEW j \in DOMAIN w, i < j,
                          w[i].track = w[j].track
                   PROVE  ~w[j].curated
        BY DEF QueuedOnce
      <4> HIDE DEF old, New
      <4>1. QueuedOnce(s)  BY <1>9 DEF Anchored, Ordered
      <4>2. i \notin New /\ j \notin New /\ old(i) < old(j)  BY <2>4
      <4>3. old(i) \in DOMAIN s /\ old(j) \in DOMAIN s /\ w[i] = s[old(i)] /\ w[j] = s[old(j)]
        BY <2>2, <4>2
      <4> QED  BY <4>1, <4>2, <4>3 DEF QueuedOnce
    <3>2. ~q.lazy => OnceEach(w)
      <4> SUFFICES ASSUME ~q.lazy, NEW i \in DOMAIN w, NEW j \in DOMAIN w, i < j,
                          w[i].track = w[j].track
                   PROVE  FALSE
        BY DEF OnceEach
      <4> HIDE DEF old, New
      <4>1. OnceEach(s)  BY <1>9 DEF Anchored, Ordered
      <4>2. i \notin New /\ j \notin New /\ old(i) < old(j)  BY <2>4
      <4>3. old(i) \in DOMAIN s /\ old(j) \in DOMAIN s /\ w[i] = s[old(i)] /\ w[j] = s[old(j)]
        BY <2>2, <4>2
      <4> QED  BY <4>1, <4>2, <4>3 DEF OnceEach
    <3> QED  BY <1>6, <3>1, <3>2 DEF Ordered
  <2>6. a \in DOMAIN w /\ w[a] = s[a] /\ a \in Nat
    <3>1. a < k  BY <1>9 DEF a
    <3>2. a \in 1 .. k - 1 /\ a \in 1 .. Len(s) + n  BY <1>1, <1>2, <1>7, <2>1, <3>1
    <3> QED  BY <1>4, <1>5, <3>2
  <2>7. OnTrack(r) /\ At(r) = a
    <3>1. CASE q.lazy
      <4>1. a = q.cursor /\ At(r) = a  BY <1>6, <3>1 DEF At, a
      <4> QED  BY <1>6, <2>1, <2>6, <4>1 DEF OnTrack
    <3>2. CASE ~q.lazy
      <4>1. OnceEach(r.order)  BY <1>6, <2>5, <3>2 DEF Ordered
      <4> QED  BY <1>6, <2>1, <2>6, <3>2, <4>1, EagerAt
    <3> QED  BY <1>1, <3>1, <3>2
  <2>8. Anchored(r)  BY <2>5, <2>7 DEF Anchored
  <2>9. Queued(r) = {i \in DOMAIN w : i > a /\ w[i].curated}
    BY <1>6, <1>9, <2>7, <2>8, AheadMeans
  <2>10. Queued(q) = {i \in DOMAIN s : i > a /\ s[i].curated}
    BY <1>9, AheadMeans DEF a
  <2>11. ASSUME NEW i \in Queued(q) PROVE s[i].track \in QueuedIds(r)
    <3>1. i \in 1 .. Len(s) /\ i > a /\ s[i].curated  BY <1>2, <2>10
    <3>2. CASE i < k
      <4>1. i \in 1 .. k - 1 /\ i \in 1 .. Len(s) + n  BY <1>1, <1>7, <3>1, <3>2
      <4> QED  BY <1>4, <1>5, <1>6, <2>9, <3>1, <4>1 DEF QueuedIds
    <3>3. CASE ~(i < k)
      <4>1. i \in k .. Len(s) /\ i + n \in 1 .. Len(s) + n /\ i + n > a
        BY <1>1, <1>7, <2>6, <3>1, <3>3
      <4>2. w[i + n] = s[i]  BY <1>4, <4>1
      <4>3. i + n \in Queued(r)  BY <1>5, <2>9, <3>1, <4>1, <4>2
      <4> QED  BY <1>6, <4>2, <4>3 DEF QueuedIds
    <3> QED  BY <3>2, <3>3
  <2>12. ASSUME NEW j \in DOMAIN ids PROVE ids[j] \in QueuedIds(r)
    <3>1. j \in 1 .. n  BY <1>2
    <3>2. k - 1 + j \in 1 .. Len(s) + n /\ k - 1 + j > a
      <4>1. a < k  BY <1>9 DEF a
      <4> QED  BY <1>1, <1>7, <2>6, <3>1, <4>1
    <3>3. w[k - 1 + j] = e[j] /\ e[j].track = ids[j] /\ e[j].curated  BY <1>3, <1>4, <3>1
    <3>4. k - 1 + j \in Queued(r)  BY <1>5, <2>9, <3>2, <3>3
    <3> QED  BY <1>6, <3>3, <3>4 DEF QueuedIds
  <2>13. QueuedIds(q) \subseteq QueuedIds(r)  BY <2>11 DEF QueuedIds
  <2> QED  BY <2>8, <2>12, <2>13
<1> QED  BY <1>6, <1>8, <1>9, <1>10

-----------------------------------------------------------------------------
(* Lists of tracks.                                                        *)

LEMMA OnlySound ==
    ASSUME NEW ids \in Seq(Ids), NEW S
    PROVE  /\ Only(ids, S) \in Seq(Ids) /\ ToSet(Only(ids, S)) = ToSet(ids) \intersect S
           /\ IsInjective(ids) => IsInjective(Only(ids, S))
<1> DEFINE K == {i \in DOMAIN ids : ids[i] \in S}
           w == Those(ids, K)
<1>1. K \in SUBSET DOMAIN ids /\ \A i \in DOMAIN ids : i \in K <=> ids[i] \in S  OBVIOUS
<1>2. Only(ids, S) = w  BY DEF Only
<1> HIDE DEF K
<1>3. /\ w \in Seq(Ids) /\ Len(w) = Cardinality(K)
      /\ \A x \in K : Rank(K, x) \in 1 .. Cardinality(K) /\ w[Rank(K, x)] = ids[x]
      /\ \A k \in 1 .. Cardinality(K) : \E x \in K : Rank(K, x) = k
  BY <1>1, Subsequence
<1> HIDE DEF w
<1>4. DOMAIN w = 1 .. Cardinality(K)  BY <1>3
<1>5. ToSet(w) = ToSet(ids) \intersect S
  <2>1. ASSUME NEW k \in DOMAIN w PROVE w[k] \in ToSet(ids) \intersect S
    <3>1. PICK x \in K : Rank(K, x) = k  BY <1>3, <1>4
    <3> QED  BY <1>1, <1>3, <3>1 DEF ToSet
  <2>2. ASSUME NEW x \in DOMAIN ids, ids[x] \in S PROVE \E k \in DOMAIN w : w[k] = ids[x]
    BY <1>1, <1>3, <1>4, <2>2
  <2> QED  BY <2>1, <2>2 DEF ToSet
<1>6. ASSUME IsInjective(ids) PROVE IsInjective(w)
  <2> SUFFICES ASSUME NEW k \in DOMAIN w, NEW l \in DOMAIN w, w[k] = w[l] PROVE k = l
    BY DEF IsInjective
  <2>1. PICK x \in K : Rank(K, x) = k  BY <1>3, <1>4
  <2>2. PICK y \in K : Rank(K, y) = l  BY <1>3, <1>4
  <2>3. ids[x] = ids[y] /\ x \in DOMAIN ids /\ y \in DOMAIN ids  BY <1>1, <1>3, <2>1, <2>2
  <2>4. x = y  BY <1>6, <2>3 DEF IsInjective
  <2> QED  BY <2>1, <2>2, <2>4
<1> QED  BY <1>2, <1>3, <1>5, <1>6

\* What is queued, as a list.
LEMMA CuratedAheadMeans ==
    ASSUME NEW q \in PlayQueue
    PROVE  /\ CuratedAhead(q) \in Seq(Ids) /\ ToSet(CuratedAhead(q)) = QueuedIds(q)
           /\ Anchored(q) => IsInjective(CuratedAhead(q)) /\ q.current \notin QueuedIds(q)
<1> DEFINE s == q.order
           K == Queued(q)
           w == Those(s, K)
           c == CuratedAhead(q)
<1>1. s \in Seq(Entry) /\ q.lazy \in BOOLEAN /\ q.current \in Ids \union {NoId}  BY DEF PlayQueue
<1>2. K \in SUBSET DOMAIN s /\ \A i \in K : s[i].curated  BY DEF Queued, Ahead
<1>3. c = [k \in DOMAIN w |-> w[k].track]  BY DEF CuratedAhead, IdsOf
<1>4. QueuedIds(q) = {s[i].track : i \in K}  BY DEF QueuedIds
<1> HIDE DEF K, c
<1>5. /\ w \in Seq(Entry) /\ Len(w) = Cardinality(K) /\ Cardinality(K) \in Nat
      /\ \A x \in K : Rank(K, x) \in 1 .. Cardinality(K) /\ w[Rank(K, x)] = s[x]
      /\ \A k \in 1 .. Cardinality(K) : \E x \in K : Rank(K, x) = k
  BY <1>1, <1>2, Subsequence
<1> HIDE DEF w
<1>6. DOMAIN w = 1 .. Cardinality(K)  BY <1>5
<1>7. \A k \in DOMAIN w : w[k].track \in Ids
  <2>1. w \in Seq(Entry)  BY <1>5
  <2>2. \A k \in DOMAIN w : w[k] \in Entry  BY <2>1
  <2> QED  BY <2>2 DEF Entry
<1>8. c \in [1 .. Cardinality(K) -> Ids]  BY <1>3, <1>6, <1>7
<1>9. c \in Seq(Ids)  BY <1>5, <1>8
<1>10. ASSUME NEW k \in DOMAIN c
       PROVE  \E x \in K : Rank(K, x) = k /\ c[k] = s[x].track
  BY <1>3, <1>5, <1>6
<1>11. ASSUME NEW x \in K PROVE Rank(K, x) \in DOMAIN c /\ c[Rank(K, x)] = s[x].track
  BY <1>3, <1>5, <1>6
<1>12. ToSet(c) = QueuedIds(q)
  <2>1. \A k \in DOMAIN c : c[k] \in QueuedIds(q)  BY <1>4, <1>10
  <2>2. \A x \in K : s[x].track \in ToSet(c)  BY <1>11 DEF ToSet
  <2> QED  BY <1>4, <2>1, <2>2 DEF ToSet
<1>13. ASSUME Anchored(q), NEW x \in K, NEW i \in DOMAIN s, i < x PROVE s[i].track # s[x].track
  <2>1. x \in DOMAIN s /\ s[x].curated  BY <1>2
  <2>2. CASE q.lazy  BY <1>13, <2>1, <2>2 DEF Anchored, Ordered, QueuedOnce
  <2>3. CASE ~q.lazy  BY <1>13, <2>1, <2>3 DEF Anchored, Ordered, OnceEach
  <2> QED  BY <1>1, <2>2, <2>3
<1>14. ASSUME Anchored(q) PROVE IsInjective(c)
  <2> SUFFICES ASSUME NEW k \in DOMAIN c, NEW l \in DOMAIN c, c[k] = c[l] PROVE k = l
    BY DEF IsInjective
  <2>1. PICK x \in K : Rank(K, x) = k /\ c[k] = s[x].track  BY <1>10
  <2>2. PICK y \in K : Rank(K, y) = l /\ c[l] = s[y].track  BY <1>10
  <2>3. x \in DOMAIN s /\ y \in DOMAIN s /\ s[x].track = s[y].track  BY <1>2, <2>1, <2>2
  <2>4. ~(x < y) /\ ~(y < x)  BY <1>13, <1>14, <2>3
  <2>5. x \in Nat /\ y \in Nat  BY <1>1, <2>3
  <2>6. x = y  BY <2>4, <2>5
  <2> QED  BY <2>1, <2>2, <2>6
<1>15. ASSUME Anchored(q) PROVE q.current \notin QueuedIds(q)
  <2>1. CASE q.current = NoId
    <3>1. K = {}  BY <2>1 DEF K, Queued, Ahead
    <3> QED  BY <1>4, <3>1
  <2>2. CASE q.current # NoId
    <3>1. At(q) \in DOMAIN s /\ s[At(q)].track = q.current  BY <1>15, <2>2 DEF Anchored, OnTrack
    <3>2. \A x \in K : x > At(q)  BY <1>15, <2>2, AheadMeans DEF K
    <3>3. At(q) \in Nat /\ \A x \in K : x \in Nat  BY <1>1, <1>2, <3>1
    <3>4. \A x \in K : s[At(q)].track # s[x].track  BY <1>13, <1>15, <3>1, <3>2, <3>3
    <3> QED  BY <1>4, <3>1, <3>4
  <2> QED  BY <2>1, <2>2
<1> QED  BY <1>9, <1>12, <1>14, <1>15 DEF c

LEMMA QueuedTyped ==
    ASSUME NEW q \in PlayQueue
    PROVE  QueuedIds(q) \subseteq Ids
<1>1. ToSet(CuratedAhead(q)) = QueuedIds(q) /\ CuratedAhead(q) \in Seq(Ids)  BY CuratedAheadMeans
<1>2. \A i \in DOMAIN CuratedAhead(q) : CuratedAhead(q)[i] \in Ids  BY <1>1
<1> QED  BY <1>1, <1>2 DEF ToSet

\* A shuffle has the tracks of the list, each once.
LEMMA ShufflesSound ==
    ASSUME NEW ids \in Seq(Ids), NEW current, NEW s \in Shuffles(ids, current)
    PROVE  s \in Seq(Ids) /\ IsInjective(s) /\ ToSet(s) = ToSet(ids)
<1> DEFINE S == ToSet(ids)
           n == Cardinality(S)
           D == 1 .. n
<1>1. IsFiniteSet(S) /\ S \in SUBSET Ids
  <2>1. DOMAIN ids = 1 .. Len(ids) /\ Len(ids) \in Nat /\ \A i \in DOMAIN ids : ids[i] \in Ids
    OBVIOUS
  <2>2. IsFiniteSet(1 .. Len(ids))  BY <2>1, FS_Interval
  <2>3. IsFiniteSet(DOMAIN ids)  BY <2>1, <2>2
  <2>4. ids \in Surjection(DOMAIN ids, S)  BY <2>1 DEF Surjection, ToSet
  <2>5. IsFiniteSet(S)  BY <2>3, <2>4, FS_Surjection
  <2> QED  BY <2>1, <2>5 DEF ToSet
<1>2. n \in Nat  BY <1>1, FS_CardinalityType
<1>3. s \in [D -> S] /\ \A i, j \in D : i # j => s[i] # s[j]
  BY DEF Shuffles, SetToSeqs
<1> HIDE DEF S, n
<1>4. s \in [D -> Ids]  BY <1>1, <1>3
<1>5. s \in Seq(Ids)  BY <1>2, <1>4
<1>6. IsInjective(s)  BY <1>3 DEF IsInjective
<1>7. IsFiniteSet(D) /\ Cardinality(D) = n  BY <1>2, FS_Interval
<1>8. s \in Injection(D, S)  BY <1>3, <1>6 DEF Injection
<1>9. s \in Surjection(D, S)  BY <1>1, <1>7, <1>8, FS_Injection DEF n
<1>10. ToSet(s) = S  BY <1>3, <1>9 DEF Surjection, ToSet
<1> QED  BY <1>5, <1>6, <1>10 DEF S

LEMMA PrependSound ==
    ASSUME NEW ids \in Seq(Ids), NEW t \in Ids
    PROVE  /\ <<t>> \o ids \in Seq(Ids) /\ ToSet(<<t>> \o ids) = ToSet(ids) \union {t}
           /\ IsInjective(ids) /\ t \notin ToSet(ids) => IsInjective(<<t>> \o ids)
<1> DEFINE one == <<t>>
           w == one \o ids
<1>1. one \in Seq(Ids) /\ Len(one) = 1 /\ one[1] = t  OBVIOUS
<1> HIDE DEF one
<1>2. /\ w \in Seq(Ids) /\ Len(w) = Len(one) + Len(ids)
      /\ \A i \in 1 .. Len(one) + Len(ids) :
            w[i] = IF i <= Len(one) THEN one[i] ELSE ids[i - Len(one)]
  BY <1>1, ConcatProperties
<1> HIDE DEF w
<1>3. Len(ids) \in Nat  OBVIOUS
<1>4. w[1] = t /\ \A i \in 2 .. Len(ids) + 1 : w[i] = ids[i - 1]
  BY <1>1, <1>2, <1>3
<1>5. DOMAIN w = 1 .. Len(ids) + 1
  <2>1. Len(w) = Len(ids) + 1  BY <1>1, <1>2, <1>3
  <2> QED  BY <1>2, <2>1
<1>6. DOMAIN ids = 1 .. Len(ids)  OBVIOUS
<1>7. ASSUME NEW i \in DOMAIN w, i # 1
      PROVE  i - 1 \in DOMAIN ids /\ w[i] = ids[i - 1] /\ i \in Nat
  <2>1. i \in 2 .. Len(ids) + 1 /\ i - 1 \in 1 .. Len(ids)  BY <1>3, <1>5, <1>7
  <2> QED  BY <1>4, <1>6, <2>1
<1>8. ToSet(w) = ToSet(ids) \union {t}
  <2>1. ASSUME NEW i \in DOMAIN ids PROVE i + 1 \in DOMAIN w /\ w[i + 1] = ids[i]
    <3>1. i + 1 \in 2 .. Len(ids) + 1 /\ i + 1 \in DOMAIN w /\ (i + 1) - 1 = i
      BY <1>3, <1>5, <1>6
    <3>2. w[i + 1] = ids[(i + 1) - 1]  BY <1>4, <3>1
    <3> QED  BY <3>1, <3>2
  <2>2. 1 \in DOMAIN w  BY <1>3, <1>5
  <2>3. \A i \in DOMAIN w : w[i] \in ToSet(ids) \union {t}  BY <1>4, <1>7 DEF ToSet
  <2> QED  BY <1>4, <2>1, <2>2, <2>3 DEF ToSet
<1>9. ASSUME IsInjective(ids), t \notin ToSet(ids) PROVE IsInjective(w)
  <2> SUFFICES ASSUME NEW i \in DOMAIN w, NEW j \in DOMAIN w, w[i] = w[j] PROVE i = j
    BY DEF IsInjective
  <2>1. \A m \in DOMAIN w : m # 1 => w[m] # t  BY <1>7, <1>9 DEF ToSet
  <2>2. CASE i = 1 \/ j = 1  BY <1>4, <2>1, <2>2
  <2>3. CASE i # 1 /\ j # 1
    <3>1. i - 1 = j - 1  BY <1>7, <1>9, <2>3 DEF IsInjective
    <3>2. i \in Nat /\ j \in Nat  BY <1>7, <2>3
    <3> QED  BY <3>1, <3>2
  <2> QED  BY <2>2, <2>3
<1> QED  BY <1>2, <1>8, <1>9 DEF w, one

\* An order made of a list.
LEMMA EntriesAnchored ==
    ASSUME NEW ids \in Seq(Ids), NEW curated \in BOOLEAN
    PROVE  /\ IsInjective(ids) => OnceEach(Entries(ids, curated))
           /\ \A x \in ToSet(ids) : \E i \in DOMAIN Entries(ids, curated) :
                                       Entries(ids, curated)[i].track = x
           /\ \A i \in DOMAIN Entries(ids, curated) :
                 Entries(ids, curated)[i].track \in ToSet(ids)
<1> DEFINE e == Entries(ids, curated)
<1>1. /\ e \in Seq(Entry) /\ Len(e) = Len(ids)
      /\ \A k \in 1 .. Len(ids) : e[k].track = ids[k]
  BY EntriesElements
<1> HIDE DEF e
<1>2. DOMAIN e = 1 .. Len(ids) /\ DOMAIN ids = 1 .. Len(ids)  BY <1>1
<1>3. IsInjective(ids) => OnceEach(e)
  <2> SUFFICES ASSUME IsInjective(ids), NEW i \in DOMAIN e, NEW j \in DOMAIN e, i < j,
                      e[i].track = e[j].track
               PROVE  FALSE
    BY DEF OnceEach
  <2>1. ids[i] = ids[j]  BY <1>1, <1>2
  <2>2. i = j  BY <1>2, <2>1 DEF IsInjective
  <2>3. i \in Int  BY <1>2
  <2> QED  BY <2>2, <2>3
<1> QED  BY <1>1, <1>2, <1>3 DEF e, ToSet

LaidOut(q, ids, curated) ==
    [q EXCEPT !.lazy = FALSE, !.cursor = 1, !.order = EagerOrder(ids, q.current, curated)]

\* eager_play_order keeps the current track, the list and what was queued.
LEMMA EagerSound ==
    ASSUME NEW q \in PlayQueue, NEW ids \in Seq(Ids), NEW curated \in Seq(Ids), 
           NEW r, r = LaidOut(q, ids, curated)
    PROVE  /\ r \in PlayQueue
           /\ IsInjective(ids) /\ IsInjective(curated) /\ q.current \notin ToSet(curated) =>
                /\ Anchored(r)
                /\ q.current # NoId =>
                     /\ ToSet(curated) \subseteq QueuedIds(r)
                     /\ \A x \in ToSet(ids) : \E i \in DOMAIN r.order : r.order[i].track = x
<1> DEFINE t == q.current
           K == {t} \union (Ids \ ToSet(curated))
           kept == Only(ids, K)
           whole == IF t = NoId \/ Contains(kept, t) THEN kept ELSE <<t>> \o kept
           e == Entries(whole, FALSE)
           base == [q EXCEPT !.lazy = FALSE, !.cursor = 1, !.order = e]
           k == Position(e, t) + 1
           Well == IsInjective(ids) /\ IsInjective(curated) /\ t \notin ToSet(curated)
<1>1. t \in Ids \union {NoId} /\ NoId \notin Ids  BY QueueAssumption DEF PlayQueue
<1>2. kept \in Seq(Ids) /\ ToSet(kept) = ToSet(ids) \intersect K
      /\ (IsInjective(ids) => IsInjective(kept))
  BY OnlySound
<1>3. Contains(kept, t) <=> t \in ToSet(kept)
  <2> HIDE DEF kept
  <2>1. DOMAIN kept = 1 .. Len(kept)  BY <1>2
  <2> QED  BY <2>1 DEF Contains, ToSet
<1>4. EagerOrder(ids, t, curated) =
        IF t = NoId THEN e ELSE Splice(e, k, Entries(curated, TRUE))
  BY DEF EagerOrder
<1>5. ToSet(ids) \subseteq Ids /\ K = {t} \union (Ids \ ToSet(curated))
  <2>1. \A i \in DOMAIN ids : ids[i] \in Ids  OBVIOUS
  <2> QED  BY <2>1 DEF ToSet
<1> HIDE DEF kept, K
<1>6. /\ whole \in Seq(Ids) /\ (IsInjective(ids) => IsInjective(whole))
      /\ ToSet(whole) = IF t = NoId THEN ToSet(kept) ELSE ToSet(kept) \union {t}
  <2>1. CASE t # NoId /\ ~Contains(kept, t)
    <3>1. whole = <<t>> \o kept /\ t \in Ids /\ t \notin ToSet(kept)  BY <1>1, <1>3, <2>1
    <3> QED  BY <1>2, <2>1, <3>1, PrependSound
  <2>2. CASE ~(t # NoId /\ ~Contains(kept, t))
    <3>1. whole = kept  BY <2>2
    <3> QED  BY <1>2, <1>3, <2>2, <3>1
  <2> QED  BY <2>1, <2>2
<1> HIDE DEF whole
<1>7. /\ e \in Seq(Entry) /\ Len(e) = Len(whole)
      /\ \A j \in 1 .. Len(whole) : e[j].track = whole[j] /\ ~e[j].curated
  BY <1>6, EntriesElements
<1>8. /\ IsInjective(whole) => OnceEach(e)
      /\ \A x \in ToSet(whole) : \E i \in DOMAIN e : e[i].track = x
      /\ \A i \in DOMAIN e : e[i].track \in ToSet(whole)
  BY <1>6, EntriesAnchored
<1> HIDE DEF e
<1>9. base \in PlayQueue /\ base.order = e /\ ~base.lazy /\ base.current = t
  BY <1>7 DEF PlayQueue
<1>10. At(base) = Position(e, t)  BY <1>9 DEF At
<1>11. k \in 1 .. Len(e) + 1  BY <1>7, PositionFirst
<1>12. InRange(base)  BY <1>9 DEF InRange
<1>13. CASE t = NoId
  <2>1. r = base  BY <1>4, <1>13 DEF LaidOut
  <2>2. Well => OnceEach(e)  BY <1>6, <1>8
  <2>3. Well => Anchored(base)  BY <1>9, <1>13, <2>2 DEF Anchored, Ordered, OnTrack
  <2> HIDE DEF base
  <2> QED  BY <1>9, <1>13, <2>1, <2>3
<1>14. CASE t # NoId
  <2>1. r = Inserted(base, k, curated)
    BY <1>4, <1>9, <1>14 DEF PlayQueue, LaidOut, Inserted
  <2> HIDE DEF base, k
  <2>2. /\ r \in PlayQueue
        /\ \A i \in DOMAIN e : \E j \in DOMAIN r.order : r.order[j] = e[i]
        /\ /\ Anchored(base) /\ IsInjective(curated) /\ t # NoId /\ At(base) < k
           /\ \A i \in DOMAIN e, j \in DOMAIN curated : e[i].track # curated[j]
           => /\ Anchored(r)
              /\ QueuedIds(base) \union {curated[j] : j \in DOMAIN curated} \subseteq QueuedIds(r)
    <3>1. base \in PlayQueue /\ k \in 1 .. Len(base.order) + 1  BY <1>9, <1>11
    <3>2. /\ r \in PlayQueue
          /\ \A i \in DOMAIN base.order : \E j \in DOMAIN r.order : r.order[j] = base.order[i]
          /\ /\ Anchored(base) /\ IsInjective(curated) /\ base.current # NoId /\ At(base) < k
             /\ \A i \in DOMAIN base.order, j \in DOMAIN curated :
                   base.order[i].track # curated[j]
             => /\ Anchored(r)
                /\ QueuedIds(base) \union {curated[j] : j \in DOMAIN curated} \subseteq QueuedIds(r)
      BY <1>12, <2>1, <3>1, InsertionSound
    <3> QED  BY <1>9, <3>2
  <2>3. ASSUME Well
        PROVE  /\ Anchored(r) /\ ToSet(curated) \subseteq QueuedIds(r)
               /\ \A x \in ToSet(ids) : \E i \in DOMAIN r.order : r.order[i].track = x
    <3>1. OnceEach(e)  BY <1>6, <1>8, <2>3
    <3>2. PICK i \in DOMAIN e : e[i].track = t  BY <1>6, <1>8, <1>14
    <3>3. OnTrack(base)  BY <1>9, <3>2, EagerAt
    <3>4. Anchored(base)  BY <1>9, <3>1, <3>3 DEF Anchored, Ordered
    <3>5. At(base) < k  BY <1>7, <1>10, PositionFirst DEF k
    <3>6. \A x \in ToSet(whole) : x \notin ToSet(curated)
      <4>1. ToSet(whole) = ToSet(kept) \union {t}  BY <1>6, <1>14
      <4> QED  BY <1>2, <1>5, <2>3, <4>1
    <3>7. \A m \in DOMAIN e, j \in DOMAIN curated : e[m].track # curated[j]
      BY <1>8, <3>6 DEF ToSet
    <3>8. Anchored(r) /\ QueuedIds(base) \union {curated[j] : j \in DOMAIN curated} \subseteq QueuedIds(r)
      BY <1>14, <2>2, <2>3, <3>4, <3>5, <3>7
    <3>9. ToSet(curated) \subseteq QueuedIds(r)  BY <3>8 DEF ToSet
    <3>10. ASSUME NEW x \in ToSet(ids) PROVE \E j \in DOMAIN r.order : r.order[j].track = x
      <4>1. CASE x \in ToSet(curated)  BY <3>9, <4>1 DEF QueuedIds, Queued, Ahead
      <4>2. CASE x \notin ToSet(curated)
        <5>1. x \in ToSet(whole)  BY <1>2, <1>5, <1>6, <4>2
        <5>2. PICK n \in DOMAIN e : e[n].track = x  BY <1>8, <5>1
        <5> QED  BY <2>2, <5>2
      <4> QED  BY <4>1, <4>2
    <3> QED  BY <3>8, <3>9, <3>10
  <2> QED  BY <1>14, <2>2, <2>3
<1> QED  BY <1>13, <1>14

\* A lazy order starts at the current track, and then has what was queued.
LEMMA LazySound ==
    ASSUME NEW q \in PlayQueue, NEW head \in Seq(Ids), NEW curated \in Seq(Ids),
           head = IF q.current = NoId THEN <<>> ELSE <<q.current>>
    PROVE  LET tail == Only(curated, Ids \ {q.current})
               r == [q EXCEPT !.lazy = TRUE, !.cursor = 1,
                              !.order = Entries(head, FALSE) \o Entries(tail, TRUE)]
           IN  /\ r \in PlayQueue
               /\ q.current # NoId => PlacesOf(r.order, q.current) = {1}
               /\ IsInjective(curated) =>
                    /\ Anchored(r)
                    /\ q.current # NoId => ToSet(curated) \ {q.current} \subseteq QueuedIds(r)
<1> DEFINE t == q.current
           tail == Only(curated, Ids \ {t})
           d == Entries(head, FALSE)
           e == Entries(tail, TRUE)
           w == d \o e
           m == Len(head)
           n == Len(tail)
           r == [q EXCEPT !.lazy = TRUE, !.cursor = 1, !.order = w]
<1>1. m = (IF t = NoId THEN 0 ELSE 1) /\ (t # NoId => head[1] = t)  OBVIOUS
<1>2. /\ tail \in Seq(Ids) /\ ToSet(tail) = ToSet(curated) \intersect (Ids \ {t})
      /\ IsInjective(curated) => IsInjective(tail)
  BY OnlySound
<1> HIDE DEF tail
<1>3. /\ d \in Seq(Entry) /\ Len(d) = m
      /\ \A k \in 1 .. m : d[k].track = head[k]
  BY EntriesElements
<1>4. /\ e \in Seq(Entry) /\ Len(e) = n
      /\ \A k \in 1 .. n : e[k].track = tail[k] /\ e[k].curated
  BY <1>2, EntriesElements
<1>5. /\ m \in Nat /\ n \in Nat /\ DOMAIN tail = 1 .. n  BY <1>2
<1> HIDE DEF d, e
<1>6. /\ w \in Seq(Entry) /\ Len(w) = Len(d) + Len(e)
      /\ \A k \in 1 .. Len(d) + Len(e) : w[k] = IF k <= Len(d) THEN d[k] ELSE e[k - Len(d)]
  <2>1. d \in Seq(Entry) /\ e \in Seq(Entry)  BY <1>3, <1>4
  <2> QED  BY <2>1, ConcatProperties
<1> HIDE DEF w, m, n
<1>7. Len(w) = m + n /\ \A k \in 1 .. m + n : w[k] = IF k <= m THEN d[k] ELSE e[k - m]
  BY <1>3, <1>4, <1>6
<1>8. DOMAIN w = 1 .. m + n  BY <1>6, <1>7
<1>9. /\ r \in PlayQueue /\ r.order = w /\ r.lazy /\ r.current = t /\ r.cursor = 1
  BY <1>6 DEF PlayQueue
<1> HIDE DEF r
<1>10. ASSUME NEW k \in DOMAIN w, k > m
       PROVE  k - m \in 1 .. n /\ w[k].track = tail[k - m] /\ w[k].curated
  <2>1. k - m \in 1 .. n /\ ~(k <= m)  BY <1>5, <1>8, <1>10
  <2>2. w[k] = e[k - m]  BY <1>7, <1>8, <2>1
  <2> QED  BY <1>4, <2>1, <2>2
<1>11. ASSUME t # NoId PROVE 1 \in DOMAIN w /\ w[1].track = t
  <2>1. m = 1  BY <1>1, <1>11
  <2>2. 1 \in 1 .. m + n /\ 1 <= m  BY <1>5, <2>1
  <2>3. w[1] = d[1] /\ d[1].track = head[1]  BY <1>3, <1>7, <2>1, <2>2
  <2> QED  BY <1>1, <1>8, <1>11, <2>2, <2>3
<1>12. ASSUME NEW k \in DOMAIN w, k > m PROVE w[k].track # t
  <2>1. tail[k - m] \in ToSet(tail)  BY <1>5, <1>10, <1>12 DEF ToSet
  <2> QED  BY <1>2, <1>10, <1>12, <2>1
<1>13. ASSUME t # NoId PROVE PlacesOf(w, t) = {1}
  <2>1. m = 1  BY <1>1, <1>13
  <2>2. \A k \in DOMAIN w : k = 1 \/ k > m  BY <1>5, <1>8, <2>1
  <2> QED  BY <1>11, <1>12, <1>13, <2>2 DEF PlacesOf
<1>14. ASSUME IsInjective(curated) PROVE Anchored(r)
  <2>1. ASSUME NEW i \in DOMAIN w, NEW j \in DOMAIN w, i < j, w[i].track = w[j].track
        PROVE  FALSE
    <3>1. j > m
      <4>1. m <= 1  BY <1>1
      <4> QED  BY <1>5, <1>8, <2>1, <4>1
    <3>2. CASE i > m
      <4>1. tail[i - m] = tail[j - m] /\ i - m \in 1 .. n /\ j - m \in 1 .. n
        BY <1>10, <2>1, <3>1, <3>2
      <4>2. i - m = j - m  BY <1>2, <1>5, <1>14, <4>1 DEF IsInjective
      <4> QED  BY <1>5, <1>8, <2>1, <4>2
    <3>3. CASE ~(i > m)
      <4>1. i = 1 /\ t # NoId  BY <1>1, <1>5, <1>8, <3>3
      <4> QED  BY <1>11, <1>12, <2>1, <3>1, <4>1
    <3> QED  BY <3>2, <3>3
  <2>2. QueuedOnce(w)  BY <2>1 DEF QueuedOnce
  <2>3. OnTrack(r)  BY <1>9, <1>11 DEF OnTrack, At
  <2> QED  BY <1>9, <2>2, <2>3 DEF Anchored, Ordered
<1>15. ASSUME IsInjective(curated), t # NoId
       PROVE  ToSet(curated) \ {t} \subseteq QueuedIds(r)
  <2>1. m = 1 /\ At(r) = 1  BY <1>1, <1>9, <1>15 DEF At
  <2>2. Queued(r) = {i \in DOMAIN w : i > 1 /\ w[i].curated}
    BY <1>9, <1>14, <1>15, <2>1, AheadMeans
  <2>3. ASSUME NEW j \in DOMAIN tail PROVE tail[j] \in QueuedIds(r)
    <3>1. j + 1 \in DOMAIN w /\ j + 1 > m /\ j + 1 > 1 /\ (j + 1) - m = j  BY <1>5, <1>8, <2>1
    <3>2. w[j + 1].track = tail[j] /\ w[j + 1].curated  BY <1>10, <3>1
    <3>3. j + 1 \in Queued(r)  BY <2>2, <3>1, <3>2
    <3> QED  BY <1>9, <3>2, <3>3 DEF QueuedIds
  <2>4. ToSet(tail) \subseteq QueuedIds(r)  BY <2>3 DEF ToSet
  <2>5. ToSet(curated) \ {t} \subseteq ToSet(tail)
    <3>1. \A i \in DOMAIN curated : curated[i] \in Ids  OBVIOUS
    <3> QED  BY <1>2, <3>1 DEF ToSet
  <2> QED  BY <2>4, <2>5
<1> QED  BY <1>9, <1>13, <1>14, <1>15 DEF r, w, d, e, tail

\* Where a new layout starts, and what an eager one has.
Laid(q) ==
    IF q.lazy THEN q.cursor = 1 /\ PlacesOf(q.order, q.current) = {1}
    ELSE \A x \in ToSet(q.pool) : \E i \in DOMAIN q.order : q.order[i].track = x

\* build_layout keeps the source, its list and the current track, and what was queued.
LEMMA LayoutsSound ==
    ASSUME NEW q \in PlayQueue, NEW curated \in Seq(Ids), NEW r \in Layouts(q, curated)
    PROVE  /\ r \in PlayQueue /\ InRange(r) /\ r.pool = q.pool /\ r.current = q.current
           /\ IsInjective(q.pool) /\ IsInjective(curated) /\ q.current \notin ToSet(curated) =>
                /\ Anchored(r)
                /\ q.current # NoId => ToSet(curated) \subseteq QueuedIds(r) /\ Laid(r)
<1>1. CASE q.mode = "smart" /\ SupportsSmartShuffle(q.source)
  <2> DEFINE head == IF q.current = NoId THEN <<>> ELSE <<q.current>>
             tail == Only(curated, Ids \ {q.current})
  <2>1. r = [q EXCEPT !.lazy = TRUE, !.cursor = 1,
                      !.order = Entries(head, FALSE) \o Entries(tail, TRUE)]
    BY <1>1 DEF Layouts
  <2>2. head \in Seq(Ids)
    <3>1. q.current \in Ids \union {NoId}  BY DEF PlayQueue
    <3> QED  BY <3>1
  <2>3. r.lazy /\ r.cursor = 1 /\ r.pool = q.pool /\ r.current = q.current  BY <2>1 DEF PlayQueue
  <2> HIDE DEF head
  <2>4. /\ r \in PlayQueue
        /\ q.current # NoId => PlacesOf(r.order, q.current) = {1}
        /\ IsInjective(curated) =>
             /\ Anchored(r)
             /\ q.current # NoId => ToSet(curated) \ {q.current} \subseteq QueuedIds(r)
    BY <2>1, <2>2, LazySound DEF head
  <2>5. InRange(r)  BY <2>3, <2>4, RangeMeans
  <2> QED  BY <2>3, <2>4, <2>5 DEF Laid
<1>2. CASE ~(q.mode = "smart" /\ SupportsSmartShuffle(q.source))
  <2>1. q.pool \in Seq(Ids)  BY DEF PlayQueue
  <2>2. PICK ids \in IF q.mode = "off" THEN {q.pool} ELSE Shuffles(q.pool, q.current) :
             r = [q EXCEPT !.lazy = FALSE, !.cursor = 1,
                           !.order = EagerOrder(ids, q.current, curated)]
    BY <1>2 DEF Layouts
  <2>3. ids \in Seq(Ids) /\ ToSet(ids) = ToSet(q.pool) /\ (IsInjective(q.pool) => IsInjective(ids))
    BY <2>1, <2>2, ShufflesSound
  <2>4. ~r.lazy /\ r.pool = q.pool /\ r.current = q.current  BY <2>2 DEF PlayQueue
  <2>5. /\ r \in PlayQueue
        /\ IsInjective(ids) /\ IsInjective(curated) /\ q.current \notin ToSet(curated) =>
             /\ Anchored(r)
             /\ q.current # NoId =>
                  /\ ToSet(curated) \subseteq QueuedIds(r)
                  /\ \A x \in ToSet(ids) : \E i \in DOMAIN r.order : r.order[i].track = x
    <3>1. ids \in Seq(Ids)  BY <2>3
    <3>2. r = LaidOut(q, ids, curated)  BY <2>2 DEF LaidOut
    <3> QED  BY <3>1, <3>2, EagerSound
  <2> QED  BY <2>3, <2>4, <2>5 DEF InRange, Laid
<1> QED  BY <1>1, <1>2

\* replace_ordered_track_ids keeps what was queued and can be played.
LEMMA ReplacedSound ==
    ASSUME NEW q \in PlayQueue, NEW ids \in Seq(Ids), NEW playable \in SUBSET Ids,
           NEW r \in Replaced(q, ids, playable)
    PROVE  /\ r \in PlayQueue /\ InRange(r) /\ r.pool = ids
           /\ r.current = IF q.current \in playable THEN q.current ELSE NoId
           /\ IsInjective(ids) /\ Anchored(q) =>
                /\ Anchored(r)
                /\ r.current # NoId => QueuedIds(q) \intersect playable \subseteq QueuedIds(r) /\ Laid(r)
<1> DEFINE c == IF q.current \in playable THEN q.current ELSE NoId
           new == [q EXCEPT !.pool = ids, !.current = c]
           curated == Only(CuratedAhead(q), playable)
<1>1. new \in PlayQueue /\ new.pool = ids /\ new.current = c  BY DEF PlayQueue
<1>2. r \in Layouts(new, curated)
  <2>1. new = [q EXCEPT !.pool = ids, !.current = IF @ \in playable THEN @ ELSE NoId]
    BY DEF PlayQueue
  <2> QED  BY <2>1 DEF Replaced
<1>3. /\ CuratedAhead(q) \in Seq(Ids) /\ ToSet(CuratedAhead(q)) = QueuedIds(q)
      /\ Anchored(q) => IsInjective(CuratedAhead(q)) /\ q.current \notin QueuedIds(q)
  BY CuratedAheadMeans
<1>4. /\ curated \in Seq(Ids) /\ ToSet(curated) = QueuedIds(q) \intersect playable
      /\ Anchored(q) => IsInjective(curated)
  BY <1>3, OnlySound
<1>5. Anchored(q) => c \notin ToSet(curated)  BY <1>3, <1>4, QueueAssumption
<1> HIDE DEF new, curated
<1>6. /\ r \in PlayQueue /\ InRange(r) /\ r.pool = new.pool /\ r.current = new.current
      /\ IsInjective(new.pool) /\ IsInjective(curated) /\ new.current \notin ToSet(curated) =>
           /\ Anchored(r)
           /\ new.current # NoId => ToSet(curated) \subseteq QueuedIds(r) /\ Laid(r)
  BY <1>1, <1>2, <1>4, LayoutsSound
<1> QED  BY <1>1, <1>4, <1>5, <1>6

LEMMA RefreshedSound ==
    ASSUME NEW q \in PlayQueue, NEW lost, NEW r \in Refreshed(q, lost), IsInjective(q.pool)
    PROVE  /\ r \in PlayQueue /\ InRange(r) /\ IsInjective(r.pool)
           /\ r.current = IF q.current \in Playable(lost) THEN q.current ELSE NoId
           /\ Anchored(q) =>
                /\ Anchored(r)
                /\ r.current # NoId =>
                     QueuedIds(q) \intersect Playable(lost) \subseteq QueuedIds(r) /\ Laid(r)
<1>1. Playable(lost) \in SUBSET Ids  BY DEF Playable
<1>2. PICK ids : /\ ids \in {Library} \union Lists \union {q.pool}
                 /\ r \in Replaced(q, Only(ids, Playable(lost)), Playable(lost))
  <2>1. q.source \in {"library", "playlist", "selection"}  BY DEF PlayQueue, Sources
  <2>2. CASE q.source = "library"  BY <2>2 DEF Refreshed
  <2>3. CASE q.source = "playlist"  BY <2>3 DEF Refreshed
  <2>4. CASE q.source = "selection"  BY <2>4 DEF Refreshed
  <2> QED  BY <2>1, <2>2, <2>3, <2>4
<1>3. ids \in Seq(Ids) /\ IsInjective(ids)  BY <1>2, QueueAssumption DEF PlayQueue
<1>4. Only(ids, Playable(lost)) \in Seq(Ids) /\ IsInjective(Only(ids, Playable(lost)))
  BY <1>3, OnlySound
<1> QED  BY <1>1, <1>2, <1>4, ReplacedSound

\* move_to_track: the queue is on the track, if it has it.
LEMMA MovedSound ==
    ASSUME NEW q \in PlayQueue, InRange(q), NEW t \in Ids
    PROVE  LET m == MovedTo(q, t)
           IN  /\ m \in PlayQueue /\ InRange(m) /\ m.pool = q.pool /\ m.current \in {q.current, t}
               /\ (\E i \in DOMAIN q.order : q.order[i].track = t) => m.current = t
               /\ Anchored(q) =>
                    /\ \/ q.lazy \/ t \notin ToSet(q.pool)
                       \/ \E i \in DOMAIN q.order : q.order[i].track = t
                       => Anchored(m)
                    /\ m.current = q.current =>
                         m.order = q.order /\ (Laid(q) => QueuedIds(m) = QueuedIds(q))
<1> DEFINE s == q.order
           Near == {i \in {q.cursor + 1, q.cursor - 1} : i \in DOMAIN s /\ s[i].track = t}
           all == PlacesOf(s, t)
           H == {i \in DOMAIN s : i <= q.cursor}
           head == Those(s, H)
           new == [track |-> t, curated |-> FALSE]
           m == MovedTo(q, t)
           Went(c) == [q EXCEPT !.current = t, !.cursor = c]
           Grown == [q EXCEPT !.current = t, !.cursor = Len(head) + 1, !.order = Append(head, new)]
<1>1. s \in Seq(Entry) /\ Len(s) \in Nat /\ q.cursor \in Nat /\ q.lazy \in BOOLEAN
      /\ q.pool \in Seq(Ids) /\ q.current \in Ids \union {NoId}
  BY DEF PlayQueue
<1>2. DOMAIN s = 1 .. Len(s) /\ t # NoId  BY <1>1, QueueAssumption
<1>3. m = IF ~Contains(q.pool, t) /\ all = {} THEN q
          ELSE IF ~q.lazy THEN [q EXCEPT !.current = t]
          ELSE IF Near # {} THEN Went(Max(Near))
          ELSE IF all # {} THEN Went(Max(all))
          ELSE Grown
  BY DEF MovedTo
<1>4. Contains(q.pool, t) <=> t \in ToSet(q.pool)
  <2>1. DOMAIN q.pool = 1 .. Len(q.pool)  BY <1>1
  <2> QED  BY <2>1 DEF Contains, ToSet
<1>5. all = {} <=> ~\E i \in DOMAIN s : s[i].track = t  BY DEF PlacesOf
<1> DEFINE Goal ==
             /\ m \in PlayQueue /\ InRange(m) /\ m.pool = q.pool /\ m.current \in {q.current, t}
             /\ all # {} => m.current = t
             /\ Anchored(q) =>
                  /\ q.lazy \/ t \notin ToSet(q.pool) \/ all # {} => Anchored(m)
                  /\ m.current = q.current =>
                       m.order = q.order /\ (Laid(q) => QueuedIds(m) = QueuedIds(q))
<1> HIDE DEF m
<1>6. ASSUME m = q, all = {} PROVE Goal
  <2>1. Anchored(q) => Anchored(m)  BY <1>6
  <2> QED  BY <1>6, <2>1 DEF Goal
<1>7. ASSUME ~q.lazy, m = [q EXCEPT !.current = t], t \in ToSet(q.pool) \/ all # {} PROVE Goal
  <2>1. m \in PlayQueue /\ m.current = t /\ ~m.lazy /\ m.pool = q.pool /\ m.order = s
    <3>1. m.current = t /\ m.lazy = q.lazy /\ m.pool = q.pool /\ m.order = s
      BY <1>7 DEF PlayQueue
    <3>2. m \in PlayQueue  BY <1>7 DEF PlayQueue
    <3> QED  BY <1>7, <3>1, <3>2
  <2>2. InRange(m)  BY <2>1 DEF InRange
  <2>3. ASSUME Anchored(q), t \notin ToSet(q.pool) \/ all # {} PROVE Anchored(m)
    <3>1. PICK i \in DOMAIN s : s[i].track = t  BY <1>5, <1>7, <2>3
    <3>2. OnTrack(m)  BY <2>1, <3>1, EagerAt
    <3> QED  BY <1>7, <2>1, <2>3, <3>2 DEF Anchored, Ordered
  <2>4. m.current = q.current => QueuedIds(m) = QueuedIds(q)
    BY <1>7, <2>1 DEF QueuedIds, Queued, Ahead, At
  <2> HIDE DEF all
  <2> QED  BY <1>7, <2>1, <2>2, <2>3, <2>4 DEF Goal
<1>8. ASSUME q.lazy, NEW c \in DOMAIN s, s[c].track = t, m = Went(c)
      PROVE  Goal
  <2>1. c \in Nat /\ c >= 1 /\ c <= Len(s)  BY <1>1
  <2>2. /\ m \in PlayQueue /\ m.current = t /\ m.lazy /\ m.pool = q.pool /\ m.order = s
        /\ m.cursor = c
    BY <1>8, <2>1 DEF PlayQueue
  <2>3. InRange(m)  BY <2>1, <2>2, RangeMeans
  <2>4. Anchored(q) => Anchored(m)
    BY <1>8, <2>2 DEF Anchored, Ordered, OnTrack, At
  <2>5. ASSUME Laid(q), m.current = q.current PROVE QueuedIds(m) = QueuedIds(q)
    <3>1. q.cursor = 1 /\ c = 1  BY <1>8, <2>2, <2>5 DEF Laid, PlacesOf
    <3> QED  BY <1>8, <2>2, <2>5, <3>1 DEF QueuedIds, Queued, Ahead, At
  <2> QED  BY <2>2, <2>3, <2>4, <2>5 DEF Goal
<1>9. ASSUME q.lazy, all = {}, m = Grown PROVE Goal
  <2>1. H \in SUBSET DOMAIN s  OBVIOUS
  <2> HIDE DEF H
  <2>2. head \in Seq(Entry) /\ Thinned(head, s)  BY <1>1, <2>1, Subsequence, SelectionThinned
  <2>3. new \in Entry /\ ~new.curated /\ new.track = t  BY DEF Entry
  <2> HIDE DEF head, new
  <2> DEFINE w == Append(head, new)
             n == Len(head)
  <2>4. /\ w \in Seq(Entry) /\ Len(w) = n + 1 /\ \A i \in 1 .. n : w[i] = head[i]
        /\ w[n + 1] = new
    BY <2>2, <2>3, AppendProperties
  <2>5. n \in Nat /\ DOMAIN head = 1 .. n  BY <2>2
  <2> HIDE DEF w, n
  <2>6. DOMAIN w = 1 .. n + 1  BY <2>4
  <2>7. Grown = [q EXCEPT !.current = t, !.cursor = n + 1, !.order = w]  BY DEF n, w
  <2>8. /\ m \in PlayQueue /\ m.current = t /\ m.lazy /\ m.pool = q.pool /\ m.order = w
        /\ m.cursor = n + 1
    <3>1. m = [q EXCEPT !.current = t, !.cursor = n + 1, !.order = w]  BY <1>9, <2>7
    <3>2. n + 1 \in Nat /\ w \in Seq(Entry)  BY <2>4, <2>5
    <3>3. /\ m.current = t /\ m.lazy = q.lazy /\ m.pool = q.pool /\ m.order = w
          /\ m.cursor = n + 1
      BY <3>1 DEF PlayQueue
    <3>4. m \in PlayQueue  BY <3>1, <3>2 DEF PlayQueue
    <3> QED  BY <1>9, <3>3, <3>4
  <2>9. InRange(m)
    <3>1. n + 1 >= 1 /\ n + 1 <= Len(w)  BY <2>4, <2>5
    <3> QED  BY <2>8, <3>1, RangeMeans
  <2>10. ASSUME Anchored(q) PROVE Anchored(m) /\ q.current # t
    <3>1. QueuedOnce(head)  BY <1>9, <2>2, <2>10, ThinnedKeeps DEF Anchored, Ordered
    <3>2. QueuedOnce(w)
      <4> SUFFICES ASSUME NEW i \in DOMAIN w, NEW j \in DOMAIN w, i < j, w[i].track = w[j].track
                   PROVE  ~w[j].curated
        BY DEF QueuedOnce
      <4>1. CASE j = n + 1  BY <2>3, <2>4, <4>1
      <4>2. CASE j # n + 1
        <5>1. i \in 1 .. n /\ j \in 1 .. n  BY <2>5, <2>6, <4>2
        <5>2. w[i] = head[i] /\ w[j] = head[j]  BY <2>4, <5>1
        <5> QED  BY <2>5, <3>1, <5>1, <5>2 DEF QueuedOnce
      <4> QED  BY <4>1, <4>2
    <3>3. OnTrack(m)
      <4>1. At(m) = n + 1 /\ n + 1 \in DOMAIN w  BY <2>5, <2>6, <2>8 DEF At
      <4> QED  BY <2>3, <2>4, <2>8, <4>1 DEF OnTrack
    <3>4. q.current # t
      <4>1. q.current # NoId => \E i \in DOMAIN s : s[i].track = q.current
        BY <2>10 DEF Anchored, OnTrack
      <4> QED  BY <1>2, <1>5, <1>9, <4>1
    <3> QED  BY <2>8, <3>2, <3>3, <3>4 DEF Anchored, Ordered
  <2> QED  BY <2>8, <2>9, <2>10 DEF Goal
<1>10. ASSUME q.lazy, Near # {}, m = Went(Max(Near)) PROVE Goal
  <2>1. Near \in SUBSET DOMAIN s /\ \A i \in Near : s[i].track = t  OBVIOUS
  <2> HIDE DEF Near
  <2>2. IsFiniteSet(Near) /\ Near \in SUBSET Nat  BY <1>1, <2>1, Subsequence
  <2>3. Max(Near) \in Near  BY <1>10, <2>2, FiniteMax
  <2> HIDE DEF Went
  <2> QED  BY <1>8, <1>10, <2>1, <2>3
<1>11. ASSUME q.lazy, all # {}, m = Went(Max(all)) PROVE Goal
  <2>1. all \in SUBSET DOMAIN s /\ \A i \in all : s[i].track = t  BY DEF PlacesOf
  <2> HIDE DEF all
  <2>2. IsFiniteSet(all) /\ all \in SUBSET Nat  BY <1>1, <2>1, Subsequence
  <2>3. Max(all) \in all  BY <1>11, <2>2, FiniteMax
  <2> HIDE DEF Went
  <2> QED  BY <1>8, <1>11, <2>1, <2>3
<1>12. Goal
  <2> HIDE DEF Goal, Went, Grown, all, Near
  <2>1. CASE ~Contains(q.pool, t) /\ all = {}  BY <1>3, <1>6, <2>1
  <2>2. CASE ~(~Contains(q.pool, t) /\ all = {}) /\ ~q.lazy  BY <1>3, <1>4, <1>7, <2>2
  <2>3. CASE ~(~Contains(q.pool, t) /\ all = {}) /\ q.lazy /\ Near # {}  BY <1>3, <1>10, <2>3
  <2>4. CASE ~(~Contains(q.pool, t) /\ all = {}) /\ q.lazy /\ Near = {} /\ all # {}
    BY <1>3, <1>11, <2>4
  <2>5. CASE ~(~Contains(q.pool, t) /\ all = {}) /\ q.lazy /\ Near = {} /\ all = {}
    BY <1>3, <1>9, <2>5
  <2> QED  BY <2>1, <2>2, <2>3, <2>4, <2>5
<1> QED  BY <1>5, <1>12 DEF Goal, m

-----------------------------------------------------------------------------
(* The runtime's steps.                                                    *)

Sound(q, twice) ==
    q \in PlayQueue /\ IsInjective(q.pool) /\ InRange(q) /\ (twice \/ Anchored(q))

\* The current track has a row and its file was there when last looked for.
CurrentPlayable == queue.current \notin missing \union removed

QueueInductive == QueueTypeOK /\ Sound(queue, doubled) /\ CurrentPlayable

\* What was queued and is not lost stays queued.
StaysQueued(q, r, lost) == QueuedIds(q) \ lost \subseteq QueuedIds(r)

\* play_track, of a track of the order or with a queue built for it.
LEMMA PlaySound ==
    ASSUME QueueInductive, NEW q, Sound(q, doubled), q.current = queue.current,
           NEW t \in Ids, NEW built, Play(q, t, built),
           \A b \in built : Sound(b, FALSE) /\ b.current \in {t, NoId},
           built = {} => q.current # NoId /\ \E i \in DOMAIN q.order : q.order[i].track = t
    PROVE  /\ QueueInductive'
           /\ built = {} /\ ~doubled =>
                \/ queue'.current # queue.current
                \/ StaysQueued(q, queue', missing' \union removed')
                \/ t = q.current /\ queue'.order = q.order
<1> DEFINE lost == missing' \union removed'
<1>1. /\ missing \subseteq Ids /\ gone \subseteq Ids /\ removed \subseteq Ids
      /\ playing \in Ids \union {NoId} /\ doubled \in BOOLEAN
      /\ q.current \notin missing \union removed /\ NoId \notin Ids
      /\ gone' = gone /\ removed' = removed
  BY QueueAssumption DEF QueueInductive, QueueTypeOK, CurrentPlayable, Play
<1>2. /\ q \in PlayQueue /\ IsInjective(q.pool) /\ InRange(q) /\ (doubled \/ Anchored(q))
      /\ q.current \in Ids \union {NoId}
  BY DEF Sound, PlayQueue
<1>3. ASSUME Sound(queue', doubled'), queue'.current \notin lost, missing' \subseteq Ids,
             playing' \in {playing, t}, doubled' \in {doubled, FALSE}
      PROVE  QueueInductive'
  <2>1. QueueTypeOK'  BY <1>1, <1>3 DEF QueueTypeOK, Sound
  <2> QED  BY <1>3, <2>1 DEF QueueInductive, CurrentPlayable
<1>4. ASSUME missing' \subseteq Ids, NEW r, r \in Refreshed(q, missing')
      PROVE  /\ Sound(r, doubled) /\ r.current \notin lost
             /\ r.current = IF q.current \in Playable(missing') THEN q.current ELSE NoId
             /\ q.current \in Ids \ lost => r.current = q.current
             /\ ~doubled /\ r.current # NoId => StaysQueued(q, r, lost) /\ Laid(r)
  <2>1. /\ r \in PlayQueue /\ InRange(r) /\ IsInjective(r.pool)
        /\ r.current = IF q.current \in Playable(missing') THEN q.current ELSE NoId
        /\ Anchored(q) =>
             /\ Anchored(r)
             /\ r.current # NoId =>
                  QueuedIds(q) \intersect Playable(missing') \subseteq QueuedIds(r) /\ Laid(r)
    BY <1>2, <1>4, RefreshedSound
  <2>2. Playable(missing') = Ids \ lost  BY <1>1 DEF Playable
  <2>3. QueuedIds(q) \subseteq Ids  BY <1>2, QueuedTyped
  <2>4. r.current \notin lost  BY <1>1, <1>4, <2>1, <2>2
  <2>5. ~doubled /\ r.current # NoId => StaysQueued(q, r, lost) /\ Laid(r)
    BY <1>2, <2>1, <2>2, <2>3 DEF StaysQueued
  <2> QED  BY <1>2, <2>1, <2>2, <2>4, <2>5 DEF Sound
<1>5. CASE queue' = q /\ UNCHANGED <<missing, playing, doubled>>
  <2>1. StaysQueued(q, queue', missing' \union removed')  BY <1>5 DEF StaysQueued
  <2> QED  BY <1>1, <1>3, <1>5, <2>1
<1>6. CASE /\ t \in gone \ removed
           /\ missing' = missing \union {t} /\ UNCHANGED <<playing, doubled>>
           /\ queue' \in IF t \in missing THEN {q} ELSE Refreshed(q, missing')
  <2>1. missing' \subseteq Ids  BY <1>1, <1>6
  <2>2. CASE t \in missing
    <3>1. queue' = q /\ missing' = missing  BY <1>6, <2>2
    <3>2. StaysQueued(q, queue', missing' \union removed')  BY <3>1 DEF StaysQueued
    <3> QED  BY <1>1, <1>3, <1>6, <3>1, <3>2
  <2>3. CASE t \notin missing
    <3>1. queue' \in Refreshed(q, missing')  BY <1>6, <2>3
    <3>2. /\ Sound(queue', doubled) /\ queue'.current \notin lost
          /\ ~doubled /\ queue'.current # NoId => StaysQueued(q, queue', lost)
      BY <1>4, <2>1, <3>1
    <3>3. QueueInductive'  BY <1>3, <1>6, <2>1, <3>2
    <3> QED  BY <1>6, <3>2, <3>3
  <2> QED  BY <2>2, <2>3
<1>7. CASE /\ t \notin gone \union removed
           /\ missing' = missing \ {t}
           /\ \E r \in IF t \in missing THEN Refreshed(q, missing') ELSE {q} :
                 \/ queue' = r /\ UNCHANGED <<playing, doubled>>
                 \/ /\ queue' \in IF built = {} THEN {MovedTo(r, t)} ELSE built
                    /\ playing' = t /\ doubled' = (built = {} /\ doubled)
  <2>1. missing' \subseteq Ids /\ t \notin lost /\ q.current \notin lost  BY <1>1, <1>7
  <2>2. PICK r \in IF t \in missing THEN Refreshed(q, missing') ELSE {q} :
                 \/ queue' = r /\ UNCHANGED <<playing, doubled>>
                 \/ /\ queue' \in IF built = {} THEN {MovedTo(r, t)} ELSE built
                    /\ playing' = t /\ doubled' = (built = {} /\ doubled)
    BY <1>7
  <2>3. /\ Sound(r, doubled) /\ r.current \notin lost /\ r.current = q.current
        /\ ~doubled /\ r.current # NoId => StaysQueued(q, r, lost) /\ (r = q \/ Laid(r))
    <3>1. CASE t \in missing  BY <1>2, <1>4, <2>1, <2>2, <3>1
    <3>2. CASE t \notin missing  BY <2>1, <2>2, <3>2 DEF StaysQueued
    <3> QED  BY <3>1, <3>2
  <2>4. CASE queue' = r /\ UNCHANGED <<playing, doubled>>
    <3>1. QueueInductive'  BY <1>3, <2>1, <2>3, <2>4
    <3> QED  BY <2>3, <2>4, <3>1
  <2>5. CASE built # {} /\ queue' \in built /\ playing' = t /\ doubled' = FALSE
    <3>1. ~doubled' /\ Sound(queue', FALSE) /\ queue'.current \in {t, NoId}  BY <2>5
    <3>2. Sound(queue', doubled')  BY <2>5, <3>1 DEF Sound
    <3> QED  BY <1>1, <1>3, <2>1, <2>5, <3>1, <3>2
  <2>6. CASE built = {} /\ queue' = MovedTo(r, t) /\ playing' = t /\ doubled' = doubled
    <3> DEFINE m == MovedTo(r, t)
               In(s) == \E i \in DOMAIN s : s[i].track = t
    <3>1. /\ m \in PlayQueue /\ InRange(m) /\ m.pool = r.pool /\ m.current \in {r.current, t}
          /\ In(r.order) => m.current = t
          /\ Anchored(r) =>
               /\ r.lazy \/ t \notin ToSet(r.pool) \/ In(r.order) => Anchored(m)
               /\ m.current = r.current =>
                    m.order = r.order /\ (Laid(r) => QueuedIds(m) = QueuedIds(r))
      BY <2>3, MovedSound DEF Sound
    <3> HIDE DEF m
    <3>2. doubled \/ r.lazy \/ t \notin ToSet(r.pool) \/ In(r.order)
      BY <2>3, <2>6 DEF Laid
    <3>3. Sound(m, doubled)  BY <2>3, <3>1, <3>2 DEF Sound
    <3>4. m.current \notin lost  BY <2>1, <2>3, <3>1
    <3>5. queue' = m  BY <2>6 DEF m
    <3>6. QueueInductive'  BY <1>3, <2>1, <2>6, <3>3, <3>4, <3>5
    <3>7. ASSUME ~doubled, m.current = q.current, r # q PROVE StaysQueued(q, m, lost)
      BY <2>3, <2>6, <3>1, <3>7 DEF StaysQueued, Sound
    <3>8. ASSUME ~doubled, m.current = q.current, r = q PROVE t = q.current /\ m.order = q.order
      BY <2>3, <2>6, <3>1, <3>8 DEF Sound
    <3> QED  BY <3>5, <3>6, <3>7, <3>8
  <2>7. (built = {} /\ doubled) = IF built = {} THEN doubled ELSE FALSE  BY <1>1
  <2> QED  BY <2>2, <2>4, <2>5, <2>6, <2>7
<1> QED  BY <1>5, <1>6, <1>7 DEF Play

\* The queue a play is given.
LEMMA PlayTrackSound ==
    ASSUME QueueInductive, NEW t, NEW source \in Sources, NEW ids \in ListsOf(source),
           t \in ToSet(ids), PlayTrack(t, source, ids)
    PROVE  QueueInductive'
<1> DEFINE pool == Only(ids, Playable(missing))
           c == IF Contains(pool, t) THEN t ELSE NoId
           base == [queue EXCEPT !.source = source, !.pool = pool, !.current = c]
<1>1. queue \in PlayQueue  BY DEF QueueInductive, Sound
<1>2. ids \in Seq(Ids) /\ IsInjective(ids)  BY QueueAssumption DEF ListsOf
<1>3. t \in Ids
  <2>1. \A i \in DOMAIN ids : ids[i] \in Ids  BY <1>2
  <2> QED  BY <2>1 DEF ToSet
<1>4. pool \in Seq(Ids) /\ IsInjective(pool)  BY <1>2, OnlySound
<1>5. PICK new \in Layouts(base, <<>>) : Play(queue, t, {new})
  <2>1. base = [queue EXCEPT !.source = source, !.pool = pool,
                             !.current = IF Contains(pool, t) THEN t ELSE NoId]
    OBVIOUS
  <2> HIDE DEF base
  <2> QED  BY <2>1 DEF PlayTrack
<1> HIDE DEF pool
<1>6. base \in PlayQueue /\ base.pool = pool /\ base.current = c /\ c \in {t, NoId}
  BY <1>1, <1>3, <1>4 DEF PlayQueue
<1>7. <<>> \in Seq(Ids) /\ IsInjective(<<>>) /\ ToSet(<<>>) = {}
  BY DEF IsInjective, ToSet
<1> HIDE DEF base, c
<1>8. Sound(new, FALSE) /\ new.current \in {t, NoId}
  <2> DEFINE none == <<>>
  <2>1. none \in Seq(Ids) /\ IsInjective(none) /\ ToSet(none) = {}  BY <1>7
  <2>2. new \in Layouts(base, none)  OBVIOUS
  <2> HIDE DEF none
  <2>3. /\ new \in PlayQueue /\ InRange(new) /\ new.pool = base.pool /\ new.current = base.current
        /\ IsInjective(base.pool) /\ IsInjective(none) /\ base.current \notin ToSet(none) =>
             Anchored(new)
    BY <1>6, <2>1, <2>2, LayoutsSound
  <2> QED  BY <1>4, <1>6, <2>1, <2>3 DEF Sound
<1>9. Sound(queue, doubled)  BY DEF QueueInductive
<1> HIDE DEF QueueInductive
<1> QED  BY <1>3, <1>5, <1>8, <1>9, PlaySound

\* play_queue_track and a move to a neighbour.
LEMMA PlayAndMoveSound ==
    ASSUME QueueInductive, NEW t \in Ids, queue.current # NoId, PlayAndMove(queue, t),
           \E i \in DOMAIN queue.order : queue.order[i].track = t
    PROVE  /\ QueueInductive'
           /\ ~doubled =>
                \/ queue'.current # queue.current \/ queue'.order = queue.order
                \/ StaysQueued(queue, queue', missing' \union removed')
<1>1. Sound(queue, doubled)  BY DEF QueueInductive
<1>2. Play(queue, t, {})  BY DEF PlayAndMove
<1> DEFINE built == {}
<1>3. Play(queue, t, built) /\ \A b \in built : Sound(b, FALSE) /\ b.current \in {t, NoId}
  BY <1>2
<1>4. built = {}  OBVIOUS
<1> HIDE DEF built
<1> QED  BY <1>1, <1>3, <1>4, PlaySound

LEMMA AdjacentIn ==
    ASSUME NEW q \in PlayQueue, NEW forward \in BOOLEAN, Adjacent(q, forward) # NoId
    PROVE  /\ q.current # NoId /\ Adjacent(q, forward) \in Ids
           /\ \E i \in DOMAIN q.order : q.order[i].track = Adjacent(q, forward)
<1> DEFINE s == q.order
           i == IF forward THEN At(q) + 1 ELSE At(q) - 1
<1>1. s \in Seq(Entry) /\ Len(s) \in Nat  BY DEF PlayQueue
<1>2. DOMAIN s = 1 .. Len(s) /\ \A k \in DOMAIN s : s[k].track \in Ids
  <2>1. \A k \in DOMAIN s : s[k] \in Entry  BY <1>1
  <2> QED  BY <1>1, <2>1 DEF Entry
<1>3. q.current # NoId /\ (i \in DOMAIN s \/ s # <<>>)  BY DEF Adjacent
<1>4. CASE i \in DOMAIN s  BY <1>2, <1>3, <1>4 DEF Adjacent
<1>5. CASE i \notin DOMAIN s
  <2>1. s # <<>> /\ Adjacent(q, forward) = s[IF forward THEN 1 ELSE Len(s)].track
    BY <1>5 DEF Adjacent
  <2>2. Len(s) >= 1  BY <1>1, <2>1
  <2>3. 1 \in DOMAIN s /\ Len(s) \in DOMAIN s  BY <1>1, <1>2, <2>2
  <2> QED  BY <1>2, <1>3, <2>1, <2>3
<1> QED  BY <1>4, <1>5

\* A picked track goes to the end of the lazy order.
Appended(q, t) == [q EXCEPT !.order = Append(@, [track |-> t, curated |-> FALSE])]

LEMMA AppendedSound ==
    ASSUME NEW q \in PlayQueue, q.lazy, InRange(q), NEW t \in Ids, NEW r,
           r = Appended(q, t)
    PROVE  /\ r \in PlayQueue /\ InRange(r) /\ r.pool = q.pool /\ r.current = q.current
           /\ \E i \in DOMAIN r.order : r.order[i].track = t
           /\ Anchored(q) => Anchored(r) /\ QueuedIds(q) \subseteq QueuedIds(r)
<1> DEFINE s == q.order
           new == [track |-> t, curated |-> FALSE]
           w == Append(s, new)
           n == Len(s)
<1>1. s \in Seq(Entry) /\ n \in Nat /\ q.cursor \in Nat /\ DOMAIN s = 1 .. n  BY DEF PlayQueue
<1>2. new \in Entry /\ ~new.curated /\ new.track = t  BY DEF Entry
<1> HIDE DEF new
<1>3. /\ w \in Seq(Entry) /\ Len(w) = n + 1 /\ \A i \in 1 .. n : w[i] = s[i]
      /\ w[n + 1] = new
  BY <1>1, <1>2, AppendProperties
<1> HIDE DEF w
<1>4. r = [q EXCEPT !.order = w]  BY DEF w, new, Appended
<1>5. /\ r.current = q.current /\ r.lazy = q.lazy /\ r.pool = q.pool /\ r.order = w
      /\ r.cursor = q.cursor
  BY <1>4 DEF PlayQueue
<1>6. r \in PlayQueue  BY <1>3, <1>4 DEF PlayQueue
<1> HIDE DEF n
<1>7. DOMAIN w = 1 .. n + 1  BY <1>3
<1>8. n + 1 \in DOMAIN w /\ w[n + 1].track = t  BY <1>1, <1>2, <1>3, <1>7
<1>9. \A i \in DOMAIN s : i \in DOMAIN w /\ w[i] = s[i]  BY <1>1, <1>3, <1>7
<1>10. InRange(r)
  <2>1. q.cursor >= 1 /\ (q.cursor <= n \/ q.cursor = 1)  BY RangeMeans DEF n
  <2>2. q.cursor <= n + 1  BY <1>1, <2>1
  <2> QED  BY <1>3, <1>5, <1>6, <2>1, <2>2, RangeMeans
<1>11. ASSUME Anchored(q) PROVE Anchored(r)
  <2>1. QueuedOnce(w)
    <3> SUFFICES ASSUME NEW i \in DOMAIN w, NEW j \in DOMAIN w, i < j, w[i].track = w[j].track
                 PROVE  ~w[j].curated
      BY DEF QueuedOnce
    <3>1. CASE j = n + 1  BY <1>2, <1>3, <3>1
    <3>2. CASE j # n + 1
      <4>1. n \in Nat /\ i \in 1 .. n + 1 /\ j \in 1 .. n + 1  BY <1>1, <1>7
      <4>2. i \in 1 .. n /\ j \in 1 .. n  BY <3>2, <4>1
      <4>3. i \in DOMAIN s /\ j \in DOMAIN s  BY <1>1, <4>2
      <4>4. QueuedOnce(s)  BY <1>11 DEF Anchored, Ordered
      <4> QED  BY <1>9, <4>3, <4>4 DEF QueuedOnce
    <3> QED  BY <3>1, <3>2
  <2>2. OnTrack(r)  BY <1>5, <1>9, <1>11 DEF Anchored, OnTrack, At
  <2> QED  BY <1>5, <2>1, <2>2 DEF Anchored, Ordered
<1>12. ASSUME Anchored(q) PROVE QueuedIds(q) \subseteq QueuedIds(r)
  <2>1. CASE q.current = NoId  BY <2>1 DEF QueuedIds, Queued, Ahead
  <2>2. CASE q.current # NoId
    <3>1. Queued(q) = {i \in DOMAIN s : i > At(q) /\ s[i].curated}  BY <1>12, <2>2, AheadMeans
    <3>2. Queued(r) = {i \in DOMAIN w : i > At(r) /\ w[i].curated}
      BY <1>5, <1>6, <1>11, <1>12, <2>2, AheadMeans
    <3>3. At(r) = At(q)  BY <1>5 DEF At
    <3>4. \A i \in Queued(q) : i \in Queued(r) /\ w[i] = s[i]  BY <1>9, <3>1, <3>2, <3>3
    <3> QED  BY <1>5, <3>4 DEF QueuedIds
  <2> QED  BY <2>1, <2>2
<1> QED  BY <1>5, <1>6, <1>8, <1>10, <1>11, <1>12

\* A smart shuffle's pick.
LEMMA PickAndPlaySound ==
    ASSUME QueueInductive, NEW t \in Ids, PickAndPlay(t)
    PROVE  /\ QueueInductive'
           /\ ~doubled =>
                \/ queue'.current # queue.current
                \/ StaysQueued(queue, queue', missing' \union removed')
<1> DEFINE r == Appended(queue, t)
           built == {}
<1>1. Sound(queue, doubled)  BY DEF QueueInductive
<1>2. queue.lazy /\ t # queue.current /\ queue.current # NoId /\ Play(r, t, built)
  BY DEF PickAndPlay, NeedsLazyPick, PlayAndMove, Appended
<1>3. r = Appended(queue, t)  OBVIOUS
<1> HIDE DEF r
<1>4. /\ r \in PlayQueue /\ InRange(r) /\ r.pool = queue.pool /\ r.current = queue.current
      /\ \E i \in DOMAIN r.order : r.order[i].track = t
      /\ Anchored(queue) => Anchored(r) /\ QueuedIds(queue) \subseteq QueuedIds(r)
  BY <1>1, <1>2, <1>3, AppendedSound DEF Sound
<1>5. Sound(r, doubled)  BY <1>1, <1>4 DEF Sound
<1>6. built = {} /\ \A b \in built : Sound(b, FALSE) /\ b.current \in {t, NoId}  OBVIOUS
<1> HIDE DEF built
<1>7. /\ QueueInductive'
      /\ ~doubled => \/ queue'.current # queue.current
                     \/ StaysQueued(r, queue', missing' \union removed')
  BY <1>2, <1>4, <1>5, <1>6, PlaySound
<1>8. ~doubled /\ StaysQueued(r, queue', missing' \union removed')
         => StaysQueued(queue, queue', missing' \union removed')
  BY <1>1, <1>4 DEF StaysQueued, Sound
<1> QED  BY <1>7, <1>8

\* The neighbours of the current track, or silence.
LEMMA PlayAdjacentSound ==
    ASSUME QueueInductive, NEW forward \in BOOLEAN, PlayAdjacent(forward)
    PROVE  /\ QueueInductive'
           /\ ~doubled =>
                \/ queue'.current # queue.current \/ queue'.order = queue.order
                \/ StaysQueued(queue, queue', missing' \union removed')
<1> DEFINE t == Adjacent(queue, forward)
<1>1. queue \in PlayQueue  BY DEF QueueInductive, Sound
<1>2. CASE t # NoId
  <2>1. /\ queue.current # NoId /\ t \in Ids
        /\ \E i \in DOMAIN queue.order : queue.order[i].track = t
    BY <1>1, <1>2, AdjacentIn
  <2>2. PlayAndMove(queue, t)  BY <1>2 DEF PlayAdjacent
  <2> HIDE DEF t
  <2> QED  BY <2>1, <2>2, PlayAndMoveSound
<1>3. CASE t = NoId
  <2>1. playing' = NoId /\ UNCHANGED <<queue, missing, gone, removed, doubled>>
    BY <1>3 DEF PlayAdjacent
  <2>2. QueueInductive'
    BY <2>1 DEF QueueInductive, QueueTypeOK, CurrentPlayable
  <2> QED  BY <2>1, <2>2
<1> QED  BY <1>2, <1>3

\* An edit of the queue keeps the invariant when it keeps the queue sound.
LEMMA EditSound ==
    ASSUME QueueInductive, Sound(queue', doubled), queue'.current = queue.current,
           UNCHANGED <<missing, gone, removed, playing, doubled>>
    PROVE  QueueInductive'
<1>1. QueueTypeOK'  BY DEF QueueInductive, QueueTypeOK, Sound
<1>2. CurrentPlayable'  BY DEF QueueInductive, CurrentPlayable
<1> QED  BY <1>1, <1>2 DEF QueueInductive

LEMMA RequestsSound ==
    ASSUME NEW ids \in Requests
    PROVE  ids \in Seq(Ids) /\ IsInjective(ids)
<1>1. PICK S \in SUBSET Ids : ids \in SetToSeqs(S)  BY DEF Requests
<1> DEFINE n == Cardinality(S)
<1>2. IsFiniteSet(S)
  <2>1. Library \in Seq(Ids)  BY QueueAssumption
  <2>2. DOMAIN Library = 1 .. Len(Library) /\ Len(Library) \in Nat  BY <2>1
  <2>3. IsFiniteSet(1 .. Len(Library))  BY <2>2, FS_Interval
  <2>4. IsFiniteSet(DOMAIN Library)  BY <2>2, <2>3
  <2>5. Library \in Surjection(DOMAIN Library, Ids)  BY <2>1 DEF Surjection, ToSet, Ids
  <2>6. IsFiniteSet(Ids)  BY <2>4, <2>5, FS_Surjection
  <2> QED  BY <2>6, FS_Subset
<1>3. n \in Nat  BY <1>2, FS_CardinalityType
<1>4. ids \in [1 .. n -> S] /\ \A i, j \in 1 .. n : i # j => ids[i] # ids[j]
  BY <1>1 DEF SetToSeqs
<1> HIDE DEF n
<1>5. ids \in [1 .. n -> Ids]  BY <1>4
<1> QED  BY <1>3, <1>4, <1>5 DEF IsInjective

\* What a listener queues, out of the order first and then into it.
LEMMA EnqueueSound ==
    ASSUME QueueInductive, NEW ids \in Requests, NEW some, some = Candidates(ids),
           NEW q, q = WithoutAndReanchored(queue, ToSet(some)), queue.current # NoId
    PROVE  /\ Sound(q, doubled) /\ q.current = queue.current /\ some \in Seq(Ids)
           /\ ~doubled => StaysQueued(queue, q, ToSet(some)) /\ At(q) \in 1 .. Len(q.order)
           /\ \A k \in 1 .. Len(q.order) + 1 :
                 At(q) < k \/ doubled =>
                   /\ Sound(Inserted(q, k, some), doubled)
                   /\ Inserted(q, k, some).current = queue.current
                   /\ ~doubled => StaysQueued(queue, Inserted(q, k, some), {})
<1> DEFINE S == ToSet(some)
<1>1. /\ queue \in PlayQueue /\ IsInjective(queue.pool) /\ InRange(queue)
      /\ doubled \/ Anchored(queue)
  BY DEF QueueInductive, Sound
<1>2. /\ some \in Seq(Ids) /\ IsInjective(some) /\ queue.current \notin S
      /\ DOMAIN some = 1 .. Len(some)
  BY RequestsSound, OnlySound DEF Candidates
<1>3. /\ q \in PlayQueue /\ q.lazy = queue.lazy /\ q.current = queue.current /\ q.pool = queue.pool
      /\ \A i \in DOMAIN q.order : q.order[i].track \notin S
      /\ InRange(q)
      /\ Anchored(queue) /\ queue.current \notin S =>
           Anchored(q) /\ QueuedIds(queue) \ S \subseteq QueuedIds(q)
  BY <1>1, WithoutSound
<1>4. Sound(q, doubled) /\ (~doubled => StaysQueued(queue, q, S) /\ Anchored(q))
  BY <1>1, <1>2, <1>3 DEF Sound, StaysQueued
<1>5. q.order \in Seq(Entry) /\ DOMAIN q.order = 1 .. Len(q.order)  BY <1>3 DEF PlayQueue
<1>6. ~doubled => At(q) \in 1 .. Len(q.order)
  BY <1>3, <1>4, <1>5 DEF Anchored, OnTrack
<1>7. ASSUME NEW k \in 1 .. Len(q.order) + 1, At(q) < k \/ doubled, NEW r,
             r = Inserted(q, k, some)
      PROVE  /\ Sound(r, doubled) /\ r.current = queue.current
             /\ ~doubled => StaysQueued(queue, r, {})
  <2>2. \A i \in DOMAIN q.order, j \in DOMAIN some : q.order[i].track # some[j]
    <3> SUFFICES ASSUME NEW i \in DOMAIN q.order, NEW j \in DOMAIN some
                 PROVE  q.order[i].track # some[j]
      OBVIOUS
    <3>1. some[j] \in S  BY DEF ToSet
    <3>2. q.order[i].track \notin S  BY <1>3
    <3> QED  BY <3>1, <3>2
  <2>3. /\ r \in PlayQueue /\ InRange(r) /\ r.pool = q.pool /\ r.current = q.current
        /\ /\ Anchored(q) /\ IsInjective(some) /\ q.current # NoId /\ At(q) < k
           /\ \A i \in DOMAIN q.order, j \in DOMAIN some : q.order[i].track # some[j]
           => /\ Anchored(r)
              /\ QueuedIds(q) \union {some[j] : j \in DOMAIN some} \subseteq QueuedIds(r)
    <3>1. q \in PlayQueue /\ InRange(q) /\ some \in Seq(Ids)  BY <1>2, <1>3
    <3>2. k \in 1 .. Len(q.order) + 1 /\ r = Inserted(q, k, some)  BY <1>7
    <3> QED  BY <3>1, <3>2, InsertionSound
  <2>4. ASSUME ~doubled
        PROVE  Anchored(r) /\ QueuedIds(q) \union {some[j] : j \in DOMAIN some} \subseteq QueuedIds(r)
    BY <1>2, <1>3, <1>4, <1>7, <2>2, <2>3, <2>4
  <2>5. ~doubled => StaysQueued(queue, r, {})
    BY <1>4, <2>4 DEF StaysQueued, ToSet
  <2> QED  BY <1>1, <1>3, <2>3, <2>4, <2>5 DEF Sound
<1> QED  BY <1>2, <1>3, <1>4, <1>6, <1>7

LEMMA EnqueueNextSound ==
    ASSUME QueueInductive, NEW ids \in Requests, EnqueueNext(ids)
    PROVE  QueueInductive' /\ (~doubled => StaysQueued(queue, queue', {}))
<1> DEFINE some == Candidates(ids)
           q == WithoutAndReanchored(queue, ToSet(some))
           at == At(q)
           k == Min({at, Len(q.order)}) + 1
<1>1. /\ UNCHANGED <<missing, gone, removed, playing, doubled>> /\ queue.current # NoId
      /\ queue' = IF at = 0 THEN q
                  ELSE Inserted(q, k, some)
  BY DEF EnqueueNext, Edit, Inserted
<1>2. some = Candidates(ids) /\ q = WithoutAndReanchored(queue, ToSet(some))  OBVIOUS
<1> HIDE DEF some, q
<1>3. /\ Sound(q, doubled) /\ q.current = queue.current
      /\ ~doubled => at \in 1 .. Len(q.order)
      /\ \A j \in 1 .. Len(q.order) + 1 :
            at < j \/ doubled =>
              /\ Sound(Inserted(q, j, some), doubled)
              /\ Inserted(q, j, some).current = queue.current
              /\ ~doubled => StaysQueued(queue, Inserted(q, j, some), {})
  BY <1>1, <1>2, EnqueueSound
<1>4. q.order \in Seq(Entry) /\ q.cursor \in Nat /\ Len(q.order) \in Nat
  BY <1>3 DEF Sound, PlayQueue
<1>5. at \in Nat
  <2>1. Position(q.order, q.current) \in Nat  BY <1>4, PositionFirst
  <2> QED  BY <1>4, <2>1 DEF At
<1>6. Min({at, Len(q.order)}) = IF at <= Len(q.order) THEN at ELSE Len(q.order)
  BY <1>4, <1>5, MinOfTwo
<1>7. k \in 1 .. Len(q.order) + 1 /\ (at < k \/ doubled) /\ (at = 0 => doubled)
  BY <1>3, <1>4, <1>5, <1>6
<1> HIDE DEF k, at
<1>8. Sound(queue', doubled) /\ queue'.current = queue.current
      /\ (~doubled => StaysQueued(queue, queue', {}))
  <2>1. CASE at = 0  BY <1>1, <1>3, <1>7, <2>1
  <2>2. CASE at # 0  BY <1>1, <1>3, <1>7, <2>2
  <2> QED  BY <2>1, <2>2
<1> QED  BY <1>1, <1>8, EditSound

LEMMA EnqueueLastSound ==
    ASSUME QueueInductive, NEW ids \in Requests, EnqueueLast(ids)
    PROVE  QueueInductive' /\ (~doubled => StaysQueued(queue, queue', {}))
<1> DEFINE some == Candidates(ids)
           q == WithoutAndReanchored(queue, ToSet(some))
           at == At(q)
           Pool == {i \in DOMAIN q.order : i > at /\ ~q.order[i].curated}
           end == First(Pool)
           k == IF end = 0 THEN Len(q.order) + 1 ELSE end
<1>1. /\ UNCHANGED <<missing, gone, removed, playing, doubled>> /\ queue.current # NoId
      /\ at <= Len(q.order)
      /\ queue' = IF at = 0 THEN q
                  ELSE Inserted(q, k, some)
  BY DEF EnqueueLast, Edit, Inserted
<1>2. some = Candidates(ids) /\ q = WithoutAndReanchored(queue, ToSet(some))  OBVIOUS
<1> HIDE DEF some, q
<1>3. /\ Sound(q, doubled) /\ q.current = queue.current
      /\ ~doubled => at \in 1 .. Len(q.order)
      /\ \A j \in 1 .. Len(q.order) + 1 :
            at < j \/ doubled =>
              /\ Sound(Inserted(q, j, some), doubled)
              /\ Inserted(q, j, some).current = queue.current
              /\ ~doubled => StaysQueued(queue, Inserted(q, j, some), {})
  BY <1>1, <1>2, EnqueueSound
<1>4. q.order \in Seq(Entry) /\ q.cursor \in Nat /\ Len(q.order) \in Nat
  BY <1>3 DEF Sound, PlayQueue
<1>5. at \in Nat
  <2>1. Position(q.order, q.current) \in Nat  BY <1>4, PositionFirst
  <2> QED  BY <1>4, <2>1 DEF At
<1>6. k \in 1 .. Len(q.order) + 1 /\ at < k
  <2>1. DOMAIN q.order = 1 .. Len(q.order)  BY <1>4
  <2>2. Pool \in SUBSET Nat /\ \A i \in Pool : i \in 1 .. Len(q.order) /\ i > at  BY <2>1
  <2> HIDE DEF Pool, at
  <2>3. CASE Pool = {}
    <3>1. end = 0  BY <2>3 DEF First
    <3> QED  BY <1>1, <1>4, <1>5, <3>1
  <2>4. CASE Pool # {}
    <3>1. end = Min(Pool)  BY <2>4 DEF First
    <3>2. end \in Pool  BY <2>2, <2>4, <3>1, FiniteMin
    <3>3. end \in 1 .. Len(q.order) /\ end > at  BY <2>2, <3>2
    <3> HIDE DEF end
    <3> QED  BY <1>4, <1>5, <3>3
  <2> QED  BY <2>3, <2>4
<1>7. at = 0 => doubled  BY <1>3, <1>4
<1> HIDE DEF k, at
<1>8. Sound(queue', doubled) /\ queue'.current = queue.current
      /\ (~doubled => StaysQueued(queue, queue', {}))
  <2>1. CASE at = 0  BY <1>1, <1>3, <1>7, <2>1
  <2>2. CASE at # 0  BY <1>1, <1>3, <1>6, <2>2
  <2> QED  BY <2>1, <2>2
<1> QED  BY <1>1, <1>8, EditSound

LEMMA RemoveFromQueueSound ==
    ASSUME QueueInductive, NEW t \in Ids, RemoveFromQueue(t)
    PROVE  QueueInductive' /\ (~doubled => StaysQueued(queue, queue', {t}))
<1>1. /\ queue \in PlayQueue /\ IsInjective(queue.pool) /\ InRange(queue)
      /\ doubled \/ Anchored(queue)
  BY DEF QueueInductive, Sound
<1>2. /\ UNCHANGED <<missing, gone, removed, playing, doubled>> /\ t \in QueuedIds(queue)
      /\ queue' = WithoutAndReanchored(queue, {t})
  BY DEF RemoveFromQueue, Edit
<1>3. Anchored(queue) => queue.current \notin {t}  BY <1>1, <1>2, CuratedAheadMeans
<1>4. /\ queue' \in PlayQueue /\ queue'.current = queue.current /\ queue'.pool = queue.pool
      /\ InRange(queue')
      /\ Anchored(queue) /\ queue.current \notin {t} =>
           Anchored(queue') /\ QueuedIds(queue) \ {t} \subseteq QueuedIds(queue')
  <2> DEFINE r == WithoutAndReanchored(queue, {t})
  <2>1. /\ r \in PlayQueue /\ r.current = queue.current /\ r.pool = queue.pool /\ InRange(r)
        /\ Anchored(queue) /\ queue.current \notin {t} =>
             Anchored(r) /\ QueuedIds(queue) \ {t} \subseteq QueuedIds(r)
    BY <1>1, WithoutSound
  <2>2. queue' = r  BY <1>2
  <2> HIDE DEF r
  <2> QED  BY <2>1, <2>2
<1>5. Sound(queue', doubled) /\ (~doubled => StaysQueued(queue, queue', {t}))
  BY <1>1, <1>3, <1>4 DEF Sound, StaysQueued
<1> QED  BY <1>2, <1>4, <1>5, EditSound

\* A track that leaves the library leaves the queue.
LEMMA RemoveFromLibrarySound ==
    ASSUME QueueInductive, NEW t \in Ids, RemoveFromLibrary(t)
    PROVE  /\ QueueInductive'
           /\ ~doubled => \/ queue'.current # queue.current
                          \/ StaysQueued(queue, queue', missing' \union removed')
<1> DEFINE r == WithoutAndReanchored(queue, {t})
           pool == Only(queue.pool, Ids \ {t})
           c == IF queue.current = t THEN NoId ELSE queue.current
<1>1. /\ queue \in PlayQueue /\ IsInjective(queue.pool) /\ InRange(queue)
      /\ doubled \/ Anchored(queue)
  BY DEF QueueInductive, Sound
<1>2. /\ r \in PlayQueue /\ r.lazy = queue.lazy /\ r.current = queue.current
      /\ r.pool = queue.pool /\ InRange(r)
      /\ Ordered(queue) => Ordered(r)
      /\ Anchored(queue) /\ queue.current \notin {t} =>
           Anchored(r) /\ QueuedIds(queue) \ {t} \subseteq QueuedIds(r)
  BY <1>1, WithoutSound
<1>3. /\ removed' = removed \union {t} /\ missing' = missing \ {t} /\ UNCHANGED <<gone, doubled>>
      /\ playing' \in {playing, NoId}
      /\ queue' = [r EXCEPT !.pool = Only(@, Ids \ {t}),
                           !.current = IF @ = t THEN NoId ELSE @]
  BY DEF RemoveFromLibrary
<1> HIDE DEF r
<1>4. pool \in Seq(Ids) /\ IsInjective(pool)
  <2>1. queue.pool \in Seq(Ids)  BY <1>1 DEF PlayQueue
  <2> QED  BY <1>1, <2>1, OnlySound
<1>5. queue' = [r EXCEPT !.pool = pool, !.current = c]  BY <1>2, <1>3 DEF PlayQueue
<1> HIDE DEF pool
<1>6. c \in Ids \union {NoId}  BY <1>1 DEF PlayQueue
<1> HIDE DEF c
<1>7. /\ queue'.pool = pool /\ queue'.current = c /\ queue'.lazy = r.lazy
      /\ queue'.order = r.order /\ queue'.cursor = r.cursor
  BY <1>2, <1>5 DEF PlayQueue
<1>8. queue' \in PlayQueue  BY <1>2, <1>4, <1>5, <1>6 DEF PlayQueue
<1>9. InRange(queue')  BY <1>2, <1>7 DEF InRange
<1>10. ASSUME c = r.current PROVE At(queue') = At(r) /\ QueuedIds(queue') = QueuedIds(r)
  BY <1>7, <1>10 DEF QueuedIds, Queued, Ahead, At
<1>11. ASSUME Anchored(queue) PROVE Anchored(queue')
  <2>1. Ordered(queue')  BY <1>2, <1>7, <1>11 DEF Anchored, Ordered
  <2>2. CASE queue.current = t
    <3>1. queue'.current = NoId  BY <1>7, <2>2 DEF c
    <3> QED  BY <2>1, <3>1 DEF Anchored, OnTrack
  <2>3. CASE queue.current # t
    <3>1. c = r.current  BY <1>2, <2>3 DEF c
    <3>2. OnTrack(r)  BY <1>2, <1>11, <2>3 DEF Anchored
    <3>3. OnTrack(queue')  BY <1>7, <1>10, <3>1, <3>2 DEF OnTrack
    <3> QED  BY <2>1, <3>3 DEF Anchored
  <2> QED  BY <2>2, <2>3
<1>12. Sound(queue', doubled')  BY <1>1, <1>3, <1>4, <1>7, <1>8, <1>9, <1>11 DEF Sound
<1>13. CurrentPlayable'
  <2>1. queue.current \notin missing \union removed /\ NoId \notin Ids
        /\ missing \subseteq Ids /\ removed \subseteq Ids
    BY QueueAssumption DEF QueueInductive, QueueTypeOK, CurrentPlayable
  <2> QED  BY <1>3, <1>7, <2>1 DEF CurrentPlayable, c
<1>14. QueueTypeOK'  BY <1>3, <1>8 DEF QueueInductive, QueueTypeOK
<1>15. ASSUME ~doubled, queue'.current = queue.current
       PROVE  StaysQueued(queue, queue', missing' \union removed')
  <2>1. CASE queue.current = t
    <3>1. queue.current = NoId  BY <1>7, <1>15, <2>1 DEF c
    <3>2. QueuedIds(queue) = {}  BY <3>1 DEF QueuedIds, Queued, Ahead
    <3> QED  BY <3>2 DEF StaysQueued
  <2>2. CASE queue.current # t
    <3>1. c = r.current  BY <1>2, <2>2 DEF c
    <3>2. QueuedIds(queue) \ {t} \subseteq QueuedIds(r)  BY <1>1, <1>2, <1>15, <2>2
    <3> QED  BY <1>3, <1>10, <3>1, <3>2 DEF StaysQueued
  <2> QED  BY <2>1, <2>2
<1> QED  BY <1>12, <1>13, <1>14, <1>15 DEF QueueInductive

\* A new mode rebuilds the order.
LEMMA SetShuffleModeSound ==
    ASSUME QueueInductive, NEW m \in Modes, SetShuffleMode(m)
    PROVE  QueueInductive' /\ (~doubled => StaysQueued(queue, queue', {}))
<1> DEFINE base == [queue EXCEPT !.mode = m]
           curated == CuratedAhead(base)
<1>1. /\ queue \in PlayQueue /\ IsInjective(queue.pool) /\ InRange(queue)
      /\ doubled \/ Anchored(queue)
  BY DEF QueueInductive, Sound
<1>2. UNCHANGED <<missing, gone, removed, playing, doubled>> /\ queue' \in Layouts(base, curated)
  BY DEF SetShuffleMode, Rebuilt
<1>3. /\ base.current = queue.current /\ base.pool = queue.pool /\ base.lazy = queue.lazy
      /\ base.order = queue.order /\ base.cursor = queue.cursor
  BY <1>1 DEF PlayQueue
<1>4. base \in PlayQueue
  <2>1. m \in ShuffleModes  BY QueueAssumption DEF ShuffleModes
  <2> QED  BY <1>1, <2>1 DEF PlayQueue
<1> HIDE DEF base
<1>5. QueuedIds(base) = QueuedIds(queue) /\ (Anchored(queue) => Anchored(base))
  BY <1>3 DEF QueuedIds, Queued, Ahead, At, Anchored, Ordered, OnTrack
<1>6. /\ curated \in Seq(Ids) /\ ToSet(curated) = QueuedIds(base)
      /\ Anchored(base) => IsInjective(curated) /\ base.current \notin QueuedIds(base)
  BY <1>4, CuratedAheadMeans
<1> HIDE DEF curated
<1>7. /\ queue' \in PlayQueue /\ InRange(queue') /\ queue'.pool = base.pool
      /\ queue'.current = base.current
      /\ IsInjective(base.pool) /\ IsInjective(curated) /\ base.current \notin ToSet(curated) =>
           /\ Anchored(queue')
           /\ base.current # NoId => ToSet(curated) \subseteq QueuedIds(queue')
  <2>1. PICK r \in Layouts(base, curated) : queue' = r  BY <1>2
  <2>2. /\ r \in PlayQueue /\ InRange(r) /\ r.pool = base.pool /\ r.current = base.current
        /\ IsInjective(base.pool) /\ IsInjective(curated) /\ base.current \notin ToSet(curated) =>
             /\ Anchored(r)
             /\ base.current # NoId => ToSet(curated) \subseteq QueuedIds(r)
    BY <1>4, <1>6, LayoutsSound
  <2> QED  BY <2>1, <2>2
<1>8. Sound(queue', doubled)  BY <1>1, <1>3, <1>5, <1>6, <1>7 DEF Sound
<1>9. ASSUME ~doubled PROVE StaysQueued(queue, queue', {})
  <2>1. CASE queue.current = NoId
    <3>1. QueuedIds(queue) = {}  BY <2>1 DEF QueuedIds, Queued, Ahead
    <3> QED  BY <3>1 DEF StaysQueued
  <2>2. CASE queue.current # NoId
    BY <1>1, <1>3, <1>5, <1>6, <1>7, <1>9, <2>2 DEF StaysQueued
  <2> QED  BY <2>1, <2>2
<1> QED  BY <1>2, <1>3, <1>7, <1>8, <1>9, EditSound

\* Another list behind the same current track.
LEMMA RepopulateQueueSound ==
    ASSUME QueueInductive, NEW source \in Sources, NEW ids \in ListsOf(source),
           RepopulateQueue(source, ids)
    PROVE  /\ QueueInductive'
           /\ ~doubled => StaysQueued(queue, queue', missing' \union removed')
<1> DEFINE base == [queue EXCEPT !.source = source]
           playable == Playable(missing)
           pool == Only(ids, playable)
<1>1. /\ queue \in PlayQueue /\ IsInjective(queue.pool) /\ InRange(queue)
      /\ doubled \/ Anchored(queue)
  BY DEF QueueInductive, Sound
<1>2. /\ UNCHANGED <<missing, gone, removed, playing, doubled>> /\ Contains(pool, queue.current)
      /\ queue' \in Replaced(base, pool, playable)
  BY DEF RepopulateQueue
<1>3. /\ base.current = queue.current /\ base.pool = queue.pool /\ base.lazy = queue.lazy
      /\ base.order = queue.order /\ base.cursor = queue.cursor
  BY <1>1 DEF PlayQueue
<1>4. base \in PlayQueue  BY <1>1 DEF PlayQueue
<1> HIDE DEF base
<1>5. QueuedIds(base) = QueuedIds(queue) /\ (Anchored(queue) => Anchored(base))
  BY <1>3 DEF QueuedIds, Queued, Ahead, At, Anchored, Ordered, OnTrack
<1>6. playable \in SUBSET Ids /\ playable = Ids \ (missing \union removed)  BY DEF Playable
<1>7. ids \in Seq(Ids) /\ IsInjective(ids)  BY QueueAssumption DEF ListsOf
<1>8. pool \in Seq(Ids) /\ IsInjective(pool) /\ ToSet(pool) = ToSet(ids) \intersect playable
  BY <1>7, OnlySound
<1> HIDE DEF pool, playable
<1>9. queue.current \in playable
  <2>1. DOMAIN pool = 1 .. Len(pool)  BY <1>8
  <2>2. queue.current \in ToSet(pool)  BY <1>2, <2>1 DEF Contains, ToSet
  <2> QED  BY <1>8, <2>2
<1>10. /\ queue' \in PlayQueue /\ InRange(queue') /\ queue'.pool = pool
       /\ queue'.current = queue.current
       /\ Anchored(base) =>
            /\ Anchored(queue')
            /\ queue'.current # NoId => QueuedIds(base) \intersect playable \subseteq QueuedIds(queue')
  <2>1. PICK r \in Replaced(base, pool, playable) : queue' = r  BY <1>2
  <2>2. /\ r \in PlayQueue /\ InRange(r) /\ r.pool = pool
        /\ r.current = IF base.current \in playable THEN base.current ELSE NoId
        /\ IsInjective(pool) /\ Anchored(base) =>
             /\ Anchored(r)
             /\ r.current # NoId => QueuedIds(base) \intersect playable \subseteq QueuedIds(r)
    BY <1>4, <1>6, <1>8, ReplacedSound
  <2> QED  BY <1>3, <1>8, <1>9, <2>1, <2>2
<1>11. Sound(queue', doubled)  BY <1>1, <1>5, <1>8, <1>10 DEF Sound
<1>12. ASSUME ~doubled PROVE StaysQueued(queue, queue', missing' \union removed')
  <2>1. QueuedIds(queue) \subseteq Ids  BY <1>1, QueuedTyped
  <2>2. queue'.current # NoId  BY <1>6, <1>9, <1>10, QueueAssumption
  <2> QED  BY <1>1, <1>2, <1>5, <1>6, <1>10, <1>12, <2>1, <2>2 DEF StaysQueued
<1> QED  BY <1>2, <1>10, <1>11, <1>12, EditSound

\* A scan.
LEMMA ScanLibrarySound ==
    ASSUME QueueInductive, ScanLibrary
    PROVE  /\ QueueInductive'
           /\ ~doubled => \/ queue'.current # queue.current
                          \/ StaysQueued(queue, queue', missing' \union removed')
<1>1. /\ queue \in PlayQueue /\ IsInjective(queue.pool) /\ InRange(queue)
      /\ doubled \/ Anchored(queue)
      /\ gone \subseteq Ids /\ NoId \notin Ids /\ removed \subseteq Ids
  BY QueueAssumption DEF QueueInductive, QueueTypeOK, Sound
<1>2. /\ missing' = gone \ removed /\ UNCHANGED <<gone, removed, playing, doubled>>
      /\ queue' \in Refreshed(queue, missing')
  BY DEF ScanLibrary
<1>3. /\ queue' \in PlayQueue /\ InRange(queue') /\ IsInjective(queue'.pool)
      /\ queue'.current = IF queue.current \in Playable(missing') THEN queue.current ELSE NoId
      /\ Anchored(queue) =>
           /\ Anchored(queue')
           /\ queue'.current # NoId =>
                QueuedIds(queue) \intersect Playable(missing') \subseteq QueuedIds(queue')
  <2> DEFINE lost == missing'
  <2>1. PICK r \in Refreshed(queue, lost) : queue' = r  BY <1>2
  <2>2. /\ r \in PlayQueue /\ InRange(r) /\ IsInjective(r.pool)
        /\ r.current = IF queue.current \in Playable(lost) THEN queue.current ELSE NoId
        /\ Anchored(queue) =>
             /\ Anchored(r)
             /\ r.current # NoId => QueuedIds(queue) \intersect Playable(lost) \subseteq QueuedIds(r)
    BY <1>1, RefreshedSound
  <2> QED  BY <2>1, <2>2
<1>4. Playable(missing') = Ids \ (missing' \union removed')  BY <1>2 DEF Playable
<1>5. CurrentPlayable'  BY <1>1, <1>2, <1>3, <1>4 DEF CurrentPlayable
<1>6. QueueTypeOK'  BY <1>1, <1>2, <1>3 DEF QueueInductive, QueueTypeOK
<1>7. Sound(queue', doubled')  BY <1>1, <1>2, <1>3 DEF Sound
<1>8. ASSUME ~doubled, queue'.current = queue.current
      PROVE  StaysQueued(queue, queue', missing' \union removed')
  <2>1. CASE queue.current = NoId
    <3>1. QueuedIds(queue) = {}  BY <2>1 DEF QueuedIds, Queued, Ahead
    <3> QED  BY <3>1 DEF StaysQueued
  <2>2. CASE queue.current # NoId
    <3>1. QueuedIds(queue) \subseteq Ids  BY <1>1, QueuedTyped
    <3> QED  BY <1>1, <1>3, <1>4, <1>8, <2>2, <3>1 DEF StaysQueued
  <2> QED  BY <2>1, <2>2
<1> QED  BY <1>5, <1>6, <1>7, <1>8 DEF QueueInductive

LEMMA ToggleRepeatSound ==
    ASSUME QueueInductive, ToggleRepeat
    PROVE  QueueInductive' /\ queue'.order = queue.order
<1> DEFINE other == IF queue.repeat = "off" THEN "all" ELSE "off"
<1>1. /\ queue \in PlayQueue /\ IsInjective(queue.pool) /\ InRange(queue)
      /\ doubled \/ Anchored(queue)
  BY DEF QueueInductive, Sound
<1>2. /\ UNCHANGED <<missing, gone, removed, playing, doubled>>
      /\ queue' = [queue EXCEPT !.repeat = other]
  BY <1>1 DEF ToggleRepeat, Edit
<1>3. other \in {"off", "all"}  OBVIOUS
<1> HIDE DEF other
<1>4. queue' \in PlayQueue  BY <1>1, <1>2, <1>3 DEF PlayQueue
<1>5. /\ queue'.lazy = queue.lazy /\ queue'.order = queue.order /\ queue'.cursor = queue.cursor
      /\ queue'.current = queue.current /\ queue'.pool = queue.pool
  BY <1>1, <1>2 DEF PlayQueue
<1>6. InRange(queue')  BY <1>1, <1>5 DEF InRange
<1>7. Anchored(queue) => Anchored(queue')  BY <1>5 DEF Anchored, Ordered, OnTrack, At
<1>8. Sound(queue', doubled)  BY <1>1, <1>4, <1>5, <1>6, <1>7 DEF Sound
<1> QED  BY <1>2, <1>5, <1>8, EditSound

\* A queued track that is moved: wherever it goes the order keeps its length, and
\* if the order has it once, it goes to a place after the current track.
LEMMA MoveWithinQueueSound ==
    ASSUME QueueInductive, NEW t \in Ids, NEW target \in Ids, NEW after \in BOOLEAN,
           MoveWithinQueue(t, target, after)
    PROVE  QueueInductive' /\ (~doubled' => StaysQueued(queue, queue', {}))
<1> DEFINE s == queue.order
           from == Position(s, t)
           rest == RemoveAt(s, from)
           to == Position(rest, target) + IF after THEN 1 ELSE 0
           mid == [queue EXCEPT !.order = rest]
           w == Splice(rest, to, <<s[from]>>)
           n == Len(s)
           a == At(queue)
<1>1. /\ queue \in PlayQueue /\ IsInjective(queue.pool) /\ InRange(queue)
      /\ doubled \/ Anchored(queue)
      /\ s \in Seq(Entry) /\ n \in Nat /\ queue.cursor \in Nat /\ queue.lazy \in BOOLEAN
  BY DEF QueueInductive, Sound, PlayQueue
<1>2. /\ t # target /\ t \in QueuedIds(queue) /\ target \in QueuedIds(queue)
      /\ queue' = [queue EXCEPT !.order = w]
      /\ doubled' = (doubled \/ PlacesOf(s, t) # {from})
      /\ UNCHANGED <<missing, gone, removed, playing>>
  BY DEF MoveWithinQueue
<1>3. DOMAIN s = 1 .. n /\ DOMAIN s \in SUBSET Nat  BY <1>1
<1>4. PICK i \in DOMAIN s : i \in Queued(queue) /\ s[i].track = t /\ i > a /\ s[i].curated
  BY <1>2 DEF QueuedIds, Queued, Ahead
<1>5. PICK j \in DOMAIN s : s[j].track = target /\ j > a /\ s[j].curated
  BY <1>2 DEF QueuedIds, Queued, Ahead
<1>6. queue.current # NoId  BY <1>2 DEF QueuedIds, Queued, Ahead
<1>7. a \in Nat
  <2>1. Position(s, queue.current) \in Nat  BY <1>1, PositionFirst
  <2> QED  BY <1>1, <2>1 DEF At
<1>8. from \in DOMAIN s /\ s[from].track = t
  <2>1. i \in PlacesOf(s, t)  BY <1>4 DEF PlacesOf
  <2>2. from \in PlacesOf(s, t)  BY <1>1, <2>1, PositionFirst
  <2> QED  BY <2>2 DEF PlacesOf
<1> HIDE DEF from
<1>9. /\ rest \in Seq(Entry) /\ Len(rest) = n - 1
      /\ \A k \in 1 .. from - 1 : rest[k] = s[k]
      /\ \A k \in from + 1 .. n : rest[k - 1] = s[k]
  <2>1. s \in Seq(Entry) /\ from \in 1 .. Len(s)  BY <1>1, <1>3, <1>8
  <2>2. /\ RemoveAt(s, from) \in Seq(Entry) /\ Len(RemoveAt(s, from)) = Len(s) - 1
        /\ \A k \in 1 .. from - 1 : RemoveAt(s, from)[k] = s[k]
        /\ \A k \in from + 1 .. Len(s) : RemoveAt(s, from)[k - 1] = s[k]
    BY <2>1, RemovalElements
  <2> QED  BY <2>2
<1>10. Thinned(rest, s)  BY <1>1, <1>3, <1>8, RemovalThinned
<1> HIDE DEF rest
<1>11. from \in Nat /\ from >= 1 /\ from <= n /\ j \in Nat /\ j >= 1 /\ j <= n
       /\ i \in Nat /\ i >= 1 /\ i <= n /\ j # from /\ i # j
  <2>1. from \in 1 .. n /\ j \in 1 .. n /\ i \in 1 .. n  BY <1>3, <1>8
  <2>2. j # from /\ i # j  BY <1>2, <1>4, <1>5, <1>8
  <2> QED  BY <1>1, <2>1, <2>2
<1>12. DOMAIN rest = 1 .. n - 1  BY <1>9
<1> HIDE DEF n, a
<1> DEFINE new(k) == IF k < from THEN k ELSE k - 1
<1>13. ASSUME NEW k \in DOMAIN s, k # from PROVE new(k) \in DOMAIN rest /\ rest[new(k)] = s[k]
  <2>1. k \in Nat /\ k >= 1 /\ k <= n
    <3>1. k \in 1 .. n  BY <1>3
    <3> QED  BY <1>1, <3>1
  <2>2. CASE k < from
    <3>1. k \in 1 .. from - 1 /\ k \in 1 .. n - 1  BY <1>1, <1>11, <2>1, <2>2
    <3> QED  BY <1>9, <1>12, <2>2, <3>1
  <2>3. CASE ~(k < from)
    <3>1. k \in from + 1 .. n /\ k - 1 \in 1 .. n - 1  BY <1>1, <1>11, <1>13, <2>1, <2>3
    <3> QED  BY <1>9, <1>12, <2>3, <3>1
  <2> QED  BY <2>2, <2>3
<1>14. /\ Position(rest, target) \in PlacesOf(rest, target)
       /\ Position(rest, target) \in Nat /\ Position(rest, target) >= 1
       /\ Position(rest, target) <= n - 1
  <2>1. new(j) \in PlacesOf(rest, target)  BY <1>5, <1>11, <1>13 DEF PlacesOf
  <2>2. Position(rest, target) \in PlacesOf(rest, target)  BY <1>9, <2>1, PositionFirst
  <2>3. Position(rest, target) \in 1 .. n - 1  BY <1>12, <2>2 DEF PlacesOf
  <2> QED  BY <1>1, <2>2, <2>3
<1>15. to \in Nat /\ to \in 1 .. n /\ to >= Position(rest, target)
  <2>1. CASE after = TRUE  BY <1>1, <1>14, <2>1
  <2>2. CASE after = FALSE  BY <1>1, <1>14, <2>2
  <2> QED  BY <2>1, <2>2
<1> HIDE DEF to
<1>16. /\ mid.current = queue.current /\ mid.pool = queue.pool /\ mid.lazy = queue.lazy
       /\ mid.order = rest /\ mid.cursor = queue.cursor /\ mid \in PlayQueue
  BY <1>1, <1>9 DEF PlayQueue
<1>17. w \in Seq(Entry) /\ Len(w) = n
  <2> DEFINE one == <<s[from]>>
  <2>1. s[from] \in Entry  BY <1>1, <1>8
  <2>2. one \in Seq(Entry) /\ Len(one) = 1  BY <2>1
  <2> HIDE DEF one
  <2>3. to \in 1 .. Len(rest) + 1  BY <1>1, <1>9, <1>15
  <2>4. Splice(rest, to, one) \in Seq(Entry) /\ Len(Splice(rest, to, one)) = Len(rest) + Len(one)
    BY <1>9, <2>2, <2>3, InsertionElements
  <2>5. w = Splice(rest, to, one)  BY DEF one
  <2> HIDE DEF w
  <2> QED  BY <1>1, <1>9, <2>2, <2>4, <2>5
<1>18. queue.lazy => a = queue.cursor /\ queue.cursor >= 1 /\ queue.cursor <= n - 1
  <2>1. queue.lazy => a = queue.cursor  BY DEF At, a
  <2>2. queue.lazy => queue.cursor >= 1  BY <1>1, RangeMeans
  <2> QED  BY <1>1, <1>4, <1>5, <1>7, <1>11, <2>1, <2>2
<1> HIDE DEF w
<1>19. /\ queue'.current = queue.current /\ queue'.pool = queue.pool /\ queue'.lazy = queue.lazy
       /\ queue'.order = w /\ queue'.cursor = queue.cursor /\ queue' \in PlayQueue
  BY <1>1, <1>2, <1>17 DEF PlayQueue
<1>20. InRange(queue')
  <2>1. queue'.lazy => queue'.cursor >= 1 /\ queue'.cursor <= Len(queue'.order)
    BY <1>1, <1>17, <1>18, <1>19
  <2> QED  BY <1>19, <2>1, RangeMeans
<1>21. InRange(mid)
  <2>1. mid.lazy => mid.cursor >= 1 /\ mid.cursor <= Len(mid.order)  BY <1>9, <1>16, <1>18
  <2> QED  BY <1>16, <2>1, RangeMeans
<1> HIDE DEF mid
<1>22. ASSUME ~doubled' PROVE Anchored(queue') /\ StaysQueued(queue, queue', {})
  <2>1. Anchored(queue) /\ PlacesOf(s, t) = {from}  BY <1>1, <1>2, <1>22
  <2>2. a \in DOMAIN s /\ s[a].track = queue.current  BY <1>6, <2>1 DEF Anchored, OnTrack, a
  <2>3. i = from /\ a < from /\ a # from
    <3>1. i = from  BY <1>4, <2>1 DEF PlacesOf
    <3> QED  BY <1>4, <1>7, <1>11, <3>1
  <2>4. a \in DOMAIN rest /\ rest[a] = s[a]
    BY <1>13, <2>2, <2>3
  <2>5. Ordered(mid)
    <3>1. QueuedOnce(s) => QueuedOnce(rest)  BY <1>10, ThinnedKeeps
    <3>2. OnceEach(s) => OnceEach(rest)  BY <1>10, ThinnedKeeps
    <3> QED  BY <1>16, <2>1, <3>1, <3>2 DEF Anchored, Ordered
  <2>6. OnTrack(mid) /\ At(mid) = a
    <3>1. CASE queue.lazy
      <4>1. At(mid) = a  BY <1>16, <1>18, <3>1 DEF At
      <4> QED  BY <1>16, <2>2, <2>4, <4>1 DEF OnTrack
    <3>2. CASE ~queue.lazy
      <4>1. OnceEach(mid.order)  BY <1>16, <2>5, <3>2 DEF Ordered
      <4> QED  BY <1>16, <2>2, <2>4, <3>2, <4>1, EagerAt
    <3> QED  BY <1>1, <3>1, <3>2
  <2>7. Anchored(mid)  BY <2>5, <2>6 DEF Anchored
  <2>8. a < to
    <3> DEFINE p == Position(rest, target)
    <3>1. p \in DOMAIN rest /\ rest[p].track = target /\ p \in Nat  BY <1>14 DEF PlacesOf
    <3> HIDE DEF p
    <3>2. SUFFICES ASSUME p <= a PROVE FALSE
      BY <1>7, <1>15, <3>1 DEF p
    <3>3. p \in 1 .. from - 1 /\ p \in 1 .. n
      <4>1. p >= 1 /\ p \in Nat  BY <1>14 DEF p
      <4>2. p < from  BY <1>7, <1>11, <2>3, <3>2, <4>1
      <4> QED  BY <1>1, <1>11, <4>1, <4>2
    <3>4. p \in DOMAIN s /\ s[p].track = s[j].track  BY <1>3, <1>5, <1>9, <3>1, <3>3
    <3>5. p < j  BY <1>5, <1>7, <1>11, <3>1, <3>2
    <3>6. CASE queue.lazy
      <4>1. QueuedOnce(s)  BY <2>1, <3>6 DEF Anchored, Ordered
      <4> QED  BY <1>5, <3>4, <3>5, <4>1 DEF QueuedOnce
    <3>7. CASE ~queue.lazy
      <4>1. OnceEach(s)  BY <2>1, <3>7 DEF Anchored, Ordered
      <4> QED  BY <1>5, <3>4, <3>5, <4>1 DEF OnceEach
    <3> QED  BY <1>1, <3>6, <3>7
  <2>9. \A k \in DOMAIN rest : rest[k].track # t
    <3> SUFFICES ASSUME NEW k \in DOMAIN rest, rest[k].track = t PROVE FALSE
      OBVIOUS
    <3>1. k \in Nat /\ k >= 1 /\ k <= n - 1
      <4>1. k \in 1 .. n - 1  BY <1>12
      <4> QED  BY <1>1, <4>1
    <3>2. CASE k < from
      <4>1. k \in 1 .. from - 1 /\ k \in 1 .. n  BY <1>1, <1>11, <3>1, <3>2
      <4>2. k \in PlacesOf(s, t)  BY <1>3, <1>9, <4>1 DEF PlacesOf
      <4> QED  BY <1>11, <2>1, <3>1, <3>2, <4>2
    <3>3. CASE ~(k < from)
      <4>1. k + 1 \in from + 1 .. n /\ k + 1 \in 1 .. n /\ (k + 1) - 1 = k
        BY <1>1, <1>11, <3>1, <3>3
      <4>2. rest[(k + 1) - 1] = s[k + 1]  BY <1>9, <4>1
      <4>3. k + 1 \in PlacesOf(s, t)  BY <1>3, <4>1, <4>2 DEF PlacesOf
      <4> QED  BY <1>11, <2>1, <3>1, <3>3, <4>3
    <3> QED  BY <3>2, <3>3
  <2> DEFINE ids == <<t>>
  <2>10. ids \in Seq(Ids) /\ IsInjective(ids) /\ DOMAIN ids = {1} /\ ids[1] = t
    BY DEF IsInjective
  <2>11. <<s[from]>> = Entries(ids, TRUE)
    <3> DEFINE one == <<s[from]>>
               x == [track |-> t, curated |-> TRUE]
               e == Entries(ids, TRUE)
    <3>1. s[from] \in Entry /\ s[from].track = t  BY <1>1, <1>8
    <3>2. s[from].curated = TRUE
      <4>1. s[from].curated  BY <1>4, <2>3
      <4>2. s[from].curated \in BOOLEAN  BY <3>1 DEF Entry
      <4> QED  BY <4>1, <4>2
    <3>3. s[from] = x  BY <3>1, <3>2 DEF Entry
    <3>4. one \in Seq(Entry) /\ Len(one) = 1 /\ one[1] = x  BY <3>1, <3>3
    <3> HIDE DEF one
    <3>5. e = [k \in {1} |-> x]  BY <2>10 DEF Entries
    <3>6. e \in Seq(Entry) /\ Len(e) = Len(ids)  BY <2>10, EntriesElements
    <3>7. Len(ids) = 1  BY DEF ids
    <3>8. e[1] = x  BY <3>5
    <3> HIDE DEF e, x
    <3>9. \A k \in 1 .. Len(one) : one[k] = e[k]  BY <3>4, <3>8
    <3>10. one = e  BY <3>4, <3>6, <3>7, <3>9, SeqEqual
    <3> QED  BY <3>10 DEF one, e
  <2> HIDE DEF ids
  <2>12. queue' = Inserted(mid, to, ids)
    BY <1>1, <1>2, <1>16, <2>11 DEF Inserted, w, mid, PlayQueue
  <2>13. to \in 1 .. Len(mid.order) + 1  BY <1>1, <1>9, <1>15, <1>16
  <2>14. /\ Anchored(queue')
         /\ QueuedIds(mid) \union {ids[k] : k \in DOMAIN ids} \subseteq QueuedIds(queue')
    <3>1. PICK r : r = Inserted(mid, to, ids)  OBVIOUS
    <3>2. \A k \in DOMAIN mid.order, l \in DOMAIN ids : mid.order[k].track # ids[l]
      BY <1>16, <2>9, <2>10
    <3>3. /\ Anchored(mid) /\ IsInjective(ids) /\ mid.current # NoId /\ At(mid) < to
          /\ \A k \in DOMAIN mid.order, l \in DOMAIN ids : mid.order[k].track # ids[l]
          => /\ Anchored(r)
             /\ QueuedIds(mid) \union {ids[k] : k \in DOMAIN ids} \subseteq QueuedIds(r)
      BY <1>16, <1>21, <2>10, <2>13, <3>1, InsertionSound
    <3> QED  BY <1>6, <1>16, <2>6, <2>7, <2>8, <2>10, <2>12, <3>1, <3>2, <3>3
  <2>15. QueuedIds(queue) \subseteq QueuedIds(mid) \union {t}
    <3>1. Queued(queue) = {k \in DOMAIN s : k > a /\ s[k].curated}
      BY <1>1, <1>6, <2>1, AheadMeans DEF a
    <3>2. Queued(mid) = {k \in DOMAIN rest : k > a /\ rest[k].curated}
      BY <1>6, <1>16, <2>6, <2>7, AheadMeans
    <3>3. ASSUME NEW k \in Queued(queue), k # from PROVE s[k].track \in QueuedIds(mid)
      <4>1. k \in DOMAIN s /\ k > a /\ s[k].curated  BY <3>1
      <4>2. new(k) \in DOMAIN rest /\ rest[new(k)] = s[k]  BY <1>13, <3>3, <4>1
      <4>3. new(k) > a
        <5>1. k \in Nat  BY <1>3, <4>1
        <5> QED  BY <1>7, <1>11, <2>3, <3>3, <4>1, <5>1
      <4>4. new(k) \in Queued(mid)  BY <3>2, <4>1, <4>2, <4>3
      <4> HIDE DEF new
      <4> QED  BY <1>16, <4>2, <4>4 DEF QueuedIds
    <3> QED  BY <1>8, <3>3 DEF QueuedIds
  <2> QED  BY <2>10, <2>14, <2>15 DEF StaysQueued
<1>23. doubled' \in BOOLEAN  BY <1>2
<1>24. Sound(queue', doubled')  BY <1>1, <1>19, <1>20, <1>22 DEF Sound
<1>25. QueueTypeOK'  BY <1>2, <1>19, <1>23 DEF QueueInductive, QueueTypeOK
<1>26. CurrentPlayable'  BY <1>2, <1>19 DEF QueueInductive, CurrentPlayable
<1> QED  BY <1>22, <1>24, <1>25, <1>26 DEF QueueInductive

-----------------------------------------------------------------------------
(* The specification.                                                      *)

LEMMA QueueInitSound == QueueInit => QueueInductive
<1> SUFFICES ASSUME QueueInit PROVE QueueInductive
  OBVIOUS
<1> DEFINE none == <<>>
<1>1. none \in Seq(Ids) /\ none \in Seq(Entry) /\ Len(none) = 0 /\ DOMAIN none = {}
  OBVIOUS
<1>2. queue = [source |-> "library", pool |-> none, lazy |-> FALSE, order |-> none,
               cursor |-> 1, current |-> NoId, mode |-> "off", repeat |-> "off"]
      /\ missing = {} /\ gone = {} /\ removed = {} /\ playing = NoId /\ doubled = FALSE
  BY DEF QueueInit
<1> HIDE DEF none
<1>3. queue \in PlayQueue  BY <1>1, <1>2 DEF PlayQueue, Sources, ShuffleModes
<1>4. /\ queue.pool = none /\ ~queue.lazy /\ queue.order = none /\ queue.current = NoId
  BY <1>2
<1>5. Anchored(queue)  BY <1>1, <1>4 DEF Anchored, Ordered, OnTrack, OnceEach
<1>6. Sound(queue, doubled)  BY <1>1, <1>3, <1>4, <1>5 DEF Sound, InRange, IsInjective
<1>7. QueueTypeOK /\ CurrentPlayable  BY <1>2, <1>3, <1>4 DEF QueueTypeOK, CurrentPlayable
<1> QED  BY <1>6, <1>7 DEF QueueInductive

\* Only a queue built for a play forgets that a track of it was doubled.
LEMMA MarkStays ==
    ASSUME QueueTypeOK, NEW q, NEW t, Play(q, t, {})
    PROVE  doubled' = doubled
<1>1. doubled \in BOOLEAN  BY DEF QueueTypeOK
<1>2. doubled' = doubled \/ doubled' = (TRUE /\ doubled)  BY DEF Play
<1> QED  BY <1>1, <1>2

Survives(t) ==
    \/ t \in QueuedIds(queue')
    \/ queue'.current # queue.current \/ queue'.order = queue.order
    \/ StartQueue \/ RemoveFromQueue(t)
    \/ t \in missing' \union removed' \/ doubled'

\* Every step keeps the invariant and what the listener queued.
LEMMA QueueStepSound ==
    ASSUME QueueInductive, QueueNext
    PROVE  QueueInductive' /\ \A x \in QueuedIds(queue) : Survives(x)
<1>1. QueueTypeOK /\ doubled \in BOOLEAN /\ queue \in PlayQueue
  BY DEF QueueInductive, QueueTypeOK
<1>2. ASSUME StaysQueued(queue, queue', missing' \union removed') \/ StaysQueued(queue, queue', {})
      PROVE  \A x \in QueuedIds(queue) : Survives(x)
  BY <1>2 DEF StaysQueued, Survives
<1>3. CASE StartQueue
  <2>1. PICK s \in Sources : \E ids \in ListsOf(s) : \E t \in ToSet(ids) : PlayTrack(t, s, ids)
    BY <1>3 DEF StartQueue
  <2>2. PICK ids \in ListsOf(s) : \E t \in ToSet(ids) : PlayTrack(t, s, ids)  BY <2>1
  <2>3. QueueInductive'  BY <2>2, PlayTrackSound
  <2> QED  BY <1>3, <2>3 DEF Survives
<1>4. ASSUME NEW t \in Ids, PlayQueueTrack(t)
      PROVE  QueueInductive' /\ \A x \in QueuedIds(queue) : Survives(x)
  <2>1. /\ queue.current # NoId /\ PlayAndMove(queue, t)
        /\ \E i \in DOMAIN queue.order : queue.order[i].track = t
    BY <1>4 DEF PlayQueueTrack, Ahead
  <2>2. doubled' = doubled  BY <1>1, <2>1, MarkStays DEF PlayAndMove
  <2>3. /\ QueueInductive'
        /\ ~doubled =>
             \/ queue'.current # queue.current \/ queue'.order = queue.order
             \/ StaysQueued(queue, queue', missing' \union removed')
    BY <2>1, PlayAndMoveSound
  <2> QED  BY <1>2, <2>2, <2>3 DEF Survives
<1>5. ASSUME NEW t \in Ids, RemoveFromQueue(t)
      PROVE  QueueInductive' /\ \A x \in QueuedIds(queue) : Survives(x)
  <2>1. QueueInductive' /\ (~doubled => StaysQueued(queue, queue', {t}))
    BY <1>5, RemoveFromQueueSound
  <2>2. doubled' = doubled  BY <1>5 DEF RemoveFromQueue, Edit
  <2> QED  BY <1>5, <2>1, <2>2 DEF Survives, StaysQueued
<1>6. ASSUME NEW t \in Ids, RemoveFromLibrary(t)
      PROVE  QueueInductive' /\ \A x \in QueuedIds(queue) : Survives(x)
  <2>1. /\ QueueInductive'
        /\ ~doubled => \/ queue'.current # queue.current
                       \/ StaysQueued(queue, queue', missing' \union removed')
    BY <1>6, RemoveFromLibrarySound
  <2>2. doubled' = doubled  BY <1>6 DEF RemoveFromLibrary
  <2> QED  BY <1>2, <2>1, <2>2 DEF Survives
<1>7. ASSUME NEW t \in Ids, FilesChange(t)
      PROVE  QueueInductive' /\ \A x \in QueuedIds(queue) : Survives(x)
  <2>1. UNCHANGED <<queue, missing, removed, playing, doubled>> /\ gone' \in SUBSET Ids
    BY <1>1, <1>7 DEF FilesChange, QueueTypeOK
  <2>2. QueueInductive'  BY <2>1 DEF QueueInductive, QueueTypeOK, CurrentPlayable
  <2> QED  BY <2>1, <2>2 DEF Survives
<1>8. ASSUME NEW t \in Ids, NEW u \in Ids, NEW after \in BOOLEAN, MoveWithinQueue(t, u, after)
      PROVE  QueueInductive' /\ \A x \in QueuedIds(queue) : Survives(x)
  <2>1. QueueInductive' /\ (~doubled' => StaysQueued(queue, queue', {}))
    BY <1>8, MoveWithinQueueSound
  <2> QED  BY <1>2, <2>1 DEF Survives
<1>9. ASSUME NEW forward \in BOOLEAN, PlayAdjacent(forward)
      PROVE  QueueInductive' /\ \A x \in QueuedIds(queue) : Survives(x)
  <2>1. /\ QueueInductive'
        /\ ~doubled =>
             \/ queue'.current # queue.current \/ queue'.order = queue.order
             \/ StaysQueued(queue, queue', missing' \union removed')
    BY <1>9, PlayAdjacentSound
  <2>2. doubled' = doubled
    <3>1. CASE Adjacent(queue, forward) # NoId
      BY <1>1, <1>9, <3>1, MarkStays DEF PlayAdjacent, PlayAndMove
    <3>2. CASE Adjacent(queue, forward) = NoId  BY <1>9, <3>2 DEF PlayAdjacent
    <3> QED  BY <3>1, <3>2
  <2> QED  BY <1>2, <2>1, <2>2 DEF Survives
<1>10. ASSUME NEW t \in Ids, PickAndPlay(t)
       PROVE  QueueInductive' /\ \A x \in QueuedIds(queue) : Survives(x)
  <2>1. /\ QueueInductive'
        /\ ~doubled => \/ queue'.current # queue.current
                       \/ StaysQueued(queue, queue', missing' \union removed')
    BY <1>10, PickAndPlaySound
  <2>2. doubled' = doubled  BY <1>1, <1>10, MarkStays DEF PickAndPlay, PlayAndMove
  <2> QED  BY <1>2, <2>1, <2>2 DEF Survives
<1>11. CASE PlayPreviousTrack
  <2>1. PlayAdjacent(FALSE)  BY <1>11 DEF PlayPreviousTrack
  <2> QED  BY <1>9, <2>1
<1>12. CASE PlayNextTrack
  <2>1. (\E t \in Ids : PickAndPlay(t)) \/ PlayAdjacent(TRUE)  BY <1>12 DEF PlayNextTrack
  <2> QED  BY <1>9, <1>10, <2>1
<1>13. CASE ToggleRepeat
  <2>1. QueueInductive' /\ queue'.order = queue.order  BY <1>13, ToggleRepeatSound
  <2> QED  BY <2>1 DEF Survives
<1>14. CASE ScanLibrary
  <2>1. /\ QueueInductive'
        /\ ~doubled => \/ queue'.current # queue.current
                       \/ StaysQueued(queue, queue', missing' \union removed')
    BY <1>14, ScanLibrarySound
  <2>2. doubled' = doubled  BY <1>14 DEF ScanLibrary
  <2> QED  BY <1>2, <2>1, <2>2 DEF Survives
<1>15. ASSUME NEW ids \in Requests, EnqueueNext(ids) \/ EnqueueLast(ids)
       PROVE  QueueInductive' /\ \A x \in QueuedIds(queue) : Survives(x)
  <2>1. QueueInductive' /\ (~doubled => StaysQueued(queue, queue', {}))
    BY <1>15, EnqueueNextSound, EnqueueLastSound
  <2>2. doubled' = doubled  BY <1>15 DEF EnqueueNext, EnqueueLast, Edit
  <2> QED  BY <1>2, <2>1, <2>2 DEF Survives
<1>16. ASSUME NEW m \in Modes, SetShuffleMode(m)
       PROVE  QueueInductive' /\ \A x \in QueuedIds(queue) : Survives(x)
  <2>1. QueueInductive' /\ (~doubled => StaysQueued(queue, queue', {}))
    BY <1>16, SetShuffleModeSound
  <2>2. doubled' = doubled  BY <1>16 DEF SetShuffleMode
  <2> QED  BY <1>2, <2>1, <2>2 DEF Survives
<1>17. ASSUME NEW s \in Sources, NEW ids \in ListsOf(s), RepopulateQueue(s, ids)
       PROVE  QueueInductive' /\ \A x \in QueuedIds(queue) : Survives(x)
  <2>1. /\ QueueInductive'
        /\ ~doubled => StaysQueued(queue, queue', missing' \union removed')
    BY <1>17, RepopulateQueueSound
  <2>2. doubled' = doubled  BY <1>17 DEF RepopulateQueue
  <2> QED  BY <1>2, <2>1, <2>2 DEF Survives
<1> QED
  BY <1>3, <1>4, <1>5, <1>6, <1>7, <1>8, <1>11, <1>12, <1>13, <1>14, <1>15, <1>16, <1>17
  DEF QueueNext

\* The inductive invariant holds in every reachable state.
THEOREM QueueInvariance == QueueSpec => []QueueInductive
<1>1. QueueInit => QueueInductive  BY QueueInitSound
<1>2. QueueInductive /\ [QueueNext]_queueVars => QueueInductive'
  <2> SUFFICES ASSUME QueueInductive, [QueueNext]_queueVars PROVE QueueInductive'
    OBVIOUS
  <2>1. CASE QueueNext  BY <2>1, QueueStepSound
  <2>2. CASE UNCHANGED queueVars
    BY <2>2 DEF queueVars, QueueInductive, QueueTypeOK, CurrentPlayable
  <2> QED  BY <2>1, <2>2
<1> QED  BY <1>1, <1>2, PTL DEF QueueSpec

\* Type correctness of the playback queue.
THEOREM QueueTypeCorrect == QueueSpec => []QueueTypeOK
<1>1. QueueInductive => QueueTypeOK  BY DEF QueueInductive
<1> QED  BY <1>1, QueueInvariance, PTL

\* The lazy cursor stays inside the order, whatever is removed, rebuilt or
\* moved (queue.rs remove_entries_and_reanchor_cursor), and on the current track
\* until a track the order has twice is moved.
THEOREM CursorStaysInOrder == QueueSpec => []CursorInOrder
<1>1. QueueInductive => CursorInOrder
  <2> SUFFICES ASSUME QueueInductive PROVE CursorInOrder
    OBVIOUS
  <2>1. InRange(queue) /\ (doubled \/ Anchored(queue))  BY DEF QueueInductive, Sound
  <2> QED  BY <2>1 DEF CursorInOrder, InRange, Anchored, OnTrack, At
<1> QED  BY <1>1, QueueInvariance, PTL

\* An eager order has no track twice and has the current one.
THEOREM EagerOrderStaysAnchored == QueueSpec => []EagerOrderAnchored
<1>1. QueueInductive => EagerOrderAnchored
  <2> SUFFICES ASSUME QueueInductive, ~queue.lazy, ~doubled
               PROVE  /\ IsInjective(IdsOf(queue.order))
                      /\ queue.current # NoId => Contains(IdsOf(queue.order), queue.current)
    BY DEF EagerOrderAnchored
  <2> DEFINE s == queue.order
             ids == IdsOf(s)
  <2>1. Anchored(queue) /\ s \in Seq(Entry)  BY DEF QueueInductive, Sound, PlayQueue
  <2>2. DOMAIN s = 1 .. Len(s) /\ DOMAIN s \in SUBSET Nat /\ Len(s) \in Nat  BY <2>1
  <2>3. DOMAIN ids = DOMAIN s /\ \A i \in DOMAIN s : ids[i] = s[i].track  BY DEF IdsOf
  <2> HIDE DEF ids
  <2>4. IsInjective(ids)
    <3> SUFFICES ASSUME NEW i \in DOMAIN ids, NEW j \in DOMAIN ids, ids[i] = ids[j]
                 PROVE  i = j
      BY DEF IsInjective
    <3>1. OnceEach(s)  BY <2>1 DEF Anchored, Ordered
    <3>2. ~(i < j) /\ ~(j < i)  BY <2>3, <3>1 DEF OnceEach
    <3>3. i \in Nat /\ j \in Nat  BY <2>2, <2>3
    <3> QED  BY <3>2, <3>3
  <2>5. ASSUME queue.current # NoId PROVE Contains(ids, queue.current)
    <3>1. PICK i \in DOMAIN s : s[i].track = queue.current
      BY <2>1, <2>5 DEF Anchored, OnTrack
    <3>2. ids = [k \in 1 .. Len(s) |-> s[k].track]  BY <2>2 DEF ids, IdsOf
    <3>3. ids \in Seq({s[k].track : k \in 1 .. Len(s)}) /\ Len(ids) = Len(s)
      BY <2>2, <3>2
    <3>4. i \in 1 .. Len(ids) /\ ids[i] = queue.current  BY <2>2, <2>3, <3>1, <3>3
    <3> QED  BY <3>4 DEF Contains
  <2> QED  BY <2>4, <2>5 DEF ids
<1> QED  BY <1>1, QueueInvariance, PTL

\* What the listener queued outlives every rebuild of the order
\* (queue.rs rebuild_layout, replace_ordered_track_ids, reposition_track).
THEOREM QueuedTracksSurvive == QueueSpec => CuratedSurvives
<1>1. QueueInductive /\ [QueueNext]_queueVars
        => [\A t \in QueuedIds(queue) : Survives(t)]_queueVars
  <2> SUFFICES ASSUME QueueInductive, [QueueNext]_queueVars
               PROVE  [\A t \in QueuedIds(queue) : Survives(t)]_queueVars
    OBVIOUS
  <2>1. CASE QueueNext  BY <2>1, QueueStepSound
  <2>2. CASE UNCHANGED queueVars  BY <2>2
  <2> QED  BY <2>1, <2>2
<1> QED  BY <1>1, QueueInvariance, PTL DEF QueueSpec, CuratedSurvives, Survives

-----------------------------------------------------------------------------
(* Sessions and statistics: what the state is.                             *)

Registration == [session : SessionIds, track : Tracks]
CountedTracks == [Tracks -> Counts \union {NoRow}]

StoreTyped ==
    /\ rows \in CountedTracks /\ library \in CountedTracks /\ view \in CountedTracks
    /\ due \in [Tracks -> Counts] /\ raced \subseteq Tracks

HeardTyped ==
    /\ session \in Session \union {NoSession} /\ pending \in Seq(Registration)

\* What a command and a merge are about, and no row is removed under a task.
LoopSound ==
    /\ player \in Transport
    /\ job.do = "play" => job.track \in Tracks \union {NoTrack}
    /\ job.do \in {"merge", "remove"} => job.track \in Tracks /\ task = "none"
    /\ job.do = "merge" => job.other \in Tracks /\ job.other # job.track
    /\ ui \in {"idle", "advance"} => job = Nothing
    /\ task = "merge" => /\ pair.survivor \in Tracks /\ pair.duplicate \in Tracks
                         /\ pair.survivor # pair.duplicate

\* A session that still listens has not registered its play.
Unregistered == session # NoSession /\ session.status = "listening" => ~session.reached

\* The runtime's copy of a survivor is old from the commit to the result.
Behind(t) == task = "merge" /\ step = "committed" /\ t = pair.survivor

InSync ==
    \A t \in Tracks \ raced :
        rows[t] # NoRow /\ library[t] # NoRow => Behind(t) \/ library[t] = rows[t]

\* What a merge has read is what it will replace.
MergeCurrent ==
    task = "merge" /\ step = "read" =>
        /\ view[pair.survivor] # NoRow /\ view[pair.duplicate] # NoRow
        /\ pair.survivor \notin raced =>
             /\ view[pair.survivor] = rows[pair.survivor]
             /\ view[pair.duplicate] = rows[pair.duplicate]

\* A scan starts from all tracks and ends with all rows.
ScanCurrent ==
    task = "scan" =>
        /\ step = "started" =>
             \A t \in Tracks : library[t] # NoRow => view[t] # NoRow \/ rows[t] # NoRow
        /\ step = "reloaded" =>
             \A t \in Tracks \ raced : rows[t] # NoRow => view[t] = rows[t]

Balance == CountsKept /\ InSync /\ MergeCurrent /\ ScanCurrent

Inductive == StoreTyped /\ HeardTyped /\ LoopSound /\ Unregistered /\ Balance

-----------------------------------------------------------------------------
(* Counting the registrations of a track in a sequence of them.            *)

Positions(s, t) == {i \in DOMAIN s : s[i].track = t}

LEMMA PositionsFinite ==
    ASSUME NEW s \in Seq(Registration), NEW t
    PROVE  IsFiniteSet(Positions(s, t)) /\ Cardinality(Positions(s, t)) \in Nat
<1>1. IsFiniteSet(1 .. Len(s)) BY FS_Interval
<1>2. Positions(s, t) \in SUBSET (1 .. Len(s)) BY DEF Positions
<1>3. IsFiniteSet(Positions(s, t)) BY <1>1, <1>2, FS_Subset
<1> QED BY <1>3, FS_CardinalityType

\* A registration appended counts one more for its own track alone.
LEMMA CountAppended ==
    ASSUME NEW s \in Seq(Registration), NEW e \in Registration, NEW t
    PROVE  Cardinality(Positions(Append(s, e), t)) =
             Cardinality(Positions(s, t)) + (IF e.track = t THEN 1 ELSE 0)
<1> DEFINE n == Len(s) + 1
<1>1. Positions(Append(s, e), t) =
        IF e.track = t THEN Positions(s, t) \union {n} ELSE Positions(s, t)
  BY DEF Positions
<1>2. n \notin Positions(s, t) BY DEF Positions
<1>3. IsFiniteSet(Positions(s, t)) /\ Cardinality(Positions(s, t)) \in Nat
  BY PositionsFinite
<1>4. Cardinality(Positions(s, t) \union {n}) = Cardinality(Positions(s, t)) + 1
  BY <1>2, <1>3, FS_AddElement
<1> QED BY <1>1, <1>3, <1>4

\* The head of a sequence is one registration of its own track.
LEMMA CountTaken ==
    ASSUME NEW s \in Seq(Registration), s # <<>>, NEW t
    PROVE  Cardinality(Positions(s, t)) =
             Cardinality(Positions(Tail(s), t)) + (IF Head(s).track = t THEN 1 ELSE 0)
<1> DEFINE rest == Positions(s, t) \ {1}
           shift == [i \in rest |-> i - 1]
<1>1. Tail(s) \in Seq(Registration) /\ Len(Tail(s)) = Len(s) - 1
      /\ \A i \in 1 .. Len(s) - 1 : Tail(s)[i] = s[i + 1]
  OBVIOUS
<1>2. rest = {i \in 2 .. Len(s) : s[i].track = t} BY DEF Positions
<1>3. Positions(Tail(s), t) = {i \in 1 .. Len(s) - 1 : s[i + 1].track = t}
  BY <1>1 DEF Positions
<1>4. shift \in Bijection(rest, Positions(Tail(s), t))
  <2>1. shift \in [rest -> Positions(Tail(s), t)] BY <1>2, <1>3
  <2>2. \A a, b \in rest : shift[a] = shift[b] => a = b BY <1>2
  <2>3. \A j \in Positions(Tail(s), t) : \E i \in rest : shift[i] = j
    <3>1. SUFFICES ASSUME NEW j \in Positions(Tail(s), t)
                   PROVE  j + 1 \in rest /\ shift[j + 1] = j
      OBVIOUS
    <3> QED BY <1>2, <1>3
  <2> HIDE DEF shift, rest
  <2> QED BY <2>1, <2>2, <2>3, Zenon DEF Bijection, Injection, Surjection, IsInjective
<1>5. IsFiniteSet(Positions(s, t)) /\ Cardinality(Positions(s, t)) \in Nat
  BY PositionsFinite
<1>6. IsFiniteSet(rest)
      /\ Cardinality(rest) = IF 1 \in Positions(s, t) THEN Cardinality(Positions(s, t)) - 1
                             ELSE Cardinality(Positions(s, t))
  BY <1>5, FS_RemoveElement
<1>7. Cardinality(Positions(Tail(s), t)) = Cardinality(rest)
  <2>1. ExistsBijection(rest, Positions(Tail(s), t)) BY <1>4, Zenon DEF ExistsBijection
  <2> QED BY <2>1, <1>6, FS_Bijection
<1>8. 1 \in Positions(s, t) <=> Head(s).track = t
  BY DEF Positions
<1> QED BY <1>5, <1>6, <1>7, <1>8

-----------------------------------------------------------------------------
(* What the main loop is about.                                            *)

LEMMA LoopNext == LoopSound /\ [Next]_vars => LoopSound'
<1> SUFFICES ASSUME LoopSound, [Next]_vars PROVE LoopSound'
  OBVIOUS
<1> USE StatisticsAssumption DEF LoopSound, Nothing, Stopped, Transport
<1>1. CASE UNCHANGED vars BY <1>1 DEF vars, loop, worker
<1>2. CASE CommitPending \/ RetryDone \/ RetryFails \/ NextUnavailable \/ ActNothing
  BY <1>2 DEF CommitPending, RetryDone, RetryFails, NextUnavailable, ActNothing, Finish,
              Quietly, loop, worker
<1>3. CASE ActPause \/ ActPlay \/ ActEnd \/ ActStop
  BY <1>3 DEF ActPause, ActPlay, ActEnd, ActStop, Finish, Quietly, PausedPlayer,
              StopService, Acting, worker
<1>4. CASE SkipUncounted \/ CountSkip \/ SkipFails
  BY <1>4 DEF SkipUncounted, CountSkip, SkipFails, Finish, Quietly, worker
<1>5. CASE ActRemove \/ RemoveFails
  BY <1>5 DEF ActRemove, RemoveFails, Finish, Quietly, StopLoaded, StopService, worker
<1>6. CASE ActMerge
  BY <1>6 DEF ActMerge, Acting, Finish, StopLoaded, StopService
<1>7. CASE Tick BY <1>7 DEF Tick, Begin, worker
<1>8. CASE \E do \in {"none", "pause", "stop", "skip"} : Request(do)
  BY <1>8 DEF Request, Begin, Plain, worker
<1>9. CASE \E t \in Tracks \union {NoTrack} : Advance(t)
  BY <1>9 DEF Advance, worker
<1>10. CASE \E t \in Tracks : RemoveTrack(t)
  BY <1>10 DEF RemoveTrack, Removing, worker
<1>11. CASE \E s, d \in Tracks : MergeDuplicates(s, d)
  BY <1>11 DEF MergeDuplicates, Removing, worker
<1>12. CASE \E t \in Tracks : ResetPlayCount(t) \/ ReloadTrack(t)
  BY <1>12 DEF ResetPlayCount, ReloadTrack, loop, worker
<1>13. CASE StartScan \/ Resume \/ Started \/ BackendError
  BY <1>13 DEF StartScan, Resume, Started, BackendError, Beside, loop, worker
<1>14. CASE Worker
  BY <1>14 DEF Worker, MergeReads, MergeCommits, MergeFails, FlushFails, ScanReconciles,
               ScanReloads, ScanFails, Goes, Beside, loop
<1>15. CASE ApplyMerge \/ ApplyMergeUnread \/ ApplyScan \/ ApplyFailure \/ Restart
  BY <1>15 DEF ApplyMerge, ApplyMergeUnread, ApplyScan, ApplyFailure, Restart, Ended,
               Finish, Beside, loop
<1> QED BY <1>1, <1>2, <1>3, <1>4, <1>5, <1>6, <1>7, <1>8, <1>9, <1>10, <1>11, <1>12,
           <1>13, <1>14, <1>15 DEF Next, MainLoop, User

-----------------------------------------------------------------------------
(* Sessions and the registrations that wait.                               *)

Heard == HeardTyped /\ Unregistered

LEMMA NewSession ==
    ASSUME NEW t \in Tracks
    PROVE  SessionOf(t) \in Session /\ SessionOf(t) # NoSession
           /\ SessionOf(t).status = "listening" /\ SessionOf(t).reached = FALSE
           /\ SessionOf(t).track = t
<1> DEFINE used == {pending[i].session : i \in DOMAIN pending}
                     \union (IF session = NoSession THEN {} ELSE {session.id})
           free == CHOOSE id \in SessionIds : id \notin used \/ SessionIds \subseteq used
<1>1. 0 \in SessionIds BY StatisticsAssumption DEF SessionIds
<1>2. \E id \in SessionIds : id \notin used \/ SessionIds \subseteq used
  <2> HIDE DEF used
  <2> QED BY <1>1
<1>3. free \in SessionIds
  <2> HIDE DEF used
  <2> QED BY <1>2
<1>4. SessionOf(t) = [id |-> free, track |-> t, anchored |-> TRUE, status |-> "listening",
                      reached |-> FALSE, skipped |-> FALSE]
  BY DEF SessionOf
<1> HIDE DEF free
<1>5. SessionOf(t) \in Session BY <1>3, <1>4 DEF Session
<1>6. SessionOf(t) # NoSession BY <1>5, StatisticsAssumption
<1> QED BY <1>4, <1>5, <1>6

LEMMA HeardAccounts ==
    ASSUME Heard, NEW anchor \in BOOLEAN, Account(anchor)
    PROVE  Heard'
<1> USE StatisticsAssumption DEF Heard, HeardTyped, Unregistered, Session
<1>1. CASE session = NoSession
  BY <1>1 DEF Account, ReachThreshold
<1>2. CASE session # NoSession /\ ReachThreshold(anchor)
  <2>1. /\ session' = [session EXCEPT !.anchored = anchor, !.status = "pending", !.reached = TRUE]
        /\ pending' = Append(pending, [session |-> session.id, track |-> session.track])
    BY <1>2 DEF ReachThreshold
  <2>2. session' \in Session /\ session'.status = "pending" BY <1>2, <2>1
  <2>3. [session |-> session.id, track |-> session.track] \in Registration
    BY <1>2 DEF Registration
  <2>4. pending' \in Seq(Registration) BY <2>1, <2>3
  <2> QED BY <2>2, <2>4
<1>3. CASE session # NoSession /\ session' = [session EXCEPT !.anchored = anchor]
           /\ UNCHANGED pending
  <2>1. session' \in Session /\ session'.status = session.status
        /\ session'.reached = session.reached
    BY <1>3
  <2> QED BY <1>3, <2>1
<1> QED BY <1>1, <1>2, <1>3 DEF Account

LEMMA HeardNext == Heard /\ LoopSound /\ [Next]_vars => Heard'
<1> SUFFICES ASSUME Heard, LoopSound, [Next]_vars PROVE Heard'
  OBVIOUS
<1> DEFINE Same == UNCHANGED <<session, pending>>
           Starts == \E t \in Tracks : session' = SessionOf(t) /\ pending' = pending
           Ends == session' = NoSession /\ (pending' = pending \/ pending' = <<>>)
           Accounts == \E anchor \in BOOLEAN : Account(anchor)
           Marked == /\ session # NoSession /\ pending' = pending
                     /\ \/ session' = [session EXCEPT !.skipped = TRUE]
                        \/ session' = [session EXCEPT !.anchored = TRUE]
           Saved == /\ pending # <<>> /\ pending' = Tail(pending)
                    /\ \/ session' = session
                       \/ /\ session # NoSession
                          /\ session' = [session EXCEPT !.status = "registered"]
<1>1. Same \/ Starts \/ Ends \/ Accounts \/ Marked \/ Saved
  <2> USE DEF heard
  <2>1. CASE UNCHANGED vars BY <2>1 DEF vars
  <2>2. CASE CommitPending BY <2>2 DEF CommitPending
  <2>3. CASE RetryDone \/ RetryFails \/ NextUnavailable \/ ActNothing
    BY <2>3 DEF RetryDone, RetryFails, NextUnavailable, ActNothing
  <2>4. CASE ActPause BY <2>4 DEF ActPause, Freeze
  <2>5. CASE ActPlay
    <3>1. job.track \in Tracks BY <2>5 DEF ActPlay, Acting, LoopSound
    <3> QED BY <2>5, <3>1 DEF ActPlay, StartSession
  <2>6. CASE ActEnd \/ ActStop
    BY <2>6 DEF ActEnd, ActStop, StopService
  <2>7. CASE SkipUncounted \/ CountSkip \/ SkipFails
    BY <2>7 DEF SkipUncounted, CountSkip, SkipFails, Skippable
  <2>8. CASE ActRemove \/ RemoveFails \/ ActMerge
    BY <2>8 DEF ActRemove, RemoveFails, ActMerge, StopLoaded, StopService
  <2>9. CASE Tick
    <3>1. player.state = "playing" => player.track \in Tracks
      BY DEF LoopSound, Transport, Stopped
    <3> QED BY <2>9, <3>1 DEF Tick, Freeze, StartSession
  <2>10. CASE User
    <3>1. CASE \E do \in {"none", "pause", "stop", "skip"} : Request(do)
      BY <3>1 DEF Request, Settle
    <3>2. CASE \E t \in Tracks \union {NoTrack} : Advance(t)
      BY <3>2 DEF Advance, Settle
    <3>3. CASE \E t \in Tracks : RemoveTrack(t) \/ ResetPlayCount(t) \/ ReloadTrack(t)
      BY <3>3 DEF RemoveTrack, Removing, Settle, ResetPlayCount, ReloadTrack
    <3>4. CASE \E s, d \in Tracks : MergeDuplicates(s, d)
      BY <3>4 DEF MergeDuplicates, Removing, Settle
    <3>5. CASE StartScan \/ Resume
      BY <3>5 DEF StartScan, Resume
    <3> QED BY <2>10, <3>1, <3>2, <3>3, <3>4, <3>5 DEF User
  <2>11. CASE Worker
    BY <2>11 DEF Worker, MergeReads, MergeCommits, MergeFails, FlushFails, ScanReconciles,
                 ScanReloads, ScanFails
  <2>12. CASE Started \/ BackendError
    BY <2>12 DEF Started, BackendError, Freeze
  <2>13. CASE ApplyMerge \/ ApplyMergeUnread \/ ApplyScan \/ ApplyFailure \/ Restart
    BY <2>13 DEF ApplyMerge, ApplyMergeUnread, ApplyScan, ApplyFailure, Restart
  <2> QED BY <2>1, <2>2, <2>3, <2>4, <2>5, <2>6, <2>7, <2>8, <2>9, <2>10, <2>11, <2>12,
             <2>13 DEF Next, MainLoop
<1> USE DEF Heard, HeardTyped, Unregistered
<1>2. CASE Same BY <1>2
<1>3. CASE Starts BY <1>3, NewSession
<1>4. CASE Ends
  <2>1. <<>> \in Seq(Registration) OBVIOUS
  <2>2. pending' \in Seq(Registration) BY <1>4, <2>1
  <2> QED BY <1>4, <2>2
<1>5. CASE Accounts BY <1>5, HeardAccounts
<1>6. CASE Marked
  <2>1. session' \in Session /\ session'.status = session.status
        /\ session'.reached = session.reached
    BY <1>6 DEF Session
  <2> QED BY <1>6, <2>1
<1>7. CASE Saved
  <2>1. session' \in Session \union {NoSession}
    BY <1>7 DEF Session
  <2>2. session' # NoSession /\ session'.status = "listening" => session' = session
    BY <1>7 DEF Session
  <2>3. pending' \in Seq(Registration) BY <1>7
  <2> QED BY <2>1, <2>2, <2>3
<1> QED BY <1>1, <1>2, <1>3, <1>4, <1>5, <1>6, <1>7

-----------------------------------------------------------------------------
(* Rows, the copy of them and what a task has read.                        *)

Kept == StoreTyped /\ Balance

LEMMA WaitingType ==
    ASSUME HeardTyped, NEW t
    PROVE  Waiting(t) \in Nat /\ Waiting(t) = Cardinality(Positions(pending, t))
BY PositionsFinite DEF HeardTyped, Waiting, Positions

LEMMA WaitingAppended ==
    ASSUME HeardTyped, NEW e \in Registration, pending' = Append(pending, e), NEW t
    PROVE  Waiting(t)' = Waiting(t) + (IF e.track = t THEN 1 ELSE 0)
<1>1. Waiting(t)' = Cardinality(Positions(Append(pending, e), t)) BY DEF Waiting, Positions
<1> QED BY <1>1, CountAppended, WaitingType DEF HeardTyped

LEMMA WaitingTaken ==
    ASSUME HeardTyped, pending # <<>>, pending' = Tail(pending), NEW t
    PROVE  /\ Waiting(t)' \in Nat
           /\ Waiting(t) = Waiting(t)' + (IF Head(pending).track = t THEN 1 ELSE 0)
<1>1. Waiting(t)' = Cardinality(Positions(Tail(pending), t)) BY DEF Waiting, Positions
<1>2. Tail(pending) \in Seq(Registration) BY DEF HeardTyped
<1> QED BY <1>1, <1>2, CountTaken, PositionsFinite, WaitingType DEF HeardTyped

\* A step that touches no count and no task.
LEMMA Unmoved ==
    ASSUME Kept, UNCHANGED <<store, pending, due, worker>>
    PROVE  Kept'
BY DEF Kept, StoreTyped, Balance, CountsKept, Waiting, InSync, Behind, MergeCurrent,
       ScanCurrent, store, worker

\* A session that reaches its threshold owes one play and registers one.
LEMMA Accounting ==
    ASSUME Inductive, NEW anchor \in BOOLEAN, Account(anchor), UNCHANGED <<store, worker>>
    PROVE  Kept'
<1>1. CASE UNCHANGED <<pending, due>> BY <1>1, Unmoved DEF Inductive, Kept
<1>2. CASE ReachThreshold(anchor)
  <2> DEFINE t == session.track
             e == [session |-> session.id, track |-> t]
  <2>1. session \in Session /\ t \in Tracks /\ e \in Registration
    BY <1>2 DEF Inductive, HeardTyped, ReachThreshold, Session, Registration
  <2>2. pending' = Append(pending, e) BY <1>2 DEF ReachThreshold
  <2>3. due' = [due EXCEPT ![t].plays = @ + 1]
    BY <1>2 DEF Inductive, Unregistered, ReachThreshold
  <2> HIDE DEF t, e
  <2>4. e.track = t BY DEF e
  <2>5. \A u \in Tracks : /\ Waiting(u) \in Nat
                         /\ Waiting(u)' = Waiting(u) + (IF t = u THEN 1 ELSE 0)
    BY <2>1, <2>2, <2>4, WaitingType, WaitingAppended DEF Inductive
  <2>6. /\ due' \in [Tracks -> Counts]
        /\ \A u \in Tracks : /\ due'[u].plays = due[u].plays + (IF t = u THEN 1 ELSE 0)
                             /\ due'[u].skips = due[u].skips
    BY <2>1, <2>3 DEF Inductive, StoreTyped, Counts
  <2>7. StoreTyped' BY <2>6 DEF Inductive, StoreTyped, store, worker
  <2>8. CountsKept'
    <3> SUFFICES ASSUME NEW u \in Tracks \ raced, rows[u] # NoRow
                 PROVE  /\ rows[u].plays + Waiting(u)' = due'[u].plays
                        /\ rows[u].skips = due'[u].skips
      BY DEF CountsKept, store
    <3>1. rows[u] \in Counts /\ due[u] \in Counts
      BY DEF Inductive, StoreTyped, CountedTracks
    <3>2. rows[u].plays + Waiting(u) = due[u].plays /\ rows[u].skips = due[u].skips
      BY DEF Inductive, Balance, CountsKept
    <3> QED BY <2>5, <2>6, <3>1, <3>2 DEF Counts
  <2> QED BY <2>7, <2>8 DEF Inductive, Kept, Balance, InSync, Behind, MergeCurrent,
                            ScanCurrent, store, worker
<1> QED BY <1>1, <1>2 DEF Account

\* A count is written from a copy that agrees with the row, or its track is raced.
LEMMA Written ==
    ASSUME Kept, LoopSound, NEW t \in Tracks, NEW c,
           library[t] # NoRow => c \in Counts, MutateStatistics(t, c), UNCHANGED worker
    PROVE  /\ (rows \in CountedTracks /\ library \in CountedTracks /\ view \in CountedTracks
                /\ raced \subseteq Tracks)'
           /\ InSync' /\ MergeCurrent' /\ ScanCurrent'
           /\ \A u \in Tracks \ raced' : rows'[u] # NoRow =>
                /\ u \notin raced /\ rows[u] # NoRow
                /\ u # t => rows'[u] = rows[u]
                /\ u = t => library[t] = rows[t] /\ rows'[t] = c
<1> USE DEF Kept, StoreTyped, Balance, LoopSound, worker
<1>1. CASE library[t] = NoRow
  <2>1. /\ UNCHANGED <<rows, library>>
        /\ raced' = IF rows[t] = NoRow THEN raced ELSE raced \union {t}
    BY <1>1 DEF MutateStatistics
  <2>2. raced \subseteq raced' /\ raced' \subseteq Tracks /\ (t \notin raced' => rows[t] = NoRow)
    BY <2>1
  <2>3. InSync' /\ MergeCurrent' /\ ScanCurrent'
    BY <2>1, <2>2 DEF InSync, Behind, MergeCurrent, ScanCurrent
  <2> QED BY <1>1, <2>1, <2>2, <2>3
<1>2. CASE library[t] # NoRow
  <2>1. /\ rows' = IF rows[t] = NoRow THEN rows ELSE [rows EXCEPT ![t] = c]
        /\ library' = [library EXCEPT ![t] = c]
        /\ raced' = raced \union Crossed(t)
    BY <1>2 DEF MutateStatistics
  <2>2. c \in Counts /\ c # NoRow BY <1>2, StatisticsAssumption
  <2>3. /\ rows' \in CountedTracks /\ library' \in CountedTracks
        /\ library'[t] = c /\ rows'[t] = (IF rows[t] = NoRow THEN NoRow ELSE c)
        /\ \A u \in Tracks \ {t} : rows'[u] = rows[u] /\ library'[u] = library[u]
    BY <2>1, <2>2 DEF CountedTracks
  <2>4. Crossed(t) \subseteq Tracks BY DEF Crossed
  <2>5. Behind(t) => t \in Crossed(t) BY DEF Behind, Crossed
  <2>6. InSync'
    <3> SUFFICES ASSUME NEW u \in Tracks \ raced', rows'[u] # NoRow, library'[u] # NoRow
                 PROVE  Behind(u) \/ library'[u] = rows'[u]
      BY DEF InSync, Behind
    <3>1. CASE u = t BY <2>3, <3>1
    <3>2. CASE u # t BY <2>1, <2>3, <3>2 DEF InSync
    <3> QED BY <3>1, <3>2
  <2>7. MergeCurrent'
    <3> SUFFICES ASSUME task = "merge", step = "read"
                 PROVE  /\ view[pair.survivor] # NoRow /\ view[pair.duplicate] # NoRow
                        /\ pair.survivor \notin raced' =>
                             /\ view[pair.survivor] = rows'[pair.survivor]
                             /\ view[pair.duplicate] = rows'[pair.duplicate]
      BY DEF MergeCurrent
    <3>1. CASE t \in {pair.survivor, pair.duplicate}
      BY <2>1, <3>1 DEF MergeCurrent, Crossed
    <3>2. CASE t \notin {pair.survivor, pair.duplicate}
      BY <2>1, <2>3, <3>2 DEF MergeCurrent
    <3> QED BY <3>1, <3>2
  <2>8. ScanCurrent'
    <3>1. task = "scan" /\ step = "reloaded" => Crossed(t) = {t} BY DEF Crossed
    <3>2. \A u \in Tracks : (rows'[u] = NoRow <=> rows[u] = NoRow)
                           /\ (library'[u] = NoRow <=> library[u] = NoRow)
      BY <1>2, <2>2, <2>3
    <3> QED BY <2>1, <2>3, <3>1, <3>2 DEF ScanCurrent
  <2>9. ASSUME NEW u \in Tracks \ raced', rows'[u] # NoRow
        PROVE  /\ u \notin raced /\ rows[u] # NoRow
               /\ u # t => rows'[u] = rows[u]
               /\ u = t => library[t] = rows[t] /\ rows'[t] = c
    <3>1. u \notin raced /\ (u = t => ~Behind(t)) BY <2>1, <2>5, <2>9
    <3>2. rows[u] # NoRow BY <2>3, <2>9
    <3> QED BY <1>2, <2>3, <3>1, <3>2 DEF InSync
  <2> QED BY <2>1, <2>3, <2>4, <2>6, <2>7, <2>8, <2>9
<1> QED BY <1>1, <1>2

-----------------------------------------------------------------------------
(* The actions that change a count.                                        *)

LEMMA SavedPlay == ASSUME Inductive, CommitPending PROVE Kept'
<1> USE DEF Inductive
<1> DEFINE t == Head(pending).track
<1>1. /\ pending # <<>> /\ pending' = Tail(pending) /\ due' = due
      /\ MutateStatistics(t, Played(t)) /\ UNCHANGED worker
  BY DEF CommitPending
<1>2. t \in Tracks
  <2>1. Head(pending) \in Registration BY <1>1 DEF HeardTyped
  <2> QED BY <2>1 DEF Registration
<1>3. /\ Kept /\ (library[t] # NoRow => Played(t) \in Counts)
  BY <1>2 DEF Kept, StoreTyped, CountedTracks, Played, Counts
<1> HIDE DEF t
<1>4. \A u \in Tracks : /\ Waiting(u)' \in Nat
                       /\ Waiting(u) = Waiting(u)' + (IF t = u THEN 1 ELSE 0)
  BY <1>1, WaitingTaken DEF t
<1>5. /\ (rows \in CountedTracks /\ library \in CountedTracks /\ view \in CountedTracks
           /\ raced \subseteq Tracks)'
      /\ InSync' /\ MergeCurrent' /\ ScanCurrent'
      /\ \A u \in Tracks \ raced' : rows'[u] # NoRow =>
           /\ u \notin raced /\ rows[u] # NoRow
           /\ u # t => rows'[u] = rows[u]
           /\ u = t => library[t] = rows[t] /\ rows'[t] = Played(t)
  BY <1>1, <1>2, <1>3, Written
<1>6. CountsKept'
  <2> SUFFICES ASSUME NEW u \in Tracks \ raced', rows'[u] # NoRow
               PROVE  /\ rows'[u].plays + Waiting(u)' = due[u].plays
                      /\ rows'[u].skips = due[u].skips
    BY <1>1 DEF CountsKept
  <2>1. rows[u] \in Counts /\ due[u] \in Counts
    BY <1>5 DEF StoreTyped, CountedTracks
  <2>2. rows[u].plays + Waiting(u) = due[u].plays /\ rows[u].skips = due[u].skips
    BY <1>5 DEF Balance, CountsKept
  <2>3. /\ rows'[u].plays = rows[u].plays + (IF t = u THEN 1 ELSE 0)
        /\ rows'[u].skips = rows[u].skips
    BY <1>5, <2>1 DEF Played, Counts
  <2> QED BY <1>4, <2>1, <2>2, <2>3 DEF Counts
<1> QED BY <1>1, <1>5, <1>6 DEF Kept, StoreTyped, Balance

LEMMA SavedSkip == ASSUME Inductive, CountSkip PROVE Kept'
<1> USE DEF Inductive
<1> DEFINE t == session.track
<1>1. /\ session # NoSession /\ pending' = pending
      /\ due' = IF library[t] = NoRow THEN due ELSE [due EXCEPT ![t].skips = @ + 1]
      /\ MutateStatistics(t, Skipped(t)) /\ UNCHANGED worker
  BY DEF CountSkip, Skippable
<1>2. t \in Tracks BY <1>1 DEF HeardTyped, Session
<1>3. /\ Kept /\ (library[t] # NoRow => Skipped(t) \in Counts)
  BY <1>2 DEF Kept, StoreTyped, CountedTracks, Skipped, Counts
<1> HIDE DEF t
<1>4. \A u \in Tracks : Waiting(u) \in Nat /\ Waiting(u)' = Waiting(u)
  BY <1>1, WaitingType DEF Waiting
<1>5. /\ (rows \in CountedTracks /\ library \in CountedTracks /\ view \in CountedTracks
           /\ raced \subseteq Tracks)'
      /\ InSync' /\ MergeCurrent' /\ ScanCurrent'
      /\ \A u \in Tracks \ raced' : rows'[u] # NoRow =>
           /\ u \notin raced /\ rows[u] # NoRow
           /\ u # t => rows'[u] = rows[u]
           /\ u = t => library[t] = rows[t] /\ rows'[t] = Skipped(t)
  BY <1>1, <1>2, <1>3, Written
<1>6. /\ due' \in [Tracks -> Counts]
      /\ \A u \in Tracks :
           /\ due'[u].plays = due[u].plays
           /\ due'[u].skips = due[u].skips + (IF t = u /\ library[t] # NoRow THEN 1 ELSE 0)
  BY <1>1, <1>2 DEF StoreTyped, Counts
<1>7. CountsKept'
  <2> SUFFICES ASSUME NEW u \in Tracks \ raced', rows'[u] # NoRow
               PROVE  /\ rows'[u].plays + Waiting(u) = due'[u].plays
                      /\ rows'[u].skips = due'[u].skips
    BY <1>4 DEF CountsKept
  <2>1. rows[u] \in Counts /\ due[u] \in Counts
    BY <1>5 DEF StoreTyped, CountedTracks
  <2>2. rows[u].plays + Waiting(u) = due[u].plays /\ rows[u].skips = due[u].skips
    BY <1>5 DEF Balance, CountsKept
  <2>3. /\ rows'[u].plays = rows[u].plays
        /\ rows'[u].skips = rows[u].skips + (IF t = u /\ library[t] # NoRow THEN 1 ELSE 0)
    BY <1>5, <2>1 DEF Skipped, Counts
  <2> QED BY <1>4, <1>6, <2>1, <2>2, <2>3 DEF Counts
<1> QED BY <1>5, <1>6, <1>7 DEF Kept, StoreTyped, Balance

LEMMA SavedReset ==
    ASSUME Inductive, NEW t \in Tracks, ResetPlayCount(t)
    PROVE  Kept'
<1> USE DEF Inductive
<1>1. /\ task = "none" /\ UNCHANGED <<pending, worker>>
      /\ rows' = IF rows[t] = NoRow THEN rows ELSE [rows EXCEPT ![t] = Zero]
      /\ library' = [library EXCEPT ![t] = Zero]
      /\ due' = [due EXCEPT ![t] = [plays |-> Waiting(t), skips |-> 0]]
      /\ raced' = raced \ {t}
  BY DEF ResetPlayCount
<1>2. \A u \in Tracks : Waiting(u) \in Nat /\ Waiting(u)' = Waiting(u)
  BY <1>1, WaitingType DEF Waiting
<1>3. Zero \in Counts /\ [plays |-> Waiting(t), skips |-> 0] \in Counts
  BY <1>2 DEF Zero, Counts
<1>4. StoreTyped' BY <1>1, <1>3 DEF StoreTyped, CountedTracks, worker
<1>5. CountsKept'
  <2> SUFFICES ASSUME NEW u \in Tracks \ raced', rows'[u] # NoRow
               PROVE  /\ rows'[u].plays + Waiting(u) = due'[u].plays
                      /\ rows'[u].skips = due'[u].skips
    BY <1>2 DEF CountsKept
  <2>1. CASE u = t BY <1>1, <1>2, <2>1 DEF StoreTyped, CountedTracks, Zero
  <2>2. CASE u # t
    BY <1>1, <2>2 DEF StoreTyped, CountedTracks, Balance, CountsKept
  <2> QED BY <2>1, <2>2
<1>6. InSync'
  BY <1>1 DEF InSync, Behind, Balance, StoreTyped, CountedTracks, worker
<1> QED BY <1>1, <1>4, <1>5, <1>6 DEF Kept, Balance, MergeCurrent, ScanCurrent, worker

-----------------------------------------------------------------------------
(* The steps of a task, of its result and of a removal.                    *)

\* A step that waits for nothing new and registers nothing.
LEMMA WaitingSame ==
    ASSUME HeardTyped, UNCHANGED pending
    PROVE  \A t \in Tracks : Waiting(t) \in Nat /\ Waiting(t)' = Waiting(t)
BY WaitingType DEF Waiting

LEMMA RemovedRow == ASSUME Inductive, ActRemove PROVE Kept'
<1> USE DEF Inductive
<1>1. /\ job.track \in Tracks /\ task = "none" /\ UNCHANGED <<pending, due, raced, worker>>
      /\ rows' = [rows EXCEPT ![job.track] = NoRow]
      /\ library' = [library EXCEPT ![job.track] = NoRow]
  BY DEF ActRemove, Acting, LoopSound, StopLoaded, StopService, heard
<1>2. StoreTyped' BY <1>1 DEF StoreTyped, CountedTracks, worker
<1>3. CountsKept' BY <1>1, WaitingSame DEF CountsKept, Balance, StoreTyped, CountedTracks
<1>4. InSync' BY <1>1 DEF InSync, Behind, Balance, StoreTyped, CountedTracks, worker
<1> QED BY <1>1, <1>2, <1>3, <1>4 DEF Kept, Balance, MergeCurrent, ScanCurrent, worker

LEMMA Reloaded ==
    ASSUME Inductive, NEW t \in Tracks, ReloadTrack(t)
    PROVE  Kept'
<1> USE DEF Inductive, Balance
<1>1. /\ rows[t] # NoRow /\ UNCHANGED <<rows, raced, pending, due, worker>>
      /\ library' = [library EXCEPT ![t] = rows[t]]
  BY DEF ReloadTrack, heard
<1>2. StoreTyped' BY <1>1 DEF StoreTyped, CountedTracks, worker
<1>3. CountsKept' BY <1>1, WaitingSame DEF CountsKept
<1>4. InSync' BY <1>1 DEF InSync, Behind, StoreTyped, CountedTracks, worker
<1>5. ScanCurrent' BY <1>1 DEF ScanCurrent, StoreTyped, CountedTracks, worker
<1> QED BY <1>1, <1>2, <1>3, <1>4, <1>5 DEF Kept, MergeCurrent, worker

LEMMA TaskStarts == ASSUME Inductive, ActMerge \/ StartScan PROVE Kept'
<1> USE DEF Inductive, Balance
<1>1. /\ task = "none" /\ step' = "started" /\ UNCHANGED <<rows, library, raced, pending, due>>
      /\ \/ task' = "merge" /\ UNCHANGED view
         \/ task' = "scan" /\ view' = library
  BY DEF ActMerge, Acting, LoopSound, StartScan, StopLoaded, StopService, store, heard
<1>2. StoreTyped' BY <1>1 DEF StoreTyped, CountedTracks
<1>3. CountsKept' BY <1>1, WaitingSame DEF CountsKept
<1> QED BY <1>1, <1>2, <1>3 DEF Kept, InSync, Behind, MergeCurrent, ScanCurrent

LEMMA Reading ==
    ASSUME Inductive, MergeReads \/ ScanReloads
    PROVE  Kept'
<1> USE DEF Inductive, Balance
<1>1. /\ UNCHANGED <<rows, library, raced, pending, due, task, pair>> /\ view' = rows
      /\ \/ /\ task = "merge" /\ step = "started" /\ step' = "read"
            /\ rows[pair.survivor] # NoRow /\ rows[pair.duplicate] # NoRow
         \/ task = "scan" /\ step' = "reloaded"
  BY DEF MergeReads, ScanReloads, Goes, store, heard
<1>2. StoreTyped' BY <1>1 DEF StoreTyped
<1>3. CountsKept' BY <1>1, WaitingSame DEF CountsKept
<1> QED BY <1>1, <1>2, <1>3 DEF Kept, InSync, Behind, MergeCurrent, ScanCurrent

\* Before the commit a task that fails leaves no trace; after it the survivor is raced.
LEMMA Failing ==
    ASSUME Inductive, MergeFails \/ FlushFails \/ ScanFails
    PROVE  Kept'
<1> USE DEF Inductive, Balance
<1>1. /\ UNCHANGED <<rows, library, pending, due, task, pair>> /\ step' = "failed"
      /\ view' \in {view, NoView} /\ raced \subseteq raced' /\ raced' \subseteq Tracks
      /\ \A t \in Tracks : Behind(t) => t \in raced'
  BY DEF MergeFails, FlushFails, ScanFails, Goes, store, heard, Behind, StoreTyped, LoopSound
<1>2. StoreTyped' BY <1>1 DEF StoreTyped, CountedTracks, NoView
<1>3. CountsKept' BY <1>1, WaitingSame DEF CountsKept
<1>4. InSync' BY <1>1 DEF InSync
<1> QED BY <1>1, <1>2, <1>3, <1>4 DEF Kept, MergeCurrent, ScanCurrent

LEMMA MergeSaved == ASSUME Inductive, MergeCommits PROVE Kept'
<1> USE DEF Inductive
<1> DEFINE s == pair.survivor
           d == pair.duplicate
<1>1. /\ task = "merge" /\ step = "read" /\ step' = "committed"
      /\ UNCHANGED <<library, pending, task, pair>> /\ view' = NoView
      /\ rows' = [rows EXCEPT ![s] = Sum(view[s], view[d]), ![d] = NoRow]
      /\ due' = [due EXCEPT ![s] = Sum(due[s], due[d])]
      /\ raced' = IF d \in raced \/ Waiting(d) > 0 THEN raced \union {s} ELSE raced
  BY DEF MergeCommits, Goes
<1>2. /\ s \in Tracks /\ d \in Tracks /\ s # d
      /\ view[s] \in Counts /\ view[d] \in Counts /\ due[s] \in Counts /\ due[d] \in Counts
      /\ s \notin raced => view[s] = rows[s] /\ view[d] = rows[d]
  BY <1>1 DEF LoopSound, StoreTyped, CountedTracks, Balance, MergeCurrent
<1>3. Sum(view[s], view[d]) \in Counts /\ Sum(due[s], due[d]) \in Counts
  BY <1>2 DEF Sum, Counts
<1>4. \A u \in Tracks : Waiting(u) \in Nat /\ Waiting(u)' = Waiting(u)
  BY <1>1, WaitingSame
<1> HIDE DEF s, d
<1>5. StoreTyped' BY <1>1, <1>2, <1>3 DEF StoreTyped, CountedTracks, NoView
<1>6. CountsKept'
  <2> SUFFICES ASSUME NEW u \in Tracks \ raced', rows'[u] # NoRow
               PROVE  /\ rows'[u].plays + Waiting(u) = due'[u].plays
                      /\ rows'[u].skips = due'[u].skips
    BY <1>4 DEF CountsKept
  <2>1. CASE u = s
    <3>1. s \notin raced /\ d \notin raced /\ Waiting(d) = 0 BY <1>1, <1>2, <1>4, <2>1
    <3>2. rows[s] = view[s] /\ rows[d] = view[d] /\ rows[s] # NoRow /\ rows[d] # NoRow
      BY <1>2, <3>1, StatisticsAssumption
    <3>3. /\ view[s].plays + Waiting(s) = due[s].plays /\ view[d].plays = due[d].plays
          /\ view[s].skips = due[s].skips /\ view[d].skips = due[d].skips
      BY <1>2, <3>1, <3>2 DEF Balance, CountsKept, Counts
    <3>4. rows'[s] = Sum(view[s], view[d]) /\ due'[s] = Sum(due[s], due[d])
      BY <1>1, <1>2 DEF StoreTyped, CountedTracks
    <3> QED BY <1>2, <1>4, <2>1, <3>3, <3>4 DEF Sum, Counts
  <2>2. CASE u # s
    <3>1. u # d BY <1>1, <1>2 DEF StoreTyped, CountedTracks
    <3>2. rows'[u] = rows[u] /\ due'[u] = due[u] /\ u \notin raced
      BY <1>1, <2>2, <3>1 DEF StoreTyped, CountedTracks
    <3> QED BY <3>2 DEF Balance, CountsKept
  <2> QED BY <2>1, <2>2
<1>7. InSync'
  <2> SUFFICES ASSUME NEW u \in Tracks \ raced', rows'[u] # NoRow, library'[u] # NoRow
               PROVE  u = s \/ library'[u] = rows'[u]
    BY <1>1 DEF InSync, Behind, s
  <2>1. CASE u # s
    <3>1. u # d BY <1>1, <1>2 DEF StoreTyped, CountedTracks
    <3>2. rows'[u] = rows[u] /\ library'[u] = library[u] /\ u \notin raced
      BY <1>1, <2>1, <3>1 DEF StoreTyped, CountedTracks
    <3> QED BY <1>1, <3>2 DEF Balance, InSync, Behind
  <2> QED BY <2>1
<1> QED BY <1>1, <1>5, <1>6, <1>7 DEF Kept, Balance, MergeCurrent, ScanCurrent

LEMMA ScanSaved ==
    ASSUME Inductive, NEW found \in SUBSET Tracks, ScanReconciles(found)
    PROVE  Kept'
<1> USE DEF Inductive
<1> DEFINE scanned(t) == IF t \in found THEN Zero ELSE view[t]
           inserted == {t \in Tracks : rows[t] = NoRow /\ scanned(t) # NoRow}
<1>1. /\ task = "scan" /\ step = "started" /\ step' = "reconciled"
      /\ UNCHANGED <<library, pending, task, pair>> /\ view' = NoView
      /\ \A t \in found : IsNextId(t)
      /\ rows' = [t \in Tracks |-> IF t \in inserted THEN scanned(t) ELSE rows[t]]
      /\ due' = [t \in Tracks |-> IF t \in inserted THEN scanned(t) ELSE due[t]]
      /\ raced' = raced \union {t \in inserted : t \notin found \/ Waiting(t) > 0}
  BY DEF ScanReconciles, Goes
<1>2. \A t \in found : view[t] = NoRow
  <2> SUFFICES ASSUME NEW t \in found, view[t] # NoRow PROVE FALSE
    OBVIOUS
  <2>1. t \in {u \in Tracks : view[u] # NoRow} /\ t \in Nat BY StatisticsAssumption
  <2>2. t < t BY <1>1, <2>1 DEF IsNextId
  <2> QED BY <2>1, <2>2
<1>3. \A t \in Tracks : scanned(t) \in Counts \union {NoRow}
  BY DEF StoreTyped, CountedTracks, Zero, Counts
<1>4. \A u \in Tracks : Waiting(u) \in Nat /\ Waiting(u)' = Waiting(u)
  BY <1>1, WaitingSame
<1>5. StoreTyped'
  <2>1. \A t \in inserted : scanned(t) \in Counts BY <1>3
  <2> HIDE DEF scanned
  <2> QED BY <1>1, <1>3, <2>1 DEF StoreTyped, CountedTracks, NoView
\* A new track that nothing is owed to has never been played.
<1>6. ASSUME NEW u \in Tracks \ raced', rows'[u] # NoRow
      PROVE  \/ u \notin inserted /\ u \notin raced /\ rows'[u] = rows[u] /\ due'[u] = due[u]
             \/ /\ library[u] = NoRow /\ Waiting(u) = 0
                /\ rows'[u] = Zero /\ due'[u] = Zero
  <2>1. CASE u \notin inserted BY <1>1, <2>1
  <2>2. CASE u \in inserted
    <3>1. u \in found /\ Waiting(u) = 0 BY <1>1, <1>4, <2>2
    <3>2. view[u] = NoRow /\ rows[u] = NoRow BY <1>2, <2>2, <3>1
    <3>3. library[u] = NoRow BY <1>1, <3>2 DEF Balance, ScanCurrent
    <3> QED BY <1>1, <2>2, <3>1, <3>3
  <2> QED BY <2>1, <2>2
<1> HIDE DEF inserted, scanned
<1>7. CountsKept'
  <2> SUFFICES ASSUME NEW u \in Tracks \ raced', rows'[u] # NoRow
               PROVE  /\ rows'[u].plays + Waiting(u) = due'[u].plays
                      /\ rows'[u].skips = due'[u].skips
    BY <1>4 DEF CountsKept
  <2> QED BY <1>6 DEF Balance, CountsKept, Zero
<1>8. InSync' BY <1>1, <1>6 DEF Balance, InSync, Behind
<1> QED BY <1>1, <1>5, <1>7, <1>8 DEF Kept, Balance, MergeCurrent, ScanCurrent

LEMMA Applied ==
    ASSUME Inductive, ApplyMerge \/ ApplyMergeUnread \/ ApplyScan \/ ApplyFailure
    PROVE  Kept'
<1> USE DEF Inductive, Balance
<1>1. /\ UNCHANGED <<rows, pending, due>> /\ task' = "none" /\ view' = NoView
      /\ library' \in CountedTracks /\ raced \subseteq raced' /\ raced' \subseteq Tracks
  BY DEF ApplyMerge, ApplyMergeUnread, ApplyScan, ApplyFailure, Ended, StoreTyped, store,
         heard, LoopSound
<1>2. StoreTyped' BY <1>1 DEF StoreTyped, CountedTracks, NoView
<1>3. CountsKept' BY <1>1, WaitingSame DEF CountsKept
<1>4. InSync'
  <2>1. CASE ApplyMerge BY <2>1 DEF ApplyMerge, InSync
  <2>2. CASE ApplyMergeUnread
    BY <2>2 DEF ApplyMergeUnread, InSync, Behind
  <2>3. CASE ApplyScan BY <2>3 DEF ApplyScan, ScanCurrent, InSync
  <2>4. CASE ApplyFailure
    BY <2>4 DEF ApplyFailure, InSync, Behind, store
  <2> QED BY <2>1, <2>2, <2>3, <2>4
<1> QED BY <1>1, <1>2, <1>3, <1>4 DEF Kept, MergeCurrent, ScanCurrent

LEMMA Restarted == ASSUME Inductive, Restart PROVE Kept'
<1> USE DEF Inductive, Balance
<1>1. /\ rows' = rows /\ library' = rows /\ pending' = <<>> /\ task' = "none"
      /\ view' = NoView /\ raced' = {}
      /\ due' = [t \in Tracks |-> IF rows[t] = NoRow THEN Zero ELSE rows[t]]
  BY DEF Restart, Ended
<1>2. StoreTyped'
  BY <1>1 DEF StoreTyped, CountedTracks, NoView, Zero, Counts
<1>3. \A t \in Tracks : Waiting(t)' = 0
  <2> TAKE t \in Tracks
  <2>1. {i \in DOMAIN pending' : pending'[i].track = t} = {} BY <1>1
  <2>2. Cardinality({}) = 0 BY FS_EmptySet
  <2> QED BY <2>1, <2>2 DEF Waiting
<1>4. CountsKept'
  <2> SUFFICES ASSUME NEW t \in Tracks, rows[t] # NoRow
               PROVE  /\ rows[t].plays + 0 = due'[t].plays
                      /\ rows[t].skips = due'[t].skips
    BY <1>1, <1>3 DEF CountsKept
  <2>1. rows[t] \in Counts BY DEF StoreTyped, CountedTracks
  <2> QED BY <1>1, <2>1 DEF Counts
<1> QED BY <1>1, <1>2, <1>4 DEF Kept, InSync, MergeCurrent, ScanCurrent

LEMMA KeptNext == Inductive /\ [Next]_vars => Kept'
<1> SUFFICES ASSUME Inductive, [Next]_vars PROVE Kept'
  OBVIOUS
<1> DEFINE Quiet == UNCHANGED <<store, pending, due, worker>>
           Accounts == UNCHANGED <<store, worker>> /\ \E anchor \in BOOLEAN : Account(anchor)
<1>1. Quiet => Kept' BY Unmoved DEF Inductive, Kept
<1>2. Accounts => Kept' BY Accounting
<1>3. CASE UNCHANGED vars BY <1>1, <1>3 DEF vars, heard
<1>4. CASE RetryDone \/ RetryFails \/ NextUnavailable \/ ActNothing \/ SkipUncounted
           \/ SkipFails
  BY <1>1, <1>4 DEF RetryDone, RetryFails, NextUnavailable, ActNothing, SkipUncounted,
                    SkipFails, Quietly, heard
<1>5. CASE ActPlay \/ ActEnd \/ ActStop \/ RemoveFails
  BY <1>1, <1>5 DEF ActPlay, ActEnd, ActStop, RemoveFails, StartSession, StopService,
                    Quietly, heard
<1>6. CASE ActPause BY <1>1, <1>2, <1>6 DEF ActPause, Freeze, Quietly, heard
<1>7. CASE CommitPending \/ CountSkip BY <1>7, SavedPlay, SavedSkip
<1>8. CASE ActRemove \/ ActMerge BY <1>8, RemovedRow, TaskStarts
<1>9. CASE Tick
  <2>1. UNCHANGED <<store, worker>> BY <1>9 DEF Tick
  <2>2. UNCHANGED <<pending, due>> \/ \E anchor \in BOOLEAN : Account(anchor)
    BY <1>9 DEF Tick, Freeze, StartSession
  <2> QED BY <1>1, <1>2, <2>1, <2>2
<1>10. CASE User
  <2>1. CASE \E do \in {"none", "pause", "stop", "skip"} : Request(do)
    BY <1>1, <1>2, <2>1 DEF Request, Settle, heard
  <2>2. CASE \E t \in Tracks \union {NoTrack} : Advance(t)
    BY <1>1, <1>2, <2>2 DEF Advance, Settle, heard
  <2>3. CASE \E t \in Tracks : RemoveTrack(t)
    BY <1>1, <1>2, <2>3 DEF RemoveTrack, Removing, Settle, heard
  <2>4. CASE \E s, d \in Tracks : MergeDuplicates(s, d)
    BY <1>1, <1>2, <2>4 DEF MergeDuplicates, Removing, Settle, heard
  <2>5. CASE \E t \in Tracks : ResetPlayCount(t) \/ ReloadTrack(t)
    BY <2>5, SavedReset, Reloaded
  <2>6. CASE StartScan BY <2>6, TaskStarts
  <2>7. CASE Resume BY <1>1, <2>7 DEF Resume
  <2> QED BY <1>10, <2>1, <2>2, <2>3, <2>4, <2>5, <2>6, <2>7 DEF User
<1>11. CASE Worker BY <1>11, Reading, MergeSaved, Failing, ScanSaved DEF Worker
<1>12. CASE Started BY <1>1, <1>12 DEF Started, heard
<1>13. CASE BackendError BY <1>2, <1>13 DEF BackendError, Freeze
<1>14. CASE ApplyMerge \/ ApplyMergeUnread \/ ApplyScan \/ ApplyFailure
  BY <1>14, Applied
<1>15. CASE Restart BY <1>15, Restarted
<1> QED BY <1>3, <1>4, <1>5, <1>6, <1>7, <1>8, <1>9, <1>10, <1>11, <1>12, <1>13, <1>14,
           <1>15 DEF Next, MainLoop

LEMMA InitInductive == Init => Inductive
<1> SUFFICES ASSUME Init PROVE Inductive
  OBVIOUS
<1>1. StoreTyped BY DEF Init, StoreTyped, CountedTracks, Zero, Counts, NoView
<1>2. pending \in Seq(Registration)
  <2>1. <<>> \in Seq(Registration) OBVIOUS
  <2> QED BY <2>1 DEF Init
<1>3. Heard BY <1>2 DEF Init, Heard, HeardTyped, Unregistered
<1>4. LoopSound BY DEF Init, LoopSound, Transport, Stopped, Nothing
<1>5. \A t \in Tracks : Waiting(t) = 0
  <2> TAKE t \in Tracks
  <2>1. {i \in DOMAIN pending : pending[i].track = t} = {} BY DEF Init
  <2>2. Cardinality({}) = 0 BY FS_EmptySet
  <2> QED BY <2>1, <2>2 DEF Waiting
<1>6. CountsKept BY <1>5 DEF Init, CountsKept, Zero
<1> QED BY <1>1, <1>3, <1>4, <1>6 DEF Init, Inductive, Balance, Heard, InSync, MergeCurrent,
                                    ScanCurrent

LEMMA InductiveNext == Inductive /\ [Next]_vars => Inductive'
BY LoopNext, HeardNext, KeptNext DEF Inductive, Heard, Kept

\* Plays and skips are counted once each, whatever fails and whenever a merge
\* or a scan runs, unless it has crossed the count (mutate_track_statistics).
THEOREM CountsCorrect == Spec => []CountsKept
<1>1. Inductive => CountsKept BY DEF Inductive, Balance
<1> QED BY <1>1, InitInductive, InductiveNext, PTL DEF Spec

-----------------------------------------------------------------------------
(* Type correctness; the bounds hold while a command waits to count.       *)

Bounded ==
    /\ ui \in {"idle", "retry", "act", "advance"} /\ task \in {"none", "merge", "scan"}
    /\ step \in {"none", "started", "read", "committed", "reconciled", "reloaded", "failed"}
    /\ counted \in 0 .. MaxCounts /\ tasks \in 0 .. MaxTasks /\ faults \in 0 .. MaxFaults
    /\ pair \in [survivor : Tracks, duplicate : Tracks] \union {NoPair}
    /\ task = "merge" => pair # NoPair
    /\ job.do = "skip" => counted < MaxCounts \/ ~Skippable
    /\ job.do = "merge" => tasks < MaxTasks

LEMMA BoundedNext == Inductive /\ Bounded /\ [Next]_vars => Bounded'
<1> SUFFICES ASSUME Inductive, Bounded, [Next]_vars PROVE Bounded'
  OBVIOUS
<1> USE StatisticsAssumption DEF Bounded, Fault, Nothing
<1>0. LoopSound /\ HeardTyped BY DEF Inductive
<1>1. ASSUME NEW anchor \in BOOLEAN, Account(anchor)
      PROVE  /\ counted' \in 0 .. MaxCounts
             /\ counted < MaxCounts => counted' < MaxCounts \/ ~Skippable'
  <2>1. CASE UNCHANGED counted BY <2>1
  <2>2. CASE ReachThreshold(anchor)
    <3>1. /\ session \in Session /\ counted < MaxCounts /\ counted' = counted + 1
          /\ session' = [session EXCEPT !.anchored = anchor, !.status = "pending", !.reached = TRUE]
      BY <1>0, <2>2 DEF ReachThreshold, HeardTyped
    <3>2. session'.status = "pending" BY <3>1 DEF Session
    <3> QED BY <3>1, <3>2 DEF Skippable
  <2> QED BY <1>1, <2>1, <2>2 DEF Account
<1>2. CASE UNCHANGED vars BY <1>2 DEF vars, heard, loop, worker, Skippable
<1>3. CASE CommitPending
  BY <1>0, <1>3 DEF CommitPending, HeardTyped, Session, Skippable, loop, worker
<1>4. CASE RetryDone \/ RetryFails \/ NextUnavailable \/ ActNothing
  BY <1>4 DEF RetryDone, RetryFails, NextUnavailable, ActNothing, Finish, Quietly,
              Skippable, heard, worker
<1>5. CASE ActPause
  <2>1. counted' \in 0 .. MaxCounts BY <1>1, <1>5 DEF ActPause, Freeze, heard
  <2> QED BY <1>5, <2>1 DEF ActPause, Finish, Quietly, worker
<1>6. CASE ActPlay \/ ActEnd \/ ActStop
  BY <1>6 DEF ActPlay, ActEnd, ActStop, StartSession, StopService, Finish, Quietly, heard,
              worker
<1>7. CASE SkipUncounted \/ CountSkip \/ SkipFails
  BY <1>7 DEF SkipUncounted, CountSkip, SkipFails, Acting, Finish, Quietly, heard, worker
<1>8. CASE ActRemove \/ RemoveFails
  BY <1>8 DEF ActRemove, RemoveFails, StopLoaded, StopService, Finish, Quietly, heard, worker
<1>9. CASE ActMerge
  <2>1. job.track \in Tracks /\ job.other \in Tracks /\ tasks < MaxTasks
    BY <1>0, <1>9 DEF ActMerge, Acting, LoopSound
  <2> QED BY <1>9, <2>1 DEF ActMerge, StopLoaded, StopService, Finish, NoPair, heard
<1>10. CASE Tick
  <2>1. counted' \in 0 .. MaxCounts BY <1>1, <1>10 DEF Tick, Freeze, StartSession
  <2> QED BY <1>10, <2>1 DEF Tick, Begin, worker
<1>11. CASE User
  <2>1. ASSUME NEW do \in {"none", "pause", "stop", "skip"}, Request(do)
        PROVE  Bounded'
    <3>1. /\ counted' \in 0 .. MaxCounts
          /\ do = "skip" => counted' < MaxCounts \/ ~Skippable'
      BY <1>1, <2>1 DEF Request, Settle, heard
    <3> QED BY <2>1, <3>1 DEF Request, Begin, Plain, worker
  <2>2. CASE \E t \in Tracks \union {NoTrack} : Advance(t)
    BY <1>1, <2>2 DEF Advance, Settle, heard, worker
  <2>3. CASE \E t \in Tracks : RemoveTrack(t)
    BY <1>1, <2>3 DEF RemoveTrack, Removing, Settle, heard, worker
  <2>4. CASE \E s, d \in Tracks : MergeDuplicates(s, d)
    <3>1. counted' \in 0 .. MaxCounts
      BY <1>1, <2>4 DEF MergeDuplicates, Removing, Settle, heard
    <3> QED BY <2>4, <3>1 DEF MergeDuplicates, Removing, worker
  <2>5. CASE \E t \in Tracks : ResetPlayCount(t) \/ ReloadTrack(t)
    BY <1>0, <2>5 DEF ResetPlayCount, ReloadTrack, LoopSound, heard, loop, worker
  <2>6. CASE StartScan \/ Resume
    BY <1>0, <2>6 DEF StartScan, Resume, LoopSound, Beside, heard, loop, worker
  <2> QED BY <1>11, <2>1, <2>2, <2>3, <2>4, <2>5, <2>6 DEF User
<1>12. CASE Worker
  BY <1>12 DEF Worker, MergeReads, MergeCommits, MergeFails, FlushFails, ScanReconciles,
               ScanReloads, ScanFails, Goes, Beside, Skippable, heard, loop
<1>13. CASE Started
  BY <1>13 DEF Started, Skippable, heard, loop, worker
<1>14. CASE BackendError
  <2>1. counted' \in 0 .. MaxCounts BY <1>1, <1>14 DEF BackendError, Freeze
  <2> QED BY <1>0, <1>14, <2>1 DEF BackendError, LoopSound, worker
<1>15. CASE ApplyMerge \/ ApplyMergeUnread \/ ApplyScan \/ ApplyFailure \/ Restart
  BY <1>15 DEF ApplyMerge, ApplyMergeUnread, ApplyScan, ApplyFailure, Restart, Ended,
               Finish, Beside, Skippable, heard, loop
<1> QED BY <1>2, <1>3, <1>4, <1>5, <1>6, <1>7, <1>8, <1>9, <1>10, <1>11, <1>12, <1>13,
           <1>14, <1>15 DEF Next, MainLoop

\* Every variable keeps its type, and the bounds on the runs are kept by every
\* command that waits for its retries before it counts (skip_current_track).
THEOREM TypeCorrect == Spec => []TypeOK
<1>1. Init => Bounded
  BY StatisticsAssumption DEF Init, Bounded, Nothing, NoPair
<1>2. Inductive /\ Bounded => TypeOK
  <2> SUFFICES ASSUME Inductive, Bounded PROVE TypeOK
    OBVIOUS
  <2>1. pending \in Seq([session : SessionIds, track : Tracks])
    BY DEF Inductive, HeardTyped, Registration
  <2>2. task = "merge" => pair \in [survivor : Tracks, duplicate : Tracks]
    BY DEF Bounded
  <2>3. player \in Transport BY DEF Inductive, LoopSound
  <2> QED BY <2>1, <2>2, <2>3 DEF Inductive, Bounded, StoreTyped, CountedTracks, HeardTyped,
                                  TypeOK
<1> QED BY <1>1, <1>2, InitInductive, InductiveNext, BoundedNext, PTL DEF Spec

=============================================================================
