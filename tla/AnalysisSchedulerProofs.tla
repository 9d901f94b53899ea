----------------------- MODULE AnalysisSchedulerProofs -----------------------
(***************************************************************************)
(* The analysis supervisor forgets no work when it reports Idle, sends no  *)
(* track to two workers and keeps what the user asked for, for any number  *)
(* of tracks, workers, requests and failures.                              *)
(*                                                                         *)
(* AnalysedOnce is about the work and the workers; it is kept by the       *)
(* outcomes still to be read and by what is lined up (Alone, LinedUp): a   *)
(* track in any of them is in none of the others, and one that is out is   *)
(* in flight.  IdleMeansDone needs the history of the channel (InForce).   *)
(* ExplicitKept needs to know that explicit work is for rows that are or   *)
(* were there and asks for something, already in the channel (WorkProper). *)
(***************************************************************************)
EXTENDS AnalysisScheduler, FiniteSetTheorems, SequenceTheorems, WellFoundedInduction, TLAPS

\* Tracks that a dispatch or a teardown has put out of the books.
Exempt == shadowed \union stale

\* What two sequences of items or outcomes say of their tracks, but for some.
OnceEach(s, E) == \A i, j \in DOMAIN s : s[i].track = s[j].track => i = j \/ s[i].track \in E
Apart(s, r, E) == \A i \in DOMAIN s, j \in DOMAIN r :
                      s[i].track = r[j].track => s[i].track \in E
OutOf(s, S, E) == \A i \in DOMAIN s : s[i].track \in S => s[i].track \in E
Within(s, S)   == \A i \in DOMAIN s : s[i].track \in S

\* A track is with the workers once, and in flight until its outcome is read.
Alone ==
    /\ OnceEach(work, Exempt) /\ OnceEach(busy, Exempt) /\ OnceEach(outcomes, Exempt)
    /\ Apart(work, busy, Exempt) /\ Apart(work, outcomes, Exempt)
    /\ Apart(busy, outcomes, Exempt)
    /\ Within(work, inFlight \union Exempt) /\ Within(busy, inFlight \union Exempt)
    /\ Within(outcomes, inFlight \union Exempt)

\* What is lined up is not in flight.
LinedUp ==
    /\ OnceEach(pending, Exempt) /\ OutOf(pending, inFlight, Exempt)
    /\ pc = "send" => cur.track \notin inFlight \/ cur.track \in Exempt

\* There is a pool to dispatch to, and none after a teardown.
Pooled ==
    /\ pc \in {"dispatch", "send"} => pool
    /\ torn => pc = "top" /\ ~pool

IsSettings(i) == channel[i].kind = "settings"

\* The last settings command of the channel, or the supervisor's settings when
\* it has none, is the user's choice.
InForce ==
    /\ (\A i \in 1 .. Len(channel) : ~IsSettings(i)) => settings = prefs
    /\ \A i \in 1 .. Len(channel) :
          IsSettings(i) /\ (\A j \in i + 1 .. Len(channel) : ~IsSettings(j))
              => channel[i].caps = prefs

\* A supervisor that blocks after Idle has nothing to do but for tracks nobody has
\* woken it for, and those of a scan whose result is not yet applied.
Blocked ==
    pc = "idle" /\ channel = <<>> =>
        queue = <<>> /\ Needing(settings) \subseteq unwoken \union scan

Inductive == TypeOK /\ Pooled /\ Alone /\ LinedUp /\ InForce /\ Blocked

-----------------------------------------------------------------------------
(* Selections from sequences.                                              *)

\* Where the values of a selection come from: every place once.
Places(g, f, S) ==
    /\ g \in [DOMAIN Those(f, S) -> S]
    /\ \A k \in DOMAIN Those(f, S) : Those(f, S)[k] = f[g[k]]
    /\ \A k, l \in DOMAIN Those(f, S) : g[k] = g[l] => k = l
    /\ \A x \in S : \E k \in DOMAIN Those(f, S) : g[k] = x

\* A selection has the values at the numbers selected, each once.
LEMMA Selection ==
    ASSUME NEW f, NEW S \in SUBSET Nat, IsFiniteSet(S)
    PROVE  /\ Cardinality(S) \in Nat /\ DOMAIN Those(f, S) = 1 .. Cardinality(S)
           /\ \E g : Places(g, f, S)
<1> DEFINE n == Cardinality(S)
           Upto(i) == {j \in S : j <= i}
           rank == [i \in S |-> Cardinality(Upto(i))]
           g == [k \in 1 .. n |-> CHOOSE i \in S : Cardinality(Upto(i)) = k]
<1>1. n \in Nat  BY FS_CardinalityType
<1>2. ASSUME NEW i \in S
      PROVE  IsFiniteSet(Upto(i)) /\ rank[i] \in 1 .. n
  <2>1. IsFiniteSet(Upto(i)) /\ Cardinality(Upto(i)) <= n  BY FS_Subset
  <2>2. Cardinality(Upto(i)) \in Nat  BY <2>1, FS_CardinalityType
  <2>3. i \in Upto(i)  OBVIOUS
  <2>4. Cardinality(Upto(i)) # 0  BY <2>1, <2>3, FS_EmptySet
  <2> HIDE DEF Upto
  <2> QED  BY <1>1, <2>1, <2>2, <2>4
<1>3. ASSUME NEW i \in S, NEW j \in S, i < j PROVE rank[i] # rank[j]
  <2>1. Upto(i) \in SUBSET Upto(j) /\ j \in Upto(j) /\ j \notin Upto(i)
    <3>1. i \in Nat /\ j \in Nat /\ i < j  BY <1>3
    <3>2. \A m \in S : m \in Nat  OBVIOUS
    <3>3. \A m \in S : m <= i => m <= j  BY <3>1, <3>2
    <3>4. j <= j /\ ~(j <= i)  BY <3>1
    <3>5. i \in S /\ j \in S  OBVIOUS
    <3> QED  BY <3>3, <3>4, <3>5
  <2>2. IsFiniteSet(Upto(j))  BY <1>2
  <2> HIDE DEF Upto
  <2>3. Cardinality(Upto(j)) # Cardinality(Upto(i))  BY <2>1, <2>2, FS_Subset
  <2> QED  BY <2>3
<1>4. \A i, j \in S : rank[i] = rank[j] => i = j
  <2> SUFFICES ASSUME NEW i \in S, NEW j \in S, rank[i] = rank[j] PROVE i = j
    OBVIOUS
  <2> HIDE DEF rank
  <2>1. i \in Nat /\ j \in Nat  OBVIOUS
  <2>2. i < j \/ j < i \/ i = j  BY <2>1
  <2> QED  BY <1>3, <2>2
<1>5. rank \in Injection(S, 1 .. n)
  <2>1. rank \in [S -> 1 .. n]  BY <1>2
  <2> HIDE DEF rank
  <2> QED  BY <1>4, <2>1 DEF Injection, IsInjective
<1>6. IsFiniteSet(1 .. n) /\ Cardinality(1 .. n) = n  BY <1>1, FS_Interval
<1>7. rank \in Surjection(S, 1 .. n)  BY <1>5, <1>6, FS_Injection
<1>8. ASSUME NEW k \in 1 .. n PROVE \E i \in S : Cardinality(Upto(i)) = k
  BY <1>7 DEF Surjection
<1>9. ASSUME NEW k \in 1 .. n PROVE g[k] \in S /\ rank[g[k]] = k
  <2> HIDE DEF Upto
  <2> QED  BY <1>8
<1>10. g \in [1 .. n -> S]
  <2> HIDE DEF n, Upto, rank
  <2>1. \A k \in 1 .. n : (CHOOSE i \in S : Cardinality(Upto(i)) = k) \in S  BY <1>8
  <2> QED  BY <2>1
<1>12. /\ DOMAIN Those(f, S) = 1 .. n
       /\ \A k \in 1 .. n : Those(f, S)[k] = f[g[k]]
  BY DEF Those
<1>13. ASSUME NEW x \in S PROVE \E k \in 1 .. n : g[k] = x
  <2>1. rank[x] \in 1 .. n  BY <1>2
  <2> HIDE DEF rank, g
  <2>2. g[rank[x]] \in S /\ rank[g[rank[x]]] = rank[x]  BY <1>9, <2>1
  <2> QED  BY <1>4, <2>1, <2>2
<1> HIDE DEF g, rank
<1>14. \A k, l \in 1 .. n : g[k] = g[l] => k = l  BY <1>9
<1>15. Places(g, f, S)
  <2> HIDE DEF n
  <2> QED  BY <1>10, <1>12, <1>13, <1>14 DEF Places
<1> QED  BY <1>1, <1>12, <1>15

\* A selection from a sequence: its elements are the sequence's, each at most once.
LEMMA Subsequence ==
    ASSUME NEW T, NEW s \in Seq(T), NEW S \in SUBSET DOMAIN s
    PROVE  /\ Those(s, S) \in Seq(T) /\ IsFiniteSet(S)
           /\ \E g : Places(g, s, S)
<1>1. Len(s) \in Nat /\ DOMAIN s = 1 .. Len(s) /\ \A i \in DOMAIN s : s[i] \in T
  OBVIOUS
<1>2. IsFiniteSet(DOMAIN s)  BY <1>1, FS_Interval
<1>3. IsFiniteSet(S) /\ S \in SUBSET Nat  BY <1>1, <1>2, FS_Subset
<1>4. PICK g : Places(g, s, S)  BY <1>3, Selection
<1>5. DOMAIN Those(s, S) = 1 .. Cardinality(S) /\ Cardinality(S) \in Nat  BY <1>3, Selection
<1>6. \A k \in 1 .. Cardinality(S) : Those(s, S)[k] \in T  BY <1>1, <1>4, <1>5 DEF Places
<1>7. Those(s, S) = [k \in 1 .. Cardinality(S) |-> Those(s, S)[k]]  BY <1>5 DEF Those
<1> HIDE DEF Those
<1>8. Those(s, S) \in Seq(T)  BY <1>5, <1>6, <1>7
<1> QED  BY <1>3, <1>4, <1>5, <1>8

\* The elements of a sequence.
LEMMA Elements ==
    ASSUME NEW T, NEW s \in Seq(T)
    PROVE  \A i \in DOMAIN s : s[i] \in T
  OBVIOUS

\* A sequence that has elements of another, each at most once.
Drawn(r, s) ==
    \E h \in [DOMAIN r -> DOMAIN s] :
        /\ \A k \in DOMAIN r : r[k] = s[h[k]]
        /\ \A k, l \in DOMAIN r : h[k] = h[l] => k = l

\* What holds of the tracks of a sequence holds of one drawn from it.
LEMMA DrawnKeeps ==
    ASSUME NEW r, NEW s, NEW q, NEW E, NEW out, Drawn(r, s)
    PROVE  /\ OnceEach(s, E) => OnceEach(r, E)
           /\ OutOf(s, out, E) => OutOf(r, out, E)
           /\ Within(s, out) => Within(r, out)
           /\ Apart(s, q, E) => Apart(r, q, E)
           /\ Apart(q, s, E) => Apart(q, r, E)
<1>1. PICK h \in [DOMAIN r -> DOMAIN s] :
          /\ \A k \in DOMAIN r : r[k] = s[h[k]]
          /\ \A k, l \in DOMAIN r : h[k] = h[l] => k = l
  BY DEF Drawn
<1> QED  BY <1>1 DEF OnceEach, OutOf, Within, Apart

\* A selection is drawn from its sequence, and so are what stays of it without one
\* element, and a part of it.
LEMMA SelectionDrawn ==
    ASSUME NEW T, NEW s \in Seq(T), NEW S \in SUBSET DOMAIN s
    PROVE  Those(s, S) \in Seq(T) /\ Drawn(Those(s, S), s)
<1>1. PICK g : Places(g, s, S)  BY Subsequence
<1>2. g \in [DOMAIN Those(s, S) -> DOMAIN s]  BY <1>1 DEF Places
<1> QED  BY <1>1, <1>2, Subsequence DEF Places, Drawn

LEMMA RemovalDrawn ==
    ASSUME NEW T, NEW s \in Seq(T), NEW i \in DOMAIN s
    PROVE  /\ RemoveAt(s, i) \in Seq(T) /\ Len(RemoveAt(s, i)) = Len(s) - 1
           /\ Drawn(RemoveAt(s, i), s)
           /\ \A k \in DOMAIN RemoveAt(s, i) :
                 \E l \in DOMAIN s : l # i /\ RemoveAt(s, i)[k] = s[l]
<1> DEFINE r == RemoveAt(s, i)
           h == [k \in DOMAIN r |-> IF k < i THEN k ELSE k + 1]
<1>1. /\ Len(s) \in Nat /\ DOMAIN s = 1 .. Len(s) /\ i \in 1 .. Len(s)
  OBVIOUS
<1>2. /\ r \in Seq(T) /\ Len(r) = Len(s) - 1
      /\ \A k \in 1 .. Len(r) : r[k] = s[IF k < i THEN k ELSE k + 1]
  <2> DEFINE a == SubSeq(s, 1, i - 1)
             b == SubSeq(s, i + 1, Len(s))
  <2>1. r = a \o b  BY DEF RemoveAt
  <2>2. /\ a \in Seq(T) /\ Len(a) = i - 1 /\ \A k \in 1 .. i - 1 : a[k] = s[k]
        /\ b \in Seq(T) /\ Len(b) = Len(s) - i /\ \A k \in 1 .. Len(s) - i : b[k] = s[k + i]
    BY <1>1, SMTT(30)
  <2> HIDE DEF a, b
  <2>3. a \o b \in Seq(T) /\ Len(a \o b) = Len(s) - 1
    <3>1. a \in Seq(T) /\ b \in Seq(T)  BY <2>2
    <3>2. a \o b \in Seq(T) /\ Len(a \o b) = Len(a) + Len(b)  BY <3>1
    <3> QED  BY <1>1, <2>2, <3>2
  <2>4. ASSUME NEW k \in 1 .. Len(s) - 1
        PROVE  (a \o b)[k] = s[IF k < i THEN k ELSE k + 1]
    <3>1. CASE k < i  BY <1>1, <2>2, <3>1
    <3>2. CASE ~(k < i)
      <4>1. k - (i - 1) \in 1 .. Len(s) - i /\ (k - (i - 1)) + i = k + 1  BY <1>1, <3>2
      <4>2. (a \o b)[k] = b[k - (i - 1)]  BY <1>1, <2>2, <3>2
      <4> QED  BY <2>2, <3>2, <4>1, <4>2
    <3> QED  BY <3>1, <3>2
  <2> QED  BY <2>1, <2>3, <2>4
<1> HIDE DEF r
<1>3. DOMAIN r = 1 .. Len(s) - 1  BY <1>1, <1>2
<1>4. ASSUME NEW k \in DOMAIN r
      PROVE  h[k] \in DOMAIN s /\ h[k] # i /\ r[k] = s[h[k]]
  BY <1>1, <1>2, <1>3
<1>5. \A k, l \in DOMAIN r : h[k] = h[l] => k = l  BY <1>1, <1>3
<1>6. h \in [DOMAIN r -> DOMAIN s]  BY <1>4
<1> HIDE DEF h
<1>7. Drawn(r, s)  BY <1>4, <1>5, <1>6 DEF Drawn
<1> QED  BY <1>2, <1>4, <1>7 DEF r

LEMMA PartDrawn ==
    ASSUME NEW T, NEW s \in Seq(T), NEW n \in 0 .. Len(s)
    PROVE  /\ SubSeq(s, n + 1, Len(s)) \in Seq(T) /\ Drawn(SubSeq(s, n + 1, Len(s)), s)
           /\ \A k \in DOMAIN SubSeq(s, n + 1, Len(s)) :
                 k + n \in DOMAIN s /\ SubSeq(s, n + 1, Len(s))[k] = s[k + n]
<1> DEFINE r == SubSeq(s, n + 1, Len(s))
<1>1. Len(s) \in Nat /\ DOMAIN s = 1 .. Len(s) /\ n \in Nat /\ n <= Len(s)  OBVIOUS
<1>2. \A k \in n + 1 .. Len(s) : s[k] \in T  BY <1>1
<1>3. /\ r \in Seq(T) /\ Len(r) = (IF n + 1 <= Len(s) THEN Len(s) - (n + 1) + 1 ELSE 0)
      /\ \A k \in 1 .. Len(s) - (n + 1) + 1 : r[k] = s[(n + 1) + k - 1]
  BY <1>1, <1>2, SubSeqProperties
<1> HIDE DEF r
<1>4. DOMAIN r = 1 .. Len(r) /\ Len(r) \in Nat  BY <1>3
<1>5. Len(r) <= Len(s) - n
  <2>1. Len(s) \in Nat /\ n \in Nat /\ n <= Len(s)  OBVIOUS
  <2>2. Len(r) = (IF n + 1 <= Len(s) THEN Len(s) - (n + 1) + 1 ELSE 0)  BY <1>3
  <2> QED  BY <2>1, <2>2
<1>6. ASSUME NEW k \in DOMAIN r PROVE k + n \in DOMAIN s /\ r[k] = s[k + n]
  <2>1. k \in 1 .. Len(s) - n  BY <1>1, <1>4, <1>5
  <2>2. (n + 1) + k - 1 = k + n /\ k \in 1 .. Len(s) - (n + 1) + 1  BY <1>1, <2>1
  <2>3. k + n \in DOMAIN s  BY <1>1, <2>1
  <2> QED  BY <1>3, <2>2, <2>3
<1> DEFINE h == [k \in DOMAIN r |-> k + n]
<1>7. h \in [DOMAIN r -> DOMAIN s]  BY <1>6
<1>8. \A k \in DOMAIN r : r[k] = s[h[k]]  BY <1>6
<1>9. \A k, l \in DOMAIN r : h[k] = h[l] => k = l  BY <1>1, <1>4
<1> HIDE DEF h
<1>10. Drawn(r, s)  BY <1>7, <1>8, <1>9 DEF Drawn
<1> QED  BY <1>3, <1>6, <1>10 DEF r

\* Nothing is drawn from any sequence, and its tail from one that is not empty.
LEMMA TailDrawn ==
    ASSUME NEW T, NEW s \in Seq(T)
    PROVE  /\ Drawn(<<>>, s)
           /\ s # <<>> => /\ Head(s) \in T /\ Tail(s) \in Seq(T) /\ Drawn(Tail(s), s)
                          /\ Len(Tail(s)) = Len(s) - 1 /\ 1 \in DOMAIN s /\ Head(s) = s[1]
                          /\ \A k \in DOMAIN Tail(s) : k + 1 \in DOMAIN s /\ k + 1 # 1
                                                       /\ Tail(s)[k] = s[k + 1]
<1>1. Drawn(<<>>, s)
  <2>1. DOMAIN <<>> = {}  OBVIOUS
  <2> DEFINE h == [k \in {} |-> 0]
  <2>2. h \in [DOMAIN <<>> -> DOMAIN s]  BY <2>1
  <2> HIDE DEF h
  <2> QED  BY <2>1, <2>2 DEF Drawn
<1>2. ASSUME s # <<>>
      PROVE  /\ Head(s) \in T /\ Tail(s) \in Seq(T) /\ Drawn(Tail(s), s)
             /\ Len(Tail(s)) = Len(s) - 1 /\ 1 \in DOMAIN s /\ Head(s) = s[1]
             /\ \A k \in DOMAIN Tail(s) : k + 1 \in DOMAIN s /\ k + 1 # 1
                                          /\ Tail(s)[k] = s[k + 1]
  <2>1. Len(s) \in Nat /\ 1 <= Len(s) /\ DOMAIN s = 1 .. Len(s)  BY <1>2
  <2>2. /\ Tail(s) \in Seq(T) /\ Len(Tail(s)) = Len(s) - 1 /\ DOMAIN Tail(s) = 1 .. Len(s) - 1
        /\ \A k \in 1 .. Len(s) - 1 : Tail(s)[k] = s[k + 1]
    BY <1>2, <2>1
  <2> DEFINE h == [k \in DOMAIN Tail(s) |-> k + 1]
  <2>3. h \in [DOMAIN Tail(s) -> DOMAIN s]  BY <2>1, <2>2
  <2>4. /\ \A k \in DOMAIN Tail(s) : Tail(s)[k] = s[h[k]]
        /\ \A k, l \in DOMAIN Tail(s) : h[k] = h[l] => k = l
    BY <2>1, <2>2
  <2> HIDE DEF h
  <2>5. Drawn(Tail(s), s)  BY <2>3, <2>4 DEF Drawn
  <2>6. Head(s) \in T /\ Head(s) = s[1]  BY <1>2, <2>1
  <2> QED  BY <2>1, <2>2, <2>5, <2>6
<1> QED  BY <1>1, <1>2

\* What holds of the tracks of two sequences that are apart holds of both in a row.
LEMMA ConcatKeeps ==
    ASSUME NEW T, NEW s \in Seq(T), NEW r \in Seq(T), NEW E, NEW out,
           OnceEach(s, E), OnceEach(r, E), Apart(s, r, E), OutOf(s, out, E), OutOf(r, out, E)
    PROVE  OnceEach(s \o r, E) /\ OutOf(s \o r, out, E)
<1>1. /\ Len(s) \in Nat /\ Len(r) \in Nat /\ DOMAIN s = 1 .. Len(s) /\ DOMAIN r = 1 .. Len(r)
      /\ DOMAIN (s \o r) = 1 .. Len(s) + Len(r)
  OBVIOUS
<1>2. ASSUME NEW i \in DOMAIN (s \o r)
      PROVE  \/ i \in DOMAIN s /\ (s \o r)[i] = s[i]
             \/ i - Len(s) \in DOMAIN r /\ (s \o r)[i] = r[i - Len(s)] /\ i \notin DOMAIN s
  BY <1>1
<1>3. OutOf(s \o r, out, E)  BY <1>2 DEF OutOf
<1>4. ASSUME NEW i \in DOMAIN (s \o r), NEW j \in DOMAIN (s \o r),
             (s \o r)[i].track = (s \o r)[j].track
      PROVE  i = j \/ (s \o r)[i].track \in E
  <2>1. CASE i \in DOMAIN s /\ j \in DOMAIN s  BY <1>2, <1>4, <2>1 DEF OnceEach
  <2>2. CASE i \in DOMAIN s /\ j \notin DOMAIN s  BY <1>2, <1>4, <2>2 DEF Apart
  <2>3. CASE i \notin DOMAIN s /\ j \in DOMAIN s  BY <1>2, <1>4, <2>3 DEF Apart
  <2>4. CASE i \notin DOMAIN s /\ j \notin DOMAIN s
    <3>1. i - Len(s) = j - Len(s) \/ (s \o r)[i].track \in E
      BY <1>2, <1>4, <2>4 DEF OnceEach
    <3>2. i \in Nat /\ j \in Nat  BY <1>1
    <3> QED  BY <1>1, <3>1, <3>2
  <2> QED  BY <2>1, <2>2, <2>3, <2>4
<1> QED  BY <1>3, <1>4 DEF OnceEach

-----------------------------------------------------------------------------
(* The order of the work.                                                  *)

\* Explicit items keep their order and their tracks.
LEMMA ExplicitItems ==
    ASSUME NEW items \in Seq(Item), NEW E, NEW out
    PROVE  /\ Explicit(items) \in Seq(Item)
           /\ OnceEach(items, E) => OnceEach(Explicit(items), E)
           /\ OutOf(items, out, E) => OutOf(Explicit(items), out, E)
<1> DEFINE S == {i \in DOMAIN items : items[i].explicit}
<1>1. S \in SUBSET DOMAIN items /\ Explicit(items) = Those(items, S)  BY DEF Explicit
<1> HIDE DEF S
<1> QED  BY <1>1, SelectionDrawn, DrawnKeeps

\* A pass over the queue lines up items of tracks that are not in flight, nor
\* lined up already (drain_ready_explicit_work).
LEMMA ReadyItems ==
    ASSUME NEW waiting \in Seq(Item), NEW lineup \in Seq(Item), NEW flying, NEW E,
           OnceEach(lineup, E), OutOf(lineup, flying, E)
    PROVE  /\ Ready(waiting, lineup, flying).queue \in Seq(Item)
           /\ Ready(waiting, lineup, flying).pending \in Seq(Item)
           /\ OnceEach(Ready(waiting, lineup, flying).pending, E)
           /\ OutOf(Ready(waiting, lineup, flying).pending, flying, E)
<1> DEFINE free   == {i \in DOMAIN waiting : waiting[i].track \notin flying}
           fresh  == {i \in free : /\ waiting[i].track \notin TracksOf(lineup)
                                  /\ \A j \in DOMAIN waiting :
                                        j < i => waiting[j].track # waiting[i].track}
           passed == {i \in DOMAIN waiting :
                        Len(lineup) + Cardinality({j \in fresh : j < i}) < BatchSize}
           ready  == Those(waiting, fresh \intersect passed)
<1>1. /\ Ready(waiting, lineup, flying).queue
             = Those(waiting, DOMAIN waiting \ passed) \o Those(waiting, passed \ free)
      /\ Ready(waiting, lineup, flying).pending = lineup \o ready
  BY DEF Ready
<1>2. /\ DOMAIN waiting \ passed \in SUBSET DOMAIN waiting
      /\ passed \ free \in SUBSET DOMAIN waiting
      /\ fresh \intersect passed \in SUBSET DOMAIN waiting
  OBVIOUS
<1>3. \A i, j \in fresh : waiting[i].track = waiting[j].track => i = j
  <2> SUFFICES ASSUME NEW i \in fresh, NEW j \in fresh, waiting[i].track = waiting[j].track
               PROVE  i = j
    OBVIOUS
  <2>1. i \in DOMAIN waiting /\ j \in DOMAIN waiting  OBVIOUS
  <2>2. ~(i < j) /\ ~(j < i)  BY <2>1
  <2>3. i \in Nat /\ j \in Nat  BY <2>1
  <2> QED  BY <2>2, <2>3
<1>4. \A i \in fresh : waiting[i].track \notin flying /\ waiting[i].track \notin TracksOf(lineup)
  OBVIOUS
<1> HIDE DEF free, fresh, passed
<1>5. PICK g : Places(g, waiting, fresh \intersect passed)  BY <1>2, Subsequence
<1>6. ready \in Seq(Item)  BY <1>2, Subsequence
<1>7. \A k \in DOMAIN ready :
          /\ g[k] \in fresh /\ ready[k] = waiting[g[k]]
          /\ \A l \in DOMAIN ready : g[k] = g[l] => k = l
  BY <1>5 DEF Places
<1> HIDE DEF ready
<1>8. OnceEach(ready, E) /\ OutOf(ready, flying, E)
  BY <1>3, <1>4, <1>7 DEF OnceEach, OutOf
<1>9. Apart(lineup, ready, E)  BY <1>4, <1>7 DEF Apart, TracksOf
<1>10. OnceEach(lineup \o ready, E) /\ OutOf(lineup \o ready, flying, E)
  BY <1>6, <1>8, <1>9, ConcatKeeps
<1>11. Those(waiting, DOMAIN waiting \ passed) \in Seq(Item)
       /\ Those(waiting, passed \ free) \in Seq(Item)
  BY <1>2, Subsequence
<1> QED  BY <1>1, <1>6, <1>10, <1>11

\* The same of what is lined up once explicit work goes first.
LEMMA PrioritisedItems ==
    ASSUME NEW waiting \in Seq(Item), NEW lineup \in Seq(Item), NEW flying, NEW E,
           OnceEach(lineup, E), OutOf(lineup, flying, E)
    PROVE  /\ Prioritised(waiting, lineup, flying).queue \in Seq(Item)
           /\ Prioritised(waiting, lineup, flying).pending \in Seq(Item)
           /\ OnceEach(Prioritised(waiting, lineup, flying).pending, E)
           /\ OutOf(Prioritised(waiting, lineup, flying).pending, flying, E)
<1>1. CASE waiting = <<>>  BY <1>1 DEF Prioritised
<1>2. CASE waiting # <<>>
  <2>1. Prioritised(waiting, lineup, flying) = Ready(waiting, Explicit(lineup), flying)
    BY <1>2 DEF Prioritised
  <2>2. /\ Explicit(lineup) \in Seq(Item) /\ OnceEach(Explicit(lineup), E)
        /\ OutOf(Explicit(lineup), flying, E)
    BY ExplicitItems
  <2> QED  BY <2>1, <2>2, ReadyItems
<1> QED  BY <1>1, <1>2

\* What a request adds to the queue are items (apply_command).
LEMMA QueuedItems ==
    ASSUME NEW request, request.tracks \in Seq(Tracks), request.caps \in SUBSET Caps
    PROVE  /\ Queued(request) \in Seq(Item)
           /\ \A i \in DOMAIN Queued(request) : Queued(request)[i].track \in Tracks
<1> DEFINE waiting == {queue[i].track : i \in DOMAIN queue}
           S == {i \in DOMAIN request.tracks : request.tracks[i] \notin waiting}
           fresh == Those(request.tracks, S)
           Wanted(t) == [track |-> t, caps |-> request.caps, explicit |-> TRUE]
<1>1. Queued(request) = [i \in DOMAIN fresh |-> Wanted(fresh[i])]  BY DEF Queued
<1>2. S \in SUBSET DOMAIN request.tracks  OBVIOUS
<1> HIDE DEF S
<1>3. fresh \in Seq(Tracks)  BY <1>2, Subsequence
<1> HIDE DEF fresh
<1>4. Len(fresh) \in Nat /\ DOMAIN fresh = 1 .. Len(fresh)
      /\ \A i \in DOMAIN fresh : fresh[i] \in Tracks
  BY <1>3
<1>5. \A i \in DOMAIN fresh : Wanted(fresh[i]) \in Item  BY <1>4 DEF Item
<1>6. Queued(request) \in [1 .. Len(fresh) -> Item]  BY <1>1, <1>4, <1>5
<1>7. Queued(request) \in Seq(Item)  BY <1>4, <1>6
<1>8. \A i \in DOMAIN fresh : Queued(request)[i].track = fresh[i]  BY <1>1
<1> QED  BY <1>1, <1>4, <1>7, <1>8

\* The command to be applied leaves well-typed settings, queue and debts.
LEMMA CommandTypes ==
    ASSUME channel \in Seq(Commands), settings \in SUBSET Caps, queue \in Seq(Item),
           owed \in SUBSET Tracks, pool \in BOOLEAN
    PROVE  /\ AfterCommand.settings \in SUBSET Caps /\ AfterCommand.queue \in Seq(Item)
           /\ AfterCommand.owed \in SUBSET Tracks /\ AfterCommand.joins \in BOOLEAN
           /\ (IF channel = <<>> THEN <<>> ELSE Tail(channel)) \in Seq(Commands)
           /\ AfterCommand.joins => pool
<1> DEFINE command == IF channel = <<>> THEN [kind |-> "wake"] ELSE Head(channel)
           taken == IF command.kind = "explicit" THEN Queued(command) ELSE <<>>
<1>1. AfterCommand =
         [settings |-> IF command.kind = "settings" THEN command.caps ELSE settings,
          queue    |-> queue \o taken,
          owed     |-> owed \union {taken[i].track : i \in DOMAIN taken},
          joins    |-> command.kind = "respawn" /\ pool]
  BY DEF AfterCommand
<1>2. command \in Commands  BY DEF Commands
<1> HIDE DEF command
<1>3. command.kind = "settings" => command.caps \in SUBSET Caps  BY <1>2 DEF Commands
<1>4. taken \in Seq(Item) /\ \A i \in DOMAIN taken : taken[i].track \in Tracks
  <2>1. CASE command.kind = "explicit"
    <3>1. command.tracks \in Seq(Tracks) /\ command.caps \in SUBSET Caps
      BY <1>2, <2>1 DEF Commands
    <3> QED  BY <2>1, <3>1, QueuedItems
  <2>2. CASE command.kind # "explicit"  BY <2>2
  <2> QED  BY <2>1, <2>2
<1> HIDE DEF taken
<1>5. (IF channel = <<>> THEN <<>> ELSE Tail(channel)) \in Seq(Commands)  OBVIOUS
<1>6. {taken[i].track : i \in DOMAIN taken} \in SUBSET Tracks  BY <1>4
<1> QED  BY <1>1, <1>3, <1>4, <1>5, <1>6

\* The lesser of two numbers.
LEMMA LesserOfTwo ==
    ASSUME NEW m \in Nat, NEW n \in Nat
    PROVE  Min({m, n}) \in Nat /\ Min({m, n}) <= m /\ Min({m, n}) \in {m, n}
<1>1. CASE m <= n
  <2>1. m \in {m, n} /\ \A y \in {m, n} : m <= y  BY <1>1
  <2> QED  BY <2>1 DEF Min
<1>2. CASE n <= m
  <2>1. n \in {m, n} /\ \A y \in {m, n} : n <= y  BY <1>2
  <2> QED  BY <2>1 DEF Min
<1> QED  BY <1>1, <1>2

\* The sweep lines up different tracks that are not in flight, and nothing only
\* when nothing is needed (tracks_needing_analysis).
LEMMA SweptItems ==
    ASSUME settings \in SUBSET Caps, inFlight \in SUBSET Tracks, NEW E
    PROVE  /\ Swept \in Seq(Item) /\ OnceEach(Swept, E) /\ OutOf(Swept, inFlight, E)
           /\ Swept = <<>> /\ inFlight = {} => Needing(settings) = {}
<1> DEFINE found == Those([t \in Tracks |-> t], Needing(settings))
           limit == Min({Len(found), BatchSize + Cardinality(inFlight)})
           some  == SubSeq(found, 1, limit)
           left  == {i \in DOMAIN some : some[i] \notin inFlight}
           fresh == Those(some, left)
           Wanted(t) == [track |-> t, caps |-> settings, explicit |-> FALSE]
<1>1. Swept = [i \in DOMAIN fresh |-> Wanted(fresh[i])]  BY DEF Swept, Fresh
<1>2. /\ Needing(settings) \in SUBSET Tracks /\ Needing(settings) \in SUBSET Nat
      /\ IsFiniteSet(Needing(settings)) /\ IsFiniteSet(inFlight)
  <2>1. Needing(settings) \in SUBSET Tracks  BY DEF Needing
  <2> QED  BY <2>1, AnalysisAssumption, FS_Subset
<1>3. PICK g : Places(g, [t \in Tracks |-> t], Needing(settings))  BY <1>2, Selection
<1>4. /\ DOMAIN found = 1 .. Cardinality(Needing(settings))
      /\ Cardinality(Needing(settings)) \in Nat
  BY <1>2, Selection
<1>5. ASSUME NEW k \in DOMAIN found PROVE found[k] = g[k] /\ found[k] \in Tracks
  <2>1. g[k] \in Needing(settings) /\ found[k] = [t \in Tracks |-> t][g[k]]
    BY <1>3, <1>5 DEF Places
  <2> HIDE DEF found
  <2> QED  BY <1>2, <2>1
<1>6. \A k, l \in DOMAIN found : found[k] = found[l] => k = l
  BY <1>3, <1>5 DEF Places
<1>7. found = [k \in 1 .. Cardinality(Needing(settings)) |-> found[k]]  BY <1>4 DEF Those
<1> HIDE DEF found
<1>8. found \in Seq(Tracks) /\ Len(found) = Cardinality(Needing(settings))
  BY <1>4, <1>5, <1>7
<1>9. /\ BatchSize + Cardinality(inFlight) \in Nat /\ BatchSize + Cardinality(inFlight) # 0
      /\ Len(found) \in Nat
  BY <1>2, <1>8, FS_CardinalityType, AnalysisAssumption
<1>10. limit \in Nat /\ limit <= Len(found)
       /\ limit \in {Len(found), BatchSize + Cardinality(inFlight)}
  BY <1>9, LesserOfTwo
<1> HIDE DEF limit
<1>11. \A k \in 1 .. limit : k \in DOMAIN found /\ found[k] \in Tracks
  <2>1. DOMAIN found = 1 .. Len(found)  BY <1>8
  <2>2. \A k \in 1 .. limit : k \in 1 .. Len(found)  BY <1>9, <1>10
  <2> QED  BY <1>5, <2>1, <2>2
<1>12. some \in Seq(Tracks) /\ Len(some) = limit /\ \A k \in 1 .. limit : some[k] = found[k]
  BY <1>8, <1>10, <1>11
<1> HIDE DEF some
<1>13. \A k, l \in DOMAIN some : some[k] = some[l] => k = l
  <2>1. DOMAIN some = 1 .. limit  BY <1>12
  <2> QED  BY <1>6, <1>11, <1>12, <2>1
<1>14. left \in SUBSET DOMAIN some /\ \A i \in left : some[i] \notin inFlight
  OBVIOUS
<1>15. inFlight = {} => left = DOMAIN some  OBVIOUS
<1> HIDE DEF left
<1>16. fresh \in Seq(Tracks)  BY <1>12, <1>14, Subsequence
<1>17. PICK f : Places(f, some, left)  BY <1>12, <1>14, Subsequence
<1>18. /\ \A k \in DOMAIN fresh : fresh[k] \notin inFlight
       /\ \A k, l \in DOMAIN fresh : fresh[k] = fresh[l] => k = l
       /\ \A i \in left : DOMAIN fresh # {}
  BY <1>13, <1>14, <1>17 DEF Places
<1> HIDE DEF fresh
<1>19. /\ Len(fresh) \in Nat /\ DOMAIN fresh = 1 .. Len(fresh)
       /\ \A i \in DOMAIN fresh : fresh[i] \in Tracks
  BY <1>16
<1>20. Swept \in Seq(Item)
  <2>1. \A i \in DOMAIN fresh : Wanted(fresh[i]) \in Item  BY <1>19 DEF Item
  <2>2. Swept \in [1 .. Len(fresh) -> Item]  BY <1>1, <1>19, <2>1
  <2> QED  BY <1>19, <2>2
<1>21. DOMAIN Swept = DOMAIN fresh /\ \A i \in DOMAIN fresh : Swept[i].track = fresh[i]
  BY <1>1
<1>22. OnceEach(Swept, E) /\ OutOf(Swept, inFlight, E)
  BY <1>18, <1>21 DEF OnceEach, OutOf
<1>23. ASSUME Swept = <<>>, inFlight = {} PROVE Needing(settings) = {}
  <2>1. DOMAIN fresh = {}  BY <1>21, <1>23
  <2>2. DOMAIN some = {}  BY <1>15, <1>18, <1>23, <2>1
  <2>3. limit = 0
    <3>1. DOMAIN some = 1 .. limit  BY <1>12
    <3>2. 1 \notin 1 .. limit  BY <2>2, <3>1
    <3> QED  BY <1>10, <3>2
  <2>4. Cardinality(Needing(settings)) = 0  BY <1>8, <1>9, <1>10, <2>3
  <2> QED  BY <1>2, <2>4, FS_EmptySet
<1> QED  BY <1>20, <1>22, <1>23

-----------------------------------------------------------------------------
(* Types.                                                                  *)

\* A command the supervisor takes (apply_command); a respawn joins the pool.
LEMMA ApplyTypes ==
    ASSUME TypeOK, ApplyCommand
    PROVE  /\ channel' \in Seq(Commands) /\ settings' \in SUBSET Caps
           /\ owed' \in SUBSET Tracks /\ AfterCommand.queue \in Seq(Item)
           /\ AfterCommand.joins \in BOOLEAN
           /\ pool' \in BOOLEAN /\ (pool' => pool) /\ (~pool' => Quiet)
           /\ (AfterCommand.joins => ~pool') /\ (~AfterCommand.joins => pool' = pool)
<1>1. /\ channel \in Seq(Commands) /\ settings \in SUBSET Caps /\ queue \in Seq(Item)
      /\ owed \in SUBSET Tracks /\ pool \in BOOLEAN /\ (~pool => Quiet)
  BY DEF TypeOK
<1>2. /\ AfterCommand.settings \in SUBSET Caps /\ AfterCommand.queue \in Seq(Item)
      /\ AfterCommand.owed \in SUBSET Tracks /\ AfterCommand.joins \in BOOLEAN
      /\ (IF channel = <<>> THEN <<>> ELSE Tail(channel)) \in Seq(Commands)
      /\ AfterCommand.joins => pool
  BY <1>1, CommandTypes
<1>3. /\ channel' = IF channel = <<>> THEN <<>> ELSE Tail(channel)
      /\ settings' = AfterCommand.settings /\ owed' = AfterCommand.owed
      /\ (AfterCommand.joins => Quiet /\ pool' = FALSE)
      /\ (~AfterCommand.joins => pool' = pool)
  BY DEF ApplyCommand, Join
<1>4. channel' \in Seq(Commands) /\ settings' \in SUBSET Caps /\ owed' \in SUBSET Tracks
  BY <1>2, <1>3
<1>5. CASE AfterCommand.joins  BY <1>1, <1>2, <1>3, <1>4, <1>5, Zenon
<1>6. CASE ~AfterCommand.joins
  <2>1. pool' = pool  BY <1>3, <1>6
  <2>2. CASE pool = TRUE  BY <1>2, <1>4, <1>6, <2>1, <2>2
  <2>3. CASE pool = FALSE  BY <1>1, <1>2, <1>4, <1>6, <2>1, <2>3
  <2> QED  BY <1>1, <2>2, <2>3
<1> QED  BY <1>5, <1>6

\* The item in front is taken from what is lined up; nothing is dispatched then.
LEMMA PopTypes ==
    ASSUME TypeOK, PopFront, cur \in Item
    PROVE  pending' \in Seq(Item) /\ shadowed' \in SUBSET Tracks /\ cur' = NoItem
<1>1. pending \in Seq(Item) /\ shadowed \in SUBSET Tracks  BY DEF TypeOK
<1>2. pending # <<>> => Head(pending) \in Item /\ Tail(pending) \in Seq(Item)
  BY <1>1, TailDrawn
<1>3. \A item \in Item : item.track \in Tracks  BY DEF Item
<1> QED  BY <1>1, <1>2, <1>3 DEF PopFront

\* A worker's item goes, its outcome is sent, and its track is stamped or not.
LEMMA ReportTypes ==
    ASSUME TypeOK, NEW i \in DOMAIN busy, NEW refused \in BOOLEAN, Report(i, refused)
    PROVE  /\ busy[i] \in Item /\ busy' \in Seq(Item) /\ Len(busy') <= Workers
           /\ outcomes' \in Seq([track : Tracks, rejected : BOOLEAN])
           /\ owed' \in SUBSET Tracks /\ busy # <<>>
<1>1. /\ busy \in Seq(Item) /\ Len(busy) <= Workers /\ owed \in SUBSET Tracks
      /\ outcomes \in Seq([track : Tracks, rejected : BOOLEAN])
  BY DEF TypeOK
<1>2. RemoveAt(busy, i) \in Seq(Item) /\ Len(RemoveAt(busy, i)) = Len(busy) - 1
  BY <1>1, RemovalDrawn
<1>3. busy[i] \in Item /\ busy # <<>> /\ Len(busy) \in Nat  BY <1>1
<1>4. [track |-> busy[i].track, rejected |-> refused] \in [track : Tracks, rejected : BOOLEAN]
  BY <1>3 DEF Item
<1>5. Len(busy) - 1 <= Workers  BY <1>1, <1>3, AnalysisAssumption
<1> HIDE DEF Item
<1>6. /\ busy' = RemoveAt(busy, i)
      /\ outcomes' = Append(outcomes, [track |-> busy[i].track, rejected |-> refused])
      /\ owed' = IF busy[i].explicit THEN owed \ {busy[i].track} ELSE owed
  BY DEF Report
<1>7. outcomes' \in Seq([track : Tracks, rejected : BOOLEAN])  BY <1>1, <1>4, <1>6
<1> QED  BY <1>1, <1>2, <1>3, <1>5, <1>6, <1>7

\* The stamps of a track grow by what was attempted (record_analysis).
LEMMA StampTypes ==
    ASSUME TypeOK, NEW item \in Item, Stamp(item.track, item.caps)
    PROVE  stamped' \in [Tracks -> SUBSET Caps] /\ current' \in [Tracks -> BOOLEAN]
<1>1. item.track \in Tracks /\ item.caps \in SUBSET Caps  BY DEF Item
<1>2. stamped \in [Tracks -> SUBSET Caps] /\ current \in [Tracks -> BOOLEAN]  BY DEF TypeOK
<1>3. stamped[item.track] \union item.caps \in SUBSET Caps  BY <1>1, <1>2
<1>4. stamped' = [stamped EXCEPT ![item.track] = stamped[item.track] \union item.caps]
  BY <1>1, <1>2 DEF Stamp
<1>5. stamped' \in [Tracks -> SUBSET Caps]  BY <1>1, <1>2, <1>3, <1>4
<1>6. current' \in [Tracks -> BOOLEAN]  BY <1>1, <1>2 DEF Stamp
<1> QED  BY <1>5, <1>6

\* Nothing starts at a worker without a pool.
LEMMA NothingAtWork ==
    ASSUME TypeOK, ~pool
    PROVE  work = <<>> /\ busy = <<>>
  BY DEF TypeOK, Quiet

\* Every step of the user, of a scan and of the process keeps the types.
LEMMA TypesOutside ==
    ASSUME TypeOK, User \/ Runtime \/ Restart
    PROVE  TypeOK'
<1> USE AnalysisAssumption, NoItemAssumption
    DEF TypeOK, rows, lined, threads, super, history, bounds, Fault, Command, Edit, Quiet
<1>1. ASSUME NEW command \in Commands, Send(command) PROVE channel' \in Seq(Commands)
  BY <1>1 DEF Send
<1>2. ASSUME NEW caps \in Preferences, ChangeSettings(caps) PROVE TypeOK'
  <2>1. caps \in SUBSET Caps /\ [kind |-> "settings", caps |-> caps] \in Commands
    BY DEF Commands
  <2>2. channel' \in Seq(Commands)  BY <1>1, <1>2, <2>1 DEF ChangeSettings
  <2> QED  BY <1>2, <2>1, <2>2 DEF ChangeSettings
<1>3. CASE ChangePool
  <2>1. [kind |-> "respawn"] \in Commands  BY DEF Commands
  <2>2. channel' \in Seq(Commands)  BY <1>1, <1>3, <2>1 DEF ChangePool
  <2> QED  BY <1>3, <2>2 DEF ChangePool
<1>4. ASSUME NEW request \in Requests, RequestExplicitRun(request) PROVE TypeOK'
  <2> DEFINE asked == request.tracks
             S == {i \in DOMAIN asked : NeedsAny(asked[i], request.caps)}
             command == [kind |-> "explicit", tracks |-> Those(asked, S), caps |-> request.caps]
  <2>1. asked \in Seq(Tracks) /\ request.caps \in SUBSET Caps  OBVIOUS
  <2>2. S \in SUBSET DOMAIN asked  OBVIOUS
  <2>3. Send(command)  BY <1>4 DEF RequestExplicitRun
  <2> HIDE DEF S
  <2>4. Those(asked, S) \in Seq(Tracks)  BY <2>1, <2>2, Subsequence
  <2>5. command \in Commands  BY <2>1, <2>4 DEF Commands
  <2>6. channel' \in Seq(Commands)  BY <1>1, <2>3, <2>5
  <2> HIDE DEF command, asked
  <2> QED  BY <1>4, <2>6 DEF RequestExplicitRun
<1>5. ASSUME NEW t \in Tracks, RemoveTrack(t) PROVE TypeOK'
  BY <1>5 DEF RemoveTrack
<1>6. ASSUME NEW t \in Tracks, ReplaceAudio(t) PROVE TypeOK'
  BY <1>6 DEF ReplaceAudio
<1>7. ASSUME NEW t \in Tracks, NEW found \in BOOLEAN, ScanCommit(t, found) PROVE TypeOK'
  BY <1>7 DEF ScanCommit
<1>10. ASSUME NEW t \in Tracks, TrackArrives(t) PROVE TypeOK'
  BY <1>10 DEF TrackArrives
<1>11. CASE ScanReloadFails
  <2>1. scan' = {} /\ unwoken' = unwoken \union scan /\ UNCHANGED <<owed, shadowed, stale>>
    BY <1>11 DEF ScanReloadFails
  <2>2. owed' \union shadowed' \union stale' \union unwoken' \subseteq Tracks
    BY <2>1, Zenon
  <2>3. faults \in 0 .. MaxFaults /\ faults < MaxFaults /\ faults' = faults + 1
    BY <1>11 DEF ScanReloadFails
  <2>4. faults' \in 0 .. MaxFaults  BY <2>3
  <2> QED  BY <1>11, <2>1, <2>2, <2>4 DEF ScanReloadFails
<1>8. CASE ApplyScanResult
  <2>1. [kind |-> "wake"] \in Commands  BY DEF Commands
  <2>2. channel' \in Seq(Commands)  BY <1>1, <1>8, <2>1 DEF ApplyScanResult
  <2> QED  BY <1>8, <2>2 DEF ApplyScanResult
<1>9. CASE Restart
  <2>1. /\ channel' = <<>> /\ queue' = <<>> /\ pending' = <<>> /\ work' = <<>>
        /\ busy' = <<>> /\ outcomes' = <<>>
    BY <1>9 DEF Restart
  <2>2. /\ channel' \in Seq(Commands) /\ queue' \in Seq(Item) /\ pending' \in Seq(Item)
        /\ work' \in Seq(Item) /\ Len(work') = 0 /\ busy' \in Seq(Item) /\ Len(busy') = 0
        /\ outcomes' \in Seq([track : Tracks, rejected : BOOLEAN])
    BY <2>1
  <2>3. settings' \in SUBSET Caps /\ faults' \in 0 .. MaxFaults /\ cur' = NoItem
    BY <1>9 DEF Restart
  <2>4. 0 <= Workers + 1 /\ 0 <= Workers  OBVIOUS
  <2> QED  BY <1>9, <2>1, <2>2, <2>3, <2>4 DEF Restart
<1> HIDE DEF TypeOK, rows, lined, threads, super, history, bounds, Fault, Command, Edit, Quiet
<1> QED
  BY <1>2, <1>3, <1>4, <1>5, <1>6, <1>7, <1>8, <1>9, <1>10, <1>11 DEF User, Runtime

\* Every step of a worker does.
LEMMA TypesWorker ==
    ASSUME TypeOK, Worker
    PROVE  TypeOK'
<1> USE AnalysisAssumption DEF rows, lined, threads, super, history, bounds, Fault
<1>1. CASE TakeWork
  <2>1. /\ work \in Seq(Item) /\ work # <<>> /\ busy \in Seq(Item) /\ Len(busy) < Workers
        /\ Len(work) <= Workers + 1 /\ pool
    BY <1>1, NothingAtWork DEF TakeWork, TypeOK
  <2>2. /\ Head(work) \in Item /\ Tail(work) \in Seq(Item) /\ Len(Tail(work)) = Len(work) - 1
    BY <2>1, TailDrawn
  <2>3. work' = Tail(work) /\ busy' = Append(busy, Head(work))  BY <1>1 DEF TakeWork
  <2>4. busy' \in Seq(Item) /\ Len(busy') = Len(busy) + 1  BY <2>1, <2>2, <2>3
  <2>5. Len(busy') <= Workers /\ Len(work') <= Workers + 1
    <3>1. Len(busy) \in Nat /\ Len(work) \in Nat  BY <2>1
    <3>2. Len(busy) < Workers /\ Len(work) <= Workers + 1  BY <2>1
    <3>3. Len(work') = Len(work) - 1  BY <2>2, <2>3
    <3> QED  BY <2>4, <3>1, <3>2, <3>3
  <2> QED  BY <1>1, <2>1, <2>2, <2>3, <2>4, <2>5 DEF TakeWork, TypeOK
<1>2. ASSUME NEW i \in DOMAIN busy, NEW refused \in BOOLEAN, Report(i, refused),
             stamped' \in [Tracks -> SUBSET Caps], current' \in [Tracks -> BOOLEAN],
             faults' \in 0 .. MaxFaults
      PROVE  TypeOK'
  <2>1. /\ busy' \in Seq(Item) /\ Len(busy') <= Workers /\ busy # <<>>
        /\ outcomes' \in Seq([track : Tracks, rejected : BOOLEAN]) /\ owed' \in SUBSET Tracks
    BY <1>2, ReportTypes
  <2>2. pool  BY <2>1, NothingAtWork
  <2> QED  BY <1>2, <2>1, <2>2 DEF Report, TypeOK
<1>3. faults \in 0 .. MaxFaults /\ faults + 1 \in Nat  BY DEF TypeOK
<1>4. ASSUME NEW i \in DOMAIN busy, RecordAnalysis(i) \/ RecordFailure(i) PROVE TypeOK'
  <2>1. Report(i, FALSE) /\ faults' = faults /\ Stamp(busy[i].track, busy[i].caps)
    BY <1>4 DEF RecordAnalysis, RecordFailure
  <2>2. busy[i] \in Item  BY <2>1, ReportTypes
  <2>3. stamped' \in [Tracks -> SUBSET Caps] /\ current' \in [Tracks -> BOOLEAN]
    BY <2>1, <2>2, StampTypes
  <2> QED  BY <1>2, <1>3, <2>1, <2>3
<1>5. ASSUME NEW i \in DOMAIN busy, RecordRejected(i) PROVE TypeOK'
  <2>1. Report(i, TRUE) /\ UNCHANGED <<stamped, current>>  BY <1>5 DEF RecordRejected
  <2>2. faults' = faults \/ (faults < MaxFaults /\ faults' = faults + 1)
    BY <1>5 DEF RecordRejected
  <2>3. faults' \in 0 .. MaxFaults  BY <1>3, <2>2
  <2>4. stamped' \in [Tracks -> SUBSET Caps] /\ current' \in [Tracks -> BOOLEAN]
    BY <2>1 DEF TypeOK
  <2> QED  BY <1>2, <2>1, <2>3, <2>4
<1> QED  BY <1>1, <1>4, <1>5 DEF Worker

\* What is lined up when explicit work goes first, after a teardown or not.
LEMMA PrioritiseItems ==
    ASSUME TypeOK, LinedUp, Prioritise
    PROVE  /\ queue' \in Seq(Item) /\ pending' \in Seq(Item)
           /\ OnceEach(pending', Exempt) /\ OutOf(pending', inFlight', Exempt)
<1>1. queue \in Seq(Item) /\ pending \in Seq(Item)  BY DEF TypeOK
<1>2. OnceEach(pending, Exempt) /\ OutOf(pending, inFlight, Exempt)  BY DEF LinedUp
<1>3. CASE torn
  <2>1. /\ queue' = Prioritised(Preserved, <<>>, {}).queue
        /\ pending' = Prioritised(Preserved, <<>>, {}).pending /\ inFlight' = {}
    BY <1>3 DEF Prioritise, LineUp
  <2>2. Preserved \in Seq(Item)
    <3>1. Explicit(pending) \in Seq(Item)  BY <1>1, ExplicitItems
    <3> QED  BY <1>1, <3>1 DEF Preserved
  <2>3. <<>> \in Seq(Item) /\ OnceEach(<<>>, Exempt) /\ OutOf(<<>>, {}, Exempt)
    BY DEF OnceEach, OutOf
  <2> QED  BY <2>1, <2>2, <2>3, PrioritisedItems
<1>4. CASE ~torn
  <2>1. /\ queue' = Prioritised(queue, pending, inFlight).queue
        /\ pending' = Prioritised(queue, pending, inFlight).pending /\ inFlight' = inFlight
    BY <1>4 DEF Prioritise, LineUp
  <2> QED  BY <1>1, <1>2, <2>1, PrioritisedItems
<1> QED  BY <1>3, <1>4

\* What is lined up once the item in front is taken and a command applied.
LEMMA TakeItems ==
    ASSUME TypeOK, LinedUp, TakeItem
    PROVE  /\ queue' \in Seq(Item) /\ pending' \in Seq(Item)
           /\ OnceEach(pending', Exempt) /\ OutOf(pending', inFlight, Exempt)
           /\ pc' = "send" => /\ cur' \in Item /\ pool'
                              /\ (cur'.track \notin inFlight \/ cur'.track \in Exempt)
           /\ pc' = "send" \/ (pc' = "wait" /\ cur' = cur)
<1> DEFINE next == Prioritised(AfterCommand.queue, pending, inFlight)
<1>1. pending \in Seq(Item) /\ pending # <<>> /\ ApplyCommand  BY DEF TypeOK, TakeItem
<1>2. OnceEach(pending, Exempt) /\ OutOf(pending, inFlight, Exempt)  BY DEF LinedUp
<1>3. AfterCommand.queue \in Seq(Item)  BY <1>1, ApplyTypes
<1>4. /\ next.queue \in Seq(Item) /\ next.pending \in Seq(Item)
      /\ OnceEach(next.pending, Exempt) /\ OutOf(next.pending, inFlight, Exempt)
  BY <1>1, <1>2, <1>3, PrioritisedItems
<1>5. /\ Head(pending) \in Item
      /\ Head(pending).track \notin inFlight \/ Head(pending).track \in Exempt
  <2>1. Head(pending) \in Item /\ Head(pending) = pending[1] /\ 1 \in DOMAIN pending
    BY <1>1, TailDrawn
  <2> QED  BY <1>2, <2>1 DEF OutOf
<1>6. CASE pool'
  <2>1. queue' = next.queue /\ pending' = next.pending /\ cur' = Head(pending) /\ pc' = "send"
    BY <1>6 DEF TakeItem, LineUp
  <2> HIDE DEF next
  <2>2. /\ queue' \in Seq(Item) /\ pending' \in Seq(Item)
        /\ OnceEach(pending', Exempt) /\ OutOf(pending', inFlight, Exempt)
    BY <1>4, <2>1
  <2>3. cur' \in Item /\ (cur'.track \notin inFlight \/ cur'.track \in Exempt)
    BY <1>5, <2>1
  <2> QED  BY <1>6, <2>1, <2>2, <2>3, Zenon
<1>7. CASE ~pool'
  <2>1. queue' = AfterCommand.queue /\ pending' = pending /\ pc' = "wait" /\ cur' = cur
    BY <1>7 DEF TakeItem
  <2> QED  BY <1>1, <1>2, <1>3, <2>1
<1> QED  BY <1>6, <1>7

\* What is lined up after a refill (tracks_needing_analysis).
LEMMA RefilledItems ==
    ASSUME TypeOK, LinedUp
    PROVE  /\ Refilled \in Seq(Item) /\ OnceEach(Refilled, Exempt)
           /\ OutOf(Refilled, inFlight, Exempt)
<1>1. settings \in SUBSET Caps /\ inFlight \in SUBSET Tracks /\ pending \in Seq(Item)
  BY DEF TypeOK
<1>2. OnceEach(pending, Exempt) /\ OutOf(pending, inFlight, Exempt)  BY DEF LinedUp
<1> QED  BY <1>1, <1>2, SweptItems DEF Refilled

\* The supervisor has joined its workers and waits for a command.
LEMMA TypesJoined ==
    ASSUME TypeOK, Quiet,
           UNCHANGED <<rows, prefs, scan, channel, settings, lined, torn, cur, work, busy,
                       history, commands, edits>>,
           cur = NoItem, pool' = FALSE, pc' \in {"halted", "idle"},
           inFlight' \in SUBSET Tracks, rejected' \in BOOLEAN,
           outcomes' \in Seq([track : Tracks, rejected : BOOLEAN]),
           faults' \in 0 .. MaxFaults
    PROVE  TypeOK'
<1>1. /\ state' \in [Tracks -> {"new", "missing", "available", "removed"}]
      /\ stamped' \in [Tracks -> SUBSET Caps] /\ current' \in [Tracks -> BOOLEAN]
      /\ prefs' \in SUBSET Caps /\ scan' \subseteq Tracks
  BY DEF TypeOK, rows
<1>2. /\ channel' \in Seq(Commands) /\ settings' \in SUBSET Caps
      /\ queue' \in Seq(Item) /\ pending' \in Seq(Item) /\ torn' \in BOOLEAN
  BY DEF TypeOK, lined
<1>3. /\ work' \in Seq(Item) /\ Len(work') <= Workers + 1
      /\ busy' \in Seq(Item) /\ Len(busy') <= Workers
  BY DEF TypeOK
<1>4. Quiet'  BY DEF Quiet
<1>5. /\ owed' \union shadowed' \union stale' \union unwoken' \subseteq Tracks
      /\ commands' \in 0 .. MaxCommands /\ edits' \in 0 .. MaxEdits
  BY DEF TypeOK, history
<1>6. /\ pc' \in {"top", "reject", "plan", "dispatch", "send", "wait", "idle", "halted",
                  "stalled"}
      /\ cur' \in Item \union {NoItem} /\ (cur' = NoItem) = (pc' # "send")
  OBVIOUS
<1>7. pool' \in BOOLEAN  OBVIOUS
<1> HIDE DEF TypeOK
<1> QED  BY <1>1, <1>2, <1>3, <1>4, <1>5, <1>6, <1>7 DEF TypeOK

\* Every step of the supervisor keeps the types.
LEMMA TypesSupervisor ==
    ASSUME TypeOK, Pooled, LinedUp, Supervisor
    PROVE  TypeOK'
<1> USE AnalysisAssumption, NoItemAssumption
    DEF rows, lined, threads, super, history, bounds, Fault, Quiet
<1>1. CASE DrainCommand
  <2>1. ApplyCommand /\ torn' \in BOOLEAN /\ queue' = AfterCommand.queue
    BY <1>1, ApplyTypes DEF DrainCommand, TypeOK
  <2> QED  BY <1>1, <2>1, ApplyTypes, SMTT(30) DEF DrainCommand, TypeOK
<1>2. CASE Prioritise
  <2>1. queue' \in Seq(Item) /\ pending' \in Seq(Item)  BY <1>2, PrioritiseItems
  <2>2. stale' \in SUBSET Tracks
    <3>1. stale \in SUBSET Tracks /\ outcomes \in Seq([track : Tracks, rejected : BOOLEAN])
      BY DEF TypeOK
    <3>2. TracksOf(outcomes) \in SUBSET Tracks
      <4>1. \A i \in DOMAIN outcomes : outcomes[i] \in [track : Tracks, rejected : BOOLEAN]
        BY <3>1, Elements
      <4>2. \A i \in DOMAIN outcomes : outcomes[i].track \in Tracks  BY <4>1
      <4> HIDE DEF TypeOK
      <4> QED  BY <4>2 DEF TracksOf
    <3> QED  BY <1>2, <3>1, <3>2 DEF Prioritise
  <2>3. inFlight' \in SUBSET Tracks /\ pc' \in {"reject", "plan"} /\ torn' \in BOOLEAN
    BY <1>2 DEF Prioritise, TypeOK
  <2>4. pc # "send"  BY <1>2 DEF Prioritise
  <2> QED  BY <1>2, <2>1, <2>2, <2>3, <2>4 DEF Prioritise, TypeOK
<1>3. CASE StopSweep
  <2>1. cur = NoItem /\ faults \in 0 .. MaxFaults  BY <1>3 DEF StopSweep, TypeOK
  <2>2. outcomes' \in Seq([track : Tracks, rejected : BOOLEAN])  BY <1>3 DEF StopSweep
  <2>3. inFlight' \in SUBSET Tracks /\ rejected' \in BOOLEAN /\ pc' = "halted"
    BY <1>3 DEF StopSweep
  <2> QED  BY <1>3, <2>1, <2>2, <2>3, TypesJoined DEF StopSweep, Join
<1>4. CASE AwaitTail
  <2>1. rejected' \in BOOLEAN  BY <1>4 DEF AwaitTail, TypeOK, AnyRejected
  <2>2. cur = NoItem /\ cur' = NoItem /\ outcomes' = <<>> /\ pc' = "wait"
    BY <1>4 DEF AwaitTail, TypeOK
  <2>3. outcomes' \in Seq([track : Tracks, rejected : BOOLEAN])  BY <2>2
  <2> QED  BY <1>4, <2>1, <2>2, <2>3 DEF AwaitTail, TypeOK
<1>5. CASE GoIdle
  <2>1. rejected' \in BOOLEAN  BY <1>5 DEF GoIdle, TypeOK, AnyRejected
  <2>2. cur = NoItem /\ faults \in 0 .. MaxFaults  BY <1>5 DEF GoIdle, TypeOK
  <2>3. outcomes' \in Seq([track : Tracks, rejected : BOOLEAN])  BY <1>5 DEF GoIdle
  <2>4. inFlight' \in SUBSET Tracks /\ pc' = "idle"  BY <1>5 DEF GoIdle
  <2> QED  BY <1>5, <2>1, <2>2, <2>3, <2>4, TypesJoined DEF GoIdle, Join
<1>6. CASE QueryFails
  <2>1. /\ cur = NoItem /\ inFlight \in SUBSET Tracks /\ rejected \in BOOLEAN
        /\ outcomes \in Seq([track : Tracks, rejected : BOOLEAN])
        /\ faults' \in 0 .. MaxFaults
    BY <1>6 DEF QueryFails, TypeOK
  <2> QED  BY <1>6, <2>1, TypesJoined DEF QueryFails, Join
<1>7. CASE Refill
  <2>1. pending' \in Seq(Item)  BY <1>7, RefilledItems DEF Refill
  <2> QED  BY <1>7, <2>1 DEF Refill, TypeOK
<1>8. CASE FinishSweep
  BY <1>8 DEF FinishSweep, Join, TypeOK
<1>9. CASE TakeItem
  <2>1. /\ queue' \in Seq(Item) /\ pending' \in Seq(Item)
        /\ pc' = "send" => cur' \in Item
        /\ pc' = "send" \/ (pc' = "wait" /\ cur' = cur)
    BY <1>9, TakeItems
  <2>2. /\ channel' \in Seq(Commands) /\ settings' \in SUBSET Caps
        /\ owed' \in SUBSET Tracks /\ pool' \in BOOLEAN /\ (~pool' => Quiet)
    BY <1>9, ApplyTypes DEF TakeItem
  <2>3. cur = NoItem  BY <1>9 DEF TakeItem, TypeOK
  <2>4. cur' \in Item \union {NoItem} /\ (cur' = NoItem) = (pc' # "send")  BY <2>1, <2>3
  <2>5. pc' \in {"send", "wait"}  BY <2>1
  <2> QED  BY <1>9, <2>1, <2>2, <2>4, <2>5 DEF TakeItem, TypeOK
<1>10. ASSUME pc = "send" PROVE cur \in Item /\ pool
  BY <1>10 DEF TypeOK, Pooled
<1>11. CASE SkipItem
  <2>1. pending' \in Seq(Item) /\ shadowed' \in SUBSET Tracks /\ cur' = NoItem
    BY <1>10, <1>11, PopTypes DEF SkipItem
  <2> QED  BY <1>11, <2>1 DEF SkipItem, TypeOK
<1>12. CASE ChannelFull
  BY <1>12 DEF ChannelFull, TypeOK
<1>13. CASE SendItem
  <2>1. pending' \in Seq(Item) /\ shadowed' \in SUBSET Tracks /\ cur' = NoItem
    BY <1>10, <1>13, PopTypes DEF SendItem
  <2>2. cur \in Item /\ pool /\ settings \in SUBSET Caps  BY <1>10, <1>13 DEF SendItem, TypeOK
  <2>3. cur.track \in Tracks  BY <2>2 DEF Item
  <2>4. [cur EXCEPT !.caps = DispatchCaps] \in Item  BY <2>2 DEF Item, DispatchCaps
  <2>5. work \in Seq(Item) /\ Len(work) <= Workers  BY <1>13 DEF SendItem, TypeOK
  <2>6. work' \in Seq(Item) /\ Len(work') = Len(work) + 1  BY <1>13, <2>4, <2>5 DEF SendItem
  <2>7. Len(work') <= Workers + 1
    <3>1. Len(work) \in Nat /\ Len(work) <= Workers  BY <2>5
    <3> QED  BY <2>6, <3>1
  <2>8. inFlight' \in SUBSET Tracks  BY <1>13, <2>3 DEF SendItem, TypeOK
  <2> QED  BY <1>13, <2>1, <2>2, <2>6, <2>7, <2>8 DEF SendItem, TypeOK
<1>14. CASE ReadFails
  <2>1. pending' \in Seq(Item) /\ shadowed' \in SUBSET Tracks /\ cur' = NoItem
    BY <1>10, <1>14, PopTypes DEF ReadFails
  <2>2. owed' \in SUBSET Tracks  BY <1>14 DEF ReadFails, TypeOK
  <2>3. faults' \in 0 .. MaxFaults  BY <1>14 DEF ReadFails, TypeOK
  <2> QED  BY <1>14, <2>1, <2>2, <2>3 DEF ReadFails, TypeOK
<1>15. CASE DispatchDone
  BY <1>15 DEF DispatchDone, TypeOK
<1>16. CASE Stall
  BY <1>16 DEF Stall, TypeOK
<1>17. CASE Wait
  <2> DEFINE some == SubSeq(outcomes, 1, Min({1, Len(outcomes)}))
  <2>1. outcomes \in Seq([track : Tracks, rejected : BOOLEAN]) /\ Len(outcomes) \in Nat
    BY DEF TypeOK
  <2>2. Min({1, Len(outcomes)}) \in 0 .. Len(outcomes)  BY <2>1, LesserOfTwo
  <2>3. Len(some) \in 0 .. Len(outcomes)  BY <2>1, <2>2
  <2>4. outcomes' = SubSeq(outcomes, Len(some) + 1, Len(outcomes))  BY <1>17 DEF Wait
  <2>5. inFlight' \in SUBSET Tracks  BY <1>17 DEF Wait, TypeOK
  <2>6. rejected' \in BOOLEAN  BY <1>17 DEF Wait, TypeOK, AnyRejected
  <2> HIDE DEF some
  <2>7. outcomes' \in Seq([track : Tracks, rejected : BOOLEAN])  BY <2>1, <2>3, <2>4, PartDrawn
  <2> QED  BY <1>17, <2>5, <2>6, <2>7 DEF Wait, TypeOK
<1>18. CASE Receive
  <2>1. ApplyCommand /\ queue' = AfterCommand.queue  BY <1>18 DEF Receive
  <2> QED  BY <1>18, <2>1, ApplyTypes, SMTT(30) DEF Receive, TypeOK
<1> QED
  BY <1>1, <1>2, <1>3, <1>4, <1>5, <1>6, <1>7, <1>8, <1>9, <1>11, <1>12, <1>13, <1>14,
     <1>15, <1>16, <1>17, <1>18
  DEF Supervisor

-----------------------------------------------------------------------------
(* One worker for each track.                                              *)

\* The threads are left alone.
LEMMA AloneKept ==
    ASSUME Alone, UNCHANGED threads, inFlight \subseteq inFlight', Exempt \subseteq Exempt'
    PROVE  Alone'
  BY DEF Alone, OnceEach, Apart, Within, threads

\* What is lined up is left alone.
LEMMA LinedUpKept ==
    ASSUME LinedUp, UNCHANGED pending, inFlight' \subseteq inFlight, Exempt \subseteq Exempt',
           pc' = "send" => pc = "send" /\ cur' = cur
    PROVE  LinedUp'
  BY DEF LinedUp, OnceEach, OutOf

\* The item in front goes: it is the one dispatched, or both are exempt.
LEMMA LinedUpPopped ==
    ASSUME pending \in Seq(Item), LinedUp, PopFront, UNCHANGED stale, pc' # "send",
           inFlight' \subseteq inFlight \union {cur.track}
    PROVE  LinedUp' /\ Exempt \subseteq Exempt'
<1>1. Exempt \subseteq Exempt'  BY DEF Exempt, PopFront
<1>2. CASE pending = <<>>
  <2>1. pending' = <<>>  BY <1>2 DEF PopFront
  <2> QED  BY <1>1, <2>1 DEF LinedUp, OnceEach, OutOf
<1>3. CASE pending # <<>>
  <2>1. /\ pending' = Tail(pending)
        /\ Head(pending) # cur => cur.track \in Exempt'
    BY <1>3 DEF PopFront, Exempt
  <2>2. /\ Head(pending) = pending[1] /\ 1 \in DOMAIN pending
        /\ \A k \in DOMAIN Tail(pending) :
              k + 1 \in DOMAIN pending /\ k + 1 # 1 /\ Tail(pending)[k] = pending[k + 1]
        /\ Drawn(Tail(pending), pending)
    BY <1>3, TailDrawn
  <2>3. OnceEach(pending', Exempt) /\ OutOf(pending', inFlight, Exempt)
    BY <2>1, <2>2, DrawnKeeps DEF LinedUp
  <2>4. ASSUME NEW k \in DOMAIN pending', pending'[k].track = cur.track
        PROVE  cur.track \in Exempt'
    <3>1. CASE Head(pending) # cur  BY <2>1, <3>1
    <3>2. CASE Head(pending) = cur
      <4>1. k + 1 \in DOMAIN pending /\ k + 1 # 1 /\ pending'[k] = pending[k + 1]
        BY <2>1, <2>2, <2>4
      <4>2. pending[k + 1].track = pending[1].track  BY <2>2, <2>4, <3>2, <4>1
      <4>3. pending[k + 1].track \in Exempt  BY <2>2, <4>1, <4>2 DEF LinedUp, OnceEach
      <4> QED  BY <1>1, <2>4, <4>1, <4>3
    <3> QED  BY <3>1, <3>2
  <2>5. OutOf(pending', inFlight', Exempt')
    <3> SUFFICES ASSUME NEW k \in DOMAIN pending', pending'[k].track \in inFlight'
                 PROVE  pending'[k].track \in Exempt'
      BY DEF OutOf
    <3>1. pending'[k].track \in inFlight \/ pending'[k].track = cur.track  OBVIOUS
    <3> QED  BY <1>1, <2>3, <2>4, <3>1 DEF OutOf
  <2>6. OnceEach(pending', Exempt')  BY <1>1, <2>3 DEF OnceEach
  <2> QED  BY <1>1, <2>5, <2>6 DEF LinedUp
<1> QED  BY <1>2, <1>3

\* Outcomes are read, and the tracks they acknowledge are no longer in flight.
LEMMA OutcomesRead ==
    ASSUME TypeOK, Alone, NEW n \in 0 .. Len(outcomes), UNCHANGED <<work, busy, history>>,
           outcomes' = SubSeq(outcomes, n + 1, Len(outcomes)),
           \A t \in inFlight \ inFlight' : \E j \in DOMAIN outcomes :
               j <= n /\ outcomes[j].track = t
    PROVE  Alone'
<1>1. outcomes \in Seq([track : Tracks, rejected : BOOLEAN]) /\ Exempt' = Exempt
  BY DEF TypeOK, history, Exempt
<1>2. /\ Drawn(outcomes', outcomes)
      /\ \A k \in DOMAIN outcomes' :
            /\ k + n \in DOMAIN outcomes /\ outcomes'[k] = outcomes[k + n]
            /\ k \in Nat /\ k > 0
  <2>1. outcomes' \in Seq([track : Tracks, rejected : BOOLEAN])  BY <1>1, PartDrawn
  <2>2. \A k \in DOMAIN outcomes' : k \in Nat /\ k > 0  BY <2>1
  <2> QED  BY <1>1, <2>2, PartDrawn
<1>3. /\ OnceEach(outcomes', Exempt) /\ Apart(work, outcomes', Exempt)
      /\ Apart(busy, outcomes', Exempt)
  BY <1>2, DrawnKeeps DEF Alone
<1>4. Within(work, inFlight' \union Exempt)
  <2> SUFFICES ASSUME NEW i \in DOMAIN work, work[i].track \notin inFlight'
               PROVE  work[i].track \in Exempt
    BY DEF Within
  <2>1. CASE work[i].track \in inFlight
    <3>1. PICK j \in DOMAIN outcomes : outcomes[j].track = work[i].track  BY <2>1
    <3> QED  BY <3>1 DEF Alone, Apart
  <2>2. CASE work[i].track \notin inFlight  BY <2>2 DEF Alone, Within
  <2> QED  BY <2>1, <2>2
<1>5. Within(busy, inFlight' \union Exempt)
  <2> SUFFICES ASSUME NEW i \in DOMAIN busy, busy[i].track \notin inFlight'
               PROVE  busy[i].track \in Exempt
    BY DEF Within
  <2>1. CASE busy[i].track \in inFlight
    <3>1. PICK j \in DOMAIN outcomes : outcomes[j].track = busy[i].track  BY <2>1
    <3> QED  BY <3>1 DEF Alone, Apart
  <2>2. CASE busy[i].track \notin inFlight  BY <2>2 DEF Alone, Within
  <2> QED  BY <2>1, <2>2
<1>6. Within(outcomes', inFlight' \union Exempt)
  <2> SUFFICES ASSUME NEW k \in DOMAIN outcomes', outcomes'[k].track \notin inFlight'
               PROVE  outcomes'[k].track \in Exempt
    BY DEF Within
  <2>1. k + n \in DOMAIN outcomes /\ outcomes'[k] = outcomes[k + n] /\ k \in Nat /\ k > 0
    BY <1>2
  <2>2. CASE outcomes'[k].track \in inFlight
    <3>1. PICK j \in DOMAIN outcomes : j <= n /\ outcomes[j].track = outcomes'[k].track
      BY <2>2
    <3>2. j # k + n
      <4>1. n \in Nat /\ j \in Nat  BY <1>1, Elements
      <4> QED  BY <2>1, <3>1, <4>1
    <3> QED  BY <2>1, <3>1, <3>2 DEF Alone, OnceEach
  <2>3. CASE outcomes'[k].track \notin inFlight  BY <2>1, <2>3 DEF Alone, Within
  <2> QED  BY <2>2, <2>3
<1> QED  BY <1>1, <1>3, <1>4, <1>5, <1>6 DEF Alone

\* An element is added at the end.
LEMMA Added ==
    ASSUME NEW T, NEW s \in Seq(T), NEW x \in T
    PROVE  /\ Append(s, x) \in Seq(T) /\ DOMAIN Append(s, x) = DOMAIN s \union {Len(s) + 1}
           /\ Len(s) + 1 \notin DOMAIN s /\ Append(s, x)[Len(s) + 1] = x
           /\ \A i \in DOMAIN s : Append(s, x)[i] = s[i]
<1>1. Len(s) \in Nat /\ DOMAIN s = 1 .. Len(s)  OBVIOUS
<1>2. Append(s, x) \in Seq(T) /\ DOMAIN Append(s, x) = 1 .. Len(s) + 1  OBVIOUS
<1>3. 1 .. Len(s) + 1 = (1 .. Len(s)) \union {Len(s) + 1}  BY <1>1
<1>4. Append(s, x)[Len(s) + 1] = x /\ \A i \in 1 .. Len(s) : Append(s, x)[i] = s[i]
  OBVIOUS
<1>5. Len(s) + 1 \notin 1 .. Len(s)  BY <1>1
<1> QED  BY <1>1, <1>2, <1>3, <1>4, <1>5

\* A track is added to a sequence that has it only when it is exempt.
LEMMA AddedKeeps ==
    ASSUME NEW T, NEW s \in Seq(T), NEW x \in T, NEW E, NEW q
    PROVE  /\ OnceEach(s, E) /\ (x.track \in E \/ \A i \in DOMAIN s : s[i].track # x.track)
                 => OnceEach(Append(s, x), E)
           /\ Apart(s, q, E) /\ (x.track \in E \/ \A i \in DOMAIN q : q[i].track # x.track)
                 => Apart(Append(s, x), q, E)
           /\ Apart(q, s, E) /\ (x.track \in E \/ \A i \in DOMAIN q : q[i].track # x.track)
                 => Apart(q, Append(s, x), E)
           /\ \A out : Within(s, out) /\ x.track \in out => Within(Append(s, x), out)
<1> DEFINE r == Append(s, x)
<1>1. /\ DOMAIN r = DOMAIN s \union {Len(s) + 1} /\ Len(s) + 1 \notin DOMAIN s
      /\ r[Len(s) + 1] = x /\ \A i \in DOMAIN s : r[i] = s[i]
  BY Added
<1> HIDE DEF r
<1>2. \A i \in DOMAIN r : (i \in DOMAIN s /\ r[i] = s[i]) \/ (i = Len(s) + 1 /\ r[i] = x)
  BY <1>1
<1>3. ASSUME OnceEach(s, E), x.track \in E \/ \A i \in DOMAIN s : s[i].track # x.track
      PROVE  OnceEach(r, E)
  <2> SUFFICES ASSUME NEW i \in DOMAIN r, NEW j \in DOMAIN r, r[i].track = r[j].track
               PROVE  i = j \/ r[i].track \in E
    BY DEF OnceEach
  <2> QED  BY <1>2, <1>3 DEF OnceEach
<1>4. ASSUME Apart(s, q, E), x.track \in E \/ \A i \in DOMAIN q : q[i].track # x.track
      PROVE  Apart(r, q, E)
  BY <1>2, <1>4 DEF Apart
<1>5. ASSUME Apart(q, s, E), x.track \in E \/ \A i \in DOMAIN q : q[i].track # x.track
      PROVE  Apart(q, r, E)
  BY <1>2, <1>5 DEF Apart
<1>6. ASSUME NEW out, Within(s, out), x.track \in out PROVE Within(r, out)
  BY <1>2, <1>6 DEF Within
<1> QED  BY <1>3, <1>4, <1>5, <1>6 DEF r

\* A track that is sent to the workers is with none, unless it is exempt (try_send).
LEMMA SendKeeps ==
    ASSUME TypeOK, Alone, LinedUp, SendItem
    PROVE  Alone'
<1> DEFINE item == [cur EXCEPT !.caps = DispatchCaps]
           E == Exempt
<1>1. /\ cur \in Item /\ settings \in SUBSET Caps /\ work \in Seq(Item)
      /\ cur.track \notin inFlight \/ cur.track \in E
  BY DEF SendItem, TypeOK, LinedUp
<1>2. item \in Item /\ item.track = cur.track  BY <1>1 DEF Item, DispatchCaps
<1>3. /\ work' = Append(work, item) /\ UNCHANGED <<busy, outcomes>>
      /\ inFlight' = inFlight \union {cur.track}
  BY DEF SendItem
<1>4. E \subseteq Exempt'  BY DEF SendItem, PopFront, Exempt
<1> HIDE DEF item, E
<1>5. /\ OnceEach(work, E) /\ OnceEach(busy, E) /\ OnceEach(outcomes, E)
      /\ Apart(work, busy, E) /\ Apart(work, outcomes, E) /\ Apart(busy, outcomes, E)
      /\ Within(work, inFlight \union E) /\ Within(busy, inFlight \union E)
      /\ Within(outcomes, inFlight \union E)
  BY DEF Alone, E
<1>6. /\ item.track \in E \/ \A i \in DOMAIN work : work[i].track # item.track
      /\ item.track \in E \/ \A i \in DOMAIN busy : busy[i].track # item.track
      /\ item.track \in E \/ \A i \in DOMAIN outcomes : outcomes[i].track # item.track
  BY <1>1, <1>2, <1>5 DEF Within
<1>7. OnceEach(work', E) /\ Apart(work', busy, E) /\ Apart(work', outcomes, E)
  BY <1>1, <1>2, <1>3, <1>5, <1>6, AddedKeeps
<1>8. /\ Within(work, inFlight' \union E) /\ Within(busy, inFlight' \union E)
      /\ Within(outcomes, inFlight' \union E) /\ item.track \in inFlight' \union E
  BY <1>2, <1>3, <1>5 DEF Within
<1>9. Within(work', inFlight' \union E)  BY <1>1, <1>2, <1>3, <1>8, AddedKeeps
<1> QED  BY <1>3, <1>4, <1>5, <1>7, <1>8, <1>9 DEF Alone, OnceEach, Apart, Within

\* A worker takes an item from the channel (recv_blocking).
LEMMA TakeWorkKeeps ==
    ASSUME TypeOK, Alone, TakeWork
    PROVE  Alone'
<1> DEFINE E == Exempt
<1>1. work \in Seq(Item) /\ work # <<>> /\ busy \in Seq(Item)  BY DEF TakeWork, TypeOK
<1>2. /\ work' = Tail(work) /\ busy' = Append(busy, Head(work))
      /\ UNCHANGED <<outcomes, inFlight, shadowed, stale>>
  BY DEF TakeWork, history, super
<1>3. /\ Head(work) \in Item /\ Head(work) = work[1] /\ 1 \in DOMAIN work
      /\ Drawn(Tail(work), work)
      /\ \A k \in DOMAIN Tail(work) :
            k + 1 \in DOMAIN work /\ k + 1 # 1 /\ Tail(work)[k] = work[k + 1]
  BY <1>1, TailDrawn
<1>4. E' = E  BY <1>2 DEF Exempt
<1> HIDE DEF E
<1>5. /\ OnceEach(work, E) /\ OnceEach(busy, E) /\ OnceEach(outcomes, E)
      /\ Apart(work, busy, E) /\ Apart(work, outcomes, E) /\ Apart(busy, outcomes, E)
      /\ Within(work, inFlight \union E) /\ Within(busy, inFlight \union E)
      /\ Within(outcomes, inFlight \union E)
  BY DEF Alone, E
<1>6. /\ OnceEach(work', E) /\ Apart(work', busy, E) /\ Apart(work', outcomes, E)
      /\ Within(work', inFlight \union E)
  BY <1>2, <1>3, <1>5, DrawnKeeps
<1>7. /\ Head(work).track \in E \/ \A i \in DOMAIN busy : busy[i].track # Head(work).track
      /\ Head(work).track \in E
            \/ \A i \in DOMAIN outcomes : outcomes[i].track # Head(work).track
      /\ Head(work).track \in inFlight \union E
  BY <1>3, <1>5 DEF Apart, Within
<1>8. Head(work).track \in E \/ \A i \in DOMAIN work' : work'[i].track # Head(work).track
  BY <1>2, <1>3, <1>5 DEF OnceEach
<1>9. /\ OnceEach(busy', E) /\ Apart(work', busy', E) /\ Apart(busy', outcomes, E)
  BY <1>1, <1>2, <1>3, <1>5, <1>6, <1>7, <1>8, AddedKeeps
<1>10. Within(busy', inFlight \union E)  BY <1>1, <1>2, <1>3, <1>5, <1>7, AddedKeeps
<1> QED  BY <1>2, <1>4, <1>5, <1>6, <1>9, <1>10 DEF Alone, E

\* A worker is done with an item and reports its outcome (worker_loop).
LEMMA ReportKeeps ==
    ASSUME TypeOK, Alone, NEW i \in DOMAIN busy, NEW refused \in BOOLEAN, Report(i, refused)
    PROVE  Alone'
<1> DEFINE E == Exempt
           outcome == [track |-> busy[i].track, rejected |-> refused]
           O == [track : Tracks, rejected : BOOLEAN]
<1>1. busy \in Seq(Item) /\ outcomes \in Seq(O)  BY DEF TypeOK
<1>2. outcome \in O /\ outcome.track = busy[i].track
  <2>1. busy[i] \in Item  BY <1>1, Elements
  <2> QED  BY <2>1 DEF Item
<1>3. /\ busy' = RemoveAt(busy, i) /\ outcomes' = Append(outcomes, outcome)
      /\ UNCHANGED <<work, inFlight, shadowed, stale>>
  BY DEF Report, super
<1>4. /\ Drawn(busy', busy)
      /\ \A k \in DOMAIN busy' : \E l \in DOMAIN busy : l # i /\ busy'[k] = busy[l]
  BY <1>1, <1>3, RemovalDrawn
<1>5. E' = E  BY <1>3 DEF Exempt
<1> HIDE DEF E, outcome, O
<1>6. /\ OnceEach(work, E) /\ OnceEach(busy, E) /\ OnceEach(outcomes, E)
      /\ Apart(work, busy, E) /\ Apart(work, outcomes, E) /\ Apart(busy, outcomes, E)
      /\ Within(work, inFlight \union E) /\ Within(busy, inFlight \union E)
      /\ Within(outcomes, inFlight \union E)
  BY DEF Alone, E
<1>7. /\ OnceEach(busy', E) /\ Apart(work, busy', E) /\ Apart(busy', outcomes, E)
      /\ Within(busy', inFlight \union E)
  BY <1>4, <1>6, DrawnKeeps
<1>8. /\ outcome.track \in E \/ \A k \in DOMAIN work : work[k].track # outcome.track
      /\ outcome.track \in E \/ \A k \in DOMAIN outcomes : outcomes[k].track # outcome.track
      /\ outcome.track \in inFlight \union E
  BY <1>2, <1>6 DEF Apart, Within
<1>9. outcome.track \in E \/ \A k \in DOMAIN busy' : busy'[k].track # outcome.track
  <2> SUFFICES ASSUME NEW k \in DOMAIN busy', busy'[k].track = outcome.track
               PROVE  outcome.track \in E
    OBVIOUS
  <2>1. PICK l \in DOMAIN busy : l # i /\ busy'[k] = busy[l]  BY <1>4
  <2> QED  BY <1>2, <1>6, <2>1 DEF OnceEach
<1>10. OnceEach(outcomes', E) /\ Apart(work, outcomes', E) /\ Apart(busy', outcomes', E)
  BY <1>1, <1>2, <1>3, <1>6, <1>7, <1>8, <1>9, AddedKeeps
<1>11. Within(outcomes', inFlight \union E)  BY <1>1, <1>2, <1>3, <1>6, <1>8, AddedKeeps
<1> QED  BY <1>3, <1>5, <1>6, <1>7, <1>10, <1>11 DEF Alone, E

\* Nobody works and nothing is to be read.
LEMMA AloneWhenEmpty ==
    ASSUME work = <<>>, busy = <<>>, outcomes = <<>>
    PROVE  Alone
  BY DEF Alone, OnceEach, Apart, Within

\* Steps that leave the threads, what is lined up and the books alone.
LEMMA BooksKept ==
    ASSUME Alone, LinedUp, Pooled, UNCHANGED <<threads, inFlight, shadowed, stale, pending>>,
           pc' = "send" => pc = "send" /\ cur' = cur
    PROVE  Alone' /\ LinedUp'
<1>1. Exempt' = Exempt  BY DEF Exempt
<1> QED  BY <1>1, AloneKept, LinedUpKept

\* Steps of everybody but the supervisor.
LEMMA AloneOutside ==
    ASSUME TypeOK, Pooled, Alone, LinedUp, User \/ Runtime \/ Restart \/ Worker
    PROVE  Alone' /\ LinedUp' /\ Pooled'
<1>1. CASE User \/ Runtime
  <2>1. UNCHANGED <<super, threads, shadowed, stale>>
    BY <1>1 DEF User, ChangeSettings, ChangePool, RequestExplicitRun, RemoveTrack,
                ReplaceAudio, TrackArrives, ScanCommit, Runtime, ApplyScanResult,
                ScanReloadFails, history
  <2>2. UNCHANGED <<threads, inFlight, shadowed, stale, pending, pc, cur, pool, torn>>
    BY <2>1 DEF super, lined
  <2> QED  BY <2>2, BooksKept DEF Pooled
<1>2. CASE Restart
  <2>1. /\ work' = <<>> /\ busy' = <<>> /\ outcomes' = <<>> /\ pending' = <<>>
        /\ pc' = "top" /\ torn' = FALSE
    BY <1>2 DEF Restart
  <2>2. Alone'  BY <2>1 DEF Alone, OnceEach, Apart, Within
  <2> QED  BY <2>1, <2>2 DEF LinedUp, Pooled, OnceEach, OutOf
<1>3. CASE Worker
  <2>1. UNCHANGED <<super, shadowed, stale>>
    BY <1>3 DEF Worker, TakeWork, RecordAnalysis, RecordFailure, RecordRejected, Report, history
  <2>2. UNCHANGED <<inFlight, shadowed, stale, pending, pc, cur, pool, torn>>
    BY <2>1 DEF super, lined
  <2>3. Exempt' = Exempt  BY <2>2 DEF Exempt
  <2>4. LinedUp' /\ Pooled'  BY <2>2, <2>3, LinedUpKept DEF Pooled
  <2>5. ASSUME NEW i \in DOMAIN busy, RecordAnalysis(i) \/ RecordFailure(i) \/ RecordRejected(i)
        PROVE  Alone'
    <3>1. \E refused \in BOOLEAN : Report(i, refused)
      BY <2>5 DEF RecordAnalysis, RecordFailure, RecordRejected
    <3> QED  BY <3>1, ReportKeeps
  <2> QED  BY <1>3, <2>4, <2>5, TakeWorkKeeps DEF Worker
<1> QED  BY <1>1, <1>2, <1>3

\* Steps of the supervisor that take a command or put the work in order.
LEMMA AlonePlanning ==
    ASSUME TypeOK, Pooled, Alone, LinedUp,
           DrainCommand \/ Prioritise \/ Refill \/ TakeItem \/ Receive
    PROVE  Alone' /\ LinedUp' /\ Pooled'
<1>1. CASE DrainCommand
  <2>1. /\ UNCHANGED <<threads, inFlight, shadowed, stale, pending>> /\ pc = "top"
        /\ pc' = "top" /\ ApplyCommand /\ torn' = (torn \/ AfterCommand.joins)
    BY <1>1 DEF DrainCommand
  <2>2. (AfterCommand.joins => ~pool') /\ (pool' => pool)  BY <2>1, ApplyTypes
  <2>3. torn => ~pool  BY DEF Pooled
  <2>4. torn' => ~pool'
    <3>1. CASE torn  BY <2>2, <2>3, <3>1
    <3>2. CASE AfterCommand.joins  BY <2>2, <3>2
    <3> QED  BY <2>1, <3>1, <3>2
  <2>5. Pooled'  BY <2>1, <2>4 DEF Pooled
  <2> QED  BY <2>1, <2>5, BooksKept
<1>2. CASE Receive
  <2>1. /\ UNCHANGED <<threads, inFlight, shadowed, stale, pending, torn>>
        /\ pc \in {"idle", "halted", "stalled"} /\ pc' = "top"
    BY <1>2 DEF Receive
  <2>2. ~torn' /\ Pooled'
    <3>1. ~torn  BY <2>1 DEF Pooled
    <3> QED  BY <2>1, <3>1 DEF Pooled
  <2> QED  BY <2>1, <2>2, BooksKept
<1>3. CASE Refill
  <2>1. /\ UNCHANGED <<threads, inFlight, shadowed, stale, torn>> /\ pending' = Refilled
        /\ pc = "plan" /\ pc' = "dispatch" /\ pool' = TRUE
    BY <1>3 DEF Refill, history
  <2>2. Exempt' = Exempt  BY <2>1 DEF Exempt
  <2>3. ~torn  BY <2>1 DEF Pooled
  <2>4. OnceEach(pending', Exempt) /\ OutOf(pending', inFlight, Exempt)
    BY <2>1, RefilledItems
  <2>5. Alone'  BY <2>1, <2>2, AloneKept
  <2>6. LinedUp'  BY <2>1, <2>2, <2>4 DEF LinedUp
  <2>7. Pooled'  BY <2>1, <2>3 DEF Pooled
  <2> QED  BY <2>5, <2>6, <2>7
<1>4. CASE TakeItem
  <2>1. /\ UNCHANGED <<threads, inFlight, shadowed, stale, torn>> /\ pc = "dispatch"
    BY <1>4 DEF TakeItem
  <2>2. /\ OnceEach(pending', Exempt) /\ OutOf(pending', inFlight, Exempt)
        /\ pc' = "send" => pool' /\ (cur'.track \notin inFlight \/ cur'.track \in Exempt)
        /\ pc' \in {"send", "wait"}
    BY <1>4, TakeItems
  <2>3. Exempt' = Exempt  BY <2>1 DEF Exempt
  <2>4. ~torn  BY <2>1 DEF Pooled
  <2>5. Alone'  BY <2>1, <2>3, AloneKept
  <2>6. LinedUp'  BY <2>1, <2>2, <2>3 DEF LinedUp
  <2>7. Pooled'  BY <2>1, <2>2, <2>4 DEF Pooled
  <2> QED  BY <2>5, <2>6, <2>7
<1>5. CASE Prioritise
  <2>1. /\ UNCHANGED <<threads, shadowed>> /\ pc' \in {"reject", "plan"} /\ torn' = FALSE
        /\ inFlight' = (IF torn THEN {} ELSE inFlight)
        /\ stale' = IF torn THEN stale \union TracksOf(outcomes) ELSE stale
    BY <1>5 DEF Prioritise
  <2>2. Exempt \subseteq Exempt'  BY <2>1 DEF Exempt
  <2>3. OnceEach(pending', Exempt) /\ OutOf(pending', inFlight', Exempt)
    BY <1>5, PrioritiseItems
  <2>4. LinedUp'  BY <2>1, <2>2, <2>3 DEF LinedUp, OnceEach, OutOf
  <2>5. Pooled'  BY <2>1 DEF Pooled
  <2>6. CASE ~torn  BY <2>1, <2>2, <2>4, <2>5, <2>6, AloneKept
  <2>7. CASE torn
    <3>1. work = <<>> /\ busy = <<>>  BY <2>7, NothingAtWork DEF Pooled
    <3>2. work' = <<>> /\ busy' = <<>> /\ outcomes' = outcomes  BY <2>1, <3>1 DEF threads
    <3>3. \A i \in DOMAIN outcomes : outcomes[i].track \in Exempt'
      BY <2>1, <2>7 DEF Exempt, TracksOf
    <3>4. Alone'  BY <2>2, <3>2, <3>3 DEF Alone, OnceEach, Apart, Within
    <3> QED  BY <2>4, <2>5, <3>4
  <2> QED  BY <2>6, <2>7
<1> QED  BY <1>1, <1>2, <1>3, <1>4, <1>5

\* Steps of the supervisor that close the pool or read outcomes.
LEMMA AloneFolding ==
    ASSUME TypeOK, Pooled, Alone, LinedUp,
           \/ StopSweep \/ AwaitTail \/ GoIdle \/ QueryFails \/ FinishSweep \/ Wait
    PROVE  Alone' /\ LinedUp' /\ Pooled'
<1>1. /\ inFlight' \subseteq inFlight /\ UNCHANGED <<pending, shadowed, stale, torn>>
      /\ pc \in {"reject", "plan", "wait"} /\ pc' \notin {"dispatch", "send"}
  BY DEF StopSweep, AwaitTail, GoIdle, QueryFails, FinishSweep, Wait, lined, history
<1>2. Exempt' = Exempt  BY <1>1 DEF Exempt
<1>3. LinedUp'  BY <1>1, <1>2, LinedUpKept
<1>4. Pooled'
  <2>1. ~torn  BY <1>1 DEF Pooled
  <2> QED  BY <1>1, <2>1 DEF Pooled
<1>5. CASE StopSweep \/ GoIdle
  <2>1. work' = <<>> /\ busy' = <<>> /\ outcomes' = <<>>
    BY <1>5 DEF StopSweep, GoIdle, Join, Quiet
  <2>2. Alone'  BY <2>1 DEF Alone, OnceEach, Apart, Within
  <2> QED  BY <1>3, <1>4, <2>2
<1>6. CASE QueryFails \/ FinishSweep
  <2>1. UNCHANGED <<threads, inFlight>>  BY <1>6 DEF QueryFails, FinishSweep
  <2>2. Alone'  BY <1>2, <2>1, AloneKept
  <2> QED  BY <1>3, <1>4, <2>2
<1>7. outcomes \in Seq([track : Tracks, rejected : BOOLEAN]) /\ Len(outcomes) \in Nat
  BY DEF TypeOK
<1>8. ASSUME NEW some, NEW t \in Acknowledged(some)
      PROVE  \E j \in DOMAIN some : some[j].track = t
  BY <1>8 DEF Acknowledged
<1>9. CASE AwaitTail
  <2>1. /\ UNCHANGED <<work, busy, history>> /\ outcomes' = <<>>
        /\ inFlight' = inFlight \ Acknowledged(outcomes)
    BY <1>9 DEF AwaitTail
  <2>2. \A t \in inFlight \ inFlight' : \E j \in DOMAIN outcomes : outcomes[j].track = t
    BY <1>8, <2>1
  <2>3. \A j \in DOMAIN outcomes : j <= Len(outcomes)  BY <1>7
  <2>4. SubSeq(outcomes, Len(outcomes) + 1, Len(outcomes)) = <<>>
    BY <1>7, SubSeqEmpty
  <2>5. Len(outcomes) \in 0 .. Len(outcomes)  BY <1>7
  <2>6. Alone'  BY <2>1, <2>2, <2>3, <2>4, <2>5, OutcomesRead
  <2> QED  BY <1>3, <1>4, <2>6
<1>10. CASE Wait
  <2> DEFINE n == Min({1, Len(outcomes)})
             some == SubSeq(outcomes, 1, n)
  <2>1. /\ UNCHANGED <<work, busy, history>>
        /\ outcomes' = SubSeq(outcomes, Len(some) + 1, Len(outcomes))
        /\ inFlight' = inFlight \ Acknowledged(some)
    BY <1>10 DEF Wait
  <2>2. n \in Nat /\ n <= Len(outcomes)  BY <1>7, LesserOfTwo
  <2> HIDE DEF n
  <2>3. \A j \in 1 .. n : j \in DOMAIN outcomes /\ j <= n
    <3>1. DOMAIN outcomes = 1 .. Len(outcomes)  BY <1>7
    <3>2. \A j \in 1 .. n : j \in 1 .. Len(outcomes) /\ j <= n
      <4>1. Len(outcomes) \in Nat  BY <1>7
      <4> QED  BY <2>2, <4>1
    <3> QED  BY <3>1, <3>2
  <2>4. /\ Len(some) = n /\ some \in Seq([track : Tracks, rejected : BOOLEAN])
        /\ \A j \in DOMAIN some : j \in DOMAIN outcomes /\ j <= n /\ some[j] = outcomes[j]
    <3>1. \A j \in 1 .. n : outcomes[j] \in [track : Tracks, rejected : BOOLEAN]
      BY <1>7, <2>3, Elements
    <3>2. /\ Len(some) = n /\ some \in Seq([track : Tracks, rejected : BOOLEAN])
          /\ \A j \in 1 .. n : some[j] = outcomes[j]
      BY <2>2, <3>1
    <3> HIDE DEF some
    <3>3. DOMAIN some = 1 .. n  BY <3>2
    <3> QED  BY <2>3, <3>2, <3>3
  <2> HIDE DEF some
  <2>5. ASSUME NEW t \in inFlight \ inFlight'
        PROVE  \E j \in DOMAIN outcomes : j <= n /\ outcomes[j].track = t
    <3>1. t \in Acknowledged(some)  BY <2>1
    <3> QED  BY <1>8, <2>4, <3>1
  <2>6. n \in 0 .. Len(outcomes)  BY <1>7, <2>2
  <2>7. Alone'  BY <2>1, <2>4, <2>5, <2>6, OutcomesRead
  <2> QED  BY <1>3, <1>4, <2>7
<1> QED  BY <1>5, <1>6, <1>9, <1>10

\* Steps of a dispatch.
LEMMA AloneDispatching ==
    ASSUME TypeOK, Pooled, Alone, LinedUp,
           SkipItem \/ ChannelFull \/ SendItem \/ ReadFails \/ DispatchDone \/ Stall
    PROVE  Alone' /\ LinedUp' /\ Pooled'
<1>1. /\ pc \in {"send", "dispatch", "wait"} /\ pc' # "send" /\ UNCHANGED <<pool, torn, stale>>
      /\ pc' = "dispatch" => pc = "send"
  BY DEF SkipItem, ChannelFull, SendItem, ReadFails, DispatchDone, Stall, history
<1>2. Pooled'
  <2>1. ~torn  BY <1>1 DEF Pooled
  <2> QED  BY <1>1, <2>1 DEF Pooled
<1>3. pending \in Seq(Item)  BY DEF TypeOK
<1>4. CASE ChannelFull \/ DispatchDone \/ Stall
  <2>1. UNCHANGED <<threads, inFlight, shadowed, stale, pending>>
    BY <1>4 DEF ChannelFull, DispatchDone, Stall, lined, history
  <2> QED  BY <1>1, <1>2, <2>1, BooksKept
<1>5. CASE SkipItem \/ ReadFails
  <2>1. UNCHANGED <<threads, inFlight>> /\ PopFront  BY <1>5 DEF SkipItem, ReadFails
  <2>2. LinedUp' /\ Exempt \subseteq Exempt'  BY <1>1, <1>3, <2>1, LinedUpPopped
  <2>3. Alone'  BY <2>1, <2>2, AloneKept
  <2> QED  BY <1>2, <2>2, <2>3
<1>6. CASE SendItem
  <2>1. PopFront /\ inFlight' = inFlight \union {cur.track}  BY <1>6 DEF SendItem
  <2>2. LinedUp'  BY <1>1, <1>3, <2>1, LinedUpPopped
  <2> QED  BY <1>2, <1>6, <2>2, SendKeeps
<1> QED  BY <1>4, <1>5, <1>6

\* Every step keeps the types and one worker for each track.
LEMMA TypedAndAlone ==
    ASSUME TypeOK, Pooled, Alone, LinedUp, [Next]_vars
    PROVE  TypeOK' /\ Pooled' /\ Alone' /\ LinedUp'
<1>1. CASE Supervisor
  BY <1>1, TypesSupervisor, AlonePlanning, AloneFolding, AloneDispatching DEF Supervisor
<1>2. CASE Worker  BY <1>2, TypesWorker, AloneOutside
<1>3. CASE User \/ Runtime \/ Restart  BY <1>3, TypesOutside, AloneOutside
<1>4. CASE UNCHANGED vars
  <2>1. UNCHANGED <<threads, inFlight, shadowed, stale, pending, pc, cur, pool, torn>>
    BY <1>4 DEF vars, super, lined, history
  <2>2. Alone' /\ LinedUp' /\ Pooled'  BY <2>1, BooksKept DEF Pooled
  <2>3. TypeOK'
    BY <1>4 DEF vars, rows, lined, threads, super, history, bounds, TypeOK, Quiet
  <2> QED  BY <2>2, <2>3
<1> QED  BY <1>1, <1>2, <1>3, <1>4 DEF Next

-----------------------------------------------------------------------------
(* The user's choice is not lost, and nothing is left when the supervisor   *)
(* blocks.                                                                  *)

\* The channel: a settings command carries the new choice (ChangeSettings).
LEMMA SendSettings ==
    ASSUME channel \in Seq(Commands), NEW caps \in SUBSET Caps,
           Send([kind |-> "settings", caps |-> caps]), prefs' = caps
    PROVE  channel' \in Seq(Commands) /\ InForce' /\ channel' # <<>>
<1> DEFINE command == [kind |-> "settings", caps |-> caps]
<1>1. command \in Commands  BY DEF Commands
<1>2. /\ channel' \in Seq(Commands) /\ Len(channel') = Len(channel) + 1
      /\ channel'[Len(channel')] = command
  BY <1>1 DEF Send
<1> HIDE DEF command
<1>3. command.kind = "settings" /\ command.caps = caps  BY DEF command
<1>4. Len(channel') \in 1 .. Len(channel')  BY <1>2
<1>5. ASSUME NEW i \in 1 .. Len(channel'), IsSettings(i)',
             \A j \in i + 1 .. Len(channel') : ~IsSettings(j)'
      PROVE  channel'[i].caps = prefs'
  <2>1. i = Len(channel')
    BY <1>2, <1>3, <1>5 DEF IsSettings
  <2> QED  BY <1>2, <1>3, <2>1
<1>6. ~ \A i \in 1 .. Len(channel') : ~IsSettings(i)'
  BY <1>2, <1>3, <1>4 DEF IsSettings
<1> QED  BY <1>2, <1>5, <1>6 DEF InForce

\* The channel: another command leaves the order of settings alone.
LEMMA SendOther ==
    ASSUME channel \in Seq(Commands), InForce, NEW command \in Commands,
           command.kind # "settings", Send(command), UNCHANGED <<prefs, settings>>
    PROVE  channel' \in Seq(Commands) /\ InForce' /\ channel' # <<>>
<1>1. /\ channel' \in Seq(Commands) /\ Len(channel') = Len(channel) + 1
      /\ channel'[Len(channel')] = command
      /\ \A i \in 1 .. Len(channel) : channel'[i] = channel[i]
  BY DEF Send
<1>2. \A i \in 1 .. Len(channel) : IsSettings(i)' = IsSettings(i)
  BY <1>1 DEF IsSettings
<1>3. \A i \in 1 .. Len(channel') : IsSettings(i)' => i \in 1 .. Len(channel)
  BY <1>1 DEF IsSettings
<1>4. ASSUME NEW i \in 1 .. Len(channel'), IsSettings(i)',
             \A j \in i + 1 .. Len(channel') : ~IsSettings(j)'
      PROVE  channel'[i].caps = prefs'
  <2>1. i \in 1 .. Len(channel) /\ IsSettings(i)  BY <1>2, <1>3, <1>4
  <2>2. \A j \in i + 1 .. Len(channel) : ~IsSettings(j)  BY <1>1, <1>2, <1>4, <2>1
  <2> QED  BY <1>1, <2>1, <2>2 DEF InForce
<1>5. (\A i \in 1 .. Len(channel') : ~IsSettings(i)') => settings' = prefs'
  BY <1>1, <1>2 DEF InForce
<1> QED  BY <1>1, <1>4, <1>5 DEF InForce

\* The supervisor takes the first command (drain_commands, block_for_next_command).
LEMMA TakeCommand ==
    ASSUME channel \in Seq(Commands), channel # <<>>, InForce, ApplyCommand, UNCHANGED prefs
    PROVE  channel' \in Seq(Commands) /\ InForce'
<1>1. /\ channel # <<>> /\ channel' = Tail(channel)
      /\ settings' = IF IsSettings(1) THEN channel[1].caps ELSE settings
  <2>1. Head(channel) = channel[1]  BY TailDrawn
  <2> QED  BY <2>1 DEF ApplyCommand, AfterCommand, IsSettings
<1>2. /\ channel' \in Seq(Commands) /\ Len(channel) \in Nat
      /\ Len(channel') = Len(channel) - 1 /\ Len(channel) >= 1
      /\ \A i \in 1 .. Len(channel') : channel'[i] = channel[i + 1]
  BY <1>1
<1>3. \A i \in 1 .. Len(channel') :
          i + 1 \in 1 .. Len(channel) /\ IsSettings(i)' = IsSettings(i + 1)
  BY <1>2 DEF IsSettings
<1>4. \A k \in 2 .. Len(channel) : k - 1 \in 1 .. Len(channel') /\ k = (k - 1) + 1
  BY <1>2
<1>5. ASSUME NEW i \in 1 .. Len(channel'), IsSettings(i)',
             \A j \in i + 1 .. Len(channel') : ~IsSettings(j)'
      PROVE  channel'[i].caps = prefs'
  <2>1. i + 1 \in 1 .. Len(channel) /\ IsSettings(i + 1)  BY <1>3, <1>5
  <2>2. ASSUME NEW k \in (i + 1) + 1 .. Len(channel) PROVE ~IsSettings(k)
    <3>1. k - 1 \in i + 1 .. Len(channel') /\ k - 1 \in 1 .. Len(channel') /\ (k - 1) + 1 = k
      BY <1>2
    <3> QED  BY <1>3, <1>5, <3>1
  <2> QED  BY <1>2, <2>1, <2>2 DEF InForce
<1>6. ASSUME \A i \in 1 .. Len(channel') : ~IsSettings(i)' PROVE settings' = prefs'
  <2>1. \A k \in 2 .. Len(channel) : ~IsSettings(k)
    BY <1>3, <1>4, <1>6
  <2>2. CASE IsSettings(1)
    <3>1. 1 \in 1 .. Len(channel) /\ \A j \in 1 + 1 .. Len(channel) : ~IsSettings(j)
      BY <1>2, <2>1
    <3> QED  BY <1>1, <2>2, <3>1 DEF InForce
  <2>3. CASE ~IsSettings(1)
    <3>1. \A k \in 1 .. Len(channel) : ~IsSettings(k)
      <4> TAKE k \in 1 .. Len(channel)
      <4>1. k = 1 \/ k \in 2 .. Len(channel)  BY <1>2
      <4> QED  BY <2>1, <2>3, <4>1
    <3> QED  BY <1>1, <2>3, <3>1 DEF InForce
  <2> QED  BY <2>2, <2>3
<1> QED  BY <1>2, <1>5, <1>6 DEF InForce

\* InForce depends on nothing but the channel and the settings.
LEMMA ChannelKept ==
    ASSUME channel \in Seq(Commands), InForce, UNCHANGED <<channel, settings, prefs>>
    PROVE  channel' \in Seq(Commands) /\ InForce'
  BY DEF InForce, IsSettings

\* With no command to take, the supervisor goes on as it is (command_drain_step).
LEMMA TakeNone ==
    ASSUME channel = <<>>, ApplyCommand
    PROVE  UNCHANGED <<channel, settings>>
<1>1. AfterCommand.settings = settings  BY DEF AfterCommand
<1> QED  BY <1>1 DEF ApplyCommand

\* A wake or a respawn is sent, or an explicit run (Send of all but ChangeSettings).
LEMMA UserForce ==
    ASSUME TypeOK, InForce, Blocked, User \/ Runtime
    PROVE  InForce' /\ Blocked'
<1> USE DEF rows, lined, threads, super, history, bounds
<1>1. channel \in Seq(Commands) /\ state \in [Tracks -> {"new", "missing", "available", "removed"}]
      /\ stamped \in [Tracks -> SUBSET Caps] /\ current \in [Tracks -> BOOLEAN]
  BY DEF TypeOK
<1>2. ASSUME NEW caps \in Preferences, ChangeSettings(caps) PROVE InForce' /\ Blocked'
  <2>1. InForce' /\ channel' # <<>>
    BY <1>1, <1>2, SendSettings, AnalysisAssumption DEF ChangeSettings
  <2> QED  BY <2>1 DEF Blocked
<1>3. CASE ChangePool
  <2>1. [kind |-> "respawn"] \in Commands  BY DEF Commands
  <2>2. InForce' /\ channel' # <<>>  BY <1>1, <1>3, <2>1, SendOther DEF ChangePool
  <2> QED  BY <2>2 DEF Blocked
<1>4. ASSUME NEW request \in Requests, RequestExplicitRun(request)
      PROVE  InForce' /\ Blocked'
  <2> DEFINE asked == request.tracks
             S == {i \in DOMAIN asked : NeedsAny(asked[i], request.caps)}
             command == [kind |-> "explicit", tracks |-> Those(asked, S), caps |-> request.caps]
  <2>1. asked \in Seq(Tracks) /\ request.caps \in SUBSET Caps  BY AnalysisAssumption
  <2>2. S \in SUBSET DOMAIN asked  OBVIOUS
  <2>3. Send(command) /\ UNCHANGED <<prefs, settings>>  BY <1>4 DEF RequestExplicitRun
  <2> HIDE DEF S
  <2>4. Those(asked, S) \in Seq(Tracks)  BY <2>1, <2>2, Subsequence
  <2>5. command \in Commands /\ command.kind # "settings"  BY <2>1, <2>4 DEF Commands
  <2> HIDE DEF command
  <2>6. InForce' /\ channel' # <<>>  BY <1>1, <2>3, <2>5, SendOther
  <2> QED  BY <2>6 DEF Blocked
<1>5. ASSUME NEW t \in Tracks, RemoveTrack(t) PROVE InForce' /\ Blocked'
  <2>1. InForce'  BY <1>1, <1>5, ChannelKept DEF RemoveTrack
  <2>2. \A u \in Tracks : \A c : Needs(u, c)' => Needs(u, c)
    BY <1>1, <1>5 DEF RemoveTrack, Needs
  <2>3. Blocked'  BY <1>5, <2>2 DEF RemoveTrack, Blocked, Needing, NeedsAny
  <2> QED  BY <2>1, <2>3
<1>6. ASSUME NEW t \in Tracks, ReplaceAudio(t) PROVE InForce' /\ Blocked'
  <2>1. InForce'  BY <1>1, <1>6, ChannelKept DEF ReplaceAudio
  <2>2. \A u \in Tracks : \A c : Needs(u, c)' => Needs(u, c) \/ u = t
    BY <1>1, <1>6 DEF ReplaceAudio, Needs
  <2>3. unwoken' = unwoken \union {t}  BY <1>6 DEF ReplaceAudio
  <2>4. Blocked'  BY <1>6, <2>2, <2>3 DEF ReplaceAudio, Blocked, Needing, NeedsAny
  <2> QED  BY <2>1, <2>4
<1>7. ASSUME NEW t \in Tracks, NEW found \in BOOLEAN, ScanCommit(t, found)
      PROVE  InForce' /\ Blocked'
  <2>1. InForce'  BY <1>1, <1>7, ChannelKept DEF ScanCommit
  <2>2. \A u \in Tracks : \A c : Needs(u, c)' => Needs(u, c) \/ u = t
    BY <1>1, <1>7 DEF ScanCommit, Needs
  <2>3. scan = {} /\ scan' = {t} /\ unwoken' = unwoken  BY <1>7 DEF ScanCommit
  <2>4. Blocked'  BY <1>7, <2>2, <2>3 DEF ScanCommit, Blocked, Needing, NeedsAny
  <2> QED  BY <2>1, <2>4
<1>9. ASSUME NEW t \in Tracks, TrackArrives(t) PROVE InForce' /\ Blocked'
  <2>1. InForce'  BY <1>1, <1>9, ChannelKept DEF TrackArrives
  <2>2. \A u \in Tracks : \A c : Needs(u, c)' => Needs(u, c) \/ u = t
    BY <1>1, <1>9 DEF TrackArrives, Needs
  <2>3. unwoken' = unwoken \union {t}  BY <1>9 DEF TrackArrives
  <2>4. Blocked'  BY <1>9, <2>2, <2>3 DEF TrackArrives, Blocked, Needing, NeedsAny
  <2> QED  BY <2>1, <2>4
<1>10. CASE ScanReloadFails
  <2>1. InForce'  BY <1>1, <1>10, ChannelKept DEF ScanReloadFails
  <2>2. unwoken' \union scan' = unwoken \union scan  BY <1>10 DEF ScanReloadFails
  <2>3. Blocked'  BY <1>10, <2>2 DEF ScanReloadFails, Blocked, Needing, NeedsAny, Needs
  <2> QED  BY <2>1, <2>3
<1>8. CASE ApplyScanResult
  <2>1. [kind |-> "wake"] \in Commands  BY DEF Commands
  <2>2. InForce' /\ channel' # <<>>  BY <1>1, <1>8, <2>1, SendOther DEF ApplyScanResult
  <2> QED  BY <2>2 DEF Blocked
<1> QED
  BY <1>2, <1>3, <1>4, <1>5, <1>6, <1>7, <1>8, <1>9, <1>10 DEF User, Runtime

\* A worker only stamps; what is stamped is not needed any more.
LEMMA WorkerForce ==
    ASSUME TypeOK, InForce, Blocked, Worker
    PROVE  InForce' /\ Blocked'
<1>1. /\ UNCHANGED <<state, channel, settings, prefs, pc, queue, scan, unwoken>>
  BY DEF Worker, TakeWork, RecordAnalysis, RecordFailure, RecordRejected, Report, rows, super,
         lined, history
<1>2. InForce'  BY <1>1, ChannelKept DEF TypeOK
<1>3. /\ stamped \in [Tracks -> SUBSET Caps] /\ current \in [Tracks -> BOOLEAN]
      /\ busy \in Seq(Item)
  BY DEF TypeOK
<1>4. \A u \in Tracks : \A c : Needs(u, c)' => Needs(u, c)
  <2>1. CASE UNCHANGED <<stamped, current>>  BY <1>1, <2>1 DEF Needs
  <2>2. ASSUME NEW item \in Item, Stamp(item.track, item.caps)
        PROVE  \A u \in Tracks : \A c : Needs(u, c)' => Needs(u, c)
    <3>1. item.track \in Tracks  BY DEF Item
    <3>2. \A u \in Tracks : stamped[u] \subseteq stamped'[u] /\ (current[u] => current'[u])
      BY <1>3, <2>2, <3>1 DEF Stamp
    <3> QED  BY <1>1, <3>2 DEF Needs
  <2>3. UNCHANGED <<stamped, current>> \/ \E i \in DOMAIN busy : Stamp(busy[i].track, busy[i].caps)
    BY DEF Worker, TakeWork, RecordAnalysis, RecordFailure, RecordRejected, rows
  <2> QED  BY <1>3, <2>1, <2>2, <2>3, Elements
<1>5. Needing(settings)' \subseteq Needing(settings)  BY <1>1, <1>4 DEF Needing, NeedsAny
<1> QED  BY <1>1, <1>2, <1>5 DEF Blocked

\* The supervisor blocks only with nothing to do.
LEMMA SupervisorForce ==
    ASSUME TypeOK, InForce, Blocked, Supervisor
    PROVE  InForce' /\ Blocked'
<1> USE DEF rows, lined, threads, super, history, bounds
<1>1. channel \in Seq(Commands)  BY DEF TypeOK
<1>2. CASE DrainCommand \/ Receive
  <2>1. ApplyCommand /\ channel # <<>> /\ UNCHANGED prefs /\ pc' = "top"
    BY <1>2 DEF DrainCommand, Receive
  <2> QED  BY <1>1, <2>1, TakeCommand DEF Blocked
<1>3. CASE TakeItem
  <2>1. ApplyCommand /\ UNCHANGED prefs /\ pc' # "idle"  BY <1>3 DEF TakeItem
  <2>2. CASE channel = <<>>  BY <1>1, <2>1, <2>2, TakeNone, ChannelKept DEF Blocked
  <2>3. CASE channel # <<>>  BY <1>1, <2>1, <2>3, TakeCommand DEF Blocked
  <2> QED  BY <2>2, <2>3
<1>4. CASE GoIdle
  <2>1. InForce'  BY <1>1, <1>4, ChannelKept DEF GoIdle
  <2>2. settings' = {} /\ queue' = <<>>  BY <1>4 DEF GoIdle, Unasked
  <2> QED  BY <2>1, <2>2 DEF Blocked, Needing, NeedsAny
<1>5. CASE FinishSweep
  <2>1. InForce'  BY <1>1, <1>5, ChannelKept DEF FinishSweep
  <2>2. Refilled = <<>> /\ queue = <<>> /\ inFlight = {}  BY <1>5 DEF FinishSweep, CaughtUp
  <2>3. Swept = <<>>  BY <2>2 DEF Refilled
  <2>4. Needing(settings) = {}  BY <2>2, <2>3, SweptItems DEF TypeOK
  <2>5. UNCHANGED <<state, stamped, current, settings, queue>>  BY <1>5 DEF FinishSweep
  <2>6. Needing(settings)' = {}  BY <2>4, <2>5 DEF Needing, NeedsAny, Needs
  <2> QED  BY <2>1, <2>2, <2>5, <2>6 DEF Blocked
<1>6. CASE \/ Prioritise \/ StopSweep \/ AwaitTail \/ QueryFails \/ Refill \/ SkipItem
           \/ ChannelFull \/ SendItem \/ ReadFails \/ DispatchDone \/ Stall \/ Wait
  <2>1. UNCHANGED <<channel, settings, prefs>> /\ pc' # "idle"
    BY <1>6 DEF Prioritise, StopSweep, AwaitTail, QueryFails, Refill, SkipItem, ChannelFull,
                SendItem, ReadFails, DispatchDone, Stall, Wait
  <2> QED  BY <1>1, <2>1, ChannelKept DEF Blocked
<1> QED  BY <1>2, <1>3, <1>4, <1>5, <1>6 DEF Supervisor

\* Every step keeps the invariant.
LEMMA StepKeeps ==
    ASSUME Inductive, [Next]_vars
    PROVE  Inductive'
<1>1. TypeOK' /\ Pooled' /\ Alone' /\ LinedUp'  BY TypedAndAlone DEF Inductive
<1>2. InForce' /\ Blocked'
  <2>1. CASE Supervisor \/ Worker \/ User \/ Runtime
    BY <2>1, SupervisorForce, WorkerForce, UserForce DEF Inductive
  <2>2. CASE Restart
    <3>1. channel' = <<>> /\ settings' = prefs' /\ pc' = "top"  BY <2>2 DEF Restart
    <3> QED  BY <3>1 DEF InForce, Blocked
  <2>3. CASE UNCHANGED vars
    <3>1. UNCHANGED <<channel, settings, prefs, pc, queue, scan, unwoken, state, stamped, current>>
      BY <2>3 DEF vars, super, lined, history, rows
    <3>2. InForce'  BY <3>1, ChannelKept DEF Inductive, TypeOK
    <3>3. Blocked'  BY <3>1 DEF Inductive, Blocked, Needing, NeedsAny, Needs
    <3> QED  BY <3>2, <3>3
  <2> QED  BY <2>1, <2>2, <2>3 DEF Next
<1> QED  BY <1>1, <1>2 DEF Inductive

-----------------------------------------------------------------------------
\* The inductive invariant of the work, the workers, the channel and the books.
THEOREM Invariance == Spec => []Inductive
<1>1. Init => Inductive
  <2> SUFFICES ASSUME Init PROVE Inductive
    OBVIOUS
  <2> USE AnalysisAssumption, NoItemAssumption DEF Init
  <2>1. /\ state \in [Tracks -> {"new", "missing", "available", "removed"}]
        /\ stamped \in [Tracks -> SUBSET Caps] /\ current \in [Tracks -> BOOLEAN]
    OBVIOUS
  <2>2. prefs \in SUBSET Caps /\ settings \in SUBSET Caps
    OBVIOUS
  <2>3. /\ channel \in Seq(Commands) /\ queue \in Seq(Item) /\ pending \in Seq(Item)
        /\ work \in Seq(Item) /\ Len(work) = 0 /\ busy \in Seq(Item) /\ Len(busy) = 0
        /\ outcomes \in Seq([track : Tracks, rejected : BOOLEAN])
    OBVIOUS
  <2>4. 0 <= Workers + 1 /\ 0 <= Workers
    OBVIOUS
  <2>5. /\ scan \subseteq Tracks /\ rejected \in BOOLEAN /\ pool \in BOOLEAN
        /\ torn \in BOOLEAN /\ inFlight \subseteq Tracks
        /\ owed \union shadowed \union stale \union unwoken \subseteq Tracks
    OBVIOUS
  <2>6. commands \in 0 .. MaxCommands /\ edits \in 0 .. MaxEdits /\ faults \in 0 .. MaxFaults
    OBVIOUS
  <2>7. pc = "top" /\ cur = NoItem
    OBVIOUS
  <2>8. Quiet  BY DEF Quiet
  <2>9. TypeOK
    <3> HIDE DEF Init
    <3>1. /\ pc \in {"top", "reject", "plan", "dispatch", "send", "wait", "idle", "halted",
                     "stalled"}
          /\ cur \in Item \union {NoItem} /\ (cur = NoItem) = (pc # "send")
      BY <2>7
    <3>2. Len(work) <= Workers + 1 /\ Len(busy) <= Workers  BY <2>3, <2>4
    <3> QED  BY <2>1, <2>2, <2>3, <2>5, <2>6, <2>8, <3>1, <3>2 DEF TypeOK
  <2>10. Alone  BY AloneWhenEmpty
  <2> QED  BY <2>9, <2>10 DEF Inductive, Pooled, LinedUp, OnceEach, OutOf, InForce, Blocked
<1>2. Inductive /\ [Next]_vars => Inductive'  BY StepKeeps
<1> QED  BY <1>1, <1>2, PTL DEF Spec

\* Every variable has its type: a worker has one item at most, the channel of work
\* has room for one more than the workers, and without a pool nothing is at work.
THEOREM TypeCorrect == Spec => []TypeOK
<1>1. Inductive => TypeOK  BY DEF Inductive
<1> QED  BY <1>1, Invariance, PTL

\* No track is with two workers, or with one and in the channel, unless a dispatch
\* or a teardown put it out of the books (in_flight).
THEOREM OneWorkerEach == Spec => []AnalysedOnce
<1>1. Inductive => AnalysedOnce
  <2> SUFFICES ASSUME Inductive, NEW t \in Tracks, Twice(t) PROVE t \in Exempt
    BY DEF AnalysedOnce, Exempt
  <2>1. work \in Seq(Item) /\ busy \in Seq(Item)  BY DEF Inductive, TypeOK
  <2>2. OnceEach(work, Exempt) /\ OnceEach(busy, Exempt) /\ Apart(work, busy, Exempt)
    BY DEF Inductive, Alone
  <2>3. OutOf(work, {}, Exempt) /\ OutOf(busy, {}, Exempt)  BY DEF OutOf
  <2>4. OnceEach(work \o busy, Exempt)  BY <2>1, <2>2, <2>3, ConcatKeeps
  <2> QED  BY <2>4 DEF Twice, Dispatched, OnceEach
<1> QED  BY <1>1, Invariance, PTL

\* A supervisor blocked after Idle on an empty channel, with no scan result to be
\* applied, has the user's settings and nothing to do, but for tracks of which
\* nobody has told it since the last command: their audio was replaced, they were
\* imported, relocated or found again, or a scan's rows could not be read back
\* (supervisor_loop).
THEOREM NoWakeLost == Spec => []IdleMeansDone
<1>1. Inductive => IdleMeansDone
  <2> SUFFICES ASSUME Inductive, pc = "idle", channel = <<>>, scan = {}
               PROVE  settings = prefs /\ queue = <<>> /\ Needing(prefs) \subseteq unwoken
    BY DEF IdleMeansDone
  <2>1. settings = prefs  BY DEF Inductive, InForce
  <2> QED  BY <2>1 DEF Inductive, Blocked
<1> QED  BY <1>1, Invariance, PTL

-----------------------------------------------------------------------------
(* What the user asked for is kept.                                        *)

\* The tracks that a sequence of items has explicit work for.
Asked(s) == {x.track : x \in {y \in ToSet(s) : y.explicit}}

Held == TracksOf(queue) \union Asked(pending) \union Asked(work) \union Asked(busy)

\* What is owed is held somewhere on its way to a worker.
DebtsHeld == \A t \in owed : state[t] # "removed" => t \in Held \/ t \in shadowed

\* Explicit work is for a track that has or had a row, and asks for something.
Proper(item) == item.explicit => state[item.track] # "new" /\ item.caps # {}
ProperRun(command) == command.kind = "explicit" =>
    command.caps # {} /\ \A t \in ToSet(command.tracks) : state[t] # "new"

WorkProper ==
    /\ \A x \in ToSet(queue) : x.explicit /\ Proper(x)
    /\ \A x \in ToSet(pending) : Proper(x)
    /\ pc = "send" => Proper(cur)
    /\ \A x \in ToSet(channel) : ProperRun(x)

\* A set of numbers that is not empty has a least one.
LEMMA Least ==
    ASSUME NEW S \in SUBSET Nat, S # {}
    PROVE  \E x \in S : \A y \in S : x <= y
<1> DEFINE F == {0 .. x : x \in S}
<1>1. F \subseteq FiniteSubsetsOf(Nat) /\ F # {}
  <2>1. \A x \in S : IsFiniteSet(0 .. x) /\ 0 .. x \in SUBSET Nat  BY FS_Interval
  <2> QED  BY <2>1 DEF FiniteSubsetsOf
<1>2. PICK U \in F : \A V \in F : <<V, U>> \notin StrictSubsetOrdering(Nat)
  <2>1. IsWellFoundedOn(StrictSubsetOrdering(Nat), FiniteSubsetsOf(Nat))
    BY FS_StrictSubsetOrderingWellFounded
  <2> HIDE DEF F
  <2> QED  BY <1>1, <2>1, WFMin
<1>3. PICK x \in S : U = 0 .. x  OBVIOUS
<1>4. ASSUME NEW y \in S PROVE x <= y
  <2> SUFFICES ASSUME y < x PROVE FALSE
    BY <1>3
  <2>1. 0 .. y \in F /\ 0 .. y \in SUBSET Nat /\ U \in SUBSET Nat  BY <1>3
  <2>2. 0 .. y \subseteq U /\ 0 .. y # U  BY <1>3
  <2> QED  BY <1>2, <2>1, <2>2 DEF StrictSubsetOrdering
<1> QED  BY <1>3, <1>4

\* The elements of sequences that are selected, joined, or lose an element.
LEMMA SelectionElements ==
    ASSUME NEW T, NEW s \in Seq(T), NEW S \in SUBSET DOMAIN s
    PROVE  Those(s, S) \in Seq(T) /\ ToSet(Those(s, S)) = {s[i] : i \in S}
<1>1. PICK g : Places(g, s, S)  BY Subsequence
<1>2. \A k \in DOMAIN Those(s, S) : g[k] \in S /\ Those(s, S)[k] = s[g[k]]
  BY <1>1 DEF Places
<1>3. \A x \in S : \E k \in DOMAIN Those(s, S) : g[k] = x  BY <1>1 DEF Places
<1> QED  BY <1>2, <1>3, Subsequence DEF ToSet

LEMMA JoinElements ==
    ASSUME NEW T, NEW s \in Seq(T), NEW r \in Seq(T)
    PROVE  ToSet(s \o r) = ToSet(s) \union ToSet(r)
<1>1. /\ Len(s) \in Nat /\ Len(r) \in Nat /\ DOMAIN s = 1 .. Len(s) /\ DOMAIN r = 1 .. Len(r)
      /\ DOMAIN (s \o r) = 1 .. Len(s) + Len(r)
  OBVIOUS
<1>2. \A i \in DOMAIN s : i \in DOMAIN (s \o r) /\ (s \o r)[i] = s[i]  BY <1>1
<1>3. \A i \in DOMAIN r : i + Len(s) \in DOMAIN (s \o r) /\ (s \o r)[i + Len(s)] = r[i]
  BY <1>1
<1>4. \A i \in DOMAIN (s \o r) :
          \/ i \in DOMAIN s /\ (s \o r)[i] = s[i]
          \/ i - Len(s) \in DOMAIN r /\ (s \o r)[i] = r[i - Len(s)]
  BY <1>1
<1>5. ToSet(s \o r) \subseteq ToSet(s) \union ToSet(r)  BY <1>4 DEF ToSet
<1>6. ToSet(s) \subseteq ToSet(s \o r)  BY <1>2 DEF ToSet
<1>7. ToSet(r) \subseteq ToSet(s \o r)  BY <1>3 DEF ToSet
<1> QED  BY <1>5, <1>6, <1>7

LEMMA AppendElements ==
    ASSUME NEW T, NEW s \in Seq(T), NEW x \in T
    PROVE  ToSet(Append(s, x)) = ToSet(s) \union {x}
<1> DEFINE one == <<x>>
<1>1. Append(s, x) = s \o one /\ one \in Seq(T) /\ DOMAIN one = {1} /\ one[1] = x
  OBVIOUS
<1> HIDE DEF one
<1>2. ToSet(one) = {x}  BY <1>1, Zenon DEF ToSet
<1>3. ToSet(s \o one) = ToSet(s) \union ToSet(one)  BY <1>1, JoinElements
<1> QED  BY <1>1, <1>2, <1>3

LEMMA TailElements ==
    ASSUME NEW T, NEW s \in Seq(T), s # <<>>
    PROVE  ToSet(s) = {Head(s)} \union ToSet(Tail(s))
<1> DEFINE front == Head(s)
           rest == Tail(s)
           one == <<front>>
<1>1. /\ s = one \o rest /\ rest \in Seq(T)
      /\ one \in Seq(T) /\ DOMAIN one = {1} /\ one[1] = front
  OBVIOUS
<1> HIDE DEF one, front, rest
<1>2. ToSet(one) = {front}  BY <1>1, Zenon DEF ToSet
<1>3. ToSet(one \o rest) = ToSet(one) \union ToSet(rest)  BY <1>1, JoinElements
<1> QED  BY <1>1, <1>2, <1>3 DEF front, rest

LEMMA RemovalElements ==
    ASSUME NEW T, NEW s \in Seq(T), NEW i \in DOMAIN s
    PROVE  ToSet(s) = {s[i]} \union ToSet(RemoveAt(s, i))
<1> DEFINE a == SubSeq(s, 1, i - 1)
           b == SubSeq(s, i + 1, Len(s))
<1>1. Len(s) \in Nat /\ DOMAIN s = 1 .. Len(s) /\ i \in 1 .. Len(s)  OBVIOUS
<1>2. /\ a \in Seq(T) /\ Len(a) = i - 1 /\ \A k \in 1 .. i - 1 : a[k] = s[k]
      /\ b \in Seq(T) /\ Len(b) = Len(s) - i /\ \A k \in 1 .. Len(s) - i : b[k] = s[i + k]
  BY <1>1
<1>3. DOMAIN a = 1 .. i - 1 /\ DOMAIN b = 1 .. Len(s) - i  BY <1>1, <1>2
<1>4. RemoveAt(s, i) = a \o b  BY DEF RemoveAt
<1> HIDE DEF a, b
<1>5. ToSet(RemoveAt(s, i)) = ToSet(a) \union ToSet(b)  BY <1>2, <1>4, JoinElements
<1>6. ToSet(a) \subseteq ToSet(s) /\ ToSet(b) \subseteq ToSet(s)
  <2>1. \A k \in DOMAIN a : k \in DOMAIN s /\ a[k] = s[k]  BY <1>1, <1>2, <1>3
  <2>2. \A k \in 1 .. Len(s) - i : i + k \in 1 .. Len(s)  BY <1>1
  <2>3. \A k \in DOMAIN b : i + k \in DOMAIN s /\ b[k] = s[i + k]
    BY <1>1, <1>2, <1>3, <2>2
  <2> QED  BY <2>1, <2>3 DEF ToSet
<1>7. ASSUME NEW j \in DOMAIN s PROVE s[j] \in {s[i]} \union ToSet(RemoveAt(s, i))
  <2>1. CASE j < i
    <3>1. j \in DOMAIN a /\ a[j] = s[j]  BY <1>1, <1>2, <1>3, <2>1
    <3> QED  BY <1>5, <3>1 DEF ToSet
  <2>2. CASE j > i
    <3>1. j - i \in DOMAIN b /\ b[j - i] = s[i + (j - i)] /\ i + (j - i) = j
      BY <1>1, <1>2, <1>3, <2>2
    <3> QED  BY <1>5, <3>1 DEF ToSet
  <2> QED  BY <1>1, <2>1, <2>2
<1>8. ToSet(s) \subseteq {s[i]} \union ToSet(RemoveAt(s, i))  BY <1>7 DEF ToSet
<1>9. s[i] \in ToSet(s)  BY DEF ToSet
<1> QED  BY <1>5, <1>6, <1>8, <1>9

\* The tracks of items, and those of their explicit work.
LEMMA TracksMean ==
    ASSUME NEW s
    PROVE  /\ TracksOf(s) = {x.track : x \in ToSet(s)}
           /\ Asked(s) \subseteq TracksOf(s)
           /\ (\A x \in ToSet(s) : x.explicit) => Asked(s) = TracksOf(s)
  BY DEF TracksOf, Asked, ToSet

LEMMA ExplicitElements ==
    ASSUME NEW s \in Seq(Item)
    PROVE  /\ Explicit(s) \in Seq(Item)
           /\ ToSet(Explicit(s)) = {x \in ToSet(s) : x.explicit}
           /\ Asked(Explicit(s)) = Asked(s)
<1> DEFINE S == {i \in DOMAIN s : s[i].explicit}
<1>1. S \in SUBSET DOMAIN s /\ Explicit(s) = Those(s, S)  BY DEF Explicit
<1>2. {s[i] : i \in S} = {x \in ToSet(s) : x.explicit}  BY DEF ToSet
<1> HIDE DEF S
<1>3. Explicit(s) \in Seq(Item) /\ ToSet(Explicit(s)) = {x \in ToSet(s) : x.explicit}
  BY <1>1, <1>2, SelectionElements
<1> QED  BY <1>3 DEF Asked

\* A pass over the queue drops an item only if explicit work of its track is lined up
\* or further in front (drain_ready_explicit_work).
LEMMA ReadyHolds ==
    ASSUME NEW waiting \in Seq(Item), NEW lineup \in Seq(Item), NEW flying,
           \A x \in ToSet(waiting) : x.explicit
    PROVE  LET next == Ready(waiting, lineup, flying) IN
           /\ next.queue \in Seq(Item) /\ next.pending \in Seq(Item)
           /\ ToSet(next.queue) \subseteq ToSet(waiting)
           /\ ToSet(lineup) \subseteq ToSet(next.pending)
           /\ ToSet(next.pending) \subseteq ToSet(lineup) \union ToSet(waiting)
           /\ TracksOf(waiting) \subseteq
                 TracksOf(next.queue) \union Asked(next.pending) \union TracksOf(lineup)
<1> DEFINE free   == {i \in DOMAIN waiting : waiting[i].track \notin flying}
           fresh  == {i \in free : /\ waiting[i].track \notin TracksOf(lineup)
                                  /\ \A j \in DOMAIN waiting :
                                        j < i => waiting[j].track # waiting[i].track}
           before(i) == {j \in fresh : j < i}
           passed == {i \in DOMAIN waiting : Len(lineup) + Cardinality(before(i)) < BatchSize}
           ready  == Those(waiting, fresh \intersect passed)
           left   == Those(waiting, DOMAIN waiting \ passed)
           back   == Those(waiting, passed \ free)
           next   == Ready(waiting, lineup, flying)
<1>1. next.queue = left \o back /\ next.pending = lineup \o ready
  BY DEF Ready
<1>2. /\ left \in Seq(Item) /\ ToSet(left) = {waiting[i] : i \in DOMAIN waiting \ passed}
      /\ back \in Seq(Item) /\ ToSet(back) = {waiting[i] : i \in passed \ free}
      /\ ready \in Seq(Item) /\ ToSet(ready) = {waiting[i] : i \in fresh \intersect passed}
  <2>1. /\ DOMAIN waiting \ passed \in SUBSET DOMAIN waiting
        /\ passed \ free \in SUBSET DOMAIN waiting
        /\ fresh \intersect passed \in SUBSET DOMAIN waiting
    OBVIOUS
  <2> HIDE DEF free, fresh, passed
  <2> QED  BY <2>1, SelectionElements
<1>3. ASSUME NEW i \in DOMAIN waiting, NEW j \in DOMAIN waiting, j < i, i \in passed
      PROVE  j \in passed
  <2>1. /\ Len(lineup) \in Nat /\ BatchSize \in Nat /\ Len(waiting) \in Nat
        /\ DOMAIN waiting = 1 .. Len(waiting) /\ i \in Nat /\ j \in Nat
    BY AnalysisAssumption
  <2>2. IsFiniteSet(DOMAIN waiting)  BY <2>1, FS_Interval
  <2>3. before(i) \in SUBSET DOMAIN waiting /\ before(j) \in SUBSET before(i)
    BY <1>3, <2>1
  <2>4. Len(lineup) + Cardinality(before(i)) < BatchSize  BY <1>3
  <2> HIDE DEF before
  <2>5. IsFiniteSet(before(i)) /\ IsFiniteSet(before(j))  BY <2>2, <2>3, FS_Subset
  <2>6. Cardinality(before(j)) <= Cardinality(before(i))  BY <2>3, <2>5, FS_Subset
  <2>7. Cardinality(before(j)) \in Nat /\ Cardinality(before(i)) \in Nat
    BY <2>5, FS_CardinalityType
  <2>8. Len(lineup) + Cardinality(before(j)) < BatchSize  BY <2>1, <2>4, <2>6, <2>7
  <2> QED  BY <2>8
<1>4. ASSUME NEW i \in DOMAIN waiting
      PROVE  waiting[i].track \in TracksOf(left) \union TracksOf(back) \union Asked(ready)
                                     \union TracksOf(lineup)
  <2> DEFINE same == {j \in DOMAIN waiting : waiting[j].track = waiting[i].track}
  <2>1. same \in SUBSET Nat /\ same # {}  OBVIOUS
  <2>2. PICK j \in same : \A k \in same : j <= k
    <3> HIDE DEF same
    <3> QED  BY <2>1, Least
  <2>3. /\ j \in DOMAIN waiting /\ waiting[j].track = waiting[i].track
        /\ \A k \in DOMAIN waiting : k < j => waiting[k].track # waiting[j].track
    <3>1. j \in Nat /\ \A k \in DOMAIN waiting : k \in Nat  OBVIOUS
    <3>2. \A k \in DOMAIN waiting : waiting[k].track = waiting[i].track => j <= k  BY <2>2
    <3> HIDE DEF same
    <3>3. j \in DOMAIN waiting /\ waiting[j].track = waiting[i].track  BY DEF same
    <3> QED  BY <3>1, <3>2, <3>3
  <2>4. CASE i \notin passed
    <3>1. waiting[i] \in ToSet(left)  BY <1>2, <2>4, Zenon
    <3> QED  BY <3>1, TracksMean
  <2>5. CASE i \in passed /\ i \notin free
    <3>1. waiting[i] \in ToSet(back)  BY <1>2, <2>5, Zenon
    <3> QED  BY <3>1, TracksMean
  <2>6. CASE i \in passed /\ i \in free /\ waiting[i].track \notin TracksOf(lineup)
    <3>1. j \in free  BY <2>3, <2>6
    <3>2. j \in fresh  BY <2>3, <2>6, <3>1
    <3>3. j \in passed
      <4>1. i \in same /\ i \in Nat /\ j \in Nat  BY <2>1
      <4>2. j = i \/ j < i  BY <2>2, <4>1
      <4> QED  BY <1>3, <2>3, <2>6, <4>2
    <3>4. waiting[j] \in ToSet(ready)  BY <1>2, <3>2, <3>3, Zenon
    <3>5. waiting[j].explicit  BY <2>3 DEF ToSet
    <3>6. waiting[j].track \in Asked(ready)  BY <3>4, <3>5 DEF Asked
    <3> QED  BY <2>3, <3>6
  <2> QED  BY <2>4, <2>5, <2>6
<1>5. /\ ToSet(left) \subseteq ToSet(waiting) /\ ToSet(back) \subseteq ToSet(waiting)
      /\ ToSet(ready) \subseteq ToSet(waiting)
  BY <1>2 DEF ToSet
<1> HIDE DEF left, back, ready, next, passed, fresh, free, before
<1>6. /\ next.queue \in Seq(Item) /\ next.pending \in Seq(Item)
      /\ ToSet(next.queue) = ToSet(left) \union ToSet(back)
      /\ ToSet(next.pending) = ToSet(lineup) \union ToSet(ready)
  <2>1. left \o back \in Seq(Item) /\ lineup \o ready \in Seq(Item)  BY <1>2
  <2>2. ToSet(left \o back) = ToSet(left) \union ToSet(back)  BY <1>2, JoinElements
  <2>3. ToSet(lineup \o ready) = ToSet(lineup) \union ToSet(ready)  BY <1>2, JoinElements
  <2> QED  BY <1>1, <2>1, <2>2, <2>3
<1>7. TracksOf(left) \union TracksOf(back) \subseteq TracksOf(next.queue)
  BY <1>6, TracksMean
<1>8. Asked(ready) \subseteq Asked(next.pending)  BY <1>6 DEF Asked
<1>9. TracksOf(waiting) \subseteq
         TracksOf(next.queue) \union Asked(next.pending) \union TracksOf(lineup)
  BY <1>4, <1>7, <1>8 DEF TracksOf
<1> QED  BY <1>5, <1>6, <1>9 DEF next

\* Nor does putting explicit work first lose any (prioritize_explicit_work).
LEMMA PrioritisedHolds ==
    ASSUME NEW waiting \in Seq(Item), NEW lineup \in Seq(Item), NEW flying,
           \A x \in ToSet(waiting) : x.explicit
    PROVE  LET next == Prioritised(waiting, lineup, flying) IN
           /\ next.queue \in Seq(Item) /\ next.pending \in Seq(Item)
           /\ ToSet(next.queue) \subseteq ToSet(waiting)
           /\ ToSet(next.pending) \subseteq ToSet(lineup) \union ToSet(waiting)
           /\ TracksOf(waiting) \union Asked(lineup) \subseteq
                 TracksOf(next.queue) \union Asked(next.pending)
<1> DEFINE next == Prioritised(waiting, lineup, flying)
<1>1. CASE waiting = <<>>
  <2>1. next = [queue |-> waiting, pending |-> lineup]  BY <1>1 DEF Prioritised
  <2>2. TracksOf(waiting) = {}  BY <1>1 DEF TracksOf
  <2> QED  BY <2>1, <2>2
<1>2. CASE waiting # <<>>
  <2> DEFINE first == Explicit(lineup)
  <2>1. next = Ready(waiting, first, flying)  BY <1>2 DEF Prioritised
  <2>2. /\ first \in Seq(Item) /\ ToSet(first) = {x \in ToSet(lineup) : x.explicit}
        /\ Asked(first) = Asked(lineup)
    BY ExplicitElements
  <2> HIDE DEF first, next
  <2>3. TracksOf(first) = Asked(lineup)  BY <2>2, TracksMean
  <2>4. /\ next.queue \in Seq(Item) /\ next.pending \in Seq(Item)
        /\ ToSet(next.queue) \subseteq ToSet(waiting)
        /\ ToSet(first) \subseteq ToSet(next.pending)
        /\ ToSet(next.pending) \subseteq ToSet(first) \union ToSet(waiting)
        /\ TracksOf(waiting) \subseteq
              TracksOf(next.queue) \union Asked(next.pending) \union TracksOf(first)
    BY <2>1, <2>2, ReadyHolds
  <2>5. Asked(lineup) \subseteq Asked(next.pending)  BY <2>2, <2>4 DEF Asked
  <2>6. ToSet(next.pending) \subseteq ToSet(lineup) \union ToSet(waiting)  BY <2>2, <2>4
  <2>7. TracksOf(waiting) \union Asked(lineup) \subseteq
           TracksOf(next.queue) \union Asked(next.pending)
    BY <2>3, <2>4, <2>5
  <2> QED  BY <2>4, <2>6, <2>7 DEF next
<1> QED  BY <1>1, <1>2

\* What a request adds to the queue is explicit, for its tracks and capabilities.
LEMMA QueuedHolds ==
    ASSUME NEW request, request.tracks \in Seq(Tracks), request.caps \in SUBSET Caps
    PROVE  \A x \in ToSet(Queued(request)) :
              x.explicit /\ x.caps = request.caps /\ x.track \in ToSet(request.tracks)
<1> DEFINE waiting == {queue[i].track : i \in DOMAIN queue}
           S == {i \in DOMAIN request.tracks : request.tracks[i] \notin waiting}
           fresh == Those(request.tracks, S)
           Wanted(t) == [track |-> t, caps |-> request.caps, explicit |-> TRUE]
<1>1. Queued(request) = [i \in DOMAIN fresh |-> Wanted(fresh[i])]  BY DEF Queued
<1>2. S \in SUBSET DOMAIN request.tracks  OBVIOUS
<1> HIDE DEF S
<1>3. ToSet(fresh) = {request.tracks[i] : i \in S}  BY <1>2, SelectionElements
<1>4. \A i \in DOMAIN fresh : fresh[i] \in ToSet(request.tracks)
  BY <1>2, <1>3 DEF ToSet
<1> HIDE DEF fresh
<1> QED  BY <1>1, <1>4 DEF ToSet

\* A command applied loses nothing of the queue and adds what is owed for it
\* (apply_command).
LEMMA CommandHolds ==
    ASSUME TypeOK, WorkProper, ApplyCommand
    PROVE  /\ AfterCommand.queue \in Seq(Item)
           /\ \A x \in ToSet(AfterCommand.queue) : x.explicit /\ Proper(x)
           /\ TracksOf(queue) \union (owed' \ owed) \subseteq TracksOf(AfterCommand.queue)
           /\ ToSet(channel') \subseteq ToSet(channel)
<1> DEFINE command == IF channel = <<>> THEN [kind |-> "wake"] ELSE Head(channel)
           taken == IF command.kind = "explicit" THEN Queued(command) ELSE <<>>
<1>1. /\ AfterCommand.queue = queue \o taken
      /\ AfterCommand.owed = owed \union {taken[i].track : i \in DOMAIN taken}
  BY DEF AfterCommand
<1>2. channel \in Seq(Commands) /\ queue \in Seq(Item)  BY DEF TypeOK
<1>3. channel # <<>> => command \in ToSet(channel) /\ ToSet(Tail(channel)) \subseteq ToSet(channel)
  BY <1>2, TailElements
<1>4. ToSet(channel') \subseteq ToSet(channel)
  BY <1>3 DEF ApplyCommand
<1>5. command \in Commands /\ ProperRun(command)
  <2>1. CASE channel = <<>>  BY <2>1 DEF Commands, ProperRun
  <2>2. CASE channel # <<>>
    <3>1. command \in ToSet(channel)  BY <1>3, <2>2
    <3> HIDE DEF command
    <3> QED  BY <1>2, <3>1 DEF WorkProper, ToSet
  <2> QED  BY <2>1, <2>2
<1> HIDE DEF command
<1>6. taken \in Seq(Item) /\ \A x \in ToSet(taken) : x.explicit /\ Proper(x)
  <2>1. CASE command.kind = "explicit"
    <3>1. command.tracks \in Seq(Tracks) /\ command.caps \in SUBSET Caps
      BY <1>5, <2>1 DEF Commands
    <3>2. command.caps # {} /\ \A t \in ToSet(command.tracks) : state[t] # "new"
      BY <1>5, <2>1 DEF ProperRun
    <3> QED  BY <2>1, <3>1, <3>2, QueuedItems, QueuedHolds DEF Proper
  <2>2. CASE command.kind # "explicit"  BY <2>2 DEF ToSet
  <2> QED  BY <2>1, <2>2
<1> HIDE DEF taken
<1>7. /\ AfterCommand.queue \in Seq(Item)
      /\ ToSet(AfterCommand.queue) = ToSet(queue) \union ToSet(taken)
  BY <1>1, <1>2, <1>6, JoinElements
<1>8. \A x \in ToSet(AfterCommand.queue) : x.explicit /\ Proper(x)
  BY <1>6, <1>7 DEF WorkProper
<1>9. owed' \ owed \subseteq TracksOf(taken)
  BY <1>1 DEF ApplyCommand, TracksOf
<1>10. TracksOf(queue) \union TracksOf(taken) \subseteq TracksOf(AfterCommand.queue)
  BY <1>7, TracksMean
<1> QED  BY <1>4, <1>7, <1>8, <1>9, <1>10

\* The item in front goes; if it is not the one dispatched its track is shadowed.
LEMMA PopHolds ==
    ASSUME TypeOK, PopFront
    PROVE  /\ ToSet(pending') \subseteq ToSet(pending) /\ shadowed \subseteq shadowed'
           /\ \A x \in ToSet(pending) \ ToSet(pending') : x = cur \/ x.track \in shadowed'
<1>1. pending \in Seq(Item)  BY DEF TypeOK
<1>2. CASE pending = <<>>  BY <1>2 DEF PopFront
<1>3. CASE pending # <<>>
  <2>1. ToSet(pending) = {Head(pending)} \union ToSet(Tail(pending))
    BY <1>1, <1>3, TailElements
  <2>2. /\ pending' = Tail(pending) /\ shadowed \subseteq shadowed'
        /\ Head(pending) # cur => Head(pending).track \in shadowed'
    BY <1>3 DEF PopFront
  <2> QED  BY <2>1, <2>2
<1> QED  BY <1>2, <1>3

\* Rows do not become new, nor do removed ones return.
RowsGo ==
    \A t \in Tracks : /\ state[t] # "new" => state'[t] # "new"
                      /\ state[t] = "removed" => state'[t] = "removed"

LEMMA RowsGoOn ==
    ASSUME TypeOK, [Next]_vars
    PROVE  RowsGo
<1>1. state \in [Tracks -> {"new", "missing", "available", "removed"}]  BY DEF TypeOK
<1>2. CASE UNCHANGED state  BY <1>2 DEF RowsGo
<1>3. ASSUME NEW t \in Tracks, RemoveTrack(t) PROVE RowsGo
  BY <1>1, <1>3 DEF RemoveTrack, RowsGo
<1>4. ASSUME NEW t \in Tracks, ReplaceAudio(t) PROVE RowsGo
  BY <1>1, <1>4 DEF ReplaceAudio, RowsGo
<1>5. ASSUME NEW t \in Tracks, NEW found \in BOOLEAN, ScanCommit(t, found) PROVE RowsGo
  BY <1>1, <1>5 DEF ScanCommit, RowsGo
<1>8. ASSUME NEW t \in Tracks, TrackArrives(t) PROVE RowsGo
  BY <1>1, <1>8 DEF TrackArrives, RowsGo
<1>6. Supervisor \/ Worker \/ Runtime \/ Restart \/ UNCHANGED vars => UNCHANGED state
  BY DEF Supervisor, DrainCommand, Prioritise, StopSweep, AwaitTail, GoIdle, QueryFails, Refill,
         FinishSweep, TakeItem, SkipItem, ChannelFull, SendItem, ReadFails, DispatchDone, Stall,
         Wait, Receive, Worker, TakeWork, RecordAnalysis, RecordFailure, RecordRejected, Report,
         Runtime, ApplyScanResult, ScanReloadFails, Restart, rows, vars
<1>7. User => \/ UNCHANGED state
              \/ \E t \in Tracks : RemoveTrack(t) \/ ReplaceAudio(t) \/ TrackArrives(t)
              \/ \E t \in Tracks, found \in BOOLEAN : ScanCommit(t, found)
  BY DEF User, ChangeSettings, ChangePool, RequestExplicitRun, rows
<1> QED  BY <1>2, <1>3, <1>4, <1>5, <1>6, <1>7, <1>8 DEF Next

\* What was proper stays so while rows go on.
LEMMA ProperStays ==
    ASSUME RowsGo
    PROVE  /\ \A x \in Item : Proper(x) => Proper(x)'
           /\ \A x \in Commands : ProperRun(x) => ProperRun(x)'
<1>1. ASSUME NEW x \in Item, Proper(x) PROVE Proper(x)'
  <2>1. x.track \in Tracks  BY DEF Item
  <2> QED  BY <1>1, <2>1 DEF RowsGo, Proper
<1>2. ASSUME NEW x \in Commands, ProperRun(x), x.kind = "explicit" PROVE ProperRun(x)'
  <2>1. x.tracks \in Seq(Tracks)  BY <1>2 DEF Commands
  <2>2. ToSet(x.tracks) \subseteq Tracks  BY <2>1, Elements DEF ToSet
  <2> QED  BY <1>2, <2>2 DEF RowsGo, ProperRun
<1> QED  BY <1>1, <1>2 DEF ProperRun

\* Debts are kept by a step that holds on to what was held.
LEMMA DebtsStay ==
    ASSUME DebtsHeld, owed' \subseteq Tracks, RowsGo, shadowed \subseteq shadowed',
           \A t \in owed' : state[t] # "removed" =>
              /\ t \in owed \/ t \in Held'
              /\ t \in Held => t \in Held' \/ t \in shadowed'
    PROVE  DebtsHeld'
<1> SUFFICES ASSUME NEW t \in owed', state'[t] # "removed"
             PROVE  t \in Held' \/ t \in shadowed'
  BY DEF DebtsHeld
<1>1. state[t] # "removed"  BY DEF RowsGo
<1> QED  BY <1>1 DEF DebtsHeld

\* Proper work stays proper, and a step that adds none but proper work keeps it.
LEMMA ProperKept ==
    ASSUME RowsGo,
           \A x \in ToSet(queue') : x \in Item /\ x.explicit /\ Proper(x),
           \A x \in ToSet(pending') : x \in Item /\ Proper(x),
           \A x \in ToSet(channel') : x \in Commands /\ ProperRun(x),
           pc' = "send" => cur' \in Item /\ Proper(cur')
    PROVE  WorkProper'
<1>1. \A x \in Item : Proper(x) => Proper(x)'  BY ProperStays
<1>2. \A x \in Commands : ProperRun(x) => ProperRun(x)'  BY ProperStays
<1>3. \A x \in ToSet(queue') : x.explicit /\ Proper(x)'  BY <1>1
<1>4. \A x \in ToSet(pending') : Proper(x)'  BY <1>1
<1>5. \A x \in ToSet(channel') : ProperRun(x)'  BY <1>2
<1>6. pc' = "send" => (cur'.explicit => state'[cur'.track] # "new" /\ cur'.caps # {})
  BY <1>1 DEF Proper
<1> QED  BY <1>3, <1>4, <1>5, <1>6 DEF WorkProper, Proper, ProperRun

\* What the elements of the queues are.
LEMMA ElementTypes ==
    ASSUME TypeOK
    PROVE  /\ ToSet(queue) \subseteq Item /\ ToSet(pending) \subseteq Item
           /\ ToSet(channel) \subseteq Commands
           /\ pc = "send" => cur \in Item
<1>1. queue \in Seq(Item) /\ pending \in Seq(Item) /\ channel \in Seq(Commands)
  BY DEF TypeOK
<1>2. pc = "send" => cur \in Item  BY DEF TypeOK
<1> QED  BY <1>1, <1>2, Elements DEF ToSet

\* A step that leaves the queues alone, but perhaps for a command it sends or takes.
LEMMA LeftAlone ==
    ASSUME TypeOK, WorkProper, DebtsHeld, RowsGo, TypeOK',
           UNCHANGED <<queue, pending, work, busy, owed>>, shadowed \subseteq shadowed',
           pc' = "send" => pc = "send" /\ cur' = cur,
           \A x \in ToSet(channel') : x \in ToSet(channel) \/ ProperRun(x)
    PROVE  WorkProper' /\ DebtsHeld'
<1>1. Held' = Held /\ owed' \subseteq Tracks  BY DEF Held, TracksOf, Asked, TypeOK
<1>2. DebtsHeld'  BY <1>1, DebtsStay
<1>3. ToSet(channel') \subseteq Commands
  <2>1. channel' \in Seq(Commands)  BY DEF TypeOK
  <2> QED  BY <2>1, Elements DEF ToSet
<1>4. WorkProper'  BY <1>3, ElementTypes, ProperKept DEF WorkProper
<1> QED  BY <1>2, <1>4

LEMMA HoldsOutside ==
    ASSUME TypeOK, WorkProper, DebtsHeld, RowsGo, TypeOK',
           User \/ Runtime \/ Restart \/ UNCHANGED vars
    PROVE  WorkProper' /\ DebtsHeld'
<1> USE DEF rows, lined, threads, super, history, bounds
<1>1. channel \in Seq(Commands)  BY DEF TypeOK
<1>2. ASSUME NEW command \in Commands, Send(command), ProperRun(command)
      PROVE  \A x \in ToSet(channel') : x \in ToSet(channel) \/ ProperRun(x)
  BY <1>1, <1>2, AppendElements DEF Send
<1>3. ASSUME NEW caps \in Preferences, ChangeSettings(caps) PROVE WorkProper' /\ DebtsHeld'
  <2>1. [kind |-> "settings", caps |-> caps] \in Commands
    BY AnalysisAssumption DEF Commands
  <2>2. ProperRun([kind |-> "settings", caps |-> caps])  BY DEF ProperRun
  <2>3. Send([kind |-> "settings", caps |-> caps])  BY <1>3 DEF ChangeSettings
  <2>4. UNCHANGED <<queue, pending, work, busy, owed, shadowed, pc, cur>>
    BY <1>3 DEF ChangeSettings
  <2> QED  BY <1>2, <2>1, <2>2, <2>3, <2>4, LeftAlone
<1>4. CASE ChangePool
  <2>1. [kind |-> "respawn"] \in Commands  BY DEF Commands
  <2>2. ProperRun([kind |-> "respawn"])  BY DEF ProperRun
  <2>3. Send([kind |-> "respawn"])  BY <1>4 DEF ChangePool
  <2>4. UNCHANGED <<queue, pending, work, busy, owed, shadowed, pc, cur>>
    BY <1>4 DEF ChangePool
  <2> QED  BY <1>2, <2>1, <2>2, <2>3, <2>4, LeftAlone
<1>5. CASE ApplyScanResult
  <2>1. [kind |-> "wake"] \in Commands  BY DEF Commands
  <2>2. ProperRun([kind |-> "wake"])  BY DEF ProperRun
  <2>3. Send([kind |-> "wake"])  BY <1>5 DEF ApplyScanResult
  <2>4. UNCHANGED <<queue, pending, work, busy, owed, shadowed, pc, cur>>
    BY <1>5 DEF ApplyScanResult
  <2> QED  BY <1>2, <2>1, <2>2, <2>3, <2>4, LeftAlone
<1>6. ASSUME NEW request \in Requests, RequestExplicitRun(request)
      PROVE  WorkProper' /\ DebtsHeld'
  <2> DEFINE asked == request.tracks
             S == {i \in DOMAIN asked : NeedsAny(asked[i], request.caps)}
             needing == Those(asked, S)
             command == [kind |-> "explicit", tracks |-> needing, caps |-> request.caps]
  <2>1. asked \in Seq(Tracks) /\ request.caps \in (SUBSET Caps) \ {{}}
    BY AnalysisAssumption
  <2>2. S \in SUBSET DOMAIN asked /\ \A i \in S : state[asked[i]] = "available"
    BY DEF NeedsAny, Needs
  <2>3. Send(command)  BY <1>6 DEF RequestExplicitRun
  <2>4. UNCHANGED <<queue, pending, work, busy, owed, shadowed, pc, cur>>
    BY <1>6 DEF RequestExplicitRun
  <2> HIDE DEF S
  <2>5. needing \in Seq(Tracks) /\ ToSet(needing) = {asked[i] : i \in S}
    BY <2>1, <2>2, SelectionElements
  <2>6. \A t \in ToSet(needing) : state[t] # "new"  BY <2>2, <2>5
  <2> HIDE DEF needing
  <2>7. command \in Commands  BY <2>1, <2>5 DEF Commands
  <2>8. ProperRun(command)  BY <2>1, <2>6 DEF ProperRun
  <2> HIDE DEF command
  <2> QED  BY <1>2, <2>3, <2>4, <2>7, <2>8, LeftAlone
<1>7. CASE UNCHANGED <<channel, queue, pending, work, busy, owed, shadowed, pc, cur>>
  BY <1>7, LeftAlone
<1>8. CASE Restart
  <2>1. /\ channel' = <<>> /\ queue' = <<>> /\ pending' = <<>> /\ owed' = {} /\ pc' = "top"
    BY <1>8 DEF Restart
  <2>2. ToSet(<<>>) = {}  BY DEF ToSet
  <2> QED  BY <2>1, <2>2 DEF WorkProper, DebtsHeld
<1>9. ScanReloadFails \/ (\E t \in Tracks : \/ RemoveTrack(t) \/ ReplaceAudio(t) \/ TrackArrives(t)
                                           \/ \E found \in BOOLEAN : ScanCommit(t, found))
         => UNCHANGED <<channel, queue, pending, work, busy, owed, shadowed, pc, cur>>
  BY DEF RemoveTrack, ReplaceAudio, TrackArrives, ScanCommit, ScanReloadFails
<1>10. UNCHANGED vars => UNCHANGED <<channel, queue, pending, work, busy, owed, shadowed, pc, cur>>
  BY DEF vars
<1> QED  BY <1>3, <1>4, <1>5, <1>6, <1>7, <1>8, <1>9, <1>10 DEF User, Runtime

\* An item goes from the channel of work to a worker, and is done with when the worker
\* reports it (worker_loop).
LEMMA HoldsWorker ==
    ASSUME TypeOK, WorkProper, DebtsHeld, RowsGo, TypeOK', Worker
    PROVE  WorkProper' /\ DebtsHeld'
<1> USE DEF rows, lined, super, history, bounds
<1>1. work \in Seq(Item) /\ busy \in Seq(Item) /\ owed' \subseteq Tracks  BY DEF TypeOK
<1>2. UNCHANGED <<channel, queue, pending, shadowed, pc, cur>>
  BY DEF Worker, TakeWork, RecordAnalysis, RecordFailure, RecordRejected, Report
<1>3. WorkProper'  BY <1>2, ElementTypes, ProperKept DEF WorkProper
<1>4. CASE TakeWork
  <2>1. /\ work # <<>> /\ busy' = Append(busy, Head(work)) /\ work' = Tail(work)
        /\ owed' = owed
    BY <1>4 DEF TakeWork
  <2>2. Head(work) \in Item  BY <1>1, <2>1, TailDrawn
  <2>3. ToSet(work) = {Head(work)} \union ToSet(work')  BY <1>1, <2>1, TailElements
  <2>4. ToSet(busy') = ToSet(busy) \union {Head(work)}
    BY <1>1, <2>1, <2>2, AppendElements
  <2>5. Asked(work) \union Asked(busy) \subseteq Asked(work') \union Asked(busy')
    BY <2>3, <2>4 DEF Asked
  <2>6. Held \subseteq Held'  BY <1>2, <2>5 DEF Held
  <2> QED  BY <1>1, <1>2, <1>3, <2>1, <2>6, DebtsStay
<1>5. ASSUME NEW i \in DOMAIN busy, NEW refused \in BOOLEAN, Report(i, refused)
      PROVE  DebtsHeld'
  <2>1. /\ busy' = RemoveAt(busy, i) /\ UNCHANGED work
        /\ owed' = IF busy[i].explicit THEN owed \ {busy[i].track} ELSE owed
    BY <1>5 DEF Report
  <2>2. ToSet(busy) = {busy[i]} \union ToSet(busy')  BY <1>1, <2>1, RemovalElements
  <2>3. Asked(busy) \ Asked(busy') \subseteq {busy[i].track} \ owed'
    BY <2>1, <2>2 DEF Asked
  <2>4. \A t \in Held : t \in Held' \/ t \notin owed'  BY <1>2, <2>1, <2>3 DEF Held
  <2>5. owed' \subseteq owed  BY <2>1
  <2> QED  BY <1>1, <1>2, <2>4, <2>5, DebtsStay
<1>6. TakeWork \/ \E i \in DOMAIN busy : \E refused \in BOOLEAN : Report(i, refused)
  BY DEF Worker, RecordAnalysis, RecordFailure, RecordRejected
<1> QED  BY <1>3, <1>4, <1>5, <1>6

\* The sweep lines up nothing explicit.
LEMMA SweptInBackground == \A x \in ToSet(Swept) : ~x.explicit
<1> DEFINE found == Those([t \in Tracks |-> t], Needing(settings))
           limit == Min({Len(found), BatchSize + Cardinality(inFlight)})
           fresh == Fresh(SubSeq(found, 1, limit))
<1>1. Swept = [i \in DOMAIN fresh |->
                  [track |-> fresh[i], caps |-> settings, explicit |-> FALSE]]
  BY DEF Swept
<1> HIDE DEF fresh
<1> QED  BY <1>1 DEF ToSet

\* Nor does the supervisor lose any: what it takes out of the queue it lines up, what it
\* takes out of there it sends, and what it does not send has no row any more or was
\* reported as failed (supervisor_loop, dispatch).
LEMMA HoldsSupervisor ==
    ASSUME TypeOK, WorkProper, DebtsHeld, RowsGo, TypeOK', Supervisor
    PROVE  WorkProper' /\ DebtsHeld'
<1> USE DEF rows, lined, threads, super, history, bounds
<1>1. /\ queue \in Seq(Item) /\ pending \in Seq(Item) /\ work \in Seq(Item)
      /\ busy \in Seq(Item) /\ owed' \subseteq Tracks /\ channel \in Seq(Commands)
  BY DEF TypeOK
<1>2. /\ \A x \in ToSet(queue) : x \in Item /\ x.explicit /\ Proper(x)
      /\ \A x \in ToSet(pending) : x \in Item /\ Proper(x)
      /\ \A x \in ToSet(channel) : x \in Commands /\ ProperRun(x)
      /\ pc = "send" => cur \in Item /\ Proper(cur)
  BY ElementTypes DEF WorkProper
<1>3. CASE DrainCommand \/ Receive
  <2>1. /\ ApplyCommand /\ queue' = AfterCommand.queue /\ pc' = "top"
        /\ UNCHANGED <<pending, work, busy, shadowed>>
    BY <1>3 DEF DrainCommand, Receive
  <2>2. /\ queue' \in Seq(Item) /\ \A x \in ToSet(queue') : x.explicit /\ Proper(x)
        /\ TracksOf(queue) \union (owed' \ owed) \subseteq TracksOf(queue')
        /\ ToSet(channel') \subseteq ToSet(channel)
    BY <2>1, CommandHolds
  <2>3. \A x \in ToSet(queue') : x \in Item  BY <2>2, Elements DEF ToSet
  <2>4. WorkProper'  BY <1>2, <2>1, <2>2, <2>3, ProperKept
  <2>5. (owed' \ owed) \union Held \subseteq Held'  BY <2>1, <2>2 DEF Held
  <2>6. DebtsHeld'  BY <1>1, <2>1, <2>5, DebtsStay
  <2> QED  BY <2>4, <2>6
<1>4. CASE Prioritise
  <2> DEFINE waiting == IF torn THEN Preserved ELSE queue
             lineup == IF torn THEN <<>> ELSE pending
             flying == IF torn THEN {} ELSE inFlight
             next == Prioritised(waiting, lineup, flying)
  <2>1. /\ queue' = next.queue /\ pending' = next.pending /\ pc' # "send"
        /\ UNCHANGED <<channel, work, busy, owed, shadowed>>
    BY <1>4 DEF Prioritise, LineUp
  <2>2. /\ waiting \in Seq(Item) /\ lineup \in Seq(Item)
        /\ \A x \in ToSet(waiting) : x.explicit /\ Proper(x)
        /\ \A x \in ToSet(lineup) : Proper(x)
        /\ TracksOf(queue) \union Asked(pending) \subseteq TracksOf(waiting) \union Asked(lineup)
    <3>1. CASE ~torn  BY <1>1, <1>2, <3>1
    <3>2. CASE torn
      <4> DEFINE first == Explicit(pending)
      <4>1. /\ first \in Seq(Item) /\ ToSet(first) = {x \in ToSet(pending) : x.explicit}
            /\ Asked(first) = Asked(pending)
        BY <1>1, ExplicitElements
      <4>2. waiting = first \o queue /\ lineup = <<>>  BY <3>2 DEF Preserved
      <4> HIDE DEF first, waiting, lineup
      <4>3. first \o queue \in Seq(Item)  BY <1>1, <4>1
      <4>4. ToSet(waiting) = ToSet(first) \union ToSet(queue)
        BY <1>1, <4>1, <4>2, JoinElements
      <4>5. \A x \in ToSet(waiting) : x.explicit /\ Proper(x)  BY <1>2, <4>1, <4>4
      <4>6. Asked(first) \subseteq TracksOf(first)  BY TracksMean
      <4>7. TracksOf(first) \union TracksOf(queue) \subseteq TracksOf(waiting)
        BY <4>4, TracksMean
      <4>8. lineup \in Seq(Item) /\ ToSet(lineup) = {}  BY <4>2 DEF ToSet
      <4> QED  BY <4>1, <4>2, <4>3, <4>5, <4>6, <4>7, <4>8
    <3> QED  BY <3>1, <3>2
  <2> HIDE DEF waiting, lineup, flying
  <2>3. /\ next.queue \in Seq(Item) /\ next.pending \in Seq(Item)
        /\ ToSet(next.queue) \subseteq ToSet(waiting)
        /\ ToSet(next.pending) \subseteq ToSet(lineup) \union ToSet(waiting)
        /\ TracksOf(waiting) \union Asked(lineup) \subseteq
              TracksOf(next.queue) \union Asked(next.pending)
    BY <2>2, PrioritisedHolds
  <2> HIDE DEF next
  <2>4. /\ \A x \in ToSet(queue') : x \in Item /\ x.explicit /\ Proper(x)
        /\ \A x \in ToSet(pending') : x \in Item /\ Proper(x)
    BY <2>1, <2>2, <2>3, Elements DEF ToSet
  <2>5. WorkProper'  BY <1>2, <2>1, <2>4, ProperKept
  <2>6. Held \subseteq Held'  BY <2>1, <2>2, <2>3 DEF Held
  <2>7. DebtsHeld'  BY <1>1, <2>1, <2>6, DebtsStay
  <2> QED  BY <2>5, <2>7
<1>5. CASE TakeItem
  <2> DEFINE waiting == AfterCommand.queue
             next == Prioritised(waiting, pending, inFlight)
  <2>1. /\ ApplyCommand /\ pending # <<>>
        /\ IF pool' THEN LineUp(next) /\ cur' = Head(pending) /\ pc' = "send"
           ELSE queue' = waiting /\ pc' = "wait" /\ UNCHANGED <<pending, cur>>
        /\ UNCHANGED <<work, busy, shadowed>>
    BY <1>5 DEF TakeItem
  <2>2. /\ waiting \in Seq(Item) /\ \A x \in ToSet(waiting) : x.explicit /\ Proper(x)
        /\ TracksOf(queue) \union (owed' \ owed) \subseteq TracksOf(waiting)
        /\ ToSet(channel') \subseteq ToSet(channel)
    BY <2>1, CommandHolds
  <2>3. /\ next.queue \in Seq(Item) /\ next.pending \in Seq(Item)
        /\ ToSet(next.queue) \subseteq ToSet(waiting)
        /\ ToSet(next.pending) \subseteq ToSet(pending) \union ToSet(waiting)
        /\ TracksOf(waiting) \union Asked(pending) \subseteq
              TracksOf(next.queue) \union Asked(next.pending)
    <3> HIDE DEF waiting
    <3> QED  BY <1>1, <2>2, PrioritisedHolds
  <2>4. Head(pending) \in ToSet(pending)  BY <1>1, <2>1, TailElements
  <2> HIDE DEF waiting, next
  <2>5. /\ \A x \in ToSet(queue') : x \in Item /\ x.explicit /\ Proper(x)
        /\ \A x \in ToSet(pending') : x \in Item /\ Proper(x)
        /\ TracksOf(waiting) \union Asked(pending) \subseteq TracksOf(queue') \union Asked(pending')
    <3>1. CASE pool'
      <4>1. queue' = next.queue /\ pending' = next.pending  BY <2>1, <3>1 DEF LineUp
      <4>2. \A x \in ToSet(waiting) : x \in Item  BY <2>2, Elements DEF ToSet
      <4>3. \A x \in ToSet(queue') : x \in Item /\ x.explicit /\ Proper(x)
        BY <2>2, <2>3, <4>1, <4>2
      <4>4. \A x \in ToSet(pending') : x \in Item /\ Proper(x)
        BY <1>2, <2>2, <2>3, <4>1, <4>2
      <4> QED  BY <2>3, <4>1, <4>3, <4>4
    <3>2. CASE ~pool'
      <4>1. queue' = waiting /\ pending' = pending  BY <2>1, <3>2
      <4>2. \A x \in ToSet(waiting) : x \in Item  BY <2>2, Elements DEF ToSet
      <4> QED  BY <1>2, <2>2, <4>1, <4>2
    <3> QED  BY <3>1, <3>2
  <2>6. pc' = "send" => cur' \in Item /\ Proper(cur')  BY <1>2, <2>1, <2>4
  <2>7. WorkProper'  BY <1>2, <2>2, <2>5, <2>6, ProperKept
  <2>8. (owed' \ owed) \union Held \subseteq Held'  BY <2>1, <2>2, <2>5 DEF Held
  <2>9. DebtsHeld'  BY <1>1, <2>1, <2>8, DebtsStay
  <2> QED  BY <2>7, <2>9
<1>6. CASE Refill
  <2>1. /\ pending' = Refilled /\ pc' = "dispatch"
        /\ UNCHANGED <<channel, queue, work, busy, owed, shadowed>>
    BY <1>6 DEF Refill
  <2>2. pending' \in Seq(Item)  BY DEF TypeOK
  <2>3. /\ \A x \in ToSet(pending') : Proper(x)
        /\ Asked(pending) \subseteq Asked(pending')
    <3>1. CASE pending = <<>> /\ queue = <<>>
      <4>1. pending' = Swept  BY <2>1, <3>1 DEF Refilled
      <4>2. \A x \in ToSet(Swept) : ~x.explicit  BY SweptInBackground
      <4>3. Asked(pending) = {}  BY <3>1 DEF Asked, ToSet
      <4> QED  BY <4>1, <4>2, <4>3 DEF Proper
    <3>2. CASE ~(pending = <<>> /\ queue = <<>>)
      <4>1. pending' = pending  BY <2>1, <3>2 DEF Refilled
      <4> QED  BY <1>2, <4>1
    <3> QED  BY <3>1, <3>2
  <2>4. \A x \in ToSet(pending') : x \in Item  BY <2>2, Elements DEF ToSet
  <2>5. WorkProper'  BY <1>2, <2>1, <2>3, <2>4, ProperKept
  <2>6. Held \subseteq Held'  BY <2>1, <2>3 DEF Held
  <2>7. DebtsHeld'  BY <1>1, <2>1, <2>6, DebtsStay
  <2> QED  BY <2>5, <2>7
<1>7. ASSUME PopFront, pc = "send", pc' = "dispatch", UNCHANGED <<channel, queue, busy>>,
             owed' \subseteq owed, Asked(work) \subseteq Asked(work'),
             cur.explicit /\ cur.track \in owed' /\ state[cur.track] # "removed"
                => cur.track \in Asked(work')
      PROVE  WorkProper' /\ DebtsHeld'
  <2>1. /\ ToSet(pending') \subseteq ToSet(pending) /\ shadowed \subseteq shadowed'
        /\ \A x \in ToSet(pending) \ ToSet(pending') : x = cur \/ x.track \in shadowed'
    BY <1>7, PopHolds
  <2>2. WorkProper'  BY <1>2, <1>7, <2>1, ProperKept
  <2>3. ASSUME NEW t \in owed', state[t] # "removed", t \in Asked(pending)
        PROVE  t \in Asked(pending') \union Asked(work') \/ t \in shadowed'
    <3>1. PICK x \in ToSet(pending) : x.explicit /\ x.track = t  BY <2>3 DEF Asked
    <3>2. CASE x \in ToSet(pending')  BY <3>1, <3>2 DEF Asked
    <3>3. CASE x \notin ToSet(pending')  BY <1>7, <2>1, <2>3, <3>1, <3>3
    <3> QED  BY <3>2, <3>3
  <2>4. \A t \in owed' : state[t] # "removed" /\ t \in Held => t \in Held' \/ t \in shadowed'
    BY <1>7, <2>3 DEF Held
  <2>5. DebtsHeld'  BY <1>1, <1>7, <2>1, <2>4, DebtsStay
  <2> QED  BY <2>2, <2>5
<1>8. CASE SkipItem
  <2>1. /\ PopFront /\ pc = "send" /\ pc' = "dispatch"
        /\ UNCHANGED <<channel, queue, work, busy, owed>>
        /\ DispatchCaps = {} \/ state[cur.track] \in {"new", "removed"}
    BY <1>8 DEF SkipItem
  <2>2. cur.explicit => state[cur.track] = "removed"
    BY <1>2, <2>1 DEF Proper, DispatchCaps
  <2> QED  BY <1>7, <2>1, <2>2
<1>9. CASE SendItem
  <2> DEFINE item == [cur EXCEPT !.caps = DispatchCaps]
  <2>1. /\ PopFront /\ pc = "send" /\ pc' = "dispatch"
        /\ UNCHANGED <<channel, queue, busy, owed>> /\ work' = Append(work, item)
    BY <1>9 DEF SendItem
  <2>2. item \in Item /\ item.track = cur.track /\ item.explicit = cur.explicit
    <3>1. cur \in Item /\ settings \in SUBSET Caps  BY <1>2, <2>1 DEF TypeOK
    <3> QED  BY <3>1 DEF Item, DispatchCaps
  <2> HIDE DEF item
  <2>3. ToSet(work') = ToSet(work) \union {item}  BY <1>1, <2>1, <2>2, AppendElements
  <2>4. Asked(work) \subseteq Asked(work') /\ (cur.explicit => cur.track \in Asked(work'))
    BY <2>2, <2>3 DEF Asked
  <2> QED  BY <1>7, <2>1, <2>4
<1>10. CASE ReadFails
  <2>1. /\ PopFront /\ pc = "send" /\ pc' = "dispatch"
        /\ UNCHANGED <<channel, queue, work, busy>>
        /\ owed' = IF cur.explicit THEN owed \ {cur.track} ELSE owed
    BY <1>10 DEF ReadFails
  <2>2. owed' \subseteq owed /\ (cur.explicit => cur.track \notin owed')  BY <2>1
  <2> QED  BY <1>7, <2>1, <2>2
<1>11. CASE \/ StopSweep \/ AwaitTail \/ GoIdle \/ QueryFails \/ FinishSweep \/ ChannelFull
            \/ DispatchDone \/ Stall \/ Wait
  <2>1. UNCHANGED <<queue, pending, work, busy, owed, shadowed, channel>> /\ pc' # "send"
    BY <1>11 DEF StopSweep, AwaitTail, GoIdle, QueryFails, FinishSweep, ChannelFull,
                 DispatchDone, Stall, Wait
  <2> QED  BY <2>1, LeftAlone
<1> QED  BY <1>3, <1>4, <1>5, <1>6, <1>8, <1>9, <1>10, <1>11 DEF Supervisor

\* An explicit run that was taken in is not forgotten, whatever the settings, the pool
\* and the sweep do: while the row exists it is queued, lined up or with a worker,
\* unless another item's dispatch took it out of pending (explicit_queue, pending).
THEOREM ExplicitRequestsKept == Spec => []ExplicitKept
<1>1. Init => WorkProper /\ DebtsHeld
  <2> SUFFICES ASSUME Init PROVE WorkProper /\ DebtsHeld
    OBVIOUS
  <2>1. channel = <<>> /\ queue = <<>> /\ pending = <<>> /\ owed = {} /\ pc = "top"
    BY DEF Init
  <2>2. ToSet(<<>>) = {}  BY DEF ToSet
  <2> QED  BY <2>1, <2>2 DEF WorkProper, DebtsHeld
<1>2. Inductive /\ Inductive' /\ WorkProper /\ DebtsHeld /\ [Next]_vars
         => WorkProper' /\ DebtsHeld'
  <2> SUFFICES ASSUME Inductive, Inductive', WorkProper, DebtsHeld, [Next]_vars
               PROVE  WorkProper' /\ DebtsHeld'
    OBVIOUS
  <2>1. TypeOK /\ TypeOK'  BY DEF Inductive
  <2>2. RowsGo  BY <2>1, RowsGoOn
  <2> QED  BY <2>1, <2>2, HoldsOutside, HoldsWorker, HoldsSupervisor DEF Next
<1>3. Inductive /\ DebtsHeld => ExplicitKept
  <2> SUFFICES ASSUME Inductive, DebtsHeld, NEW t \in owed, state[t] # "removed",
                      t \notin shadowed
               PROVE  Waiting(t)
    BY DEF ExplicitKept
  <2> DEFINE others == pending \o Dispatched
  <2>1. /\ queue \in Seq(Item) /\ pending \in Seq(Item) /\ work \in Seq(Item)
        /\ busy \in Seq(Item)
    BY DEF Inductive, TypeOK
  <2>2. Dispatched \in Seq(Item) /\ ToSet(Dispatched) = ToSet(work) \union ToSet(busy)
    BY <2>1, JoinElements DEF Dispatched
  <2>3. others \in Seq(Item) /\ ToSet(others) = ToSet(pending) \union ToSet(Dispatched)
    BY <2>1, <2>2, JoinElements
  <2> HIDE DEF others
  <2>4. /\ Explicit(others) \in Seq(Item)
        /\ ToSet(Explicit(others)) = {x \in ToSet(others) : x.explicit}
    BY <2>3, ExplicitElements
  <2>5. ToSet(queue \o Explicit(others)) = ToSet(queue) \union ToSet(Explicit(others))
    BY <2>1, <2>4, JoinElements
  <2>6. t \in Held  BY DEF DebtsHeld
  <2>7. \E x \in ToSet(queue \o Explicit(others)) : x.track = t
    <3>1. CASE t \in TracksOf(queue)  BY <2>5, <3>1, TracksMean
    <3>2. CASE t \in Asked(pending) \union Asked(work) \union Asked(busy)
      BY <2>2, <2>3, <2>4, <2>5, <3>2 DEF Asked
    <3> QED  BY <2>6, <3>1, <3>2 DEF Held
  <2> QED  BY <2>7 DEF Waiting, others
<1> QED  BY <1>1, <1>2, <1>3, Invariance, PTL DEF Spec

=============================================================================
