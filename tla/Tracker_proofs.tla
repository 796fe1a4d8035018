----------------------------- MODULE Tracker_proofs -----------------------------
(***************************************************************************)
(* Lemmas about Tracker, for any boxes, overlaps and configuration: what   *)
(* the sequences it is built from hold, that the greedy association is one *)
(* to one, and what an update does to the tracks.                          *)
(***************************************************************************)
EXTENDS Tracker, FiniteSetTheorems, WellFoundedInduction, TLAPS

--------------------------------------------------------------------------------
(* Numbers.                                                                *)

\* A set of numbers has a least one.
LEMMA LeastNumber ==
  ASSUME NEW T, T \subseteq Nat, T # {}
  PROVE  \E n \in T : \A m \in T : n <= m
<1> DEFINE R == OpToRel(<, Nat)
<1>1. IsWellFoundedOn(R, Nat)
  BY NatLessThanWellFounded
<1>2. \A x, y \in Nat : x < y => <<x, y>> \in R
  BY DEF OpToRel
<1> HIDE DEF R
<1>3. PICK n \in T : \A m \in T : ~(<<m, n>> \in R)
  BY <1>1, WFMin
<1>4. \A m \in T : ~(m < n)
  BY <1>2, <1>3
<1>5. \A m \in T : m \in Nat /\ n \in Nat
  OBVIOUS
<1> QED
  BY <1>4, <1>5

\* So the numbers that a turn passes on to the next one are all.
LEMMA EveryTurn ==
  ASSUME NEW T, 0 \in T, \A n \in Nat : n \in T => n + 1 \in T
  PROVE  Nat \subseteq T
<1> DEFINE D == {n \in Nat : n \notin T}
<1>1. SUFFICES ASSUME D # {} PROVE FALSE
  OBVIOUS
<1>2. PICK n \in D : \A m \in D : n <= m
  <2>1. D \subseteq Nat
    OBVIOUS
  <2> HIDE DEF D
  <2> QED
    BY <1>1, <2>1, LeastNumber
<1>3. n \in Nat /\ n \notin T /\ n # 0
  OBVIOUS
<1>4. n - 1 \in T
  BY <1>2, <1>3
<1> QED
  BY <1>3, <1>4

\* A recursion over 0 .. n from z by step has a value at each turn.
IsRun(g, n, S, z, step) ==
  /\ g \in [0 .. n -> S]
  /\ g[0] = z
  /\ \A k \in 1 .. n : g[k] = step[k][g[k - 1]]

LEMMA Turns ==
  ASSUME NEW n \in Nat, NEW S, NEW z \in S, NEW step \in [1 .. n -> [S -> S]]
  PROVE  \E g : IsRun(g, n, S, z, step)
<1> DEFINE Runs(g, m) == /\ g \in [0 .. m -> S] /\ g[0] = z
                         /\ \A k \in 1 .. m : g[k] = step[k][g[k - 1]]
           T == {m \in Nat : m <= n => \E g : Runs(g, m)}
<1>1. 0 \in T
  <2>1. Runs([k \in 0 .. 0 |-> z], 0)
    OBVIOUS
  <2> QED
    BY <2>1
<1>2. ASSUME NEW m \in Nat, m \in T PROVE m + 1 \in T
  <2>1. SUFFICES ASSUME m + 1 <= n PROVE \E g : Runs(g, m + 1)
    OBVIOUS
  <2>2. PICK g : Runs(g, m)
    BY <1>2, <2>1
  <2> DEFINE h == [k \in 0 .. m + 1 |-> IF k = m + 1 THEN step[m + 1][g[m]] ELSE g[k]]
  <2>3. m \in 0 .. m /\ g[m] \in S /\ m + 1 \in 1 .. n
    BY <2>1, <2>2
  <2>4. step[m + 1][g[m]] \in S
    BY <2>3
  <2>5. \A k \in 0 .. m : h[k] = g[k] /\ h[k] \in S
    BY <2>2
  <2>6. h[m + 1] = step[m + 1][g[m]]
    OBVIOUS
  <2>7. h \in [0 .. m + 1 -> S]
    BY <2>2, <2>4
  <2> HIDE DEF h
  <2>8. ASSUME NEW k \in 1 .. m + 1 PROVE h[k] = step[k][h[k - 1]]
    <3>1. CASE k = m + 1
      BY <2>3, <2>5, <2>6, <3>1
    <3>2. CASE k # m + 1
      <4>1. k \in 1 .. m /\ k \in 0 .. m /\ k - 1 \in 0 .. m
        BY <3>2
      <4> QED
        BY <2>2, <2>5, <4>1
    <3> QED
      BY <3>1, <3>2
  <2>9. h[0] = z
    BY <2>2, <2>5
  <2>10. Runs(h, m + 1)
    BY <2>7, <2>8, <2>9
  <2> QED
    BY <2>10
<1> HIDE DEF T
<1>3. Nat \subseteq T
  BY <1>1, <1>2, EveryTurn
<1>4. PICK g : Runs(g, n)
  BY <1>3 DEF T
<1> QED
  BY <1>4 DEF IsRun

\* What the first value has and each turn keeps, every value has.
LEMMA TurnsKeep ==
  ASSUME NEW n \in Nat, NEW g, NEW S, g[0] \in S,
         \A k \in 1 .. n : g[k - 1] \in S => g[k] \in S
  PROVE  \A k \in 0 .. n : g[k] \in S
<1> DEFINE T == {k \in Nat : k <= n => g[k] \in S}
<1>1. 0 \in T
  OBVIOUS
<1>2. ASSUME NEW k \in Nat, k \in T PROVE k + 1 \in T
  <2>1. k + 1 <= n => k + 1 \in 1 .. n /\ (k + 1) - 1 = k /\ k <= n
    OBVIOUS
  <2> QED
    BY <1>2, <2>1
<1> HIDE DEF T
<1>3. Nat \subseteq T
  BY <1>1, <1>2, EveryTurn
<1> QED
  BY <1>3 DEF T

--------------------------------------------------------------------------------
(* Sets in order.                                                          *)

StrictOrder(S, R) ==
  /\ \A x \in S : <<x, x>> \notin R
  /\ \A x, y, z \in S : <<x, y>> \in R /\ <<y, z>> \in R => <<x, z>> \in R
  /\ \A x, y \in S : x = y \/ <<x, y>> \in R \/ <<y, x>> \in R

Below(S, R, x) == {y \in S : <<y, x>> \in R}

\* Each element of S has its own number of elements below it, and the numbers rise
\* with the order.
LEMMA Rank ==
  ASSUME NEW S, IsFiniteSet(S), NEW R, StrictOrder(S, R)
  PROVE  LET r == [x \in S |-> Cardinality(Below(S, R, x)) + 1] IN
         /\ r \in Bijection(S, 1 .. Cardinality(S))
         /\ \A x, y \in S : r[x] < r[y] => <<x, y>> \in R
<1> DEFINE n == Cardinality(S)
           r == [x \in S |-> Cardinality(Below(S, R, x)) + 1]
<1>1. n \in Nat /\ IsFiniteSet(1 .. n) /\ Cardinality(1 .. n) = n
  BY FS_CardinalityType, FS_Interval
<1>2. ASSUME NEW x \in S
      PROVE  /\ IsFiniteSet(Below(S, R, x)) /\ Cardinality(Below(S, R, x)) \in Nat
             /\ Cardinality(Below(S, R, x)) < n
  <2>1. Below(S, R, x) \in SUBSET S /\ x \notin Below(S, R, x)
    BY DEF Below, StrictOrder
  <2>2. IsFiniteSet(Below(S, R, x)) /\ Cardinality(Below(S, R, x)) <= n
        /\ (Cardinality(Below(S, R, x)) = n => Below(S, R, x) = S)
    BY <2>1, FS_Subset
  <2>3. Cardinality(Below(S, R, x)) \in Nat
    BY <2>2, FS_CardinalityType
  <2> QED
    BY <1>1, <2>1, <2>2, <2>3
<1>3. r \in [S -> 1 .. n] /\ \A x \in S : r[x] \in Nat
  BY <1>1, <1>2
<1>4. ASSUME NEW x \in S, NEW y \in S, <<x, y>> \in R
      PROVE  r[x] < r[y]
  <2>1. \A z : z \in Below(S, R, x) => z \in Below(S, R, y)
    BY <1>4 DEF Below, StrictOrder
  <2>2. x \in Below(S, R, y) /\ x \notin Below(S, R, x)
    BY <1>4 DEF Below, StrictOrder
  <2>3. Below(S, R, x) \in SUBSET Below(S, R, y)
    BY <2>1
  <2>4. /\ Cardinality(Below(S, R, x)) <= Cardinality(Below(S, R, y))
        /\ Cardinality(Below(S, R, x)) # Cardinality(Below(S, R, y))
    BY <1>2, <2>2, <2>3, FS_Subset
  <2> QED
    BY <1>2, <2>4
<1> HIDE DEF r, n
<1>5. ASSUME NEW x \in S, NEW y \in S, r[x] = r[y]
      PROVE  x = y
  <2>1. r[x] \in Nat /\ ~(r[x] < r[y]) /\ ~(r[y] < r[x])
    BY <1>3, <1>5
  <2>2. <<x, y>> \notin R /\ <<y, x>> \notin R
    BY <1>4, <2>1
  <2> QED
    BY <2>2 DEF StrictOrder
<1>6. ASSUME NEW x \in S, NEW y \in S, r[x] < r[y]
      PROVE  <<x, y>> \in R
  <2>1. r[x] \in Nat /\ r[y] \in Nat
    BY <1>3
  <2>2. x # y /\ ~(r[y] < r[x])
    BY <1>6, <2>1
  <2>3. <<y, x>> \notin R
    BY <1>4, <2>2
  <2> QED
    BY <2>2, <2>3 DEF StrictOrder
<1>7. r \in Injection(S, 1 .. n)
  BY <1>3, <1>5 DEF Injection, IsInjective
<1>8. r \in Surjection(S, 1 .. n)
  BY <1>1, <1>7, FS_Injection DEF n
<1> QED
  BY <1>6, <1>7, <1>8 DEF Bijection, r, n

\* InOrder goes through S in its order without leaving out or repeating one.
LEMMA InOrderOf ==
  ASSUME NEW S, IsFiniteSet(S), NEW R, StrictOrder(S, R),
         NEW o, o = InOrder(S, R)
  PROVE  /\ o \in Seq(S) /\ Len(o) = Cardinality(S) /\ Cardinality(S) \in Nat
         /\ DOMAIN o = 1 .. Cardinality(S)
         /\ \A k, m \in DOMAIN o : k < m => <<o[k], o[m]>> \in R
         /\ \A k, m \in DOMAIN o : o[k] = o[m] => k = m
         /\ \A x \in S : \E k \in DOMAIN o : o[k] = x
<1> DEFINE n == Cardinality(S)
           r == [x \in S |-> Cardinality(Below(S, R, x)) + 1]
<1>1. r \in Bijection(S, 1 .. n) /\ \A x, y \in S : r[x] < r[y] => <<x, y>> \in R
  BY Rank
<1>2. /\ \A x \in S : r[x] \in 1 .. n
      /\ \A x, y \in S : r[x] = r[y] => x = y
      /\ \A k \in 1 .. n : \E x \in S : r[x] = k
  BY <1>1 DEF Bijection, Injection, Surjection, IsInjective
<1>3. n \in Nat
  BY FS_CardinalityType
<1>4. \A x \in S : /\ Cardinality({y \in S : <<y, x>> \in R}) \in Nat
                   /\ r[x] = Cardinality({y \in S : <<y, x>> \in R}) + 1
  <2> SUFFICES ASSUME NEW x \in S
               PROVE  /\ Cardinality({y \in S : <<y, x>> \in R}) \in Nat
                      /\ r[x] = Cardinality({y \in S : <<y, x>> \in R}) + 1
    OBVIOUS
  <2>1. IsFiniteSet({y \in S : <<y, x>> \in R})
    BY FS_Subset
  <2> QED
    BY <2>1, FS_CardinalityType DEF Below
<1> HIDE DEF r, n
<1>5. \A k \in 1 .. n : \A x \in S :
        Cardinality({y \in S : <<y, x>> \in R}) = k - 1 <=> r[x] = k
  BY <1>3, <1>4
<1>6. o = [k \in 1 .. n |-> CHOOSE x \in S : Cardinality({y \in S : <<y, x>> \in R}) = k - 1]
  BY DEF InOrder, n
<1>7. \A k \in 1 .. n : o[k] \in S /\ r[o[k]] = k
  <2> SUFFICES ASSUME NEW k \in 1 .. n
               PROVE  o[k] \in S /\ r[o[k]] = k
    OBVIOUS
  <2>1. o[k] = CHOOSE x \in S : Cardinality({y \in S : <<y, x>> \in R}) = k - 1
    BY <1>6
  <2>2. \E x \in S : Cardinality({y \in S : <<y, x>> \in R}) = k - 1
    BY <1>2, <1>5
  <2>3. o[k] \in S /\ Cardinality({y \in S : <<y, o[k]>> \in R}) = k - 1
    BY <2>1, <2>2
  <2> QED
    BY <1>5, <2>3
<1>8. DOMAIN o = 1 .. n
  BY <1>6
<1>9. o \in Seq(S) /\ Len(o) = n
  <2>1. o \in [1 .. n -> S]
    BY <1>6, <1>7
  <2> QED
    BY <1>3, <2>1
<1>10. \A k, m \in 1 .. n : k < m => <<o[k], o[m]>> \in R
  BY <1>1, <1>7
<1>11. \A x \in S : \E k \in 1 .. n : o[k] = x
  BY <1>2, <1>7
<1> QED
  BY <1>3, <1>7, <1>8, <1>9, <1>10, <1>11 DEF n

\* The places of the elements that are picked from a sequence: all of I, in their order.
Places(I) == InOrder(I, {p \in I \X I : p[1] < p[2]})

GoesThrough(o, I) ==
  /\ Cardinality(I) \in Nat /\ DOMAIN o = 1 .. Cardinality(I)
  /\ \A k \in DOMAIN o : o[k] \in I
  /\ \A k, m \in DOMAIN o : k < m => o[k] < o[m]
  /\ \A k, m \in DOMAIN o : o[k] = o[m] => k = m
  /\ \A i \in I : \E k \in DOMAIN o : o[k] = i

LEMMA PlacesOf ==
  ASSUME NEW I, I \subseteq Nat, IsFiniteSet(I)
  PROVE  GoesThrough(Places(I), I)
<1> DEFINE R == {p \in I \X I : p[1] < p[2]}
           o == Places(I)
<1>1. \A i, k \in I : <<i, k>> \in R <=> i < k
  OBVIOUS
<1>2. o = InOrder(I, R)
  BY DEF Places
<1> HIDE DEF R, o
<1>3. StrictOrder(I, R)
  BY <1>1 DEF StrictOrder
<1>4. /\ o \in Seq(I) /\ Cardinality(I) \in Nat /\ DOMAIN o = 1 .. Cardinality(I)
      /\ \A k, m \in DOMAIN o : k < m => <<o[k], o[m]>> \in R
      /\ \A k, m \in DOMAIN o : o[k] = o[m] => k = m
      /\ \A x \in I : \E k \in DOMAIN o : o[k] = x
  BY <1>2, <1>3, InOrderOf
<1>5. \A k \in DOMAIN o : o[k] \in I
  BY <1>4
<1>6. \A k, m \in DOMAIN o : k < m => o[k] < o[m]
  BY <1>1, <1>4, <1>5
<1> QED
  BY <1>4, <1>5, <1>6 DEF GoesThrough, o

\* What is picked is a sequence of the elements at those places.
PickedFrom(t, s, S, I) ==
  /\ IsFiniteSet(I) /\ I \subseteq Nat /\ Cardinality(I) \in Nat
  /\ t \in Seq(S) /\ Len(t) = Cardinality(I) /\ DOMAIN t = DOMAIN Places(I)
  /\ DOMAIN Places(I) = 1 .. Cardinality(I)
  /\ \A k \in DOMAIN Places(I) : Places(I)[k] \in I /\ t[k] = s[Places(I)[k]]

LEMMA PickedOf ==
  ASSUME NEW S, NEW s \in Seq(S), NEW I \in SUBSET (DOMAIN s)
  PROVE  PickedFrom(Picked(s, I), s, S, I)
<1>1. IsFiniteSet(I) /\ I \subseteq Nat
  <2>1. DOMAIN s = 1 .. Len(s) /\ Len(s) \in Nat
    OBVIOUS
  <2>2. IsFiniteSet(1 .. Len(s))
    BY <2>1, FS_Interval
  <2> QED
    BY <2>1, <2>2, FS_Subset
<1> DEFINE n == Cardinality(I)
           o == Places(I)
<1>2. n \in Nat /\ DOMAIN o = 1 .. n /\ \A k \in DOMAIN o : o[k] \in I
  BY <1>1, PlacesOf DEF GoesThrough
<1>3. Picked(s, I) = [k \in DOMAIN o |-> s[o[k]]]
  BY DEF Picked, Places
<1> HIDE DEF n, o
<1>4. Picked(s, I) \in [1 .. n -> S]
  BY <1>2, <1>3
<1>5. Picked(s, I) \in Seq(S) /\ Len(Picked(s, I)) = n
  BY <1>2, <1>4
<1> QED
  BY <1>1, <1>2, <1>3, <1>5 DEF n, o, PickedFrom

--------------------------------------------------------------------------------
(* The association.                                                        *)

\* Tracks as they are before those missed too often are dropped.
TrackRecord == [id : Nat, box : Boxes, missed : Nat]

\* No track and no detection is in two of the pairs.
OneToOne(pairs) == \A m, p \in pairs : m[1] = p[1] \/ m[2] = p[2] => m = p

\* The candidate pairs are ranked by a strict order (tracker.py:96).
LEMMA PairsRanked ==
  ASSUME NEW c, NEW ts \in Seq(TrackRecord), NEW ds \in Seq(Boxes)
  PROVE  /\ CandidatePairs(c, ts, ds) \in SUBSET ((DOMAIN ts) \X (DOMAIN ds))
         /\ Ranked(c, ts, ds) \in Seq(CandidatePairs(c, ts, ds))
<1> DEFINE S == CandidatePairs(c, ts, ds)
           R == {pq \in S \X S : Precedes(ts, ds, pq[1], pq[2])}
<1>1. S \in SUBSET ((DOMAIN ts) \X (DOMAIN ds))
  BY DEF CandidatePairs
<1>2. /\ DOMAIN ts = 1 .. Len(ts) /\ Len(ts) \in Nat
      /\ DOMAIN ds = 1 .. Len(ds) /\ Len(ds) \in Nat
  OBVIOUS
<1>3. IsFiniteSet(S)
  <2>1. IsFiniteSet(1 .. Len(ts)) /\ IsFiniteSet(1 .. Len(ds))
    BY <1>2, FS_Interval
  <2>2. IsFiniteSet((DOMAIN ts) \X (DOMAIN ds))
    BY <1>2, <2>1, FS_Product
  <2> QED
    BY <1>1, <2>2, FS_Subset
<1>4. ASSUME NEW p \in S
      PROVE  /\ p[1] \in Nat /\ p[2] \in Nat /\ p = <<p[1], p[2]>>
             /\ Overlap(ts, ds, p) \in Nat
  <2>1. /\ p[1] \in DOMAIN ts /\ p[2] \in DOMAIN ds /\ p = <<p[1], p[2]>>
        /\ p[1] \in Nat /\ p[2] \in Nat
    BY <1>1, <1>2
  <2>2. ts[p[1]] \in TrackRecord /\ ds[p[2]] \in Boxes
    BY <2>1
  <2>3. ts[p[1]].box \in Boxes
    BY <2>2 DEF TrackRecord
  <2>4. Iou[ts[p[1]].box, ds[p[2]]] \in Nat
    BY <2>2, <2>3, TrackerAssumption
  <2> QED
    BY <2>1, <2>4 DEF Overlap
<1>5. \A p, q \in S : <<p, q>> \in R <=> Precedes(ts, ds, p, q)
  OBVIOUS
<1>6. Ranked(c, ts, ds) = InOrder(S, R)
  BY DEF Ranked
<1> HIDE DEF S, R
<1>7. StrictOrder(S, R)
  <2>1. ASSUME NEW p \in S PROVE <<p, p>> \notin R
    BY <1>4, <1>5 DEF Precedes
  <2>2. ASSUME NEW p \in S, NEW q \in S, NEW r \in S, <<p, q>> \in R, <<q, r>> \in R
        PROVE  <<p, r>> \in R
    <3>1. Precedes(ts, ds, p, q) /\ Precedes(ts, ds, q, r)
      BY <1>5, <2>2
    <3>2. Precedes(ts, ds, p, r)
      <4> DEFINE a == Overlap(ts, ds, p)
                 b == Overlap(ts, ds, q)
                 d == Overlap(ts, ds, r)
      <4>1. a > b \/ (a = b /\ (p[1] < q[1] \/ (p[1] = q[1] /\ p[2] < q[2])))
        BY <3>1 DEF Precedes
      <4>2. b > d \/ (b = d /\ (q[1] < r[1] \/ (q[1] = r[1] /\ q[2] < r[2])))
        BY <3>1 DEF Precedes
      <4>3. /\ a \in Nat /\ b \in Nat /\ d \in Nat
            /\ p[1] \in Nat /\ q[1] \in Nat /\ r[1] \in Nat
            /\ p[2] \in Nat /\ q[2] \in Nat /\ r[2] \in Nat
        BY <1>4
      <4> HIDE DEF a, b, d
      <4>4. a > d \/ (a = d /\ (p[1] < r[1] \/ (p[1] = r[1] /\ p[2] < r[2])))
        BY <4>1, <4>2, <4>3
      <4> QED
        BY <4>4 DEF Precedes, a, d
    <3> QED
      BY <1>5, <3>2
  <2>3. ASSUME NEW p \in S, NEW q \in S
        PROVE  p = q \/ <<p, q>> \in R \/ <<q, p>> \in R
    <3>1. Precedes(ts, ds, p, q) \/ Precedes(ts, ds, q, p) \/ (p[1] = q[1] /\ p[2] = q[2])
      <4> DEFINE a == Overlap(ts, ds, p)
                 b == Overlap(ts, ds, q)
      <4>1. /\ a \in Nat /\ b \in Nat /\ p[1] \in Nat /\ q[1] \in Nat
            /\ p[2] \in Nat /\ q[2] \in Nat
        BY <1>4
      <4> QED
        BY <4>1 DEF Precedes
    <3>2. p[1] = q[1] /\ p[2] = q[2] => p = q
      BY <1>4
    <3> QED
      BY <1>5, <3>1, <3>2
  <2> QED
    BY <2>1, <2>2, <2>3 DEF StrictOrder
<1> QED
  BY <1>1, <1>3, <1>6, <1>7, InOrderOf DEF S

\* The matches after a turn of the greedy choice.
Chosen(chosen, p) ==
  IF \E m \in chosen : m[1] = p[1] \/ m[2] = p[2] THEN chosen ELSE chosen \union {p}

\* A pair is matched only if neither its track nor its detection is
\* (tracker.py:104-109).
LEMMA ChoiceStep ==
  ASSUME NEW W, NEW chosen \in SUBSET W, OneToOne(chosen), NEW p \in W
  PROVE  Chosen(chosen, p) \in SUBSET W /\ OneToOne(Chosen(chosen, p))
BY DEF OneToOne, Chosen

\* The greedy association pairs no track and no detection twice, whatever the overlaps, the
\* threshold and the number of boxes (tracker.py:81-113).
THEOREM AssociateOneToOne ==
  ASSUME NEW c, NEW ts \in Seq(TrackRecord), NEW ds \in Seq(Boxes)
  PROVE  /\ Associate(c, ts, ds) \in SUBSET ((DOMAIN ts) \X (DOMAIN ds))
         /\ Associate(c, ts, ds) \in SUBSET (Nat \X Nat)
         /\ OneToOne(Associate(c, ts, ds))
<1> DEFINE ranked == Ranked(c, ts, ds)
           n == Len(ranked)
           Q == SUBSET (Nat \X Nat)
           Good == {chosen \in SUBSET ((DOMAIN ts) \X (DOMAIN ds)) : OneToOne(chosen)}
           add == [p \in Nat \X Nat |-> [chosen \in Q |->
                    IF \E m \in chosen : m[1] = p[1] \/ m[2] = p[2]
                      THEN chosen ELSE chosen \union {p}]]
           AreTurns(g) == g = [k \in 0 .. n |-> IF k = 0 THEN {} ELSE add[ranked[k]][g[k - 1]]]
<1>1. Associate(c, ts, ds) = (CHOOSE g : AreTurns(g))[n]
  BY DEF Associate
<1>2. /\ n \in Nat
      /\ \A k \in 1 .. n : ranked[k] \in (DOMAIN ts) \X (DOMAIN ds) /\ ranked[k] \in Nat \X Nat
  <2>1. /\ CandidatePairs(c, ts, ds) \in SUBSET ((DOMAIN ts) \X (DOMAIN ds))
        /\ ranked \in Seq(CandidatePairs(c, ts, ds))
    BY PairsRanked
  <2>2. n \in Nat /\ \A k \in 1 .. n : ranked[k] \in CandidatePairs(c, ts, ds)
    BY <2>1
  <2>3. \A p \in (DOMAIN ts) \X (DOMAIN ds) : p \in Nat \X Nat
    OBVIOUS
  <2> QED
    BY <2>1, <2>2, <2>3
<1>3. ASSUME NEW chosen \in Q, NEW p \in Nat \X Nat
      PROVE  add[p][chosen] = Chosen(chosen, p) /\ Chosen(chosen, p) \in Q
  BY DEF Chosen
<1> HIDE DEF add, ranked, n
<1>4. ASSUME NEW chosen \in Q, NEW p \in Nat \X Nat PROVE add[p][chosen] \in Q
  <2> HIDE DEF Q
  <2> QED
    BY <1>3
<1>5. PICK g : AreTurns(g) /\ Associate(c, ts, ds) = g[n]
  <2> DEFINE step == [k \in 1 .. n |-> [chosen \in Q |-> add[ranked[k]][chosen]]]
  <2>1. step \in [1 .. n -> [Q -> Q]]
    BY <1>2, <1>4
  <2>2. {} \in Q
    OBVIOUS
  <2>3. \A k \in 1 .. n : \A chosen \in Q : step[k][chosen] = add[ranked[k]][chosen]
    OBVIOUS
  <2>n. n \in Nat
    BY <1>2
  <2> HIDE DEF step, Q, AreTurns
  <2>4. PICK g : IsRun(g, n, Q, {}, step)
    BY <2>n, <2>1, <2>2, Turns
  <2> USE DEF AreTurns, IsRun
  <2>5. ASSUME NEW k \in 0 .. n
        PROVE  g[k] = IF k = 0 THEN {} ELSE add[ranked[k]][g[k - 1]]
    <3>1. CASE k = 0
      BY <2>4, <3>1
    <3>2. CASE k # 0
      <4>1. k \in 1 .. n /\ k - 1 \in 0 .. n
        BY <1>2, <3>2
      <4> QED
        BY <2>3, <2>4, <3>2, <4>1
    <3> QED
      BY <3>1, <3>2
  <2>6. AreTurns(g)
    BY <2>4, <2>5
  <2> HIDE DEF AreTurns
  <2> QED
    BY <1>1, <2>6
<1>6. g[0] = {} /\ \A k \in 1 .. n : g[k] = add[ranked[k]][g[k - 1]]
  <2>1. \A k \in 0 .. n : g[k] = IF k = 0 THEN {} ELSE add[ranked[k]][g[k - 1]]
    BY <1>5
  <2>2. 0 \in 0 .. n /\ \A k \in 1 .. n : k \in 0 .. n /\ k # 0
    BY <1>2
  <2> QED
    BY <2>1, <2>2
<1>7. {} \in Good
  BY DEF OneToOne
<1>8. ASSUME NEW k \in 1 .. n, g[k - 1] \in Good PROVE g[k] \in Good
  <2>1. g[k - 1] \in SUBSET ((DOMAIN ts) \X (DOMAIN ds)) /\ OneToOne(g[k - 1])
    BY <1>8
  <2>2. g[k - 1] \in Q
    <3>1. \A p \in (DOMAIN ts) \X (DOMAIN ds) : p \in Nat \X Nat
      OBVIOUS
    <3> QED
      BY <2>1, <3>1
  <2>3. g[k] = Chosen(g[k - 1], ranked[k])
    <3>1. ranked[k] \in Nat \X Nat
      BY <1>2
    <3>2. g[k] = add[ranked[k]][g[k - 1]]
      BY <1>6
    <3> HIDE DEF Q
    <3> QED
      BY <1>3, <2>2, <3>1, <3>2
  <2>4. ranked[k] \in (DOMAIN ts) \X (DOMAIN ds)
    BY <1>2
  <2>5. /\ Chosen(g[k - 1], ranked[k]) \in SUBSET ((DOMAIN ts) \X (DOMAIN ds))
        /\ OneToOne(Chosen(g[k - 1], ranked[k]))
    <3> DEFINE W == (DOMAIN ts) \X (DOMAIN ds)
    <3>1. g[k - 1] \in SUBSET W /\ ranked[k] \in W /\ OneToOne(g[k - 1])
      BY <2>1, <2>4
    <3> HIDE DEF W
    <3>2. /\ Chosen(g[k - 1], ranked[k]) \in SUBSET W
          /\ OneToOne(Chosen(g[k - 1], ranked[k]))
      BY <3>1, ChoiceStep
    <3> QED
      BY <3>2 DEF W
  <2>6. g[k] \in SUBSET ((DOMAIN ts) \X (DOMAIN ds)) /\ OneToOne(g[k])
    BY <2>3, <2>5
  <2> QED
    BY <2>6
<1> HIDE DEF Good, AreTurns
<1>9. \A k \in 0 .. n : g[k] \in Good
  <2>1. n \in Nat /\ g[0] \in Good
    BY <1>2, <1>6, <1>7
  <2>2. \A k \in 1 .. n : g[k - 1] \in Good => g[k] \in Good
    BY <1>8
  <2> HIDE DEF n
  <2> QED
    BY <2>1, <2>2, TurnsKeep
<1>10. g[n] \in Good
  BY <1>2, <1>9
<1>11. Associate(c, ts, ds) \in SUBSET ((DOMAIN ts) \X (DOMAIN ds))
       /\ OneToOne(Associate(c, ts, ds))
  BY <1>5, <1>10 DEF Good
<1>12. \A p \in (DOMAIN ts) \X (DOMAIN ds) : p \in Nat \X Nat
  OBVIOUS
<1> QED
  BY <1>11, <1>12

--------------------------------------------------------------------------------
(* The update.                                                             *)

\* The tracks that are matched and those that are not, carried over
\* (tracker.py:43-58).
LEMMA CarriedTracks ==
  ASSUME NEW ts \in Seq(TrackRecord), NEW ds \in Seq(Boxes),
         NEW M \in SUBSET ((DOMAIN ts) \X (DOMAIN ds)), OneToOne(M)
  PROVE  /\ Carried(ts, ds, M) \in Seq(TrackRecord)
         /\ Len(Carried(ts, ds, M)) = Len(ts)
         /\ \A m \in M : /\ Carried(ts, ds, M)[m[1]].missed = 0
                         /\ Carried(ts, ds, M)[m[1]].box = ds[m[2]]
         /\ \A t \in DOMAIN ts : Carried(ts, ds, M)[t].missed = 0 => \E m \in M : m[1] = t
         /\ \A t \in DOMAIN ts : Carried(ts, ds, M)[t].id = ts[t].id
<1> DEFINE c == Carried(ts, ds, M)
           new(t) == [ts[t] EXCEPT !.box = ds[(CHOOSE m \in M : m[1] = t)[2]], !.missed = 0]
           old(t) == [ts[t] EXCEPT !.missed = @ + 1]
<1>1. c = [t \in DOMAIN ts |-> IF \E m \in M : m[1] = t THEN new(t) ELSE old(t)]
  BY DEF Carried
<1>2. \A t \in DOMAIN ts : ts[t] \in TrackRecord
  OBVIOUS
<1>3. \A m \in M : m[1] \in DOMAIN ts /\ m[2] \in DOMAIN ds /\ ds[m[2]] \in Boxes
  OBVIOUS
<1>4. ASSUME NEW m \in M
      PROVE  /\ new(m[1]).box = ds[m[2]] /\ new(m[1]).missed = 0
             /\ new(m[1]) \in TrackRecord /\ new(m[1]).id = ts[m[1]].id
  <2>1. (CHOOSE x \in M : x[1] = m[1]) = m
    BY DEF OneToOne
  <2>2. new(m[1]) = [ts[m[1]] EXCEPT !.box = ds[m[2]], !.missed = 0]
    BY <2>1
  <2>3. ts[m[1]] \in TrackRecord /\ ds[m[2]] \in Boxes
    BY <1>2, <1>3
  <2> HIDE DEF new
  <2>4. ts[m[1]].id \in Nat
    BY <2>3 DEF TrackRecord
  <2>5. new(m[1]) = [id |-> ts[m[1]].id, box |-> ds[m[2]], missed |-> 0]
    BY <2>2, <2>3 DEF TrackRecord
  <2> QED
    BY <2>3, <2>4, <2>5 DEF TrackRecord
<1>5. ASSUME NEW t \in DOMAIN ts
      PROVE  old(t).missed # 0 /\ old(t) \in TrackRecord /\ old(t).id = ts[t].id
  <2>1. ts[t].id \in Nat /\ ts[t].box \in Boxes /\ ts[t].missed \in Nat
    BY <1>2 DEF TrackRecord
  <2>2. old(t) = [id |-> ts[t].id, box |-> ts[t].box, missed |-> ts[t].missed + 1]
    BY <1>2 DEF TrackRecord
  <2> QED
    BY <2>1, <2>2 DEF TrackRecord
<1> HIDE DEF new, old
<1>6. \A t \in DOMAIN ts : c[t] = IF \E m \in M : m[1] = t THEN new(t) ELSE old(t)
  BY <1>1
<1>7. \A t \in DOMAIN ts : c[t] \in TrackRecord
  BY <1>4, <1>5, <1>6
<1>8. DOMAIN c = 1 .. Len(ts) /\ DOMAIN ts = 1 .. Len(ts) /\ Len(ts) \in Nat
  BY <1>1
<1> HIDE DEF c
<1>9. c = [t \in 1 .. Len(ts) |-> c[t]]
  BY <1>1, <1>8
<1>10. c \in Seq(TrackRecord) /\ Len(c) = Len(ts)
  <2>1. c \in [1 .. Len(ts) -> TrackRecord]
    BY <1>7, <1>8, <1>9
  <2> QED
    BY <1>8, <2>1
<1>11. \A m \in M : c[m[1]].missed = 0 /\ c[m[1]].box = ds[m[2]]
  BY <1>3, <1>4, <1>6
<1>12. \A t \in DOMAIN ts : c[t].missed = 0 => \E m \in M : m[1] = t
  BY <1>5, <1>6
<1>13. \A t \in DOMAIN ts : c[t].id = ts[t].id
  BY <1>4, <1>5, <1>6
<1> QED
  BY <1>10, <1>11, <1>12, <1>13 DEF c

\* The tracks s start at the detections U, with ids from next on.
StartedAt(s, next, ds, U) ==
  /\ IsFiniteSet(U) /\ U \subseteq Nat /\ Cardinality(U) \in Nat
  /\ s \in Seq(TrackRecord) /\ Len(s) = Cardinality(U)
  /\ DOMAIN Places(U) = 1 .. Cardinality(U)
  /\ \A i \in 1 .. Cardinality(U) :
       s[i].missed = 0 /\ s[i].id = next + i - 1 /\ s[i].box = ds[Places(U)[i]]

\* A track is started for each detection that matched none (tracker.py:60-74).
LEMMA StartedTracks ==
  ASSUME NEW ds \in Seq(Boxes), NEW next \in Nat \ {0}, NEW M,
         NEW U, U = Unmatched(ds, M)
  PROVE  StartedAt(Started(next, ds, M), next, ds, U)
<1> DEFINE s == Started(next, ds, M)
           n == Cardinality(U)
           boxes == Picked(ds, U)
           o == Places(U)
<1>1. U \in SUBSET (DOMAIN ds)
  BY DEF Unmatched
<1>2. /\ IsFiniteSet(U) /\ U \subseteq Nat /\ n \in Nat
      /\ boxes \in Seq(Boxes) /\ Len(boxes) = n /\ DOMAIN boxes = DOMAIN o /\ DOMAIN o = 1 .. n
      /\ \A k \in DOMAIN o : o[k] \in U /\ boxes[k] = ds[o[k]]
  BY <1>1, PickedOf DEF PickedFrom
<1>3. s = [i \in DOMAIN boxes |-> [id |-> next + i - 1, box |-> boxes[i], missed |-> 0]]
  BY DEF Started
<1> HIDE DEF s, n, boxes, o
<1>4. ASSUME NEW i \in 1 .. n
      PROVE  /\ s[i] = [id |-> next + i - 1, box |-> boxes[i], missed |-> 0]
             /\ next + i - 1 \in Nat /\ boxes[i] \in Boxes /\ boxes[i] = ds[o[i]]
  <2>1. i \in DOMAIN boxes /\ i \in Nat /\ i >= 1
    BY <1>2
  <2>2. boxes[i] \in Boxes
    BY <1>2, <2>1
  <2> QED
    BY <1>2, <1>3, <2>1, <2>2
<1>5. s \in [1 .. n -> TrackRecord]
  <2>1. ASSUME NEW i \in 1 .. n PROVE s[i] \in TrackRecord
    <3>1. s[i] = [id |-> next + i - 1, box |-> boxes[i], missed |-> 0]
      BY <1>4
    <3>2. next + i - 1 \in Nat /\ boxes[i] \in Boxes
      BY <1>4
    <3> QED
      BY <3>1, <3>2 DEF TrackRecord
  <2>2. DOMAIN s = 1 .. n /\ s = [i \in 1 .. n |-> s[i]]
    BY <1>2, <1>3
  <2> QED
    BY <2>1, <2>2
<1>6. s \in Seq(TrackRecord) /\ Len(s) = n
  BY <1>2, <1>5
<1>7. ASSUME NEW i \in 1 .. n
      PROVE  s[i].missed = 0 /\ s[i].id = next + i - 1 /\ s[i].box = ds[o[i]]
  <2>1. s[i] = [id |-> next + i - 1, box |-> boxes[i], missed |-> 0]
    BY <1>4
  <2>2. boxes[i] = ds[o[i]]
    BY <1>4
  <2> QED
    BY <2>1, <2>2
<1> QED
  BY <1>2, <1>6, <1>7 DEF s, n, o, StartedAt

\* Two sequences joined.
LEMMA Joined ==
  ASSUME NEW S, NEW s \in Seq(S), NEW t \in Seq(S)
  PROVE  /\ s \o t \in Seq(S) /\ DOMAIN (s \o t) = 1 .. Len(s) + Len(t)
         /\ \A i \in 1 .. Len(s) : (s \o t)[i] = s[i]
         /\ \A i \in 1 .. Len(t) : (s \o t)[Len(s) + i] = t[i]
OBVIOUS

\* The places of the tracks that were not missed.
Confirmed(all) == {i \in DOMAIN all : all[i].missed = 0}

\* They correspond to the detections, box to box.
Correspond(all, ds) ==
  \E g \in [Confirmed(all) -> DOMAIN ds] :
    /\ \A i \in Confirmed(all) : all[i].box = ds[g[i]]
    /\ \A i, k \in Confirmed(all) : g[i] = g[k] => i = k
    /\ \A d \in DOMAIN ds : \E i \in Confirmed(all) : g[i] = d

\* Before the drop, the tracks that were not missed and the detections correspond,
\* box to box (tracker.py:43-74).
LEMMA Confirmation ==
  ASSUME NEW ts \in Seq(TrackRecord), NEW ds \in Seq(Boxes), NEW next \in Nat \ {0},
         NEW c, NEW M, M = Associate(c, ts, ds),
         NEW all, all = Carried(ts, ds, M) \o Started(next, ds, M)
  PROVE  all \in Seq(TrackRecord) /\ Correspond(all, ds)
<1> DEFINE C == Confirmed(all)
           L == Len(ts)
           U == Unmatched(ds, M)
           n == Cardinality(U)
           carried == Carried(ts, ds, M)
           o == Places(U)
           s == Started(next, ds, M)
<1>1. M \in SUBSET ((DOMAIN ts) \X (DOMAIN ds)) /\ OneToOne(M)
  BY AssociateOneToOne
<1>2. /\ carried \in Seq(TrackRecord) /\ Len(carried) = L
      /\ \A m \in M : carried[m[1]].missed = 0 /\ carried[m[1]].box = ds[m[2]]
      /\ \A t \in DOMAIN ts : carried[t].missed = 0 => \E m \in M : m[1] = t
  BY <1>1, CarriedTracks
<1>3. /\ IsFiniteSet(U) /\ U \subseteq Nat /\ n \in Nat
      /\ s \in Seq(TrackRecord) /\ Len(s) = n /\ DOMAIN o = 1 .. n
      /\ \A i \in 1 .. n : s[i].missed = 0 /\ s[i].id = next + i - 1 /\ s[i].box = ds[o[i]]
  <2>1. U = Unmatched(ds, M)
    OBVIOUS
  <2> HIDE DEF U
  <2>2. StartedAt(s, next, ds, U)
    BY <2>1, StartedTracks
  <2> QED
    BY <2>2 DEF StartedAt
<1>4. /\ \A k \in 1 .. n : o[k] \in U
      /\ \A k, m \in 1 .. n : o[k] = o[m] => k = m
      /\ \A i \in U : \E k \in 1 .. n : o[k] = i
  <2> HIDE DEF U, n
  <2>1. GoesThrough(o, U)
    BY <1>3, PlacesOf
  <2> QED
    BY <1>3, <2>1 DEF GoesThrough
<1>5. \A d : d \in U <=> d \in DOMAIN ds /\ \A m \in M : m[2] # d
  BY DEF Unmatched
<1>6. all = carried \o s
  OBVIOUS
<1>7. L \in Nat /\ n \in Nat /\ DOMAIN ts = 1 .. L
  BY <1>3, FS_CardinalityType
<1> HIDE DEF carried, o, s, n, L, U
<1>8. /\ all \in Seq(TrackRecord) /\ DOMAIN all = 1 .. L + n
      /\ \A i \in 1 .. L : all[i] = carried[i]
      /\ \A i \in 1 .. n : all[L + i] = s[i]
  <2>1. carried \in Seq(TrackRecord) /\ s \in Seq(TrackRecord) /\ Len(carried) = L /\ Len(s) = n
    BY <1>2, <1>3
  <2> QED
    BY <1>6, <2>1, Joined
<1> DEFINE g == [i \in C |-> IF i <= L THEN (CHOOSE m \in M : m[1] = i)[2] ELSE o[i - L]]
<1>9. \A m \in M : m[1] \in 1 .. L /\ m[2] \in DOMAIN ds
  BY <1>1, <1>7
<1>10. \A i : i \in C <=> i \in 1 .. L + n /\ all[i].missed = 0
  BY <1>8 DEF C, Confirmed
<1>11. \A i \in C : g[i] = IF i <= L THEN (CHOOSE m \in M : m[1] = i)[2] ELSE o[i - L]
  OBVIOUS
<1>12. DOMAIN g = C /\ g = [i \in C |-> g[i]]
  OBVIOUS
<1> HIDE DEF g, C
<1>13. \A m \in M : m[1] \in C /\ g[m[1]] = m[2]
  <2> SUFFICES ASSUME NEW m \in M
               PROVE  m[1] \in C /\ g[m[1]] = m[2]
    OBVIOUS
  <2>1. m[1] \in 1 .. L
    BY <1>9
  <2>2. all[m[1]].missed = 0
    BY <2>1, <1>2, <1>8
  <2>3. m[1] \in 1 .. L + n /\ m[1] <= L
    BY <2>1, <1>7
  <2>4. m[1] \in C
    BY <2>2, <2>3, <1>10
  <2>5. (CHOOSE x \in M : x[1] = m[1]) = m
    BY <1>1 DEF OneToOne
  <2> QED
    BY <2>3, <2>4, <2>5, <1>11
<1>14. \A k \in 1 .. n : L + k \in C /\ g[L + k] = o[k]
  <2> SUFFICES ASSUME NEW k \in 1 .. n
               PROVE  L + k \in C /\ g[L + k] = o[k]
    OBVIOUS
  <2>1. all[L + k].missed = 0
    BY <1>3, <1>8
  <2>2. L + k \in 1 .. L + n /\ ~(L + k <= L) /\ (L + k) - L = k
    BY <1>7
  <2>3. L + k \in C
    BY <2>1, <2>2, <1>10
  <2> QED
    BY <2>2, <2>3, <1>11
<1>15. ASSUME NEW i \in C
       PROVE  (\E m \in M : i = m[1]) \/ (\E k \in 1 .. n : i = L + k)
  <2>1. i \in 1 .. L + n /\ all[i].missed = 0
    BY <1>10
  <2>2. CASE i \in 1 .. L
    <3>1. i \in DOMAIN ts /\ carried[i].missed = 0
      BY <2>1, <2>2, <1>7, <1>8
    <3> QED
      BY <3>1, <1>2
  <2>3. CASE i \notin 1 .. L
    <3>1. i - L \in 1 .. n /\ i = L + (i - L)
      BY <2>1, <2>3, <1>7
    <3> QED
      BY <3>1
  <2> QED
    BY <2>2, <2>3
<1>16. \A i \in C : g[i] \in DOMAIN ds /\ all[i].box = ds[g[i]]
  <2>1. ASSUME NEW m \in M
        PROVE  g[m[1]] \in DOMAIN ds /\ all[m[1]].box = ds[g[m[1]]]
    <3>1. g[m[1]] = m[2] /\ m[1] \in 1 .. L /\ m[2] \in DOMAIN ds
      BY <1>9, <1>13
    <3>2. all[m[1]] = carried[m[1]] /\ carried[m[1]].box = ds[m[2]]
      BY <3>1, <1>2, <1>8
    <3> QED
      BY <3>1, <3>2
  <2>2. ASSUME NEW k \in 1 .. n
        PROVE  g[L + k] \in DOMAIN ds /\ all[L + k].box = ds[g[L + k]]
    <3>1. g[L + k] = o[k] /\ o[k] \in DOMAIN ds
      BY <1>4, <1>5, <1>14
    <3>2. all[L + k] = s[k] /\ s[k].box = ds[o[k]]
      BY <1>3, <1>8
    <3> QED
      BY <3>1, <3>2
  <2> QED
    BY <2>1, <2>2, <1>15
<1>17. ASSUME NEW i \in C, NEW k \in C, g[i] = g[k]
       PROVE  i = k
  <2>1. ASSUME NEW m \in M, NEW p \in M, i = m[1], k = p[1]
        PROVE  i = k
    BY <2>1, <1>1, <1>13, <1>17 DEF OneToOne
  <2>2. \A m \in M : \A x \in 1 .. n : g[m[1]] # g[L + x]
    BY <1>4, <1>5, <1>13, <1>14
  <2>3. ASSUME NEW x \in 1 .. n, NEW y \in 1 .. n, i = L + x, k = L + y
        PROVE  i = k
    BY <2>3, <1>4, <1>14, <1>17
  <2> QED
    BY <2>1, <2>2, <2>3, <1>15, <1>17
<1>18. ASSUME NEW d \in DOMAIN ds
       PROVE  \E i \in C : g[i] = d
  <2>1. CASE d \in U
    BY <2>1, <1>4, <1>14
  <2>2. CASE d \notin U
    <3>1. PICK m \in M : m[2] = d
      BY <2>2, <1>5
    <3> QED
      BY <3>1, <1>13
  <2> QED
    BY <2>1, <2>2
<1>19. g \in [C -> DOMAIN ds]
  BY <1>16, <1>12
<1>20. \E x \in [C -> DOMAIN ds] :
         /\ \A i \in C : all[i].box = ds[x[i]]
         /\ \A i, k \in C : x[i] = x[k] => i = k
         /\ \A d \in DOMAIN ds : \E i \in C : x[i] = d
  <2> WITNESS g \in [C -> DOMAIN ds]
  <2> QED
    BY <1>16, <1>17, <1>18
<1> QED
  BY <1>8, <1>20 DEF Correspond, C

\* No two tracks have an id, and the next one is above all.
Apart(ts, next) ==
  /\ \A i, k \in DOMAIN ts : ts[i].id = ts[k].id => i = k
  /\ \A i \in DOMAIN ts : ts[i].id < next

\* Tracks that get the next ids stay apart from those before.
LEMMA JoinedApart ==
  ASSUME NEW ts \in Seq(TrackRecord), NEW s \in Seq(TrackRecord), NEW next \in Nat,
         Apart(ts, next), \A i \in 1 .. Len(s) : s[i].id = next + i - 1
  PROVE  Apart(ts \o s, next + Len(s))
<1> DEFINE L == Len(ts)
           n == Len(s)
           all == ts \o s
<1>1. L \in Nat /\ n \in Nat /\ DOMAIN ts = 1 .. L
  OBVIOUS
<1>2. /\ DOMAIN all = 1 .. L + n
      /\ \A i \in 1 .. L : all[i] = ts[i]
      /\ \A i \in 1 .. n : all[L + i] = s[i]
  BY Joined
<1>3. \A i \in 1 .. n : s[i].id = next + i - 1
  OBVIOUS
<1> DEFINE id == [i \in 1 .. L + n |-> all[i].id]
<1>4. \A i \in 1 .. L + n : id[i] = all[i].id
  OBVIOUS
<1> HIDE DEF L, n, all, id
<1>5. ASSUME NEW i \in 1 .. L
      PROVE  id[i] = ts[i].id /\ id[i] \in Nat /\ id[i] < next
  <2>1. ts[i] \in TrackRecord /\ i \in DOMAIN ts /\ i \in 1 .. L + n
    BY <1>1
  <2>2. id[i] = ts[i].id
    BY <1>2, <1>4, <2>1
  <2>3. ts[i].id < next
    BY <2>1 DEF Apart
  <2>4. ts[i].id \in Nat
    BY <2>1 DEF TrackRecord
  <2> QED
    BY <2>2, <2>3, <2>4
<1>6. ASSUME NEW i \in 1 .. L + n, i \notin 1 .. L
      PROVE  id[i] = next + (i - L) - 1 /\ i > L
  <2>1. i - L \in 1 .. n /\ L + (i - L) = i /\ i > L
    BY <1>1, <1>6
  <2>2. all[i] = s[i - L]
    BY <1>2, <2>1
  <2>3. id[i] = s[i - L].id
    BY <1>4, <2>2
  <2> QED
    BY <1>3, <2>1, <2>3
<1>7. ASSUME NEW i \in 1 .. L + n PROVE id[i] < next + n
  <2>1. CASE i \in 1 .. L
    <3>1. id[i] \in Nat /\ id[i] < next
      BY <1>5, <2>1
    <3> QED
      BY <1>1, <3>1
  <2>2. CASE i \notin 1 .. L
    <3>1. id[i] = next + (i - L) - 1
      BY <1>6, <2>2
    <3> QED
      BY <1>1, <3>1
  <2> QED
    BY <2>1, <2>2
<1>8. ASSUME NEW i \in 1 .. L, NEW k \in 1 .. L + n, k \notin 1 .. L
      PROVE  id[i] # id[k]
  <2>1. id[i] \in Nat /\ id[i] < next
    BY <1>5
  <2>2. id[k] = next + (k - L) - 1 /\ k > L
    BY <1>6, <1>8
  <2> QED
    BY <1>1, <2>1, <2>2
<1>9. ASSUME NEW i \in 1 .. L + n, NEW k \in 1 .. L + n, id[i] = id[k]
      PROVE  i = k
  <2>1. CASE i \in 1 .. L /\ k \in 1 .. L
    <3>1. ts[i].id = ts[k].id
      BY <1>5, <1>9, <2>1
    <3> QED
      BY <1>1, <2>1, <3>1 DEF Apart
  <2>2. CASE i \notin 1 .. L /\ k \notin 1 .. L
    <3>1. id[i] = next + (i - L) - 1
      BY <1>6, <2>2
    <3>2. id[k] = next + (k - L) - 1
      BY <1>6, <2>2
    <3>3. next + (i - L) - 1 = next + (k - L) - 1
      BY <1>9, <3>1, <3>2
    <3>4. i \in Int /\ k \in Int /\ L \in Int /\ next \in Int
      BY <1>1
    <3> QED
      BY <3>3, <3>4
  <2> QED
    BY <1>8, <1>9, <2>1, <2>2
<1>10. Apart(all, next + n)
  BY <1>2, <1>4, <1>7, <1>9 DEF Apart
<1> QED
  BY <1>10 DEF all, n

\* The tracks that are started get ids that no other has (tracker.py:60-74).
LEMMA StartedApart ==
  ASSUME NEW ts \in Seq(TrackRecord), NEW ds \in Seq(Boxes), NEW next \in Nat \ {0},
         NEW M \in SUBSET ((DOMAIN ts) \X (DOMAIN ds)), OneToOne(M), Apart(ts, next)
  PROVE  Apart(Carried(ts, ds, M) \o Started(next, ds, M),
               next + Cardinality(Unmatched(ds, M)))
<1> DEFINE U == Unmatched(ds, M)
           carried == Carried(ts, ds, M)
           s == Started(next, ds, M)
<1>1. /\ carried \in Seq(TrackRecord) /\ Len(carried) = Len(ts)
      /\ \A t \in DOMAIN ts : carried[t].id = ts[t].id
  BY CarriedTracks
<1>2. U = Unmatched(ds, M)
  OBVIOUS
<1> HIDE DEF carried, U
<1>3. StartedAt(s, next, ds, U)
  BY <1>2, StartedTracks
<1> HIDE DEF s
<1>4. /\ s \in Seq(TrackRecord) /\ Len(s) = Cardinality(U)
      /\ \A i \in 1 .. Len(s) : s[i].id = next + i - 1
  BY <1>3 DEF StartedAt
<1>5. DOMAIN carried = DOMAIN ts
  BY <1>1
<1>6. Apart(carried, next)
  BY <1>1, <1>5 DEF Apart
<1>7. Apart(carried \o s, next + Len(s))
  BY <1>1, <1>4, <1>6, JoinedApart
<1>8. Apart(carried \o s, next + Cardinality(U))
  BY <1>4, <1>7
<1> QED
  BY <1>8 DEF carried, s, U

\* Of every box there are as many confirmed tracks as detections.
AsMany(all, ds) ==
  \A b \in Boxes :
    Cardinality({i \in DOMAIN all : all[i].missed = 0 /\ all[i].box = b})
      = Cardinality({i \in DOMAIN ds : ds[i] = b})

\* What an update of tracker with ds leads to, by the configuration c.
Follows(new, c, tracker, ds) ==
  /\ new.tracks \in Seq(TrackRecord) /\ new.nextId \in Nat \ {0}
  /\ c.missed \in Nat => AsMany(new.tracks, ds)
  /\ \A i \in DOMAIN new.tracks :
       new.tracks[i].missed = 0 => \E d \in DOMAIN ds : ds[d] = new.tracks[i].box
  /\ Apart(tracker.tracks, tracker.nextId) => Apart(new.tracks, new.nextId)

\* What is left of the tracks all, when those missed at most missed times are kept.
Confirms(new, missed, all, ds) ==
  /\ new \in Seq(TrackRecord) /\ (missed \in Nat => AsMany(new, ds))
  /\ \A i \in DOMAIN new : new[i].missed = 0 => \E d \in DOMAIN ds : ds[d] = new[i].box
  /\ \A next : Apart(all, next) => Apart(new, next)

\* The drop keeps the tracks that were not missed: they still confirm the detections
\* (tracker.py:76).
LEMMA KeptConfirm ==
  ASSUME NEW missed, NEW all \in Seq(TrackRecord), NEW ds \in Seq(Boxes),
         Correspond(all, ds),
         NEW new, new = Picked(all, {i \in DOMAIN all : all[i].missed <= missed})
  PROVE  Confirms(new, missed, all, ds)
<1> DEFINE C == Confirmed(all)
           K == {i \in DOMAIN all : all[i].missed <= missed}
           n == Cardinality(K)
           o == Places(K)
<1>1. PICK g \in [C -> DOMAIN ds] :
        /\ \A i \in C : all[i].box = ds[g[i]]
        /\ \A i, k \in C : g[i] = g[k] => i = k
        /\ \A d \in DOMAIN ds : \E i \in C : g[i] = d
  BY DEF Correspond
<1>2. missed \in Nat => C \subseteq K
  BY DEF Confirmed
<1>3. K \in SUBSET (DOMAIN all) /\ \A i \in DOMAIN all : i \in C <=> all[i].missed = 0
  BY DEF Confirmed
<1>4. new = Picked(all, K)
  OBVIOUS
<1> HIDE DEF C, K, n, o
<1>5. /\ IsFiniteSet(K) /\ K \subseteq Nat /\ n \in Nat
      /\ new \in Seq(TrackRecord) /\ DOMAIN new = DOMAIN o /\ DOMAIN o = 1 .. n
      /\ \A k \in DOMAIN o : o[k] \in K /\ new[k] = all[o[k]]
  <2>1. PickedFrom(new, all, TrackRecord, K)
    BY <1>3, <1>4, PickedOf
  <2> QED
    BY <2>1 DEF PickedFrom, n, o
<1>6. GoesThrough(o, K)
  BY <1>5, PlacesOf DEF o
<1>7. /\ \A k, m \in DOMAIN o : o[k] = o[m] => k = m
      /\ \A i \in K : \E k \in DOMAIN o : o[k] = i
  BY <1>6 DEF GoesThrough
<1>8. ASSUME missed \in Nat, NEW b \in Boxes
      PROVE  Cardinality({i \in DOMAIN new : new[i].missed = 0 /\ new[i].box = b})
               = Cardinality({i \in DOMAIN ds : ds[i] = b})
  <2> DEFINE A == {i \in DOMAIN new : new[i].missed = 0 /\ new[i].box = b}
             B == {d \in DOMAIN ds : ds[d] = b}
             h == [k \in A |-> g[o[k]]]
  <2>1. \A k : k \in A <=> k \in DOMAIN o /\ o[k] \in C /\ all[o[k]].box = b
    <3>1. ASSUME NEW k \in DOMAIN o
          PROVE  new[k] = all[o[k]] /\ (o[k] \in C <=> all[o[k]].missed = 0)
      <4>1. o[k] \in DOMAIN all
        BY <1>3, <1>5
      <4> QED
        BY <1>3, <1>5, <4>1
    <3>2. DOMAIN new = DOMAIN o
      BY <1>5
    <3> QED
      BY <3>1, <3>2
  <2>2. \A k \in A : g[o[k]] \in DOMAIN ds /\ ds[g[o[k]]] = b
    BY <1>1, <2>1
  <2>3. h \in [A -> B]
    BY <2>2
  <2>4. ASSUME NEW k \in A, NEW m \in A, h[k] = h[m] PROVE k = m
    <3>1. g[o[k]] = g[o[m]] /\ o[k] \in C /\ o[m] \in C /\ k \in DOMAIN o /\ m \in DOMAIN o
      BY <2>1, <2>4
    <3> QED
      BY <1>1, <1>7, <3>1
  <2>5. ASSUME NEW d \in B PROVE \E k \in A : h[k] = d
    <3>1. PICK i \in C : g[i] = d
      BY <1>1
    <3>2. PICK k \in DOMAIN o : o[k] = i
      BY <1>2, <1>7, <1>8, <3>1
    <3>3. all[i].box = b
      BY <1>1, <3>1
    <3>4. k \in A
      BY <2>1, <3>2, <3>3
    <3> QED
      BY <3>1, <3>2, <3>4
  <2>6. IsFiniteSet(A)
    <3>1. IsFiniteSet(1 .. n)
      BY <1>5, FS_Interval
    <3>2. A \in SUBSET (1 .. n)
      BY <1>5, <2>1
    <3> QED
      BY <3>1, <3>2, FS_Subset
  <2> HIDE DEF A, B, h
  <2>7. h \in Bijection(A, B)
    BY <2>3, <2>4, <2>5 DEF Bijection, Injection, Surjection, IsInjective
  <2>8. Cardinality(B) = Cardinality(A)
    BY <2>6, <2>7, FS_Bijection DEF ExistsBijection
  <2> QED
    BY <2>8 DEF A, B
<1>9. ASSUME NEW i \in DOMAIN new, new[i].missed = 0
      PROVE  \E d \in DOMAIN ds : ds[d] = new[i].box
  <2>1. new[i] = all[o[i]] /\ o[i] \in K
    BY <1>5
  <2>2. o[i] \in C
    BY <1>3, <1>9, <2>1
  <2>3. g[o[i]] \in DOMAIN ds /\ ds[g[o[i]]] = new[i].box
    BY <1>1, <2>1, <2>2
  <2> QED
    BY <2>3
<1>10. ASSUME NEW next, Apart(all, next) PROVE Apart(new, next)
  <2>1. \A i \in DOMAIN new : new[i] = all[o[i]] /\ o[i] \in DOMAIN all
    BY <1>3, <1>5
  <2>2. \A i \in DOMAIN new : new[i].id < next
    BY <1>10, <2>1 DEF Apart
  <2>3. ASSUME NEW i \in DOMAIN new, NEW k \in DOMAIN new, new[i].id = new[k].id
        PROVE  i = k
    <3>1. o[i] = o[k]
      BY <1>10, <2>1, <2>3 DEF Apart
    <3> QED
      BY <1>5, <1>7, <3>1
  <2> QED
    BY <2>2, <2>3 DEF Apart
<1> QED
  BY <1>5, <1>8, <1>9, <1>10 DEF AsMany, Confirms

\* An update, for any configuration, tracks and detections, confirms every detection by
\* exactly one track and no track without one; if no two tracks had one id and the next
\* id was above all, that is so afterwards (tracker.py:34-79).
THEOREM UpdateFollows ==
  ASSUME NEW c, NEW tracker, tracker.tracks \in Seq(TrackRecord),
         tracker.nextId \in Nat \ {0}, NEW ds \in Seq(Boxes)
  PROVE  Follows(Update(c, tracker, ds), c, tracker, ds)
<1> DEFINE ts   == tracker.tracks
           next == tracker.nextId
           M    == Associate(c, ts, ds)
           all  == Carried(ts, ds, M) \o Started(next, ds, M)
           U    == Unmatched(ds, M)
           new  == Picked(all, {i \in DOMAIN all : all[i].missed <= c.missed})
<1>1. M \in SUBSET (Nat \X Nat)
  BY AssociateOneToOne
<1>2. all \in Seq(TrackRecord) /\ Correspond(all, ds)
  <2> DEFINE a == all
             m == M
  <2>1. m = Associate(c, ts, ds) /\ a = Carried(ts, ds, m) \o Started(next, ds, m)
    OBVIOUS
  <2> HIDE DEF a, m
  <2>2. a \in Seq(TrackRecord) /\ Correspond(a, ds)
    BY <2>1, Confirmation
  <2> QED
    BY <2>2 DEF a
<1>3. /\ Update(c, tracker, ds).tracks = Kept(c)[all]
      /\ Update(c, tracker, ds).nextId = next + Cardinality(U)
  BY <1>1 DEF Update
<1>4. Kept(c)[all] = new
  BY <1>2 DEF Kept, TrackRecord
<1>5. Confirms(new, c.missed, all, ds)
  <2> DEFINE b == new
  <2>1. b = Picked(all, {i \in DOMAIN all : all[i].missed <= c.missed})
    OBVIOUS
  <2> HIDE DEF b, all
  <2>2. Confirms(b, c.missed, all, ds)
    BY <1>2, <2>1, KeptConfirm
  <2> QED
    BY <2>2 DEF b
<1>6. Cardinality(U) \in Nat
  <2>1. U \in SUBSET (1 .. Len(ds)) /\ Len(ds) \in Nat
    BY DEF Unmatched
  <2>2. IsFiniteSet(1 .. Len(ds))
    BY <2>1, FS_Interval
  <2> HIDE DEF U
  <2>3. IsFiniteSet(U)
    BY <2>1, <2>2, FS_Subset
  <2> QED
    BY <2>3, FS_CardinalityType
<1>7. Apart(ts, next) => Apart(all, next + Cardinality(U))
  <2> DEFINE m == M
  <2>1. m \in SUBSET ((DOMAIN ts) \X (DOMAIN ds)) /\ OneToOne(m)
    BY AssociateOneToOne
  <2> HIDE DEF m
  <2>2. Apart(ts, next)
          => Apart(Carried(ts, ds, m) \o Started(next, ds, m), next + Cardinality(Unmatched(ds, m)))
    BY <2>1, StartedApart
  <2> QED
    BY <2>2 DEF m
<1> DEFINE up == Update(c, tracker, ds)
           n == Cardinality(U)
<1>8. up.tracks = new /\ up.nextId = next + n /\ n \in Nat
  BY <1>3, <1>4, <1>6
<1>9. next + n \in Nat \ {0}
  BY <1>6
<1> HIDE DEF up, n, new, all
<1>10. Follows(up, c, tracker, ds)
  BY <1>5, <1>7, <1>8, <1>9 DEF Follows, Confirms, n
<1> QED
  BY <1>10 DEF up
================================================================================
