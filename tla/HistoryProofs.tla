--------------------------- MODULE HistoryProofs ----------------------------
(* Proofs about History, for any resolution, ranges, plot and times.        *)
EXTENDS History, FiniteSetTheorems, WellFoundedInduction, TLAPS

-----------------------------------------------------------------------------
(* Arithmetic.                                                             *)

(* What a division rounds off.                                             *)
LEMMA DivBounds ==
  ASSUME NEW a \in Int, NEW b \in Nat \ {0}
  PROVE  /\ a \div b \in Int
         /\ b * (a \div b) <= a
         /\ a < b * (a \div b) + b
  OBVIOUS

LEMMA LessTimes ==
  ASSUME NEW m \in Int, NEW n \in Int, NEW b \in Nat \ {0}, m * b < n * b
  PROVE  m < n
  OBVIOUS

LEMMA TimesMonotone ==
  ASSUME NEW m \in Int, NEW n \in Int, NEW b \in Nat, m <= n
  PROVE  m * b <= n * b
  OBVIOUS

LEMMA LeastOf ==
  ASSUME NEW S \in SUBSET Nat, S # {}
  PROVE  \E x \in S : \A y \in S : x <= y
<1>1. PICK x \in S : \A y \in S : ~(<<y, x>> \in OpToRel(<, Nat))
  BY WFMin, NatLessThanWellFounded
<1>2. \A y \in S : ~(y < x)
  BY <1>1 DEF OpToRel
<1> QED BY <1>2

LEMMA GreatestOf ==
  ASSUME NEW n \in Nat, NEW S \in SUBSET (0..n), S # {}
  PROVE  \E x \in S : \A y \in S : y <= x
<1> DEFINE R == {r \in Nat : n - r \in S}
<1>1. PICK y \in S : TRUE
  OBVIOUS
<1>2. n - y \in Nat /\ n - (n - y) = y
  OBVIOUS
<1>3. R \in SUBSET Nat /\ R # {}
  BY <1>2
<1>4. PICK r \in R : \A q \in R : r <= q
  BY <1>3, LeastOf
<1>5. ASSUME NEW z \in S PROVE z <= n - r
  <2>1. n - z \in Nat /\ n - (n - z) = z
    OBVIOUS
  <2>2. r <= n - z
    BY <1>4, <2>1
  <2> QED BY <1>4, <2>1, <2>2
<1> QED BY <1>4, <1>5

-----------------------------------------------------------------------------
(* Buckets.                                                                *)

Span(since, until) == IF until > since THEN until - since ELSE 0

(* What Math.ceil rounds up.                                                *)
LEMMA CeilBounds ==
  ASSUME NEW a \in Nat, NEW b \in Nat \ {0}
  PROVE  /\ CeilDiv(a, b) \in Int
         /\ a <= b * CeilDiv(a, b)
         /\ b * CeilDiv(a, b) < a + b
<1> DEFINE n == a + b - 1
           q == n \div b
<1>1. n \in Int
  OBVIOUS
<1>2. q \in Int /\ b * q <= n /\ n < b * q + b
  <2> HIDE DEF n
  <2> QED BY <1>1, DivBounds
<1>3. CeilDiv(a, b) = q
  BY DEF CeilDiv
<1> HIDE DEF q
<1>4. b * q \in Int
  BY <1>2
<1> QED BY <1>2, <1>3, <1>4

(* The bucket has a size, the target number of buckets spans the window,    *)
(* and no smaller bucket would do.                                         *)
LEMMA BucketSize ==
  ASSUME NEW since \in Int, NEW until \in Int
  PROVE  /\ BucketMsFor(since, until) \in Nat \ {0}
         /\ Span(since, until) <= TargetPoints * BucketMsFor(since, until)
<1> DEFINE s == Span(since, until)
           size == CeilDiv(s, TargetPoints)
<1>1. s \in Nat /\ TargetPoints \in Nat \ {0}
  BY HistoryAssumption DEF Span
<1>2. BucketMsFor(since, until) = IF size > 1 THEN size ELSE 1
  BY DEF BucketMsFor, Span
<1> HIDE DEF s
<1>3. size \in Int /\ s <= TargetPoints * size
  BY <1>1, CeilBounds
<1> HIDE DEF size
<1>4. CASE size > 1
  BY <1>2, <1>3, <1>4 DEF s
<1>5. CASE ~(size > 1)
  <2>1. TargetPoints * size <= TargetPoints * 1
    BY <1>1, <1>3, <1>5
  <2>2. s <= TargetPoints * 1
    <3>1. TargetPoints * size \in Int
      BY <1>1, <1>3
    <3> QED BY <1>1, <1>3, <2>1, <3>1
  <2> QED BY <1>2, <1>5, <2>2 DEF s
<1> QED BY <1>4, <1>5

LEMMA BucketLeast ==
  ASSUME NEW since \in Int, NEW until \in Int, NEW b \in Nat \ {0},
         Span(since, until) <= TargetPoints * b
  PROVE  BucketMsFor(since, until) <= b
<1> DEFINE s == Span(since, until)
           size == CeilDiv(s, TargetPoints)
<1>1. s \in Nat /\ TargetPoints \in Nat \ {0} /\ s <= TargetPoints * b
  BY HistoryAssumption DEF Span
<1>2. BucketMsFor(since, until) = IF size > 1 THEN size ELSE 1
  BY DEF BucketMsFor, Span
<1> HIDE DEF s
<1>3. size \in Int /\ TargetPoints * size < s + TargetPoints
  BY <1>1, CeilBounds
<1> HIDE DEF size
<1>4. size * TargetPoints < (b + 1) * TargetPoints
  <2>1. TargetPoints * b \in Int /\ TargetPoints * size \in Int
    BY <1>1, <1>3
  <2>2. TargetPoints * size < TargetPoints * b + TargetPoints
    BY <1>1, <1>3, <2>1
  <2> QED BY <1>1, <1>3, <2>2
<1>5. size < b + 1
  BY <1>1, <1>3, <1>4, LessTimes
<1> QED BY <1>2, <1>3, <1>5

(* Two samples of a window are at most the target number of buckets apart.  *)
LEMMA GroupsClose ==
  ASSUME NEW since \in Int, NEW until \in Int,
         NEW s \in Nat, NEW t \in Nat, since <= s, t <= until, since <= t, s <= until,
         NEW b, b = BucketMsFor(since, until)
  PROVE  t \div b - s \div b <= TargetPoints
<1>1. /\ b \in Nat \ {0} /\ TargetPoints \in Nat \ {0}
      /\ Span(since, until) <= TargetPoints * b
  BY BucketSize, HistoryAssumption
<1>2. t - s <= Span(since, until) /\ Span(since, until) \in Nat
  BY DEF Span
<1> DEFINE p == t \div b
           q == s \div b
<1>3. p \in Int /\ b * p <= t /\ q \in Int /\ s < b * q + b
  <2>1. s \in Int /\ t \in Int
    OBVIOUS
  <2>2. p \in Int /\ b * p <= t
    BY <1>1, <2>1, DivBounds
  <2>3. q \in Int /\ s < b * q + b
    BY <1>1, <2>1, DivBounds
  <2> QED BY <2>2, <2>3
<1> HIDE DEF p, q
<1>4. /\ TargetPoints * b \in Int /\ b * p \in Int /\ b * q \in Int
      /\ b * p < b * q + b + TargetPoints * b
  BY <1>1, <1>2, <1>3
<1>5. p * b < (q + 1 + TargetPoints) * b
  BY <1>1, <1>3, <1>4
<1>6. q + 1 + TargetPoints \in Int
  BY <1>1, <1>3
<1>7. p < q + 1 + TargetPoints
  BY <1>1, <1>3, <1>5, <1>6, LessTimes
<1> QED BY <1>1, <1>3, <1>7 DEF p, q

(* A sample's point is at most a bucket before it.                         *)
LEMMA PointOf ==
  ASSUME NEW t \in Nat, NEW b \in Nat \ {0}
  PROVE  /\ (t \div b) \in Nat /\ (t \div b) * b \in Nat
         /\ (t \div b) * b <= t /\ t < (t \div b) * b + b
<1> DEFINE q == t \div b
<1>1. q \in Int /\ b * q <= t /\ t < b * q + b
  BY DivBounds
<1> HIDE DEF q
<1>2. b * q \in Int /\ q * b = b * q /\ (q + 1) * b = b * q + b
  BY <1>1
<1>3. 0 * b < (q + 1) * b
  BY <1>1, <1>2
<1>4. 0 < q + 1
  BY <1>1, <1>3, LessTimes
<1>5. q \in Nat
  BY <1>1, <1>4
<1>6. q * b \in Nat
  BY <1>5
<1> QED BY <1>1, <1>2, <1>5, <1>6 DEF q

(* Only one multiple of b is that near.                                    *)
LEMMA PointUnique ==
  ASSUME NEW t \in Nat, NEW b \in Nat \ {0}, NEW g \in Nat, NEW h \in Nat,
         g * b <= t, t < g * b + b, h * b <= t, t < h * b + b
  PROVE  g = h
<1>1. g * b < (h + 1) * b /\ h * b < (g + 1) * b
  <2>1. g * b \in Int /\ h * b \in Int
    OBVIOUS
  <2>2. g * b < h * b + b /\ h * b < g * b + b
    BY <2>1
  <2> QED BY <2>1, <2>2
<1>2. g < h + 1 /\ h < g + 1
  BY <1>1, LessTimes
<1> QED BY <1>2

-----------------------------------------------------------------------------
(* The series.                                                             *)

LEMMA WindowType ==
  ASSUME TypeOK, asked # None
  PROVE  /\ WindowOf(asked).since \in Int
         /\ WindowOf(asked).until \in Int
<1>1. now \in Int
  BY HistoryAssumption DEF TypeOK, Time
<1>2. RangeMs \subseteq Int
  BY HistoryAssumption
<1>3. asked \in Query /\ (asked.range = None => asked.from # None /\ asked.to # None)
  BY DEF TypeOK
<1>4. /\ asked.range \in RangeMs \cup {None}
      /\ asked.from \in Int \cup {None} /\ asked.to \in Int \cup {None}
  BY <1>3 DEF Query
<1>5. CASE asked.range = None
  BY <1>3, <1>4, <1>5 DEF WindowOf
<1>6. CASE asked.range # None
  <2>1. WindowOf(asked).since = now - asked.range /\ WindowOf(asked).until = now
    BY <1>6 DEF WindowOf
  <2>2. asked.range \in Int
    BY <1>2, <1>4, <1>6
  <2> QED BY <1>1, <2>1, <2>2
<1> QED BY <1>5, <1>6

(* The points of a window: where they lie, and how far apart.              *)
LEMMA SeriesPoints ==
  ASSUME NEW S \in SUBSET Time, NEW since \in Int, NEW until \in Int,
         NEW x \in SeriesForProcess(S, since, until),
         NEW y \in SeriesForProcess(S, since, until)
  PROVE  /\ x \in Time
         /\ y - x <= TargetPoints * BucketMsFor(since, until)
<1> DEFINE b == BucketMsFor(since, until)
<1>1. b \in Nat \ {0} /\ TargetPoints \in Nat \ {0} /\ MaxTime \in Nat
  BY BucketSize, HistoryAssumption
<1>2. PICK s \in InWindow(S, since, until) : x = (s \div b) * b
  BY DEF SeriesForProcess, Groups
<1>3. PICK t \in InWindow(S, since, until) : y = (t \div b) * b
  BY DEF SeriesForProcess, Groups
<1>4. /\ s \in Nat /\ t \in Nat /\ s <= MaxTime
      /\ since <= s /\ s <= until /\ since <= t /\ t <= until
  BY <1>1 DEF InWindow, Time
<1>5. t \div b - s \div b <= TargetPoints
  BY <1>4, GroupsClose
<1> DEFINE q == s \div b
           p == t \div b
<1> HIDE DEF b
<1>6. q \in Nat /\ q * b \in Nat /\ q * b <= s
  BY <1>1, <1>4, PointOf
<1>7. p \in Nat
  BY <1>1, <1>4, PointOf
<1>8. x \in Time
  BY <1>1, <1>2, <1>4, <1>6 DEF Time
<1> HIDE DEF p, q
<1>9. p <= q + TargetPoints
  BY <1>1, <1>5, <1>6, <1>7 DEF p, q
<1>10. p * b <= (q + TargetPoints) * b
  BY <1>1, <1>6, <1>7, <1>9, TimesMonotone
<1>11. /\ (q + TargetPoints) * b = q * b + TargetPoints * b
       /\ p * b \in Int /\ q * b \in Int /\ TargetPoints * b \in Int
  BY <1>1, <1>6, <1>7
<1>12. p * b - q * b <= TargetPoints * b
  BY <1>10, <1>11
<1> QED BY <1>2, <1>3, <1>8, <1>12 DEF p, q, b

(* As many points as buckets, and at most one more bucket than asked for.   *)
LEMMA SeriesSize ==
  ASSUME NEW S \in SUBSET Time, NEW since \in Int, NEW until \in Int
  PROVE  /\ IsFiniteSet(SeriesForProcess(S, since, until))
         /\ Cardinality(SeriesForProcess(S, since, until)) <= TargetPoints + 1
<1> DEFINE b == BucketMsFor(since, until)
           G == Groups(S, since, until)
           P == SeriesForProcess(S, since, until)
<1>1. b \in Nat \ {0} /\ TargetPoints \in Nat \ {0} /\ MaxTime \in Nat
  BY BucketSize, HistoryAssumption
<1>2. CASE G = {}
  <2>1. P = {}
    BY <1>2 DEF SeriesForProcess
  <2> QED BY <1>1, <2>1, FS_EmptySet
<1>3. CASE G # {}
  <2>1. ASSUME NEW g \in G
        PROVE  g \in Nat /\ \A h \in G : h <= g + TargetPoints
    <3>1. PICK s \in InWindow(S, since, until) : g = s \div b
      BY DEF Groups
    <3>2. s \in Nat /\ since <= s /\ s <= until
      BY <1>1 DEF InWindow, Time
    <3>3. g \in Nat
      <4> HIDE DEF b
      <4> QED BY <1>1, <3>1, <3>2, PointOf
    <3>4. ASSUME NEW h \in G PROVE h <= g + TargetPoints
      <4>1. PICK t \in InWindow(S, since, until) : h = t \div b
        BY DEF Groups
      <4>2. t \in Nat /\ since <= t /\ t <= until
        BY <1>1 DEF InWindow, Time
      <4>3. h - g <= TargetPoints
        BY <3>1, <3>2, <4>1, <4>2, GroupsClose
      <4>4. h \in Nat
        <5> HIDE DEF b
        <5> QED BY <1>1, <4>1, <4>2, PointOf
      <4> QED BY <1>1, <3>3, <4>3, <4>4
    <3> QED BY <3>3, <3>4
  <2>2. PICK g \in G : \A h \in G : g <= h
    <3>1. G \in SUBSET Nat
      BY <2>1
    <3> QED BY <1>3, <3>1, LeastOf
  <2> DEFINE I == g..(g + TargetPoints)
  <2>3. IsFiniteSet(I) /\ Cardinality(I) = TargetPoints + 1
    <3> DEFINE m == g + TargetPoints
    <3>1. g \in Int /\ m \in Int /\ ~(g > m) /\ m - g + 1 = TargetPoints + 1
      <4> HIDE DEF G
      <4> QED BY <1>1, <2>1
    <3> HIDE DEF m
    <3>2. IsFiniteSet(g..m) /\ Cardinality(g..m) = TargetPoints + 1
      BY <3>1, FS_Interval
    <3> QED BY <3>2 DEF m
  <2>4. G \in SUBSET I
    BY <1>1, <2>1, <2>2
  <2>5. IsFiniteSet(G) /\ Cardinality(G) <= Cardinality(I)
    BY <2>3, <2>4, FS_Subset
  <2> DEFINE f == [h \in G |-> h * b]
  <2>6. f \in Surjection(G, P)
    <3> HIDE DEF G
    <3>1. P = {h * b : h \in G}
      BY DEF G, SeriesForProcess
    <3> QED BY <3>1 DEF Surjection
  <2>7. IsFiniteSet(P) /\ Cardinality(P) <= Cardinality(G)
    <3> HIDE DEF f, G, P
    <3> QED BY <2>5, <2>6, FS_Surjection
  <2>8. Cardinality(P) \in Nat /\ Cardinality(G) \in Nat
    BY <2>5, <2>7, FS_CardinalityType
  <2> HIDE DEF G, P, I
  <2> QED BY <1>1, <2>3, <2>5, <2>7, <2>8 DEF P
<1> QED BY <1>2, <1>3

(* One point for a sample of the window.                                   *)
LEMMA SamplePoint ==
  ASSUME NEW S \in SUBSET Time, NEW since \in Int, NEW until \in Int,
         NEW t \in InWindow(S, since, until),
         NEW b, b = BucketMsFor(since, until)
  PROVE  Cardinality({p \in SeriesForProcess(S, since, until) : p <= t /\ t < p + b}) = 1
<1>1. b \in Nat \ {0} /\ MaxTime \in Nat
  BY BucketSize, HistoryAssumption
<1>2. \A s \in InWindow(S, since, until) : s \in Nat
  BY <1>1 DEF InWindow, Time
<1> DEFINE q == t \div b
           P == SeriesForProcess(S, since, until)
           near == {p \in P : p <= t /\ t < p + b}
<1>3. q \in Nat /\ q * b <= t /\ t < q * b + b
  BY <1>1, <1>2, PointOf
<1>4. q * b \in near
  BY <1>3 DEF SeriesForProcess, Groups
<1>5. ASSUME NEW p \in near PROVE p = q * b
  <2>1. PICK s \in InWindow(S, since, until) : p = (s \div b) * b
    BY DEF SeriesForProcess, Groups
  <2>2. s \div b \in Nat
    BY <1>1, <1>2, PointOf
  <2> DEFINE h == s \div b
  <2>3. h * b <= t /\ t < h * b + b
    BY <2>1
  <2>4. h = q
    <3> HIDE DEF h, q
    <3> QED BY <1>1, <1>2, <1>3, <2>2, <2>3, PointUnique DEF h
  <2> QED BY <2>1, <2>4
<1>6. near = {q * b}
  BY <1>4, <1>5
<1> QED BY <1>6, FS_Singleton

-----------------------------------------------------------------------------
(* The chart.                                                              *)

Charted == shown.points \subseteq Time /\ shown.since \in Int /\ shown.until \in Int

LEMMA Extent ==
  ASSUME Charted, ~IsEmpty
  PROVE  /\ XMin \in shown.points /\ XMax \in shown.points
         /\ XMin \in Nat /\ XMax \in Nat /\ XMin <= XMax /\ XSpan \in Nat \ {0}
<1>1. MaxTime \in Nat /\ shown.points \in SUBSET (0..MaxTime)
  BY HistoryAssumption DEF Charted, Time
<1>2. shown.points \in SUBSET Nat /\ shown.points # {}
  BY <1>1 DEF IsEmpty
<1>3. XMin \in shown.points /\ \A y \in shown.points : XMin <= y
  <2>1. \E x \in shown.points : \A y \in shown.points : x <= y
    BY <1>2, LeastOf
  <2> QED BY <2>1 DEF XMin
<1>4. XMax \in shown.points /\ \A y \in shown.points : XMax >= y
  <2>1. \E x \in shown.points : \A y \in shown.points : y <= x
    BY <1>1, <1>2, GreatestOf
  <2>2. \E x \in shown.points : \A y \in shown.points : x >= y
    BY <1>2, <2>1
  <2> QED BY <2>2 DEF XMax
<1>5. XMin \in Nat /\ XMax \in Nat /\ XMin <= XMax
  BY <1>2, <1>3, <1>4
<1> QED BY <1>3, <1>4, <1>5 DEF XSpan

(* Where in time a pixel of the plot lies; margins have a time too.         *)
LEMMA RoundType ==
  ASSUME Charted, ~IsEmpty, NEW px \in Int
  PROVE  RoundXAt(px) \in Int
<1>1. XMin \in Int /\ XSpan \in Int /\ PlotW \in Nat \ {0}
  BY Extent, HistoryAssumption
<1> DEFINE n == 2 * ScaledXAt(px) + PlotW
<1>2. n \in Int /\ 2 * PlotW \in Nat \ {0}
  BY <1>1 DEF ScaledXAt
<1> HIDE DEF n
<1>3. n \div (2 * PlotW) \in Int
  BY <1>2, DivBounds
<1> QED BY <1>3 DEF RoundXAt, n

LEMMA RoundInExtent ==
  ASSUME Charted, ~IsEmpty, NEW px \in 0..PlotW
  PROVE  RoundXAt(px) \in Int /\ XMin <= RoundXAt(px) /\ RoundXAt(px) <= XMin + XSpan
<1> DEFINE x == XMin
           k == XSpan
           r == RoundXAt(px)
           w == 2 * PlotW
           a == px * k
           n == 2 * (PlotW * x + a) + PlotW
<1>1. x \in Nat /\ k \in Nat \ {0} /\ PlotW \in Nat \ {0} /\ px \in Nat /\ px <= PlotW
  BY Extent, HistoryAssumption
<1>2. r = n \div w
  BY DEF RoundXAt, ScaledXAt
<1> HIDE DEF x, k
<1>3. a \in Nat /\ a <= PlotW * k
  BY <1>1, TimesMonotone
<1> HIDE DEF a, r
<1>4. /\ PlotW * x \in Int /\ PlotW * k \in Int /\ n \in Int /\ w \in Nat \ {0}
      /\ x * w = 2 * (PlotW * x) /\ (x + k + 1) * w = 2 * (PlotW * x) + 2 * (PlotW * k) + w
  BY <1>1, <1>3
<1>5. r \in Int /\ w * r <= n /\ n < w * r + w
  <2> HIDE DEF n, w
  <2> QED BY <1>2, <1>4, DivBounds
<1>6. w * r \in Int /\ r * w = w * r /\ (r + 1) * w = w * r + w
  BY <1>4, <1>5
<1>7. x * w < (r + 1) * w
  BY <1>1, <1>3, <1>4, <1>5, <1>6
<1>8. r * w < (x + k + 1) * w
  BY <1>1, <1>3, <1>4, <1>5, <1>6
<1> HIDE DEF w
<1>9. x < r + 1 /\ r < x + k + 1
  BY <1>1, <1>4, <1>5, <1>7, <1>8, LessTimes
<1> QED BY <1>1, <1>5, <1>9 DEF x, k, r

-----------------------------------------------------------------------------
(* The pointer: the binary search, and what it is for.                     *)

Enumerates(d, S) ==
    /\ d \in [1..Cardinality(S) -> S]
    /\ \A i, j \in DOMAIN d : i < j => d[i] < d[j]

LEMMA FiniteTimes ==
  ASSUME NEW m \in Nat, NEW T \in SUBSET (0..m)
  PROVE  IsFiniteSet(T)
<1>1. IsFiniteSet(0..m)
  BY FS_Interval
<1> QED BY <1>1, FS_Subset

(* Times can be put in their order: otherwise take a smallest set of which  *)
(* that is wrong, and put its greatest element last.                       *)
LEMMA Enumeration ==
  ASSUME NEW m \in Nat, NEW S \in SUBSET (0..m)
  PROVE  \E d : Enumerates(d, S)
<1> DEFINE Bad == {k \in Nat : \E T \in SUBSET (0..m) :
                                  Cardinality(T) = k /\ ~ \E d : Enumerates(d, T)}
<1>1. ASSUME NEW T \in SUBSET (0..m) PROVE IsFiniteSet(T) /\ Cardinality(T) \in Nat
  BY FiniteTimes, FS_CardinalityType
<1>2. ASSUME Bad # {} PROVE FALSE
  <2>1. PICK k \in Bad : \A j \in Bad : k <= j
    <3>1. Bad \in SUBSET Nat
      OBVIOUS
    <3> HIDE DEF Bad
    <3> QED BY <1>2, <3>1, LeastOf
  <2>2. PICK T \in SUBSET (0..m) : Cardinality(T) = k /\ ~ \E d : Enumerates(d, T)
    BY <2>1
  <2>3. T # {}
    <3> SUFFICES ASSUME T = {} PROVE FALSE
      OBVIOUS
    <3>1. Cardinality(T) = 0
      BY FS_EmptySet
    <3>2. Enumerates([i \in 1..0 |-> 0], T)
      BY <3>1 DEF Enumerates
    <3> QED BY <2>2, <3>2
  <2>4. PICK x \in T : \A y \in T : y <= x
    BY <2>3, GreatestOf
  <2> DEFINE U == T \ {x}
  <2>5. k \in Nat /\ k > 0 /\ Cardinality(U) = k - 1
    <3>1. IsFiniteSet(T) /\ k \in Nat
      BY <1>1, <2>2
    <3>2. IsFiniteSet(U) /\ Cardinality(U) = Cardinality(T) - 1
      BY <3>1, FS_RemoveElement
    <3>3. Cardinality(U) \in Nat
      BY <3>2, FS_CardinalityType
    <3> HIDE DEF U
    <3> QED BY <2>2, <3>1, <3>2, <3>3
  <2>6. PICK c : Enumerates(c, U)
    <3>1. k - 1 \in Nat /\ k - 1 \notin Bad
      <4> HIDE DEF Bad
      <4> QED BY <2>1, <2>5
    <3>2. U \in SUBSET (0..m)
      OBVIOUS
    <3> HIDE DEF U
    <3> QED BY <2>5, <3>1, <3>2
  <2> DEFINE d == [i \in 1..k |-> IF i = k THEN x ELSE c[i]]
  <2>7. c \in [1..(k - 1) -> U] /\ \A i, j \in 1..(k - 1) : i < j => c[i] < c[j]
    BY <2>5, <2>6 DEF Enumerates
  <2>8. \A i \in 1..k : i # k => i \in 1..(k - 1)
    BY <2>5
  <2>9. d \in [1..k -> T]
    BY <2>7, <2>8
  <2>10. ASSUME NEW i \in 1..k, NEW j \in 1..k, i < j PROVE d[i] < d[j]
    <3>1. i \in 1..(k - 1) /\ d[i] = c[i] /\ c[i] \in U
      BY <2>5, <2>7, <2>10
    <3>2. CASE j = k
      <4>1. c[i] \in T /\ c[i] # x
        BY <3>1
      <4>2. \A y \in T : y \in Int
        OBVIOUS
      <4>3. c[i] \in Int /\ x \in Int
        BY <4>1, <4>2
      <4>4. c[i] <= x
        BY <2>4, <4>1
      <4>5. d[j] = x /\ d[i] = c[i]
        BY <3>1, <3>2
      <4> HIDE DEF d
      <4> QED BY <4>1, <4>3, <4>4, <4>5
    <3>3. CASE j # k
      BY <2>7, <2>8, <2>10, <3>1, <3>3
    <3> QED BY <3>2, <3>3
  <2>11. Enumerates(d, T)
    <3>1. DOMAIN d = 1..k
      OBVIOUS
    <3> HIDE DEF d
    <3> QED BY <2>2, <2>9, <2>10, <3>1 DEF Enumerates
  <2> QED BY <2>2, <2>11
<1>3. Cardinality(S) \notin Bad /\ Cardinality(S) \in Nat
  BY <1>1, <1>2
<1> QED BY <1>3

(* r is the first of lo..hi that is not in B, or else hi.                  *)
FirstOutside(B, lo, hi, r) ==
    /\ r \in lo..hi
    /\ \A i \in lo..(r - 1) : i \in B
    /\ r < hi => r \notin B

LEMMA FirstExists ==
  ASSUME NEW B, NEW lo \in Nat, NEW hi \in Nat, lo <= hi
  PROVE  \E r \in lo..hi : FirstOutside(B, lo, hi, r)
<1> DEFINE C == {i \in lo..hi : i \notin B \/ i = hi}
<1>1. C \in SUBSET Nat /\ hi \in C
  OBVIOUS
<1>2. PICK r \in C : \A y \in C : r <= y
  <2> HIDE DEF C
  <2> QED BY <1>1, LeastOf
<1>3. ASSUME NEW i \in lo..(r - 1) PROVE i \in B
  <2>1. i \in lo..hi /\ i < r
    OBVIOUS
  <2>2. i \notin C
    <3> HIDE DEF C
    <3> QED BY <1>1, <1>2, <2>1
  <2> QED BY <2>1, <2>2
<1> QED BY <1>3 DEF FirstOutside

LEMMA FirstUnique ==
  ASSUME NEW B, NEW lo \in Nat, NEW hi \in Nat, NEW r, NEW s,
         FirstOutside(B, lo, hi, r), FirstOutside(B, lo, hi, s)
  PROVE  r = s
<1>1. r \in Nat /\ s \in Nat /\ r <= hi /\ s <= hi /\ lo <= r /\ lo <= s
  BY DEF FirstOutside
<1>2. ~(r < s)
  BY <1>1 DEF FirstOutside
<1>3. ~(s < r)
  BY <1>1 DEF FirstOutside
<1> QED BY <1>1, <1>2, <1>3

(* One round of the search: B is what lies to the left.                    *)
LEMMA FirstHalf ==
  ASSUME NEW B, NEW lo \in Nat, NEW hi \in Nat, lo < hi,
         \A i, j \in lo..hi : i <= j /\ j \in B => i \in B,
         NEW mid, mid = (lo + hi) \div 2, NEW r
  PROVE  /\ mid \in Nat /\ lo <= mid /\ mid < hi
         /\ mid \in B /\ FirstOutside(B, mid + 1, hi, r) => FirstOutside(B, lo, hi, r)
         /\ mid \notin B /\ FirstOutside(B, lo, mid, r) => FirstOutside(B, lo, hi, r)
<1>1. mid \in Nat /\ lo <= mid /\ mid < hi
  OBVIOUS
<1>2. ASSUME mid \in B, FirstOutside(B, mid + 1, hi, r) PROVE FirstOutside(B, lo, hi, r)
  <2>1. r \in (mid + 1)..hi /\ r \in lo..hi
    BY <1>1, <1>2 DEF FirstOutside
  <2>2. ASSUME NEW i \in lo..(r - 1) PROVE i \in B
    <3>1. CASE i <= mid
      BY <1>1, <1>2, <2>1, <3>1
    <3>2. CASE ~(i <= mid)
      <4>1. i \in (mid + 1)..(r - 1)
        BY <1>1, <2>1, <3>2
      <4> QED BY <1>2, <4>1 DEF FirstOutside
    <3> QED BY <3>1, <3>2
  <2> QED BY <1>2, <2>1, <2>2 DEF FirstOutside
<1>3. ASSUME mid \notin B, FirstOutside(B, lo, mid, r) PROVE FirstOutside(B, lo, hi, r)
  <2>1. r \in lo..mid /\ r \in lo..hi
    BY <1>1, <1>3 DEF FirstOutside
  <2>2. r \notin B
    BY <1>1, <1>3, <2>1 DEF FirstOutside
  <2> QED BY <1>3, <2>1, <2>2 DEF FirstOutside
<1> QED BY <1>1, <1>2, <1>3

(* nearestIndex's loop as an equation.                                     *)
SearchBody(d, xv, f) ==
    [r \in (1..Len(d)) \X (1..Len(d)) |->
        LET mid == (r[1] + r[2]) \div 2 IN
        IF r[1] >= r[2] THEN r[1]
        ELSE IF PlotW * d[mid] < xv THEN f[<<mid + 1, r[2]>>] ELSE f[<<r[1], mid>>]]

(* The equation has a solution.                                            *)
LEMMA SearchExists ==
  ASSUME NEW n \in Nat, NEW d \in [1..n -> Int], Len(d) = n, NEW xv \in Int,
         \A i, j \in 1..n : i <= j => PlotW * d[i] <= PlotW * d[j]
  PROVE  \E g : g = SearchBody(d, xv, g)
<1> DEFINE B == {i \in 1..n : PlotW * d[i] < xv}
           D == (1..n) \X (1..n)
           g == [p \in D |-> IF p[1] >= p[2] THEN p[1]
                             ELSE CHOOSE r \in p[1]..p[2] : FirstOutside(B, p[1], p[2], r)]
           h == SearchBody(d, xv, g)
<1>0. PlotW \in Int
  BY HistoryAssumption
<1>1. ASSUME NEW lo \in 1..n, NEW hi \in 1..n, lo <= hi
      PROVE  FirstOutside(B, lo, hi, g[<<lo, hi>>])
  <2> HIDE DEF B
  <2>1. CASE lo = hi
    BY <2>1 DEF FirstOutside
  <2>2. CASE lo < hi
    <3>1. g[<<lo, hi>>] = CHOOSE r \in lo..hi : FirstOutside(B, lo, hi, r)
      BY <2>2
    <3>2. \E r \in lo..hi : FirstOutside(B, lo, hi, r)
      <4>1. lo \in Nat /\ hi \in Nat
        OBVIOUS
      <4> QED BY <1>1, <4>1, FirstExists
    <3> HIDE DEF g
    <3> QED BY <3>1, <3>2
  <2> QED BY <1>1, <2>1, <2>2
<1>2. ASSUME NEW lo \in 1..n, NEW hi \in 1..n
      PROVE  g[<<lo, hi>>] = h[<<lo, hi>>]
  <2>1. CASE lo >= hi
    <3>1. g[<<lo, hi>>] = lo
      BY <2>1
    <3> HIDE DEF g
    <3>2. h[<<lo, hi>>] = lo
      BY <2>1 DEF SearchBody
    <3> QED BY <3>1, <3>2
  <2>2. CASE lo < hi
    <3> DEFINE mid == (lo + hi) \div 2
    <3>1. mid \in Nat /\ lo <= mid /\ mid < hi /\ mid \in 1..n /\ mid + 1 \in 1..n
      BY <2>2
    <3>2. h[<<lo, hi>>] = IF mid \in B THEN g[<<mid + 1, hi>>] ELSE g[<<lo, mid>>]
      <4>1. ~(lo >= hi)
        BY <2>2
      <4>2. mid \in B <=> PlotW * d[mid] < xv
        BY <3>1
      <4> HIDE DEF g, B
      <4>3. h[<<lo, hi>>] = IF lo >= hi THEN lo
                ELSE IF PlotW * d[mid] < xv THEN g[<<mid + 1, hi>>] ELSE g[<<lo, mid>>]
        BY DEF SearchBody
      <4> QED BY <4>1, <4>2, <4>3
    <3>3. \A i, j \in lo..hi : i <= j /\ j \in B => i \in B
      <4> SUFFICES ASSUME NEW i \in lo..hi, NEW j \in lo..hi, i <= j, j \in B PROVE i \in B
        OBVIOUS
      <4>1. i \in 1..n /\ j \in 1..n
        OBVIOUS
      <4>2. PlotW * d[i] <= PlotW * d[j] /\ PlotW * d[j] < xv
        BY <4>1
      <4>3. PlotW * d[i] \in Int /\ PlotW * d[j] \in Int
        BY <1>0, <4>1
      <4>4. PlotW * d[i] < xv
        BY <4>2, <4>3
      <4> QED BY <4>1, <4>4
    <3>4. FirstOutside(B, lo, hi, g[<<lo, hi>>])
      <4> HIDE DEF g, B
      <4> QED BY <1>1, <2>2
    <3> DEFINE m == mid
    <3>5. m \in Nat /\ lo <= m /\ m < hi /\ m \in 1..n /\ m + 1 \in 1..n /\ m = (lo + hi) \div 2
      BY <3>1
    <3>6. FirstOutside(B, m + 1, hi, g[<<m + 1, hi>>]) /\ FirstOutside(B, lo, m, g[<<lo, m>>])
      <4>1. m + 1 <= hi /\ lo <= m
        BY <3>5
      <4> HIDE DEF m, B, g
      <4> QED BY <1>1, <3>5, <4>1
    <3>7. h[<<lo, hi>>] = IF m \in B THEN g[<<m + 1, hi>>] ELSE g[<<lo, m>>]
      BY <3>2
    <3> HIDE DEF m, B, g, h
    <3>8. lo \in Nat /\ hi \in Nat
      OBVIOUS
    <3>9. FirstOutside(B, lo, hi, h[<<lo, hi>>])
      BY <2>2, <3>3, <3>5, <3>6, <3>7, <3>8, FirstHalf
    <3> QED BY <3>4, <3>8, <3>9, FirstUnique
  <2> QED BY <2>1, <2>2
<1>3. g = h
  <2>1. \A p \in D : p = <<p[1], p[2]>> /\ p[1] \in 1..n /\ p[2] \in 1..n
    OBVIOUS
  <2>2. \A p \in D : g[p] = h[p]
    <3> HIDE DEF g, h
    <3> QED BY <1>2, <2>1
  <2>3. h = [p \in D |-> h[p]]
    BY DEF SearchBody
  <2>4. g = [p \in D |-> g[p]]
    OBVIOUS
  <2> HIDE DEF g, h
  <2> QED BY <2>2, <2>3, <2>4
<1> HIDE DEF g
<1> QED BY <1>3

(* What the loop returns, for any number of points.                        *)
LEMMA SearchFinds ==
  ASSUME NEW n \in Nat \ {0}, NEW d \in [1..n -> Int], Len(d) = n, NEW xv \in Int,
         \A i, j \in 1..n : i <= j => PlotW * d[i] <= PlotW * d[j]
  PROVE  FirstOutside({i \in 1..n : PlotW * d[i] < xv}, 1, n, FirstNotBefore(d, xv))
<1> DEFINE B == {i \in 1..n : PlotW * d[i] < xv}
           f == CHOOSE g : g = SearchBody(d, xv, g)
<1>0. PlotW \in Int
  BY HistoryAssumption
<1>1. FirstNotBefore(d, xv) = f[<<1, n>>]
  BY DEF FirstNotBefore, SearchBody
<1>2. f = SearchBody(d, xv, f)
  BY SearchExists
<1> HIDE DEF f
<1> DEFINE Bad == {k \in Nat : \E lo, hi \in 1..n :
                      lo <= hi /\ hi - lo = k /\ ~FirstOutside(B, lo, hi, f[<<lo, hi>>])}
<1>3. ASSUME Bad # {} PROVE FALSE
  <2>1. PICK k \in Bad : \A j \in Bad : k <= j
    <3>1. Bad \in SUBSET Nat
      OBVIOUS
    <3> HIDE DEF Bad
    <3> QED BY <1>3, <3>1, LeastOf
  <2>2. PICK lo \in 1..n, hi \in 1..n :
          lo <= hi /\ hi - lo = k /\ ~FirstOutside(B, lo, hi, f[<<lo, hi>>])
    BY <2>1
  <2>3. ASSUME NEW a \in 1..n, NEW b \in 1..n, a <= b, b - a < k
        PROVE  FirstOutside(B, a, b, f[<<a, b>>])
    <3>1. b - a \in Nat
      BY <2>3
    <3>2. b - a \notin Bad
      <4>1. k \in Nat
        OBVIOUS
      <4> HIDE DEF Bad
      <4> QED BY <2>1, <2>3, <3>1, <4>1
    <3> HIDE DEF B
    <3> QED BY <2>3, <3>1, <3>2
  <2>4. CASE lo = hi
    <3>1. f[<<lo, hi>>] = lo
      <4>1. SearchBody(d, xv, f)[<<lo, hi>>] = lo
        BY <2>4 DEF SearchBody
      <4> QED BY <1>2, <4>1
    <3> HIDE DEF B
    <3> QED BY <2>2, <2>4, <3>1 DEF FirstOutside
  <2>5. CASE lo < hi
    <3> DEFINE m == (lo + hi) \div 2
    <3>1. m \in Nat /\ lo <= m /\ m < hi /\ m \in 1..n /\ m + 1 \in 1..n /\ m = (lo + hi) \div 2
      BY <2>5
    <3>2. f[<<lo, hi>>] = IF m \in B THEN f[<<m + 1, hi>>] ELSE f[<<lo, m>>]
      <4>1. ~(lo >= hi)
        BY <2>5
      <4>2. m \in B <=> PlotW * d[m] < xv
        BY <3>1
      <4>3. SearchBody(d, xv, f)[<<lo, hi>>] = IF lo >= hi THEN lo
                ELSE IF PlotW * d[m] < xv THEN f[<<m + 1, hi>>] ELSE f[<<lo, m>>]
        BY DEF SearchBody
      <4> HIDE DEF B, m
      <4> QED BY <1>2, <4>1, <4>2, <4>3
    <3>3. \A i, j \in lo..hi : i <= j /\ j \in B => i \in B
      <4> SUFFICES ASSUME NEW i \in lo..hi, NEW j \in lo..hi, i <= j, j \in B PROVE i \in B
        OBVIOUS
      <4>1. i \in 1..n /\ j \in 1..n
        OBVIOUS
      <4>2. PlotW * d[i] <= PlotW * d[j] /\ PlotW * d[j] < xv
        BY <4>1
      <4>3. PlotW * d[i] \in Int /\ PlotW * d[j] \in Int
        BY <1>0, <4>1
      <4>4. PlotW * d[i] < xv
        BY <4>2, <4>3
      <4> QED BY <4>1, <4>4
    <3>4. hi - lo = k /\ hi - (m + 1) < k /\ m - lo < k /\ m + 1 <= hi
      BY <2>2, <3>1
    <3> HIDE DEF B, Bad
    <3>5. lo \in Nat /\ hi \in Nat
      OBVIOUS
    <3> HIDE DEF m
    <3>6. FirstOutside(B, m + 1, hi, f[<<m + 1, hi>>]) /\ FirstOutside(B, lo, m, f[<<lo, m>>])
      BY <2>3, <3>1, <3>4
    <3>7. FirstOutside(B, lo, hi, f[<<lo, hi>>])
      BY <2>5, <3>1, <3>2, <3>3, <3>5, <3>6, FirstHalf
    <3> QED BY <2>2, <3>7
  <2> QED BY <2>2, <2>4, <2>5
<1>4. 1 \in 1..n /\ n \in 1..n /\ n - 1 \in Nat /\ 1 <= n
  OBVIOUS
<1>5. FirstOutside(B, 1, n, f[<<1, n>>])
  <2>1. n - 1 \notin Bad
    BY <1>3
  <2> HIDE DEF B
  <2> QED BY <1>4, <2>1
<1> QED BY <1>1, <1>5

(* The points as the chart has them: in order, and scaled.                 *)
LEMMA DataInOrder ==
  ASSUME Charted, ~IsEmpty, NEW n, n = Cardinality(shown.points)
  PROVE  /\ n \in Nat \ {0} /\ Data \in [1..n -> Int] /\ Len(Data) = n
         /\ \A i, j \in 1..n : i <= j => PlotW * Data[i] <= PlotW * Data[j]
<1>1. MaxTime \in Nat /\ PlotW \in Nat /\ shown.points \in SUBSET (0..MaxTime)
  BY HistoryAssumption DEF Charted, Time
<1>2. IsFiniteSet(shown.points) /\ n \in Nat \ {0}
  <2>1. IsFiniteSet(shown.points)
    BY <1>1, FiniteTimes
  <2> QED BY <2>1, FS_CardinalityType, FS_EmptySet DEF IsEmpty
<1>3. Enumerates(Data, shown.points)
  <2>1. \E d : Enumerates(d, shown.points)
    BY <1>1, Enumeration
  <2> QED BY <2>1 DEF Enumerates, Data
<1>4. Data \in [1..n -> shown.points] /\ \A i, j \in 1..n : i < j => Data[i] < Data[j]
  BY <1>3 DEF Enumerates
<1>5. Data \in [1..n -> Int] /\ Len(Data) = n
  BY <1>1, <1>2, <1>4
<1>6. ASSUME NEW i \in 1..n, NEW j \in 1..n, i <= j
      PROVE  PlotW * Data[i] <= PlotW * Data[j]
  <2>1. Data[i] \in Int /\ Data[j] \in Int
    BY <1>5
  <2>2. Data[i] <= Data[j]
    BY <1>2, <1>4, <1>6, <2>1
  <2>3. Data[i] * PlotW <= Data[j] * PlotW
    BY <1>1, <2>1, <2>2, TimesMonotone
  <2>4. Data[i] * PlotW = PlotW * Data[i] /\ Data[j] * PlotW = PlotW * Data[j]
    BY <1>1, <2>1
  <2> QED BY <2>3, <2>4
<1> QED BY <1>2, <1>5, <1>6

(* In a sequence in order, one of the two neighbours of a value is nearest. *)
LEMMA NeighbourNearest ==
  ASSUME NEW n \in Nat, NEW e \in [1..n -> Int], NEW v \in Int,
         \A i, j \in 1..n : i <= j => e[i] <= e[j],
         NEW lo \in 2..n, e[lo - 1] < v, v <= e[lo], NEW i \in 1..n
  PROVE  \/ Distance(e[lo - 1], v) <= Distance(e[i], v)
         \/ Distance(e[lo], v) <= Distance(e[i], v)
<1>1. lo \in 1..n /\ lo - 1 \in 1..n
  OBVIOUS
<1>2. e[i] \in Int /\ e[lo] \in Int /\ e[lo - 1] \in Int
  BY <1>1
<1>3. e[i] <= e[lo - 1] \/ e[lo] <= e[i]
  BY <1>1
<1> QED BY <1>2, <1>3 DEF Distance

-----------------------------------------------------------------------------
(* The inductive invariant: what the chart shows was the answer for the     *)
(* window it remembers, hence no two of its points are farther apart than   *)
(* the buckets of that window reach.                                       *)
PointsInTime == shown.points \subseteq Time

PointsNear ==
    \A x, y \in shown.points : y - x <= TargetPoints * BucketMsFor(shown.since, shown.until)

IInv == TypeOK /\ PointsInTime /\ PointsNear

LEMMA TimeIsInt == Time \subseteq Int
  BY HistoryAssumption DEF Time

LEMMA InitIInv == Init => IInv
<1> SUFFICES ASSUME Init PROVE IInv
  OBVIOUS
<1> USE HistoryAssumption DEF Init
<1>1. asked \in Query /\ asked.range # None
  BY DEF Preset, Query
<1>2. samples \subseteq Time
  BY DEF Time
<1>3. /\ custom \in [from: Int \cup {None}, to: Int \cup {None}]
      /\ custom.from = None <=> custom.to = None
  BY DEF NoCustom
<1>4. shown \in [points: SUBSET Int, since: Int, until: Int]
  OBVIOUS
<1>5. TypeOK
  BY <1>1, <1>2, <1>3, <1>4 DEF TypeOK
<1> QED BY <1>5 DEF IInv, PointsInTime, PointsNear

(* fetchMetrics asks for what it is given.                                 *)
LEMMA FetchType ==
  ASSUME TypeOK, NEW r \in RangeMs \cup {None},
         NEW c \in [from: Int \cup {None}, to: Int \cup {None}],
         c.from = None <=> c.to = None, Fetch(r, c)
  PROVE  \/ asked' = None
         \/ asked' \in Query /\ (asked'.range = None => asked'.from # None /\ asked'.to # None)
<1> DEFINE q == [range |-> r, from |-> c.from, to |-> c.to]
<1>1. q \in Query
  BY DEF Query
<1>2. CASE r = None /\ c.from = None
  BY <1>2 DEF Fetch, TypeOK
<1>3. CASE ~(r = None /\ c.from = None)
  BY <1>1, <1>3 DEF Fetch
<1> QED BY <1>2, <1>3

(* The part of TypeOK about the query and the window chosen.               *)
Choice ==
    /\ range \in RangeMs \cup {None} /\ preset \in RangeMs
    /\ custom \in [from: Int \cup {None}, to: Int \cup {None}]
    /\ custom.from = None <=> custom.to = None
    /\ asked = None \/ (asked \in Query /\ (asked.range = None => asked.from # None /\ asked.to # None))

LEMMA ChoiceStep ==
  ASSUME TypeOK, Choice', UNCHANGED <<now, samples, shown>>,
         drag' = None \/ drag' = drag
  PROVE  TypeOK'
<1>1. Time' = Time /\ Query' = Query
  BY DEF Time, Query
<1> QED BY <1>1 DEF TypeOK, Choice

LEMMA NoCustomType == NoCustom \in [from: Int \cup {None}, to: Int \cup {None}]
  BY DEF NoCustom

(* A pair of bounds.                                                       *)
LEMMA BoundsType ==
  ASSUME NEW f \in Int, NEW t \in Int
  PROVE  /\ [from |-> f, to |-> t] \in [from: Int \cup {None}, to: Int \cup {None}]
         /\ [from |-> f, to |-> t].from = f /\ [from |-> f, to |-> t].to = t
  OBVIOUS

(* The pixels of a drag are in the order of the two ends.                  *)
LEMMA DragEnds ==
  ASSUME TypeOK, drag # None
  PROVE  /\ Left \in Int /\ Right \in Int /\ Left <= Right
         /\ InPlot(drag.at) => Left \in 0..PlotW /\ Right \in 0..PlotW
<1>1. PlotW \in Nat /\ PadL \in Nat /\ PadR \in Nat
  BY HistoryAssumption
<1>2. drag.start \in 0..PlotW /\ drag.at \in Canvas
  BY DEF TypeOK
<1>3. drag.start \in Int /\ drag.at \in Int
  BY <1>1, <1>2 DEF Canvas
<1> QED BY <1>1, <1>2, <1>3 DEF Left, Right, InPlot

LEMMA TypeStep == TypeOK /\ PointsInTime /\ [Next]_vars => TypeOK'
<1> SUFFICES ASSUME TypeOK, PointsInTime, [Next]_vars PROVE TypeOK'
  OBVIOUS
<1>0. Charted
  BY DEF TypeOK, PointsInTime, Charted
<1>1. CASE Tick
  <2>1. now' \in Time /\ \A r \in RangeMs : r <= now'
    <3>1. now \in Int /\ MaxTime \in Nat /\ now' = now + 1 /\ now < MaxTime
      BY <1>1, TimeIsInt, HistoryAssumption DEF Tick, TypeOK
    <3>2. \A r \in RangeMs : r \in Int /\ r <= now
      BY HistoryAssumption DEF TypeOK
    <3> QED BY <3>1, <3>2 DEF TypeOK, Time
  <2> QED BY <1>1, <2>1 DEF Tick, page, TypeOK, Time, Query
<1>2. CASE Collect
  <2>1. samples' \subseteq Time
    BY <1>2 DEF Collect, TypeOK
  <2> QED BY <1>2, <2>1 DEF Collect, page, TypeOK, Time, Query
<1>3. CASE Fetched
  <2> DEFINE w == WindowOf(asked)
             P == SeriesForProcess(samples, w.since, w.until)
  <2>1. w.since \in Int /\ w.until \in Int
    BY <1>3, WindowType DEF Fetched
  <2>2. P \subseteq Int
    <3> HIDE DEF w
    <3>1. samples \in SUBSET Time
      BY DEF TypeOK
    <3>2. \A x \in P : x \in Time
      BY <2>1, <3>1, SeriesPoints
    <3> QED BY <3>2, TimeIsInt
  <2>3. shown' = [points |-> P, since |-> w.since, until |-> w.until]
    BY <1>3 DEF Fetched
  <2>4. shown' \in [points: SUBSET Int, since: Int, until: Int]
    <3> HIDE DEF P, w
    <3> QED BY <2>1, <2>2, <2>3
  <2> QED BY <1>3, <2>4 DEF Fetched, TypeOK, Time, Query
<1>4. CASE Failed
  <2>1. shown' \in [points: SUBSET Int, since: Int, until: Int]
    BY <1>4 DEF Failed, TypeOK
  <2> QED BY <1>4, <2>1 DEF Failed, TypeOK, Time, Query
<1>5. CASE SelectCustom
  <2>1. /\ now - DefaultRange \in Int /\ now \in Int
        /\ None \notin Int
    BY TimeIsInt, HistoryAssumption DEF TypeOK
  <2>2. /\ custom' \in [from: Int \cup {None}, to: Int \cup {None}]
        /\ custom'.from = None <=> custom'.to = None
    <3>1. CASE custom.from = None
      BY <1>5, <2>1, <3>1, BoundsType DEF SelectCustom
    <3>2. CASE custom.from # None
      BY <1>5, <3>2 DEF SelectCustom, TypeOK
    <3> QED BY <3>1, <3>2
  <2>3. Fetch(None, custom')
    BY <1>5 DEF SelectCustom
  <2>4. Choice'
    BY <1>5, <2>2, <2>3, FetchType DEF SelectCustom, Choice, Query, TypeOK
  <2> QED BY <1>5, <2>4, ChoiceStep DEF SelectCustom
<1>6. CASE Poll
  <2>1. Fetch(range, NoCustom)
    BY <1>6 DEF Poll
  <2>2. range \in RangeMs \cup {None} /\ (NoCustom.from = None <=> NoCustom.to = None)
    BY DEF TypeOK, NoCustom
  <2>3. Choice'
    BY <1>6, <2>1, <2>2, NoCustomType, FetchType DEF Poll, Choice, Query, TypeOK
  <2> QED BY <1>6, <2>3, ChoiceStep DEF Poll
<1>7. CASE Zoom
  <2> DEFINE f == RoundXAt(Left)
             t == RoundXAt(Right)
  <2>1. f \in Int /\ t \in Int
    BY <1>0, <1>7, RoundType, DragEnds DEF Zoom
  <2>2. custom' = [from |-> f, to |-> t] /\ Fetch(None, [from |-> f, to |-> t])
    BY <1>7 DEF Zoom
  <2>3. range' = None /\ UNCHANGED <<now, samples, preset, shown>> /\ drag' = None
    BY <1>7 DEF Zoom
  <2> HIDE DEF f, t
  <2>4. None \notin Int
    BY HistoryAssumption
  <2>5. Choice'
    BY <2>1, <2>2, <2>3, <2>4, BoundsType, FetchType DEF Choice, Query, TypeOK
  <2> QED BY <2>3, <2>5, ChoiceStep
<1>8. CASE DropDrag
  BY <1>8 DEF DropDrag, TypeOK, Time, Query
<1>9. CASE Reset
  <2>1. Fetch(preset, NoCustom) /\ preset \in RangeMs
    BY <1>9 DEF Reset, TypeOK
  <2>2. Choice'
    BY <1>9, <2>1, NoCustomType, FetchType DEF Reset, Choice, Query, TypeOK, NoCustom
  <2> QED BY <1>9, <2>2, ChoiceStep DEF Reset
<1>10. ASSUME NEW r \in RangeMs, SelectPreset(r) PROVE TypeOK'
  <2>1. Fetch(r, NoCustom)
    BY <1>10 DEF SelectPreset
  <2>2. Choice'
    BY <1>10, <2>1, NoCustomType, FetchType DEF SelectPreset, Choice, Query, TypeOK, NoCustom
  <2> QED BY <1>10, <2>2, ChoiceStep DEF SelectPreset
<1>11. ASSUME NEW f \in Time, NEW t \in Time, Apply(f, t) PROVE TypeOK'
  <2>1. f \in Int /\ t \in Int /\ None \notin Int
    BY TimeIsInt, HistoryAssumption
  <2>2. custom' = [from |-> f, to |-> t] /\ Fetch(None, [from |-> f, to |-> t])
    BY <1>11 DEF Apply
  <2>3. range = None /\ UNCHANGED <<now, samples, range, preset, shown, drag>>
    BY <1>11 DEF Apply
  <2>4. Choice'
    BY <2>1, <2>2, <2>3, BoundsType, FetchType DEF Choice, Query, TypeOK
  <2> QED BY <2>3, <2>4, ChoiceStep
<1>12. ASSUME NEW px \in Canvas, MouseDown(px) PROVE TypeOK'
  <2>1. px \in 0..PlotW
    BY <1>12, HistoryAssumption DEF MouseDown, Canvas
  <2> QED BY <1>12, <2>1 DEF MouseDown, TypeOK, Time, Query, Canvas
<1>13. ASSUME NEW px \in Canvas, MouseMove(px) PROVE TypeOK'
  <2>1. drag' \in [start: 0..PlotW, at: Canvas]
    BY <1>13 DEF MouseMove, TypeOK
  <2> QED BY <1>13, <2>1 DEF MouseMove, TypeOK, Time, Query, Canvas
<1>14. CASE UNCHANGED vars
  BY <1>14 DEF vars, TypeOK, Time, Query, Canvas
<1> QED BY <1>1, <1>2, <1>3, <1>4, <1>5, <1>6, <1>7, <1>8, <1>9, <1>10, <1>11, <1>12, <1>13,
           <1>14 DEF Next

LEMMA IInvStep == IInv /\ [Next]_vars => IInv'
<1> SUFFICES ASSUME IInv, [Next]_vars PROVE IInv'
  OBVIOUS
<1>1. TypeOK'
  BY TypeStep DEF IInv
<1>2. CASE Fetched
  <2> DEFINE w == WindowOf(asked)
             P == SeriesForProcess(samples, w.since, w.until)
  <2>1. w.since \in Int /\ w.until \in Int /\ samples \in SUBSET Time
    BY <1>2, WindowType DEF Fetched, IInv, TypeOK
  <2>2. shown'.points = P /\ shown'.since = w.since /\ shown'.until = w.until
    BY <1>2 DEF Fetched
  <2>3. \A x, y \in P : x \in Time /\ y - x <= TargetPoints * BucketMsFor(w.since, w.until)
    <3> HIDE DEF w
    <3> QED BY <2>1, SeriesPoints
  <2> HIDE DEF P, w
  <2>4. Time' = Time
    BY DEF Time
  <2> QED BY <1>1, <2>2, <2>3, <2>4 DEF IInv, PointsInTime, PointsNear, BucketMsFor, CeilDiv
<1>3. CASE ~Fetched
  <2>1. shown' = shown \/ (shown'.points = {})
    BY <1>3
    DEF Next, vars, Tick, Collect, page, Failed, SelectCustom, Poll, Zoom, DropDrag, Reset,
        SelectPreset, Apply, MouseDown, MouseMove, IInv, TypeOK
  <2> QED BY <1>1, <2>1 DEF IInv, PointsInTime, PointsNear, BucketMsFor, CeilDiv, Time
<1> QED BY <1>2, <1>3

-----------------------------------------------------------------------------
(* Theorems.                                                               *)

(* Every reachable state of the page and the table is well formed.         *)
THEOREM TypeCorrect == Spec => []TypeOK
<1>1. Init => IInv
  BY InitIInv
<1>2. IInv /\ [Next]_vars => IInv'
  BY IInvStep
<1>3. IInv => TypeOK
  BY DEF IInv
<1> QED BY <1>1, <1>2, <1>3, PTL DEF Spec

(* The series of every window that is asked for covers it, whatever the     *)
(* resolution, the window and the samples (metrics.repository.ts:16-32).    *)
THEOREM SeriesCovers == Spec => []SeriesCoversWindow
<1>1. TypeOK => SeriesCoversWindow
  <2> SUFFICES ASSUME TypeOK, asked # None
               PROVE  SeriesCoversWindow
    BY DEF SeriesCoversWindow
  <2> DEFINE w == WindowOf(asked)
             b == BucketMsFor(w.since, w.until)
             P == SeriesForProcess(samples, w.since, w.until)
  <2>1. w.since \in Int /\ w.until \in Int /\ samples \in SUBSET Time
    BY WindowType DEF TypeOK
  <2>2. \A t \in InWindow(samples, w.since, w.until) :
            Cardinality({p \in P : p <= t /\ t < p + b}) = 1
    <3> HIDE DEF w
    <3> QED BY <2>1, SamplePoint
  <2>3. \A p \in P : \E t \in InWindow(samples, w.since, w.until) : p <= t /\ t < p + b
    <3> HIDE DEF w
    <3>1. b \in Nat \ {0}
      BY <2>1, BucketSize
    <3> SUFFICES ASSUME NEW p \in P
                 PROVE  \E t \in InWindow(samples, w.since, w.until) : p <= t /\ t < p + b
      OBVIOUS
    <3>2. PICK t \in InWindow(samples, w.since, w.until) : p = (t \div b) * b
      BY DEF SeriesForProcess, Groups
    <3>3. t \in Nat
      BY <2>1, HistoryAssumption DEF InWindow, Time
    <3> HIDE DEF b
    <3> QED BY <3>1, <3>2, <3>3, PointOf
  <2>4. Cardinality(P) <= TargetPoints + 1
    <3> HIDE DEF w
    <3> QED BY <2>1, SeriesSize
  <2> QED BY <2>2, <2>3, <2>4 DEF SeriesCoversWindow
<1> QED BY <1>1, TypeCorrect, PTL

(* A drag within the plot never selects a window with wider buckets, for    *)
(* any plot, any margins and any resolution (app.js:853-862).              *)
THEOREM ZoomIsFiner == Spec => ZoomNeverCoarser
<1>1. IInv /\ Zoom /\ InPlot(drag.at) =>
        BucketMsFor(custom'.from, custom'.to) <= BucketMsFor(shown.since, shown.until)
  <2> SUFFICES ASSUME IInv, Zoom, InPlot(drag.at)
               PROVE  BucketMsFor(custom'.from, custom'.to)
                        <= BucketMsFor(shown.since, shown.until)
    OBVIOUS
  <2> DEFINE f == RoundXAt(Left)
             t == RoundXAt(Right)
             b == BucketMsFor(shown.since, shown.until)
  <2>1. Charted /\ ~IsEmpty /\ custom'.from = f /\ custom'.to = t
    BY DEF IInv, TypeOK, PointsInTime, Charted, Zoom
  <2>2. Left \in 0..PlotW /\ Right \in 0..PlotW
    BY DragEnds DEF IInv, Zoom
  <2>3. /\ f \in Int /\ XMin <= f /\ f <= XMin + XSpan
        /\ t \in Int /\ XMin <= t /\ t <= XMin + XSpan
    BY <2>1, <2>2, RoundInExtent
  <2>4. XMin \in Nat /\ XMax \in Nat /\ XSpan \in Nat \ {0}
    BY <2>1, Extent
  <2>5. b \in Nat \ {0} /\ TargetPoints \in Nat \ {0}
    BY <2>1, BucketSize, HistoryAssumption DEF Charted
  <2>6. XSpan <= TargetPoints * b
    <3>1. XMax - XMin <= TargetPoints * b
      BY <2>1, Extent DEF IInv, PointsNear
    <3>2. 1 <= TargetPoints * b
      <4> HIDE DEF b
      <4> QED BY <2>5
    <3> QED BY <3>1, <3>2 DEF XSpan
  <2> HIDE DEF f, t, b
  <2>7. Span(f, t) <= TargetPoints * b
    <3>1. TargetPoints * b \in Nat
      BY <2>5
    <3> QED BY <2>3, <2>4, <2>6, <3>1 DEF Span
  <2>8. BucketMsFor(f, t) <= b
    BY <2>3, <2>5, <2>7, BucketLeast
  <2> QED BY <2>1, <2>8 DEF b
<1>2. IInv /\ [Next]_vars =>
        [Zoom /\ InPlot(drag.at) =>
           BucketMsFor(custom'.from, custom'.to) <= BucketMsFor(shown.since, shown.until)]_vars
  BY <1>1
<1> QED BY <1>2, InitIInv, IInvStep, PTL DEF Spec, ZoomNeverCoarser

(* The mark under the pointer is at a nearest point, for any number and     *)
(* spacing of points (chart.js:176-185).                                   *)
THEOREM HoverNearest == Spec => []HoverIsNearest
<1>1. IInv => HoverIsNearest
  <2> SUFFICES ASSUME IInv, ~IsEmpty, NEW px \in 0..PlotW, NEW i \in 1..Len(Data)
               PROVE  Distance(PlotW * Data[NearestIndex(px)], ScaledXAt(px))
                        <= Distance(PlotW * Data[i], ScaledXAt(px))
    BY DEF HoverIsNearest
  <2> DEFINE n == Cardinality(shown.points)
             v == ScaledXAt(px)
             e == [j \in 1..n |-> PlotW * Data[j]]
             lo == FirstNotBefore(Data, v)
             k == NearestIndex(px)
  <2>1. Charted /\ PlotW \in Nat
    BY HistoryAssumption DEF IInv, TypeOK, PointsInTime, Charted
  <2>2. v \in Int
    <3>1. XMin \in Int /\ XSpan \in Int
      BY <2>1, Extent
    <3> QED BY <2>1, <3>1 DEF ScaledXAt
  <2>3. /\ n \in Nat \ {0} /\ Data \in [1..n -> Int] /\ Len(Data) = n
        /\ \A a, b \in 1..n : a <= b => PlotW * Data[a] <= PlotW * Data[b]
    <3> HIDE DEF n
    <3> QED BY <2>1, DataInOrder DEF n
  <2>4. FirstOutside({j \in 1..n : PlotW * Data[j] < v}, 1, n, lo)
    <3> HIDE DEF n, v
    <3> QED BY <2>2, <2>3, SearchFinds
  <2>5. lo \in 1..n /\ (\A j \in 1..(lo - 1) : PlotW * Data[j] < v)
        /\ (lo < n => ~(PlotW * Data[lo] < v))
    <3> HIDE DEF n, v, lo
    <3> QED BY <2>3, <2>4 DEF FirstOutside
  <2>6. k = IF v <= PlotW * Data[1] THEN 1
            ELSE IF v >= PlotW * Data[n] THEN n
            ELSE IF lo > 1 /\ Distance(PlotW * Data[lo - 1], v) <= Distance(PlotW * Data[lo], v)
                 THEN lo - 1 ELSE lo
    BY <2>3 DEF NearestIndex
  <2>7. \A j \in 1..n : PlotW * Data[j] \in Int /\ e[j] = PlotW * Data[j]
    <3> HIDE DEF n
    <3> QED BY <2>1, <2>3
  <2>8. /\ e \in [1..n -> Int] /\ (\A a, b \in 1..n : a <= b => e[a] <= e[b])
        /\ i \in 1..n /\ 1 \in 1..n /\ n \in 1..n
    <3> HIDE DEF n
    <3> QED BY <2>3, <2>7
  <2> HIDE DEF e, n, v, lo, k
  <2>9. \A j \in 1..(lo - 1) : e[j] < v
    BY <2>5, <2>7, <2>3
  <2>10. lo < n => v <= e[lo]
    BY <2>2, <2>5, <2>7
  <2>11. k = IF v <= e[1] THEN 1
             ELSE IF v >= e[n] THEN n
             ELSE IF lo > 1 /\ Distance(e[lo - 1], v) <= Distance(e[lo], v) THEN lo - 1 ELSE lo
    <3>1. lo > 1 => lo - 1 \in 1..n
      BY <2>3, <2>5
    <3> QED BY <2>5, <2>6, <2>7, <2>8, <3>1
  <2>12. k \in 1..n /\ Distance(e[k], v) <= Distance(e[i], v)
    <3>1. CASE v <= e[1]
      <4>1. k = 1 /\ e[1] <= e[i] /\ e[1] \in Int /\ e[i] \in Int
        BY <2>3, <2>8, <2>11, <3>1
      <4> QED BY <2>2, <2>8, <3>1, <4>1 DEF Distance
    <3>2. CASE ~(v <= e[1]) /\ v >= e[n]
      <4>1. k = n /\ e[i] <= e[n] /\ e[n] \in Int /\ e[i] \in Int
        BY <2>3, <2>8, <2>11, <3>2
      <4> QED BY <2>2, <2>8, <3>2, <4>1 DEF Distance
    <3>3. CASE ~(v <= e[1]) /\ ~(v >= e[n])
      <4>1. v <= e[lo] /\ lo > 1 /\ lo \in 2..n
        BY <2>2, <2>3, <2>5, <2>8, <2>10, <3>3
      <4>2. lo - 1 \in 1..(lo - 1) /\ lo - 1 \in 1..n
        BY <2>3, <4>1
      <4>3. e[lo - 1] < v
        BY <2>9, <4>2
      <4>4. \/ Distance(e[lo - 1], v) <= Distance(e[i], v)
            \/ Distance(e[lo], v) <= Distance(e[i], v)
        BY <2>2, <2>3, <2>8, <4>1, <4>3, NeighbourNearest
      <4>5. /\ Distance(e[lo - 1], v) \in Int /\ Distance(e[lo], v) \in Int
            /\ Distance(e[i], v) \in Int
        <5>1. \A x \in Int : Distance(x, v) \in Int
          BY <2>2 DEF Distance
        <5> QED BY <2>5, <2>8, <4>2, <5>1
      <4>6. k = IF Distance(e[lo - 1], v) <= Distance(e[lo], v) THEN lo - 1 ELSE lo
        BY <2>11, <3>3, <4>1
      <4> QED BY <2>5, <4>2, <4>4, <4>5, <4>6
    <3> QED BY <3>1, <3>2, <3>3
  <2>13. e[k] = PlotW * Data[k] /\ e[i] = PlotW * Data[i]
    BY <2>7, <2>8, <2>12
  <2> QED BY <2>12, <2>13 DEF k, v
<1> QED BY <1>1, InitIInv, IInvStep, PTL DEF Spec
=============================================================================
