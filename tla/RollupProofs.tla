------------------------------ MODULE RollupProofs ------------------------------
(****************************************************************************)
(* Theorems about Rollup, for any widths and retentions that fit together,  *)
(* any faults, and any horizon.                                             *)
(****************************************************************************)
EXTENDS Rollup, FiniteSetTheorems, WellFoundedInduction, TLAPS

--------------------------------------------------------------------------------
(* Buckets *)

Widths == Nat \ {0}
IsBucket(b, width) == \E k \in Int : b = k * width

LEMMA WidthsTyped ==
    /\ FiveMin \in Widths /\ Hour \in Widths
    /\ RawKept \in Nat /\ FiveMinKept \in Nat /\ HourKept \in Nat
    /\ 3 * FiveMin <= RawKept /\ 3 * Hour <= FiveMinKept /\ FiveMinKept <= HourKept
    BY WidthsAssumption, RetentionAssumption DEF Widths

LEMMA Monotone ==
    ASSUME NEW w \in Widths, NEW i \in Int, NEW k \in Int, i < k
    PROVE  i * w + w <= k * w
<1>1. PICK d \in Nat : k = i + 1 + d
    <2>1. k - (i + 1) \in Nat /\ k = i + 1 + (k - (i + 1))
        OBVIOUS
    <2> QED
        BY <2>1
<1>2. d * w \in Nat
    BY DEF Widths
<1>3. (i + 1 + d) * w = i * w + w + d * w
    BY DEF Widths
<1> QED
    BY <1>1, <1>2, <1>3 DEF Widths

\* A timestamp lies in its bucket, and in no other.
LEMMA BucketSpan ==
    ASSUME NEW w \in Widths, NEW t \in Int
    PROVE  /\ Bucket(t, w) \in Int /\ IsBucket(Bucket(t, w), w)
           /\ Bucket(t, w) <= t /\ t < Bucket(t, w) + w
           /\ t \in Nat => Bucket(t, w) \in Nat
<1>1. t \div w \in Int /\ (t \div w) * w \in Int
    BY DEF Widths
<1>2. (t \div w) * w <= t /\ t < (t \div w) * w + w
    BY <1>1 DEF Widths
<1>3. ASSUME t \in Nat PROVE (t \div w) * w \in Nat
  <2>1. t \div w \in Nat
      BY <1>3 DEF Widths
  <2> QED
      BY <2>1 DEF Widths
<1> QED
    BY <1>1, <1>2, <1>3 DEF Bucket, IsBucket

LEMMA BucketUnique ==
    ASSUME NEW w \in Widths, NEW t \in Int, NEW b, IsBucket(b, w), b <= t, t < b + w
    PROVE  Bucket(t, w) = b
<1>1. PICK k \in Int : b = k * w
    BY DEF IsBucket
<1>2. PICK i \in Int : Bucket(t, w) = i * w
    BY BucketSpan DEF IsBucket
<1>3. b \in Int /\ i * w \in Int /\ i * w <= t /\ t < i * w + w
    BY <1>1, <1>2, BucketSpan DEF Widths
<1>4. ~ i < k /\ ~ k < i
    BY <1>1, <1>3, Monotone DEF Widths
<1> QED
    BY <1>1, <1>2, <1>4

\* Buckets below a boundary hold only what is below it.
LEMMA BucketsApart ==
    ASSUME NEW w \in Widths, NEW t \in Int, NEW b, IsBucket(b, w)
    PROVE  b <= t <=> b <= Bucket(t, w)
<1>1. PICK k \in Int : b = k * w
    BY DEF IsBucket
<1>2. PICK i \in Int : Bucket(t, w) = i * w
    BY BucketSpan DEF IsBucket
<1>3. b \in Int /\ i * w \in Int /\ i * w <= t /\ t < i * w + w
    BY <1>1, <1>2, BucketSpan DEF Widths
<1>4. i < k => i * w + w <= b
    BY <1>1, Monotone
<1>5. k < i => b + w <= i * w
    BY <1>1, Monotone
<1> QED
    BY <1>1, <1>2, <1>3, <1>4, <1>5 DEF Widths

\* Every 5-minute bucket lies within one 1-hour bucket.
LEMMA BucketsNest ==
    ASSUME NEW t \in Int
    PROVE  /\ Bucket(t, Hour) <= Bucket(t, FiveMin)
           /\ Bucket(t, FiveMin) + FiveMin <= Bucket(t, Hour) + Hour
           /\ Bucket(Bucket(t, FiveMin), Hour) = Bucket(t, Hour)
<1> USE WidthsTyped
<1>1. PICK m \in Int : Hour = m * FiveMin
  <2>1. Hour \in Int /\ FiveMin \in Int /\ FiveMin > 0 /\ Hour % FiveMin = 0
      BY WidthsAssumption
  <2>2. Hour = (Hour \div FiveMin) * FiveMin /\ Hour \div FiveMin \in Int
      BY <2>1
  <2> QED
      BY <2>2
<1>2. \A b : IsBucket(b, Hour) => b \in Int /\ IsBucket(b, FiveMin)
  <2> TAKE b
  <2> SUFFICES ASSUME IsBucket(b, Hour) PROVE b \in Int /\ IsBucket(b, FiveMin)
      OBVIOUS
  <2>1. PICK k \in Int : b = k * Hour
      BY DEF IsBucket
  <2>2. k * (m * FiveMin) = (k * m) * FiveMin /\ k * m \in Int /\ k * Hour \in Int
      BY DEF Widths
  <2> QED
      BY <1>1, <2>1, <2>2 DEF IsBucket
<1> DEFINE b == Bucket(t, Hour)
           f == Bucket(t, FiveMin)
<1>3. b \in Int /\ IsBucket(b, Hour) /\ b <= t /\ t < b + Hour
    BY BucketSpan
<1>4. f \in Int /\ IsBucket(f, FiveMin) /\ f <= t /\ t < f + FiveMin
    BY BucketSpan
<1>5. b <= f
    BY <1>2, <1>3, BucketsApart
<1>6. IsBucket(b + Hour, Hour)
  <2>1. PICK k \in Int : b = k * Hour
      BY <1>3 DEF IsBucket
  <2>2. k * Hour + Hour = (k + 1) * Hour /\ k + 1 \in Int
      BY DEF Widths
  <2> QED
      BY <2>1, <2>2 DEF IsBucket
<1>7. f + FiveMin <= b + Hour
  <2>1. PICK i \in Int : f = i * FiveMin
      BY <1>4 DEF IsBucket
  <2>2. PICK k \in Int : b + Hour = k * FiveMin
      BY <1>2, <1>6 DEF IsBucket
  <2>3. ~ k < i /\ i # k
    <3>1. i * FiveMin \in Int /\ k * FiveMin \in Int
        BY DEF Widths
    <3> QED
        BY <1>3, <1>4, <2>1, <2>2, <3>1, Monotone DEF Widths
  <2> QED
      BY <2>1, <2>2, <2>3, Monotone
<1>8. Bucket(f, Hour) = b
    BY <1>3, <1>4, <1>5, <1>7, BucketUnique DEF Widths
<1> QED
    BY <1>5, <1>7, <1>8

\* The least boundary that is not below t.
LEMMA CeilIsLeast ==
    ASSUME NEW w \in Widths, NEW t \in Int
    PROVE  /\ CeilBucket(t, w) \in Nat /\ IsBucket(CeilBucket(t, w), w)
           /\ t <= CeilBucket(t, w)
           /\ \A b \in Nat : IsBucket(b, w) /\ t <= b => CeilBucket(t, w) <= b
<1>1. CASE t <= 0
    <2>1. 0 = 0 * w
        BY DEF Widths
    <2> QED
        BY <1>1, <2>1 DEF CeilBucket, IsBucket
<1>2. CASE t > 0
  <2> DEFINE c == Bucket(t + w - 1, w)
  <2>1. t + w - 1 \in Nat
      BY <1>2 DEF Widths
  <2>2. c \in Nat /\ IsBucket(c, w) /\ c <= t + w - 1 /\ t + w - 1 < c + w
      BY <2>1, BucketSpan
  <2>3. ASSUME NEW b \in Nat, IsBucket(b, w), t <= b PROVE c <= b
    <3>1. PICK k \in Int : b = k * w
        BY <2>3 DEF IsBucket
    <3>2. PICK i \in Int : c = i * w
        BY <2>2 DEF IsBucket
    <3>3. k < i => b + w <= c
        BY <3>1, <3>2, Monotone
    <3>4. i <= k => c <= b
        BY <3>1, <3>2, Monotone DEF Widths
    <3> QED
        BY <2>2, <2>3, <3>3, <3>4 DEF Widths
  <2>4. CeilBucket(t, w) = c
      BY <1>2 DEF CeilBucket
  <2> QED
      BY <2>2, <2>3, <2>4 DEF Widths
<1> QED
    BY <1>1, <1>2

--------------------------------------------------------------------------------
(* Weights *)

LEMMA HasLeast ==
    ASSUME NEW S \in SUBSET Nat, S # {}
    PROVE  \E i \in S : \A j \in S : i <= j
<1> DEFINE less == OpToRel(<, Nat)
<1>1. PICK i \in S : \A j \in S : ~ (<<j, i>> \in less)
  <2> HIDE DEF less
  <2>1. IsWellFoundedOn(less, Nat)
      BY NatLessThanWellFounded DEF less
  <2> QED
      BY <2>1, WFMin
<1>2. \A j \in S : ~ (j < i)
    BY <1>1 DEF OpToRel
<1>3. \A j \in S : i <= j
    BY <1>2
<1> QED
    BY <1>3

\* What the fold in Aggregate computes: the sums over all sets of rows.
Total(rows, S) == FoldFunctionOnSet(LAMBDA r, n : r.n + n, 0, rows, S)
One(s) == CHOOSE x \in s : TRUE
IsSum(g, rows, D) ==
    g = [s \in D |-> IF s = {} THEN 0 ELSE rows[One(s)].n + g[s \ {One(s)}]]

LEMMA TotalIsASum ==
    ASSUME NEW rows, NEW S
    PROVE  Total(rows, S) = (CHOOSE g : IsSum(g, rows, SUBSET S))[S]
BY DEF Total, FoldFunctionOnSet, MapThenFoldSet, IsSum, One

LEMMA SumsExist ==
    ASSUME NEW rows, NEW S, IsFiniteSet(S)
    PROVE  \E g : IsSum(g, rows, SUBSET S)
<1> DEFINE Small(n) == {s \in SUBSET S : Cardinality(s) < n}
           Bad == {n \in Nat : ~ \E g : IsSum(g, rows, Small(n))}
<1>1. \A s \in SUBSET S : IsFiniteSet(s) /\ Cardinality(s) \in Nat /\ Cardinality(s) <= Cardinality(S)
    BY FS_Subset, FS_CardinalityType
<1>2. \A s \in SUBSET S : s # {} => One(s) \in s /\ Cardinality(s \ {One(s)}) = Cardinality(s) - 1
    BY <1>1, FS_RemoveElement DEF One
<1>3. Bad = {}
  <2> SUFFICES ASSUME Bad # {} PROVE FALSE
      OBVIOUS
  <2>1. PICK n \in Bad : \A m \in Bad : n <= m
      BY HasLeast
  <2>2. n # 0
    <3>1. Small(0) = {}
        BY <1>1
    <3> DEFINE g == [s \in {} |-> 0]
    <3>2. IsSum(g, rows, Small(0))
        BY <3>1 DEF IsSum
    <3>3. 0 \notin Bad
        BY <3>2
    <3> QED
        BY <2>1, <3>3
  <2>3. n - 1 \in Nat /\ n - 1 \notin Bad
    <3>1. n \in Nat
        BY <2>1
    <3>2. n - 1 \in Nat /\ ~ (n <= n - 1)
        BY <2>2, <3>1
    <3> HIDE DEF Bad
    <3> QED
        BY <2>1, <3>2
  <2>4. PICK g : IsSum(g, rows, Small(n - 1))
      BY <2>3
  <2> DEFINE h == [s \in Small(n) |-> IF s = {} THEN 0 ELSE rows[One(s)].n + g[s \ {One(s)}]]
  <2>5. ASSUME NEW s \in Small(n), s # {}
        PROVE  h[s \ {One(s)}] = g[s \ {One(s)}]
    <3> DEFINE u == s \ {One(s)}
    <3>1. u \in Small(n - 1) /\ u \in Small(n)
        BY <1>1, <1>2, <2>1, <2>5
    <3>2. g[u] = IF u = {} THEN 0 ELSE rows[One(u)].n + g[u \ {One(u)}]
      <4> HIDE DEF Small, u
      <4> QED
        BY <2>4, <3>1 DEF IsSum
    <3> QED
        BY <3>1, <3>2
  <2>6. h = [s \in Small(n) |-> IF s = {} THEN 0 ELSE rows[One(s)].n + h[s \ {One(s)}]]
    <3> HIDE DEF Small
    <3> QED
      BY <2>5
  <2>7. IsSum(h, rows, Small(n))
    <3> HIDE DEF h, Small
    <3> QED
      BY <2>6 DEF IsSum
  <2> QED
      BY <2>1, <2>7
<1>4. Cardinality(S) + 1 \in Nat
    BY <1>1
<1>5. Small(Cardinality(S) + 1) = SUBSET S
    BY <1>1
<1> QED
    BY <1>3, <1>4, <1>5

AggregateOf(rows, S) == UNION {rows[t].of : t \in S}

\* Rows that weigh what they have, and share nothing, do so together.
LEMMA TotalCounts ==
    ASSUME NEW rows, NEW S, IsFiniteSet(S),
           \A t \in S : IsFiniteSet(rows[t].of) /\ rows[t].n = Cardinality(rows[t].of),
           \A t, u \in S : t # u => rows[t].of \cap rows[u].of = {}
    PROVE  Total(rows, S) = Cardinality(AggregateOf(rows, S))
<1> DEFINE U(s) == UNION {rows[t].of : t \in s}
           Right(g, s) == IsFiniteSet(U(s)) /\ g[s] = Cardinality(U(s))
<1>1. PICK g : IsSum(g, rows, SUBSET S) /\ Total(rows, S) = g[S]
  <2>1. IsSum(CHOOSE g : IsSum(g, rows, SUBSET S), rows, SUBSET S)
      BY SumsExist
  <2> QED
      BY <2>1, TotalIsASum
<1>2. \A s \in SUBSET S : g[s] = IF s = {} THEN 0 ELSE rows[One(s)].n + g[s \ {One(s)}]
    BY <1>1 DEF IsSum
<1>3. \A s \in SUBSET S : IsFiniteSet(s) /\ Cardinality(s) \in Nat
    BY FS_Subset, FS_CardinalityType
<1>4. \A s \in SUBSET S : s # {} => One(s) \in s /\ Cardinality(s \ {One(s)}) = Cardinality(s) - 1
    BY <1>3, FS_RemoveElement DEF One
<1> DEFINE Bad == {n \in Nat : \E s \in SUBSET S : Cardinality(s) = n /\ ~ Right(g, s)}
<1>5. Bad = {}
  <2> SUFFICES ASSUME Bad # {} PROVE FALSE
      OBVIOUS
  <2>1. PICK n \in Bad : \A m \in Bad : n <= m
      BY HasLeast
  <2>2. PICK s \in SUBSET S : Cardinality(s) = n /\ ~ Right(g, s)
      BY <2>1
  <2>3. s # {}
    <3> SUFFICES ASSUME s = {} PROVE FALSE
        OBVIOUS
    <3>1. U(s) = {} /\ g[s] = 0
        BY <1>2
    <3> QED
        BY <2>2, <3>1, FS_EmptySet
  <2> DEFINE x == One(s)
             u == s \ {x}
  <2>4. x \in s /\ u \in SUBSET S /\ Cardinality(u) = n - 1 /\ n - 1 \in Nat /\ ~ (n <= n - 1)
    <3>1. x \in s /\ u \in SUBSET S /\ Cardinality(u) = Cardinality(s) - 1
        BY <1>4, <2>2, <2>3
    <3>2. Cardinality(s) = n /\ Cardinality(s) \in Nat /\ Cardinality(u) \in Nat
        BY <1>3, <2>2, <3>1
    <3> HIDE DEF x, u
    <3> QED
        BY <3>1, <3>2
  <2>5. Right(g, u)
      BY <2>1, <2>4
  <2>6. U(s) = rows[x].of \cup U(u) /\ rows[x].of \cap U(u) = {}
      BY <2>4
  <2>7. g[s] = rows[x].n + g[u]
      BY <1>2, <2>3
  <2>8. IsFiniteSet(rows[x].of) /\ rows[x].n = Cardinality(rows[x].of) /\ Cardinality(rows[x].of) \in Nat
      BY <2>4, FS_CardinalityType
  <2>9. IsFiniteSet(U(u)) /\ g[u] = Cardinality(U(u)) /\ Cardinality(U(u)) \in Nat
      BY <2>5, FS_CardinalityType
  <2>10. /\ IsFiniteSet(U(s))
         /\ Cardinality(U(s)) = Cardinality(rows[x].of) + Cardinality(U(u)) - Cardinality({})
    <3> HIDE DEF U, u, x
    <3> QED
      BY <2>6, <2>8, <2>9, FS_Union
  <2>11. Cardinality({}) = 0
      BY FS_EmptySet
  <2>12. Right(g, s)
    <3> HIDE DEF U, u, x
    <3> QED
      BY <2>7, <2>8, <2>9, <2>10, <2>11
  <2> QED
      BY <2>2, <2>12
<1>6. Right(g, S)
    BY <1>3, <1>5
<1> QED
    BY <1>1, <1>6 DEF AggregateOf

--------------------------------------------------------------------------------
(* The inductive invariant *)

Typed ==
    /\ up \in BOOLEAN /\ clock \in Times /\ due \in Int /\ last \in Times
    /\ raw \subseteq stored /\ stored \subseteq Times
    /\ collected \in Times \cup {None} /\ compacting \in Times \cup {None}
    /\ faults \subseteq Faults

\* Both tasks work with times they read a while ago.
Stamped ==
    /\ collected # None => collected <= clock /\ clock <= collected + MaxLate
    /\ compacting # None => compacting <= clock
    /\ ~ up => collected = None /\ compacting = None

\* A row has samples of its own bucket, and weighs as many as it has.
GoodRows(tier, width, samples) ==
    \A b \in DOMAIN tier :
        /\ \E t \in Times : b = Bucket(t, width)
        /\ tier[b].of \subseteq {t \in samples : Bucket(t, width) = b}
        /\ tier[b].n = Cardinality(tier[b].of)

Has(tier, b, t) == b \in DOMAIN tier /\ t \in tier[b].of

\* What was pruned: while the clock is not set back, whatever a row has counted
\* is still in the tier below, as far as that is kept.
StillRaw == \A t \in stored : t >= last - RawKept => t \in raw
StillFine ==
    \A b \in DOMAIN hour : \A t \in hour[b].of :
        Bucket(t, FiveMin) >= last - FiveMinKept => Has(fiveMin, Bucket(t, FiveMin), t)
Forward ==
    /\ last <= clock /\ (compacting # None => last <= compacting)
    /\ StillRaw /\ StillFine

RollupInv ==
    /\ Typed /\ Stamped
    /\ GoodRows(fiveMin, FiveMin, stored) /\ GoodRows(hour, Hour, stored)
    /\ "clock" \notin faults => Forward

--------------------------------------------------------------------------------
(* Rolling up *)

LEMMA BoundsTyped == MaxLate \in Nat /\ MaxSlip \in Nat /\ Horizon \in Nat /\ Hour <= Horizon
    BY BoundsAssumption

LEMMA TimesTyped == \A t \in Times : t \in Nat
    BY BoundsTyped DEF Times

LEMMA SamplesFinite ==
    ASSUME NEW S \in SUBSET Times
    PROVE  IsFiniteSet(S) /\ Cardinality(S) \in Nat
<1>1. IsFiniteSet(Times)
    BY BoundsTyped, FS_Interval DEF Times
<1> QED
    BY <1>1, FS_Subset, FS_CardinalityType

\* Where a compaction begins: at a boundary within what is kept, and no later
\* than two widths back.
LEMMA RollFromBounds ==
    ASSUME NEW prev \in Nat, NEW now \in Nat, NEW w \in Widths, NEW kept \in Nat
    PROVE  /\ RollFrom(prev, now, w, kept) \in Nat
           /\ IsBucket(RollFrom(prev, now, w, kept), w)
           /\ now - kept <= RollFrom(prev, now, w, kept)
           /\ \A b \in Nat : IsBucket(b, w) /\ now - 2 * w <= b /\ now - kept <= b
                                => RollFrom(prev, now, w, kept) <= b
<1> DEFINE x == Greatest(Least(prev, now - 2 * w), now - kept)
<1>1. /\ x \in Int /\ now - kept <= x
      /\ \A b \in Nat : now - 2 * w <= b /\ now - kept <= b => x <= b
    BY DEF Greatest, Least, Widths
<1>2. RollFrom(prev, now, w, kept) = CeilBucket(x, w)
    BY DEF RollFrom
<1> HIDE DEF x
<1>3. CeilBucket(x, w) \in Int
    BY <1>1, CeilIsLeast
<1> QED
    BY <1>1, <1>2, <1>3, CeilIsLeast

InBucket(rows, b, w) == {t \in DOMAIN rows : Bucket(t, w) = b}

\* A roll-up from a boundary on leaves a row alone or makes it anew out of the
\* whole bucket.
RolledUp(new, tier, rows, from, w) ==
    /\ DOMAIN tier \subseteq DOMAIN new
    /\ \A t \in DOMAIN rows : t >= from => Bucket(t, w) \in DOMAIN new
    /\ \A b \in DOMAIN new :
          \/ /\ b \in DOMAIN tier /\ new[b] = tier[b]
             /\ \A t \in InBucket(rows, b, w) : b < from
          \/ /\ \E t \in InBucket(rows, b, w) : t >= from
             /\ new[b] = Aggregate(rows, InBucket(rows, b, w))

LEMMA RollUpRows ==
    ASSUME NEW tier, NEW rows, NEW w \in Widths, NEW from \in Int, IsBucket(from, w),
           DOMAIN rows \subseteq Int
    PROVE  RolledUp(RollUp(tier, rows, from, w), tier, rows, from, w)
<1> DEFINE new == RollUp(tier, rows, from, w)
<1> DEFINE group(b) == {t \in DOMAIN rows : t >= from /\ Bucket(t, w) = b}
           touched == {Bucket(t, w) : t \in {u \in DOMAIN rows : u >= from}}
<1>1. new = [b \in DOMAIN tier \cup touched |->
                IF group(b) = {} THEN tier[b] ELSE Aggregate(rows, group(b))]
    BY DEF RollUp, Replacing
<1>2. DOMAIN new = DOMAIN tier \cup touched
    BY <1>1
<1>3. \A t \in DOMAIN rows : (t >= from <=> Bucket(t, w) >= from) /\ Bucket(t, w) \in Int
    BY BucketsApart, BucketSpan
<1>4. ASSUME NEW b \in DOMAIN new, group(b) = {}
      PROVE  /\ b \in DOMAIN tier /\ new[b] = tier[b]
             /\ \A t \in InBucket(rows, b, w) : b < from
  <2>1. b \notin touched
      BY <1>4
  <2>2. \A t \in InBucket(rows, b, w) : b < from
      BY <1>3, <1>4 DEF InBucket
  <2> QED
      BY <1>1, <1>2, <1>4, <2>1, <2>2
<1>5. ASSUME NEW b \in DOMAIN new, group(b) # {}
      PROVE  /\ \E t \in InBucket(rows, b, w) : t >= from
             /\ new[b] = Aggregate(rows, InBucket(rows, b, w))
  <2>1. group(b) = InBucket(rows, b, w)
      BY <1>3, <1>5 DEF InBucket
  <2> QED
      BY <1>1, <1>2, <1>5, <2>1
<1> QED
  <2>1. \A t \in DOMAIN rows : t >= from => Bucket(t, w) \in DOMAIN new
      BY <1>2
  <2> HIDE DEF group, touched, new
  <2>2. RolledUp(new, tier, rows, from, w)
      BY <1>2, <1>4, <1>5, <2>1 DEF RolledUp
  <2> QED
      BY <2>2 DEF new

LEMMA AggregateIs ==
    ASSUME NEW rows, NEW S
    PROVE  /\ Aggregate(rows, S).of = AggregateOf(rows, S)
           /\ Aggregate(rows, S).n = Total(rows, S)
    BY DEF Aggregate, Row, Total, AggregateOf

\* What a roll-up is made from: rows that share no samples, each within a bucket.
Source(rows, w, samples) ==
    /\ \A t \in DOMAIN rows :
          /\ \E u \in Times : Bucket(t, w) = Bucket(u, w)
          /\ rows[t].of \subseteq {u \in samples : Bucket(u, w) = Bucket(t, w)}
          /\ rows[t].n = Cardinality(rows[t].of)
    /\ \A t, u \in DOMAIN rows : t # u => rows[t].of \cap rows[u].of = {}
    /\ DOMAIN rows \subseteq Times

LEMMA RollUpCounts ==
    ASSUME NEW tier, NEW rows, NEW w \in Widths, NEW from \in Int, IsBucket(from, w),
           NEW samples \in SUBSET Times,
           Source(rows, w, samples), GoodRows(tier, w, samples)
    PROVE  GoodRows(RollUp(tier, rows, from, w), w, samples)
<1>2. DOMAIN rows \subseteq Int
    BY TimesTyped DEF Source
<1>1. PICK new : new = RollUp(tier, rows, from, w) /\ RolledUp(new, tier, rows, from, w)
    BY <1>2, RollUpRows
<1>3. \A b \in DOMAIN new :
          \/ b \in DOMAIN tier /\ new[b] = tier[b]
          \/ InBucket(rows, b, w) # {} /\ new[b] = Aggregate(rows, InBucket(rows, b, w))
    BY <1>1 DEF RolledUp
<1>4. ASSUME NEW b \in DOMAIN new, InBucket(rows, b, w) # {},
             new[b] = Aggregate(rows, InBucket(rows, b, w))
      PROVE  /\ \E t \in Times : b = Bucket(t, w)
             /\ new[b].of \subseteq {t \in samples : Bucket(t, w) = b}
             /\ new[b].n = Cardinality(new[b].of)
  <2> DEFINE S == InBucket(rows, b, w)
  <2>1. S \subseteq DOMAIN rows /\ S \in SUBSET Times /\ \A t \in S : Bucket(t, w) = b
      BY DEF InBucket, Source
  <2>2. IsFiniteSet(S)
      BY <2>1, SamplesFinite
  <2>3. \A t \in S : /\ rows[t].of \subseteq samples /\ rows[t].of \in SUBSET Times
                     /\ rows[t].n = Cardinality(rows[t].of)
      BY <2>1 DEF Source
  <2>4. \A t \in S : IsFiniteSet(rows[t].of) /\ rows[t].n = Cardinality(rows[t].of)
      BY <2>3, SamplesFinite
  <2>5. \A t, u \in S : t # u => rows[t].of \cap rows[u].of = {}
      BY <2>1 DEF Source
  <2>6. Total(rows, S) = Cardinality(AggregateOf(rows, S))
    <3> HIDE DEF S
    <3> QED
      BY <2>2, <2>4, <2>5, TotalCounts
  <2>7. AggregateOf(rows, S) \subseteq {t \in samples : Bucket(t, w) = b}
      BY <2>1 DEF Source, AggregateOf
  <2>8. \E t \in Times : b = Bucket(t, w)
      BY <1>4, <2>1 DEF Source
  <2> QED
      BY <1>4, <2>6, <2>7, <2>8, AggregateIs
<1>5. GoodRows(new, w, samples)
    BY <1>3, <1>4 DEF GoodRows
<1> QED
    BY <1>1, <1>5

\* A row that is made anew keeps its samples if they are still in the tier below.
LEMMA RollUpKeeps ==
    ASSUME NEW tier, NEW rows, NEW w \in Widths, NEW from \in Int, IsBucket(from, w),
           DOMAIN rows \subseteq Int,
           \A b \in DOMAIN tier : b >= from =>
               \A x \in tier[b].of : \E t \in InBucket(rows, b, w) : x \in rows[t].of
    PROVE  \A b, x : Has(tier, b, x) => Has(RollUp(tier, rows, from, w), b, x)
<1>1. PICK new : new = RollUp(tier, rows, from, w) /\ RolledUp(new, tier, rows, from, w)
    BY RollUpRows
<1>2. ASSUME NEW b, NEW x, Has(tier, b, x) PROVE Has(new, b, x)
  <2>1. b \in DOMAIN tier /\ x \in tier[b].of /\ b \in DOMAIN new
      BY <1>1, <1>2 DEF RolledUp, Has
  <2>2. CASE new[b] = tier[b]
      BY <2>1, <2>2 DEF Has
  <2>3. CASE /\ \E t \in InBucket(rows, b, w) : t >= from
             /\ new[b] = Aggregate(rows, InBucket(rows, b, w))
    <3>1. b >= from
        BY <2>3, BucketsApart DEF InBucket
    <3>2. PICK t \in InBucket(rows, b, w) : x \in rows[t].of
        BY <2>1, <3>1
    <3>3. x \in new[b].of
        BY <2>3, <3>2, AggregateIs DEF AggregateOf
    <3> QED
        BY <2>1, <3>3 DEF Has
  <2> QED
      BY <1>1, <2>1, <2>2, <2>3 DEF RolledUp
<1> QED
    BY <1>1, <1>2

\* Everything from the boundary on is rolled up, and nothing else is made up.
LEMMA RollUpHas ==
    ASSUME NEW tier, NEW rows, NEW w \in Widths, NEW from \in Int, IsBucket(from, w),
           DOMAIN rows \subseteq Int, NEW t \in DOMAIN rows, t >= from, NEW x \in rows[t].of
    PROVE  Has(RollUp(tier, rows, from, w), Bucket(t, w), x)
<1>1. PICK new : new = RollUp(tier, rows, from, w) /\ RolledUp(new, tier, rows, from, w)
    BY RollUpRows
<1> DEFINE b == Bucket(t, w)
<1>2. b \in DOMAIN new /\ t \in InBucket(rows, b, w) /\ b >= from
    BY <1>1, BucketsApart DEF InBucket, RolledUp
<1>3. new[b] = Aggregate(rows, InBucket(rows, b, w))
  <2>1. b \in Int
      BY BucketSpan
  <2> HIDE DEF b
  <2> QED
      BY <1>1, <1>2, <2>1 DEF RolledUp
<1>4. x \in new[b].of
    BY <1>2, <1>3, AggregateIs DEF AggregateOf
<1> QED
    BY <1>1, <1>2, <1>4 DEF Has

LEMMA RollUpOnly ==
    ASSUME NEW tier, NEW rows, NEW w \in Widths, NEW from \in Int, IsBucket(from, w),
           DOMAIN rows \subseteq Int, NEW b, NEW x, Has(RollUp(tier, rows, from, w), b, x)
    PROVE  Has(tier, b, x) \/ \E t \in InBucket(rows, b, w) : x \in rows[t].of
<1>1. PICK new : new = RollUp(tier, rows, from, w) /\ RolledUp(new, tier, rows, from, w)
    BY RollUpRows
<1>2. b \in DOMAIN new /\ x \in new[b].of
    BY <1>1 DEF Has
<1>3. \/ b \in DOMAIN tier /\ new[b] = tier[b]
      \/ new[b] = Aggregate(rows, InBucket(rows, b, w))
    BY <1>1, <1>2 DEF RolledUp
<1> QED
    BY <1>2, <1>3, AggregateIs DEF Has, AggregateOf

LEMMA PrunedRows ==
    ASSUME NEW tier, NEW cut, NEW b, NEW x
    PROVE  Has(Pruned(tier, cut), b, x) <=> b >= cut /\ Has(tier, b, x)
    BY DEF Pruned, Restrict, Has

--------------------------------------------------------------------------------
(* A compaction *)

\* The two tiers before they are pruned.
FiveFrom(prev) == RollFrom(prev, compacting, FiveMin, RawKept)
SixtyFrom(prev) == RollFrom(prev, compacting, Hour, FiveMinKept)
Five(prev) == RollUp(fiveMin, RawRows(raw), FiveFrom(prev), FiveMin)
Sixty(prev) == RollUp(hour, Five(prev), SixtyFrom(prev), Hour)

LEMMA CompactIs ==
    ASSUME NEW prev, CompactSince(prev)
    PROVE  /\ raw' = {t \in raw : t >= compacting - RawKept}
           /\ fiveMin' = Pruned(Five(prev), compacting - FiveMinKept)
           /\ hour' = Pruned(Sixty(prev), compacting - HourKept)
           /\ last' = compacting /\ compacting # None /\ compacting' = None
           /\ up /\ UNCHANGED <<up, clock, collected, due, stored>>
    BY DEF CompactSince, Five, Sixty, FiveFrom, SixtyFrom

LEMMA CompactHas ==
    ASSUME NEW prev, CompactSince(prev), NEW b, NEW x
    PROVE  /\ Has(fiveMin', b, x) <=> b >= compacting - FiveMinKept /\ Has(Five(prev), b, x)
           /\ Has(hour', b, x) <=> b >= compacting - HourKept /\ Has(Sixty(prev), b, x)
<1>1. fiveMin' = Pruned(Five(prev), compacting - FiveMinKept) /\ hour' = Pruned(Sixty(prev), compacting - HourKept)
    BY CompactIs
<1>2. Has(fiveMin', b, x) <=> b >= compacting - FiveMinKept /\ Has(Five(prev), b, x)
    BY <1>1, PrunedRows, Zenon
<1>3. Has(hour', b, x) <=> b >= compacting - HourKept /\ Has(Sixty(prev), b, x)
    BY <1>1, PrunedRows, Zenon
<1> QED
    BY <1>2, <1>3

LEMMA FromBounds ==
    ASSUME NEW prev \in Times, compacting \in Times
    PROVE  /\ FiveFrom(prev) \in Nat /\ IsBucket(FiveFrom(prev), FiveMin)
           /\ compacting - RawKept <= FiveFrom(prev)
           /\ \A b \in Nat : IsBucket(b, FiveMin) /\ compacting - 2 * FiveMin <= b
                                => FiveFrom(prev) <= b
           /\ SixtyFrom(prev) \in Nat /\ IsBucket(SixtyFrom(prev), Hour)
           /\ compacting - FiveMinKept <= SixtyFrom(prev)
           /\ \A b \in Nat : IsBucket(b, Hour) /\ compacting - 2 * Hour <= b
                                => SixtyFrom(prev) <= b
<1>1. prev \in Nat /\ compacting \in Nat
    BY TimesTyped
<1>2. /\ FiveFrom(prev) \in Nat /\ IsBucket(FiveFrom(prev), FiveMin)
      /\ compacting - RawKept <= FiveFrom(prev)
      /\ \A b \in Nat : IsBucket(b, FiveMin) /\ compacting - 2 * FiveMin <= b /\ compacting - RawKept <= b
                           => FiveFrom(prev) <= b
    BY <1>1, WidthsTyped, RollFromBounds DEF FiveFrom
<1>3. /\ SixtyFrom(prev) \in Nat /\ IsBucket(SixtyFrom(prev), Hour)
      /\ compacting - FiveMinKept <= SixtyFrom(prev)
      /\ \A b \in Nat : IsBucket(b, Hour) /\ compacting - 2 * Hour <= b /\ compacting - FiveMinKept <= b
                           => SixtyFrom(prev) <= b
    BY <1>1, WidthsTyped, RollFromBounds DEF SixtyFrom
<1>4. compacting - RawKept <= compacting - 2 * FiveMin /\ compacting - FiveMinKept <= compacting - 2 * Hour
    BY <1>1, WidthsTyped DEF Widths
<1>5. compacting - RawKept \in Int /\ compacting - 2 * FiveMin \in Int
      /\ compacting - FiveMinKept \in Int /\ compacting - 2 * Hour \in Int
    BY <1>1, WidthsTyped DEF Widths
<1> QED
    BY <1>2, <1>3, <1>4, <1>5

LEMMA RawIsSource ==
    ASSUME Typed
    PROVE  /\ Source(RawRows(raw), FiveMin, stored) /\ DOMAIN RawRows(raw) = raw
           /\ \A t \in raw : RawRows(raw)[t].of = {t}
<1>1. DOMAIN RawRows(raw) = raw /\ \A t \in raw : RawRows(raw)[t].of = {t} /\ RawRows(raw)[t].n = 1
    BY DEF RawRows, Row
<1>2. \A t \in raw : Cardinality({t}) = 1
    BY FS_Singleton
<1> QED
    BY <1>1, <1>2 DEF Source, Typed

LEMMA FineIsSource ==
    ASSUME NEW tier, NEW samples \in SUBSET Times, GoodRows(tier, FiveMin, samples)
    PROVE  Source(tier, Hour, samples)
<1>1. ASSUME NEW b \in DOMAIN tier
      PROVE  /\ b \in Times
             /\ \E u \in Times : Bucket(b, Hour) = Bucket(u, Hour)
             /\ \A u \in tier[b].of : u \in samples /\ Bucket(u, Hour) = Bucket(b, Hour)
             /\ tier[b].n = Cardinality(tier[b].of)
  <2>1. PICK t \in Times : b = Bucket(t, FiveMin)
      BY DEF GoodRows
  <2>2. t \in Nat /\ b \in Nat /\ b <= t
      BY <2>1, TimesTyped, WidthsTyped, BucketSpan
  <2>3. b \in Times
      BY <2>2, BoundsTyped DEF Times
  <2>4. Bucket(b, Hour) = Bucket(t, Hour)
      BY <2>1, <2>2, BucketsNest
  <2>5. ASSUME NEW u \in tier[b].of PROVE u \in samples /\ Bucket(u, Hour) = Bucket(b, Hour)
    <3>1. u \in samples /\ Bucket(u, FiveMin) = b /\ u \in Int
        BY TimesTyped DEF GoodRows
    <3> QED
        BY <3>1, BucketsNest
  <2> QED
      BY <2>3, <2>4, <2>5 DEF GoodRows
<1>2. \A b, c \in DOMAIN tier : b # c => tier[b].of \cap tier[c].of = {}
    BY DEF GoodRows
<1> QED
    BY <1>1, <1>2 DEF Source

LEMMA PruningIsGood ==
    ASSUME NEW tier, NEW w, NEW samples, GoodRows(tier, w, samples), NEW cut
    PROVE  GoodRows(Pruned(tier, cut), w, samples)
<1>1. PICK new : new = Pruned(tier, cut)
    OBVIOUS
<1>2. \A b \in DOMAIN new : b \in DOMAIN tier /\ new[b] = tier[b]
    BY <1>1 DEF Pruned, Restrict
<1>3. GoodRows(new, w, samples)
    BY <1>2 DEF GoodRows
<1> QED
    BY <1>1, <1>3

LEMMA CompactIsGood ==
    ASSUME RollupInv, NEW prev \in Times, compacting \in Times
    PROVE  GoodRows(Five(prev), FiveMin, stored) /\ GoodRows(Sixty(prev), Hour, stored)
<1> USE DEF RollupInv
<1>1. stored \in SUBSET Times
    BY DEF Typed
<1>2. GoodRows(Five(prev), FiveMin, stored)
  <2>1. FiveFrom(prev) \in Int /\ IsBucket(FiveFrom(prev), FiveMin)
      BY FromBounds
  <2> QED
      BY <1>1, <2>1, RawIsSource, RollUpCounts, WidthsTyped DEF Five
<1>3. GoodRows(Sixty(prev), Hour, stored)
  <2>1. SixtyFrom(prev) \in Int /\ IsBucket(SixtyFrom(prev), Hour)
      BY FromBounds
  <2>2. Source(Five(prev), Hour, stored)
      BY <1>1, <1>2, FineIsSource
  <2> QED
      BY <1>1, <2>1, <2>2, RollUpCounts, WidthsTyped DEF Sixty
<1> QED
    BY <1>2, <1>3

\* Every sample that is stored is rolled up if it lies in a bucket that is made
\* anew, and while the clock is not set back, nothing that was counted is lost.
LEMMA FiveHas ==
    ASSUME RollupInv, NEW prev \in Times, compacting \in Times,
           NEW t \in raw, FiveFrom(prev) <= Bucket(t, FiveMin)
    PROVE  Has(Five(prev), Bucket(t, FiveMin), t)
<1> USE DEF RollupInv
<1>1. raw \subseteq Int /\ t \in Int
    BY TimesTyped DEF Typed
<1>2. FiveFrom(prev) \in Int /\ IsBucket(FiveFrom(prev), FiveMin) /\ FiveMin \in Widths
    BY FromBounds, WidthsTyped
<1>3. FiveFrom(prev) <= t
    BY <1>1, <1>2, BucketsApart
<1> QED
    BY <1>1, <1>2, <1>3, RawIsSource, RollUpHas DEF Five

LEMMA FiveKeeps ==
    ASSUME RollupInv, NEW prev \in Times, compacting \in Times,
           StillRaw, last <= compacting
    PROVE  \A b, x : Has(fiveMin, b, x) => Has(Five(prev), b, x)
<1> USE DEF RollupInv
<1>1. raw \subseteq Int
    BY TimesTyped DEF Typed
<1>2. /\ FiveFrom(prev) \in Int /\ IsBucket(FiveFrom(prev), FiveMin) /\ FiveMin \in Widths
      /\ compacting - RawKept <= FiveFrom(prev)
    BY FromBounds, WidthsTyped
<1>3. ASSUME NEW b \in DOMAIN fiveMin, b >= FiveFrom(prev), NEW x \in fiveMin[b].of
      PROVE  x \in InBucket(RawRows(raw), b, FiveMin) /\ x \in RawRows(raw)[x].of
  <2>1. x \in stored /\ Bucket(x, FiveMin) = b /\ x \in Nat /\ last \in Nat /\ compacting \in Nat
      BY TimesTyped DEF GoodRows, Typed
  <2>2. b \in Int /\ b <= x
      BY <2>1, WidthsTyped, BucketSpan
  <2>3. x >= last - RawKept
      BY <1>2, <1>3, <2>1, <2>2, WidthsTyped
  <2>4. x \in raw
      BY <2>1, <2>3 DEF StillRaw
  <2> QED
      BY <2>1, <2>4, RawIsSource DEF InBucket
<1> QED
    BY <1>1, <1>2, <1>3, RawIsSource, RollUpKeeps DEF Five

LEMMA SixtyHas ==
    ASSUME RollupInv, NEW prev \in Times, compacting \in Times,
           NEW t \in stored, Has(Five(prev), Bucket(t, FiveMin), t),
           SixtyFrom(prev) <= Bucket(t, Hour)
    PROVE  Has(Sixty(prev), Bucket(t, Hour), t)
<1> USE DEF RollupInv
<1> DEFINE f == Bucket(t, FiveMin)
<1>1. t \in Int /\ f \in DOMAIN Five(prev) /\ t \in Five(prev)[f].of
    BY TimesTyped DEF Typed, Has
<1>2. f \in Int /\ Bucket(t, Hour) <= f /\ Bucket(f, Hour) = Bucket(t, Hour) /\ Bucket(t, Hour) \in Int
    BY <1>1, WidthsTyped, BucketSpan, BucketsNest
<1>3. DOMAIN Five(prev) \subseteq Int
    BY CompactIsGood, FineIsSource, TimesTyped DEF Typed, Source
<1>4. SixtyFrom(prev) \in Int /\ IsBucket(SixtyFrom(prev), Hour) /\ Hour \in Widths
    BY FromBounds, WidthsTyped
<1>5. f >= SixtyFrom(prev)
    BY <1>2, <1>4
<1> HIDE DEF f
<1>6. Has(RollUp(hour, Five(prev), SixtyFrom(prev), Hour), Bucket(f, Hour), t)
    BY <1>1, <1>3, <1>4, <1>5, RollUpHas
<1> QED
    BY <1>2, <1>6 DEF Sixty

LEMMA SixtyKeeps ==
    ASSUME RollupInv, NEW prev \in Times, compacting \in Times,
           StillRaw, StillFine, last <= compacting
    PROVE  \A b, x : Has(hour, b, x) => Has(Sixty(prev), b, x)
<1> USE DEF RollupInv
<1>1. DOMAIN Five(prev) \subseteq Int
    BY CompactIsGood, FineIsSource, TimesTyped DEF Typed, Source
<1>2. /\ SixtyFrom(prev) \in Int /\ IsBucket(SixtyFrom(prev), Hour) /\ Hour \in Widths
      /\ compacting - FiveMinKept <= SixtyFrom(prev)
    BY FromBounds, WidthsTyped
<1>3. ASSUME NEW b \in DOMAIN hour, b >= SixtyFrom(prev), NEW x \in hour[b].of
      PROVE  \E f \in InBucket(Five(prev), b, Hour) : x \in Five(prev)[f].of
  <2>1. x \in stored /\ Bucket(x, Hour) = b /\ x \in Nat /\ last \in Nat /\ compacting \in Nat
      BY TimesTyped DEF GoodRows, Typed
  <2>2. PICK f : f = Bucket(x, FiveMin)
      OBVIOUS
  <2>3. f \in Int /\ b \in Int /\ b <= f /\ Bucket(f, Hour) = b
      BY <2>1, <2>2, WidthsTyped, BucketSpan, BucketsNest
  <2>4. f >= last - FiveMinKept
      BY <1>2, <1>3, <2>1, <2>3, WidthsTyped
  <2>5. Has(Five(prev), f, x)
      BY <2>2, <2>4, FiveKeeps DEF StillFine
  <2> QED
      BY <2>3, <2>5 DEF InBucket, Has
<1> QED
    BY <1>1, <1>2, <1>3, RollUpKeeps DEF Sixty

LEMMA CompactKeepsForward ==
    ASSUME RollupInv, Forward, NEW prev \in Times, CompactSince(prev)
    PROVE  Forward'
<1> USE DEF RollupInv
<1>1. compacting \in Times /\ compacting # None /\ last <= compacting /\ compacting <= clock
    BY CompactIs DEF Forward, Stamped, Typed
<1>2. compacting \in Nat /\ last \in Nat /\ last' = compacting /\ compacting' = None /\ clock' = clock
    BY <1>1, CompactIs, TimesTyped DEF Typed
<1>3. StillRaw'
  <2>1. ASSUME NEW t \in stored, t >= compacting - RawKept PROVE t \in raw'
    <3>1. t \in Nat /\ t >= last - RawKept
        BY <1>1, <1>2, <2>1, WidthsTyped, TimesTyped DEF Typed
    <3>2. t \in raw
        BY <3>1 DEF Forward, StillRaw
    <3> QED
        BY <2>1, <3>2, CompactIs
  <2> QED
      BY <1>2, <2>1, CompactIs DEF StillRaw
<1>4. StillFine'
  <2>1. ASSUME NEW b, NEW t, Has(hour', b, t), Bucket(t, FiveMin) >= compacting - FiveMinKept
        PROVE  Has(fiveMin', Bucket(t, FiveMin), t)
    <3>1. Has(Sixty(prev), b, t)
        BY <2>1, CompactHas
    <3>2. Has(Five(prev), Bucket(t, FiveMin), t)
      <4>1. CASE Has(hour, b, t)
        <5>1. t \in Nat /\ Bucket(t, FiveMin) \in Nat
          <6>1. t \in Nat
              BY <4>1, TimesTyped DEF Has, GoodRows, Typed
          <6> QED
              BY <6>1, BucketSpan, WidthsTyped
        <5>2. Bucket(t, FiveMin) >= last - FiveMinKept
            BY <1>1, <1>2, <2>1, <5>1, WidthsTyped
        <5>3. Has(fiveMin, Bucket(t, FiveMin), t)
            BY <4>1, <5>2 DEF Forward, StillFine, Has
        <5> QED
            BY <1>1, <5>3, FiveKeeps DEF Forward
      <4>2. CASE ~ Has(hour, b, t)
        <5>1. SixtyFrom(prev) \in Int /\ IsBucket(SixtyFrom(prev), Hour) /\ Hour \in Widths
            BY <1>1, FromBounds, WidthsTyped
        <5>2. DOMAIN Five(prev) \subseteq Int
            BY <1>1, CompactIsGood, FineIsSource, TimesTyped DEF Typed, Source
        <5>3. PICK f \in DOMAIN Five(prev) : t \in Five(prev)[f].of
            BY <3>1, <4>2, <5>1, <5>2, RollUpOnly DEF Sixty, InBucket
        <5>4. Bucket(t, FiveMin) = f
            BY <1>1, <5>3, CompactIsGood DEF GoodRows
        <5> QED
            BY <5>3, <5>4 DEF Has
      <4> QED
          BY <4>1, <4>2
    <3> QED
        BY <2>1, <3>2, CompactHas
  <2> QED
      BY <1>2, <2>1 DEF StillFine, Has
<1>5. last' <= clock' /\ ~ (compacting' # None)
    BY <1>1, <1>2
<1> QED
    BY <1>3, <1>4, <1>5 DEF Forward

--------------------------------------------------------------------------------
(* The invariant is kept *)

LEMMA GoodRowsGrow ==
    ASSUME NEW tier, NEW w, NEW samples, NEW more, samples \subseteq more, GoodRows(tier, w, samples)
    PROVE  GoodRows(tier, w, more)
    BY DEF GoodRows

\* A compaction, whatever it takes for the time of the one before.
LEMMA CompactKeepsInv ==
    ASSUME RollupInv, NEW prev \in Times, CompactSince(prev), faults \subseteq faults', faults' \subseteq Faults
    PROVE  RollupInv'
<1> USE DEF RollupInv
<1>1. compacting \in Times
    BY CompactIs DEF Typed
<1>2. Typed'
    BY <1>1, CompactIs DEF Typed, None
<1>3. Stamped'
    BY CompactIs DEF Stamped
<1>4. GoodRows(fiveMin', FiveMin, stored) /\ GoodRows(hour', Hour, stored)
    BY <1>1, CompactIs, CompactIsGood, PruningIsGood
<1>5. GoodRows(fiveMin, FiveMin, stored)' /\ GoodRows(hour, Hour, stored)'
  <2>1. stored' = stored
      BY CompactIs
  <2> QED
      BY <1>4, <2>1 DEF GoodRows
<1>6. ("clock" \notin faults => Forward)'
    BY CompactKeepsForward
<1> QED
    BY <1>2, <1>3, <1>5, <1>6

LEMMA InitIsInv == Init => RollupInv
<1> SUFFICES ASSUME Init PROVE RollupInv
    OBVIOUS
<1>1. clock \in Times /\ clock \in Nat /\ 0 \in Times
    BY BoundsTyped, WidthsTyped DEF Init, Times, Widths
<1>2. DOMAIN fiveMin = {} /\ DOMAIN hour = {}
    BY DEF Init
<1>3. up \in BOOLEAN
    BY DEF Init
<1>4. Typed
    BY <1>1, <1>3 DEF Init, Typed
<1>5. GoodRows(fiveMin, FiveMin, stored) /\ GoodRows(hour, Hour, stored)
    BY <1>2 DEF GoodRows
<1>6. Forward
    BY <1>1, <1>2 DEF Init, Forward, StillRaw, StillFine
<1> QED
    BY <1>3, <1>4, <1>5, <1>6 DEF Init, RollupInv, Stamped

\* A step that leaves the tables alone.
LEMMA TablesKept ==
    ASSUME RollupInv, UNCHANGED <<tables, stored>>
    PROVE  (GoodRows(fiveMin, FiveMin, stored) /\ GoodRows(hour, Hour, stored))'
           /\ ((StillRaw /\ StillFine) => (StillRaw /\ StillFine)')
    BY DEF RollupInv, tables, GoodRows, StillRaw, StillFine, Has

LEMMA NextKeepsInv ==
    ASSUME RollupInv, [Next]_vars
    PROVE  RollupInv'
<1> USE BoundsTyped DEF RollupInv
<1>1. /\ clock \in Nat /\ last \in Nat /\ None \notin Times
      /\ collected # None => collected \in Nat
      /\ compacting # None => compacting \in Nat
    BY TimesTyped DEF Typed, None
<1>2. CASE UNCHANGED vars \/ Series
  <2>1. UNCHANGED <<tables, stored>> /\ UNCHANGED <<up, clock, raw, last, collected, compacting, due, faults>>
      BY <1>2 DEF vars, tables, Series
  <2> QED
      BY <2>1, TablesKept DEF Typed, Stamped, Forward
<1>3. CASE Collect
  <2>1. UNCHANGED <<tables, stored>> /\ UNCHANGED <<up, clock, raw, last, compacting, due, faults>>
        /\ collected' = clock /\ up
      BY <1>3 DEF Collect, tables
  <2> QED
      BY <1>1, <2>1, TablesKept DEF Typed, Stamped, Forward
<1>4. CASE Write
  <2>1. /\ UNCHANGED <<up, clock, fiveMin, hour, last, compacting, due, faults>>
        /\ raw' = raw \cup {collected} /\ stored' = stored \cup {collected}
        /\ collected' = None /\ collected \in Times
      BY <1>4 DEF Write, Typed
  <2>2. Typed' /\ Stamped'
      BY <2>1 DEF Typed, Stamped
  <2>3. GoodRows(fiveMin, FiveMin, stored') /\ GoodRows(hour, Hour, stored')
      BY <2>1, GoodRowsGrow
  <2>4. (GoodRows(fiveMin, FiveMin, stored) /\ GoodRows(hour, Hour, stored))'
      BY <2>1, <2>3 DEF GoodRows
  <2>5. Forward => Forward'
      BY <2>1 DEF Forward, StillRaw, StillFine, Has
  <2> QED
      BY <2>1, <2>2, <2>4, <2>5
<1>5. CASE WriteFails
  <2>1. /\ UNCHANGED <<tables, stored>> /\ UNCHANGED <<up, clock, raw, last, compacting, due>>
        /\ collected' = None /\ faults \subseteq faults' /\ faults' \subseteq Faults
      BY <1>5 DEF WriteFails, Fault, tables, Typed
  <2> QED
      BY <2>1, TablesKept DEF Typed, Stamped, Forward
<1>6. CASE CompactTick
  <2>1. /\ UNCHANGED <<tables, stored>> /\ UNCHANGED <<up, clock, raw, last, collected, faults>>
        /\ compacting' = clock /\ due' = clock + FiveMin /\ up
      BY <1>6 DEF CompactTick, tables
  <2> QED
      BY <1>1, <2>1, TablesKept, WidthsTyped DEF Typed, Stamped, Forward, Widths
<1>7. CASE Compact
    BY <1>7, CompactKeepsInv DEF Compact, Typed
<1>8. CASE CompactAnew
  <2>1. 0 \in Times
      BY DEF Times
  <2>2. faults \subseteq faults' /\ faults' \subseteq Faults
      BY <1>8 DEF CompactAnew, Fault, Typed
  <2> QED
      BY <1>8, <2>1, <2>2, CompactKeepsInv DEF CompactAnew
<1>9. CASE CompactFails
  <2>1. /\ UNCHANGED <<tables, stored>> /\ UNCHANGED <<up, clock, raw, last, collected, due>>
        /\ compacting' = None /\ faults \subseteq faults' /\ faults' \subseteq Faults
      BY <1>9 DEF CompactFails, Fault, tables, Typed
  <2> QED
      BY <2>1, TablesKept DEF Typed, Stamped, Forward
<1>10. CASE Slow
  <2>1. /\ UNCHANGED <<tables, stored>> /\ UNCHANGED <<up, clock, raw, last, collected, compacting, due>>
        /\ faults \subseteq faults' /\ faults' \subseteq Faults
      BY <1>10 DEF Slow, Fault, tables, Typed
  <2> QED
      BY <2>1, TablesKept DEF Typed, Stamped, Forward
<1>11. CASE Elapse
  <2>1. /\ UNCHANGED <<tables, stored>> /\ UNCHANGED <<up, raw, last, collected, compacting, due, faults>>
        /\ clock' = clock + 1 /\ clock < Horizon /\ (up => OnTime)
      BY <1>11 DEF Elapse, tables
  <2>2. clock' \in Times
      BY <1>1, <2>1 DEF Times
  <2>3. Stamped'
      BY <1>1, <2>1 DEF Stamped, OnTime
  <2>4. Forward => last' <= clock' /\ (compacting' # None => last' <= compacting')
      BY <1>1, <2>1 DEF Forward
  <2> QED
      BY <2>1, <2>2, <2>3, <2>4, TablesKept DEF Typed, Forward
<1>12. CASE StepBack
  <2>1. PICK d \in 1 .. clock : clock' = clock - d /\ due' = due - d
      BY <1>12 DEF StepBack
  <2>2. /\ UNCHANGED <<tables, stored>> /\ UNCHANGED <<up, raw, last, collected, compacting>>
        /\ faults' \subseteq Faults /\ "clock" \in faults'
        /\ collected = None /\ compacting = None
      BY <1>12 DEF StepBack, Fault, tables, Typed
  <2>3. clock' \in Times /\ due' \in Int
      BY <1>1, <2>1 DEF Typed, Times
  <2> QED
      BY <2>2, <2>3, TablesKept DEF Typed, Stamped
<1>13. CASE Stop
  <2>1. /\ UNCHANGED <<tables, stored>> /\ UNCHANGED <<clock, raw, last, due>>
        /\ up' = FALSE /\ collected' = None /\ compacting' = None
        /\ faults \subseteq faults' /\ faults' \subseteq Faults
      BY <1>13 DEF Stop, Fault, tables, Typed
  <2> QED
      BY <2>1, TablesKept DEF Typed, Stamped, Forward
<1>14. CASE Start
  <2>1. /\ UNCHANGED <<tables, stored>> /\ UNCHANGED <<clock, raw, last, collected, compacting, faults>>
        /\ up' = TRUE /\ due' = clock
      BY <1>14 DEF Start, tables
  <2> QED
      BY <1>1, <2>1, TablesKept DEF Typed, Stamped, Forward
<1> QED
    BY <1>2, <1>3, <1>4, <1>5, <1>6, <1>7, <1>8, <1>9, <1>10, <1>11, <1>12, <1>13, <1>14 DEF Next

\* Collector, compactor and faults keep the inductive invariant: what rows weigh,
\* and what is left of their samples below.
THEOREM RollupInvariant == Spec => []RollupInv
<1>1. Init => RollupInv
    BY InitIsInv
<1>2. RollupInv /\ [Next]_vars => RollupInv'
    BY NextKeepsInv
<1> QED
    BY <1>1, <1>2, PTL DEF Spec

\* Every variable keeps its type, and a row aggregates samples of its own bucket.
THEOREM RollupTypeCorrect == Spec => []TypeOK
<1>1. ASSUME RollupInv, NEW tier, NEW w \in Widths, GoodRows(tier, w, stored)
      PROVE  IsTier(tier, w)
  <2>1. ASSUME NEW b \in DOMAIN tier
        PROVE  /\ b \in {Bucket(t, w) : t \in Times}
               /\ tier[b].n \in Nat /\ tier[b].of \subseteq b .. b + w - 1
    <3>1. tier[b].of \in SUBSET Times /\ \A t \in tier[b].of : Bucket(t, w) = b
        BY <1>1 DEF GoodRows, RollupInv, Typed
    <3>2. tier[b].n \in Nat
        BY <1>1, <3>1, SamplesFinite DEF GoodRows
    <3>3. ASSUME NEW t \in tier[b].of PROVE t \in b .. b + w - 1
      <4>1. t \in Int /\ Bucket(t, w) = b
          BY <3>1, TimesTyped
      <4>2. b \in Int /\ b <= t /\ t < b + w
          BY <4>1, BucketSpan
      <4> QED
          BY <4>1, <4>2 DEF Widths
    <3>4. b \in {Bucket(t, w) : t \in Times}
        BY <1>1 DEF GoodRows
    <3> QED
        BY <3>2, <3>3, <3>4
  <2> QED
      BY <2>1 DEF IsTier
<1>2. RollupInv => TypeOK
    BY <1>1, WidthsTyped DEF RollupInv, Typed, TypeOK
<1> QED
    BY <1>2, RollupInvariant, PTL

\* The weight of a row is the number of samples in it: however often its bucket
\* is recomputed, and from whatever last_compact, none is counted twice.
THEOREM NoneIsCountedTwice == Spec => []CountedOnce
<1>1. RollupInv => CountedOnce
    BY DEF RollupInv, CountedOnce, GoodRows
<1> QED
    BY <1>1, RollupInvariant, PTL

\* While the wall clock is not set back, no compaction overwrites a row with one
\* made from part of its samples, not even when last_compact cannot be read, after
\* a failed compaction, or after any time in which the process did not run.
THEOREM NoRowIsTruncated == Spec => NoPartialRewrite
<1>1. ASSUME RollupInv, "clock" \notin faults, [Next]_vars
      PROVE  KeepsSamples(fiveMin, fiveMin') /\ KeepsSamples(hour, hour')
  <2>1. CASE UNCHANGED <<fiveMin, hour>>
      BY <2>1 DEF KeepsSamples
  <2>2. ASSUME NEW prev \in Times, CompactSince(prev)
        PROVE  KeepsSamples(fiveMin, fiveMin') /\ KeepsSamples(hour, hour')
    <3>1. StillRaw /\ StillFine /\ last <= compacting /\ compacting \in Times
        BY <1>1, <2>2, CompactIs DEF RollupInv, Forward, Typed
    <3>2. \A b, x : /\ Has(fiveMin, b, x) => Has(Five(prev), b, x)
                    /\ Has(hour, b, x) => Has(Sixty(prev), b, x)
        BY <1>1, <3>1, FiveKeeps, SixtyKeeps
    <3>3. /\ \A b \in DOMAIN fiveMin' : fiveMin'[b] = Five(prev)[b]
          /\ \A b \in DOMAIN hour' : hour'[b] = Sixty(prev)[b]
        BY <2>2, CompactIs DEF Pruned, Restrict
    <3> QED
        BY <3>2, <3>3 DEF KeepsSamples, Has
  <2>3. CASE Compact
      BY <1>1, <2>2, <2>3 DEF Compact, RollupInv, Typed
  <2>4. CASE CompactAnew
      BY <2>2, <2>4, BoundsTyped DEF CompactAnew, Times
  <2> QED
      BY <1>1, <2>1, <2>3, <2>4
         DEF Next, vars, tables, Collect, Write, WriteFails, CompactTick, CompactFails,
             Slow, Elapse, StepBack, Stop, Start, Series
<1>2. RollupInv /\ [Next]_vars =>
          [faults \cap {"clock"} = {} => KeepsSamples(fiveMin, fiveMin') /\ KeepsSamples(hour, hour')]_vars
    BY <1>1
<1> QED
    BY <1>2, RollupInvariant, PTL DEF Spec, NoPartialRewrite

--------------------------------------------------------------------------------
(* Compactions that come when they are due *)

\* When the previous compaction was due.  The first one is due at once, before
\* anything older than it was stored.
Before == IF compacting = None THEN due - FiveMin ELSE due - 2 * FiveMin
Scheduled ==
    /\ up /\ clock <= Before + FiveMin
    /\ compacting # None => compacting = Before + FiveMin /\ clock = compacting
    /\ \/ last = Before
       \/ /\ last = 0 /\ clock = Before + FiveMin
          /\ \A t \in stored : t >= clock
          /\ collected # None => collected = clock

\* A bucket has its samples in time as soon as a compaction came after its end, an
\* hour's when the last one came that recomputes it.
Complete ==
    \A t \in stored : InTime(t) =>
        /\ Bucket(t, FiveMin) + FiveMin < last /\ Bucket(t, FiveMin) >= last - FiveMinKept
              => Has(fiveMin, Bucket(t, FiveMin), t)
        /\ Bucket(t, Hour) + 2 * Hour - FiveMin < last /\ Bucket(t, Hour) >= last - HourKept
              => Has(hour, Bucket(t, Hour), t)

ScheduleInv == OnSchedule => Scheduled /\ Complete

LEMMA WidthsNest == FiveMin <= Hour
<1>1. Bucket(0, FiveMin) + FiveMin <= Bucket(0, Hour) + Hour /\ Bucket(0, Hour) <= Bucket(0, FiveMin)
    BY BucketsNest
<1>2. Bucket(0, FiveMin) \in Int /\ Bucket(0, Hour) \in Int
    BY WidthsTyped, BucketSpan
<1>3. Bucket(0, FiveMin) <= 0 /\ 0 < Bucket(0, Hour) + Hour /\ Bucket(0, FiveMin) \in Nat /\ Bucket(0, Hour) \in Nat
    BY WidthsTyped, BucketSpan
<1>4. Bucket(0, FiveMin) = 0 /\ Bucket(0, Hour) = 0
    BY <1>1, <1>2, <1>3
<1> QED
    BY <1>1, <1>4, WidthsTyped DEF Widths

\* A stored sample and its buckets.
LEMMA SampleBuckets ==
    ASSUME Typed, NEW t \in stored \cup Times
    PROVE  /\ t \in Nat
           /\ Bucket(t, FiveMin) \in Nat /\ IsBucket(Bucket(t, FiveMin), FiveMin)
           /\ Bucket(t, FiveMin) <= t /\ t < Bucket(t, FiveMin) + FiveMin
           /\ Bucket(t, Hour) \in Nat /\ IsBucket(Bucket(t, Hour), Hour)
           /\ Bucket(t, Hour) <= Bucket(t, FiveMin)
           /\ Bucket(t, FiveMin) + FiveMin <= Bucket(t, Hour) + Hour
<1>1. t \in Nat
    BY TimesTyped DEF Typed
<1>2. FiveMin \in Widths /\ Hour \in Widths
    BY WidthsTyped
<1> QED
    BY <1>1, <1>2, BucketSpan, BucketsNest

LEMMA CompactKeepsSchedule ==
    ASSUME RollupInv, OnSchedule, Scheduled, Complete, NEW prev \in Times, CompactSince(prev)
    PROVE  (Scheduled /\ Complete)'
<1> USE DEF RollupInv
<1>1. Forward /\ last <= compacting /\ compacting \in Times
    BY CompactIs DEF OnSchedule, Forward, Typed
<1>2. /\ compacting \in Nat /\ last \in Nat /\ due \in Int /\ clock \in Nat
      /\ compacting = due - FiveMin /\ clock = compacting
      /\ FiveMin \in Nat /\ Hour \in Nat /\ FiveMin > 0 /\ FiveMin <= Hour
      /\ RawKept \in Nat /\ FiveMinKept \in Nat /\ HourKept \in Nat
      /\ 3 * FiveMin <= RawKept /\ 3 * Hour <= FiveMinKept
  <2>1. compacting \in Nat /\ last \in Nat /\ due \in Int /\ clock \in Nat
      BY <1>1, TimesTyped DEF Typed
  <2>2. /\ FiveMin \in Nat /\ Hour \in Nat /\ FiveMin > 0 /\ FiveMin <= Hour
        /\ RawKept \in Nat /\ FiveMinKept \in Nat /\ HourKept \in Nat
        /\ 3 * FiveMin <= RawKept /\ 3 * Hour <= FiveMinKept
      BY WidthsTyped, WidthsNest DEF Widths
  <2>3. compacting # None
      BY CompactIs
  <2>4. clock = compacting /\ compacting = due - 2 * FiveMin + FiveMin
      BY <2>3 DEF Scheduled, Before
  <2>5. due - 2 * FiveMin + FiveMin = due - FiveMin
      BY <2>1, <2>2
  <2> QED
      BY <2>1, <2>2, <2>4, <2>5
<1>3. last = compacting - FiveMin \/ \A t \in stored : t >= compacting
  <2>1. compacting # None
      BY CompactIs
  <2>2. last = due - 2 * FiveMin \/ \A t \in stored : t >= clock
      BY <2>1 DEF Scheduled, Before
  <2>3. due - 2 * FiveMin = compacting - FiveMin
      BY <1>2
  <2> QED
      BY <1>2, <2>2, <2>3
<1>4. last' = compacting /\ UNCHANGED <<up, clock, collected, due, stored>> /\ compacting' = None
    BY CompactIs
<1>5. Scheduled'
  <2>1. Before' = compacting
      BY <1>2, <1>4 DEF Before
  <2> QED
      BY <1>2, <1>4, <2>1 DEF Scheduled
<1>6. ASSUME NEW t \in stored, InTime(t), Bucket(t, FiveMin) + FiveMin < compacting,
             Bucket(t, FiveMin) >= last - FiveMinKept
      PROVE  Has(Five(prev), Bucket(t, FiveMin), t)
  <2>1. PICK b : b = Bucket(t, FiveMin)
      OBVIOUS
  <2>2. t \in Nat /\ b \in Nat /\ IsBucket(b, FiveMin) /\ b <= t /\ t < b + FiveMin
      BY <2>1, SampleBuckets
  <2>3. CASE b + FiveMin < last
    <3>1. Has(fiveMin, b, t)
        BY <1>6, <2>1, <2>3 DEF Complete
    <3> QED
        BY <1>1, <2>1, <3>1, FiveKeeps DEF Forward
  <2>4. CASE last <= b + FiveMin
    <3>1. last = compacting - FiveMin
        BY <1>2, <1>3, <1>6, <2>1, <2>2
    <3>2. compacting - 2 * FiveMin <= b /\ t >= last - RawKept
        BY <1>2, <2>2, <2>4, <3>1
    <3>3. FiveFrom(prev) <= b
        BY <1>1, <2>2, <3>2, FromBounds
    <3>4. t \in raw
        BY <1>1, <3>2 DEF Forward, StillRaw
    <3> QED
        BY <1>1, <2>1, <3>3, <3>4, FiveHas
  <2> QED
      BY <1>2, <2>2, <2>3, <2>4
<1>7. ASSUME NEW t \in stored, InTime(t), Bucket(t, Hour) + 2 * Hour - FiveMin < compacting,
             Bucket(t, Hour) >= compacting - HourKept
      PROVE  Has(Sixty(prev), Bucket(t, Hour), t)
  <2>1. PICK b : b = Bucket(t, Hour)
      OBVIOUS
  <2>2. PICK f : f = Bucket(t, FiveMin)
      OBVIOUS
  <2>3. /\ t \in Nat /\ b \in Nat /\ IsBucket(b, Hour) /\ f \in Nat
        /\ b <= f /\ f <= t /\ t < f + FiveMin /\ f + FiveMin <= b + Hour
      BY <2>1, <2>2, SampleBuckets
  <2>4. CASE b + 2 * Hour - FiveMin < last
    <3>1. b >= last - HourKept
        BY <1>1, <1>2, <1>7, <2>1, <2>3
    <3>2. Has(hour, b, t)
        BY <1>7, <2>1, <2>4, <3>1 DEF Complete
    <3> QED
        BY <1>1, <2>1, <3>2, SixtyKeeps DEF Forward
  <2>5. CASE last <= b + 2 * Hour - FiveMin
    <3>1. last = compacting - FiveMin
        BY <1>2, <1>3, <1>7, <2>1, <2>3
    <3>2. compacting - 2 * Hour <= b
        BY <1>2, <2>3, <2>5, <3>1
    <3>3. f + FiveMin < compacting /\ f >= last - FiveMinKept
        BY <1>1, <1>2, <1>7, <2>1, <2>3, <3>2
    <3>4. Has(Five(prev), f, t)
        BY <1>6, <1>7, <2>2, <3>3
    <3>5. SixtyFrom(prev) <= b
        BY <1>1, <2>3, <3>2, FromBounds
    <3> QED
        BY <1>1, <2>1, <2>2, <3>4, <3>5, SixtyHas
  <2> QED
      BY <1>2, <2>3, <2>4, <2>5
<1>8. Complete'
  <2>1. ASSUME NEW t \in stored, InTime(t), Bucket(t, FiveMin) + FiveMin < compacting,
               Bucket(t, FiveMin) >= compacting - FiveMinKept
        PROVE  Has(fiveMin', Bucket(t, FiveMin), t)
    <3>1. Bucket(t, FiveMin) >= last - FiveMinKept
        BY <1>1, <1>2, <2>1, SampleBuckets
    <3> QED
        BY <1>6, <2>1, <3>1, CompactHas
  <2>2. ASSUME NEW t \in stored, InTime(t), Bucket(t, Hour) + 2 * Hour - FiveMin < compacting,
               Bucket(t, Hour) >= compacting - HourKept
        PROVE  Has(hour', Bucket(t, Hour), t)
    <3>1. Has(Sixty(prev), Bucket(t, Hour), t)
        BY <1>7, <2>2
    <3> QED
        BY <2>2, <3>1, CompactHas
  <2> QED
      BY <1>4, <2>1, <2>2 DEF Complete
<1> QED
    BY <1>5, <1>8

LEMMA OthersKeepSchedule ==
    ASSUME RollupInv, OnSchedule, Scheduled, Complete, [Next]_vars,
           OnSchedule', ~ Compact, ~ CompactAnew
    PROVE  (Scheduled /\ Complete)'
<1> USE DEF RollupInv
<1>1. /\ clock \in Nat /\ last \in Nat /\ due \in Int /\ FiveMin \in Nat /\ FiveMin > 0
      /\ collected # None => collected \in Nat
      /\ compacting # None => compacting \in Nat
      /\ None \notin Nat
  <2>1. clock \in Nat /\ last \in Nat /\ due \in Int
      BY TimesTyped DEF Typed
  <2>2. collected # None => collected \in Nat
      BY TimesTyped DEF Typed
  <2>3. compacting # None => compacting \in Nat
      BY TimesTyped DEF Typed
  <2> QED
      BY <2>1, <2>2, <2>3, WidthsTyped DEF None, Widths
<1>2. CASE UNCHANGED <<fiveMin, hour, last, stored, up, clock, compacting, due>>
           /\ (UNCHANGED collected \/ collected' = None)
  <2>1. Complete'
      BY <1>2 DEF Complete, Has
  <2>2. Scheduled'
      BY <1>2 DEF Scheduled, Before
  <2> QED
      BY <2>1, <2>2
<1>3. CASE Collect
  <2>1. UNCHANGED <<fiveMin, hour, last, stored, up, clock, compacting, due>> /\ collected' = clock
      BY <1>3 DEF Collect, tables
  <2>2. Complete'
      BY <2>1 DEF Complete, Has
  <2>3. Scheduled'
      BY <2>1 DEF Scheduled, Before
  <2> QED
      BY <2>2, <2>3
<1>4. CASE Write
  <2>1. /\ UNCHANGED <<fiveMin, hour, last, up, clock, compacting, due>>
        /\ stored' = stored \cup {collected} /\ collected' = None /\ collected # None
      BY <1>4 DEF Write
  <2>2. last <= clock /\ clock <= collected + MaxLate /\ collected \in Times /\ collected \in Nat
    <3>1. last <= clock
        BY DEF OnSchedule, Forward
    <3>2. clock <= collected + MaxLate /\ collected \in Times /\ collected \in Nat
        BY <1>1, <2>1 DEF Stamped, Typed
    <3> QED
        BY <1>1, <3>1, <3>2, BoundsTyped
  <2>3. ASSUME InTime(collected)
        PROVE  /\ ~ (Bucket(collected, FiveMin) + FiveMin < last)
               /\ ~ (Bucket(collected, Hour) + 2 * Hour - FiveMin < last)
    <3>1. PICK f : f = Bucket(collected, FiveMin)
        OBVIOUS
    <3>2. PICK b : b = Bucket(collected, Hour)
        OBVIOUS
    <3>3. /\ f \in Nat /\ b \in Nat /\ collected < f + FiveMin /\ f + FiveMin <= b + Hour
        BY <2>2, <3>1, <3>2, SampleBuckets
    <3>4. FiveMin <= Hour /\ Hour \in Nat
        BY WidthsNest, WidthsTyped DEF Widths
    <3>5. MaxLate \in Nat /\ collected + MaxLate <= f + FiveMin
        BY <2>3, <3>1, BoundsTyped DEF InTime
    <3>6. last <= f + FiveMin
        BY <1>1, <2>2, <3>3, <3>5
    <3> QED
        BY <1>1, <3>1, <3>2, <3>3, <3>4, <3>6
  <2>4. Complete'
    <3>1. \A t \in stored' : t \in stored \/ t = collected
        BY <2>1
    <3>2. \A t : InTime(t)' <=> InTime(t)
        BY DEF InTime, Bucket
    <3> QED
        BY <2>1, <2>3, <3>1, <3>2 DEF Complete, Has
  <2>5. Scheduled'
    <3>1. Before' = Before
        BY <2>1 DEF Before
    <3> QED
        BY <1>1, <2>1, <3>1 DEF Scheduled
  <2> QED
      BY <2>4, <2>5
<1>5. CASE CompactTick
  <2>1. /\ UNCHANGED <<fiveMin, hour, last, stored, up, clock, collected>>
        /\ compacting = None /\ compacting' = clock /\ due' = clock + FiveMin /\ clock >= due
      BY <1>5 DEF CompactTick, tables
  <2>2. Complete'
      BY <2>1 DEF Complete, Has
  <2>3. Before = due - FiveMin /\ clock <= due - FiveMin + FiveMin
      BY <2>1 DEF Scheduled, Before
  <2>4. clock = due
      BY <1>1, <2>1, <2>3
  <2>5. Before' = clock + FiveMin - 2 * FiveMin
      BY <1>1, <2>1 DEF Before
  <2>6. Before' = Before /\ Before + FiveMin = clock
      BY <1>1, <2>3, <2>4, <2>5
  <2>7. Scheduled'
      BY <1>1, <2>1, <2>6 DEF Scheduled
  <2> QED
      BY <2>2, <2>7
<1>6. CASE Elapse
  <2>1. /\ UNCHANGED <<fiveMin, hour, last, stored, up, collected, compacting, due>>
        /\ clock' = clock + 1 /\ OnTime
      BY <1>6 DEF Elapse, tables, Scheduled
  <2>2. Slip = 0
      BY DEF Slip, OnSchedule
  <2>3. compacting = None /\ clock < due
      BY <1>1, <2>1, <2>2 DEF OnTime, Scheduled
  <2>4. Before = due - FiveMin /\ Before' = due - FiveMin
      BY <2>1, <2>3 DEF Before
  <2>5. clock # Before + FiveMin /\ clock' <= Before + FiveMin
      BY <1>1, <2>1, <2>3, <2>4
  <2>6. Complete'
      BY <2>1 DEF Complete, Has
  <2>7. Scheduled'
      BY <2>1, <2>3, <2>4, <2>5 DEF Scheduled
  <2> QED
      BY <2>6, <2>7
<1>7. ~ CompactFails /\ ~ Slow /\ ~ StepBack /\ ~ Stop
    BY DEF OnSchedule, CompactFails, Slow, StepBack, Stop, Fault
<1>8. ~ Start
    BY DEF Scheduled, Start
<1>9. CASE WriteFails
    BY <1>2, <1>9 DEF WriteFails, tables
<1>10. CASE UNCHANGED vars \/ Series
    BY <1>2, <1>10 DEF vars, tables, Series
<1> QED
    BY <1>3, <1>4, <1>5, <1>6, <1>7, <1>8, <1>9, <1>10 DEF Next

\* Compactions on schedule leave no gap between the buckets they recompute.
THEOREM ScheduleInvariant == Spec => []ScheduleInv
<1>1. Init => ScheduleInv
  <2> SUFFICES ASSUME Init PROVE Scheduled /\ Complete
      BY DEF ScheduleInv
  <2>1. clock \in Int /\ FiveMin \in Nat
      BY WidthsTyped DEF Init, Widths
  <2>2. Before = clock - FiveMin
      BY DEF Init, Before
  <2> QED
      BY <2>1, <2>2 DEF Init, Scheduled, Complete
<1>2. RollupInv /\ ScheduleInv /\ [Next]_vars => ScheduleInv'
  <2> SUFFICES ASSUME RollupInv, ScheduleInv, [Next]_vars, OnSchedule'
               PROVE  (Scheduled /\ Complete)'
      BY DEF ScheduleInv
  <2>1. faults \subseteq faults'
      BY DEF Next, vars, Collect, Write, WriteFails, CompactTick, Compact, CompactAnew,
             CompactFails, Slow, Elapse, StepBack, Stop, Start, Series, Fault
  <2>2. OnSchedule
      BY <2>1 DEF OnSchedule
  <2>3. Scheduled /\ Complete
      BY <2>2 DEF ScheduleInv
  <2>4. CASE Compact \/ CompactAnew
    <3>1. last \in Times /\ 0 \in Times
        BY BoundsTyped DEF RollupInv, Typed, Times
    <3> QED
        BY <2>2, <2>3, <2>4, <3>1, CompactKeepsSchedule DEF Compact, CompactAnew
  <2> QED
      BY <2>2, <2>3, <2>4, OthersKeepSchedule
<1> QED
    BY <1>1, <1>2, RollupInvariant, PTL DEF Spec

\* What is complete, and what is pruned.
LEMMA CompleteIsEnough ==
    ASSUME RollupInv, ScheduleInv, OnSchedule
    PROVE  \A t \in stored : InTime(t) =>
               /\ CountedIn(fiveMin, FiveMin, FiveMinKept, t) /\ CountedIn(hour, Hour, HourKept, t)
               /\ Bucket(t, Hour) >= last - HourKept => Somewhere(t)
<1> USE DEF RollupInv
<1>1. Complete /\ StillRaw
    BY DEF ScheduleInv, OnSchedule, Forward
<1>2. /\ last \in Nat /\ FiveMin \in Nat /\ Hour \in Nat /\ FiveMin > 0 /\ FiveMin <= Hour
      /\ RawKept \in Nat /\ FiveMinKept \in Nat /\ HourKept \in Nat
      /\ 3 * FiveMin <= RawKept /\ 3 * Hour <= FiveMinKept
    BY TimesTyped, WidthsTyped, WidthsNest DEF Typed, Widths
<1>3. ASSUME NEW t \in stored, InTime(t)
      PROVE  /\ CountedIn(fiveMin, FiveMin, FiveMinKept, t) /\ CountedIn(hour, Hour, HourKept, t)
             /\ Bucket(t, Hour) >= last - HourKept => Somewhere(t)
  <2>1. PICK f : f = Bucket(t, FiveMin)
      OBVIOUS
  <2>2. PICK b : b = Bucket(t, Hour)
      OBVIOUS
  <2>3. t \in Nat /\ f \in Nat /\ b \in Nat /\ b <= f /\ f <= t /\ t < f + FiveMin /\ t < b + Hour
    <3>1. t \in Nat /\ f \in Nat /\ b \in Nat /\ b <= f /\ f <= t /\ t < f + FiveMin /\ f + FiveMin <= b + Hour
        BY <2>1, <2>2, SampleBuckets
    <3> QED
        BY <1>2, <3>1
  <2>4. f + FiveMin < last /\ f >= last - FiveMinKept => Has(fiveMin, f, t)
      BY <1>1, <1>3, <2>1 DEF Complete
  <2>5. b + 2 * Hour - FiveMin < last /\ b >= last - HourKept => Has(hour, b, t)
      BY <1>1, <1>3, <2>2 DEF Complete
  <2>6. CountedIn(fiveMin, FiveMin, FiveMinKept, t)
      BY <1>2, <2>1, <2>3, <2>4 DEF CountedIn, Final, Has
  <2>7. CountedIn(hour, Hour, HourKept, t)
      BY <1>2, <2>2, <2>3, <2>5 DEF CountedIn, Final, Has
  <2>8. ASSUME b >= last - HourKept PROVE t \in raw \/ Has(fiveMin, f, t) \/ Has(hour, b, t)
    <3>1. CASE t >= last - RawKept
        BY <1>1, <3>1 DEF StillRaw
    <3>2. CASE t < last - RawKept /\ f >= last - FiveMinKept
        BY <1>2, <2>3, <2>4, <3>2
    <3>3. CASE t < last - RawKept /\ f < last - FiveMinKept
        BY <1>2, <2>3, <2>5, <2>8, <3>3
    <3> QED
        BY <1>2, <2>3, <3>1, <3>2, <3>3
  <2>9. t \in raw \/ Has(fiveMin, f, t) \/ Has(hour, b, t) => Somewhere(t)
      BY DEF Somewhere, Has
  <2> QED
      BY <2>2, <2>6, <2>7, <2>8, <2>9
<1> QED
    BY <1>3

\* As long as compactions come when they are due, a bucket that no compaction will
\* visit again has every sample of its span that was written before its 5-minute
\* bucket ended, through failed writes and a last_compact that cannot be read.
THEOREM FinalBucketsAreComplete == Spec => []CompleteOnSchedule
<1>1. RollupInv /\ ScheduleInv => CompleteOnSchedule
    BY CompleteIsEnough DEF CompleteOnSchedule
<1> QED
    BY <1>1, RollupInvariant, ScheduleInvariant, PTL

\* Under the same conditions, such a sample is pruned from a tier only after a
\* coarser one has counted it.
THEOREM NothingIsLost == Spec => []NothingLost
<1>1. RollupInv /\ ScheduleInv => NothingLost
    BY CompleteIsEnough DEF NothingLost
<1> QED
    BY <1>1, RollupInvariant, ScheduleInvariant, PTL

================================================================================
