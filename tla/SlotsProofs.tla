----------------------------- MODULE SlotsProofs ----------------------------
(***************************************************************************)
(* CalculateSlot, for every slot count and every number of servers up to   *)
(* it: the shares are a partition of the slots, evenly spread, and         *)
(* IsWholeSlot accepts them.                                               *)
(***************************************************************************)
EXTENDS Slots, FiniteSetTheorems, TLAPS

\* The division, by what it means.
LEMMA PerCountFacts ==
  ASSUME NEW n \in 1..TOTAL_SLOT_COUNT
  PROVE  /\ PerCount(n) \in Nat
         /\ n * PerCount(n) <= TOTAL_SLOT_COUNT - n
         /\ TOTAL_SLOT_COUNT - n < n * PerCount(n) + n
BY TotalAssumption, Z3 DEF PerCount

LEMMA Products ==
  ASSUME NEW p \in Nat, NEW i \in Nat, NEW j \in Nat, i <= j
  PROVE  i * p \in Nat /\ j * p \in Nat /\ i * p <= j * p /\ (i + 1) * p = i * p + p
OBVIOUS

-----------------------------------------------------------------------------
\* Ranks count the Ids from 1, in their order, without gaps.
LEMMA RankFacts ==
  ASSUME NEW ids \in SUBSET Nat, IsFiniteSet(ids)
  PROVE  /\ Cardinality(ids) \in Nat
         /\ \A a \in ids : Rank(ids, a) \in 1..Cardinality(ids)
         /\ \A a, b \in ids : a < b => Rank(ids, a) < Rank(ids, b)
<1> DEFINE below(a) == {j \in ids : j <= a}
<1>1. Cardinality(ids) \in Nat
  BY FS_CardinalityType
<1>2. \A a \in ids : /\ IsFiniteSet(below(a))
                     /\ Cardinality(below(a)) \in Nat
                     /\ Cardinality(below(a)) <= Cardinality(ids)
  BY FS_Subset, FS_CardinalityType
<1>3. ASSUME NEW a \in ids
      PROVE  Cardinality(below(a)) # 0
  <2>1. a \in below(a)
    OBVIOUS
  <2> QED
    BY <1>2, <2>1, FS_EmptySet
<1>4. ASSUME NEW a \in ids, NEW b \in ids, a < b
      PROVE  Cardinality(below(a)) < Cardinality(below(b))
  <2>1. below(a) \in SUBSET below(b) /\ b \in below(b) /\ b \notin below(a)
    <3>1. a \in Nat /\ b \in Nat /\ \A j \in ids : j \in Nat
      OBVIOUS
    <3>2. \A j \in ids : j <= a => j <= b
      BY <1>4, <3>1
    <3>3. ~(b <= a) /\ b <= b
      BY <1>4, <3>1
    <3> QED
      BY <3>2, <3>3
  <2>2. /\ Cardinality(below(a)) <= Cardinality(below(b))
        /\ Cardinality(below(a)) # Cardinality(below(b))
    <3>1. IsFiniteSet(below(b))
      BY <1>2
    <3>2. below(a) # below(b)
      BY <2>1
    <3> HIDE DEF below
    <3> QED
      BY <2>1, <3>1, <3>2, FS_Subset
  <2> QED
    BY <1>2, <2>2
<1> QED
  BY <1>1, <1>2, <1>3, <1>4 DEF Rank

LEMMA RankOnto ==
  ASSUME NEW ids \in SUBSET Nat, IsFiniteSet(ids), NEW k \in 1..Cardinality(ids)
  PROVE  \E id \in ids : Rank(ids, id) = k
<1> DEFINE f == [id \in ids |-> Rank(ids, id)]
           n == Cardinality(ids)
<1>1. f \in [ids -> 1..n]
  BY RankFacts
<1>2. ASSUME NEW a \in ids, NEW b \in ids, f[a] = f[b]
      PROVE  a = b
  <2>1. ~(a < b) /\ ~(b < a)
    BY <1>2, RankFacts
  <2> QED
    BY <2>1
<1>3. f \in Injection(ids, 1..n)
  BY <1>1, <1>2 DEF Injection, IsInjective
<1>4. n \in Nat /\ IsFiniteSet(1..n) /\ Cardinality(1..n) = n
  BY RankFacts, FS_Interval
<1>5. f \in Surjection(ids, 1..n)
  BY <1>3, <1>4, FS_Injection
<1> QED
  BY <1>5 DEF Surjection

-----------------------------------------------------------------------------
\* Consecutive shares meet: each starts where the one before it ends.
LEMMA ShareFacts ==
  ASSUME NEW n \in 1..TOTAL_SLOT_COUNT, NEW i \in 1..n
  PROVE  /\ Share(n, i).from \in Nat
         /\ Share(n, i).end \in Int
         /\ Share(n, 1).from = 0
         /\ Share(n, n).end = TOTAL_SLOT_COUNT - 1
         /\ i < n => Share(n, i + 1).from = Share(n, i).end + 1
<1> DEFINE p == PerCount(n)
<1>1. p \in Nat /\ n \in Nat /\ i \in Nat /\ i - 1 \in Nat
  BY PerCountFacts, TotalAssumption
<1>2. (i - 1) * p \in Nat /\ i * p \in Nat
  BY <1>1, Products
<1>3. (1 - 1) * p = 0
  BY <1>1
<1> QED
  BY <1>1, <1>2, <1>3, TotalAssumption DEF Share

\* Shares of a lower rank end before those of a higher rank start.
LEMMA SharesApart ==
  ASSUME NEW n \in 1..TOTAL_SLOT_COUNT, NEW i \in 1..n, NEW j \in 1..n, i < j
  PROVE  Share(n, i).end < Share(n, j).from /\ Share(n, i).from <= Share(n, j).from
<1> DEFINE p == PerCount(n)
<1>1. p \in Nat /\ n \in Nat /\ i \in Nat /\ j - 1 \in Nat /\ i - 1 \in Nat /\ i <= j - 1
  BY PerCountFacts, TotalAssumption
<1>2. i * p <= (j - 1) * p /\ i * p \in Nat /\ (j - 1) * p \in Nat
  BY <1>1, Products
<1>3. (i - 1) * p <= (j - 1) * p /\ (i - 1) * p \in Nat
  BY <1>1, Products
<1> QED
  BY <1>1, <1>2, <1>3 DEF Share

\* Every slot is in some share: the last one that starts at or below it.
LEMMA SharesCover ==
  ASSUME NEW n \in 1..TOTAL_SLOT_COUNT, NEW s \in AllSlots
  PROVE  \E i \in 1..n : Covers(Share(n, i), s)
<1> DEFINE p == PerCount(n)
           k == s \div p
<1>1. p \in Nat /\ n \in Nat /\ s \in Nat /\ s <= TOTAL_SLOT_COUNT - 1
  BY PerCountFacts, TotalAssumption DEF AllSlots
<1>2. (n - 1) * p \in Nat
  BY <1>1, Products
<1>3. CASE (n - 1) * p <= s
  BY <1>1, <1>2, <1>3 DEF Share, Covers
<1>4. CASE s < (n - 1) * p
  <2>1. p > 0
    <3>1. p = 0 => (n - 1) * p = 0
      BY <1>1
    <3> QED
      BY <1>1, <1>4, <3>1
  <2>2. k \in Nat /\ k * p <= s /\ s < k * p + p
    BY <1>1, <2>1, Z3
  <2>3. k < n - 1
    <3> SUFFICES ASSUME n - 1 <= k
                 PROVE  FALSE
      BY <1>1, <2>2
    <3>1. (n - 1) * p <= k * p
      BY <1>1, <2>2, Products
    <3> QED
      BY <1>1, <1>2, <1>4, <2>2, <3>1, Products
  <2>4. k + 1 \in 1..n /\ k + 1 # n /\ (k + 1) * p = k * p + p
    BY <1>1, <2>2, <2>3, Products
  <2>5. Share(n, k + 1) = [from |-> k * p, end |-> (k + 1) * p - 1]
    BY <2>2, <2>4 DEF Share
  <2>6. Covers(Share(n, k + 1), s)
    BY <1>1, <2>2, <2>4, <2>5, Products DEF Covers
  <2> QED
    BY <2>4, <2>6
<1> QED
  BY <1>1, <1>2, <1>3, <1>4

-----------------------------------------------------------------------------
\* CalculateSlot assigns every slot to exactly one of the servers, whatever
\* Ids are online and however many, up to one per slot.
THEOREM CalculateSlotPartitions ==
  ASSUME NEW ids \in SUBSET Nat, IsFiniteSet(ids), Cardinality(ids) \in 1..TOTAL_SLOT_COUNT
  PROVE  IsPartition(ids, CalculateSlot(ids))
<1> DEFINE n == Cardinality(ids)
<1> SUFFICES ASSUME NEW s \in AllSlots
             PROVE  \E id \in ids : \A other \in ids :
                      Covers(CalculateSlot(ids)[other], s) <=> other = id
  BY DEF IsPartition
<1>1. PICK i \in 1..n : Covers(Share(n, i), s)
  BY SharesCover
<1>2. PICK id \in ids : Rank(ids, id) = i
  BY RankOnto
<1>3. ASSUME NEW other \in ids, other # id
      PROVE  ~Covers(Share(n, Rank(ids, other)), s)
  <2> DEFINE j == Rank(ids, other)
  <2>1. j \in 1..n /\ j # i
    <3>1. other < id \/ id < other
      BY <1>3
    <3> QED
      BY <1>2, <3>1, RankFacts
  <2>2. /\ Share(n, i).from \in Nat /\ Share(n, i).end \in Int
        /\ Share(n, j).from \in Nat /\ Share(n, j).end \in Int
    BY <2>1, ShareFacts
  <2>3. s \in Int
    BY TotalAssumption DEF AllSlots
  <2>4. CASE j < i
    BY <1>1, <2>1, <2>2, <2>3, <2>4, SharesApart DEF Covers
  <2>5. CASE i < j
    BY <1>1, <2>1, <2>2, <2>3, <2>5, SharesApart DEF Covers
  <2> QED
    BY <2>1, <2>4, <2>5
<1> QED
  BY <1>1, <1>2, <1>3 DEF CalculateSlot

\* IsWholeSlot accepts what CalculateSlot computes, so one server that finishes
\* a reassignment gives no other a reason to repeat it.
THEOREM CalculateSlotIsWhole ==
  ASSUME NEW ids \in SUBSET Nat, IsFiniteSet(ids), Cardinality(ids) \in 1..TOTAL_SLOT_COUNT
  PROVE  IsWholeSlot(ids, CalculateSlot(ids))
<1> DEFINE n == Cardinality(ids)
           order == [k \in 1..n |-> CHOOSE id \in ids : Rank(ids, id) = k]
           slot == CalculateSlot(ids)
<1>1. \A k \in 1..n : order[k] \in ids /\ Rank(ids, order[k]) = k
  BY RankOnto
<1>2. \A k \in 1..n : slot[order[k]] = Share(n, k)
  BY <1>1 DEF CalculateSlot
<1>3. order \in Orders(ids)
  BY <1>1 DEF Orders
<1>4. SortedBySlotFrom(slot, order)
  <2> SUFFICES ASSUME NEW i \in 1..n, NEW j \in 1..n, i < j
               PROVE  \/ slot[order[i]].from < slot[order[j]].from
                      \/ /\ slot[order[i]].from = slot[order[j]].from
                         /\ order[i] < order[j]
    BY DEF SortedBySlotFrom
  <2>1. /\ slot[order[i]].from \in Nat /\ slot[order[j]].from \in Nat
        /\ slot[order[i]].from <= slot[order[j]].from
    BY <1>2, ShareFacts, SharesApart
  <2>2. order[i] < order[j]
    <3>1. ASSUME NEW a \in ids, NEW b \in ids, Rank(ids, a) < Rank(ids, b)
          PROVE  a < b
      <4>1. a \in Nat /\ b \in Nat /\ a # b
        BY <3>1, RankFacts
      <4>2. ~(b < a)
        BY <3>1, RankFacts
      <4> QED
        BY <4>1, <4>2
    <3>2. /\ order[i] \in ids /\ Rank(ids, order[i]) = i
          /\ order[j] \in ids /\ Rank(ids, order[j]) = j
      BY <1>1
    <3> HIDE DEF order
    <3> QED
      BY <3>1, <3>2
  <2> QED
    BY <2>1, <2>2
<1>5. Chained(slot, order, n)
  <2>1. n \in 1..n /\ 1 \in 1..n
    OBVIOUS
  <2>2. IndexAfter(slot, order, n) = TOTAL_SLOT_COUNT
    <3>1. slot[order[n]].end = TOTAL_SLOT_COUNT - 1
      BY <1>2, <2>1, ShareFacts
    <3>2. n # 0
      BY <2>1
    <3> HIDE DEF slot, order, n
    <3> QED
      BY <3>1, <3>2, TotalAssumption DEF IndexAfter
  <2>3. ASSUME NEW k \in 1..n
        PROVE  slot[order[k]].from = IndexAfter(slot, order, k - 1)
    <3>1. CASE k = 1
      BY <1>2, <2>1, <3>1, ShareFacts DEF IndexAfter
    <3>2. CASE k # 1
      <4>1. k - 1 \in 1..n /\ k - 1 < n /\ (k - 1) + 1 = k
        BY <3>2
      <4>2. Share(n, (k - 1) + 1).from = Share(n, k - 1).end + 1
        BY <4>1, ShareFacts
      <4> QED
        BY <1>2, <4>1, <4>2 DEF IndexAfter
    <3> QED
      BY <3>1, <3>2
  <2> QED
    BY <2>2, <2>3 DEF Chained
<1> QED
  BY <1>3, <1>4, <1>5 DEF IsWholeSlot

\* The promise of an even load: two servers' shares differ by at most 2n - 1.
THEOREM CalculateSlotSpreads ==
  ASSUME NEW ids \in SUBSET Nat, IsFiniteSet(ids), Cardinality(ids) \in 1..TOTAL_SLOT_COUNT
  PROVE  IsSpread(ids, CalculateSlot(ids))
<1> DEFINE n == Cardinality(ids)
           p == PerCount(n)
           size(i) == Share(n, i).end - Share(n, i).from + 1
<1>1. /\ n \in Nat \ {0} /\ p \in Nat /\ n * p \in Nat
      /\ n * p <= TOTAL_SLOT_COUNT - n /\ TOTAL_SLOT_COUNT - n < n * p + n
  BY PerCountFacts, Products, TotalAssumption
<1>2. \A i \in 1..n : i # n => size(i) = p
  <2> SUFFICES ASSUME NEW i \in 1..n, i # n
               PROVE  size(i) = p
    OBVIOUS
  <2>1. i - 1 \in Nat /\ i \in Nat /\ (i - 1) + 1 = i
    BY <1>1
  <2>2. i * p = (i - 1) * p + p /\ (i - 1) * p \in Nat
    BY <1>1, <2>1, Products
  <2> QED
    BY <1>1, <2>2 DEF Share
<1>3. size(n) \in p..(p + 2 * n - 1)
  <2>1. n - 1 \in Nat /\ (n - 1) + 1 = n
    BY <1>1
  <2>2. n * p = (n - 1) * p + p /\ (n - 1) * p \in Nat
    BY <1>1, <2>1, Products
  <2>3. size(n) = TOTAL_SLOT_COUNT - (n - 1) * p
    BY <1>1, <2>2, TotalAssumption DEF Share
  <2> QED
    BY <1>1, <2>2, <2>3, TotalAssumption
<1>4. \A i \in 1..n : size(i) \in p..(p + 2 * n - 1)
  BY <1>1, <1>2, <1>3
<1>5. ASSUME NEW a \in ids, NEW b \in ids
      PROVE  size(Rank(ids, a)) - size(Rank(ids, b)) <= 2 * n - 1
  <2>1. /\ size(Rank(ids, a)) \in p..(p + 2 * n - 1)
        /\ size(Rank(ids, b)) \in p..(p + 2 * n - 1)
    BY <1>4, RankFacts
  <2> HIDE DEF size
  <2> QED
    BY <1>1, <2>1
<1> QED
  BY <1>5 DEF IsSpread, CalculateSlot
=============================================================================
