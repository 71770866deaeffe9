--------------------------- MODULE SlotTableProofs ---------------------------
(***************************************************************************)
(* Proofs about SlotTable for every number of slots, rows and changes: a   *)
(* reassignment repairs the table, and IsWholeSlot accepts exactly the     *)
(* partitions, as long as no server has an empty share.                    *)
(***************************************************************************)
EXTENDS SlotTable, SlotsProofs, WellFoundedInduction

\* The interval of every one of the Ids has a slot in it.
NonEmpty(ids, slots) ==
  \A id \in ids : /\ slots[id].from \in Nat /\ slots[id].end \in Nat
                  /\ slots[id].from <= slots[id].end
                  /\ slots[id].end <= TOTAL_SLOT_COUNT - 1

-----------------------------------------------------------------------------
\* A property of natural numbers that some number has, some least one has.
LEMMA LeastNat ==
  ASSUME NEW S \in SUBSET Nat, S # {}
  PROVE  \E x \in S : \A y \in S : x <= y
<1>1. PICK x \in S : \A y \in S : ~(<<y, x>> \in OpToRel(<, Nat))
  BY NatLessThanWellFounded, WFMin
<1>2. ASSUME NEW y \in S
      PROVE  x <= y
  <2>1. x \in Nat /\ y \in Nat
    OBVIOUS
  <2>2. y < x => <<y, x>> \in OpToRel(<, Nat)
    BY <2>1 DEF OpToRel
  <2>3. ~(y < x)
    BY <1>1, <2>2
  <2> QED
    BY <2>1, <2>3
<1> QED
  BY <1>2

\* A set of Ids listed without repetition by as many numbers is listed completely.
LEMMA OrderOnto ==
  ASSUME NEW ids, IsFiniteSet(ids), NEW order \in Orders(ids), NEW id \in ids
  PROVE  \E k \in 1..Cardinality(ids) : order[k] = id
<1> DEFINE n == Cardinality(ids)
<1>1. n \in Nat /\ Cardinality(1..n) = n
  BY FS_CardinalityType, FS_Interval
<1>2. order \in Injection(1..n, ids)
  BY DEF Orders, Injection, IsInjective
<1>3. order \in Surjection(1..n, ids)
  BY <1>1, <1>2, FS_Injection
<1> QED
  BY <1>3 DEF Surjection

-----------------------------------------------------------------------------
\* What IsWholeSlot accepts is a partition: the owner of a slot is the first row of
\* the chain that does not end below it.
LEMMA WholeIsPartition ==
  ASSUME NEW ids \in SUBSET Nat, IsFiniteSet(ids), NEW slots, NonEmpty(ids, slots),
         IsWholeSlot(ids, slots)
  PROVE  IsPartition(ids, slots)
<1> DEFINE n == Cardinality(ids)
<1>1. PICK order \in Orders(ids) : SortedBySlotFrom(slots, order) /\ Chained(slots, order, n)
  BY DEF IsWholeSlot
<1> DEFINE F(k) == slots[order[k]].from
           E(k) == slots[order[k]].end
<1>2. n \in Nat
  BY FS_CardinalityType
<1>3. \A k \in 1..n : /\ order[k] \in ids /\ F(k) \in Nat /\ E(k) \in Nat
                      /\ F(k) <= E(k) /\ E(k) <= TOTAL_SLOT_COUNT - 1
  <2>1. \A k \in 1..n : order[k] \in ids
    BY DEF Orders
  <2> QED
    BY <2>1 DEF NonEmpty
<1>4. n # 0 /\ E(n) = TOTAL_SLOT_COUNT - 1
  <2>1. IndexAfter(slots, order, n) = TOTAL_SLOT_COUNT
    BY <1>1 DEF Chained
  <2>2. n # 0
    BY <2>1, TotalAssumption DEF IndexAfter
  <2>3. E(n) + 1 = TOTAL_SLOT_COUNT /\ n \in 1..n
    BY <1>2, <2>1, <2>2 DEF IndexAfter
  <2> QED
    BY <1>3, <2>2, <2>3, TotalAssumption
<1>5. F(1) = 0 /\ \A k \in 2..n : F(k) = E(k - 1) + 1
  <2>1. \A k \in 1..n : F(k) = IndexAfter(slots, order, k - 1)
    BY <1>1 DEF Chained
  <2>2. 1 \in 1..n /\ 1 - 1 = 0
    BY <1>2, <1>4
  <2>3. F(1) = 0
    BY <2>1, <2>2 DEF IndexAfter
  <2>4. ASSUME NEW k \in 2..n
        PROVE  F(k) = E(k - 1) + 1
    <3>1. k \in 1..n /\ k - 1 # 0
      BY <1>2
    <3> QED
      BY <2>1, <3>1 DEF IndexAfter
  <2> QED
    BY <2>3, <2>4
<1>6. ASSUME NEW i \in 1..n, NEW j \in 1..n, i < j
      PROVE  E(i) < F(j)
  <2>1. i + 1 \in 2..n /\ (i + 1) - 1 = i /\ i + 1 \in 1..n
    BY <1>2, <1>6
  <2>2. F(i + 1) = E(i) + 1
    BY <1>5, <2>1
  <2>3. i + 1 = j \/ F(i + 1) <= F(j)
    <3>1. i + 1 = j \/ i + 1 < j
      BY <1>2, <1>6
    <3>2. DOMAIN order = 1..n
      BY DEF Orders
    <3>3. i + 1 < j => F(i + 1) < F(j) \/ F(i + 1) = F(j)
      BY <1>1, <2>1, <3>2 DEF SortedBySlotFrom
    <3> HIDE DEF F
    <3> QED
      BY <1>3, <2>1, <3>1, <3>3
  <2> HIDE DEF F, E
  <2> QED
    BY <1>3, <2>1, <2>2, <2>3
<1> SUFFICES ASSUME NEW s \in AllSlots
             PROVE  \E id \in ids : \A other \in ids : Covers(slots[other], s) <=> other = id
  BY DEF IsPartition
<1>7. s \in Nat /\ s <= TOTAL_SLOT_COUNT - 1
  BY TotalAssumption DEF AllSlots
<1> DEFINE reaching == {k \in 1..n : s <= E(k)}
<1>8. PICK k \in reaching : \A j \in reaching : k <= j
  <2>1. n \in reaching
    BY <1>2, <1>4, <1>7, TotalAssumption
  <2>2. reaching \in SUBSET Nat /\ reaching # {}
    BY <2>1
  <2> HIDE DEF reaching
  <2> QED
    BY <2>2, LeastNat
<1>9. k \in 1..n /\ s <= E(k) /\ F(k) <= s
  <2>1. k \in 1..n /\ s <= E(k)
    OBVIOUS
  <2>2. CASE k = 1
    BY <1>5, <1>7, <2>1, <2>2
  <2>3. CASE k # 1
    <3>1. k \in 2..n /\ k - 1 \in 1..n /\ ~(k <= k - 1)
      BY <1>2, <2>1, <2>3
    <3>2. ~(s <= E(k - 1))
      BY <1>8, <3>1
    <3>3. F(k) = E(k - 1) + 1 /\ E(k - 1) \in Nat
      BY <1>3, <1>5, <3>1
    <3> HIDE DEF F, E
    <3> QED
      BY <1>7, <2>1, <3>2, <3>3
  <2> QED
    BY <2>1, <2>2, <2>3
<1>10. ASSUME NEW other \in ids, other # order[k]
       PROVE  ~Covers(slots[other], s)
  <2>1. PICK j \in 1..n : order[j] = other
    BY OrderOnto
  <2>2. j < k \/ k < j
    BY <1>9, <1>10, <2>1
  <2>3. j < k => E(j) < F(k)
    BY <1>6, <1>9
  <2>4. k < j => E(k) < F(j)
    BY <1>6, <1>9
  <2>5. F(j) \in Nat /\ E(j) \in Nat /\ F(k) \in Nat /\ E(k) \in Nat
    BY <1>3, <1>9
  <2> HIDE DEF F, E
  <2>6. ~(F(j) <= s /\ s <= E(j))
    BY <1>7, <1>9, <2>2, <2>3, <2>4, <2>5
  <2> QED
    BY <2>1, <2>6 DEF Covers, F, E
<1>11. order[k] \in ids /\ Covers(slots[order[k]], s)
  BY <1>3, <1>9 DEF Covers
<1> QED
  BY <1>10, <1>11

\* A partition into intervals is a chain in the order of their starts, which are as
\* many as the Ids.
LEMMA PartitionIsWhole ==
  ASSUME NEW ids \in SUBSET Nat, IsFiniteSet(ids), NEW slots, NonEmpty(ids, slots),
         IsPartition(ids, slots)
  PROVE  IsWholeSlot(ids, slots)
<1> DEFINE n == Cardinality(ids)
           from(id) == slots[id].from
           end(id) == slots[id].end
           froms == {from(id) : id \in ids}
<1>1. n \in Nat
  BY FS_CardinalityType
<1>2. \A id \in ids : /\ from(id) \in Nat /\ end(id) \in Nat
                      /\ from(id) <= end(id) /\ end(id) <= TOTAL_SLOT_COUNT - 1
  BY DEF NonEmpty
<1>3. \A s \in AllSlots : /\ \E id \in ids : from(id) <= s /\ s <= end(id)
                          /\ \A a, b \in ids : from(a) <= s /\ s <= end(a) /\ from(b) <= s /\ s <= end(b) => a = b
  <2> SUFFICES ASSUME NEW s \in AllSlots
               PROVE  /\ \E id \in ids : from(id) <= s /\ s <= end(id)
                      /\ \A a, b \in ids : from(a) <= s /\ s <= end(a) /\ from(b) <= s /\ s <= end(b) => a = b
    OBVIOUS
  <2>1. \A id \in ids : Covers(slots[id], s) <=> from(id) <= s /\ s <= end(id)
    BY DEF Covers
  <2>2. PICK owner \in ids : \A other \in ids : Covers(slots[other], s) <=> other = owner
    BY DEF IsPartition
  <2> HIDE DEF from, end
  <2>3. \E id \in ids : from(id) <= s /\ s <= end(id)
    BY <2>1, <2>2
  <2>4. ASSUME NEW a \in ids, from(a) <= s /\ s <= end(a)
        PROVE  a = owner
    BY <2>1, <2>2, <2>4
  <2> QED
    BY <2>3, <2>4
<1>4. \A s \in Nat : s <= TOTAL_SLOT_COUNT - 1 => s \in AllSlots
  BY TotalAssumption DEF AllSlots
<1>5. ASSUME NEW a \in ids, NEW b \in ids, a # b
      PROVE  /\ from(a) # from(b)
             /\ from(a) < from(b) => end(a) < from(b)
  <2> HIDE DEF from, end
  <2>1. /\ from(a) \in Nat /\ end(a) \in Nat /\ from(a) <= end(a)
        /\ from(b) \in Nat /\ end(b) \in Nat /\ from(b) <= end(b) /\ end(b) <= TOTAL_SLOT_COUNT - 1
    BY <1>2
  <2>2. from(b) \in AllSlots
    BY <1>4, <2>1, TotalAssumption
  <2>3. ~(from(a) <= from(b) /\ from(b) <= end(a) /\ from(b) <= from(b) /\ from(b) <= end(b))
    BY <1>3, <1>5, <2>2
  <2> QED
    BY <2>1, <2>3
<1>6. IsFiniteSet(froms) /\ Cardinality(froms) = n /\ froms \in SUBSET Nat
  <2> DEFINE f == [id \in ids |-> from(id)]
  <2>1. froms \in SUBSET Nat
    BY <1>2
  <2>2. f \in Bijection(ids, froms)
    <3>1. f \in [ids -> froms]
      OBVIOUS
    <3>2. \A a, b \in ids : f[a] = f[b] => a = b
      BY <1>5
    <3>3. \A t \in froms : \E id \in ids : f[id] = t
      OBVIOUS
    <3> HIDE DEF f, froms
    <3> QED
      BY <3>1, <3>2, <3>3 DEF Bijection, Injection, Surjection, IsInjective
  <2>3. ExistsBijection(ids, froms)
    BY <2>2 DEF ExistsBijection
  <2> QED
    BY <2>1, <2>3, FS_Bijection
<1> DEFINE order == [k \in 1..n |-> CHOOSE id \in ids : Rank(froms, from(id)) = k]
<1>7. \A k \in 1..n : order[k] \in ids /\ Rank(froms, from(order[k])) = k
  <2> SUFFICES ASSUME NEW k \in 1..n
               PROVE  order[k] \in ids /\ Rank(froms, from(order[k])) = k
    OBVIOUS
  <2>1. \E t \in froms : Rank(froms, t) = k
    <3> HIDE DEF froms
    <3> QED
      BY <1>6, RankOnto
  <2>2. \E id \in ids : Rank(froms, from(id)) = k
    BY <2>1
  <2> HIDE DEF from, froms
  <2> QED
    BY <2>2
<1>8. \A t, u \in froms : /\ Rank(froms, t) \in 1..n
                          /\ Rank(froms, t) < Rank(froms, u) => t < u
                          /\ Rank(froms, t) = Rank(froms, u) => t = u
  <2> SUFFICES ASSUME NEW t \in froms, NEW u \in froms
               PROVE  /\ Rank(froms, t) \in 1..n
                      /\ Rank(froms, t) < Rank(froms, u) => t < u
                      /\ Rank(froms, t) = Rank(froms, u) => t = u
    OBVIOUS
  <2> HIDE DEF froms, order
  <2>1. /\ Rank(froms, t) \in 1..n /\ Rank(froms, u) \in 1..n
        /\ t < u => Rank(froms, t) < Rank(froms, u)
        /\ u < t => Rank(froms, u) < Rank(froms, t)
    BY <1>6, RankFacts
  <2>2. t \in Nat /\ u \in Nat
    BY <1>6
  <2> QED
    BY <1>1, <2>1, <2>2
<1> DEFINE F(k) == from(order[k])
           E(k) == end(order[k])
<1>9. \A k \in 1..n : /\ F(k) \in froms /\ Rank(froms, F(k)) = k
                      /\ F(k) \in Nat /\ E(k) \in Nat /\ F(k) <= E(k) /\ E(k) <= TOTAL_SLOT_COUNT - 1
  <2> HIDE DEF order
  <2> QED
    BY <1>2, <1>7
<1>10. order \in Orders(ids)
  <2>1. order \in [1..n -> ids]
    BY <1>7
  <2>2. \A i, j \in 1..n : order[i] = order[j] => i = j
    <3> HIDE DEF order, froms, from
    <3> QED
      BY <1>7
  <2> HIDE DEF order
  <2> QED
    BY <2>1, <2>2 DEF Orders
<1> HIDE DEF order
<1>11. ASSUME NEW i \in 1..n, NEW j \in 1..n, i < j
       PROVE  F(i) < F(j) /\ E(i) < F(j)
  <2>1. F(i) < F(j)
    <3> HIDE DEF F, froms
    <3> QED
      BY <1>8, <1>9, <1>11
  <2>2. order[i] \in ids /\ order[j] \in ids /\ order[i] # order[j]
    <3>1. i # j
      BY <1>1, <1>11
    <3> QED
      BY <1>7, <1>10, <3>1 DEF Orders
  <2> QED
    BY <1>5, <2>1, <2>2
<1>12. ASSUME NEW s \in Nat, s <= TOTAL_SLOT_COUNT - 1
       PROVE  \E j \in 1..n : F(j) <= s /\ s <= E(j)
  <2>1. PICK id \in ids : from(id) <= s /\ s <= end(id)
    BY <1>3, <1>4, <1>12
  <2>2. PICK j \in 1..n : order[j] = id
    BY <1>10, OrderOnto
  <2> QED
    BY <2>1, <2>2
<1> HIDE DEF from, end, froms, F, E, n
<1>13. n # 0
  <2>1. 0 <= TOTAL_SLOT_COUNT - 1
    BY TotalAssumption
  <2>2. PICK j \in 1..n : TRUE
    BY <1>12, <2>1
  <2> QED
    BY <1>1, <2>2
<1>14. F(1) = 0
  <2>1. PICK j \in 1..n : F(j) <= 0
    <3>1. 0 \in Nat /\ 0 <= TOTAL_SLOT_COUNT - 1
      BY TotalAssumption
    <3> QED
      BY <1>12, <3>1
  <2>2. 1 \in 1..n
    BY <1>1, <1>13
  <2>3. j = 1 \/ 1 < j
    BY <1>1, <2>1
  <2> QED
    BY <1>9, <1>11, <2>1, <2>2, <2>3
<1>15. ASSUME NEW k \in 2..n
       PROVE  F(k) = E(k - 1) + 1
  <2>1. k \in 1..n /\ k - 1 \in 1..n /\ k - 1 < k
    BY <1>1
  <2>2. E(k - 1) < F(k)
    BY <1>11, <2>1
  <2>3. /\ F(k) \in Nat /\ E(k) \in Nat /\ F(k) <= E(k) /\ E(k) <= TOTAL_SLOT_COUNT - 1
        /\ F(k - 1) \in Nat /\ E(k - 1) \in Nat /\ F(k - 1) <= E(k - 1)
    BY <1>9, <2>1
  <2> SUFFICES ASSUME E(k - 1) + 1 < F(k)
               PROVE  FALSE
    BY <2>2, <2>3
  <2> DEFINE s == E(k - 1) + 1
  <2>4. s \in Nat /\ s <= TOTAL_SLOT_COUNT - 1
    BY <2>3, TotalAssumption
  <2> HIDE DEF s
  <2>5. PICK j \in 1..n : F(j) <= s /\ s <= E(j)
    BY <1>12, <2>4
  <2>6. F(j) \in Nat /\ E(j) \in Nat
    BY <1>9
  <2>7. CASE j < k - 1
    BY <1>11, <2>1, <2>3, <2>5, <2>6, <2>7 DEF s
  <2>8. CASE j = k - 1
    BY <2>3, <2>5, <2>8 DEF s
  <2>9. CASE j = k
    BY <2>3, <2>5, <2>9 DEF s
  <2>10. CASE k < j
    BY <1>11, <2>1, <2>3, <2>5, <2>6, <2>10 DEF s
  <2> QED
    BY <1>1, <2>1, <2>7, <2>8, <2>9, <2>10
<1>16. E(n) = TOTAL_SLOT_COUNT - 1
  <2> DEFINE s == TOTAL_SLOT_COUNT - 1
  <2>1. s \in Nat /\ n \in 1..n
    BY <1>1, <1>13, TotalAssumption
  <2>2. PICK j \in 1..n : F(j) <= s /\ s <= E(j)
    BY <1>12, <2>1
  <2>3. /\ F(j) \in Nat /\ E(j) \in Nat
        /\ F(n) \in Nat /\ E(n) \in Nat /\ F(n) <= E(n) /\ E(n) <= s
    BY <1>9, <2>1
  <2>4. j = n \/ j < n
    BY <1>1, <2>1
  <2>5. j < n => E(j) < F(n)
    BY <1>11, <2>1
  <2> HIDE DEF s
  <2>6. E(n) = s
    BY <2>1, <2>2, <2>3, <2>4, <2>5
  <2> QED
    BY <2>6 DEF s
<1>17. SortedBySlotFrom(slots, order)
  <2>1. DOMAIN order = 1..n
    BY <1>10 DEF Orders, n
  <2> QED
    BY <1>11, <2>1 DEF SortedBySlotFrom, F, from
<1>18. Chained(slots, order, n)
  <2>1. IndexAfter(slots, order, n) = TOTAL_SLOT_COUNT
    BY <1>13, <1>16, TotalAssumption DEF IndexAfter, E, end
  <2>2. ASSUME NEW k \in 1..n
        PROVE  slots[order[k]].from = IndexAfter(slots, order, k - 1)
    <3>1. CASE k = 1
      BY <1>14, <3>1 DEF IndexAfter, F, from
    <3>2. CASE k # 1
      <4>1. k \in 2..n /\ k - 1 # 0
        BY <1>1, <3>2
      <4>2. F(k) = E(k - 1) + 1
        BY <1>15, <4>1
      <4> QED
        BY <4>1, <4>2 DEF IndexAfter, F, E, from, end
    <3> QED
      BY <3>1, <3>2
  <2> QED
    BY <2>1, <2>2 DEF Chained
<1> QED
  BY <1>10, <1>17, <1>18 DEF IsWholeSlot, n

-----------------------------------------------------------------------------
\* Types, and on the way that no share is empty while there are at least two slots for
\* each server.
LEMMA CalculateSlotTypes ==
  ASSUME NEW ids \in SUBSET Nat, IsFiniteSet(ids), Cardinality(ids) \in 1..TOTAL_SLOT_COUNT,
         NEW id \in ids
  PROVE  /\ CalculateSlot(ids)[id] \in Interval
         /\ 2 * Cardinality(ids) <= TOTAL_SLOT_COUNT =>
              CalculateSlot(ids)[id].from <= CalculateSlot(ids)[id].end
<1> DEFINE n == Cardinality(ids)
           i == Rank(ids, id)
           p == PerCount(n)
<1>1. i \in 1..n
  BY RankFacts
<1>2. /\ n \in Nat \ {0} /\ p \in Nat /\ n * p <= TOTAL_SLOT_COUNT - n
      /\ TOTAL_SLOT_COUNT - n < n * p + n /\ n * p \in Nat
  BY PerCountFacts, Products, TotalAssumption
<1>3. CalculateSlot(ids)[id] = Share(n, i)
  BY DEF CalculateSlot
<1> HIDE DEF n, i, p
<1>4. i - 1 \in Nat /\ i \in Nat /\ i - 1 <= n /\ i <= n /\ (i - 1) + 1 = i
  BY <1>1, <1>2
<1>5. /\ (i - 1) * p \in Nat /\ i * p \in Nat /\ (i - 1) * p <= n * p
      /\ i * p <= n * p /\ i * p = (i - 1) * p + p
  BY <1>2, <1>4, Products
<1>6. Share(n, i) = [from |-> (i - 1) * p,
                     end |-> IF i = n THEN TOTAL_SLOT_COUNT - 1 ELSE i * p - 1]
  BY DEF Share, p
<1>7. Share(n, i) \in Interval
  BY <1>2, <1>5, <1>6, TotalAssumption DEF Interval
<1>8. 2 * n <= TOTAL_SLOT_COUNT => p >= 1
  <2>1. p = 0 => n * p = 0
    BY <1>2
  <2> QED
    BY <1>2, <2>1, TotalAssumption
<1>9. 2 * n <= TOTAL_SLOT_COUNT => Share(n, i).from <= Share(n, i).end
  BY <1>2, <1>5, <1>6, <1>8, TotalAssumption
<1> QED
  BY <1>3, <1>7, <1>9 DEF n

\* The servers online are some of the rows, and not more than there are slots.
LEMMA OnlineFacts ==
  ASSUME TypeOK
  PROVE  /\ online \in SUBSET Nat /\ IsFiniteSet(online)
         /\ Cardinality(online) \in 0..MaxServers
         /\ online # {} => Cardinality(online) \in 1..TOTAL_SLOT_COUNT
<1>1. Len(slot) \in Nat /\ Ids = 1..Len(slot) /\ Len(slot) <= MaxServers
  BY DEF TypeOK, Ids
<1>2. IsFiniteSet(1..Len(slot)) /\ Cardinality(1..Len(slot)) = Len(slot)
  <2>1. \A m \in Nat : IsFiniteSet(1..m) /\ Cardinality(1..m) = m
    BY FS_Interval
  <2> QED
    BY <1>1, <2>1
<1>3. /\ IsFiniteSet(online) /\ Cardinality(online) \in Nat
      /\ Cardinality(online) <= Len(slot)
  BY <1>1, <1>2, FS_Subset, FS_CardinalityType DEF TypeOK
<1>4. online # {} => Cardinality(online) # 0
  BY <1>3, FS_EmptySet
<1>5. online \in SUBSET Nat
  BY <1>1 DEF TypeOK
<1> QED
  BY <1>1, <1>3, <1>4, <1>5, SlotTableAssumption, TotalAssumption

\* Types are kept by each action.
LEMMA ReslotTypes ==
  ASSUME TypeOK, Reslot
  PROVE  TypeOK'
<1>1. \A id \in online : CalculateSlot(online)[id] \in Interval
  BY OnlineFacts, CalculateSlotTypes DEF Reslot
<1>2. Len(slot) \in Nat /\ Ids = 1..Len(slot) /\ \A id \in Ids : slot[id] \in Interval
  BY DEF TypeOK, Ids
<1>3. \A id \in Ids : (IF id \in online THEN CalculateSlot(online)[id] ELSE slot[id]) \in Interval
  BY <1>1, <1>2
<1>4. slot' \in [1..Len(slot) -> Interval]
  BY <1>2, <1>3 DEF Reslot
<1>5. slot' \in Seq(Interval) /\ Len(slot') = Len(slot)
  BY <1>2, <1>4
<1>6. Ids' = Ids
  BY <1>2, <1>5 DEF Ids
<1> QED
  BY <1>5, <1>6 DEF TypeOK, Reslot

LEMMA InsertTypes ==
  ASSUME TypeOK, Insert
  PROVE  TypeOK'
<1>1. NewRowSlots \in Interval
  BY TotalAssumption DEF NewRowSlots, Interval
<1>2. slot' \in Seq(Interval) /\ Len(slot') = Len(slot) + 1 /\ Len(slot) \in Nat
  BY <1>1 DEF TypeOK, Insert
<1>3. Ids = 1..Len(slot) /\ Ids' = 1..Len(slot')
  BY <1>2 DEF TypeOK, Ids
<1>4. online' \in SUBSET Ids'
  <2>1. online' = online \cup {Len(slot) + 1}
    BY DEF Insert
  <2>2. \A id \in online : id \in 1..Len(slot)
    BY <1>3 DEF TypeOK
  <2>3. \A id \in online' : id \in 1..Len(slot) + 1
    BY <1>2, <2>1, <2>2
  <2> QED
    BY <1>2, <1>3, <2>3
<1>5. Len(slot') <= MaxServers
  BY <1>2, SlotTableAssumption DEF Insert
<1> QED
  BY <1>2, <1>4, <1>5 DEF TypeOK, Insert

LEMMA ChangeTypes ==
  ASSUME TypeOK, NEW id \in Ids, Lapse(id) \/ Heartbeat(id)
  PROVE  TypeOK'
<1>1. slot' = slot /\ Ids' = Ids /\ online' \in SUBSET Ids
  BY DEF TypeOK, Lapse, Heartbeat, Ids
<1>2. changes' \in 0..MaxChanges
  BY SlotTableAssumption DEF TypeOK, Lapse, Heartbeat
<1> QED
  BY <1>1, <1>2 DEF TypeOK

LEMMA TypeInductive == TypeOK /\ [Next]_tableVars => TypeOK'
<1> SUFFICES ASSUME TypeOK, [Next]_tableVars
             PROVE  TypeOK'
  OBVIOUS
<1>1. CASE Insert
  BY <1>1, InsertTypes
<1>2. CASE Reslot
  BY <1>2, ReslotTypes
<1>3. CASE \E id \in Ids : Lapse(id) \/ Heartbeat(id)
  BY <1>3, ChangeTypes
<1>4. CASE UNCHANGED tableVars
  BY <1>4 DEF TypeOK, Ids, tableVars
<1> QED
  BY <1>1, <1>2, <1>3, <1>4 DEF Next

LEMMA TypeInit == Init => TypeOK
<1> SUFFICES ASSUME Init
             PROVE  TypeOK
  OBVIOUS
<1>1. slot \in Seq(Interval) /\ Len(slot) = 0
  BY DEF Init
<1> QED
  BY <1>1, SlotTableAssumption, TotalAssumption DEF Init, TypeOK

\* Every interval of the table is one of slots, whoever comes and goes (ot_server, as
\* RegisterOrUpdate and SaveAsync write it).
THEOREM TypeCorrect == Spec => []TypeOK
<1> QED
  BY TypeInit, TypeInductive, PTL DEF Spec

-----------------------------------------------------------------------------
\* From CalculateSlot to the table it is written to.
LEMMA ReslotStep ==
  ASSUME TypeOK, Reslot
  PROVE  IsPartition(online', slot') /\ IsSpread(online', slot')
<1>1. /\ IsPartition(online, CalculateSlot(online))
      /\ IsSpread(online, CalculateSlot(online))
  BY OnlineFacts, CalculateSlotPartitions, CalculateSlotSpreads DEF Reslot
<1>2. online' = online /\ \A id \in online : slot'[id] = CalculateSlot(online)[id]
  BY DEF Reslot, TypeOK
<1>3. IsPartition(online', slot')
  BY <1>1, <1>2 DEF IsPartition
<1>4. IsSpread(online', slot')
  BY <1>1, <1>2 DEF IsSpread
<1> QED
  BY <1>3, <1>4

\* TryReslot by a server nobody interrupts: every slot has one server, and none has many
\* more than another, whatever the table was before.
THEOREM ReslotRepairsCorrect == Spec => ReslotRepairs
<1>1. TypeOK /\ [Next]_tableVars => [Reslot => IsPartition(online', slot') /\ IsSpread(online', slot')]_tableVars
  BY ReslotStep
<1> QED
  BY <1>1, TypeInit, TypeInductive, PTL DEF Spec, ReslotRepairs

-----------------------------------------------------------------------------
\* With two slots for each server, no row ever has an empty interval.
LEMMA NonEmptyInductive ==
  ASSUME 2 * MaxServers <= TOTAL_SLOT_COUNT,
         TypeOK, \A id \in Ids : slot[id].from <= slot[id].end, [Next]_tableVars
  PROVE  (\A id \in Ids : slot[id].from <= slot[id].end)'
<1>1. CASE Insert
  <2>1. Ids = 1..Len(slot) /\ Ids' = 1..Len(slot) + 1 /\ Len(slot) \in Nat
    BY <1>1 DEF TypeOK, Ids, Insert
  <2>2. \A id \in Ids : slot'[id] = slot[id]
    BY <1>1, <2>1 DEF TypeOK, Insert
  <2>3. slot'[Len(slot) + 1] = [from |-> 0, end |-> 0]
    BY <1>1 DEF TypeOK, Insert, NewRowSlots
  <2> QED
    BY <2>1, <2>2, <2>3
<1>2. CASE Reslot
  <2>1. Ids' = Ids /\ \A id \in Ids : slot'[id] = IF id \in online THEN CalculateSlot(online)[id] ELSE slot[id]
    BY <1>2 DEF TypeOK, Reslot, Ids
  <2>2. 2 * Cardinality(online) <= TOTAL_SLOT_COUNT
    BY OnlineFacts, SlotTableAssumption, TotalAssumption
  <2>3. \A id \in online : CalculateSlot(online)[id].from <= CalculateSlot(online)[id].end
    BY <1>2, <2>2, OnlineFacts, CalculateSlotTypes DEF Reslot
  <2> QED
    BY <2>1, <2>3
<1>3. CASE \E id \in Ids : Lapse(id) \/ Heartbeat(id)
  BY <1>3 DEF Lapse, Heartbeat, Ids
<1>4. CASE UNCHANGED tableVars
  BY <1>4 DEF Ids, tableVars
<1> QED
  BY <1>1, <1>2, <1>3, <1>4 DEF Next

\* Both directions, for the servers online.
LEMMA WholeExact ==
  ASSUME TypeOK, \A id \in Ids : slot[id].from <= slot[id].end
  PROVE  WholeIffPartition
<1>1. NonEmpty(online, slot)
  <2>1. \A id \in online : slot[id] \in Interval /\ slot[id].from <= slot[id].end
    BY DEF TypeOK, Ids
  <2> QED
    BY <2>1, TotalAssumption DEF NonEmpty, Interval
<1> QED
  BY <1>1, OnlineFacts, WholeIsPartition, PartitionIsWhole DEF WholeIffPartition

\* IsWholeSlot never lets a table pass in which a slot has no server or two, and never
\* has a good one reassigned.  With more servers than half the slots, some shares are
\* empty, and one that comes back with such a share may have a good one reassigned.
THEOREM WholeCorrect ==
  ASSUME 2 * MaxServers <= TOTAL_SLOT_COUNT
  PROVE  Spec => []WholeIffPartition
<1> DEFINE Inv == TypeOK /\ \A id \in Ids : slot[id].from <= slot[id].end
<1>1. Init => Inv
  BY TypeInit DEF Init, Ids
<1>2. Inv /\ [Next]_tableVars => Inv'
  BY TypeInductive, NonEmptyInductive
<1>3. Inv => WholeIffPartition
  BY WholeExact
<1> QED
  BY <1>1, <1>2, <1>3, PTL DEF Spec
=============================================================================
