-------------------------------- MODULE Slots -------------------------------
(***************************************************************************)
(* The division of the task slots among the servers: CalculateSlot and     *)
(* IsWholeSlot of DiscoveryFromDb, and the test of GetNextJob for the      *)
(* server a slot belongs to.  Rows of ot_server are known by their Id, the *)
(* order of insertion; an assignment is a function from Ids to intervals.  *)
(***************************************************************************)
EXTENDS Integers, Sequences, FiniteSets

CONSTANT TOTAL_SLOT_COUNT     \* 16384 in the code

ASSUME TotalAssumption == TOTAL_SLOT_COUNT \in Nat \ {0}

AllSlots == 0..(TOTAL_SLOT_COUNT - 1)

Interval == [from : 0..TOTAL_SLOT_COUNT, end : -1..(TOTAL_SLOT_COUNT - 1)]

\* A row as it is inserted: SlotFrom and SlotEnd have their default value.
NewRowSlots == [from |-> 0, end |-> 0]

\* Mutant: the share is taken of the whole table once more than there are servers.
PerCount_OneMore(n) == (TOTAL_SLOT_COUNT - n) \div (n + 1)

\* (TOTAL_SLOT_COUNT - n) / n, for at most TOTAL_SLOT_COUNT servers; with no
\* server the code divides by zero, and its callers say what happens then.
PerCount(n) == (TOTAL_SLOT_COUNT - n) \div n

\* Mutant: the last server gets no more than the others.
Share_NoRemainder(n, i) == [from |-> (i - 1) * PerCount(n), end |-> i * PerCount(n) - 1]

\* Mutant: the last slot is counted from 1.
Share_LastOneMore(n, i) ==
  [from |-> (i - 1) * PerCount(n),
   end  |-> IF i = n THEN TOTAL_SLOT_COUNT ELSE i * PerCount(n) - 1]

\* What CalculateSlot gives the i-th of n servers in the order of their Ids: the
\* last one takes what the division leaves over.
Share(n, i) ==
  [from |-> (i - 1) * PerCount(n),
   end  |-> IF i = n THEN TOTAL_SLOT_COUNT - 1 ELSE i * PerCount(n) - 1]

Rank(ids, id) == Cardinality({j \in ids : j <= id})

CalculateSlot(ids) == [id \in ids |-> Share(Cardinality(ids), Rank(ids, id))]

\* The Ids in the order of their SlotFrom, and of the query where these agree.
Orders(ids) ==
  LET n == Cardinality(ids) IN
  {order \in [1..n -> ids] : \A i, j \in 1..n : order[i] = order[j] => i = j}

SortedBySlotFrom(slot, order) ==
  \A i, j \in DOMAIN order : i < j =>
    \/ slot[order[i]].from < slot[order[j]].from
    \/ slot[order[i]].from = slot[order[j]].from /\ order[i] < order[j]

\* The loop's index after k rows: where the next row has to start.
IndexAfter(slot, order, k) == IF k = 0 THEN 0 ELSE slot[order[k]].end + 1

\* Mutant: the chain is followed but its end is not compared with the total.
Chained_NoTotal(slot, order, n) ==
  \A k \in 1..n : slot[order[k]].from = IndexAfter(slot, order, k - 1)

Chained(slot, order, n) ==
  /\ \A k \in 1..n : slot[order[k]].from = IndexAfter(slot, order, k - 1)
  /\ IndexAfter(slot, order, n) = TOTAL_SLOT_COUNT

IsWholeSlot(ids, slot) ==
  \E order \in Orders(ids) :
    SortedBySlotFrom(slot, order) /\ Chained(slot, order, Cardinality(ids))

\* t.slot >= s.slot_from and t.slot <= s.slot_end
Covers(interval, s) == interval.from <= s /\ s <= interval.end

-----------------------------------------------------------------------------
\* Every slot belongs to exactly one of the servers.
IsPartition(ids, slot) ==
  \A s \in AllSlots :
    \E id \in ids : \A other \in ids : Covers(slot[other], s) <=> other = id

\* No server has more than 2n - 1 slots above the share of any other.
IsSpread(ids, slot) ==
  LET size(id) == slot[id].end - slot[id].from + 1 IN
  \A a, b \in ids : size(a) - size(b) <= 2 * Cardinality(ids) - 1
=============================================================================
