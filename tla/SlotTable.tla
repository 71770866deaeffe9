------------------------------ MODULE SlotTable -----------------------------
(***************************************************************************)
(* The table ot_server when every operation on it is one step: what a      *)
(* single server that nobody interrupts does with it.  Servers register,   *)
(* miss their heartbeats and come back with the slots they had, and        *)
(* TryReslot recomputes the assignment when IsWholeSlot finds it broken.   *)
(* The interleavings of several servers are the subject of Discovery.      *)
(***************************************************************************)
EXTENDS Slots

CONSTANTS
  MaxServers,  \* bound of the model: rows of ot_server
  MaxChanges   \* bound of the model: servers that go offline or come back

ASSUME SlotTableAssumption ==
  /\ MaxServers \in 1..TOTAL_SLOT_COUNT
  /\ MaxChanges \in Nat

VARIABLES
  slot,     \* the intervals of the rows, in the order of their Ids
  online,   \* the Ids whose heartbeat is recent
  changes   \* times a server went offline or came back

tableVars == <<slot, online, changes>>

Ids == DOMAIN slot

TypeOK ==
  /\ slot \in Seq(Interval)
  /\ Len(slot) <= MaxServers
  /\ online \in SUBSET Ids
  /\ changes \in 0..MaxChanges

Init == slot = <<>> /\ online = {} /\ changes = 0

\* Mutant: the Id of the new row is counted from 0.
Insert_FromZero ==
  /\ Len(slot) < MaxServers
  /\ slot' = Append(slot, NewRowSlots)
  /\ online' = online \cup {Len(slot)}
  /\ UNCHANGED changes

\* RegisterOrUpdate without a row: an insert.
Insert ==
  /\ Len(slot) < MaxServers
  /\ slot' = Append(slot, NewRowSlots)
  /\ online' = online \cup {Len(slot) + 1}
  /\ UNCHANGED changes

\* No heartbeat for three intervals.
Lapse(id) ==
  /\ changes < MaxChanges
  /\ id \in online
  /\ online' = online \ {id}
  /\ changes' = changes + 1
  /\ UNCHANGED slot

\* RegisterOrUpdate with a row: the slots are written back as they were.
Heartbeat(id) ==
  /\ changes < MaxChanges
  /\ id \in Ids \ online
  /\ online' = online \cup {id}
  /\ changes' = changes + 1
  /\ UNCHANGED slot

Reslot ==
  /\ online # {}
  /\ ~IsWholeSlot(online, slot)
  /\ slot' = [id \in Ids |-> IF id \in online THEN CalculateSlot(online)[id] ELSE slot[id]]
  /\ UNCHANGED <<online, changes>>

Next == Insert \/ Reslot \/ \E id \in Ids : Lapse(id) \/ Heartbeat(id)

Spec == Init /\ [][Next]_tableVars /\ WF_tableVars(Reslot)

-----------------------------------------------------------------------------
\* The check that decides whether to reassign, on every assignment that servers
\* joining, leaving and returning produce: it accepts exactly the partitions.
WholeIffPartition == IsWholeSlot(online, slot) <=> IsPartition(online, slot)

\* One reassignment is enough, and it shares the slots out evenly.
ReslotRepairs ==
  [][Reslot => IsPartition(online', slot') /\ IsSpread(online', slot')]_tableVars

\* Once servers stop coming and going, every slot has one server, for ever.
EventuallyPartition == <>[](online # {} => IsPartition(online, slot))
=============================================================================
