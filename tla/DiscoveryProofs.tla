--------------------------- MODULE DiscoveryProofs ---------------------------
(***************************************************************************)
(* Proofs about Discovery for every cluster and every bound: the type      *)
(* invariant, one row per server, no row younger than its server's last    *)
(* heartbeat, and no server left with its scheduler stopped; that nothing  *)
(* but a change of the servers online or an outdated write damages the     *)
(* division of the slots; and, of up to three servers, any partition.      *)
(*                                                                         *)
(* The inductive invariant says what the copies of rows that are on their  *)
(* way to the table keep of them, whatever was written in the meantime:    *)
(* whose row it is, and a heartbeat that is not younger than the last one. *)
(***************************************************************************)
EXTENDS Discovery, SlotsProofs

Beating(n) == pc[n] \in {"starting", "register"}

\* A heartbeat writes its own row, or inserts one where there is none.
CopyOK ==
  \A n \in Nodes : Beating(n) =>
    /\ copy[n] # NoRow
    /\ copy[n].heart >= beat[n]
    /\ copy[n].id = 0 => IdsOf(n) = {}
    /\ copy[n].id # 0 => copy[n].id \in IdsOf(n)

\* A selected row is of the server whose row it was, with one of its heartbeats.
LatestOK ==
  \A n \in Nodes : \A id \in DOMAIN latest[n] :
    /\ latest[n][id].node = servers[id].node
    /\ latest[n][id].heart >= beat[servers[id].node]

WriteOK == \A n \in Nodes : pc[n] = "write" => DOMAIN latest[n] # {}

\* The part of TypeOK about latest.
LatestType ==
  /\ DOMAIN latest = Nodes
  /\ \A n \in Nodes : DOMAIN latest[n] \subseteq Ids /\ latest[n] \in [DOMAIN latest[n] -> Row]

IInv ==
  /\ TypeOK /\ OneRowEach /\ NeverYounger /\ NeverLeftStopped
  /\ CopyOK /\ LatestOK /\ WriteOK

-----------------------------------------------------------------------------
LEMMA OlderFacts ==
  ASSUME NEW a \in 0..HeartTimeout, NEW b \in 0..HeartTimeout
  PROVE  Older(a) \in 0..HeartTimeout /\ (a >= b => Older(a) >= Older(b))
BY DiscoveryAssumption DEF Older

LEMMA NothingFacts == DOMAIN Nothing = {} /\ Nothing \in [DOMAIN Nothing -> Row]
BY DEF Nothing

LEMMA NewRowSlotsType == NewRowSlots \in Interval
BY TotalAssumption DEF NewRowSlots, Interval

\* Shares are intervals of slots.
LEMMA ShareType ==
  ASSUME NEW n \in 1..TOTAL_SLOT_COUNT, NEW i \in 1..n
  PROVE  Share(n, i) \in Interval
<1> DEFINE p == PerCount(n)
<1>1. p \in Nat /\ n \in Nat /\ i \in Nat /\ i - 1 \in Nat /\ n * p <= TOTAL_SLOT_COUNT - n
  BY PerCountFacts, TotalAssumption
<1>2. /\ (i - 1) * p \in Nat /\ i * p \in Nat /\ n * p \in Nat
      /\ (i - 1) * p <= i * p /\ i * p <= n * p
  BY <1>1, Products
<1>3. (i - 1) * p \in 0..TOTAL_SLOT_COUNT /\ i * p - 1 \in -1..(TOTAL_SLOT_COUNT - 1)
  BY <1>1, <1>2, TotalAssumption
<1> QED
  BY <1>3, TotalAssumption DEF Share, Interval

\* There are no more rows than servers, so at most one per slot.
LEMMA FewRows ==
  ASSUME TypeOK, OneRowEach, NEW S \in SUBSET Ids
  PROVE  /\ S \in SUBSET Nat
         /\ IsFiniteSet(S)
         /\ Cardinality(S) \in 0..Cardinality(Nodes)
         /\ S # {} => Cardinality(S) \in 1..TOTAL_SLOT_COUNT
<1> DEFINE owner == [id \in S |-> servers[id].node]
<1>1. Ids \in SUBSET Nat
  BY DEF TypeOK, Ids
<1>2. owner \in Injection(S, Nodes)
  <2>1. \A id \in Ids : servers[id].node \in Nodes
    <3>1. \A id \in Ids : servers[id] \in Row
      BY DEF TypeOK, Ids
    <3> QED
      BY <3>1 DEF Row
  <2>2. \A one, other \in S : owner[one] = owner[other] => one = other
    BY DEF OneRowEach
  <2>3. owner \in [S -> Nodes]
    BY <2>1
  <2> QED
    BY <2>2, <2>3 DEF Injection, IsInjective
<1>3. IsFiniteSet(S) /\ Cardinality(S) <= Cardinality(Nodes)
  BY <1>2, DiscoveryAssumption, FS_Injection
<1>4. Cardinality(S) \in Nat /\ (S # {} => Cardinality(S) # 0)
  BY <1>3, FS_CardinalityType, FS_EmptySet
<1> QED
  BY <1>1, <1>3, <1>4, DiscoveryAssumption, TotalAssumption

LEMMA CalculateSlotType ==
  ASSUME TypeOK, OneRowEach, NEW S \in SUBSET Ids, S # {}
  PROVE  CalculateSlot(S) \in [S -> Interval]
<1>1. S \in SUBSET Nat /\ IsFiniteSet(S) /\ Cardinality(S) \in 1..TOTAL_SLOT_COUNT
  BY FewRows
<1>2. \A id \in S : Rank(S, id) \in 1..Cardinality(S)
  BY <1>1, RankFacts
<1>3. \A id \in S : Share(Cardinality(S), Rank(S, id)) \in Interval
  BY <1>1, <1>2, ShareType
<1> QED
  BY <1>3 DEF CalculateSlot

\* The first of some rows is one of them.
LEMMA FirstFacts ==
  ASSUME TypeOK, OneRowEach, NEW S \in SUBSET Ids, S # {}
  PROVE  First(S) \in S
<1>1. S \in SUBSET Nat /\ IsFiniteSet(S) /\ Cardinality(S) \in 1..TOTAL_SLOT_COUNT
  BY FewRows
<1>2. 1 \in 1..Cardinality(S)
  BY <1>1
<1>3. PICK id \in S : Rank(S, id) = 1
  BY <1>1, <1>2, RankOnto
<1>4. ASSUME NEW other \in S
      PROVE  id <= other
  <2>1. Rank(S, other) \in 1..Cardinality(S)
    BY <1>1, RankFacts
  <2>2. ~(other < id)
    BY <1>1, <1>3, <2>1, RankFacts
  <2> QED
    BY <1>1, <2>2
<1> QED
  BY <1>4 DEF First

LEMMA Initially == Init => IInv
<1> SUFFICES ASSUME Init
             PROVE  IInv
  OBVIOUS
<1>1. TypeOK
  BY DiscoveryAssumption, NothingFacts DEF Init, TypeOK, Ids, Status
<1> QED
  BY <1>1, NothingFacts DEF Init, IInv, OneRowEach, NeverYounger, NeverLeftStopped,
     CopyOK, LatestOK, WriteOK, Beating, Up, Ids

-----------------------------------------------------------------------------
\* The rows and the heartbeats stay, copies stay or are dropped.
CopiesStay ==
  /\ UNCHANGED <<servers, beat>>
  /\ \A m \in Nodes : Beating(m)' => Beating(m) /\ copy'[m] = copy[m]
  /\ \A m \in Nodes : \A id \in DOMAIN latest'[m] :
       /\ id \in DOMAIN latest[m]
       /\ latest'[m][id].node = latest[m][id].node
       /\ latest'[m][id].heart = latest[m][id].heart

LEMMA QuietStep ==
  ASSUME IInv, CopiesStay, TypeOK', NeverLeftStopped', WriteOK'
  PROVE  IInv'
<1> USE DEF IInv, CopiesStay
<1>1. OneRowEach'
  BY DEF OneRowEach, Ids
<1>2. NeverYounger'
  BY DEF NeverYounger, Ids
<1>3. CopyOK'
  BY DEF CopyOK, IdsOf, Ids
<1>4. LatestOK'
  BY DEF LatestOK
<1> QED
  BY <1>1, <1>2, <1>3, <1>4

\* Dropping the selection of n.
LEMMA DropFacts ==
  ASSUME TypeOK, NEW n \in Nodes, latest' = [latest EXCEPT ![n] = Nothing],
         UNCHANGED servers
  PROVE  /\ LatestType'
         /\ \A m \in Nodes : latest'[m] = IF m = n THEN Nothing ELSE latest[m]
         /\ \A m \in Nodes : \A id \in DOMAIN latest'[m] : id \in DOMAIN latest[m] /\ m # n
BY NothingFacts DEF TypeOK, LatestType, Ids

LEMMA TryLockStep ==
  ASSUME IInv, NEW n \in Nodes, TryLock(n)
  PROVE  IInv'
<1> USE DEF IInv, TryLock, Goto
<1>0. LatestType'
  <2>1. CASE UNCHANGED latest
    BY <2>1 DEF TypeOK, LatestType, Ids
  <2>2. CASE latest' = [latest EXCEPT ![n] = Nothing]
    BY <2>2, DropFacts
  <2> QED
    BY <2>1, <2>2
<1>1. TypeOK'
  <2>1. pc' \in [Nodes -> Status]
    BY DEF TypeOK, Status
  <2>2. lease' \in [by : Nodes \cup {NoOne}, recent : BOOLEAN]
    <3>1. [by |-> n, recent |-> TRUE] \in [by : Nodes \cup {NoOne}, recent : BOOLEAN]
      OBVIOUS
    <3> QED
      BY <3>1 DEF TypeOK
  <2> QED
    BY <1>0, <2>1, <2>2 DEF TypeOK, LatestType, Ids
<1>2. NeverLeftStopped'
  BY DEF TypeOK, NeverLeftStopped, Up
<1>3. WriteOK'
  <2>1. \A m \in Nodes : m # n => latest'[m] = latest[m] /\ pc'[m] = pc[m]
    BY DEF TypeOK
  <2>2. pc'[n] \in {"check", "idle"}
    BY DEF TypeOK
  <2> QED
    BY <2>1, <2>2 DEF WriteOK
<1>4. CopiesStay
  BY DropFacts DEF TypeOK, CopiesStay, Beating
<1> QED
  BY <1>1, <1>2, <1>3, <1>4, QuietStep

LEMMA SkipStep ==
  ASSUME IInv, NEW n \in Nodes, Skip(n)
  PROVE  IInv'
<1> USE DEF IInv, Skip, Goto
<1>1. TypeOK'
  BY DEF TypeOK, LatestType, Status, Ids
<1>2. NeverLeftStopped' /\ WriteOK'
  BY DEF TypeOK, NeverLeftStopped, WriteOK, Up
<1>3. CopiesStay
  BY DEF TypeOK, CopiesStay, Beating
<1> QED
  BY <1>1, <1>2, <1>3, QuietStep

LEMMA ReleaseStep ==
  ASSUME IInv, NEW n \in Nodes, Release(n)
  PROVE  IInv'
<1> USE DEF IInv, Release, Goto
<1>1. TypeOK'
  BY DEF TypeOK, LatestType, Status, Ids
<1>2. NeverLeftStopped' /\ WriteOK'
  BY DEF TypeOK, NeverLeftStopped, WriteOK, Up
<1>3. CopiesStay
  BY DEF TypeOK, CopiesStay, Beating
<1> QED
  BY <1>1, <1>2, <1>3, QuietStep

LEMMA LeaseRunsOutStep ==
  ASSUME IInv, LeaseRunsOut
  PROVE  IInv'
<1> USE DEF IInv, LeaseRunsOut
<1>1. TypeOK'
  BY DEF TypeOK, Ids
<1>2. NeverLeftStopped' /\ WriteOK'
  BY DEF NeverLeftStopped, WriteOK, Up
<1>3. CopiesStay
  BY DEF CopiesStay, Beating
<1> QED
  BY <1>1, <1>2, <1>3, QuietStep

LEMMA CrashStep ==
  ASSUME IInv, NEW n \in Nodes, Crash(n)
  PROVE  IInv'
<1> USE DEF IInv, Crash, Goto
<1>0. LatestType'
  BY DropFacts
<1>1. TypeOK'
  BY <1>0, DiscoveryAssumption DEF TypeOK, LatestType, Status, Ids
<1>2. NeverLeftStopped' /\ WriteOK'
  BY DropFacts DEF TypeOK, NeverLeftStopped, WriteOK, Up
<1>3. CopiesStay
  BY DropFacts DEF TypeOK, CopiesStay, Beating
<1> QED
  BY <1>1, <1>2, <1>3, QuietStep

LEMMA ThrowStep ==
  ASSUME IInv, NEW n \in Nodes, Throw(n)
  PROVE  IInv'
<1> USE DEF IInv, Throw, Goto
<1>0. LatestType'
  <2>1. CASE UNCHANGED latest
    BY <2>1 DEF TypeOK, LatestType, Ids
  <2>2. CASE latest' = [latest EXCEPT ![n] = Nothing]
    BY <2>2, DropFacts
  <2> QED
    BY <2>1, <2>2
<1>1. TypeOK'
  <2>1. pc' \in [Nodes -> Status] /\ copy' \in [Nodes -> Heartbeat \cup {NoRow}]
    BY DEF TypeOK, Status
  <2>2. throws' \in 0..MaxThrows
    BY DiscoveryAssumption DEF TypeOK
  <2> QED
    BY <1>0, <2>1, <2>2 DEF TypeOK, LatestType, Ids
<1>2. NeverLeftStopped' /\ WriteOK'
  <2>1. pc'[n] \in {"idle", "sloted"} /\ (pc'[n] = "sloted" => pc[n] = "write")
    BY DEF TypeOK
  <2>2. \A m \in Nodes : m # n => latest'[m] = latest[m] /\ pc'[m] = pc[m]
    BY DEF TypeOK
  <2>3. /\ dispatching' = dispatching
        /\ pc'[n] = "idle" => pc[n] \in {"register", "discover", "lock", "release"}
    BY DEF TypeOK
  <2> HIDE DEF Throw
  <2>4. NeverLeftStopped'
    <3>1. pc'[n] = "idle" => dispatching[n]
      BY <2>3 DEF NeverLeftStopped, Up
    <3> QED
      BY <2>1, <2>2, <2>3, <3>1 DEF NeverLeftStopped, Up
  <2> QED
    BY <2>1, <2>2, <2>4 DEF WriteOK
<1>3. CopiesStay
  BY DropFacts DEF TypeOK, CopiesStay, Beating
<1> QED
  BY <1>1, <1>2, <1>3, QuietStep

\* A notification tells the receivers at most to start or to stop.
LEMMA ReceiveType ==
  ASSUME NEW topic, NEW group, NEW disp \in [Nodes -> BOOLEAN]
  PROVE  Receive(topic, group, disp) \in [Nodes -> BOOLEAN]
BY DEF Receive

\* The topics that are published are none of those that are known.
LEMMA Unheard ==
  ASSUME NEW group, NEW disp \in [Nodes -> BOOLEAN]
  PROVE  Receive(StopTopic, group, disp) = disp /\ Receive(StartTopic, group, disp) = disp
BY DEF Receive, StopTopic, StartTopic

LEMMA ThrowsCounted ==
  ASSUME TypeOK, NEW n \in Nodes, MayThrow(n), CountThrow(n)
  PROVE  throws' \in 0..MaxThrows
BY DiscoveryAssumption DEF TypeOK, MayThrow, CountThrow

\* OnSloting stops the server's own scheduler on the way to "write" or "sloted";
\* the selection keeps its rows and hearts, with new slots.
LEMMA StopAllDispatchStep ==
  ASSUME IInv, NEW n \in Nodes, StopAllDispatch(n)
  PROVE  IInv'
<1> DEFINE stopped == [dispatching EXCEPT ![n] = FALSE]
           slots == CalculateSlot(DOMAIN latest[n])
           resloted == [id \in DOMAIN latest[n] |-> [latest[n][id] EXCEPT !.slot = slots[id]]]
<1> USE DEF IInv, Goto
<1>1. stopped \in [Nodes -> BOOLEAN]
  BY DEF TypeOK
<1>2. /\ UNCHANGED <<servers, lease, round, copy, peers, beat, crashes>>
      /\ pc[n] = "check"
      /\ dispatching' = stopped
      /\ \/ /\ DOMAIN latest[n] # {}
            /\ latest' = [latest EXCEPT ![n] = resloted]
            /\ pc' = [pc EXCEPT ![n] = "write"]
         \/ UNCHANGED latest /\ pc' = [pc EXCEPT ![n] = "sloted"]
  BY <1>1, Unheard DEF StopAllDispatch, TypeOK
<1>3. throws' \in 0..MaxThrows
  BY ThrowsCounted DEF StopAllDispatch, TypeOK
<1>4. CASE UNCHANGED latest /\ pc' = [pc EXCEPT ![n] = "sloted"]
  <2>1. TypeOK'
    BY <1>1, <1>2, <1>3, <1>4 DEF TypeOK, Status, Ids
  <2>2. NeverLeftStopped' /\ WriteOK'
    BY <1>2, <1>4 DEF TypeOK, NeverLeftStopped, WriteOK, Up
  <2>3. CopiesStay
    BY <1>2, <1>4 DEF TypeOK, CopiesStay, Beating
  <2> QED
    BY <2>1, <2>2, <2>3, QuietStep
<1>5. CASE /\ DOMAIN latest[n] # {}
           /\ latest' = [latest EXCEPT ![n] = resloted]
           /\ pc' = [pc EXCEPT ![n] = "write"]
  <2>1. DOMAIN latest[n] \in SUBSET Ids /\ latest[n] \in [DOMAIN latest[n] -> Row]
    BY DEF TypeOK
  <2>2. slots \in [DOMAIN latest[n] -> Interval]
    BY <1>5, <2>1, CalculateSlotType
  <2>3. /\ DOMAIN resloted = DOMAIN latest[n]
        /\ \A id \in DOMAIN latest[n] :
             /\ resloted[id] \in Row
             /\ resloted[id].node = latest[n][id].node
             /\ resloted[id].heart = latest[n][id].heart
    <3> HIDE DEF slots
    <3> QED
      BY <2>1, <2>2 DEF Row
  <2> HIDE DEF resloted
  <2>4. LatestType'
    BY <1>2, <1>5, <2>3 DEF TypeOK, LatestType, Ids, resloted
  <2>5. TypeOK'
    BY <1>1, <1>2, <1>3, <1>5, <2>4 DEF TypeOK, LatestType, Status, Ids
  <2>6. NeverLeftStopped' /\ WriteOK'
    BY <1>2, <1>5, <2>3 DEF TypeOK, NeverLeftStopped, WriteOK, Up
  <2>7. CopiesStay
    BY <1>2, <1>5, <2>3 DEF TypeOK, CopiesStay, Beating
  <2> QED
    BY <2>5, <2>6, <2>7, QuietStep
<1> QED
  BY <1>2, <1>4, <1>5

\* OnSloted starts the server's own scheduler whether or not the rest throws.
LEMMA RestartAllDispatchStep ==
  ASSUME IInv, NEW n \in Nodes, RestartAllDispatch(n)
  PROVE  IInv'
<1> DEFINE started == [dispatching EXCEPT ![n] = TRUE]
<1> USE DEF IInv, Goto
<1>1. started \in [Nodes -> BOOLEAN]
  BY DEF TypeOK
<1>2. /\ UNCHANGED <<servers, lease, round, copy, peers, beat, crashes>>
      /\ pc[n] = "sloted"
      /\ dispatching' = started
      /\ latest' = [latest EXCEPT ![n] = Nothing]
      /\ \E status \in {"release", "idle"} : pc' = [pc EXCEPT ![n] = status]
  BY <1>1, Unheard DEF RestartAllDispatch, TypeOK
<1>3. throws' \in 0..MaxThrows
  BY ThrowsCounted DEF RestartAllDispatch, TypeOK
<1>4. TypeOK'
  <2>1. pc' \in [Nodes -> Status]
    BY <1>2 DEF TypeOK, Status
  <2>2. LatestType'
    BY <1>2, DropFacts
  <2> QED
    BY <1>1, <1>2, <1>3, <2>1, <2>2 DEF TypeOK, LatestType, Ids
<1>5. NeverLeftStopped' /\ WriteOK'
  <2>1. NeverLeftStopped'
    BY <1>2 DEF TypeOK, NeverLeftStopped, Up
  <2>2. \A m \in Nodes : m # n => latest'[m] = latest[m] /\ pc'[m] = pc[m]
    BY <1>2, DropFacts DEF TypeOK
  <2>3. pc'[n] # "write"
    BY <1>2 DEF TypeOK
  <2> QED
    BY <2>1, <2>2, <2>3 DEF WriteOK
<1>6. CopiesStay
  <2>1. /\ UNCHANGED <<servers, beat, copy>>
        /\ pc'[n] \in {"release", "idle"}
        /\ \A m \in Nodes : m # n => pc'[m] = pc[m]
    BY <1>2 DEF TypeOK
  <2>2. \A m \in Nodes : Beating(m)' => Beating(m)
    BY <2>1 DEF Beating
  <2>3. \A m \in Nodes : \A id \in DOMAIN latest'[m] :
          id \in DOMAIN latest[m] /\ latest'[m][id] = latest[m][id]
    BY <1>2, DropFacts
  <2> QED
    BY <2>1, <2>2, <2>3 DEF CopiesStay
<1> QED
  BY <1>4, <1>5, <1>6, QuietStep

-----------------------------------------------------------------------------
\* The heartbeat selects the row of its server, or finds there is none.
LEMMA SelectStep ==
  ASSUME IInv, NEW n \in Nodes, SelectOwnRow(n),
         NEW status \in {"starting", "register"}, pc' = [pc EXCEPT ![n] = status],
         pc[n] \in {"down", "idle"},
         round' \in [Nodes -> {0, 1}], dispatching' \in [Nodes -> BOOLEAN],
         dispatching'[n], \A m \in Nodes : m # n => dispatching'[m] = dispatching[m],
         UNCHANGED <<servers, lease, latest, peers, throws, crashes>>
  PROVE  IInv'
<1> USE DEF IInv
<1>1. PICK own \in Heartbeat :
        /\ copy' = [copy EXCEPT ![n] = own]
        /\ own.heart = 0
        /\ own.id = 0 => IdsOf(n) = {}
        /\ own.id # 0 => own.id \in IdsOf(n)
  <2>1. CASE /\ IdsOf(n) = {}
             /\ copy' = [copy EXCEPT ![n] = [id |-> 0, slot |-> NewRowSlots, heart |-> 0]]
    <3>1. [id |-> 0, slot |-> NewRowSlots, heart |-> 0] \in Heartbeat
      BY NewRowSlotsType, DiscoveryAssumption DEF Heartbeat
    <3> QED
      BY <2>1, <3>1
  <2>2. CASE \E id \in IdsOf(n) :
               copy' = [copy EXCEPT ![n] = [id |-> id, slot |-> servers[id].slot, heart |-> 0]]
    <3>1. PICK id \in IdsOf(n) :
            copy' = [copy EXCEPT ![n] = [id |-> id, slot |-> servers[id].slot, heart |-> 0]]
      BY <2>2
    <3>2. id \in Nat \ {0} /\ servers[id] \in Row
      BY DEF TypeOK, IdsOf, Ids
    <3>3. [id |-> id, slot |-> servers[id].slot, heart |-> 0] \in Heartbeat
      BY <3>2, DiscoveryAssumption DEF Heartbeat, Row
    <3> QED
      BY <3>1, <3>2, <3>3
  <2> QED
    BY <2>1, <2>2 DEF SelectOwnRow
<1>2. beat' = [beat EXCEPT ![n] = 0] /\ beat \in [Nodes -> 0..HeartTimeout]
  BY DEF SelectOwnRow, TypeOK
<1>3. beat' \in [Nodes -> 0..HeartTimeout] /\ \A m \in Nodes : beat'[m] <= beat[m]
  BY <1>2, DiscoveryAssumption
<1>4. TypeOK'
  BY <1>1, <1>3 DEF TypeOK, Status, Ids
<1>5. OneRowEach' /\ NeverLeftStopped' /\ WriteOK'
  BY DEF TypeOK, OneRowEach, NeverLeftStopped, WriteOK, Ids, Up
<1>6. \A id \in Ids : servers[id].node \in Nodes /\ servers[id].heart \in 0..HeartTimeout
  <2>1. \A id \in Ids : servers[id] \in Row
    BY DEF TypeOK, Ids
  <2> QED
    BY <2>1 DEF Row
<1>7. NeverYounger'
  <2> SUFFICES ASSUME NEW id \in Ids
               PROVE  servers[id].heart >= beat'[servers[id].node]
    BY DEF NeverYounger, Ids
  <2>1. servers[id].heart >= beat[servers[id].node]
    BY DEF NeverYounger
  <2> QED
    BY <1>2, <1>3, <1>6, <2>1
<1>8. LatestOK'
  <2> SUFFICES ASSUME NEW m \in Nodes, NEW id \in DOMAIN latest[m]
               PROVE  /\ latest[m][id].node = servers[id].node
                      /\ latest[m][id].heart >= beat'[servers[id].node]
    BY DEF LatestOK
  <2>1. id \in Ids /\ latest[m][id] \in Row
    BY DEF TypeOK
  <2>2. latest[m][id].heart \in 0..HeartTimeout /\ servers[id].node \in Nodes
    BY <1>6, <2>1 DEF Row
  <2>3. latest[m][id].node = servers[id].node /\ latest[m][id].heart >= beat[servers[id].node]
    BY DEF LatestOK
  <2> QED
    BY <1>2, <1>3, <2>2, <2>3
<1>9. CopyOK'
  <2> SUFFICES ASSUME NEW m \in Nodes, Beating(m)'
               PROVE  /\ copy'[m] # NoRow
                      /\ copy'[m].heart >= beat'[m]
                      /\ copy'[m].id = 0 => IdsOf(m) = {}
                      /\ copy'[m].id # 0 => copy'[m].id \in IdsOf(m)
    BY DEF CopyOK, IdsOf, Ids
  <2>1. CASE m = n
    BY <1>1, <1>2, <2>1, NoRowAssumption, DiscoveryAssumption DEF TypeOK
  <2>2. CASE m # n
    <3>1. Beating(m) /\ copy'[m] = copy[m] /\ beat'[m] = beat[m]
      BY <1>1, <1>2, <2>2 DEF Beating, TypeOK
    <3> QED
      BY <3>1 DEF CopyOK
  <2> QED
    BY <2>1, <2>2
<1> QED
  BY <1>4, <1>5, <1>7, <1>8, <1>9

LEMMA StartStep ==
  ASSUME IInv, NEW n \in Nodes, Start(n)
  PROVE  IInv'
<1> USE DEF IInv
<1>1. /\ dispatching' \in [Nodes -> BOOLEAN] /\ dispatching'[n]
      /\ \A m \in Nodes : m # n => dispatching'[m] = dispatching[m]
  BY DEF Start, TypeOK
<1>2. round' \in [Nodes -> {0, 1}]
  BY DEF Start, TypeOK
<1> QED
  BY <1>1, <1>2, SelectStep DEF Start, Goto

LEMMA ElapsedStep ==
  ASSUME IInv, NEW n \in Nodes, Elapsed(n)
  PROVE  IInv'
<1> USE DEF IInv
<1>1. round' \in [Nodes -> {0, 1}]
  BY DEF Elapsed, TypeOK
<1>2. dispatching' \in [Nodes -> BOOLEAN] /\ UNCHANGED dispatching
  BY DEF Elapsed, TypeOK
<1>3. dispatching[n]
  BY DEF Elapsed, NeverLeftStopped, Up
<1> QED
  BY <1>1, <1>2, <1>3, SelectStep DEF Elapsed, Goto

\* The rows after a write of one of them, or an insert.
LEMMA WriteFacts ==
  ASSUME servers \in Seq(Row), NEW row \in Row, NEW id \in Nat,
         IF id = 0 THEN servers' = Append(servers, row)
         ELSE id \in Ids /\ servers' = [servers EXCEPT ![id] = row]
  PROVE  /\ servers' \in Seq(Row)
         /\ Ids \subseteq Ids'
         /\ \E new \in Ids' :
              /\ new = IF id = 0 THEN Len(servers) + 1 ELSE id
              /\ Ids' = Ids \cup {new}
              /\ servers'[new] = row
              /\ \A other \in Ids : other # new => servers'[other] = servers[other]
              /\ id = 0 => new \notin Ids
<1>1. CASE id = 0
  <2>1. servers' = Append(servers, row)
    BY <1>1
  <2>2. servers' \in Seq(Row) /\ Len(servers') = Len(servers) + 1
    BY <2>1
  <2>3. Ids = 1..Len(servers) /\ Ids' = 1..(Len(servers) + 1) /\ Len(servers) \in Nat
    BY <2>1, <2>2 DEF Ids
  <2>4. \A other \in Ids : servers'[other] = servers[other]
    BY <2>1, <2>3
  <2>5. servers'[Len(servers) + 1] = row
    BY <2>1
  <2> QED
    BY <1>1, <2>2, <2>3, <2>4, <2>5
<1>2. CASE id # 0
  <2>1. id \in Ids /\ servers' = [servers EXCEPT ![id] = row]
    BY <1>2
  <2>2. servers' \in Seq(Row) /\ Ids' = Ids
    BY <2>1 DEF Ids
  <2> QED
    BY <1>2, <2>1, <2>2 DEF Ids
<1> QED
  BY <1>1, <1>2

\* The heartbeat writes its row as it was selected, or appends one.
LEMMA RegisterFacts ==
  ASSUME IInv, NEW n \in Nodes, RegisterOrUpdate(n)
  PROVE  /\ servers' \in Seq(Row)
         /\ Ids \subseteq Ids'
         /\ Beating(n)
         /\ copy[n] \in Heartbeat
         /\ \E new \in Ids' :
              /\ Ids' = Ids \cup {new}
              /\ servers'[new] = [node |-> n, slot |-> copy[n].slot, heart |-> copy[n].heart]
              /\ \A other \in Ids : other # new => servers'[other] = servers[other]
              /\ copy[n].id = 0 => new \notin Ids
              /\ copy[n].id # 0 => new = copy[n].id
<1> DEFINE row == [node |-> n, slot |-> copy[n].slot, heart |-> copy[n].heart]
<1> USE DEF IInv
<1>1. Beating(n) /\ copy[n] \in Heartbeat
  BY DEF RegisterOrUpdate, Beating, CopyOK, TypeOK
<1>2. row \in Row /\ copy[n].id \in Nat
  BY <1>1 DEF Heartbeat, Row
<1>3. copy[n].id # 0 => copy[n].id \in IdsOf(n)
  BY <1>1 DEF CopyOK
<1>4. IF copy[n].id = 0 THEN servers' = Append(servers, row)
      ELSE copy[n].id \in Ids /\ servers' = [servers EXCEPT ![copy[n].id] = row]
  BY <1>3 DEF RegisterOrUpdate, IdsOf
<1> HIDE DEF row
<1>5. servers \in Seq(Row)
  BY DEF TypeOK
<1>6. /\ servers' \in Seq(Row)
      /\ Ids \subseteq Ids'
      /\ \E new \in Ids' :
           /\ new = IF copy[n].id = 0 THEN Len(servers) + 1 ELSE copy[n].id
           /\ Ids' = Ids \cup {new}
           /\ servers'[new] = row
           /\ \A other \in Ids : other # new => servers'[other] = servers[other]
           /\ copy[n].id = 0 => new \notin Ids
  BY <1>2, <1>4, <1>5, WriteFacts
<1> QED
  BY <1>1, <1>6 DEF row

\* The heartbeat writes the row: no other row of the server can have appeared.
LEMMA RegisterOrUpdateStep ==
  ASSUME IInv, NEW n \in Nodes, RegisterOrUpdate(n)
  PROVE  IInv'
<1> DEFINE row == [node |-> n, slot |-> copy[n].slot, heart |-> copy[n].heart]
<1> USE DEF IInv
<1>1. Beating(n) /\ copy[n] \in Heartbeat
  BY RegisterFacts
<1>2. row.node = n /\ row.heart = copy[n].heart
  OBVIOUS
<1>3. /\ copy[n].heart >= beat[n]
      /\ copy[n].id = 0 => IdsOf(n) = {}
      /\ copy[n].id # 0 => copy[n].id \in IdsOf(n)
  BY <1>1 DEF CopyOK
<1>6. servers' \in Seq(Row) /\ Ids \subseteq Ids'
  BY RegisterFacts
<1>7. PICK new \in Ids' :
        /\ Ids' = Ids \cup {new}
        /\ servers'[new] = row
        /\ \A other \in Ids : other # new => servers'[other] = servers[other]
        /\ copy[n].id = 0 => new \notin Ids
        /\ copy[n].id # 0 => new = copy[n].id
  BY RegisterFacts
<1> HIDE DEF row
<1>8. new \in Ids => servers[new].node = n
  BY <1>3, <1>7 DEF IdsOf
<1>9. \A other \in Ids : other # new => servers[other].node # n
  BY <1>3, <1>7 DEF IdsOf, OneRowEach
<1>10. \E status \in {"discover", "idle"} : pc' = [pc EXCEPT ![n] = status]
  BY DEF RegisterOrUpdate, Goto
<1>11. copy' = [copy EXCEPT ![n] = NoRow] /\ UNCHANGED <<latest, beat, dispatching>>
  BY DEF RegisterOrUpdate
<1>12. TypeOK'
  <2>1. pc' \in [Nodes -> Status] /\ copy' \in [Nodes -> Heartbeat \cup {NoRow}]
    BY <1>10, <1>11 DEF TypeOK, Status
  <2>2. UNCHANGED <<lease, round, latest, dispatching, peers, throws, crashes, beat>>
    BY DEF RegisterOrUpdate
  <2> QED
    BY <1>6, <2>1, <2>2 DEF TypeOK
<1>13. OneRowEach'
  <2> SUFFICES ASSUME NEW one \in Ids', NEW other \in Ids',
                      servers'[one].node = servers'[other].node
               PROVE  one = other
    BY DEF OneRowEach
  <2>1. CASE one = new /\ other = new
    BY <2>1
  <2>2. CASE one = new /\ other # new
    BY <1>2, <1>7, <1>9, <2>2
  <2>3. CASE one # new /\ other = new
    BY <1>2, <1>7, <1>9, <2>3
  <2>4. CASE one # new /\ other # new
    BY <1>7, <2>4 DEF OneRowEach
  <2> QED
    BY <2>1, <2>2, <2>3, <2>4
<1>14. NeverYounger'
  <2> SUFFICES ASSUME NEW id \in Ids'
               PROVE  servers'[id].heart >= beat[servers'[id].node]
    BY <1>11 DEF NeverYounger
  <2>1. CASE id = new
    BY <1>2, <1>3, <1>7, <2>1
  <2>2. CASE id # new
    BY <1>7, <2>2 DEF NeverYounger
  <2> QED
    BY <2>1, <2>2
<1>15. NeverLeftStopped' /\ WriteOK'
  BY <1>1, <1>10, <1>11 DEF TypeOK, NeverLeftStopped, WriteOK, Up, Beating
<1>16. CopyOK'
  <2> SUFFICES ASSUME NEW m \in Nodes, Beating(m)'
               PROVE  /\ copy'[m] # NoRow
                      /\ copy'[m].heart >= beat[m]
                      /\ copy'[m].id = 0 => IdsOf(m)' = {}
                      /\ copy'[m].id # 0 => copy'[m].id \in IdsOf(m)'
    BY <1>11 DEF CopyOK
  <2>1. m # n /\ Beating(m) /\ copy'[m] = copy[m]
    BY <1>10, <1>11 DEF Beating, TypeOK
  <2>2. IdsOf(m)' = IdsOf(m)
    BY <1>2, <1>7, <1>8, <2>1 DEF IdsOf
  <2> QED
    BY <2>1, <2>2 DEF CopyOK
<1>17. LatestOK'
  <2> SUFFICES ASSUME NEW m \in Nodes, NEW id \in DOMAIN latest[m]
               PROVE  /\ latest[m][id].node = servers'[id].node
                      /\ latest[m][id].heart >= beat[servers'[id].node]
    BY <1>11 DEF LatestOK
  <2>1. id \in Ids
    BY DEF TypeOK
  <2>2. servers'[id].node = servers[id].node
    BY <1>2, <1>7, <1>8, <2>1
  <2> QED
    BY <2>2 DEF LatestOK
<1> QED
  BY <1>12, <1>13, <1>14, <1>15, <1>16, <1>17

-----------------------------------------------------------------------------
\* The selection copies rows as they are.
LEMMA FindAllOnlineServerStep ==
  ASSUME IInv, NEW n \in Nodes, FindAllOnlineServer(n)
  PROVE  IInv'
<1> DEFINE selected == [id \in Online |-> servers[id]]
<1> USE DEF IInv
<1>1. /\ UNCHANGED <<servers, lease, round, copy, dispatching, throws, crashes, beat>>
      /\ latest' = [latest EXCEPT ![n] = selected]
      /\ pc' = [pc EXCEPT ![n] = "lock"]
      /\ pc[n] = "discover"
  BY DEF FindAllOnlineServer, Goto
<1>2. \A id \in Ids : servers[id] \in Row /\ servers[id].node \in Nodes
  <2>1. \A id \in Ids : servers[id] \in Row
    BY DEF TypeOK, Ids
  <2> QED
    BY <2>1 DEF Row
<1>3. /\ DOMAIN selected \subseteq Ids
      /\ selected \in [DOMAIN selected -> Row]
      /\ \A id \in DOMAIN selected : selected[id] = servers[id]
  BY <1>2 DEF Online
<1> HIDE DEF selected
<1>4. \A m \in Nodes : latest'[m] = IF m = n THEN selected ELSE latest[m]
  BY <1>1 DEF TypeOK
<1>5. TypeOK'
  <2>1. LatestType'
    BY <1>1, <1>3, <1>4 DEF TypeOK, LatestType, Ids
  <2>2. pc' \in [Nodes -> Status]
    BY <1>1 DEF TypeOK, Status
  <2>3. peers' \in [Nodes -> SUBSET Nodes]
    <3>1. {servers[id].node : id \in Online} \ {n} \in SUBSET Nodes
      BY <1>2 DEF Online
    <3> QED
      BY <3>1 DEF FindAllOnlineServer, TypeOK
  <2> QED
    BY <1>1, <2>1, <2>2, <2>3 DEF TypeOK, LatestType, Ids
<1>6. OneRowEach' /\ NeverYounger'
  BY <1>1 DEF OneRowEach, NeverYounger, Ids
<1>7. NeverLeftStopped' /\ WriteOK'
  BY <1>1, <1>4 DEF TypeOK, NeverLeftStopped, WriteOK, Up
<1>8. CopyOK'
  BY <1>1 DEF TypeOK, CopyOK, Beating, IdsOf, Ids
<1>9. LatestOK'
  BY <1>1, <1>3, <1>4 DEF LatestOK, NeverYounger
<1> QED
  BY <1>5, <1>6, <1>7, <1>8, <1>9

\* One row of the selection is written and leaves it.
LEMMA UpdateFacts ==
  ASSUME IInv, NEW n \in Nodes, UpdateSlot(n)
  PROVE  /\ First(DOMAIN latest[n]) \in DOMAIN latest[n]
         /\ First(DOMAIN latest[n]) \in Ids
         /\ latest[n][First(DOMAIN latest[n])] \in Row
         /\ servers' \in Seq(Row) /\ Ids' = Ids
         /\ \A other \in Ids :
              servers'[other] = IF other = First(DOMAIN latest[n]) THEN latest[n][other]
                                ELSE servers[other]
         /\ \A m \in Nodes : m # n => latest'[m] = latest[m]
         /\ DOMAIN latest'[n] = DOMAIN latest[n] \ {First(DOMAIN latest[n])}
         /\ latest'[n] \in [DOMAIN latest'[n] -> Row]
         /\ \A other \in DOMAIN latest'[n] : latest'[n][other] = latest[n][other]
         /\ latest' = [latest EXCEPT ![n] = latest'[n]]
<1> DEFINE ids == DOMAIN latest[n]
           id == First(ids)
           rest == [other \in ids \ {id} |-> latest[n][other]]
<1> USE DEF IInv
<1>1. /\ servers' = [servers EXCEPT ![id] = latest[n][id]]
      /\ latest' = [latest EXCEPT ![n] = rest]
      /\ pc[n] = "write"
  BY DEF UpdateSlot
<1>2. ids \in SUBSET Ids /\ ids # {} /\ latest[n] \in [ids -> Row]
  BY <1>1 DEF TypeOK, WriteOK
<1>3. id \in ids
  BY <1>2, FirstFacts
<1>4. id \in Ids /\ latest[n][id] \in Row
  BY <1>2, <1>3
<1>5. /\ DOMAIN rest = ids \ {id} /\ rest \in [DOMAIN rest -> Row]
      /\ \A other \in DOMAIN rest : rest[other] = latest[n][other]
  BY <1>2
<1> HIDE DEF ids, id, rest
<1>6. /\ servers' \in Seq(Row) /\ Ids' = Ids
      /\ \A other \in Ids : servers'[other] = IF other = id THEN latest[n][id]
                                              ELSE servers[other]
  BY <1>1, <1>4 DEF TypeOK, Ids
<1>7. latest'[n] = rest /\ \A m \in Nodes : m # n => latest'[m] = latest[m]
  BY <1>1 DEF TypeOK
<1> QED
  BY <1>1, <1>3, <1>4, <1>5, <1>6, <1>7 DEF ids, id

\* A selected row is written back over its row: of the same server, and with a
\* heartbeat of its own.
LEMMA UpdateSlotStep ==
  ASSUME IInv, NEW n \in Nodes, UpdateSlot(n)
  PROVE  IInv'
<1> DEFINE ids == DOMAIN latest[n]
           id == First(ids)
           rest == latest'[n]
<1> USE DEF IInv
<1>1. /\ UNCHANGED <<lease, round, copy, dispatching, peers, throws, crashes, beat>>
      /\ latest' = [latest EXCEPT ![n] = rest]
      /\ pc' = [pc EXCEPT ![n] = IF ids = {id} THEN "sloted" ELSE "write"]
      /\ pc[n] = "write"
  BY UpdateFacts DEF UpdateSlot, Goto
<1>2. ids \in SUBSET Ids /\ ids # {} /\ latest[n] \in [ids -> Row]
  BY <1>1 DEF TypeOK, WriteOK
<1>3. id \in ids
  BY UpdateFacts
<1>4. /\ id \in Ids
      /\ latest[n][id] \in Row
      /\ latest[n][id].node = servers[id].node
      /\ latest[n][id].heart >= beat[servers[id].node]
  BY <1>3, UpdateFacts DEF LatestOK
<1>5. /\ DOMAIN rest = ids \ {id} /\ rest \in [DOMAIN rest -> Row]
      /\ \A other \in DOMAIN rest : rest[other] = latest[n][other]
  BY UpdateFacts
<1>6. /\ servers' \in Seq(Row) /\ Ids' = Ids
      /\ \A other \in Ids : servers'[other] = IF other = id THEN latest[n][id]
                                              ELSE servers[other]
  BY UpdateFacts
<1> HIDE DEF ids, id, rest
<1>7. \A other \in Ids : servers'[other].node = servers[other].node
  BY <1>4, <1>6
<1>8. \A m \in Nodes : latest'[m] = IF m = n THEN rest ELSE latest[m]
  BY <1>1 DEF TypeOK
<1>9. TypeOK'
  <2>1. LatestType'
    BY <1>1, <1>2, <1>5, <1>6, <1>8 DEF TypeOK, LatestType
  <2>2. pc' \in [Nodes -> Status]
    BY <1>1 DEF TypeOK, Status
  <2> QED
    BY <1>1, <1>6, <2>1, <2>2 DEF TypeOK, LatestType
<1>10. OneRowEach'
  BY <1>6, <1>7 DEF OneRowEach
<1>11. NeverYounger'
  BY <1>1, <1>4, <1>6, <1>7 DEF NeverYounger
<1>12. NeverLeftStopped'
  BY <1>1 DEF TypeOK, NeverLeftStopped, Up
<1>13. WriteOK'
  <2> SUFFICES ASSUME NEW m \in Nodes, pc'[m] = "write"
               PROVE  DOMAIN latest'[m] # {}
    BY DEF WriteOK
  <2>1. CASE m = n
    <3>1. ids # {id}
      BY <1>1, <2>1 DEF TypeOK
    <3> QED
      BY <1>3, <1>5, <1>8, <2>1, <3>1
  <2>2. CASE m # n
    BY <1>1, <1>8, <2>2 DEF TypeOK, WriteOK
  <2> QED
    BY <2>1, <2>2
<1>14. CopyOK'
  <2>1. \A m \in Nodes : IdsOf(m)' = IdsOf(m)
    BY <1>6, <1>7 DEF IdsOf
  <2>2. \A m \in Nodes : Beating(m)' => Beating(m)
    BY <1>1 DEF TypeOK, Beating
  <2> QED
    BY <1>1, <2>1, <2>2 DEF CopyOK
<1>15. LatestOK'
  <2> SUFFICES ASSUME NEW m \in Nodes, NEW other \in DOMAIN latest'[m]
               PROVE  /\ latest'[m][other].node = servers'[other].node
                      /\ latest'[m][other].heart >= beat[servers'[other].node]
    BY <1>1 DEF LatestOK
  <2>1. other \in DOMAIN latest[m] /\ latest'[m][other] = latest[m][other]
    BY <1>5, <1>8 DEF ids
  <2>2. servers'[other].node = servers[other].node
    BY <1>7, <2>1 DEF TypeOK
  <2> QED
    BY <2>1, <2>2 DEF LatestOK
<1> QED
  BY <1>9, <1>10, <1>11, <1>12, <1>13, <1>14, <1>15

\* Time passes alike for rows, copies of rows and heartbeats.
LEMMA AgedFacts ==
  ASSUME NEW rows, rows \in [DOMAIN rows -> Row]
  PROVE  /\ DOMAIN Aged(rows) = DOMAIN rows
         /\ Aged(rows) \in [DOMAIN rows -> Row]
         /\ \A id \in DOMAIN rows : /\ Aged(rows)[id].node = rows[id].node
                                   /\ Aged(rows)[id].heart = Older(rows[id].heart)
                                   /\ Aged(rows)[id].slot = rows[id].slot
<1> SUFFICES ASSUME NEW id \in DOMAIN rows
             PROVE  LET aged == [rows[id] EXCEPT !.heart = Older(@)] IN
                    /\ aged \in Row /\ aged.node = rows[id].node
                    /\ aged.heart = Older(rows[id].heart) /\ aged.slot = rows[id].slot
  BY DEF Aged
<1>1. rows[id] \in Row
  OBVIOUS
<1>2. Older(rows[id].heart) \in 0..HeartTimeout
  BY <1>1, OlderFacts DEF Row
<1> QED
  BY <1>1, <1>2 DEF Row

LEMMA TickStep ==
  ASSUME IInv, Tick
  PROVE  IInv'
<1> USE DEF IInv
<1>1. /\ UNCHANGED <<lease, pc, round, dispatching, peers, throws, crashes>>
      /\ servers' = Aged(servers)
      /\ \A n \in Nodes : copy'[n] = IF copy[n] = NoRow THEN NoRow
                                     ELSE [copy[n] EXCEPT !.heart = Older(@)]
      /\ DOMAIN latest' = Nodes /\ \A n \in Nodes : latest'[n] = Aged(latest[n])
      /\ beat' = [n \in Nodes |-> Older(beat[n])]
  BY DEF Tick
<1>2. servers \in [Ids -> Row] /\ Ids = 1..Len(servers) /\ Len(servers) \in Nat
  BY DEF TypeOK, Ids
<1>3. /\ Ids' = Ids /\ servers' \in Seq(Row)
      /\ \A id \in Ids : /\ servers'[id].node = servers[id].node
                         /\ servers'[id].heart = Older(servers[id].heart)
  <2>1. /\ Ids' = Ids
        /\ servers' \in [Ids -> Row]
        /\ \A id \in Ids : /\ servers'[id].node = servers[id].node
                           /\ servers'[id].heart = Older(servers[id].heart)
    BY <1>1, <1>2, AgedFacts DEF Ids
  <2> QED
    BY <1>2, <2>1
<1>4. \A n \in Nodes :
        /\ DOMAIN latest'[n] = DOMAIN latest[n]
        /\ latest'[n] \in [DOMAIN latest[n] -> Row]
        /\ \A id \in DOMAIN latest[n] :
             /\ latest'[n][id].node = latest[n][id].node
             /\ latest'[n][id].heart = Older(latest[n][id].heart)
  BY <1>1, AgedFacts DEF TypeOK
<1>5. /\ \A n \in Nodes : beat[n] \in 0..HeartTimeout /\ beat'[n] = Older(beat[n])
      /\ beat' \in [Nodes -> 0..HeartTimeout]
  BY <1>1, OlderFacts DEF TypeOK
<1>6. \A n \in Nodes :
        /\ copy'[n] \in Heartbeat \cup {NoRow}
        /\ copy[n] # NoRow => /\ copy[n].heart \in 0..HeartTimeout
                              /\ copy'[n] # NoRow
                              /\ copy'[n].id = copy[n].id
                              /\ copy'[n].heart = Older(copy[n].heart)
  <2> SUFFICES ASSUME NEW n \in Nodes, copy[n] # NoRow
               PROVE  /\ copy'[n] \in Heartbeat
                      /\ copy[n].heart \in 0..HeartTimeout
                      /\ copy'[n].id = copy[n].id
                      /\ copy'[n].heart = Older(copy[n].heart)
    BY <1>1, NoRowAssumption
  <2>1. copy[n] \in Heartbeat /\ copy'[n] = [copy[n] EXCEPT !.heart = Older(@)]
    BY <1>1 DEF TypeOK
  <2>2. Older(copy[n].heart) \in 0..HeartTimeout
    BY <2>1, OlderFacts DEF Heartbeat
  <2> QED
    BY <2>1, <2>2 DEF Heartbeat
<1>7. TypeOK'
  <2>1. copy' \in [Nodes -> Heartbeat \cup {NoRow}]
    BY <1>6 DEF Tick
  <2> QED
    BY <1>1, <1>3, <1>4, <1>5, <2>1 DEF TypeOK
<1>8. OneRowEach'
  BY <1>3 DEF OneRowEach
<1>9. \A id \in Ids : servers[id].node \in Nodes /\ servers[id].heart \in 0..HeartTimeout
  BY <1>2 DEF Row
<1>10. NeverYounger'
  <2> SUFFICES ASSUME NEW id \in Ids
               PROVE  servers'[id].heart >= beat'[servers[id].node]
    BY <1>3 DEF NeverYounger
  <2>1. servers[id].heart >= beat[servers[id].node]
    BY DEF NeverYounger
  <2> QED
    BY <1>3, <1>5, <1>9, <2>1, OlderFacts
<1>11. NeverLeftStopped' /\ WriteOK'
  BY <1>1, <1>4 DEF NeverLeftStopped, WriteOK, Up
<1>12. CopyOK'
  <2> SUFFICES ASSUME NEW n \in Nodes, Beating(n)
               PROVE  /\ copy'[n] # NoRow
                      /\ copy'[n].heart >= beat'[n]
                      /\ copy'[n].id = 0 => IdsOf(n)' = {}
                      /\ copy'[n].id # 0 => copy'[n].id \in IdsOf(n)'
    BY <1>1 DEF CopyOK, Beating
  <2>1. copy'[n] # NoRow /\ copy'[n].id = copy[n].id /\ copy'[n].heart >= beat'[n]
    BY <1>5, <1>6, OlderFacts DEF CopyOK
  <2>2. IdsOf(n)' = IdsOf(n)
    BY <1>3 DEF IdsOf
  <2> QED
    BY <2>1, <2>2 DEF CopyOK
<1>13. LatestOK'
  <2> SUFFICES ASSUME NEW n \in Nodes, NEW id \in DOMAIN latest[n]
               PROVE  /\ latest'[n][id].node = servers'[id].node
                      /\ latest'[n][id].heart >= beat'[servers'[id].node]
    BY <1>4 DEF LatestOK
  <2>1. id \in Ids /\ latest[n][id] \in Row
    BY DEF TypeOK
  <2>2. latest[n][id].heart \in 0..HeartTimeout
    BY <2>1 DEF Row
  <2>3. latest[n][id].node = servers[id].node /\ latest[n][id].heart >= beat[servers[id].node]
    BY DEF LatestOK
  <2>4. latest'[n][id].heart >= beat'[servers[id].node]
    BY <1>4, <1>5, <1>9, <2>1, <2>2, <2>3, OlderFacts
  <2> QED
    BY <1>3, <1>4, <2>1, <2>3, <2>4
<1> QED
  BY <1>7, <1>8, <1>10, <1>11, <1>12, <1>13

-----------------------------------------------------------------------------
LEMMA Stuttering ==
  ASSUME IInv, UNCHANGED vars
  PROVE  IInv'
BY DEF IInv, vars, TypeOK, OneRowEach, NeverYounger, NeverLeftStopped, CopyOK, LatestOK,
   WriteOK, Beating, IdsOf, Ids, Up

\* The inductive invariant, of every cluster and every bound.
THEOREM Invariance == Spec => []IInv
<1>1. ASSUME IInv, [Next]_vars
      PROVE  IInv'
  <2>1. CASE Tick
    BY <1>1, <2>1, TickStep
  <2>2. CASE LeaseRunsOut
    BY <1>1, <2>2, LeaseRunsOutStep
  <2>3. ASSUME NEW n \in Nodes, Start(n) \/ Handler(n) \/ Throw(n) \/ Crash(n)
        PROVE  IInv'
    <3>1. CASE Start(n) \/ Throw(n) \/ Crash(n)
      BY <1>1, <3>1, StartStep, ThrowStep, CrashStep
    <3>2. CASE Elapsed(n) \/ RegisterOrUpdate(n)
      BY <1>1, <3>2, ElapsedStep, RegisterOrUpdateStep
    <3>3. CASE FindAllOnlineServer(n) \/ TryLock(n) \/ Skip(n) \/ StopAllDispatch(n)
      BY <1>1, <3>3, FindAllOnlineServerStep, TryLockStep, SkipStep, StopAllDispatchStep
    <3>4. CASE UpdateSlot(n) \/ RestartAllDispatch(n) \/ Release(n)
      BY <1>1, <3>4, UpdateSlotStep, RestartAllDispatchStep, ReleaseStep
    <3> QED
      BY <2>3, <3>1, <3>2, <3>3, <3>4 DEF Handler, TryReslot
  <2>4. CASE UNCHANGED vars
    BY <1>1, <2>4, Stuttering
  <2> QED
    BY <1>1, <2>1, <2>2, <2>3, <2>4 DEF Next
<1> QED
  BY Initially, <1>1, PTL DEF Spec

\* The variables have their types, whatever throws and dies.
THEOREM TypeCorrect == Spec => []TypeOK
BY Invariance, PTL DEF IInv

\* A server never gets a second row.
THEOREM OneRowEachCorrect == Spec => []OneRowEach
BY Invariance, PTL DEF IInv

\* Servers that died are not brought back online by what others write.
THEOREM NeverYoungerCorrect == Spec => []NeverYounger
BY Invariance, PTL DEF IInv

\* A server that runs and does not dispatch is inside its own reassignment.
THEOREM NeverLeftStoppedCorrect == Spec => []NeverLeftStopped
BY Invariance, PTL DEF IInv

-----------------------------------------------------------------------------
(* The slots of a row: those it was inserted with, or its share of the     *)
(* division among some servers, however late that was written.             *)
Given(id, slot) ==
  \/ slot = NewRowSlots
  \/ \E S \in SUBSET (1..Cardinality(Nodes)) : id \in S /\ slot = CalculateSlot(S)[id]

\* A heartbeat about to insert a row (Id 0, which is in no division) has new slots.
SlotsGiven ==
  /\ \A id \in Ids : Given(id, servers[id].slot)
  /\ \A n \in Nodes : Beating(n) => Given(copy[n].id, copy[n].slot)
  /\ \A n \in Nodes : \A id \in DOMAIN latest[n] : Given(id, latest[n][id].slot)

LEMMA FewIds ==
  ASSUME IInv
  PROVE  Ids \subseteq 1..Cardinality(Nodes)
<1>1. TypeOK /\ OneRowEach /\ Cardinality(Nodes) \in Nat
  BY DiscoveryAssumption, FS_CardinalityType DEF IInv
<1>2. PICK k \in Nat : Ids = 1..k
  BY <1>1 DEF TypeOK, Ids
<1>3. Cardinality(Ids) = k
  BY <1>2, FS_Interval
<1>4. Cardinality(Ids) \in 0..Cardinality(Nodes)
  BY <1>1, FewRows
<1> QED
  BY <1>1, <1>2, <1>3, <1>4

\* The rows, and what is on its way to them, keep their slots or are dropped.
LEMMA GivenStays ==
  ASSUME SlotsGiven,
         \A id \in Ids' : id \in Ids /\ servers'[id].slot = servers[id].slot,
         \A n \in Nodes : Beating(n)' => /\ Beating(n)
                                         /\ copy'[n].id = copy[n].id
                                         /\ copy'[n].slot = copy[n].slot,
         \A n \in Nodes : \A id \in DOMAIN latest'[n] :
           id \in DOMAIN latest[n] /\ latest'[n][id].slot = latest[n][id].slot
  PROVE  SlotsGiven'
<1>1. \A id \in Ids' : Given(id, servers'[id].slot)
  BY DEF SlotsGiven
<1>2. \A n \in Nodes : Beating(n)' => Given(copy'[n].id, copy'[n].slot)
  BY DEF SlotsGiven
<1>3. \A n \in Nodes : \A id \in DOMAIN latest'[n] : Given(id, latest'[n][id].slot)
  BY DEF SlotsGiven
<1> QED
  BY <1>1, <1>2, <1>3 DEF SlotsGiven

\* A heartbeat copies the row of its server, or nothing was given to it yet.
LEMMA SelectGiven ==
  ASSUME IInv, SlotsGiven, NEW n \in Nodes, SelectOwnRow(n), UNCHANGED <<servers, latest>>,
         \A m \in Nodes \ {n} : pc'[m] = pc[m]
  PROVE  SlotsGiven'
<1>1. PICK own :
        copy' = [copy EXCEPT ![n] = own] /\ Given(own.id, own.slot)
  <2>1. CASE copy' = [copy EXCEPT ![n] = [id |-> 0, slot |-> NewRowSlots, heart |-> 0]]
    <3> DEFINE own == [id |-> 0, slot |-> NewRowSlots, heart |-> 0]
    <3>1. own.id = 0 /\ own.slot = NewRowSlots /\ Given(0, NewRowSlots)
      BY DEF Given
    <3>2. copy' = [copy EXCEPT ![n] = own] /\ Given(own.id, own.slot)
      BY <2>1, <3>1
    <3> QED
      BY <3>2
  <2>2. CASE \E id \in IdsOf(n) :
               copy' = [copy EXCEPT ![n] = [id |-> id, slot |-> servers[id].slot, heart |-> 0]]
    <3>1. PICK id \in IdsOf(n) :
            copy' = [copy EXCEPT ![n] = [id |-> id, slot |-> servers[id].slot, heart |-> 0]]
      BY <2>2
    <3>2. Given(id, servers[id].slot)
      BY DEF SlotsGiven, IdsOf
    <3> DEFINE own == [id |-> id, slot |-> servers[id].slot, heart |-> 0]
    <3>3. own.id = id /\ own.slot = servers[id].slot
      OBVIOUS
    <3>4. copy' = [copy EXCEPT ![n] = own] /\ Given(own.id, own.slot)
      BY <3>1, <3>2, <3>3
    <3> QED
      BY <3>4
  <2> QED
    BY <2>1, <2>2 DEF SelectOwnRow
<1>2. DOMAIN copy = Nodes
  BY DEF IInv, TypeOK
<1>3. ASSUME NEW m \in Nodes, Beating(m)'
      PROVE  Given(copy'[m].id, copy'[m].slot)
  <2>1. CASE m = n
    BY <1>1, <1>2, <2>1
  <2>2. CASE m # n
    BY <1>1, <1>2, <1>3, <2>2 DEF SlotsGiven, Beating
  <2> QED
    BY <2>1, <2>2
<1>4. (\A id \in Ids : Given(id, servers[id].slot))'
  BY DEF SlotsGiven, Ids
<1>5. (\A m \in Nodes : \A id \in DOMAIN latest[m] : Given(id, latest[m][id].slot))'
  BY DEF SlotsGiven
<1> QED
  BY <1>3, <1>4, <1>5 DEF SlotsGiven

LEMMA RegisterGiven ==
  ASSUME IInv, SlotsGiven, NEW n \in Nodes, RegisterOrUpdate(n)
  PROVE  SlotsGiven'
<1>1. PICK new \in Ids' :
        /\ Ids' = Ids \cup {new}
        /\ servers'[new] = [node |-> n, slot |-> copy[n].slot, heart |-> copy[n].heart]
        /\ \A other \in Ids : other # new => servers'[other] = servers[other]
        /\ copy[n].id # 0 => new = copy[n].id
  BY RegisterFacts
<1>2. Given(copy[n].id, copy[n].slot)
  BY RegisterFacts DEF SlotsGiven
<1>3. Given(new, copy[n].slot)
  <2>1. CASE copy[n].id = 0
    BY <1>2, <2>1 DEF Given
  <2>2. CASE copy[n].id # 0
    BY <1>1, <1>2, <2>2
  <2> QED
    BY <2>1, <2>2
<1>4. servers'[new].slot = copy[n].slot
  BY <1>1
<1>5. \A id \in Ids' : Given(id, servers'[id].slot)
  BY <1>1, <1>3, <1>4 DEF SlotsGiven
<1>6. \A m \in Nodes : Beating(m)' => Beating(m) /\ copy'[m] = copy[m]
  BY DEF RegisterOrUpdate, Goto, Beating, IInv, TypeOK
<1>7. latest' = latest
  BY DEF RegisterOrUpdate
<1>8. \A m \in Nodes : Beating(m)' => Given(copy'[m].id, copy'[m].slot)
  BY <1>6 DEF SlotsGiven
<1>9. \A m \in Nodes : \A id \in DOMAIN latest'[m] : Given(id, latest'[m][id].slot)
  BY <1>7 DEF SlotsGiven
<1> QED
  BY <1>5, <1>8, <1>9 DEF SlotsGiven

LEMMA UpdateGiven ==
  ASSUME IInv, SlotsGiven, NEW n \in Nodes, UpdateSlot(n)
  PROVE  SlotsGiven'
<1> DEFINE id == First(DOMAIN latest[n])
<1>1. /\ id \in DOMAIN latest[n] /\ Ids' = Ids
      /\ \A other \in Ids : servers'[other] = IF other = id THEN latest[n][other] ELSE servers[other]
  BY UpdateFacts
<1>2. \A m \in Nodes : \A other \in DOMAIN latest'[m] :
        other \in DOMAIN latest[m] /\ latest'[m][other] = latest[m][other]
  BY UpdateFacts
<1> HIDE DEF id
<1>3. \A other \in Ids' : Given(other, servers'[other].slot)
  <2> SUFFICES ASSUME NEW other \in Ids
               PROVE  Given(other, servers'[other].slot)
    BY <1>1
  <2>1. CASE other = id
    BY <1>1, <2>1 DEF SlotsGiven
  <2>2. CASE other # id
    BY <1>1, <2>2 DEF SlotsGiven
  <2> QED
    BY <2>1, <2>2
<1>4. \A m \in Nodes : Beating(m)' => Beating(m) /\ copy'[m] = copy[m]
  BY DEF UpdateSlot, Goto, Beating, IInv, TypeOK
<1>5. \A m \in Nodes : Beating(m)' => Given(copy'[m].id, copy'[m].slot)
  BY <1>4 DEF SlotsGiven
<1>6. \A m \in Nodes : \A other \in DOMAIN latest'[m] : Given(other, latest'[m][other].slot)
  BY <1>2 DEF SlotsGiven
<1> QED
  BY <1>3, <1>5, <1>6 DEF SlotsGiven

LEMMA StopAllGiven ==
  ASSUME IInv, SlotsGiven, NEW n \in Nodes, StopAllDispatch(n)
  PROVE  SlotsGiven'
<1> DEFINE slots == CalculateSlot(DOMAIN latest[n])
           resloted == [id \in DOMAIN latest[n] |-> [latest[n][id] EXCEPT !.slot = slots[id]]]
<1>1. /\ UNCHANGED <<servers, copy>>
      /\ UNCHANGED latest \/ latest' = [latest EXCEPT ![n] = resloted]
      /\ pc[n] = "check"
      /\ \E status \in {"write", "sloted"} : pc' = [pc EXCEPT ![n] = status]
  BY DEF StopAllDispatch, Goto
<1>2. /\ DOMAIN latest[n] \subseteq Ids /\ latest[n] \in [DOMAIN latest[n] -> Row]
      /\ DOMAIN latest = Nodes
  BY DEF IInv, TypeOK
<1>3. \A id \in DOMAIN latest[n] : Given(id, slots[id])
  BY <1>2, FewIds DEF Given
<1>4. DOMAIN resloted = DOMAIN latest[n] /\ \A id \in DOMAIN latest[n] : resloted[id].slot = slots[id]
  <2> HIDE DEF slots
  <2>1. \A id \in DOMAIN latest[n] : latest[n][id] \in Row
    BY <1>2
  <2> QED
    BY <2>1 DEF Row
<1> HIDE DEF slots, resloted
<1>5. \A m \in Nodes : \A id \in DOMAIN latest'[m] : Given(id, latest'[m][id].slot)
  <2>1. CASE UNCHANGED latest
    BY <2>1 DEF SlotsGiven
  <2>2. CASE latest' = [latest EXCEPT ![n] = resloted]
    <3>1. \A m \in Nodes : latest'[m] = IF m = n THEN resloted ELSE latest[m]
      BY <1>2, <2>2
    <3> SUFFICES ASSUME NEW m \in Nodes, NEW id \in DOMAIN latest'[m]
                 PROVE  Given(id, latest'[m][id].slot)
      OBVIOUS
    <3>2. CASE m = n
      BY <1>3, <1>4, <3>1, <3>2
    <3>3. CASE m # n
      BY <3>1, <3>3 DEF SlotsGiven
    <3> QED
      BY <3>2, <3>3
  <2> QED
    BY <1>1, <2>1, <2>2
<1>6. \A m \in Nodes : Beating(m)' => Beating(m)
  BY <1>1 DEF Beating, IInv, TypeOK
<1>7. \A m \in Nodes : Beating(m)' => Given(copy'[m].id, copy'[m].slot)
  BY <1>1, <1>6 DEF SlotsGiven
<1>8. (\A id \in Ids : Given(id, servers[id].slot))'
  BY <1>1 DEF SlotsGiven, Ids
<1> QED
  BY <1>5, <1>7, <1>8 DEF SlotsGiven

\* Dropping the selection of a server, or none; rows stay and no heartbeat begins.
LEMMA DropGiven ==
  ASSUME IInv, SlotsGiven, UNCHANGED servers,
         \A m \in Nodes : Beating(m)' => Beating(m) /\ copy'[m] = copy[m],
         UNCHANGED latest \/ \E n \in Nodes : latest' = [latest EXCEPT ![n] = Nothing]
  PROVE  SlotsGiven'
<1>1. TypeOK
  BY DEF IInv
<1>2. \A m \in Nodes : \A id \in DOMAIN latest'[m] : id \in DOMAIN latest[m] /\ latest'[m] = latest[m]
  BY <1>1, DropFacts
<1> QED
  BY <1>2, GivenStays DEF Ids

LEMMA TickGiven ==
  ASSUME IInv, SlotsGiven, Tick
  PROVE  SlotsGiven'
<1>1. /\ servers' = Aged(servers)
      /\ \A n \in Nodes : copy'[n] = IF copy[n] = NoRow THEN NoRow
                                     ELSE [copy[n] EXCEPT !.heart = Older(@)]
      /\ \A n \in Nodes : latest'[n] = Aged(latest[n])
      /\ UNCHANGED pc
  BY DEF Tick
<1>2. /\ servers \in [Ids -> Row] /\ DOMAIN servers = Ids
      /\ \A n \in Nodes : latest[n] \in [DOMAIN latest[n] -> Row]
      /\ \A n \in Nodes : copy[n] \in Heartbeat \cup {NoRow}
  BY DEF IInv, TypeOK, Ids
<1>3. Ids' = Ids /\ \A id \in Ids : servers'[id].slot = servers[id].slot
  BY <1>1, <1>2, AgedFacts DEF Ids
<1>4. \A n \in Nodes : \A id \in DOMAIN latest'[n] :
        id \in DOMAIN latest[n] /\ latest'[n][id].slot = latest[n][id].slot
  BY <1>1, <1>2, AgedFacts
<1>5. \A n \in Nodes : Beating(n)' => /\ Beating(n)
                                      /\ copy'[n].id = copy[n].id
                                      /\ copy'[n].slot = copy[n].slot
  <2> SUFFICES ASSUME NEW n \in Nodes, Beating(n)
               PROVE  copy'[n].id = copy[n].id /\ copy'[n].slot = copy[n].slot
    BY <1>1 DEF Beating
  <2>1. copy[n] # NoRow /\ copy[n] \in Heartbeat
    BY <1>2 DEF IInv, CopyOK
  <2> QED
    BY <1>1, <2>1 DEF Heartbeat
<1> QED
  BY <1>3, <1>4, <1>5, GivenStays

\* No row ever has slots that were not computed for its Id, whoever wrote them when.
THEOREM SlotsGivenCorrect == Spec => []SlotsGiven
<1>1. Init => SlotsGiven
  BY NothingFacts DEF Init, SlotsGiven, Beating, Ids
<1>2. ASSUME IInv, SlotsGiven, [Next]_vars
      PROVE  SlotsGiven'
  <2>0. TypeOK
    BY <1>2 DEF IInv
  <2>1. CASE Tick
    BY <1>2, <2>1, TickGiven
  <2>2. CASE LeaseRunsOut \/ UNCHANGED vars
    <3>1. UNCHANGED <<servers, copy, latest, pc>>
      BY <2>2 DEF LeaseRunsOut, vars
    <3> QED
      BY <1>2, <3>1, DropGiven DEF Beating
  <2>3. ASSUME NEW n \in Nodes, Start(n) \/ Handler(n) \/ Throw(n) \/ Crash(n)
        PROVE  SlotsGiven'
    <3>1. CASE Start(n) \/ Elapsed(n)
      <4>1. /\ SelectOwnRow(n) /\ UNCHANGED <<servers, latest>>
            /\ \A m \in Nodes \ {n} : pc'[m] = pc[m]
        BY <2>0, <3>1 DEF Start, Elapsed, Goto, TypeOK
      <4> QED
        BY <1>2, <4>1, SelectGiven
    <3>2. CASE RegisterOrUpdate(n) \/ UpdateSlot(n) \/ StopAllDispatch(n)
      BY <1>2, <3>2, RegisterGiven, UpdateGiven, StopAllGiven
    <3>3. CASE FindAllOnlineServer(n)
      <4>1. /\ UNCHANGED <<servers, copy>>
            /\ latest' = [latest EXCEPT ![n] = [id \in Online |-> servers[id]]]
            /\ pc' = [pc EXCEPT ![n] = "lock"]
        BY <3>3 DEF FindAllOnlineServer, Goto
      <4>2. \A m \in Nodes : Beating(m)' => Beating(m)
        BY <2>0, <4>1 DEF Beating, TypeOK
      <4>3. \A m \in Nodes : \A id \in DOMAIN latest'[m] : Given(id, latest'[m][id].slot)
        <5> DEFINE selected == [id \in Online |-> servers[id]]
        <5>1. \A id \in DOMAIN selected : Given(id, selected[id].slot)
          BY <1>2 DEF SlotsGiven, Online
        <5> HIDE DEF selected
        <5>2. \A m \in Nodes : latest'[m] = selected \/ latest'[m] = latest[m]
          BY <2>0, <4>1 DEF TypeOK, selected
        <5> SUFFICES ASSUME NEW m \in Nodes, NEW id \in DOMAIN latest'[m]
                     PROVE  Given(id, latest'[m][id].slot)
          OBVIOUS
        <5>3. CASE latest'[m] = selected
          BY <5>1, <5>3
        <5>4. CASE latest'[m] = latest[m]
          BY <1>2, <5>4 DEF SlotsGiven
        <5> QED
          BY <5>2, <5>3, <5>4
      <4>4. \A m \in Nodes : Beating(m)' => Given(copy'[m].id, copy'[m].slot)
        BY <1>2, <4>1, <4>2 DEF SlotsGiven
      <4>5. (\A id \in Ids : Given(id, servers[id].slot))'
        BY <1>2, <4>1 DEF SlotsGiven, Ids
      <4> QED
        BY <4>3, <4>4, <4>5 DEF SlotsGiven
    <3>4. CASE TryLock(n) \/ Skip(n) \/ RestartAllDispatch(n) \/ Release(n) \/ Throw(n) \/ Crash(n)
      <4>1. /\ UNCHANGED servers
            /\ UNCHANGED latest \/ latest' = [latest EXCEPT ![n] = Nothing]
        BY <3>4 DEF TryLock, Skip, RestartAllDispatch, Release, Throw, Crash
      <4>2. /\ UNCHANGED copy \/ copy' = [copy EXCEPT ![n] = NoRow]
            /\ \E status \in {"down", "idle", "check", "sloted", "release"} :
                 pc' = [pc EXCEPT ![n] = status]
        BY <3>4 DEF TryLock, Skip, RestartAllDispatch, Release, Throw, Crash, Goto
      <4>3. \A m \in Nodes : Beating(m)' => m # n /\ Beating(m)
        BY <2>0, <4>2 DEF Beating, TypeOK
      <4>4. \A m \in Nodes : Beating(m)' => copy'[m] = copy[m]
        BY <2>0, <4>2, <4>3 DEF TypeOK
      <4> QED
        BY <1>2, <4>1, <4>3, <4>4, DropGiven
    <3> QED
      BY <2>3, <3>1, <3>2, <3>3, <3>4 DEF Handler, TryReslot
  <2> QED
    BY <1>2, <2>1, <2>2, <2>3 DEF Next
<1> QED
  BY <1>1, <1>2, Invariance, PTL DEF Spec

-----------------------------------------------------------------------------
\* What a step does to the slots of the servers online, when they stay the same and
\* nothing outdated is written: a row keeps them or gets its share of the division.
LEMMA KeptOrDivided ==
  ASSUME IInv, Next, Online' = Online, ~Undo, ~OutdatedWrite, NEW id \in Online
  PROVE  /\ id \in Ids' /\ id \in Ids
         /\ \/ servers'[id].slot = servers[id].slot
            \/ servers'[id].slot = CalculateSlot(Online)[id]
<1>0. TypeOK /\ id \in Ids /\ id \in Ids'
  BY DEF IInv, Online
<1>1. CASE UNCHANGED servers
  BY <1>0, <1>1
<1>2. CASE Tick
  <2>1. servers \in [Ids -> Row] /\ DOMAIN servers = Ids
    BY <1>0 DEF TypeOK, Ids
  <2> QED
    BY <1>0, <1>2, <2>1, AgedFacts DEF Tick
<1>3. ASSUME NEW n \in Nodes, RegisterOrUpdate(n)
      PROVE  servers'[id].slot = servers[id].slot
  <2>1. Beating(n) /\ copy[n] \in Heartbeat
    BY <1>3, RegisterFacts
  <2>2. PICK new \in Ids' :
          /\ \A other \in Ids : other # new => servers'[other] = servers[other]
          /\ copy[n].id = 0 => new \notin Ids
          /\ copy[n].id # 0 => new = copy[n].id
    BY <1>3, RegisterFacts
  <2>3. CASE id = new
    <3>1. copy[n].id = id /\ id \in IdsOf(n)
      BY <1>0, <2>1, <2>2, <2>3 DEF IInv, CopyOK
    <3> QED
      BY <2>1, <3>1 DEF Undo, Beating
  <2> QED
    BY <1>0, <2>2, <2>3
<1>4. ASSUME NEW n \in Nodes, UpdateSlot(n)
      PROVE  servers'[id].slot = servers[id].slot \/ servers'[id].slot = CalculateSlot(Online)[id]
  <2> DEFINE first == First(DOMAIN latest[n])
  <2>1. /\ first \in DOMAIN latest[n]
        /\ DOMAIN latest'[n] = DOMAIN latest[n] \ {first}
        /\ \A other \in Ids : servers'[other] = IF other = first THEN latest[n][other] ELSE servers[other]
    BY <1>4, UpdateFacts
  <2>2. latest[n] # latest'[n] /\ pc[n] = "write"
    BY <1>4, <2>1 DEF UpdateSlot
  <2>3. latest[n][first].slot = CalculateSlot(Online)[first]
    BY <2>2 DEF OutdatedWrite
  <2> HIDE DEF first
  <2> QED
    BY <1>0, <2>1, <2>3
<1>5. CASE \E n \in Nodes : RegisterOrUpdate(n) \/ UpdateSlot(n)
  BY <1>0, <1>3, <1>4, <1>5
<1> QED
  <2>1. \/ Tick \/ UNCHANGED servers \/ \E n \in Nodes : RegisterOrUpdate(n) \/ UpdateSlot(n)
    BY DEF Next, LeaseRunsOut, Start, Handler, Elapsed, TryReslot, FindAllOnlineServer, TryLock, Skip,
       StopAllDispatch, RestartAllDispatch, Release, Throw, Crash
  <2> QED
    BY <1>1, <1>2, <1>5, <2>1

\* The servers online have the slots CalculateSlot gives them.
Divided == \A id \in Online : servers[id].slot = CalculateSlot(Online)[id]

\* What one reassignment has established no other damages, of any number of servers: the
\* division stays until servers come or go or something outdated is written.
THEOREM DivisionKept ==
  Spec => [][Divided /\ Online' = Online => Divided' \/ Undo \/ OutdatedWrite]_vars
<1>1. ASSUME IInv, [Next]_vars
      PROVE  [Divided /\ Online' = Online => Divided' \/ Undo \/ OutdatedWrite]_vars
  <2> SUFFICES ASSUME Next, Divided, Online' = Online, ~Undo, ~OutdatedWrite
               PROVE  Divided'
    BY <1>1
  <2>1. \A id \in Online : servers'[id].slot = CalculateSlot(Online)[id]
    BY <1>1, KeptOrDivided DEF Divided
  <2> QED
    BY <2>1 DEF Divided
<1> QED
  BY <1>1, Invariance, PTL DEF Spec

-----------------------------------------------------------------------------
(* Up to three servers: however the divisions of some of them are mixed,   *)
(* what makes a partition is the division of those online.                 *)
LEMMA Counting ==
  ASSUME NEW i, NEW j, i # j
  PROVE  /\ IsFiniteSet({i}) /\ Cardinality({i}) = 1
         /\ IsFiniteSet({i, j}) /\ Cardinality({i, j}) = 2
<1>1. IsFiniteSet({i}) /\ Cardinality({i}) = 1
  BY FS_Singleton
<1>2. {i, j} = {i} \cup {j} /\ j \notin {i}
  OBVIOUS
<1>3. IsFiniteSet({i} \cup {j}) /\ Cardinality({i} \cup {j}) = 1 + 1
  BY <1>1, <1>2, FS_AddElement
<1> QED
  BY <1>1, <1>2, <1>3

LEMMA DivisionOfOne ==
  ASSUME NEW i \in Nat
  PROVE  CalculateSlot({i})[i] = Share(1, 1)
<1>1. {k \in {i} : k <= i} = {i}
  OBVIOUS
<1>2. Cardinality({i}) = 1
  BY FS_Singleton
<1> QED
  BY <1>1, <1>2 DEF CalculateSlot, Rank

LEMMA DivisionOfTwo ==
  ASSUME NEW i \in Nat, NEW j \in Nat, i < j
  PROVE  CalculateSlot({i, j})[i] = Share(2, 1) /\ CalculateSlot({i, j})[j] = Share(2, 2)
<1>1. {k \in {i, j} : k <= i} = {i} /\ {k \in {i, j} : k <= j} = {i, j}
  OBVIOUS
<1>0. i # j
  OBVIOUS
<1>2. Cardinality({i}) = 1 /\ Cardinality({i, j}) = 2
  BY <1>0, Counting
<1> QED
  BY <1>1, <1>2 DEF CalculateSlot, Rank

LEMMA DivisionOfThree ==
  \A i \in 1..3 : CalculateSlot(1..3)[i] = Share(3, i)
<1> SUFFICES ASSUME NEW i \in 1..3
             PROVE  CalculateSlot(1..3)[i] = Share(3, i)
  OBVIOUS
<1>1. {k \in 1..3 : k <= i} = 1..i
  OBVIOUS
<1>2. \A k \in Nat : Cardinality(1..k) = k
  BY FS_Interval
<1>3. Cardinality(1..i) = i /\ Cardinality(1..3) = 3
  <2>1. i \in Nat /\ 3 \in Nat
    OBVIOUS
  <2> QED
    BY <1>2, <2>1, Zenon
<1> QED
  BY <1>1, <1>3 DEF CalculateSlot, Rank

\* Some of three rows.
LEMMA SomeOfThree ==
  ASSUME NEW S \in SUBSET (1..3), S # {}
  PROVE  \/ \E i \in 1..3 : S = {i}
         \/ S = {1, 2} \/ S = {1, 3} \/ S = {2, 3} \/ S = 1..3
<1>1. \A x : x \in S => x = 1 \/ x = 2 \/ x = 3
  OBVIOUS
<1>2. CASE 1 \in S /\ 2 \in S
  <2>1. CASE 3 \in S
    <3>1. \A x \in 1..3 : x = 1 \/ x = 2 \/ x = 3
      OBVIOUS
    <3>2. S = 1..3
      BY <1>2, <2>1, <3>1, Zenon
    <3> QED
      BY <3>2
  <2>2. CASE 3 \notin S
    <3>1. S = {1, 2}
      BY <1>1, <1>2, <2>2, Zenon
    <3> QED
      BY <3>1
  <2> QED
    BY <2>1, <2>2
<1>3. CASE 1 \in S /\ 2 \notin S
  <2>1. S = {1} \/ S = {1, 3}
    BY <1>1, <1>3, Zenon
  <2> QED
    BY <2>1
<1>4. CASE 1 \notin S /\ 2 \in S
  <2>1. S = {2} \/ S = {2, 3}
    BY <1>1, <1>4, Zenon
  <2> QED
    BY <2>1
<1>5. CASE 1 \notin S /\ 2 \notin S
  <2>1. S = {3}
    BY <1>1, <1>5, Zenon
  <2> QED
    BY <2>1
<1> QED
  BY <1>2, <1>3, <1>4, <1>5

\* What each of three rows can have.
LEMMA GivenOfThree ==
  ASSUME Cardinality(Nodes) <= 3, NEW slot
  PROVE  /\ Given(1, slot) => slot \in {NewRowSlots, Share(1, 1), Share(2, 1), Share(3, 1)}
         /\ Given(2, slot) => slot \in {NewRowSlots, Share(1, 1), Share(2, 1), Share(2, 2), Share(3, 2)}
         /\ Given(3, slot) => slot \in {NewRowSlots, Share(1, 1), Share(2, 2), Share(3, 3)}
<1>1. \A S \in SUBSET (1..Cardinality(Nodes)) : S \in SUBSET (1..3)
  BY DiscoveryAssumption, FS_CardinalityType
<1> SUFFICES ASSUME NEW S \in SUBSET (1..3), NEW id \in S, slot = CalculateSlot(S)[id]
             PROVE  /\ id = 1 => slot \in {Share(1, 1), Share(2, 1), Share(3, 1)}
                    /\ id = 2 => slot \in {Share(1, 1), Share(2, 1), Share(2, 2), Share(3, 2)}
                    /\ id = 3 => slot \in {Share(1, 1), Share(2, 2), Share(3, 3)}
  BY <1>1 DEF Given
<1>2. CASE \E i \in 1..3 : S = {i}
  BY <1>2, DivisionOfOne
<1>3. CASE S = {1, 2}
  BY <1>3, DivisionOfTwo
<1>4. CASE S = {1, 3}
  BY <1>4, DivisionOfTwo
<1>5. CASE S = {2, 3}
  BY <1>5, DivisionOfTwo
<1>6. CASE S = 1..3
  BY <1>6, DivisionOfThree
<1> QED
  BY <1>2, <1>3, <1>4, <1>5, <1>6, SomeOfThree

LEMMA SharesOfThree ==
  ASSUME TOTAL_SLOT_COUNT >= 6
  PROVE  \E a, b \in Nat :
           /\ 1 <= a /\ a < b /\ b <= 2 * a + 1 /\ 2 * a < TOTAL_SLOT_COUNT - 1
           /\ b < TOTAL_SLOT_COUNT - 1
           /\ Share(1, 1) = [from |-> 0, end |-> TOTAL_SLOT_COUNT - 1]
           /\ Share(2, 1) = [from |-> 0, end |-> b - 1]
           /\ Share(2, 2) = [from |-> b, end |-> TOTAL_SLOT_COUNT - 1]
           /\ Share(3, 1) = [from |-> 0, end |-> a - 1]
           /\ Share(3, 2) = [from |-> a, end |-> 2 * a - 1]
           /\ Share(3, 3) = [from |-> 2 * a, end |-> TOTAL_SLOT_COUNT - 1]
<1> DEFINE a == PerCount(3)
           b == PerCount(2)
<1>1. 1 \in 1..TOTAL_SLOT_COUNT /\ 2 \in 1..TOTAL_SLOT_COUNT /\ 3 \in 1..TOTAL_SLOT_COUNT
  BY TotalAssumption
<1>2. /\ a \in Nat /\ 3 * a <= TOTAL_SLOT_COUNT - 3 /\ TOTAL_SLOT_COUNT - 3 < 3 * a + 3
      /\ b \in Nat /\ 2 * b <= TOTAL_SLOT_COUNT - 2 /\ TOTAL_SLOT_COUNT - 2 < 2 * b + 2
      /\ PerCount(1) \in Nat
  BY <1>1, PerCountFacts
<1>3. /\ (1 - 1) * PerCount(1) = 0 /\ (1 - 1) * b = 0 /\ (2 - 1) * b = b /\ 1 * b = b
      /\ (1 - 1) * a = 0 /\ (2 - 1) * a = a /\ (3 - 1) * a = 2 * a /\ 1 * a = a
  BY <1>2
<1>4. /\ Share(1, 1) = [from |-> 0, end |-> TOTAL_SLOT_COUNT - 1]
      /\ Share(2, 1) = [from |-> 0, end |-> b - 1]
      /\ Share(2, 2) = [from |-> b, end |-> TOTAL_SLOT_COUNT - 1]
      /\ Share(3, 1) = [from |-> 0, end |-> a - 1]
      /\ Share(3, 2) = [from |-> a, end |-> 2 * a - 1]
      /\ Share(3, 3) = [from |-> 2 * a, end |-> TOTAL_SLOT_COUNT - 1]
  BY <1>3 DEF Share
<1> HIDE DEF a, b
<1>5. /\ 1 <= a /\ a < b /\ b <= 2 * a + 1 /\ 2 * a < TOTAL_SLOT_COUNT - 1
      /\ b < TOTAL_SLOT_COUNT - 1
  BY <1>2, TotalAssumption
<1> QED
  BY <1>2, <1>4, <1>5

\* A partition that three rows make of what they can have.
LEMMA OnlyDivision ==
  ASSUME Cardinality(Nodes) <= 3, TOTAL_SLOT_COUNT >= 6,
         NEW O \in SUBSET (1..3), O # {}, NEW slot, \A id \in O : Given(id, slot[id]),
         IsPartition(O, slot), NEW id \in O
  PROVE  slot[id] = CalculateSlot(O)[id]
<1> DEFINE T == TOTAL_SLOT_COUNT
           N == [from |-> 0, end |-> 0]
           has(i, s) == slot[i].from <= s /\ s <= slot[i].end
<1>1. PICK a \in Nat, b \in Nat :
        /\ 1 <= a /\ a < b /\ b <= 2 * a + 1 /\ 2 * a < T - 1 /\ b < T - 1
        /\ Share(1, 1) = [from |-> 0, end |-> T - 1]
        /\ Share(2, 1) = [from |-> 0, end |-> b - 1] /\ Share(2, 2) = [from |-> b, end |-> T - 1]
        /\ Share(3, 1) = [from |-> 0, end |-> a - 1] /\ Share(3, 2) = [from |-> a, end |-> 2 * a - 1]
        /\ Share(3, 3) = [from |-> 2 * a, end |-> T - 1]
  BY SharesOfThree
<1>2. /\ 1 \in O => slot[1] \in {N, Share(1, 1), Share(2, 1), Share(3, 1)}
      /\ 2 \in O => slot[2] \in {N, Share(1, 1), Share(2, 1), Share(2, 2), Share(3, 2)}
      /\ 3 \in O => slot[3] \in {N, Share(1, 1), Share(2, 2), Share(3, 3)}
  BY GivenOfThree DEF NewRowSlots
<1>3. T \in Nat /\ \A s \in {0, a - 1, a, b - 1, b, 2 * a - 1, 2 * a, T - 1} :
        \E i \in O : \A j \in O : has(j, s) <=> j = i
  <2>1. T \in Nat /\ \A s \in {0, a - 1, a, b - 1, b, 2 * a - 1, 2 * a, T - 1} : s \in AllSlots
    BY <1>1, TotalAssumption DEF AllSlots
  <2> QED
    BY <2>1 DEF IsPartition, Covers
<1> HIDE DEF T, N, has
<1>4. ASSUME NEW i \in 1..3, O = {i}
      PROVE  slot[i] = Share(1, 1)
  <2>1. has(i, 0) /\ has(i, T - 1)
    BY <1>3, <1>4
  <2> QED
    BY <1>1, <1>2, <1>3, <1>4, <2>1 DEF has, N
<1>5. ASSUME O = {1, 2}
      PROVE  slot[1] = Share(2, 1) /\ slot[2] = Share(2, 2)
  <2>1. \A s \in {0, a, b - 1, T - 1} : has(1, s) <=> ~has(2, s)
    BY <1>3, <1>5
  <2> QED
    BY <1>1, <1>2, <1>3, <1>5, <2>1 DEF has, N
<1>6. ASSUME O = {1, 3}
      PROVE  slot[1] = Share(2, 1) /\ slot[3] = Share(2, 2)
  <2>1. \A s \in {0, a, b - 1, b, 2 * a - 1, 2 * a, T - 1} : has(1, s) <=> ~has(3, s)
    BY <1>3, <1>6
  <2> QED
    BY <1>1, <1>2, <1>3, <1>6, <2>1 DEF has, N
<1>7. ASSUME O = {2, 3}
      PROVE  slot[2] = Share(2, 1) /\ slot[3] = Share(2, 2)
  <2>1. \A s \in {0, a, b - 1, b, 2 * a - 1, 2 * a, T - 1} : has(2, s) <=> ~has(3, s)
    BY <1>3, <1>7
  <2> QED
    BY <1>1, <1>2, <1>3, <1>7, <2>1 DEF has, N
<1>8. ASSUME O = 1..3
      PROVE  slot[1] = Share(3, 1) /\ slot[2] = Share(3, 2) /\ slot[3] = Share(3, 3)
  <2>1. \A s \in {0, a - 1, a, b - 1, b, 2 * a - 1, 2 * a, T - 1} :
          /\ has(1, s) \/ has(2, s) \/ has(3, s)
          /\ ~(has(1, s) /\ has(2, s)) /\ ~(has(1, s) /\ has(3, s)) /\ ~(has(2, s) /\ has(3, s))
    BY <1>3, <1>8
  <2> QED
    BY <1>1, <1>2, <1>3, <1>8, <2>1 DEF has, N
<1>9. CASE \E i \in 1..3 : O = {i}
  BY <1>4, <1>9, DivisionOfOne
<1>10. CASE O = {1, 2}
  BY <1>5, <1>10, DivisionOfTwo
<1>11. CASE O = {1, 3}
  BY <1>6, <1>11, DivisionOfTwo
<1>12. CASE O = {2, 3}
  BY <1>7, <1>12, DivisionOfTwo
<1>13. CASE O = 1..3
  BY <1>8, <1>13, DivisionOfThree
<1> QED
  BY <1>9, <1>10, <1>11, <1>12, <1>13, SomeOfThree

\* Reassignments that agree on the servers online never damage what one of them made of the
\* slots, in clusters of up to three servers.  Of four, two halves written for different
\* pairs of servers can make a partition in the wrong order, and the next one breaks it.
THEOREM PartitionKeptCorrect ==
  ASSUME Cardinality(Nodes) <= 3, TOTAL_SLOT_COUNT >= 6
  PROVE  Spec => PartitionKept
<1>1. ASSUME IInv, SlotsGiven, [Next]_vars
      PROVE  [IsPartition(Online, SlotOf(servers)) /\ Online' = Online =>
                IsPartition(Online, SlotOf(servers))' \/ Undo \/ OutdatedWrite]_vars
  <2> DEFINE slot == SlotOf(servers)
  <2> SUFFICES ASSUME Next, IsPartition(Online, slot), Online' = Online, ~Undo, ~OutdatedWrite
               PROVE  IsPartition(Online, slot)'
    BY <1>1
  <2>1. Online \in SUBSET (1..3) /\ Online \subseteq Ids
    BY <1>1, FewIds, DiscoveryAssumption, FS_CardinalityType DEF Online
  <2>2. \A id \in Online : slot[id] = servers[id].slot /\ Given(id, slot[id])
    BY <1>1, <2>1 DEF SlotOf, SlotsGiven, Ids
  <2>3. Online # {}
    <3>1. 0 \in AllSlots
      BY TotalAssumption DEF AllSlots
    <3> QED
      BY <3>1 DEF IsPartition
  <2>4. \A id \in Online : slot[id] = CalculateSlot(Online)[id]
    BY <2>1, <2>2, <2>3, OnlyDivision
  <2>5. \A id \in Online : id \in Ids' /\ servers'[id].slot = servers[id].slot
    BY <1>1, <2>2, <2>4, KeptOrDivided
  <2>6. \A id \in Online : slot'[id] = slot[id]
    BY <2>2, <2>5 DEF SlotOf, Ids
  <2> HIDE DEF slot
  <2>7. IsPartition(Online, slot')
    BY <2>6 DEF IsPartition
  <2> QED
    BY <2>7 DEF IsPartition, Covers
<1> QED
  BY <1>1, Invariance, SlotsGivenCorrect, PTL DEF Spec, PartitionKept
=============================================================================
