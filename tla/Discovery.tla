------------------------------ MODULE Discovery ------------------------------
(***************************************************************************)
(* The servers of a cluster and the table ot_server they share: the        *)
(* heartbeat and the slot reassignment of DiscoveryFromDb, with what       *)
(* OnSloting and OnSloted make OpenTaskServer do.                          *)
(*                                                                         *)
(* Each SQL statement is one step, so servers interleave between the       *)
(* select and the update of a heartbeat, between the select of the online  *)
(* servers and the lock, and between the updates of two rows.  TryLock is  *)
(* one step here: module Locker has its statements.                        *)
(*                                                                         *)
(* A row is known by its Id, its place in servers.  Heartbeats are kept as *)
(* ages, which Tick advances up to HeartTimeout, where a row is offline.   *)
(* The lease of the lock runs out in a step of its own (LeaseRunsOut), at  *)
(* any time: its 60 s against the 15 s of HeartTimeout is not kept.        *)
(***************************************************************************)
EXTENDS Slots

CONSTANTS
  Nodes,         \* server identifiers (persisted in a file: kept over a restart)
  NoOne,         \* the lock has no owner
  NoRow,         \* a heartbeat has no row to write
  HeartTimeout,  \* HEART_INTERVAL * 3: from this age on a row is offline
  MaxThrows,     \* bound of the model: statements and notifications that throw
  MaxCrashes,    \* bound of the model: processes killed
  MayRestart     \* bound of the model: whether a killed process comes back

ASSUME DiscoveryAssumption ==
  /\ IsFiniteSet(Nodes)
  /\ Cardinality(Nodes) \in 1..TOTAL_SLOT_COUNT
  /\ NoOne \notin Nodes
  /\ HeartTimeout \in Nat \ {0}
  /\ MaxThrows \in Nat
  /\ MaxCrashes \in Nat
  /\ MayRestart \in BOOLEAN

Row == [node : Nodes, slot : Interval, heart : 0..HeartTimeout]

\* A row to insert (Id 0) or to update.
Heartbeat == [id : Nat, slot : Interval, heart : 0..HeartTimeout]

ASSUME NoRowAssumption == NoRow \notin Heartbeat

VARIABLES
  servers,      \* the rows of ot_server in the order of their Ids
  lease,        \* the owner of the lock, and whether its lease still runs
  pc,           \* where the timer handler of each server is
  round,        \* times % 2
  copy,         \* the row a heartbeat is about to write
  latest,       \* latestNodes: the rows selected, later those still to write
  dispatching,  \* not SchedulingHandler.stoped, for servers that run
  peers,        \* the keys of clusterSubscribers
  beat,         \* history: the age of each server's last heartbeat
  throws,       \* statements and notifications that threw so far
  crashes       \* processes killed so far

vars == <<servers, lease, pc, round, copy, latest, dispatching, peers, beat, throws,
          crashes>>

Ids == DOMAIN servers
Status == {"down", "starting", "idle", "register", "discover", "lock", "check",
           "write", "sloted", "release"}

TypeOK ==
  /\ servers \in Seq(Row)
  /\ lease \in [by : Nodes \cup {NoOne}, recent : BOOLEAN]
  /\ pc \in [Nodes -> Status]
  /\ round \in [Nodes -> {0, 1}]
  /\ copy \in [Nodes -> Heartbeat \cup {NoRow}]
  /\ DOMAIN latest = Nodes
  /\ \A n \in Nodes : DOMAIN latest[n] \subseteq Ids /\ latest[n] \in [DOMAIN latest[n] -> Row]
  /\ dispatching \in [Nodes -> BOOLEAN]
  /\ peers \in [Nodes -> SUBSET Nodes]
  /\ beat \in [Nodes -> 0..HeartTimeout]
  /\ throws \in 0..MaxThrows
  /\ crashes \in 0..MaxCrashes

Nothing == [id \in {} |-> NoRow]

Init ==
  /\ servers = <<>>
  /\ lease = [by |-> NoOne, recent |-> FALSE]
  /\ pc = [n \in Nodes |-> "down"]
  /\ round = [n \in Nodes |-> 0]
  /\ copy = [n \in Nodes |-> NoRow]
  /\ latest = [n \in Nodes |-> Nothing]
  /\ dispatching = [n \in Nodes |-> FALSE]
  /\ peers = [n \in Nodes |-> {}]
  /\ beat = [n \in Nodes |-> HeartTimeout]
  /\ throws = 0
  /\ crashes = 0

-----------------------------------------------------------------------------
Up(n) == pc[n] # "down"
Goto(n, status) == pc' = [pc EXCEPT ![n] = status]

SlotOf(rows) == [id \in DOMAIN rows |-> rows[id].slot]
IdsOf(n) == {id \in Ids : servers[id].node = n}
Online == {id \in Ids : servers[id].heart < HeartTimeout}

-----------------------------------------------------------------------------
(* The heartbeat: RegisterOrUpdate selects the row and writes all of it.   *)

\* Mutant: a row whose heartbeat is too old is not found.
SelectOwnRow_OnlineOnly(n) ==
  /\ beat' = [beat EXCEPT ![n] = 0]
  /\ \/ /\ IdsOf(n) \cap Online = {}
        /\ copy' = [copy EXCEPT ![n] = [id |-> 0, slot |-> NewRowSlots, heart |-> 0]]
     \/ \E id \in IdsOf(n) \cap Online :
          copy' = [copy EXCEPT ![n] = [id |-> id, slot |-> servers[id].slot, heart |-> 0]]

\* The heartbeat's row with HeartAt, DateTime.Now before the select: a new one
\* (Id 0) if none is found, else as it was selected.
SelectOwnRow(n) ==
  /\ beat' = [beat EXCEPT ![n] = 0]
  /\ \/ /\ IdsOf(n) = {}
        /\ copy' = [copy EXCEPT ![n] = [id |-> 0, slot |-> NewRowSlots, heart |-> 0]]
     \/ \E id \in IdsOf(n) :
          copy' = [copy EXCEPT ![n] = [id |-> id, slot |-> servers[id].slot, heart |-> 0]]

\* The process starts: the scheduler first, then the first Register.
Start(n) ==
  /\ pc[n] = "down"
  /\ IdsOf(n) = {} \/ MayRestart
  /\ Goto(n, "starting")
  /\ SelectOwnRow(n)
  /\ dispatching' = [dispatching EXCEPT ![n] = TRUE]
  /\ UNCHANGED <<servers, lease, round, latest, peers, throws, crashes>>

Elapsed(n) ==
  /\ pc[n] = "idle"
  /\ Goto(n, "register")
  /\ SelectOwnRow(n)
  /\ round' = [round EXCEPT ![n] = 1 - @]
  /\ UNCHANGED <<servers, lease, latest, dispatching, peers, throws, crashes>>

\* Every second heartbeat is followed by TryReslot.
RegisterOrUpdate(n) ==
  /\ pc[n] \in {"starting", "register"}
  /\ LET row == [node |-> n, slot |-> copy[n].slot, heart |-> copy[n].heart] IN
       servers' = IF copy[n].id = 0 THEN Append(servers, row)
                  ELSE [servers EXCEPT ![copy[n].id] = row]
  /\ copy' = [copy EXCEPT ![n] = NoRow]
  /\ Goto(n, IF pc[n] = "register" /\ round[n] = 0 THEN "discover" ELSE "idle")
  /\ UNCHANGED <<lease, round, latest, dispatching, peers, throws, crashes, beat>>

-----------------------------------------------------------------------------
(* TryReslot, up to the lock.                                              *)

\* Mutant: servers that are offline are not looked for.
FindAllOnlineServer_OnlyAdds(n) ==
  /\ pc[n] = "discover"
  /\ latest' = [latest EXCEPT ![n] = [id \in Online |-> servers[id]]]
  /\ peers' = [peers EXCEPT ![n] = (@ \cup {servers[id].node : id \in Online}) \ {n}]
  /\ Goto(n, "lock")
  /\ UNCHANGED <<servers, lease, round, copy, dispatching, throws, crashes, beat>>

FindAllOnlineServer(n) ==
  /\ pc[n] = "discover"
  /\ latest' = [latest EXCEPT ![n] = [id \in Online |-> servers[id]]]
  /\ peers' = [peers EXCEPT ![n] = {servers[id].node : id \in Online} \ {n}]
  /\ Goto(n, "lock")
  /\ UNCHANGED <<servers, lease, round, copy, dispatching, throws, crashes, beat>>

\* Mutant: a lease never runs out.
MayLock_Forever(n) == lease.by \in {NoOne, n}

\* The key is free, or n's own from a call that did not release it, or run out.
MayLock(n) == lease.by \in {NoOne, n} \/ ~lease.recent

TryLock(n) ==
  /\ pc[n] = "lock"
  /\ \/ /\ MayLock(n)
        /\ lease' = [by |-> n, recent |-> TRUE]
        /\ Goto(n, "check")
        /\ UNCHANGED latest
     \/ /\ ~MayLock(n)
        /\ Goto(n, "idle")
        /\ latest' = [latest EXCEPT ![n] = Nothing]
        /\ UNCHANGED lease
  /\ UNCHANGED <<servers, round, copy, dispatching, peers, throws, crashes, beat>>

-----------------------------------------------------------------------------
(* TryReslot, with the lock.                                               *)

\* publishToCluster throws when a subscriber is not connected.  A subscriber of
\* a server that stopped has noticed it or not; one of a server that runs can
\* be disconnected for a while, which counts as a fault.
MayThrow(n) == throws < MaxThrows \/ \E m \in peers[n] : ~Up(m)

CountThrow(n) ==
  throws' = IF \A m \in peers[n] : Up(m) THEN throws + 1 ELSE throws

StopTopic == "stop"
StartTopic == "start"

\* What the servers that receive a topic do: SelfSubscriber knows two of them.
Receive(topic, group, disp) ==
  [m \in Nodes |->
     IF m \in group /\ Up(m) /\ topic \in {"stop_disp", "start_disp"}
     THEN topic = "start_disp" ELSE disp[m]]

WholeSlot(n) == IsWholeSlot(DOMAIN latest[n], SlotOf(latest[n]))

Skip(n) ==
  /\ pc[n] = "check"
  /\ WholeSlot(n)
  /\ Goto(n, "sloted")
  /\ UNCHANGED <<servers, lease, round, copy, latest, dispatching, peers, throws, crashes, beat>>

\* Mutant: no finally block around the notification.
StopAllDispatch_NoFinally(n) ==
  /\ pc[n] = "check"
  /\ ~WholeSlot(n)
  /\ MayThrow(n)
  /\ CountThrow(n)
  /\ dispatching' = [dispatching EXCEPT ![n] = FALSE]
  /\ Goto(n, "idle")
  /\ UNCHANGED <<servers, lease, round, copy, latest, peers, beat, crashes>>

\* OnSloting, then CalculateSlot: with no row it divides by zero and throws.
StopAllDispatch(n) ==
  /\ pc[n] = "check"
  /\ ~WholeSlot(n)
  /\ LET stopped == [dispatching EXCEPT ![n] = FALSE] IN
       \/ /\ dispatching' = Receive(StopTopic, peers[n], stopped)
          /\ \/ /\ DOMAIN latest[n] # {}
                /\ latest' = [latest EXCEPT ![n] =
                     LET slots == CalculateSlot(DOMAIN @) IN
                     [id \in DOMAIN @ |-> [@[id] EXCEPT !.slot = slots[id]]]]
                /\ Goto(n, "write")
             \/ /\ DOMAIN latest[n] = {}
                /\ Goto(n, "sloted")
                /\ UNCHANGED latest
          /\ UNCHANGED throws
       \/ /\ MayThrow(n)
          /\ CountThrow(n)
          /\ dispatching' = stopped
          /\ Goto(n, "sloted")
          /\ UNCHANGED latest
  /\ UNCHANGED <<servers, lease, round, copy, peers, beat, crashes>>

First(ids) == CHOOSE id \in ids : \A other \in ids : id <= other

\* Mutant: HeartAt is set to the time of the update.
UpdateSlot_HeartNow(n) ==
  /\ pc[n] = "write"
  /\ LET id == First(DOMAIN latest[n]) IN
       /\ servers' = [servers EXCEPT ![id] = [latest[n][id] EXCEPT !.heart = 0]]
       /\ latest' = [latest EXCEPT ![n] = [other \in DOMAIN @ \ {id} |-> @[other]]]
       /\ Goto(n, IF DOMAIN latest[n] = {id} THEN "sloted" ELSE "write")
  /\ UNCHANGED <<lease, round, copy, dispatching, peers, throws, crashes, beat>>

\* Mutant: the slots of the rows that follow are cleared first.
UpdateSlot_ClearFirst(n) ==
  /\ pc[n] = "write"
  /\ LET id == First(DOMAIN latest[n]) IN
       /\ servers' = [other \in Ids |->
                        IF other = id THEN latest[n][id]
                        ELSE IF other \in DOMAIN latest[n]
                             THEN [servers[other] EXCEPT !.slot = NewRowSlots]
                             ELSE servers[other]]
       /\ latest' = [latest EXCEPT ![n] = [other \in DOMAIN @ \ {id} |-> @[other]]]
       /\ Goto(n, IF DOMAIN latest[n] = {id} THEN "sloted" ELSE "write")
  /\ UNCHANGED <<lease, round, copy, dispatching, peers, throws, crashes, beat>>

\* UpdateSlot, one row: all its columns are as they were selected, the slots new.
UpdateSlot(n) ==
  /\ pc[n] = "write"
  /\ LET id == First(DOMAIN latest[n]) IN
       /\ servers' = [servers EXCEPT ![id] = latest[n][id]]
       /\ latest' = [latest EXCEPT ![n] = [other \in DOMAIN @ \ {id} |-> @[other]]]
       /\ Goto(n, IF DOMAIN latest[n] = {id} THEN "sloted" ELSE "write")
  /\ UNCHANGED <<lease, round, copy, dispatching, peers, throws, crashes, beat>>

\* Mutant: only the others are told to start.
RestartAllDispatch_OthersOnly(n) ==
  /\ pc[n] = "sloted"
  /\ Goto(n, "release")
  /\ dispatching' = Receive(StartTopic, peers[n], dispatching)
  /\ latest' = [latest EXCEPT ![n] = Nothing]
  /\ UNCHANGED <<servers, lease, round, copy, peers, throws, crashes, beat>>

\* OnSloted, in the finally block: this server first, then the others.  If the
\* notification throws, Release is not reached.
RestartAllDispatch(n) ==
  /\ pc[n] = "sloted"
  /\ LET started == [dispatching EXCEPT ![n] = TRUE] IN
       \/ /\ dispatching' = Receive(StartTopic, peers[n], started)
          /\ Goto(n, "release")
          /\ UNCHANGED throws
       \/ /\ MayThrow(n)
          /\ CountThrow(n)
          /\ dispatching' = started
          /\ Goto(n, "idle")
  /\ latest' = [latest EXCEPT ![n] = Nothing]
  /\ UNCHANGED <<servers, lease, round, copy, peers, beat, crashes>>

Release(n) ==
  /\ pc[n] = "release"
  /\ lease' = IF lease.by = n THEN [lease EXCEPT !.by = NoOne] ELSE lease
  /\ Goto(n, "idle")
  /\ UNCHANGED <<servers, round, copy, latest, dispatching, peers, throws, crashes, beat>>

-----------------------------------------------------------------------------
\* A statement throws.  Within the section the finally block follows, before
\* and after it the timer handler logs the exception and is done.
Throw(n) ==
  /\ throws < MaxThrows
  /\ throws' = throws + 1
  /\ \/ /\ pc[n] \in {"register", "discover", "lock", "release"}
        /\ Goto(n, "idle")
        /\ copy' = [copy EXCEPT ![n] = NoRow]
        /\ latest' = [latest EXCEPT ![n] = Nothing]
     \/ /\ pc[n] = "write"
        /\ Goto(n, "sloted")
        /\ UNCHANGED <<copy, latest>>
  /\ UNCHANGED <<servers, lease, round, dispatching, peers, beat, crashes>>

\* The process dies, or Register throws while it starts.
Crash(n) ==
  /\ crashes < MaxCrashes
  /\ crashes' = crashes + 1
  /\ Up(n)
  /\ Goto(n, "down")
  /\ round' = [round EXCEPT ![n] = 0]
  /\ copy' = [copy EXCEPT ![n] = NoRow]
  /\ latest' = [latest EXCEPT ![n] = Nothing]
  /\ dispatching' = [dispatching EXCEPT ![n] = FALSE]
  /\ peers' = [peers EXCEPT ![n] = {}]
  /\ UNCHANGED <<servers, lease, beat, throws>>

Older(age) == IF age < HeartTimeout THEN age + 1 ELSE age
Aged(rows) == [id \in DOMAIN rows |-> [rows[id] EXCEPT !.heart = Older(@)]]

\* Time passes for every row, selected ones included.
Tick ==
  /\ servers' = Aged(servers)
  /\ copy' = [n \in Nodes |-> IF copy[n] = NoRow THEN NoRow
                              ELSE [copy[n] EXCEPT !.heart = Older(@)]]
  /\ latest' = [n \in Nodes |-> Aged(latest[n])]
  /\ beat' = [n \in Nodes |-> Older(beat[n])]
  /\ UNCHANGED <<lease, pc, round, dispatching, peers, throws, crashes>>

LeaseRunsOut ==
  /\ lease.recent
  /\ lease' = [lease EXCEPT !.recent = FALSE]
  /\ UNCHANGED <<servers, pc, round, copy, latest, dispatching, peers, throws, crashes, beat>>

-----------------------------------------------------------------------------
TryReslot(n) ==
  \/ FindAllOnlineServer(n) \/ TryLock(n) \/ Skip(n) \/ StopAllDispatch(n)
  \/ UpdateSlot(n) \/ RestartAllDispatch(n) \/ Release(n)

Handler(n) == Elapsed(n) \/ RegisterOrUpdate(n) \/ TryReslot(n)

Next ==
  \/ Tick
  \/ LeaseRunsOut
  \/ \E n \in Nodes : Start(n) \/ Handler(n) \/ Throw(n) \/ Crash(n)

Spec == Init /\ [][Next]_vars

\* A process that runs has its timer fire again and again and its statements
\* return; time passes.  Nothing starts a process, kills it or makes it throw.
Fairness ==
  /\ WF_vars(Tick)
  /\ WF_vars(LeaseRunsOut)
  /\ \A n \in Nodes : WF_vars(Handler(n))

FairSpec == Spec /\ Fairness

-----------------------------------------------------------------------------
\* No server is left with its scheduler stopped: whatever throws between OnSloting
\* and the end of TryReslot, a server that runs and does not dispatch is inside
\* its own reassignment, on the way to OnSloted.
NeverLeftStopped ==
  \A n \in Nodes : Up(n) /\ ~dispatching[n] => pc[n] \in {"write", "sloted"}

\* ... and it gets there: a server that stops dispatching resumes or dies.
StoppedResumes ==
  \A n \in Nodes : []<>(Up(n) => dispatching[n])

\* A server never has two rows: its heartbeats, which select first and insert
\* later, find the row again after an exception, a restart or a long silence.
OneRowEach ==
  \A one, other \in Ids : servers[one].node = servers[other].node => one = other

\* No row is younger than the last heartbeat of its server: full-row updates of
\* others write HeartAt back as they selected it, in whatever order, never as now.
\* So a server that died is never found online again once it was silent for the
\* timeout, unless it is started again.
NeverYounger == \A id \in Ids : servers[id].heart >= beat[servers[id].node]

\* The heartbeat writes a row whose slots changed after it selected them.
Undo ==
  \E n \in Nodes :
    /\ pc[n] \in {"starting", "register"}
    /\ \E id \in IdsOf(n) : servers'[id].slot # servers[id].slot

\* A reassignment writes a row as for other servers than are online now.
OutdatedWrite ==
  \E n \in Nodes :
    /\ pc[n] = "write"
    /\ latest[n] # latest'[n]
    /\ LET id == First(DOMAIN latest[n]) IN
         id \notin Online \/ latest[n][id].slot # CalculateSlot(Online)[id]

\* While the same servers are online, a partition of the slots stays one, however
\* many servers are inside TryReslot, having lost the lock or not, and whatever
\* they have written so far: reassignments that agree on the servers never damage
\* each other.  Two things can break it: a heartbeat or a reassignment that writes
\* what it selected too long ago.  This is of up to three servers: of four, halves
\* written for different pairs of them can be a partition by chance.
PartitionKept ==
  [][IsPartition(Online, SlotOf(servers)) /\ Online' = Online =>
       IsPartition(Online, SlotOf(servers))' \/ Undo \/ OutdatedWrite]_vars

\* A server that died is forgotten: those that run stop connecting to it, unless
\* it is started again.
DeadForgotten ==
  \A m \in Nodes : \A n \in Nodes \ {m} :
    []<>(~Up(m) /\ Up(n) => m \notin peers[n])

\* The servers that run are those online, and there is one.
Settled == Online # {} /\ \A n \in Nodes : Up(n) <=> IdsOf(n) \cap Online # {}

\* Once servers no longer come and go and beat in time, and heartbeats no longer
\* undo a reassignment, every slot comes to have exactly one server and keeps it:
\* through locks never released, reassignments from outdated selections and
\* those cut short before.
Converges ==
  <>[]Settled /\ <>[][~Undo]_vars => <>[]IsPartition(Online, SlotOf(servers))

\* Read strictly: while a server rewrites the slots, those it notified pause.
PeersPause ==
  \A n \in Nodes : pc[n] = "write" => \A m \in peers[n] : Up(m) => ~dispatching[m]
=============================================================================
