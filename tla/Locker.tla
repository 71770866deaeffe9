------------------------------- MODULE Locker -------------------------------
(***************************************************************************)
(* The database lock behind the slot reassignment: LockerService over      *)
(* LockerRepository, for one key.                                          *)
(*                                                                         *)
(* TryLock is two database round trips (a select, then one insert or       *)
(* update), so other servers act between them; each SQL statement is       *)
(* atomic.  The row is kept as its lease age instead of its timestamp:     *)
(* only "now - locked_at > seconds" is ever tested.  Every server tests it *)
(* with its own DateTime.Now; Skew bounds how far two servers' readings of *)
(* the same age differ (their clocks, and the time between taking          *)
(* DateTime.Now and the statement that stores it).  Ages stop at AgeCap,   *)
(* beyond which every server finds the lease expired.                      *)
(***************************************************************************)
EXTENDS Integers

CONSTANTS
  Nodes,       \* server identifiers (persisted in a file: kept over a restart)
  NoRow,       \* the key has no row in ot_locker
  Expiry,      \* expirdAfterSec: 60 in the code
  Skew,        \* bound on the difference of two servers' readings of an age
  MaxVersion,  \* bound of the model: no TryLock starts on a row of this version
  MaxCuts      \* bound of the model: calls cut short and processes killed

AgeCap == Expiry + Skew + 1

LockerRow == [by : Nodes, version : 0..MaxVersion, age : 0..AgeCap]

ASSUME LockerAssumption ==
  /\ Expiry \in Nat
  /\ Skew \in Nat
  /\ MaxVersion \in Nat
  /\ MaxCuts \in Nat
  /\ NoRow \notin LockerRow
  /\ NoRow \notin Nodes

VARIABLES
  row,     \* the row of the key in ot_locker, or NoRow
  pc,      \* where each server is in TryLock ... Release
  got,     \* the row each server's TryLock selected
  reborn,  \* history: servers whose select predates a delete of the row
  lost,    \* history: how the current hold of a server was taken from it
  cuts     \* calls cut short and processes killed so far

vars == <<row, pc, got, reborn, lost, cuts>>

Status == {"down", "idle", "found", "takeover", "held"}
Loss == {"no", "overrun", "reset"}

TypeOK ==
  /\ row \in LockerRow \cup {NoRow}
  /\ pc \in [Nodes -> Status]
  /\ got \in [Nodes -> LockerRow \cup {NoRow}]
  /\ reborn \in SUBSET Nodes
  /\ lost \in [Nodes -> Loss]
  /\ cuts \in 0..MaxCuts

Init ==
  /\ row = NoRow
  /\ pc = [n \in Nodes |-> "idle"]
  /\ got = [n \in Nodes |-> NoRow]
  /\ reborn = {}
  /\ lost = [n \in Nodes |-> "no"]
  /\ cuts = 0

-----------------------------------------------------------------------------
\* IsExpired: a server may find a lease expired, or may find it live.
MayBeExpired(age) == age + Skew > Expiry
MayBeLive(age) == age - Skew <= Expiry

\* The call of n ends in the given state; what it selected is forgotten.
Leave(n, status) ==
  /\ pc' = [pc EXCEPT ![n] = status]
  /\ got' = [got EXCEPT ![n] = NoRow]
  /\ reborn' = reborn \ {n}

FindByKey(n) ==
  /\ pc[n] = "idle"
  /\ row # NoRow => row.version < MaxVersion
  /\ pc' = [pc EXCEPT ![n] = "found"]
  /\ got' = [got EXCEPT ![n] = row]
  /\ lost' = [lost EXCEPT ![n] = "no"]
  /\ UNCHANGED <<row, reborn, cuts>>

\* insert: fails on the primary key when another server was faster.
NewLocker(n) ==
  /\ pc[n] = "found"
  /\ got[n] = NoRow
  /\ \/ /\ row = NoRow
        /\ row' = [by |-> n, version |-> 0, age |-> 0]
        /\ Leave(n, "held")
     \/ /\ row # NoRow
        /\ UNCHANGED row
        /\ Leave(n, "idle")
  /\ UNCHANGED <<lost, cuts>>

\* Mutant: TimeSpan.Seconds, the seconds part (0..59), in place of TotalSeconds.
CheckExpired_SecondsPart(n) ==
  /\ pc[n] = "found"
  /\ got[n] # NoRow
  /\ got[n].by # n
  /\ Leave(n, "idle")
  /\ UNCHANGED <<row, lost, cuts>>

\* The selected row is another server's: go on only if its lease expired.
CheckExpired(n) ==
  /\ pc[n] = "found"
  /\ got[n] # NoRow
  /\ got[n].by # n
  /\ \/ /\ MayBeExpired(got[n].age)
        /\ pc' = [pc EXCEPT ![n] = "takeover"]
        /\ UNCHANGED <<got, reborn>>
     \/ /\ MayBeLive(got[n].age)
        /\ Leave(n, "idle")
  /\ UNCHANGED <<row, lost, cuts>>

Owns(n) == row # NoRow /\ row.by = n

\* Mutant: the update tests the key only.
TakeoverMatches_AnyVersion(n) == row # NoRow

\* where version = @version and resource = @key (whoever holds it now)
TakeoverMatches(n) == row # NoRow /\ row.version = got[n].version

\* How a takeover by n treats the present holder of the row.
LossOf(n, h) ==
  IF h # row.by \/ pc[h] # "held" THEN lost[h]
  ELSE IF MayBeExpired(row.age) THEN "overrun" ELSE "reset"

UpdateLocker(n) ==
  /\ pc[n] = "takeover"
  /\ \/ /\ TakeoverMatches(n)
        /\ row' = [by |-> n, version |-> row.version + 1, age |-> 0]
        /\ lost' = [h \in Nodes |-> LossOf(n, h)]
        /\ Leave(n, "held")
     \/ /\ ~TakeoverMatches(n)
        /\ UNCHANGED <<row, lost>>
        /\ Leave(n, "idle")
  /\ UNCHANGED cuts

\* Mutant: the update tests the key only.
ReEnterMatches_AnyOwner(n) == row # NoRow

\* where version = @version and resource = @key and locked_by = @lockerby
ReEnterMatches(n) == Owns(n) /\ row.version = got[n].version

ReEnterLocker(n) ==
  /\ pc[n] = "found"
  /\ got[n] # NoRow
  /\ got[n].by = n
  /\ \/ /\ ReEnterMatches(n)
        /\ row' = [row EXCEPT !.version = @ + 1, !.age = 0]
        /\ Leave(n, "held")
     \/ /\ ~ReEnterMatches(n)
        /\ UNCHANGED row
        /\ Leave(n, "idle")
  /\ UNCHANGED <<lost, cuts>>

\* Mutant: the delete tests the key only.
ReleaseLocker_AnyOwner(n) ==
  /\ pc[n] = "held"
  /\ pc' = [pc EXCEPT ![n] = "idle"]
  /\ row' = NoRow
  /\ UNCHANGED <<got, reborn, lost, cuts>>

\* Mutant: the release clears locked_by and keeps the row.
ReleaseLocker_ClearOwner(n) ==
  /\ pc[n] = "held"
  /\ pc' = [pc EXCEPT ![n] = "idle"]
  /\ row' = IF Owns(n) THEN [row EXCEPT !.by = NoRow] ELSE row
  /\ UNCHANGED <<got, reborn, lost, cuts>>

\* delete where locked_by = @lockerby: the row of another server stays.
ReleaseLocker(n) ==
  /\ pc[n] = "held"
  /\ pc' = [pc EXCEPT ![n] = "idle"]
  /\ \/ /\ Owns(n)
        /\ row' = NoRow
        /\ reborn' = {m \in Nodes : pc[m] \in {"found", "takeover"} /\ got[m] # NoRow}
     \/ /\ ~Owns(n)
        /\ UNCHANGED <<row, reborn>>
  /\ UNCHANGED <<got, lost, cuts>>

\* A statement throws, or the notification before Release does: the call is
\* over and a row it wrote stays.
Abandon(n) ==
  /\ cuts < MaxCuts
  /\ pc[n] \in {"found", "takeover", "held"}
  /\ Leave(n, "idle")
  /\ cuts' = cuts + 1
  /\ UNCHANGED <<row, lost>>

\* The process dies.
Crash(n) ==
  /\ cuts < MaxCuts
  /\ pc[n] # "down"
  /\ Leave(n, "down")
  /\ cuts' = cuts + 1
  /\ UNCHANGED <<row, lost>>

\* The process is started again and reads its identifier from the file.
Restart(n) ==
  /\ pc[n] = "down"
  /\ pc' = [pc EXCEPT ![n] = "idle"]
  /\ UNCHANGED <<row, got, reborn, lost, cuts>>

Older(age) == IF age < AgeCap THEN age + 1 ELSE age
Aged(r) == IF r = NoRow THEN NoRow ELSE [r EXCEPT !.age = Older(@)]

\* Time passes.
Tick ==
  /\ row' = Aged(row)
  /\ got' = [n \in Nodes |-> Aged(got[n])]
  /\ UNCHANGED <<pc, reborn, lost, cuts>>

-----------------------------------------------------------------------------
TryLock(n) ==
  FindByKey(n) \/ NewLocker(n) \/ CheckExpired(n) \/ UpdateLocker(n) \/ ReEnterLocker(n)

Next ==
  \/ Tick
  \/ \E n \in Nodes :
       TryLock(n) \/ ReleaseLocker(n) \/ Abandon(n) \/ Crash(n) \/ Restart(n)

Spec == Init /\ [][Next]_vars

\* The reslot timer calls TryLock again and again, a call takes finite time,
\* and so does the section it protects.  Nothing makes a server abandon a call,
\* crash or come back.
Fairness ==
  /\ WF_vars(Tick)
  /\ \A n \in Nodes : WF_vars(TryLock(n)) /\ WF_vars(ReleaseLocker(n))

FairSpec == Spec /\ Fairness

-----------------------------------------------------------------------------
Holders == {n \in Nodes : pc[n] = "held"}

\* A server that is inside the protected section and whose lease nobody took
\* over still owns the row.  So of two servers inside the section at once, one
\* has lost its lease to a takeover: inserting, re-entering and releasing never
\* cost another server its lock.
HoldsUnlessTaken == \A n \in Holders : lost[n] = "no" => Owns(n)

\* Two servers are inside the section only if one of them was overtaken.
MutexUnlessTaken ==
  \A m, n \in Holders : lost[m] = "no" /\ lost[n] = "no" => m = n

\* A server overwrites the row of another only when that lease has run out, or
\* when the row was deleted and inserted anew after the server selected it (the
\* version column starts at 0 again, so the version test cannot tell).
Overwritten == row # NoRow /\ row' # NoRow /\ row'.by # row.by
TakenOnlyWhenExpiredOrReborn ==
  [][Overwritten =>
       MayBeExpired(row.age) \/ row'.by \in reborn]_vars

\* A row that no live call holds (its server died or skipped the release) does
\* not block the key for ever: while some server runs, the row is taken over or
\* deleted, whether or not its owner returns.
AllDown == \A n \in Nodes : pc[n] = "down"
Orphaned == row # NoRow /\ Holders = {}
OrphanRecovered ==
  Orphaned ~> (~Orphaned \/ AllDown \/ row.version = MaxVersion)

\* Read strictly: a lease is only ever lost by outliving its expiry.
LostOnlyByOverrun == \A n \in Nodes : lost[n] # "reset"

\* The promise of the lock: each TryLock, though two statements that others come
\* between, is answered as if at once, grants a key that is free, already the
\* caller's or run out (or asked for before a release), and a release frees the
\* key of its caller only.
L == INSTANCE Lease WITH
  NoOne     <- NoRow,
  RunsOut   <- MayBeExpired(0),
  owner     <- IF row = NoRow THEN NoRow ELSE row.by,
  mayExpire <- row # NoRow /\ MayBeExpired(row.age),
  asking    <- {n \in Nodes : pc[n] \in {"found", "takeover"}},
  outdated  <- reborn,
  inside    <- Holders,
  robbed    <- {n \in Holders : lost[n] # "no"}

ImplementsLease == L!Spec
=============================================================================
