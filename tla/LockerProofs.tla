---------------------------- MODULE LockerProofs ----------------------------
(***************************************************************************)
(* Proofs about Locker for every set of servers, expiry, clock skew and    *)
(* bound.  The inductive invariant adds to the properties what a server    *)
(* knows of the row it selected: unless the row was deleted since, the     *)
(* version never went back, and while it is unchanged so is the owner,     *)
(* and the lease has only grown older.                                     *)
(***************************************************************************)
EXTENDS Locker, TLAPS

Selected(n) == pc[n] \in {"found", "takeover"} /\ got[n] # NoRow

\* The row n selected is still the row, or an older version of it.
SelectionStands(n) ==
  /\ row # NoRow
  /\ got[n].version <= row.version
  /\ got[n].version = row.version => got[n].by = row.by /\ got[n].age <= row.age

SelectionOK ==
  \A n \in Nodes : Selected(n) =>
    /\ got[n].version < MaxVersion
    /\ n \notin reborn => SelectionStands(n)

\* A server is about to take over only a lease it found expired.
TakeoverOK ==
  \A n \in Nodes : pc[n] = "takeover" => got[n] # NoRow /\ MayBeExpired(got[n].age)

IInv == TypeOK /\ SelectionOK /\ TakeoverOK /\ HoldsUnlessTaken

-----------------------------------------------------------------------------
\* Ageing keeps ages in range, in order, and expired once expired.
LEMMA OlderFacts ==
  ASSUME NEW a \in 0..AgeCap, NEW b \in 0..AgeCap
  PROVE  /\ Older(a) \in 0..AgeCap
         /\ a <= b => Older(a) <= Older(b)
         /\ MayBeExpired(a) => MayBeExpired(Older(a))
BY LockerAssumption DEF Older, AgeCap, MayBeExpired

LEMMA AgedFacts ==
  ASSUME NEW r \in LockerRow \cup {NoRow}
  PROVE  /\ Aged(r) \in LockerRow \cup {NoRow}
         /\ Aged(r) = NoRow <=> r = NoRow
         /\ r # NoRow => /\ Aged(r).by = r.by
                         /\ Aged(r).version = r.version
                         /\ Aged(r).age = Older(r.age)
<1>1. CASE r = NoRow
  BY <1>1, LockerAssumption DEF Aged
<1>2. CASE r # NoRow
  <2>1. r \in LockerRow
    BY <1>2
  <2>2. Older(r.age) \in 0..AgeCap
    BY <2>1, OlderFacts DEF LockerRow
  <2>3. Aged(r) = [by |-> r.by, version |-> r.version, age |-> Older(r.age)]
    BY <1>2, <2>1 DEF Aged, LockerRow
  <2>4. Aged(r) \in LockerRow
    BY <2>1, <2>2, <2>3 DEF LockerRow
  <2> QED
    BY <1>2, <2>3, <2>4, LockerAssumption
<1> QED
  BY <1>1, <1>2

\* The new value of the row after a successful insert, update or re-entry.
LEMMA RowWrites ==
  ASSUME TypeOK, NEW n \in Nodes
  PROVE  /\ [by |-> n, version |-> 0, age |-> 0] \in LockerRow
         /\ row # NoRow /\ row.version < MaxVersion =>
              [by |-> n, version |-> row.version + 1, age |-> 0] \in LockerRow
BY LockerAssumption DEF TypeOK, LockerRow, AgeCap

\* A row is there.
LEMMA RowIsNoNoRow == \A r \in LockerRow : r # NoRow
BY LockerAssumption DEF LockerRow

LEMMA Initially == Init => IInv
BY LockerAssumption DEF Init, IInv, TypeOK, SelectionOK, TakeoverOK, HoldsUnlessTaken,
   Selected, Holders, Status, Loss

-----------------------------------------------------------------------------
\* A server's select copies the row as it is.
LEMMA FindByKeyStep ==
  ASSUME IInv, NEW n \in Nodes, FindByKey(n)
  PROVE  IInv'
<1> USE DEF IInv, FindByKey
<1>1. TypeOK'
  BY DEF TypeOK, Status, Loss
<1>2. SelectionOK'
  <2> SUFFICES ASSUME NEW m \in Nodes, Selected(m)'
               PROVE  /\ got'[m].version < MaxVersion
                      /\ m \notin reborn => SelectionStands(m)'
    BY DEF SelectionOK
  <2>1. CASE m = n
    BY <2>1 DEF TypeOK, Selected, SelectionStands, LockerRow, AgeCap
  <2>2. CASE m # n
    BY <2>2 DEF TypeOK, SelectionOK, Selected, SelectionStands
  <2> QED
    BY <2>1, <2>2
<1>3. TakeoverOK'
  BY DEF TypeOK, TakeoverOK
<1>4. HoldsUnlessTaken'
  BY DEF TypeOK, HoldsUnlessTaken, Holders, Owns
<1> QED
  BY <1>1, <1>2, <1>3, <1>4

\* A call that ends without a write leaves every other server's view alone.
LEMMA LeaveStep ==
  ASSUME IInv, NEW n \in Nodes, NEW s \in {"idle", "down"}, Leave(n, s),
         cuts' \in 0..MaxCuts, UNCHANGED <<row, lost>>
  PROVE  IInv'
<1> USE DEF IInv, Leave
<1>1. TypeOK'
  BY DEF TypeOK, Status
<1>2. SelectionOK'
  BY DEF TypeOK, SelectionOK, Selected, SelectionStands
<1>3. TakeoverOK'
  BY DEF TypeOK, TakeoverOK
<1>4. HoldsUnlessTaken'
  BY DEF TypeOK, HoldsUnlessTaken, Holders, Owns
<1> QED
  BY <1>1, <1>2, <1>3, <1>4

\* An insert finds no row, so every selection of a row is one of a deleted row.
LEMMA NewLockerStep ==
  ASSUME IInv, NEW n \in Nodes, NewLocker(n)
  PROVE  IInv'
<1>1. CASE row # NoRow
  BY <1>1, LeaveStep DEF NewLocker, IInv, TypeOK
<1>2. CASE row = NoRow
  <2> USE <1>2 DEF IInv, NewLocker, Leave
  <2>1. row' = [by |-> n, version |-> 0, age |-> 0] /\ row' \in LockerRow
    BY RowWrites
  <2>2. TypeOK'
    BY <2>1 DEF TypeOK, Status
  <2>3. SelectionOK'
    BY DEF TypeOK, SelectionOK, Selected, SelectionStands
  <2>4. TakeoverOK'
    BY DEF TypeOK, TakeoverOK
  <2>5. HoldsUnlessTaken'
    BY <2>1, LockerAssumption DEF TypeOK, HoldsUnlessTaken, Holders, Owns
  <2> QED
    BY <2>2, <2>3, <2>4, <2>5
<1> QED
  BY <1>1, <1>2

LEMMA CheckExpiredStep ==
  ASSUME IInv, NEW n \in Nodes, CheckExpired(n)
  PROVE  IInv'
<1>1. CASE Leave(n, "idle")
  BY <1>1, LeaveStep DEF CheckExpired, IInv, TypeOK
<1>2. CASE MayBeExpired(got[n].age) /\ pc' = [pc EXCEPT ![n] = "takeover"]
           /\ UNCHANGED <<got, reborn>>
  <2> USE <1>2 DEF IInv, CheckExpired
  <2>1. TypeOK'
    BY DEF TypeOK, Status
  <2>2. SelectionOK'
    BY DEF TypeOK, SelectionOK, Selected, SelectionStands
  <2>3. TakeoverOK'
    BY DEF TypeOK, TakeoverOK
  <2>4. HoldsUnlessTaken'
    BY DEF TypeOK, HoldsUnlessTaken, Holders, Owns
  <2> QED
    BY <2>1, <2>2, <2>3, <2>4
<1> QED
  BY <1>1, <1>2 DEF CheckExpired

\* A takeover raises the version, so a selection that is left behind stays
\* behind, and marks the holder it overtakes.
LEMMA UpdateLockerStep ==
  ASSUME IInv, NEW n \in Nodes, UpdateLocker(n)
  PROVE  IInv'
<1>1. CASE ~TakeoverMatches(n)
  BY <1>1, LeaveStep DEF UpdateLocker, IInv, TypeOK
<1>2. CASE TakeoverMatches(n)
  <2> USE <1>2 DEF IInv, UpdateLocker, Leave
  <2>1. row # NoRow /\ row.version = got[n].version /\ row.version < MaxVersion
    BY DEF TakeoverMatches, SelectionOK, Selected, TakeoverOK
  <2>2. /\ row' = [by |-> n, version |-> row.version + 1, age |-> 0]
        /\ row' \in LockerRow
        /\ row' # NoRow
    <3>1. row' = [by |-> n, version |-> row.version + 1, age |-> 0]
      BY <2>1
    <3>2. row' \in LockerRow
      <4> HIDE DEF IInv, UpdateLocker, Leave
      <4>1. TypeOK
        BY DEF IInv
      <4> QED
        BY <2>1, <3>1, <4>1, RowWrites
    <3> QED
      BY <3>1, <3>2, RowIsNoNoRow
  <2>3. TypeOK'
    <3>1. \A h \in Nodes : LossOf(n, h) \in Loss
      BY DEF TypeOK, LossOf, Loss
    <3> QED
      BY <2>2, <3>1 DEF TypeOK, Status
  <2>4. SelectionOK'
    <3> SUFFICES ASSUME NEW m \in Nodes, Selected(m)'
                 PROVE  /\ got'[m].version < MaxVersion
                        /\ m \notin reborn' => SelectionStands(m)'
      BY DEF SelectionOK
    <3>1. m # n /\ got'[m] = got[m] /\ Selected(m) /\ (m \notin reborn' => m \notin reborn)
      BY DEF TypeOK, Selected
    <3>2. m \notin reborn' => got[m].version <= row.version
      BY <3>1 DEF SelectionOK, SelectionStands
    <3>3. row.version \in Nat /\ got[m].version \in Nat
      BY <2>1, <3>1 DEF TypeOK, LockerRow, Selected
    <3> QED
      BY <2>2, <3>1, <3>2, <3>3 DEF SelectionOK, SelectionStands
  <2>5. TakeoverOK'
    BY DEF TypeOK, TakeoverOK
  <2>6. HoldsUnlessTaken'
    <3> SUFFICES ASSUME NEW h \in Holders', lost'[h] = "no"
                 PROVE  h = n
      BY <2>2 DEF HoldsUnlessTaken, Owns
    <3> SUFFICES ASSUME h # n
                 PROVE  FALSE
      OBVIOUS
    <3>1. h \in Holders /\ LossOf(n, h) = "no"
      BY DEF Holders, TypeOK
    <3>2. h # row.by /\ lost[h] = "no"
      BY <3>1 DEF LossOf, Holders
    <3> QED
      BY <3>1, <3>2 DEF HoldsUnlessTaken, Owns
  <2> QED
    BY <2>3, <2>4, <2>5, <2>6
<1> QED
  BY <1>1, <1>2

\* A re-entry keeps the owner and raises the version.
LEMMA ReEnterLockerStep ==
  ASSUME IInv, NEW n \in Nodes, ReEnterLocker(n)
  PROVE  IInv'
<1>1. CASE ~ReEnterMatches(n)
  BY <1>1, LeaveStep DEF ReEnterLocker, IInv, TypeOK
<1>2. CASE ReEnterMatches(n)
  <2> USE <1>2 DEF IInv, ReEnterLocker, Leave
  <2>1. /\ row # NoRow /\ row.by = n
        /\ row.version = got[n].version /\ row.version < MaxVersion
    BY DEF ReEnterMatches, Owns, SelectionOK, Selected
  <2>2. /\ row' = [by |-> n, version |-> row.version + 1, age |-> 0]
        /\ row' \in LockerRow
        /\ row' # NoRow
    <3>1. row \in LockerRow /\ row' = [row EXCEPT !.version = row.version + 1, !.age = 0]
      BY <2>1 DEF TypeOK
    <3>2. row' = [by |-> n, version |-> row.version + 1, age |-> 0]
      BY <2>1, <3>1 DEF LockerRow
    <3>3. row' \in LockerRow
      <4> HIDE DEF IInv, ReEnterLocker, Leave
      <4>1. TypeOK
        BY DEF IInv
      <4> QED
        BY <2>1, <3>2, <4>1, RowWrites
    <3> QED
      BY <3>2, <3>3, RowIsNoNoRow
  <2>3. TypeOK'
    BY <2>2 DEF TypeOK, Status
  <2>4. SelectionOK'
    <3> SUFFICES ASSUME NEW m \in Nodes, Selected(m)'
                 PROVE  /\ got'[m].version < MaxVersion
                        /\ m \notin reborn' => SelectionStands(m)'
      BY DEF SelectionOK
    <3>1. m # n /\ got'[m] = got[m] /\ Selected(m) /\ (m \notin reborn' => m \notin reborn)
      BY DEF TypeOK, Selected
    <3>2. m \notin reborn' => got[m].version <= row.version
      BY <3>1 DEF SelectionOK, SelectionStands
    <3>3. row.version \in Nat /\ got[m].version \in Nat
      BY <2>1, <3>1 DEF TypeOK, LockerRow, Selected
    <3> QED
      BY <2>2, <3>1, <3>2, <3>3 DEF SelectionOK, SelectionStands
  <2>5. TakeoverOK'
    BY DEF TypeOK, TakeoverOK
  <2>6. HoldsUnlessTaken'
    BY <2>1, <2>2 DEF TypeOK, HoldsUnlessTaken, Holders, Owns
  <2> QED
    BY <2>3, <2>4, <2>5, <2>6
<1> QED
  BY <1>1, <1>2

\* A release deletes the row of its caller only: no other holder loses it.
LEMMA ReleaseLockerStep ==
  ASSUME IInv, NEW n \in Nodes, ReleaseLocker(n)
  PROVE  IInv'
<1> USE DEF IInv, ReleaseLocker
<1>1. TypeOK'
  BY DEF TypeOK, Status
<1>2. SelectionOK'
  <2>1. \A m \in Nodes : Selected(m)' =>
          Selected(m) /\ got'[m] = got[m] /\ (m \notin reborn' => m \notin reborn /\ row' = row)
    BY DEF TypeOK, Selected
  <2> QED
    BY <2>1, LockerAssumption DEF SelectionOK, SelectionStands
<1>3. TakeoverOK'
  BY DEF TypeOK, TakeoverOK
<1>4. HoldsUnlessTaken'
  BY DEF TypeOK, HoldsUnlessTaken, Holders, Owns
<1> QED
  BY <1>1, <1>2, <1>3, <1>4

\* Row and selections age together.
LEMMA TickStep ==
  ASSUME IInv, Tick
  PROVE  IInv'
<1> USE DEF IInv, Tick
<1>1. TypeOK'
  BY AgedFacts DEF TypeOK
<1>2. \A m \in Nodes :
        /\ got'[m] = Aged(got[m])
        /\ Selected(m)' <=> Selected(m)
        /\ Selected(m) => /\ got[m] \in LockerRow
                          /\ got'[m].by = got[m].by
                          /\ got'[m].version = got[m].version
                          /\ got'[m].age = Older(got[m].age)
  BY AgedFacts DEF TypeOK, Selected
<1>3. SelectionOK'
  <2> SUFFICES ASSUME NEW m \in Nodes, Selected(m), m \notin reborn
               PROVE  SelectionStands(m)'
    BY <1>2 DEF SelectionOK
  <2>1. row \in LockerRow /\ row # NoRow /\ SelectionStands(m)
    BY DEF TypeOK, SelectionOK, SelectionStands
  <2>2. /\ row' # NoRow
        /\ row'.by = row.by /\ row'.version = row.version
        /\ row'.age = Older(row.age)
    BY <2>1, AgedFacts
  <2>3. got[m].age <= row.age => Older(got[m].age) <= Older(row.age)
    BY <1>2, <2>1, OlderFacts DEF LockerRow
  <2> QED
    BY <1>2, <2>1, <2>2, <2>3 DEF SelectionStands
<1>4. TakeoverOK'
  <2> SUFFICES ASSUME NEW m \in Nodes, pc[m] = "takeover"
               PROVE  got'[m] # NoRow /\ MayBeExpired(got'[m].age)
    BY DEF TakeoverOK, MayBeExpired
  <2>1. Selected(m) /\ MayBeExpired(got[m].age)
    BY DEF TakeoverOK, Selected
  <2>2. got[m].age \in 0..AgeCap
    BY <1>2, <2>1 DEF LockerRow
  <2> QED
    BY <1>2, <2>1, <2>2, OlderFacts DEF Selected
<1>5. HoldsUnlessTaken'
  BY AgedFacts DEF TypeOK, HoldsUnlessTaken, Holders, Owns
<1> QED
  BY <1>1, <1>3, <1>4, <1>5

-----------------------------------------------------------------------------
LEMMA Inductive == IInv /\ [Next]_vars => IInv'
<1> SUFFICES ASSUME IInv, [Next]_vars
             PROVE  IInv'
  OBVIOUS
<1>1. CASE Tick
  BY <1>1, TickStep
<1>2. ASSUME NEW n \in Nodes, TryLock(n)
      PROVE  IInv'
  BY <1>2, FindByKeyStep, NewLockerStep, CheckExpiredStep, UpdateLockerStep,
     ReEnterLockerStep DEF TryLock
<1>3. ASSUME NEW n \in Nodes, ReleaseLocker(n)
      PROVE  IInv'
  BY <1>3, ReleaseLockerStep
<1>4. ASSUME NEW n \in Nodes, Abandon(n) \/ Crash(n)
      PROVE  IInv'
  <2>1. cuts' \in 0..MaxCuts
    BY <1>4, LockerAssumption DEF IInv, TypeOK, Abandon, Crash
  <2> QED
    BY <1>4, <2>1, LeaveStep DEF Abandon, Crash
<1>5. ASSUME NEW n \in Nodes, Restart(n)
      PROVE  IInv'
  <2> USE <1>5 DEF IInv, Restart
  <2>1. TypeOK'
    BY DEF TypeOK, Status
  <2>2. SelectionOK'
    BY DEF TypeOK, SelectionOK, Selected, SelectionStands
  <2>3. TakeoverOK' /\ HoldsUnlessTaken'
    BY DEF TypeOK, TakeoverOK, HoldsUnlessTaken, Holders, Owns
  <2> QED
    BY <2>1, <2>2, <2>3
<1>6. CASE UNCHANGED vars
  BY <1>6 DEF vars, IInv, TypeOK, SelectionOK, Selected, SelectionStands, TakeoverOK,
     HoldsUnlessTaken, Holders, Owns
<1> QED
  BY <1>1, <1>2, <1>3, <1>4, <1>5, <1>6 DEF Next

\* The inductive invariant holds of every reachable state.
THEOREM Invariance == Spec => []IInv
BY Initially, Inductive, PTL DEF Spec

\* Every reachable state of the lock is well typed.
THEOREM TypeCorrect == Spec => []TypeOK
BY Invariance, PTL DEF IInv

\* LockerService and its repository: a server inside the protected section that
\* no takeover deprived of its lease owns the row.
THEOREM HoldsCorrect == Spec => []HoldsUnlessTaken
BY Invariance, PTL DEF IInv

\* Two servers are inside the protected section only if one was overtaken.
THEOREM MutexCorrect == Spec => []MutexUnlessTaken
<1>1. HoldsUnlessTaken => MutexUnlessTaken
  BY DEF HoldsUnlessTaken, MutexUnlessTaken, Holders, Owns
<1> QED
  BY <1>1, HoldsCorrect, PTL

\* UpdateLocker overwrites another server's lease only when it ran out, or when
\* the row was deleted and inserted anew after the select.
THEOREM TakeoverCorrect == Spec => TakenOnlyWhenExpiredOrReborn
<1> DEFINE Justified == Overwritten => MayBeExpired(row.age) \/ row'.by \in reborn
<1>1. IInv /\ [Next]_vars => [Justified]_vars
  <2> SUFFICES ASSUME IInv, Next, Overwritten
               PROVE  MayBeExpired(row.age) \/ row'.by \in reborn
    OBVIOUS
  <2>1. row \in LockerRow /\ row # NoRow
    BY DEF IInv, TypeOK, Overwritten
  <2>2. ~Tick
    BY <2>1, AgedFacts DEF Tick, Overwritten
  <2>3. ASSUME NEW n \in Nodes, UpdateLocker(n)
        PROVE  MayBeExpired(row.age) \/ row'.by \in reborn
    <3>1. /\ TakeoverMatches(n) /\ row'.by = n /\ Selected(n)
          /\ MayBeExpired(got[n].age)
      BY <2>3 DEF UpdateLocker, Overwritten, IInv, TakeoverOK, Selected
    <3>2. n \notin reborn => got[n].age <= row.age
      BY <3>1 DEF IInv, SelectionOK, SelectionStands, TakeoverMatches
    <3>3. got[n].age \in Int /\ row.age \in Int
      BY <2>1, <3>1 DEF IInv, TypeOK, LockerRow, Selected, AgeCap
    <3> QED
      BY <3>1, <3>2, <3>3, LockerAssumption DEF MayBeExpired
  <2>4. ASSUME NEW n \in Nodes, ReEnterLocker(n)
        PROVE  FALSE
    BY <2>4, <2>1 DEF ReEnterLocker, ReEnterMatches, Overwritten, LockerRow
  <2>5. ASSUME NEW n \in Nodes,
               \/ FindByKey(n) \/ NewLocker(n) \/ CheckExpired(n)
               \/ ReleaseLocker(n) \/ Abandon(n) \/ Crash(n) \/ Restart(n)
        PROVE  FALSE
    BY <2>5 DEF FindByKey, NewLocker, CheckExpired, ReleaseLocker, Abandon, Crash, Restart,
       Overwritten
  <2> QED
    BY <2>2, <2>3, <2>4, <2>5 DEF Next, TryLock
<1> QED
  BY <1>1, Invariance, PTL DEF Spec, TakenOnlyWhenExpiredOrReborn
-----------------------------------------------------------------------------
(***************************************************************************)
(* Locker implements Lease: every step of the two-statement protocol is    *)
(* one step of the atomic lease, or none.                                  *)
(***************************************************************************)

\* Only a server in a call can be behind a delete, and a server in a call has
\* not lost anything yet.
AskingOK ==
  /\ \A n \in reborn : pc[n] \in {"found", "takeover"} /\ got[n] # NoRow
  /\ \A n \in Nodes : pc[n] \in {"found", "takeover"} => lost[n] = "no"

LEMMA AskingStep ==
  ASSUME IInv, AskingOK, [Next]_vars
  PROVE  AskingOK'
<1> USE DEF IInv, AskingOK
<1>1. CASE Tick
  <2>1. \A n \in Nodes : got'[n] = NoRow <=> got[n] = NoRow
    BY <1>1, AgedFacts DEF Tick, TypeOK
  <2> QED
    BY <1>1, <2>1 DEF Tick, TypeOK
<1>2. ASSUME NEW n \in Nodes, FindByKey(n)
      PROVE  AskingOK'
  BY <1>2 DEF FindByKey, TypeOK
<1>3. ASSUME NEW n \in Nodes, NewLocker(n) \/ CheckExpired(n) \/ ReEnterLocker(n)
      PROVE  AskingOK'
  BY <1>3 DEF NewLocker, CheckExpired, ReEnterLocker, Leave, TypeOK
<1>4. ASSUME NEW n \in Nodes, UpdateLocker(n)
      PROVE  AskingOK'
  BY <1>4 DEF UpdateLocker, Leave, TypeOK, LossOf
<1>5. ASSUME NEW n \in Nodes, ReleaseLocker(n)
      PROVE  AskingOK'
  BY <1>5 DEF ReleaseLocker, TypeOK
<1>6. ASSUME NEW n \in Nodes, Abandon(n) \/ Crash(n) \/ Restart(n)
      PROVE  AskingOK'
  BY <1>6 DEF Abandon, Crash, Restart, Leave, TypeOK
<1>7. CASE UNCHANGED vars
  BY <1>7 DEF vars
<1> QED
  BY <1>1, <1>2, <1>3, <1>4, <1>5, <1>6, <1>7 DEF Next, TryLock

\* A lease that may be found run out stays so until it is granted anew.
LEMMA TickImplements ==
  ASSUME IInv, Tick
  PROVE  [L!Next]_(L!leaseVars)
<1> USE DEF IInv, Tick
<1>1. Holders' = Holders
  BY DEF Holders
<1>2. CASE row = NoRow
  <2>1. row' = row
    BY <1>2 DEF Aged
  <2> QED
    BY <1>1, <1>2, <2>1 DEF L!leaseVars
<1>3. CASE row # NoRow
  <2>1. /\ row \in LockerRow /\ row' # NoRow /\ row'.by = row.by
        /\ row'.age = Older(row.age)
    BY <1>3, AgedFacts DEF TypeOK
  <2>2. MayBeExpired(row.age) => MayBeExpired(row'.age)
    BY <2>1, OlderFacts DEF LockerRow
  <2>3. row.by # NoRow
    BY <2>1, LockerAssumption DEF LockerRow
  <2>4. CASE MayBeExpired(row'.age)
    <3>1. L!RunOut
      BY <1>1, <1>3, <2>1, <2>3, <2>4 DEF L!RunOut
    <3> QED
      BY <3>1 DEF L!Next
  <2>5. CASE ~MayBeExpired(row'.age)
    BY <1>1, <1>3, <2>1, <2>2, <2>5 DEF L!leaseVars
  <2> QED
    BY <2>4, <2>5
<1> QED
  BY <1>2, <1>3

\* A write that gives the key to n is a grant.
LEMMA GrantImplements ==
  ASSUME IInv, AskingOK, NEW n \in Nodes, pc[n] \in {"found", "takeover"},
         Leave(n, "held"), row' # NoRow, row'.by = n, row'.age = 0,
         row = NoRow \/ row.by = n \/ MayBeExpired(row.age) \/ n \in reborn,
         \A h \in Holders' : lost'[h] # "no" <=>
                               lost[h] # "no" \/ (row # NoRow /\ h = row.by /\ h # n)
  PROVE  L!Grant(n)
<1> USE DEF IInv, AskingOK, Leave
<1>1. Holders' = Holders \cup {n} /\ n \notin Holders
  BY DEF Holders, TypeOK
<1>2. lost[n] = "no"
  OBVIOUS
<1>3. {h \in Holders' : lost'[h] # "no"} =
        {h \in Holders : lost[h] # "no"}
          \cup ((Holders \cap {IF row = NoRow THEN NoRow ELSE row.by}) \ {n})
  <2>1. NoRow \notin Holders
    BY LockerAssumption DEF Holders
  <2> QED
    BY <1>1, <1>2, <2>1
<1>4. {m \in Nodes : pc'[m] \in {"found", "takeover"}} =
        {m \in Nodes : pc[m] \in {"found", "takeover"}} \ {n}
  BY DEF TypeOK
<1>5. (row' # NoRow /\ MayBeExpired(row'.age)) = MayBeExpired(0)
  <2>1. row' # NoRow /\ row'.age = 0
    OBVIOUS
  <2>2. MayBeExpired(0) \in BOOLEAN
    BY LockerAssumption DEF MayBeExpired
  <2> HIDE DEF IInv, AskingOK, Leave
  <2>3. MayBeExpired(row'.age) = MayBeExpired(0)
    BY <2>1, Zenon
  <2> QED
    BY <2>1, <2>2, <2>3, Zenon
<1>6. L!Grantable(n)
  <2>1. row = NoRow => (IF row = NoRow THEN NoRow ELSE row.by) = NoRow
    OBVIOUS
  <2> QED
    BY <2>1 DEF L!Grantable
<1>7. (IF row' = NoRow THEN NoRow ELSE row'.by) = n
  OBVIOUS
<1> QED
  BY <1>1, <1>3, <1>4, <1>5, <1>6, <1>7 DEF L!Grant

\* A call, or a hold, that ends without a write.
LEMMA LeaveImplements ==
  ASSUME IInv, AskingOK, NEW n \in Nodes, NEW s \in {"idle", "down"}, Leave(n, s),
         UNCHANGED <<row, lost>>
  PROVE  [L!Next]_(L!leaseVars)
<1> USE DEF IInv, AskingOK, Leave
<1>1. Holders' = Holders \ {n}
  BY DEF Holders, TypeOK
<1>2. {m \in Nodes : pc'[m] \in {"found", "takeover"}} =
        {m \in Nodes : pc[m] \in {"found", "takeover"}} \ {n}
  BY DEF TypeOK
<1>3. CASE pc[n] \in {"found", "takeover"}
  <2>1. Holders' = Holders
    BY <1>1, <1>3 DEF Holders
  <2>2. L!Refuse(n)
    BY <1>2, <1>3, <2>1 DEF L!Refuse
  <2> QED
    BY <2>2 DEF L!Next
<1>4. CASE pc[n] = "held"
  <2>1. n \in Holders /\ n \notin reborn
    BY <1>4 DEF Holders
  <2>2. {m \in Nodes : pc'[m] \in {"found", "takeover"}} =
          {m \in Nodes : pc[m] \in {"found", "takeover"}}
    BY <1>2, <1>4
  <2>3. L!Quit(n)
    BY <1>1, <2>1, <2>2 DEF L!Quit
  <2> QED
    BY <2>3 DEF L!Next
<1>5. CASE pc[n] \notin {"found", "takeover", "held"}
  BY <1>1, <1>2, <1>5 DEF Holders, L!leaseVars
<1> QED
  BY <1>3, <1>4, <1>5

LEMMA FindByKeyImplements ==
  ASSUME IInv, AskingOK, NEW n \in Nodes, FindByKey(n)
  PROVE  [L!Next]_(L!leaseVars)
<1> USE DEF IInv, AskingOK, FindByKey
<1>1. Holders' = Holders /\ n \notin Holders
  BY DEF Holders, TypeOK
<1>2. {h \in Holders' : lost'[h] # "no"} = {h \in Holders : lost[h] # "no"}
  BY <1>1 DEF TypeOK, Holders
<1>3. {m \in Nodes : pc'[m] \in {"found", "takeover"}} =
        {m \in Nodes : pc[m] \in {"found", "takeover"}} \cup {n}
  BY DEF TypeOK
<1>4. L!Ask(n)
  BY <1>1, <1>2, <1>3 DEF L!Ask
<1> QED
  BY <1>4 DEF L!Next

\* Insert, re-entry and takeover, when they write, are grants.
LEMMA TryLockImplements ==
  ASSUME IInv, AskingOK, NEW n \in Nodes,
         NewLocker(n) \/ CheckExpired(n) \/ UpdateLocker(n) \/ ReEnterLocker(n)
  PROVE  [L!Next]_(L!leaseVars)
<1> SUFFICES ASSUME ~(Leave(n, "idle") /\ UNCHANGED <<row, lost>>)
             PROVE  [L!Next]_(L!leaseVars)
  BY LeaveImplements
<1>1. ASSUME NewLocker(n)
      PROVE  L!Grant(n)
  <2>1. /\ row = NoRow /\ row' = [by |-> n, version |-> 0, age |-> 0]
        /\ Leave(n, "held") /\ lost' = lost
    BY <1>1 DEF NewLocker
  <2>2. row' # NoRow /\ row'.by = n /\ row'.age = 0
    BY <2>1, RowWrites, LockerAssumption DEF IInv
  <2> QED
    BY <1>1, <2>1, <2>2, GrantImplements DEF NewLocker
<1>2. ASSUME CheckExpired(n)
      PROVE  UNCHANGED L!leaseVars
  <2>1. pc' = [pc EXCEPT ![n] = "takeover"] /\ UNCHANGED <<got, reborn, row, lost>>
    BY <1>2 DEF CheckExpired
  <2>2. Holders' = Holders
    BY <1>2, <2>1 DEF Holders, CheckExpired, IInv, TypeOK
  <2>3. {m \in Nodes : pc'[m] \in {"found", "takeover"}} =
          {m \in Nodes : pc[m] \in {"found", "takeover"}}
    BY <1>2, <2>1 DEF CheckExpired, IInv, TypeOK
  <2> QED
    BY <2>1, <2>2, <2>3 DEF L!leaseVars
<1>3. ASSUME ReEnterLocker(n)
      PROVE  L!Grant(n)
  <2>1. /\ row # NoRow /\ row.by = n /\ row.version < MaxVersion
        /\ row' = [row EXCEPT !.version = @ + 1, !.age = 0]
        /\ Leave(n, "held") /\ lost' = lost
    BY <1>3 DEF ReEnterLocker, ReEnterMatches, Owns, IInv, SelectionOK, Selected
  <2>2. row \in LockerRow /\ row' = [by |-> n, version |-> row.version + 1, age |-> 0]
    BY <2>1 DEF IInv, TypeOK, LockerRow
  <2>3. row' # NoRow /\ row'.by = n /\ row'.age = 0
    BY <2>1, <2>2, RowWrites, LockerAssumption DEF IInv
  <2> QED
    BY <1>3, <2>1, <2>3, GrantImplements DEF ReEnterLocker
<1>4. ASSUME UpdateLocker(n)
      PROVE  L!Grant(n)
  <2>1. /\ TakeoverMatches(n) /\ Leave(n, "held") /\ pc[n] = "takeover"
        /\ row' = [by |-> n, version |-> row.version + 1, age |-> 0]
        /\ lost' = [h \in Nodes |-> LossOf(n, h)]
    BY <1>4 DEF UpdateLocker
  <2>2. Selected(n) /\ got[n] # NoRow /\ MayBeExpired(got[n].age) /\ row # NoRow
    BY <2>1 DEF IInv, TakeoverOK, Selected, TakeoverMatches
  <2>3. row.version < MaxVersion
    BY <2>1, <2>2 DEF IInv, SelectionOK, TakeoverMatches
  <2>4. row' # NoRow /\ row'.by = n /\ row'.age = 0
    BY <2>1, <2>2, <2>3, RowWrites, LockerAssumption DEF IInv
  <2>5. MayBeExpired(row.age) \/ n \in reborn
    <3>1. n \notin reborn => got[n].age <= row.age
      BY <2>1, <2>2 DEF IInv, SelectionOK, SelectionStands, TakeoverMatches
    <3>2. got[n].age \in Int /\ row.age \in Int
      BY <2>2 DEF IInv, TypeOK, LockerRow, AgeCap
    <3> QED
      BY <2>2, <3>1, <3>2, LockerAssumption DEF MayBeExpired
  <2>6. ASSUME NEW h \in Holders'
        PROVE  lost'[h] # "no" <=>
                 lost[h] # "no" \/ (row # NoRow /\ h = row.by /\ h # n)
    <3>1. h \in Nodes /\ (h # n => pc[h] = "held") /\ lost[n] = "no" /\ pc[n] # "held"
      BY <2>1 DEF Holders, Leave, IInv, TypeOK, AskingOK
    <3>2. lost'[h] = LossOf(n, h)
      BY <2>1, <3>1
    <3> QED
      BY <2>2, <3>1, <3>2 DEF LossOf
  <2> QED
    BY <2>1, <2>4, <2>5, <2>6, GrantImplements
<1>5. L!Grant(n) => L!Next
  BY DEF L!Next
<1> QED
  BY <1>1, <1>2, <1>3, <1>4, <1>5

LEMMA ReleaseImplements ==
  ASSUME IInv, AskingOK, NEW n \in Nodes, ReleaseLocker(n)
  PROVE  L!Release(n)
<1> USE DEF IInv, AskingOK, ReleaseLocker
<1>1. Holders' = Holders \ {n} /\ n \in Holders
  BY DEF Holders, TypeOK
<1>2. {m \in Nodes : pc'[m] \in {"found", "takeover"}} =
        {m \in Nodes : pc[m] \in {"found", "takeover"}}
  BY DEF TypeOK
<1>3. {h \in Holders' : lost'[h] # "no"} = {h \in Holders : lost[h] # "no"} \ {n}
  BY <1>1
<1>4. CASE Owns(n)
  <2>1. reborn \subseteq reborn' /\ reborn' \subseteq {m \in Nodes : pc[m] \in {"found", "takeover"}}
    BY <1>4 DEF Owns, TypeOK
  <2> QED
    BY <1>1, <1>2, <1>3, <1>4, <2>1 DEF Owns, L!Release
<1>5. CASE ~Owns(n)
  <2>1. (IF row = NoRow THEN NoRow ELSE row.by) # n
    BY <1>5, LockerAssumption DEF Owns
  <2> QED
    BY <1>1, <1>2, <1>3, <1>5, <2>1 DEF Owns, L!Release
<1> QED
  BY <1>4, <1>5

LEMMA StepImplements ==
  ASSUME IInv, AskingOK, [Next]_vars
  PROVE  [L!Next]_(L!leaseVars)
<1>1. CASE Tick
  BY <1>1, TickImplements
<1>2. ASSUME NEW n \in Nodes, TryLock(n)
      PROVE  [L!Next]_(L!leaseVars)
  BY <1>2, FindByKeyImplements, TryLockImplements DEF TryLock
<1>3. ASSUME NEW n \in Nodes, ReleaseLocker(n)
      PROVE  [L!Next]_(L!leaseVars)
  BY <1>3, ReleaseImplements DEF L!Next
<1>4. ASSUME NEW n \in Nodes, Abandon(n) \/ Crash(n)
      PROVE  [L!Next]_(L!leaseVars)
  BY <1>4, LeaveImplements DEF Abandon, Crash
<1>5. ASSUME NEW n \in Nodes, Restart(n)
      PROVE  UNCHANGED L!leaseVars
  <2>1. Holders' = Holders
    BY <1>5 DEF Restart, Holders, IInv, TypeOK
  <2>2. {m \in Nodes : pc'[m] \in {"found", "takeover"}} =
          {m \in Nodes : pc[m] \in {"found", "takeover"}}
    BY <1>5 DEF Restart, IInv, TypeOK
  <2> QED
    BY <1>5, <2>1, <2>2 DEF Restart, L!leaseVars
<1>6. CASE UNCHANGED vars
  BY <1>6 DEF vars, Holders, L!leaseVars
<1> QED
  BY <1>1, <1>2, <1>3, <1>4, <1>5, <1>6 DEF Next

\* LockerService over LockerRepository implements the atomic lease: whatever
\* falls between its two statements, a call is answered as if at once.
THEOREM LeaseImplemented == Spec => ImplementsLease
<1>1. Init => L!Init
  BY LockerAssumption DEF Init, Holders, L!Init
<1>2. Init => AskingOK
  BY DEF Init, AskingOK
<1>3. IInv /\ AskingOK /\ [Next]_vars => AskingOK'
  BY AskingStep
<1>4. IInv /\ AskingOK /\ [Next]_vars => [L!Next]_(L!leaseVars)
  BY StepImplements
<1> QED
  BY <1>1, <1>2, <1>3, <1>4, Invariance, PTL DEF Spec, ImplementsLease, L!Spec
=============================================================================
