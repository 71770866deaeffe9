--------------------------- MODULE SchedulingProofs --------------------------
(***************************************************************************)
(* Theorems about Scheduling for every period, load interval and           *)
(* lookahead, and their proofs.                                            *)
(*                                                                         *)
(* The phase of the load timer is what decides whether a task is missed or *)
(* loaded twice.  Covered says that the coming occurrence has a timeout, a *)
(* load under way, or a load of the timer before it; Once that after the   *)
(* load that made its timeout the timer does not elapse before it.  The    *)
(* first needs LoadInterval <= Lookahead, the second Lookahead <=          *)
(* LoadInterval: only two equal numbers, as the code has, give both.       *)
(***************************************************************************)
EXTENDS Scheduling, TLAPS

\* The scheduler was in order ever since the last occurrence.
InOrder ==
  calm => /\ server = "running"
          /\ Selectable
          /\ load["start"] = "no"
          /\ load["timer"] # "no" => timer = LoadInterval

Covered ==
  calm => waiting > 0 \/ load["timer"] # "no" \/ phase + timer < Period

Once ==
  calm /\ ~caught =>
    /\ waiting <= 1
    /\ waiting > 0 => load["timer"] = "no"
    /\ waiting > 0 \/ load["timer"] = "selected" => phase + timer >= Period

\* Where timeouts come from.
Traced ==
  /\ Selectable => seen
  /\ \A k \in Loaders : load[k] = "selected" => seen
  /\ waiting > 0 => seen
  /\ LeftoverOnce

-----------------------------------------------------------------------------
\* The two halves of TypeOK: Boolean variables, and the others.
Flags ==
  /\ overdue \in BOOLEAN /\ owned \in BOOLEAN /\ calm \in BOOLEAN
  /\ caught \in BOOLEAN /\ seen \in BOOLEAN /\ seenBefore \in BOOLEAN

Data ==
  /\ task \in {"enabled", "disabled", "deleted"}
  /\ server \in {"running", "stopped", "down"}
  /\ timer \in 0..LoadInterval
  /\ load \in [Loaders -> LoadStatus]
  /\ waiting \in Nat
  /\ ready \in Nat
  /\ firing \in 0..MaxFiring
  /\ phase \in 0..(Period - 1)
  /\ disturbances \in 0..MaxDisturbances

LEMMA Halves == TypeOK <=> Flags /\ Data
  BY Zenon DEF TypeOK, Flags, Data

LEMMA InitData == Init => Data
  BY SchedulingAssumption DEF Init, Data, Loaders, LoadStatus, NoLoad

LEMMA InitFlags == Init => Flags
  BY Zenon DEF Init, Flags

LEMMA FlagsStep == Flags /\ [Next]_vars => Flags'
<1> SUFFICES ASSUME Flags, [Next]_vars PROVE Flags'
  OBVIOUS
<1> USE DEF Flags
<1>1. CASE Tick
  <2>1. CASE TickWithin
    BY <1>1, <2>1, Zenon DEF Tick, TickWithin
  <2>2. CASE TickOver
    BY <1>1, <2>2, Zenon DEF Tick, TickOver
  <2> QED
    BY <1>1, <2>1, <2>2, Zenon DEF Tick
<1>2. CASE TimerElapsed
  BY <1>2, Zenon DEF TimerElapsed
<1>3. ASSUME NEW k \in Loaders, GetNextJob(k) PROVE Flags'
  BY <1>3, Zenon DEF GetNextJob
<1>4. ASSUME NEW k \in Loaders, PushToTimer(k) PROVE Flags'
  BY <1>4, Zenon DEF PushToTimer
<1>5. ASSUME NEW k \in Loaders, LoadThrows(k) PROVE Flags'
  BY <1>5, Zenon DEF LoadThrows, Disturb
<1>6. CASE Fire
  BY <1>6, Zenon DEF Fire
<1>7. CASE UpdateNextTriggerTime
  BY <1>7, Zenon DEF UpdateNextTriggerTime
<1>8. CASE DispatchFails
  BY <1>8, Zenon DEF DispatchFails
<1>9. CASE StopDispatch
  BY <1>9, Zenon DEF StopDispatch, Disturb
<1>10. CASE StartDispatch
  BY <1>10, Zenon DEF StartDispatch
<1>11. CASE Crash
  BY <1>11, Zenon DEF Crash, Disturb
<1>12. ASSUME NEW status \in {"enabled", "disabled", "deleted"}, SetTask(status) PROVE Flags'
  BY <1>12, Zenon DEF SetTask, Disturb
<1>13. CASE Reassign
  BY <1>13, Zenon DEF Reassign, Disturb
<1>14. CASE DispatchedElsewhere
  BY <1>14, Zenon DEF DispatchedElsewhere, Disturb
<1>15. CASE UNCHANGED vars
  BY <1>15, Zenon DEF vars
<1> QED
  BY <1>1, <1>2, <1>3, <1>4, <1>5, <1>6, <1>7, <1>8, <1>9, <1>10, <1>11, <1>12, <1>13, <1>14,
     <1>15, Zenon DEF Next, LoadTaskInfos, User

LEMMA DataStep == Data /\ [Next]_vars => Data'
<1> SUFFICES ASSUME Data, [Next]_vars PROVE Data'
  OBVIOUS
<1> USE SchedulingAssumption DEF Data, LoadStatus
<1>1. CASE Tick
  <2>1. phase' \in 0..(Period - 1) /\ waiting' \in Nat /\ ready' \in Nat
    BY <1>1 DEF Tick, TickWithin, TickOver
  <2>2. timer' \in 0..LoadInterval
    BY <1>1 DEF Tick, Countdown
  <2> QED
    BY <1>1, <2>1, <2>2 DEF Tick
<1>2. CASE TimerElapsed
  <2>1. load' \in [Loaders -> LoadStatus]
    BY <1>2 DEF TimerElapsed
  <2>2. timer' \in 0..LoadInterval
    BY <1>2 DEF TimerElapsed
  <2> QED
    BY <1>2, <2>1, <2>2 DEF TimerElapsed
<1>3. ASSUME NEW k \in Loaders, GetNextJob(k) PROVE Data'
  BY <1>3 DEF GetNextJob
<1>4. ASSUME NEW k \in Loaders, PushToTimer(k) PROVE Data'
  BY <1>4 DEF PushToTimer
<1>5. ASSUME NEW k \in Loaders, LoadThrows(k) PROVE Data'
  BY <1>5 DEF LoadThrows, Disturb
<1>6. CASE Fire
  BY <1>6 DEF Fire
<1>7. CASE UpdateNextTriggerTime
  BY <1>7 DEF UpdateNextTriggerTime
<1>8. CASE DispatchFails
  BY <1>8 DEF DispatchFails
<1>9. CASE StopDispatch
  BY <1>9 DEF StopDispatch, Disturb
<1>10. CASE StartDispatch
  BY <1>10 DEF StartDispatch
<1>11. CASE Crash
  BY <1>11 DEF Crash, Disturb, NoLoad
<1>12. ASSUME NEW status \in {"enabled", "disabled", "deleted"}, SetTask(status) PROVE Data'
  BY <1>12 DEF SetTask, Disturb
<1>13. CASE Reassign
  BY <1>13 DEF Reassign, Disturb
<1>14. CASE DispatchedElsewhere
  BY <1>14 DEF DispatchedElsewhere, Disturb
<1>15. CASE UNCHANGED vars
  BY <1>15 DEF vars
<1> QED
  BY <1>1, <1>2, <1>3, <1>4, <1>5, <1>6, <1>7, <1>8, <1>9, <1>10, <1>11, <1>12, <1>13, <1>14,
     <1>15, Zenon DEF Next, LoadTaskInfos, User

LEMMA TypeStep == TypeOK /\ [Next]_vars => TypeOK'
<1> SUFFICES ASSUME TypeOK, [Next]_vars PROVE TypeOK'
  OBVIOUS
<1>1. Flags /\ Data
  BY Halves
<1>2. Flags' /\ Data'
  BY <1>1, FlagsStep, DataStep
<1> QED
  BY <1>2, Zenon DEF TypeOK, Flags, Data

LEMMA InitType == Init => TypeOK
  BY InitData, InitFlags, Halves

-----------------------------------------------------------------------------
LEMMA InitTraced == Init => Traced
  BY Zenon DEF Init, Traced, LeftoverOnce

LEMMA TracedStep == TypeOK /\ Traced /\ [Next]_vars => Traced'
<1> SUFFICES ASSUME TypeOK, Traced, [Next]_vars PROVE Traced'
  OBVIOUS
<1> USE DEF Traced, LeftoverOnce, Selectable
<1>0. /\ load \in [Loaders -> LoadStatus]
      /\ waiting \in Nat /\ ready \in Nat
  BY DEF TypeOK
<1>1. CASE Tick
  <2>1. CASE TickWithin
    BY <1>1, <2>1 DEF Tick, TickWithin
  <2>2. CASE TickOver
    <3>1. /\ Selectable' => seen'
          /\ \A k \in Loaders : load'[k] = "selected" => seen'
      BY <1>1, <2>2, Zenon DEF Tick, TickOver
    <3>2. waiting' = 0 /\ ready' = waiting /\ seenBefore' = seen
      BY <2>2 DEF TickOver
    <3> QED
      BY <1>0, <3>1, <3>2
  <2> QED
    BY <1>1, <2>1, <2>2 DEF Tick
<1>2. CASE TimerElapsed
  BY <1>0, <1>2 DEF TimerElapsed, Loaders
<1>3. ASSUME NEW k \in Loaders, GetNextJob(k) PROVE Traced'
  BY <1>0, <1>3 DEF GetNextJob, Loaders
<1>4. ASSUME NEW k \in Loaders, PushToTimer(k) PROVE Traced'
  BY <1>0, <1>4 DEF PushToTimer, Loaders
<1>5. ASSUME NEW k \in Loaders, LoadThrows(k) PROVE Traced'
  BY <1>0, <1>5 DEF LoadThrows, Disturb, Loaders
<1>6. CASE Fire
  BY <1>0, <1>6 DEF Fire
<1>7. CASE UpdateNextTriggerTime
  BY <1>7 DEF UpdateNextTriggerTime
<1>8. CASE DispatchFails
  BY <1>8 DEF DispatchFails
<1>9. CASE StopDispatch
  BY <1>9 DEF StopDispatch, Disturb
<1>10. CASE StartDispatch
  BY <1>0, <1>10 DEF StartDispatch, Loaders
<1>11. CASE Crash
  BY <1>11 DEF Crash, Disturb, NoLoad
<1>12. ASSUME NEW status \in {"enabled", "disabled", "deleted"}, SetTask(status) PROVE Traced'
  BY <1>12 DEF SetTask, Disturb
<1>13. CASE Reassign
  BY <1>13 DEF Reassign, Disturb
<1>14. CASE DispatchedElsewhere
  BY <1>14 DEF DispatchedElsewhere, Disturb
<1>15. CASE UNCHANGED vars
  BY <1>15 DEF vars
<1> QED
  BY <1>1, <1>2, <1>3, <1>4, <1>5, <1>6, <1>7, <1>8, <1>9, <1>10, <1>11, <1>12, <1>13, <1>14,
     <1>15, Zenon DEF Next, LoadTaskInfos, User

-----------------------------------------------------------------------------
\* Nothing that is said of a calm period needs proving when a step ends the calm.
LEMMA Disturbed == Disturb => InOrder' /\ Covered' /\ Once'
  BY DEF Disturb, InOrder, Covered, Once

LEMMA InitOrder == Init => InOrder /\ Covered /\ Once
  BY Zenon DEF Init, InOrder, Covered, Once

LEMMA OrderStep == TypeOK /\ InOrder /\ [Next]_vars => InOrder'
<1> SUFFICES ASSUME TypeOK, InOrder, [Next]_vars, ~Disturb PROVE InOrder'
  BY Disturbed
<1> USE DEF InOrder, Selectable
<1>0. load \in [Loaders -> LoadStatus]
  BY DEF TypeOK
<1>1. CASE Tick
  <2>1. CASE TickWithin
    BY <1>1, <2>1 DEF Tick, TickWithin, Punctual, NoLoad, Loaders
  <2>2. CASE TickOver
    BY <1>1, <2>2 DEF Tick, TickOver, Punctual, NoLoad, Loaders, Selectable
  <2> QED
    BY <1>1, <2>1, <2>2 DEF Tick
<1>2. CASE TimerElapsed
  BY <1>0, <1>2 DEF TimerElapsed, Loaders
<1>3. ASSUME NEW k \in Loaders, GetNextJob(k) PROVE InOrder'
  BY <1>0, <1>3 DEF GetNextJob, Loaders
<1>4. ASSUME NEW k \in Loaders, PushToTimer(k) PROVE InOrder'
  BY <1>0, <1>4 DEF PushToTimer, Loaders
<1>5. CASE Fire \/ UpdateNextTriggerTime \/ DispatchFails
  BY <1>5 DEF Fire, UpdateNextTriggerTime, DispatchFails
<1>6. CASE StartDispatch
  BY <1>6 DEF StartDispatch
<1>7. CASE UNCHANGED vars
  BY <1>7 DEF vars
<1> QED
  BY <1>1, <1>2, <1>3, <1>4, <1>5, <1>6, <1>7, Zenon
     DEF Next, LoadTaskInfos, LoadThrows, StopDispatch, Crash, User, SetTask, Reassign,
         DispatchedElsewhere

\* A period without disturbance: what the rest of the proofs is about.
LEMMA CalmFacts ==
  ASSUME TypeOK
  PROVE  /\ Period \in Nat \ {0} /\ LoadInterval \in Nat \ {0} /\ Lookahead \in Nat
         /\ timer \in 0..LoadInterval
         /\ phase \in 0..(Period - 1)
         /\ waiting \in Nat
         /\ load \in [Loaders -> LoadStatus]
  BY SchedulingAssumption DEF TypeOK

LEMMA CoveredStep ==
  ASSUME LoadInterval <= Lookahead, LoadInterval <= Period,
         TypeOK, InOrder, Covered, [Next]_vars
  PROVE  Covered'
<1> SUFFICES ASSUME ~Disturb PROVE Covered'
  BY Disturbed
<1> USE CalmFacts DEF Covered
<1>1. CASE Tick
  <2>1. load' = load /\ timer' = Countdown
    BY <1>1 DEF Tick
  <2>2. Punctual => load["timer"] = "no" /\ load["start"] = "no" /\ timer > 0
    BY DEF Punctual, NoLoad, Loaders
  <2>3. CASE TickWithin
    <3>1. calm' => calm /\ Punctual
      BY <2>3, Zenon DEF TickWithin
    <3>2. waiting' = waiting /\ caught' = caught /\ phase' = phase + 1
      BY <2>3 DEF TickWithin
    <3> QED
      BY <2>1, <2>2, <3>1, <3>2 DEF Countdown, InOrder
  <2>4. CASE TickOver
    <3>1. calm' => Punctual /\ server = "running"
      BY <2>4, Zenon DEF TickOver
    <3>2. waiting' = 0 /\ phase' = 0
      BY <2>4 DEF TickOver
    <3> QED
      BY <2>1, <2>2, <3>1, <3>2 DEF Countdown
  <2> QED
    BY <1>1, <2>3, <2>4 DEF Tick
<1>2. CASE TimerElapsed
  BY <1>2 DEF TimerElapsed, Loaders
<1>3. ASSUME NEW k \in Loaders, GetNextJob(k) PROVE Covered'
  BY <1>3 DEF GetNextJob, Loaders, Triggers, InOrder
<1>4. ASSUME NEW k \in Loaders, PushToTimer(k) PROVE Covered'
  BY <1>4 DEF PushToTimer, Loaders, InOrder
<1>5. CASE Fire \/ UpdateNextTriggerTime \/ DispatchFails
  BY <1>5 DEF Fire, UpdateNextTriggerTime, DispatchFails
<1>6. CASE StartDispatch
  BY <1>6 DEF StartDispatch, Loaders
<1>7. CASE UNCHANGED vars
  BY <1>7 DEF vars
<1> QED
  BY <1>1, <1>2, <1>3, <1>4, <1>5, <1>6, <1>7, Zenon
     DEF Next, LoadTaskInfos, LoadThrows, StopDispatch, Crash, User, SetTask, Reassign,
         DispatchedElsewhere

LEMMA OnceStep ==
  ASSUME Lookahead <= LoadInterval, TypeOK, InOrder, Once, [Next]_vars
  PROVE  Once'
<1> SUFFICES ASSUME ~Disturb PROVE Once'
  BY Disturbed
<1> USE CalmFacts DEF Once
<1>1. CASE Tick
  <2>1. load' = load /\ timer' = Countdown
    BY <1>1 DEF Tick
  <2>2. Punctual => load["timer"] = "no" /\ load["start"] = "no" /\ timer > 0
    BY DEF Punctual, NoLoad, Loaders
  <2>3. CASE TickWithin
    <3>1. calm' => calm /\ Punctual
      BY <2>3, Zenon DEF TickWithin
    <3>2. waiting' = waiting /\ caught' = caught /\ phase' = phase + 1
      BY <2>3 DEF TickWithin
    <3> QED
      BY <2>1, <2>2, <3>1, <3>2 DEF Countdown, InOrder
  <2>4. CASE TickOver
    <3>1. calm' => Punctual /\ server = "running"
      BY <2>4, Zenon DEF TickOver
    <3>2. waiting' = 0 /\ phase' = 0
      BY <2>4 DEF TickOver
    <3> QED
      BY <2>1, <2>2, <3>1, <3>2 DEF Countdown
  <2> QED
    BY <1>1, <2>3, <2>4 DEF Tick
<1>2. CASE TimerElapsed
  BY <1>2 DEF TimerElapsed, Loaders
<1>3. ASSUME NEW k \in Loaders, GetNextJob(k) PROVE Once'
  <2>1. waiting' = waiting /\ calm' = calm /\ phase' = phase /\ timer' = timer
    BY <1>3 DEF GetNextJob
  <2>2. caught => caught'
    BY <1>3, Zenon DEF GetNextJob
  <2>3. CASE load' = [load EXCEPT ![k] = "no"]
    BY <1>3, <2>1, <2>2, <2>3 DEF Loaders
  <2>4. CASE load' = [load EXCEPT ![k] = "selected"] /\ Triggers /\ (overdue => caught')
    BY <1>3, <2>1, <2>2, <2>4 DEF GetNextJob, Loaders, Triggers, InOrder
  <2> QED
    BY <1>3, <2>3, <2>4, Zenon DEF GetNextJob
<1>4. ASSUME NEW k \in Loaders, PushToTimer(k) PROVE Once'
  BY <1>4 DEF PushToTimer, Loaders, InOrder
<1>5. CASE Fire \/ UpdateNextTriggerTime \/ DispatchFails
  BY <1>5 DEF Fire, UpdateNextTriggerTime, DispatchFails
<1>6. CASE StartDispatch
  BY <1>6 DEF StartDispatch, InOrder
<1>7. CASE UNCHANGED vars
  BY <1>7 DEF vars
<1> QED
  BY <1>1, <1>2, <1>3, <1>4, <1>5, <1>6, <1>7, Zenon
     DEF Next, LoadTaskInfos, LoadThrows, StopDispatch, Crash, User, SetTask, Reassign,
         DispatchedElsewhere

-----------------------------------------------------------------------------
\* Whatever users, reassignments, crashes and failing loads do, every variable
\* keeps its type.
THEOREM TypeCorrect == Spec => []TypeOK
<1>1. Init => TypeOK
  BY InitType
<1>2. TypeOK /\ [Next]_vars => TypeOK'
  BY TypeStep
<1> QED
  BY <1>1, <1>2, PTL DEF Spec

\* A task is dispatched for at most one occurrence after it was disabled or its
\* slot was taken away.
THEOREM LeftoverOnceCorrect == Spec => []LeftoverOnce
<1>1. Init => Traced
  BY InitTraced
<1>2. TypeOK /\ Traced /\ [Next]_vars => Traced'
  BY TracedStep
<1>3. Traced => LeftoverOnce
  BY DEF Traced
<1> QED
  BY <1>1, <1>2, <1>3, TypeCorrect, PTL DEF Spec

\* While no history says otherwise the scheduler is in order: it runs, the task is
\* its own and enabled, and no load is under way that is not in time.
THEOREM InOrderCorrect == Spec => []InOrder
<1>1. Init => InOrder
  BY InitOrder
<1>2. TypeOK /\ InOrder /\ [Next]_vars => InOrder'
  BY OrderStep
<1> QED
  BY <1>1, <1>2, TypeCorrect, PTL DEF Spec

\* When the load looks at least one interval ahead and the period is no shorter
\* than the interval, no occurrence of an undisturbed task is missed.
THEOREM EveryOccurrenceCorrect ==
  ASSUME LoadInterval <= Lookahead, LoadInterval <= Period
  PROVE  Spec => []EveryOccurrence
<1>1. Init => Covered
  BY InitOrder
<1>2. TypeOK /\ InOrder /\ Covered /\ [Next]_vars => Covered'
  BY CoveredStep
<1>3. TypeOK /\ Covered => EveryOccurrence
  BY CalmFacts DEF Covered, EveryOccurrence, Punctual, NoLoad, Loaders
<1> QED
  BY <1>1, <1>2, <1>3, TypeCorrect, InOrderCorrect, PTL DEF Spec

\* When the load looks no further than one interval ahead, an undisturbed task is
\* in the wheel once, unless a load found its row overdue.
THEOREM NoDuplicateCorrect ==
  ASSUME Lookahead <= LoadInterval
  PROVE  Spec => []NoDuplicate
<1>1. Init => Once
  BY InitOrder
<1>2. TypeOK /\ InOrder /\ Once /\ [Next]_vars => Once'
  BY OnceStep
<1>3. Once => NoDuplicate
  BY DEF Once, NoDuplicate
<1> QED
  BY <1>1, <1>2, <1>3, TypeCorrect, InOrderCorrect, PTL DEF Spec
=============================================================================
