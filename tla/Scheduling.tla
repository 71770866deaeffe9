----------------------------- MODULE Scheduling -----------------------------
(***************************************************************************)
(* SchedulingHandler of one server and one task with a period: the row of  *)
(* the task in ot_task_info, the load timer that selects it every 15 s,    *)
(* the timing wheel its timeouts wait in, and the callbacks that dispatch  *)
(* it and write its next trigger time.                                     *)
(*                                                                         *)
(* What other parts of the system do to it are steps of their own, taken   *)
(* at any time: a user enables, disables or deletes the task, a            *)
(* reassignment gives its slot to this server or takes it, this server's   *)
(* own reassignment stops and starts the scheduler, another server         *)
(* dispatches the task.                                                    *)
(*                                                                         *)
(* Time counts from the task's last occurrence.  trigger_next_time is      *)
(* always written as the coming occurrence, so the row is either due then  *)
(* or overdue, as a new row (0) is from the start.  The same holds of the  *)
(* timeouts: all that wait are due at the coming occurrence, so a count    *)
(* stands for them.  The wheel and the cron expressions are libraries: the *)
(* wheel is taken to run a timeout in the time unit it is due in, and      *)
(* GetNextOccurrence to be exact.                                          *)
(***************************************************************************)
EXTENDS Integers

CONSTANTS
  Period,          \* from one occurrence of the task to the next
  LoadInterval,    \* timer.Interval: 15 s in the code
  Lookahead,       \* how far ahead GetNextJob looks: 15 s in the code
  MaxFiring,       \* bound of the model: callbacks running at once
  MaxDisturbances  \* bound of the model: steps of others, crashes, failed loads

ASSUME SchedulingAssumption ==
  /\ Period \in Nat \ {0}
  /\ LoadInterval \in Nat \ {0}
  /\ Lookahead \in Nat
  /\ MaxFiring \in Nat \ {0}
  /\ MaxDisturbances \in Nat

VARIABLES
  task,          \* the row of the task: enabled, disabled or deleted
  overdue,       \* trigger_next_time of the row is not after now
  owned,         \* the slot of the task lies within the slots of this server
  server,        \* running, stopped (stoped, the wheel null) or down
  timer,         \* time until the load timer elapses
  load,          \* where loadTaskInfos is, called by the timer or by a start
  waiting,       \* timeouts in the wheel, due at the coming occurrence
  ready,         \* timeouts that are due
  firing,        \* callbacks between the dispatch and the row's update
  phase,         \* time since the last occurrence
  disturbances,  \* steps of others, crashes and failed loads so far
  calm,          \* history: the task could be loaded, and was in time, ever
                 \* since the last occurrence
  caught,        \* history: a load found the row overdue since then
  seen,          \* history: a load could select the task since then, or had
  seenBefore     \* history: the same for the period before

vars == <<task, overdue, owned, server, timer, load, waiting, ready, firing, phase,
          disturbances, calm, caught, seen, seenBefore>>

Loaders == {"timer", "start"}
LoadStatus == {"no", "called", "selected"}

TypeOK ==
  /\ task \in {"enabled", "disabled", "deleted"}
  /\ overdue \in BOOLEAN
  /\ owned \in BOOLEAN
  /\ server \in {"running", "stopped", "down"}
  /\ timer \in 0..LoadInterval
  /\ load \in [Loaders -> LoadStatus]
  /\ waiting \in Nat
  /\ ready \in Nat
  /\ firing \in 0..MaxFiring
  /\ phase \in 0..(Period - 1)
  /\ disturbances \in 0..MaxDisturbances
  /\ calm \in BOOLEAN
  /\ caught \in BOOLEAN
  /\ seen \in BOOLEAN
  /\ seenBefore \in BOOLEAN

NoLoad == [k \in Loaders |-> "no"]

\* A new task, before the server starts.
Init ==
  /\ task = "enabled"
  /\ overdue = TRUE
  /\ owned = TRUE
  /\ server = "down"
  /\ timer = LoadInterval
  /\ load = NoLoad
  /\ waiting = 0
  /\ ready = 0
  /\ firing = 0
  /\ phase = 0
  /\ disturbances = 0
  /\ calm = FALSE
  /\ caught = FALSE
  /\ seen = TRUE
  /\ seenBefore = TRUE

-----------------------------------------------------------------------------
(* Loading.                                                                *)

Selectable == task = "enabled" /\ owned

\* Mutant: trigger_next_time < now + 15 s.
Triggers_Before == overdue \/ Period - phase < Lookahead

\* Mutant: the load looks two intervals ahead.
Triggers_TwiceAsFar == overdue \/ Period - phase <= 2 * Lookahead

\* Mutant: only times between now and now + 15 s are selected.
Triggers_OnlyComing == ~overdue /\ Period - phase <= Lookahead

\* t.trigger_next_time <= now + 15 s
Triggers == overdue \/ Period - phase <= Lookahead

\* Timer_Elapsed.  A load of the timer lasts less than the interval.
TimerElapsed ==
  /\ server = "running"
  /\ load["start"] = "no"
  /\ timer = 0
  /\ load["timer"] = "no"
  /\ load' = [load EXCEPT !["timer"] = "called"]
  /\ timer' = LoadInterval
  /\ UNCHANGED <<task, overdue, owned, server, waiting, ready, firing, phase, disturbances,
                 calm, caught, seen, seenBefore>>

\* loadTaskInfos up to the select.  It tests stoped first, so the select may
\* still come after a stop, or does not come.
GetNextJob(k) ==
  /\ load[k] = "called"
  /\ \/ /\ Selectable /\ Triggers
        /\ load' = [load EXCEPT ![k] = "selected"]
        /\ caught' = (caught \/ overdue)
     \/ /\ ~(Selectable /\ Triggers) \/ server # "running"
        /\ load' = [load EXCEPT ![k] = "no"]
        /\ UNCHANGED caught
  /\ UNCHANGED <<task, overdue, owned, server, timer, waiting, ready, firing, phase,
                 disturbances, calm, seen, seenBefore>>

\* A new timeout for the occurrence after now; none without a wheel.
PushToTimer(k) ==
  /\ load[k] = "selected"
  /\ load' = [load EXCEPT ![k] = "no"]
  /\ waiting' = IF server = "running" THEN waiting + 1 ELSE waiting
  /\ UNCHANGED <<task, overdue, owned, server, timer, ready, firing, phase, disturbances,
                 calm, caught, seen, seenBefore>>

-----------------------------------------------------------------------------
(* Firing.                                                                 *)

\* Mutant: the callback inserts the next cycle itself.
Fire_Reinsert ==
  /\ ready > 0
  /\ firing < MaxFiring
  /\ ready' = ready - 1
  /\ firing' = firing + 1
  /\ waiting' = waiting + 1
  /\ UNCHANGED <<task, overdue, owned, server, timer, load, phase, disturbances, calm,
                 caught, seen, seenBefore>>

\* The callback dispatches the task as it was selected: no query precedes it.
Fire ==
  /\ ready > 0
  /\ firing < MaxFiring
  /\ ready' = ready - 1
  /\ firing' = firing + 1
  /\ UNCHANGED <<task, overdue, owned, server, timer, load, waiting, phase, disturbances,
                 calm, caught, seen, seenBefore>>

UpdateNextTriggerTime ==
  /\ firing > 0
  /\ firing' = firing - 1
  /\ overdue' = FALSE
  /\ UNCHANGED <<task, owned, server, timer, load, waiting, ready, phase, disturbances,
                 calm, caught, seen, seenBefore>>

\* DispatchAsync or the update throws.
DispatchFails ==
  /\ firing > 0
  /\ firing' = firing - 1
  /\ UNCHANGED <<task, overdue, owned, server, timer, load, waiting, ready, phase,
                 disturbances, calm, caught, seen, seenBefore>>

-----------------------------------------------------------------------------
(* Stopping and starting.                                                  *)

Disturb ==
  /\ disturbances < MaxDisturbances
  /\ disturbances' = disturbances + 1
  /\ calm' = FALSE

\* The reslot handler of this server: it is out of Start and StartDispatch.  The
\* callbacks that are due find stoped and throw.
StopDispatch ==
  /\ server = "running"
  /\ load["start"] = "no"
  /\ Disturb
  /\ server' = "stopped"
  /\ timer' = LoadInterval
  /\ waiting' = 0
  /\ ready' = 0
  /\ UNCHANGED <<task, overdue, owned, load, firing, phase, caught, seen, seenBefore>>

\* StartDispatch, or Start of a new process: a new wheel, one load at once, and
\* after it the load timer, from the full interval.
StartDispatch ==
  /\ server \in {"stopped", "down"}
  /\ server' = "running"
  /\ load' = [load EXCEPT !["start"] = "called"]
  /\ UNCHANGED <<task, overdue, owned, timer, waiting, ready, firing, phase, disturbances,
                 calm, caught, seen, seenBefore>>

Crash ==
  /\ server # "down"
  /\ Disturb
  /\ server' = "down"
  /\ timer' = LoadInterval
  /\ load' = NoLoad
  /\ waiting' = 0
  /\ ready' = 0
  /\ firing' = 0
  /\ UNCHANGED <<task, overdue, owned, phase, caught, seen, seenBefore>>

-----------------------------------------------------------------------------
(* What others do.                                                         *)

\* The select or the parsing of the cron expression throws: the load is over.
LoadThrows(k) ==
  /\ load[k] # "no"
  /\ Disturb
  /\ load' = [load EXCEPT ![k] = "no"]
  /\ UNCHANGED <<task, overdue, owned, server, timer, waiting, ready, firing, phase, caught,
                 seen, seenBefore>>

\* SwitchEnabledStatus, or DelJob.
SetTask(status) ==
  /\ task \notin {"deleted", status}
  /\ Disturb
  /\ task' = status
  /\ seen' = (seen \/ (status = "enabled" /\ owned))
  /\ UNCHANGED <<overdue, owned, server, timer, load, waiting, ready, firing, phase, caught,
                 seenBefore>>

Reassign ==
  /\ Disturb
  /\ owned' = ~owned
  /\ seen' = (seen \/ (task = "enabled" /\ ~owned))
  /\ UNCHANGED <<task, overdue, server, timer, load, waiting, ready, firing, phase, caught,
                 seenBefore>>

\* Another server that had the slot, or has it, dispatched the task.
DispatchedElsewhere ==
  /\ overdue
  /\ Disturb
  /\ overdue' = FALSE
  /\ UNCHANGED <<task, owned, server, timer, load, waiting, ready, firing, phase, caught,
                 seen, seenBefore>>

-----------------------------------------------------------------------------
\* The load timer is running and has time left, and no load is under way.
Punctual == load = NoLoad /\ timer > 0

\* Mutant: a timer whose load is still under way counts on.
Countdown_PastZero ==
  IF server = "running" /\ load["start"] = "no" THEN timer - 1 ELSE timer

\* The load timer runs from the end of a start to the next stop.
Countdown ==
  IF server = "running" /\ load["start"] = "no" /\ timer > 0 THEN timer - 1 ELSE timer

TickWithin ==
  /\ phase < Period - 1
  /\ phase' = phase + 1
  /\ calm' = (calm /\ Punctual)
  /\ UNCHANGED <<overdue, waiting, ready, caught, seen, seenBefore>>

\* The next occurrence: the timeouts that wait are due.
TickOver ==
  /\ phase = Period - 1
  /\ phase' = 0
  /\ overdue' = TRUE
  /\ ready' = waiting
  /\ waiting' = 0
  /\ calm' = (Punctual /\ server = "running" /\ Selectable)
  /\ caught' = FALSE
  /\ seenBefore' = seen
  /\ seen' = (Selectable \/ \E k \in Loaders : load[k] = "selected")

Tick ==
  /\ ready = 0
  /\ TickWithin \/ TickOver
  /\ timer' = Countdown
  /\ UNCHANGED <<task, owned, server, load, firing, disturbances>>

LoadTaskInfos(k) == GetNextJob(k) \/ PushToTimer(k)

User == \E status \in {"enabled", "disabled", "deleted"} : SetTask(status)

Next ==
  \/ Tick
  \/ TimerElapsed
  \/ \E k \in Loaders : LoadTaskInfos(k) \/ LoadThrows(k)
  \/ Fire \/ UpdateNextTriggerTime \/ DispatchFails
  \/ StopDispatch \/ StartDispatch \/ Crash
  \/ User \/ Reassign \/ DispatchedElsewhere

Spec == Init /\ [][Next]_vars

\* Time passes, timers elapse, loads and callbacks come to an end one way or the
\* other, and a stopped scheduler is started (see StoppedResumes of Discovery).
\* Nothing starts a dead process, and no row is ever changed from outside.
Fairness ==
  /\ WF_vars(Tick)
  /\ WF_vars(TimerElapsed)
  /\ \A k \in Loaders : WF_vars(LoadTaskInfos(k))
  /\ WF_vars(Fire)
  /\ WF_vars(UpdateNextTriggerTime \/ DispatchFails)
  /\ WF_vars(server = "stopped" /\ StartDispatch)

FairSpec == Spec /\ Fairness

-----------------------------------------------------------------------------
\* No occurrence is missed: when the task could be loaded since its last
\* occurrence and every load came in time, its next one finds it in the wheel.
EveryOccurrence == calm /\ Punctual /\ phase = Period - 1 => waiting > 0

\* ... and once: two timeouts for one occurrence have the row overdue at a load,
\* or a load that was late, restarted or disturbed.
NoDuplicate == calm /\ ~caught => waiting <= 1

\* What is loaded outlives its reason for one occurrence at most: a timeout that
\* is due is of a task that was enabled, and whose slot was this server's, in the
\* period that just ended, or that a load had selected when it began.
LeftoverOnce == ready > 0 => seenBefore

\* A task that is enabled is dispatched again and again, whatever was missed, by
\* loads that came late or failed, restarts or dispatches that threw: as long as
\* its server runs and keeps its slot.
NeverForgotten == []<>(server = "running" /\ Selectable => firing > 0)
=============================================================================
