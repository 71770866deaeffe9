------------------------------- MODULE TaskRun ------------------------------
(***************************************************************************)
(* From the dispatch of a task to the result in its log: TaskDispatcher    *)
(* writes a log row per executor, publishes the task to it (through the    *)
(* executor's own server when that is another) and marks the row; the      *)
(* executor (TaskWorker) queues, runs and answers; SelfSubscriber of the   *)
(* executor's server records the answer in the row.                        *)
(*                                                                         *)
(* A mark and a record are each a select and an update of all columns, so  *)
(* they interleave.  Messages are lost with the connection or the process  *)
(* that carries them.  Rows are numbered by the key the database gives     *)
(* them.  The executors in question are those of one application.          *)
(***************************************************************************)
EXTENDS Registry

CONSTANTS
  Calls,     \* calls of DispatchAsync that run at the same time
  Job,       \* the id of the task in ot_task_info
  Nobody,    \* no executor, no row
  Mode,      \* ScheduleMode: "alone" or "sphere"
  Outcomes,  \* the final statuses that the handlers of each executor can end with
  MaxLogs    \* bound of the model: rows in ot_task_log

ASSUME TaskRunAssumption ==
  /\ Mode \in {"alone", "sphere"}
  /\ Outcomes \in [Workers -> SUBSET {2, 3}]
  /\ MaxLogs \in Nat
  /\ Nobody \notin Workers
  /\ Job \notin 1..MaxLogs

VARIABLES
  logs,      \* ot_task_log
  call,      \* each DispatchAsync: where it is and its local variables
  proxies,   \* tasks under way to another server
  onjobs,    \* tasks under way to their executor
  todo,      \* todoTasks of each executor
  running,   \* tasks each executor runs
  results,   \* answers under way to the server of their executor
  rec,       \* the answer each SelfSubscriber is recording
  started,   \* history: the rows whose task was started
  answered,  \* history: answers given, as <<row, executor, status>>
  gone,      \* history: rows whose task or answer was lost
  undone     \* history: rows whose result a mark overwrote

taskVars == <<logs, call, proxies, onjobs, todo, running, results, rec,
              started, answered, gone, undone>>
vars == <<registryVars, taskVars>>

PROCESS == 1
SUCCESS == 2
FAIL == 3

Rows == 1..MaxLogs
LogRow == [task : Rows \cup {Job}, client : Workers \cup {Nobody},
           status : {PROCESS, SUCCESS, FAIL},
           result : {"none", "reported", "offline", "unsupported"}]
Answer == [row : Rows, by : Workers, status : {SUCCESS, FAIL}]

Idle == [pc |-> "idle", at |-> Nobody, left |-> {}, task |-> Job, to |-> Nobody,
         marks |-> 0, seen |-> Nobody]
NoRecord == [pc |-> "idle", row |-> 0, status |-> SUCCESS, seen |-> Nobody]

CallState ==
  [pc : {"idle", "add", "publish", "read", "write"}, at : Servers \cup {Nobody},
   left : SUBSET Workers, task : Rows \cup {Job}, to : Workers \cup {Nobody},
   marks : 0..2, seen : LogRow \cup {Nobody}]
RecordState ==
  [pc : {"idle", "read", "write"}, row : 0..MaxLogs, status : {SUCCESS, FAIL},
   seen : LogRow \cup {Nobody}]

\* Types.  No call marks a row more than twice, and every message is about a row.
TypeOK ==
  /\ RegistryTypeOK
  /\ logs \in Seq(LogRow) /\ Len(logs) <= MaxLogs
  /\ call \in [Calls -> CallState]
  /\ proxies \in SUBSET [row : Rows, to : Workers, from : Servers]
  /\ onjobs \in SUBSET [row : Rows, to : Workers]
  /\ todo \in [Workers -> SUBSET Rows]
  /\ running \in [Workers -> SUBSET Rows]
  /\ results \in SUBSET Answer
  /\ rec \in [Servers -> RecordState]
  /\ started \in SUBSET Rows /\ gone \in SUBSET Rows /\ undone \in SUBSET Rows
  /\ answered \in SUBSET (Rows \X Workers \X {SUCCESS, FAIL})

TaskInit ==
  /\ logs = <<>>
  /\ call = [c \in Calls |-> Idle]
  /\ proxies = {} /\ onjobs = {} /\ results = {}
  /\ todo = [w \in Workers |-> {}]
  /\ running = [w \in Workers |-> {}]
  /\ rec = [s \in Servers |-> NoRecord]
  /\ started = {} /\ answered = {} /\ gone = {} /\ undone = {}

Init == RegistryInit /\ TaskInit

-----------------------------------------------------------------------------
\* AddTask: the insert of one row, within the bound.
Insert(task, client, status, result) ==
  /\ Len(logs) < MaxLogs
  /\ logs' = Append(logs, [task |-> task, client |-> client, status |-> status, result |-> result])

\* ConnectionId is never assigned: it is null for every executor.
ConnectionId(w) == Nobody

\* The executors of the task, w being the one chosen when it runs "alone".
Select(w, found) ==
  IF Mode = "sphere" THEN found
  ELSE {x \in found : ConnectionId(x) = ConnectionId(w)}

DispatchAsync(c, s) ==
  /\ call[c].pc = "idle"
  /\ s \in alive
  /\ \/ /\ Clients(s) = {}
        /\ Insert(Job, Nobody, FAIL, "offline")
        /\ UNCHANGED call
     \/ /\ Clients(s) # {} /\ Supporting(s) = {}
        /\ Insert(Job, Nobody, PROCESS, "unsupported")
        /\ UNCHANGED call
     \/ \E w \in Supporting(s) :
          /\ Len(logs) < MaxLogs
          /\ call' = [call EXCEPT ![c] =
               [Idle EXCEPT !.pc = "add", !.at = s, !.left = Select(w, Supporting(s))]]
          /\ UNCHANGED logs
  /\ UNCHANGED <<registryVars, proxies, onjobs, todo, running, results, rec,
                 started, answered, gone, undone>>

\* Mutant: the row that AddTask returned is not kept, so the next step uses the
\* task id of the call before.
AddTask_KeepId(c, w) ==
  /\ call[c].pc = "add"
  /\ w \in call[c].left
  /\ Insert(call[c].task, w, PROCESS, "none")
  /\ call' = [call EXCEPT ![c].pc = "publish", ![c].to = w, ![c].left = @ \ {w},
                          ![c].task = IF @ = Job THEN Len(logs) + 1 ELSE @]
  /\ UNCHANGED <<registryVars, proxies, onjobs, todo, running, results, rec,
                 started, answered, gone, undone>>

\* The row of the next executor.  AddTask puts the key of the row in TaskId, where
\* the id of the task was, and the same object is inserted for the next executor.
AddTask(c, w) ==
  /\ call[c].pc = "add"
  /\ w \in call[c].left
  /\ Insert(call[c].task, w, PROCESS, "none")
  /\ call' = [call EXCEPT ![c].pc = "publish", ![c].to = w, ![c].left = @ \ {w},
                          ![c].task = Len(logs) + 1]
  /\ UNCHANGED <<registryVars, proxies, onjobs, todo, running, results, rec,
                 started, answered, gone, undone>>

\* Mutant: a local task is marked three times.
PublishTask_OneMore(c) ==
  /\ call[c].pc = "publish"
  /\ Home[call[c].to] = call[c].at
  /\ onjobs' = onjobs \cup {[row |-> call[c].task, to |-> call[c].to]}
  /\ call' = [call EXCEPT ![c].pc = "read", ![c].marks = 3]
  /\ UNCHANGED <<registryVars, logs, proxies, todo, running, results, rec,
                 started, answered, gone, undone>>

\* To the executor, or to the other servers when it is not connected here.  The
\* row is marked twice in the first case, once in the second.
PublishTask(c) ==
  /\ call[c].pc = "publish"
  /\ \/ /\ Home[call[c].to] = call[c].at
        /\ onjobs' = onjobs \cup {[row |-> call[c].task, to |-> call[c].to]}
        /\ call' = [call EXCEPT ![c].pc = "read", ![c].marks = 2]
        /\ UNCHANGED proxies
     \/ /\ Home[call[c].to] # call[c].at
        /\ proxies' = proxies \cup
             {[row |-> call[c].task, to |-> call[c].to, from |-> call[c].at]}
        /\ call' = [call EXCEPT ![c].pc = "read", ![c].marks = 1]
        /\ UNCHANGED onjobs
  /\ UNCHANGED <<registryVars, logs, todo, running, results, rec,
                 started, answered, gone, undone>>

\* UpdateTaskFlag: the select ...
ReadFlag(c) ==
  /\ call[c].pc = "read"
  /\ call' = [call EXCEPT ![c].pc = "write", ![c].seen = logs[call[c].task]]
  /\ UNCHANGED <<registryVars, logs, proxies, onjobs, todo, running, results, rec,
                 started, answered, gone, undone>>

Settled(r) == r \in DOMAIN logs /\ logs[r].status # PROCESS

\* Mutant: the mark goes to the row that TaskId names.
WriteFlag_ByTaskId(c) ==
  /\ call[c].pc = "write"
  /\ LET r == IF call[c].seen.task = Job THEN call[c].task ELSE call[c].seen.task IN
       logs' = [logs EXCEPT ![r].status = PROCESS]
  /\ call' = [call EXCEPT ![c] =
       IF @.left # {} THEN [@ EXCEPT !.pc = "add", !.marks = 0, !.to = Nobody, !.seen = Nobody]
       ELSE Idle]
  /\ UNCHANGED <<registryVars, proxies, onjobs, todo, running, results, rec,
                 started, answered, gone, undone>>

\* ... and the update of all columns.
WriteFlag(c) ==
  /\ call[c].pc = "write"
  /\ logs' = [logs EXCEPT ![call[c].task] = [call[c].seen EXCEPT !.status = PROCESS]]
  /\ undone' = IF Settled(call[c].task) THEN undone \cup {call[c].task} ELSE undone
  /\ call' = [call EXCEPT ![c] =
       IF @.marks = 2 THEN [@ EXCEPT !.pc = "read", !.marks = 1, !.seen = Nobody]
       ELSE IF @.left # {} THEN [@ EXCEPT !.pc = "add", !.marks = 0, !.to = Nobody, !.seen = Nobody]
       ELSE Idle]
  /\ UNCHANGED <<registryVars, proxies, onjobs, todo, running, results, rec,
                 started, answered, gone>>

\* The task of a call that is in no message yet.
InCall(c) == IF call[c].pc = "publish" THEN {call[c].task} ELSE {}

\* A statement or the publication throws, and so the call: the executors left get
\* nothing.
Throw(c) ==
  /\ call[c].pc # "idle"
  /\ Fault
  /\ gone' = gone \cup InCall(c)
  /\ call' = [call EXCEPT ![c] = Idle]
  /\ UNCHANGED <<alive, link, hello, own, pubs, retained, known, newest, logs, proxies,
                 onjobs, todo, running, results, rec, started, answered, undone>>

-----------------------------------------------------------------------------
\* ClusterSubscriber of every other server publishes the task to its own broker;
\* only the one the executor is connected to has somebody to give it to.
Proxy(m) ==
  /\ m \in proxies
  /\ Home[m.to] \in alive
  /\ proxies' = proxies \ {m}
  /\ onjobs' = onjobs \cup {[row |-> m.row, to |-> m.to]}
  /\ UNCHANGED <<registryVars, logs, call, todo, running, results, rec,
                 started, answered, gone, undone>>

\* Mutant: the executor queues what it has been given, and the broker keeps it.
OnJob_Kept(m) ==
  /\ m \in onjobs
  /\ link[m.to] = "up"
  /\ todo' = [todo EXCEPT ![m.to] = @ \cup {m.row}]
  /\ UNCHANGED <<registryVars, logs, call, proxies, onjobs, running, results, rec,
                 started, answered, gone, undone>>

OnJob(m) ==
  /\ m \in onjobs
  /\ link[m.to] = "up"
  /\ onjobs' = onjobs \ {m}
  /\ todo' = [todo EXCEPT ![m.to] = @ \cup {m.row}]
  /\ UNCHANGED <<registryVars, logs, call, proxies, running, results, rec,
                 started, answered, gone, undone>>

\* Nobody has subscribed under that client id (yet, or any more), or the server is down.
Undeliverable ==
  \/ \E m \in onjobs :
       /\ link[m.to] # "up"
       /\ onjobs' = onjobs \ {m}
       /\ gone' = gone \cup {m.row}
       /\ UNCHANGED proxies
  \/ \E m \in proxies :
       /\ Home[m.to] \notin alive
       /\ proxies' = proxies \ {m}
       /\ gone' = gone \cup {m.row}
       /\ UNCHANGED onjobs

Drop ==
  /\ Undeliverable
  /\ UNCHANGED <<registryVars, logs, call, todo, running, results, rec,
                 started, answered, undone>>

\* Timer_Elapsed starts everything in the queue, connected or not.
Timer_Elapsed(w) ==
  /\ link[w] # "dead"
  /\ todo[w] # {}
  /\ running' = [running EXCEPT ![w] = @ \cup todo[w]]
  /\ started' = started \cup todo[w]
  /\ todo' = [todo EXCEPT ![w] = {}]
  /\ UNCHANGED <<registryVars, logs, call, proxies, onjobs, results, rec,
                 answered, gone, undone>>

\* DoTaskAsync ends.  The handler is asynchronous and the policies around it are
\* not, so an exception reaches the catch block and not the retry: it runs once
\* whatever MaxAttempt is.  The answer is published when there is a connection.
DoTaskAsync(w, r, status) ==
  /\ link[w] # "dead"
  /\ r \in running[w]
  /\ running' = [running EXCEPT ![w] = @ \ {r}]
  /\ answered' = answered \cup {<<r, w, status>>}
  /\ \/ /\ Connected(w)
        /\ results' = results \cup {[row |-> r, by |-> w, status |-> status]}
        /\ UNCHANGED gone
     \/ /\ ~Connected(w)
        /\ gone' = gone \cup {r}
        /\ UNCHANGED results
  /\ UNCHANGED <<registryVars, logs, call, proxies, onjobs, todo, rec, started, undone>>

\* SelfSubscriber, one message at a time: GetTaskById ...
ReadTask(s, m) ==
  /\ rec[s].pc = "idle"
  /\ m \in results
  /\ Home[m.by] = s /\ s \in alive
  /\ results' = results \ {m}
  /\ rec' = [rec EXCEPT ![s] =
       [pc |-> "write", row |-> m.row, status |-> m.status, seen |-> logs[m.row]]]
  /\ UNCHANGED <<registryVars, logs, call, proxies, onjobs, todo, running,
                 started, answered, gone, undone>>

\* Mutant: the result is recorded, and the status that was read.
Update_ResultOnly(s) ==
  /\ rec[s].pc = "write"
  /\ logs' = [logs EXCEPT ![rec[s].row] = [rec[s].seen EXCEPT !.result = "reported"]]
  /\ rec' = [rec EXCEPT ![s] = NoRecord]
  /\ UNCHANGED <<registryVars, call, proxies, onjobs, todo, running, results,
                 started, answered, gone, undone>>

\* ... and the update of all columns.
Update(s) ==
  /\ rec[s].pc = "write"
  /\ logs' = [logs EXCEPT ![rec[s].row] =
       [rec[s].seen EXCEPT !.status = rec[s].status, !.result = "reported"]]
  /\ rec' = [rec EXCEPT ![s] = NoRecord]
  /\ UNCHANGED <<registryVars, call, proxies, onjobs, todo, running, results,
                 started, answered, gone, undone>>

\* A subscriber throws, or is not connected to the broker when the message comes, and the
\* message is not sent again: a task on its way through ClusterSubscriber, or the answer
\* SelfSubscriber was to read (GetTaskById) or to record (Update).
HandlerThrows ==
  /\ Fault
  /\ \/ \E m \in proxies :
          proxies' = proxies \ {m} /\ gone' = gone \cup {m.row} /\ UNCHANGED <<results, rec>>
     \/ \E m \in results :
          results' = results \ {m} /\ gone' = gone \cup {m.row} /\ UNCHANGED <<proxies, rec>>
     \/ \E s \in Servers :
          /\ rec[s].pc = "write"
          /\ rec' = [rec EXCEPT ![s] = NoRecord]
          /\ gone' = gone \cup {rec[s].row}
          /\ UNCHANGED <<proxies, results>>
  /\ UNCHANGED <<alive, link, hello, own, pubs, retained, known, newest, logs, call,
                 onjobs, todo, running, started, answered, undone>>

-----------------------------------------------------------------------------
\* What the faults of the registry do to the tasks under way.
TaskLost(rows) == gone' = gone \cup rows

\* The connection is lost, and what was under way on it.  The process keeps what
\* it queued and runs; when the process dies that is lost too.
DisconnectWorker(w, how) ==
  /\ Disconnect(w, how)
  /\ TaskLost({m.row : m \in {x \in results : x.by = w}}
                \cup (IF how = "dead" THEN todo[w] \cup running[w] ELSE {}))
  /\ results' = {m \in results : m.by # w}
  /\ todo' = IF how = "dead" THEN [todo EXCEPT ![w] = {}] ELSE todo
  /\ running' = IF how = "dead" THEN [running EXCEPT ![w] = {}] ELSE running
  /\ UNCHANGED <<logs, call, proxies, onjobs, rec, started, answered, undone>>

KillServer(s) ==
  /\ Kill(s)
  /\ TaskLost(
       (UNION {InCall(c) : c \in {x \in Calls : call[x].at = s}})
         \cup {m.row : m \in {x \in onjobs : Home[x.to] = s}}
         \cup {m.row : m \in {x \in proxies : x.from = s}}
         \cup {m.row : m \in {x \in results : Home[x.by] = s}}
         \cup (IF rec[s].pc = "write" THEN {rec[s].row} ELSE {}))
  /\ call' = [c \in Calls |-> IF call[c].at = s THEN Idle ELSE call[c]]
  /\ onjobs' = {m \in onjobs : Home[m.to] # s}
  /\ proxies' = {m \in proxies : m.from # s}
  /\ results' = {m \in results : Home[m.by] # s}
  /\ rec' = [rec EXCEPT ![s] = NoRecord]
  /\ UNCHANGED <<logs, todo, running, started, answered, undone>>

StartServer(s) == Start(s) /\ UNCHANGED taskVars

Lists == ListStep /\ UNCHANGED taskVars

ListsFail == ListFault /\ UNCHANGED taskVars

\* A step of a call, of a message or of an executor: all of them go on by themselves.
CallStep(c) ==
  (\E w \in Workers : AddTask(c, w)) \/ PublishTask(c) \/ ReadFlag(c) \/ WriteFlag(c)

TaskStep ==
  \/ \E c \in Calls : CallStep(c)
  \/ \E m \in proxies : Proxy(m)
  \/ \E m \in onjobs : OnJob(m)
  \/ Drop
  \/ \E w \in Workers : Timer_Elapsed(w)
  \/ \E w \in Workers :
       \E r \in running[w], status \in Outcomes[w] : DoTaskAsync(w, r, status)
  \/ \E s \in Servers : \E m \in results : ReadTask(s, m)
  \/ \E s \in Servers : Update(s)

Next ==
  \/ Lists
  \/ ListsFail
  \/ TaskStep
  \/ HandlerThrows
  \/ \E c \in Calls, s \in Servers : DispatchAsync(c, s)
  \/ \E c \in Calls : Throw(c)
  \/ \E w \in Workers, how \in {"down", "dead"} : DisconnectWorker(w, how)
  \/ \E s \in Servers : KillServer(s) \/ StartServer(s)

Spec == Init /\ [][Next]_vars

\* Handlers, deliveries and database calls end, and executors answer.  Nothing
\* makes anybody dispatch, fail or come back.
FairSpec == Spec /\ WF_vars(Lists) /\ WF_vars(TaskStep)

-----------------------------------------------------------------------------
\* The rows that a call still has in hand: it may mark them.
InHand(r) == \E c \in Calls : call[c].pc \in {"publish", "read", "write"} /\ call[c].task = r

\* An executor starts a task only if it is the one in the row, and no row is
\* started twice, whatever is passed on, reconnected or restarted.
RunsOnce ==
  [][\A w \in Workers : \A r \in running'[w] \ running[w] :
       r \notin started /\ logs[r].client = w]_vars

\* A result in a row was reported for this row, by the executor of the row.
ResultFromItsExecutor ==
  \A r \in DOMAIN logs :
    /\ logs[r].result = "reported" =>
         \E a \in answered : a[1] = r /\ a[2] = logs[r].client
    /\ logs[r].status = SUCCESS => <<r, logs[r].client, SUCCESS>> \in answered

\* A row loses its final status only while the call that made it still marks it:
\* afterwards the status stays.
SettledStays ==
  [][\A r \in Rows : Settled(r) /\ ~InHand(r) => Settled(r)']_vars

\* The comment on task_id: it is the key of the task in ot_task_info.
TaskIdIsTheTask == \A r \in DOMAIN logs : logs[r].task = Job

Unsupported(r) == r \in DOMAIN logs /\ logs[r].result = "unsupported"

\* A row that stays in progress has one of three causes: its task or answer was lost
\* (with a connection or a process, before the executor subscribed, or as a subscriber or
\* the dispatch threw), a mark overwrote its result, or no executor had the handler.
EveryRowEnds ==
  \A r \in Rows :
    r \in DOMAIN logs ~>
      r \in gone \cup undone \/ Unsupported(r) \/ []Settled(r)
=============================================================================
