# OpenTask: models, checks and proofs

OpenTask is a distributed task scheduler (C#, .NET) with a web interface (TypeScript,
React). Several servers share one database and divide the tasks among themselves by
*slots*; each server embeds an MQTT broker to which executors (clients) connect, and a
server is itself a client of the brokers of all other servers. This directory holds TLA+
models of it, the TLC configurations that check them and proofs that TLAPS checks.

Paths below are under `src/src/`, where `App` is `OpenTask.Application` and `Pers` is
`OpenTask.Persistence`; those that begin with `ui/` are under
`src/ui/vite-opentask/src/`.

## 1. The system

| component | state | operations | talks to |
|---|---|---|---|
| **Database lock** (`App/Lockers`, `Pers/.../LockerRepository.cs`) | one row per key in `ot_locker`: owner, time, version | `TryLock` (a select, then one insert or update), `Release` (a delete) | called by discovery |
| **Slot arithmetic** (`DiscoveryFromDb.CalculateSlot`, `IsWholeSlot`) | none | divide 16384 slots among *n* servers; test whether a table is a division | discovery; the join of `GetNextJob` |
| **Discovery and reslot** (`App/Core/DiscoveryFromDb.cs`, `ServerRepository.cs`) | `ot_server`: slots and heartbeat of every server; per server the round, the known peers | a timer: `Register` (heartbeat), every second round `TryReslot` | the lock, `ot_server`, events `OnSloting` / `OnSloted` / `OnNodeConnected` |
| **Server lifecycle** (`App/Core/OpenTaskServer.cs`) | identifier file, broker, a subscriber per peer | start, stop and restart all dispatch, publish to the cluster, client connect and disconnect | discovery's events, scheduler, brokers |
| **Scheduler** (`App/Core/SchedulingHandler.cs`, `TaskInfoRepository.cs`) | load timer, timing wheel, `stoped`; `ot_task_info` | load every 15 s what triggers within 15 s, push a timeout, fire, write the next trigger time | task table, dispatcher |
| **Dispatcher and task log** (`App/Core/TaskDispatcher.cs`, `TaskLogRepository.cs`) | `ot_task_log` | pick the executors, add a log row each, publish the task, mark the row | registry, brokers, results |
| **Subscribers** (`App/Core/SelfSubscriber.cs`, `ClusterSubscriber.cs`) | subscriptions | record job results, client lists, proxied tasks, stop and start topics | log, registry, scheduler |
| **Executor registry** (`OpenTaskServer`, `DiscoveryFromDb.OtherNodeOlineUsers`) | clients of this server, clients of the others | retained snapshots of the client list | dispatcher |
| **Executor** (`OpenTask.Core/Base/TaskWorker.cs`) | connection, queue, running tasks | queue a task, start the queue every second, publish `job_result` | its server's broker |
| **Task management** (`App/TaskInfos`) | `ot_task_info` | add, enable, disable, delete, list, execute once | scheduler through the table, web interface |
| **Web: generated client** (`ui/apis-gen`, `ui/apis/config.ts`) | none | 12 operations, 31 models with their conversions, a middleware | web API |
| **Web: session** (`ui/store`, `ui/routes`, `ui/pages/login`, `ui/layout`) | token in the local storage (shared by the tabs), user, route, login form | log in, log out, navigate | client |
| **Web: task page** (`ui/pages/taskInfos`, `ui/components/date-table`, `ui/components/ui/stepper.tsx`) | cache of queries, page and filter, a switch per row, the form | list, filter, add, switch | client |
| Web API, users, organisations, projects, dashboard, other pages, migrations | tables nothing in the core reads | create, list | - |

What is hard here: no transaction spans two statements, so every select may be
outdated when the statement that relies on it comes; full-row updates write back every column
as selected; the reslot of one server rewrites the rows of the others; `async void`
timer handlers end at the first exception; the wheel lives in memory only; clocks of
different machines are compared; notifications go through one broker per peer and any of
them may be gone; lists are serialised in one place and published in another; a task, its
mark and its result cross each other; a result is published once, over a connection that may be
lost; in the web interface lists, switches and forms each hold a copy of what the server has, and
requests end late, in another order, or with a rejection that carries no error.

Correctness, per component:

* lock: a server inside the section owns the row unless its lease ran out; a row nobody holds does not block the key; it is a lease as `Lease` describes one;
* slots: the test accepts exactly the partitions; one reassignment repairs any table;
* discovery: no server is left with its scheduler stopped; one row per server; dead servers are forgotten; the slots become a partition and stay one;
* scheduler: no occurrence missed, none dispatched twice, what was loaded does not outlive its reason for long, an enabled task is never forgotten;
* registry: a server's retained list is the one it has, and the servers' lists of each other settle on the executors there are;
* dispatcher and executors: a row is started once, by its executor; a result is that executor's own; a row names its task (it does not: finding `taskrun_taskid`); every row ends, or it is known why not;
* client: the server gets what the page meant and the page what the server said;
* session: nothing that requires a user is shown without one; the login form does not stay disabled;
* task page: one step of the form is shown; a switch shows what the server has, or it is known why not; the table catches up.

`PROJECT.json` lists the hazards line by line with the properties that guard them.

## 2. Modules

| module | models | proofs |
|---|---|---|
| `Lease` | the abstract lock: ask, granted or refused, inside, released | refinement in `LockerProofs` |
| `Locker` (`MCLocker`) | the lock for one key, statement by statement | `LockerProofs` |
| `Slots` | the slot operators, no variables | `SlotsProofs` |
| `SlotTable` | `ot_server` when each operation is one step, over `Slots` | `SlotTableProofs` |
| `Discovery` (`MCDiscovery`) | several servers over one `ot_server`, over `Slots` | `DiscoveryProofs` |
| `Scheduling` | one server's scheduler and one periodic task | `SchedulingProofs` |
| `Registry` (`MCRegistry`) | executors connecting to servers, and the lists the servers exchange | in `TaskRunProofs` |
| `TaskRun` (`MCTaskRun`) | dispatch, execution and results, over `Registry` | `TaskRunProofs` |
| `ApiRuntime`, `ApiModels`, `ApiClient` | the generated client: one call, the data, the operations; no variables | in `SessionProofs` |
| `Session` (`MCSession`) | a tab of the web interface, over `ApiClient` | `SessionProofs` |
| `Stepper` | what the stepper draws; no variables | - |
| `TaskPage` (`MCTaskPage`) | the page of the tasks and its requests, over `ApiRuntime` and `Stepper` | `TaskPageProofs` |

Definitions ending in an underscore and a word (`ReleaseLocker_AnyOwner`) are mutants:
the code with a plausible bug. `PROJECT.json` says which property finds each one.

### Locker and Lease

`row` is the row of the key (or `NoRow`), `pc` where a server is between `TryLock` and
the end of the section, `got` what its select returned. `FindByKey`, `NewLocker`,
`UpdateLocker`, `ReEnterLocker` and `ReleaseLocker` are the statements of
`LockerRepository` with their `where` clauses; `CheckExpired` is the test between the select
and the update. `locked_at` is kept as an age, which `Tick` advances; each server reads an age
with an error of up to `Skew`, as every server compares with its own `DateTime.Now`.
`Abandon` (a statement or the notification before `Release` throws), `Crash` and `Restart`
(with the identifier kept in its file) end a call anywhere. `reborn` and `lost` are history
variables: they record for the properties that a row was deleted since it was selected, and
how a holder lost its lease.

`Lease` is the lock as its caller sees it, every call one question and one answer: the key
belongs to one server, a holder keeps it unless its lease has run out, and a release frees
the key of its caller only. It has one concession to the code: a server whose question was
put before a release (`outdated`) may be granted the key although another holds it by then,
because it compares the version of a row that is gone (finding `locker_reset`).
`ImplementsLease` is the refinement, `Locker` with its row, positions and histories mapped to
the variables of `Lease`.

### Slots and SlotTable

`CalculateSlot` and `IsWholeSlot` are translated as operators over the rows' Ids, the
order of `OrderBy`. Slots are counted from 0, `TOTAL_SLOT_COUNT` of them (16384 in the code;
the proofs are for any number). The loop of `IsWholeSlot` is written as the chain its index
follows. `SlotTable` applies them to every table that inserting, lapsing and returning
servers produce: a new row has the slots 0..0, a returning server the slots it had.

### Discovery

One action per SQL statement or notification of `discoveryTimerElapsed`:

| action | code |
|---|---|
| `Start`, `Elapsed` | `StartAsync`; the timer handler up to the select of `RegisterOrUpdate` |
| `RegisterOrUpdate` | its insert or full-row update |
| `FindAllOnlineServer` | the select, with what `updateSubscriber` makes of it (peers) |
| `TryLock` | `TryLock` of the key `sys_reslot`, for 60 s, in one step: `Locker` has its statements |
| `Skip`, `StopAllDispatch` | `IsWholeSlot` true: return; false: `OnSloting`, then `CalculateSlot` |
| `UpdateSlot` | one row of the loop, all columns as selected and the slots new |
| `RestartAllDispatch` | `OnSloted`, in the `finally` block, on `Skip`'s path too |
| `Release` | `Release`, not reached when the notification threw |
| `Throw`, `Crash` | a statement throws, the process dies |

Choices a reader should know:

* The selected rows are a snapshot (the query is buffered), and `latest` shrinks as they are written.
* With an empty selection `CalculateSlot` divides by zero; the exception is caught and `OnSloted` follows.
* A notification to a peer that died throws or is lost silently, as its subscriber has noticed the broken connection or not; to a peer that runs it throws at most `MaxThrows` times.
* `Receive` is what the receiving `SelfSubscriber` does with a topic. It knows `stop_disp` and `start_disp`; the topics sent are `stop` and `start`.
* `Register` throwing in `StartAsync` ends the process: that is a `Crash`.
* `LeaseRunsOut` may happen at any time. The 60 s of the lease against the 15 s of a heartbeat are not kept, so the model allows more interleavings than the clock does.
* A server that dies keeps its row; `MayRestart` says whether it comes back.

### Scheduling

The row of one task with a fixed period, the load timer, `loadTaskInfos` (its select and its push
are two steps, called by the timer or by `Start`), the wheel, and the callback (its
dispatch and its update of the next trigger time are two steps).

* `phase` is the time since the last occurrence. `trigger_next_time` is always written as the coming occurrence, so the row is due then or `overdue`, as a new row is. All timeouts that wait are due at the same moment, so a count (`waiting`) stands for them; at the occurrence they become `ready`.
* The callback works on the object captured at the load, which was enabled. So `Fire` has no guard on `task`: the code's test of `Enabled` at `SchedulingHandler.cs:191` is always true.
* The wheel runs what is due within the time unit (`Tick` waits for `ready = 0`); a dispatch may last longer, or throw. That the wheel is never early and `GetNextOccurrence` is exact are assumptions on the libraries.
* Users, other servers' reassignments, this server's own stop and start, crashes and loads that throw come at any time, `MaxDisturbances` of them.
* `stoped` is tested before the select, so a load may reach the select after a stop: `GetNextJob` allows both.
* A load of the timer is taken to last less than the load interval; a load may be late by any amount, which `calm` records.

### Registry

`own` is `CurrentNodeOnlineUsers` of each server, `known` its `OtherNodeOlineUsers`, `retained`
what each broker retains, `pubs` the lists serialised and not yet at the broker. `link` is the
connection of an executor, `"open"` from the moment the broker accepts it until the executor, told
so, has subscribed (`"up"`): it is listed meanwhile and receives nothing. A list is
serialised in the handler of one connection and published through a client that all
handlers share, so `Publish` takes any of them and an older one may go out last; `newest`
records for the properties whether the latest was overtaken.

| action | code |
|---|---|
| `ClientConnected`, `ClientDisconnected` | the two handlers of `OpenTaskServer` |
| `OtherDisconnected` | the second of them for a client that is in no list, as every peer: the list is published all the same |
| `Subscribe` | `SubscribeAsync` of `TaskWorker` once it is connected, then the publication of its handlers |
| `SyncHandlers` | `SelfSubscriber`, when an executor says what it can run |
| `Publish`, `Receive` | `PublishAsync`; `ClusterSubscriber` and `OnClientsChange` |
| `PublishFails`, `HandlersLost` | `PublishAsync` or `SelfSubscriber` throws, or is not connected to its broker |
| `Disconnect`, `Kill`, `Start` | connections lost, processes that die, the constructor of a server |

Between any two running servers there is a subscription: that peers are found and dropped is
the subject of `Discovery`. A server that dies leaves its list with the others, as the code
does. A subscription is answered as long as the connection stands; one that fails is a connection
lost. `OtherDisconnected`, `PublishFails` and `HandlersLost` count against `MaxFaults`. The
executors are those of one application.

### TaskRun

`TaskRun` extends `Registry` by the dispatches and what follows them; faults of the registry are
steps of both (`KillServer`, `DisconnectWorker` say what else is lost with a process or a
connection).

| state | code |
|---|---|
| `logs` | `ot_task_log`; rows are numbered by their key |
| `call` | local variables of `DispatchAsync`, each call between two of its statements |
| `proxies`, `onjobs`, `results` | messages: to another server, to an executor, to `SelfSubscriber` |
| `todo`, `running` | `todoTasks` of `TaskWorker` and its tasks |
| `rec` | `SelfSubscriber` between `GetTaskById` and `Update` |
| `started`, `answered`, `gone`, `undone` | histories, for the properties |

`AddTask` puts the key of the new row in `TaskId`, where the task's own id was, and the next
insert uses the same object: the second row of a call names the first instead of the task.
`PublishTask` sends to the executor and then marks the row twice, or through the executor's
server and once. A mark (`ReadFlag`, `WriteFlag`) and the record of a result (`ReadTask`,
`Update`) are each a select and an update of all columns, so they may undo each other. `HandlerThrows` is an exception, or a
missing connection, in `SelfSubscriber` (before `GetTaskById`, in it, or in `Update`) or in
`ClusterSubscriber`: the message has been consumed and does not come again. A task published to an
executor that has not subscribed goes to nobody (`Drop`). `Select`
compares `ConnectionId`, which nobody assigns. `UpdateParallelCount` does nothing. A handler is
run once whatever `MaxAttempt` is: the retry policy is synchronous and the handler is not. What a
handler ends with is `Outcomes`.

The run starts where `Registry` gets to when nothing disturbs it (`ConnectedInit`: everybody
connected, all lists spread); the proofs are from the first start on.

### ApiRuntime, ApiModels, ApiClient

What the generated client does, without its text: a call is a request (`FetchParams`, `QueryOf`)
and an `Outcome`. The middleware of `ui/apis/config.ts` rejects every status but 200 with no
reason, before the test of the runtime that would give a `ResponseError`, so a call ends with data, a
`FetchError`, a `SyntaxError`, a `RequiredError` or a rejection with `undefined`. The models
are a table of fields (`Model`); `FromJSON` and `ToJSON` interpret it as the generated functions
spell it out: one operator converts an object, given the conversion of the objects in it, and as models
are nested three deep (an envelope, a result, its rows) it is applied three times. `alarmConf`, which the form has and the model has not, is dropped by
`TaskInfoToJSON` as any field outside the table is. `GetNext5TriggertimesResponse` declares dates
and converts none: in the table they are plain.

### Session

`token` is `tokenAtom` in the local storage, `user` what `currentUserAtom` made of it when it
last changed, `route` the page shown after `AuthRouter`, `busy` the login form's, `call` the
latest call. Tabs share the token (`OtherTab`), and a token that ends within five minutes gives
no user, but only when somebody looks (`Expire`). One call at a time: calls share nothing but
the token. Requests are sent with the token of the moment. `Bodies`, `Values` and `Queries` are
what the server may answer and what pages may send.

### Stepper and TaskPage

`Stepper` is a function of the number of steps done: what each step is told (`Place`), which
fields are open (`Content`), and what is drawn. `TaskPage` keeps the table's key (page, size,
filter), the cache by key, the rows' switches, the form, and the mutations under way; `tasks` is
the server's table, in which a deleted task keeps its id. The server has other callers as well:
another user, another tab or a program adds, switches or deletes tasks (`OthersChange`), and the
page learns of it with the next list it fetches. What they do counts against `MaxClicks`, as the
clicks here do. External are the cache (react-query), the table (tanstack), the dialog
(Radix) and the browser, as the page uses them:

* rows are known by their place, so a switch outlives the task it was made for (`Row`);
* a key that becomes current is fetched unless it is being fetched; an invalidation starts the fetch of the current key again unless it has no data yet (`Invalidated`); `missed` records that a change came too late for a fetch under way;
* the submit of the form in the sheet bubbles to the form of the tool bar and searches (`SubmitSheet`), and so does the button that opens the sheet;
* a view that reads `data!.success` of no data takes the application down (`View = "crash"`).

Simplifications: the count and the rows of `ListJobs` are read at once; rows come by id, as no
order is asked for; the retries of a query are a part of its fetch; the cache is not restored
from a former visit (`PersistQueryClientProvider`); a request that fails in the browser had
been applied before or never is.

## 3. Runs

| run | instance | shows |
|---|---|---|
| `locker` | 3 servers, expiry 2, skew 1, versions to 2, 2 calls cut short | `HoldsUnlessTaken`, `MutexUnlessTaken`, `TakenOnlyWhenExpiredOrReborn`, `OrphanRecovered`, `ImplementsLease` |
| `locker_reset` | as `locker`, clocks that agree | finding: `LostOnlyByOverrun` is violated |
| `slot_table` | up to 4 rows over 11 slots, 3 lapses or returns | `WholeIffPartition`, `ReslotRepairs`, `EventuallyPartition` |
| `discovery` | 2 servers, 6 slots, one exception, one crash with restart | `NeverLeftStopped`, `NeverYounger`, `OneRowEach`, `PartitionKept` |
| `discovery_live` | 2 servers that can beat in time, 4 slots, one crash | `StoppedResumes`, `DeadForgotten`, `Converges` |
| `discovery_pause` | 2 servers | finding: `PeersPause` is violated |
| `scheduling` | period 5, interval and lookahead 3, 3 callbacks, 4 disturbances | `EveryOccurrence`, `NoDuplicate`, `LeftoverOnce`, `NeverForgotten` |
| `registry` | 2 servers with an executor each, 2 faults | `RetainedIsCurrent`, `ListsSpread` |
| `taskrun` | 2 servers with an executor each, 2 rows, one fault, mode sphere | `ResultFromItsExecutor`, `RunsOnce`, `SettledStays`, `EveryRowEnds` |
| `taskrun_taskid` | as `taskrun`, mode alone | finding: `TaskIdIsTheTask` is violated |
| `session` | one tab, every operation with complete answers and those that differ in one place | `Guarded`, `CallFaithful`, `LoginEnds` |
| `task_page` | up to 2 tasks, pages of 1 or 2, 3 clicks, one fault | `OneStepShown`, `SwitchAgrees`, `ListCatchesUp` |

Each passing run but `discovery_live` checks its module's type invariant as well.

**Bounds.** `Locker`: three servers are an owner, one that selected its row and one that
deletes and inserts anew between; two versions and two cut calls let a takeover meet a
re-entered, a taken and a newly inserted row. `SlotTable`: 11 is divided by none of 2, 3, 4
without a remainder (nor is 16384 by 3), and three changes let a server leave and return to a
table that was divided without it. `Discovery`: two servers already give the two-writer
interleavings of full-row updates; six slots are divided by the code into 0..1 and 2..5, the
last server taking what the division leaves over. `discovery_live` has four, 0..0 and 1..3, to
keep the liveness check short. Three servers are more states than a run can
visit; the proofs are for any number. `HeartTimeout` is one or two time units, as
a heartbeat is late or is not. `Scheduling`: 3 does not divide 5, so every alignment of loads
and occurrences comes up; four disturbances are, for example, a stop, a failed load, a
reassignment and a disable. `Registry`: two faults are a connection lost and a server killed
before it noticed, or two lists on their way. `TaskRun`: two rows are the two executors of one
dispatch, one served here and one through the other server, or two dispatches one after the
other; one fault is any one process, connection, message or statement, and one connection lost is
enough for a task to reach its executor between connection and subscription. `Session`: one tab, as the others are
what may happen to the token. `TaskPage`: with two tasks and pages of one or two, rows move from
page to page and place to place; three clicks are, for example, an addition, a filter and a
switch, or a switch here, one by somebody else and a deletion.

**Deadlock** is checked in `locker`, `discovery`, `discovery_live`, `scheduling`, `session` and
the findings about them. It is not checked in `slot_table`, where the servers may rest once the
slots are divided; in `registry` and `taskrun`, where nothing is left to do once all faults are
spent and all messages handled; and in `task_page`, where a page that has crashed, or a user
without clicks, does nothing more. In `Locker` and `Discovery` time can always pass, so that
servers are never stuck waiting is what the liveness properties say, not the deadlock check.

**Fairness.** The timers of a running process fire again and again and statements return, so
the handler of each server (`Handler`), `TryLock`, `ReleaseLocker`, `TimerElapsed`,
`LoadTaskInfos` and the callbacks are weakly fair, as is time. A stopped scheduler is
started: `StoppedResumes`, checked of `Discovery`, is what `Scheduling` assumes with
`WF(server = "stopped" /\ StartDispatch)`. Brokers call their handlers and deliver what they
accepted (`WF(ListStep)`), and calls, executors and subscribers go on (`WF(TaskStep)`); each of
these is finite work on a bounded queue, so one condition for all of it is enough. Requests of the
web interface end, if with a failure (`WF(SomeAnswer)`, `WF(Progress)`). Nothing is assumed to start
a dead process, to reconnect an executor for good, or to make a user click, and crashes,
exceptions and disturbances never have to happen.

**What the liveness properties do not say.** `OrphanRecovered` exempts a row that reached
`MaxVersion`, where the model's bound stops the servers. `Converges` holds of behaviours in which
the servers that run are at last those online, and heartbeats stop undoing reassignments
(`Undo`): the code undoes one only if a heartbeat's select and update fall around it.
`NeverForgotten` holds as long as the server runs, the task is enabled and the slot its own.
`ListsSpread` exempts a server whose latest list was overtaken or never reached the broker: the
others keep the older one until the next change. `EveryRowEnds` names the ways a row stays in
progress for ever: its task or answer was lost (`gone`), because a connection or a process went
with it, the executor had not subscribed yet, or a subscriber or the dispatch threw; a mark
overwrote its result (`undone`); or no executor had the handler. It says that there is no other,
not that these are rare. `LoginEnds` exempts an answer with a status other than 200: `onError`
then throws, and the form stays disabled. `ListCatchesUp` exempts a query that missed a change
(`missed`): one made by somebody else, or made here with its answer lost, after the last fetch had read the list (nothing tells the page), or one
that came during a fetch which could not be started again. It also exempts a page that shows an
error.

## 4. Findings

Three places where the code does something else than the repository says of it; each is a
run whose counterexample shows it.

1. `locker_reset`: versions start at 0 again after a release, so a server that selected an expired row can take over the new lease of another at once (`LockerRepository.cs:71`).
2. `discovery_pause`: the other servers do not pause during a reassignment, as they do not know the topic `stop` (`OpenTaskServer.cs:396`).
3. `taskrun_taskid`: a task that goes to two executors has its second row refer to the first row, not to the task: the object inserted is used again, with the key of the first row in `TaskId` (`TaskLogRepository.cs:35`).

Four more follow from the code as it is modelled, without a run of their own: a task in mode
`alone` goes to every executor, as the executors are compared by a `ConnectionId` that nothing
assigns and is null for all (`TaskDispatcher.cs:121`, against the comment at `:119`); the lock is
granted again within a minute, as every round releases it (`DiscoveryFromDb.cs:238`, against the
comment at `:196`); the next cycle is not inserted after a dispatch, so a period shorter than
15 s misses occurrences (`SchedulingHandler.cs:203`, against `:201`; `EveryOccurrenceCorrect`
needs `LoadInterval <= Period`); and the callback does not read the row again, so a task disabled
after it was loaded is dispatched once more (`SchedulingHandler.cs:191`, against `:179`;
`LeftoverOnce` bounds it to once).

## 5. Proofs

All theorems are for every value of the constants that satisfies the modules' `ASSUME`s.
Type invariants and the theorems below follow one pattern: an inductive invariant, a lemma
that each action keeps it, and `PTL` at the end.

* **LockerProofs.** `TypeCorrect`, `HoldsCorrect`, `MutexCorrect`, `TakeoverCorrect`. "A holder that was not overtaken owns the row" is not inductive by itself: a takeover by version could cost a holder its row without a record. The invariant adds what a server knows of the row it selected: unless the row was deleted since (`reborn`), its version never went back, and while the version is the one selected so is the owner, and the lease has only grown older (`SelectionOK`); and that a server about to take over found a lease expired (`TakeoverOK`). `LeaseImplemented`: from the same invariant, each statement that grants, refuses or releases is the step of `Lease` of that name, and all others are stutters or a lease running out.
* **SlotsProofs.** `CalculateSlotPartitions`: for any finite set of Ids, no larger than the number of slots, `CalculateSlot` gives each slot to exactly one. `CalculateSlotIsWhole`: `IsWholeSlot` accepts the result, so a reassignment never causes another for its own sake. `CalculateSlotSpreads`: shares differ by at most 2n - 1 slots. The argument is that `Rank` is a bijection from the Ids to 1..n and that consecutive shares meet.
* **SlotTableProofs.** `TypeCorrect`; `ReslotRepairsCorrect`, from the theorems of `SlotsProofs`; `WholeCorrect`, when there are two slots for each server (`2 * MaxServers <= TOTAL_SLOT_COUNT`; the code has 16384). `IsWholeSlot` accepts exactly the partitions because no interval of the table is empty, which is the invariant. What it accepts is a partition: the owner of a slot is the first row of the chain that does not end below it (`WholeIsPartition`). Every partition is accepted: its intervals, in the order of their starts, follow one another without a gap (`PartitionIsWhole`). The assumption is needed: with 5 slots, 3 servers divide them as two empty shares and one of all 5; a server that returns with an old share like that may have a good table reassigned for nothing.
* **DiscoveryProofs.** `TypeCorrect`, `OneRowEachCorrect`, `NeverYoungerCorrect`, `NeverLeftStoppedCorrect`, from one inductive invariant. It adds to the three properties that a heartbeat writes its own row, or inserts one where there is none (`CopyOK`); that a selected row is of the server whose row it was and no younger than that server's last heartbeat (`LatestOK`); and that a server about to write has a row left to write (`WriteOK`). `TypeCorrect` uses `SlotsProofs` for the values `CalculateSlot` writes. About the slots, with a second invariant: a row, and every copy of it on its way to the table, has the slots of an insert or its share of some division (`SlotsGivenCorrect`). A step that is neither an `Undo` nor an `OutdatedWrite` keeps the slots of a server online or writes its share of the present division (`KeptOrDivided`); so the division stays, in any cluster (`DivisionKept`), and so does any partition if there are up to three servers and six slots or more (`PartitionKeptCorrect`), because a partition made of what three rows can have is that division (`OnlyDivision`). Both hypotheses are needed: with four servers, however many slots, rows 2 and 3 can hold the second half written for servers 1 and 2 and the first half written for 3 and 4; this is a partition, and a write of the division between 2 and 3 breaks it until its next row.
* **SchedulingProofs.** `TypeCorrect`; `LeftoverOnceCorrect` (`Traced`: whatever is selected or waits in the wheel is of a period in which the task could be loaded, or had been when it began); `EveryOccurrenceCorrect`, when `LoadInterval <= Lookahead` and `LoadInterval <= Period` (`Covered`: the coming occurrence has a timeout, or a load is under way, or the load timer elapses before it); `NoDuplicateCorrect`, when `Lookahead <= LoadInterval` (`Once`: after the load that made the timeout, the load timer does not elapse before the occurrence). Only two equal numbers, as the code has with 15 s and 15 s, give both.
* **TaskRunProofs, the registry.** `RegistryTypeCorrect`, `RetainedCorrect`. That the retained list is the present one is not inductive: the invariant adds that while the latest list is still to be published it is the last of those waiting and the present one (`LatestSaysOwn`).
* **TaskRunProofs.** `TaskTypeCorrect`, `ResultsAuthentic`, `StartedOnce`, `SettledKept`, from one invariant over that of the registry. A row exists before anything names it (`RowsExist`); a call past `AddTask` has a row of its own (`CallsOK`); until a row is started it is named in exactly one place, and there with its executor (`NamedOnce`), so it is started once; what runs and what is answered is of the row's executor (`AnswersOK`); what was read of a row and is about to be written back differs from the row at most in status and result (`ReadsOK`).
* **SessionProofs.** `SessionTypeCorrect`, `GuardedCorrect` and `CallFaithfulCorrect`, for any bodies, values and queries of the models' shapes. `Guarded` is inductive with the types: every step that changes the token or the user shows a route through the guard again (`Show`). `CallFaithful` is a fact about the conversions: what is converted, sent and read again is what was meant, shown for a model whose fields are plain, then for one whose fields are such models, then for an envelope of these (`Flat`, `Shallow`). It assumes of JavaScript that `null` and `undefined` differ and are no objects (`Separate`), and of the client's table that models are not nested deeper, which is computed from the table.
* **TaskPageProofs.** `PageTypeCorrect`, `SwitchAgreesCorrect`, `OneStepShownCorrect`, from one invariant. `SwitchAgrees` alone is not inductive: the page draws its switches from lists that were read before, and answers toggle what is shown. The invariant adds that a row which has not strayed has at most one mutation of its task under way, that it is the row of that mutation, and that the server has what the row shows, or what was asked for once it was applied, of a task that still exists (`RowAgrees`); that the list shown has different tasks of the server in its places (`IsList`, `RowsOK`), which `ListJobs` gives by a count of the ids below (`Rank`); and that the table, while it is shown, has a row for each place of that list (`Current`). Every action that draws the page anew is shown to draw from rows and mutations that agree (`DrawingKeeps`), and what others do to a task strays the row that shows it and no other (`OthersChangeKeeps`). The five causes for a switch to stray are named at `SwitchAgrees`: its row was given another task, it was drawn from an outdated list, it was used again before the list was up to date, its change was made and the answer lost, or somebody else switched or deleted the task. In the code all of them leave it wrong until it is made anew, as it copies `enabled` once. For `OneStepShown`: the form is always at one of its three steps, since the first has no way back, the last none forward, and everything else that redraws the page leaves the form or closes it; at a step, that step is shown, in both orientations (`StepShown`).

**Model-checked only.** Every invariant and action property of the passing runs is stated by a
theorem. Liveness (`OrphanRecovered`, `StoppedResumes`, `DeadForgotten`,
`Converges`, `EventuallyPartition`, `NeverForgotten`, `ListsSpread`, `EveryRowEnds`, `LoginEnds`,
`ListCatchesUp`) is out of the prover's reach, as are fairness and `ENABLED`. Of `PartitionKept`
the theorem has the hypotheses named above; with four servers it does not hold.

## 6. Not modelled, and what is left

Not modelled: the web API and users, organisations, projects, the dashboard and migrations
(single-row create and list operations, generated code); the sample client; the pages of the web
interface that show one query, toasts, menus and the other presentation; and the libraries
(MQTTnet, the timing wheel, the cron parser, react-query, tanstack table, Radix), which appear as
far as the use of them shows. Partly modelled: the scheduler has one task, so that a load ends at
the first task it cannot parse is a disturbance and not a statement about the tasks behind
it; `AddJob` computes the slot from an id that is still 0, so all new tasks share one slot, which is a
hazard no property states; the subscriber that reconnects is a subscription that exists.

Left for later, in this order: the scheduler with several tasks and two servers that take a task
from each other; the safety parts of the liveness arguments (what each round of
`Converges` and each pass of `NeverForgotten` achieves) as theorems.
