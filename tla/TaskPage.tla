------------------------------ MODULE TaskPage ------------------------------
(***************************************************************************)
(* The page of the tasks: the table with its pages and its filter, the     *)
(* switch in each row, the form that adds a task, and between them and the *)
(* server the cache of queries and the mutations under way.  The server    *)
(* has other callers too, who change tasks and tell this page nothing.     *)
(*                                                                         *)
(* External, as the page uses them: the cache (react-query 5: a key that   *)
(* becomes current is fetched unless a fetch of it is under way; an        *)
(* invalidation fetches the current key again; the data of the former key  *)
(* stand in for those not yet there; the retries of a fetch are part of    *)
(* it), the table (a row is known by its place on the page), the browser.  *)
(***************************************************************************)
EXTENDS ApiRuntime, Stepper, SequencesExt

CONSTANTS
  Starts,       \* the lists of tasks there may be at first
  MaxTasks,     \* bound: tasks
  Sizes,        \* page sizes on offer
  InitialSize,  \* and the one at first
  MaxClicks,    \* bound: clicks that send something, here or elsewhere
  MaxFaults,    \* bound: requests that fail or are refused
  NoKey, NoData, Refused

\* A task that was deleted keeps its id.
Tasks == [there : BOOLEAN, match : BOOLEAN, enabled : BOOLEAN]
NewTask(match) == [there |-> TRUE, match |-> match, enabled |-> TRUE]

ASSUME TaskPageAssumption ==
  /\ MaxTasks \in Nat \ {0}
  /\ \A start \in Starts : start \in Seq(Tasks) /\ Len(start) <= MaxTasks
  /\ Sizes \subseteq Nat \ {0}
  /\ InitialSize \in Sizes

VARIABLES
  tasks,   \* of the server: [there, match, enabled] by id, match if the name is one filtered for
  table,   \* the key of the query: page, page size and filter
  cache,   \* the query of each key
  last,    \* the key whose data were shown last
  box,     \* what the filter box says
  rows,    \* of the page shown: [id, open, strayed], strayed is explained at SwitchAgrees
  sheet,   \* the form: [open, step, valid, loading]
  posts,   \* mutations under way
  clicks, faults

pageVars == <<tasks, table, cache, last, box, rows, sheet, posts, clicks, faults>>

Filters == {"", "name"}
Keys == [index : 0..MaxTasks - 1, size : Sizes, filter : Filters]
Closed == [open |-> FALSE, step |-> ResetSteps, valid |-> FALSE, loading |-> FALSE]

\* The steps of the form.
steps == [steps |-> [i \in 1..3 |-> [icon |-> FALSE]], variant |-> "circle-alt",
          orientation |-> "horizontal", responsive |-> TRUE, state |-> "none", keepError |-> FALSE,
          expand |-> FALSE]

\* Types.  Every row shown is of a task, the form is at one of its steps, at the first when
\* it is closed, and no switch under way belongs to a row that is gone.
PageTypeOK ==
  /\ table \in Keys
  /\ last \in Keys \cup {NoKey}
  /\ box \in Filters
  /\ \A k \in Keys : cache[k].fetch \in {"idle", "sent", "read"} /\ cache[k].error \in {"none", "Error", "undefined"}
  /\ \A i \in DOMAIN rows : rows[i].id \in DOMAIN tasks
  /\ sheet.step \in 0..Len(steps.steps) - 1
  /\ ~sheet.open => sheet.step = InitialStep
  /\ \A j \in DOMAIN posts : posts[j].row # 0 => posts[j].kind = "add" \/ posts[j].row \in DOMAIN rows

-----------------------------------------------------------------------------
\* The place of a row in the list that has the rows ids.
Rank(ids, id) == Cardinality({j \in ids : j <= id})

\* ListJobs: a page of the tasks with the name asked for.  No order is asked for;
\* rows come by id.
ListJobs(k) ==
  LET ids == {i \in DOMAIN tasks : tasks[i].there /\ (k.filter = "" \/ tasks[i].match)}
      from == k.index * k.size
      nth(n) == CHOOSE id \in ids : Rank(ids, id) = n
  IN [rows |-> [i \in {n \in 1..k.size : from + n <= Cardinality(ids)} |->
                  [id |-> nth(from + i), enabled |-> tasks[nth(from + i)].enabled]],
      total |-> Cardinality(ids)]

\* The data on the page: those of the key, or meanwhile the former ones.
Displayed ==
  IF cache[table].data = NoData /\ cache[table].error = "none" /\ last # NoKey THEN cache[last].data
  ELSE cache[table].data

\* TaskInfos: only an Error is shown as one.  A request rejected with undefined leaves
\* neither an error nor data, and data!.success fails: the application is gone.
View ==
  CASE cache[table].error = "Error" -> "message"
    [] cache[table].error # "Error" /\ Displayed = NoData ->
         IF cache[table].error = "none" THEN "loading" ELSE "crash"
    [] OTHER -> IF Displayed = Refused THEN "message" ELSE "table"

Started(e) ==
  [e EXCEPT !.fetch = "sent", !.read = NoData, !.missed = FALSE, !.error = IF e.data = NoData THEN "none" ELSE @]

Fetched(c, k) == IF c[k].fetch = "idle" THEN [c EXCEPT ![k] = Started(@)] ELSE c

\* Mutant: the key given is that of no query.
Invalidated_None == cache

\* queryClient.invalidateQueries: the current query is fetched again, unless it has no
\* data and is being fetched.  An answer already on its way misses what has changed.
Invalidated ==
  [k \in Keys |->
    IF k = table /\ View # "crash" /\ ~(cache[k].data = NoData /\ cache[k].fetch # "idle") THEN Started(cache[k])
    ELSE [cache[k] EXCEPT !.missed = @ \/ (cache[k].fetch = "read" /\ cache[k].read # ListJobs(k))]]

\* A row of the table is kept when a row in its place was there before: the switch in it
\* keeps its state and is told another task.
Row(rs, i, shown, ps) ==
  IF i \in DOMAIN rs
  THEN [rs[i] EXCEPT !.id = shown.id, !.strayed = @ \/ rs[i].id # shown.id]
  ELSE [id |-> shown.id, open |-> shown.enabled,
        strayed |-> \/ ~tasks'[shown.id].there
                    \/ tasks'[shown.id].enabled # shown.enabled
                    \/ \E j \in DOMAIN ps : ps[j].kind = "switch" /\ ps[j].id = shown.id]

Orphans(ps, rs) ==
  [j \in DOMAIN ps |->
     IF View' # "table" \/ (ps[j].kind = "switch" /\ ps[j].row \notin DOMAIN rs) THEN [ps[j] EXCEPT !.row = 0]
     ELSE ps[j]]

\* The page is drawn anew.  What the table, its tool bar and the form keep goes with them.
Drawing(former, b, rs, s, ps) ==
  /\ last' = IF cache'[table'].data = NoData THEN former ELSE table'
  /\ rows' = IF View' = "table" THEN [i \in DOMAIN Displayed'.rows |-> Row(rs, i, Displayed'.rows[i], ps)]
             ELSE <<>>
  /\ box' = IF View' = "table" THEN b ELSE table'.filter
  /\ sheet' = IF View' = "table" THEN s ELSE Closed
  /\ posts' = Orphans(ps, rows')

PageInit ==
  /\ tasks \in Starts
  /\ table = [index |-> 0, size |-> InitialSize, filter |-> ""]
  /\ cache = [k \in Keys |-> [data |-> NoData, error |-> "none", read |-> NoData, missed |-> FALSE,
                              fetch |-> IF k = table THEN "sent" ELSE "idle"]]
  /\ last = NoKey /\ box = "" /\ rows = <<>> /\ sheet = Closed /\ posts = <<>>
  /\ clicks = 0 /\ faults = 0

-----------------------------------------------------------------------------
Click == clicks < MaxClicks /\ clicks' = clicks + 1 /\ UNCHANGED <<tasks, faults>>
OnPage == View = "table" /\ ~sheet.open

\* The key changes, or not, after the cache became c.
GoTo(t, c) == table' = t /\ cache' = IF t = table THEN c ELSE Fetched(c, t)

\* onSubmit of the tool bar.
SubmitTable == GoTo([table EXCEPT !.index = 0, !.filter = box], Invalidated)

TypeName(b) ==
  /\ OnPage
  /\ box' = b
  /\ UNCHANGED <<tasks, table, cache, last, rows, sheet, posts, clicks, faults>>

Search == OnPage /\ Click /\ SubmitTable /\ Drawing(last, box, rows, sheet, posts)

\* The page is kept.
Reset ==
  /\ OnPage /\ table.filter # ""
  /\ Click
  /\ GoTo([table EXCEPT !.filter = ""], cache)
  /\ Drawing(last, "", rows, sheet, posts)

PageCount == (Displayed.total + table.size - 1) \div table.size

Page(i) ==
  /\ OnPage
  /\ \/ table.index > 0 /\ i \in {0, table.index - 1}
     \/ table.index < PageCount - 1 /\ i \in {table.index + 1, PageCount - 1}
  /\ Click
  /\ GoTo([table EXCEPT !.index = i], cache)
  /\ Drawing(last, box, rows, sheet, posts)

PageSize(n) ==
  /\ OnPage
  /\ Click
  /\ GoTo([table EXCEPT !.index = (table.index * table.size) \div n, !.size = n], cache)
  /\ Drawing(last, box, rows, sheet, posts)

\* The window gets the focus.
Focus ==
  /\ View # "crash"
  /\ Click
  /\ GoTo(table, Fetched(cache, table))
  /\ Drawing(last, box, rows, sheet, posts)

\* The page is left and visited again.
Revisit ==
  /\ View # "crash" /\ ~sheet.open
  /\ Click
  /\ table' = [index |-> 0, size |-> InitialSize, filter |-> ""]
  /\ cache' = Fetched(cache, table')
  /\ Drawing(NoKey, "", <<>>, Closed, [j \in DOMAIN posts |-> [posts[j] EXCEPT !.row = 0]])

-----------------------------------------------------------------------------
\* The button that opens the form stands in the form of the tool bar and submits it.
OpenSheet ==
  /\ OnPage
  /\ Click
  /\ SubmitTable
  /\ Drawing(last, box, rows, [sheet EXCEPT !.open = TRUE], posts)

CloseSheet ==
  /\ sheet.open
  /\ sheet' = [sheet EXCEPT !.open = FALSE, !.step = ResetSteps]
  /\ UNCHANGED <<tasks, table, cache, last, box, rows, posts, clicks, faults>>

\* The fields are filled in, well or not, and the buttons of StepButtons are used.
Fill(valid) ==
  /\ sheet.open
  /\ sheet' = [sheet EXCEPT !.valid = valid]
  /\ UNCHANGED <<tasks, table, cache, last, box, rows, posts, clicks, faults>>

StepButtons ==
  /\ sheet.open
  /\ \/ ~IsDisabledStep(sheet.step) /\ sheet' = [sheet EXCEPT !.step = PrevStep(@)]
     \/ ~IsLastStep(steps, sheet.step) /\ sheet' = [sheet EXCEPT !.step = NextStep(@)]
  /\ UNCHANGED <<tasks, table, cache, last, box, rows, posts, clicks, faults>>

Adding == Cardinality({j \in DOMAIN posts : posts[j].kind = "add" /\ posts[j].at = "sent"})

\* The submit of the form bubbles through the portal to the form of the tool bar.
\* Nothing keeps a form that is being sent from being sent again.
SubmitSheet(match) ==
  /\ sheet.open /\ IsLastStep(steps, sheet.step)
  /\ sheet.valid => Len(tasks) + Adding < MaxTasks
  /\ Click
  /\ SubmitTable
  /\ \/ ~sheet.valid /\ Drawing(last, box, rows, sheet, posts)
     \/ /\ sheet.valid
        /\ Drawing(last, box, rows, [sheet EXCEPT !.loading = TRUE],
                   Append(posts, [kind |-> "add", id |-> 0, match |-> match, to |-> TRUE, row |-> 1,
                                  sees |-> "latest", at |-> "sent"]))

\* SwitchEnable: what is sent depends on the list and what is shown on the state of the
\* switch.  A mutation that is no longer the latest keeps what its onSuccess saw then.
Switch(i) ==
  /\ OnPage /\ i \in DOMAIN rows
  /\ Click
  /\ LET enabled == Displayed.rows[i].enabled
         earlier == {j \in DOMAIN posts : posts[j].kind = "switch" /\ posts[j].row = i}
     IN /\ rows' = [rows EXCEPT ![i].strayed = @ \/ earlier # {} \/ rows[i].open # enabled]
        /\ posts' = Append([j \in DOMAIN posts |->
                               IF j \in earlier /\ posts[j].sees = "latest"
                               THEN [posts[j] EXCEPT !.sees = IF rows[i].open THEN "on" ELSE "off"]
                               ELSE posts[j]],
                             [kind |-> "switch", id |-> rows[i].id, match |-> FALSE, to |-> ~enabled, row |-> i,
                              sees |-> "latest", at |-> "sent"])
  /\ UNCHANGED <<table, cache, last, box, sheet>>

-----------------------------------------------------------------------------
\* The server: a query is answered, a task added (AddJob) or switched
\* (SwitchEnabledStatus, which is content with a task that is gone), or the request
\* is refused.
Serve(k) ==
  /\ cache[k].fetch = "sent"
  /\ \/ cache' = [cache EXCEPT ![k].fetch = "read", ![k].read = ListJobs(k)] /\ UNCHANGED faults
     \/ /\ faults < MaxFaults /\ faults' = faults + 1
        /\ cache' = [cache EXCEPT ![k].fetch = "read", ![k].read = Refused]
  /\ UNCHANGED <<tasks, table, last, box, rows, sheet, posts, clicks>>

Apply(j) ==
  /\ posts[j].at = "sent"
  /\ tasks' = IF posts[j].kind = "add" THEN Append(tasks, NewTask(posts[j].match))
              ELSE [tasks EXCEPT ![posts[j].id].enabled = IF tasks[posts[j].id].there THEN posts[j].to ELSE @]
  /\ posts' = [posts EXCEPT ![j].at = "applied"]
  /\ UNCHANGED <<table, cache, last, box, rows, sheet, clicks, faults>>

Refuse(j) ==
  /\ posts[j].at = "sent"
  /\ faults < MaxFaults /\ faults' = faults + 1
  /\ posts' = [posts EXCEPT ![j].at = "refused"]
  /\ UNCHANGED <<tasks, table, cache, last, box, rows, sheet, clicks>>

\* Another user, tab or program has the server add a task, switch one or delete one
\* (DelJob).  The page learns of it with the next list it fetches.
OthersChange(id) ==
  /\ clicks < MaxClicks /\ clicks' = clicks + 1
  /\ \/ /\ id = 0 /\ Len(tasks) + Adding < MaxTasks
        /\ \E match \in BOOLEAN : tasks' = Append(tasks, NewTask(match))
     \/ /\ id \in DOMAIN tasks /\ tasks[id].there
        /\ \/ tasks' = [tasks EXCEPT ![id].enabled = ~@]
           \/ tasks' = [tasks EXCEPT ![id].there = FALSE]
  /\ cache' = [k \in Keys |->
       [cache[k] EXCEPT !.missed = @ \/ (cache[k].fetch # "sent" /\ ListJobs(k)' # ListJobs(k))]]
  /\ rows' = [i \in DOMAIN rows |-> [rows[i] EXCEPT !.strayed = @ \/ rows[i].id = id]]
  /\ UNCHANGED <<table, last, box, sheet, posts, faults>>

\* The data of a key arrive.
QueryDone(k) ==
  /\ cache[k].fetch = "read"
  /\ cache' = [cache EXCEPT ![k] = [@ EXCEPT !.data = cache[k].read, !.error = "none", !.fetch = "idle", !.read = NoData]]
  /\ UNCHANGED <<tasks, table, clicks, faults>>
  /\ Drawing(last, box, rows, sheet, posts)

Failures == {Outcome(answer) : answer \in Answers} \ {"data"}

\* The query of a key fails, after its retries.  Data it had are kept.
QueryFailed(k, outcome) ==
  /\ cache[k].fetch # "idle"
  /\ faults < MaxFaults /\ faults' = faults + 1
  /\ cache' = [cache EXCEPT ![k].error = IF IsError(outcome) THEN "Error" ELSE "undefined",
                            ![k].fetch = "idle", ![k].read = NoData]
  /\ UNCHANGED <<tasks, table, clicks>>
  /\ Drawing(last, box, rows, sheet, posts)

\* setOpen(!open), of the open onSuccess saw.
Toggled(p) ==
  [i \in DOMAIN rows |->
     IF p.kind = "switch" /\ p.row = i
     THEN [rows[i] EXCEPT !.open = CASE p.sees = "latest" -> ~@ [] p.sees = "on" -> FALSE [] OTHER -> TRUE]
     ELSE rows[i]]

\* Mutant: any answer is taken for a success.
Success_Any(p) == p.at \in {"applied", "refused"}

\* data.success
Success(p) == p.at = "applied"

\* onSuccess and onSettled of a mutation: an answer that refuses is only told.  They run
\* even when what sent it is gone, and the form is closed though it was opened again.
PostDone(j) ==
  LET p == posts[j]
      settled == IF p.kind = "add" /\ p.row # 0 THEN [sheet EXCEPT !.loading = FALSE] ELSE sheet
      closed == IF p.kind = "add" /\ p.row # 0 THEN [settled EXCEPT !.open = FALSE, !.step = ResetSteps] ELSE settled
  IN /\ p.at # "sent"
     /\ UNCHANGED <<tasks, table, clicks, faults>>
     /\ \/ Success(p) /\ cache' = Invalidated /\ Drawing(last, box, Toggled(p), closed, RemoveAt(posts, j))
        \/ ~Success(p) /\ cache' = cache /\ Drawing(last, box, rows, settled, RemoveAt(posts, j))

\* A mutation fails, done or not: nothing is fetched again, and the form may wait for ever.
PostFailed(j, outcome) ==
  LET p == posts[j] IN
    /\ faults < MaxFaults /\ faults' = faults + 1
    /\ UNCHANGED <<tasks, table, clicks>>
    /\ cache' = [k \in Keys |-> [cache[k] EXCEPT !.missed = @ \/ (p.at = "applied" /\ cache[k].fetch # "sent")]]
    /\ Drawing(last, box,
               [i \in DOMAIN rows |->
                  [rows[i] EXCEPT !.strayed = @ \/ (p.at = "applied" /\ p.kind = "switch" /\ p.row = i)]],
               IF p.kind = "add" /\ p.row # 0 /\ SettlesAfter(outcome) THEN [sheet EXCEPT !.loading = FALSE] ELSE sheet,
               RemoveAt(posts, j))

Progress ==
  \/ \E k \in Keys : Serve(k) \/ QueryDone(k) \/ \E outcome \in Failures : QueryFailed(k, outcome)
  \/ \E j \in DOMAIN posts :
       Apply(j) \/ Refuse(j) \/ PostDone(j) \/ \E outcome \in Failures : PostFailed(j, outcome)

PageNext ==
  \/ \E b \in Filters : TypeName(b)
  \/ Search \/ Reset \/ Focus \/ Revisit \/ OpenSheet \/ CloseSheet \/ StepButtons
  \/ \E i \in 0..MaxTasks - 1 : Page(i)
  \/ \E n \in Sizes : PageSize(n)
  \/ \E b \in BOOLEAN : Fill(b) \/ SubmitSheet(b)
  \/ \E i \in 1..MaxTasks : Switch(i)
  \/ \E id \in 0..MaxTasks : OthersChange(id)
  \/ Progress

PageSpec == PageInit /\ [][PageNext]_pageVars

\* Every request ends.
FairPageSpec == PageSpec /\ WF_pageVars(Progress)

-----------------------------------------------------------------------------
\* The form shows the fields of one step, in a wide window and in a narrow one: the step
\* marked as the current one, after those that are checked; and it can be sent from
\* the last step and from no other.
OneStepShown ==
  sheet.open => \A narrow \in BOOLEAN :
    /\ Cardinality(Content(steps, narrow, sheet.step)) = 1
    /\ \A i \in Content(steps, narrow, sheet.step) :
         /\ \A b \in Button(steps, narrow, sheet.step, i) : b.current /\ ~b.active /\ b.icon = "number"
         /\ \A h \in 1..i - 1 : \A b \in Button(steps, narrow, sheet.step, h) : b.active /\ b.icon = "check"
         /\ \A h \in i + 1..Len(steps.steps) :
              Label(steps, sheet.step, h).faded /\ ~Drawn(steps, narrow, sheet.step, h).active
         /\ IsLastStep(steps, sheet.step) <=> i = Len(steps.steps)

\* A switch with nothing under way shows what the server has of its task, whatever was
\* refused and whatever was fetched meanwhile, unless it strayed: it was handed another
\* task when rows moved, was drawn from a list already out of date, was used again before
\* the list was up to date, the answer to what it did was lost, or somebody else switched
\* or deleted the task.
SwitchAgrees ==
  \A i \in DOMAIN rows :
    \/ rows[i].strayed
    \/ tasks[rows[i].id].there /\ rows[i].open = tasks[rows[i].id].enabled
    \/ \E j \in DOMAIN posts : posts[j].kind = "switch" /\ posts[j].id = rows[i].id

\* In the end the table shows the tasks the server has, unless no fetch was begun since
\* somebody else changed them or a change was made here and its answer lost, or the one
\* shown was under way at a change and could not be started again.
ListCatchesUp ==
  <>[](View = "table" /\ cache[table].error = "none" /\ ~cache[table].missed => Displayed = ListJobs(table))
=============================================================================
