--------------------------- MODULE TaskPageProofs ---------------------------
(***************************************************************************)
(* Proofs about TaskPage for every list of tasks, any page sizes and any   *)
(* number of clicks, changes made elsewhere, refusals and failures.  The   *)
(* invariant is PageInv: the queries hold lists of tasks the server has or *)
(* had, there is a row for each place of the list shown, and a row that    *)
(* has not strayed agrees with the mutations of its switch (RowAgrees).    *)
(* What draws the page anew keeps it (DrawingKeeps); each action is shown  *)
(* to draw from rows and mutations that agree, or to change the tasks of   *)
(* no row but those that stray by it.                                      *)
(***************************************************************************)
EXTENDS TaskPage, FiniteSetTheorems, SequenceTheorems, TLAPS

\* The form is at one of its steps, and at the first when it is closed.
Sheets ==
  {s \in [open : BOOLEAN, step : 0..2, valid : BOOLEAN, loading : BOOLEAN] : ~s.open => s.step = InitialStep}

SheetOK == sheet \in Sheets

-----------------------------------------------------------------------------
\* Data of a query: rows of different tasks, with the state of their switches.
IsList(l, ids) ==
  /\ DOMAIN l.rows \subseteq Nat \ {0}
  /\ l.total \in 0..MaxTasks
  /\ \A i \in DOMAIN l.rows : l.rows[i].id \in ids /\ l.rows[i].enabled \in BOOLEAN
  /\ \A i, j \in DOMAIN l.rows : l.rows[i].id = l.rows[j].id => i = j

Sound(data, ids) == data \in {NoData, Refused} \/ IsList(data, ids)

QueryOK(q, ids) ==
  /\ q = [data |-> q.data, error |-> q.error, read |-> q.read, missed |-> q.missed, fetch |-> q.fetch]
  /\ Sound(q.data, ids) /\ Sound(q.read, ids)
  /\ q.fetch \in {"idle", "sent", "read"}
  /\ q.error \in {"none", "Error", "undefined"}

CacheOK(c, ids) == c = [k \in Keys |-> c[k]] /\ \A k \in Keys : QueryOK(c[k], ids)

\* Rows of the table, of different tasks.
RowsOK(rs, ids) ==
  /\ DOMAIN rs \subseteq Nat \ {0}
  /\ \A i \in DOMAIN rs : rs[i] \in [id : ids, open : BOOLEAN, strayed : BOOLEAN]
  /\ \A i, j \in DOMAIN rs : rs[i].id = rs[j].id => i = j

Posts ==
  [kind : {"add", "switch"}, id : Nat, match : BOOLEAN, to : BOOLEAN, row : Nat, sees : {"latest", "on", "off"},
   at : {"sent", "applied", "refused"}]

\* Mutations under way.  The row of a switch, if it is not gone, is there.
PostsOK(ps, rs) ==
  /\ ps \in Seq(Posts)
  /\ \A j \in DOMAIN ps : ps[j].kind = "switch" => ps[j].row \in {0} \cup DOMAIN rs

Switching(ps, id) == {j \in DOMAIN ps : ps[j].kind = "switch" /\ ps[j].id = id}

\* A row that has not strayed is of a task there is and its switch sends for, has one mutation of it
\* under way at most, and shows what the server has, or had before that one was applied.
RowAgrees(row, i, ps, ts) ==
  /\ ts[row.id].there
  /\ \A j \in DOMAIN ps : ps[j].kind = "switch" => (ps[j].row = i <=> ps[j].id = row.id)
  /\ \A j, l \in Switching(ps, row.id) : j = l
  /\ \A j \in Switching(ps, row.id) :
       /\ ps[j].sees = "latest" /\ ps[j].to = ~row.open
       /\ ts[row.id].enabled = IF ps[j].at = "applied" THEN ps[j].to ELSE row.open
  /\ Switching(ps, row.id) = {} => ts[row.id].enabled = row.open

Agree(rs, ps, ts) == \A i \in DOMAIN rs : ~rs[i].strayed => RowAgrees(rs[i], i, ps, ts)

\* Tasks being added.
Sending(ps) == {j \in DOMAIN ps : ps[j].kind = "add" /\ ps[j].at = "sent"}

-----------------------------------------------------------------------------
\* Ranks count the tasks of a list from 1, in their order, without gaps.
LEMMA RankFacts ==
  ASSUME NEW ids \in SUBSET Nat, IsFiniteSet(ids)
  PROVE  /\ Cardinality(ids) \in Nat
         /\ \A a \in ids : Rank(ids, a) \in 1..Cardinality(ids)
         /\ \A a, b \in ids : a < b => Rank(ids, a) < Rank(ids, b)
<1> DEFINE below(a) == {j \in ids : j <= a}
<1>1. Cardinality(ids) \in Nat
  BY FS_CardinalityType
<1>2. \A a \in ids : /\ IsFiniteSet(below(a))
                     /\ Cardinality(below(a)) \in Nat
                     /\ Cardinality(below(a)) <= Cardinality(ids)
  BY FS_Subset, FS_CardinalityType
<1>3. ASSUME NEW a \in ids
      PROVE  Cardinality(below(a)) # 0
  <2>1. a \in below(a)
    OBVIOUS
  <2> QED
    BY <1>2, <2>1, FS_EmptySet
<1>4. ASSUME NEW a \in ids, NEW b \in ids, a < b
      PROVE  Cardinality(below(a)) < Cardinality(below(b))
  <2>1. below(a) \in SUBSET below(b) /\ b \in below(b) /\ b \notin below(a)
    <3>1. a \in Nat /\ b \in Nat /\ \A j \in ids : j \in Nat
      OBVIOUS
    <3>2. \A j \in ids : j <= a => j <= b
      BY <1>4, <3>1
    <3>3. ~(b <= a) /\ b <= b
      BY <1>4, <3>1
    <3> QED
      BY <3>2, <3>3
  <2>2. /\ Cardinality(below(a)) <= Cardinality(below(b))
        /\ Cardinality(below(a)) # Cardinality(below(b))
    <3>1. IsFiniteSet(below(b))
      BY <1>2
    <3>2. below(a) # below(b)
      BY <2>1
    <3> HIDE DEF below
    <3> QED
      BY <2>1, <3>1, <3>2, FS_Subset
  <2> QED
    BY <1>2, <2>2
<1> QED
  BY <1>1, <1>2, <1>3, <1>4 DEF Rank

LEMMA RankOnto ==
  ASSUME NEW ids \in SUBSET Nat, IsFiniteSet(ids), NEW k \in 1..Cardinality(ids)
  PROVE  \E id \in ids : Rank(ids, id) = k
<1> DEFINE f == [id \in ids |-> Rank(ids, id)]
           n == Cardinality(ids)
<1>1. f \in [ids -> 1..n]
  BY RankFacts
<1>2. ASSUME NEW a \in ids, NEW b \in ids, f[a] = f[b]
      PROVE  a = b
  <2>1. ~(a < b) /\ ~(b < a)
    BY <1>2, RankFacts
  <2> QED
    BY <2>1
<1>3. f \in Injection(ids, 1..n)
  BY <1>1, <1>2 DEF Injection, IsInjective
<1>4. n \in Nat /\ IsFiniteSet(1..n) /\ Cardinality(1..n) = n
  BY RankFacts, FS_Interval
<1>5. f \in Surjection(ids, 1..n)
  BY <1>3, <1>4, FS_Injection
<1> QED
  BY <1>5 DEF Surjection

\* The numbers of a key.
LEMMA KeyFacts ==
  ASSUME NEW k \in Keys
  PROVE  /\ k.index \in Nat /\ k.index < MaxTasks /\ k.size \in Nat \ {0} /\ k.size \in Sizes
         /\ k.filter \in Filters
         /\ k = [index |-> k.index, size |-> k.size, filter |-> k.filter]
<1>1. MaxTasks \in Nat \ {0} /\ Sizes \subseteq Nat \ {0}
  BY TaskPageAssumption
<1>2. k.index \in 0..MaxTasks - 1 /\ k.size \in Sizes /\ k.filter \in Filters
  BY DEF Keys
<1>3. k = [index |-> k.index, size |-> k.size, filter |-> k.filter]
  BY DEF Keys
<1> QED
  BY <1>1, <1>2, <1>3

\* What the server answers is a list of tasks it has.
LEMMA AnswerIsList ==
  ASSUME tasks \in Seq(Tasks), Len(tasks) <= MaxTasks, NEW k \in Keys
  PROVE  IsList(ListJobs(k), DOMAIN tasks)
<1> DEFINE ids == {i \in DOMAIN tasks : tasks[i].there /\ (k.filter = "" \/ tasks[i].match)}
           nth(n) == CHOOSE id \in ids : Rank(ids, id) = n
           from == k.index * k.size
           places == {n \in 1..k.size : from + n <= Cardinality(ids)}
<1>1. /\ DOMAIN tasks = 1..Len(tasks) /\ Len(tasks) \in Nat
      /\ \A i \in DOMAIN tasks : tasks[i].enabled \in BOOLEAN
  <2>1. tasks \in [1..Len(tasks) -> Tasks] /\ Len(tasks) \in Nat
    BY LenProperties
  <2>2. \A t \in Tasks : t.enabled \in BOOLEAN
    BY DEF Tasks
  <2> QED
    BY <2>1, <2>2
<1>2. /\ IsFiniteSet(ids) /\ ids \in SUBSET Nat
      /\ Cardinality(ids) \in 0..MaxTasks
  <2>1. IsFiniteSet(1..Len(tasks)) /\ Cardinality(1..Len(tasks)) = Len(tasks)
    <3>1. \A n \in Nat : IsFiniteSet(1..n) /\ Cardinality(1..n) = n
      BY FS_Interval
    <3> QED
      BY <1>1, <3>1
  <2>2. ids \in SUBSET (1..Len(tasks))
    BY <1>1
  <2>3. IsFiniteSet(ids) /\ Cardinality(ids) <= Len(tasks)
    <3> HIDE DEF ids
    <3> QED
      BY <2>1, <2>2, FS_Subset
  <2>4. Cardinality(ids) \in Nat
    BY <2>3, FS_CardinalityType
  <2>5. ids \in SUBSET Nat
    <3>1. 1..Len(tasks) \in SUBSET Nat
      BY <1>1
    <3> HIDE DEF ids
    <3> QED
      BY <2>2, <3>1
  <2> HIDE DEF ids
  <2> QED
    BY <1>1, <2>3, <2>4, <2>5, TaskPageAssumption
<1>3. from \in Nat /\ k.size \in Nat
  <2>1. k.index \in Nat /\ k.size \in Nat
    BY KeyFacts
  <2> QED
    BY <2>1
<1>0. \A i \in places : i \in 1..k.size /\ i \in Nat /\ from + i <= Cardinality(ids)
  <2> HIDE DEF ids, from
  <2> QED
    BY <1>3
<1>4. /\ ListJobs(k).total = Cardinality(ids)
      /\ DOMAIN ListJobs(k).rows = places
      /\ \A i \in places : /\ ListJobs(k).rows[i].id = nth(from + i)
                           /\ ListJobs(k).rows[i].enabled = tasks[nth(from + i)].enabled
  BY DEF ListJobs
<1>5. ASSUME NEW i \in places
      PROVE  nth(from + i) \in ids /\ Rank(ids, nth(from + i)) = from + i
  <2>1. from + i \in 1..Cardinality(ids)
    <3>1. i \in 1..k.size /\ from + i <= Cardinality(ids) /\ Cardinality(ids) \in Nat
      <4> HIDE DEF ids, from, places
      <4> QED
        BY <1>0, <1>2
    <3> HIDE DEF ids, from, places
    <3> QED
      BY <1>3, <3>1
  <2>2. \E id \in ids : Rank(ids, id) = from + i
    <3> HIDE DEF ids
    <3> QED
      BY <1>2, <2>1, RankOnto
  <2> QED
    BY <2>2
<1> HIDE DEF nth
<1>6. ASSUME NEW i \in places, NEW j \in places, nth(from + i) = nth(from + j)
      PROVE  i = j
  <2>1. from + i = from + j
    BY <1>5, <1>6
  <2>2. i \in Nat /\ j \in Nat
    BY <1>0
  <2> HIDE DEF from, places
  <2> QED
    BY <1>3, <2>1, <2>2
<1>7. \A i \in places : nth(from + i) \in DOMAIN tasks
  BY <1>5
<1>8. places \subseteq Nat \ {0}
  <2>1. 1..k.size \subseteq Nat \ {0}
    BY <1>3
  <2> HIDE DEF places
  <2> QED
    BY <1>0, <2>1
<1> HIDE DEF ids, places
<1>9. PICK l : l = ListJobs(k)
  OBVIOUS
<1>10. \A i \in DOMAIN l.rows : l.rows[i].id \in DOMAIN tasks /\ l.rows[i].enabled \in BOOLEAN
  BY <1>1, <1>4, <1>7, <1>9
<1>11. \A i, j \in DOMAIN l.rows : l.rows[i].id = l.rows[j].id => i = j
  BY <1>4, <1>6, <1>9
<1> QED
  BY <1>2, <1>4, <1>8, <1>9, <1>10, <1>11 DEF IsList

-----------------------------------------------------------------------------
\* A function from the numbers up to n is a sequence.
LEMMA IsASeqOf ==
  ASSUME NEW S, NEW n \in Nat, NEW f \in [1..n -> S]
  PROVE  f \in Seq(S)
BY SeqDef

\* The form has three steps.
LEMMA ThreeSteps == DOMAIN steps.steps = 1..3 /\ Len(steps.steps) = 3
<1>1. steps.steps \in [1..3 -> [icon : BOOLEAN]] /\ DOMAIN steps.steps = 1..3
  BY DEF steps
<1>2. steps.steps \in Seq([icon : BOOLEAN])
  <2>1. 3 \in Nat
    OBVIOUS
  <2> HIDE DEF steps
  <2> QED
    BY <1>1, <2>1, IsASeqOf
<1>3. Len(steps.steps) \in Nat /\ 1..Len(steps.steps) = 1..3
  BY <1>1, <1>2, LenProperties
<1>4. \A m \in Nat : 1..m = 1..3 => m = 3
  <2> SUFFICES ASSUME NEW m \in Nat, 1..m = 1..3
               PROVE  m = 3
    OBVIOUS
  <2>1. 3 \in 1..m /\ ~(4 \in 1..m)
    OBVIOUS
  <2> QED
    BY <2>1
<1> QED
  BY <1>1, <1>3, <1>4

\* What StepButtons can do where its buttons let it.
LEMMA StepMoves ==
  ASSUME NEW step \in 0..2
  PROVE  /\ ~IsDisabledStep(step) => PrevStep(step) \in 0..2
         /\ ~IsLastStep(steps, step) => NextStep(step) \in 0..2
BY ThreeSteps DEF IsDisabledStep, IsLastStep, PrevStep, NextStep

\* The form as it is drawn first, and as closing it leaves it.
LEMMA ClosedSheet == Closed \in Sheets
BY DEF Closed, Sheets, ResetSteps, InitialStep

LEMMA ClosingSheet ==
  ASSUME NEW s \in Sheets
  PROVE  [s EXCEPT !.open = FALSE, !.step = ResetSteps] \in Sheets
<1> DEFINE All == [open : BOOLEAN, step : 0..2, valid : BOOLEAN, loading : BOOLEAN]
<1>1. s \in All
  BY DEF Sheets
<1>2. [s EXCEPT !.open = FALSE] \in All
  BY <1>1
<1>3. \A t \in All : [t EXCEPT !.step = 0] \in All /\ [t EXCEPT !.step = 0].step = 0
  OBVIOUS
<1>4. [[s EXCEPT !.open = FALSE] EXCEPT !.step = 0] \in All
      /\ [[s EXCEPT !.open = FALSE] EXCEPT !.step = 0].step = 0
  BY <1>2, <1>3, Zenon
<1> QED
  BY <1>4, Zenon DEF ResetSteps, InitialStep, Sheets

\* Drawing the page anew leaves the form it is given, or a closed one.
LEMMA DrawingSheet ==
  ASSUME NEW former, NEW b, NEW rs, NEW s \in Sheets, NEW ps, Drawing(former, b, rs, s, ps)
  PROVE  SheetOK'
<1>1. Closed \in Sheets
  BY ClosedSheet
<1>2. sheet' = s \/ sheet' = Closed
  BY DEF Drawing
<1> QED
  BY <1>1, <1>2 DEF SheetOK

\* What is done within the form.
LEMMA FormKeeps ==
  ASSUME SheetOK,
         CloseSheet \/ StepButtons \/ \E b \in BOOLEAN : Fill(b)
  PROVE  SheetOK'
<1>1. sheet \in Sheets /\ sheet.step \in 0..2
  BY DEF SheetOK, Sheets
<1>2. CASE CloseSheet
  BY <1>1, <1>2, ClosingSheet DEF CloseSheet, SheetOK
<1>3. CASE StepButtons
  <2>1. sheet' = [sheet EXCEPT !.step = PrevStep(@)] \/ sheet' = [sheet EXCEPT !.step = NextStep(@)]
    BY <1>3 DEF StepButtons
  <2>2. sheet'.step \in 0..2
    <3>1. CASE ~IsDisabledStep(sheet.step) /\ sheet' = [sheet EXCEPT !.step = PrevStep(@)]
      BY <1>1, <3>1, StepMoves DEF Sheets
    <3>2. CASE ~IsLastStep(steps, sheet.step) /\ sheet' = [sheet EXCEPT !.step = NextStep(@)]
      BY <1>1, <3>2, StepMoves DEF Sheets
    <3> QED
      BY <1>3, <3>1, <3>2 DEF StepButtons
  <2>3. sheet.open
    BY <1>3 DEF StepButtons
  <2> QED
    BY <1>1, <2>1, <2>2, <2>3 DEF SheetOK, Sheets
<1>4. CASE \E b \in BOOLEAN : Fill(b)
  BY <1>1, <1>4 DEF Fill, SheetOK, Sheets
<1> QED
  BY <1>2, <1>3, <1>4

-----------------------------------------------------------------------------
\* Where a step stands with respect to the current one.
LEMMA PlaceFacts ==
  ASSUME NEW s \in 0..2, NEW i \in 1..3
  PROVE  /\ Place(steps, s, i).current <=> i = s + 1
         /\ Place(steps, s, i).completed <=> i < s + 1
<1>1. /\ Place(steps, s, i).current = (i - 1 = s)
      /\ Place(steps, s, i).completed = (i - 1 < s)
  BY Zenon DEF Place
<1>2. (i - 1 = s <=> i = s + 1) /\ (i - 1 < s <=> i < s + 1)
  OBVIOUS
<1> QED
  BY <1>1, <1>2, Zenon

\* A form at one of its steps shows that one.
LEMMA StepShown ==
  ASSUME SheetOK
  PROVE  OneStepShown
<1> SUFFICES ASSUME NEW narrow \in BOOLEAN
             PROVE  /\ Cardinality(Content(steps, narrow, sheet.step)) = 1
                    /\ \A i \in Content(steps, narrow, sheet.step) :
                         /\ \A b \in Button(steps, narrow, sheet.step, i) : b.current /\ ~b.active /\ b.icon = "number"
                         /\ \A h \in 1..i - 1 : \A b \in Button(steps, narrow, sheet.step, h) :
                              b.active /\ b.icon = "check"
                         /\ \A h \in i + 1..Len(steps.steps) :
                              Label(steps, sheet.step, h).faded /\ ~Drawn(steps, narrow, sheet.step, h).active
                         /\ IsLastStep(steps, sheet.step) <=> i = Len(steps.steps)
  BY DEF OneStepShown
<1> DEFINE s == sheet.step
<1>1. s \in 0..2 /\ s + 1 \in 1..3
  BY DEF SheetOK, Sheets
<1> HIDE DEF s
<1>2. Content(steps, narrow, s) = {s + 1}
  <2>1. HorizontalContent(steps, s) = {s + 1}
    BY <1>1, ThreeSteps DEF HorizontalContent
  <2>2. VerticalContent(steps, s) = {s + 1}
    <3>1. steps.expand = FALSE
      BY DEF steps
    <3>2. \A i \in 1..3 : Place(steps, s, i).current <=> i = s + 1
      BY <1>1, PlaceFacts
    <3>3. VerticalContent(steps, s) = {i \in 1..3 : Place(steps, s, i).current}
      BY <3>1, ThreeSteps DEF VerticalContent
    <3> QED
      BY <1>1, <3>2, <3>3
  <2> QED
    BY <2>1, <2>2 DEF Content
<1>3. Cardinality({s + 1}) = 1
  BY FS_Singleton
<1>4. steps.state = "none" /\ steps.variant = "circle-alt"
  BY DEF steps
<1>5. \A i \in 1..3 : /\ Place(steps, s, i).current <=> i = s + 1
                      /\ Place(steps, s, i).completed <=> i < s + 1
                      /\ steps.steps[i].icon = FALSE
  BY <1>1, PlaceFacts DEF steps
<1>6. \A b \in Button(steps, narrow, s, s + 1) : b.current /\ ~b.active /\ b.icon = "number"
  <2>1. Icon(steps, narrow, s, s + 1) = "number"
    BY <1>1, <1>4, <1>5 DEF Icon
  <2> QED
    BY <1>1, <1>4, <1>5, <2>1 DEF Button
<1>7. ASSUME NEW h \in 1..(s + 1) - 1
      PROVE  \A b \in Button(steps, narrow, s, h) : b.active /\ b.icon = "check"
  <2>1. h \in 1..3 /\ h < s + 1
    BY <1>1
  <2>2. Icon(steps, narrow, s, h) = "check"
    BY <1>4, <1>5, <2>1 DEF Icon
  <2> QED
    BY <1>4, <1>5, <2>1, <2>2 DEF Button
<1>8. ASSUME NEW h \in (s + 1) + 1..Len(steps.steps)
      PROVE  Label(steps, s, h).faded /\ ~Drawn(steps, narrow, s, h).active
  <2>1. h \in 1..3 /\ ~(h <= s + 1)
    BY <1>1, ThreeSteps
  <2>2. ~Place(steps, s, h).current /\ ~Place(steps, s, h).completed
    BY <1>1, <1>5, <2>1
  <2> QED
    BY <1>4, <2>2 DEF Label, Drawn, HasVisited
<1>9. IsLastStep(steps, s) <=> s + 1 = Len(steps.steps)
  BY <1>1, ThreeSteps DEF IsLastStep
<1> QED
  BY <1>2, <1>3, <1>6, <1>7, <1>8, <1>9 DEF s

-----------------------------------------------------------------------------
\* The page drawn anew: the table it shows is a list, ...
LEMMA TableIsList ==
  ASSUME NEW ids, table' \in Keys, last' \in Keys \cup {NoKey}, CacheOK(cache', ids), View' = "table"
  PROVE  IsList(Displayed', ids)
<1>1. Displayed' # NoData /\ Displayed' # Refused
  BY DEF View
<1>2. Sound(Displayed', ids)
  BY DEF Displayed, CacheOK, QueryOK
<1> QED
  BY <1>1, <1>2 DEF Sound

\* ... and its rows and the mutations agree as those it was drawn from.
LEMMA DrawingRows ==
  ASSUME NEW former \in Keys \cup {NoKey}, NEW b \in Filters, NEW rs, NEW s, NEW ps,
         Drawing(former, b, rs, s, ps),
         table' \in Keys, CacheOK(cache', DOMAIN tasks'), tasks' \in Seq(Tasks),
         RowsOK(rs, DOMAIN tasks'), PostsOK(ps, rs), Agree(rs, ps, tasks')
  PROVE  /\ last' \in Keys \cup {NoKey}
         /\ box' \in Filters
         /\ RowsOK(rows', DOMAIN tasks')
         /\ PostsOK(posts', rows')
         /\ Agree(rows', posts', tasks')
         /\ Sending(posts') = Sending(ps)
<1>1. last' \in Keys \cup {NoKey}
  BY DEF Drawing
<1>2. box' \in Filters
  BY KeyFacts DEF Drawing
<1>3. ps \in [1..Len(ps) -> Posts] /\ Len(ps) \in Nat /\ DOMAIN ps = 1..Len(ps)
  BY LenProperties DEF PostsOK
<1>4. DOMAIN posts' = DOMAIN ps
  BY DEF Drawing, Orphans
<1>5. ASSUME NEW j \in DOMAIN ps
      PROVE  /\ posts'[j] \in Posts
             /\ \/ posts'[j] = ps[j]
                \/ posts'[j] = [ps[j] EXCEPT !.row = 0] /\ (ps[j].kind = "switch" /\ View' = "table" => ps[j].row \notin DOMAIN rows')
             /\ posts'[j].kind = "switch" => posts'[j].row \in {0} \cup DOMAIN rows'
  <2>1. ps[j] \in Posts /\ [ps[j] EXCEPT !.row = 0] \in Posts
    BY <1>3 DEF Posts
  <2>2. posts'[j] = IF View' # "table" \/ (ps[j].kind = "switch" /\ ps[j].row \notin DOMAIN rows')
                    THEN [ps[j] EXCEPT !.row = 0] ELSE ps[j]
    BY DEF Drawing, Orphans
  <2> QED
    BY <2>1, <2>2 DEF Posts
<1>6. posts' \in Seq(Posts)
  <2>1. posts' = [j \in 1..Len(ps) |-> posts'[j]]
    BY <1>3 DEF Drawing, Orphans
  <2>2. posts' \in [1..Len(ps) -> Posts]
    BY <1>3, <1>5, <2>1
  <2> QED
    BY <1>3, <2>2, IsASeqOf
<1>7. PostsOK(posts', rows')
  BY <1>4, <1>5, <1>6 DEF PostsOK
<1>8. ASSUME View' # "table"
      PROVE  RowsOK(rows', DOMAIN tasks') /\ Agree(rows', posts', tasks')
  <2>1. rows' = <<>>
    BY <1>8 DEF Drawing
  <2>2. DOMAIN rows' = {}
    BY <2>1
  <2> QED
    BY <2>2 DEF RowsOK, Agree
<1>9. ASSUME View' = "table"
      PROVE  RowsOK(rows', DOMAIN tasks') /\ Agree(rows', posts', tasks')
  <2>1. IsList(Displayed', DOMAIN tasks')
    BY <1>1, <1>9, TableIsList
  <2>2. /\ DOMAIN rows' = DOMAIN Displayed'.rows
        /\ \A i \in DOMAIN rows' : rows'[i] = Row(rs, i, Displayed'.rows[i], ps)
    BY <1>9 DEF Drawing
  <2>3. ASSUME NEW i \in DOMAIN rows', i \in DOMAIN rs
        PROVE  /\ rows'[i] \in [id : DOMAIN tasks', open : BOOLEAN, strayed : BOOLEAN]
               /\ rows'[i].id = Displayed'.rows[i].id /\ rows'[i].open = rs[i].open
               /\ ~rows'[i].strayed => ~rs[i].strayed /\ rows'[i].id = rs[i].id
    <3>1. rs[i] \in [id : DOMAIN tasks', open : BOOLEAN, strayed : BOOLEAN]
      BY <2>3 DEF RowsOK
    <3>2. Displayed'.rows[i].id \in DOMAIN tasks'
      BY <2>1, <2>2 DEF IsList
    <3>3. rows'[i] = [rs[i] EXCEPT !.id = Displayed'.rows[i].id,
                                   !.strayed = rs[i].strayed \/ rs[i].id # Displayed'.rows[i].id]
      BY <2>2, <2>3 DEF Row
    <3> QED
      BY <3>1, <3>2, <3>3
  <2>4. ASSUME NEW i \in DOMAIN rows', i \notin DOMAIN rs
        PROVE  /\ rows'[i] \in [id : DOMAIN tasks', open : BOOLEAN, strayed : BOOLEAN]
               /\ rows'[i].id = Displayed'.rows[i].id
               /\ ~rows'[i].strayed => /\ tasks'[rows'[i].id].there
                                       /\ tasks'[rows'[i].id].enabled = rows'[i].open
                                       /\ Switching(ps, rows'[i].id) = {}
    <3>1. Displayed'.rows[i].id \in DOMAIN tasks' /\ Displayed'.rows[i].enabled \in BOOLEAN
      BY <2>1, <2>2 DEF IsList
    <3>2. rows'[i] = [id |-> Displayed'.rows[i].id, open |-> Displayed'.rows[i].enabled,
                      strayed |-> \/ ~tasks'[Displayed'.rows[i].id].there
                                  \/ tasks'[Displayed'.rows[i].id].enabled # Displayed'.rows[i].enabled
                                  \/ \E j \in DOMAIN ps : ps[j].kind = "switch" /\ ps[j].id = Displayed'.rows[i].id]
      BY <2>2, <2>4 DEF Row
    <3> QED
      BY <3>1, <3>2 DEF Switching
  <2>5. RowsOK(rows', DOMAIN tasks')
    <3>1. DOMAIN rows' \subseteq Nat \ {0}
      BY <2>1, <2>2 DEF IsList
    <3>2. \A i \in DOMAIN rows' : /\ rows'[i] \in [id : DOMAIN tasks', open : BOOLEAN, strayed : BOOLEAN]
                                  /\ rows'[i].id = Displayed'.rows[i].id
      BY <2>3, <2>4
    <3>3. \A i, j \in DOMAIN rows' : rows'[i].id = rows'[j].id => i = j
      BY <2>1, <2>2, <3>2 DEF IsList
    <3> QED
      BY <3>1, <3>2, <3>3 DEF RowsOK
  <2>6. ASSUME NEW i \in DOMAIN rows', ~rows'[i].strayed
        PROVE  RowAgrees(rows'[i], i, posts', tasks')
    <3>1. i # 0
      BY <2>5 DEF RowsOK
    <3>2. ASSUME NEW j \in DOMAIN ps
          PROVE  /\ posts'[j].kind = ps[j].kind /\ posts'[j].id = ps[j].id /\ posts'[j].sees = ps[j].sees
                 /\ posts'[j].to = ps[j].to /\ posts'[j].at = ps[j].at
                 /\ ps[j].kind = "switch" => (posts'[j].row = i <=> ps[j].row = i)
      <4>1. CASE posts'[j] = ps[j]
        BY <4>1
      <4>2. CASE /\ posts'[j] = [ps[j] EXCEPT !.row = 0]
                 /\ ps[j].kind = "switch" /\ View' = "table" => ps[j].row \notin DOMAIN rows'
        <5>1. ps[j] \in Posts
          BY <1>3
        <5>2. /\ posts'[j].kind = ps[j].kind /\ posts'[j].id = ps[j].id /\ posts'[j].sees = ps[j].sees
              /\ posts'[j].to = ps[j].to /\ posts'[j].at = ps[j].at /\ posts'[j].row = 0
          BY <4>2, <5>1 DEF Posts
        <5> QED
          BY <1>9, <3>1, <4>2, <5>2
      <4> QED
        BY <1>5, <4>1, <4>2
    <3>3. \A id : Switching(posts', id) = Switching(ps, id)
      BY <1>4, <3>2 DEF Switching
    <3>4. CASE i \in DOMAIN rs
      <4>1. ~rs[i].strayed /\ rows'[i].id = rs[i].id /\ rows'[i].open = rs[i].open
        BY <2>3, <2>6, <3>4
      <4>2. RowAgrees(rs[i], i, ps, tasks')
        BY <3>4, <4>1 DEF Agree
      <4>3. \A id : \A j \in Switching(ps, id) : j \in DOMAIN ps
        BY DEF Switching
      <4> QED
        BY <1>4, <3>2, <3>3, <4>1, <4>2, <4>3 DEF RowAgrees
    <3>5. CASE i \notin DOMAIN rs
      <4>1. /\ tasks'[rows'[i].id].there /\ tasks'[rows'[i].id].enabled = rows'[i].open
            /\ Switching(ps, rows'[i].id) = {}
        BY <2>4, <2>6, <3>5
      <4>2. \A j \in DOMAIN ps : ps[j].kind = "switch" => ps[j].row # i /\ ps[j].id # rows'[i].id
        BY <3>1, <3>5, <4>1 DEF PostsOK, Switching
      <4> QED
        BY <1>4, <3>2, <3>3, <4>1, <4>2 DEF RowAgrees
    <3> QED
      BY <3>4, <3>5
  <2> QED
    BY <2>5, <2>6 DEF Agree
<1>10. Sending(posts') = Sending(ps)
  <2>1. \A j \in DOMAIN ps : posts'[j].kind = ps[j].kind /\ posts'[j].at = ps[j].at
    BY <1>3, <1>5 DEF Posts
  <2> QED
    BY <1>4, <2>1 DEF Sending
<1> QED
  BY <1>1, <1>2, <1>7, <1>8, <1>9, <1>10

-----------------------------------------------------------------------------
\* The table shown is a list, and there is a row for each of its places.
Current == View = "table" => DOMAIN rows = DOMAIN Displayed.rows

\* The invariant of the page.
PageInv ==
  /\ tasks \in Seq(Tasks) /\ Len(tasks) + Cardinality(Sending(posts)) <= MaxTasks
  /\ table \in Keys /\ table.index * table.size < MaxTasks
  /\ CacheOK(cache, DOMAIN tasks)
  /\ last \in Keys \cup {NoKey} /\ box \in Filters
  /\ RowsOK(rows, DOMAIN tasks)
  /\ PostsOK(posts, rows)
  /\ SheetOK
  /\ Current
  /\ Agree(rows, posts, tasks)

\* The page drawn anew from rows and mutations that agree.
LEMMA DrawingKeeps ==
  ASSUME NEW former \in Keys \cup {NoKey}, NEW b \in Filters, NEW rs, NEW s \in Sheets, NEW ps,
         Drawing(former, b, rs, s, ps), tasks' = tasks,
         tasks \in Seq(Tasks), Len(tasks) + Cardinality(Sending(ps)) <= MaxTasks,
         table' \in Keys, table'.index * table'.size < MaxTasks, CacheOK(cache', DOMAIN tasks),
         RowsOK(rs, DOMAIN tasks), PostsOK(ps, rs), Agree(rs, ps, tasks)
  PROVE  PageInv'
<1>1. /\ last' \in Keys \cup {NoKey} /\ box' \in Filters
      /\ RowsOK(rows', DOMAIN tasks') /\ PostsOK(posts', rows') /\ Agree(rows', posts', tasks')
      /\ Sending(posts') = Sending(ps)
  BY DrawingRows
<1>2. SheetOK'
  BY DrawingSheet
<1>3. Current'
  BY DEF Drawing, Current
<1> QED
  BY <1>1, <1>2, <1>3 DEF PageInv

\* The table shown before a step is a list.
LEMMA ShownIsList ==
  ASSUME NEW ids, table \in Keys, last \in Keys \cup {NoKey}, CacheOK(cache, ids), View = "table"
  PROVE  IsList(Displayed, ids)
<1>1. Displayed # NoData /\ Displayed # Refused
  BY DEF View
<1>2. Sound(Displayed, ids)
  BY DEF Displayed, CacheOK, QueryOK
<1> QED
  BY <1>1, <1>2 DEF Sound

\* What happens to the query of a key.
LEMMA StartedQuery ==
  ASSUME NEW ids, NEW e, QueryOK(e, ids)
  PROVE  QueryOK(Started(e), ids)
<1>1. e = [data |-> e.data, error |-> e.error, read |-> e.read, missed |-> e.missed, fetch |-> e.fetch]
  BY DEF QueryOK
<1>2. Started(e) = [data |-> e.data, error |-> IF e.data = NoData THEN "none" ELSE e.error, read |-> NoData,
                    missed |-> FALSE, fetch |-> "sent"]
  <2>1. PICK error : error = IF e.data = NoData THEN "none" ELSE e.error
    OBVIOUS
  <2>2. Started(e) = [e EXCEPT !.fetch = "sent", !.read = NoData, !.missed = FALSE, !.error = error]
    BY <2>1 DEF Started
  <2>3. Started(e) = [data |-> e.data, error |-> error, read |-> NoData, missed |-> FALSE, fetch |-> "sent"]
    BY <1>1, <2>2
  <2> QED
    BY <2>1, <2>3
<1> QED
  BY <1>2 DEF QueryOK, Sound

LEMMA MissedQuery ==
  ASSUME NEW ids, NEW e, QueryOK(e, ids), NEW missed
  PROVE  QueryOK([e EXCEPT !.missed = missed], ids)
<1>1. e = [data |-> e.data, error |-> e.error, read |-> e.read, missed |-> e.missed, fetch |-> e.fetch]
  BY DEF QueryOK
<1>2. [e EXCEPT !.missed = missed]
        = [data |-> e.data, error |-> e.error, read |-> e.read, missed |-> missed, fetch |-> e.fetch]
  BY <1>1
<1> QED
  BY <1>2 DEF QueryOK

\* What happens to the cache.
LEMMA CacheWith ==
  ASSUME NEW ids, NEW c, CacheOK(c, ids), NEW k \in Keys, NEW q, QueryOK(q, ids)
  PROVE  CacheOK([c EXCEPT ![k] = q], ids)
<1>1. /\ [c EXCEPT ![k] = q] = [x \in Keys |-> [c EXCEPT ![k] = q][x]]
      /\ \A x \in Keys : [c EXCEPT ![k] = q][x] = IF x = k THEN q ELSE c[x]
  BY DEF CacheOK
<1> QED
  BY <1>1 DEF CacheOK

LEMMA FetchedCache ==
  ASSUME NEW ids, NEW c, CacheOK(c, ids), NEW k \in Keys
  PROVE  CacheOK(Fetched(c, k), ids)
<1>1. QueryOK(c[k], ids)
  BY DEF CacheOK
<1>2. CacheOK([c EXCEPT ![k] = Started(c[k])], ids)
  BY <1>1, StartedQuery, CacheWith
<1> QED
  BY <1>2 DEF Fetched

LEMMA InvalidatedCache ==
  ASSUME NEW ids, CacheOK(cache, ids)
  PROVE  CacheOK(Invalidated, ids)
<1>1. ASSUME NEW k \in Keys
      PROVE  QueryOK(Invalidated[k], ids)
  <2>1. QueryOK(cache[k], ids)
    BY DEF CacheOK
  <2>2. QueryOK(Started(cache[k]), ids) /\ \A missed : QueryOK([cache[k] EXCEPT !.missed = missed], ids)
    BY <2>1, StartedQuery, MissedQuery
  <2> QED
    BY <2>2 DEF Invalidated
<1>2. Invalidated = [k \in Keys |-> Invalidated[k]]
  BY DEF Invalidated
<1> QED
  BY <1>1, <1>2 DEF CacheOK

LEMMA GoingTo ==
  ASSUME NEW ids, NEW c, CacheOK(c, ids), NEW t \in Keys, GoTo(t, c)
  PROVE  table' \in Keys /\ CacheOK(cache', ids)
BY FetchedCache DEF GoTo

-----------------------------------------------------------------------------
\* Where what is left stood before post j was taken out.
From(j, n) == [h \in 1..n - 1 |-> IF h < j THEN h ELSE h + 1]

LEMMA FromFacts ==
  ASSUME NEW n \in Nat, NEW j \in 1..n
  PROVE  /\ \A h \in 1..n - 1 : From(j, n)[h] \in 1..n /\ From(j, n)[h] # j
         /\ \A h, l \in 1..n - 1 : From(j, n)[h] = From(j, n)[l] => h = l
         /\ \A l \in 1..n : l # j => \E h \in 1..n - 1 : From(j, n)[h] = l
<1>1. \A h \in 1..n - 1 : From(j, n)[h] = IF h < j THEN h ELSE h + 1
  BY DEF From
<1>2. ASSUME NEW l \in 1..n, l # j
      PROVE  \E h \in 1..n - 1 : From(j, n)[h] = l
  <2>1. CASE l < j
    <3>1. l \in 1..n - 1
      BY <2>1
    <3> QED
      BY <1>1, <2>1, <3>1
  <2>2. CASE ~(l < j)
    <3>1. l - 1 \in 1..n - 1 /\ ~(l - 1 < j) /\ (l - 1) + 1 = l
      BY <1>2, <2>2
    <3> QED
      BY <1>1, <3>1
  <2> QED
    BY <2>1, <2>2
<1> QED
  BY <1>1, <1>2

LEMMA RemovedFacts ==
  ASSUME NEW S, NEW q \in Seq(S), NEW j \in 1..Len(q)
  PROVE  /\ RemoveAt(q, j) \in Seq(S)
         /\ DOMAIN RemoveAt(q, j) = 1..Len(q) - 1
         /\ \A h \in 1..Len(q) - 1 : RemoveAt(q, j)[h] = q[From(j, Len(q))[h]]
<1> DEFINE n == Len(q)
           a == SubSeq(q, 1, j - 1)
           b == SubSeq(q, j + 1, n)
<1>1. n \in Nat /\ j \in 1..n /\ \A h \in 1..n : q[h] \in S
  BY LenProperties, ElementOfSeq
<1> HIDE DEF n
<1>2. a \in Seq(S) /\ Len(a) = j - 1 /\ \A h \in 1..j - 1 : a[h] = q[h]
  <2>1. 1 \in Int /\ j - 1 \in Int /\ \A h \in 1..j - 1 : q[h] \in S
    BY <1>1
  <2>2. /\ a \in Seq(S)
        /\ Len(a) = IF 1 <= j - 1 THEN (j - 1) - 1 + 1 ELSE 0
        /\ \A h \in 1..(j - 1) - 1 + 1 : a[h] = q[1 + h - 1]
    BY <2>1, SubSeqProperties
  <2> QED
    BY <1>1, <2>2
<1>3. b \in Seq(S) /\ Len(b) = n - j /\ \A h \in 1..n - j : b[h] = q[j + h]
  <2>1. j + 1 \in Int /\ n \in Int /\ \A h \in j + 1..n : q[h] \in S
    BY <1>1
  <2>2. /\ b \in Seq(S)
        /\ Len(b) = IF j + 1 <= n THEN n - (j + 1) + 1 ELSE 0
        /\ \A h \in 1..n - (j + 1) + 1 : b[h] = q[(j + 1) + h - 1]
    BY <2>1, SubSeqProperties
  <2> QED
    BY <1>1, <2>2
<1> HIDE DEF a, b
<1>4. /\ a \o b \in Seq(S) /\ Len(a \o b) = n - 1
      /\ \A h \in 1..n - 1 : (a \o b)[h] = IF h < j THEN q[h] ELSE q[h + 1]
  <2>1. /\ a \o b \in Seq(S) /\ Len(a \o b) = Len(a) + Len(b)
        /\ \A h \in 1..Len(a) + Len(b) : (a \o b)[h] = IF h <= Len(a) THEN a[h] ELSE b[h - Len(a)]
    BY <1>2, <1>3, ConcatProperties
  <2>2. Len(a) + Len(b) = n - 1
    BY <1>1, <1>2, <1>3
  <2>3. ASSUME NEW h \in 1..n - 1, h < j
        PROVE  (a \o b)[h] = q[h]
    <3>1. h <= Len(a) /\ h \in 1..j - 1
      BY <1>1, <1>2, <2>3
    <3> QED
      BY <1>2, <2>1, <2>2, <3>1
  <2>4. ASSUME NEW h \in 1..n - 1, ~(h < j)
        PROVE  (a \o b)[h] = q[h + 1]
    <3>1. ~(h <= Len(a)) /\ h - Len(a) \in 1..n - j /\ j + (h - Len(a)) = h + 1
      BY <1>1, <1>2, <2>4
    <3> QED
      BY <1>3, <2>1, <2>2, <3>1
  <2> QED
    BY <2>1, <2>2, <2>3, <2>4
<1>5. RemoveAt(q, j) = a \o b
  BY DEF RemoveAt, a, b, n
<1>6. DOMAIN (a \o b) = 1..n - 1
  BY <1>4, LenProperties
<1> QED
  BY <1>4, <1>5, <1>6 DEF From, n

\* Mutations are finitely many.
LEMMA SendingFinite ==
  ASSUME NEW ps \in Seq(Posts)
  PROVE  IsFiniteSet(Sending(ps)) /\ Cardinality(Sending(ps)) \in Nat
<1>1. DOMAIN ps = 1..Len(ps) /\ Len(ps) \in Nat
  BY LenProperties
<1>2. IsFiniteSet(1..Len(ps))
  BY <1>1, FS_Interval
<1>3. Sending(ps) \in SUBSET (1..Len(ps))
  BY <1>1 DEF Sending
<1> QED
  BY <1>2, <1>3, FS_Subset, FS_CardinalityType

\* The mutations left when one of them is over.
LEMMA Removed ==
  ASSUME NEW ps, NEW rs, PostsOK(ps, rs), NEW j \in DOMAIN ps
  PROVE  /\ PostsOK(RemoveAt(ps, j), rs)
         /\ Cardinality(Sending(RemoveAt(ps, j))) <= Cardinality(Sending(ps))
<1> DEFINE n == Len(ps)
           r == RemoveAt(ps, j)
           f == From(j, n)
<1>1. ps \in Seq(Posts) /\ n \in Nat /\ j \in 1..n /\ DOMAIN ps = 1..n
  BY LenProperties DEF PostsOK
<1>2. r \in Seq(Posts) /\ DOMAIN r = 1..n - 1 /\ \A h \in 1..n - 1 : r[h] = ps[f[h]]
  BY <1>1, RemovedFacts
<1>3. /\ \A h \in 1..n - 1 : f[h] \in 1..n
      /\ \A h, l \in 1..n - 1 : f[h] = f[l] => h = l
  BY <1>1, FromFacts
<1> HIDE DEF n, r, f
<1>4. PostsOK(r, rs)
  BY <1>1, <1>2, <1>3 DEF PostsOK
<1>5. Cardinality(Sending(r)) <= Cardinality(Sending(ps))
  <2> DEFINE g == [h \in Sending(r) |-> f[h]]
  <2>1. g \in [Sending(r) -> Sending(ps)]
    BY <1>1, <1>2, <1>3 DEF Sending
  <2>2. \A h, l \in Sending(r) : g[h] = g[l] => h = l
    BY <1>2, <1>3 DEF Sending
  <2>3. g \in Injection(Sending(r), Sending(ps))
    BY <2>1, <2>2 DEF Injection, IsInjective
  <2>4. IsFiniteSet(Sending(ps))
    BY <1>1, SendingFinite
  <2> QED
    BY <2>3, <2>4, FS_Injection
<1> QED
  BY <1>4, <1>5 DEF r

\* A row that agrees still does when a mutation is over, if its switch did what that one did.
LEMMA RemovedAgrees ==
  ASSUME NEW ps, NEW rs, PostsOK(ps, rs), NEW j \in DOMAIN ps, NEW i, NEW ts, NEW old, RowAgrees(old, i, ps, ts),
         NEW row, row.id = old.id,
         IF ps[j].kind = "switch" /\ ps[j].id = old.id THEN ts[old.id].enabled = row.open ELSE row.open = old.open
  PROVE  RowAgrees(row, i, RemoveAt(ps, j), ts)
<1> DEFINE n == Len(ps)
           r == RemoveAt(ps, j)
           f == From(j, n)
<1>1. ps \in Seq(Posts) /\ n \in Nat /\ j \in 1..n /\ DOMAIN ps = 1..n
  BY LenProperties DEF PostsOK
<1>2. r \in Seq(Posts) /\ DOMAIN r = 1..n - 1 /\ \A h \in 1..n - 1 : r[h] = ps[f[h]]
  BY <1>1, RemovedFacts
<1>3. /\ \A h \in 1..n - 1 : f[h] \in 1..n /\ f[h] # j
      /\ \A h, l \in 1..n - 1 : f[h] = f[l] => h = l
      /\ \A l \in 1..n : l # j => \E h \in 1..n - 1 : f[h] = l
  BY <1>1, FromFacts
<1> HIDE DEF n, r, f
<1>4. /\ \A h \in Switching(r, old.id) : h \in 1..n - 1 /\ f[h] \in Switching(ps, old.id) /\ f[h] # j /\ r[h] = ps[f[h]]
      /\ \A l \in Switching(ps, old.id) : l # j => \E h \in Switching(r, old.id) : f[h] = l
  <2>1. \A h : h \in Switching(r, old.id) <=> h \in 1..n - 1 /\ ps[f[h]].kind = "switch" /\ ps[f[h]].id = old.id
    BY <1>2 DEF Switching
  <2>2. \A l : l \in Switching(ps, old.id) <=> l \in 1..n /\ ps[l].kind = "switch" /\ ps[l].id = old.id
    BY <1>1 DEF Switching
  <2>3. ASSUME NEW l \in Switching(ps, old.id), l # j
        PROVE  \E h \in Switching(r, old.id) : f[h] = l
    <3>1. PICK h \in 1..n - 1 : f[h] = l
      BY <1>3, <2>2, <2>3
    <3> QED
      BY <2>1, <2>2, <3>1
  <2> QED
    BY <1>2, <1>3, <2>1, <2>2, <2>3
<1>5. \A h \in DOMAIN r : r[h].kind = "switch" => (r[h].row = i <=> r[h].id = old.id)
  BY <1>1, <1>2, <1>3 DEF RowAgrees
<1>6. \A h, l \in Switching(r, old.id) : h = l
  BY <1>3, <1>4 DEF RowAgrees
<1>7. CASE j \in Switching(ps, old.id)
  <2>1. Switching(r, old.id) = {}
    BY <1>4, <1>7 DEF RowAgrees
  <2>2. ts[old.id].enabled = row.open
    BY <1>7 DEF Switching
  <2> QED
    BY <1>5, <2>1, <2>2 DEF RowAgrees, r
<1>8. CASE j \notin Switching(ps, old.id)
  <2>1. row.open = old.open
    BY <1>8 DEF Switching
  <2>2. \A h \in Switching(r, old.id) :
          /\ r[h].sees = "latest" /\ r[h].to = ~row.open
          /\ ts[old.id].enabled = IF r[h].at = "applied" THEN r[h].to ELSE row.open
    BY <1>4, <2>1 DEF RowAgrees
  <2>3. Switching(r, old.id) = {} => ts[old.id].enabled = row.open
    BY <1>4, <1>8, <2>1 DEF RowAgrees
  <2> QED
    BY <1>5, <1>6, <2>2, <2>3 DEF RowAgrees, r
<1> QED
  BY <1>7, <1>8

-----------------------------------------------------------------------------
\* A click that asks for a page of the tasks.
LEMMA Turning ==
  ASSUME PageInv, tasks' = tasks, NEW t \in Keys, t.index * t.size < MaxTasks,
         NEW c, CacheOK(c, DOMAIN tasks), GoTo(t, c),
         NEW b \in Filters, NEW s \in Sheets, Drawing(last, b, rows, s, posts)
  PROVE  PageInv'
<1>1. table' = t /\ table' \in Keys /\ CacheOK(cache', DOMAIN tasks)
  BY GoingTo DEF GoTo
<1> QED
  BY <1>1, DrawingKeeps DEF PageInv

\* A key with other values.
LEMMA KeyWith ==
  ASSUME NEW I, NEW S, NEW F, NEW t \in [index : I, size : S, filter : F]
  PROVE  /\ \A i \in I, f \in F : LET r == [t EXCEPT !.index = i, !.filter = f]
                                IN r \in [index : I, size : S, filter : F] /\ r.index = i /\ r.size = t.size
         /\ \A i \in I, n \in S : LET r == [t EXCEPT !.index = i, !.size = n]
                                IN r \in [index : I, size : S, filter : F] /\ r.index = i /\ r.size = n
         /\ \A f \in F : LET r == [t EXCEPT !.filter = f]
                         IN r \in [index : I, size : S, filter : F] /\ r.index = t.index /\ r.size = t.size
         /\ \A i \in I : LET r == [t EXCEPT !.index = i]
                         IN r \in [index : I, size : S, filter : F] /\ r.index = i /\ r.size = t.size
OBVIOUS

\* A filter goes with the first page, or with the page there is.
LEMMA Filtering ==
  ASSUME table \in Keys, table.index * table.size < MaxTasks, NEW b \in Filters
  PROVE  /\ [table EXCEPT !.index = 0, !.filter = b] \in Keys
         /\ [table EXCEPT !.index = 0, !.filter = b].index * [table EXCEPT !.index = 0, !.filter = b].size < MaxTasks
         /\ [table EXCEPT !.filter = b] \in Keys
         /\ [table EXCEPT !.filter = b].index * [table EXCEPT !.filter = b].size < MaxTasks
<1>1. MaxTasks \in Nat \ {0} /\ 0 \in 0..MaxTasks - 1 /\ table.size \in Nat
  BY KeyFacts, TaskPageAssumption
<1>2. PICK first : first = [table EXCEPT !.index = 0, !.filter = b]
  OBVIOUS
<1>3. PICK same : same = [table EXCEPT !.filter = b]
  OBVIOUS
<1>4. /\ first \in Keys /\ first.index = 0 /\ first.size = table.size
      /\ same \in Keys /\ same.index = table.index /\ same.size = table.size
  BY <1>1, <1>2, <1>3, KeyWith DEF Keys
<1>5. 0 * table.size < MaxTasks
  BY <1>1
<1> QED
  BY <1>2, <1>3, <1>4, <1>5

LEMMA SubmitTableKeeps ==
  ASSUME PageInv, tasks' = tasks, SubmitTable, NEW s \in Sheets, Drawing(last, box, rows, s, posts)
  PROVE  PageInv'
<1>1. /\ [table EXCEPT !.index = 0, !.filter = box] \in Keys
      /\ [table EXCEPT !.index = 0, !.filter = box].index * [table EXCEPT !.index = 0, !.filter = box].size < MaxTasks
  BY Filtering DEF PageInv
<1>2. CacheOK(Invalidated, DOMAIN tasks)
  BY InvalidatedCache DEF PageInv
<1> QED
  BY <1>1, <1>2, Turning DEF SubmitTable, PageInv

LEMMA SearchKeeps == PageInv /\ (Search \/ OpenSheet) => PageInv'
<1> SUFFICES ASSUME PageInv, Search \/ OpenSheet
             PROVE  PageInv'
  OBVIOUS
<1>1. sheet \in Sheets /\ [sheet EXCEPT !.open = TRUE] \in Sheets
  BY DEF PageInv, SheetOK, Sheets
<1>2. CASE Search
  BY <1>1, <1>2, SubmitTableKeeps DEF Search, Click
<1>3. CASE OpenSheet
  BY <1>1, <1>3, SubmitTableKeeps DEF OpenSheet, Click
<1> QED
  BY <1>2, <1>3

LEMMA ResetKeeps == PageInv /\ Reset => PageInv'
<1> SUFFICES ASSUME PageInv, Reset
             PROVE  PageInv'
  OBVIOUS
<1>1. "" \in Filters
  BY DEF Filters
<1>2. /\ [table EXCEPT !.filter = ""] \in Keys
      /\ [table EXCEPT !.filter = ""].index * [table EXCEPT !.filter = ""].size < MaxTasks
  BY <1>1, Filtering DEF PageInv
<1> QED
  BY <1>1, <1>2, Turning DEF Reset, Click, PageInv, SheetOK

LEMMA FocusKeeps == PageInv /\ Focus => PageInv'
<1> SUFFICES ASSUME PageInv, Focus
             PROVE  PageInv'
  OBVIOUS
<1>1. CacheOK(Fetched(cache, table), DOMAIN tasks)
  BY FetchedCache DEF PageInv
<1> QED
  BY <1>1, Turning DEF Focus, Click, PageInv, SheetOK

\* The pages offered are those that have tasks.
LEMMA PageKeeps ==
  ASSUME PageInv, NEW i \in 0..MaxTasks - 1, Page(i)
  PROVE  PageInv'
<1> DEFINE m == table.index
           n == table.size
           total == Displayed.total
           t == [table EXCEPT !.index = i]
<1>1. /\ m \in Nat /\ n \in Nat \ {0} /\ MaxTasks \in Nat \ {0} /\ i \in Nat
      /\ table = [index |-> m, size |-> n, filter |-> table.filter]
      /\ n \in Sizes /\ table.filter \in Filters
  BY KeyFacts, TaskPageAssumption DEF PageInv
<1>2. total \in 0..MaxTasks
  <2>1. IsList(Displayed, DOMAIN tasks)
    BY ShownIsList DEF Page, OnPage, PageInv
  <2> QED
    BY <2>1 DEF IsList
<1>3. m * n < MaxTasks
  BY DEF PageInv
<1>4. PageCount = (total + n - 1) \div n
  BY DEF PageCount
<1>5. \/ m > 0 /\ (i = 0 \/ i = m - 1)
      \/ m < PageCount - 1 /\ (i = m + 1 \/ i = PageCount - 1)
  BY DEF Page
<1> HIDE DEF m, n, total
<1>6. i * n < MaxTasks
  <2>1. CASE i = 0
    <3>1. 0 * n = 0
      BY <1>1
    <3> QED
      BY <1>1, <2>1, <3>1
  <2>2. CASE m > 0 /\ i = m - 1
    <3>1. (m - 1) * n = m * n - n
      BY <1>1
    <3>2. m * n \in Nat
      BY <1>1
    <3> QED
      BY <1>1, <1>3, <2>2, <3>1, <3>2
  <2>3. CASE m < PageCount - 1 /\ (i = m + 1 \/ i = PageCount - 1)
    <3> DEFINE q == PageCount
    <3>1. total + n - 1 \in Nat /\ q = (total + n - 1) \div n
      BY <1>1, <1>2, <1>4
    <3> HIDE DEF q
    <3>2. q \in Nat /\ q * n <= total + n - 1
      BY <1>1, <3>1
    <3>3. m < q - 1 /\ (i = m + 1 \/ i = q - 1)
      BY <2>3 DEF q
    <3>4. i <= q - 1
      BY <1>1, <3>2, <3>3
    <3>5. (q - 1) * n = q * n - n
      BY <1>1, <3>2
    <3>6. i * n <= (q - 1) * n
      BY <1>1, <3>2, <3>4
    <3>7. q * n \in Nat /\ i * n \in Nat
      BY <1>1, <3>2
    <3> QED
      BY <1>1, <1>2, <3>2, <3>5, <3>6, <3>7
  <2> QED
    BY <1>5, <2>1, <2>2, <2>3
<1>7. t \in Keys /\ t.index = i /\ t.size = n
  BY KeyWith DEF Keys, PageInv, n
<1>8. GoTo(t, cache) /\ Drawing(last, box, rows, sheet, posts) /\ tasks' = tasks
  BY DEF Page, Click
<1> HIDE DEF t
<1> QED
  BY <1>6, <1>7, <1>8, Turning DEF PageInv, SheetOK

\* The page that has the task that was first, with n on a page.
LEMMA PageSizeKeeps ==
  ASSUME PageInv, NEW n \in Sizes, PageSize(n)
  PROVE  PageInv'
<1> DEFINE m == table.index * table.size
           t == [table EXCEPT !.index = (table.index * table.size) \div n, !.size = n]
<1>1. /\ table.index \in Nat /\ table.size \in Nat /\ n \in Nat \ {0} /\ MaxTasks \in Nat \ {0}
      /\ table = [index |-> table.index, size |-> table.size, filter |-> table.filter]
      /\ table.filter \in Filters
  BY KeyFacts, TaskPageAssumption DEF PageInv
<1>2. m \in Nat /\ m < MaxTasks
  BY <1>1 DEF PageInv
<1>4. m \div n \in Nat /\ (m \div n) * n <= m /\ m \div n <= m
  <2> HIDE DEF m, t
  <2>1. PICK q : q = m \div n
    OBVIOUS
  <2>2. q \in Nat /\ q * n <= m
    BY <1>1, <1>2, <2>1
  <2>3. q <= q * n
    BY <1>1, <2>2
  <2>4. q * n \in Nat
    BY <1>1, <2>2
  <2> QED
    BY <1>2, <2>1, <2>2, <2>3, <2>4
<1>5. GoTo(t, cache) /\ Drawing(last, box, rows, sheet, posts) /\ tasks' = tasks
  BY DEF PageSize, Click
<1> HIDE DEF m, t
<1>6. m \div n \in 0..MaxTasks - 1 /\ (m \div n) * n < MaxTasks
  <2>1. (m \div n) * n \in Nat
    BY <1>1, <1>4
  <2> QED
    BY <1>1, <1>2, <1>4, <2>1
<1>7. t \in Keys /\ t.index * t.size < MaxTasks
  <2>1. t \in Keys /\ t.index = m \div n /\ t.size = n
    BY <1>6, KeyWith DEF Keys, PageInv, m, t
  <2> QED
    BY <1>6, <2>1
<1> QED
  BY <1>5, <1>7, Turning DEF PageInv, SheetOK

\* Mutations that go on without the page that began them.
LEMMA Gone ==
  ASSUME NEW ps, NEW rs, PostsOK(ps, rs)
  PROVE  /\ PostsOK([j \in DOMAIN ps |-> [ps[j] EXCEPT !.row = 0]], <<>>)
         /\ Sending([j \in DOMAIN ps |-> [ps[j] EXCEPT !.row = 0]]) = Sending(ps)
<1> DEFINE r == [j \in DOMAIN ps |-> [ps[j] EXCEPT !.row = 0]]
<1>1. Len(ps) \in Nat /\ DOMAIN ps = 1..Len(ps) /\ \A j \in DOMAIN ps : ps[j] \in Posts
  BY LenProperties, ElementOfSeq DEF PostsOK
<1>2. \A p \in Posts : LET o == [p EXCEPT !.row = 0] IN o \in Posts /\ o.row = 0 /\ o.kind = p.kind /\ o.at = p.at
  BY DEF Posts
<1>3. r \in [1..Len(ps) -> Posts]
  BY <1>1, <1>2
<1>4. r \in Seq(Posts)
  BY <1>1, <1>3, IsASeqOf
<1>5. DOMAIN r = DOMAIN ps /\ \A j \in DOMAIN ps : r[j].row = 0 /\ r[j].kind = ps[j].kind /\ r[j].at = ps[j].at
  BY <1>1, <1>2
<1> HIDE DEF r
<1>6. PostsOK(r, <<>>)
  BY <1>4, <1>5 DEF PostsOK
<1>7. Sending(r) = Sending(ps)
  BY <1>5 DEF Sending
<1> QED
  BY <1>6, <1>7 DEF r

LEMMA RevisitKeeps == PageInv /\ Revisit => PageInv'
<1> SUFFICES ASSUME PageInv, Revisit
             PROVE  PageInv'
  OBVIOUS
<1> DEFINE r == [j \in DOMAIN posts |-> [posts[j] EXCEPT !.row = 0]]
<1>1. PostsOK(r, <<>>) /\ Sending(r) = Sending(posts)
  BY Gone DEF PageInv
<1>2. Drawing(NoKey, "", <<>>, Closed, r) /\ tasks' = tasks /\ cache' = Fetched(cache, table')
  BY DEF Revisit, Click
<1> HIDE DEF r
<1>3. table' \in Keys /\ table'.index * table'.size < MaxTasks
  <2>1. table' = [index |-> 0, size |-> InitialSize, filter |-> ""]
    BY DEF Revisit
  <2>2. /\ InitialSize \in Sizes /\ InitialSize \in Nat /\ MaxTasks \in Nat \ {0} /\ 0 \in 0..MaxTasks - 1
        /\ "" \in Filters
    BY TaskPageAssumption DEF Filters
  <2>3. \A z \in Nat : 0 * z = 0
    OBVIOUS
  <2>4. 0 * InitialSize = 0
    BY <2>2, <2>3
  <2> QED
    <3>1. \A i \in 0..MaxTasks - 1, n \in Sizes, f \in Filters : [index |-> i, size |-> n, filter |-> f] \in Keys
      BY DEF Keys
    <3>2. [index |-> 0, size |-> InitialSize, filter |-> ""] \in Keys
      BY <2>2, <3>1
    <3>3. table'.index = 0 /\ table'.size = InitialSize
      BY <2>1
    <3>4. table' \in Keys
      BY <2>1, <3>2
    <3>5. 0 < MaxTasks
      BY TaskPageAssumption
    <3> QED
      BY <2>4, <3>3, <3>4, <3>5
<1>4. CacheOK(cache', DOMAIN tasks)
  BY <1>2, <1>3, FetchedCache DEF PageInv
<1>5. DOMAIN <<>> = {} /\ "" \in Filters
  BY DEF Filters
<1>6. RowsOK(<<>>, DOMAIN tasks) /\ Agree(<<>>, r, tasks)
  BY <1>5 DEF RowsOK, Agree
<1> QED
  BY <1>1, <1>2, <1>3, <1>4, <1>5, <1>6, ClosedSheet, DrawingKeeps DEF PageInv

-----------------------------------------------------------------------------
\* One more mutation under way.
LEMMA Appended ==
  ASSUME NEW ps \in Seq(Posts), NEW p \in Posts
  PROVE  /\ Append(ps, p) \in Seq(Posts)
         /\ DOMAIN ps = 1..Len(ps) /\ Len(ps) \in Nat
         /\ DOMAIN Append(ps, p) = DOMAIN ps \cup {Len(ps) + 1}
         /\ \A j \in DOMAIN ps : Append(ps, p)[j] = ps[j]
         /\ Append(ps, p)[Len(ps) + 1] = p
         /\ Len(ps) + 1 \notin DOMAIN ps
<1>1. DOMAIN ps = 1..Len(ps) /\ Len(ps) \in Nat
  BY LenProperties
<1>2. /\ Append(ps, p) \in Seq(Posts) /\ Len(Append(ps, p)) = Len(ps) + 1
      /\ \A j \in 1..Len(ps) : Append(ps, p)[j] = ps[j]
      /\ Append(ps, p)[Len(ps) + 1] = p
  BY <1>1, AppendProperties
<1>3. DOMAIN Append(ps, p) = 1..Len(ps) + 1
  BY <1>2, LenProperties
<1>4. 1..Len(ps) + 1 = (1..Len(ps)) \cup {Len(ps) + 1} /\ Len(ps) + 1 \notin 1..Len(ps)
  BY <1>1
<1> QED
  BY <1>1, <1>2, <1>3, <1>4

\* A task being added is no concern of the rows.
LEMMA AddAppended ==
  ASSUME NEW ps, NEW rs, PostsOK(ps, rs), NEW ts, Agree(rs, ps, ts),
         NEW p \in Posts, p.kind = "add", p.at = "sent"
  PROVE  /\ PostsOK(Append(ps, p), rs)
         /\ Agree(rs, Append(ps, p), ts)
         /\ Cardinality(Sending(Append(ps, p))) = Cardinality(Sending(ps)) + 1
<1> DEFINE q == Append(ps, p)
           n == Len(ps) + 1
<1>1. /\ q \in Seq(Posts) /\ DOMAIN q = DOMAIN ps \cup {n} /\ n \notin DOMAIN ps
      /\ q[n] = p /\ \A j \in DOMAIN ps : q[j] = ps[j]
  BY Appended DEF PostsOK
<1> HIDE DEF q, n
<1>2. PostsOK(q, rs)
  BY <1>1 DEF PostsOK
<1>3. \A id : Switching(q, id) = Switching(ps, id)
  BY <1>1 DEF Switching
<1>4. ASSUME NEW i \in DOMAIN rs, ~rs[i].strayed
      PROVE  RowAgrees(rs[i], i, q, ts)
  <2>1. RowAgrees(rs[i], i, ps, ts)
    BY <1>4 DEF Agree
  <2>2. \A j \in Switching(ps, rs[i].id) : j \in DOMAIN ps
    BY DEF Switching
  <2>3. \A j \in DOMAIN q : q[j].kind = "switch" => j \in DOMAIN ps /\ q[j] = ps[j]
    BY <1>1
  <2>4. \A j \in DOMAIN q : q[j].kind = "switch" => (q[j].row = i <=> q[j].id = rs[i].id)
    BY <2>1, <2>3 DEF RowAgrees
  <2>5. \A j \in Switching(ps, rs[i].id) : q[j] = ps[j]
    BY <1>1, <2>2
  <2> QED
    BY <1>3, <2>1, <2>4, <2>5 DEF RowAgrees
<1>5. Sending(q) = Sending(ps) \cup {n} /\ n \notin Sending(ps)
  BY <1>1 DEF Sending
<1>6. IsFiniteSet(Sending(ps)) /\ Cardinality(Sending(ps)) \in Nat
  BY SendingFinite DEF PostsOK
<1>7. Cardinality(Sending(q)) = Cardinality(Sending(ps)) + 1
  BY <1>5, <1>6, FS_AddElement
<1> QED
  BY <1>2, <1>4, <1>7 DEF Agree, q

LEMMA SubmitSheetKeeps ==
  ASSUME PageInv, NEW match \in BOOLEAN, SubmitSheet(match)
  PROVE  PageInv'
<1>1. tasks' = tasks /\ SubmitTable /\ sheet \in Sheets /\ sheet.open
  BY DEF SubmitSheet, Click, PageInv, SheetOK
<1>2. CASE ~sheet.valid
  BY <1>1, <1>2, SubmitTableKeeps DEF SubmitSheet
<1>3. CASE sheet.valid
  <2> DEFINE p == [kind |-> "add", id |-> 0, match |-> match, to |-> TRUE, row |-> 1,
                   sees |-> "latest", at |-> "sent"]
             s == [sheet EXCEPT !.loading = TRUE]
  <2>1. Drawing(last, box, rows, s, Append(posts, p))
    BY <1>3 DEF SubmitSheet
  <2>2. p \in Posts /\ p.kind = "add" /\ p.at = "sent"
    BY DEF Posts
  <2>3. s \in Sheets
    BY <1>1 DEF Sheets
  <2> HIDE DEF p, s
  <2>4. /\ PostsOK(Append(posts, p), rows) /\ Agree(rows, Append(posts, p), tasks)
        /\ Cardinality(Sending(Append(posts, p))) = Cardinality(Sending(posts)) + 1
    BY <2>2, AddAppended DEF PageInv
  <2>5. Len(tasks) + Cardinality(Sending(Append(posts, p))) <= MaxTasks
    <3>1. Adding = Cardinality(Sending(posts))
      BY DEF Adding, Sending
    <3>2. Len(tasks) + Cardinality(Sending(posts)) < MaxTasks
      BY <1>3, <3>1 DEF SubmitSheet
    <3>3. Len(tasks) \in Nat /\ Cardinality(Sending(posts)) \in Nat /\ MaxTasks \in Nat
      BY SendingFinite, LenProperties, TaskPageAssumption DEF PageInv, PostsOK
    <3> QED
      BY <2>4, <3>2, <3>3
  <2>6. table' \in Keys /\ table'.index * table'.size < MaxTasks /\ CacheOK(cache', DOMAIN tasks)
    <3>1. /\ [table EXCEPT !.index = 0, !.filter = box] \in Keys
          /\ [table EXCEPT !.index = 0, !.filter = box].index * [table EXCEPT !.index = 0, !.filter = box].size
               < MaxTasks
      BY Filtering DEF PageInv
    <3>2. CacheOK(Invalidated, DOMAIN tasks)
      BY InvalidatedCache DEF PageInv
    <3>3. GoTo([table EXCEPT !.index = 0, !.filter = box], Invalidated)
      BY <1>1 DEF SubmitTable
    <3>4. table' = [table EXCEPT !.index = 0, !.filter = box]
      BY <3>3 DEF GoTo
    <3> QED
      BY <3>1, <3>2, <3>3, <3>4, GoingTo
  <2> QED
    BY <1>1, <2>1, <2>3, <2>4, <2>5, <2>6, DrawingKeeps DEF PageInv
<1> QED
  BY <1>2, <1>3

\* What leaves the queries and what is shown of them alone.
LEMMA StaysCurrent ==
  ASSUME Current, UNCHANGED <<table, cache, last>>, DOMAIN rows' = DOMAIN rows
  PROVE  Current'
BY DEF Current, View, Displayed

LEMMA WithinPage ==
  ASSUME PageInv, SheetOK', box' \in Filters,
         UNCHANGED <<tasks, table, cache, last, rows, posts>>
  PROVE  PageInv'
<1>1. Current'
  BY StaysCurrent DEF PageInv
<1> QED
  BY <1>1 DEF PageInv

LEMMA TypingKeeps ==
  ASSUME PageInv,
         CloseSheet \/ StepButtons \/ (\E b \in BOOLEAN : Fill(b)) \/ (\E b \in Filters : TypeName(b))
  PROVE  PageInv'
<1>1. CASE CloseSheet \/ StepButtons \/ (\E b \in BOOLEAN : Fill(b))
  <2>1. SheetOK'
    BY <1>1, FormKeeps DEF PageInv
  <2>2. UNCHANGED <<tasks, table, cache, last, box, rows, posts>>
    BY <1>1 DEF CloseSheet, StepButtons, Fill
  <2> QED
    BY <2>1, <2>2, WithinPage DEF PageInv
<1>2. CASE \E b \in Filters : TypeName(b)
  <2>1. box' \in Filters /\ UNCHANGED <<tasks, table, cache, last, rows, sheet, posts>>
    BY <1>2 DEF TypeName
  <2> QED
    BY <2>1, WithinPage DEF PageInv, SheetOK
<1> QED
  BY <1>1, <1>2

-----------------------------------------------------------------------------
\* The switch of a row is used.
LEMMA SwitchKeeps ==
  ASSUME PageInv, NEW i \in 1..MaxTasks, Switch(i)
  PROVE  PageInv'
<1> DEFINE enabled == Displayed.rows[i].enabled
           earlier == {j \in DOMAIN posts : posts[j].kind = "switch" /\ posts[j].row = i}
           told == [j \in DOMAIN posts |->
                      IF j \in earlier /\ posts[j].sees = "latest"
                      THEN [posts[j] EXCEPT !.sees = IF rows[i].open THEN "on" ELSE "off"]
                      ELSE posts[j]]
           p == [kind |-> "switch", id |-> rows[i].id, match |-> FALSE, to |-> ~enabled, row |-> i,
                 sees |-> "latest", at |-> "sent"]
           n == Len(told) + 1
<1>1. /\ i \in DOMAIN rows /\ View = "table"
      /\ tasks' = tasks /\ UNCHANGED <<table, cache, last, box, sheet>>
      /\ rows' = [rows EXCEPT ![i].strayed = @ \/ earlier # {} \/ rows[i].open # enabled]
      /\ posts' = Append(told, p)
  BY DEF Switch, OnPage, Click
<1>2. /\ rows[i] \in [id : DOMAIN tasks, open : BOOLEAN, strayed : BOOLEAN]
      /\ rows[i].id \in DOMAIN tasks /\ rows[i].id \in Nat
  <2>1. DOMAIN tasks \subseteq Nat
    BY LenProperties DEF PageInv
  <2> QED
    BY <1>1, <2>1 DEF PageInv, RowsOK
<1>3. enabled \in BOOLEAN
  BY <1>1, ShownIsList DEF PageInv, Current, IsList
<1>4. p \in Posts
  <2>1. i \in Nat
    OBVIOUS
  <2> HIDE DEF enabled
  <2> QED
    BY <1>2, <1>3, <2>1 DEF Posts
<1>5. /\ told \in Seq(Posts) /\ DOMAIN told = DOMAIN posts
      /\ \A j \in DOMAIN posts :
           /\ told[j].kind = posts[j].kind /\ told[j].id = posts[j].id /\ told[j].row = posts[j].row
           /\ told[j].to = posts[j].to /\ told[j].at = posts[j].at
           /\ j \notin earlier => told[j] = posts[j]
  <2>1. DOMAIN posts = 1..Len(posts) /\ Len(posts) \in Nat /\ \A j \in DOMAIN posts : posts[j] \in Posts
    BY LenProperties, ElementOfSeq DEF PageInv, PostsOK
  <2>2. \A r \in Posts : \A sees \in {"on", "off"} :
          LET o == [r EXCEPT !.sees = sees]
          IN o \in Posts /\ o.kind = r.kind /\ o.id = r.id /\ o.row = r.row /\ o.to = r.to /\ o.at = r.at
    BY DEF Posts
  <2>3. PICK sees \in {"on", "off"} : sees = IF rows[i].open THEN "on" ELSE "off"
    OBVIOUS
  <2>4. /\ DOMAIN told = DOMAIN posts
        /\ \A j \in DOMAIN posts : \/ told[j] = posts[j]
                                   \/ j \in earlier /\ told[j] = [posts[j] EXCEPT !.sees = sees]
    <3> HIDE DEF earlier
    <3> QED
      BY <2>3
  <2>5. told = [j \in DOMAIN posts |-> told[j]]
    <3> HIDE DEF earlier
    <3> QED
      OBVIOUS
  <2> HIDE DEF told, earlier
  <2>6. ASSUME NEW j \in DOMAIN posts
        PROVE  /\ told[j] \in Posts
               /\ told[j].kind = posts[j].kind /\ told[j].id = posts[j].id /\ told[j].row = posts[j].row
               /\ told[j].to = posts[j].to /\ told[j].at = posts[j].at
               /\ j \notin earlier => told[j] = posts[j]
    <3>1. CASE told[j] = posts[j]
      BY <2>1, <3>1
    <3>2. CASE j \in earlier /\ told[j] = [posts[j] EXCEPT !.sees = sees]
      <4>1. PICK o : o = [posts[j] EXCEPT !.sees = sees]
        OBVIOUS
      <4>2. /\ o \in Posts /\ o.kind = posts[j].kind /\ o.id = posts[j].id /\ o.row = posts[j].row
            /\ o.to = posts[j].to /\ o.at = posts[j].at
        BY <2>1, <2>2, <4>1
      <4> QED
        BY <3>2, <4>1, <4>2
    <3> QED
      BY <2>4, <3>1, <3>2
  <2>7. told \in Seq(Posts)
    <3>1. told \in [1..Len(posts) -> Posts]
      BY <2>1, <2>5, <2>6
    <3> QED
      BY <2>1, <3>1, IsASeqOf
  <2> QED
    BY <2>4, <2>6, <2>7
<1>6. /\ Append(told, p) \in Seq(Posts)
      /\ DOMAIN posts' = DOMAIN posts \cup {n} /\ n \notin DOMAIN posts
      /\ posts'[n] = p /\ \A j \in DOMAIN posts : posts'[j] = told[j]
  <2> HIDE DEF told, p
  <2> QED
    BY <1>1, <1>4, <1>5, Appended
<1>7. \A j \in DOMAIN posts : j \in earlier <=> posts[j].kind = "switch" /\ posts[j].row = i
  OBVIOUS
<1>8. p.kind = "switch" /\ p.id = rows[i].id /\ p.to = ~enabled /\ p.row = i /\ p.sees = "latest" /\ p.at = "sent"
  OBVIOUS
<1> HIDE DEF told, p, n, earlier
<1>9. /\ DOMAIN rows' = DOMAIN rows
      /\ \A m \in DOMAIN rows : m # i => rows'[m] = rows[m]
      /\ rows'[i].id = rows[i].id /\ rows'[i].open = rows[i].open
      /\ rows'[i].strayed = (rows[i].strayed \/ earlier # {} \/ rows[i].open # enabled)
      /\ rows'[i] \in [id : DOMAIN tasks, open : BOOLEAN, strayed : BOOLEAN]
  <2>1. PICK strayed \in BOOLEAN : strayed = (rows[i].strayed \/ earlier # {} \/ rows[i].open # enabled)
    BY <1>2
  <2>2. rows' = [rows EXCEPT ![i] = [rows[i] EXCEPT !.strayed = strayed]]
    BY <1>1, <2>1
  <2>3. LET o == [rows[i] EXCEPT !.strayed = strayed]
        IN /\ o \in [id : DOMAIN tasks, open : BOOLEAN, strayed : BOOLEAN]
           /\ o.id = rows[i].id /\ o.open = rows[i].open /\ o.strayed = strayed
    BY <1>2
  <2> QED
    BY <1>1, <2>1, <2>2, <2>3
<1>10. RowsOK(rows', DOMAIN tasks')
  <2>1. \A m \in DOMAIN rows : rows'[m].id = rows[m].id
    BY <1>9
  <2>2. RowsOK(rows, DOMAIN tasks)
    BY DEF PageInv
  <2>3. \A m \in DOMAIN rows : rows'[m] \in [id : DOMAIN tasks, open : BOOLEAN, strayed : BOOLEAN]
    BY <1>9, <2>2 DEF RowsOK
  <2> QED
    BY <1>1, <1>9, <2>1, <2>2, <2>3 DEF RowsOK
<1>11. PostsOK(posts', rows')
  <2>1. \A j \in DOMAIN posts : posts[j].kind = "switch" => posts[j].row \in {0} \cup DOMAIN rows
    BY DEF PageInv, PostsOK
  <2>2. \A j \in DOMAIN posts : posts'[j].kind = posts[j].kind /\ posts'[j].row = posts[j].row
    BY <1>5, <1>6
  <2>3. \A j \in DOMAIN posts' : posts'[j].kind = "switch" => posts'[j].row \in {0} \cup DOMAIN rows
    BY <1>1, <1>6, <1>8, <2>1, <2>2
  <2>4. posts' \in Seq(Posts)
    BY <1>1, <1>6
  <2> QED
    BY <1>9, <2>3, <2>4 DEF PostsOK
<1>12. Sending(posts') = Sending(posts)
  BY <1>5, <1>6, <1>8 DEF Sending
<1>13. Current'
  BY <1>1, <1>9, StaysCurrent DEF PageInv
<1>14. ASSUME NEW m \in DOMAIN rows', ~rows'[m].strayed
       PROVE  RowAgrees(rows'[m], m, posts', tasks')
  <2>1. m \in DOMAIN rows /\ ~rows[m].strayed /\ rows'[m].id = rows[m].id /\ rows'[m].open = rows[m].open
    BY <1>9, <1>14
  <2>2. RowAgrees(rows[m], m, posts, tasks)
    BY <2>1 DEF PageInv, Agree
  <2>3. CASE m = i
    <3>1. earlier = {} /\ rows[i].open = enabled
      BY <1>9, <1>14, <2>3
    <3>2. \A j \in DOMAIN posts : posts[j].kind = "switch" => posts[j].row # i /\ posts[j].id # rows[i].id
      BY <1>7, <2>2, <2>3, <3>1 DEF RowAgrees
    <3>3. Switching(posts', rows[i].id) = {n}
      BY <1>5, <1>6, <1>8, <3>2 DEF Switching
    <3>4. tasks[rows[i].id].there /\ tasks[rows[i].id].enabled = rows[i].open
      <4>1. Switching(posts, rows[i].id) = {}
        BY <3>2 DEF Switching
      <4> QED
        BY <2>2, <2>3, <4>1 DEF RowAgrees
    <3>5. \A j \in DOMAIN posts' : posts'[j].kind = "switch" => (posts'[j].row = i <=> posts'[j].id = rows[i].id)
      BY <1>5, <1>6, <1>8, <3>2
    <3>6. posts'[n].sees = "latest" /\ posts'[n].to = ~rows[i].open /\ posts'[n].at # "applied"
      BY <1>6, <1>8, <3>1
    <3>7. RowAgrees(rows[i], i, posts', tasks)
      BY <3>3, <3>4, <3>5, <3>6 DEF RowAgrees
    <3>8. rows'[m].id = rows[i].id /\ rows'[m].open = rows[i].open /\ tasks' = tasks
      BY <1>1, <2>1, <2>3
    <3>9. RowAgrees(rows'[m], i, posts', tasks')
      BY <3>7, <3>8, Zenon DEF RowAgrees
    <3> QED
      BY <2>3, <3>9
  <2>4. CASE m # i
    <3>1. rows[m].id # rows[i].id
      BY <1>1, <2>1, <2>4 DEF PageInv, RowsOK
    <3>2. \A j \in DOMAIN posts' : posts'[j].kind = "switch" => (posts'[j].row = m <=> posts'[j].id = rows[m].id)
      BY <1>5, <1>6, <1>8, <2>2, <2>4, <3>1 DEF RowAgrees
    <3>3. Switching(posts', rows[m].id) = Switching(posts, rows[m].id)
      BY <1>5, <1>6, <1>8, <3>1 DEF Switching
    <3>4. ASSUME NEW j \in Switching(posts, rows[m].id)
          PROVE  posts'[j] = posts[j]
      <4>1. j \in DOMAIN posts /\ posts[j].kind = "switch" /\ posts[j].id = rows[m].id
        BY DEF Switching
      <4>2. j \notin earlier
        BY <1>7, <2>2, <2>4, <4>1 DEF RowAgrees
      <4> QED
        BY <1>5, <1>6, <4>1, <4>2
    <3>5. \A j \in Switching(posts, rows[m].id) :
            /\ posts'[j].sees = "latest" /\ posts'[j].to = ~rows[m].open
            /\ tasks[rows[m].id].enabled = IF posts'[j].at = "applied" THEN posts'[j].to ELSE rows[m].open
      BY <2>2, <3>4 DEF RowAgrees
    <3>6. /\ tasks[rows[m].id].there
          /\ \A j, l \in Switching(posts, rows[m].id) : j = l
          /\ Switching(posts, rows[m].id) = {} => tasks[rows[m].id].enabled = rows[m].open
      BY <2>2 DEF RowAgrees
    <3>7. RowAgrees(rows[m], m, posts', tasks)
      BY <3>2, <3>3, <3>5, <3>6 DEF RowAgrees
    <3> QED
      BY <1>1, <1>9, <2>1, <2>4, <3>7
  <2> QED
    BY <2>3, <2>4
<1> QED
  BY <1>1, <1>10, <1>11, <1>12, <1>13, <1>14 DEF PageInv, SheetOK, Agree

-----------------------------------------------------------------------------
\* Queries with the data of a sound one.
QueriesOf(e, answer) ==
  [data : {e.data, e.read, answer, NoData}, error : {"none", "Error", "undefined"},
   read : {e.data, e.read, answer, NoData}, missed : {e.missed}, fetch : {"idle", "sent", "read"}]

LEMMA QueriesSound ==
  ASSUME NEW ids, NEW e, QueryOK(e, ids), NEW answer, Sound(answer, ids)
  PROVE  /\ e \in QueriesOf(e, answer)
         /\ \A t \in QueriesOf(e, answer) : QueryOK(t, ids)
<1> DEFINE D == {e.data, e.read, answer, NoData}
           E == {"none", "Error", "undefined"}
           M == {e.missed}
           F == {"idle", "sent", "read"}
           All == [data : D, error : E, read : D, missed : M, fetch : F]
<1>1. /\ e = [data |-> e.data, error |-> e.error, read |-> e.read, missed |-> e.missed, fetch |-> e.fetch]
      /\ e.error \in E /\ e.fetch \in F /\ e.data \in D /\ e.read \in D /\ e.missed \in M
  BY DEF QueryOK
<1>2. \A d \in D : Sound(d, ids)
  BY DEF QueryOK, Sound
<1>3. All = QueriesOf(e, answer)
  BY DEF QueriesOf
<1> HIDE DEF D, E, M, F
<1>4. \A d, r \in D, x \in E, m \in M, f \in F :
        [data |-> d, error |-> x, read |-> r, missed |-> m, fetch |-> f] \in All
  OBVIOUS
<1>5. e \in All
  BY <1>1, <1>4
<1>6. \A t \in All : t = [data |-> t.data, error |-> t.error, read |-> t.read, missed |-> t.missed, fetch |-> t.fetch]
  OBVIOUS
<1>7. ASSUME NEW t \in All
      PROVE  QueryOK(t, ids)
  <2>1. t.data \in D /\ t.read \in D /\ t.error \in E /\ t.fetch \in F
    OBVIOUS
  <2> HIDE DEF All
  <2>2. Sound(t.data, ids) /\ Sound(t.read, ids)
    BY <1>2, <2>1
  <2>3. t = [data |-> t.data, error |-> t.error, read |-> t.read, missed |-> t.missed, fetch |-> t.fetch]
    BY <1>6
  <2> QED
    BY <2>1, <2>2, <2>3 DEF QueryOK, E, F
<1> HIDE DEF All
<1> QED
  BY <1>3, <1>5, <1>7

\* What the page shows of a query.
SameData(q, e) == q.data = e.data /\ q.error = e.error

\* An answer on its way, one that arrives and one that does not.
LEMMA QueryRead ==
  ASSUME NEW ids, NEW e, QueryOK(e, ids), NEW answer, Sound(answer, ids),
         NEW q, q = [e EXCEPT !.fetch = "read", !.read = answer]
  PROVE  QueryOK(q, ids) /\ SameData(q, e)
<1>1. e \in QueriesOf(e, answer)
  BY QueriesSound
<1>2. q \in QueriesOf(e, answer) /\ q.data = e.data /\ q.error = e.error
  BY <1>1 DEF QueriesOf
<1> QED
  BY <1>2, QueriesSound DEF SameData

LEMMA QueryEnded ==
  ASSUME NEW ids, NEW e, QueryOK(e, ids),
         NEW q, q = [e EXCEPT !.data = e.read, !.error = "none", !.fetch = "idle", !.read = NoData]
  PROVE  QueryOK(q, ids)
<1>1. Sound(NoData, ids)
  BY DEF Sound
<1>2. e \in QueriesOf(e, NoData)
  BY <1>1, QueriesSound
<1>3. q \in QueriesOf(e, NoData)
  BY <1>2 DEF QueriesOf
<1> QED
  BY <1>1, <1>3, QueriesSound

LEMMA QueryLost ==
  ASSUME NEW ids, NEW e, QueryOK(e, ids), NEW error \in {"Error", "undefined"},
         NEW q, q = [e EXCEPT !.error = error, !.fetch = "idle", !.read = NoData]
  PROVE  QueryOK(q, ids)
<1>1. Sound(NoData, ids)
  BY DEF Sound
<1>2. e \in QueriesOf(e, NoData)
  BY <1>1, QueriesSound
<1>3. q \in QueriesOf(e, NoData)
  BY <1>2 DEF QueriesOf
<1> QED
  BY <1>1, <1>3, QueriesSound

\* The server answers a query, or refuses it: nothing is drawn yet.
LEMMA ServeKeeps ==
  ASSUME PageInv, NEW k \in Keys, Serve(k)
  PROVE  PageInv'
<1>1. CacheOK(cache, DOMAIN tasks) /\ QueryOK(cache[k], DOMAIN tasks)
  BY DEF PageInv, CacheOK
<1>2. PICK answer \in {ListJobs(k), Refused} :
        cache' = [cache EXCEPT ![k].fetch = "read", ![k].read = answer]
  BY DEF Serve
<1>3. Sound(answer, DOMAIN tasks)
  <2>1. Len(tasks) <= MaxTasks
    <3>1. Len(tasks) \in Nat /\ Cardinality(Sending(posts)) \in Nat /\ MaxTasks \in Nat
      BY SendingFinite, LenProperties, TaskPageAssumption DEF PageInv, PostsOK
    <3> QED
      BY <3>1 DEF PageInv
  <2>2. IsList(ListJobs(k), DOMAIN tasks)
    BY <2>1, AnswerIsList DEF PageInv
  <2> QED
    BY <2>2 DEF Sound
<1>4. PICK q : q = [cache[k] EXCEPT !.fetch = "read", !.read = answer]
  OBVIOUS
<1>5. QueryOK(q, DOMAIN tasks) /\ q.data = cache[k].data /\ q.error = cache[k].error
  <2>1. QueryOK(q, DOMAIN tasks) /\ SameData(q, cache[k])
    BY <1>1, <1>3, <1>4, QueryRead
  <2> QED
    BY <2>1 DEF SameData
<1>6. cache' = [cache EXCEPT ![k] = q]
  <2>1. DOMAIN cache = Keys
    BY <1>1 DEF CacheOK
  <2>2. cache' = [[cache EXCEPT ![k] = [cache[k] EXCEPT !.fetch = "read"]] EXCEPT
                    ![k] = [[cache EXCEPT ![k] = [cache[k] EXCEPT !.fetch = "read"]][k] EXCEPT !.read = answer]]
    BY <1>2, Zenon
  <2>3. PICK r : r = [cache[k] EXCEPT !.fetch = "read"]
    OBVIOUS
  <2>4. [cache EXCEPT ![k] = r][k] = r /\ [[cache EXCEPT ![k] = r] EXCEPT ![k] = q] = [cache EXCEPT ![k] = q]
    BY <2>1
  <2>5. q = [[cache[k] EXCEPT !.fetch = "read"] EXCEPT !.read = answer]
    BY <1>4, Zenon
  <2> QED
    BY <2>2, <2>3, <2>4, <2>5
<1>7. CacheOK(cache', DOMAIN tasks)
  BY <1>1, <1>5, <1>6, CacheWith
<1>8. \A x \in Keys : cache'[x].data = cache[x].data /\ cache'[x].error = cache[x].error
  <2>1. DOMAIN cache = Keys
    BY <1>1 DEF CacheOK
  <2> QED
    BY <1>5, <1>6, <2>1
<1>9. UNCHANGED <<tasks, table, last, box, rows, sheet, posts>>
  BY DEF Serve
<1>10. Current'
  <2>1. table \in Keys /\ last \in Keys \cup {NoKey}
    BY DEF PageInv
  <2>2. Displayed' = Displayed
    BY <1>8, <1>9, <2>1 DEF Displayed
  <2>3. View' = View
    BY <1>8, <1>9, <2>1, <2>2 DEF View
  <2> QED
    BY <1>9, <2>2, <2>3 DEF PageInv, Current
<1> QED
  BY <1>7, <1>9, <1>10 DEF PageInv, SheetOK

LEMMA QueryDoneKeeps ==
  ASSUME PageInv, NEW k \in Keys, QueryDone(k)
  PROVE  PageInv'
<1>1. CacheOK(cache, DOMAIN tasks) /\ QueryOK(cache[k], DOMAIN tasks) /\ DOMAIN cache = Keys
  BY DEF PageInv, CacheOK
<1>2. PICK q : q = [cache[k] EXCEPT !.data = cache[k].read, !.error = "none", !.fetch = "idle", !.read = NoData]
  OBVIOUS
<1>3. QueryOK(q, DOMAIN tasks)
  BY <1>1, <1>2, QueryEnded
<1>4. cache' = [cache EXCEPT ![k] = q]
  BY <1>2 DEF QueryDone
<1>5. CacheOK(cache', DOMAIN tasks)
  BY <1>1, <1>3, <1>4, CacheWith
<1>6. Drawing(last, box, rows, sheet, posts) /\ UNCHANGED <<tasks, table>>
  BY DEF QueryDone
<1> QED
  BY <1>5, <1>6, DrawingKeeps DEF PageInv, SheetOK

LEMMA QueryFailedKeeps ==
  ASSUME PageInv, NEW k \in Keys, NEW outcome, QueryFailed(k, outcome)
  PROVE  PageInv'
<1>1. CacheOK(cache, DOMAIN tasks) /\ QueryOK(cache[k], DOMAIN tasks) /\ DOMAIN cache = Keys
  BY DEF PageInv, CacheOK
<1>2. PICK error \in {"Error", "undefined"} : error = IF IsError(outcome) THEN "Error" ELSE "undefined"
  OBVIOUS
<1>3. PICK q : q = [cache[k] EXCEPT !.error = error, !.fetch = "idle", !.read = NoData]
  OBVIOUS
<1>4. QueryOK(q, DOMAIN tasks)
  BY <1>1, <1>3, QueryLost
<1>5. cache' = [cache EXCEPT ![k] = q]
  <2>1. cache' = [cache EXCEPT ![k].error = error, ![k].fetch = "idle", ![k].read = NoData]
    BY <1>2 DEF QueryFailed
  <2>2. PICK r : r = [cache[k] EXCEPT !.error = error]
    OBVIOUS
  <2>3. PICK t : t = [r EXCEPT !.fetch = "idle"]
    OBVIOUS
  <2>4. PICK c : c = [cache EXCEPT ![k] = r]
    OBVIOUS
  <2>5. PICK d : d = [c EXCEPT ![k] = [c[k] EXCEPT !.fetch = "idle"]]
    OBVIOUS
  <2>6. cache' = [d EXCEPT ![k] = [d[k] EXCEPT !.read = NoData]]
    BY <2>1, <2>2, <2>4, <2>5, Zenon
  <2>7. DOMAIN c = Keys /\ c[k] = r /\ \A x \in Keys : x # k => c[x] = cache[x]
    BY <1>1, <2>4
  <2>8. d = [cache EXCEPT ![k] = t] /\ d[k] = t
    BY <1>1, <2>3, <2>4, <2>5, <2>7
  <2>9. q = [t EXCEPT !.read = NoData]
    BY <1>3, <2>2, <2>3, Zenon
  <2> QED
    BY <1>1, <2>6, <2>8, <2>9
<1>6. CacheOK(cache', DOMAIN tasks)
  BY <1>1, <1>4, <1>5, CacheWith
<1>7. Drawing(last, box, rows, sheet, posts) /\ UNCHANGED <<tasks, table>>
  BY DEF QueryFailed
<1> QED
  BY <1>6, <1>7, DrawingKeeps DEF PageInv, SheetOK

-----------------------------------------------------------------------------
\* A mutation that got to the server, or was refused.
LEMMA PostAt ==
  ASSUME NEW ps \in Seq(Posts), NEW j \in DOMAIN ps, NEW at \in {"applied", "refused"},
         NEW qs, qs = [ps EXCEPT ![j].at = at]
  PROVE  /\ qs \in Seq(Posts) /\ DOMAIN qs = DOMAIN ps
         /\ \A h \in DOMAIN ps : /\ qs[h].kind = ps[h].kind /\ qs[h].id = ps[h].id /\ qs[h].row = ps[h].row
                                 /\ qs[h].to = ps[h].to /\ qs[h].sees = ps[h].sees
                                 /\ h # j => qs[h].at = ps[h].at
         /\ qs[j].at = at
<1>1. Len(ps) \in Nat /\ DOMAIN ps = 1..Len(ps) /\ \A h \in DOMAIN ps : ps[h] \in Posts
  BY LenProperties, ElementOfSeq
<1>2. PICK p : p = [ps[j] EXCEPT !.at = at]
  OBVIOUS
<1>3. /\ p \in Posts /\ p.kind = ps[j].kind /\ p.id = ps[j].id /\ p.row = ps[j].row
      /\ p.to = ps[j].to /\ p.sees = ps[j].sees /\ p.at = at
  <2>1. ps[j] \in Posts
    BY <1>1
  <2> QED
    BY <1>2, <2>1 DEF Posts
<1>4. qs = [ps EXCEPT ![j] = p]
  BY <1>2
<1>5. qs \in Seq(Posts) /\ Len(qs) = Len(ps)
      /\ \A h \in 1..Len(ps) : qs[h] = IF h = j THEN p ELSE ps[h]
  BY <1>1, <1>3, <1>4, ExceptSeq
<1>6. DOMAIN qs = DOMAIN ps
  BY <1>1, <1>4
<1> QED
  BY <1>1, <1>3, <1>5, <1>6

LEMMA RefuseKeeps ==
  ASSUME PageInv, NEW j \in DOMAIN posts, Refuse(j)
  PROVE  PageInv'
<1>1. /\ posts' = [posts EXCEPT ![j].at = "refused"] /\ posts[j].at = "sent"
      /\ UNCHANGED <<tasks, table, cache, last, box, rows, sheet>>
  BY DEF Refuse
<1>2. /\ posts' \in Seq(Posts) /\ DOMAIN posts' = DOMAIN posts
      /\ \A h \in DOMAIN posts :
           /\ posts'[h].kind = posts[h].kind /\ posts'[h].id = posts[h].id /\ posts'[h].row = posts[h].row
           /\ posts'[h].to = posts[h].to /\ posts'[h].sees = posts[h].sees
           /\ h # j => posts'[h].at = posts[h].at
      /\ posts'[j].at = "refused"
  <2>1. posts \in Seq(Posts) /\ "refused" \in {"applied", "refused"}
    BY DEF PageInv, PostsOK
  <2> QED
    BY <1>1, <2>1, PostAt
<1>3. PostsOK(posts', rows')
  BY <1>1, <1>2 DEF PageInv, PostsOK
<1>4. Cardinality(Sending(posts')) <= Cardinality(Sending(posts))
  <2>1. Sending(posts') \in SUBSET Sending(posts)
    BY <1>2 DEF Sending
  <2> QED
    BY <2>1, SendingFinite, FS_Subset DEF PageInv, PostsOK
<1>5. Len(tasks) + Cardinality(Sending(posts')) <= MaxTasks
  <2>1. /\ Len(tasks) \in Nat /\ MaxTasks \in Nat /\ Cardinality(Sending(posts)) \in Nat
        /\ Cardinality(Sending(posts')) \in Nat
    BY <1>2, SendingFinite, LenProperties, TaskPageAssumption DEF PageInv, PostsOK
  <2> QED
    BY <1>4, <2>1 DEF PageInv
<1>6. \A id : Switching(posts', id) = Switching(posts, id)
  BY <1>2 DEF Switching
<1>7. ASSUME NEW i \in DOMAIN rows, ~rows[i].strayed
      PROVE  RowAgrees(rows[i], i, posts', tasks)
  <2>1. RowAgrees(rows[i], i, posts, tasks)
    BY <1>7 DEF PageInv, Agree
  <2>2. \A h \in Switching(posts, rows[i].id) : h \in DOMAIN posts
    BY DEF Switching
  <2>3. \A h \in DOMAIN posts' : posts'[h].kind = "switch" => (posts'[h].row = i <=> posts'[h].id = rows[i].id)
    BY <1>2, <2>1 DEF RowAgrees
  <2>4. ASSUME NEW h \in Switching(posts, rows[i].id)
        PROVE  /\ posts'[h].sees = "latest" /\ posts'[h].to = ~rows[i].open
               /\ tasks[rows[i].id].enabled = IF posts'[h].at = "applied" THEN posts'[h].to ELSE rows[i].open
    <3>1. /\ posts[h].sees = "latest" /\ posts[h].to = ~rows[i].open
          /\ tasks[rows[i].id].enabled = IF posts[h].at = "applied" THEN posts[h].to ELSE rows[i].open
      BY <2>1 DEF RowAgrees
    <3>2. posts'[h].at = "applied" <=> posts[h].at = "applied"
      BY <1>1, <1>2, <2>2
    <3> QED
      BY <1>2, <2>2, <3>1, <3>2
  <2> QED
    BY <1>6, <2>1, <2>3, <2>4 DEF RowAgrees
<1>8. Current'
  BY <1>1, StaysCurrent DEF PageInv
<1> QED
  BY <1>1, <1>3, <1>5, <1>7, <1>8 DEF PageInv, SheetOK, Agree

\* What was sound of the tasks there were is sound of more of them.
LEMMA Grown ==
  ASSUME NEW ids, NEW more, ids \subseteq more
  PROVE  /\ \A c : CacheOK(c, ids) => CacheOK(c, more)
         /\ \A rs : RowsOK(rs, ids) => RowsOK(rs, more)
<1>1. \A l : IsList(l, ids) => IsList(l, more)
  BY DEF IsList
<1>2. \A q : QueryOK(q, ids) => QueryOK(q, more)
  BY <1>1 DEF QueryOK, Sound
<1>3. \A c : CacheOK(c, ids) => CacheOK(c, more)
  BY <1>2 DEF CacheOK
<1>4. ASSUME NEW rs, RowsOK(rs, ids)
      PROVE  RowsOK(rs, more)
  <2>1. \A i \in DOMAIN rs : rs[i] \in [id : more, open : BOOLEAN, strayed : BOOLEAN]
    BY <1>4 DEF RowsOK
  <2> QED
    BY <1>4, <2>1 DEF RowsOK
<1> QED
  BY <1>3, <1>4

\* The tasks after a mutation was applied.
LEMMA AppliedTasks ==
  ASSUME PageInv, NEW j \in DOMAIN posts, Apply(j)
  PROVE  /\ tasks' \in Seq(Tasks) /\ DOMAIN tasks \subseteq DOMAIN tasks'
         /\ Len(tasks') = IF posts[j].kind = "add" THEN Len(tasks) + 1 ELSE Len(tasks)
         /\ \A id \in DOMAIN tasks :
              /\ tasks'[id].there = tasks[id].there
              /\ tasks[id].there =>
                   tasks'[id].enabled = IF posts[j].kind = "switch" /\ posts[j].id = id THEN posts[j].to
                                        ELSE tasks[id].enabled
<1>1. /\ tasks \in Seq(Tasks) /\ DOMAIN tasks = 1..Len(tasks) /\ Len(tasks) \in Nat
      /\ \A id \in DOMAIN tasks : tasks[id] \in Tasks
  BY LenProperties, ElementOfSeq DEF PageInv
<1>2. posts[j] \in Posts
  BY ElementOfSeq, LenProperties DEF PageInv, PostsOK
<1>3. posts[j].match \in BOOLEAN /\ posts[j].to \in BOOLEAN /\ posts[j].kind \in {"add", "switch"}
  BY <1>2 DEF Posts
<1>4. CASE posts[j].kind = "add"
  <2>1. PICK t : t = NewTask(posts[j].match)
    OBVIOUS
  <2>2. t \in Tasks /\ tasks' = Append(tasks, t)
    BY <1>3, <1>4, <2>1 DEF Apply, Tasks, NewTask
  <2>3. /\ tasks' \in Seq(Tasks) /\ Len(tasks') = Len(tasks) + 1
        /\ \A id \in 1..Len(tasks) : tasks'[id] = tasks[id]
    BY <1>1, <2>2, AppendProperties
  <2>4. DOMAIN tasks' = 1..Len(tasks) + 1
    BY <2>3, LenProperties
  <2> QED
    BY <1>1, <1>4, <2>3, <2>4
<1>5. CASE posts[j].kind = "switch"
  <2>1. PICK t : t = [tasks[posts[j].id] EXCEPT !.enabled = IF tasks[posts[j].id].there THEN posts[j].to ELSE @]
    OBVIOUS
  <2>2. tasks' = [tasks EXCEPT ![posts[j].id] = t]
    BY <1>5, <2>1 DEF Apply
  <2>3. posts[j].id \in DOMAIN tasks =>
          /\ t \in Tasks /\ t.there = tasks[posts[j].id].there
          /\ tasks[posts[j].id].there => t.enabled = posts[j].to
    BY <1>1, <1>3, <2>1 DEF Tasks
  <2>4. /\ tasks' \in [1..Len(tasks) -> Tasks]
        /\ \A id \in DOMAIN tasks : tasks'[id] = IF id = posts[j].id THEN t ELSE tasks[id]
    <3>1. tasks \in [1..Len(tasks) -> Tasks]
      BY <1>1, LenProperties
    <3> QED
      BY <1>1, <2>2, <2>3, <3>1
  <2>5. tasks' \in Seq(Tasks)
    BY <1>1, <2>4, IsASeqOf
  <2>6. DOMAIN tasks' = 1..Len(tasks)
    BY <2>4
  <2>7. Len(tasks') = Len(tasks)
    <3>1. tasks' \in Seq(Tasks) /\ 1..Len(tasks') = 1..Len(tasks) /\ Len(tasks') \in Nat
      BY <2>5, <2>6, LenProperties
    <3>2. \A m, n \in Nat : 1..m = 1..n => m = n
      <4> SUFFICES ASSUME NEW m \in Nat, NEW n \in Nat, 1..m = 1..n
                   PROVE  m = n
        OBVIOUS
      <4>1. ~(m < n)
        <5>1. m < n => n \in 1..n /\ n \notin 1..m
          OBVIOUS
        <5> QED
          BY <5>1
      <4>2. ~(n < m)
        <5>1. n < m => m \in 1..m /\ m \notin 1..n
          OBVIOUS
        <5> QED
          BY <5>1
      <4> QED
        BY <4>1, <4>2
    <3> QED
      BY <1>1, <3>1, <3>2
  <2> QED
    BY <1>1, <1>5, <2>3, <2>4, <2>5, <2>6, <2>7
<1> QED
  BY <1>3, <1>4, <1>5

LEMMA ApplyKeeps ==
  ASSUME PageInv, NEW j \in DOMAIN posts, Apply(j)
  PROVE  PageInv'
<1>1. /\ posts' = [posts EXCEPT ![j].at = "applied"] /\ posts[j].at = "sent"
      /\ UNCHANGED <<table, cache, last, box, rows, sheet>>
  BY DEF Apply
<1>2. /\ posts' \in Seq(Posts) /\ DOMAIN posts' = DOMAIN posts
      /\ \A h \in DOMAIN posts :
           /\ posts'[h].kind = posts[h].kind /\ posts'[h].id = posts[h].id /\ posts'[h].row = posts[h].row
           /\ posts'[h].to = posts[h].to /\ posts'[h].sees = posts[h].sees
           /\ h # j => posts'[h].at = posts[h].at
      /\ posts'[j].at = "applied"
  <2>1. posts \in Seq(Posts) /\ "applied" \in {"applied", "refused"}
    BY DEF PageInv, PostsOK
  <2> QED
    BY <1>1, <2>1, PostAt
<1>3. /\ tasks' \in Seq(Tasks) /\ DOMAIN tasks \subseteq DOMAIN tasks'
      /\ Len(tasks') = IF posts[j].kind = "add" THEN Len(tasks) + 1 ELSE Len(tasks)
      /\ \A id \in DOMAIN tasks :
           /\ tasks'[id].there = tasks[id].there
           /\ tasks[id].there =>
                tasks'[id].enabled = IF posts[j].kind = "switch" /\ posts[j].id = id THEN posts[j].to
                                     ELSE tasks[id].enabled
  BY AppliedTasks
<1>4. PostsOK(posts', rows')
  BY <1>1, <1>2 DEF PageInv, PostsOK
<1>5. CacheOK(cache', DOMAIN tasks') /\ RowsOK(rows', DOMAIN tasks')
  <2>1. CacheOK(cache, DOMAIN tasks') /\ RowsOK(rows, DOMAIN tasks')
    BY <1>3, Grown DEF PageInv
  <2> QED
    BY <1>1, <2>1
<1>6. Len(tasks') + Cardinality(Sending(posts')) <= MaxTasks
  <2>1. /\ Len(tasks) \in Nat /\ MaxTasks \in Nat /\ IsFiniteSet(Sending(posts))
        /\ Cardinality(Sending(posts)) \in Nat
        /\ Len(tasks) + Cardinality(Sending(posts)) <= MaxTasks
    BY SendingFinite, LenProperties, TaskPageAssumption DEF PageInv, PostsOK
  <2>2. Sending(posts') = Sending(posts) \ {j}
    BY <1>1, <1>2 DEF Sending
  <2>3. CASE posts[j].kind = "add"
    <3>1. j \in Sending(posts)
      BY <1>1, <2>3 DEF Sending
    <3>2. Cardinality(Sending(posts')) = Cardinality(Sending(posts)) - 1
      BY <2>1, <2>2, <3>1, FS_RemoveElement
    <3> QED
      BY <1>3, <2>1, <2>3, <3>2
  <2>4. CASE posts[j].kind # "add"
    <3>1. Sending(posts') = Sending(posts)
      BY <2>2, <2>4 DEF Sending
    <3> QED
      BY <1>3, <2>1, <2>4, <3>1
  <2> QED
    BY <2>3, <2>4
<1>7. \A id : Switching(posts', id) = Switching(posts, id)
  BY <1>2 DEF Switching
<1>8. ASSUME NEW i \in DOMAIN rows, ~rows[i].strayed
      PROVE  RowAgrees(rows[i], i, posts', tasks')
  <2>1. RowAgrees(rows[i], i, posts, tasks)
    BY <1>8 DEF PageInv, Agree
  <2>2. \A h \in Switching(posts, rows[i].id) : h \in DOMAIN posts /\ posts[h].kind = "switch" /\ posts[h].id = rows[i].id
    BY DEF Switching
  <2>3. \A h \in DOMAIN posts' : posts'[h].kind = "switch" => (posts'[h].row = i <=> posts'[h].id = rows[i].id)
    BY <1>2, <2>1 DEF RowAgrees
  <2>4. rows[i].id \in DOMAIN tasks /\ tasks[rows[i].id].there /\ tasks'[rows[i].id].there
    BY <1>3, <2>1 DEF PageInv, RowsOK, RowAgrees
  <2>5. ASSUME NEW h \in Switching(posts, rows[i].id)
        PROVE  /\ posts'[h].sees = "latest" /\ posts'[h].to = ~rows[i].open
               /\ tasks'[rows[i].id].enabled = IF posts'[h].at = "applied" THEN posts'[h].to ELSE rows[i].open
    <3>1. /\ posts[h].sees = "latest" /\ posts[h].to = ~rows[i].open
          /\ tasks[rows[i].id].enabled = IF posts[h].at = "applied" THEN posts[h].to ELSE rows[i].open
      BY <2>1 DEF RowAgrees
    <3>2. CASE h = j
      BY <1>2, <1>3, <2>2, <2>4, <3>1, <3>2
    <3>3. CASE h # j
      <4>1. ~(posts[j].kind = "switch" /\ posts[j].id = rows[i].id)
        BY <2>1, <3>3 DEF RowAgrees, Switching
      <4>2. tasks'[rows[i].id].enabled = tasks[rows[i].id].enabled
        BY <1>3, <2>4, <4>1
      <4>3. posts'[h].at = posts[h].at /\ posts'[h].to = posts[h].to /\ posts'[h].sees = posts[h].sees
        BY <1>2, <2>2, <3>3
      <4> QED
        BY <3>1, <4>2, <4>3
    <3> QED
      BY <3>2, <3>3
  <2>6. ASSUME Switching(posts, rows[i].id) = {}
        PROVE  tasks'[rows[i].id].enabled = rows[i].open
    <3>1. tasks[rows[i].id].enabled = rows[i].open
      BY <2>1, <2>6 DEF RowAgrees
    <3>2. ~(posts[j].kind = "switch" /\ posts[j].id = rows[i].id)
      BY <2>6 DEF Switching
    <3> QED
      BY <1>3, <2>4, <3>1, <3>2
  <2> QED
    BY <1>7, <2>1, <2>3, <2>4, <2>5, <2>6 DEF RowAgrees
<1>9. Current'
  BY <1>1, StaysCurrent DEF PageInv
<1> QED
  BY <1>1, <1>3, <1>4, <1>5, <1>6, <1>8, <1>9 DEF PageInv, SheetOK, Agree

-----------------------------------------------------------------------------
\* One task in the place of another: the ids there are stay the same.
LEMMA Replaced ==
  ASSUME NEW ts \in Seq(Tasks), NEW id \in DOMAIN ts, NEW t \in Tasks
  PROVE  /\ [ts EXCEPT ![id] = t] \in Seq(Tasks) /\ Len([ts EXCEPT ![id] = t]) = Len(ts)
         /\ DOMAIN [ts EXCEPT ![id] = t] = DOMAIN ts
         /\ \A x \in DOMAIN ts : x # id => [ts EXCEPT ![id] = t][x] = ts[x]
BY ExceptSeq

\* What somebody else changes is one task, or a task more.
LEMMA OthersTasks ==
  ASSUME PageInv, NEW id \in 0..MaxTasks, OthersChange(id)
  PROVE  /\ tasks' \in Seq(Tasks) /\ DOMAIN tasks \subseteq DOMAIN tasks'
         /\ Len(tasks') + Cardinality(Sending(posts)) <= MaxTasks
         /\ \A x \in DOMAIN tasks : x # id => tasks'[x] = tasks[x]
<1>1. /\ tasks \in Seq(Tasks) /\ DOMAIN tasks = 1..Len(tasks) /\ Len(tasks) \in Nat
      /\ \A x \in DOMAIN tasks : tasks[x] \in Tasks
  BY LenProperties, ElementOfSeq DEF PageInv
<1>2. /\ Cardinality(Sending(posts)) \in Nat /\ MaxTasks \in Nat
      /\ Len(tasks) + Cardinality(Sending(posts)) <= MaxTasks
  BY SendingFinite, TaskPageAssumption DEF PageInv, PostsOK
<1>3. ASSUME Len(tasks) + Adding < MaxTasks, NEW match \in BOOLEAN, tasks' = Append(tasks, NewTask(match))
      PROVE  /\ tasks' \in Seq(Tasks) /\ DOMAIN tasks \subseteq DOMAIN tasks'
             /\ Len(tasks') + Cardinality(Sending(posts)) <= MaxTasks
             /\ \A x \in DOMAIN tasks : tasks'[x] = tasks[x]
  <2>1. NewTask(match) \in Tasks
    BY <1>3 DEF NewTask, Tasks
  <2>2. /\ tasks' \in Seq(Tasks) /\ Len(tasks') = Len(tasks) + 1
        /\ \A x \in 1..Len(tasks) : tasks'[x] = tasks[x]
    BY <1>1, <1>3, <2>1, AppendProperties
  <2>3. DOMAIN tasks' = 1..Len(tasks) + 1
    BY <2>2, LenProperties
  <2>4. Adding = Cardinality(Sending(posts))
    BY DEF Adding, Sending
  <2> QED
    BY <1>1, <1>2, <1>3, <2>2, <2>3, <2>4
<1>4. ASSUME id \in DOMAIN tasks, NEW t \in Tasks, tasks' = [tasks EXCEPT ![id] = t]
      PROVE  /\ tasks' \in Seq(Tasks) /\ DOMAIN tasks \subseteq DOMAIN tasks'
             /\ Len(tasks') + Cardinality(Sending(posts)) <= MaxTasks
             /\ \A x \in DOMAIN tasks : x # id => tasks'[x] = tasks[x]
  BY <1>1, <1>2, <1>4, Replaced
<1>5. CASE id = 0
  BY <1>1, <1>3, <1>5 DEF OthersChange
<1>6. CASE id \in DOMAIN tasks
  <2>1. PICK t \in Tasks : tasks' = [tasks EXCEPT ![id] = t]
    <3>1. /\ [tasks[id] EXCEPT !.enabled = ~tasks[id].enabled] \in Tasks
          /\ [tasks[id] EXCEPT !.there = FALSE] \in Tasks
      BY <1>1, <1>6 DEF Tasks
    <3>2. id # 0
      BY <1>1, <1>6
    <3> QED
      BY <3>1, <3>2 DEF OthersChange
  <2> QED
    BY <1>4, <1>6, <2>1
<1> QED
  BY <1>5, <1>6 DEF OthersChange

\* Every row of what was changed strays, and the others are of tasks that stayed as they were.
LEMMA OthersChangeKeeps ==
  ASSUME PageInv, NEW id \in 0..MaxTasks, OthersChange(id)
  PROVE  PageInv'
<1>1. /\ tasks' \in Seq(Tasks) /\ DOMAIN tasks \subseteq DOMAIN tasks'
      /\ Len(tasks') + Cardinality(Sending(posts)) <= MaxTasks
      /\ \A x \in DOMAIN tasks : x # id => tasks'[x] = tasks[x]
  BY OthersTasks
<1>2. UNCHANGED <<table, last, box, sheet, posts>>
  BY DEF OthersChange
<1>3. /\ CacheOK(cache', DOMAIN tasks')
      /\ \A k \in Keys : cache'[k].data = cache[k].data /\ cache'[k].error = cache[k].error
  <2>1. cache' = [k \in Keys |->
          [cache[k] EXCEPT !.missed = @ \/ (cache[k].fetch # "sent" /\ ListJobs(k)' # ListJobs(k))]]
    BY DEF OthersChange
  <2>2. CacheOK(cache, DOMAIN tasks')
    BY <1>1, Grown DEF PageInv
  <2>3. ASSUME NEW k \in Keys
        PROVE  /\ QueryOK(cache'[k], DOMAIN tasks')
               /\ cache'[k].data = cache[k].data /\ cache'[k].error = cache[k].error
    <3>1. PICK missed : cache'[k] = [cache[k] EXCEPT !.missed = missed]
      BY <2>1, Zenon
    <3>2. QueryOK(cache[k], DOMAIN tasks')
      BY <2>2 DEF CacheOK
    <3>3. QueryOK([cache[k] EXCEPT !.missed = missed], DOMAIN tasks')
      BY <3>2, MissedQuery
    <3>4. cache[k] = [data |-> cache[k].data, error |-> cache[k].error, read |-> cache[k].read,
                      missed |-> cache[k].missed, fetch |-> cache[k].fetch]
      BY <3>2 DEF QueryOK
    <3> QED
      BY <3>1, <3>3, <3>4
  <2>4. cache' = [k \in Keys |-> cache'[k]]
    BY <2>1
  <2> QED
    BY <2>3, <2>4 DEF CacheOK
<1>4. /\ DOMAIN rows' = DOMAIN rows
      /\ \A i \in DOMAIN rows :
           /\ rows'[i] \in [id : {rows[i].id}, open : {rows[i].open}, strayed : BOOLEAN]
           /\ ~rows'[i].strayed => ~rows[i].strayed /\ rows[i].id # id
  <2>1. rows' = [i \in DOMAIN rows |-> [rows[i] EXCEPT !.strayed = @ \/ rows[i].id = id]]
    BY DEF OthersChange
  <2>2. \A i \in DOMAIN rows : rows[i] \in [id : DOMAIN tasks, open : BOOLEAN, strayed : BOOLEAN]
    BY DEF PageInv, RowsOK
  <2>3. ASSUME NEW i \in DOMAIN rows
        PROVE  /\ rows'[i] \in [id : {rows[i].id}, open : {rows[i].open}, strayed : BOOLEAN]
               /\ ~rows'[i].strayed => ~rows[i].strayed /\ rows[i].id # id
    <3>1. PICK strayed \in BOOLEAN : strayed = (rows[i].strayed \/ rows[i].id = id)
      BY <2>2
    <3>2. rows'[i] = [rows[i] EXCEPT !.strayed = strayed]
      BY <2>1, <3>1
    <3> QED
      BY <2>2, <3>1, <3>2
  <2> QED
    BY <2>1, <2>3
<1>5. RowsOK(rows', DOMAIN tasks')
  <2>1. RowsOK(rows, DOMAIN tasks')
    BY <1>1, Grown DEF PageInv
  <2>2. \A i \in DOMAIN rows : /\ rows'[i] \in [id : DOMAIN tasks', open : BOOLEAN, strayed : BOOLEAN]
                               /\ rows'[i].id = rows[i].id
    BY <1>4, <2>1 DEF RowsOK
  <2> QED
    BY <1>4, <2>1, <2>2 DEF RowsOK
<1>6. PostsOK(posts', rows')
  BY <1>2, <1>4 DEF PageInv, PostsOK
<1>7. ASSUME NEW i \in DOMAIN rows', ~rows'[i].strayed
      PROVE  RowAgrees(rows'[i], i, posts', tasks')
  <2>1. /\ i \in DOMAIN rows /\ ~rows[i].strayed /\ rows[i].id # id
        /\ rows'[i].id = rows[i].id /\ rows'[i].open = rows[i].open
    BY <1>4, <1>7
  <2>2. rows[i].id \in DOMAIN tasks /\ RowAgrees(rows[i], i, posts, tasks)
    BY <2>1 DEF PageInv, RowsOK, Agree
  <2>3. tasks'[rows[i].id] = tasks[rows[i].id]
    BY <1>1, <2>1, <2>2
  <2> QED
    BY <1>2, <2>1, <2>2, <2>3 DEF RowAgrees
<1>8. Current'
  <2>1. table \in Keys /\ last \in Keys \cup {NoKey}
    BY DEF PageInv
  <2>2. Displayed' = Displayed
    BY <1>2, <1>3, <2>1 DEF Displayed
  <2>3. View' = View
    BY <1>2, <1>3, <2>1, <2>2 DEF View
  <2> QED
    BY <1>4, <2>2, <2>3 DEF PageInv, Current
<1> QED
  BY <1>1, <1>2, <1>3, <1>5, <1>6, <1>7, <1>8 DEF PageInv, SheetOK, Agree

-----------------------------------------------------------------------------
\* One mutation less leaves room for as many tasks.
LEMMA RoomLeft ==
  ASSUME PageInv, NEW j \in DOMAIN posts
  PROVE  Len(tasks) + Cardinality(Sending(RemoveAt(posts, j))) <= MaxTasks
<1>1. /\ PostsOK(RemoveAt(posts, j), rows)
      /\ Cardinality(Sending(RemoveAt(posts, j))) <= Cardinality(Sending(posts))
  BY Removed DEF PageInv
<1>2. /\ Len(tasks) \in Nat /\ MaxTasks \in Nat /\ Cardinality(Sending(posts)) \in Nat
      /\ Cardinality(Sending(RemoveAt(posts, j))) \in Nat
      /\ Len(tasks) + Cardinality(Sending(posts)) <= MaxTasks
  BY <1>1, SendingFinite, LenProperties, TaskPageAssumption DEF PageInv, PostsOK
<1> QED
  BY <1>1, <1>2

\* A mutation is over: whatever becomes of the rows, those that did not stray show what it did.
LEMMA SettledKeeps ==
  ASSUME PageInv, NEW j \in DOMAIN posts, NEW rs, NEW s \in Sheets,
         CacheOK(cache', DOMAIN tasks), UNCHANGED <<tasks, table>>,
         Drawing(last, box, rs, s, RemoveAt(posts, j)),
         DOMAIN rs = DOMAIN rows,
         \A i \in DOMAIN rows :
           /\ rs[i] \in [id : {rows[i].id}, open : BOOLEAN, strayed : BOOLEAN]
           /\ ~rs[i].strayed =>
                /\ ~rows[i].strayed
                /\ IF posts[j].kind = "switch" /\ posts[j].id = rows[i].id
                   THEN rs[i].open = tasks[rows[i].id].enabled ELSE rs[i].open = rows[i].open
  PROVE  PageInv'
<1>1. PostsOK(RemoveAt(posts, j), rows)
  BY Removed DEF PageInv
<1>2. PostsOK(RemoveAt(posts, j), rs)
  BY <1>1 DEF PostsOK
<1>3. RowsOK(rows, DOMAIN tasks)
  BY DEF PageInv
<1>4. \A i \in DOMAIN rows : rs[i].id = rows[i].id /\ rs[i] \in [id : DOMAIN tasks, open : BOOLEAN, strayed : BOOLEAN]
  <2>1. \A i \in DOMAIN rows : rows[i].id \in DOMAIN tasks
    BY <1>3 DEF RowsOK
  <2> QED
    BY <2>1
<1>5. RowsOK(rs, DOMAIN tasks)
  BY <1>3, <1>4 DEF RowsOK
<1>6. ASSUME NEW i \in DOMAIN rs, ~rs[i].strayed
      PROVE  RowAgrees(rs[i], i, RemoveAt(posts, j), tasks)
  <2>1. RowAgrees(rows[i], i, posts, tasks)
    BY <1>6 DEF PageInv, Agree
  <2>2. rs[i].id = rows[i].id
    BY <1>4
  <2>3. IF posts[j].kind = "switch" /\ posts[j].id = rows[i].id
        THEN tasks[rows[i].id].enabled = rs[i].open ELSE rs[i].open = rows[i].open
    BY <1>6
  <2> QED
    BY <2>1, <2>2, <2>3, RemovedAgrees DEF PageInv
<1>7. Agree(rs, RemoveAt(posts, j), tasks)
  BY <1>6 DEF Agree
<1>8. Len(tasks) + Cardinality(Sending(RemoveAt(posts, j))) <= MaxTasks
  BY RoomLeft
<1> QED
  BY <1>2, <1>5, <1>7, <1>8, DrawingKeeps DEF PageInv

LEMMA PostDoneKeeps ==
  ASSUME PageInv, NEW j \in DOMAIN posts, PostDone(j)
  PROVE  PageInv'
<1> DEFINE p == posts[j]
           settled == IF p.kind = "add" /\ p.row # 0 THEN [sheet EXCEPT !.loading = FALSE] ELSE sheet
           closed == IF p.kind = "add" /\ p.row # 0 THEN [settled EXCEPT !.open = FALSE, !.step = ResetSteps]
                     ELSE settled
<1>1. settled \in Sheets
  BY DEF PageInv, SheetOK, Sheets
<1>2. closed \in Sheets
  <2> HIDE DEF settled
  <2> QED
    BY <1>1, ClosingSheet
<1>3. /\ p.at # "sent" /\ UNCHANGED <<tasks, table>>
      /\ \/ Success(p) /\ cache' = Invalidated /\ Drawing(last, box, Toggled(p), closed, RemoveAt(posts, j))
         \/ ~Success(p) /\ cache' = cache /\ Drawing(last, box, rows, settled, RemoveAt(posts, j))
  BY DEF PostDone
<1> HIDE DEF settled, closed
<1>4. p \in Posts
  BY ElementOfSeq, LenProperties DEF PageInv, PostsOK
<1>5. \A i \in DOMAIN rows : /\ rows[i].id \in DOMAIN tasks /\ rows[i].open \in BOOLEAN /\ rows[i].strayed \in BOOLEAN
                             /\ rows[i] \in [id : {rows[i].id}, open : BOOLEAN, strayed : BOOLEAN]
  <2>1. \A r \in [id : DOMAIN tasks, open : BOOLEAN, strayed : BOOLEAN] :
          /\ r.id \in DOMAIN tasks /\ r.open \in BOOLEAN /\ r.strayed \in BOOLEAN
          /\ r \in [id : {r.id}, open : BOOLEAN, strayed : BOOLEAN]
    OBVIOUS
  <2> QED
    BY <2>1 DEF PageInv, RowsOK
<1>6. \A i \in DOMAIN rows : ~rows[i].strayed => RowAgrees(rows[i], i, posts, tasks)
  BY DEF PageInv, Agree
<1>7. ASSUME NEW i \in DOMAIN rows, ~rows[i].strayed, p.kind = "switch", p.id = rows[i].id
      PROVE  /\ p.row = i /\ p.sees = "latest" /\ p.to = ~rows[i].open
             /\ tasks[rows[i].id].enabled = IF p.at = "applied" THEN p.to ELSE rows[i].open
  <2>1. j \in Switching(posts, rows[i].id)
    BY <1>7 DEF Switching
  <2> QED
    BY <1>6, <1>7, <2>1 DEF RowAgrees
<1> HIDE DEF p
<1>8. CASE Success(p)
  <2> DEFINE rs == Toggled(p)
  <2>1. p.at = "applied" /\ cache' = Invalidated /\ Drawing(last, box, rs, closed, RemoveAt(posts, j))
    BY <1>3, <1>8 DEF Success
  <2>2. CacheOK(cache', DOMAIN tasks)
    BY <2>1, InvalidatedCache DEF PageInv
  <2>3. DOMAIN rs = DOMAIN rows
    BY DEF Toggled
  <2>4. ASSUME NEW i \in DOMAIN rows, ~(p.kind = "switch" /\ p.row = i)
        PROVE  rs[i] = rows[i]
    BY <2>4 DEF Toggled
  <2>5. ASSUME NEW i \in DOMAIN rows, p.kind = "switch", p.row = i
        PROVE  /\ rs[i] \in [id : {rows[i].id}, open : BOOLEAN, strayed : BOOLEAN]
               /\ rs[i].strayed = rows[i].strayed
               /\ p.sees = "latest" => rs[i].open = ~rows[i].open
    <3>1. PICK open : open = CASE p.sees = "latest" -> ~rows[i].open [] p.sees = "on" -> FALSE [] OTHER -> TRUE
      OBVIOUS
    <3>2. open \in BOOLEAN /\ (p.sees = "latest" => open = ~rows[i].open)
      BY <3>1
    <3>3. rs[i] = [rows[i] EXCEPT !.open = open]
      BY <2>5, <3>1 DEF Toggled
    <3> HIDE DEF rs
    <3> QED
      BY <1>5, <3>2, <3>3
  <2> HIDE DEF rs
  <2>6. ASSUME NEW i \in DOMAIN rows
        PROVE  /\ rs[i] \in [id : {rows[i].id}, open : BOOLEAN, strayed : BOOLEAN]
               /\ ~rs[i].strayed =>
                    /\ ~rows[i].strayed
                    /\ IF p.kind = "switch" /\ p.id = rows[i].id
                       THEN rs[i].open = tasks[rows[i].id].enabled ELSE rs[i].open = rows[i].open
    <3>1. CASE p.kind = "switch" /\ p.row = i
      <4>1. ~rows[i].strayed => p.id = rows[i].id
        BY <1>6, <3>1 DEF RowAgrees, p
      <4> QED
        BY <1>7, <2>1, <2>5, <3>1, <4>1
    <3>2. CASE ~(p.kind = "switch" /\ p.row = i)
      <4>1. ~rows[i].strayed => ~(p.kind = "switch" /\ p.id = rows[i].id)
        BY <1>7, <3>2
      <4> QED
        BY <1>5, <2>4, <3>2, <4>1
    <3> QED
      BY <3>1, <3>2
  <2> QED
    BY <1>2, <1>3, <2>1, <2>2, <2>3, <2>6, SettledKeeps DEF p
<1>9. CASE ~Success(p)
  <2>1. p.at # "applied" /\ cache' = cache /\ Drawing(last, box, rows, settled, RemoveAt(posts, j))
    BY <1>3, <1>9 DEF Success
  <2>2. CacheOK(cache', DOMAIN tasks)
    BY <2>1 DEF PageInv
  <2>3. \A i \in DOMAIN rows :
          ~rows[i].strayed => IF p.kind = "switch" /\ p.id = rows[i].id
                              THEN rows[i].open = tasks[rows[i].id].enabled ELSE rows[i].open = rows[i].open
    BY <1>7, <2>1
  <2> QED
    BY <1>1, <1>3, <1>5, <2>1, <2>2, <2>3, SettledKeeps DEF p
<1> QED
  BY <1>8, <1>9

LEMMA PostFailedKeeps ==
  ASSUME PageInv, NEW j \in DOMAIN posts, NEW outcome, PostFailed(j, outcome)
  PROVE  PageInv'
<1> DEFINE p == posts[j]
           rs == [i \in DOMAIN rows |->
                    [rows[i] EXCEPT !.strayed = @ \/ (p.at = "applied" /\ p.kind = "switch" /\ p.row = i)]]
           s == IF p.kind = "add" /\ p.row # 0 /\ SettlesAfter(outcome) THEN [sheet EXCEPT !.loading = FALSE]
                ELSE sheet
<1>1. /\ UNCHANGED <<tasks, table>>
      /\ cache' = [k \in Keys |-> [cache[k] EXCEPT !.missed = @ \/ (p.at = "applied" /\ cache[k].fetch # "sent")]]
      /\ Drawing(last, box, rs, s, RemoveAt(posts, j))
  BY DEF PostFailed
<1>2. s \in Sheets
  <2>1. sheet \in Sheets /\ [sheet EXCEPT !.loading = FALSE] \in Sheets
    BY DEF PageInv, SheetOK, Sheets
  <2> QED
    BY <2>1
<1>3. CacheOK(cache', DOMAIN tasks)
  <2>1. \A k \in Keys : \E missed : cache'[k] = [cache[k] EXCEPT !.missed = missed]
    BY <1>1
  <2>2. \A k \in Keys : QueryOK(cache[k], DOMAIN tasks)
    BY DEF PageInv, CacheOK
  <2>3. ASSUME NEW k \in Keys
        PROVE  QueryOK(cache'[k], DOMAIN tasks)
    <3>1. PICK missed : cache'[k] = [cache[k] EXCEPT !.missed = missed]
      BY <2>1
    <3>2. QueryOK([cache[k] EXCEPT !.missed = missed], DOMAIN tasks)
      BY <2>2, MissedQuery
    <3> QED
      BY <3>1, <3>2
  <2>4. cache' = [k \in Keys |-> cache'[k]]
    BY <1>1
  <2> QED
    BY <2>3, <2>4 DEF CacheOK
<1>4. ASSUME NEW i \in DOMAIN rows
      PROVE  /\ rs[i] \in [id : {rows[i].id}, open : BOOLEAN, strayed : BOOLEAN]
             /\ rs[i].open = rows[i].open
             /\ rs[i].strayed = (rows[i].strayed \/ (p.at = "applied" /\ p.kind = "switch" /\ p.row = i))
  <2>1. PICK strayed \in BOOLEAN :
          strayed = (rows[i].strayed \/ (p.at = "applied" /\ p.kind = "switch" /\ p.row = i))
    BY DEF PageInv, RowsOK
  <2>2. rs[i] = [rows[i] EXCEPT !.strayed = strayed]
    BY <2>1
  <2>3. rows[i] \in [id : DOMAIN tasks, open : BOOLEAN, strayed : BOOLEAN]
    BY DEF PageInv, RowsOK
  <2> HIDE DEF rs, p
  <2> QED
    BY <2>1, <2>2, <2>3
<1>5. DOMAIN rs = DOMAIN rows
  OBVIOUS
<1>6. ASSUME NEW i \in DOMAIN rows, ~rs[i].strayed
      PROVE  /\ ~rows[i].strayed
             /\ IF p.kind = "switch" /\ p.id = rows[i].id
                THEN rs[i].open = tasks[rows[i].id].enabled ELSE rs[i].open = rows[i].open
  <2>1. ~rows[i].strayed /\ ~(p.at = "applied" /\ p.kind = "switch" /\ p.row = i) /\ rs[i].open = rows[i].open
    <3> HIDE DEF rs
    <3> QED
      BY <1>4, <1>6
  <2>2. RowAgrees(rows[i], i, posts, tasks)
    BY <2>1 DEF PageInv, Agree
  <2>3. ASSUME p.kind = "switch", p.id = rows[i].id
        PROVE  rows[i].open = tasks[rows[i].id].enabled
    <3>1. j \in Switching(posts, rows[i].id)
      BY <2>3 DEF Switching
    <3>2. p.row = i /\ tasks[rows[i].id].enabled = IF p.at = "applied" THEN p.to ELSE rows[i].open
      BY <2>2, <2>3, <3>1 DEF RowAgrees
    <3> QED
      BY <2>1, <2>3, <3>2
  <2> HIDE DEF rs
  <2> QED
    BY <2>1, <2>3
<1> HIDE DEF rs, s
<1> QED
  BY <1>1, <1>2, <1>3, <1>4, <1>5, <1>6, SettledKeeps

-----------------------------------------------------------------------------
LEMMA PageInitOK == PageInit => PageInv
<1> SUFFICES ASSUME PageInit
             PROVE  PageInv
  OBVIOUS
<1>1. /\ tasks \in Seq(Tasks) /\ Len(tasks) <= MaxTasks /\ MaxTasks \in Nat \ {0} /\ Len(tasks) \in Nat
      /\ InitialSize \in Sizes /\ InitialSize \in Nat
  BY TaskPageAssumption, LenProperties DEF PageInit
<1>2. /\ table = [index |-> 0, size |-> InitialSize, filter |-> ""]
      /\ last = NoKey /\ box = "" /\ rows = <<>> /\ sheet = Closed /\ posts = <<>>
  BY DEF PageInit
<1>3. table \in Keys /\ table.index * table.size < MaxTasks
  <2>1. \A i \in 0..MaxTasks - 1, n \in Sizes, f \in Filters : [index |-> i, size |-> n, filter |-> f] \in Keys
    BY DEF Keys
  <2>2. 0 \in 0..MaxTasks - 1 /\ "" \in Filters
    BY <1>1 DEF Filters
  <2>3. [index |-> 0, size |-> InitialSize, filter |-> ""] \in Keys
    BY <1>1, <2>1, <2>2
  <2>4. \A z \in Nat : 0 * z = 0
    OBVIOUS
  <2>5. 0 * InitialSize = 0 /\ 0 < MaxTasks
    BY <1>1, <2>4
  <2>6. table.index = 0 /\ table.size = InitialSize
    BY <1>2
  <2>7. table \in Keys
    BY <1>2, <2>3
  <2> QED
    BY <2>5, <2>6, <2>7
<1>4. CacheOK(cache, DOMAIN tasks)
  <2>1. cache = [k \in Keys |-> [data |-> NoData, error |-> "none", read |-> NoData, missed |-> FALSE,
                                 fetch |-> IF k = table THEN "sent" ELSE "idle"]]
    BY DEF PageInit
  <2>2. ASSUME NEW k \in Keys
        PROVE  QueryOK(cache[k], DOMAIN tasks)
    <3>1. PICK fetch \in {"sent", "idle"} : fetch = IF k = table THEN "sent" ELSE "idle"
      OBVIOUS
    <3>2. cache[k] = [data |-> NoData, error |-> "none", read |-> NoData, missed |-> FALSE, fetch |-> fetch]
      BY <2>1, <3>1
    <3> QED
      BY <3>2 DEF QueryOK, Sound
  <2>3. cache = [k \in Keys |-> cache[k]]
    BY <2>1
  <2> QED
    BY <2>2, <2>3 DEF CacheOK
<1>5. DOMAIN rows = {} /\ DOMAIN posts = {}
  <2>1. DOMAIN <<>> = {}
    OBVIOUS
  <2> QED
    BY <1>2, <2>1
<1>6. RowsOK(rows, DOMAIN tasks) /\ Agree(rows, posts, tasks)
  BY <1>5 DEF RowsOK, Agree
<1>7. PostsOK(posts, rows)
  BY <1>2, <1>5, EmptySeq DEF PostsOK
<1>8. Cardinality(Sending(posts)) = 0
  <2>1. Sending(posts) = {}
    BY <1>5 DEF Sending
  <2> QED
    BY <2>1, FS_EmptySet
<1>9. Current
  <2>1. cache[table].data = NoData /\ cache[table].error = "none"
    BY <1>3 DEF PageInit
  <2>2. Displayed = NoData
    BY <1>2, <2>1 DEF Displayed
  <2> QED
    BY <2>1, <2>2 DEF Current, View
<1>10. SheetOK /\ last \in Keys \cup {NoKey} /\ box \in Filters
  BY <1>2, ClosedSheet DEF SheetOK, Filters
<1> QED
  BY <1>1, <1>3, <1>4, <1>6, <1>7, <1>8, <1>9, <1>10 DEF PageInv

\* The invariant of the page, whatever the user does and whatever the server answers.
LEMMA PageInductive == PageInv /\ [PageNext]_pageVars => PageInv'
<1> SUFFICES ASSUME PageInv, [PageNext]_pageVars
             PROVE  PageInv'
  OBVIOUS
<1>1. CASE \/ Search \/ Reset \/ Focus \/ Revisit \/ OpenSheet
           \/ \E i \in 0..MaxTasks - 1 : Page(i)
           \/ \E n \in Sizes : PageSize(n)
           \/ \E b \in BOOLEAN : SubmitSheet(b)
  BY <1>1, SearchKeeps, ResetKeeps, FocusKeeps, RevisitKeeps, PageKeeps, PageSizeKeeps, SubmitSheetKeeps
<1>2. CASE CloseSheet \/ StepButtons \/ (\E b \in BOOLEAN : Fill(b)) \/ (\E b \in Filters : TypeName(b))
  BY <1>2, TypingKeeps
<1>3. CASE \E i \in 1..MaxTasks : Switch(i)
  BY <1>3, SwitchKeeps
<1>6. CASE \E id \in 0..MaxTasks : OthersChange(id)
  BY <1>6, OthersChangeKeeps
<1>4. CASE Progress
  BY <1>4, ServeKeeps, QueryDoneKeeps, QueryFailedKeeps, ApplyKeeps, RefuseKeeps, PostDoneKeeps, PostFailedKeeps
  DEF Progress
<1>5. CASE UNCHANGED pageVars
  <2>1. UNCHANGED <<tasks, table, cache, last, box, rows, sheet, posts>>
    BY <1>5 DEF pageVars
  <2>2. SheetOK' /\ box' \in Filters
    BY <2>1 DEF PageInv, SheetOK
  <2> QED
    BY <2>1, <2>2, WithinPage
<1> QED
  BY <1>1, <1>2, <1>3, <1>4, <1>5, <1>6 DEF PageNext

LEMMA PageInvariant == PageSpec => []PageInv
BY PageInitOK, PageInductive, PTL DEF PageSpec

\* Types: whatever answers arrive, and in whatever order, the page is of a key there is, every
\* row shown is of a task the server has or had, the form is at one of its steps, and no switch under
\* way belongs to a row that is gone.
THEOREM PageTypeCorrect == PageSpec => []PageTypeOK
<1>1. PageInv => PageTypeOK
  <2> SUFFICES ASSUME PageInv
               PROVE  PageTypeOK
    OBVIOUS
  <2>1. \A k \in Keys : cache[k].fetch \in {"idle", "sent", "read"} /\ cache[k].error \in {"none", "Error", "undefined"}
    BY DEF PageInv, CacheOK, QueryOK
  <2>2. \A i \in DOMAIN rows : rows[i].id \in DOMAIN tasks
    BY DEF PageInv, RowsOK
  <2>3. sheet.step \in 0..Len(steps.steps) - 1 /\ (~sheet.open => sheet.step = InitialStep)
    <3>1. sheet.step \in 0..2 /\ (~sheet.open => sheet.step = InitialStep)
      BY DEF PageInv, SheetOK, Sheets
    <3>2. Len(steps.steps) - 1 = 2
      BY ThreeSteps
    <3> QED
      BY <3>1, <3>2
  <2>4. \A j \in DOMAIN posts : posts[j].row # 0 => posts[j].kind = "add" \/ posts[j].row \in DOMAIN rows
    <3>1. \A j \in DOMAIN posts : posts[j] \in Posts
      BY ElementOfSeq, LenProperties DEF PageInv, PostsOK
    <3> QED
      BY <3>1 DEF PageInv, PostsOK, Posts
  <2> QED
    BY <2>1, <2>2, <2>3, <2>4 DEF PageTypeOK, PageInv
<1> QED
  BY <1>1, PageInvariant, PTL

\* A switch with nothing under way shows what the server has unless it strayed, in one of the
\* five ways SwitchAgrees tells: for any lists, any number of pages, of clicks and of changes made
\* elsewhere, and any order of the answers, refusals and failures.
THEOREM SwitchAgreesCorrect == PageSpec => []SwitchAgrees
<1>1. PageInv => SwitchAgrees
  <2> SUFFICES ASSUME PageInv, NEW i \in DOMAIN rows, ~rows[i].strayed,
                      ~\E j \in DOMAIN posts : posts[j].kind = "switch" /\ posts[j].id = rows[i].id
               PROVE  tasks[rows[i].id].there /\ rows[i].open = tasks[rows[i].id].enabled
    BY DEF SwitchAgrees
  <2>1. Switching(posts, rows[i].id) = {}
    BY DEF Switching
  <2> QED
    BY <2>1 DEF PageInv, Agree, RowAgrees
<1> QED
  BY <1>1, PageInvariant, PTL

\* The form that adds a task: in a wide window and in a narrow one it shows the fields of one
\* step, marked as the current one after those that are checked, and it can be sent from the
\* last step and from no other, whatever the answers do to the page behind it.
THEOREM OneStepShownCorrect == PageSpec => []OneStepShown
<1>1. PageInv => OneStepShown
  BY StepShown DEF PageInv
<1> QED
  BY <1>1, PageInvariant, PTL
=============================================================================
