---------------------------- MODULE SessionProofs ---------------------------
(***************************************************************************)
(* Proofs about Session for every answer the server may give and every     *)
(* value a page may send: the types, the guard before the pages, and that  *)
(* a call says what was meant on its way there and back.                   *)
(***************************************************************************)
EXTENDS Session, TLAPS

\* The call is a record of its fields.
CallRecord ==
  call = [op |-> call.op, args |-> call.args, body |-> call.body, request |-> call.request,
          outcome |-> call.outcome, json |-> call.json, value |-> call.value]

SessionInv == SessionTypeOK /\ CallRecord

-----------------------------------------------------------------------------
\* The routes: the login page is outside the guard, and the pages call operations.
LEMMA RouteFacts ==
  /\ "/" \in DOMAIN allRoutes /\ "/login" \in DOMAIN allRoutes
  /\ ~allRoutes["/login"].requiresAuth
  /\ \A r \in DOMAIN allRoutes : allRoutes[r].calls \subseteq DOMAIN Op
<1>1. DOMAIN allRoutes = sideRoutes \cup hidden \cup fullscreenRoutes \cup {"*"}
  BY DEF allRoutes
<1>2. "/" \in DOMAIN allRoutes /\ "/login" \in DOMAIN allRoutes /\ "/login" \notin sideRoutes \cup hidden
  BY <1>1 DEF sideRoutes, hidden, fullscreenRoutes
<1>3. \A r \in DOMAIN allRoutes : allRoutes[r].requiresAuth <=> r \in sideRoutes \cup hidden
  BY DEF allRoutes, Route
<1>4. ASSUME NEW r \in DOMAIN allRoutes
      PROVE  allRoutes[r].calls \subseteq DOMAIN Op
  <2>1. \/ allRoutes[r].calls = {"statistics", "taskLogsDayTrend", "topTaskLog"}
        \/ allRoutes[r].calls = {"listTaskInfos", "addTaskInfo", "switchTaskStatus", "deleteTask",
                                 "excuteOnce", "getNext5Tiggertimes"}
        \/ allRoutes[r].calls \in {{"listLogs"}, {"listClients"}, {"login"}, {}}
    BY <1>1, <1>4 DEF allRoutes, Route
  <2> QED
    BY <2>1 DEF Op
<1> QED
  BY <1>2, <1>3, <1>4

\* Where the guard leads.
LEMMA ShownFacts ==
  ASSUME NEW r \in DOMAIN allRoutes, NEW u \in {"none", "someone"}
  PROVE  /\ Shown(r, u) \in DOMAIN allRoutes
         /\ allRoutes[Shown(r, u)].requiresAuth => u = "someone"
BY RouteFacts DEF Shown

LEMMA UserFacts ==
  ASSUME NEW t \in Tokens
  PROVE  UserOf(t) \in {"none", "someone"} /\ (UserOf(t) = "someone" => t # "")
BY DEF UserOf

\* What may come of a request: with the middleware there is never a ResponseError.
LEMMA OutcomeFacts ==
  ASSUME NEW answer
  PROVE  Outcome(answer) \in {"data", "undefined", "FetchError", "SyntaxError"}
<1>1. 200 \in 200..299
  OBVIOUS
<1> QED
  BY <1>1 DEF Outcome, Accepted, NetworkFailure

-----------------------------------------------------------------------------
\* What the page, the user and the login form may become.
Moves ==
  /\ token' \in Tokens
  /\ user' \in {"none", "someone"}
  /\ route' \in DOMAIN allRoutes
  /\ busy' \in BOOLEAN
  /\ Guarded => Guarded'

\* The steps in which no call begins or ends.
LEMMA PageSteps ==
  ASSUME SessionInv,
         \/ \E r \in DOMAIN allRoutes : Navigate(r) \/ Load(r)
         \/ Logout
         \/ \E t \in Tokens : OtherTab(t)
         \/ Expire
         \/ UNCHANGED sessionVars
  PROVE  Moves /\ (call' = call \/ call' = NoCall)
<1>1. /\ token \in Tokens /\ user \in {"none", "someone"} /\ route \in DOMAIN allRoutes /\ busy \in BOOLEAN
      /\ "" \in Tokens
  BY DEF SessionInv, SessionTypeOK, Tokens
<1>2. ASSUME NEW r \in DOMAIN allRoutes, Navigate(r)
      PROVE  Moves /\ call' = call
  BY <1>1, <1>2, ShownFacts DEF Navigate, Show, Moves, Guarded
<1>3. ASSUME NEW r \in DOMAIN allRoutes, Load(r)
      PROVE  Moves /\ call' = NoCall
  BY <1>1, <1>3, ShownFacts, UserFacts DEF Load, Moves, Guarded
<1>4. CASE Logout
  BY <1>1, <1>4, ShownFacts, UserFacts DEF Logout, Show, Moves, Guarded
<1>5. ASSUME NEW t \in Tokens, OtherTab(t)
      PROVE  Moves /\ call' = call
  BY <1>1, <1>5, ShownFacts, UserFacts DEF OtherTab, Show, Moves, Guarded
<1>6. CASE Expire
  BY <1>1, <1>6 DEF Expire, Moves, Guarded, Tokens
<1>7. CASE UNCHANGED sessionVars
  BY <1>1, <1>7 DEF sessionVars, Moves, Guarded
<1> QED
  BY <1>2, <1>3, <1>4, <1>5, <1>6, <1>7

\* A call begins.
LEMMA CallStep ==
  ASSUME SessionInv, NEW name \in allRoutes[route].calls, NEW args, NEW body, Call(name, args, body)
  PROVE  Moves /\ SessionInv'
<1>1. /\ token \in Tokens /\ user \in {"none", "someone"} /\ route \in DOMAIN allRoutes /\ busy \in BOOLEAN
      /\ name \in DOMAIN Op
  BY RouteFacts DEF SessionInv, SessionTypeOK
<1>2. Moves
  BY <1>1 DEF Call, Moves, Guarded
<1>3. CallRecord' /\ call'.op = name /\ call'.outcome \in {"none", "RequiredError"}
  <2> DEFINE failed == Missing(Op[name], args)
             sent == IF failed THEN Null ELSE Request(Op[name], token, args, body)
             outcome == IF failed THEN "RequiredError" ELSE "none"
  <2>1. call' = [NoCall EXCEPT !.op = name, !.args = args, !.body = body, !.request = sent, !.outcome = outcome]
    BY DEF Call
  <2>2. outcome \in {"none", "RequiredError"}
    OBVIOUS
  <2> HIDE DEF sent, outcome
  <2> QED
    BY <2>1, <2>2 DEF NoCall, CallRecord
<1> QED
  BY <1>1, <1>2, <1>3 DEF SessionInv, SessionTypeOK, Moves

\* A call ends.
LEMMA ReceiveStep ==
  ASSUME SessionInv, NEW answer, NEW json, Receive(answer, json)
  PROVE  Moves /\ SessionInv'
<1> DEFINE outcome == Outcome(answer)
           value == IF outcome = "data" THEN Value(Op[call.op], json) ELSE Undefined
           kept == IF outcome = "data" THEN json ELSE Null
<1>1. /\ token \in Tokens /\ user \in {"none", "someone"} /\ route \in DOMAIN allRoutes /\ busy \in BOOLEAN
      /\ call.op \in DOMAIN Op
  BY DEF SessionInv, SessionTypeOK, Receive, Pending
<1>2. call' = [call EXCEPT !.outcome = outcome, !.value = value, !.json = kept]
  BY DEF Receive
<1>3. LoginSettled(outcome, value) \/ UNCHANGED <<token, user, route, busy>>
  BY DEF Receive
<1>4. outcome \in {"data", "undefined", "FetchError", "SyntaxError"}
  BY OutcomeFacts
<1> HIDE DEF outcome, value, kept
<1>5. Moves
  <2>1. CASE UNCHANGED <<token, user, route, busy>>
    BY <1>1, <2>1 DEF Moves, Guarded
  <2>2. CASE LoginSettled(outcome, value)
    <3>1. CASE ~Granted(outcome, value)
      BY <1>1, <2>2, <3>1 DEF LoginSettled, Moves, Guarded
    <3>2. CASE Granted(outcome, value)
      <4>1. PICK t \in Tokens : token' = t /\ user' = UserOf(t)
        BY <2>2, <3>2 DEF LoginSettled
      <4>2. route' = Shown("/", user') /\ busy' = FALSE
        BY <2>2, <3>2 DEF LoginSettled
      <4> QED
        BY <4>1, <4>2, RouteFacts, ShownFacts, UserFacts DEF Moves, Guarded
    <3> QED
      BY <3>1, <3>2
  <2> QED
    BY <1>3, <2>1, <2>2
<1>6. CallRecord' /\ call'.op = call.op /\ call'.outcome = outcome
  BY <1>2 DEF SessionInv, CallRecord
<1> QED
  BY <1>1, <1>4, <1>5, <1>6 DEF SessionInv, SessionTypeOK, Moves

\* The invariant is inductive, and every step keeps the guard.
LEMMA SessionInductive ==
  ASSUME SessionInv, [SessionNext]_sessionVars
  PROVE  SessionInv' /\ (Guarded => Guarded')
<1>1. CASE \/ \E r \in DOMAIN allRoutes : Navigate(r) \/ Load(r)
           \/ Logout
           \/ \E t \in Tokens : OtherTab(t)
           \/ Expire
           \/ UNCHANGED sessionVars
  <2>1. Moves /\ (call' = call \/ call' = NoCall)
    BY <1>1, PageSteps
  <2>2. CallRecord' /\ call'.op \in DOMAIN Op \cup {"none"}
        /\ call'.outcome \in {"none", "data", "undefined", "FetchError", "SyntaxError", "RequiredError"}
    BY <2>1 DEF NoCall, SessionInv, CallRecord, SessionTypeOK
  <2> QED
    BY <2>1, <2>2 DEF Moves, SessionInv, SessionTypeOK
<1>2. ASSUME NEW name \in allRoutes[route].calls, NEW args, NEW body, Call(name, args, body)
      PROVE  SessionInv' /\ (Guarded => Guarded')
  BY <1>2, CallStep DEF Moves
<1>3. CASE SomeAnswer
  BY <1>3, ReceiveStep DEF SomeAnswer, Moves
<1> QED
  BY <1>1, <1>2, <1>3 DEF SessionNext

LEMMA SessionInitially ==
  ASSUME SessionInit
  PROVE  SessionInv /\ Guarded
<1>1. /\ token \in Tokens /\ user \in {"none", "someone"} /\ (user = "someone" => token # "")
      /\ route \in DOMAIN allRoutes /\ (allRoutes[route].requiresAuth => user = "someone")
  BY RouteFacts, ShownFacts, UserFacts DEF SessionInit
<1> QED
  BY <1>1 DEF SessionInit, SessionInv, SessionTypeOK, CallRecord, NoCall, Guarded

\* The tab: the token, the user, the page and the login form stay what they can be, the
\* call is of an operation, and no outcome of it is a ResponseError, which the middleware
\* of the generated client leaves no way to.
THEOREM SessionTypeCorrect == SessionSpec => []SessionTypeOK
<1>1. SessionInit => SessionInv
  BY SessionInitially
<1>2. SessionInv /\ [SessionNext]_sessionVars => SessionInv'
  BY SessionInductive
<1>3. SessionInv => SessionTypeOK
  BY DEF SessionInv
<1> QED
  BY <1>1, <1>2, <1>3, PTL DEF SessionSpec

\* The guard before the pages: whichever way a page is reached, and whichever tab logs in
\* or out, nothing that requires a user is shown without one, and there is no user without
\* a token.
THEOREM GuardedCorrect == SessionSpec => []Guarded
<1>1. SessionInit => SessionInv /\ Guarded
  BY SessionInitially
<1>2. SessionInv /\ Guarded /\ [SessionNext]_sessionVars => SessionInv' /\ Guarded'
  BY SessionInductive
<1> QED
  BY <1>1, <1>2, PTL DEF SessionSpec
-----------------------------------------------------------------------------
\* How deep the models are nested.
Flat(m) == \A f \in DOMAIN Model[m] : Model[m][f].holds \in {"plain", "date"}

Shallow(m) ==
  \A f \in DOMAIN Model[m] :
    \/ Model[m][f].holds \in {"plain", "date"}
    \/ Model[m][f].holds \in {"one", "many"} /\ Flat(Model[m][f].of)

Deep(m) ==
  \A f \in DOMAIN Model[m] :
    \/ Model[m][f].holds \in {"plain", "date"}
    \/ Model[m][f].holds \in {"one", "many"} /\ Shallow(Model[m][f].of)

\* What is sent: nothing of it is read only.
AllPlain(m) == \A f \in DOMAIN Model[m] : Model[m][f].holds = "plain" /\ ~Model[m][f].readonly

Sent(m) ==
  \A f \in DOMAIN Model[m] :
    /\ ~Model[m][f].readonly
    /\ Model[m][f].holds = "plain" \/ (Model[m][f].holds = "one" /\ AllPlain(Model[m][f].of))

LEMMA KindFacts ==
  /\ Plain.holds = "plain" /\ ~Plain.readonly /\ Date.holds = "date" /\ ReadOnly.holds = "plain"
  /\ \A m : One(m).holds = "one" /\ One(m).of = m /\ Many(m).holds = "many" /\ Many(m).of = m
BY DEF Plain, Date, ReadOnly, One, Many

\* Models with nothing but plain fields.
LEMMA PlainModels ==
  \A m \in {"TaskInfo", "TaskLogDayTrend", "TopTaskLog", "StatisticInfos", "LoginCommand", "DeleteTaskRequest",
            "ExcuteOnceRequest", "SwitchTaskStatusRequest", "LoginResponse", "GetNext5TriggertimesResponse"} :
    AllPlain(m) /\ Flat(m)
<1> SUFFICES ASSUME NEW m \in {"TaskInfo", "TaskLogDayTrend", "TopTaskLog", "StatisticInfos", "LoginCommand",
                               "DeleteTaskRequest", "ExcuteOnceRequest", "SwitchTaskStatusRequest",
                               "LoginResponse", "GetNext5TriggertimesResponse"}
             PROVE  AllPlain(m) /\ Flat(m)
  OBVIOUS
<1>1. \E names : Model[m] = Plains(names)
  BY DEF Model, TaskInfo, TaskLogDayTrend, TopTaskLog, StatisticInfos, LoginCommand, DeleteTaskRequest,
         ExcuteOnceRequest, SwitchTaskStatusRequest, LoginResponse, GetNext5TriggertimesResponse
<1>2. \A f \in DOMAIN Model[m] : Model[m][f] = Plain
  BY <1>1 DEF Plains
<1> QED
  BY <1>2, KindFacts DEF AllPlain, Flat

\* The results of the answers and the rows in them.
LEMMA FlatModels == Flat("TaskLog") /\ Flat("ExecutorClient")
<1>1. Model["TaskLog"] = TaskLog /\ Model["ExecutorClient"] = ExecutorClient
  BY DEF Model
<1>2. \A f \in DOMAIN TaskLog : TaskLog[f] \in {Plain, Date}
  BY DEF TaskLog
<1>3. \A f \in DOMAIN ExecutorClient : ExecutorClient[f] \in {Plain, Date}
  BY DEF ExecutorClient
<1> QED
  BY <1>1, <1>2, <1>3, KindFacts DEF Flat

Results == {"LoginResponse", "ListTaskInfosResponse", "LisTaskLogsResponse", "ListClientsResponse",
            "TaskLogsDayTrendResponse", "ListTopTaskLogResponse", "StatisticsResponse",
            "GetNext5TriggertimesResponse"}

LEMMA ResultModels ==
  ASSUME NEW m \in Results
  PROVE  Shallow(m)
<1>1. CASE m \in {"LoginResponse", "GetNext5TriggertimesResponse"}
  BY <1>1, PlainModels DEF Flat, Shallow
<1>2. CASE m \in {"ListTaskInfosResponse", "LisTaskLogsResponse", "ListClientsResponse"}
  <2>1. \E row \in {"TaskInfo", "TaskLog", "ExecutorClient"} : Model[m] = [count |-> Plain, rows |-> Many(row)]
    BY <1>2 DEF Model, ListTaskInfosResponse, LisTaskLogsResponse, ListClientsResponse
  <2> QED
    <3>1. \A f \in DOMAIN Model[m] :
            Model[m][f] = Plain \/ \E row \in {"TaskInfo", "TaskLog", "ExecutorClient"} : Model[m][f] = Many(row)
      BY <2>1
    <3> QED
      BY <3>1, KindFacts, PlainModels, FlatModels DEF Shallow
<1>3. CASE m \in {"TaskLogsDayTrendResponse", "ListTopTaskLogResponse"}
  <2>1. \E row \in {"TaskLogDayTrend", "TopTaskLog"} : Model[m] = [data |-> Many(row)]
    BY <1>3 DEF Model, TaskLogsDayTrendResponse, ListTopTaskLogResponse
  <2> QED
    BY <2>1, PlainModels DEF Shallow, Many
<1>4. CASE m = "StatisticsResponse"
  <2>1. Model[m] = StatisticsResponse
    BY <1>4 DEF Model
  <2> QED
    BY <2>1, PlainModels DEF Shallow, StatisticsResponse, One
<1> QED
  BY <1>1, <1>2, <1>3, <1>4 DEF Results

LEMMA AnswerModels ==
  ASSUME NEW name \in DOMAIN Op
  PROVE  Deep(Op[name].answer)
<1>1. Op[name].answer \in
        {"LoginResponseBaseResponse", "ListTaskInfosResponseBaseResponse", "LisTaskLogsResponseBaseResponse",
         "ListClientsResponseBaseResponse", "TaskLogsDayTrendResponseBaseResponse",
         "ListTopTaskLogResponseBaseResponse", "StatisticsResponseBaseResponse",
         "GetNext5TriggertimesResponseBaseResponse", "AddTaskResponseBaseResponse",
         "DeleteTaskResponseBaseResponse", "ExcuteOnceResponseBaseResponse",
         "SwitchTaskStatusResponseBaseResponse"}
  BY DEF Op, login, addTaskInfo, deleteTask, excuteOnce, switchTaskStatus, getNext5Tiggertimes, listTaskInfos,
         listLogs, listClients, statistics, taskLogsDayTrend, topTaskLog, Get, Post
<1>2. \/ Model[Op[name].answer] = BaseResponse(Plain)
      \/ \E r \in Results : Model[Op[name].answer] = BaseResponse(One(r))
  BY <1>1 DEF Model, Results, LoginResponseBaseResponse, ListTaskInfosResponseBaseResponse,
         LisTaskLogsResponseBaseResponse, ListClientsResponseBaseResponse, TaskLogsDayTrendResponseBaseResponse,
         ListTopTaskLogResponseBaseResponse, StatisticsResponseBaseResponse,
         GetNext5TriggertimesResponseBaseResponse, AddTaskResponseBaseResponse, DeleteTaskResponseBaseResponse,
         ExcuteOnceResponseBaseResponse, SwitchTaskStatusResponseBaseResponse
<1> QED
  <2>1. \A f \in DOMAIN Model[Op[name].answer] :
          \/ Model[Op[name].answer][f] \in {Plain, ReadOnly}
          \/ \E r \in Results : Model[Op[name].answer][f] = One(r)
    <3>1. \A result : \A f \in DOMAIN BaseResponse(result) : BaseResponse(result)[f] \in {Plain, ReadOnly, result}
      BY DEF BaseResponse
    <3> QED
      BY <1>2, <3>1
  <2> QED
    BY <2>1, KindFacts, ResultModels DEF Deep

LEMMA BodyModels ==
  ASSUME NEW name \in DOMAIN Op, Op[name].body # "none"
  PROVE  Sent(Op[name].body)
<1>1. Op[name].body \in {"LoginCommand", "AddTaskRequest", "DeleteTaskRequest", "ExcuteOnceRequest",
                         "SwitchTaskStatusRequest"}
  BY DEF Op, login, addTaskInfo, deleteTask, excuteOnce, switchTaskStatus, getNext5Tiggertimes, listTaskInfos,
         listLogs, listClients, statistics, taskLogsDayTrend, topTaskLog, Get, Post
<1>2. CASE Op[name].body = "AddTaskRequest"
  <2>1. Model[Op[name].body] = AddTaskRequest
    BY <1>2 DEF Model
  <2> QED
    BY <2>1, PlainModels DEF Sent, AddTaskRequest, One
<1>3. CASE Op[name].body # "AddTaskRequest"
  BY <1>1, <1>3, PlainModels DEF Sent, AllPlain
<1> QED
  BY <1>2, <1>3

\* No two parameters go into the query under one name.
LEMMA QueryNames ==
  ASSUME NEW name \in DOMAIN Op,
         NEW p \in DOMAIN Op[name].query, NEW q \in DOMAIN Op[name].query,
         Op[name].query[p].as = Op[name].query[q].as
  PROVE  p = q
<1>1. DOMAIN Op = {"login", "addTaskInfo", "deleteTask", "excuteOnce", "switchTaskStatus", "getNext5Tiggertimes",
                   "listTaskInfos", "listLogs", "listClients", "statistics", "taskLogsDayTrend", "topTaskLog"}
  BY DEF Op
<1>2. CASE name \in {"login", "addTaskInfo", "deleteTask", "excuteOnce", "switchTaskStatus", "statistics"}
  <2>1. Op[name].query = NoParams
    BY <1>2 DEF Op, login, addTaskInfo, deleteTask, excuteOnce, switchTaskStatus, statistics, Get, Post
  <2> QED
    BY <2>1 DEF NoParams
<1>3. CASE name \in {"getNext5Tiggertimes", "listTaskInfos", "listClients"}
  BY <1>3 DEF Op, getNext5Tiggertimes, listTaskInfos, listClients, Get, Param
<1>4. CASE name = "listLogs"
  BY <1>4 DEF Op, listLogs, Get, Param, DateParam
<1>5. CASE name = "taskLogsDayTrend"
  BY <1>5 DEF Op, taskLogsDayTrend, Get, DateParam
<1>6. CASE name = "topTaskLog"
  BY <1>6 DEF Op, topTaskLog, Get, Param, DateParam, Required
<1> QED
  BY <1>1, <1>2, <1>3, <1>4, <1>5, <1>6

-----------------------------------------------------------------------------
\* null and undefined are no objects.
Separate == Null # Undefined /\ \A S, T : Null \notin [S -> T] /\ Undefined \notin [S -> T]

LEMMA Objects ==
  ASSUME Separate, NEW S, NEW f, f = [x \in S |-> f[x]]
  PROVE  f # Null /\ f # Undefined
<1> DEFINE T == {f[x] : x \in S}
<1>1. f \in [S -> T]
  OBVIOUS
<1> HIDE DEF T
<1>2. Null \notin [S -> T] /\ Undefined \notin [S -> T]
  BY DEF Separate
<1> DEFINE F == [S -> T]
<1>3. f \in F /\ Null \notin F /\ Undefined \notin F
  BY <1>1, <1>2
<1> HIDE DEF F
<1> QED
  BY <1>3

LEMMA Texts ==
  ASSUME Separate, NEW a, NEW b
  PROVE  <<a, b>> # Null /\ <<a, b>> # Undefined
<1> DEFINE pair == <<a, b>>
<1>1. pair = [i \in 1..2 |-> pair[i]]
  OBVIOUS
<1> HIDE DEF pair
<1>2. pair # Null /\ pair # Undefined
  BY <1>1, Objects
<1> QED
  BY <1>2 DEF pair

\* The fields that are written.
Kept(m) == {g \in DOMAIN Model[m] : ~Model[m][g].readonly}

\* What was parsed and what was written of an object is an object.
LEMMA ParsedRow ==
  ASSUME Separate, NEW m, NEW json, json # Null
  PROVE  LET object == FromRow(m, json) IN
           /\ object = [f \in DOMAIN Model[m] |-> object[f]]
           /\ object # Null /\ object # Undefined
<1> DEFINE object == FromRow(m, json)
           S == DOMAIN Model[m]
           T == {object[f] : f \in S}
<1>1. object \in [S -> T]
  BY DEF FromRow, Parsed
<1> HIDE DEF object
<1>2. object = [f \in S |-> object[f]]
  BY <1>1
<1>3. object # Null /\ object # Undefined
  BY <1>2, Objects
<1> QED
  BY <1>2, <1>3 DEF object

LEMMA ParsedResult ==
  ASSUME Separate, NEW m, NEW json, json # Null
  PROVE  LET object == FromResult(m, json) IN
           /\ object = [f \in DOMAIN Model[m] |-> object[f]]
           /\ object # Null /\ object # Undefined
<1> DEFINE object == FromResult(m, json)
           S == DOMAIN Model[m]
           T == {object[f] : f \in S}
<1>1. object \in [S -> T]
  BY DEF FromResult, Parsed
<1> HIDE DEF object
<1>2. object = [f \in S |-> object[f]]
  BY <1>1
<1>3. object # Null /\ object # Undefined
  BY <1>2, Objects
<1> QED
  BY <1>2, <1>3 DEF object

LEMMA ParsedJSON ==
  ASSUME Separate, NEW m, NEW json, json # Null
  PROVE  LET object == FromJSON(m, json) IN
           /\ object = [f \in DOMAIN Model[m] |-> object[f]]
           /\ object # Null /\ object # Undefined
<1> DEFINE object == FromJSON(m, json)
           S == DOMAIN Model[m]
           T == {object[f] : f \in S}
<1>1. object \in [S -> T]
  BY DEF FromJSON, Parsed
<1> HIDE DEF object
<1>2. object = [f \in S |-> object[f]]
  BY <1>1
<1>3. object # Null /\ object # Undefined
  BY <1>2, Objects
<1> QED
  BY <1>2, <1>3 DEF object

LEMMA WrittenRow ==
  ASSUME Separate, NEW m, NEW value, value # Null, value # Undefined
  PROVE  LET object == ToRow(m, value) IN
           /\ object = [f \in Kept(m) |-> object[f]]
           /\ object # Null /\ object # Undefined
<1> DEFINE object == ToRow(m, value)
           S == Kept(m)
           T == {object[f] : f \in S}
<1>1. object \in [S -> T]
  BY DEF ToRow, Written, Kept
<1> HIDE DEF object
<1>2. object = [f \in S |-> object[f]]
  BY <1>1
<1>3. object # Null /\ object # Undefined
  BY <1>2, Objects
<1> QED
  BY <1>2, <1>3 DEF object

LEMMA WrittenResult ==
  ASSUME Separate, NEW m, NEW value, value # Null, value # Undefined
  PROVE  LET object == ToResult(m, value) IN
           /\ object = [f \in Kept(m) |-> object[f]]
           /\ object # Null /\ object # Undefined
<1> DEFINE object == ToResult(m, value)
           S == Kept(m)
           T == {object[f] : f \in S}
<1>1. object \in [S -> T]
  BY DEF ToResult, Written, Kept
<1> HIDE DEF object
<1>2. object = [f \in S |-> object[f]]
  BY <1>1
<1>3. object # Null /\ object # Undefined
  BY <1>2, Objects
<1> QED
  BY <1>2, <1>3 DEF object

LEMMA WrittenJSON ==
  ASSUME Separate, NEW m, NEW value, value # Null, value # Undefined
  PROVE  LET object == ToJSON(m, value) IN
           /\ object = [f \in Kept(m) |-> object[f]]
           /\ object # Null /\ object # Undefined
<1> DEFINE object == ToJSON(m, value)
           S == Kept(m)
           T == {object[f] : f \in S}
<1>1. object \in [S -> T]
  BY DEF ToJSON, Written, Kept
<1> HIDE DEF object
<1>2. object = [f \in S |-> object[f]]
  BY <1>1
<1>3. object # Null /\ object # Undefined
  BY <1>2, Objects
<1> QED
  BY <1>2, <1>3 DEF object

\* The fields an answer says something about.
Heard(m, json) == {g \in DOMAIN json \cap DOMAIN Model[m] : json[g] # Null /\ ~Model[m][g].readonly}

\* An object that was parsed, written and stringified, whatever the conversion of the
\* objects in it: the row, ...
LEMMA RowBack ==
  ASSUME Separate, NEW m, Flat(m), NEW json, ShapedRow(m, json)
  PROVE  DefinedRow(m, ToRow(m, FromRow(m, json))) = SaidRow(m, json)
<1>1. CASE json = Null
  BY <1>1 DEF FromRow, Parsed, ToRow, Written, Kept, DefinedRow, Defined, SaidRow, Said
<1>2. CASE json # Null
  <2> DEFINE D == DOMAIN Model[m]
             W == Kept(m)
  <2>0. PICK v : v = FromRow(m, json)
    OBVIOUS
  <2>1. PICK w : w = ToRow(m, v)
    OBVIOUS
  <2>2. v = [f \in D |-> v[f]] /\ v # Null /\ v # Undefined
    BY <1>2, <2>0, ParsedRow
  <2>3. w = [f \in W |-> w[f]] /\ w # Null /\ w # Undefined
    BY <2>1, <2>2, WrittenRow
  <2>4. ASSUME NEW f \in W, ~(f \in DOMAIN json /\ json[f] # Null)
        PROVE  w[f] = Undefined
    <3>1. v[f] = Undefined
      BY <1>2, <2>0, <2>4 DEF FromRow, Parsed, Kept
    <3> QED
      BY <2>1, <2>2, <3>1 DEF ToRow, Written, Kept
  <2>5. ASSUME NEW f \in Heard(m, json)
        PROVE  w[f] = json[f] /\ w[f] # Undefined
    <3>1. f \in D /\ f \in DOMAIN json /\ json[f] # Null /\ ~Model[m][f].readonly /\ json[f] # Undefined
      BY <1>2 DEF Heard, ShapedRow, Shaped
    <3>2. CASE Model[m][f].holds = "plain"
      <4>1. v[f] = json[f]
        BY <1>2, <2>0, <3>1, <3>2 DEF FromRow, Parsed
      <4> QED
        BY <2>1, <2>2, <3>1, <3>2, <4>1 DEF ToRow, Written, Kept
    <3>3. CASE Model[m][f].holds = "date"
      <4>1. json[f] = <<"plain", json[f][2]>>
        BY <1>2, <3>1, <3>3 DEF ShapedRow, Shaped
      <4>2. v[f] = <<"date", json[f][2]>> /\ v[f] # Null /\ v[f] # Undefined
        BY <1>2, <2>0, <3>1, <3>3, Texts DEF FromRow, Parsed, ToDate
      <4>3. w[f] = <<"plain", v[f][2]>>
        BY <2>1, <2>2, <3>1, <3>3, <4>2 DEF ToRow, Written, Kept, ToText
      <4> QED
        BY <3>1, <4>1, <4>2, <4>3
    <3> QED
      BY <3>1, <3>2, <3>3 DEF Flat
  <2>6. {g \in DOMAIN w : w[g] # Undefined} = Heard(m, json)
    BY <2>3, <2>4, <2>5 DEF Heard, Kept
  <2>7. \A f \in Heard(m, json) : w[f] # Null /\ Model[m][f].holds \notin {"one", "many"}
    BY <2>5 DEF Heard, Flat
  <2>8. DefinedRow(m, w) = [f \in Heard(m, json) |-> w[f]]
    BY <2>3, <2>6, <2>7 DEF DefinedRow, Defined
  <2>9. SaidRow(m, json) = [f \in Heard(m, json) |-> json[f]]
    BY <1>2, <2>7 DEF SaidRow, Said, Heard
  <2> QED
    BY <2>0, <2>1, <2>5, <2>8, <2>9
<1> QED
  BY <1>1, <1>2

\* What was made of an object is an object, with the fields the answer says something about.
LEMMA DefinedResultObject ==
  ASSUME NEW m, NEW w, w # Null, w # Undefined, NEW S, S = {g \in DOMAIN w : w[g] # Undefined}
  PROVE  DefinedResult(m, w) = [f \in S |-> DefinedResult(m, w)[f]]
<1> DEFINE object == DefinedResult(m, w)
           T == {object[f] : f \in S}
<1>1. object \in [S -> T]
  BY DEF DefinedResult, Defined
<1> HIDE DEF object
<1>2. object = [f \in S |-> object[f]]
  BY <1>1
<1> QED
  BY <1>2 DEF object

LEMMA SaidResultObject ==
  ASSUME NEW m, NEW json, json # Null
  PROVE  SaidResult(m, json) = [f \in Heard(m, json) |-> SaidResult(m, json)[f]]
<1> DEFINE object == SaidResult(m, json)
           S == Heard(m, json)
           T == {object[f] : f \in S}
<1>1. object \in [S -> T]
  BY DEF SaidResult, Said, Heard
<1> HIDE DEF object
<1>2. object = [f \in S |-> object[f]]
  BY <1>1
<1> QED
  BY <1>2 DEF object

LEMMA StringifyObject ==
  ASSUME NEW m, NEW w, w # Null, w # Undefined, NEW S, S = {g \in DOMAIN w : w[g] # Undefined}
  PROVE  Stringify(m, w) = [f \in S |-> Stringify(m, w)[f]]
<1> DEFINE object == Stringify(m, w)
           T == {object[f] : f \in S}
<1>1. object \in [S -> T]
  BY DEF Stringify, Defined
<1> HIDE DEF object
<1>2. object = [f \in S |-> object[f]]
  BY <1>1
<1> QED
  BY <1>2 DEF object

LEMMA KnownObject ==
  ASSUME NEW m, NEW json, json # Null
  PROVE  Known(m, json) = [f \in Heard(m, json) |-> Known(m, json)[f]]
<1> DEFINE object == Known(m, json)
           S == Heard(m, json)
           T == {object[f] : f \in S}
<1>1. object \in [S -> T]
  BY DEF Known, Said, Heard
<1> HIDE DEF object
<1>2. object = [f \in S |-> object[f]]
  BY <1>1
<1> QED
  BY <1>2 DEF object

\* ..., the result with its rows, ...
LEMMA ResultBack ==
  ASSUME Separate, NEW m, Shallow(m), NEW json, ShapedResult(m, json)
  PROVE  DefinedResult(m, ToResult(m, FromResult(m, json))) = SaidResult(m, json)
<1>1. CASE json = Null
  BY <1>1 DEF FromResult, Parsed, ToResult, Written, DefinedResult, Defined, SaidResult, Said
<1>2. CASE json # Null
  <2>1. PICK v : v = FromResult(m, json)
    OBVIOUS
  <2>2. PICK w : w = ToResult(m, v)
    OBVIOUS
  <2>3. v = [f \in DOMAIN Model[m] |-> v[f]] /\ v # Null /\ v # Undefined
    BY <1>2, <2>1, ParsedResult
  <2>4. w = [f \in Kept(m) |-> w[f]] /\ w # Null /\ w # Undefined
    BY <2>2, <2>3, WrittenResult
  <2>5. ASSUME NEW f \in Kept(m), ~(f \in DOMAIN json /\ json[f] # Null)
        PROVE  w[f] = Undefined
    <3>1. v[f] = Undefined
      BY <1>2, <2>1, <2>5 DEF FromResult, Parsed, Kept
    <3> QED
      BY <2>2, <2>3, <3>1 DEF ToResult, Written, Kept
  <2>6. ASSUME NEW f \in Heard(m, json)
        PROVE  /\ w[f] # Null /\ w[f] # Undefined
               /\ DefinedResult(m, w)[f] = SaidResult(m, json)[f]
    <3> DEFINE t == Model[m][f]
    <3>1. f \in DOMAIN Model[m] /\ f \in DOMAIN json /\ json[f] # Null /\ ~t.readonly /\ json[f] # Undefined
      BY <1>2 DEF Heard, ShapedResult, Shaped
    <3>2. f \in Kept(m) /\ f \in DOMAIN w
      BY <2>4, <3>1 DEF Kept
    <3>3. CASE t.holds = "plain"
      <4>1. v[f] = json[f]
        BY <1>2, <2>1, <3>1, <3>3 DEF FromResult, Parsed
      <4>2. w[f] = json[f]
        BY <2>2, <2>3, <3>1, <3>2, <3>3, <4>1 DEF ToResult, Written, Kept
      <4> QED
        BY <1>2, <2>4, <3>1, <3>2, <3>3, <4>2 DEF DefinedResult, Defined, SaidResult, Said
    <3>4. CASE t.holds = "date"
      <4>1. json[f] = <<"plain", json[f][2]>>
        BY <1>2, <3>1, <3>4 DEF ShapedResult, Shaped
      <4>2. v[f] = <<"date", json[f][2]>> /\ v[f] # Null /\ v[f] # Undefined
        BY <1>2, <2>1, <3>1, <3>4, Texts DEF FromResult, Parsed, ToDate
      <4>3. w[f] = <<"plain", v[f][2]>>
        BY <2>2, <2>3, <3>1, <3>2, <3>4, <4>2 DEF ToResult, Written, Kept, ToText
      <4>4. w[f] = json[f]
        BY <4>1, <4>2, <4>3
      <4> QED
        BY <1>2, <2>4, <3>1, <3>2, <3>4, <4>4 DEF DefinedResult, Defined, SaidResult, Said
    <3>5. CASE t.holds = "one"
      <4>1. Flat(t.of) /\ ShapedRow(t.of, json[f])
        BY <1>2, <3>1, <3>5 DEF Shallow, ShapedResult, Shaped
      <4>2. v[f] = FromRow(t.of, json[f]) /\ v[f] # Null /\ v[f] # Undefined
        BY <1>2, <2>1, <3>1, <3>5, ParsedRow DEF FromResult, Parsed
      <4>3. w[f] = ToRow(t.of, v[f]) /\ w[f] # Null /\ w[f] # Undefined
        BY <2>2, <2>3, <3>1, <3>2, <3>5, <4>2, WrittenRow DEF ToResult, Written, Kept
      <4>4. DefinedResult(m, w)[f] = DefinedRow(t.of, w[f])
        BY <2>4, <3>1, <3>2, <3>5, <4>3 DEF DefinedResult, Defined
      <4>5. SaidResult(m, json)[f] = SaidRow(t.of, json[f])
        BY <1>2, <3>1, <3>5 DEF SaidResult, Said
      <4> QED
        BY <4>1, <4>2, <4>3, <4>4, <4>5, RowBack
    <3>6. CASE t.holds = "many"
      <4>1. Flat(t.of) /\ \A i \in DOMAIN json[f] : ShapedRow(t.of, json[f][i])
        BY <1>2, <3>1, <3>6 DEF Shallow, ShapedResult, Shaped
      <4>2. v[f] = [i \in DOMAIN json[f] |-> FromRow(t.of, json[f][i])]
        BY <1>2, <2>1, <3>1, <3>6 DEF FromResult, Parsed
      <4>3. v[f] = [i \in DOMAIN json[f] |-> v[f][i]]
        BY <4>2
      <4>4. v[f] # Null /\ v[f] # Undefined
        BY <4>3, Objects
      <4>5. w[f] = [i \in DOMAIN v[f] |-> ToRow(t.of, v[f][i])]
        BY <2>2, <2>3, <3>1, <3>2, <3>6, <4>4 DEF ToResult, Written, Kept
      <4>6. w[f] = [i \in DOMAIN json[f] |-> ToRow(t.of, FromRow(t.of, json[f][i]))]
        BY <4>2, <4>5
      <4>7. w[f] = [i \in DOMAIN json[f] |-> w[f][i]]
        BY <4>6
      <4>8. w[f] # Null /\ w[f] # Undefined
        BY <4>7, Objects
      <4>9. DefinedResult(m, w)[f] = [i \in DOMAIN w[f] |-> DefinedRow(t.of, w[f][i])]
        BY <2>4, <3>1, <3>2, <3>6, <4>8 DEF DefinedResult, Defined
      <4>10. SaidResult(m, json)[f] = [i \in DOMAIN json[f] |-> SaidRow(t.of, json[f][i])]
        BY <1>2, <3>1, <3>6 DEF SaidResult, Said
      <4>11. \A i \in DOMAIN json[f] : DefinedRow(t.of, w[f][i]) = SaidRow(t.of, json[f][i])
        BY <4>1, <4>6, RowBack
      <4>12. DOMAIN w[f] = DOMAIN json[f]
        BY <4>6
      <4> QED
        BY <4>8, <4>9, <4>10, <4>11, <4>12
    <3> QED
      BY <3>1, <3>3, <3>4, <3>5, <3>6 DEF Shallow
  <2>7. {g \in DOMAIN w : w[g] # Undefined} = Heard(m, json)
    BY <2>4, <2>5, <2>6 DEF Heard, Kept
  <2>8. DefinedResult(m, w) = [f \in Heard(m, json) |-> DefinedResult(m, w)[f]]
    BY <2>4, <2>7, DefinedResultObject
  <2>9. SaidResult(m, json) = [f \in Heard(m, json) |-> SaidResult(m, json)[f]]
    BY <1>2, SaidResultObject
  <2> QED
    BY <2>1, <2>2, <2>6, <2>8, <2>9
<1> QED
  BY <1>1, <1>2

\* ... and the envelope with its result.
LEMMA JSONBack ==
  ASSUME Separate, NEW m, Deep(m), NEW json, ShapedJSON(m, json)
  PROVE  Stringify(m, ToJSON(m, FromJSON(m, json))) = Known(m, json)
<1>1. CASE json = Null
  BY <1>1 DEF FromJSON, Parsed, ToJSON, Written, Stringify, Defined, Known, Said
<1>2. CASE json # Null
  <2>1. PICK v : v = FromJSON(m, json)
    OBVIOUS
  <2>2. PICK w : w = ToJSON(m, v)
    OBVIOUS
  <2>3. v = [f \in DOMAIN Model[m] |-> v[f]] /\ v # Null /\ v # Undefined
    BY <1>2, <2>1, ParsedJSON
  <2>4. w = [f \in Kept(m) |-> w[f]] /\ w # Null /\ w # Undefined
    BY <2>2, <2>3, WrittenJSON
  <2>5. ASSUME NEW f \in Kept(m), ~(f \in DOMAIN json /\ json[f] # Null)
        PROVE  w[f] = Undefined
    <3>1. v[f] = Undefined
      BY <1>2, <2>1, <2>5 DEF FromJSON, Parsed, Kept
    <3> QED
      BY <2>2, <2>3, <3>1 DEF ToJSON, Written, Kept
  <2>6. ASSUME NEW f \in Heard(m, json)
        PROVE  /\ w[f] # Null /\ w[f] # Undefined
               /\ Stringify(m, w)[f] = Known(m, json)[f]
    <3> DEFINE t == Model[m][f]
    <3>1. f \in DOMAIN Model[m] /\ f \in DOMAIN json /\ json[f] # Null /\ ~t.readonly /\ json[f] # Undefined
      BY <1>2 DEF Heard, ShapedJSON, Shaped
    <3>2. f \in Kept(m) /\ f \in DOMAIN w
      BY <2>4, <3>1 DEF Kept
    <3>3. CASE t.holds = "plain"
      <4>1. v[f] = json[f]
        BY <1>2, <2>1, <3>1, <3>3 DEF FromJSON, Parsed
      <4>2. w[f] = json[f]
        BY <2>2, <2>3, <3>1, <3>2, <3>3, <4>1 DEF ToJSON, Written, Kept
      <4> QED
        BY <1>2, <2>4, <3>1, <3>2, <3>3, <4>2 DEF Stringify, Defined, Known, Said
    <3>4. CASE t.holds = "date"
      <4>1. json[f] = <<"plain", json[f][2]>>
        BY <1>2, <3>1, <3>4 DEF ShapedJSON, Shaped
      <4>2. v[f] = <<"date", json[f][2]>> /\ v[f] # Null /\ v[f] # Undefined
        BY <1>2, <2>1, <3>1, <3>4, Texts DEF FromJSON, Parsed, ToDate
      <4>3. w[f] = <<"plain", v[f][2]>>
        BY <2>2, <2>3, <3>1, <3>2, <3>4, <4>2 DEF ToJSON, Written, Kept, ToText
      <4>4. w[f] = json[f]
        BY <4>1, <4>2, <4>3
      <4> QED
        BY <1>2, <2>4, <3>1, <3>2, <3>4, <4>4 DEF Stringify, Defined, Known, Said
    <3>5. CASE t.holds = "one"
      <4>1. Shallow(t.of) /\ ShapedResult(t.of, json[f])
        BY <1>2, <3>1, <3>5 DEF Deep, ShapedJSON, Shaped
      <4>2. v[f] = FromResult(t.of, json[f]) /\ v[f] # Null /\ v[f] # Undefined
        BY <1>2, <2>1, <3>1, <3>5, ParsedResult DEF FromJSON, Parsed
      <4>3. w[f] = ToResult(t.of, v[f]) /\ w[f] # Null /\ w[f] # Undefined
        BY <2>2, <2>3, <3>1, <3>2, <3>5, <4>2, WrittenResult DEF ToJSON, Written, Kept
      <4>4. Stringify(m, w)[f] = DefinedResult(t.of, w[f])
        BY <2>4, <3>1, <3>2, <3>5, <4>3 DEF Stringify, Defined
      <4>5. Known(m, json)[f] = SaidResult(t.of, json[f])
        BY <1>2, <3>1, <3>5 DEF Known, Said
      <4> QED
        BY <4>1, <4>2, <4>3, <4>4, <4>5, ResultBack
    <3>6. CASE t.holds = "many"
      <4>1. Shallow(t.of) /\ \A i \in DOMAIN json[f] : ShapedResult(t.of, json[f][i])
        BY <1>2, <3>1, <3>6 DEF Deep, ShapedJSON, Shaped
      <4>2. v[f] = [i \in DOMAIN json[f] |-> FromResult(t.of, json[f][i])]
        BY <1>2, <2>1, <3>1, <3>6 DEF FromJSON, Parsed
      <4>3. v[f] = [i \in DOMAIN json[f] |-> v[f][i]]
        BY <4>2
      <4>4. v[f] # Null /\ v[f] # Undefined
        BY <4>3, Objects
      <4>5. w[f] = [i \in DOMAIN v[f] |-> ToResult(t.of, v[f][i])]
        BY <2>2, <2>3, <3>1, <3>2, <3>6, <4>4 DEF ToJSON, Written, Kept
      <4>6. w[f] = [i \in DOMAIN json[f] |-> ToResult(t.of, FromResult(t.of, json[f][i]))]
        BY <4>2, <4>5
      <4>7. w[f] = [i \in DOMAIN json[f] |-> w[f][i]]
        BY <4>6
      <4>8. w[f] # Null /\ w[f] # Undefined
        BY <4>7, Objects
      <4>9. Stringify(m, w)[f] = [i \in DOMAIN w[f] |-> DefinedResult(t.of, w[f][i])]
        BY <2>4, <3>1, <3>2, <3>6, <4>8 DEF Stringify, Defined
      <4>10. Known(m, json)[f] = [i \in DOMAIN json[f] |-> SaidResult(t.of, json[f][i])]
        BY <1>2, <3>1, <3>6 DEF Known, Said
      <4>11. \A i \in DOMAIN json[f] : DefinedResult(t.of, w[f][i]) = SaidResult(t.of, json[f][i])
        BY <4>1, <4>6, ResultBack
      <4>12. DOMAIN w[f] = DOMAIN json[f]
        BY <4>6
      <4> QED
        BY <4>8, <4>9, <4>10, <4>11, <4>12
    <3> QED
      BY <3>1, <3>3, <3>4, <3>5, <3>6 DEF Deep
  <2>7. {g \in DOMAIN w : w[g] # Undefined} = Heard(m, json)
    BY <2>4, <2>5, <2>6 DEF Heard, Kept
  <2>8. Stringify(m, w) = [f \in Heard(m, json) |-> Stringify(m, w)[f]]
    BY <2>4, <2>7, StringifyObject
  <2>9. Known(m, json) = [f \in Heard(m, json) |-> Known(m, json)[f]]
    BY <1>2, KnownObject
  <2> QED
    BY <2>1, <2>2, <2>6, <2>8, <2>9
<1> QED
  BY <1>1, <1>2

\* A value that was written, stringified and parsed: an object in the body of a request, ...
LEMMA ResultThere ==
  ASSUME Separate, NEW m, AllPlain(m), NEW value, TypedRow(m, value)
  PROVE  /\ DefinedResult(m, ToResult(m, value)) # Null
         /\ FromResult(m, DefinedResult(m, ToResult(m, value))) = value
<1>1. PICK w : w = ToResult(m, value)
  OBVIOUS
<1>2. PICK json : json = DefinedResult(m, w)
  OBVIOUS
<1>3. value = [f \in DOMAIN Model[m] |-> value[f]] /\ value # Null /\ value # Undefined
  <2>1. value = [f \in DOMAIN Model[m] |-> value[f]]
    BY DEF TypedRow, Typed
  <2> QED
    BY <2>1, Objects
<1>4. w = [f \in DOMAIN Model[m] |-> w[f]] /\ w # Null /\ w # Undefined
  <2>1. Kept(m) = DOMAIN Model[m]
    BY DEF Kept, AllPlain
  <2> QED
    BY <1>1, <1>3, <2>1, WrittenResult
<1>5. ASSUME NEW f \in DOMAIN Model[m]
      PROVE  w[f] = value[f] /\ value[f] # Null
  <2>1. value[f] # Null
    BY DEF TypedRow, Typed, Separate
  <2>2. Model[m][f].holds = "plain" /\ ~Model[m][f].readonly
    BY DEF AllPlain
  <2> QED
    BY <1>1, <1>3, <2>1, <2>2 DEF ToResult, Written
<1> DEFINE S == {g \in DOMAIN w : w[g] # Undefined}
<1>6. json = [f \in S |-> json[f]] /\ json # Null
  <2>1. json = [f \in S |-> json[f]]
    BY <1>2, <1>4, DefinedResultObject
  <2> QED
    BY <2>1, Objects
<1>7. \A f \in S : json[f] = value[f]
  BY <1>2, <1>4, <1>5 DEF DefinedResult, Defined, AllPlain
<1>8. FromResult(m, json) = [f \in DOMAIN Model[m] |-> FromResult(m, json)[f]]
  BY <1>6, ParsedResult
<1>9. ASSUME NEW f \in DOMAIN Model[m]
      PROVE  FromResult(m, json)[f] = value[f]
  <2>1. CASE value[f] = Undefined
    <3>1. f \notin DOMAIN json
      BY <1>4, <1>5, <1>6, <2>1
    <3> QED
      BY <1>6, <2>1, <3>1 DEF FromResult, Parsed
  <2>2. CASE value[f] # Undefined
    <3>1. f \in DOMAIN json /\ json[f] = value[f] /\ json[f] # Null
      BY <1>4, <1>5, <1>6, <1>7, <2>2
    <3> QED
      BY <1>6, <3>1 DEF FromResult, Parsed, AllPlain
  <2> QED
    BY <2>1, <2>2
<1> QED
  BY <1>1, <1>2, <1>3, <1>6, <1>8, <1>9

\* ... and the body.
LEMMA BodyThere ==
  ASSUME Separate, NEW m, Sent(m), NEW value, TypedValue(m, value)
  PROVE  FromJSON(m, Stringify(m, ToJSON(m, value))) = value
<1>1. PICK w : w = ToJSON(m, value)
  OBVIOUS
<1>2. PICK json : json = Stringify(m, w)
  OBVIOUS
<1>3. value = [f \in DOMAIN Model[m] |-> value[f]] /\ value # Null /\ value # Undefined
  <2>1. value = [f \in DOMAIN Model[m] |-> value[f]]
    BY DEF TypedValue, Typed
  <2> QED
    BY <2>1, Objects
<1>4. w = [f \in DOMAIN Model[m] |-> w[f]] /\ w # Null /\ w # Undefined
  <2>1. Kept(m) = DOMAIN Model[m]
    BY DEF Kept, Sent
  <2> QED
    BY <1>1, <1>3, <2>1, WrittenJSON
<1> DEFINE S == {g \in DOMAIN w : w[g] # Undefined}
<1>5. json = [f \in S |-> json[f]] /\ json # Null
  <2>1. json = [f \in S |-> json[f]]
    BY <1>2, <1>4, StringifyObject
  <2> QED
    BY <2>1, Objects
<1>6. FromJSON(m, json) = [f \in DOMAIN Model[m] |-> FromJSON(m, json)[f]]
  BY <1>5, ParsedJSON
<1>7. ASSUME NEW f \in DOMAIN Model[m]
      PROVE  FromJSON(m, json)[f] = value[f]
  <2> DEFINE t == Model[m][f]
  <2>1. ~t.readonly /\ f \in DOMAIN w
    BY <1>4 DEF Sent
  <2>2. CASE value[f] = Undefined
    <3>1. w[f] = Undefined
      BY <1>1, <1>3, <2>1, <2>2 DEF ToJSON, Written
    <3>2. f \notin DOMAIN json
      BY <1>5, <3>1
    <3> QED
      BY <1>5, <2>2, <3>2 DEF FromJSON, Parsed
  <2>3. CASE value[f] # Undefined /\ t.holds = "plain"
    <3>1. value[f] # Null
      BY <2>3 DEF TypedValue, Typed
    <3>2. w[f] = value[f]
      BY <1>1, <1>3, <2>1, <2>3, <3>1 DEF ToJSON, Written
    <3>3. f \in DOMAIN json /\ json[f] = value[f]
      BY <1>2, <1>4, <1>5, <2>1, <2>3, <3>1, <3>2 DEF Stringify, Defined
    <3> QED
      BY <1>5, <2>3, <3>1, <3>3 DEF FromJSON, Parsed
  <2>4. CASE value[f] # Undefined /\ t.holds = "one"
    <3>1. value[f] # Null /\ TypedRow(t.of, value[f]) /\ AllPlain(t.of)
      BY <2>4 DEF TypedValue, Typed, Sent
    <3>2. w[f] = ToResult(t.of, value[f])
      BY <1>1, <1>3, <2>1, <2>4, <3>1 DEF ToJSON, Written
    <3>3. w[f] # Null /\ w[f] # Undefined
      BY <2>4, <3>1, <3>2, WrittenResult
    <3>4. f \in DOMAIN json /\ json[f] = DefinedResult(t.of, w[f])
      BY <1>2, <1>4, <1>5, <2>1, <2>4, <3>3 DEF Stringify, Defined
    <3>5. json[f] # Null /\ FromResult(t.of, json[f]) = value[f]
      BY <3>1, <3>2, <3>4, ResultThere
    <3> QED
      BY <1>5, <2>4, <3>4, <3>5 DEF FromJSON, Parsed
  <2> QED
    BY <2>2, <2>3, <2>4 DEF Sent
<1> QED
  BY <1>1, <1>2, <1>3, <1>6, <1>7

\* The parameters come out of the query as they went in.
LEMMA QueryThere ==
  ASSUME NEW name \in DOMAIN Op, NEW args, NEW request, request.query = QueryOf(Op[name], args),
         DOMAIN args \subseteq DOMAIN Op[name].query, args = [p \in DOMAIN args |-> args[p]],
         \A p \in DOMAIN args : Op[name].query[p].date => args[p] = <<"date", args[p][2]>>
  PROVE  Understood(Op[name], request) = args
<1> DEFINE query == Op[name].query
           set == DOMAIN query \cap DOMAIN args
           of(as) == CHOOSE p \in set : query[p].as = as
<1>1. set = DOMAIN args
  OBVIOUS
<1>2. ASSUME NEW p \in DOMAIN args
      PROVE  of(query[p].as) = p
  <2>1. p \in set /\ \A q \in set : query[q].as = query[p].as => q = p
    BY <1>2, QueryNames
  <2> QED
    BY <2>1
<1>3. request.query = [as \in {query[p].as : p \in set} |->
                         IF query[of(as)].date THEN ToText(args[of(as)]) ELSE args[of(as)]]
  BY Zenon DEF QueryOf
<1> HIDE DEF of
<1>4. DOMAIN request.query = {query[p].as : p \in DOMAIN args}
  BY <1>1, <1>3
<1>5. {q \in DOMAIN query : query[q].as \in DOMAIN request.query} = DOMAIN args
  <2>1. ASSUME NEW q \in DOMAIN query, query[q].as \in DOMAIN request.query
        PROVE  q \in DOMAIN args
    <3>1. PICK p \in DOMAIN args : query[q].as = query[p].as
      BY <1>4, <2>1
    <3> QED
      BY <3>1, QueryNames
  <2> QED
    BY <1>4, <2>1
<1>6. ASSUME NEW p \in DOMAIN args
      PROVE  request.query[query[p].as] = IF query[p].date THEN ToText(args[p]) ELSE args[p]
  BY <1>1, <1>2, <1>3, <1>6
<1>7. ASSUME NEW p \in DOMAIN args
      PROVE  args[p] = IF query[p].date THEN ToDate(request.query[query[p].as]) ELSE request.query[query[p].as]
  <2>1. CASE query[p].date
    <3>1. args[p] = <<"date", args[p][2]>>
      BY <2>1
    <3>2. request.query[query[p].as] = <<"plain", args[p][2]>>
      BY <1>6, <2>1 DEF ToText
    <3> QED
      BY <2>1, <3>1, <3>2 DEF ToDate
  <2>2. CASE ~query[p].date
    BY <1>6, <2>2
  <2> QED
    BY <2>1, <2>2
<1> QED
  BY <1>5, <1>7 DEF Understood

-----------------------------------------------------------------------------
\* A request that is sent means what the page asked for.
LEMMA CallSays ==
  ASSUME Separate, SessionInv, NEW name \in allRoutes[route].calls, NEW args \in Queries(Op[name].query),
         NEW body \in IF Op[name].body = "none" THEN {Undefined} ELSE Values(Op[name].body),
         Call(name, args, body)
  PROVE  CallFaithful'
<1>1. name \in DOMAIN Op
  BY RouteFacts DEF SessionInv, SessionTypeOK
<1> DEFINE request == Request(Op[name], token, args, body)
<1>2. /\ call'.op = name /\ call'.args = args /\ call'.body = body /\ call'.outcome # "data"
      /\ call'.request \in {Null, request}
  BY DEF Call, NoCall
<1>3. request.query = QueryOf(Op[name], args)
  BY DEF Request, FetchParams
<1>4. Understood(Op[name], request) = args
  <2>1. /\ DOMAIN args \subseteq DOMAIN Op[name].query
        /\ args = [p \in DOMAIN args |-> args[p]]
        /\ \A p \in DOMAIN args : Op[name].query[p].date => args[p] = <<"date", args[p][2]>>
    BY <1>1, SessionAssumption
  <2> HIDE DEF request
  <2> QED
    BY <1>1, <1>3, <2>1, QueryThere
<1>5. ASSUME body \notin {Null, Undefined}
      PROVE  FromJSON(Op[name].body, request.body) = body
  <2>1. Op[name].body # "none" /\ TypedValue(Op[name].body, body)
    BY <1>1, <1>5, SessionAssumption
  <2>2. request.body = Stringify(Op[name].body, ToJSON(Op[name].body, body))
    BY <2>1 DEF Request, FetchParams
  <2> QED
    BY <1>1, <2>1, <2>2, BodyModels, BodyThere
<1> HIDE DEF request
<1> QED
  BY <1>2, <1>4, <1>5 DEF CallFaithful, Asked

\* An answer that is received is told as it was said.
LEMMA AnswerSays ==
  ASSUME Separate, SessionInv, CallFaithful, NEW answer, NEW json \in Jsons(answer), Receive(answer, json)
  PROVE  CallFaithful'
<1> DEFINE value == IF Outcome(answer) = "data" THEN Value(Op[call.op], json) ELSE Undefined
           kept == IF Outcome(answer) = "data" THEN json ELSE Null
<1>1. call.op \in DOMAIN Op
  BY DEF SessionInv, SessionTypeOK, Receive, Pending
<1>2. call' = [call EXCEPT !.outcome = Outcome(answer), !.value = value, !.json = kept]
  BY DEF Receive
<1> HIDE DEF value, kept
<1>3. /\ call'.op = call.op /\ call'.args = call.args /\ call'.body = call.body /\ call'.request = call.request
      /\ call'.outcome = Outcome(answer) /\ call'.value = value /\ call'.json = kept
  BY <1>2 DEF SessionInv, CallRecord
<1>4. ASSUME Outcome(answer) = "data"
      PROVE  LET m == Op[call.op].answer IN Stringify(m, ToJSON(m, value)) = Known(m, kept)
  <2>1. value = FromJSON(Op[call.op].answer, json) /\ kept = json
    BY <1>4 DEF value, kept, Value
  <2>2. json \in Bodies(Op[call.op].answer)
    BY <1>4 DEF Jsons
  <2>3. ShapedJSON(Op[call.op].answer, json)
    BY <1>1, <2>2, SessionAssumption
  <2> QED
    BY <1>1, <2>1, <2>3, AnswerModels, JSONBack
<1> QED
  <2>1. (call'.request # Null => Asked(call'))
    BY <1>3 DEF CallFaithful, Asked
  <2>2. call'.outcome = "data" => Told(call')
    BY <1>3, <1>4 DEF Told
  <2> QED
    BY <2>1, <2>2 DEF CallFaithful

\* The calls of the generated client, for every answer that has the shape of its model and
\* every value of the type TypeScript asks for: the server is asked for what the page asked
\* for, and what the page is told, sent back, would be the answer it came from.
THEOREM CallFaithfulCorrect ==
  ASSUME Separate
  PROVE  SessionSpec => []CallFaithful
<1>1. SessionInit => SessionInv /\ CallFaithful
  <2>1. SessionInit => CallFaithful
    BY DEF SessionInit, NoCall, CallFaithful
  <2> QED
    BY <2>1, SessionInitially
<1>2. SessionInv /\ CallFaithful /\ [SessionNext]_sessionVars => SessionInv' /\ CallFaithful'
  <2> SUFFICES ASSUME SessionInv, CallFaithful, [SessionNext]_sessionVars
               PROVE  SessionInv' /\ CallFaithful'
    OBVIOUS
  <2>1. SessionInv'
    BY SessionInductive
  <2>2. CASE \/ \E r \in DOMAIN allRoutes : Navigate(r) \/ Load(r)
             \/ Logout
             \/ \E t \in Tokens : OtherTab(t)
             \/ Expire
             \/ UNCHANGED sessionVars
    <3>1. call' = call \/ call' = NoCall
      BY <2>2, PageSteps
    <3>2. CASE call' = call
      BY <2>1, <3>2 DEF CallFaithful
    <3>3. CASE call' = NoCall
      BY <2>1, <3>3 DEF CallFaithful, NoCall
    <3> QED
      BY <3>1, <3>2, <3>3
  <2>3. ASSUME NEW name \in allRoutes[route].calls, NEW args \in Queries(Op[name].query),
               NEW body \in IF Op[name].body = "none" THEN {Undefined} ELSE Values(Op[name].body),
               Call(name, args, body)
        PROVE  CallFaithful'
    BY <2>3, CallSays
  <2>4. CASE SomeAnswer
    <3>1. PICK answer \in Answers : \E json \in Jsons(answer) : Receive(answer, json)
      BY <2>4 DEF SomeAnswer
    <3> QED
      BY <2>1, <3>1, AnswerSays
  <2> QED
    BY <2>1, <2>2, <2>3, <2>4 DEF SessionNext
<1> QED
  BY <1>1, <1>2, PTL DEF SessionSpec
=============================================================================
