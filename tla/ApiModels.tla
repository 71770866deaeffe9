----------------------------- MODULE ApiModels -----------------------------
(***************************************************************************)
(* The data the web interface exchanges with the server: for every model   *)
(* of the generated client, its fields and what they hold, and the         *)
(* conversions XxxFromJSON and XxxToJSON, which the generator writes out   *)
(* field by field and which differ only in that table.                     *)
(*                                                                         *)
(* An object is a record, an array a sequence, and a value that is neither *)
(* is a pair of its type and what it stands for: a date arrives as text.   *)
(***************************************************************************)
EXTENDS ApiRuntime, Sequences

CONSTANTS Null, Undefined

Plain == [holds |-> "plain", of |-> "", readonly |-> FALSE]
Date == [holds |-> "date", of |-> "", readonly |-> FALSE]
One(model) == [holds |-> "one", of |-> model, readonly |-> FALSE]
Many(model) == [holds |-> "many", of |-> model, readonly |-> FALSE]
ReadOnly == [Plain EXCEPT !.readonly = TRUE]

\* What most models are: fields that are taken over as they are.
Plains(names) == [f \in names |-> Plain]

\* The envelope of every answer.  Only the server says whether it succeeded.
BaseResponse(result) ==
  [code |-> Plain, success |-> ReadOnly, result |-> result, message |-> Plain, traceId |-> Plain]

-----------------------------------------------------------------------------
TaskInfo == Plains(
  {"id", "appid", "name", "handler", "description", "timeType", "timeConf", "attemptInterval",
   "attemptMax", "handleParams", "scheduleMode", "alarmType", "alarmContent", "enabled",
   "triggerNextTime", "slot"})

TaskLog ==
  [id |-> Plain, taskId |-> Plain, handleStart |-> Date, handleEnd |-> Date, handleResult |-> Plain,
   handleStatus |-> Plain, handleClient |-> Plain, alarmStatus |-> Plain]

ExecutorClient ==
  [groupName |-> Plain, connectionId |-> Plain, handelrs |-> Plain, startTime |-> Date,
   clientId |-> Plain]

TaskLogDayTrend == Plains({"day", "total", "success"})
TopTaskLog == Plains({"taskId", "name", "description", "count"})
StatisticInfos == Plains({"count"})

LoginCommand == Plains({"userName", "password"})
AddTaskRequest == [task |-> One("TaskInfo")]
DeleteTaskRequest == Plains({"taskId"})
ExcuteOnceRequest == Plains({"taskId"})
SwitchTaskStatusRequest == Plains({"taskId", "enabled"})

LoginResponse == Plains({"token"})
ListTaskInfosResponse == [count |-> Plain, rows |-> Many("TaskInfo")]
LisTaskLogsResponse == [count |-> Plain, rows |-> Many("TaskLog")]
ListClientsResponse == [count |-> Plain, rows |-> Many("ExecutorClient")]
TaskLogsDayTrendResponse == [data |-> Many("TaskLogDayTrend")]
ListTopTaskLogResponse == [data |-> Many("TopTaskLog")]

StatisticsResponse ==
  [f \in {"taskInfos", "taskLogs", "servers", "workers"} |-> One("StatisticInfos")]

\* Declared as Array<Date>, yet the conversion leaves the texts as they are.
GetNext5TriggertimesResponse == Plains({"nextTriggers"})

LoginResponseBaseResponse == BaseResponse(One("LoginResponse"))
ListTaskInfosResponseBaseResponse == BaseResponse(One("ListTaskInfosResponse"))
LisTaskLogsResponseBaseResponse == BaseResponse(One("LisTaskLogsResponse"))
ListClientsResponseBaseResponse == BaseResponse(One("ListClientsResponse"))
TaskLogsDayTrendResponseBaseResponse == BaseResponse(One("TaskLogsDayTrendResponse"))
ListTopTaskLogResponseBaseResponse == BaseResponse(One("ListTopTaskLogResponse"))
StatisticsResponseBaseResponse == BaseResponse(One("StatisticsResponse"))
GetNext5TriggertimesResponseBaseResponse == BaseResponse(One("GetNext5TriggertimesResponse"))
AddTaskResponseBaseResponse == BaseResponse(Plain)
DeleteTaskResponseBaseResponse == BaseResponse(Plain)
ExcuteOnceResponseBaseResponse == BaseResponse(Plain)
SwitchTaskStatusResponseBaseResponse == BaseResponse(Plain)

Model ==
  [TaskInfo |-> TaskInfo, TaskLog |-> TaskLog, ExecutorClient |-> ExecutorClient,
   TaskLogDayTrend |-> TaskLogDayTrend, TopTaskLog |-> TopTaskLog, StatisticInfos |-> StatisticInfos,
   LoginCommand |-> LoginCommand, AddTaskRequest |-> AddTaskRequest,
   DeleteTaskRequest |-> DeleteTaskRequest, ExcuteOnceRequest |-> ExcuteOnceRequest,
   SwitchTaskStatusRequest |-> SwitchTaskStatusRequest, LoginResponse |-> LoginResponse,
   ListTaskInfosResponse |-> ListTaskInfosResponse, LisTaskLogsResponse |-> LisTaskLogsResponse,
   ListClientsResponse |-> ListClientsResponse, TaskLogsDayTrendResponse |-> TaskLogsDayTrendResponse,
   ListTopTaskLogResponse |-> ListTopTaskLogResponse, StatisticsResponse |-> StatisticsResponse,
   GetNext5TriggertimesResponse |-> GetNext5TriggertimesResponse,
   LoginResponseBaseResponse |-> LoginResponseBaseResponse,
   ListTaskInfosResponseBaseResponse |-> ListTaskInfosResponseBaseResponse,
   LisTaskLogsResponseBaseResponse |-> LisTaskLogsResponseBaseResponse,
   ListClientsResponseBaseResponse |-> ListClientsResponseBaseResponse,
   TaskLogsDayTrendResponseBaseResponse |-> TaskLogsDayTrendResponseBaseResponse,
   ListTopTaskLogResponseBaseResponse |-> ListTopTaskLogResponseBaseResponse,
   StatisticsResponseBaseResponse |-> StatisticsResponseBaseResponse,
   GetNext5TriggertimesResponseBaseResponse |-> GetNext5TriggertimesResponseBaseResponse,
   AddTaskResponseBaseResponse |-> AddTaskResponseBaseResponse,
   DeleteTaskResponseBaseResponse |-> DeleteTaskResponseBaseResponse,
   ExcuteOnceResponseBaseResponse |-> ExcuteOnceResponseBaseResponse,
   SwitchTaskStatusResponseBaseResponse |-> SwitchTaskStatusResponseBaseResponse]

-----------------------------------------------------------------------------
\* Models are nested three deep, an envelope with a result with rows: a conversion is
\* that of one object, given the conversion of the objects in it, three times over.
Inmost(m, value) == value

\* A field that is absent or null becomes undefined, one the model does not have is
\* dropped, and null instead of an object stays null.
Parsed(Inner(_, _), m, json) ==
  IF json = Null THEN Null
  ELSE [f \in DOMAIN Model[m] |->
         LET t == Model[m][f] IN
           IF f \notin DOMAIN json \/ json[f] = Null THEN Undefined
           ELSE CASE t.holds = "plain" -> json[f]
                  [] t.holds = "date" -> ToDate(json[f])
                  [] t.holds = "one" -> Inner(t.of, json[f])
                  [] t.holds = "many" -> [i \in DOMAIN json[f] |-> Inner(t.of, json[f][i])]]

FromRow(m, json) == Parsed(Inmost, m, json)
FromResult(m, json) == Parsed(FromRow, m, json)
FromJSON(m, json) == Parsed(FromResult, m, json)

\* The fields of the model, without those that are read only.
Written(Inner(_, _), m, value) ==
  IF value \in {Null, Undefined} THEN value
  ELSE [f \in {g \in DOMAIN Model[m] : ~Model[m][g].readonly} |->
         LET t == Model[m][f] IN
           CASE value[f] \in {Null, Undefined} -> value[f]
             [] value[f] \notin {Null, Undefined} /\ t.holds = "plain" -> value[f]
             [] value[f] \notin {Null, Undefined} /\ t.holds = "date" -> ToText(value[f])
             [] value[f] \notin {Null, Undefined} /\ t.holds = "one" -> Inner(t.of, value[f])
             [] value[f] \notin {Null, Undefined} /\ t.holds = "many" ->
                  [i \in DOMAIN value[f] |-> Inner(t.of, value[f][i])]]

ToRow(m, value) == Written(Inmost, m, value)
ToResult(m, value) == Written(ToRow, m, value)
ToJSON(m, value) == Written(ToResult, m, value)

\* JSON.stringify leaves out what is undefined.
Defined(Inner(_, _), m, json) ==
  IF json \in {Null, Undefined} THEN json
  ELSE [f \in {g \in DOMAIN json : json[g] # Undefined} |->
         CASE json[f] = Null -> Null
           [] json[f] # Null /\ Model[m][f].holds = "one" -> Inner(Model[m][f].of, json[f])
           [] json[f] # Null /\ Model[m][f].holds = "many" ->
                [i \in DOMAIN json[f] |-> Inner(Model[m][f].of, json[f][i])]
           [] OTHER -> json[f]]

DefinedRow(m, json) == Defined(Inmost, m, json)
DefinedResult(m, json) == Defined(DefinedRow, m, json)
Stringify(m, json) == Defined(DefinedResult, m, json)
-----------------------------------------------------------------------------
\* JSON that has the shape of the model, as far as it goes: fields may be absent or null,
\* or of no use here, and a date is a text.
Shaped(Inner(_, _), m, json) ==
  \/ json = Null
  \/ \A f \in DOMAIN json \cap DOMAIN Model[m] :
       \/ json[f] = Null
       \/ /\ json[f] # Undefined
          /\ LET t == Model[m][f] IN
               CASE t.holds = "plain" -> TRUE
                 [] t.holds = "date" -> json[f] = <<"plain", json[f][2]>>
                 [] t.holds = "one" -> Inner(t.of, json[f])
                 [] t.holds = "many" -> \A i \in DOMAIN json[f] : Inner(t.of, json[f][i])

Anything(m, json) == TRUE
ShapedRow(m, json) == Shaped(Anything, m, json)
ShapedResult(m, json) == Shaped(ShapedRow, m, json)
ShapedJSON(m, json) == Shaped(ShapedResult, m, json)

\* A value of the type of the model: every field is there, though it may be undefined.
Typed(Inner(_, _), m, value) ==
  /\ value = [f \in DOMAIN Model[m] |-> value[f]]
  /\ \A f \in DOMAIN Model[m] :
       \/ value[f] = Undefined
       \/ value[f] # Null /\ (Model[m][f].holds = "one" => Inner(Model[m][f].of, value[f]))

TypedRow(m, value) == Typed(Anything, m, value)
TypedValue(m, value) == Typed(TypedRow, m, value)
=============================================================================
