----------------------------- MODULE ApiClient -----------------------------
(***************************************************************************)
(* The operations of the generated client: for every one its request, the  *)
(* parameters that go into the query under the names the server uses, the  *)
(* model of its body and the model of its answer.                          *)
(***************************************************************************)
EXTENDS ApiModels

Param(as) == [as |-> as, date |-> FALSE, required |-> FALSE]
DateParam(as) == [as |-> as, date |-> TRUE, required |-> FALSE]
Required(param) == [param EXCEPT !.required = TRUE]
NoParams == [p \in {} |-> Param("")]

Get(path, query, answer) ==
  [path |-> path, method |-> "GET", query |-> query, body |-> "none", answer |-> answer]

Post(path, body, answer) ==
  [path |-> path, method |-> "POST", query |-> NoParams, body |-> body, answer |-> answer]

login == Post("/api/User/Login", "LoginCommand", "LoginResponseBaseResponse")

addTaskInfo == Post("/api/TaskInfo/AddTaskInfo", "AddTaskRequest", "AddTaskResponseBaseResponse")

deleteTask ==
  [Post("/api/TaskInfo/DeleteTask", "DeleteTaskRequest", "DeleteTaskResponseBaseResponse")
     EXCEPT !.method = "DELETE"]

excuteOnce == Post("/api/TaskInfo/ExcuteOnce", "ExcuteOnceRequest", "ExcuteOnceResponseBaseResponse")

switchTaskStatus ==
  Post("/api/TaskInfo/SwitchTaskStatus", "SwitchTaskStatusRequest", "SwitchTaskStatusResponseBaseResponse")

getNext5Tiggertimes ==
  Get("/api/TaskInfo/GetNext5Tiggertimes", [taskId |-> Param("TaskId")],
      "GetNext5TriggertimesResponseBaseResponse")

listTaskInfos ==
  Get("/api/TaskInfo/ListTaskInfos",
      [name |-> Param("Name"), pageNumber |-> Param("PageNumber"), pageSize |-> Param("PageSize")],
      "ListTaskInfosResponseBaseResponse")

listLogs ==
  Get("/api/TaskLog/ListLogs",
      [taskId |-> Param("TaskId"), startTime |-> DateParam("StartTime"), endTime |-> DateParam("EndTime"),
       pageNumber |-> Param("PageNumber"), pageSize |-> Param("PageSize")],
      "LisTaskLogsResponseBaseResponse")

listClients ==
  Get("/api/Client/ListClients", [pageNumber |-> Param("PageNumber"), pageSize |-> Param("PageSize")],
      "ListClientsResponseBaseResponse")

statistics == Get("/api/Dashboard/Statistics", NoParams, "StatisticsResponseBaseResponse")

taskLogsDayTrend ==
  Get("/api/Dashboard/TaskLogsDayTrend", [start |-> DateParam("Start"), end |-> DateParam("End")],
      "TaskLogsDayTrendResponseBaseResponse")

topTaskLog ==
  Get("/api/Dashboard/TopTaskLog",
      [start |-> Required(DateParam("Start")), end |-> Required(DateParam("End")), count |-> Param("Count")],
      "ListTopTaskLogResponseBaseResponse")

\* RequiredError: the call fails before anything is sent.
Missing(op, args) == {p \in DOMAIN op.query : op.query[p].required} \ DOMAIN args # {}

\* The request an operation sends for the parameters and the body it is given.
Request(op, token, args, body) ==
  FetchParams(op, token, QueryOf(op, args),
    IF op.body = "none" THEN Undefined ELSE Stringify(op.body, ToJSON(op.body, body)))

\* The value of the answer.
Value(op, json) == FromJSON(op.answer, json)
=============================================================================
