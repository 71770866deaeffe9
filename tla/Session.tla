------------------------------ MODULE Session ------------------------------
(***************************************************************************)
(* A tab of the web interface: the token it keeps in the local storage,    *)
(* the user derived from it, the page shown and the guard before it, the   *)
(* login form, and the calls the pages make to the server.                 *)
(*                                                                         *)
(* The calls of one tab share nothing but the token, so one at a time is   *)
(* modelled.  Tabs share the token: another tab may log in or out.         *)
(***************************************************************************)
EXTENDS ApiClient

CONSTANTS
  Bodies(_),   \* for a model: JSON objects the server may answer with
  Values(_),   \* for a model: values a page may send
  Queries(_)   \* for the parameters of a query: values a page may give some of them

VARIABLES
  token,  \* tokenAtom: no token, a good one, or one that ends within five minutes
  user,   \* currentUserAtom
  route,  \* the page shown
  busy,   \* isLoading of the login form
  call    \* the latest call of the tab, or none

sessionVars == <<token, user, route, busy, call>>

Tokens == {"", "good", "late"}
Route(requiresAuth, calls) == [requiresAuth |-> requiresAuth, calls |-> calls]

\* The pages beside the menu, those it does not show, and those without its frame.
sideRoutes == {"/", "/taskinfo", "/tasklog", "/clients", "/about"}
hidden == {"/setting", "/user"}
fullscreenRoutes == {"/login"}

\* The routes with what their pages call.  No page calls deleteTask, excuteOnce and
\* getNext5Tiggertimes yet; the list of tasks is where they belong.  Any other address
\* shows a page of its own, outside the guard.
allRoutes ==
  [r \in sideRoutes \cup hidden \cup fullscreenRoutes \cup {"*"} |->
     Route(r \in sideRoutes \cup hidden,
       CASE r = "/" -> {"statistics", "taskLogsDayTrend", "topTaskLog"}
         [] r = "/taskinfo" -> {"listTaskInfos", "addTaskInfo", "switchTaskStatus", "deleteTask",
                                "excuteOnce", "getNext5Tiggertimes"}
         [] r = "/tasklog" -> {"listLogs"}
         [] r = "/clients" -> {"listClients"}
         [] r = "/login" -> {"login"}
         [] OTHER -> {})]

Op ==
  [login |-> login, addTaskInfo |-> addTaskInfo, deleteTask |-> deleteTask, excuteOnce |-> excuteOnce,
   switchTaskStatus |-> switchTaskStatus, getNext5Tiggertimes |-> getNext5Tiggertimes,
   listTaskInfos |-> listTaskInfos, listLogs |-> listLogs, listClients |-> listClients,
   statistics |-> statistics, taskLogsDayTrend |-> taskLogsDayTrend, topTaskLog |-> topTaskLog]

\* The server answers with JSON of the model, and a page sends values of the types that
\* TypeScript holds it to.
ASSUME SessionAssumption ==
  /\ Null # Undefined
  /\ \A name \in DOMAIN Op :
       /\ \A json \in Bodies(Op[name].answer) : ShapedJSON(Op[name].answer, json)
       /\ Op[name].body # "none" =>
            \A value \in Values(Op[name].body) : TypedValue(Op[name].body, value)
       /\ \A args \in Queries(Op[name].query) :
            /\ DOMAIN args \subseteq DOMAIN Op[name].query
            /\ args = [p \in DOMAIN args |-> args[p]]
            /\ \A p \in DOMAIN args : Op[name].query[p].date => args[p] = <<"date", args[p][2]>>

NoCall == [op |-> "none", args |-> <<>>, body |-> Null, request |-> Null, outcome |-> "none",
           json |-> Null, value |-> Null]

\* Types.
SessionTypeOK ==
  /\ token \in Tokens
  /\ user \in {"none", "someone"}
  /\ route \in DOMAIN allRoutes
  /\ busy \in BOOLEAN
  /\ call.op \in DOMAIN Op \cup {"none"}
  /\ call.outcome \in {"none", "data", "undefined", "FetchError", "SyntaxError", "RequiredError"}

-----------------------------------------------------------------------------
\* currentUserAtom, computed when the token changes and only then.
UserOf(t) == IF t = "good" THEN "someone" ELSE "none"

\* AuthRouter: without a user the way leads to the login page.
Shown(r, u) == IF allRoutes[r].requiresAuth /\ u = "none" THEN "/login" ELSE r

SessionInit ==
  /\ token \in Tokens
  /\ user = UserOf(token)
  /\ route = Shown("/", user)
  /\ busy = FALSE
  /\ call = NoCall

\* The page r is shown, or the login page; the login form comes with its page, and a
\* form that is shown already keeps its state.
Show(r, u) ==
  /\ route' = Shown(r, u)
  /\ busy' = (busy /\ route = "/login" /\ route' = "/login")

\* The frame around the pages, with the menu and the user: all but the login page and
\* the one for other addresses have it.
Framed == route \in sideRoutes \cup hidden /\ user = "someone"

\* A link is followed: those beside the pages, or the logo and the one below the form on
\* the login page.
Navigate(r) ==
  /\ \/ Framed /\ r \in sideRoutes
     \/ route = "/login" /\ r \in {"/", "*"}
  /\ Show(r, user)
  /\ UNCHANGED <<token, user, call>>

\* A page is asked for by its address: all that is not stored starts anew.
Load(r) ==
  /\ user' = UserOf(token)
  /\ route' = Shown(r, user')
  /\ busy' = FALSE
  /\ call' = NoCall
  /\ UNCHANGED token

\* Mutant: the token is removed from the storage and the atoms know nothing of it.
Logout_Storage ==
  /\ Framed
  /\ token' = ""
  /\ UNCHANGED <<user, route, busy, call>>

\* The user's menu: setToken("").
Logout ==
  /\ Framed
  /\ token' = ""
  /\ user' = UserOf("")
  /\ Show(route, user')
  /\ UNCHANGED call

\* Another tab logs in or out, which the storage tells this one.
OtherTab(t) ==
  /\ t # token
  /\ token' = t
  /\ user' = UserOf(t)
  /\ Show(route, user')
  /\ UNCHANGED call

\* The token comes to its end.  Nobody looks: the user stays who he is.
Expire ==
  /\ token = "good"
  /\ token' = "late"
  /\ UNCHANGED <<user, route, busy, call>>

-----------------------------------------------------------------------------
Pending == call.op # "none" /\ call.outcome = "none"

\* A page calls an operation; the login form is disabled while it waits.
Call(name, args, body) ==
  /\ ~Pending
  /\ name \in allRoutes[route].calls
  /\ name = "login" => ~busy
  /\ call' = [NoCall EXCEPT !.op = name, !.args = args, !.body = body,
       !.request = IF Missing(Op[name], args) THEN Null ELSE Request(Op[name], token, args, body),
       !.outcome = IF Missing(Op[name], args) THEN "RequiredError" ELSE "none"]
  /\ busy' = (busy \/ name = "login")
  /\ UNCHANGED <<token, user, route>>

\* Mutant: the form is enabled again by a login that succeeded, and not otherwise.
LoginSettled_Success(outcome, value) ==
  \/ /\ outcome = "data" /\ value # Null /\ value.success = <<"plain", "full">>
     /\ value.result # Undefined
     /\ value.result.token \notin {Undefined, <<"plain", "falsy">>}
     /\ \E t \in Tokens \ {""} : token' = t /\ user' = UserOf(t)
     /\ route' = Shown("/", user')
     /\ busy' = FALSE
  \/ /\ ~(/\ outcome = "data" /\ value # Null /\ value.success = <<"plain", "full">>
          /\ value.result # Undefined
          /\ value.result.token \notin {Undefined, <<"plain", "falsy">>})
     /\ UNCHANGED <<token, user, route, busy>>

\* The login succeeded and carries a token.
Granted(outcome, value) ==
  /\ outcome = "data"
  /\ value # Null
  /\ value.success = <<"plain", "full">>
  /\ value.result # Undefined
  /\ value.result.token \notin {Undefined, <<"plain", "falsy">>}

\* The mutation of the login form.  It goes on when the form is gone.  An answer that
\* is null makes onSuccess throw; onError then has an error to read from.
LoginSettled(outcome, value) ==
  \/ /\ Granted(outcome, value)
     /\ \E t \in Tokens \ {""} : token' = t /\ user' = UserOf(t)
     /\ route' = Shown("/", user')
     /\ busy' = FALSE
  \/ /\ ~Granted(outcome, value)
     /\ busy' = (busy /\ ~SettlesAfter(outcome))
     /\ UNCHANGED <<token, user, route>>

\* The answer arrives, or the request fails.
Receive(answer, json) ==
  /\ Pending
  /\ LET outcome == Outcome(answer)
         value == IF outcome = "data" THEN Value(Op[call.op], json) ELSE Undefined
     IN /\ call' = [call EXCEPT !.outcome = outcome, !.value = value,
                                !.json = IF outcome = "data" THEN json ELSE Null]
        /\ \/ call.op = "login" /\ LoginSettled(outcome, value)
           \/ call.op # "login" /\ UNCHANGED <<token, user, route, busy>>

\* What the server may put in its answer.
Jsons(answer) == IF Outcome(answer) = "data" THEN Bodies(Op[call.op].answer) ELSE {Null}

SomeAnswer == Pending /\ \E answer \in Answers : \E json \in Jsons(answer) : Receive(answer, json)

SessionNext ==
  \/ \E r \in DOMAIN allRoutes : Navigate(r) \/ Load(r)
  \/ Logout
  \/ \E t \in Tokens : OtherTab(t)
  \/ Expire
  \/ \E name \in allRoutes[route].calls : \E args \in Queries(Op[name].query) :
       \E body \in IF Op[name].body = "none" THEN {Undefined} ELSE Values(Op[name].body) :
         Call(name, args, body)
  \/ SomeAnswer

SessionSpec == SessionInit /\ [][SessionNext]_sessionVars

\* Every request ends: with an answer or with the failure the browser makes of none.
FairSessionSpec == SessionSpec /\ WF_sessionVars(SomeAnswer)

-----------------------------------------------------------------------------
\* Without a user nothing is shown that requires one, and there is no user without a
\* token, whichever tab it came from or was removed by.
Guarded ==
  /\ allRoutes[route].requiresAuth => user = "someone"
  /\ user = "someone" => token # ""

\* What the server makes of the query and the body of a request.
Understood(op, request) ==
  [p \in {q \in DOMAIN op.query : op.query[q].as \in DOMAIN request.query} |->
     IF op.query[p].date THEN ToDate(request.query[op.query[p].as]) ELSE request.query[op.query[p].as]]

\* What an answer says: the fields the model has, save those that are read only and
\* those that are null.
Said(Inner(_, _), m, json) ==
  IF json = Null THEN Null
  ELSE [f \in {g \in DOMAIN json \cap DOMAIN Model[m] : json[g] # Null /\ ~Model[m][g].readonly} |->
         CASE Model[m][f].holds = "one" -> Inner(Model[m][f].of, json[f])
           [] Model[m][f].holds = "many" -> [i \in DOMAIN json[f] |-> Inner(Model[m][f].of, json[f][i])]
           [] OTHER -> json[f]]

SaidRow(m, json) == Said(Inmost, m, json)
SaidResult(m, json) == Said(SaidRow, m, json)
Known(m, json) == Said(SaidResult, m, json)

\* The server is asked for what the page asked for, zeros and empty texts included.
Asked(c) ==
  /\ Understood(Op[c.op], c.request) = c.args
  /\ c.body \notin {Null, Undefined} => FromJSON(Op[c.op].body, c.request.body) = c.body

\* The page is told what the server said: what it has, sent back, would be the answer it
\* came from.
Told(c) == LET m == Op[c.op].answer IN Stringify(m, ToJSON(m, c.value)) = Known(m, c.json)

\* A call says what is meant, on its way there and on its way back.
CallFaithful == (call.request # Null => Asked(call)) /\ (call.outcome = "data" => Told(call))

\* The login form does not stay disabled, unless the answer had a status other than
\* 200: then onError throws, and the spinner turns until the page is loaded again.
LoginEnds == busy ~> (~busy \/ call.outcome = "undefined")
=============================================================================
