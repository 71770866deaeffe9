----------------------------- MODULE ApiRuntime -----------------------------
(***************************************************************************)
(* One call of the generated client, with the configuration the web        *)
(* interface gives it: the request that leaves the browser, and what       *)
(* becomes of the answer before a page sees it.                            *)
(***************************************************************************)
EXTENDS Naturals, FiniteSets, Functions

\* new Date(text) and toISOString(): text and date are pairs of their type and the
\* moment they stand for.
ToDate(text) == <<"date", text[2]>>
ToText(date) == <<"plain", date[2]>>

\* What may come of a request: an answer with a status, its body JSON or not, or
\* no answer at all.
Answers ==
  [status : {200, 204, 401, 500}, body : {"json", "other"}] \cup [status : {0}, body : {"none"}]

NetworkFailure(answer) == answer.status = 0

\* Mutant: the middleware lets every answer pass.
Accepted_Any(answer) == TRUE

\* The post middleware of the configuration: every status but 200 is rejected,
\* with no reason given.
Accepted(answer) == answer.status = 200

\* fetchApi and request: the middleware comes before the test of the status, so a
\* page never sees ResponseError but the promise rejected with undefined.
Outcome(answer) ==
  CASE NetworkFailure(answer) -> "FetchError"
    [] ~NetworkFailure(answer) /\ ~Accepted(answer) -> "undefined"
    [] Accepted(answer) /\ answer.status \notin 200..299 -> "ResponseError"
    [] Accepted(answer) /\ answer.body # "json" -> "SyntaxError"
    [] OTHER -> "data"

\* What "instanceof Error" holds of, and error.message can be read from.
IsError(outcome) == outcome \in {"FetchError", "ResponseError", "SyntaxError"}

\* A mutation whose onError reads error.message: when there is no error to read it
\* from, onError throws and onSettled is never called.
SettlesAfter(outcome) == outcome = "data" \/ IsError(outcome)

-----------------------------------------------------------------------------
\* createFetchParams: headers that are undefined are left out, and the query is
\* appended when there is one.
FetchParams(op, token, query, body) ==
  [path |-> op.path, method |-> op.method, query |-> query, body |-> body,
   headers |-> IF op.body = "none" THEN [Authorization |-> token]
               ELSE [Authorization |-> token, ContentType |-> "application/json"]]

\* Mutant: a parameter that is zero or empty is taken for one that was not set.
QueryOf_Falsy(op, args) ==
  LET set == {p \in DOMAIN op.query \cap DOMAIN args : args[p] # <<"plain", "falsy">>}
      of(name) == CHOOSE p \in set : op.query[p].as = name
  IN [name \in {op.query[p].as : p \in set} |->
        IF op.query[of(name)].date THEN ToText(args[of(name)]) ELSE args[of(name)]]

\* querystring: one entry for every parameter that was set, dates as text.
QueryOf(op, args) ==
  LET set == DOMAIN op.query \cap DOMAIN args
      of(name) == CHOOSE p \in set : op.query[p].as = name
  IN [name \in {op.query[p].as : p \in set} |->
        IF op.query[of(name)].date THEN ToText(args[of(name)]) ELSE args[of(name)]]
=============================================================================
