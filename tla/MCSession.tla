----------------------------- MODULE MCSession -----------------------------
(* Answers and values for Session: complete ones, and those that differ from *)
(* them in one place.                                                        *)
EXTENDS Session, TLC

RECURSIVE Full(_, _)
\* The object with all its fields, as JSON or in the program.
Full(m, date) ==
  [f \in DOMAIN Model[m] |->
     LET t == Model[m][f] IN
       CASE t.holds = "plain" -> <<"plain", "full">>
         [] t.holds = "date" -> date
         [] t.holds = "one" -> Full(t.of, date)
         [] t.holds = "many" -> <<Full(t.of, date), Null>>]

RECURSIVE BodiesOf(_)
BodiesOf(m) ==
  LET full == Full(m, <<"plain", "day">>) IN
    {Null, full, ("unknown" :> <<"plain", "full">>) @@ full}
    \cup {Restrict(full, DOMAIN full \ {f}) : f \in DOMAIN full}
    \cup {[full EXCEPT ![f] = Null] : f \in DOMAIN full}
    \cup {[full EXCEPT ![f] = <<"plain", "falsy">>] : f \in {g \in DOMAIN full : Model[m][g].holds = "plain"}}
    \cup UNION {{[full EXCEPT ![f] = b] : b \in BodiesOf(Model[m][f].of) \ {Null}} :
                 f \in {g \in DOMAIN full : Model[m][g].holds = "one"}}
    \cup UNION {{[full EXCEPT ![f] = <<b>>] : b \in BodiesOf(Model[m][f].of)} \cup {[full EXCEPT ![f] = <<>>]} :
                 f \in {g \in DOMAIN full : Model[m][g].holds = "many"}}

RECURSIVE ValuesOf(_)
ValuesOf(m) ==
  LET full == Full(m, <<"date", "day">>) IN
    {full}
    \cup {[full EXCEPT ![f] = Undefined] : f \in DOMAIN full}
    \cup {[full EXCEPT ![f] = <<"plain", "falsy">>] : f \in {g \in DOMAIN full : Model[m][g].holds = "plain"}}
    \cup UNION {{[full EXCEPT ![f] = v] : v \in ValuesOf(Model[m][f].of)} :
                 f \in {g \in DOMAIN full : Model[m][g].holds = "one"}}

\* All parameters, all but one, one of them zero or empty, or none.
QueriesOf(query) ==
  LET full == [p \in DOMAIN query |-> IF query[p].date THEN <<"date", "day">> ELSE <<"plain", "full">>] IN
    {full, <<>>} \cup {Restrict(full, DOMAIN full \ {p}) : p \in DOMAIN full}
    \cup {[full EXCEPT ![p] = <<"plain", "falsy">>] : p \in {q \in DOMAIN query : ~query[q].date}}

AllBodies == [m \in DOMAIN Model |-> BodiesOf(m)]
AllValues == [m \in DOMAIN Model |-> ValuesOf(m)]
SomeBodies(m) == AllBodies[m]
SomeValues(m) == AllValues[m]
=============================================================================
