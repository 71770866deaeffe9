------------------------------ MODULE MCTaskRun -----------------------------
(* Small instances of TaskRun for TLC. *)
EXTENDS TaskRun

CONSTANTS s1, s2, w1, w2

\* One executor on each server, of which the second fails what it runs.
HomeOfEach == (w1 :> s1) @@ (w2 :> s2)
OutcomesOfEach == (w1 :> {SUCCESS}) @@ (w2 :> {FAIL})

\* Both executors are connected and have sent their handlers, and both servers
\* have each other's list: where Registry gets to when nothing disturbs it.
ConnectedInit ==
  /\ alive = Servers
  /\ link = [w \in Workers |-> "up"]
  /\ hello = {}
  /\ own = [s \in Servers |-> [w \in Workers |-> IF Home[w] = s THEN "ready" ELSE "absent"]]
  /\ pubs = [s \in Servers |-> <<>>]
  /\ retained = own
  /\ known = [t \in Servers |-> [s \in Servers |-> IF s = t THEN NoList ELSE own[s]]]
  /\ newest = [s \in Servers |-> "out"]
  /\ faults = 0
  /\ TaskInit

ConnectedSpec == ConnectedInit /\ [][Next]_vars /\ WF_vars(Lists) /\ WF_vars(TaskStep)
=============================================================================
