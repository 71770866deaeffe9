----------------------------- MODULE MCTaskPage -----------------------------
(* One task that is filtered for, alone or after one that is not. *)
EXTENDS TaskPage

FirstTasks ==
  {<<[there |-> TRUE, match |-> TRUE, enabled |-> FALSE]>>,
   <<[there |-> TRUE, match |-> FALSE, enabled |-> TRUE], [there |-> TRUE, match |-> TRUE, enabled |-> FALSE]>>}
=============================================================================
