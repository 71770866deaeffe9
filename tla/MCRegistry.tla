----------------------------- MODULE MCRegistry -----------------------------
(* Small instances of Registry for TLC. *)
EXTENDS Registry

CONSTANTS s1, s2, w1, w2

\* One executor on each server.
HomeOfEach == (w1 :> s1) @@ (w2 :> s2)
=============================================================================
