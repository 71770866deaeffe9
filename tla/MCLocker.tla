------------------------------ MODULE MCLocker ------------------------------
(* Small instances of Locker for TLC. *)
EXTENDS Locker, TLC

Symmetry == Permutations(Nodes)
=============================================================================
