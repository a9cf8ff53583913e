------------------------------ MODULE MCRunLock ------------------------------
(* Three drivers; symmetric because no action or property orders them. *)
EXTENDS RunLock, TLC

CONSTANTS p1, p2, p3

MCProc == {p1, p2, p3}
Symmetry == Permutations(MCProc)
=============================================================================
