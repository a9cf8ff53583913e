------------------------------ MODULE MCJournal ------------------------------
(* Instances of Journal for TLC. *)
EXTENDS Journal, TLC
CONSTANTS c1, c2
AnyContent == Permutations(Content)
=============================================================================
