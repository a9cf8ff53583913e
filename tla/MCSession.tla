------------------------------ MODULE MCSession ------------------------------
(* Instances of Session for TLC. *)
EXTENDS Session, TLC
CONSTANTS c1, c2, c3
AnyContent == Permutations(Content)
=============================================================================
