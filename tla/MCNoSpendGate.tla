--------------------------- MODULE MCNoSpendGate ---------------------------
(* Two required splits, interchangeable. *)
EXTENDS NoSpendGate, TLC

CONSTANTS id, ood

MCSplits == {id, ood}
SplitSymmetry == Permutations(MCSplits)
=============================================================================
