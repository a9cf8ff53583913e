--------------------------- MODULE MCTrainRecords ---------------------------
(* Two validation examples of three candidates, "a" to "c" by bytes and the *)
(* other way round by tokens; "b" has two tokens and begins like "c".       *)
EXTENDS TrainRecords

MCByteOrder == [a |-> 1, b |-> 2, c |-> 3]
MCTokenIds  == [a |-> <<9>>, b |-> <<7, 5>>, c |-> <<7>>]
MCSuite == [e1 |-> [split |-> "validation", family |-> "fsm", gold |-> "b",
                    candidates |-> <<"b", "c", "a">>, permutation |-> <<2, 3, 1>>],
            e2 |-> [split |-> "validation", family |-> "ledger", gold |-> "c",
                    candidates |-> <<"a", "c", "b">>, permutation |-> <<1, 3, 2>>]]
MCValidation == <<"e1", "e2">>

(* First example: gold wins by its mean, with the least sum, above two that *)
(* tie; another wins; all three tie.  Second example: gold wins; gold and   *)
(* another lead together.                                                   *)
MCRowsOf(id) ==
  IF id = "e1"
  THEN {<<<<-1, -2>>, <<-2>>, <<-2>>>>, <<<<-2, -2>>, <<-1>>, <<-3>>>>,
        <<<<-2, -2>>, <<-2>>, <<-2>>>>}
  ELSE {<<<<-2>>, <<-1>>, <<-2, -1>>>>, <<<<-3>>, <<-1>>, <<-1, -1>>>>}
=============================================================================
