------------------------------ MODULE Evidence ------------------------------
(***************************************************************************)
(* What an evidence root promises its readers: the generation that passes  *)
(* verification is none at all or that of the latest training attempt, an  *)
(* attempt publishes at most once, and what was retracted or superseded    *)
(* never verifies again.                                                   *)
(***************************************************************************)
EXTENDS Naturals

VARIABLES attempt,     \* number of the latest training attempt, 0 before the first
          open,        \* may that attempt still publish?
          published    \* attempt whose generation verifies, 0 when none does

vars == <<attempt, open, published>>

Init == attempt = 0 /\ open = FALSE /\ published = 0

\* A new attempt first withdraws whatever an earlier one published.
NewAttempt ==
  /\ ~open
  /\ attempt' = attempt + 1
  /\ open' \in BOOLEAN
  /\ published' = 0

Publish ==
  /\ open
  /\ open' = FALSE
  /\ published' = attempt
  /\ UNCHANGED attempt

\* The attempt is given up, or its published generation withdrawn.
Retract ==
  /\ open' = FALSE
  /\ published' = 0
  /\ UNCHANGED attempt

Next == NewAttempt \/ Publish \/ Retract

Spec == Init /\ [][Next]_vars
=============================================================================
