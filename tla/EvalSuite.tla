------------------------------ MODULE EvalSuite ------------------------------
(***************************************************************************)
(* run_suite of evals/harness.py: every case is asked in every arm and     *)
(* mode, one cell after the other, against one shared Budget; a cell may   *)
(* ask again after an EXPAND reply, and each budgeted call is posted by    *)
(* OpenAICompatClient.complete with retries.  What a reply says is         *)
(* abstracted to whether it holds valid EXPAND lines.                      *)
(***************************************************************************)
EXTENDS Integers

CONSTANTS Cases,            \* number of cases the scenario filter keeps
          MaxExpandRounds,  \* run_suite's max_expand_rounds
          MaxRetries        \* OpenAICompatClient's max_retries

ASSUME SuiteConstants == /\ Cases \in Nat \ {0}
                         /\ MaxExpandRounds \in Nat
                         /\ MaxRetries \in Nat

VARIABLES
  expansion,   \* the --expansion argument
  maxCalls,    \* budget.max_calls
  spent,       \* budget.spent
  callsMade,   \* client.calls_made
  cell,        \* the cell being evaluated, in the order of the loops
  pc,          \* where evaluate_mode stands
  rounds,      \* evaluate_mode's rounds
  attempt,     \* complete's attempt
  results      \* the outcomes of the cells recorded so far, without their order

vars == <<expansion, maxCalls, spent, callsMade, cell, pc, rounds, attempt, results>>
budget == <<expansion, maxCalls, spent>>

Outcomes == {"answered", "gate failed", "budget exhausted", "provider error"}

Arms(e) == IF e = "both" THEN 2 ELSE 1
Cells(e) == Cases * Arms(e) * 2

(* Faulty variant: a bound that counts the expand rounds and forgets the first question.*)
DefaultBudgetOfExpandRounds(e) == Cells(e) * MaxExpandRounds

(* The bound of run_suite, its budget when no --max-calls is given.        *)
DefaultBudget(e) == Cells(e) * (1 + MaxExpandRounds)

(* Per case the loops run tool/baseline, tool/compiled, closed/baseline,   *)
(* closed/compiled; with one arm only its two cells.                       *)
AllowExpand == \/ expansion = "tool"
               \/ expansion = "both" /\ cell % 4 \in {1, 2}

Init == /\ expansion \in {"tool", "closed", "both"}
        /\ maxCalls \in 0 .. DefaultBudget(expansion)
        /\ spent = 0 /\ callsMade = 0
        /\ cell = 1 /\ pc = "gates"
        /\ rounds = 0 /\ attempt = 0
        /\ results = {}

(* evaluate_mode returns, its result is appended and the next cell begins; *)
(* after the last one run_suite returns its report.                        *)
Record(outcome) ==
  /\ results' = results \cup {outcome}
  /\ rounds' = 0 /\ attempt' = 0
  /\ IF cell < Cells(expansion)
     THEN cell' = cell + 1 /\ pc' = "gates"
     ELSE cell' = cell /\ pc' = "reported"

(* A protected string is absent from the context: no call is spent.        *)
GateFails == /\ pc = "gates"
             /\ Record("gate failed")
             /\ UNCHANGED <<budget, callsMade>>

GatesPass == /\ pc = "gates"
             /\ pc' = "ask"
             /\ UNCHANGED <<budget, callsMade, cell, rounds, attempt, results>>

(* Faulty variant: a refused cell is begun again and not recorded.         *)
TrySpendAgain == /\ pc = "ask"
                 /\ spent + 1 > maxCalls
                 /\ pc' = "gates" /\ rounds' = 0
                 /\ UNCHANGED <<budget, callsMade, cell, attempt, results>>

(* budget.try_spend() refuses, or takes one call for the round.            *)
TrySpendRefused == /\ pc = "ask"
                   /\ spent + 1 > maxCalls
                   /\ Record("budget exhausted")
                   /\ UNCHANGED <<budget, callsMade>>

TrySpend == /\ pc = "ask"
            /\ spent + 1 <= maxCalls
            /\ spent' = spent + 1
            /\ rounds' = rounds + 1
            /\ attempt' = 0
            /\ pc' = "post"
            /\ UNCHANGED <<expansion, maxCalls, callsMade, cell, results>>

(* EXPAND lines count only in the tool arm and for max_expand_rounds       *)
(* rounds; a later reply is the answer whatever it says.                   *)
MayExpand == AllowExpand /\ rounds <= MaxExpandRounds

(* The reply is final: it names no known id, or nothing may be expanded.   *)
Answers == /\ pc = "post"
           /\ callsMade' = callsMade + 1
           /\ Record("answered")
           /\ UNCHANGED budget

(* The reply asks for evidence, which is appended to the next question.    *)
AsksForEvidence == /\ pc = "post"
                   /\ MayExpand
                   /\ callsMade' = callsMade + 1
                   /\ pc' = "ask"
                   /\ UNCHANGED <<budget, cell, rounds, attempt, results>>

(* session.expand runs outside of the try: a damaged object ends the whole *)
(* suite and no report is returned.                                        *)
ExpandRaises == /\ pc = "post"
                /\ MayExpand
                /\ callsMade' = callsMade + 1
                /\ pc' = "raised"
                /\ UNCHANGED <<budget, cell, rounds, attempt, results>>

(* The rounds are over, and what the answer is scored against reads every  *)
(* observation again, outside of the try too (harness.py:244, 330).        *)
ScoringRaises == /\ \/ pc = "ask" /\ spent + 1 > maxCalls /\ UNCHANGED callsMade
                    \/ pc = "post" /\ callsMade' = callsMade + 1
                 /\ pc' = "raised"
                 /\ UNCHANGED <<budget, cell, rounds, attempt, results>>

(* Faulty variant: a retry loop that runs once too often.                  *)
RetriesOnceMore == /\ pc = "post"
                   /\ attempt <= MaxRetries
                   /\ callsMade' = callsMade + 1
                   /\ attempt' = attempt + 1
                   /\ UNCHANGED <<budget, cell, pc, rounds, results>>

(* A transient error (429, 5xx, no connection) with attempts left.         *)
Retries == /\ pc = "post"
           /\ attempt < MaxRetries
           /\ callsMade' = callsMade + 1
           /\ attempt' = attempt + 1
           /\ UNCHANGED <<budget, cell, pc, rounds, results>>

(* Any other error, or a transient one at the last attempt, is recorded.   *)
ProviderFails == /\ pc = "post"
                 /\ callsMade' = callsMade + 1
                 /\ Record("provider error")
                 /\ UNCHANGED budget

Next == \/ GateFails \/ GatesPass \/ TrySpendRefused \/ TrySpend
        \/ Answers \/ AsksForEvidence \/ ExpandRaises \/ ScoringRaises
        \/ Retries \/ ProviderFails

(* The suite's process runs on and every post returns within its timeout.  *)
Spec == Init /\ [][Next]_vars
FairSpec == Spec /\ WF_vars(Next)

-----------------------------------------------------------------------------
(* Properties                                                              *)

(* The variables have their types; calls are never below zero and rounds   *)
(* and attempts stay within what the two loops of evaluate_mode and        *)
(* complete allow.                                                         *)
SuiteTypeOK ==
  /\ expansion \in {"tool", "closed", "both"}
  /\ maxCalls \in Nat /\ spent \in Nat /\ callsMade \in Nat
  /\ cell \in 1 .. Cells(expansion)
  /\ pc \in {"gates", "ask", "post", "reported", "raised"}
  /\ rounds \in 0 .. MaxExpandRounds + 1
  /\ attempt \in 0 .. MaxRetries
  /\ results \subseteq Outcomes

(* The cap on calls is never passed, and the requests really sent exceed   *)
(* the budgeted calls at most by the retries of each, over all the rounds, *)
(* failures and refusals of a suite (Budget and complete).                 *)
RequestsStayInBudget == /\ spent <= maxCalls
                        /\ callsMade <= (MaxRetries + 1) * spent

(* With the default budget no cell is ever refused a call, however many    *)
(* expand rounds the earlier cells used: the bound of run_suite counts     *)
(* every round that the loop of evaluate_mode can make.                    *)
DefaultBudgetSuffices ==
  maxCalls = DefaultBudget(expansion) => "budget exhausted" \notin results

(* run_suite comes to an end: no pattern of EXPAND replies, transient      *)
(* errors and refused calls keeps it asking.                               *)
SuiteEnds == <>(pc \in {"reported", "raised"})

=============================================================================
