------------------------------ MODULE TrainLoop ------------------------------
(***************************************************************************)
(* The optimisation loop of _train_inner (latent_run.py) with its guarded  *)
(* optimizer step, the validation of checkpoints, the incremental          *)
(* BestCheckpointTracker beside the canonical selector over the raw        *)
(* history, and the reload, binding and export of the selected checkpoint. *)
(* It is the step Train of TrainLifecycle in detail.                       *)
(*                                                                         *)
(* An adapter state is the number of the optimizer step that produced it,  *)
(* and stands for its tensors and their sha256 alike; the metric of a      *)
(* checkpoint is its number of hits on the validation examples, which are  *)
(* the same for every checkpoint.                                          *)
(***************************************************************************)
EXTENDS Integers, Sequences

CONSTANTS Steps,       \* --steps
          EvalEvery,   \* --eval-every
          Examples     \* validation examples evaluated per checkpoint

ASSUME LoopConstants == /\ Steps \in Nat
                        /\ EvalEvery \in Nat \ {0}
                        /\ Examples \in Nat \ {0}

VARIABLES
  step,      \* optimizer steps completed
  params,    \* the live adapter state
  history,   \* the raw validation history
  best,      \* the tracker's (state, score, step), or NoBest
  pc,        \* where _train_inner is
  report     \* best_step, best_val_acc and state of the export, or NoBest

vars == <<step, params, history, best, pc, report>>

Partial   == -1    \* the optimizer raised with some parameters changed
NonFinite == -2    \* some parameter is NaN or infinite
NoBest    == [step |-> 0, metric |-> -1, state |-> NonFinite]

Failed == {"fatal", "error"}

Init == /\ step = 0 /\ params = 0
        /\ history = <<>> /\ best = NoBest
        /\ pc = IF Steps = 0 THEN "reload" ELSE "forward"
        /\ report = NoBest

(* A checkpoint is evaluated every EvalEvery steps and after the last one. *)
EvalDue(s) == s % EvalEvery = 0 \/ s = Steps

(* Loss and backward pass: no state of the adapter changes.                *)
Forward == /\ pc = "forward"
           /\ pc' \in {"optimize", "error"}
           /\ UNCHANGED <<step, params, history, best, report>>

NextStep(s) == IF s = Steps THEN "reload" ELSE "forward"

(* Faulty variant: the fault is logged and the loop goes on.               *)
StepFaultsIgnored == /\ pc = "optimize"
                     /\ params' \in {params, Partial, NonFinite, step + 1}
                     /\ step' = step + 1
                     /\ pc' = IF EvalDue(step') THEN "evaluate" ELSE NextStep(step')
                     /\ UNCHANGED <<history, best, report>>

(* The faults of guarded_optimizer_step: refused before anything changed,  *)
(* raised from optimizer.step() with some parameters changed, or found     *)
(* non-finite by the checks after the step, of parameters or of optimizer  *)
(* state.                                                                  *)
StepFaults == /\ pc = "optimize"
              /\ params' \in {params, Partial, NonFinite, step + 1}
              /\ pc' = "fatal"
              /\ UNCHANGED <<step, history, best, report>>

(* A step that passes all the checks; it may leave the parameters as they  *)
(* were.                                                                   *)
OptimizerStep == /\ pc = "optimize"
                 /\ params' \in {params, step + 1}
                 /\ step' = step + 1
                 /\ pc' = IF EvalDue(step') THEN "evaluate" ELSE NextStep(step')
                 /\ UNCHANGED <<history, best, report>>

(* Faulty variant: of equal metrics the latest step is selected.           *)
IsSelectedLatest(h, i) ==
  /\ i \in DOMAIN h
  /\ \A j \in DOMAIN h : h[j].metric <= h[i].metric
  /\ \A j \in DOMAIN h : h[j].metric = h[i].metric => h[i].step >= h[j].step

(* select_best_checkpoint: the largest metric, and of the checkpoints that *)
(* have it the earliest step.                                              *)
IsSelected(h, i) ==
  /\ i \in DOMAIN h
  /\ \A j \in DOMAIN h : h[j].metric <= h[i].metric
  /\ \A j \in DOMAIN h : h[j].metric = h[i].metric => h[i].step <= h[j].step

Selected(h) == h[CHOOSE i \in DOMAIN h : IsSelected(h, i)]

(* BestCheckpointTracker.update: a strictly better score replaces the      *)
(* clone that is kept; the first score always does.                        *)
Update(entry) == IF best = NoBest \/ entry.metric > best.metric THEN entry ELSE best

(* The checkpoint is evaluated, its records join the history, the selector *)
(* runs over the whole history, and the tracker is updated when this       *)
(* checkpoint is the one selected.                                         *)
Evaluate ==
  /\ pc = "evaluate"
  /\ \E hits \in 0 .. Examples :
       LET entry == [step |-> step, metric |-> hits, state |-> params]
       IN /\ history' = Append(history, entry)
          /\ best' = IF Selected(history').step = step THEN Update(entry) ELSE best
  /\ pc' = NextStep(step)
  /\ UNCHANGED <<step, params, report>>

(* An example cannot be scored, for another reason than an exact tie.      *)
EvaluateRaises == /\ pc = "evaluate"
                  /\ pc' = "error"
                  /\ UNCHANGED <<step, params, history, best, report>>

(* The tracker's clone replaces the final state, all of it or nothing;     *)
(* with no accepted checkpoint the run is refused.                         *)
Reload == /\ pc = "reload"
          /\ \/ best # NoBest /\ params' = best.state /\ pc' = "bind"
             \/ params' = params /\ pc' = "error"
          /\ UNCHANGED <<step, history, best, report>>

(* selected_v3_adapter_state_sha256 and the comparison that follows it:    *)
(* the raw history must select the tracker's step, metric and state.       *)
Bound == /\ Selected(history).step = best.step
         /\ Selected(history).metric = best.metric
         /\ Selected(history).state = params

BindAndExport == /\ pc = "bind"
                 /\ \/ /\ Bound
                       /\ report' = [best EXCEPT !.state = params]
                       /\ pc' = "exported"
                    \/ /\ report' = report
                       /\ pc' = "error"
                 /\ UNCHANGED <<step, params, history, best>>

Next == \/ Forward \/ StepFaults \/ OptimizerStep
        \/ Evaluate \/ EvaluateRaises
        \/ Reload \/ BindAndExport

Spec == Init /\ [][Next]_vars

-----------------------------------------------------------------------------
(* Properties                                                              *)

(* States and metrics are numbers of their ranges; the loop's counter      *)
(* stays within --steps and the history grows with it.                     *)
LoopTypeOK ==
  LET Entries == [step: 1 .. Steps, metric: 0 .. Examples, state: 0 .. Steps]
  IN /\ step \in 0 .. Steps
     /\ params \in {Partial, NonFinite} \cup 0 .. Steps
     /\ history \in Seq(Entries)
     /\ best \in Entries \cup {NoBest}
     /\ report \in Entries \cup {NoBest}
     /\ pc \in {"forward", "optimize", "evaluate", "reload", "bind", "exported"} \cup Failed

(* The tracker, which sees one checkpoint at a time, holds at every moment *)
(* what the selector finds in the whole history, ties included: the        *)
(* binding check before the export can refuse no run on their account.     *)
TrackerFollowsSelector ==
  IF history = <<>> THEN best = NoBest ELSE best = Selected(history)

(* What is exported is a state that validation saw at the reported step    *)
(* with the reported metric, no checkpoint did better and no earlier one   *)
(* as well, every checkpoint that was due has been evaluated, and no       *)
(* evaluated state was left behind by a faulted optimizer step.            *)
ExportedIsEarliestBest ==
  pc = "exported" =>
    /\ params = report.state
    /\ \E i \in DOMAIN history : history[i] = report
    /\ \A i \in DOMAIN history :
         /\ history[i].metric <= report.metric
         /\ history[i].step < report.step => history[i].metric < report.metric
         /\ history[i].state >= 0
    /\ {s \in 1 .. Steps : EvalDue(s)} = {history[i].step : i \in DOMAIN history}

=============================================================================
