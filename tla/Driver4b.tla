------------------------------ MODULE Driver4b ------------------------------
(***************************************************************************)
(* remote_driver_4b.sh: a driver takes a flock, resumes or retrains the    *)
(* one preregistered run, then resumes or recomputes each evaluation       *)
(* payload.  Drivers are launched again after a failure or a kill.  The    *)
(* trainer is TrainLifecycle's; the flock's descriptor is inherited by the *)
(* driver's children, so an orphaned child keeps the lock.                 *)
(***************************************************************************)
EXTENDS TrainLifecycle

CONSTANTS Driver,       \* driver launches that may coexist
          Cells,        \* number of (split, K) evaluations, run in order
          MaxFaults     \* bound: kills and failures, of drivers and children

ASSUME DriverBounds == Cells \in Nat /\ MaxFaults \in Nat /\ "none" \notin Driver

VARIABLES dpc,       \* where each driver is in the script
          owner,     \* the launch that took results/.driver4b.lock last
          child,     \* the eval child: what it evaluates, or NoChild
          cell,      \* evaluation the lock's owner works on
          digest,    \* ADAPTER_DIGEST as the lock's owner read it
          results,   \* payload files: the generation each is bound to, or NoRun
          misjudged, \* history: what a failing validator has just called invalid
          finished,  \* history: the generation ALL_DONE_4B was printed for last,
                     \* NoRun again once a validator fails on what it stands for
          faults     \* number of faults so far

history == <<misjudged, finished>>
driverVars == <<dpc, owner, child, cell, digest, results, misjudged, finished>>
allVars == <<root, pc, run, dpc, owner, child, cell, digest, results, misjudged,
             finished, faults>>

NoDriver == "none"
NoChild == [cell |-> 0, ckpt |-> NoRun]
Active(d) == dpc[d] \notin {"off", "done"}

DriverTypeOK ==
  /\ dpc \in [Driver -> {"off", "check", "quarantine", "start", "training", "validate",
                         "digest", "ev", "mvpayload", "evaluate", "evaluating", "done"}]
  /\ owner \in Driver \cup {NoDriver}
  /\ child \in [cell: 0..Cells, ckpt: 0..MaxRuns]
  /\ cell \in 1..(Cells + 1)
  /\ digest \in 0..MaxRuns
  /\ results \in [1..Cells -> 0..MaxRuns]
  /\ misjudged \in 0..MaxRuns /\ finished \in 0..MaxRuns
  /\ faults \in 0..MaxFaults

DriverInit ==
  /\ Init
  /\ dpc = [d \in Driver |-> "off"]
  /\ owner = NoDriver
  /\ child = NoChild
  /\ cell = 1
  /\ digest = NoRun
  /\ results = [c \in 1..Cells |-> NoRun]
  /\ misjudged = NoRun /\ finished = NoRun
  /\ faults = 0

TrainerAlive == pc \notin Ended

LockHeldByShellOnly == owner # NoDriver /\ Active(owner)

\* The open file description is shared with the children: the flock is held
\* until the last process that has it is gone.
LockHeld == owner # NoDriver /\ (Active(owner) \/ TrainerAlive \/ child # NoChild)

Jump(d, label) == dpc' = [dpc EXCEPT ![d] = label]

Fault == faults < MaxFaults /\ faults' = faults + 1

\* `flock -n 9`, else exit 3.
Launch(d) ==
  /\ dpc[d] = "off"
  /\ ~LockHeld
  /\ Jump(d, "check")
  /\ owner' = d
  /\ cell' = 1
  /\ digest' = NoRun
  /\ misjudged' = NoRun
  /\ UNCHANGED <<vars, child, results, finished, faults>>

CheckRunOrGiveUp(d) ==
  /\ dpc[d] = "check"
  /\ Jump(d, IF Published # NoRun THEN "digest" ELSE "off")
  /\ UNCHANGED <<vars, owner, child, cell, digest, results, history, faults>>

\* A validator that is killed, runs out of memory or cannot read a file exits
\* non-zero like one that finds a flaw: what it was given counts as invalid.
Misjudge == Fault /\ finished' = NoRun

\* `if valid_run "$RUN_DIR"`: the generation verifies under the contract.
CheckRun(d) ==
  /\ dpc[d] = "check"
  /\ \/ /\ Jump(d, IF Published # NoRun THEN "digest" ELSE "quarantine")
        /\ UNCHANGED <<history, faults>>
     \/ /\ Published # NoRun
        /\ Jump(d, "quarantine")
        /\ misjudged' = Published
        /\ Misjudge
  /\ UNCHANGED <<vars, owner, child, cell, digest, results>>

\* mv of the whole run directory; set -e ends the driver when mv fails.
QuarantineRun(d) ==
  /\ dpc[d] = "quarantine"
  /\ root' = EmptyRoot
  /\ Jump(d, "start")
  /\ UNCHANGED <<pc, run, owner, child, cell, digest, results, history, faults>>

StartTraining(d) ==
  /\ dpc[d] = "start"
  /\ Start
  /\ Jump(d, "training")
  /\ IF pc' = "raised" THEN Fault ELSE UNCHANGED faults
  /\ UNCHANGED <<owner, child, cell, digest, results, history>>

\* The child's exit code decides between validation and set -e.
TrainReturns(d) ==
  /\ dpc[d] = "training"
  /\ ~TrainerAlive
  /\ Jump(d, IF pc = "done" THEN "validate" ELSE "off")
  /\ UNCHANGED <<vars, owner, child, cell, digest, results, history, faults>>

\* valid_run || exit 4: a validator that fails ends the driver as DriverDies does.
Validate(d) ==
  /\ dpc[d] = "validate"
  /\ Jump(d, IF Published # NoRun THEN "digest" ELSE "off")
  /\ UNCHANGED <<vars, owner, child, cell, digest, results, history, faults>>

ReadDigest(d) ==
  /\ dpc[d] = "digest"
  /\ digest' = root.manifest.ckpt
  /\ Jump(d, "ev")
  /\ UNCHANGED <<vars, owner, child, cell, results, history, faults>>

\* validate-eval on the payload: it is bound to the digest of the generation.
ValidEval == results[cell] = digest

\* A payload is resumed only under the expected digest.
CheckPayload(d) ==
  /\ dpc[d] = "ev"
  /\ cell <= Cells
  /\ \/ /\ ValidEval
        /\ cell' = cell + 1
        /\ UNCHANGED <<dpc, finished, faults>>
     \/ /\ ~ValidEval
        /\ Jump(d, "mvpayload")
        /\ UNCHANGED <<cell, finished, faults>>
     \/ /\ ValidEval
        /\ Jump(d, "mvpayload")
        /\ Misjudge
        /\ UNCHANGED cell
  /\ UNCHANGED <<vars, owner, child, digest, results, misjudged>>

AllDone(d) ==
  /\ dpc[d] = "ev"
  /\ cell > Cells
  /\ Jump(d, "done")
  /\ finished' = digest
  /\ UNCHANGED <<vars, owner, child, cell, digest, results, misjudged, faults>>

QuarantinePayload(d) ==
  /\ dpc[d] = "mvpayload"
  /\ results' = [results EXCEPT ![cell] = NoRun]
  /\ Jump(d, "evaluate")
  /\ UNCHANGED <<vars, owner, child, cell, digest, history, faults>>

\* cmd_eval verifies the generation before it loads anything.
StartEval(d) ==
  /\ dpc[d] = "evaluate"
  /\ IF Verified
       THEN child' = [cell |-> cell, ckpt |-> root.ckpt] /\ Jump(d, "evaluating")
       ELSE Jump(d, "off") /\ UNCHANGED child
  /\ UNCHANGED <<vars, owner, cell, digest, results, history, faults>>

\* atomic_write_json of the payload, the last thing the eval child does; a
\* failing child writes nothing.
EvalWrites ==
  /\ child # NoChild
  /\ results' = [results EXCEPT ![child.cell] = child.ckpt]
  /\ child' = NoChild
  /\ UNCHANGED <<vars, dpc, owner, cell, digest, history, faults>>

EvalFails ==
  /\ child # NoChild
  /\ child' = NoChild
  /\ Fault
  /\ UNCHANGED <<vars, dpc, owner, cell, digest, results, history>>

EvalReturnsUnchecked(d) ==
  /\ dpc[d] = "evaluating"
  /\ child = NoChild
  /\ cell' = cell + 1
  /\ Jump(d, "ev")
  /\ UNCHANGED <<vars, owner, child, digest, results, history, faults>>

\* The fresh payload must validate, else exit 4; a failing validator is DriverDies.
EvalReturns(d) ==
  /\ dpc[d] = "evaluating"
  /\ child = NoChild
  /\ IF ValidEval
       THEN cell' = cell + 1 /\ Jump(d, "ev")
       ELSE Jump(d, "off") /\ UNCHANGED cell
  /\ UNCHANGED <<vars, owner, child, digest, results, history, faults>>

\* The script is killed or one of its own commands fails under set -e; a
\* running child survives it.
DriverDies(d) ==
  /\ Active(d)
  /\ Jump(d, "off")
  /\ Fault
  /\ UNCHANGED <<vars, owner, child, cell, digest, results, history>>

\* A healthy step of the trainer, or one that raises, fails or is killed.
\* Once the trainer is in its failure handler only further faults count.
TrainerMoves ==
  /\ TrainerStep \/ Crash
  /\ IF pc' \in {"moveroot", "escalated", "dead"} \/ (pc \in Publishing /\ pc' = "poison")
       THEN Fault ELSE UNCHANGED faults
  /\ UNCHANGED driverVars

ScriptStep(d) ==
  \/ CheckRun(d) \/ QuarantineRun(d) \/ StartTraining(d) \/ TrainReturns(d)
  \/ Validate(d) \/ ReadDigest(d) \/ CheckPayload(d) \/ AllDone(d)
  \/ QuarantinePayload(d) \/ StartEval(d) \/ EvalReturns(d)

DriverNext ==
  \/ \E d \in Driver : Launch(d) \/ ScriptStep(d) \/ DriverDies(d)
  \/ TrainerMoves
  \/ EvalWrites \/ EvalFails

DriverSpec == DriverInit /\ [][DriverNext]_allVars

\* Running processes keep running, and as long as the work is not done
\* somebody launches the driver again.
DriverFairness ==
  /\ \A d \in Driver : WF_allVars(ScriptStep(d))
  /\ WF_allVars(\E d \in Driver : Launch(d))
  /\ WF_allVars(TrainerMoves)
  /\ WF_allVars(EvalWrites)

FairDriverSpec == DriverSpec /\ DriverFairness
-----------------------------------------------------------------------------
\* A driver that prints ALL_DONE_4B leaves every payload bound to the one
\* generation that verifies in the run directory, and no later launch, kill or
\* orphan undoes that; only a validator that fails on good files in a later
\* launch, whose failure the script takes for a flaw in them, does.
AllDoneIsOneGeneration ==
  finished # NoRun =>
    Published = finished /\ \A c \in 1..Cells : results[c] = finished

\* A generation that verifies is paid for.  The trainer that wrote it, failing
\* right after its last write, may take it back; a driver moves it aside only
\* when its own validator has just failed on that very generation, although it
\* checks the directory and moves it in two steps.
VerifiedIsKept ==
  [][Published # NoRun /\ Published' # Published =>
       (pc \in CleaningUp \/ Published = misjudged)]_allVars

\* At most one process works on the run directory and the payloads: no two
\* drivers, no two children, and beside a driver's shell no child but the one
\* it waits for.
OneWorker ==
  /\ \A d, e \in Driver : Active(d) /\ Active(e) => d = e
  /\ ~(TrainerAlive /\ child # NoChild)
  /\ \A d \in Driver : Active(d) /\ TrainerAlive => dpc[d] = "training"
  /\ \A d \in Driver : Active(d) /\ child # NoChild => dpc[d] = "evaluating"

\* When the faults stop, the relaunched driver finishes: no leftover of a
\* killed or failed launch blocks the resume for ever.
EventuallyDone == <>(\E d \in Driver : dpc[d] = "done")
=============================================================================
