--------------------------- MODULE TrainLifecycle ---------------------------
(***************************************************************************)
(* `latent_run train --out DIR`: how one training run publishes its        *)
(* generation in the evidence root DIR, and how a failed run takes back    *)
(* what it published (cmd_train, _train_inner, write_train_generation,     *)
(* quarantine_success_artifacts).                                          *)
(*                                                                         *)
(* Files are abstracted to the run that wrote them, so two files match a   *)
(* manifest's digests exactly when they are those of the recorded runs.    *)
(* Every write is an atomic temp+replace.  Any operation may raise before  *)
(* or just after it took effect (disk full, SIGINT), and the process may   *)
(* be killed between any two operations.  The drivers run one trainer per  *)
(* root at a time (see Driver4b).                                          *)
(***************************************************************************)
EXTENDS Naturals

CONSTANT MaxRuns    \* bound: how many runs are started on the root

ASSUME RunBound == MaxRuns \in Nat

VARIABLES root,     \* the fixed-name files of the active evidence root
          pc,       \* where the trainer is; a terminal label between runs
          run       \* number of the latest run whose status reached the root

vars == <<root, pc, run>>

NoRun      == 0
NoManifest == [report |-> NoRun, ckpt |-> NoRun]
EmptyRoot  == [status |-> "none", manifest |-> NoManifest,
               report |-> NoRun, ckpt |-> NoRun]
FatalRoot  == [EmptyRoot EXCEPT !.status = "fatal"]

Publishing == {"train", "bundle", "report", "manifest", "complete"}
CleaningUp == {"poison", "quarantine", "moveroot", "markfatal"}
Ended      == {"idle", "done", "failed", "escalated", "raised", "dead"}

TypeOK ==
  /\ root \in [status: {"none", "running", "complete", "fatal"},
               manifest: [report: Nat, ckpt: Nat], report: Nat, ckpt: Nat]
  /\ pc \in Publishing \cup CleaningUp \cup Ended
  /\ run \in 0..MaxRuns

Init == root = EmptyRoot /\ pc = "idle" /\ run = 0

\* verify_generation: complete status, manifest present, both digests match.
Verified ==
  /\ root.status = "complete"
  /\ root.manifest # NoManifest
  /\ root.manifest = [report |-> root.report, ckpt |-> root.ckpt]
  /\ root.report # NoRun /\ root.ckpt # NoRun

\* The generation a reader that looks at the whole root at once accepts.
Published == IF Verified THEN root.ckpt ELSE NoRun

\* An operation of the protected section: it takes effect and the run goes
\* on, or an exception sends it to the failure handler.
Attempt(effect, next) ==
  /\ root' \in {root, effect}
  /\ \/ root' = effect /\ pc' = next
     \/ pc' = "poison"
  /\ UNCHANGED run

\* An operation of the failure handler; what it raises ends the run with
\* EvidenceLifecycleError.
Cleanup(effect, next) ==
  /\ root' \in {root, effect}
  /\ \/ root' = effect /\ pc' = next
     \/ pc' = "escalated"
  /\ UNCHANGED run

\* write_run_status(out, "running") comes before the protected section: what
\* it raises escapes, with the mark on disk or (nothing changes) without it.
StartMarkingNothing ==
  /\ pc \in Ended
  /\ run < MaxRuns
  /\ run' = run + 1
  /\ pc' \in {"train", "raised"}
  /\ UNCHANGED root

Start ==
  /\ pc \in Ended
  /\ run < MaxRuns
  /\ run' = run + 1
  /\ root' = [root EXCEPT !.status = "running"]
  /\ pc' \in {"train", "raised"}

\* The optimisation loop writes nothing; a fatal step, a validation fault or
\* a run without an accepted checkpoint raises.
Train ==
  /\ pc = "train"
  /\ pc' \in {"bundle", "poison"}
  /\ UNCHANGED <<root, run>>

ExportBundle ==
  /\ pc = "bundle"
  /\ Attempt([root EXCEPT !.ckpt = run], "report")

WriteReport ==
  /\ pc = "report"
  /\ Attempt([root EXCEPT !.report = run], "manifest")

\* The manifest carries the digests of the two files as they are on disk.
WriteManifest ==
  /\ pc = "manifest"
  /\ Attempt([root EXCEPT !.manifest = [report |-> root.report,
                                        ckpt |-> root.ckpt]], "complete")

MarkComplete ==
  /\ pc = "complete"
  /\ Attempt([root EXCEPT !.status = "complete"], "done")

\* Step 0 of _quarantine_evidence_root: overwrite the status in place.  An
\* Exception is swallowed; a BaseException is not.
Poison ==
  /\ pc = "poison"
  /\ root' \in {root, [root EXCEPT !.status = "fatal"]}
  /\ pc' \in {"quarantine", "escalated"}
  /\ UNCHANGED run

\* SUCCESS_ARTIFACT_FILES in order: the root without the first one present.
WithoutFirstManifestFirst ==
  CASE root.manifest # NoManifest -> [root EXCEPT !.manifest = NoManifest]
    [] OTHER -> [root EXCEPT !.status = "none", !.report = NoRun, !.ckpt = NoRun]

WithoutFirst ==
  CASE root.status # "none"         -> [root EXCEPT !.status = "none"]
    [] root.status = "none" /\ root.manifest # NoManifest
                                    -> [root EXCEPT !.manifest = NoManifest]
    [] root.status = "none" /\ root.manifest = NoManifest /\ root.report # NoRun
                                    -> [root EXCEPT !.report = NoRun]
    [] OTHER                        -> [root EXCEPT !.ckpt = NoRun]

\* quarantine_success_artifacts, one file at a time: renamed aside, else
\* unlinked; when both fail the whole root is moved.  SIGINT escapes.
Quarantine ==
  /\ pc = "quarantine"
  /\ root # EmptyRoot
  /\ \/ root' = WithoutFirst /\ pc' = "quarantine"
     \/ root' = root /\ pc' = "moveroot"
     \/ root' \in {root, WithoutFirst} /\ pc' = "escalated"
  /\ UNCHANGED run

QuarantineStopsEarly ==
  /\ pc = "quarantine"
  /\ root.status = "none"
  /\ pc' = "markfatal"
  /\ UNCHANGED <<root, run>>

QuarantineDone ==
  /\ pc = "quarantine"
  /\ root = EmptyRoot
  /\ pc' = "markfatal"
  /\ UNCHANGED <<root, run>>

MoveRootAside ==
  /\ pc = "moveroot"
  /\ Cleanup(EmptyRoot, "markfatal")

MarkFatal ==
  /\ pc = "markfatal"
  /\ Cleanup([root EXCEPT !.status = "fatal"], "failed")

\* The process is killed: what was replaced stays, nothing else happens.
Crash ==
  /\ pc \notin Ended
  /\ pc' = "dead"
  /\ UNCHANGED <<root, run>>

TrainerStep ==
  \/ Train \/ ExportBundle \/ WriteReport \/ WriteManifest \/ MarkComplete
  \/ Poison \/ Quarantine \/ QuarantineDone \/ MoveRootAside \/ MarkFatal

Next == Start \/ TrainerStep \/ Crash

Spec == Init /\ [][Next]_vars
-----------------------------------------------------------------------------
\* A root marked complete holds one whole generation, and it is the latest
\* run's: never a mix of two runs, never an older run's files under a newer
\* mark, whatever failed or was killed in between.
CompleteIsCurrentGeneration ==
  root.status = "complete" => Verified /\ root.report = run /\ root.ckpt = run

\* A run that ends by re-raising its own exception has withdrawn everything:
\* the active root carries the fatal mark and no success artifact of this or
\* of any earlier run.
FailedLeavesOnlyFatal == pc = "failed" => root = FatalRoot

\* "failing closed - the evidence root ... carries no complete generation"
\* (latent_run.py:1385, 1394; "Guarantee no complete-looking generation stays
\* in the ACTIVE root", latent_run.py:1321).  Refuted: SIGINT right after the complete mark landed,
\* or the mark's poisoning, renaming, unlinking and the move of the root all
\* failing, leaves a root that verifies behind the error.
EscalatedCarriesNoGeneration == pc = "escalated" => Published = NoRun

\* The lifecycle implements the promise of Evidence.
Promise == INSTANCE Evidence WITH
  attempt <- run, open <- pc \in Publishing, published <- Published
ImplementsEvidence == Promise!Spec
=============================================================================
