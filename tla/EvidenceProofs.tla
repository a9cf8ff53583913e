---------------------------- MODULE EvidenceProofs -----------------------------
(***************************************************************************)
(* TLAPS proofs about the evidence root, for any number of runs: the       *)
(* training lifecycle by itself, the reader that validates beside it, and  *)
(* the 4B driver with any launches, evaluations and faults.                *)
(***************************************************************************)
EXTENDS EvidenceReader, Driver4b, TLAPS

\* What is on disk is known at every label of the publishing section.
Progress ==
  /\ pc \in Publishing => root.status = "running" /\ run > 0
  /\ pc \in {"report", "manifest", "complete"} => root.ckpt = run
  /\ pc \in {"manifest", "complete"} => root.report = run
  /\ pc = "complete" => root.manifest = [report |-> run, ckpt |-> run]

\* A complete mark stands on the whole generation of the latest run.
Whole ==
  root.status = "complete" =>
    /\ run > 0
    /\ root.report = run /\ root.ckpt = run
    /\ root.manifest = [report |-> run, ckpt |-> run]

Withdrawn ==
  /\ pc = "markfatal" => root = EmptyRoot
  /\ pc = "failed" => root = FatalRoot

\* What holds of the lifecycle even when somebody empties the root between
\* two runs; the withdrawal does not.
Life == TypeOK /\ Progress /\ Whole

IInv == Life /\ Withdrawn

Root == [status: {"none", "running", "complete", "fatal"},
         manifest: [report: Nat, ckpt: Nat], report: Nat, ckpt: Nat]

USE RunBound, DriverBounds

LEMMA EmptyRootType == EmptyRoot \in Root /\ FatalRoot \in Root
BY DEF EmptyRoot, FatalRoot, Root, NoManifest, NoRun

\* Quarantine removes the status before anything else.
LEMMA WithoutFirstFacts ==
  ASSUME root \in Root
  PROVE  /\ WithoutFirst \in Root
         /\ WithoutFirst.status = "none"
BY DEF WithoutFirst, Root, NoManifest, NoRun

\* Every step of the trainer keeps types, progress and wholeness.
LEMMA LifeStep ==
  ASSUME Life, [Next]_vars
  PROVE  Life'
<1> USE DEF Life, TypeOK, Progress, Whole, Publishing, CleaningUp, Ended
<1>1. CASE UNCHANGED vars
  BY <1>1 DEF vars
<1>2. CASE Start
  BY <1>2 DEF Start
<1>3. CASE Train
  BY <1>3 DEF Train
<1>4. CASE ExportBundle
  BY <1>4 DEF ExportBundle, Attempt
<1>5. CASE WriteReport
  BY <1>5 DEF WriteReport, Attempt
<1>6. CASE WriteManifest
  BY <1>6 DEF WriteManifest, Attempt
<1>7. CASE MarkComplete
  BY <1>7 DEF MarkComplete, Attempt
<1>8. CASE Poison
  BY <1>8 DEF Poison
<1>9. CASE Quarantine
  <2>1. root \in Root
    BY DEF Root
  <2>2. WithoutFirst \in Root /\ WithoutFirst.status = "none"
    BY <2>1, WithoutFirstFacts
  <2> QED BY <1>9, <2>2 DEF Quarantine, Root
<1>10. CASE QuarantineDone
  BY <1>10 DEF QuarantineDone
<1>11. CASE MoveRootAside
  <2>1. EmptyRoot \in Root /\ EmptyRoot.status = "none"
    BY EmptyRootType DEF EmptyRoot
  <2> QED BY <1>11, <2>1 DEF MoveRootAside, Cleanup, Root
<1>12. CASE MarkFatal
  BY <1>12 DEF MarkFatal, Cleanup
<1>13. CASE Crash
  BY <1>13 DEF Crash
<1> QED BY <1>1, <1>2, <1>3, <1>4, <1>5, <1>6, <1>7, <1>8, <1>9, <1>10, <1>11,
           <1>12, <1>13 DEF Next, TrainerStep

\* Types hold, a complete mark stands on one whole generation, and a
\* withdrawn root is empty: the three hold together and are inductive.
THEOREM Inductive == Spec => []IInv
<1>1. Init => IInv
  BY DEF Init, IInv, Life, TypeOK, Progress, Whole, Withdrawn, EmptyRoot, NoManifest,
         NoRun, Publishing, CleaningUp, Ended
<1>2. IInv /\ [Next]_vars => IInv'
  <2>1. SUFFICES ASSUME IInv, [Next]_vars PROVE IInv'
    OBVIOUS
  <2>2. Life'
    BY <2>1, LifeStep DEF IInv
  <2>3. CASE UNCHANGED vars
    BY <2>1, <2>2, <2>3 DEF IInv, Withdrawn, vars
  <2>4. CASE MarkFatal
    <3>1. [root EXCEPT !.status = "fatal"] = FatalRoot
      BY <2>1, <2>4 DEF MarkFatal, FatalRoot, IInv, Withdrawn
    <3> QED BY <2>2, <2>4, <3>1 DEF MarkFatal, Cleanup, IInv, Withdrawn
  <2>5. CASE Next /\ ~MarkFatal
    BY <2>1, <2>2, <2>5 DEF Next, Start, TrainerStep, Train, ExportBundle, WriteReport,
       WriteManifest, MarkComplete, Poison, Quarantine, QuarantineDone, MoveRootAside,
       Crash, Attempt, Cleanup, IInv, Withdrawn
  <2> QED BY <2>1, <2>3, <2>4, <2>5
<1> QED BY <1>1, <1>2, PTL DEF Spec

\* Every variable keeps its type, for any number of runs.
THEOREM TypeCorrect == Spec => []TypeOK
<1>1. IInv => TypeOK
  BY DEF IInv, Life
<1> QED BY <1>1, Inductive, PTL

\* A complete mark always stands on one whole generation, the latest run's.
THEOREM CompleteMeansCurrent == Spec => []CompleteIsCurrentGeneration
<1>1. IInv => CompleteIsCurrentGeneration
  BY DEF IInv, Life, TypeOK, Whole, CompleteIsCurrentGeneration, Verified, NoManifest, NoRun
<1> QED BY <1>1, Inductive, PTL

\* A run that re-raises its own failure has withdrawn everything.
THEOREM FailureWithdraws == Spec => []FailedLeavesOnlyFatal
<1>1. IInv => FailedLeavesOnlyFatal
  BY DEF IInv, Withdrawn, FailedLeavesOnlyFatal
<1> QED BY <1>1, Inductive, PTL

\* Under the invariant the published generation is read off the status alone.
Shown == IF root.status = "complete" THEN run ELSE NoRun

LEMMA PublishedIs == Life => Published = Shown
BY DEF Life, TypeOK, Whole, Published, Verified, Shown, NoManifest, NoRun

LEMMA PublishedIsNext == Life' => Published' = Shown'
BY DEF Life, TypeOK, Whole, Published, Verified, Shown, NoManifest, NoRun

\* The lifecycle implements Evidence: initial states map to its initial
\* state, and each step to one of its steps or to a stutter.
THEOREM Refinement == Spec => ImplementsEvidence
<1>1. Init => Promise!Init
  BY DEF Init, Promise!Init, Published, Verified, EmptyRoot, NoRun, NoManifest,
         Publishing
<1>2. IInv /\ IInv' /\ [Next]_vars => [Promise!Next]_(Promise!vars)
  <2>1. SUFFICES ASSUME IInv, IInv', [Next]_vars
                 PROVE  [Promise!Next]_(Promise!vars)
    OBVIOUS
  <2>2. Published = Shown /\ Published' = Shown'
    BY <2>1, PublishedIs, PublishedIsNext DEF IInv
  <2> USE DEF Shown, NoRun, Publishing
  <2>3. CASE UNCHANGED vars
    BY <2>2, <2>3 DEF vars, Promise!vars
  <2>4. CASE Start
    <3>1. pc \notin Publishing /\ (pc' \in Publishing) \in BOOLEAN
      BY <2>4 DEF Start, Ended
    <3>2. run' = run + 1 /\ Published' = 0
      BY <2>1, <2>2, <2>4 DEF Start, IInv, Life, TypeOK
    <3> QED BY <3>1, <3>2 DEF Promise!Next, Promise!NewAttempt
  <2>5. CASE MarkComplete
    <3>1. pc \in Publishing /\ pc' \notin Publishing /\ run' = run
      BY <2>5 DEF MarkComplete, Attempt
    <3>2. CASE root'.status = "complete"
      <4>1. Published' = run
        BY <2>2, <3>1, <3>2
      <4> QED BY <3>1, <4>1 DEF Promise!Next, Promise!Publish
    <3>3. CASE root'.status # "complete"
      <4>1. Published' = 0
        BY <2>2, <3>3
      <4> QED BY <3>1, <4>1 DEF Promise!Next, Promise!Retract
    <3> QED BY <3>2, <3>3
  <2>6. CASE Next /\ ~Start /\ ~MarkComplete
    <3>1. run' = run
      BY <2>6 DEF Next, TrainerStep, Train, ExportBundle, WriteReport, WriteManifest,
         Poison, Quarantine, QuarantineDone, MoveRootAside, MarkFatal, Crash,
         Attempt, Cleanup
    <3>2. root'.status = "complete" => root.status = "complete"
      BY <2>1, <2>6, WithoutFirstFacts DEF Next, TrainerStep, Train, ExportBundle,
         WriteReport, WriteManifest, Poison, Quarantine, QuarantineDone,
         MoveRootAside, MarkFatal, Crash, Attempt, Cleanup, IInv, Life, TypeOK, Root,
         EmptyRoot
    <3>3. pc \notin Publishing => pc' \notin Publishing
      BY <2>1, <2>6 DEF Next, TrainerStep, Train, ExportBundle, WriteReport,
         WriteManifest, Poison, Quarantine, QuarantineDone, MoveRootAside,
         MarkFatal, Crash, Attempt, Cleanup, CleaningUp
    <3>4. pc \in Publishing => root.status # "complete"
      BY <2>1 DEF IInv, Life, Progress
    <3>5. CASE Published' = Published /\ (pc' \in Publishing) = (pc \in Publishing)
      BY <3>1, <3>5 DEF Promise!vars
    <3>6. CASE Published' = 0 /\ pc' \notin Publishing
      BY <3>1, <3>6 DEF Promise!Next, Promise!Retract
    <3> QED BY <2>2, <3>1, <3>2, <3>3, <3>4, <3>5, <3>6
  <2> QED BY <2>1, <2>3, <2>4, <2>5, <2>6
<1> QED BY <1>1, <1>2, Inductive, PTL DEF Spec, ImplementsEvidence, Promise!Spec

LEMMA StillPublished ==
  ASSUME UNCHANGED root
  PROVE  Published' = Published
BY DEF Published, Verified

\* What verifies is the latest run's generation, and its manifest names it.
LEMMA PublishedFacts ==
  ASSUME Life
  PROVE  /\ Published \in 0..MaxRuns
         /\ Verified <=> Published # NoRun
         /\ Published # NoRun => root.manifest.ckpt = Published /\ root.ckpt = Published
         /\ pc \in Publishing => Published = NoRun
<1>1. Published = Shown
  BY PublishedIs
<1>2. Published \in 0..MaxRuns
  BY <1>1 DEF Shown, Life, TypeOK, NoRun
<1>3. Verified <=> Published # NoRun
  BY DEF Published, Verified
<1>4. Published # NoRun => root.manifest.ckpt = Published /\ root.ckpt = Published
  BY <1>1 DEF Shown, Life, TypeOK, Whole
<1>5. pc \in Publishing => Published = NoRun
  BY <1>1 DEF Shown, Life, Progress
<1> QED BY <1>2, <1>3, <1>4, <1>5
-----------------------------------------------------------------------------
(* The reader of the root beside the trainer.                              *)

\* Only runs that were started have files.
FilesAreRuns ==
  {root.report, root.ckpt, root.manifest.report, root.manifest.ckpt} \subseteq 0..MaxRuns

\* A manifest, on disk or in the reader's hands, names the files of one run,
\* and the reader accepts no report of another run than the manifest's.
OneRunManifest ==
  /\ root.manifest.report = root.manifest.ckpt
  /\ held.manifest.report = held.manifest.ckpt
  /\ rpc = "accepted" => held.report = held.manifest.ckpt

RInv == Life /\ ReaderTypeOK /\ FilesAreRuns /\ OneRunManifest

\* A step of the trainer leaves the files of started runs and a manifest that
\* names one run: it is written when both files are the current run's.
LEMMA FilesKept ==
  ASSUME Life, FilesAreRuns, root.manifest.report = root.manifest.ckpt, [Next]_vars
  PROVE  FilesAreRuns' /\ root'.manifest.report = root'.manifest.ckpt
<1> USE DEF Life, TypeOK, Progress, FilesAreRuns
<1>1. CASE UNCHANGED vars
  BY <1>1 DEF vars
<1>2. CASE Start \/ Train \/ Poison \/ QuarantineDone \/ Crash
  BY <1>2 DEF Start, Train, Poison, QuarantineDone, Crash
<1>3. CASE ExportBundle \/ WriteReport \/ MarkComplete
  BY <1>3 DEF ExportBundle, WriteReport, MarkComplete, Attempt
<1>4. CASE WriteManifest
  <2>1. root.report = run /\ root.ckpt = run
    BY <1>4 DEF WriteManifest
  <2> QED BY <1>4, <2>1 DEF WriteManifest, Attempt
<1>5. CASE Quarantine
  BY <1>5 DEF Quarantine, WithoutFirst, NoManifest, NoRun
<1>6. CASE MoveRootAside
  BY <1>6 DEF MoveRootAside, Cleanup, EmptyRoot, NoManifest, NoRun
<1>7. CASE MarkFatal
  BY <1>7 DEF MarkFatal, Cleanup
<1> QED BY <1>1, <1>2, <1>3, <1>4, <1>5, <1>6, <1>7 DEF Next, TrainerStep

\* What the reader holds is of one run at each of its reads, whatever the
\* trainer writes, fails or takes back in between.
THEOREM ReaderInductive == ReaderSpec => []RInv
<1>1. ReaderInit => RInv
  BY DEF ReaderInit, Init, RInv, Life, TypeOK, Progress, Whole, ReaderTypeOK, FilesAreRuns,
         OneRunManifest, Nothing, EmptyRoot, NoManifest, NoRun, Publishing, CleaningUp, Ended
<1>2. RInv /\ [ReaderNext]_readerVars => RInv'
  <2>1. SUFFICES ASSUME RInv, [ReaderNext]_readerVars PROVE RInv'
    OBVIOUS
  <2>2. [Next]_vars
    BY <2>1 DEF ReaderNext, TrainerWrites, ReaderStep, BeginValidation, ReadStatus, ReadManifest,
       DigestReport, DigestCheckpoint, RereadReport, InspectBundle, Read, readerVars, vars
  <2>3. Life'
    BY <2>1, <2>2, LifeStep DEF RInv
  <2>4. FilesAreRuns' /\ root'.manifest.report = root'.manifest.ckpt
    BY <2>1, <2>2, FilesKept DEF RInv, OneRunManifest
  <2>5. Published \in 0..MaxRuns
    BY <2>1, PublishedFacts DEF RInv
  <2>6. ReaderTypeOK'
    BY <2>1, <2>5 DEF RInv, ReaderTypeOK, FilesAreRuns, Life, TypeOK, ReaderNext, TrainerWrites,
       ReaderStep, BeginValidation, ReadStatus, ReadManifest, DigestReport, DigestCheckpoint,
       RereadReport, InspectBundle, Read, readerVars, Nothing, NoManifest, NoRun
  <2>7. /\ held'.manifest.report = held'.manifest.ckpt
        /\ rpc' = "accepted" => held'.report = held'.manifest.ckpt
    BY <2>1 DEF RInv, OneRunManifest, ReaderTypeOK, ReaderNext, TrainerWrites, ReaderStep,
       BeginValidation, ReadStatus, ReadManifest, DigestReport, DigestCheckpoint, RereadReport,
       InspectBundle, Read, readerVars, Nothing, NoManifest, NoRun
  <2> QED BY <2>3, <2>4, <2>6, <2>7 DEF RInv, OneRunManifest
<1> QED BY <1>1, <1>2, PTL DEF ReaderSpec

\* An accepted validation read the manifest, the report and the checkpoint of
\* one and the same run.
THEOREM ReaderAcceptsOneGeneration == ReaderSpec => []AcceptedIsOneGeneration
<1>1. RInv => AcceptedIsOneGeneration
  BY DEF RInv, OneRunManifest, AcceptedIsOneGeneration
<1> QED BY <1>1, ReaderInductive, PTL

\* The reader only looks: with it the trainer goes on as it does alone, and
\* what is proved of the lifecycle holds beside it.
THEOREM ReaderOnlyLooks == ReaderSpec => Spec
<1>1. ReaderInit => Init
  BY DEF ReaderInit
<1>2. [ReaderNext]_readerVars => [Next]_vars
  BY DEF ReaderNext, TrainerWrites, ReaderStep, BeginValidation, ReadStatus, ReadManifest,
     DigestReport, DigestCheckpoint, RereadReport, InspectBundle, Read, readerVars, vars
<1> QED BY <1>1, <1>2, PTL DEF ReaderSpec, Spec
-----------------------------------------------------------------------------
(* The 4B driver, which runs the trainer and the evaluations.              *)

Before == {"check", "quarantine", "start", "training", "validate", "digest"}
Evaluations == {"ev", "mvpayload", "evaluate", "evaluating"}

\* The lock's owner is the only launch at work, and it waits for the child it
\* has: trainer, evaluation and script exclude each other.
Alone ==
  /\ \A d \in Driver : Active(d) => d = owner
  /\ owner = NoDriver => ~TrainerAlive /\ child = NoChild
  /\ \A d \in Driver : Active(d) /\ TrainerAlive => dpc[d] = "training"
  /\ \A d \in Driver : Active(d) /\ child # NoChild => dpc[d] = "evaluating"
  /\ ~(TrainerAlive /\ child # NoChild)

\* What the owner has found out is still so.
Position ==
  \A d \in Driver :
    /\ dpc[d] \in Before => cell = 1
    /\ dpc[d] = "quarantine" => Published = NoRun \/ Published = misjudged
    /\ dpc[d] = "start" => Published = NoRun
    /\ dpc[d] = "digest" => Published # NoRun
    /\ dpc[d] \in Evaluations => /\ digest = Published /\ Published # NoRun
                                 /\ \A c \in 1..Cells : c < cell => results[c] = digest
    /\ dpc[d] \in Evaluations \ {"ev"} => cell \in 1..Cells

\* An evaluation, orphaned or not, runs on the generation that is published.
Evaluated ==
  child # NoChild => /\ child.cell \in 1..Cells
                     /\ child.ckpt = Published /\ Published # NoRun

\* After ALL_DONE every later launch only finds that all is done, until one of
\* its validators fails.
Finished ==
  finished # NoRun =>
    /\ Published = finished /\ \A c \in 1..Cells : results[c] = finished
    /\ ~TrainerAlive /\ child = NoChild
    /\ \A d \in Driver : dpc[d] \in {"off", "check", "digest", "ev", "done"}

DInv == DriverTypeOK /\ Life /\ Alone /\ Position /\ Evaluated /\ Finished

LEMMA EmptyIsUnpublished ==
  ASSUME root' = EmptyRoot
  PROVE  Published' = NoRun
BY DEF Published, Verified, EmptyRoot

\* The lifecycle's facts hold under the driver too: the root is emptied only
\* when no trainer is at work.
LEMMA LifeKept ==
  ASSUME DInv, [DriverNext]_allVars
  PROVE  Life'
<1>1. CASE UNCHANGED vars
  BY <1>1, LifeStep DEF DInv
<1>2. ASSUME NEW d \in Driver, StartTraining(d)
      PROVE  Life'
  BY <1>2, LifeStep DEF DInv, StartTraining, Next
<1>3. ASSUME NEW d \in Driver, QuarantineRun(d)
      PROVE  Life'
  <2>1. ~TrainerAlive
    BY <1>3 DEF DInv, Alone, QuarantineRun, Active, DriverTypeOK
  <2>2. EmptyRoot \in Root /\ EmptyRoot.status = "none"
    BY EmptyRootType DEF EmptyRoot
  <2> QED BY <1>3, <2>1, <2>2 DEF DInv, QuarantineRun, Life, TypeOK, Progress, Whole,
             TrainerAlive, Ended, Publishing, Root
<1>4. CASE TrainerMoves
  BY <1>4, LifeStep DEF DInv, TrainerMoves, Next
<1> QED BY <1>1, <1>2, <1>3, <1>4 DEF DriverNext, ScriptStep, allVars, vars, Launch, CheckRun,
           TrainReturns, Validate, ReadDigest, CheckPayload, AllDone, QuarantinePayload,
           StartEval, EvalReturns, DriverDies, EvalWrites, EvalFails

\* The owner, its position and what it has found out, action by action.
THEOREM DriverInductive == DriverSpec => []DInv
<1>1. DriverInit => DInv
  BY DEF DriverInit, Init, DInv, DriverTypeOK, Life, TypeOK, Progress, Whole, Alone, Position,
         Evaluated, Finished, Active, TrainerAlive, EmptyRoot, NoManifest, NoRun, NoChild,
         NoDriver, Publishing, CleaningUp, Ended, Before, Evaluations
<1>2. DInv /\ [DriverNext]_allVars => DInv'
  <2>1. SUFFICES ASSUME DInv, [DriverNext]_allVars PROVE DInv'
    OBVIOUS
  <2>2. Life'
    BY <2>1, LifeKept
  <2>3. /\ Published \in 0..MaxRuns
        /\ Verified <=> Published # NoRun
        /\ Published # NoRun => root.manifest.ckpt = Published /\ root.ckpt = Published
        /\ pc \in Publishing => Published = NoRun
    BY <2>1, PublishedFacts DEF DInv
  <2> USE <2>1, <2>2, <2>3 DEF DInv, DriverTypeOK, Alone, Position, Evaluated, Finished, Active,
             TrainerAlive, Before, Evaluations, NoRun, NoChild, NoDriver, Jump, history
  <2>4. CASE UNCHANGED allVars
    <3>1. Published' = Published
      BY <2>4, StillPublished DEF allVars
    <3> QED BY <2>4, <3>1 DEF allVars
  <2>5. ASSUME NEW d \in Driver, CheckRun(d) PROVE DInv'
    <3>1. Published' = Published
      BY <2>5, StillPublished DEF CheckRun, vars
    <3> QED BY <2>5, <3>1 DEF CheckRun, Misjudge, Fault, vars
  <2>6. ASSUME NEW d \in Driver, TrainReturns(d) PROVE DInv'
    <3>1. Published' = Published
      BY <2>6, StillPublished DEF TrainReturns, vars
    <3> QED BY <2>6, <3>1 DEF TrainReturns, vars
  <2>7. ASSUME NEW d \in Driver, Validate(d) PROVE DInv'
    <3>1. Published' = Published
      BY <2>7, StillPublished DEF Validate, vars
    <3> QED BY <2>7, <3>1 DEF Validate, vars
  <2>8. ASSUME NEW d \in Driver, ReadDigest(d) PROVE DInv'
    <3>1. Published' = Published
      BY <2>8, StillPublished DEF ReadDigest, vars
    <3> QED BY <2>8, <3>1 DEF ReadDigest, vars
  <2>9. ASSUME NEW d \in Driver, CheckPayload(d) PROVE DInv'
    <3>1. Published' = Published
      BY <2>9, StillPublished DEF CheckPayload, vars
    <3>2. CASE ValidEval /\ cell' = cell + 1
      <4>1. /\ cell \in 1..Cells /\ results[cell] = digest
            /\ UNCHANGED <<dpc, pc, owner, child, digest, results, misjudged, Published>>
            /\ UNCHANGED <<finished, faults>>
        BY <2>9, <3>1, <3>2 DEF CheckPayload, ValidEval, vars
      <4>2. dpc[d] = "ev" /\ (\A e \in Driver : Active(e) => e = d)
        BY <2>9 DEF CheckPayload
      <4>3. Position'
        BY <3>2, <4>1, <4>2
      <4> QED BY <3>2, <4>1, <4>3
    <3>3. CASE ~ValidEval
      <4>1. dpc[d] = "ev" /\ cell \in 1..Cells
        BY <2>9 DEF CheckPayload
      <4>2. finished = NoRun
        BY <3>3, <4>1 DEF ValidEval
      <4>3. /\ Jump(d, "mvpayload")
            /\ UNCHANGED <<pc, run, owner, child, cell, digest, results, history, faults, Published>>
        BY <2>9, <3>1, <3>3 DEF CheckPayload, vars
      <4> QED BY <4>1, <4>2, <4>3
    <3>4. CASE ValidEval /\ Misjudge /\ UNCHANGED cell /\ Jump(d, "mvpayload")
      BY <2>9, <3>1, <3>4 DEF CheckPayload, ValidEval, Misjudge, Fault, vars
    <3> QED BY <2>9, <3>2, <3>3, <3>4 DEF CheckPayload
  <2>10. ASSUME NEW d \in Driver, AllDone(d) PROVE DInv'
    <3>1. Published' = Published
      BY <2>10, StillPublished DEF AllDone, vars
    <3> QED BY <2>10, <3>1 DEF AllDone, vars
  <2>11. ASSUME NEW d \in Driver, QuarantinePayload(d) PROVE DInv'
    <3>1. Published' = Published
      BY <2>11, StillPublished DEF QuarantinePayload, vars
    <3> QED BY <2>11, <3>1 DEF QuarantinePayload, vars
  <2>12. ASSUME NEW d \in Driver, StartEval(d) PROVE DInv'
    <3>1. Published' = Published
      BY <2>12, StillPublished DEF StartEval, vars
    <3>2. CASE Verified
      <4>1. /\ child' = [cell |-> cell, ckpt |-> Published]
            /\ cell \in 1..Cells /\ Published # NoRun
        BY <2>12, <3>2 DEF StartEval
      <4>2. child' # NoChild /\ child'.cell = cell /\ child'.ckpt = Published
        BY <4>1
      <4>3. child' \in [cell: 0..Cells, ckpt: 0..MaxRuns]
        BY <4>1
      <4>4. /\ UNCHANGED <<vars, owner, cell, digest, results, history, faults>>
            /\ dpc' = [dpc EXCEPT ![d] = "evaluating"] /\ dpc[d] = "evaluate"
        BY <2>12, <3>2 DEF StartEval
      <4> QED BY <3>1, <4>1, <4>2, <4>3, <4>4 DEF vars
    <3>3. CASE ~Verified
      BY <2>12, <3>1, <3>3 DEF StartEval, vars
    <3> QED BY <3>2, <3>3
  <2>13. ASSUME NEW d \in Driver, EvalReturns(d) PROVE DInv'
    <3>1. Published' = Published
      BY <2>13, StillPublished DEF EvalReturns, vars
    <3> QED BY <2>13, <3>1 DEF EvalReturns, ValidEval, vars
  <2>14. ASSUME NEW d \in Driver, DriverDies(d) PROVE DInv'
    <3>1. Published' = Published
      BY <2>14, StillPublished DEF DriverDies, vars
    <3> QED BY <2>14, <3>1 DEF DriverDies, vars, Fault
  <2>15. ASSUME NEW d \in Driver, QuarantineRun(d) PROVE DInv'
    <3>1. Published' = NoRun
      BY <2>15, EmptyIsUnpublished DEF QuarantineRun
    <3> QED BY <2>15, <3>1 DEF QuarantineRun
  <2>16. ASSUME NEW d \in Driver, StartTraining(d) PROVE DInv'
    <3>1. root'.status = "running"
      BY <2>16 DEF StartTraining, Start, Life, TypeOK
    <3>2. Published = NoRun /\ Published' = NoRun
      BY <2>16, <3>1 DEF StartTraining, Published, Verified
    <3>3. pc' \in {"train", "raised"} /\ pc \in Ended /\ faults' \in 0..MaxFaults
      BY <2>16 DEF StartTraining, Start, Fault
    <3> QED BY <2>16, <3>2, <3>3 DEF StartTraining, Ended
  <2>17. ASSUME NEW d \in Driver, Launch(d) PROVE DInv'
    <3>1. Published' = Published
      BY <2>17, StillPublished DEF Launch, vars
    <3> QED BY <2>17, <3>1 DEF Launch, vars, LockHeld
  <2>18. CASE TrainerMoves
    <3>1. TrainerAlive
      BY <2>18 DEF TrainerMoves, TrainerStep, Train, ExportBundle, WriteReport, WriteManifest,
         MarkComplete, Poison, Quarantine, QuarantineDone, MoveRootAside, MarkFatal, Crash,
         Ended
    <3>2. UNCHANGED driverVars /\ faults' \in 0..MaxFaults
      BY <2>18 DEF TrainerMoves, Fault
    <3> QED BY <3>1, <3>2 DEF driverVars
  <2>19. CASE EvalWrites
    <3>1. Published' = Published
      BY <2>19, StillPublished DEF EvalWrites, vars
    <3> QED BY <2>19, <3>1 DEF EvalWrites, vars
  <2>20. CASE EvalFails
    <3>1. Published' = Published
      BY <2>20, StillPublished DEF EvalFails, vars
    <3> QED BY <2>20, <3>1 DEF EvalFails, vars, Fault
  <2> QED BY <2>4, <2>5, <2>6, <2>7, <2>8, <2>9, <2>10, <2>11, <2>12, <2>13, <2>14,
             <2>15, <2>16, <2>17, <2>18, <2>19, <2>20 DEF DriverNext, ScriptStep
<1> QED BY <1>1, <1>2, PTL DEF DriverSpec

\* Every variable keeps its type.
THEOREM DriverTypeCorrect == DriverSpec => []DriverTypeOK
<1>1. DInv => DriverTypeOK
  BY DEF DInv
<1> QED BY <1>1, DriverInductive, PTL

\* However many launches, kills and orphans, at most one process works on the
\* run directory and the payloads.
THEOREM OneWorkerAtATime == DriverSpec => []OneWorker
<1>1. DInv => OneWorker
  BY DEF DInv, Alone, OneWorker
<1> QED BY <1>1, DriverInductive, PTL

\* ALL_DONE_4B means one generation, from then on, unless a validator of a
\* later launch fails on it.
THEOREM AllDoneMeansOneGeneration == DriverSpec => []AllDoneIsOneGeneration
<1>1. DInv => AllDoneIsOneGeneration
  BY DEF DInv, Finished, AllDoneIsOneGeneration
<1> QED BY <1>1, DriverInductive, PTL

\* A verified generation is taken back by its trainer's own failure handler, or
\* by a driver whose validator has just failed on it, and by nothing else.
THEOREM VerifiedStays == DriverSpec => VerifiedIsKept
<1>1. DInv /\ [DriverNext]_allVars
        => [Published # NoRun /\ Published' # Published =>
              (pc \in CleaningUp \/ Published = misjudged)]_allVars
  <2>1. SUFFICES ASSUME DInv, [DriverNext]_allVars, Published # NoRun, Published' # Published,
                        Published # misjudged
                 PROVE  pc \in CleaningUp
    OBVIOUS
  <2>2. ~UNCHANGED root
    BY <2>1, StillPublished
  <2>3. pc \notin Publishing
    BY <2>1, PublishedFacts DEF DInv
  <2>4. ~\E d \in Driver : QuarantineRun(d) \/ StartTraining(d)
    BY <2>1 DEF DInv, Position, QuarantineRun, StartTraining
  <2>5. TrainerMoves
    BY <2>1, <2>2, <2>4 DEF DriverNext, ScriptStep, allVars, vars, Launch, CheckRun, TrainReturns,
       Validate, ReadDigest, CheckPayload, AllDone, QuarantinePayload, StartEval, EvalReturns,
       DriverDies, EvalWrites, EvalFails
  <2> QED BY <2>1, <2>3, <2>5 DEF TrainerMoves, TrainerStep, Train, ExportBundle, WriteReport,
             WriteManifest, MarkComplete, Poison, Quarantine, QuarantineDone, MoveRootAside,
             MarkFatal, Crash, Publishing, CleaningUp, Ended, DInv, Life, TypeOK
<1> QED BY <1>1, DriverInductive, PTL DEF DriverSpec, VerifiedIsKept

\* The drivers' resumes, quarantines and orphans never leave a complete mark
\* on anything but the latest run's whole generation.
THEOREM CompleteUnderDrivers == DriverSpec => []CompleteIsCurrentGeneration
<1>1. DInv => CompleteIsCurrentGeneration
  BY DEF DInv, Life, TypeOK, Whole, CompleteIsCurrentGeneration, Verified, NoManifest, NoRun
<1> QED BY <1>1, DriverInductive, PTL
=============================================================================
