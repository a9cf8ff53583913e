--------------------------- MODULE EvidenceReader ---------------------------
(***************************************************************************)
(* validate_run of latent_lab/bench/artifacts.py, run by anyone against a  *)
(* root that a trainer may be writing: verify_generation reads the status, *)
(* the manifest and the digests of both files one after the other, and     *)
(* validate_run then reads the report and the checkpoint a second time.    *)
(***************************************************************************)
EXTENDS TrainLifecycle

VARIABLES rpc,     \* where the reader is
          held,    \* what it read: the manifest, then the report it re-read
          shown    \* history: generations the root showed as a whole meanwhile

readerVars == <<root, pc, run, rpc, held, shown>>

Nothing == [manifest |-> NoManifest, report |-> NoRun]

ReaderTypeOK ==
  /\ rpc \in {"idle", "status", "manifest", "digests", "ckpt", "report", "bundle",
              "accepted", "rejected"}
  /\ held \in [manifest: [report: 0..MaxRuns, ckpt: 0..MaxRuns], report: 0..MaxRuns]
  /\ shown \subseteq 0..MaxRuns

ReaderInit == Init /\ rpc = "idle" /\ held = Nothing /\ shown = {}

\* One read: the verification goes on to `next` when the check holds and
\* raises otherwise.
Read(from, check, next) ==
  /\ rpc = from
  /\ rpc' = IF check THEN next ELSE "rejected"
  /\ shown' = shown \cup {Published}
  /\ UNCHANGED vars

BeginValidation ==
  /\ rpc \in {"idle", "accepted", "rejected"}
  /\ rpc' = "status"
  /\ held' = Nothing
  /\ shown' = {}
  /\ UNCHANGED vars

\* require_complete_run
ReadStatus ==
  /\ Read("status", root.status = "complete", "manifest")
  /\ UNCHANGED held

ReadManifest ==
  /\ Read("manifest", root.manifest # NoManifest, "digests")
  /\ held' = [held EXCEPT !.manifest = root.manifest]

\* sha256_file of the report and of the checkpoint against the manifest: the
\* report is hashed first, so its match and the checkpoint's are two reads.
DigestReport ==
  /\ Read("digests", root.report = held.manifest.report /\ root.ckpt # NoRun, "ckpt")
  /\ UNCHANGED held

DigestCheckpoint ==
  /\ Read("ckpt", root.ckpt = held.manifest.ckpt, "report")
  /\ UNCHANGED held

\* report_path.read_text() after verify_generation returned.
RereadReport ==
  /\ Read("report", root.report # NoRun, "bundle")
  /\ held' = [held EXCEPT !.report = root.report]

InspectBundleOnly ==
  /\ Read("bundle", root.ckpt # NoRun, "accepted")
  /\ UNCHANGED held

\* inspect_adapter_bundle: the checkpoint's content digest must be the one
\* both the manifest and the re-read report carry.
InspectBundle ==
  /\ Read("bundle", root.ckpt = held.manifest.ckpt /\ root.ckpt = held.report,
          "accepted")
  /\ UNCHANGED held

ReaderStep ==
  \/ BeginValidation \/ ReadStatus \/ ReadManifest
  \/ DigestReport \/ DigestCheckpoint
  \/ RereadReport \/ InspectBundle

\* The reader's history sees every root it is validating.
TrainerWrites ==
  /\ Next
  /\ shown' = shown \cup {Published}
  /\ UNCHANGED <<rpc, held>>

ReaderNext == TrainerWrites \/ ReaderStep

ReaderSpec == ReaderInit /\ [][ReaderNext]_readerVars
-----------------------------------------------------------------------------
\* Whatever the trainer does between the reads, an accepted validation has
\* read the manifest, the report and the checkpoint of one and the same run.
AcceptedIsOneGeneration ==
  rpc = "accepted" =>
    /\ held.manifest.report = held.manifest.ckpt
    /\ held.report = held.manifest.ckpt

\* "Fail closed unless report/checkpoint/manifest form one coherent,
\* digest-linked generation of a COMPLETE run" (checkpointing.py:434-435).
\* Refuted: the status read belongs to the previous run, and the manifest,
\* read after the next run replaced it, to a run that is not complete.
AcceptedWasComplete ==
  rpc = "accepted" => held.manifest.ckpt \in shown \cup {Published}
=============================================================================
