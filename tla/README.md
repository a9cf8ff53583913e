# A TLA+ model of compact_llm_language

The repository holds two Python systems and the scripts that run them:

* **rcc**, the Research Context Compiler: a session ingests messages,
  observations and atoms, stores observation texts by content hash, renders a
  compact context, and can be saved, journalled and restored;
* **latent_lab**, the latent-recurrence experiments: the recurrence over a
  frozen model, the training and evaluation commands that publish digest-linked
  evidence, the validators that accept it, the gate that judges it before money
  is spent, the drivers that run the commands on a rented machine, and the
  watchdog that tears the machine down;
* **evals** and **bench**, which replay scenarios and ask a model about them.

What is hard here is not the arithmetic but the protocol: files replaced one by
one while somebody reads them, processes killed between two writes, launches
repeated beside an orphan, a log whose line numbers are not unique, a provider
whose answers are late or wrong, budgets and caps that several loops share, a
cache that two branches of a computation overwrite, a switch that is spelled in
five places and must mean one training. The modules model that control and abstract the data (texts, tensors, digests) to
what the properties tell apart.

## Components

| component | state | operations | interacts with | hard behaviour | modules |
|---|---|---|---|---|---|
| session, store, scratch (`src/rcc/session.py`, `store.py`, `scratch.py`) | turns, id and hash indexes, counters, atoms, router signals; object files; a state file | say, observe, scratch.add, note_failure, flag_injection, save, load, compile | store (put/get), journal (hooks), router | loads of older states, damaged objects, repeats in the masking window | `SessionState`, `Session`, `SessionProofs` |
| journal (`src/rcc/journal.py`) | lines of a JSONL file | log_say/observe/atom, checkpoint, compact, restore | session | crash between memory and line, failed append, torn line, ambiguous numbers, rollback then continue | `Journal`, `SessionProofs` |
| router (`src/rcc/router.py`) | none | route | session | none | `Mode` in `Session` |
| dictionary encoding, gate, tokens | none | pure functions | compile | none | not modelled |
| run lock (`acquire_lock`, `src/latent_lab/bench/artifacts.py`) | lock file | acquire, break a stale lock, release | drivers | stale pid, kill between create and write, deadline | `RunLock`, `RunLockProofs` |
| evidence root (`src/latent_lab/train/checkpointing.py`, `cmd_train` of `latent_run.py`) | status, manifest, report, checkpoint | publish, quarantine, poison, move aside | readers, drivers | failure or kill at each write, failure in the failure handler | `TrainLifecycle`, `Evidence`, `EvidenceProofs` |
| validators (`validate_run`, `validate_eval`) | what has been read so far | sequence of reads | evidence root | root replaced between reads, a file read twice | `EvidenceReader`, `CheckPayload` in `Driver4b`, `EvidenceProofs` |
| 4B driver (`remote_driver_4b.sh`) | flock, run directory, payloads, adapter digest | resume or retrain, evaluate, quarantine | trainer, evaluator, other launches | orphaned children, relaunch, stale payloads | `Driver4b`, `EvidenceProofs` |
| watchdog (`vast_watchdog.py`) | deadlines, seen_instance, last destroy | monitor and teardown loops | provider | late or faulty answers, two inventories, caps | `Watchdog`, `BoundsProofs` |
| live evaluation (`src/evals/harness.py`, `provider.py`) | Budget, rounds, retries, results | run_suite, evaluate_mode, complete | model endpoint, session.expand | budget shared by cells, retries inside calls, one cell failing | `EvalSuite`, `BoundsProofs` |
| training loop (`_train_inner` of `latent_run.py`, `guarded_optimizer_step` and `BestCheckpointTracker` of `checkpointing.py`, `select_best_checkpoint` of `eval_v3.py`) | adapter parameters, raw validation history, tracked best | forward, guarded step, evaluate, reload, bind and export | evidence root (its `Train` step) | a step that fails half way, ties between checkpoints, two ways to find the best one | `TrainLoop`, `TrainRecordsProofs` |
| validation records (`build_v3_runtime_record` of `latent_run.py`, `eval_v3.py`, `rank_candidates` of `localized.py`) | the records of the validation that is going on, the raw history | rank, record, validate, aggregate, summarise, select | training loop | ties, two orders of equal scores, a record that its own checks refuse | `EvalRecords`, `TrainRecords`, `TrainRecordsProofs` |
| recipe and configuration (`latent_run.py`, `recipe_from_config` and the bundle of `checkpointing.py`, `adapter_recipe` of `localized.py`) | configuration, mode string, recipe, runtime contract, bundle, payload | train, export, eval, validate a run or an eval | trainer, evaluator, driver, validators | the same switch in many places, floats that round, reports from before a field existed, edits | `Recipe`, `RecipeIdentity`, `RecipeIdentityProofs` |
| localized recurrence (`src/latent_lab/backends/localized.py`) | adapters and their switches, caches of two contexts, carrier states, patched guards, trainables | score, nll, candidate CE, margin, trace, load | model, cache, trainer, evaluator | exceptions inside nested scopes, tensors overwritten in place, controls that must change one thing | `LatentRuntime`, `LatentCalls`, `Recurrence`, `RecurrenceProofs` |
| no-spend gate (`src/latent_lab/bench/no_spend_gate.py`) | what each stage read, statuses, blockers, four outputs | fingerprint, scan, reports, runs, evals, quarantine, proof tests, decide, write | two evidence roots, their writers | trees that change between stages, two lists derived from the same facts | `GateEvidence`, `NoSpendGate`, `NoSpendGateProofs` |
| provisioning, R1 driver and other drivers | | | | | not modelled, see the plan |
| model backends, suites, text baselines, benchmarks, probes, tools | tensors, generated data, offline reports | | | numeric or straight-line | not modelled |

`PROJECT.json` lists every part with its sources and the reason when it is not
modelled, and every hazard with its line and the properties that cover it.

## Modules

**RunLock** follows `acquire_lock` step by step for a set of processes: create
with O_EXCL, read the holder, judge it dead, unlink, check the deadline, write
the pid, run the body, close and unlink. `lock` is the file: who created it and
what pid it holds (`Empty` between create and write). `dead` are killed
processes; pids are not reused.

**TrainLifecycle** is one evidence root and the successive runs of
`latent_run train` on it. `root` records for each file the run that wrote it, so
a digest matches exactly when the run numbers do. Each operation of the
protected section either takes effect, raises before or raises after it
(`Attempt`), and the failure handler's own steps may raise too (`Cleanup`).
**Evidence** is what such a root promises; `ImplementsEvidence` is the
refinement, with `published` mapped to what verification would accept.

**TrainLoop** is what `Train` of the lifecycle does inside: the optimizer steps
with their fault outcomes, the checkpoints that are due, the tracker that keeps a
clone of the best one, the selector that looks at the raw history, and the
reload, binding and export at the end. An adapter state is the number of the step
that produced it (`Partial` and `NonFinite` for what a faulted step leaves), a
metric is a number of hits. The loop publishes nothing: only a run that reaches
`exported` has anything for the lifecycle to publish.

**EvalRecords** is the evidence of one example: the ranking the runtime reports,
the record made of it, the scorer that recomputes the verdict, the validators and
the summary. A log probability is an integer; means are compared by cross
multiplication, so that a tie is a tie. **TrainRecords** puts it into the loop:
each example of a due checkpoint is ranked, recorded and judged, and the selection
is made from the records. It refines TrainLoop, which draws the number of hits
from the air: `TrainRecordsProofs` proves it, and so carries the loop's theorems
over.

**Recipe** is the identity of a training as operators: the mode string as a
sequence of tokens and the functions that seal and strip its suffixes, the recipe
and its validator, the runtime and its contract, the judges that read a
configuration back. **RecipeIdentity** is one run directory through its life:
a launch is refused or trained, exported, perhaps edited or of the older format
(`Drift` and `ExportBeforeWorkspaces`, external), evaluated or refused, and
the validators look at what is there. A configuration is a function from the keys
it has, since what the code does depends on which keys are missing.

**LatentRuntime** holds the instructions a call of the localized runtime is made
of (a layer over a cache, a snapshot, a restore, a switch of the adapters, a head
call) and their effect; **LatentCalls** the methods as programs of them;
**Recurrence** the machine that runs one call after the other, in which every
layer, copy, snapshot and head call may raise and the open scopes then unwind. A
value is the term of what it was computed from, so equal terms mean equal tensors
and a state leaked from an earlier call is visible in every later value. The
arguments a call may have are a set (`CallArguments`) whose members the code may
still refuse, before it does anything (`Accepts`) or half way (the instruction
`raise`); `Executed` is what a program makes of a state when nothing fails. A layer's
cached state is overwritten in place or not (`InPlace`), as linear attention and
full attention do.

**GateEvidence** says what the gate can tell of a report, a checkpoint, an eval
file and the quarantined batch, and what READY is documented to require
(`Proven`). **NoSpendGate** is `main` and `run_gate`: each stage reads the trees as
they are at that moment, others change them (`Change`, external), the decision
joins what the stages read, and the outputs are written one by one.

**EvidenceReader** composes the lifecycle with one `validate_run` that reads
status, manifest, report, checkpoint, the report again and the bundle, one per
step, while the trainer goes on. `shown` is a history variable.

**Driver4b** composes the lifecycle with driver launches, the eval child and the
payload files. The flock is an open file description shared with the children,
so `LockHeld` stays true as long as an orphan lives. The script cannot tell a validator
that finds a flaw from one that is killed or cannot read a file: `Misjudge` is the
second one, one of the bounded faults. `misjudged` and `finished` are histories: the
generation a failing validator has just called invalid, and the one that
ALL_DONE_4B stands for.

**SessionState** holds a session's value and the functions on it (`WithMessage`,
`WithObservation`, `WithAtom`, `Export`, `FromState`, `Loadable`) with the live
session and the object store; **Session** is the machine that saves it in a state
file, **Journal** the machine that logs it. A content stands for a text and its hash; a number that an atom
carries stands for the text it was taken from. `Restore` folds the replayed
lines exactly as `restore()` does, including its choice of the base checkpoint
and the point where it stops. `observe()` takes a number before it counts tokens,
which may raise: `WithSkippedId`, a number no content has and no line tells of.
`own` says that the session goes by a tokenizer_id of its own, which `restore()`
does not pass on. The counter `restore()` and `load()` are given is one that counts.

**Watchdog** is `watch()` with its two loops, the command timeouts and the
provider (`InstanceMoves`, external). Time is counted in ticks of five seconds,
the default poll interval and the timeout of one command; a command may take
any time up to its own. A faulty inventory (`Faulty`) fails, is not parsed, or reads
as an inventory without the entry, as a JSON object without the key does. Volumes
come and go between the two inventories; `blocked` counts the teardown rounds in
which one was listed.

**EvalSuite** is `run_suite` over its cells, the ask/expand loop of
`evaluate_mode`, `Budget.try_spend` and the retry loop of `complete`. A reply is
abstracted to whether it holds EXPAND lines that count. An expansion or the scoring
of the answer may raise (`ExpandRaises`, `ScoringRaises`), which ends the suite
without a report.

The `MC*` modules only name model values, the inputs explored and symmetry sets.
Definitions called `...Without...`, `...Unchecked`, `...OneSlot` and the like that
no action uses are plausible faults: each property comes with one of them, put in
place of the definition that follows it, under which it fails.

How the parts fit: `Recurrence` is what ranks a candidate; `EvalRecords` takes the
ranking; `TrainRecords` is the loop around it and refines `TrainLoop`; `TrainLoop`
is the `Train` step of `TrainLifecycle`; `RecipeIdentity` is the content of what
the lifecycle publishes, with the checks of the same readers; `EvidenceReader` and
`Driver4b` run beside the lifecycle; `NoSpendGate` judges the trees they leave.

## Runs

| run | what it asks | bounds |
|---|---|---|
| `runlock` | at most one process inside until a kill; every contender gets in, is refused or dies | three processes, two kills: one dead holder and two waiters are what a race on a stale lock takes, and a second kill hits the winner |
| `reader` | complete means the latest run's whole generation; a failed run leaves only the fatal mark; a validation never accepts a mix of runs; the lifecycle implements `Evidence` | three runs: the one read first, one that replaces it, one that fails or is killed over both |
| `driver4b` | one worker at a time, a verified generation is moved aside only when the validator has just failed on it, ALL_DONE means one generation, relaunches finish | three launches, two evaluations, five trainings, four faults: a killed driver with an orphan, a failed training, a validator that dies in the launch after ALL_DONE and one more |
| `session` | indexes, references and counters agree over saves, loads of older states and damage; a saved state loads; the recent window stays inline | two contents, three turns, two atoms: enough for a repeat, a load that forgets a content and a new content under the number it had; one skipped number; a masking window of 0, which still holds one observation as the code compares after it appends (session.py:244-246) |
| `journal` | a restart rebuilds the acknowledged session or raises, and raises only for the reasons named; a rollback brings back the turns of its checkpoint; what is restored is sound | four lines besides no more than three turns and one atom, one failed append, one rollback, one skipped number, with and without a tokenizer_id of the session's own |
| `watchdog` | only a reply that leaves the instance out confirms the teardown of one that runs, caps are overrun only by commands in flight, few faults never end unconfirmed, a verdict is reached | a teardown cap of 80 s (16 ticks), a wall deadline of four ticks, five faults: one more than the four rounds that fit in the cap when every command takes its whole time; volumes come and go at any moment |
| `trainloop` | the tracker holds what the selector finds in the raw history; the export is the earliest best of all due checkpoints; honest scores are never refused as evidence, and always by the same verdict whatever the order of the candidates | five steps, a checkpoint every two and after the last, so three checkpoints and every pattern of ties among metrics 0 to 2; a fault at any step; two examples of three candidates whose orders by bytes and by tokens are opposite, with five patterns of scores: the mean decides against the sum, a lower tie, a top tie of all and of two |
| `evalsuite` | calls and requests stay bounded, the default budget refuses no cell, the suite ends, also when an expansion or the scoring raises | two cases, both arms, one expand round, two retries, every budget from 0 to the default |
| `recipe` | only the rounding of alpha stops an export; what was published is usable; what is evaluated is what was trained; a relaunch finds what it preregistered | every combination of the trainer's switches over two spellings of the whole interval, two pairs of rank and alpha (one of which rounds), four layers; two edits of a report, each of one key to every value that means something else to the code, with or without its recipes recomputed: one edit to break a field and one to repair its seal |
| `recurrence` | calls leave no trace; a score depends on its call only; controls carry no recurrence and are matched; the reported compute is the spent one (but for the decoder passes of a bypassed call); the training losses score what the evaluator scores | every configuration the constructor accepts over three layers (two overwritten in place), one and two slots, prompts of two and three tokens, K up to 2, two candidates, every intervention alone and the pairs that matter, two failures within one call: the second one in a cleanup |
| `gate` | READY only over trees that prove everything, at both fingerprints and with this run's inventory and verdicts; trees that prove everything are READY | a 2B run, a live 4B run and its rejected batch, two splits of two examples; every tree that differs from a good one in one file, in every form the gate tells apart, and one more change at any moment of the gate's reading |
| `gate_blockers` | a negative verdict names a blocker (refuted) | as `gate` |

Deadlock checking is off where the system really stops: a lock that was used or
refused, a trainer or a watchdog that ended, a suite that reported, a bound on
lines or runs that is reached.

### Divergences found

One run checks what the repository's own text says and fails:

* `gate_blockers`: NOT_READY comes "with exact blocker codes"
  (`no_spend_gate.py:10`). The quarantine is unproven as soon as a file is only in
  the live tree (1818), and no blocker is added for that: the verdict is NOT_READY
  with an empty list.

The modules state further ones as definitions that no run lists, each violated
when it is added to the module's configuration:

* `MutualExclusion` (RunLock): "Two drivers can never interleave writes"
  (`artifacts.py:4-5`). Two waiters read the same dead pid; the second one's
  unlink (76) removes the lock the first has just taken.
* `AcceptedWasComplete` (EvidenceReader): `verify_generation` accepts only a
  generation "of a COMPLETE run" (`checkpointing.py:434-435`). The status read may
  be the previous run's, the rest a run's that is not marked complete yet.
* `TurnsAreRestorable` (Journal): the journal is "rollback-safe"
  (`journal.py:7`). Turns ingested after a rollback are not what `restore()`
  returns (128).
* `FailureDeclaresNothing` (Watchdog): "A transient inventory failure cannot declare
  success" (`vast_watchdog.py:105`). A reply that is a JSON object without the
  expected key reads as an empty inventory (32), an entry whose id does not parse is
  skipped (41-44): one such reply after the instance was seen, with no volume
  listed, and the monitor ends with `teardown_confirmed` while the instance runs.
  `ConfirmedIsStopped` says how far a confirmation can be trusted: nothing else
  deceives it, and in the teardown not that alone.
* `ConfirmedIsDestroyed` (Watchdog): the watchdog destroys the instance
  (`vast_watchdog.py:4-6`). An instance that exited by itself is confirmed with no
  destroy issued.
* `TrainedIsExported` (RecipeIdentity): what passed the trainer's checks can be
  exported. With alpha 29 and rank 7, `(alpha / r) * r` is not alpha, and
  `adapter_recipe` (`localized.py:1667`) refuses the bundle after the whole
  training.

Further ones of less weight: `DeadHolderRecovery` (RunLock: a
holder killed before its pid was written is never recovered; its absence of a
pid reads as alive), `EscalatedCarriesNoGeneration` (TrainLifecycle: the failure
handler itself may fail and leave a verifying root), `ResumeKeepsMode` (Session:
router signals are not saved), `DamagedStaysInline` (Session: with a missing or
corrupt store "the verbatim text stays inline", `session.py:11-12`; `compile()`
renders `OBSERVATION_UNAVAILABLE` for an object that is missing), `RollbackIsExact` and `CompactKeepsHistory`
(Journal: an atom after a checkpoint comes back with it; numbers older than a
fold restore an empty session), `ConfirmedWithinCap` (Watchdog: the last round
may end after the cap).

One more disagreement shows in a premise of `TrainingScoresAreTheEvaluators`
(Recurrence): with a zeroed or noised state and no delta readout, the losses
restore the prompt's cache (`localized.py:1445-1447`) and the evaluator keeps the
cache of the loop (942-944), while the loss is described as "exactly the
evaluator's mean score" (1419). `latent_run` passes no such control to a loss.

A second one is left out of `ReportIsTrue`: with paired deltas the sealed compute
counts `recurrence_decoder_passes` as two for every effective step (1080-1086), also
under `bypass_interval`, where no decoder pass is made (765-782). No text promises
that figure, so no run refutes it; the passes of all other calls are compared.

And two show as the cases in which `ResumeEqualsLive` lets `restore()` raise over a
sound journal and store: the checkpoint it starts from was written under a
tokenizer_id of the session's own (`journal.py:133` passes none, `session.py:496`
refuses), and a number that a raising token count skipped after that checkpoint
(`session.py:222-229`), so that the replay numbers the next content differently
(`journal.py:142`).

## Fairness

* RunLock: a process that is not killed goes on executing, and its clock runs
  (`DeadlinePasses`). No fairness among contenders is assumed.
* Driver4b: running processes go on; while the work is not done somebody
  launches the driver again (the script is written to be relaunched). Faults and
  kills are never forced and are bounded by `MaxFaults`.
* Watchdog: its process keeps running; nothing is assumed of the provider.
* EvalSuite: the process runs and every request returns within `timeout_s`.

## Proofs

TLAPS checks these for all values of the constants. One proof module stands for
one subject and may cover several of the modules above.

* **RunLockProofs**: `TypeCorrect`, `ExclusionUntilCrash`. The invariant says
  that while nobody has been killed the file at the path belongs to the process
  inside, so no waiter finds a dead pid; one process inside then follows.
* **EvidenceProofs**, the evidence root and all that work beside it:
  * the lifecycle alone: `TypeCorrect`, `CompleteMeansCurrent`,
    `FailureWithdraws`, `Refinement` (every step is one of `Evidence` or a
    stutter). The invariant `Life` fixes for every program position which files
    are already the current run's; without it the mark alone says nothing of the
    files behind it.
  * the reader: `ReaderAcceptsOneGeneration`, `ReaderOnlyLooks`. `RInv` adds that
    a manifest, on disk or in the reader's hands, names files of one run, whatever
    is written, failed or taken back between two reads. `ReaderOnlyLooks` says
    that the composition is still the lifecycle, so its theorems hold there too.
  * the driver: `DriverTypeCorrect`, `OneWorkerAtATime`,
    `AllDoneMeansOneGeneration`, `VerifiedStays`, `CompleteUnderDrivers`. `DInv`
    says that the owner of the lock is the only launch at work and waits for the
    child it has, that what ALL_DONE was printed for stands until a validator fails
    on it, and that what it has found out (nothing published, something
    published, the digest, the payloads up to the current one) is still so when it
    acts on it: that is what the flock inherited by the children is for. It takes
    over from the lifecycle what survives a driver that empties the root between
    two runs, which is why the lifecycle's own property holds under drivers.
* **SessionProofs**: `TypeCorrect`, `OneIdPerContent`, `ReferencesResolve`,
  `ResumeIsPossible`, `RecentAreInline`. The invariant speaks of the session and
  of the saved state alike: a load makes the saved state the session, so both must
  be coherent. `RecentAreInline` follows from it for the first occurrence of an
  observation: a repeat is masked by pointing back, so the first never is.
  * the journal: `RestartLosesNothing`, `RollbackIsFaithful`, `RestoredIsWhole`,
    `JournalTypeCorrect`. `JInv` keeps beside the log the history of the session:
    while no append has raised and nobody continued from a rollback, each line of
    the log tells how one session of the history became the next (`Tells`), and
    every session grows into the later ones (`Grows`). A number that is
    skipped is in no line, so the sessions a replay goes through and those of the
    history agree in all but their counters (`Agree`); what comes after a checkpoint
    has numbers beyond its counter (`Counted`), and a replay gives its numbers one
    after the other (`Tight`), the recorded ones unless one was skipped meanwhile.
    Replaying lines is a trace of
    sessions (`ReplayTrace`); a trace from the checkpoint that `restore()` chooses
    follows the history to its end, or meets an observation whose object is gone.
    `RestoredIsWhole` needs none of that: whatever lines there are, loading checks
    what a checkpoint says and replaying keeps it.
* **BoundsProofs**, the two parts that promise to stay within a bound:
  * the watchdog: `WatchdogTypeCorrect`, `ConfirmationIsSound`, `OverrunIsBounded`,
    `UnconfirmedTakesFaults`. The first invariant relates the reply being judged to
    the instance (an inactive reply stays true, an omitted one is a fault, and a
    destroy that was not accepted another) and bounds how late each position
    can be. The second, `RoundsOK`, is a clock of the teardown: a round that ends
    without a verdict had a fault of its own or found a volume, so the time that has passed is at most
    that of as many rounds as there were faults and listed volumes; a cap that is reached holds at
    least `Rounds` of them.
  * the suite: `SuiteTypeCorrect`, `RequestsAreBounded`, `BoundIsEnough`. A call
    under way is charged and still owes its attempts, and the calls spent stay below
    the room of the cells begun.
* **TrainRecordsProofs**, the training loop and its evidence:
  * the loop: `TypeCorrect`, `TrackerAgrees`, `ExportIsEarliestBest`. The invariant
    says that the history is ordered by step, which makes the selected entry
    unique, that the tracker is that entry, and that the checkpoints due so far are
    exactly the ones evaluated.
  * the loop with records: `ImplementsLoop`, `RecordedTracker`,
    `RecordedExportIsEarliestBest`. Scoring an example is a stutter of the loop,
    closing a checkpoint is the evaluation with the hits that were counted, a
    refusal is the failure of the run. What had to be shown of the records is that
    no summary counts more hits than there are examples.
  * rankings: `HonestEvidence`, `OrderDecidesNothing`. Each of the two orders (by mean, and
    among equal means by bytes in the scorer and by tokens in the runtime) is shown
    to be a strict total order of the candidates, so that counting the predecessors
    of a candidate gives each place exactly once; where no two means are equal the
    two rankings are one, and where some are, the record states the tie and its
    conversion does not ask for more. `EvidenceOK` carries this through a run: each
    record pending or filed is the honest one of its example on that adapter, which
    its own checks accept. For the other theorem the candidates are renamed by a
    bijection, and means, places, leaders and verdict move along.
* **NoSpendGateProofs**: `TypeCorrect`, `ReadyMeansProven`, `ProvenMeansReady`.
  `Readings` compares what each stage found with the first fingerprint: a place
  that differs was changed, and as long as no change is undone it still differs, so
  the second fingerprint shows it. Two lemmas, one per direction, say what the
  decision means over a tree that every stage has seen alike (`ReadySound`,
  `ProvenComplete`). Only `ReadyMeansProven` assumes that no change is undone
  (`~Reverts`); it is the hypothesis under which it is true, as the limits below
  say.
* **RecipeIdentityProofs**: `OnlyRoundingRefuses`, `PublishedCanBeUsed`,
  `EvaluatesTheTraining`, `ResumesThePreregistered`. The lemmas show that the mode
  string with the recipe determines every switch of the training, that stripping
  its suffixes gives back what was sealed, and that a report which any judge
  accepts carries the switches the sealed bundle was trained with. The invariant
  keeps the launch that ran and what of its publication no edit reaches (bundle and
  raw records); configuration and recipes may be edited in any way, any number of
  times.

* **RecurrenceProofs**: `NoTraceIsLeft`, `EveryCallIsAsAlone`, `ScoresStandAlone`,
  `ControlsAreNeutral`, from the invariant `Sound` (`RuntimeInductive`).
  * Programs are typed by the scopes that are open: `Runs(p, x, y)` says that `p`,
    started in scopes `x`, opens and closes them in pairs and ends in `y`; every
    method but the load runs from no scope to no scope, its loops included. `Sound`
    says that the frames on the stack are those of the scopes open (`Within`), so
    whatever raises, and wherever, unwinding them restores switches and windows.
    For a load it says that each tensor has been copied or still will be, and that
    the frame of its try block holds the tensors it came from.
  * A call enters a runtime at rest, which is a fresh one but for the trainables;
    what has been executed of its program is then what a fresh runtime would have
    made of it (`AsAlone`).
  * Two facts give `ScoresStandAlone`. What leads to the readout writes no score
    (`LeadingRuns`). And an answer reads nothing but the restored cache, the state
    that was read and the score it opened, so that two runtimes that agree on these
    answer alike, instruction by instruction (`Alike`, `AnswerRuns`).
  * `ControlsAreNeutral` has two halves. A delta readout: recurrent steps put back
    the cache they work in and change nothing but their context's state (`Recurred`,
    `StepsRecur`); adapters at their initialisation do not even change that, as an
    update with equal branches is none (`PairedWorks`, `SingleWorks`). Zeroed, reset
    or unmoved, the readout is that of the prompt alone (`ControlReads`), and equal
    readouts are answered alike. Recurrence-only adapters: two runtimes that differ
    in their trainables, with the adapters off, stay so through every scope of a
    call without steps (`Twin`, `Twofold`).

### What they assume

The named ASSUMEs of the modules only. Bounds are naturals (`EditBound`,
`GateConstants`, ...); `Proc` and `Driver` contain no reserved value; the caps are
those `watch()` checks (`Caps`); a suite has at least one case; a checkpoint is due
every one or more steps and evaluates at least one example; the gate requires at
least one split of at least one example (`EvidenceConstants`); a launch has the
types `argparse` gives it (`LaunchesTyped`); there is a layer, a prompt has at least
one token, and the calls explored have arguments of their types
(`RuntimeConstants`, `PromptNames`, `RecurrenceConstants`).

`ValidationConstants` describes a validated suite: examples are distinct, each has
two or more candidates that differ by bytes, the gold one among them, and a finite
score for every token of every candidate, at least one. It also asks that the
candidates of an example differ by tokens, which a tokenizer that can be decoded
gives and the code does not check: with equal tokens the runtime falls back to the
order of the list. TLC evaluates it on the suite of the run.

### What is only model-checked

* The liveness properties (`EveryContenderSettles`, `EventuallyDone`,
  `EventuallyJudged`, `SuiteEnds`): fairness and ENABLED are out of the prover's
  reach.
* Three properties of the Recurrence: `ControlsAreMatched`, `ReportIsTrue`,
  `TrainingScoresAreTheEvaluators`. They
  compare what two programs compute (or a program with a formula). With
  `EveryCallIsAsAlone` they no longer depend on the history or on failures: what
  remains is a fact about programs that run once from a fresh runtime, which TLC
  evaluates for every configuration and intervention of the run.

Induction over a range of numbers is done by least counterexample (`FirstOf`, from
the well-foundedness of the naturals), which needs no induction operator. Where a
definition folds over a sequence (a replayed log, a program), a lemma first states
that there is a trace of it (`TraceExists`, `CourseExists`, `JoiningExists`).

Type correctness is proved where a module has proofs and not checked a second time.

## Assumptions and limits

* Writes are atomic replacements, as `atomic_write_bytes` makes them; a power
  loss that undoes a rename is not modelled. `save_adapter_bundle` does not
  fsync.
* Digests do not collide; object files change only by damage.
* `acquire_lock` is used by tests only; the drivers use flock, and `cmd_train`
  takes no lock. The lifecycle therefore runs one trainer per root, which
  `Driver4b` shows for the 4B driver (`OneWorker`).
* Under the flock, `CheckPayload`'s digest comparison always compares with the
  current generation; it decides only for payloads of an earlier one.
* The watchdog's provider never restarts an exited instance. A faulty command takes
  no longer than its timeout and changes nothing but, for a destroy, the instance.
  An instance the inventory has not listed yet and whose
  destruction failed can be taken for gone, hence `seen \/ accepted` in
  `ConfirmedIsStopped`.
* The journal is attached to an empty or restored session. Attaching it later,
  and an atom id that differs on replay, are not modelled.
* The numbers a session skips are bounded by `MaxSkipped` in the runs; the proofs
  hold for every bound.
* A suite whose filter keeps no case is left out.

* NoSpendGate: a change that is undone between the two fingerprints is invisible
  to the gate, which compares contents; `Reverts` = FALSE leaves it out, and with
  TRUE and two changes `ReadyIsProven` fails. The proof tests are an outcome. Files are what the
  gate can tell about their bytes; one retained run per root and one rejected
  copy stand for many.
* Recurrence: the K that the trace and margin losses demand is two instead of
  four (`FixedK`), as no property counts steps beyond two. Failures are bounded
  within one call, not over the lifetime. Opening and closing a guard window
  does not fail, and the rollback of a failed load is one step. Random noise is a
  value of its own. The gradient tape is left out: a training call has the
  values of the forward pass.
* Recipe: settings that no rule couples (learning rate, steps, seed, optimizer)
  are one key; the fields of the runtime contract are those the configuration can
  disagree with. Digests of recipes do not collide, so a recipe is its own digest.
* Records: a log probability is a small integer, so the rounding of `fsum` and
  of the division is not modelled, nor a tie that only rounding makes. Record
  hashes, seals and the lists of record hashes in a summary are left out.
  `ExampleOK` and `ScoresOK` are the checks an example and its scores pass before
  they are recorded; the constants are those that pass them.
  `build_error_record` and `paired_comparison` of `eval_v3.py` are called by tests
  only.

## Not modelled

* `vast_provision.py`: one pass of checks, an offer search, a creation and a
  write of the id. Nothing in it repeats or is shared; what can go wrong is
  between two launches, and is listed as a hazard. Its notion of an inactive
  instance includes the empty status (239-241), the watchdog's does not
  (`vast_watchdog.py:20`).
* `r1_experiment_driver.sh` and the drivers before the 4B one.
* `text_baselines.py`, `corrected_scoring.py`, `metrics.py`: pure functions over
  text and numbers with record formats of their own; the gate's model takes
  their verdicts as evidence.
* Suites, tasks, benchmarks, probes, tools, dictionary encoding, token counting:
  generators, measurements and text transformations without state.
* `gdn_patch.py`, the model, losses and optimizers: tensor arithmetic.
* `recurrence.py` and the toy training around it: a bounded loop over an abstract
  backend that the 4B path does not use.

## Plan

1. Modelled because a wrong step loses evidence, money or the meaning of a
   result: run lock, evidence root with reader and driver, training loop and its
   records, recipe, recurrence, gate, session, journal, watchdog, live evaluation.
   Done.
2. Proofs: every safety property of a run is a theorem except the three of the
   Recurrence named above. Next among them: `ControlsAreMatched`, as `ControlReads`
   gives the cache an answer reads; what is left is to count layers by program.
3. Then, if worth a run: provisioning with the watchdog's provider, attaching a
   journal to a session that has turns, the R1 driver's plan and resume.
