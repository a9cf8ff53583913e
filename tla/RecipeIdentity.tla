--------------------------- MODULE RecipeIdentity ---------------------------
(***************************************************************************)
(* One training from its command line to its evaluation: the trainer       *)
(* checks its switches, builds the runtime, seals the configuration,       *)
(* trains, mints the bundle and publishes; the report may then drift or    *)
(* come from before multi-slot support; eval rebuilds a runtime from it,   *)
(* and the validators judge the run and the eval payload.                  *)
(***************************************************************************)
EXTENDS Recipe

CONSTANTS Launches,       \* command lines: records of the trainer's switches
          EvalRequests,   \* pairs <<K, ablation>> asked of eval
          DriftValues(_), \* values a key of a drifted configuration may take
          MaxEdits        \* bound: edits of one published report

ASSUME EditBound == MaxEdits \in Nat
ASSUME LaunchesTyped ==
  Launches \subseteq
    [spec : {"full", "mid", "head", "0,n"}, k : Int, max_k : Int, lora_r : Int,
     lora_alpha : Int, training : STRING, objective : {"gold_nll"} \cup SealedObjectives,
     ro : BOOLEAN, neutral : BOOLEAN, paired : BOOLEAN, trace : BOOLEAN, slots : Int]

VARIABLES stage,     \* where the training is
          trained,   \* the switches, runtime and loss it ran with
          cfg,       \* the trainer's configuration in memory
          disk,      \* the published report, manifest, bundle and raw records
          payload,   \* the eval payload and the runtime it was measured on
          edits
vars == <<stage, trained, cfg, disk, payload, edits>>

None == <<>>

----------------------------------------------------------------------------
(* The trainer.                                                            *)

\* The switches as the trainer reads them: the deltas imply recurrence-only.
Effective(a) == [a EXCEPT !.neutral = @ \/ a.paired, !.ro = @ \/ a.neutral \/ a.paired]

TrainerAccepts(a) ==
  LET e == Effective(a)
  IN  /\ e.neutral => a.spec = "full"
      /\ Coupled(a, a.spec = "full")
      /\ e.ro => a.k # 0

RuntimeOf(a) ==
  LET e == Effective(a)
  IN  Runtime(IntervalFromSpec(a.spec), a.max_k, a.lora_r, a.lora_alpha,
              e.ro, e.neutral, a.paired, a.slots)

\* The method each training example is dispatched to.
LossOf(objective, trace) ==
  CASE objective = "counterfactual_margin" -> "margin"
    [] objective = "candidate_ce" -> IF trace THEN "traced candidate_ce" ELSE "candidate_ce"
    [] OTHER -> "nll"

ConfigOf(a, rt) ==
  LET e == Effective(a)
  IN  [mode |-> ModeFromSpec(e), interval |-> rt.interval, k |-> a.k, max_k |-> a.max_k,
       lora_r |-> a.lora_r, lora_alpha |-> a.lora_alpha, training |-> a.training,
       training_objective |-> a.objective, recurrence_only_lora |-> e.ro,
       neutral_delta |-> e.neutral, paired_delta |-> a.paired, trace_curriculum |-> a.trace,
       workspace_slots |-> a.slots, workspace_layout |-> Layout,
       runtime_contract |-> RuntimeContract(rt)]

\* Everything that can refuse happens before the first step.
Starts(a) == /\ TrainerAccepts(a) /\ Constructible(RuntimeOf(a))
             /\ LET c == ConfigOf(a, RuntimeOf(a)) IN HasRecipe(c) /\ Judged(c)

Train(a) ==
  /\ stage = "idle" /\ Starts(a)
  /\ stage' = "trained"
  /\ trained' = [args |-> a, rt |-> RuntimeOf(a), loss |-> LossOf(a.objective, a.trace)]
  /\ cfg' = ConfigOf(a, RuntimeOf(a))
  /\ UNCHANGED <<disk, payload, edits>>

RefuseTraining(a) ==
  /\ stage = "idle" /\ ~Starts(a)
  /\ stage' = "refused"
  /\ UNCHANGED <<trained, cfg, disk, payload, edits>>

Published(c, slots) ==
  [config |-> c, report |-> Recipe(c), manifest |-> Recipe(c), bundle |-> Recipe(c),
   raw |-> [recipe |-> Recipe(c), recurrence |-> RecurrenceConfig(c), compute |-> slots]]

\* The best state is minted into a bundle, report and manifest follow.
Export ==
  /\ stage = "trained"
  /\ IF AdapterRecipeAccepts(trained.rt, cfg)
     THEN stage' = "published" /\ disk' = Published(cfg, trained.rt.slots)
     ELSE stage' = "unexported" /\ UNCHANGED disk
  /\ UNCHANGED <<trained, cfg, payload, edits>>

\* External: one-slot runs published before configurations named a workspace.
\* Their records measured no workspace.
LegacyConfig(rt, c) ==
  LET old == Without(c, WorkspaceKeys)
  IN  With(old, "runtime_contract", RuntimeContractForConfig(rt, old))
ExportBeforeWorkspaces ==
  /\ stage = "trained" /\ trained.rt.slots = 1
  /\ trained.rt.lora_alpha = RuntimeAlpha(trained.rt)
  /\ stage' = "published"
  /\ disk' = Published(LegacyConfig(trained.rt, cfg), 0)
  /\ UNCHANGED <<trained, cfg, payload, edits>>

\* External: the configuration on disk is changed in one key, and the recipes
\* beside it may be recomputed to agree with it.  The bundle is sealed by its
\* digest and the raw records by the history's.
Drift ==
  /\ stage = "published" /\ edits < MaxEdits
  /\ \E key \in DOMAIN disk.config, relabelled \in BOOLEAN :
       \E c \in {Without(disk.config, {key})}
                \cup {With(disk.config, key, v) : v \in DriftValues(key)} :
         /\ c # disk.config
         /\ relabelled => HasRecipe(c)
         /\ disk' = IF relabelled
                    THEN [disk EXCEPT !.config = c, !.report = Recipe(c), !.manifest = Recipe(c)]
                    ELSE [disk EXCEPT !.config = c]
  /\ edits' = edits + 1
  /\ UNCHANGED <<stage, trained, cfg, payload>>

----------------------------------------------------------------------------
(* Eval.                                                                   *)

\* mutant: the workspace is not handed to the constructor
RuntimeFromOneSlot(c) ==
  Runtime(c.interval, c.max_k, c.lora_r, c.lora_alpha, On(c, "recurrence_only_lora"),
          On(c, "neutral_delta"), On(c, "paired_delta"), 1)
RuntimeFrom(c) ==
  Runtime(c.interval, c.max_k, c.lora_r, c.lora_alpha, On(c, "recurrence_only_lora"),
          On(c, "neutral_delta"), On(c, "paired_delta"), Slots(c))

\* The bundle names a recipe of its own, and it must be the one asked for.
BundleLoads(d, recipe) == ValidRecipe(d.bundle) /\ d.bundle = recipe

\* The validation records that selected the checkpoint name recipe and recurrence.
SelectedFromRaw(d, c) == d.raw.recipe = Recipe(c) /\ d.raw.recurrence = RecurrenceConfig(c)

EvalAccepts(d) ==
  LET c == d.config
  IN  /\ Judged(c) /\ HasRecipe(c)
      /\ d.report = Recipe(c) /\ d.manifest = Recipe(c)
      /\ SelectedFromRaw(d, c) /\ BundleLoads(d, Recipe(c))
      /\ Constructible(RuntimeFrom(c))
      /\ HasContract(c) => Contract(c) = RuntimeContractForConfig(RuntimeFrom(c), c)

Ablation(name, k) ==
  CASE name = "clean" -> [none |-> TRUE]
    [] name = "truncate_half" -> [truncate_k |-> k \div 2]
    [] OTHER -> [x \in {name} |-> TRUE]

\* The result of an eval is kept under its label; its records carry K and
\* the ablation they were measured with.
Result(c, k, name) ==
  [k |-> k, ablate |-> Ablation(name, k), tag |-> <<c.mode, name, k>>,
   records |-> [k |-> k, ablation |-> Ablation(name, k)]]

Payload(d, rt, k, name) ==
  [config |-> d.config, recipe |-> Recipe(d.config),
   recurrence |-> RecurrenceConfig(d.config), compute |-> rt.slots,
   identity |-> [interval |-> rt.interval, max_k |-> d.config.max_k, k |-> k, ablation |-> name],
   results |-> [label \in {name} |-> Result(d.config, k, name)], rt |-> rt,
   loss |-> LossOf(Objective(d.config), On(d.config, "trace_curriculum"))]

Evaluate(k, name) ==
  /\ stage = "published" /\ EvalAccepts(disk)
  /\ 0 <= k /\ k <= disk.config.max_k
  /\ stage' = "evaluated"
  /\ payload' = Payload(disk, RuntimeFrom(disk.config), k, name)
  /\ UNCHANGED <<trained, cfg, disk, edits>>

RefuseEval ==
  /\ stage = "published" /\ ~EvalAccepts(disk)
  /\ stage' = "refused"
  /\ UNCHANGED <<trained, cfg, disk, payload, edits>>

----------------------------------------------------------------------------
(* The artifact validators.                                                *)

WorkspaceBound(c, recipe, record) ==
  /\ record.recipe = recipe
  /\ IF "workspace_slots" \in DOMAIN c
     THEN /\ Get(record.recurrence, "workspace_slots", 0) = Slots(c)
          /\ record.compute = Slots(c)
     ELSE /\ "workspace_slots" \notin DOMAIN record.recurrence
          /\ record.compute \in {0, 1}         \* 0: not measured

\* A run on its own, then against the digest a driver preregistered.
RunIsSound(d) ==
  LET c == d.config
  IN  /\ Judged(c) /\ HasRecipe(c)
      /\ d.report = Recipe(c) /\ d.manifest = Recipe(c) /\ BundleLoads(d, Recipe(c))
      /\ WorkspaceBound(c, Recipe(c), d.raw)
ValidateRun(d, expected) == RunIsSound(d) /\ Recipe(d.config) = expected

\* The configuration, the result and its records repeat the identity.  The
\* configuration's K is the training's and may differ.
IdentityAgrees(p) ==
  p.config.interval = p.identity.interval /\ p.config.max_k = p.identity.max_k
SelectedResultAgrees(p) ==
  /\ DOMAIN p.results = {p.identity.ablation}
  /\ LET res == p.results[p.identity.ablation]
     IN  /\ res.k = p.identity.k
         /\ res.ablate = Ablation(p.identity.ablation, p.identity.k)
         /\ <<res.tag[2], res.tag[3]>> = <<p.identity.ablation, p.identity.k>>
RecordsAgree(p, res) == res.records = [k |-> p.identity.k, ablation |-> res.ablate]

ValidateEval(p) ==
  /\ IdentityAgrees(p)
  /\ HasRecipe(p.config)
  /\ \A label \in DOMAIN p.results : RecordsAgree(p, p.results[label])
  /\ WorkspaceBound(p.config, Recipe(p.config), p)
  /\ SelectedResultAgrees(p)

----------------------------------------------------------------------------
Init ==
  /\ stage = "idle" /\ trained = None /\ cfg = None
  /\ disk = None /\ payload = None /\ edits = 0

Next ==
  \/ \E a \in Launches : Train(a) \/ RefuseTraining(a)
  \/ Export \/ ExportBeforeWorkspaces \/ Drift
  \/ \E q \in EvalRequests : Evaluate(q[1], q[2])
  \/ RefuseEval

Spec == Init /\ [][Next]_vars

----------------------------------------------------------------------------
(* A training that passed its checks ends in a published run: the bundle   *)
(* is refused at the end for one reason only, an alpha that the rounding   *)
(* of alpha / r does not give back (localized.py:1667).                    *)
OnlyRoundingStopsAnExport ==
  stage = "unexported" => <<trained.rt.lora_alpha, trained.rt.lora_r>> \in Inexact

(* What was published and not touched, new or legacy, can be evaluated,    *)
(* and the payload eval writes is one its own validator accepts.           *)
PublishedIsUsable ==
  /\ stage = "published" /\ edits = 0 => EvalAccepts(disk)
  /\ stage = "evaluated" => ValidateEval(payload)

(* Whatever drifted, an adapter that eval accepts is run on the runtime it *)
(* was trained on and reported under the objective it was trained for.     *)
EvaluatedIsTrained ==
  stage = "evaluated" => payload.rt = trained.rt /\ payload.loss = trained.loss

(* A driver that relaunches the command line of a published run finds its  *)
(* preregistered digest in it, and a run it accepts was trained with the   *)
(* switches it would train with, the spelling of the interval included.    *)
DigestOf(a) == TrainRecipe(<<BaseMode(a.spec, a.k)>>, Effective(a))
Runnable == {a \in Launches : Starts(a)}
Preregistered == [a \in Runnable |-> DigestOf(a)]

ResumedIsPreregistered ==
  stage = "published" =>
    /\ edits = 0 /\ "workspace_slots" \in DOMAIN disk.config =>
         ValidateRun(disk, Preregistered[trained.args])
    /\ RunIsSound(disk) =>
         \A a \in Runnable : ValidateRun(disk, Preregistered[a]) =>
           /\ ConfigOf(a, RuntimeOf(a)) = cfg
           /\ RuntimeOf(a) = trained.rt

(* A training that passed its checks can be published (refuted: rounding). *)
TrainedIsExported == stage # "unexported"
=============================================================================
