------------------------------- MODULE Recipe -------------------------------
(***************************************************************************)
(* The identity of a training: the mode string that seals its switches,    *)
(* the recipe and its digest, the runtime's contract, and the judges that  *)
(* read a configuration back.  A mode is the sequence of its tokens, a     *)
(* configuration is a function from the keys it has; fields that no rule   *)
(* couples (lr, steps, seed, optimizer, ...) are one key, "training".      *)
(***************************************************************************)
EXTENDS Integers, FiniteSets, SequencesExt

CONSTANTS NLayers,    \* decoder layers of the model
          Inexact     \* pairs <<alpha, r>> with (alpha / r) * r # alpha in floats

ASSUME RecipeConstants == NLayers \in Nat \ {0} /\ Inexact \subseteq Nat \X Nat

----------------------------------------------------------------------------
(* Modes.                                                                  *)

RecurrenceOnly == "recurrence-only-lora"
Neutral == "neutral-delta"
Paired == "paired-delta"
Trace == "trace-curriculum"
SealedObjectives == {"candidate_ce", "counterfactual_margin"}
Layout == "causal_last_slot_readout"

Refused == <<>>     \* what a sealing function yields when it raises

Count(m, t) == Cardinality({i \in DOMAIN m : m[i] = t})
Ends(m, t) == m # <<>> /\ m[Len(m)] = t
Strip(m, t) == IF Ends(m, t) THEN Front(m) ELSE m
Malformed(m, t) == Count(m, t) > 1 \/ (Count(m, t) = 1 /\ ~Ends(m, t))

ObjectivesOf(m) == {o \in SealedObjectives : Count(m, o) = 1 /\ Ends(m, o)}
ObjectiveClean(m) == \A o \in SealedObjectives : ~Malformed(m, o)
\* The mode without its policy and objective suffixes, and those suffixes.
Core(m) == LET b == Strip(m, RecurrenceOnly)
           IN  IF ObjectivesOf(b) = {} THEN b ELSE Front(b)
SealedTail(m) == SubSeq(m, Len(Core(m)) + 1, Len(m))

AdapterPolicyMode(m, ro) ==
  IF m = Refused \/ (~ro /\ Ends(m, RecurrenceOnly)) THEN Refused
  ELSE IF ro /\ ~Ends(m, RecurrenceOnly) THEN Append(m, RecurrenceOnly) ELSE m

TrainingObjectiveMode(m, objective) ==
  LET b == Strip(m, RecurrenceOnly)
      have == ObjectivesOf(b)
  IN  IF m = Refused \/ ~ObjectiveClean(b) \/ have \notin {{}, {objective}} THEN Refused
      ELSE IF have = {} /\ objective # "gold_nll"
           THEN b \o <<objective>> \o SubSeq(m, Len(b) + 1, Len(m)) ELSE m

\* Seal switch t, which belongs right after the given base.
SealSlot(m, t, base, on) ==
  LET core == Core(m)
  IN  IF \/ m = Refused \/ Malformed(m, RecurrenceOnly)
         \/ ~ObjectiveClean(Strip(m, RecurrenceOnly)) \/ Malformed(core, t)
         \/ IF on THEN Strip(core, t) # base ELSE Count(core, t) > 0
      THEN Refused
      ELSE IF on THEN base \o <<t>> \o SealedTail(m) ELSE m

NeutralDeltaMode(m, on) == SealSlot(m, Neutral, <<"D-full">>, on)
PairedDeltaMode(m, on) == IF Count(Core(m), Neutral) > 0 THEN Refused
                          ELSE SealSlot(m, Paired, <<"D-full">>, on)
TraceCurriculumMode(m, on) == SealSlot(m, Trace, <<"D-full", Paired>>, on)

\* paired delta brings the neutral readout and the adapter policy with it
Implied(a) == [a EXCEPT !.neutral = @ \/ a.paired, !.ro = @ \/ a.paired]

SealMode(base, a) ==
  LET architecture == IF a.paired THEN PairedDeltaMode(base, TRUE)
                      ELSE NeutralDeltaMode(base, a.neutral)
  IN  AdapterPolicyMode(
        TrainingObjectiveMode(TraceCurriculumMode(architecture, a.trace), a.objective), a.ro)

\* The combinations of switches that trainer, mode and digest all insist on.
Coupled(a, full) ==
  /\ a.paired => a.objective \in SealedObjectives
  /\ a.slots > 1 => /\ a.paired /\ a.objective = "counterfactual_margin"
                    /\ ~a.trace /\ a.k = 4 /\ full
  /\ a.objective = "counterfactual_margin" => a.paired /\ a.k = 4 /\ ~a.trace
  /\ a.trace => a.paired /\ a.k = 4 /\ a.objective = "candidate_ce"

BaseMode(spec, k) == IF spec = "full" THEN "D-full"
                     ELSE IF k = 0 THEN "F-control" ELSE "E-localized"

ModeFromSpec(a) ==
  LET e == Implied(a)
  IN  IF Coupled(e, a.spec = "full") /\ (e.neutral => a.spec = "full" /\ e.ro)
      THEN SealMode(<<BaseMode(a.spec, a.k)>>, e) ELSE Refused

IntervalFromSpec(spec) ==
  CASE spec = "full" -> <<0, NLayers>>
    [] spec = "mid"  -> <<NLayers \div 2, (NLayers * 3) \div 4>>
    [] spec = "head" -> <<(NLayers * 3) \div 4, NLayers>>
    [] spec = "0,n"  -> <<0, NLayers>>          \* written out as 'lo,hi'

----------------------------------------------------------------------------
(* Recipes: the canonical fields of a configuration.  The digest binds     *)
(* exactly these, so equal digests are equal recipes.                      *)

Get(c, key, default) == IF key \in DOMAIN c THEN c[key] ELSE default
Without(c, keys) == [key \in DOMAIN c \ keys |-> c[key]]
With(c, key, v) == [x \in DOMAIN c \cup {key} |-> IF x = key THEN v ELSE c[x]]
WithIf(c, condition, key, v) == IF condition THEN With(c, key, v) ELSE c

LegacyRecipeKeys == {"mode", "interval", "k", "max_k", "lora_r", "lora_alpha", "training"}
WorkspaceKeys == {"workspace_slots", "workspace_layout"}

HasRecipe(c) ==
  /\ LegacyRecipeKeys \subseteq DOMAIN c
  /\ c.mode # <<>> /\ 0 <= c.interval[1] /\ c.interval[1] < c.interval[2]
  /\ c.k >= 0 /\ c.max_k >= 1 /\ c.lora_r >= 1 /\ c.lora_alpha > 0
  /\ WorkspaceKeys \cap DOMAIN c \in {{}, WorkspaceKeys}
  /\ "workspace_slots" \in DOMAIN c => c.workspace_slots >= 1 /\ c.workspace_layout = Layout
Recipe(c) == [key \in (LegacyRecipeKeys \cup WorkspaceKeys) \cap DOMAIN c |-> c[key]]

\* A recipe read back from a file has one of the two schemas, no key more.
ValidRecipe(r) ==
  /\ DOMAIN r \in {LegacyRecipeKeys, LegacyRecipeKeys \cup WorkspaceKeys}
  /\ HasRecipe(r)

\* mutant: the digest helper never learned of the workspace
TrainRecipeOneSlot(mode, a) ==
  LET e == Implied(a)
      c == [mode |-> SealMode(mode, e), interval |-> IntervalFromSpec(a.spec), k |-> a.k,
            max_k |-> a.max_k, lora_r |-> a.lora_r, lora_alpha |-> a.lora_alpha,
            training |-> a.training, workspace_slots |-> 1, workspace_layout |-> Layout]
  IN  IF HasRecipe(c) THEN Recipe(c) ELSE <<>>
\* The recipe whose digest a driver preregisters for switches a (empty: it raises).
TrainRecipe(mode, a) ==
  LET e == Implied(a)
      sealed == IF Coupled(e, IntervalFromSpec(a.spec)[1] = 0) /\ (e.neutral => e.ro)
                THEN SealMode(mode, e) ELSE Refused
      c == [mode |-> sealed, interval |-> IntervalFromSpec(a.spec), k |-> a.k,
            max_k |-> a.max_k, lora_r |-> a.lora_r, lora_alpha |-> a.lora_alpha,
            training |-> a.training, workspace_slots |-> a.slots, workspace_layout |-> Layout]
  IN  IF HasRecipe(c) THEN Recipe(c) ELSE <<>>

----------------------------------------------------------------------------
(* The runtime and its contract.                                           *)

Runtime(interval, max_k, r, alpha, ro, neutral, paired, slots) ==
  [interval |-> interval, max_k |-> max_k, lora_r |-> r, lora_alpha |-> alpha, ro |-> ro,
   neutral |-> neutral \/ paired, paired |-> paired, slots |-> slots]

Constructible(rt) ==
  /\ 0 <= rt.interval[1] /\ rt.interval[1] < rt.interval[2] /\ rt.interval[2] <= NLayers
  /\ rt.neutral => rt.interval = <<0, NLayers>> /\ rt.ro
  /\ rt.slots >= 1 /\ (rt.slots > 1 => rt.paired)

\* The adapter stores scaling = alpha / r; the product is what it claims as alpha.
RuntimeAlpha(rt) == IF <<rt.lora_alpha, rt.lora_r>> \in Inexact THEN 0 ELSE rt.lora_alpha

\* Of the contract: the fields that follow from the adapter policy, the
\* readout, the step clock, the pairing and the workspace, one each.
RuntimeContract(rt) ==
  WithIf([version |-> IF rt.paired THEN "paired.workspace.v1" ELSE "v6",
          recurrence_only |-> rt.ro, neutral_delta |-> rt.neutral, max_k |-> rt.max_k,
          workspace_slots |-> rt.slots], rt.paired, "paired_delta", TRUE)

\* mutant: every configuration gets the one-slot form
ContractAlwaysLegacy(rt, c) ==
  With(Without(RuntimeContract(rt), {"workspace_slots"}), "version",
       IF rt.paired THEN "paired.v1" ELSE "v5")
RuntimeContractForConfig(rt, c) ==
  IF WorkspaceKeys \cap DOMAIN c # {} THEN RuntimeContract(rt)
  ELSE With(Without(RuntimeContract(rt), {"workspace_slots"}), "version",
            IF rt.paired THEN "paired.v1" ELSE "v5")

----------------------------------------------------------------------------
(* The judges: each reads one switch back and holds it against the mode,   *)
(* the other switches and the contract.                                    *)

Objective(c) == Get(c, "training_objective", "gold_nll")
On(c, switch) == Get(c, switch, FALSE)
HasContract(c) == "runtime_contract" \in DOMAIN c
Contract(c) == Get(c, "runtime_contract", <<>>)

\* mutant: only the order of the suffixes is judged
ObjectiveInOrder(c) == ObjectiveClean(Strip(c.mode, RecurrenceOnly))
ObjectiveSealed(c) ==
  LET m == Strip(c.mode, RecurrenceOnly)
  IN  ObjectiveClean(m) /\ ObjectivesOf(m) = {Objective(c)} \ {"gold_nll"}

PolicySealed(c) ==
  LET ro == On(c, "recurrence_only_lora")
  IN  /\ ro \in BOOLEAN
      /\ c.mode = AdapterPolicyMode(Strip(c.mode, RecurrenceOnly), ro)
      /\ ro => HasContract(c)
      /\ HasContract(c) => Get(Contract(c), "recurrence_only", ~ro) = ro

\* The switches of the architecture slot: under a trace suffix, if there is one.
Architecture(m) == Strip(Core(m), Trace)
FullInterval(c) == "interval" \in DOMAIN c /\ c.interval[1] = 0

NeutralSealed(c) ==
  LET core == Architecture(c.mode)
  IN  /\ ObjectiveClean(Strip(c.mode, RecurrenceOnly)) /\ ~Malformed(Core(c.mode), Trace)
      /\ ~Malformed(core, Neutral) /\ ~Malformed(core, Paired)
      /\ ~(Count(core, Neutral) > 0 /\ Count(core, Paired) > 0)
      /\ On(c, "neutral_delta") = (Ends(core, Neutral) \/ Ends(core, Paired))
      /\ On(c, "neutral_delta") => /\ On(c, "recurrence_only_lora") /\ FullInterval(c)
                                   /\ Front(core) = <<"D-full">>

PairedSealed(c) ==
  LET core == Architecture(c.mode)
  IN  /\ ~Malformed(core, Paired)
      /\ On(c, "paired_delta") = Ends(core, Paired)
      /\ On(c, "paired_delta") =>
           /\ ObjectiveSealed(c) /\ Objective(c) \in SealedObjectives
           /\ On(c, "neutral_delta") /\ On(c, "recurrence_only_lora")
           /\ Front(core) = <<"D-full">> /\ FullInterval(c)
           /\ Get(Contract(c), "paired_delta", FALSE) /\ Get(Contract(c), "neutral_delta", FALSE)

TraceSealed(c) ==
  /\ On(c, "trace_curriculum") = Ends(Core(c.mode), Trace)
  /\ On(c, "trace_curriculum") =>
       /\ On(c, "paired_delta") /\ On(c, "neutral_delta") /\ On(c, "recurrence_only_lora")
       /\ Objective(c) = "candidate_ce" /\ Get(c, "k", 0) = 4
       /\ Architecture(c.mode) = <<"D-full", Paired>>

NoTrace(c) == ~Get(c, "trace_curriculum", TRUE)     \* written down as off

MarginSealed(c) ==
  Objective(c) = "counterfactual_margin" =>
    /\ On(c, "paired_delta") /\ On(c, "neutral_delta") /\ On(c, "recurrence_only_lora")
    /\ Get(c, "k", 0) = 4 /\ NoTrace(c)

Slots(c) == Get(c, "workspace_slots", 1)
SlotsSealed(c) ==
  LET contract == Contract(c)
  IN  CASE WorkspaceKeys \cap DOMAIN c = {} -> "workspace_slots" \notin DOMAIN contract
        [] WorkspaceKeys \subseteq DOMAIN c ->
             /\ Slots(c) >= 1 /\ c.workspace_layout = Layout
             /\ Slots(c) > 1 => /\ On(c, "paired_delta") /\ NoTrace(c)
                                /\ Objective(c) = "counterfactual_margin" /\ Get(c, "k", 0) = 4
             /\ HasContract(c) => Get(contract, "workspace_slots", 0) = Slots(c)
        [] OTHER -> FALSE

Judged(c) ==
  /\ "mode" \in DOMAIN c
  /\ ObjectiveSealed(c) /\ PolicySealed(c) /\ NeutralSealed(c) /\ PairedSealed(c)
  /\ TraceSealed(c) /\ MarginSealed(c) /\ SlotsSealed(c)

\* What the v3 records carry of the recurrence.
RecurrenceConfig(c) ==
  LET always == [mode |-> c.mode, interval |-> c.interval, trained_k |-> c.k,
                 max_k |-> c.max_k, lora_r |-> c.lora_r, lora_alpha |-> c.lora_alpha,
                 recurrence_only_lora |-> On(c, "recurrence_only_lora"),
                 neutral_delta |-> On(c, "neutral_delta")]
      paired == WithIf(always, On(c, "paired_delta"), "paired_delta", TRUE)
      traced == WithIf(paired, On(c, "trace_curriculum"), "trace_curriculum", TRUE)
  IN  WithIf(traced, "workspace_slots" \in DOMAIN c, "workspace_slots", Slots(c))

----------------------------------------------------------------------------
(* Minting a bundle: the claims of the configuration against the runtime.  *)

\* What the configuration claims is what its mode seals, and goes together.
ClaimsSealed(c) ==
  LET ro == On(c, "recurrence_only_lora")
      neutral == On(c, "neutral_delta")
      paired == On(c, "paired_delta")
      trace == On(c, "trace_curriculum")
      core == Core(c.mode)
      slot == Architecture(c.mode)
  IN  /\ ObjectiveSealed(c)
      /\ ~Malformed(core, Trace) /\ ~Malformed(slot, Neutral) /\ ~Malformed(slot, Paired)
      /\ ~(Count(slot, Neutral) > 0 /\ Count(slot, Paired) > 0)
      /\ ro = Ends(c.mode, RecurrenceOnly)
      /\ neutral = (Ends(slot, Neutral) \/ Ends(slot, Paired))
      /\ paired = Ends(slot, Paired)
      /\ trace = Ends(core, Trace)
      /\ neutral => ro
      /\ paired => neutral /\ Objective(c) \in SealedObjectives
      /\ trace => paired /\ Objective(c) = "candidate_ce" /\ c.k = 4
      /\ Objective(c) = "counterfactual_margin" => paired /\ c.k = 4 /\ ~trace
      /\ Slots(c) > 1 => paired /\ Objective(c) = "counterfactual_margin" /\ ~trace

\* ... and is what the runtime was built with.
ClaimsAreTheRuntimes(rt, c) ==
  /\ On(c, "recurrence_only_lora") = rt.ro /\ On(c, "neutral_delta") = rt.neutral
  /\ On(c, "paired_delta") = rt.paired /\ Slots(c) = rt.slots
  /\ On(c, "neutral_delta") => rt.interval = <<0, NLayers>>
  /\ rt.ro => HasContract(c)
  /\ HasContract(c) => Contract(c) = RuntimeContractForConfig(rt, c)
  /\ c.interval = rt.interval /\ c.max_k = rt.max_k /\ c.lora_r = rt.lora_r
  /\ c.lora_alpha = RuntimeAlpha(rt)

AdapterRecipeAccepts(rt, c) == HasRecipe(c) /\ ClaimsSealed(c) /\ ClaimsAreTheRuntimes(rt, c)
=============================================================================
