------------------------ MODULE RecipeIdentityProofs -------------------------
(***************************************************************************)
(* A training keeps its identity from the command line to the evaluation.  *)
(* All of it rests on one fact: the mode seals the switches, so that two   *)
(* configurations that both pass the judges and have the same mode agree   *)
(* in every switch, and a recipe, which holds the mode, in the rest.       *)
(***************************************************************************)
EXTENDS RecipeIdentity, SequenceTheorems, TLAPS

-----------------------------------------------------------------------------
(* Modes are sequences of tokens.                                          *)

Tokens == {"D-full", "E-localized", "F-control", "gold_nll",
           RecurrenceOnly, Neutral, Paired, Trace} \cup SealedObjectives
Modes == Seq(Tokens)

LEMMA FrontOfMode ==
  ASSUME NEW m \in Modes, m # <<>>
  PROVE  Front(m) \in Modes /\ Len(Front(m)) = Len(m) - 1
<1>1. Len(m) \in Nat /\ Len(m) >= 1
  BY DEF Modes
<1>2. \A i \in 1 .. Len(m) - 1 : m[i] \in Tokens
  BY DEF Modes
<1>3. /\ SubSeq(m, 1, Len(m) - 1) \in Seq(Tokens)
      /\ Len(SubSeq(m, 1, Len(m) - 1)) = IF 1 <= Len(m) - 1 THEN (Len(m) - 1) - 1 + 1 ELSE 0
  <2>1. /\ 1 \in 1 .. Len(m) + 1 /\ Len(m) - 1 \in 0 .. Len(m) /\ m \in Seq(Tokens)
    BY <1>1 DEF Modes
  <2> QED
    BY <2>1, SubSeqProperties
<1>4. Front(m) = SubSeq(m, 1, Len(m) - 1)
  BY DEF Front
<1>5. \A n \in Nat : n >= 1 => (IF 1 <= n - 1 THEN (n - 1) - 1 + 1 ELSE 0) = n - 1
  OBVIOUS
<1> QED
  BY <1>1, <1>3, <1>4, <1>5 DEF Modes

LEMMA StripOfMode ==
  ASSUME NEW m \in Modes, NEW t
  PROVE  Strip(m, t) \in Modes /\ Len(Strip(m, t)) \in 0 .. Len(m)
<1>1. Len(m) \in Nat
  BY DEF Modes
<1>2. CASE Ends(m, t)
  <2>1. m # <<>> /\ Len(m) # 0
    BY <1>2 DEF Ends, Modes
  <2> QED
    BY <2>1, <1>1, <1>2, FrontOfMode DEF Strip
<1>3. CASE ~Ends(m, t)
  BY <1>1, <1>3 DEF Strip
<1> QED
  BY <1>2, <1>3

(* The end of a mode, from any place.                                      *)
LEMMA TailOfMode ==
  ASSUME NEW m \in Modes, NEW b \in Modes, Len(b) \in 0 .. Len(m)
  PROVE  SubSeq(m, Len(b) + 1, Len(m)) \in Modes
<1>1. Len(b) + 1 \in 1 .. Len(m) + 1 /\ Len(m) \in 0 .. Len(m)
  BY DEF Modes
<1> QED
  BY <1>1, SubSeqProperties DEF Modes

LEMMA CoreOfMode ==
  ASSUME NEW m \in Modes
  PROVE  Core(m) \in Modes /\ Len(Core(m)) \in 0 .. Len(m)
<1> DEFINE b == Strip(m, RecurrenceOnly)
<1>1. b \in Modes /\ Len(b) \in 0 .. Len(m) /\ Len(m) \in Nat
  BY StripOfMode DEF Modes
<1>2. CASE ObjectivesOf(b) = {}
  BY <1>1, <1>2 DEF Core
<1>3. CASE ObjectivesOf(b) # {}
  <2>1. b # <<>>
    BY <1>3 DEF ObjectivesOf, Ends
  <2>2. Front(b) \in Modes /\ Len(Front(b)) = Len(b) - 1 /\ Len(b) # 0
    BY <1>1, <2>1, FrontOfMode DEF Modes
  <2>3. Core(m) = Front(b)
    BY <1>3 DEF Core
  <2> HIDE DEF b
  <2> QED
    BY <1>1, <2>2, <2>3
<1> QED
  BY <1>2, <1>3

LEMMA SealedSlotIsMode ==
  ASSUME NEW m \in Modes, NEW t \in Tokens, NEW base \in Modes, NEW on
  PROVE  SealSlot(m, t, base, on) \in Modes
<1>1. SealedTail(m) \in Modes
  BY CoreOfMode, TailOfMode DEF SealedTail
<1>2. base \o <<t>> \o SealedTail(m) \in Modes
  BY <1>1 DEF Modes
<1>3. Refused \in Modes
  BY DEF Refused, Modes
<1> QED
  BY <1>2, <1>3 DEF SealSlot

LEMMA ObjectiveModeIsMode ==
  ASSUME NEW m \in Modes, NEW objective \in Tokens
  PROVE  TrainingObjectiveMode(m, objective) \in Modes
<1> DEFINE b == Strip(m, RecurrenceOnly)
           tail == SubSeq(m, Len(b) + 1, Len(m))
<1>1. b \in Modes /\ tail \in Modes
  BY StripOfMode, TailOfMode
<1>2. b \o <<objective>> \o tail \in Modes
  <2> HIDE DEF b, tail
  <2> QED
    BY <1>1 DEF Modes
<1>3. Refused \in Modes
  BY DEF Refused, Modes
<1> QED
  BY <1>2, <1>3 DEF TrainingObjectiveMode

LEMMA PolicyModeIsMode ==
  ASSUME NEW m \in Modes, NEW ro
  PROVE  AdapterPolicyMode(m, ro) \in Modes
<1>1. Append(m, RecurrenceOnly) \in Modes /\ Refused \in Modes
  <2>1. RecurrenceOnly \in Tokens
    BY DEF Tokens
  <2> QED
    BY <2>1 DEF Modes, Refused
<1> QED
  BY <1>1 DEF AdapterPolicyMode

(* Whatever the switches are, the mode of a launch is a sequence of tokens *)
(* (the empty one when the switches are refused).                          *)
LEMMA SealedModeIsMode ==
  ASSUME NEW a \in Launches
  PROVE  ModeFromSpec(Effective(a)) \in Modes
<1> DEFINE e == Implied(Effective(a))
           base == <<BaseMode(Effective(a).spec, Effective(a).k)>>
<1>1. base \in Modes
  <2>1. BaseMode(Effective(a).spec, Effective(a).k) \in Tokens
    BY DEF BaseMode, Tokens
  <2> QED
    BY <2>1 DEF Modes
<1>2. e.objective = a.objective /\ a.objective \in Tokens
  BY LaunchesTyped DEF Implied, Effective, Tokens
<1>3. /\ <<"D-full">> \in Modes /\ <<"D-full", Paired>> \in Modes
      /\ Neutral \in Tokens /\ Paired \in Tokens /\ Trace \in Tokens /\ Refused \in Modes
  <2>1. "D-full" \in Tokens /\ Neutral \in Tokens /\ Paired \in Tokens /\ Trace \in Tokens
    BY DEF Tokens
  <2> QED
    BY <2>1 DEF Modes, Refused
<1> HIDE DEF base
<1>4. \A on : NeutralDeltaMode(base, on) \in Modes /\ PairedDeltaMode(base, on) \in Modes
  BY <1>1, <1>3, SealedSlotIsMode DEF NeutralDeltaMode, PairedDeltaMode
<1>5. \A m \in Modes : \A on : TraceCurriculumMode(m, on) \in Modes
  BY <1>3, SealedSlotIsMode DEF TraceCurriculumMode
<1>6. SealMode(base, e) \in Modes
  <2> HIDE DEF e
  <2> QED
    BY <1>2, <1>4, <1>5, ObjectiveModeIsMode, PolicyModeIsMode DEF SealMode
<1> QED
  BY <1>3, <1>6 DEF ModeFromSpec, base

-----------------------------------------------------------------------------
(* A mode seals the switches.                                              *)

Agree(c, d) ==
  /\ On(c, "recurrence_only_lora") = On(d, "recurrence_only_lora")
  /\ On(c, "neutral_delta") = On(d, "neutral_delta")
  /\ On(c, "paired_delta") = On(d, "paired_delta")
  /\ On(c, "trace_curriculum") = On(d, "trace_curriculum")
  /\ Objective(c) = Objective(d)

(* A mode ends in the policy's token exactly when the policy is on.        *)
LEMMA PolicyIsTheLastToken ==
  ASSUME NEW c, PolicySealed(c), c.mode \in Modes, c.mode # <<>>
  PROVE  On(c, "recurrence_only_lora") = Ends(c.mode, RecurrenceOnly)
<1> DEFINE ro == On(c, "recurrence_only_lora")
           b == Strip(c.mode, RecurrenceOnly)
<1>1. ro \in BOOLEAN /\ c.mode = AdapterPolicyMode(b, ro) /\ Ends(c.mode, RecurrenceOnly) \in BOOLEAN
  BY DEF PolicySealed, Ends
<1>2. b # Refused
  BY <1>1 DEF AdapterPolicyMode, Refused
<1>3. CASE ro = TRUE
  <2>1. CASE Ends(c.mode, RecurrenceOnly)
    BY <2>1, <1>1, <1>3
  <2>2. CASE ~Ends(c.mode, RecurrenceOnly)
    <3>1. b = c.mode
      BY <2>2 DEF Strip
    <3>2. c.mode = Append(c.mode, RecurrenceOnly)
      BY <3>1, <2>2, <1>1, <1>2, <1>3 DEF AdapterPolicyMode
    <3> QED
      BY <3>2, AppendProperties DEF Modes
  <2> QED
    BY <2>1, <2>2
<1>4. CASE ro = FALSE
  <2>1. c.mode = b /\ ~Ends(b, RecurrenceOnly)
    BY <1>1, <1>2, <1>4 DEF AdapterPolicyMode, Refused
  <2> QED
    BY <2>1, <1>1, <1>4
<1> QED
  BY <1>1, <1>3, <1>4

LEMMA ModeSealsSwitches ==
  ASSUME NEW c, NEW d, Judged(c), Judged(d),
         c.mode = d.mode, c.mode \in Modes, c.mode # <<>>
  PROVE  Agree(c, d)
<1>1. On(c, "recurrence_only_lora") = On(d, "recurrence_only_lora")
  BY PolicyIsTheLastToken DEF Judged
<1>2. On(c, "neutral_delta") = On(d, "neutral_delta")
  BY DEF Judged, NeutralSealed
<1>3. On(c, "paired_delta") = On(d, "paired_delta")
  BY DEF Judged, PairedSealed
<1>4. On(c, "trace_curriculum") = On(d, "trace_curriculum")
  BY DEF Judged, TraceSealed
<1>5. {Objective(c)} \ {"gold_nll"} = {Objective(d)} \ {"gold_nll"}
  BY DEF Judged, ObjectiveSealed
<1> QED
  BY <1>1, <1>2, <1>3, <1>4, <1>5 DEF Agree

(* Equal recipes are equal where the runtime reads them.                   *)
LEMMA RecipesAgree ==
  ASSUME NEW c, NEW d, HasRecipe(c), HasRecipe(d), Recipe(c) = Recipe(d)
  PROVE  /\ c.mode = d.mode /\ c.interval = d.interval /\ c.k = d.k /\ c.max_k = d.max_k
         /\ c.lora_r = d.lora_r /\ c.lora_alpha = d.lora_alpha /\ c.training = d.training
         /\ \A key \in WorkspaceKeys :
              /\ key \in DOMAIN c <=> key \in DOMAIN d
              /\ key \in DOMAIN c => c[key] = d[key]
<1> DEFINE K(x) == (LegacyRecipeKeys \cup WorkspaceKeys) \cap DOMAIN x
<1>1. K(c) = K(d)
  <2>1. DOMAIN Recipe(c) = K(c) /\ DOMAIN Recipe(d) = K(d)
    BY DEF Recipe
  <2> QED
    BY <2>1
<1>2. \A key \in K(c) : c[key] = d[key]
  <2>1. \A key \in K(c) : Recipe(c)[key] = c[key] /\ Recipe(d)[key] = d[key]
    BY <1>1 DEF Recipe
  <2> QED
    BY <2>1
<1>3. LegacyRecipeKeys \subseteq K(c)
  BY DEF HasRecipe
<1>4. \A key \in WorkspaceKeys : key \in DOMAIN c <=> key \in DOMAIN d
  BY <1>1
<1>5. \A key \in WorkspaceKeys : key \in DOMAIN c => c[key] = d[key]
  BY <1>2
<1> HIDE DEF K
<1> QED
  BY <1>2, <1>3, <1>4, <1>5 DEF LegacyRecipeKeys

(* ... and so the runtimes built from them are equal.                      *)
LEMMA SameRecipeSameRuntime ==
  ASSUME NEW c, NEW d, HasRecipe(c), HasRecipe(d), Recipe(c) = Recipe(d), Agree(c, d)
  PROVE  RuntimeFrom(c) = RuntimeFrom(d) /\ Slots(c) = Slots(d)
<1>1. Slots(c) = Slots(d)
  BY RecipesAgree DEF Slots, Get, WorkspaceKeys
<1> QED
  BY <1>1, RecipesAgree DEF RuntimeFrom, Agree

-----------------------------------------------------------------------------
(* The configuration a launch starts with.                                 *)

LaunchFields == {"mode", "interval", "k", "max_k", "lora_r", "lora_alpha", "training",
                 "training_objective", "recurrence_only_lora", "neutral_delta", "paired_delta",
                 "trace_curriculum", "workspace_slots", "workspace_layout", "runtime_contract"}

LEMMA EffectiveSwitches ==
  ASSUME NEW a \in Launches
  PROVE  /\ \A f \in {"ro", "neutral", "paired", "trace"} :
              a[f] \in BOOLEAN /\ Effective(a)[f] \in BOOLEAN
         /\ Effective(a).neutral = (a.neutral \/ a.paired)
         /\ Effective(a).ro = (a.ro \/ a.neutral \/ a.paired)
         /\ \A f \in {"spec", "k", "max_k", "lora_r", "lora_alpha", "training", "objective",
                       "paired", "trace", "slots"} : Effective(a)[f] = a[f]
BY LaunchesTyped DEF Effective

LEMMA RuntimeFields ==
  ASSUME NEW a \in Launches
  PROVE  LET rt == RuntimeOf(a)  e == Effective(a) IN
         /\ rt = [interval |-> IntervalFromSpec(a.spec), max_k |-> a.max_k, lora_r |-> a.lora_r,
                  lora_alpha |-> a.lora_alpha, ro |-> e.ro, neutral |-> e.neutral,
                  paired |-> a.paired, slots |-> a.slots]
<1>1. (Effective(a).neutral \/ a.paired) = Effective(a).neutral
  BY EffectiveSwitches
<1> QED
  BY <1>1 DEF RuntimeOf, Runtime

LEMMA ConfigFields ==
  ASSUME NEW a \in Launches
  PROVE  LET rt == RuntimeOf(a)  e == Effective(a)  c == ConfigOf(a, rt) IN
         /\ DOMAIN c = LaunchFields
         /\ c.mode = ModeFromSpec(e) /\ c.interval = IntervalFromSpec(a.spec)
         /\ c.k = a.k /\ c.max_k = a.max_k
         /\ c.lora_r = a.lora_r /\ c.lora_alpha = a.lora_alpha /\ c.training = a.training
         /\ c.workspace_layout = Layout /\ c.workspace_slots = a.slots
         /\ On(c, "recurrence_only_lora") = e.ro /\ On(c, "neutral_delta") = e.neutral
         /\ On(c, "paired_delta") = a.paired /\ On(c, "trace_curriculum") = a.trace
         /\ Get(c, "trace_curriculum", TRUE) = a.trace /\ Get(c, "k", 0) = a.k
         /\ Objective(c) = a.objective /\ Slots(c) = a.slots
         /\ HasContract(c) /\ Contract(c) = RuntimeContract(rt)
<1> DEFINE c == ConfigOf(a, RuntimeOf(a))
<1>1. DOMAIN c = LaunchFields
  BY DEF ConfigOf, LaunchFields
<1>2. RuntimeOf(a).interval = IntervalFromSpec(a.spec)
  BY RuntimeFields
<1> QED
  BY <1>1, <1>2, RuntimeFields DEF ConfigOf, On, Get, Objective, Slots, HasContract, Contract, LaunchFields

LEMMA ConfigGivesRuntime ==
  ASSUME NEW a \in Launches
  PROVE  RuntimeFrom(ConfigOf(a, RuntimeOf(a))) = RuntimeOf(a)
<1>1. (Effective(a).neutral \/ a.paired) = Effective(a).neutral
  BY EffectiveSwitches
<1> HIDE DEF ConfigOf
<1> QED
  BY <1>1, RuntimeFields, ConfigFields DEF RuntimeFrom, Runtime

(* What the judges read of a contract from before workspaces.              *)
HasOldForm(contract, rt) ==
  /\ "workspace_slots" \notin DOMAIN contract
  /\ \A x : Get(contract, "recurrence_only", x) = rt.ro
  /\ Get(contract, "neutral_delta", FALSE) = rt.neutral
  /\ Get(contract, "paired_delta", FALSE) = rt.paired

LEMMA ContractFields ==
  ASSUME NEW rt, rt.paired \in BOOLEAN, NEW c, WorkspaceKeys \cap DOMAIN c = {}
  PROVE  HasOldForm(RuntimeContractForConfig(rt, c), rt)
<1> DEFINE base == [version |-> IF rt.paired THEN "paired.workspace.v1" ELSE "v6",
                    recurrence_only |-> rt.ro, neutral_delta |-> rt.neutral,
                    max_k |-> rt.max_k, workspace_slots |-> rt.slots]
           new == RuntimeContract(rt)
           version == IF rt.paired THEN "paired.v1" ELSE "v5"
           old == With(Without(new, {"workspace_slots"}), "version", version)
<1>1. /\ DOMAIN base = {"version", "recurrence_only", "neutral_delta", "max_k", "workspace_slots"}
      /\ base.recurrence_only = rt.ro /\ base.neutral_delta = rt.neutral
  OBVIOUS
<1>2. new = IF rt.paired THEN With(base, "paired_delta", TRUE) ELSE base
  BY DEF RuntimeContract, WithIf
<1> HIDE DEF base
<1>3. /\ DOMAIN new = DOMAIN base \cup (IF rt.paired THEN {"paired_delta"} ELSE {})
      /\ \A x \in DOMAIN base : new[x] = base[x]
      /\ rt.paired => new["paired_delta"] = TRUE
  BY <1>1, <1>2 DEF With
<1> HIDE DEF new
<1>4. /\ DOMAIN old = (DOMAIN new \ {"workspace_slots"}) \cup {"version"}
      /\ \A x \in DOMAIN new \ {"workspace_slots", "version"} : old[x] = new[x]
  <2> DEFINE cut == Without(new, {"workspace_slots"})
  <2>1. /\ DOMAIN cut = DOMAIN new \ {"workspace_slots"}
        /\ \A x \in DOMAIN new \ {"workspace_slots"} : cut[x] = new[x]
    BY DEF Without
  <2> HIDE DEF cut
  <2>2. /\ DOMAIN With(cut, "version", version) = DOMAIN cut \cup {"version"}
        /\ \A x \in DOMAIN cut \ {"version"} : With(cut, "version", version)[x] = cut[x]
    BY DEF With
  <2> QED
    BY <2>1, <2>2 DEF cut
<1>5. RuntimeContractForConfig(rt, c) = old
  BY DEF RuntimeContractForConfig, new
<1> HIDE DEF old
<1>6. /\ "recurrence_only" \in DOMAIN old /\ old.recurrence_only = rt.ro
      /\ "neutral_delta" \in DOMAIN old /\ old.neutral_delta = rt.neutral
      /\ "workspace_slots" \notin DOMAIN old
  BY <1>1, <1>3, <1>4
<1>7. /\ rt.paired => "paired_delta" \in DOMAIN old /\ old["paired_delta"] = TRUE
      /\ ~rt.paired => "paired_delta" \notin DOMAIN old
  BY <1>1, <1>3, <1>4
<1> QED
  BY <1>5, <1>6, <1>7 DEF Get, HasOldForm

(* A configuration from before workspaces keeps every other key.           *)
LEMMA LegacyFields ==
  ASSUME NEW a \in Launches
  PROVE  LET rt == RuntimeOf(a)  c == ConfigOf(a, rt)  old == LegacyConfig(rt, c) IN
         /\ DOMAIN old = LaunchFields \ WorkspaceKeys
         /\ \A key \in LaunchFields \ (WorkspaceKeys \cup {"runtime_contract"}) :
              old[key] = c[key]
         /\ HasContract(old)
         /\ Contract(old) = RuntimeContractForConfig(rt, Without(c, WorkspaceKeys))
         /\ Contract(old) = RuntimeContractForConfig(rt, old)
<1> DEFINE rt == RuntimeOf(a)
           c == ConfigOf(a, rt)
           bare == Without(c, WorkspaceKeys)
           old == LegacyConfig(rt, c)
<1>1. DOMAIN c = LaunchFields
  BY ConfigFields
<1> HIDE DEF rt, c
<1>2. /\ DOMAIN bare = LaunchFields \ WorkspaceKeys
      /\ \A key \in LaunchFields \ WorkspaceKeys : bare[key] = c[key]
  BY <1>1 DEF Without
<1> HIDE DEF bare
<1>3. old = With(bare, "runtime_contract", RuntimeContractForConfig(rt, bare))
  BY DEF LegacyConfig, bare
<1>4. "runtime_contract" \in LaunchFields \ WorkspaceKeys
  BY DEF LaunchFields, WorkspaceKeys
<1>5. /\ DOMAIN old = LaunchFields \ WorkspaceKeys
      /\ \A key \in LaunchFields \ (WorkspaceKeys \cup {"runtime_contract"}) : old[key] = c[key]
      /\ old["runtime_contract"] = RuntimeContractForConfig(rt, bare)
  BY <1>2, <1>3, <1>4 DEF With
<1>6. HasContract(old) /\ Contract(old) = RuntimeContractForConfig(rt, bare)
  BY <1>4, <1>5 DEF HasContract, Contract, Get
<1>7. RuntimeContractForConfig(rt, bare) = RuntimeContractForConfig(rt, old)
  BY <1>2, <1>5 DEF RuntimeContractForConfig
<1> QED
  BY <1>5, <1>6, <1>7 DEF rt, c, bare

(* The judges pass what they passed, in the old form.                      *)
LEMMA LegacyIsSealed ==
  ASSUME NEW a \in Launches, Starts(a), a.slots = 1
  PROVE  LET c == ConfigOf(a, RuntimeOf(a))  old == LegacyConfig(RuntimeOf(a), c) IN
         /\ Judged(old) /\ HasRecipe(old) /\ Agree(old, c)
         /\ WorkspaceKeys \cap DOMAIN old = {} /\ Slots(old) = 1
         /\ RuntimeFrom(old) = RuntimeOf(a)
         /\ HasContract(old) /\ Contract(old) = RuntimeContractForConfig(RuntimeOf(a), old)
<1> DEFINE rt == RuntimeOf(a)
           c == ConfigOf(a, rt)
           old == LegacyConfig(rt, c)
<1>1. Judged(c) /\ HasRecipe(c) /\ DOMAIN c = LaunchFields
  BY ConfigFields DEF Starts
<1>2. /\ DOMAIN old = LaunchFields \ WorkspaceKeys
      /\ \A key \in LaunchFields \ (WorkspaceKeys \cup {"runtime_contract"}) : old[key] = c[key]
      /\ HasContract(old) /\ Contract(old) = RuntimeContractForConfig(rt, old)
  BY LegacyFields
<1>3. rt.paired \in BOOLEAN /\ rt.paired = On(c, "paired_delta")
      /\ rt.ro = On(c, "recurrence_only_lora") /\ rt.neutral = On(c, "neutral_delta")
  <2>1. rt.paired = a.paired /\ rt.ro = Effective(a).ro /\ rt.neutral = Effective(a).neutral
    BY RuntimeFields
  <2>2. /\ On(c, "paired_delta") = a.paired /\ On(c, "recurrence_only_lora") = Effective(a).ro
        /\ On(c, "neutral_delta") = Effective(a).neutral
    BY ConfigFields
  <2>3. a.paired \in BOOLEAN
    BY EffectiveSwitches
  <2> HIDE DEF c, rt
  <2> QED
    BY <2>1, <2>2, <2>3
<1>4. RuntimeFrom(c) = rt /\ Slots(c) = 1
  BY ConfigGivesRuntime, ConfigFields
<1> HIDE DEF c, old, rt
<1>5. /\ WorkspaceKeys \cap DOMAIN old = {}
      /\ \A x : Get(Contract(old), "recurrence_only", x) = rt.ro
      /\ Get(Contract(old), "neutral_delta", FALSE) = rt.neutral
      /\ Get(Contract(old), "paired_delta", FALSE) = rt.paired
      /\ "workspace_slots" \notin DOMAIN Contract(old)
  <2>1. WorkspaceKeys \cap DOMAIN old = {}
    BY <1>2
  <2> DEFINE form == RuntimeContractForConfig(rt, old)
  <2>2. /\ "workspace_slots" \notin DOMAIN form
        /\ \A x : Get(form, "recurrence_only", x) = rt.ro
        /\ Get(form, "neutral_delta", FALSE) = rt.neutral
        /\ Get(form, "paired_delta", FALSE) = rt.paired
    <3>1. HasOldForm(RuntimeContractForConfig(rt, old), rt)
      BY <2>1, <1>3, ContractFields
    <3> QED
      BY <3>1 DEF HasOldForm
  <2>3. Contract(old) = form
    BY <1>2
  <2> QED
    BY <2>1, <2>2, <2>3
<1>6. /\ old.mode = c.mode /\ old.interval = c.interval /\ old.k = c.k
      /\ old.max_k = c.max_k /\ old.lora_r = c.lora_r /\ old.lora_alpha = c.lora_alpha
      /\ old.training_objective = c.training_objective
      /\ old.recurrence_only_lora = c.recurrence_only_lora
      /\ old.neutral_delta = c.neutral_delta /\ old.paired_delta = c.paired_delta
      /\ old.trace_curriculum = c.trace_curriculum
  BY <1>2 DEF LaunchFields, WorkspaceKeys
<1>7. LegacyRecipeKeys \cup {"training_objective", "recurrence_only_lora", "neutral_delta",
                             "paired_delta", "trace_curriculum"} \subseteq DOMAIN old
  BY <1>2 DEF LegacyRecipeKeys, LaunchFields, WorkspaceKeys
<1>8. /\ Agree(old, c) /\ Objective(old) = Objective(c) /\ NoTrace(old) = NoTrace(c)
      /\ Get(old, "k", 0) = Get(c, "k", 0) /\ FullInterval(old) = FullInterval(c)
  BY <1>1, <1>6, <1>7 DEF Agree, On, Objective, Get, NoTrace, FullInterval, LaunchFields,
     LegacyRecipeKeys
<1>9. HasRecipe(old)
  BY <1>1, <1>5, <1>6, <1>7 DEF HasRecipe, WorkspaceKeys
<1>10. Slots(old) = 1
  BY <1>5 DEF Slots, Get, WorkspaceKeys
<1>11. Judged(old)
  <2>1. "mode" \in DOMAIN old /\ ObjectiveSealed(old) /\ NeutralSealed(old) /\ TraceSealed(old)
        /\ MarginSealed(old)
    BY <1>1, <1>6, <1>7, <1>8 DEF Judged, ObjectiveSealed, NeutralSealed, TraceSealed, MarginSealed,
       Agree, LegacyRecipeKeys
  <2>2. PolicySealed(old)
    BY <1>1, <1>2, <1>3, <1>5, <1>6, <1>8 DEF Judged, PolicySealed, Agree
  <2>3. PairedSealed(old)
    <3>1. On(c, "paired_delta") => On(c, "neutral_delta")
      BY <1>1 DEF Judged, PairedSealed
    <3>2. ObjectiveSealed(old)
      BY <2>1
    <3> QED
      BY <3>1, <3>2, <1>1, <1>3, <1>5, <1>6, <1>8 DEF Judged, PairedSealed, Agree
  <2>4. SlotsSealed(old)
    BY <1>5 DEF SlotsSealed, WorkspaceKeys
  <2> QED
    BY <2>1, <2>2, <2>3, <2>4 DEF Judged
<1>12. RuntimeFrom(old) = rt
  <2>1. Slots(old) = Slots(c)
    BY <1>4, <1>10
  <2> QED
    BY <2>1, <1>4, <1>6, <1>8 DEF RuntimeFrom, Agree
<1> QED
  BY <1>2, <1>5, <1>8, <1>9, <1>10, <1>11, <1>12 DEF c, old, rt

-----------------------------------------------------------------------------
(* Minting: what the judges passed before the training, the bundle's check *)
(* passes after it, but for an alpha that the scaling does not give back.  *)

LEMMA JudgedClaimsAreSealed ==
  ASSUME NEW a \in Launches, Starts(a)
  PROVE  ClaimsSealed(ConfigOf(a, RuntimeOf(a)))
<1> DEFINE c == ConfigOf(a, RuntimeOf(a))
<1>1. Judged(c) /\ HasRecipe(c)
  BY DEF Starts
<1>2. /\ Slots(c) = a.slots /\ c.workspace_slots = a.slots /\ DOMAIN c = LaunchFields
      /\ Get(c, "k", 0) = c.k /\ NoTrace(c) = ~On(c, "trace_curriculum")
  BY ConfigFields DEF NoTrace
<1>3. c.mode \in Modes /\ c.mode # <<>>
  BY <1>1, ConfigFields, SealedModeIsMode DEF HasRecipe
<1> HIDE DEF c
<1>4. On(c, "recurrence_only_lora") = Ends(c.mode, RecurrenceOnly)
  BY <1>1, <1>3, PolicyIsTheLastToken DEF Judged
<1>5. WorkspaceKeys \subseteq DOMAIN c /\ WorkspaceKeys # {}
  BY <1>2 DEF LaunchFields, WorkspaceKeys
<1>6. Slots(c) > 1 => /\ On(c, "paired_delta") /\ NoTrace(c)
                      /\ Objective(c) = "counterfactual_margin"
  BY <1>1, <1>5 DEF Judged, SlotsSealed
<1>7. /\ On(c, "paired_delta") => On(c, "neutral_delta") /\ Objective(c) \in SealedObjectives
      /\ On(c, "paired_delta") = Ends(Architecture(c.mode), Paired)
  BY <1>1 DEF Judged, PairedSealed
<1>8. /\ On(c, "trace_curriculum") = Ends(Core(c.mode), Trace)
      /\ On(c, "trace_curriculum") => /\ On(c, "paired_delta") /\ Objective(c) = "candidate_ce"
                                      /\ c.k = 4
  BY <1>1, <1>2 DEF Judged, TraceSealed
<1>9. Objective(c) = "counterfactual_margin" =>
        On(c, "paired_delta") /\ c.k = 4 /\ ~On(c, "trace_curriculum")
  BY <1>1, <1>2 DEF Judged, MarginSealed
<1>10. /\ ~Malformed(Core(c.mode), Trace)
       /\ ~Malformed(Architecture(c.mode), Neutral) /\ ~Malformed(Architecture(c.mode), Paired)
       /\ ~(/\ Count(Architecture(c.mode), Neutral) > 0
            /\ Count(Architecture(c.mode), Paired) > 0)
       /\ On(c, "neutral_delta") = (\/ Ends(Architecture(c.mode), Neutral)
                                    \/ Ends(Architecture(c.mode), Paired))
       /\ On(c, "neutral_delta") => On(c, "recurrence_only_lora")
  BY <1>1 DEF Judged, NeutralSealed
<1>11. ObjectiveSealed(c)
  BY <1>1 DEF Judged
<1>12. Slots(c) > 1 => ~On(c, "trace_curriculum")
  BY <1>2, <1>6
<1> QED
  BY <1>4, <1>6, <1>7, <1>8, <1>9, <1>10, <1>11, <1>12 DEF ClaimsSealed, c

LEMMA ClaimsAreTheLaunchs ==
  ASSUME NEW a \in Launches, Starts(a),
         <<RuntimeOf(a).lora_alpha, RuntimeOf(a).lora_r>> \notin Inexact
  PROVE  ClaimsAreTheRuntimes(RuntimeOf(a), ConfigOf(a, RuntimeOf(a)))
<1> DEFINE rt == RuntimeOf(a)
           c == ConfigOf(a, rt)
<1>1. /\ rt.ro = On(c, "recurrence_only_lora") /\ rt.neutral = On(c, "neutral_delta")
      /\ rt.paired = On(c, "paired_delta") /\ rt.slots = Slots(c)
      /\ c.interval = rt.interval /\ c.max_k = rt.max_k /\ c.lora_r = rt.lora_r
      /\ c.lora_alpha = rt.lora_alpha
      /\ HasContract(c) /\ Contract(c) = RuntimeContract(rt)
  <2>1. /\ rt.paired = a.paired /\ rt.ro = Effective(a).ro /\ rt.neutral = Effective(a).neutral
        /\ rt.slots = a.slots /\ rt.interval = IntervalFromSpec(a.spec) /\ rt.max_k = a.max_k
        /\ rt.lora_r = a.lora_r /\ rt.lora_alpha = a.lora_alpha
    BY RuntimeFields
  <2>2. /\ On(c, "paired_delta") = a.paired /\ On(c, "recurrence_only_lora") = Effective(a).ro
        /\ On(c, "neutral_delta") = Effective(a).neutral /\ Slots(c) = a.slots
        /\ c.interval = IntervalFromSpec(a.spec) /\ c.max_k = a.max_k
        /\ c.lora_r = a.lora_r /\ c.lora_alpha = a.lora_alpha
        /\ HasContract(c) /\ Contract(c) = RuntimeContract(rt)
    BY ConfigFields
  <2> HIDE DEF c, rt
  <2> QED
    BY <2>1, <2>2
<1>2. rt.neutral => rt.interval = <<0, NLayers>>
  BY DEF Starts, Constructible
<1>3. RuntimeContractForConfig(rt, c) = RuntimeContract(rt)
  <2>1. WorkspaceKeys \cap DOMAIN c # {}
    BY ConfigFields DEF LaunchFields, WorkspaceKeys
  <2> HIDE DEF rt, c
  <2> QED
    BY <2>1 DEF RuntimeContractForConfig
<1>4. RuntimeAlpha(rt) = rt.lora_alpha
  BY DEF RuntimeAlpha
<1> HIDE DEF rt, c
<1> QED
  BY <1>1, <1>2, <1>3, <1>4 DEF ClaimsAreTheRuntimes, rt, c

LEMMA LaunchMints ==
  ASSUME NEW a \in Launches, Starts(a),
         <<RuntimeOf(a).lora_alpha, RuntimeOf(a).lora_r>> \notin Inexact
  PROVE  AdapterRecipeAccepts(RuntimeOf(a), ConfigOf(a, RuntimeOf(a)))
BY JudgedClaimsAreSealed, ClaimsAreTheLaunchs DEF Starts, AdapterRecipeAccepts

-----------------------------------------------------------------------------
(* What is published and untouched can be evaluated.                       *)

(* A recipe is read back as it was written.                                *)
LEMMA RecipeReadsBack ==
  ASSUME NEW c, HasRecipe(c)
  PROVE  ValidRecipe(Recipe(c))
<1> DEFINE r == Recipe(c)
<1>1. /\ DOMAIN r = (LegacyRecipeKeys \cup WorkspaceKeys) \cap DOMAIN c
      /\ \A key \in DOMAIN r : r[key] = c[key]
  BY DEF Recipe
<1>2. LegacyRecipeKeys \subseteq DOMAIN c /\ WorkspaceKeys \cap DOMAIN c \in {{}, WorkspaceKeys}
  BY DEF HasRecipe
<1> HIDE DEF r
<1>3. /\ DOMAIN r \in {LegacyRecipeKeys, LegacyRecipeKeys \cup WorkspaceKeys}
      /\ LegacyRecipeKeys \subseteq DOMAIN r
      /\ WorkspaceKeys \cap DOMAIN r = WorkspaceKeys \cap DOMAIN c
  BY <1>1, <1>2
<1>4. /\ r.mode = c.mode /\ r.interval = c.interval /\ r.k = c.k /\ r.max_k = c.max_k
      /\ r.lora_r = c.lora_r /\ r.lora_alpha = c.lora_alpha
  BY <1>1, <1>3 DEF LegacyRecipeKeys
<1>5. \A key \in WorkspaceKeys \cap DOMAIN r : key \in DOMAIN c /\ r[key] = c[key]
  BY <1>1, <1>3
<1>6. HasRecipe(r)
  BY <1>3, <1>4, <1>5 DEF HasRecipe, WorkspaceKeys
<1> QED
  BY <1>3, <1>6 DEF ValidRecipe, r

(* A published configuration whose runtime is the contract's.              *)
LEMMA PublishedIsAccepted ==
  ASSUME NEW c, NEW n, Judged(c), HasRecipe(c), Constructible(RuntimeFrom(c)),
         HasContract(c) => Contract(c) = RuntimeContractForConfig(RuntimeFrom(c), c)
  PROVE  EvalAccepts(Published(c, n))
BY RecipeReadsBack DEF EvalAccepts, Published, SelectedFromRaw, BundleLoads

(* The records carry the workspace exactly when the configuration does.    *)
LEMMA RecordsCarryWorkspace ==
  ASSUME NEW c
  PROVE  LET record == RecurrenceConfig(c) IN
         /\ "workspace_slots" \in DOMAIN record <=> "workspace_slots" \in DOMAIN c
         /\ "workspace_slots" \in DOMAIN c => Get(record, "workspace_slots", 0) = Slots(c)
<1> DEFINE always == [mode |-> c.mode, interval |-> c.interval, trained_k |-> c.k,
                      max_k |-> c.max_k, lora_r |-> c.lora_r, lora_alpha |-> c.lora_alpha,
                      recurrence_only_lora |-> On(c, "recurrence_only_lora"),
                      neutral_delta |-> On(c, "neutral_delta")]
           paired == WithIf(always, On(c, "paired_delta"), "paired_delta", TRUE)
           traced == WithIf(paired, On(c, "trace_curriculum"), "trace_curriculum", TRUE)
<1>1. "workspace_slots" \notin DOMAIN always
  OBVIOUS
<1> HIDE DEF always
<1>2. "workspace_slots" \notin DOMAIN paired
  BY <1>1 DEF WithIf, With
<1> HIDE DEF paired
<1>3. "workspace_slots" \notin DOMAIN traced
  BY <1>2 DEF WithIf, With
<1>4. RecurrenceConfig(c) = WithIf(traced, "workspace_slots" \in DOMAIN c, "workspace_slots", Slots(c))
  BY DEF RecurrenceConfig, traced, paired, always
<1> HIDE DEF traced
<1>5. CASE "workspace_slots" \in DOMAIN c
  <2>1. RecurrenceConfig(c) = With(traced, "workspace_slots", Slots(c))
    BY <1>4, <1>5 DEF WithIf
  <2> QED
    BY <2>1, <1>5 DEF With, Get
<1>6. CASE "workspace_slots" \notin DOMAIN c
  <2>1. RecurrenceConfig(c) = traced
    BY <1>4, <1>6 DEF WithIf
  <2> QED
    BY <2>1, <1>3, <1>6
<1> QED
  BY <1>5, <1>6

(* What eval writes passes its validator.                                  *)
LEMMA PayloadIsValid ==
  ASSUME NEW d, NEW k, NEW name, EvalAccepts(d)
  PROVE  ValidateEval(Payload(d, RuntimeFrom(d.config), k, name))
<1> DEFINE c == d.config
           rt == RuntimeFrom(c)
           p == Payload(d, rt, k, name)
<1>1. HasRecipe(c) /\ rt.interval = c.interval /\ rt.slots = Slots(c)
  BY DEF EvalAccepts, RuntimeFrom, Runtime
<1>2. "workspace_slots" \notin DOMAIN c => Slots(c) = 1
  BY DEF Slots, Get
<1> HIDE DEF c, rt
<1>3. /\ p.config = c /\ p.recipe = Recipe(c) /\ p.recurrence = RecurrenceConfig(c)
      /\ p.compute = rt.slots
      /\ p.identity = [interval |-> rt.interval, max_k |-> c.max_k, k |-> k, ablation |-> name]
      /\ DOMAIN p.results = {name} /\ p.results[name] = Result(c, k, name)
  BY DEF Payload, c
<1> HIDE DEF p
<1>4. IdentityAgrees(p)
  BY <1>1, <1>3 DEF IdentityAgrees
<1>5. \A label \in DOMAIN p.results : RecordsAgree(p, p.results[label])
  BY <1>3 DEF RecordsAgree, Result
<1>6. SelectedResultAgrees(p)
  BY <1>3 DEF SelectedResultAgrees, Result
<1>7. WorkspaceBound(c, Recipe(c), p)
  BY <1>1, <1>2, <1>3, RecordsCarryWorkspace DEF WorkspaceBound
<1> QED
  BY <1>1, <1>3, <1>4, <1>5, <1>6, <1>7 DEF ValidateEval, p, rt, c

-----------------------------------------------------------------------------
(* The digest a driver preregisters for a launch is that of the recipe the *)
(* launch trains with.                                                     *)

LEMMA DigestIsTheRecipe ==
  ASSUME NEW a \in Launches, Starts(a)
  PROVE  DigestOf(a) = Recipe(ConfigOf(a, RuntimeOf(a)))
<1> DEFINE c == ConfigOf(a, RuntimeOf(a))
           e == Implied(Effective(a))
           base == <<BaseMode(a.spec, a.k)>>
           sealed == IF Coupled(e, IntervalFromSpec(a.spec)[1] = 0) /\ (e.neutral => e.ro)
                     THEN SealMode(base, e) ELSE Refused
           r == [mode |-> sealed, interval |-> IntervalFromSpec(a.spec), k |-> a.k,
                 max_k |-> a.max_k, lora_r |-> a.lora_r, lora_alpha |-> a.lora_alpha,
                 training |-> a.training, workspace_slots |-> a.slots,
                 workspace_layout |-> Layout]
<1>1. HasRecipe(c) /\ c.mode = ModeFromSpec(Effective(a)) /\ DOMAIN c = LaunchFields
  BY ConfigFields DEF Starts
<1>2. ModeFromSpec(Effective(a)) # Refused
  BY <1>1 DEF HasRecipe, Refused
<1>3. /\ Effective(a).spec = a.spec /\ Effective(a).k = a.k /\ Effective(a).max_k = a.max_k
      /\ Effective(a).lora_r = a.lora_r /\ Effective(a).lora_alpha = a.lora_alpha
      /\ Effective(a).training = a.training /\ Effective(a).slots = a.slots
  BY EffectiveSwitches
<1>4. DigestOf(a) = IF HasRecipe(r) THEN Recipe(r) ELSE <<>>
  BY <1>3 DEF DigestOf, TrainRecipe
<1>5. /\ Coupled(e, a.spec = "full") /\ (e.neutral => e.ro)
      /\ ModeFromSpec(Effective(a)) = SealMode(base, e)
  BY <1>2, <1>3 DEF ModeFromSpec
<1>6. a.spec = "full" => IntervalFromSpec(a.spec)[1] = 0
  BY DEF IntervalFromSpec
<1> HIDE DEF e, base
<1>7. Coupled(e, IntervalFromSpec(a.spec)[1] = 0)
  BY <1>5, <1>6 DEF Coupled
<1>8. sealed = c.mode
  BY <1>1, <1>5, <1>7
<1>9. /\ c.interval = IntervalFromSpec(a.spec)
      /\ c.k = a.k /\ c.max_k = a.max_k
      /\ c.lora_r = a.lora_r /\ c.lora_alpha = a.lora_alpha /\ c.training = a.training
      /\ c.workspace_layout = Layout /\ c.workspace_slots = a.slots
  BY ConfigFields
<1> HIDE DEF sealed, c
<1>10. DOMAIN r = LegacyRecipeKeys \cup WorkspaceKeys
  BY DEF LegacyRecipeKeys, WorkspaceKeys
<1>11. \A key \in LegacyRecipeKeys \cup WorkspaceKeys : r[key] = c[key]
  BY <1>8, <1>9 DEF LegacyRecipeKeys, WorkspaceKeys
<1>12. LegacyRecipeKeys \cup WorkspaceKeys \subseteq DOMAIN c
  BY <1>1 DEF LegacyRecipeKeys, WorkspaceKeys, LaunchFields
<1> HIDE DEF r
<1>13. Recipe(r) = Recipe(c)
  BY <1>10, <1>11, <1>12 DEF Recipe
<1>14. HasRecipe(r)
  <2>1. /\ r.mode = c.mode /\ r.interval = c.interval /\ r.k = c.k /\ r.max_k = c.max_k
        /\ r.lora_r = c.lora_r /\ r.lora_alpha = c.lora_alpha
        /\ r.workspace_slots = c.workspace_slots /\ r.workspace_layout = c.workspace_layout
    BY <1>11 DEF LegacyRecipeKeys, WorkspaceKeys
  <2> QED
    BY <2>1, <1>1, <1>10, <1>12 DEF HasRecipe, WorkspaceKeys
<1> QED
  BY <1>4, <1>13, <1>14 DEF c

(* Two launches that start with the same recipe start with the same        *)
(* configuration and the same runtime.                                     *)
LEMMA SameRecipeSameLaunch ==
  ASSUME NEW a \in Launches, Starts(a), NEW b \in Launches, Starts(b),
         Recipe(ConfigOf(a, RuntimeOf(a))) = Recipe(ConfigOf(b, RuntimeOf(b)))
  PROVE  /\ ConfigOf(a, RuntimeOf(a)) = ConfigOf(b, RuntimeOf(b))
         /\ RuntimeOf(a) = RuntimeOf(b)
<1> DEFINE c == ConfigOf(a, RuntimeOf(a))
           d == ConfigOf(b, RuntimeOf(b))
<1>1. HasRecipe(c) /\ HasRecipe(d) /\ Judged(c) /\ Judged(d) /\ Recipe(c) = Recipe(d)
  BY DEF Starts
<1>2. c.mode \in Modes /\ c.mode # <<>>
  BY <1>1, ConfigFields, SealedModeIsMode DEF HasRecipe
<1>3. RuntimeFrom(c) = RuntimeOf(a) /\ RuntimeFrom(d) = RuntimeOf(b)
  BY ConfigGivesRuntime
<1>4. /\ c.interval = IntervalFromSpec(a.spec) /\ d.interval = IntervalFromSpec(b.spec)
      /\ c.k = a.k /\ d.k = b.k /\ c.max_k = a.max_k /\ d.max_k = b.max_k
      /\ c.lora_r = a.lora_r /\ d.lora_r = b.lora_r
      /\ c.lora_alpha = a.lora_alpha /\ d.lora_alpha = b.lora_alpha
      /\ c.training = a.training /\ d.training = b.training
      /\ c.mode = ModeFromSpec(Effective(a)) /\ d.mode = ModeFromSpec(Effective(b))
  BY ConfigFields
<1>5. /\ On(c, "recurrence_only_lora") = Effective(a).ro /\ On(c, "neutral_delta") = Effective(a).neutral
      /\ On(c, "paired_delta") = a.paired /\ On(c, "trace_curriculum") = a.trace
      /\ Objective(c) = a.objective /\ Slots(c) = a.slots
  BY ConfigFields
<1>6. /\ On(d, "recurrence_only_lora") = Effective(b).ro /\ On(d, "neutral_delta") = Effective(b).neutral
      /\ On(d, "paired_delta") = b.paired /\ On(d, "trace_curriculum") = b.trace
      /\ Objective(d) = b.objective /\ Slots(d) = b.slots
  BY ConfigFields
<1> HIDE DEF c, d
<1>7. c.mode = d.mode /\ c.interval = d.interval /\ c.k = d.k /\ c.max_k = d.max_k
      /\ c.lora_r = d.lora_r /\ c.lora_alpha = d.lora_alpha /\ c.training = d.training
  BY <1>1, RecipesAgree
<1>8. Agree(c, d)
  BY <1>1, <1>2, <1>7, ModeSealsSwitches
<1>9. RuntimeFrom(c) = RuntimeFrom(d) /\ Slots(c) = Slots(d)
  BY <1>1, <1>8, SameRecipeSameRuntime
<1>10. RuntimeOf(a) = RuntimeOf(b)
  BY <1>3, <1>9
<1>11. /\ a.objective = b.objective /\ a.trace = b.trace /\ a.paired = b.paired /\ a.slots = b.slots
       /\ Effective(a).ro = Effective(b).ro /\ Effective(a).neutral = Effective(b).neutral
  BY <1>5, <1>6, <1>8, <1>9 DEF Agree
<1>12. /\ a.k = b.k /\ a.max_k = b.max_k /\ a.lora_r = b.lora_r /\ a.lora_alpha = b.lora_alpha
       /\ a.training = b.training
       /\ ModeFromSpec(Effective(a)) = ModeFromSpec(Effective(b))
  BY <1>4, <1>7
<1>13. ConfigOf(a, RuntimeOf(a)) = ConfigOf(b, RuntimeOf(b))
  BY <1>10, <1>11, <1>12 DEF ConfigOf
<1> QED
  BY <1>10, <1>13

(* A configuration that passes the judges and has the recipe of the        *)
(* training, new or legacy, is read back as the runtime and the objective  *)
(* of the training.                                                        *)
LEMMA SealedRecipeIsTheTraining ==
  ASSUME NEW a \in Launches, Starts(a), NEW c, Judged(c), HasRecipe(c),
         LET new == ConfigOf(a, RuntimeOf(a)) IN
           \/ Recipe(c) = Recipe(new)
           \/ a.slots = 1 /\ Recipe(c) = Recipe(LegacyConfig(RuntimeOf(a), new))
  PROVE  /\ RuntimeFrom(c) = RuntimeOf(a)
         /\ LossOf(Objective(c), On(c, "trace_curriculum")) = LossOf(a.objective, a.trace)
<1> DEFINE new == ConfigOf(a, RuntimeOf(a))
           old == LegacyConfig(RuntimeOf(a), new)
<1>1. HasRecipe(new) /\ Judged(new) /\ RuntimeFrom(new) = RuntimeOf(a)
  BY ConfigGivesRuntime DEF Starts
<1>2. Objective(new) = a.objective /\ On(new, "trace_curriculum") = a.trace
  BY ConfigFields
<1>3. new.mode \in Modes /\ new.mode # <<>>
  BY <1>1, ConfigFields, SealedModeIsMode DEF HasRecipe
<1>4. a.slots = 1 => /\ Judged(old) /\ HasRecipe(old) /\ Agree(old, new)
                     /\ RuntimeFrom(old) = RuntimeOf(a)
                     /\ LegacyConfig(RuntimeOf(a), new).mode = new.mode
  <2>1. a.slots = 1 => /\ Judged(old) /\ HasRecipe(old) /\ Agree(old, new)
                       /\ RuntimeFrom(old) = RuntimeOf(a)
    BY LegacyIsSealed
  <2>2. old.mode = new.mode
    BY LegacyFields DEF LaunchFields, WorkspaceKeys
  <2> QED
    BY <2>1, <2>2
<1> HIDE DEF new
<1>5. ASSUME NEW d, Judged(d), HasRecipe(d), Agree(d, new), RuntimeFrom(d) = RuntimeOf(a),
             d.mode = new.mode, Recipe(c) = Recipe(d)
      PROVE  /\ RuntimeFrom(c) = RuntimeOf(a)
             /\ Objective(c) = a.objective /\ On(c, "trace_curriculum") = a.trace
  <2>1. c.mode = d.mode
    BY <1>5, RecipesAgree
  <2>2. Agree(c, d)
    BY <2>1, <1>3, <1>5, ModeSealsSwitches
  <2>3. RuntimeFrom(c) = RuntimeFrom(d)
    BY <2>2, <1>5, SameRecipeSameRuntime
  <2> QED
    BY <2>2, <2>3, <1>2, <1>5 DEF Agree
<1>6. /\ RuntimeFrom(c) = RuntimeOf(a)
      /\ Objective(c) = a.objective /\ On(c, "trace_curriculum") = a.trace
  <2>1. CASE Recipe(c) = Recipe(new)
    <3>1. Agree(new, new)
      BY DEF Agree
    <3> QED
      BY <3>1, <2>1, <1>1, <1>5
  <2>2. CASE a.slots = 1 /\ Recipe(c) = Recipe(old)
    BY <2>2, <1>4, <1>5
  <2> QED
    BY <2>1, <2>2 DEF new
<1> QED
  BY <1>6

-----------------------------------------------------------------------------
(* The inductive invariant: which launch ran, and what of its publication  *)
(* no edit can reach.                                                      *)

Ran == {"trained", "unexported", "published", "evaluated"}
StageOK == /\ stage \in Ran \cup {"idle", "refused"}
           /\ edits \in 0 .. MaxEdits

TrainingOK ==
  stage \in Ran =>
    \E a \in Launches :
      /\ Starts(a)
      /\ trained = [args |-> a, rt |-> RuntimeOf(a), loss |-> LossOf(a.objective, a.trace)]
      /\ cfg = ConfigOf(a, RuntimeOf(a))

(* The bundle is sealed by its digest and the raw records by the           *)
(* history's: an edit changes the configuration and the recipes beside it. *)
SealedFrom(run) ==
  /\ DOMAIN disk = {"config", "report", "manifest", "bundle", "raw"}
  /\ disk.bundle = run.bundle /\ disk.raw = run.raw
  /\ edits = 0 => disk = run

DiskOK ==
  stage \in {"published", "evaluated"} =>
    \/ SealedFrom(Published(cfg, trained.rt.slots))
    \/ /\ trained.rt.slots = 1
       /\ SealedFrom(Published(LegacyConfig(trained.rt, cfg), 0))

VerdictOK ==
  /\ stage = "unexported" => ~AdapterRecipeAccepts(trained.rt, cfg)
  /\ stage = "evaluated" =>
       /\ EvalAccepts(disk)
       /\ \E q \in EvalRequests :
            payload = Payload(disk, RuntimeFrom(disk.config), q[1], q[2])

IInv == StageOK /\ TrainingOK /\ DiskOK /\ VerdictOK

LEMMA Initially == Init => IInv
BY EditBound DEF Init, IInv, StageOK, TrainingOK, DiskOK, VerdictOK, Ran

LEMMA TrainKeeps ==
  ASSUME IInv, NEW a \in Launches, Train(a)
  PROVE  IInv'
<1>1. /\ stage' = "trained" /\ edits' = edits
      /\ trained' = [args |-> a, rt |-> RuntimeOf(a), loss |-> LossOf(a.objective, a.trace)]
      /\ cfg' = ConfigOf(a, RuntimeOf(a)) /\ Starts(a)
  BY DEF Train
<1>2. TrainingOK'
  BY <1>1 DEF TrainingOK
<1> QED
  BY <1>1, <1>2 DEF IInv, StageOK, DiskOK, VerdictOK, Ran

LEMMA PublishKeeps ==
  ASSUME IInv, Export \/ ExportBeforeWorkspaces
  PROVE  IInv'
<1>1. /\ stage = "trained" /\ UNCHANGED <<trained, cfg, payload, edits>>
      /\ stage' \in {"published", "unexported"}
  BY DEF Export, ExportBeforeWorkspaces
<1>2. StageOK'
  BY <1>1 DEF IInv, StageOK, Ran
<1>3. TrainingOK'
  BY <1>1 DEF IInv, TrainingOK, Ran
<1>4. \A c, n : disk' = Published(c, n) => SealedFrom(Published(c, n))'
  BY DEF SealedFrom, Published
<1>5. DiskOK'
  <2>1. CASE Export
    <3>1. stage' = "published" => disk' = Published(cfg, trained.rt.slots)
      BY <2>1 DEF Export
    <3> QED
      BY <3>1, <1>1, <1>4 DEF DiskOK
  <2>2. CASE ExportBeforeWorkspaces
    <3>1. trained.rt.slots = 1 /\ disk' = Published(LegacyConfig(trained.rt, cfg), 0)
      BY <2>2 DEF ExportBeforeWorkspaces
    <3> QED
      BY <3>1, <1>1, <1>4 DEF DiskOK
  <2> QED
    BY <2>1, <2>2
<1>6. VerdictOK'
  BY <1>1 DEF Export, ExportBeforeWorkspaces, VerdictOK
<1> QED
  BY <1>2, <1>3, <1>5, <1>6 DEF IInv

LEMMA DriftKeeps == IInv /\ Drift => IInv'
<1> SUFFICES ASSUME IInv, Drift PROVE IInv'
  OBVIOUS
<1>1. /\ stage = "published" /\ edits < MaxEdits /\ edits' = edits + 1
      /\ UNCHANGED <<stage, trained, cfg, payload>>
  BY DEF Drift
<1>2. PICK c : \/ disk' = [disk EXCEPT !.config = c, !.report = Recipe(c), !.manifest = Recipe(c)]
               \/ disk' = [disk EXCEPT !.config = c]
  BY DEF Drift
<1>3. edits' \in 0 .. MaxEdits /\ edits' # 0
  BY <1>1, EditBound DEF IInv, StageOK
<1>4. \A run : SealedFrom(run) => DOMAIN disk' = DOMAIN disk /\ disk'.bundle = disk.bundle
                                   /\ disk'.raw = disk.raw
  BY <1>2 DEF SealedFrom
<1>5. ASSUME NEW run, SealedFrom(run)
      PROVE  /\ DOMAIN disk' = {"config", "report", "manifest", "bundle", "raw"}
             /\ disk'.bundle = run.bundle /\ disk'.raw = run.raw
  BY <1>4, <1>5 DEF SealedFrom
<1>6. DiskOK'
  <2>1. CASE SealedFrom(Published(cfg, trained.rt.slots))
    BY <2>1, <1>1, <1>3, <1>5 DEF DiskOK, SealedFrom
  <2>2. CASE /\ trained.rt.slots = 1
             /\ SealedFrom(Published(LegacyConfig(trained.rt, cfg), 0))
    BY <2>2, <1>1, <1>3, <1>5 DEF DiskOK, SealedFrom
  <2> QED
    BY <2>1, <2>2, <1>1 DEF IInv, DiskOK
<1> QED
  BY <1>1, <1>3, <1>6 DEF IInv, StageOK, TrainingOK, VerdictOK, Ran

LEMMA EvaluateKeeps ==
  ASSUME IInv, NEW q \in EvalRequests, Evaluate(q[1], q[2])
  PROVE  IInv'
<1>1. /\ stage = "published" /\ EvalAccepts(disk) /\ stage' = "evaluated"
      /\ payload' = Payload(disk, RuntimeFrom(disk.config), q[1], q[2])
      /\ UNCHANGED <<trained, cfg, disk, edits>>
  BY DEF Evaluate
<1>2. StageOK' /\ TrainingOK' /\ DiskOK'
  BY <1>1 DEF IInv, StageOK, TrainingOK, DiskOK, SealedFrom, Ran
<1>3. VerdictOK'
  BY <1>1 DEF VerdictOK
<1> QED
  BY <1>2, <1>3 DEF IInv

LEMMA Inductive == IInv /\ [Next]_vars => IInv'
<1> SUFFICES ASSUME IInv, [Next]_vars PROVE IInv'
  OBVIOUS
<1>1. ASSUME NEW a \in Launches, Train(a) PROVE IInv'
  BY <1>1, TrainKeeps
<1>2. ASSUME NEW a \in Launches, RefuseTraining(a) PROVE IInv'
  BY <1>2 DEF RefuseTraining, IInv, StageOK, TrainingOK, DiskOK, VerdictOK, Ran
<1>3. CASE Export \/ ExportBeforeWorkspaces
  BY <1>3, PublishKeeps
<1>4. CASE Drift
  BY <1>4, DriftKeeps
<1>5. ASSUME NEW q \in EvalRequests, Evaluate(q[1], q[2]) PROVE IInv'
  BY <1>5, EvaluateKeeps
<1>6. CASE RefuseEval
  BY <1>6 DEF RefuseEval, IInv, StageOK, TrainingOK, DiskOK, VerdictOK, Ran
<1>7. CASE UNCHANGED vars
  BY <1>7 DEF vars, IInv, StageOK, TrainingOK, DiskOK, VerdictOK, SealedFrom
<1> QED
  BY <1>1, <1>2, <1>3, <1>4, <1>5, <1>6, <1>7 DEF Next

(* Which launch ran and what it sealed never changes afterwards.           *)
THEOREM RecipeInductive == Spec => []IInv
<1> QED
  BY Initially, Inductive, PTL DEF Spec

(* A training that passed its checks is refused a bundle for one reason    *)
(* only: the scaling does not give its alpha back (localized.py:1667).     *)
THEOREM OnlyRoundingRefuses == Spec => []OnlyRoundingStopsAnExport
<1>1. IInv => OnlyRoundingStopsAnExport
  BY LaunchMints DEF IInv, TrainingOK, VerdictOK, Ran, OnlyRoundingStopsAnExport
<1> QED
  BY <1>1, RecipeInductive, PTL

(* Whatever was edited, a run that eval accepts is evaluated on the        *)
(* runtime it was trained on and under its objective.                      *)
THEOREM EvaluatesTheTraining == Spec => []EvaluatedIsTrained
<1>1. IInv => EvaluatedIsTrained
  <2> SUFFICES ASSUME IInv, stage = "evaluated"
               PROVE  payload.rt = trained.rt /\ payload.loss = trained.loss
    BY DEF EvaluatedIsTrained
  <2>1. PICK a \in Launches :
          /\ Starts(a)
          /\ trained = [args |-> a, rt |-> RuntimeOf(a), loss |-> LossOf(a.objective, a.trace)]
          /\ cfg = ConfigOf(a, RuntimeOf(a))
    BY DEF IInv, TrainingOK, Ran
  <2> DEFINE c == disk.config
  <2>2. Judged(c) /\ HasRecipe(c) /\ disk.bundle = Recipe(c)
    BY DEF IInv, VerdictOK, EvalAccepts, BundleLoads
  <2>3. /\ payload.rt = RuntimeFrom(c)
        /\ payload.loss = LossOf(Objective(c), On(c, "trace_curriculum"))
    <3>1. PICK q \in EvalRequests :
            payload = Payload(disk, RuntimeFrom(disk.config), q[1], q[2])
      BY DEF IInv, VerdictOK
    <3>2. \A d, rt, k, name : /\ Payload(d, rt, k, name).rt = rt
                              /\ Payload(d, rt, k, name).loss
                                   = LossOf(Objective(d.config), On(d.config, "trace_curriculum"))
      BY DEF Payload
    <3> QED
      BY <3>1, <3>2
  <2>4. trained.rt = RuntimeOf(a) /\ RuntimeOf(a).slots = a.slots
    BY <2>1, RuntimeFields
  <2>5. \/ disk.bundle = Recipe(cfg)
        \/ a.slots = 1 /\ disk.bundle = Recipe(LegacyConfig(RuntimeOf(a), cfg))
    BY <2>4 DEF IInv, DiskOK, SealedFrom, Published
  <2>6. /\ RuntimeFrom(c) = RuntimeOf(a)
        /\ LossOf(Objective(c), On(c, "trace_curriculum")) = LossOf(a.objective, a.trace)
    BY <2>1, <2>2, <2>5, SealedRecipeIsTheTraining
  <2> QED
    BY <2>1, <2>3, <2>6
<1> QED
  BY <1>1, RecipeInductive, PTL

(* What was published and not touched, new or legacy, passes eval, and     *)
(* what eval writes passes the validator of eval payloads.                 *)
THEOREM PublishedCanBeUsed == Spec => []PublishedIsUsable
<1>1. IInv => PublishedIsUsable
  <2> SUFFICES ASSUME IInv PROVE PublishedIsUsable
    OBVIOUS
  <2>1. ASSUME stage = "published", edits = 0 PROVE EvalAccepts(disk)
    <3>1. PICK a \in Launches :
            /\ Starts(a)
            /\ trained = [args |-> a, rt |-> RuntimeOf(a), loss |-> LossOf(a.objective, a.trace)]
            /\ cfg = ConfigOf(a, RuntimeOf(a))
      BY <2>1 DEF IInv, TrainingOK, Ran
    <3>2. trained.rt = RuntimeOf(a) /\ RuntimeOf(a).slots = a.slots
      BY <3>1, RuntimeFields
    <3>3. Judged(cfg) /\ HasRecipe(cfg) /\ Constructible(RuntimeOf(a))
      BY <3>1 DEF Starts
    <3>4. CASE disk = Published(cfg, trained.rt.slots)
      <4>1. RuntimeFrom(cfg) = RuntimeOf(a)
        BY <3>1, ConfigGivesRuntime
      <4>2. Contract(cfg) = RuntimeContractForConfig(RuntimeFrom(cfg), cfg)
        <5>1. Contract(cfg) = RuntimeContract(RuntimeOf(a)) /\ WorkspaceKeys \cap DOMAIN cfg # {}
          BY <3>1, ConfigFields DEF LaunchFields, WorkspaceKeys
        <5> QED
          BY <5>1, <4>1 DEF RuntimeContractForConfig
      <4> QED
        BY <4>1, <4>2, <3>3, <3>4, PublishedIsAccepted
    <3>5. CASE /\ trained.rt.slots = 1
               /\ disk = Published(LegacyConfig(trained.rt, cfg), 0)
      <4> DEFINE old == LegacyConfig(RuntimeOf(a), cfg)
      <4>1. /\ Judged(old) /\ HasRecipe(old) /\ RuntimeFrom(old) = RuntimeOf(a)
            /\ Contract(old) = RuntimeContractForConfig(RuntimeOf(a), old)
        BY <3>1, <3>2, <3>5, LegacyIsSealed
      <4>2. disk = Published(old, 0)
        BY <3>2, <3>5
      <4> HIDE DEF old
      <4> QED
        BY <4>1, <4>2, <3>3, PublishedIsAccepted
    <3> QED
      BY <2>1, <3>4, <3>5 DEF IInv, DiskOK, SealedFrom
  <2>2. ASSUME stage = "evaluated" PROVE ValidateEval(payload)
    BY <2>2, PayloadIsValid DEF IInv, VerdictOK
  <2> QED
    BY <2>1, <2>2 DEF PublishedIsUsable
<1> QED
  BY <1>1, RecipeInductive, PTL

(* A driver that relaunches a command line finds its digest in the run it  *)
(* published, and a run in which a launch finds its digest was trained     *)
(* with the configuration and the runtime that launch would train with.    *)
THEOREM ResumesThePreregistered == Spec => []ResumedIsPreregistered
<1>1. IInv => ResumedIsPreregistered
  <2> SUFFICES ASSUME IInv, stage = "published"
               PROVE  /\ edits = 0 /\ "workspace_slots" \in DOMAIN disk.config =>
                           ValidateRun(disk, Preregistered[trained.args])
                      /\ RunIsSound(disk) =>
                           \A b \in Runnable : ValidateRun(disk, Preregistered[b]) =>
                             /\ ConfigOf(b, RuntimeOf(b)) = cfg
                             /\ RuntimeOf(b) = trained.rt
    BY DEF ResumedIsPreregistered
  <2>1. PICK a \in Launches :
          /\ Starts(a)
          /\ trained = [args |-> a, rt |-> RuntimeOf(a), loss |-> LossOf(a.objective, a.trace)]
          /\ cfg = ConfigOf(a, RuntimeOf(a))
    BY DEF IInv, TrainingOK, Ran
  <2>2. trained.rt = RuntimeOf(a) /\ trained.args = a /\ RuntimeOf(a).slots = a.slots
    BY <2>1, RuntimeFields
  <2>3. /\ Judged(cfg) /\ HasRecipe(cfg) /\ Slots(cfg) = a.slots /\ DOMAIN cfg = LaunchFields
    BY <2>1, ConfigFields DEF Starts
  <2>4. \A b \in Runnable : /\ b \in Launches /\ Starts(b)
                           /\ Preregistered[b] = Recipe(ConfigOf(b, RuntimeOf(b)))
    BY DigestIsTheRecipe DEF Runnable, Preregistered
  <2>5. LET old == LegacyConfig(trained.rt, cfg) IN WorkspaceKeys \cap DOMAIN old = {}
    BY <2>1, <2>2, LegacyFields
  <2>6. ASSUME edits = 0, "workspace_slots" \in DOMAIN disk.config
        PROVE  ValidateRun(disk, Preregistered[trained.args])
    <3>1. disk = Published(cfg, a.slots)
      <4>1. \/ disk = Published(cfg, a.slots)
            \/ disk = Published(LegacyConfig(trained.rt, cfg), 0)
        BY <2>2, <2>6 DEF IInv, DiskOK, SealedFrom
      <4>2. disk # Published(LegacyConfig(trained.rt, cfg), 0)
        BY <2>5, <2>6 DEF Published, WorkspaceKeys
      <4> QED
        BY <4>1, <4>2
    <3>2. /\ disk.config = cfg /\ disk.report = Recipe(cfg) /\ disk.manifest = Recipe(cfg)
          /\ disk.bundle = Recipe(cfg) /\ disk.raw.recipe = Recipe(cfg)
          /\ disk.raw.recurrence = RecurrenceConfig(cfg) /\ disk.raw.compute = a.slots
      BY <3>1 DEF Published
    <3>3. WorkspaceBound(cfg, Recipe(cfg), disk.raw)
      BY <3>2, <2>3, RecordsCarryWorkspace DEF WorkspaceBound, LaunchFields
    <3>4. BundleLoads(disk, Recipe(cfg))
      BY <3>2, <2>3, RecipeReadsBack DEF BundleLoads
    <3>5. Preregistered[a] = Recipe(cfg)
      BY <2>1, <2>4 DEF Runnable
    <3> QED
      BY <2>2, <2>3, <3>2, <3>3, <3>4, <3>5 DEF ValidateRun, RunIsSound
  <2>7. ASSUME RunIsSound(disk), NEW b \in Runnable, ValidateRun(disk, Preregistered[b])
        PROVE  ConfigOf(b, RuntimeOf(b)) = cfg /\ RuntimeOf(b) = trained.rt
    <3> DEFINE d == ConfigOf(b, RuntimeOf(b))
    <3>1. disk.bundle = Recipe(d)
      BY <2>4, <2>7 DEF RunIsSound, ValidateRun, BundleLoads
    <3>2. WorkspaceKeys \subseteq DOMAIN Recipe(d) /\ WorkspaceKeys # {}
      BY <2>4, ConfigFields DEF Recipe, LaunchFields, WorkspaceKeys
    <3> HIDE DEF d
    <3>3. disk.bundle # Recipe(LegacyConfig(trained.rt, cfg))
      <4>1. WorkspaceKeys \cap DOMAIN Recipe(LegacyConfig(trained.rt, cfg)) = {}
        BY <2>5 DEF Recipe
      <4> QED
        BY <4>1, <3>1, <3>2
    <3>4. disk.bundle = Recipe(cfg)
      BY <3>3 DEF IInv, DiskOK, SealedFrom, Published
    <3>5. Recipe(ConfigOf(b, RuntimeOf(b))) = Recipe(ConfigOf(a, RuntimeOf(a)))
      BY <2>1, <3>1, <3>4 DEF d
    <3> QED
      BY <2>1, <2>2, <2>4, <3>5, SameRecipeSameLaunch
  <2> QED
    BY <2>6, <2>7
<1> QED
  BY <1>1, RecipeInductive, PTL
=============================================================================
