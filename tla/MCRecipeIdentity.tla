-------------------------- MODULE MCRecipeIdentity --------------------------
(***************************************************************************)
(* RecipeIdentity with the trainer's switches, all of them, over four      *)
(* layers and two pairs of rank and alpha, one of which rounds.            *)
(***************************************************************************)
EXTENDS RecipeIdentity

\* (29.0 / 7) * 7 is 29.000000000000004
MCInexact == {<<29, 7>>}

Switches ==
  [spec : {"full", "0,n"}, k : {0, 4}, max_k : {4}, rank : {<<16, 8>>, <<29, 7>>},
   training : {"t"}, objective : {"gold_nll"} \cup SealedObjectives, ro : BOOLEAN,
   neutral : BOOLEAN, paired : BOOLEAN, trace : BOOLEAN, slots : {1, 2}]
MCLaunches ==
  {[spec |-> x.spec, k |-> x.k, max_k |-> x.max_k, lora_alpha |-> x.rank[1],
    lora_r |-> x.rank[2], training |-> x.training, objective |-> x.objective, ro |-> x.ro,
    neutral |-> x.neutral, paired |-> x.paired, trace |-> x.trace, slots |-> x.slots]
   : x \in Switches}

MCEvalRequests == {<<0, "clean">>, <<3, "truncate_half">>}

\* Every mode the trainer can seal, and some whose suffixes are out of order.
Sealed == {ModeFromSpec(Effective(a)) : a \in {b \in MCLaunches : TrainerAccepts(b)}}
Misordered ==
  {<<"D-full", RecurrenceOnly, "candidate_ce">>, <<"D-full", Trace, Paired, "candidate_ce">>,
   <<"D-full", "candidate_ce", Neutral>>, <<"D-full", RecurrenceOnly, RecurrenceOnly>>}
Contracts ==
  {RuntimeContract(RuntimeOf(a)) :
     a \in {b \in MCLaunches : Starts(b)}}

MCDriftValues(key) ==
  CASE key = "mode" -> Sealed \cup Misordered
    [] key = "interval" -> {<<0, NLayers>>, <<2, 3>>, <<0, NLayers - 1>>}
    [] key = "k" -> {0, 4}
    [] key = "max_k" -> {4, 8}
    [] key = "lora_r" -> {7, 8}
    [] key = "lora_alpha" -> {16, 29}
    [] key = "training" -> {"t", "u"}
    [] key = "training_objective" -> {"gold_nll"} \cup SealedObjectives
    [] key = "workspace_slots" -> {1, 2}
    [] key = "workspace_layout" -> {Layout}
    [] key = "runtime_contract" -> Contracts
    [] OTHER -> BOOLEAN
=============================================================================
