----------------------------- MODULE LatentCalls -----------------------------
(***************************************************************************)
(* The methods of LocalizedRecurrence as programs of LatentRuntime's       *)
(* instructions.  A program is what one call does when nothing fails; the  *)
(* context managers and try blocks it opens are kept on a stack, so that   *)
(* their cleanups run in both ways out.                                    *)
(***************************************************************************)
EXTENDS LatentRuntime

Scoped(r, on, body) ==
  IF r.ro THEN <<<<"lora", on>>>> \o body \o <<<<"end">>>> ELSE body
Guarded(body) == <<<<"window">>>> \o body \o <<<<"end">>>>

(* One stream of n tokens through layers from..to of context c.            *)
Run(from, to, c, pos, n, what, phase) ==
  [j \in 1..(to - from + 1) |->
     <<"layer", c, from + j - 1, pos, n, what, phase>>]

Encode(r, c, p) ==
  IF PromptLen[p] < r.slots THEN <<<<"raise">>>>
  ELSE <<<<"embed", <<"prompt", p>>>>>>
       \o Scoped(r, FALSE,
            Run(1, r.hi, c, 0, PromptLen[p], p, "prefill")
            \o <<<<"boundary", c>>>>
            \o Run(r.hi + 1, NLayers, c, 0, PromptLen[p], p, "prefill"))

(* One recurrent step.  Both branches of a paired step start from the      *)
(* prompt's cache at the fixed position; a plain step appends.             *)
PassBypassed(r, ab, c, pos, on) ==     \* mutant: bypass ignored
  Scoped(r, on, Run(r.lo + 1, r.hi, c, pos, r.slots, "loop", "loop"))
Pass(r, ab, c, pos, on) ==
  IF ab.bypass THEN <<>>
  ELSE Scoped(r, on, Run(r.lo + 1, r.hi, c, pos, r.slots, "loop", "loop"))

PairedStepShared(r, ab, c, start, ci) ==     \* mutant: one cache for both
  <<<<"state", c>>>> \o Pass(r, ab, c, start, FALSE) \o <<<<"base">>>>
  \o <<<<"tick", c, ci, ab.clocks # <<"off">>>>>> \o Pass(r, ab, c, start, TRUE)
  \o <<<<"update", c, ci>>, <<"restore", c, <<"loop", c>>>>>>
PairedStep(r, ab, c, start, ci) ==
  <<<<"state", c>>>> \o Pass(r, ab, c, start, FALSE) \o <<<<"base">>>>
  \o <<<<"restore", c, <<"loop", c>>>>>>
  \o <<<<"tick", c, ci, ab.clocks # <<"off">>>>>> \o Pass(r, ab, c, start, TRUE)
  \o <<<<"update", c, ci>>, <<"restore", c, <<"loop", c>>>>>>

SingleStep(r, ab, c, pos, ci) ==
  <<<<"tick", c, ci, ab.clocks # <<"off">>>>>> \o Pass(r, ab, c, pos, TRUE)
  \o <<<<"update", c, ci>>>>
  \o (IF Neutral(r) THEN <<<<"restore", c, <<"loop", c>>>>>> ELSE <<>>)

LoopStep(r, ab, c, start, j, ci) ==
  (IF Neutral(r) THEN <<<<"restore", c, <<"loop", c>>>>>> ELSE <<>>)
  \o IF r.paired THEN PairedStep(r, ab, c, start, ci)
     ELSE SingleStep(r, ab, c, IF Neutral(r) THEN start ELSE start + j - 1, ci)

LoopUnlessReset(r, ab, c, start, k) ==     \* mutant: reset skips the loop
  IF "reset" \in ab.state THEN <<>>
  ELSE FlattenSeq([j \in 1..EffectiveK(ab, k) |->
                     LoopStep(r, ab, c, start, j, ClockSteps(ab.clocks, k)[j])])
Loop(r, ab, c, start, k) ==
  FlattenSeq([j \in 1..EffectiveK(ab, k) |->
                LoopStep(r, ab, c, start, j, ClockSteps(ab.clocks, k)[j])])

StateControls(c, state) ==
  IF "zero" \in state THEN <<<<"ablate", c, "zero">>>>
  ELSE IF "noise" \in state THEN <<<<"ablate", c, "noise">>>> ELSE <<>>

LatentSteps(r, ab, c, start, k) ==
  IF k \notin 0..MaxK THEN <<<<"raise">>>>
  ELSE (IF Neutral(r) THEN <<<<"snap", c, <<"loop", c>>>>>> ELSE <<>>)
       \o Guarded(IF Neutral(r)
                  THEN <<<<"finally", c, <<"loop", c>>>>>>
                       \o Loop(r, ab, c, start, k) \o <<<<"end">>>>
                  ELSE Loop(r, ab, c, start, k))
       \o StateControls(c, ab.state)

(* The position the answer starts at.                                      *)
ReadoutPos(r, ab, p, k) ==
  PromptLen[p] + IF Neutral(r) THEN 0 ELSE EffectiveK(ab, k)

(* Score one candidate, token by token.                                    *)
AnswerToken(r, c, pos, tok, next, last) ==
  Guarded(<<<<"head", tok>>>>)
  \o IF last THEN <<>>
     ELSE <<<<"embed", <<"token", tok>>>>>>
          \o Scoped(r, FALSE, Run(1, r.hi, c, next, 1, tok, "answer")
                              \o <<<<"inject">>>>
                              \o Run(r.hi + 1, NLayers, c, next, 1, tok, "answer"))

ScoreTokens(r, c, pos, cand, label) ==
  IF cand = <<>> THEN <<<<"raise">>>>
  ELSE LET tail == r.hi < NLayers
           first == pos + IF tail THEN 1 ELSE 0
       IN <<<<"score", label, cand>>>>
          \o (IF tail THEN Scoped(r, FALSE, Run(r.hi + 1, NLayers, c, pos, 1,
                                                "carrier", "tail"))
              ELSE <<>>)
          \o FlattenSeq([j \in DOMAIN cand |->
               AnswerToken(r, c, pos, cand[j], first + j - 1, j = Len(cand))])

ScoreEachOnward(r, c, pos, key, cands, label) ==     \* mutant: no restore
  FlattenSeq([j \in DOMAIN cands |-> ScoreTokens(r, c, pos, cands[j], label)])
ScoreEach(r, c, pos, key, cands, label) ==
  FlattenSeq([j \in DOMAIN cands |->
    <<<<"restore", c, key>>>> \o ScoreTokens(r, c, pos, cands[j], label)])

----------------------------------------------------------------------------
(* The public calls.  p and q are the prompt and its partner, gold and     *)
(* otherGold the indexes of their gold candidates, targets the states on   *)
(* the way a trace loss scores with their answers, sd the tensors to load. *)

NoPrompt == "none"

ASSUME PromptNames == NoPrompt \notin Prompts

AblationArguments ==
  [state : SUBSET {"zero", "noise", "swap", "reset"}, cache : BOOLEAN,
   clocks : {<<"identity">>, <<"off">>, <<"reverse">>} \cup ({"perm"} \X Seq(Nat)),
   bypass : BOOLEAN, truncate : Int]

CallArguments ==
  {a \in [kind : {"score", "nll", "ce", "trace", "margin", "load"},
          k : Int, ab : AblationArguments, p : Prompts, q : Prompts \cup {NoPrompt},
          cands : Seq(Seq(Tokens)), gold : Int, otherGold : Int,
          targets : Seq(Int \X Seq(Tokens)),
          sd : [sound : BOOLEAN, version : Nat]] :
     /\ a.kind = "margin" => a.q # NoPrompt
     /\ a.kind = "nll" => a.cands # <<>>}

ScoreCall(r, a) ==
  LET swap == "swap" \in a.ab.state
      pos == ReadoutPos(r, a.ab, a.p, a.k)
  IN Encode(r, "target", a.p)
     \o (IF a.ab.cache THEN <<<<"snap", "target", <<"prompt">>>>>> ELSE <<>>)
     \o (IF swap THEN Encode(r, "partner", a.q) ELSE <<>>)
     \o LatentSteps(r, a.ab, "target", PromptLen[a.p], a.k)
     \o <<<<"readout", "target">>>>
     \o (IF swap THEN LatentSteps(r, a.ab, "partner", PromptLen[a.q], a.k)
                      \o <<<<"readout", "partner">>>>
         ELSE <<>>)
     \o (IF "reset" \in a.ab.state THEN <<<<"reset">>>> ELSE <<>>)
     \o (IF a.ab.cache THEN <<<<"restore", "target", <<"prompt">>>>>> ELSE <<>>)
     \o <<<<"snap", "target", <<"read">>>>, <<"view">>>>
     \o ScoreEach(r, "target", pos, <<"read">>, a.cands, "own")

(* Training encodes and recurs as scoring does, but reads a zeroed or      *)
(* noised state over the prompt's cache.                                   *)
TrainPrefixRestoring(r, a) ==     \* mutant: the prompt's cache, always
  Encode(r, "target", a.p) \o <<<<"snap", "target", <<"prompt">>>>>>
  \o LatentSteps(r, a.ab, "target", PromptLen[a.p], a.k)
  \o <<<<"restore", "target", <<"prompt">>>>>>
TrainPrefix(r, a) ==
  LET state == a.ab.state # {}
  IN Encode(r, "target", a.p)
     \o (IF state THEN <<<<"snap", "target", <<"prompt">>>>>> ELSE <<>>)
     \o LatentSteps(r, a.ab, "target", PromptLen[a.p], a.k)
     \o (IF state THEN <<<<"restore", "target", <<"prompt">>>>>> ELSE <<>>)

NllCall(r, a) ==
  TrainPrefix(r, a) \o <<<<"readout", "target">>, <<"view">>>>
  \o ScoreTokens(r, "target", ReadoutPos(r, a.ab, a.p, a.k), a.cands[1], "own")

CeCall(r, a) ==
  TrainPrefix(r, a)
  \o <<<<"snap", "target", <<"read">>>>, <<"readout", "target">>, <<"view">>>>
  \o ScoreEach(r, "target", ReadoutPos(r, a.ab, a.p, a.k), <<"read">>, a.cands,
               "own")

(* The trace curriculum also scores states on the way, over the prompt.    *)
TraceCall(r, a) ==
  Encode(r, "target", a.p) \o <<<<"snap", "target", <<"prompt">>>>>>
  \o LatentSteps(r, Clean, "target", PromptLen[a.p], a.k)
  \o <<<<"snap", "target", <<"read">>>>, <<"readout", "target">>, <<"view">>>>
  \o ScoreEach(r, "target", PromptLen[a.p], <<"read">>, a.cands, "own")
  \o FlattenSeq([j \in DOMAIN a.targets |->
       <<<<"restore", "target", <<"prompt">>>>, <<"rewind", a.targets[j][1]>>>>
       \o ScoreTokens(r, "target", PromptLen[a.p], a.targets[j][2],
                      <<"trace", a.targets[j][1]>>)])

(* The counterfactual margin: two prompts, each scored with its own delta, *)
(* without one and with the other's.                                       *)
RecurrentContext(r, c, p, k) ==
  Encode(r, c, p) \o <<<<"snap", c, <<"prompt", c>>>>>>
  \o LatentSteps(r, Clean, c, PromptLen[p], k)
  \o <<<<"restore", c, <<"prompt", c>>>>>>

ScoreDelta(r, a, c, p, which) ==
  <<<<"readdelta", c, which>>>>
  \o ScoreEach(r, c, PromptLen[p], <<"prompt", c>>, a.cands, <<c, which>>)

MarginCall(r, a) ==
  RecurrentContext(r, "target", a.p, a.k) \o RecurrentContext(r, "partner", a.q, a.k)
  \o <<<<"view">>>>
  \o FlattenSeq([j \in 1..3 |->
       LET which == <<"own", "zero", "other">>[j]
       IN ScoreDelta(r, a, "target", a.p, which)
          \o ScoreDelta(r, a, "partner", a.q, which)])

(* Loading adapter tensors: every copy, with the rollback as an except     *)
(* block around them.                                                      *)
LoadCall(r, a) ==
  <<<<"except">>>> \o [j \in 1..Cardinality(Tensors(r)) |->
                        <<"copy", SetToSeq(Tensors(r))[j], a.sd.version>>]
  \o <<<<"end">>>>

(* Arguments refused before anything is done.                              *)
TrainAblation(r, a) ==
  /\ ValidAblation(a.ab, a.k)
  /\ ~(r.ro /\ a.k = 0)
  /\ a.ab.state \subseteq {"zero", "noise"} /\ ~a.ab.cache
GoldIsACandidate(a) == a.gold \in DOMAIN a.cands

Accepts(r, a) ==
  CASE a.kind = "score"  -> /\ a.cands # <<>> /\ ValidAblation(a.ab, a.k)
                            /\ ("swap" \in a.ab.state) = (a.q # NoPrompt)
    [] a.kind = "nll"    -> TrainAblation(r, a)
    [] a.kind = "ce"     -> TrainAblation(r, a) /\ GoldIsACandidate(a)
    [] a.kind = "trace"  -> /\ r.paired /\ r.slots = 1 /\ a.k = FixedK
                            /\ GoldIsACandidate(a) /\ a.cands[a.gold] # <<>>
                            /\ \A j \in DOMAIN a.targets :
                                 /\ a.targets[j][1] \in 1..(a.k - 1)
                                 /\ j > 1 => a.targets[j - 1][1] < a.targets[j][1]
                                 /\ a.targets[j][2] \notin {<<>>, a.cands[a.gold]}
    [] a.kind = "margin" -> /\ r.paired /\ a.k = FixedK
                            /\ Len(a.cands) > 1 /\ <<>> \notin ToSet(a.cands)
                            /\ GoldIsACandidate(a)
                            /\ a.otherGold \in DOMAIN a.cands \ {a.gold}
    [] a.kind = "load"   -> a.sd.sound

Program(r, a) ==
  CASE a.kind = "score"  -> ScoreCall(r, a)
    [] a.kind = "nll"    -> NllCall(r, a)
    [] a.kind = "ce"     -> CeCall(r, a)
    [] a.kind = "trace"  -> IF a.targets = <<>>
                            THEN CeCall(r, [a EXCEPT !.ab = Clean])
                            ELSE TraceCall(r, a)
    [] a.kind = "margin" -> MarginCall(r, a)
    [] a.kind = "load"   -> LoadCall(r, a)
=============================================================================
