----------------------------- MODULE Recurrence -----------------------------
(***************************************************************************)
(* One LocalizedRecurrence over its lifetime: calls follow one another,    *)
(* each layer call, copy, snapshot and head call may raise, and what a     *)
(* call leaves behind is what the next one starts from.                    *)
(***************************************************************************)
EXTENDS LatentCalls

CONSTANTS MCRuntimes,   \* the configurations explored
          Calls(_),     \* the calls made of a configuration
          MaxFaults     \* bound: failures within one call

ASSUME RecurrenceConstants ==
  /\ MCRuntimes \subseteq Runtimes
  /\ \A r \in MCRuntimes : Calls(r) \subseteq CallArguments
  /\ MaxFaults \in Nat

VARIABLES rt, s, call, todo, phase, faults
vars == <<rt, s, call, todo, phase, faults>>

NoCall == [kind |-> "none"]

----------------------------------------------------------------------------
(* Cleanups: leaving a scope normally and while an exception unwinds it.   *)

Pop(st) == [st EXCEPT !.stack = Tail(@)]
Push(st, frame) == [st EXCEPT !.stack = <<frame>> \o @]

CloseScope(st, frame) == [st EXCEPT !.flags = frame[2]]
CloseWindow(st) == [st EXCEPT !.open = Tail(@)]
RollBackNothing(st, frame) == st     \* mutant: a failed copy ends the load
RollBack(st, frame) == [st EXCEPT !.w = frame[2]]

Leave(st, frame, raised) ==
  CASE frame[1] = "lora"    -> CloseScope(st, frame)
    [] frame[1] = "window"  -> CloseWindow(st)
    [] frame[1] = "finally" -> Restore(st, frame[2], frame[3])
    [] frame[1] = "except"  -> IF raised THEN RollBack(st, frame) ELSE st

(* The effect of one instruction.                                          *)
Do(r, i, st) ==
  CASE i[1] = "embed"    -> [st EXCEPT !.h = i[2]]
    [] i[1] = "layer"    -> ApplyLayer(r, st, i[2], i[3], i[4], i[5], i[6], i[7])
    [] i[1] = "boundary" -> [st EXCEPT !.z0[i[2]] = st.h, !.z[i[2]] = st.h]
    [] i[1] = "state"    -> [st EXCEPT !.h = st.z[i[2]]]
    [] i[1] = "base"     -> [st EXCEPT !.base = st.h]
    [] i[1] = "tick"     -> Tick(r, st, i[2], i[3], i[4])
    [] i[1] = "update"   -> Update(r, st, i[2], i[3])
    [] i[1] = "ablate"   -> Ablate(r, st, i[2], i[3])
    [] i[1] = "rewind"   -> Readout(r, [st EXCEPT !.z["target"] = st.traj[i[2]]],
                                    "target")
    [] i[1] = "readout"  -> Readout(r, st, i[2])
    [] i[1] = "readdelta" -> ReadDelta(st, i[2], i[3])
    [] i[1] = "reset"    -> [st EXCEPT !.rd = st.z0["target"], !.delta = Zero]
    [] i[1] = "snap"     -> Snapshot(st, i[2], i[3])
    [] i[1] = "restore"  -> Restore(st, i[2], i[3])
    [] i[1] = "view"     -> [st EXCEPT !.view = Contents(st, "target")]
    [] i[1] = "score"    -> [st EXCEPT !.h = st.rd,
                               !.scores = Append(@, <<i[2], i[3], <<>>>>)]
    [] i[1] = "head"     -> [st EXCEPT !.count["head"] = @ + 1,
                               !.scores[Len(st.scores)][3] = Append(@, <<st.h, i[2]>>)]
    [] i[1] = "inject"   -> [st EXCEPT !.h = IF Neutral(r) THEN Plus(@, st.delta)
                                             ELSE Plus(@, st.rd)]
    [] i[1] = "copy"     -> [st EXCEPT !.w[i[2]] = i[3]]
    [] i[1] = "lora"     -> [Push(st, <<"lora", st.flags>>)
                               EXCEPT !.flags = [l \in DOMAIN @ |-> i[2]]]
    [] i[1] = "window"   -> [Push(st, <<"window">>) EXCEPT !.open = <<i>> \o @]
    [] i[1] = "finally"  -> Push(st, i)
    [] i[1] = "except"   -> Push(st, <<"except", st.w>>)
    [] i[1] = "end"      -> Leave(Pop(st), Head(st.stack), FALSE)

(* Where an exception can come from the libraries below; "raise" is the    *)
(* code's own.                                                             *)
Fallible == {"embed", "layer", "head", "snap", "restore", "copy"}

(* A copy that raises may have written some of its tensor.                 *)
Torn == -1
Damage(i, st) ==
  IF i[1] = "copy" THEN {st, [st EXCEPT !.w[i[2]] = Torn]} ELSE {st}

----------------------------------------------------------------------------
Init ==
  /\ rt \in MCRuntimes
  /\ s = Rest(rt, [t \in Tensors(rt) |-> 0])
  /\ call = NoCall /\ todo = <<>> /\ phase = "idle" /\ faults = 0

Begin ==
  /\ phase = "idle"
  /\ call' \in Calls(rt)
  /\ s' = Enter(rt, s)
  /\ IF Accepts(rt, call')
     THEN phase' = "running" /\ todo' = Program(rt, call')
     ELSE phase' = "raised" /\ todo' = <<>>
  /\ UNCHANGED <<rt, faults>>

Step ==
  /\ phase = "running" /\ todo # <<>> /\ Head(todo)[1] # "raise"
  /\ s' = Do(rt, Head(todo), s)
  /\ todo' = Tail(todo)
  /\ UNCHANGED <<rt, call, phase, faults>>

Return ==
  /\ phase = "running" /\ todo = <<>>
  /\ phase' = "returned"
  /\ UNCHANGED <<rt, s, call, todo, faults>>

(* The code raises, or something it calls does.                            *)
Refuse ==
  /\ phase = "running" /\ todo # <<>> /\ Head(todo)[1] = "raise"
  /\ phase' = "raising" /\ todo' = <<>>
  /\ UNCHANGED <<rt, s, call, faults>>

Fail ==
  /\ phase = "running" /\ todo # <<>> /\ Head(todo)[1] \in Fallible
  /\ faults < MaxFaults
  /\ s' \in Damage(Head(todo), s)
  /\ phase' = "raising" /\ todo' = <<>> /\ faults' = faults + 1
  /\ UNCHANGED <<rt, call>>

Unwind ==
  /\ phase = "raising" /\ s.stack # <<>>
  /\ s' = Leave(Pop(s), Head(s.stack), TRUE)
  /\ UNCHANGED <<rt, call, todo, phase, faults>>

(* The restore of a finally block fails itself; outer blocks still run.    *)
UnwindFails ==
  /\ phase = "raising" /\ s.stack # <<>> /\ Head(s.stack)[1] = "finally"
  /\ faults < MaxFaults
  /\ s' = Pop(s) /\ faults' = faults + 1
  /\ UNCHANGED <<rt, call, todo, phase>>

Escape ==
  /\ phase = "raising" /\ s.stack = <<>>
  /\ phase' = "raised"
  /\ UNCHANGED <<rt, s, call, todo, faults>>

(* The caller goes on: the frame of the call is gone.                      *)
Forget ==
  /\ phase \in {"returned", "raised"}
  /\ phase' = "idle" /\ s' = Enter(rt, s) /\ call' = NoCall /\ faults' = 0
  /\ UNCHANGED <<rt, todo>>

Next == \/ Begin \/ Step \/ Return \/ Refuse \/ Fail \/ Unwind \/ UnwindFails
        \/ Escape \/ Forget

Spec == Init /\ [][Next]_vars

----------------------------------------------------------------------------
(* Properties *)

(* What a program makes of a state when nothing raises.                    *)
Executed(r, st, program) ==
  LET after[n \in 0..Len(program)] ==
        IF n = 0 THEN st ELSE Do(r, program[n], after[n - 1])
  IN after[Len(program)]

(* What a call computes when a fresh runtime with trainables w makes it.   *)
Alone(w, a) == Executed(rt, Rest(rt, w), Program(rt, a))

Results(st) == [j \in DOMAIN st.scores |-> st.scores[j][3]]
Labelled(st, label) == SelectSeq(st.scores, LAMBDA x : x[1] = label)
Returned(kinds) == phase = "returned" /\ call.kind \in kinds

(* However a call ends, and wherever it failed, the adapters are back at   *)
(* their resting state, no guard window is left on the tokenizer or the    *)
(* model, and a load has replaced all tensors or none                      *)
(* (localized.py:117-152, 564-580, 1626-1651).                             *)
CallsLeaveNoTrace ==
  phase \in {"idle", "returned", "raised"} =>
    /\ s.flags = RestingFlags(rt) /\ s.open = <<>>
    /\ s.w = IF Returned({"load"})
             THEN [t \in Tensors(rt) |-> call.sd.version] ELSE s.entry

(* The score of a candidate depends on nothing but the arguments and the   *)
(* trainables: not on the candidates scored before it, nor on calls that   *)
(* went before, failed ones included (localized.py:1003-1017).             *)
ScoresDependOnTheCallOnly ==
  Returned({"score"}) =>
    \A j \in DOMAIN call.cands :
      s.scores[j] = Alone(s.entry, [call EXCEPT !.cands = <<@[j]>>]).scores[1]

(* The controls contain no recurrence: recurrence-only adapters leave K=0  *)
(* as the frozen model, and with a delta readout a zeroed or reset state,  *)
(* or adapters still at their zero initialisation, score exactly as K=0    *)
(* does (localized.py:18-20, 770-776, 814-818, 987-996).                   *)
ControlsCarryNoRecurrence ==
  Returned({"score"}) =>
    LET K0 == [call EXCEPT !.k = 0, !.ab = Clean, !.q = NoPrompt]
        fresh == [t \in Tensors(rt) |-> 0]
        control == \/ call.ab.state \cap {"zero", "reset"} # {}
                   \/ s.entry = fresh /\ "noise" \notin call.ab.state
    IN /\ rt.ro /\ EffectiveK(call.ab, call.k) = 0 =>
            Results(s) = Results(Alone(fresh, call))
       /\ Neutral(rt) /\ control => Results(s) = Results(Alone(s.entry, K0))

(* A state control changes the carrier and nothing else: the answer is     *)
(* read over the same cache, after the same positions and as many layers   *)
(* as in the clean run (localized.py:942-944, 988-990).                    *)
ControlsAreMatched ==
  Returned({"score"}) /\ call.ab.state # {} /\ ~call.ab.cache =>
    LET clean == Alone(s.entry, [call EXCEPT !.ab.state = {}, !.q = NoPrompt])
        swap  == "swap" \in call.ab.state
    IN /\ s.view = clean.view
       /\ s.count["loop"] = clean.count["loop"] * IF swap THEN 2 ELSE 1
       /\ s.count["tail"] = clean.count["tail"]
       /\ s.count["answer"] = clean.count["answer"]
       /\ [j \in DOMAIN s.scores |-> s.scores[j][2]]
            = [j \in DOMAIN clean.scores |-> clean.scores[j][2]]

(* The compute and the cache label that go into the report.                *)
Report(r, a) ==
  LET runs == IF a.q # NoPrompt THEN 2 ELSE 1
      passes == IF r.paired THEN 2 ELSE 1
      eff == EffectiveK(a.ab, a.k)
      apps == IF a.ab.bypass THEN 0 ELSE runs * passes * (r.hi - r.lo) * eff
      Sum(f(_)) == FoldLeft(LAMBDA n, cand : n + f(cand), 0, a.cands)
  IN [prefill |-> NLayers * (PromptLen[a.p]
                             + IF a.q # NoPrompt THEN PromptLen[a.q] ELSE 0),
      loop    |-> apps * r.slots,
      kLoops  |-> runs * eff,
      decoderPasses |-> IF r.paired THEN runs * passes * eff ELSE 0,
      tail    |-> Sum(LAMBDA cand : NLayers - r.hi),
      answer  |-> Sum(LAMBDA cand : NLayers * (Len(cand) - 1)),
      promptOnly |-> Neutral(r) \/ a.ab.cache \/ eff = 0 \/ a.ab.bypass]

(* The report's compute is the compute that was spent, head calls and loop *)
(* steps included, and its cache label says what the readout saw           *)
(* (localized.py:1023-1156).  One figure is left out where it is not true: *)
(* under bypass_interval a paired runtime seals recurrence_decoder_passes  *)
(* of 2 * eff a run (1080-1086), although no decoder pass is made (765-    *)
(* 782); without the bypass the passes are the ones that were made.        *)
ReportIsTrue ==
  Returned({"score"}) =>
    LET report == Report(rt, call)
        prompt == Alone(s.entry, [call EXCEPT !.k = 0, !.ab = Clean,
                                              !.q = NoPrompt]).view
    IN /\ \A p \in {"prefill", "loop", "tail", "answer"} :
            s.count[p] = report[p]
       /\ Len(s.traj) = report.kLoops
       /\ rt.paired /\ ~call.ab.bypass =>
            s.count["loop"] = report.decoderPasses * (rt.hi - rt.lo) * rt.slots
       /\ s.count["head"] = FoldLeft(LAMBDA n, c : n + Len(c), 0, call.cands)
       /\ report.promptOnly = (s.view = prompt)

(* The losses score what the evaluator scores: with no state control, or   *)
(* with a delta readout, the same states over the same caches at the same  *)
(* positions (localized.py:1418-1461, 1525-1557, 1368-1413).               *)
TrainingScoresAreTheEvaluators ==
  LET Eval(p, cands) ==
        Results(Alone(s.entry, [call EXCEPT !.kind = "score", !.p = p,
                                            !.q = NoPrompt, !.cands = cands]))
      Got(label) == [j \in DOMAIN Labelled(s, label) |-> Labelled(s, label)[j][3]]
  IN /\ Returned({"nll"}) /\ (call.ab.state = {} \/ Neutral(rt)) =>
          Results(s) = Eval(call.p, <<call.cands[1]>>)
     /\ Returned({"ce", "trace"}) /\ (call.ab.state = {} \/ Neutral(rt)) =>
          Got("own") = Eval(call.p, call.cands)
     /\ Returned({"margin"}) =>
          /\ Got(<<"target", "own">>) = Eval(call.p, call.cands)
          /\ Got(<<"partner", "own">>) = Eval(call.q, call.cands)
          /\ Got(<<"target", "zero">>)
               = Results(Alone(s.entry, [call EXCEPT !.kind = "score", !.k = 0,
                                                     !.q = NoPrompt]))
=============================================================================
