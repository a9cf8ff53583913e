------------------------- MODULE TrainRecordsProofs --------------------------
(***************************************************************************)
(* The training loop.  The tracker agrees with the canonical selector and  *)
(* the export is the earliest best checkpoint, for every number of steps,  *)
(* evaluation interval and number of validation examples; and the loop     *)
(* that keeps raw evidence implements the loop that draws the number of    *)
(* hits, so that all of it holds of metrics counted from records, whatever *)
(* the suite, the candidates and the scores are.                           *)
(***************************************************************************)
EXTENDS TrainRecords, FiniteSetTheorems, WellFoundedInduction, TLAPS


Entries == [step: 1 .. Steps, metric: 0 .. Examples, state: 0 .. Steps]

(* The history is in the order of the steps.                               *)
Ordered(h) == \A i, j \in DOMAIN h : i < j => h[i].step < h[j].step

(* Where the loop is, what it has evaluated and what it trains.            *)
PlaceOK ==
  /\ \A i \in DOMAIN history : history[i].step <= step
  /\ pc \in {"forward", "optimize"} => step < Steps /\ params >= 0
  /\ pc = "evaluate" => /\ step >= 1 /\ params >= 0 /\ EvalDue(step)
                        /\ \A i \in DOMAIN history : history[i].step < step
  /\ pc \in {"reload", "bind", "exported"} => step = Steps

(* Every checkpoint that was due is in the history, and nothing else.      *)
CoveredOK ==
  pc \notin Failed =>
    \A s \in 1 .. Steps :
      (\E i \in DOMAIN history : history[i].step = s)
        <=> EvalDue(s) /\ s <= step /\ (pc = "evaluate" => s < step)

BestOK == IF history = <<>>
          THEN best = NoBest
          ELSE \E i \in DOMAIN history : IsSelected(history, i) /\ best = history[i]

ExportOK == /\ pc = "bind" => best # NoBest /\ params = best.state
            /\ pc = "exported" => best # NoBest /\ report = best /\ params = best.state

IInv == /\ LoopTypeOK /\ Ordered(history)
        /\ PlaceOK /\ CoveredOK /\ BestOK /\ ExportOK

-----------------------------------------------------------------------------
(* A selected checkpoint of an ordered history is the one Selected names.  *)
LEMMA SelectedIsUnique ==
  ASSUME NEW h \in Seq(Entries), Ordered(h), NEW i \in DOMAIN h, IsSelected(h, i)
  PROVE  Selected(h) = h[i]
<1> DEFINE k == CHOOSE j \in DOMAIN h : IsSelected(h, j)
<1>1. k \in DOMAIN h /\ IsSelected(h, k)
  OBVIOUS
<1> HIDE DEF k
<1>2. /\ i \in Nat /\ k \in Nat
      /\ h[i].metric \in Int /\ h[k].metric \in Int
      /\ h[i].step \in Int /\ h[k].step \in Int
  <2>1. h[i] \in Entries /\ h[k] \in Entries /\ i \in Nat /\ k \in Nat
    BY <1>1
  <2>2. \A e \in Entries : e.metric \in Int /\ e.step \in Int
    BY DEF Entries
  <2> QED
    BY <2>1, <2>2
<1>3. h[i].metric <= h[k].metric /\ h[k].metric <= h[i].metric
  BY <1>1 DEF IsSelected
<1>4. h[i].step <= h[k].step /\ h[k].step <= h[i].step
  BY <1>1, <1>2, <1>3 DEF IsSelected
<1>5. ~(i < k) /\ ~(k < i)
  BY <1>1, <1>2, <1>4 DEF Ordered
<1>6. i = k
  BY <1>2, <1>5
<1> QED
  BY <1>6 DEF Selected, k

(* Appending a later checkpoint moves the selection only when it does      *)
(* strictly better.                                                        *)
LEMMA SelectionAfterAppend ==
  ASSUME NEW h \in Seq(Entries), Ordered(h), NEW e \in Entries,
         \A j \in DOMAIN h : h[j].step < e.step
  PROVE  LET g == Append(h, e) IN
         /\ g \in Seq(Entries) /\ Ordered(g)
         /\ h = <<>> => IsSelected(g, 1) /\ g[1] = e
         /\ \A i \in DOMAIN h : IsSelected(h, i) =>
              IF e.metric > h[i].metric
              THEN IsSelected(g, Len(h) + 1) /\ g[Len(h) + 1] = e
              ELSE IsSelected(g, i) /\ g[i] = h[i] /\ g[i].step # e.step
<1> DEFINE g == Append(h, e)
<1>1. /\ g \in Seq(Entries) /\ DOMAIN g = DOMAIN h \cup {Len(h) + 1}
      /\ Len(h) \in Nat /\ DOMAIN h = 1 .. Len(h)
      /\ g[Len(h) + 1] = e /\ \A j \in DOMAIN h : g[j] = h[j] /\ h[j] \in Entries
  OBVIOUS
<1>2. Ordered(g)
  BY <1>1 DEF Ordered
<1>3. ASSUME h = <<>> PROVE IsSelected(g, 1) /\ g[1] = e
  <2>1. DOMAIN g = {1} /\ g[1] = e
    BY <1>3, <1>1
  <2> QED
    BY <2>1 DEF IsSelected, Entries
<1>4. ASSUME NEW i \in DOMAIN h, IsSelected(h, i)
      PROVE  IF e.metric > h[i].metric
             THEN IsSelected(g, Len(h) + 1) /\ g[Len(h) + 1] = e
             ELSE IsSelected(g, i) /\ g[i] = h[i] /\ g[i].step # e.step
  <2> HIDE DEF g
  <2>1. /\ \A j \in DOMAIN h : h[j].metric <= h[i].metric
        /\ \A j \in DOMAIN h : h[j].metric = h[i].metric => h[i].step <= h[j].step
    BY <1>4 DEF IsSelected
  <2>2. /\ e.metric \in Int /\ e.step \in Int
        /\ \A j \in DOMAIN h : h[j].metric \in Int /\ h[j].step \in Int
    BY <1>1 DEF Entries
  <2>3. CASE e.metric > h[i].metric
    <3>1. \A j \in DOMAIN h : g[j].metric < e.metric
      BY <1>1, <2>1, <2>2, <2>3
    <3> QED
      BY <3>1, <1>1, <2>2, <2>3 DEF IsSelected
  <2>4. CASE ~(e.metric > h[i].metric)
    <3>1. IsSelected(g, i)
      BY <1>1, <2>1, <2>2, <2>4 DEF IsSelected
    <3> QED
      BY <3>1, <1>1, <2>2, <2>4
  <2> QED
    BY <2>3, <2>4
<1> QED
  BY <1>1, <1>2, <1>3, <1>4

-----------------------------------------------------------------------------
(* The number of steps done bounds the live state and the history.         *)
LEMMA Initially == Init => IInv
BY LoopConstants, SMT DEF Init, IInv, LoopTypeOK, Ordered, PlaceOK, CoveredOK, BestOK, ExportOK,
   NoBest, NonFinite, Partial, Failed, EvalDue

LEMMA EvaluateKeeps == IInv /\ Evaluate => IInv'
<1> SUFFICES ASSUME IInv, Evaluate PROVE IInv'
  OBVIOUS
<1>1. PICK hits \in 0 .. Examples :
        LET entry == [step |-> step, metric |-> hits, state |-> params]
        IN /\ history' = Append(history, entry)
           /\ best' = IF Selected(history').step = step THEN Update(entry) ELSE best
  BY DEF Evaluate
<1> DEFINE e == [step |-> step, metric |-> hits, state |-> params]
<1>2. /\ history \in Seq(Entries) /\ Ordered(history)
      /\ e \in Entries /\ e.step = step
      /\ \A j \in DOMAIN history : history[j].step < step
  BY LoopConstants, <1>1 DEF Evaluate, IInv, LoopTypeOK, PlaceOK, Entries, Partial, NonFinite
<1>3. history' = Append(history, e) /\ history' \in Seq(Entries) /\ Ordered(history')
      /\ UNCHANGED <<step, params, report>> /\ pc = "evaluate" /\ pc' = NextStep(step)
  BY <1>1, <1>2, SelectionAfterAppend DEF Evaluate
<1>4. /\ DOMAIN history' = DOMAIN history \cup {Len(history) + 1}
      /\ history'[Len(history) + 1] = e
      /\ \A j \in DOMAIN history : history'[j] = history[j]
  BY <1>2, <1>3
<1>5. best' = IF Selected(history').step = step THEN Update(e) ELSE best
  BY <1>1
<1>6. e.metric \in Nat /\ NoBest.metric = -1
  BY <1>2 DEF Entries, NoBest
<1> HIDE DEF e
<1>7. BestOK'
  <2>1. CASE history = <<>>
    <3>1. IsSelected(history', 1) /\ history'[1] = e /\ 1 \in DOMAIN history'
      <4>1. IsSelected(history', 1) /\ history'[1] = e
        BY <2>1, <1>2, <1>3, SelectionAfterAppend
      <4> QED
        BY <4>1 DEF IsSelected
    <3>2. Selected(history') = e
      BY <3>1, <1>3, SelectedIsUnique
    <3>3. best = NoBest
      BY <2>1 DEF IInv, BestOK
    <3>4. best' = e
      BY <3>2, <3>3, <1>2, <1>5 DEF Update
    <3>5. history' # <<>>
      BY <3>1
    <3> QED
      BY <3>1, <3>4, <3>5 DEF BestOK
  <2>2. CASE history # <<>>
    <3>1. PICK i \in DOMAIN history : IsSelected(history, i) /\ best = history[i]
      BY <2>2 DEF IInv, BestOK
    <3>2. history[i] \in Entries /\ best # NoBest /\ history' # <<>>
      <4>1. history[i] \in Entries
        BY <1>2
      <4>2. history[i].metric \in Nat
        BY <4>1 DEF Entries
      <4>3. history[i] # NoBest
        BY <4>2, <1>6
      <4>4. Len(history) + 1 \in DOMAIN history'
        BY <1>4
      <4>5. history' # <<>>
        BY <4>4
      <4> QED
        BY <4>1, <4>3, <4>5, <3>1
    <3>3. CASE e.metric > history[i].metric
      <4>1. IsSelected(history', Len(history) + 1)
        BY <3>1, <3>3, <1>2, <1>3, SelectionAfterAppend
      <4>2. Selected(history') = e
        BY <4>1, <1>3, <1>4, SelectedIsUnique
      <4>3. best' = e
        BY <4>2, <3>1, <3>3, <1>2, <1>5 DEF Update
      <4> QED
        BY <4>1, <4>3, <1>4, <3>2 DEF BestOK
    <3>4. CASE ~(e.metric > history[i].metric)
      <4>1. IsSelected(history', i) /\ history'[i] = history[i] /\ history'[i].step # e.step
        BY <3>1, <3>4, <1>2, <1>3, SelectionAfterAppend
      <4>2. Selected(history') = history[i]
        BY <4>1, <1>3, <1>4, SelectedIsUnique
      <4>3. best' = best
        BY <4>1, <4>2, <1>2, <1>5
      <4> QED
        BY <4>1, <4>3, <3>1, <3>2, <1>4 DEF BestOK
    <3> QED
      BY <3>3, <3>4
  <2> QED
    BY <2>1, <2>2
<1>8. best' \in Entries \cup {NoBest}
  BY <1>7, <1>3 DEF BestOK
<1>9. /\ pc' \in {"reload", "forward"}
      /\ (pc' = "reload" => step = Steps) /\ (pc' = "forward" => step # Steps)
  BY <1>3 DEF NextStep
<1>10. LoopTypeOK'
  BY <1>3, <1>8, <1>9 DEF IInv, LoopTypeOK, Entries, Failed
<1>11. PlaceOK'
  <2>1. \A i \in DOMAIN history' : history'[i].step <= step'
    <3>1. \A i \in DOMAIN history : history[i].step <= step
      BY DEF IInv, PlaceOK
    <3>2. step' = step /\ step \in Int
      BY <1>3, LoopConstants DEF IInv, LoopTypeOK
    <3> QED
      BY <3>1, <3>2, <1>2, <1>4
  <2>2. params >= 0 /\ step \in 0 .. Steps /\ Steps \in Nat
    BY <1>3, LoopConstants DEF IInv, LoopTypeOK, PlaceOK
  <2> QED
    BY <2>1, <2>2, <1>3, <1>9 DEF PlaceOK
<1>12. CoveredOK'
  <2> SUFFICES ASSUME NEW s \in 1 .. Steps
               PROVE  (\E i \in DOMAIN history' : history'[i].step = s) <=> EvalDue(s) /\ s <= step
    BY <1>3, <1>9 DEF CoveredOK, EvalDue
  <2>1. (\E i \in DOMAIN history : history[i].step = s) <=> EvalDue(s) /\ s <= step /\ s < step
    BY <1>3 DEF IInv, CoveredOK, Failed
  <2>2. (\E i \in DOMAIN history' : history'[i].step = s)
          <=> (\E i \in DOMAIN history : history[i].step = s) \/ s = step
    BY <1>2, <1>4
  <2>3. EvalDue(step) /\ step \in Nat
    BY <1>3, LoopConstants DEF IInv, PlaceOK, LoopTypeOK
  <2> QED
    BY <2>1, <2>2, <2>3
<1>13. ExportOK'
  BY <1>9 DEF ExportOK
<1> QED
  BY <1>3, <1>7, <1>10, <1>11, <1>12, <1>13 DEF IInv

LEMMA OptimizerKeeps == IInv /\ OptimizerStep => IInv'
<1> SUFFICES ASSUME IInv, OptimizerStep PROVE IInv'
  OBVIOUS
<1>1. /\ pc = "optimize" /\ step < Steps /\ params >= 0
      /\ params' \in {params, step + 1} /\ step' = step + 1
      /\ pc' = IF EvalDue(step') THEN "evaluate" ELSE NextStep(step')
      /\ UNCHANGED <<history, best, report>>
  BY DEF OptimizerStep, IInv, PlaceOK
<1>2. /\ step \in Nat /\ step' \in 1 .. Steps /\ params' \in 0 .. Steps
      /\ params' >= 0
      /\ \A i \in DOMAIN history : history[i].step \in Nat /\ history[i].step <= step
  <2>1. step \in Nat /\ step' \in 1 .. Steps
    BY <1>1, LoopConstants DEF IInv, LoopTypeOK
  <2>2. params \in 0 .. Steps
    BY <1>1, LoopConstants DEF IInv, LoopTypeOK, Partial, NonFinite
  <2>3. params' \in 0 .. Steps /\ params' >= 0
    BY <1>1, <2>1, <2>2
  <2>4. \A i \in DOMAIN history : history[i].step \in Nat /\ history[i].step <= step
    <3>1. history \in Seq(Entries)
      BY DEF IInv, LoopTypeOK, Entries
    <3>2. \A i \in DOMAIN history : history[i] \in Entries
      BY <3>1
    <3> QED
      BY <3>2 DEF IInv, PlaceOK, Entries
  <2> QED
    BY <2>1, <2>3, <2>4
<1>3. /\ pc' \in {"evaluate", "reload", "forward"}
      /\ pc' = "evaluate" <=> EvalDue(step')
      /\ pc' = "reload" => step' = Steps
      /\ pc' = "forward" => step' # Steps
  BY <1>1 DEF NextStep
<1>4. LoopTypeOK'
  BY <1>1, <1>2, <1>3, LoopConstants DEF IInv, LoopTypeOK, Failed
<1>5. PlaceOK'
  BY <1>1, <1>2, <1>3, LoopConstants DEF PlaceOK
<1>6. CoveredOK'
  BY <1>1, <1>2, <1>3, LoopConstants DEF IInv, CoveredOK, Failed
<1>7. Ordered(history') /\ BestOK' /\ ExportOK'
  BY <1>1, <1>3 DEF IInv, BestOK, ExportOK, Ordered, IsSelected
<1> QED
  BY <1>4, <1>5, <1>6, <1>7 DEF IInv

LEMMA ReloadKeeps == IInv /\ Reload => IInv'
<1> SUFFICES ASSUME IInv, Reload PROVE IInv'
  OBVIOUS
<1>1. best # NoBest => best.state \in 0 .. Steps
  BY DEF IInv, LoopTypeOK
<1>2. LoopTypeOK'
  BY <1>1 DEF Reload, IInv, LoopTypeOK, Failed
<1>3. PlaceOK' /\ CoveredOK' /\ Ordered(history')
  BY DEF Reload, IInv, PlaceOK, CoveredOK, Failed, Ordered
<1>4. BestOK' /\ ExportOK'
  BY DEF Reload, IInv, BestOK, ExportOK, IsSelected
<1> QED
  BY <1>2, <1>3, <1>4 DEF IInv

LEMMA ExportKeeps == IInv /\ BindAndExport => IInv'
<1> SUFFICES ASSUME IInv, BindAndExport PROVE IInv'
  OBVIOUS
<1>1. best # NoBest /\ params = best.state
  BY DEF BindAndExport, IInv, ExportOK
<1>2. report' \in {best, report}
  <2>1. best \in [step: 1 .. Steps, metric: 0 .. Examples, state: 0 .. Steps]
    BY <1>1 DEF IInv, LoopTypeOK
  <2>2. [best EXCEPT !.state = params] = best
    BY <1>1, <2>1
  <2> QED
    BY <2>2 DEF BindAndExport
<1>3. LoopTypeOK'
  BY <1>2 DEF BindAndExport, IInv, LoopTypeOK, Failed
<1>4. PlaceOK' /\ CoveredOK' /\ Ordered(history')
  BY DEF BindAndExport, IInv, PlaceOK, CoveredOK, Failed, Ordered
<1>5. BestOK'
  BY DEF BindAndExport, IInv, BestOK, IsSelected
<1>6. ExportOK'
  <2>1. [best EXCEPT !.state = params] = best
    BY <1>1 DEF IInv, LoopTypeOK
  <2> QED
    BY <1>1, <2>1 DEF BindAndExport, ExportOK
<1> QED
  BY <1>3, <1>4, <1>5, <1>6 DEF IInv

LEMMA Inductive == IInv /\ [Next]_vars => IInv'
<1> SUFFICES ASSUME IInv, [Next]_vars PROVE IInv'
  OBVIOUS
<1>1. CASE Forward
  BY <1>1 DEF Forward, IInv, LoopTypeOK, PlaceOK, CoveredOK, BestOK, ExportOK, Ordered,
              IsSelected, Failed
<1>2. CASE StepFaults
  <2>1. step + 1 \in 0 .. Steps
    BY <1>2, LoopConstants DEF StepFaults, IInv, LoopTypeOK, PlaceOK
  <2> QED
    BY <1>2, <2>1 DEF StepFaults, IInv, LoopTypeOK, PlaceOK, CoveredOK, BestOK, ExportOK,
                      Ordered, IsSelected, Failed
<1>3. CASE OptimizerStep
  BY <1>3, OptimizerKeeps
<1>4. CASE Evaluate
  BY <1>4, EvaluateKeeps
<1>5. CASE EvaluateRaises
  BY <1>5 DEF EvaluateRaises, IInv, LoopTypeOK, PlaceOK, CoveredOK, BestOK, ExportOK, Ordered,
              IsSelected, Failed
<1>6. CASE Reload
  BY <1>6, ReloadKeeps
<1>7. CASE BindAndExport
  BY <1>7, ExportKeeps
<1>8. CASE UNCHANGED vars
  BY <1>8 DEF vars, IInv, LoopTypeOK, PlaceOK, CoveredOK, BestOK, ExportOK, Ordered, IsSelected
<1> QED
  BY <1>1, <1>2, <1>3, <1>4, <1>5, <1>6, <1>7, <1>8 DEF Next

-----------------------------------------------------------------------------
(* The loop's variables keep their types for every configuration.          *)
THEOREM TypeCorrect == Spec => []LoopTypeOK
<1>1. IInv => LoopTypeOK
  BY DEF IInv
<1> QED
  BY <1>1, Initially, Inductive, PTL DEF Spec

(* The incremental tracker and the batch selector agree after every        *)
(* checkpoint: _train_inner's binding never fails on their account.        *)
THEOREM TrackerAgrees == Spec => []TrackerFollowsSelector
<1>1. IInv => TrackerFollowsSelector
  <2> SUFFICES ASSUME IInv PROVE TrackerFollowsSelector
    OBVIOUS
  <2>1. CASE history = <<>>
    BY <2>1 DEF IInv, BestOK, TrackerFollowsSelector
  <2>2. CASE history # <<>>
    <3>1. PICK i \in DOMAIN history : IsSelected(history, i) /\ best = history[i]
      BY <2>2 DEF IInv, BestOK
    <3>2. history \in Seq(Entries) /\ Ordered(history)
      BY DEF IInv, LoopTypeOK, Entries
    <3> QED
      BY <2>2, <3>1, <3>2, SelectedIsUnique DEF TrackerFollowsSelector
  <2> QED
    BY <2>1, <2>2
<1> QED
  BY <1>1, Initially, Inductive, PTL DEF Spec

(* What a run exports is the earliest best of all the checkpoints that     *)
(* were due, never the final state and never one behind a faulted step.    *)
THEOREM ExportIsEarliestBest == Spec => []ExportedIsEarliestBest
<1>1. IInv => ExportedIsEarliestBest
  <2> SUFFICES ASSUME IInv, pc = "exported" PROVE ExportedIsEarliestBest
    BY DEF ExportedIsEarliestBest
  <2>1. best # NoBest /\ report = best /\ params = best.state
    BY DEF IInv, ExportOK
  <2>2. PICK i \in DOMAIN history : IsSelected(history, i) /\ best = history[i]
    BY <2>1 DEF IInv, BestOK
  <2>3. history \in Seq(Entries)
    BY DEF IInv, LoopTypeOK, Entries
  <2>4. \A j \in DOMAIN history :
          history[j].metric \in Nat /\ history[j].step \in 1 .. Steps /\ history[j].state \in Nat
    <3>1. \A j \in DOMAIN history : history[j] \in Entries
      BY <2>3
    <3> QED
      BY <3>1, LoopConstants DEF Entries
  <2>5. \A j \in DOMAIN history :
          /\ history[j].metric <= report.metric
          /\ history[j].step < report.step => history[j].metric < report.metric
          /\ history[j].state >= 0
    BY <2>1, <2>2, <2>4 DEF IsSelected
  <2>6. {s \in 1 .. Steps : EvalDue(s)} = {history[j].step : j \in DOMAIN history}
    <3>1. step = Steps
      BY DEF IInv, PlaceOK
    <3>2. \A s \in 1 .. Steps : (\E j \in DOMAIN history : history[j].step = s) <=> EvalDue(s)
      BY <3>1, LoopConstants DEF IInv, CoveredOK, Failed
    <3> QED
      BY <3>2, <2>4
  <2> QED
    BY <2>1, <2>2, <2>5, <2>6 DEF ExportedIsEarliestBest
<1> QED
  BY <1>1, Initially, Inductive, PTL DEF Spec

-----------------------------------------------------------------------------
(* Metrics counted from raw evidence.                                      *)

(* The pending records form a sequence, and each binds the live adapter.   *)
PendingOK ==
  /\ \E n \in Nat : DOMAIN pending = 1 .. n /\ pending = [i \in 1 .. n |-> pending[i]]
  /\ pending # <<>> => pc \in {"evaluate", "error"}
  /\ \A i \in DOMAIN pending : pending[i].identity.state = params

(* Hits are counted among the records.                                     *)
LEMMA HitsAreBounded ==
  ASSUME NEW records, NEW families, NEW n \in Nat, DOMAIN records = 1 .. n
  PROVE  Hits(records, families) \in 0 .. n
<1> DEFINE hit == {i \in DOMAIN records : records[i].family \in families
                                          /\ records[i].verdict.correct}
<1>1. IsFiniteSet(1 .. n) /\ Cardinality(1 .. n) = n
  BY FS_Interval
<1>2. hit \subseteq 1 .. n
  OBVIOUS
<1>3. IsFiniteSet(hit) /\ Cardinality(hit) <= n
  BY <1>1, <1>2, FS_Subset
<1>4. Cardinality(hit) \in Nat
  BY <1>3, FS_CardinalityType
<1> QED
  BY <1>3, <1>4 DEF Hits
(* What Append does to a sequence of which only the domain is known.       *)
LEMMA AppendToSequence ==
  ASSUME NEW q, NEW n \in Nat, DOMAIN q = 1 .. n, q = [i \in 1 .. n |-> q[i]], NEW e
  PROVE  /\ DOMAIN Append(q, e) = 1 .. n + 1
         /\ Append(q, e) = [i \in 1 .. n + 1 |-> Append(q, e)[i]]
         /\ \A i \in 1 .. n : Append(q, e)[i] = q[i]
         /\ Append(q, e)[n + 1] = e
<1> DEFINE S == {q[i] : i \in 1 .. n} \cup {e}
<1>1. q \in [1 .. n -> S]
  OBVIOUS
<1>2. q \in Seq(S) /\ e \in S
  BY <1>1
<1>3. Len(q) = n
  BY <1>2
<1> HIDE DEF S
<1>4. Append(q, e) \in Seq(S) /\ Len(Append(q, e)) = n + 1
  BY <1>2, <1>3
<1> QED
  BY <1>2, <1>3, <1>4

LEMMA PendingInvariant == RecordedSpec => []PendingOK
<1>1. RecordedInit => PendingOK
  BY DEF RecordedInit, Init, PendingOK
<1>2. PendingOK /\ [RecordedNext]_rvars => PendingOK'
  <2> SUFFICES ASSUME PendingOK, [RecordedNext]_rvars PROVE PendingOK'
    OBVIOUS
  <2>1. CASE UNCHANGED rvars
    BY <2>1 DEF PendingOK, rvars, vars
  <2>2. CASE /\ Forward \/ StepFaults \/ OptimizerStep \/ EvaluateRaises \/ Reload
             /\ UNCHANGED <<pending, raw, refused>>
    <3>1. CASE EvaluateRaises
      BY <2>2, <3>1 DEF PendingOK, EvaluateRaises
    <3>2. CASE Forward \/ StepFaults \/ OptimizerStep \/ Reload
      <4>1. pending = <<>>
        BY <3>2 DEF PendingOK, Forward, StepFaults, OptimizerStep, Reload
      <4> QED
        BY <2>2, <4>1 DEF PendingOK
    <3> QED
      BY <2>2, <3>1, <3>2
  <2>3. CASE ScoreExample
    <3>1. params' = params /\ pc = "evaluate"
      BY <2>3 DEF ScoreExample
    <3>2. CASE UNCHANGED pending /\ pc' = "error"
      BY <3>1, <3>2 DEF PendingOK
    <3>3. ASSUME NEW id, NEW rows,
                 pending' = Append(pending, EvalRecord(Identity(params), id, "validation", rows)),
                 UNCHANGED pc
          PROVE  PendingOK'
      <4> DEFINE record == EvalRecord(Identity(params), id, "validation", rows)
      <4>1. record.identity.state = params
        BY DEF EvalRecord, Identity
      <4> HIDE DEF record
      <4>2. PICK n \in Nat : DOMAIN pending = 1 .. n /\ pending = [i \in 1 .. n |-> pending[i]]
        BY DEF PendingOK
      <4>3. /\ DOMAIN pending' = 1 .. n + 1
            /\ pending' = [i \in 1 .. n + 1 |-> pending'[i]]
            /\ \A i \in 1 .. n : pending'[i] = pending[i]
            /\ pending'[n + 1] = record
        BY <3>3, <4>2, AppendToSequence DEF record
      <4>4. ASSUME NEW i \in 1 .. n + 1 PROVE pending'[i].identity.state = params
        <5>1. CASE i = n + 1
          BY <4>1, <4>3, <5>1
        <5>2. CASE i \in 1 .. n
          <6>1. pending[i].identity.state = params
            BY <4>2, <5>2 DEF PendingOK
          <6> QED
            BY <4>3, <5>2, <6>1
        <5> QED
          BY <5>1, <5>2
      <4>5. n + 1 \in Nat
        OBVIOUS
      <4>6. \A i \in DOMAIN pending' : pending'[i].identity.state = params'
        BY <3>1, <4>3, <4>4
      <4>7. \E m \in Nat : DOMAIN pending' = 1 .. m /\ pending' = [i \in 1 .. m |-> pending'[i]]
        BY <4>3, <4>5
      <4> QED
        BY <3>1, <3>3, <4>6, <4>7 DEF PendingOK
    <3> QED
      BY <2>3, <3>2, <3>3 DEF ScoreExample
  <2>4. CASE CloseCheckpoint
    <3>1. CASE pending' = <<>>
      <4>1. DOMAIN pending' = 1 .. 0 /\ pending' = [i \in 1 .. 0 |-> pending'[i]]
        BY <3>1
      <4>2. 0 \in Nat /\ \A i \in DOMAIN pending' : FALSE
        BY <4>1
      <4> QED
        BY <3>1, <4>1, <4>2 DEF PendingOK
    <3>2. CASE UNCHANGED pending /\ pc' = "error"
      BY <2>4, <3>2 DEF CloseCheckpoint, PendingOK
    <3> QED
      BY <2>4, <3>1, <3>2 DEF CloseCheckpoint
  <2>5. CASE RecordedExport
    <3>1. pending = <<>> /\ pending' = pending
      BY <2>5 DEF RecordedExport, BindAndExport, PendingOK
    <3> QED
      BY <3>1 DEF PendingOK
  <2> QED
    BY <2>1, <2>2, <2>3, <2>4, <2>5 DEF RecordedNext
<1> QED
  BY <1>1, <1>2, PTL DEF RecordedSpec

(* Every step of the loop with records is a step of the loop that draws    *)
(* its metrics, or leaves that loop where it is: scoring an example is     *)
(* invisible there, a refused record is one of its evaluation errors, and  *)
(* a closed checkpoint is an evaluation with the hits the records count.   *)
THEOREM ImplementsLoop == RecordedSpec => Spec
<1>1. RecordedInit => Init
  BY DEF RecordedInit
<1>2. PendingOK /\ [RecordedNext]_rvars => [Next]_vars
  <2> SUFFICES ASSUME PendingOK, [RecordedNext]_rvars PROVE [Next]_vars
    OBVIOUS
  <2>1. CASE UNCHANGED rvars
    BY <2>1 DEF rvars, vars
  <2>2. CASE Forward \/ StepFaults \/ OptimizerStep \/ EvaluateRaises \/ Reload
    BY <2>2 DEF Next
  <2>3. CASE ScoreExample
    <3>1. CASE pc' = "error"
      BY <2>3, <3>1 DEF ScoreExample, Next, EvaluateRaises
    <3>2. CASE UNCHANGED pc
      BY <2>3, <3>2 DEF ScoreExample, vars
    <3> QED
      BY <2>3, <3>1, <3>2 DEF ScoreExample
  <2>4. CASE CloseCheckpoint
    <3> DEFINE e == [step |-> step, metrics |-> Summary(pending), records |-> pending]
    <3>1. CASE pc' = "error" /\ UNCHANGED <<history, best>>
      BY <2>4, <3>1 DEF CloseCheckpoint, Next, EvaluateRaises
    <3>2. CASE /\ history' = Append(history, AsEntry(e))
               /\ best' = IF Selected(history').step = step THEN Update(AsEntry(e)) ELSE best
               /\ pc' = NextStep(step)
      <4>1. PICK n \in Nat : DOMAIN pending = 1 .. n /\ pending = [i \in 1 .. n |-> pending[i]]
        BY DEF PendingOK
      <4>2. n = Examples
        <5> DEFINE S == {pending[i] : i \in 1 .. n}
        <5>1. pending \in [1 .. n -> S]
          BY <4>1
        <5>2. Len(pending) = n
          BY <5>1
        <5> QED
          BY <5>2, <2>4 DEF CloseCheckpoint
      <4>3. Summary(pending).hits \in 0 .. Examples
        BY <4>1, <4>2, HitsAreBounded DEF Summary
      <4>4. pending[1].identity.state = params
        BY <4>1, <4>2, LoopConstants DEF PendingOK
      <4>5. AsEntry(e) = [step |-> step, metric |-> Summary(pending).hits, state |-> params]
        BY <4>4 DEF AsEntry
      <4>6. Evaluate
        BY <2>4, <3>2, <4>3, <4>5 DEF CloseCheckpoint, Evaluate
      <4> QED
        BY <4>6 DEF Next
    <3> QED
      BY <2>4, <3>1, <3>2 DEF CloseCheckpoint
  <2>5. CASE RecordedExport
    BY <2>5 DEF RecordedExport, Next
  <2> QED
    BY <2>1, <2>2, <2>3, <2>4, <2>5 DEF RecordedNext
<1> QED
  BY <1>1, <1>2, PendingInvariant, PTL DEF RecordedSpec, Spec

(* The tracker that sees counted metrics holds what the selector finds in  *)
(* the whole history.                                                      *)
THEOREM RecordedTracker == RecordedSpec => []TrackerFollowsSelector
  BY ImplementsLoop, TrackerAgrees, PTL

(* The export of the loop with records is the earliest best of all due     *)
(* checkpoints, by the number of hits their records count.                 *)
THEOREM RecordedExportIsEarliestBest == RecordedSpec => []ExportedIsEarliestBest
  BY ImplementsLoop, ExportIsEarliestBest, PTL

-----------------------------------------------------------------------------
(* Rankings.                                                               *)

(* A set of numbers that is not empty has a least one.                     *)
LEMMA FirstOf ==
  ASSUME NEW S \in SUBSET Nat, S # {}
  PROVE  \E n \in S : \A m \in S : ~(m < n)
<1>1. PICK n \in S : \A m \in S : <<m, n>> \notin OpToRel(<, Nat)
  BY NatLessThanWellFounded, WFMin
<1>2. \A m \in S : ~(m < n)
  BY <1>1 DEF OpToRel
<1> QED BY <1>2

(* A sum exists for every row: a row without one would have a first prefix *)
(* without one.                                                            *)
SumsTo(f, row, n) == /\ f = [m \in 0 .. n |-> f[m]] /\ f[0] = 0
                     /\ \A m \in 1 .. n : f[m] = f[m - 1] + row[m]

LEMMA PrefixSums ==
  ASSUME NEW row \in Seq(Int)
  PROVE  \E f \in [0 .. Len(row) -> Int] : SumsTo(f, row, Len(row))
<1> DEFINE Bad == {n \in 0 .. Len(row) : ~ \E f \in [0 .. n -> Int] : SumsTo(f, row, n)}
<1>0. Len(row) \in Nat
  OBVIOUS
<1> SUFFICES ASSUME Bad # {} PROVE FALSE
  BY <1>0
<1>1. Bad \in SUBSET Nat
  BY <1>0
<1>2. PICK n \in Bad : \A m \in Bad : ~(m < n)
  <2> HIDE DEF Bad
  <2> QED BY <1>1, FirstOf
<1>3. CASE n = 0
  <2> DEFINE f == [m \in 0 .. 0 |-> 0]
  <2>1. f \in [0 .. 0 -> Int] /\ SumsTo(f, row, 0)
    BY DEF SumsTo
  <2> QED BY <1>3, <2>1
<1>4. CASE n # 0
  <2>1. n \in 1 .. Len(row) /\ n - 1 \in 0 .. Len(row) /\ n - 1 < n
    BY <1>0, <1>4
  <2>2. n - 1 \notin Bad
    BY <1>2, <2>1
  <2>3. PICK g \in [0 .. n - 1 -> Int] : SumsTo(g, row, n - 1)
    BY <2>1, <2>2
  <2> DEFINE f == [m \in 0 .. n |-> IF m = n THEN g[n - 1] + row[n] ELSE g[m]]
  <2>4. row[n] \in Int /\ g[n - 1] \in Int
    BY <2>1, <2>3
  <2>5. f \in [0 .. n -> Int]
    BY <2>1, <2>3, <2>4
  <2>6. f[0] = 0
    BY <2>1, <2>3 DEF SumsTo
  <2>8. ASSUME NEW m \in 1 .. n PROVE f[m] = f[m - 1] + row[m]
    <3>1. m \in 0 .. n /\ m - 1 \in 0 .. n /\ m - 1 # n
      BY <2>1
    <3>2. f[m] = (IF m = n THEN g[n - 1] + row[n] ELSE g[m]) /\ f[m - 1] = g[m - 1]
      BY <3>1
    <3>3. \A k \in 1 .. n - 1 : g[k] = g[k - 1] + row[k]
      BY <2>3 DEF SumsTo
    <3>4. m # n => m \in 1 .. n - 1
      BY <2>1
    <3> QED BY <3>2, <3>3, <3>4
  <2>7. SumsTo(f, row, n)
    BY <2>6, <2>8 DEF SumsTo
  <2> QED BY <2>5, <2>7
<1> QED BY <1>3, <1>4

(* The sum of log probabilities is a number.                               *)
LEMMA TotalIsInt ==
  ASSUME NEW row \in Seq(Int)
  PROVE  Total(row) \in Int
<1> DEFINE upTo[n \in 0 .. Len(row)] == IF n = 0 THEN 0 ELSE upTo[n - 1] + row[n]
<1>0. Len(row) \in Nat
  OBVIOUS
<1>1. PICK f \in [0 .. Len(row) -> Int] : SumsTo(f, row, Len(row))
  BY PrefixSums
<1>2. f = [n \in 0 .. Len(row) |-> IF n = 0 THEN 0 ELSE f[n - 1] + row[n]]
  <2>1. ASSUME NEW n \in 0 .. Len(row)
        PROVE  f[n] = IF n = 0 THEN 0 ELSE f[n - 1] + row[n]
    <3>1. f[0] = 0 /\ \A m \in 1 .. Len(row) : f[m] = f[m - 1] + row[m]
      BY <1>1 DEF SumsTo
    <3>2. n # 0 => n \in 1 .. Len(row)
      BY <1>0
    <3> QED BY <3>1, <3>2
  <2>2. f = [n \in 0 .. Len(row) |-> f[n]]
    BY <1>1
  <2> QED BY <2>1, <2>2
<1>3. upTo = [n \in 0 .. Len(row) |-> IF n = 0 THEN 0 ELSE upTo[n - 1] + row[n]]
  BY <1>2
<1>4. Total(row) = upTo[Len(row)]
  BY DEF Total
<1> HIDE DEF upTo
<1> DEFINE Bad == {n \in 0 .. Len(row) : upTo[n] \notin Int}
<1>5. Bad = {}
  <2> SUFFICES ASSUME Bad # {} PROVE FALSE
    OBVIOUS
  <2>1. Bad \in SUBSET Nat
    BY <1>0
  <2>2. PICK n \in Bad : \A m \in Bad : ~(m < n)
    <3> HIDE DEF Bad
    <3> QED BY <2>1, FirstOf
  <2>3. n \in 0 .. Len(row) /\ upTo[n] = IF n = 0 THEN 0 ELSE upTo[n - 1] + row[n]
    BY <1>3
  <2>4. n # 0
    BY <2>3
  <2>5. n - 1 \in 0 .. Len(row) /\ n - 1 < n /\ row[n] \in Int
    BY <1>0, <2>3, <2>4
  <2>6. upTo[n - 1] \in Int
    BY <2>2, <2>5
  <2> QED BY <2>3, <2>4, <2>5, <2>6
<1> QED BY <1>0, <1>4, <1>5

(* A strict total order of a set of indices; what is above an index.       *)
IsOrder(S, R) ==
  /\ \A i \in S : <<i, i>> \notin R
  /\ \A i, j \in S : i # j => <<i, j>> \in R \/ <<j, i>> \in R
  /\ \A i, j, k \in S : <<i, j>> \in R /\ <<j, k>> \in R => <<i, k>> \in R

Above(S, R, i) == {j \in S : <<j, i>> \in R}

(* In such an order no two indices have the same number above them, so     *)
(* every number of places is some index's.                                 *)
LEMMA PlacesAreTaken ==
  ASSUME NEW n \in Nat, NEW R, IsOrder(1 .. n, R)
  PROVE  /\ \A i \in 1 .. n : Cardinality(Above(1 .. n, R, i)) \in 0 .. n - 1
         /\ \A i, j \in 1 .. n : Cardinality(Above(1 .. n, R, i)) = Cardinality(Above(1 .. n, R, j))
                                   => i = j
         /\ \A m \in 1 .. n : \E i \in 1 .. n : Cardinality(Above(1 .. n, R, i)) = m - 1
<1> DEFINE S == 1 .. n
           A(i) == Above(S, R, i)
<1>1. IsFiniteSet(S) /\ Cardinality(S) = n
  BY FS_Interval
<1>2. \A i \in S : A(i) \subseteq S /\ i \notin A(i)
  BY DEF Above, IsOrder
<1> HIDE DEF S
<1>3. \A i \in S : /\ IsFiniteSet(A(i)) /\ Cardinality(A(i)) \in Nat
                   /\ Cardinality(A(i)) <= n /\ Cardinality(A(i)) # n
  <2> TAKE i \in S
  <2> HIDE DEF A
  <2>1. A(i) \in SUBSET S /\ A(i) # S
    BY <1>2
  <2>2. IsFiniteSet(A(i)) /\ Cardinality(A(i)) <= n /\ (n = Cardinality(A(i)) => S = A(i))
    BY <1>1, <2>1, FS_Subset
  <2> QED BY <2>1, <2>2, FS_CardinalityType
<1>4. ASSUME NEW i \in S, NEW j \in S, <<j, i>> \in R
      PROVE  Cardinality(A(j)) # Cardinality(A(i))
  <2>1. A(j) \subseteq A(i) /\ j \in A(i) /\ j \notin A(j)
    BY <1>4 DEF Above, IsOrder, S
  <2> HIDE DEF A
  <2>2. Cardinality(A(i)) = Cardinality(A(j)) => A(i) = A(j)
    BY <1>3, <2>1, FS_Subset
  <2> QED BY <2>1, <2>2
<1>5. ASSUME NEW i \in S, NEW j \in S, Cardinality(A(i)) = Cardinality(A(j))
      PROVE  i = j
  <2> HIDE DEF A
  <2> QED BY <1>4, <1>5 DEF IsOrder, S
<1>6. ASSUME NEW m \in S, \A i \in S : Cardinality(A(i)) # m - 1
      PROVE  FALSE
  <2> DEFINE T == (0 .. n - 1) \ {m - 1}
             f == [i \in S |-> Cardinality(A(i))]
  <2>1. f \in [S -> T]
    <3> HIDE DEF A
    <3> QED BY <1>3, <1>6
  <2>2. IsFiniteSet(0 .. n - 1) /\ Cardinality(0 .. n - 1) = n
    <3>1. n - 1 \in Int /\ 0 \in Int
      OBVIOUS
    <3>2. /\ IsFiniteSet(0 .. n - 1)
          /\ Cardinality(0 .. n - 1) = IF 0 > n - 1 THEN 0 ELSE n - 1 - 0 + 1
      BY <3>1, FS_Interval
    <3> QED BY <3>2
  <2>3. m - 1 \in 0 .. n - 1
    BY DEF S
  <2>4. IsFiniteSet(T) /\ Cardinality(T) = n - 1
    BY <2>2, <2>3, FS_RemoveElement
  <2>5. Cardinality(T) < Cardinality(S)
    BY <1>1, <2>4
  <2> HIDE DEF f, T
  <2>6. \E x, y \in S : x # y /\ f[x] = f[y]
    BY <1>1, <2>1, <2>4, <2>5, FS_PigeonHole
  <2> QED BY <1>5, <2>6 DEF f
<1>7. \A i \in S : Cardinality(A(i)) \in 0 .. n - 1
  <2> HIDE DEF A
  <2> QED BY <1>3
<1> QED BY <1>5, <1>6, <1>7 DEF S

(* Comparing two numbers and comparing their multiples is the same.        *)
LEMMA Scaling ==
  ASSUME NEW x \in Int, NEW y \in Int, NEW k \in Nat \ {0}
  PROVE  /\ x > y <=> x * k > y * k
         /\ x = y <=> x * k = y * k
  OBVIOUS

(* Comparison of means by cross multiplication is transitive.              *)
LEMMA MeansCompare ==
  ASSUME NEW a \in Int, NEW b \in Int, NEW c \in Int,
         NEW x \in Nat \ {0}, NEW y \in Nat \ {0}, NEW z \in Nat \ {0}
  PROVE  /\ a * y > b * x /\ b * z > c * y => a * z > c * x
         /\ a * y > b * x /\ b * z = c * y => a * z > c * x
         /\ a * y = b * x /\ b * z > c * y => a * z > c * x
         /\ a * y = b * x /\ b * z = c * y => a * z = c * x
<1>1. /\ a * y \in Int /\ b * x \in Int /\ b * z \in Int /\ c * y \in Int
      /\ a * z \in Int /\ c * x \in Int
  OBVIOUS
<1>2. /\ (a * y > b * x <=> (a * y) * z > (b * x) * z)
      /\ (a * y = b * x <=> (a * y) * z = (b * x) * z)
  BY <1>1, Scaling
<1>3. /\ (b * z > c * y <=> (b * z) * x > (c * y) * x)
      /\ (b * z = c * y <=> (b * z) * x = (c * y) * x)
  BY <1>1, Scaling
<1>4. /\ (a * z > c * x <=> (a * z) * y > (c * x) * y)
      /\ (a * z = c * x <=> (a * z) * y = (c * x) * y)
  BY <1>1, Scaling
<1>5. /\ (a * y) * z = (a * z) * y
      /\ (b * x) * z = (b * z) * x
      /\ (c * y) * x = (c * x) * y
  OBVIOUS
<1>6. (a * z) * y \in Int /\ (b * z) * x \in Int /\ (c * x) * y \in Int
  OBVIOUS
<1> DEFINE p == (a * z) * y
           q == (b * z) * x
           r == (c * x) * y
<1>7. /\ a * y > b * x <=> p > q
      /\ a * y = b * x <=> p = q
      /\ b * z > c * y <=> q > r
      /\ b * z = c * y <=> q = r
      /\ a * z > c * x <=> p > r
      /\ a * z = c * x <=> p = r
  BY <1>2, <1>3, <1>4, <1>5
<1>8. p \in Int /\ q \in Int /\ r \in Int
  BY <1>6
<1> HIDE DEF p, q, r
<1> QED BY <1>7, <1>8

(* Rows of scores, one for each of n candidates, none of them empty.       *)
Scores(rows, n) == /\ DOMAIN rows = 1 .. n
                   /\ \A i \in 1 .. n : rows[i] \in Seq(Int) /\ Len(rows[i]) > 0

(* Better and Level are a total preorder of such rows.                     *)
LEMMA ScoresCompare ==
  ASSUME NEW n \in Nat, NEW rows, Scores(rows, n),
         NEW i \in 1 .. n, NEW j \in 1 .. n, NEW k \in 1 .. n
  PROVE  /\ ~Better(rows[i], rows[i]) /\ Level(rows[i], rows[i])
         /\ Level(rows[i], rows[j]) => Level(rows[j], rows[i])
         /\ Better(rows[i], rows[j]) => ~Better(rows[j], rows[i]) /\ ~Level(rows[i], rows[j])
         /\ Better(rows[i], rows[j]) \/ Level(rows[i], rows[j]) \/ Better(rows[j], rows[i])
         /\ Better(rows[i], rows[j]) /\ Better(rows[j], rows[k]) => Better(rows[i], rows[k])
         /\ Better(rows[i], rows[j]) /\ Level(rows[j], rows[k]) => Better(rows[i], rows[k])
         /\ Level(rows[i], rows[j]) /\ Better(rows[j], rows[k]) => Better(rows[i], rows[k])
         /\ Level(rows[i], rows[j]) /\ Level(rows[j], rows[k]) => Level(rows[i], rows[k])
<1> DEFINE T(m) == Total(rows[m])
           L(m) == Len(rows[m])
<1>1. \A m \in 1 .. n : T(m) \in Int /\ L(m) \in Nat \ {0}
  <2> TAKE m \in 1 .. n
  <2>1. rows[m] \in Seq(Int) /\ Len(rows[m]) > 0
    BY DEF Scores
  <2> QED BY <2>1, TotalIsInt
<1>2. \A l, m \in 1 .. n : /\ Better(rows[l], rows[m]) <=> T(l) * L(m) > T(m) * L(l)
                           /\ Level(rows[l], rows[m]) <=> T(l) * L(m) = T(m) * L(l)
  BY DEF Better, Level
<1> HIDE DEF T, L
<1>3. \A l, m \in 1 .. n : T(l) * L(m) \in Int
  BY <1>1
<1>4. /\ T(i) * L(j) > T(j) * L(i) /\ T(j) * L(k) > T(k) * L(j) => T(i) * L(k) > T(k) * L(i)
      /\ T(i) * L(j) > T(j) * L(i) /\ T(j) * L(k) = T(k) * L(j) => T(i) * L(k) > T(k) * L(i)
      /\ T(i) * L(j) = T(j) * L(i) /\ T(j) * L(k) > T(k) * L(j) => T(i) * L(k) > T(k) * L(i)
      /\ T(i) * L(j) = T(j) * L(i) /\ T(j) * L(k) = T(k) * L(j) => T(i) * L(k) = T(k) * L(i)
  BY <1>1, MeansCompare
<1> DEFINE P(l, m) == T(l) * L(m)
<1>5. \A l, m \in 1 .. n : /\ P(l, m) \in Int
                           /\ Better(rows[l], rows[m]) <=> P(l, m) > P(m, l)
                           /\ Level(rows[l], rows[m]) <=> P(l, m) = P(m, l)
  BY <1>2, <1>3
<1>6. /\ P(i, j) > P(j, i) /\ P(j, k) > P(k, j) => P(i, k) > P(k, i)
      /\ P(i, j) > P(j, i) /\ P(j, k) = P(k, j) => P(i, k) > P(k, i)
      /\ P(i, j) = P(j, i) /\ P(j, k) > P(k, j) => P(i, k) > P(k, i)
      /\ P(i, j) = P(j, i) /\ P(j, k) = P(k, j) => P(i, k) = P(k, i)
  BY <1>4
<1> HIDE DEF P
<1> QED BY <1>5, <1>6

(* The order of a ranking: better scores first, equals as before says.     *)
Prior(rows, before) ==
  {p \in (DOMAIN rows) \X (DOMAIN rows) :
     \/ Better(rows[p[1]], rows[p[2]])
     \/ Level(rows[p[1]], rows[p[2]]) /\ <<p[1], p[2]>> \in before}

LEMMA PriorMeans ==
  ASSUME NEW n, NEW rows, DOMAIN rows = 1 .. n, NEW before, NEW i \in 1 .. n, NEW j \in 1 .. n
  PROVE  <<i, j>> \in Prior(rows, before) <=>
           \/ Better(rows[i], rows[j])
           \/ Level(rows[i], rows[j]) /\ <<i, j>> \in before
  BY DEF Prior

(* It is a strict total order when that of the equals is.                  *)
LEMMA PriorIsOrder ==
  ASSUME NEW n \in Nat, NEW rows, Scores(rows, n), NEW before, IsOrder(1 .. n, before)
  PROVE  IsOrder(1 .. n, Prior(rows, before))
<1> DEFINE R == Prior(rows, before)
           B(i, j) == Better(rows[i], rows[j])
           E(i, j) == Level(rows[i], rows[j])
<1>1. \A i, j \in 1 .. n : <<i, j>> \in R <=> B(i, j) \/ (E(i, j) /\ <<i, j>> \in before)
  <2> TAKE i, j \in 1 .. n
  <2>1. DOMAIN rows = 1 .. n
    BY DEF Scores
  <2> QED BY <2>1, PriorMeans
<1>2. \A i, j, k \in 1 .. n :
         /\ ~B(i, i) /\ E(i, i)
         /\ E(i, j) => E(j, i)
         /\ B(i, j) => ~B(j, i) /\ ~E(i, j)
         /\ B(i, j) \/ E(i, j) \/ B(j, i)
         /\ B(i, j) /\ B(j, k) => B(i, k)
         /\ B(i, j) /\ E(j, k) => B(i, k)
         /\ E(i, j) /\ B(j, k) => B(i, k)
         /\ E(i, j) /\ E(j, k) => E(i, k)
  BY ScoresCompare
<1> HIDE DEF R, B, E
<1>3. \A i \in 1 .. n : <<i, i>> \notin R
  BY <1>1, <1>2 DEF IsOrder
<1>4. \A i, j \in 1 .. n : i # j => <<i, j>> \in R \/ <<j, i>> \in R
  <2> TAKE i, j \in 1 .. n
  <2>1. i # j => <<i, j>> \in before \/ <<j, i>> \in before
    BY DEF IsOrder
  <2>2. (B(i, j) => <<i, j>> \in R) /\ (B(j, i) => <<j, i>> \in R)
    BY <1>1
  <2>3. /\ E(i, j) /\ <<i, j>> \in before => <<i, j>> \in R
        /\ E(j, i) /\ <<j, i>> \in before => <<j, i>> \in R
    BY <1>1
  <2> QED BY <1>2, <2>1, <2>2, <2>3
<1>5. \A i, j, k \in 1 .. n : <<i, j>> \in R /\ <<j, k>> \in R => <<i, k>> \in R
  <2> TAKE i, j, k \in 1 .. n
  <2>1. <<i, j>> \in before /\ <<j, k>> \in before => <<i, k>> \in before
    BY DEF IsOrder
  <2> QED BY <1>1, <1>2, <2>1
<1> QED BY <1>3, <1>4, <1>5 DEF IsOrder, R

(* The n-th of a ranking is the one index with n - 1 above it.             *)
LEMMA RankedPlaces ==
  ASSUME NEW n \in Nat, NEW rows, Scores(rows, n), NEW before, IsOrder(1 .. n, before)
  PROVE  /\ Ranked(rows, before) \in [1 .. n -> 1 .. n]
         /\ \A m, i \in 1 .. n :
              Ranked(rows, before)[m] = i
                <=> Cardinality(Above(1 .. n, Prior(rows, before), i)) = m - 1
<1> DEFINE R == Prior(rows, before)
           C(i) == Cardinality(Above(1 .. n, R, i))
           above(i) == {j \in DOMAIN rows : \/ Better(rows[j], rows[i])
                                            \/ Level(rows[j], rows[i]) /\ <<j, i>> \in before}
<1>0. DOMAIN rows = 1 .. n
  BY DEF Scores
<1>1. \A i \in 1 .. n : above(i) = Above(1 .. n, R, i)
  <2> TAKE i \in 1 .. n
  <2>1. ASSUME NEW j \in 1 .. n
        PROVE  <<j, i>> \in R <=> \/ Better(rows[j], rows[i])
                                  \/ Level(rows[j], rows[i]) /\ <<j, i>> \in before
    BY <1>0, PriorMeans
  <2> HIDE DEF R
  <2>2. ASSUME NEW j PROVE j \in above(i) <=> j \in Above(1 .. n, R, i)
    BY <1>0, <2>1 DEF Above
  <2> HIDE DEF above
  <2> QED BY <2>2
<1>2. Ranked(rows, before) =
        [m \in DOMAIN rows |-> CHOOSE i \in DOMAIN rows : Cardinality(above(i)) = m - 1]
  BY DEF Ranked
<1>3. /\ \A i, j \in 1 .. n : C(i) = C(j) => i = j
      /\ \A m \in 1 .. n : \E i \in 1 .. n : C(i) = m - 1
  BY PriorIsOrder, PlacesAreTaken
<1> HIDE DEF R, above
<1>4. ASSUME NEW m \in 1 .. n
      PROVE  /\ Ranked(rows, before)[m] \in 1 .. n
             /\ C(Ranked(rows, before)[m]) = m - 1
  <2> DEFINE place == CHOOSE i \in 1 .. n : Cardinality(above(i)) = m - 1
  <2>1. \E i \in 1 .. n : Cardinality(above(i)) = m - 1
    BY <1>1, <1>3
  <2>2. place \in 1 .. n /\ Cardinality(above(place)) = m - 1
    BY <2>1
  <2>3. Ranked(rows, before)[m] = place
    BY <1>0, <1>2
  <2> HIDE DEF place
  <2> QED BY <1>1, <2>2, <2>3
<1>5. /\ DOMAIN Ranked(rows, before) = 1 .. n
      /\ Ranked(rows, before) = [m \in 1 .. n |-> Ranked(rows, before)[m]]
  BY <1>0, <1>2
<1> HIDE DEF C
<1>6. Ranked(rows, before) \in [1 .. n -> 1 .. n]
  BY <1>4, <1>5
<1>7. \A m, i \in 1 .. n : Ranked(rows, before)[m] = i <=> C(i) = m - 1
  BY <1>3, <1>4
<1> QED BY <1>6, <1>7 DEF C, R

(* Python compares tuples of token ids: a proper prefix first, otherwise   *)
(* the first difference decides.                                           *)
DiffersAt(s, t, n) == /\ n \in 1 .. Len(s) /\ n \in 1 .. Len(t)
                      /\ s[n] < t[n]
                      /\ \A m \in 1 .. n - 1 : s[m] = t[m]

Begins(s, t) == Len(s) < Len(t) /\ \A m \in 1 .. Len(s) : s[m] = t[m]

(* Which is what the prefixes and subsequences of TokensBefore say.        *)
LEMMA TokensBeforeMeans ==
  ASSUME NEW s \in Seq(Nat), NEW t \in Seq(Nat)
  PROVE  TokensBefore(s, t) <=> Begins(s, t) \/ \E n \in Nat : DiffersAt(s, t, n)
<1>0. /\ Len(s) \in Nat /\ DOMAIN s = 1 .. Len(s) /\ s = [m \in 1 .. Len(s) |-> s[m]]
      /\ Len(t) \in Nat /\ DOMAIN t = 1 .. Len(t) /\ t = [m \in 1 .. Len(t) |-> t[m]]
  OBVIOUS
<1>1. (\E n \in DOMAIN s \cap DOMAIN t : s[n] < t[n] /\ \A m \in 1 .. n - 1 : s[m] = t[m])
        <=> \E n \in Nat : DiffersAt(s, t, n)
  BY <1>0 DEF DiffersAt
<1>2. IsStrictPrefix(s, t) <=> Begins(s, t)
  <2>1. SubSeq(s, 1, Len(s)) = s
    BY <1>0
  <2>2. Len(s) <= Len(t) => SubSeq(t, 1, Len(s)) = [m \in 1 .. Len(s) |-> t[m]]
    BY <1>0
  <2>3. Len(s) <= Len(t) => (SubSeq(t, 1, Len(s)) = s <=> \A m \in 1 .. Len(s) : s[m] = t[m])
    BY <1>0, <2>2
  <2>4. Len(s) = Len(t) /\ (\A m \in 1 .. Len(s) : s[m] = t[m]) => s = t
    BY <1>0
  <2>5. IsStrictPrefix(s, t) <=> /\ Len(s) <= Len(t)
                                 /\ \A m \in 1 .. Len(s) : s[m] = t[m]
                                 /\ s # t
    BY <2>1, <2>3 DEF IsStrictPrefix, IsPrefix
  <2>6. Len(s) < Len(t) => s # t
    BY <1>0
  <2>7. Len(s) \in Nat /\ Len(t) \in Nat
    OBVIOUS
  <2> QED BY <2>4, <2>5, <2>6, <2>7 DEF Begins
<1> QED BY <1>1, <1>2 DEF TokensBefore

(* Tuples of token ids are totally ordered.                                *)
LEMMA TokensAreOrdered ==
  ASSUME NEW s \in Seq(Nat), NEW t \in Seq(Nat), NEW u \in Seq(Nat)
  PROVE  /\ ~TokensBefore(s, s)
         /\ s # t => TokensBefore(s, t) \/ TokensBefore(t, s)
         /\ TokensBefore(s, t) /\ TokensBefore(t, u) => TokensBefore(s, u)
<1>0. /\ Len(s) \in Nat /\ s = [m \in 1 .. Len(s) |-> s[m]] /\ \A m \in 1 .. Len(s) : s[m] \in Nat
      /\ Len(t) \in Nat /\ t = [m \in 1 .. Len(t) |-> t[m]] /\ \A m \in 1 .. Len(t) : t[m] \in Nat
      /\ Len(u) \in Nat /\ \A m \in 1 .. Len(u) : u[m] \in Nat
  OBVIOUS
<1>n. /\ Len(s) \in Nat /\ \A m \in 1 .. Len(s) : s[m] \in Nat
      /\ Len(t) \in Nat /\ \A m \in 1 .. Len(t) : t[m] \in Nat
      /\ Len(u) \in Nat /\ \A m \in 1 .. Len(u) : u[m] \in Nat
  OBVIOUS
<1>l. Len(s) \in Nat /\ Len(t) \in Nat /\ Len(u) \in Nat
  OBVIOUS
<1>1. ~TokensBefore(s, s)
  BY <1>0, TokensBeforeMeans DEF Begins, DiffersAt
<1>2. ASSUME s # t PROVE TokensBefore(s, t) \/ TokensBefore(t, s)
  <2> DEFINE D == {n \in Nat : n \in 1 .. Len(s) /\ n \in 1 .. Len(t) /\ s[n] # t[n]}
  <2>1. CASE D = {}
    <3>1. \A n \in Nat : n \in 1 .. Len(s) /\ n \in 1 .. Len(t) => s[n] = t[n]
      BY <2>1
    <3>2. Len(s) # Len(t)
      <4> SUFFICES ASSUME Len(s) = Len(t) PROVE FALSE
        OBVIOUS
      <4>1. \A n \in 1 .. Len(s) : s[n] = t[n]
        BY <1>0, <3>1
      <4> QED BY <1>0, <1>2, <4>1
    <3>3. Begins(s, t) \/ Begins(t, s)
      BY <1>n, <3>1, <3>2 DEF Begins
    <3> QED BY <3>3, TokensBeforeMeans
  <2>2. CASE D # {}
    <3>1. PICK n \in D : \A m \in D : ~(m < n)
      <4>1. D \in SUBSET Nat
        OBVIOUS
      <4> HIDE DEF D
      <4> QED BY <2>2, <4>1, FirstOf
    <3>2. n \in Nat /\ n \in 1 .. Len(s) /\ n \in 1 .. Len(t) /\ s[n] # t[n]
      OBVIOUS
    <3>3. \A m \in 1 .. n - 1 : s[m] = t[m]
      <4> TAKE m \in 1 .. n - 1
      <4>1. m \in Nat /\ m < n /\ m \in 1 .. Len(s) /\ m \in 1 .. Len(t)
        BY <1>l, <3>2
      <4>2. m \notin D
        BY <3>1, <4>1
      <4> QED BY <4>1, <4>2
    <3>4. s[n] < t[n] \/ t[n] < s[n]
      BY <1>0, <3>2
    <3>5. DiffersAt(s, t, n) \/ DiffersAt(t, s, n)
      BY <3>2, <3>3, <3>4 DEF DiffersAt
    <3> QED BY <3>2, <3>5, TokensBeforeMeans
  <2> QED BY <2>1, <2>2
<1>3. ASSUME TokensBefore(s, t), TokensBefore(t, u) PROVE TokensBefore(s, u)
  <2>1. /\ Begins(s, t) \/ \E n \in Nat : DiffersAt(s, t, n)
        /\ Begins(t, u) \/ \E n \in Nat : DiffersAt(t, u, n)
    BY <1>3, TokensBeforeMeans
  <2>2. CASE Begins(s, t) /\ Begins(t, u)
    <3>1. Begins(s, u)
      BY <1>0, <2>2 DEF Begins
    <3> QED BY <3>1, TokensBeforeMeans
  <2>3. ASSUME Begins(s, t), NEW n \in Nat, DiffersAt(t, u, n) PROVE TokensBefore(s, u)
    <3>1. CASE n <= Len(s)
      <4>1. DiffersAt(s, u, n)
        BY <1>n, <2>3, <3>1 DEF Begins, DiffersAt
      <4> QED BY <4>1, TokensBeforeMeans
    <3>2. CASE n > Len(s)
      <4>1. Begins(s, u)
        BY <1>n, <2>3, <3>2 DEF Begins, DiffersAt
      <4> QED BY <4>1, TokensBeforeMeans
    <3> QED BY <1>0, <3>1, <3>2
  <2>4. ASSUME NEW n \in Nat, DiffersAt(s, t, n), Begins(t, u) PROVE TokensBefore(s, u)
    <3>1. DiffersAt(s, u, n)
      <4>1. /\ n \in 1 .. Len(s) /\ n \in 1 .. Len(t) /\ s[n] < t[n]
            /\ \A m \in 1 .. n - 1 : s[m] = t[m]
            /\ Len(t) < Len(u) /\ \A m \in 1 .. Len(t) : t[m] = u[m]
        BY <2>4 DEF Begins, DiffersAt
      <4>2. n \in 1 .. Len(u) /\ s[n] < u[n]
        BY <1>l, <4>1
      <4>3. \A m \in 1 .. n - 1 : m \in 1 .. Len(t)
        BY <1>l, <4>1
      <4> QED BY <4>1, <4>2, <4>3 DEF DiffersAt
    <3> QED BY <3>1, TokensBeforeMeans
  <2>5. ASSUME NEW n \in Nat, DiffersAt(s, t, n), NEW k \in Nat, DiffersAt(t, u, k)
        PROVE  TokensBefore(s, u)
    <3>1. CASE n <= k
      <4>1. DiffersAt(s, u, n)
        <5>1. /\ n \in 1 .. Len(s) /\ n \in 1 .. Len(t) /\ s[n] < t[n]
              /\ \A m \in 1 .. n - 1 : s[m] = t[m]
              /\ k \in 1 .. Len(t) /\ k \in 1 .. Len(u) /\ t[k] < u[k]
              /\ \A m \in 1 .. k - 1 : t[m] = u[m]
          BY <2>5 DEF DiffersAt
        <5>2. n \in 1 .. Len(u)
          BY <1>n, <3>1, <5>1
        <5>3. s[n] \in Nat /\ t[n] \in Nat /\ u[n] \in Nat
          BY <1>n, <5>1, <5>2
        <5>4. n = k \/ n \in 1 .. k - 1
          BY <3>1, <5>1
        <5>6. t[n] <= u[n]
          <6>1. CASE n = k
            <7>1. t[n] < u[n]
              BY <5>1, <6>1
            <7> QED BY <5>3, <7>1
          <6>2. CASE n \in 1 .. k - 1
            <7>1. t[n] = u[n]
              BY <5>1, <6>2
            <7> QED BY <5>3, <7>1
          <6> QED BY <5>4, <6>1, <6>2
        <5>7. s[n] < t[n]
          BY <5>1
        <5>8. s[n] < u[n]
          BY <5>3, <5>6, <5>7
        <5>5. \A m \in 1 .. n - 1 : s[m] = u[m]
          BY <3>1, <5>1
        <5> QED BY <5>1, <5>2, <5>5, <5>8 DEF DiffersAt
      <4> QED BY <4>1, TokensBeforeMeans
    <3>2. CASE k < n
      <4>1. DiffersAt(s, u, k)
        <5>1. /\ n \in 1 .. Len(s) /\ n \in 1 .. Len(t)
              /\ \A m \in 1 .. n - 1 : s[m] = t[m]
              /\ k \in 1 .. Len(u) /\ t[k] < u[k]
              /\ \A m \in 1 .. k - 1 : t[m] = u[m]
          BY <2>5 DEF DiffersAt
        <5>2. k \in 1 .. Len(s) /\ s[k] = t[k]
          BY <1>n, <3>2, <5>1
        <5>3. \A m \in 1 .. k - 1 : s[m] = u[m]
          BY <3>2, <5>1
        <5> QED BY <5>1, <5>2, <5>3 DEF DiffersAt
      <4> QED BY <4>1, TokensBeforeMeans
    <3> QED BY <3>1, <3>2
  <2> QED BY <2>1, <2>2, <2>3, <2>4, <2>5
<1> QED BY <1>1, <1>2, <1>3

(* The two orders among equal scores.                                      *)
ByTokens(candidates, rows) ==
  {p \in (DOMAIN rows) \X (DOMAIN rows) :
     TokensBefore(TokenIds[candidates[p[1]]], TokenIds[candidates[p[2]]])}
ByBytes(candidates, rows) ==
  {p \in (DOMAIN rows) \X (DOMAIN rows) : ByteOrder[candidates[p[1]]] < ByteOrder[candidates[p[2]]]}

(* Candidates that their bytes and their tokens tell apart.                *)
Distinct(candidates, n) ==
  /\ DOMAIN candidates = 1 .. n
  /\ \A i \in 1 .. n : ByteOrder[candidates[i]] \in Int /\ TokenIds[candidates[i]] \in Seq(Nat)
  /\ \A i, j \in 1 .. n : i # j => /\ ByteOrder[candidates[i]] # ByteOrder[candidates[j]]
                                   /\ TokenIds[candidates[i]] # TokenIds[candidates[j]]

(* So are the candidates of an example, by bytes and by tokens.            *)
LEMMA CandidatesAreOrdered ==
  ASSUME NEW n \in Nat, NEW candidates, Distinct(candidates, n), NEW rows, DOMAIN rows = 1 .. n
  PROVE  IsOrder(1 .. n, ByTokens(candidates, rows)) /\ IsOrder(1 .. n, ByBytes(candidates, rows))
<1> DEFINE t(i) == TokenIds[candidates[i]]
           b(i) == ByteOrder[candidates[i]]
<1>1. \A i \in 1 .. n : b(i) \in Int /\ t(i) \in Seq(Nat)
  BY DEF Distinct
<1>2. \A i, j \in 1 .. n : i # j => b(i) # b(j) /\ t(i) # t(j)
  BY DEF Distinct
<1>3. \A i, j \in 1 .. n : <<i, j>> \in ByTokens(candidates, rows) <=> TokensBefore(t(i), t(j))
  BY DEF ByTokens
<1>4. \A i, j \in 1 .. n : <<i, j>> \in ByBytes(candidates, rows) <=> b(i) < b(j)
  BY DEF ByBytes
<1> HIDE DEF t, b
<1>5. \A i, j, k \in 1 .. n :
        /\ ~TokensBefore(t(i), t(i))
        /\ t(i) # t(j) => TokensBefore(t(i), t(j)) \/ TokensBefore(t(j), t(i))
        /\ TokensBefore(t(i), t(j)) /\ TokensBefore(t(j), t(k)) => TokensBefore(t(i), t(k))
  BY <1>1, TokensAreOrdered
<1>6. IsOrder(1 .. n, ByTokens(candidates, rows))
  BY <1>2, <1>3, <1>5 DEF IsOrder
<1>7. IsOrder(1 .. n, ByBytes(candidates, rows))
  BY <1>1, <1>2, <1>4 DEF IsOrder
<1> QED BY <1>6, <1>7

(* The leaders are a finite set of indices.                                *)
LEMMA LeadersAre ==
  ASSUME NEW n \in Nat, NEW rows, DOMAIN rows = 1 .. n
  PROVE  /\ Leaders(rows) = {i \in 1 .. n : \A j \in 1 .. n : ~Better(rows[j], rows[i])}
         /\ IsFiniteSet(Leaders(rows)) /\ Cardinality(Leaders(rows)) \in Nat
<1>1. Leaders(rows) = {i \in 1 .. n : \A j \in 1 .. n : ~Better(rows[j], rows[i])}
  BY DEF Leaders
<1>2. IsFiniteSet(1 .. n)
  BY FS_Interval
<1>3. Leaders(rows) \in SUBSET (1 .. n)
  BY <1>1
<1>4. IsFiniteSet(Leaders(rows))
  BY <1>2, <1>3, FS_Subset
<1> QED BY <1>1, <1>4, FS_CardinalityType

(* The first of a ranking leads.                                           *)
LEMMA FirstLeads ==
  ASSUME NEW n \in Nat \ {0}, NEW rows, Scores(rows, n), NEW before, IsOrder(1 .. n, before)
  PROVE  Ranked(rows, before)[1] \in Leaders(rows)
<1> DEFINE R == Prior(rows, before)
           f == Ranked(rows, before)[1]
<1>0. 1 \in 1 .. n /\ DOMAIN rows = 1 .. n
  BY DEF Scores
<1>1. f \in 1 .. n
  BY <1>0, RankedPlaces
<1>2. Cardinality(Above(1 .. n, R, f)) = 0
  <2>1. \A i \in 1 .. n : f = i <=> Cardinality(Above(1 .. n, R, i)) = 1 - 1
    BY <1>0, RankedPlaces
  <2> HIDE DEF f, R
  <2> QED BY <1>1, <2>1
<1> HIDE DEF f
<1>3. Above(1 .. n, R, f) = {}
  <2> HIDE DEF R
  <2>1. IsFiniteSet(1 .. n)
    BY FS_Interval
  <2>2. Above(1 .. n, R, f) \in SUBSET (1 .. n)
    BY DEF Above
  <2>3. IsFiniteSet(Above(1 .. n, R, f))
    BY <2>1, <2>2, FS_Subset
  <2> QED BY <1>2, <2>3, FS_EmptySet
<1>4. \A j \in 1 .. n : <<j, f>> \notin R
  BY <1>3 DEF Above
<1>5. ASSUME NEW j \in 1 .. n PROVE ~Better(rows[j], rows[f])
  BY <1>0, <1>1, <1>4, PriorMeans
<1>6. n \in Nat
  OBVIOUS
<1>7. Leaders(rows) = {i \in 1 .. n : \A j \in 1 .. n : ~Better(rows[j], rows[i])}
  BY <1>0, <1>6, LeadersAre
<1> QED BY <1>1, <1>5, <1>7 DEF f

(* A finite set with two members counts more than one.                     *)
LEMMA TwoAreMore ==
  ASSUME NEW S, IsFiniteSet(S), NEW i \in S, NEW j \in S, i # j
  PROVE  Cardinality(S) > 1
<1>1. Cardinality(S) \in Nat
  BY FS_CardinalityType
<1>2. Cardinality(S) # 0
  BY FS_EmptySet
<1>3. Cardinality(S) # 1
  <2> SUFFICES ASSUME Cardinality(S) = 1 PROVE FALSE
    OBVIOUS
  <2>1. PICK x : S = {x}
    BY FS_Singleton
  <2> QED BY <2>1
<1> QED BY <1>1, <1>2, <1>3

(* Without a top tie one candidate leads.                                  *)
LEMMA OneLeads ==
  ASSUME NEW n \in Nat, NEW rows, DOMAIN rows = 1 .. n, ~(Cardinality(Leaders(rows)) > 1),
         NEW i \in Leaders(rows), NEW j \in Leaders(rows)
  PROVE  i = j
<1>1. IsFiniteSet(Leaders(rows))
  BY LeadersAre
<1> QED BY <1>1, TwoAreMore

(* Where no two scores are level every order of equals gives one ranking.  *)
LEMMA NoTiesOneRanking ==
  ASSUME NEW n \in Nat, NEW rows, Scores(rows, n), Ties(rows) = {},
         NEW a, IsOrder(1 .. n, a), NEW b, IsOrder(1 .. n, b)
  PROVE  Ranked(rows, a) = Ranked(rows, b)
<1>0. DOMAIN rows = 1 .. n
  BY DEF Scores
<1>1. ASSUME NEW i \in 1 .. n, NEW j \in 1 .. n, Level(rows[i], rows[j])
      PROVE  i = j
  <2> SUFFICES ASSUME i # j PROVE FALSE
    OBVIOUS
  <2> DEFINE g == {k \in DOMAIN rows : Level(rows[i], rows[k])}
  <2>1. Level(rows[i], rows[i])
    BY ScoresCompare
  <2>2. {i, j} \in SUBSET g /\ g \in SUBSET (1 .. n)
    BY <1>0, <1>1, <2>1
  <2>3. g \in {{k \in DOMAIN rows : Level(rows[l], rows[k])} : l \in DOMAIN rows}
    BY <1>0
  <2>4. Cardinality(g) > 1 => g \in Ties(rows)
    BY <2>3 DEF Ties
  <2> HIDE DEF g
  <2>5. IsFiniteSet(1 .. n)
    BY FS_Interval
  <2>6. IsFiniteSet(g)
    BY <2>2, <2>5, FS_Subset
  <2>7. Cardinality(g) > 1
    BY <2>2, <2>6, TwoAreMore
  <2> QED BY <2>4, <2>7
<1>2. ASSUME NEW c, IsOrder(1 .. n, c), NEW i \in 1 .. n, NEW j \in 1 .. n
      PROVE  <<i, j>> \in Prior(rows, c) <=> Better(rows[i], rows[j])
  <2>1. <<i, i>> \notin c
    BY <1>2 DEF IsOrder
  <2>2. <<i, j>> \in Prior(rows, c) <=> \/ Better(rows[i], rows[j])
                                        \/ Level(rows[i], rows[j]) /\ <<i, j>> \in c
    BY <1>0, PriorMeans
  <2> QED BY <1>1, <2>1, <2>2
<1>3. \A i \in 1 .. n : Above(1 .. n, Prior(rows, a), i) = Above(1 .. n, Prior(rows, b), i)
  <2> TAKE i \in 1 .. n
  <2>1. \A j \in 1 .. n : <<j, i>> \in Prior(rows, a) <=> <<j, i>> \in Prior(rows, b)
    BY <1>2
  <2> QED BY <2>1 DEF Above
<1>4. /\ Ranked(rows, a) \in [1 .. n -> 1 .. n] /\ Ranked(rows, b) \in [1 .. n -> 1 .. n]
  BY RankedPlaces
<1>6. /\ \A m, i \in 1 .. n : Ranked(rows, a)[m] = i
                                <=> Cardinality(Above(1 .. n, Prior(rows, a), i)) = m - 1
      /\ \A m, i \in 1 .. n : Ranked(rows, b)[m] = i
                                <=> Cardinality(Above(1 .. n, Prior(rows, b), i)) = m - 1
  <2>1. \A c : IsOrder(1 .. n, c) =>
          \A m, i \in 1 .. n : Ranked(rows, c)[m] = i
                                <=> Cardinality(Above(1 .. n, Prior(rows, c), i)) = m - 1
    <3> TAKE c
    <3> HAVE IsOrder(1 .. n, c)
    <3> QED BY RankedPlaces
  <2> QED BY <2>1, Zenon
<1>5. \A m \in 1 .. n : Ranked(rows, a)[m] = Ranked(rows, b)[m]
  BY <1>3, <1>4, <1>6
<1> QED BY <1>4, <1>5

(* A ranking names every index.                                            *)
LEMMA RankedIsOnto ==
  ASSUME NEW n \in Nat, NEW rows, Scores(rows, n), NEW before, IsOrder(1 .. n, before)
  PROVE  Range(Ranked(rows, before)) = 1 .. n
<1> DEFINE C(i) == Cardinality(Above(1 .. n, Prior(rows, before), i))
           f == Ranked(rows, before)
<1>1. f \in [1 .. n -> 1 .. n] /\ \A m, i \in 1 .. n : f[m] = i <=> C(i) = m - 1
  BY RankedPlaces
<1>2. \A i \in 1 .. n : C(i) \in 0 .. n - 1
  BY PriorIsOrder, PlacesAreTaken
<1> HIDE DEF C, f
<1>3. ASSUME NEW i \in 1 .. n PROVE \E m \in 1 .. n : f[m] = i
  <2>1. C(i) + 1 \in 1 .. n /\ C(i) = (C(i) + 1) - 1
    BY <1>2
  <2> QED BY <1>1, <2>1
<1>4. Range(f) = 1 .. n
  BY <1>1, <1>3 DEF Range
<1> QED BY <1>4 DEF f

(* What the scorer says, with its ranking by bytes named.                  *)
LEMMA VerdictMeans ==
  ASSUME NEW candidates, NEW gold, NEW rows
  PROVE  Verdict(candidates, gold, rows)
           = VerdictOf(candidates, gold, rows, Ranked(rows, ByBytes(candidates, rows)))
  BY DEF Verdict, ByBytes

(* What the runtime says, with its ranking by tokens named.                *)
LEMMA RuntimeMeans ==
  ASSUME NEW candidates, NEW rows
  PROVE  LET tied == Cardinality(Leaders(rows)) > 1
             runtime == RankCandidates(candidates, rows)
         IN  /\ runtime.tie = tied
             /\ runtime.topTie = IF tied THEN Leaders(rows) ELSE {}
             /\ runtime.order = IF tied THEN <<>> ELSE Ranked(rows, ByTokens(candidates, rows))
             /\ runtime.counts = [i \in DOMAIN rows |-> Len(TokenIds[candidates[i]])]
             /\ runtime.sums = [i \in DOMAIN rows |-> Total(rows[i])]
  BY DEF RankCandidates, ByTokens

(* The converter accepts what the runtime says of any scores: rankings     *)
(* that order equals by bytes and by tokens differ only below the first.   *)
LEMMA EvidenceConverts ==
  ASSUME NEW n \in Nat \ {0}, NEW candidates, Distinct(candidates, n), NEW gold,
         NEW rows, Scores(rows, n),
         \A i \in 1 .. n : Len(rows[i]) = Len(TokenIds[candidates[i]]),
         NEW r, r.candidates = candidates, r.rows = rows,
         r.verdict = Verdict(candidates, gold, rows)
  PROVE  Converts(r, RankCandidates(candidates, rows))
<1> DEFINE runtime == RankCandidates(candidates, rows)
           byBytes == Ranked(rows, ByBytes(candidates, rows))
           byTokens == Ranked(rows, ByTokens(candidates, rows))
           tied == Cardinality(Leaders(rows)) > 1
           v == Verdict(candidates, gold, rows)
<1>0. DOMAIN rows = 1 .. n /\ DOMAIN candidates = 1 .. n /\ n \in Nat
  BY DEF Scores, Distinct
<1>1. /\ runtime.tie = tied
      /\ runtime.topTie = IF tied THEN Leaders(rows) ELSE {}
      /\ runtime.order = IF tied THEN <<>> ELSE byTokens
      /\ runtime.counts = [i \in DOMAIN rows |-> Len(TokenIds[candidates[i]])]
      /\ runtime.sums = [i \in DOMAIN rows |-> Total(rows[i])]
  BY RuntimeMeans
<1>2. /\ v.ranking = byBytes /\ v.ties = Ties(rows)
      /\ v.counts = [i \in DOMAIN rows |-> Len(rows[i])]
      /\ v.sums = [i \in DOMAIN rows |-> Total(rows[i])]
      /\ v.error = IF tied THEN "AMBIGUOUS_TOP_TIE" ELSE "none"
      /\ v.status = IF tied THEN "error" ELSE "ok"
  BY VerdictMeans DEF VerdictOf
<1>3. IsOrder(1 .. n, ByTokens(candidates, rows)) /\ IsOrder(1 .. n, ByBytes(candidates, rows))
  BY <1>0, CandidatesAreOrdered
<1>4. Range(byTokens) = 1 .. n
  BY <1>0, <1>3, RankedIsOnto
<1>5. byTokens[1] \in Leaders(rows) /\ byBytes[1] \in Leaders(rows)
  BY <1>3, FirstLeads
<1>6. ~tied => byTokens[1] = byBytes[1]
  BY <1>0, <1>5, OneLeads
<1>7. Ties(rows) = {} => byTokens = byBytes
  BY <1>0, <1>3, NoTiesOneRanking
<1>8. runtime.counts = v.counts
  BY <1>0, <1>1, <1>2
<1> HIDE DEF runtime, byBytes, byTokens, tied, v
<1>9. r.verdict = v
  BY DEF v
<1>10. v.error = "AMBIGUOUS_TOP_TIE" <=> tied
  BY <1>2
<1>11. Converts(r, runtime) <=>
         /\ runtime.counts = v.counts /\ runtime.sums = v.sums
         /\ runtime.tie = (v.error = "AMBIGUOUS_TOP_TIE")
         /\ runtime.topTie = IF v.error = "AMBIGUOUS_TOP_TIE" THEN Leaders(rows) ELSE {}
         /\ ~runtime.tie => /\ Range(runtime.order) = DOMAIN candidates
                            /\ v.status = "ok" => runtime.order[1] = v.ranking[1]
                            /\ v.ties = {} => runtime.order = v.ranking
  BY <1>9 DEF Converts
<1>12. tied \in BOOLEAN
  BY DEF tied
<1>13. Converts(r, runtime)
  <2>1. CASE tied
    BY <1>1, <1>2, <1>8, <1>10, <1>11, <1>12, <2>1
  <2>2. CASE ~tied
    BY <1>0, <1>1, <1>2, <1>4, <1>6, <1>7, <1>8, <1>10, <1>11, <1>12, <2>2
  <2> QED BY <2>1, <2>2
<1> QED BY <1>13 DEF runtime

-----------------------------------------------------------------------------
(* Candidates and scores in another order.                                 *)

(* Another order of n candidates: a renaming of their indices.             *)
Renames(p, n) == /\ p \in [1 .. n -> 1 .. n]
                 /\ \A i, j \in 1 .. n : p[i] = p[j] => i = j
                 /\ \A k \in 1 .. n : \E i \in 1 .. n : p[i] = k

LEMMA BijectionsRename ==
  ASSUME NEW n \in Nat, NEW p \in Bijection(1 .. n, 1 .. n)
  PROVE  Renames(p, n)
  BY DEF Renames, Bijection, Injection, Surjection, IsInjective

(* A set of indices and its renaming have as many members.                 *)
LEMMA PreimagesCount ==
  ASSUME NEW n \in Nat, NEW p, Renames(p, n), NEW S \in SUBSET (1 .. n)
  PROVE  Cardinality({i \in 1 .. n : p[i] \in S}) = Cardinality(S)
<1> DEFINE T == {i \in 1 .. n : p[i] \in S}
           q == [i \in T |-> p[i]]
<1>1. q \in [T -> S]
  OBVIOUS
<1>2. \A i, j \in T : q[i] = q[j] => i = j
  BY DEF Renames
<1>3. \A k \in S : \E i \in T : q[i] = k
  BY DEF Renames
<1>4. IsFiniteSet(1 .. n)
  BY FS_Interval
<1>5. T \in SUBSET (1 .. n)
  OBVIOUS
<1> HIDE DEF T, q
<1>6. q \in Bijection(T, S)
  BY <1>1, <1>2, <1>3 DEF Bijection, Injection, Surjection, IsInjective
<1>7. ExistsBijection(T, S)
  BY <1>6 DEF ExistsBijection
<1>8. IsFiniteSet(T)
  BY <1>4, <1>5, FS_Subset
<1>9. Cardinality(S) = Cardinality(T)
  BY <1>7, <1>8, FS_Bijection
<1> QED BY <1>9 DEF T

(* Scores and candidates in another order are scores and candidates.       *)
LEMMA ShuffledRows ==
  ASSUME NEW n \in Nat, NEW p, Renames(p, n), NEW rows, Scores(rows, n)
  PROVE  /\ Scores(Shuffled(rows, p), n)
         /\ \A i \in 1 .. n : Shuffled(rows, p)[i] = rows[p[i]]
<1>1. DOMAIN rows = 1 .. n
  BY DEF Scores
<1>2. DOMAIN Shuffled(rows, p) = 1 .. n /\ \A i \in 1 .. n : Shuffled(rows, p)[i] = rows[p[i]]
  BY <1>1 DEF Shuffled
<1>3. \A i \in 1 .. n : p[i] \in 1 .. n
  BY DEF Renames
<1> QED BY <1>2, <1>3 DEF Scores

LEMMA ShuffledCandidates ==
  ASSUME NEW n \in Nat, NEW p, Renames(p, n), NEW candidates, Distinct(candidates, n)
  PROVE  /\ Distinct(Shuffled(candidates, p), n)
         /\ \A i \in 1 .. n : Shuffled(candidates, p)[i] = candidates[p[i]]
<1>1. DOMAIN candidates = 1 .. n
  BY DEF Distinct
<1>2. /\ DOMAIN Shuffled(candidates, p) = 1 .. n
      /\ \A i \in 1 .. n : Shuffled(candidates, p)[i] = candidates[p[i]]
  BY <1>1 DEF Shuffled
<1> DEFINE there == Shuffled(candidates, p)
<1>3. \A i, j \in 1 .. n : p[i] \in 1 .. n /\ (i # j => p[i] # p[j])
  BY DEF Renames
<1>4. ASSUME NEW i \in 1 .. n, NEW j \in 1 .. n
      PROVE  /\ ByteOrder[there[i]] \in Int /\ TokenIds[there[i]] \in Seq(Nat)
             /\ i # j => /\ ByteOrder[there[i]] # ByteOrder[there[j]]
                         /\ TokenIds[there[i]] # TokenIds[there[j]]
  <2>1. p[i] \in 1 .. n /\ p[j] \in 1 .. n /\ (i # j => p[i] # p[j])
    BY <1>3
  <2>2. there[i] = candidates[p[i]] /\ there[j] = candidates[p[j]]
    BY <1>2
  <2> HIDE DEF there
  <2> QED BY <2>1, <2>2 DEF Distinct
<1> HIDE DEF there
<1>5. Distinct(there, n)
  BY <1>2, <1>4 DEF Distinct, there
<1> QED BY <1>2, <1>5 DEF there

(* As many candidates lead in one order as in the other.                   *)
LEMMA LeadersMove ==
  ASSUME NEW n \in Nat, NEW p, Renames(p, n), NEW rows, Scores(rows, n)
  PROVE  Cardinality(Leaders(Shuffled(rows, p))) = Cardinality(Leaders(rows))
<1> DEFINE there == Shuffled(rows, p)
<1>0. Scores(there, n) /\ \A i \in 1 .. n : there[i] = rows[p[i]]
  BY ShuffledRows
<1>1. DOMAIN there = 1 .. n /\ DOMAIN rows = 1 .. n /\ \A i \in 1 .. n : there[i] = rows[p[i]]
  BY <1>0 DEF Scores
<1> HIDE DEF there
<1>2. /\ Leaders(there) = {i \in 1 .. n : \A j \in 1 .. n : ~Better(there[j], there[i])}
      /\ Leaders(rows) = {i \in 1 .. n : \A j \in 1 .. n : ~Better(rows[j], rows[i])}
  BY <1>1, LeadersAre
<1>3. ASSUME NEW i \in 1 .. n
      PROVE  i \in Leaders(there) <=> p[i] \in Leaders(rows)
  <2>1. p[i] \in 1 .. n
    BY DEF Renames
  <2>2. ASSUME NEW j \in 1 .. n
        PROVE  p[j] \in 1 .. n /\ (Better(there[j], there[i]) <=> Better(rows[p[j]], rows[p[i]]))
    BY <1>1 DEF Renames
  <2>3. (\A j \in 1 .. n : ~Better(there[j], there[i]))
          <=> \A k \in 1 .. n : ~Better(rows[k], rows[p[i]])
    BY <2>2 DEF Renames
  <2> QED BY <1>2, <2>1, <2>3
<1>4. Leaders(there) = {i \in 1 .. n : p[i] \in Leaders(rows)}
  BY <1>2, <1>3
<1>5. Leaders(rows) \in SUBSET (1 .. n)
  BY <1>2
<1> QED BY <1>4, <1>5, PreimagesCount DEF there

(* The same candidates in another order have the same places.              *)
LEMMA RankingMoves ==
  ASSUME NEW n \in Nat, NEW p, Renames(p, n), NEW rows, Scores(rows, n),
         NEW before, IsOrder(1 .. n, before), NEW moved, IsOrder(1 .. n, moved),
         \A i, j \in 1 .. n : <<i, j>> \in moved <=> <<p[i], p[j]>> \in before
  PROVE  \A m \in 1 .. n : p[Ranked(Shuffled(rows, p), moved)[m]] = Ranked(rows, before)[m]
<1> DEFINE there == Shuffled(rows, p)
           R == Prior(rows, before)
           Q == Prior(there, moved)
<1>1. Scores(there, n) /\ \A i \in 1 .. n : there[i] = rows[p[i]]
  BY ShuffledRows
<1>2. DOMAIN rows = 1 .. n /\ DOMAIN there = 1 .. n
  BY <1>1 DEF Scores
<1> HIDE DEF there
<1>3. ASSUME NEW i \in 1 .. n, NEW j \in 1 .. n
      PROVE  <<i, j>> \in Q <=> <<p[i], p[j]>> \in R
  <2>1. p[i] \in 1 .. n /\ p[j] \in 1 .. n
    BY DEF Renames
  <2>2. <<i, j>> \in Q <=> \/ Better(there[i], there[j])
                           \/ Level(there[i], there[j]) /\ <<i, j>> \in moved
    BY <1>2, PriorMeans
  <2>3. <<p[i], p[j]>> \in R <=> \/ Better(rows[p[i]], rows[p[j]])
                                 \/ Level(rows[p[i]], rows[p[j]]) /\ <<p[i], p[j]>> \in before
    BY <1>2, <2>1, PriorMeans
  <2> QED BY <1>1, <2>2, <2>3
<1> HIDE DEF R, Q
<1>4. ASSUME NEW i \in 1 .. n
      PROVE  Cardinality(Above(1 .. n, Q, i)) = Cardinality(Above(1 .. n, R, p[i]))
  <2> DEFINE S == Above(1 .. n, R, p[i])
  <2>1. S \in SUBSET (1 .. n)
    BY DEF Above
  <2>2. \A j \in 1 .. n : j \in Above(1 .. n, Q, i) <=> p[j] \in S
    BY <1>3 DEF Above, Renames
  <2>3. Above(1 .. n, Q, i) = {j \in 1 .. n : p[j] \in S}
    BY <2>2 DEF Above
  <2> HIDE DEF S
  <2>4. Cardinality({j \in 1 .. n : p[j] \in S}) = Cardinality(S)
    BY <2>1, PreimagesCount
  <2> QED BY <2>3, <2>4 DEF S
<1>5. Ranked(there, moved) \in [1 .. n -> 1 .. n]
  BY <1>1, RankedPlaces
<1>8. \A m, i \in 1 .. n : Ranked(there, moved)[m] = i
                             <=> Cardinality(Above(1 .. n, Q, i)) = m - 1
  BY <1>1, RankedPlaces DEF Q
<1>6. \A m, i \in 1 .. n : Ranked(rows, before)[m] = i
                             <=> Cardinality(Above(1 .. n, R, i)) = m - 1
  BY RankedPlaces DEF R
<1>7. ASSUME NEW m \in 1 .. n PROVE p[Ranked(there, moved)[m]] = Ranked(rows, before)[m]
  <2>1. Ranked(there, moved)[m] \in 1 .. n
    BY <1>5
  <2>2. p[Ranked(there, moved)[m]] \in 1 .. n
    BY <2>1 DEF Renames
  <2> QED BY <1>4, <1>6, <1>8, <2>1, <2>2
<1> QED BY <1>7 DEF there

(* Two lists with the same rankings of contents, by bytes and by tokens.   *)
SameRankings(c, s, candidates, rows, n) ==
  /\ Ranked(s, ByBytes(c, s)) \in [1 .. n -> 1 .. n]
  /\ Ranked(rows, ByBytes(candidates, rows)) \in [1 .. n -> 1 .. n]
  /\ InContents(c, Ranked(s, ByBytes(c, s)))
       = InContents(candidates, Ranked(rows, ByBytes(candidates, rows)))
  /\ InContents(c, Ranked(s, ByTokens(c, s)))
       = InContents(candidates, Ranked(rows, ByTokens(candidates, rows)))

LEMMA BothRankingsMove ==
  ASSUME NEW n \in Nat, NEW p, Renames(p, n), NEW rows, Scores(rows, n),
         NEW candidates, Distinct(candidates, n)
  PROVE  SameRankings(Shuffled(candidates, p), Shuffled(rows, p), candidates, rows, n)
<1> DEFINE c == Shuffled(candidates, p)
           s == Shuffled(rows, p)
<1>1. Scores(s, n) /\ Distinct(c, n) /\ \A i \in 1 .. n : c[i] = candidates[p[i]]
  BY ShuffledRows, ShuffledCandidates
<1>2. DOMAIN s = 1 .. n /\ DOMAIN rows = 1 .. n
  BY <1>1 DEF Scores
<1>3. /\ IsOrder(1 .. n, ByBytes(c, s)) /\ IsOrder(1 .. n, ByTokens(c, s))
      /\ IsOrder(1 .. n, ByBytes(candidates, rows)) /\ IsOrder(1 .. n, ByTokens(candidates, rows))
  <2> HIDE DEF c, s
  <2>1. IsOrder(1 .. n, ByBytes(c, s)) /\ IsOrder(1 .. n, ByTokens(c, s))
    BY <1>1, <1>2, CandidatesAreOrdered
  <2>2. IsOrder(1 .. n, ByBytes(candidates, rows)) /\ IsOrder(1 .. n, ByTokens(candidates, rows))
    BY <1>2, CandidatesAreOrdered
  <2> QED BY <2>1, <2>2
<1>4. \A i, j \in 1 .. n : /\ p[i] \in 1 .. n /\ p[j] \in 1 .. n
                           /\ c[i] = candidates[p[i]] /\ c[j] = candidates[p[j]]
  BY <1>1 DEF Renames
<1> DEFINE bc == ByBytes(c, s)
           tc == ByTokens(c, s)
           bh == ByBytes(candidates, rows)
           th == ByTokens(candidates, rows)
<1>5. \A i, j \in 1 .. n : <<i, j>> \in bc <=> <<p[i], p[j]>> \in bh
  <2> HIDE DEF c, s
  <2> QED BY <1>2, <1>4 DEF ByBytes
<1>6. \A i, j \in 1 .. n : <<i, j>> \in tc <=> <<p[i], p[j]>> \in th
  <2> HIDE DEF c, s
  <2> QED BY <1>2, <1>4 DEF ByTokens
<1> HIDE DEF c, bc, tc, bh, th
<1>7. IsOrder(1 .. n, bc) /\ IsOrder(1 .. n, tc) /\ IsOrder(1 .. n, bh) /\ IsOrder(1 .. n, th)
  BY <1>3 DEF bc, tc, bh, th
<1>8. \A m \in 1 .. n : p[Ranked(s, bc)[m]] = Ranked(rows, bh)[m]
  BY <1>5, <1>7, RankingMoves
<1>9. \A m \in 1 .. n : p[Ranked(s, tc)[m]] = Ranked(rows, th)[m]
  BY <1>6, <1>7, RankingMoves
<1> HIDE DEF s
<1>10. Ranked(s, bc) \in [1 .. n -> 1 .. n] /\ Ranked(s, tc) \in [1 .. n -> 1 .. n]
  <2>1. Ranked(s, bc) \in [1 .. n -> 1 .. n]
    BY <1>1, <1>7, RankedPlaces
  <2>2. Ranked(s, tc) \in [1 .. n -> 1 .. n]
    BY <1>1, <1>7, RankedPlaces
  <2> QED BY <2>1, <2>2
<1>11. Ranked(rows, bh) \in [1 .. n -> 1 .. n] /\ Ranked(rows, th) \in [1 .. n -> 1 .. n]
  <2>1. Ranked(rows, bh) \in [1 .. n -> 1 .. n]
    BY <1>7, RankedPlaces
  <2>2. Ranked(rows, th) \in [1 .. n -> 1 .. n]
    BY <1>7, RankedPlaces
  <2> QED BY <2>1, <2>2
<1>12. InContents(c, Ranked(s, bc)) = InContents(candidates, Ranked(rows, bh))
  <2>1. \A m \in 1 .. n : c[Ranked(s, bc)[m]] = candidates[Ranked(rows, bh)[m]]
    BY <1>4, <1>8, <1>10
  <2> QED BY <1>10, <1>11, <2>1 DEF InContents
<1>13. InContents(c, Ranked(s, tc)) = InContents(candidates, Ranked(rows, th))
  <2>1. \A m \in 1 .. n : c[Ranked(s, tc)[m]] = candidates[Ranked(rows, th)[m]]
    BY <1>4, <1>9, <1>10
  <2> QED BY <1>10, <1>11, <2>1 DEF InContents
<1> QED BY <1>10, <1>11, <1>12, <1>13 DEF SameRankings, bc, tc, bh, th, c, s

(* What VerdictIgnoresOrder says of one record.                            *)
SameAnswer(candidates, gold, rows, p) ==
  LET c == Shuffled(candidates, p)
      s == Shuffled(rows, p)
      v == Verdict(c, gold, s)
      w == Verdict(candidates, gold, rows)
      here == RankCandidates(candidates, rows)
      there == RankCandidates(c, s)
  IN  /\ v.predicted = w.predicted /\ v.correct = w.correct
      /\ v.error = w.error
      /\ InContents(c, v.ranking) = InContents(candidates, w.ranking)
      /\ here.tie = there.tie
      /\ InContents(c, there.order) = InContents(candidates, here.order)

(* It holds of any scores and any candidates that can be told apart.       *)
LEMMA AnswersAreTheSame ==
  ASSUME NEW n \in Nat \ {0}, NEW p, Renames(p, n), NEW rows, Scores(rows, n),
         NEW candidates, Distinct(candidates, n), NEW gold
  PROVE  SameAnswer(candidates, gold, rows, p)
<1> DEFINE c == Shuffled(candidates, p)
           s == Shuffled(rows, p)
           v == Verdict(c, gold, s)
           w == Verdict(candidates, gold, rows)
           here == RankCandidates(candidates, rows)
           there == RankCandidates(c, s)
           vb == Ranked(s, ByBytes(c, s))
           vt == Ranked(s, ByTokens(c, s))
           wb == Ranked(rows, ByBytes(candidates, rows))
           wt == Ranked(rows, ByTokens(candidates, rows))
           tied == Cardinality(Leaders(rows)) > 1
<1>1. Cardinality(Leaders(s)) = Cardinality(Leaders(rows))
  BY LeadersMove
<1>0. SameRankings(c, s, candidates, rows, n)
  BY BothRankingsMove
<1>2. /\ vb \in [1 .. n -> 1 .. n] /\ wb \in [1 .. n -> 1 .. n]
      /\ InContents(c, vb) = InContents(candidates, wb)
      /\ InContents(c, vt) = InContents(candidates, wt)
  BY <1>0 DEF SameRankings
<1> HIDE DEF vb, vt, wb, wt
<1>3. /\ v.ranking = vb
      /\ v.predicted = IF Cardinality(Leaders(s)) > 1 THEN <<>> ELSE <<c[vb[1]]>>
      /\ v.correct = (~(Cardinality(Leaders(s)) > 1) /\ c[vb[1]] = gold)
      /\ v.error = IF Cardinality(Leaders(s)) > 1 THEN "AMBIGUOUS_TOP_TIE" ELSE "none"
  BY VerdictMeans DEF VerdictOf, vb
<1>4. /\ w.ranking = wb
      /\ w.predicted = IF tied THEN <<>> ELSE <<candidates[wb[1]]>>
      /\ w.correct = (~tied /\ candidates[wb[1]] = gold)
      /\ w.error = IF tied THEN "AMBIGUOUS_TOP_TIE" ELSE "none"
  BY VerdictMeans DEF VerdictOf, wb
<1>5. /\ here.tie = tied
      /\ here.order = IF tied THEN <<>> ELSE wt
      /\ there.tie = (Cardinality(Leaders(s)) > 1)
      /\ there.order = IF Cardinality(Leaders(s)) > 1 THEN <<>> ELSE vt
  BY RuntimeMeans DEF wt, vt
<1> HIDE DEF c, s, v, w, here, there
<1>6. 1 \in 1 .. n
  OBVIOUS
<1>7. c[vb[1]] = candidates[wb[1]]
  <2>1. InContents(c, vb)[1] = c[vb[1]] /\ InContents(candidates, wb)[1] = candidates[wb[1]]
    BY <1>2, <1>6 DEF InContents
  <2> QED BY <1>2, <2>1
<1>8. InContents(c, <<>>) = InContents(candidates, <<>>)
  BY DEF InContents
<1> HIDE DEF tied
<1>9. v.predicted = w.predicted /\ v.correct = w.correct /\ v.error = w.error
  BY <1>1, <1>3, <1>4, <1>7 DEF tied
<1>10. InContents(c, v.ranking) = InContents(candidates, w.ranking)
  BY <1>2, <1>3, <1>4
<1>11. here.tie = there.tie /\ InContents(c, there.order) = InContents(candidates, here.order)
  BY <1>1, <1>2, <1>5, <1>8 DEF tied
<1> QED BY <1>9, <1>10, <1>11 DEF SameAnswer, c, s, v, w, here, there

-----------------------------------------------------------------------------
(* The evidence of a run.                                                  *)

(* The first k examples of the split, scored on one adapter.               *)
Scored(records, state, k) ==
  /\ DOMAIN records = 1 .. k /\ records = [i \in 1 .. k |-> records[i]]
  /\ \A i \in 1 .. k : \E rows \in RowsOf(Validation[i]) :
       records[i] = EvalRecord(Identity(state), Validation[i], "validation", rows)

(* An honest example, as the lemmas on rankings want it.                   *)
LEMMA ExamplesAreRankable ==
  ASSUME NEW i \in 1 .. Examples, NEW rows \in RowsOf(Validation[i])
  PROVE  LET ex == CurrentSuite[Validation[i]]
             n == Len(ex.candidates)
         IN  /\ Validation[i] \in DOMAIN CurrentSuite /\ ex.split = "validation"
             /\ ExampleOK(ex) /\ ScoresOK(ex, rows)
             /\ n \in Nat \ {0} /\ Distinct(ex.candidates, n) /\ Scores(rows, n)
             /\ \A j \in 1 .. n : Len(rows[j]) = Len(TokenIds[ex.candidates[j]])
<1> DEFINE ex == CurrentSuite[Validation[i]]
           n == Len(ex.candidates)
<1>1. i \in DOMAIN Validation /\ Validation[i] \in DOMAIN CurrentSuite
  <2>1. Validation \in Seq(DOMAIN CurrentSuite) /\ Examples <= Len(Validation)
    BY ValidationConstants
  <2> QED BY <2>1, LoopConstants
<1>2. ex.split = "validation" /\ ExampleOK(ex) /\ ScoresOK(ex, rows)
  BY <1>1, ValidationConstants
<1> HIDE DEF ex
<1>3. n \in Nat \ {0} /\ DOMAIN ex.candidates = 1 .. n
  BY <1>2 DEF ExampleOK
<1>4. Distinct(ex.candidates, n)
  BY <1>2, <1>3 DEF ExampleOK, Distinct
<1>5. DOMAIN rows = 1 .. n /\ \A j \in 1 .. n : rows[j] \in Seq(Int)
  BY <1>2, <1>3 DEF ScoresOK
<1>6. \A j \in 1 .. n : Len(rows[j]) = Len(TokenIds[ex.candidates[j]])
  BY <1>2, <1>5 DEF ScoresOK
<1>7. \A j \in 1 .. n : Len(TokenIds[ex.candidates[j]]) > 0
  BY <1>2, <1>3 DEF ExampleOK
<1>8. Scores(rows, n)
  BY <1>5, <1>6, <1>7 DEF Scores
<1> HIDE DEF n
<1> QED BY <1>1, <1>2, <1>3, <1>4, <1>6, <1>8 DEF ex, n

(* A record of honest scores is evidence of its example.                   *)
LEMMA RecordsAreValid ==
  ASSUME NEW i \in 1 .. Examples, NEW rows \in RowsOf(Validation[i]), NEW state
  PROVE  ValidInSuite(EvalRecord(Identity(state), Validation[i], "validation", rows), "validation")
<1> DEFINE id == Validation[i]
           ex == CurrentSuite[id]
           n == Len(ex.candidates)
           r == EvalRecord(Identity(state), id, "validation", rows)
<1>1. /\ id \in DOMAIN CurrentSuite /\ ex.split = "validation"
      /\ ExampleOK(ex) /\ ScoresOK(ex, rows)
      /\ n \in Nat \ {0} /\ Distinct(ex.candidates, n) /\ Scores(rows, n)
  BY ExamplesAreRankable
<1>2. /\ r.identity = Identity(state) /\ r.example = id /\ r.split = "validation"
      /\ r.family = ex.family /\ r.candidates = ex.candidates
      /\ r.permutation = ex.permutation /\ r.gold = ex.gold /\ r.rows = rows
      /\ r.verdict = Verdict(ex.candidates, ex.gold, rows)
  BY DEF EvalRecord
<1>3. /\ r.verdict.goldIndex = GoldIndex(ex.candidates, ex.gold)
      /\ r.verdict.error \in {"AMBIGUOUS_TOP_TIE", "none"}
      /\ r.verdict.status = IF r.verdict.error = "AMBIGUOUS_TOP_TIE" THEN "error" ELSE "ok"
  BY <1>2, VerdictMeans DEF VerdictOf
<1> HIDE DEF ex, r, id
<1>4. ~IsRuntimeError(r)
  BY <1>3 DEF IsRuntimeError
<1>5. r.verdict = Rescore(r)
  BY <1>2, <1>4 DEF Rescore
<1>6. WellFormed(r)
  <2>1. r.identity.k >= 0
    BY <1>2 DEF Identity
  <2>2. IsInjective(r.candidates)
    BY <1>1, <1>2 DEF Distinct, IsInjective
  <2> QED BY <1>1, <1>2, <2>1, <2>2 DEF WellFormed, ExampleOK
<1>7. \E j \in DOMAIN r.candidates : r.candidates[j] = r.gold
  BY <1>1, <1>2 DEF ExampleOK
<1>8. Len(r.rows) = Len(r.candidates) /\ \A j \in DOMAIN r.rows : r.rows[j] # <<>>
  <2>1. \A j \in DOMAIN rows : Len(rows[j]) > 0
    BY <1>1 DEF Scores
  <2>2. \A j \in DOMAIN rows : rows[j] # <<>>
    BY <2>1
  <2> QED BY <1>1, <1>2, <2>2 DEF ScoresOK
<1>9. ValidRecord(r)
  BY <1>4, <1>5, <1>6, <1>7, <1>8 DEF ValidRecord
<1> QED BY <1>1, <1>2, <1>3, <1>9 DEF ValidInSuite, ex, r, id

(* The records of one adapter make a summary that the history accepts.     *)
LEMMA ScoredIsAccepted ==
  ASSUME NEW records, NEW state, Scored(records, state, Examples)
  PROVE  /\ records # <<>> /\ Aggregates(records)
         /\ \A j \in DOMAIN records : ValidInSuite(records[j], "validation")
         /\ SameRun(records[1].identity) /\ records[1].identity.state = state
         /\ {records[j].identity.state : j \in DOMAIN records} = {state}
<1>1. DOMAIN records = 1 .. Examples /\ 1 \in 1 .. Examples
  BY LoopConstants DEF Scored
<1>2. ASSUME NEW j \in 1 .. Examples
      PROVE  /\ ValidInSuite(records[j], "validation")
             /\ records[j].identity = Identity(state) /\ records[j].split = "validation"
             /\ records[j].example = Validation[j]
  <2>1. PICK rows \in RowsOf(Validation[j]) :
          records[j] = EvalRecord(Identity(state), Validation[j], "validation", rows)
    BY DEF Scored
  <2>2. ValidInSuite(records[j], "validation")
    BY <2>1, RecordsAreValid
  <2> QED BY <2>1, <2>2 DEF EvalRecord
<1>3. records # <<>>
  <2>1. 1 \in DOMAIN records /\ 1 \notin DOMAIN <<>>
    BY <1>1
  <2> QED BY <2>1
<1>4. \A j \in 1 .. Examples : ValidRecord(records[j])
  BY <1>2 DEF ValidInSuite
<1>5. \A i, j \in 1 .. Examples : Validation[i] = Validation[j] => i = j
  <2>1. /\ Validation \in Seq(DOMAIN CurrentSuite) /\ Examples <= Len(Validation)
        /\ \A i, j \in DOMAIN Validation : Validation[i] = Validation[j] => i = j
    BY ValidationConstants DEF IsInjective
  <2>2. \A i \in 1 .. Examples : i \in DOMAIN Validation
    BY <2>1, LoopConstants
  <2> QED BY <2>1, <2>2
<1>6. Aggregates(records)
  BY <1>1, <1>2, <1>3, <1>4, <1>5 DEF Aggregates
<1>7. Identity(state).state = state
  BY DEF Identity
<1>8. SameRun(records[1].identity) /\ records[1].identity.state = state
  BY <1>1, <1>2, <1>7 DEF SameRun
<1>9. {records[j].identity.state : j \in DOMAIN records} = {state}
  BY <1>1, <1>2, <1>7
<1> QED BY <1>1, <1>2, <1>3, <1>6, <1>8, <1>9

(* What a checkpoint of the raw history is.                                *)
Sound(e) == /\ e = [step |-> e.step, metrics |-> e.metrics, records |-> e.records]
            /\ \E state : Scored(e.records, state, Examples)
            /\ e.metrics = Summary(e.records)

RawOK == /\ \E n \in Nat : DOMAIN raw = 1 .. n /\ raw = [i \in 1 .. n |-> raw[i]]
         /\ \A i \in DOMAIN raw : Sound(raw[i])
         /\ history = [i \in DOMAIN raw |-> AsEntry(raw[i])]

EvidenceOK == /\ \E k \in 0 .. Examples : Scored(pending, params, k)
              /\ pending # <<>> => pc \in {"evaluate", "error"}
              /\ RawOK /\ refused = FALSE

(* A history of such checkpoints can select.                               *)
LEMMA SoundIsAccepted ==
  ASSUME NEW h, \A i \in DOMAIN h : Sound(h[i])
  PROVE  RawHistoryAccepted(h)
<1> SUFFICES ASSUME NEW i \in DOMAIN h
             PROVE  /\ h[i].records # <<>>
                    /\ \A j \in DOMAIN h[i].records : ValidInSuite(h[i].records[j], "validation")
                    /\ Aggregates(h[i].records) /\ SameRun(h[i].records[1].identity)
                    /\ h[i].metrics = Summary(h[i].records)
  BY DEF RawHistoryAccepted
<1>1. PICK state : Scored(h[i].records, state, Examples)
  BY DEF Sound
<1>2. h[i].metrics = Summary(h[i].records)
  BY DEF Sound
<1> QED BY <1>1, <1>2, ScoredIsAccepted

(* As many records as examples scored.                                     *)
LEMMA ScoredLength ==
  ASSUME NEW records, NEW state, NEW k \in Nat, Scored(records, state, k)
  PROVE  Len(records) = k
<1> DEFINE S == {records[i] : i \in 1 .. k}
<1>1. records \in [1 .. k -> S]
  BY DEF Scored
<1> QED BY <1>1

(* One more example scored on the same adapter.                            *)
LEMMA ScoredGrows ==
  ASSUME NEW records, NEW state, NEW k \in Nat, Scored(records, state, k),
         NEW rows \in RowsOf(Validation[k + 1])
  PROVE  Scored(Append(records, EvalRecord(Identity(state), Validation[k + 1], "validation", rows)),
                state, k + 1)
<1> DEFINE e == EvalRecord(Identity(state), Validation[k + 1], "validation", rows)
           q == Append(records, e)
<1>1. /\ DOMAIN q = 1 .. k + 1 /\ q = [i \in 1 .. k + 1 |-> q[i]]
      /\ \A i \in 1 .. k : q[i] = records[i]
      /\ q[k + 1] = e
  <2> HIDE DEF e
  <2> QED BY AppendToSequence DEF Scored
<1> HIDE DEF q
<1>2. ASSUME NEW i \in 1 .. k + 1
      PROVE  \E s \in RowsOf(Validation[i]) :
               q[i] = EvalRecord(Identity(state), Validation[i], "validation", s)
  <2>1. CASE i = k + 1
    BY <1>1, <2>1
  <2>2. CASE i \in 1 .. k
    BY <1>1, <2>2 DEF Scored
  <2> QED BY <2>1, <2>2
<1> QED BY <1>1, <1>2 DEF Scored, q

(* The invariant of a run's evidence, one step at a time.                  *)
LEMMA ScoringKeeps == EvidenceOK /\ ScoreExample => EvidenceOK'
<1> SUFFICES ASSUME EvidenceOK, ScoreExample PROVE EvidenceOK'
  OBVIOUS
<1>1. PICK k \in 0 .. Examples : Scored(pending, params, k)
  BY DEF EvidenceOK
<1>2. k \in Nat /\ Len(pending) = k
  BY <1>1, ScoredLength, LoopConstants
<1>3. /\ pc = "evaluate" /\ k < Examples
      /\ UNCHANGED <<params, raw, history>>
  BY <1>2 DEF ScoreExample
<1> DEFINE id == Validation[k + 1]
           record(rows) == EvalRecord(Identity(params), id, "validation", rows)
<1>4. PICK rows \in RowsOf(id) :
        IF Converts(record(rows), RankCandidates(record(rows).candidates, rows))
        THEN pending' = Append(pending, record(rows)) /\ UNCHANGED <<pc, refused>>
        ELSE pc' = "error" /\ refused' = TRUE /\ UNCHANGED pending
  BY <1>2 DEF ScoreExample
<1>5. k + 1 \in 1 .. Examples
  BY <1>2, <1>3, LoopConstants
<1> DEFINE ex == CurrentSuite[id]
           n == Len(ex.candidates)
           r == record(rows)
<1>6. /\ n \in Nat \ {0} /\ Distinct(ex.candidates, n) /\ Scores(rows, n)
      /\ \A j \in 1 .. n : Len(rows[j]) = Len(TokenIds[ex.candidates[j]])
  BY <1>5, ExamplesAreRankable
<1>7. /\ r.candidates = ex.candidates /\ r.rows = rows
      /\ r.verdict = Verdict(ex.candidates, ex.gold, rows)
  BY DEF EvalRecord
<1>8. Converts(r, RankCandidates(r.candidates, rows))
  <2> HIDE DEF r, n, ex
  <2>1. Converts(r, RankCandidates(ex.candidates, rows))
    BY <1>6, <1>7, EvidenceConverts
  <2> QED BY <1>7, <2>1
<1>9. pending' = Append(pending, r) /\ UNCHANGED <<pc, refused>>
  BY <1>4, <1>8
<1>10. Scored(pending', params, k + 1)
  BY <1>1, <1>2, <1>9, ScoredGrows
<1>11. Scored(pending', params', k + 1)
  BY <1>3, <1>10
<1> HIDE DEF r
<1>12. (\E m \in 0 .. Examples : Scored(pending, params, m))'
  BY <1>5, <1>11
<1> QED BY <1>3, <1>9, <1>12 DEF EvidenceOK, RawOK

(* A checkpoint that is closed is never refused.                           *)
LEMMA ClosingKeeps == EvidenceOK /\ IInv /\ CloseCheckpoint => EvidenceOK'
<1> SUFFICES ASSUME EvidenceOK, IInv, CloseCheckpoint PROVE EvidenceOK'
  OBVIOUS
<1> DEFINE e == [step |-> step, metrics |-> Summary(pending), records |-> pending]
<1>1. Scored(pending, params, Examples)
  <2>1. PICK k \in 0 .. Examples : Scored(pending, params, k)
    BY DEF EvidenceOK
  <2>2. k \in Nat /\ Len(pending) = k
    BY <2>1, ScoredLength, LoopConstants
  <2> QED BY <2>1, <2>2 DEF CloseCheckpoint
<1>2. Sound(e)
  <2>1. e.step = step /\ e.metrics = Summary(pending) /\ e.records = pending
    OBVIOUS
  <2> QED BY <1>1, <2>1 DEF Sound
<1>3. PICK n \in Nat : DOMAIN raw = 1 .. n /\ raw = [i \in 1 .. n |-> raw[i]]
  BY DEF EvidenceOK, RawOK
<1> DEFINE q == Append(raw, e)
<1>4. /\ DOMAIN q = 1 .. n + 1 /\ q = [i \in 1 .. n + 1 |-> q[i]]
      /\ \A i \in 1 .. n : q[i] = raw[i]
      /\ q[n + 1] = e
  <2> HIDE DEF e
  <2> QED BY <1>3, AppendToSequence
<1>5. CloseCheckpoint =>
        IF Aggregates(pending) /\ RawHistoryAccepted(q)
        THEN /\ raw' = q /\ pending' = <<>> /\ history' = Append(history, AsEntry(e))
             /\ UNCHANGED <<params, refused>>
        ELSE TRUE
  BY DEF CloseCheckpoint
<1> HIDE DEF q, e
<1>6. \A i \in 1 .. n + 1 : Sound(q[i])
  <2> TAKE i \in 1 .. n + 1
  <2>1. CASE i = n + 1
    BY <1>2, <1>4, <2>1
  <2>2. CASE i \in 1 .. n
    BY <1>3, <1>4, <2>2 DEF EvidenceOK, RawOK
  <2> QED BY <2>1, <2>2
<1>7. Aggregates(pending) /\ RawHistoryAccepted(q)
  BY <1>1, <1>4, <1>6, ScoredIsAccepted, SoundIsAccepted
<1>8. /\ raw' = q /\ pending' = <<>> /\ history' = Append(history, AsEntry(e))
      /\ UNCHANGED <<params, refused>>
  BY <1>5, <1>7
<1>9. history' = [i \in 1 .. n + 1 |-> AsEntry(q[i])]
  <2>1. history = [i \in 1 .. n |-> AsEntry(raw[i])]
    BY <1>3 DEF EvidenceOK, RawOK
  <2> DEFINE h == Append(history, AsEntry(e))
  <2>2. /\ DOMAIN h = 1 .. n + 1 /\ h = [i \in 1 .. n + 1 |-> h[i]]
        /\ \A i \in 1 .. n : h[i] = history[i]
        /\ h[n + 1] = AsEntry(e)
    <3>1. DOMAIN history = 1 .. n /\ history = [i \in 1 .. n |-> history[i]]
      BY <2>1
    <3> QED BY <3>1, AppendToSequence
  <2> HIDE DEF h
  <2>3. \A i \in 1 .. n + 1 : h[i] = AsEntry(q[i])
    <3> TAKE i \in 1 .. n + 1
    <3>1. CASE i = n + 1
      BY <1>4, <2>2, <3>1
    <3>2. CASE i \in 1 .. n
      BY <1>4, <2>1, <2>2, <3>2
    <3> QED BY <3>1, <3>2
  <2>4. h = [i \in 1 .. n + 1 |-> AsEntry(q[i])]
    BY <2>2, <2>3
  <2> QED BY <1>8, <2>4 DEF h
<1>10. RawOK'
  <2>1. n + 1 \in Nat
    OBVIOUS
  <2>2. \A i \in DOMAIN raw' : Sound(raw'[i])
    BY <1>4, <1>6, <1>8
  <2>3. history' = [i \in DOMAIN raw' |-> AsEntry(raw'[i])]
    BY <1>4, <1>8, <1>9
  <2> QED BY <1>4, <1>8, <2>1, <2>2, <2>3 DEF RawOK
<1>11. Scored(pending', params', 0)
  BY <1>8 DEF Scored
<1>12. 0 \in 0 .. Examples
  BY LoopConstants
<1>13. (\E m \in 0 .. Examples : Scored(pending, params, m))'
  BY <1>11, <1>12
<1> QED BY <1>8, <1>10, <1>13 DEF EvidenceOK

(* The records of the tracked step bind the tensors that are reloaded.     *)
LEMMA EvidenceBinds ==
  ASSUME EvidenceOK, IInv, pc = "bind"
  PROVE  Bound /\ RecordsBind
<1>1. best # NoBest /\ params = best.state
  BY DEF IInv, ExportOK
<1>2. PICK b \in DOMAIN history : IsSelected(history, b) /\ best = history[b]
  BY <1>1 DEF IInv, BestOK
<1>3. history \in Seq(Entries) /\ Ordered(history)
  BY DEF IInv, LoopTypeOK, Entries
<1>4. Bound
  BY <1>1, <1>2, <1>3, SelectedIsUnique DEF Bound
<1>5. RawHistoryAccepted(raw)
  BY SoundIsAccepted DEF EvidenceOK, RawOK
<1>6. DOMAIN raw = DOMAIN history /\ \A i \in DOMAIN raw : history[i] = AsEntry(raw[i])
  BY DEF EvidenceOK, RawOK
<1>7. ASSUME NEW i \in DOMAIN raw, raw[i].step = best.step
      PROVE  {raw[i].records[j].identity.state : j \in DOMAIN raw[i].records} = {params}
  <2>1. history[i].step = raw[i].step /\ history[i].state = raw[i].records[1].identity.state
    BY <1>6 DEF AsEntry
  <2>2. i = b
    <3>1. i \in Nat /\ b \in Nat /\ history[i].step \in Int /\ history[b].step \in Int
      <4>1. history[i] \in Entries /\ history[b] \in Entries
        BY <1>2, <1>3, <1>6
      <4>2. i \in Nat /\ b \in Nat
        BY <1>2, <1>3, <1>6
      <4> QED BY <4>1, <4>2, LoopConstants DEF Entries
    <3>2. history[i].step = history[b].step
      BY <1>2, <1>7, <2>1
    <3>3. ~(i < b) /\ ~(b < i)
      BY <1>2, <1>3, <1>6, <3>1, <3>2 DEF Ordered
    <3> QED BY <3>1, <3>3
  <2>3. PICK state : Scored(raw[i].records, state, Examples)
    BY DEF EvidenceOK, RawOK, Sound
  <2>4. /\ raw[i].records[1].identity.state = state
        /\ {raw[i].records[j].identity.state : j \in DOMAIN raw[i].records} = {state}
    BY <2>3, ScoredIsAccepted
  <2> QED BY <1>1, <1>2, <2>1, <2>2, <2>4
<1> QED BY <1>4, <1>5, <1>7 DEF RecordsBind

(* Every other step leaves the evidence as it is.                          *)
LEMMA EvidenceInductive == EvidenceOK /\ IInv /\ [RecordedNext]_rvars => EvidenceOK'
<1> SUFFICES ASSUME EvidenceOK, IInv, [RecordedNext]_rvars PROVE EvidenceOK'
  OBVIOUS
<1>0. ASSUME pending = <<>>, UNCHANGED <<pending, raw, history, refused>> PROVE EvidenceOK'
  <2>1. Scored(pending', params', 0)
    BY <1>0 DEF Scored
  <2>2. 0 \in 0 .. Examples
    BY LoopConstants
  <2>3. (\E m \in 0 .. Examples : Scored(pending, params, m))'
    BY <2>1, <2>2
  <2> QED BY <1>0, <2>3 DEF EvidenceOK, RawOK
<1>1. CASE UNCHANGED rvars
  BY <1>1 DEF rvars, vars, EvidenceOK, RawOK
<1>2. CASE /\ Forward \/ StepFaults \/ OptimizerStep \/ Reload
           /\ UNCHANGED <<pending, raw, refused>>
  <2>1. pending = <<>> /\ UNCHANGED history
    BY <1>2 DEF EvidenceOK, Forward, StepFaults, OptimizerStep, Reload
  <2> QED BY <1>0, <1>2, <2>1
<1>3. CASE EvaluateRaises /\ UNCHANGED <<pending, raw, refused>>
  BY <1>3 DEF EvaluateRaises, EvidenceOK, RawOK
<1>4. CASE ScoreExample
  BY <1>4, ScoringKeeps
<1>5. CASE CloseCheckpoint
  BY <1>5, ClosingKeeps
<1>6. CASE RecordedExport
  <2>1. pc = "bind" /\ pending = <<>> /\ UNCHANGED <<history, pending, raw>>
    BY <1>6 DEF RecordedExport, BindAndExport, EvidenceOK
  <2>2. refused' = FALSE
    BY <1>6, <2>1, EvidenceBinds DEF RecordedExport
  <2> QED BY <1>0, <2>1, <2>2 DEF EvidenceOK
<1> QED BY <1>1, <1>2, <1>3, <1>4, <1>5, <1>6 DEF RecordedNext

(* All evidence of a run is made of honest records of one adapter each,    *)
(* and the loop's own invariant holds beside it.                           *)
THEOREM EvidenceHolds == RecordedSpec => [](EvidenceOK /\ IInv)
<1>1. RecordedInit => EvidenceOK
  <2> SUFFICES ASSUME RecordedInit PROVE EvidenceOK
    OBVIOUS
  <2>1. pending = <<>> /\ raw = <<>> /\ refused = FALSE /\ history = <<>>
    BY DEF RecordedInit, Init
  <2>2. 0 \in 0 .. Examples /\ 0 \in Nat
    BY LoopConstants
  <2>3. Scored(pending, params, 0)
    BY <2>1 DEF Scored
  <2>4. RawOK
    BY <2>1, <2>2 DEF RawOK
  <2> QED BY <2>1, <2>2, <2>3, <2>4 DEF EvidenceOK
<1>2. RecordedSpec => []IInv
  BY ImplementsLoop, Initially, Inductive, PTL DEF Spec
<1> QED BY <1>1, <1>2, EvidenceInductive, PTL DEF RecordedSpec

(* No honest run is refused by its own checks.                             *)
THEOREM HonestEvidence == RecordedSpec => []HonestScoresAreEvidence
<1>1. EvidenceOK => HonestScoresAreEvidence
  BY DEF EvidenceOK, RawOK, HonestScoresAreEvidence
<1> QED BY <1>1, EvidenceHolds, PTL

(* The order of an example's candidates decides nothing.                   *)
THEOREM OrderDecidesNothing == RecordedSpec => []VerdictIgnoresOrder
<1>1. EvidenceOK => VerdictIgnoresOrder
  <2> SUFFICES ASSUME EvidenceOK, pending # <<>> PROVE VerdictIgnoresOrder
    BY DEF VerdictIgnoresOrder
  <2> DEFINE r == pending[Len(pending)]
  <2>1. PICK k \in 0 .. Examples : Scored(pending, params, k)
    BY DEF EvidenceOK
  <2>2. k \in Nat /\ Len(pending) = k
    BY <2>1, ScoredLength, LoopConstants
  <2>3. k # 0
    <3> SUFFICES ASSUME k = 0 PROVE FALSE
      OBVIOUS
    <3>1. pending = [i \in 1 .. 0 |-> pending[i]]
      BY <2>1 DEF Scored
    <3>2. pending = <<>>
      BY <3>1
    <3> QED BY <3>2
  <2>4. k \in 1 .. Examples /\ k \in 1 .. k
    BY <2>2, <2>3
  <2>5. PICK rows \in RowsOf(Validation[k]) :
          r = EvalRecord(Identity(params), Validation[k], "validation", rows)
    BY <2>1, <2>2, <2>4 DEF Scored
  <2> DEFINE ex == CurrentSuite[Validation[k]]
             n == Len(ex.candidates)
  <2>6. n \in Nat \ {0} /\ Distinct(ex.candidates, n) /\ Scores(rows, n)
    BY <2>4, ExamplesAreRankable
  <2>7. /\ r.candidates = ex.candidates /\ r.gold = ex.gold /\ r.rows = rows
        /\ r.verdict = Verdict(ex.candidates, ex.gold, rows)
    BY <2>5 DEF EvalRecord
  <2>8. DOMAIN ex.candidates = 1 .. n
    BY <2>6 DEF Distinct
  <2> HIDE DEF n, ex, r
  <2>9. ASSUME NEW p \in Bijection(DOMAIN r.candidates, DOMAIN r.candidates)
        PROVE  SameAnswer(r.candidates, r.gold, r.rows, p)
    <3>1. p \in Bijection(1 .. n, 1 .. n) /\ n \in Nat
      BY <2>6, <2>7, <2>8
    <3>2. Renames(p, n)
      BY <3>1, BijectionsRename
    <3> QED BY <2>6, <2>7, <3>2, AnswersAreTheSame
  <2> QED BY <2>7, <2>9 DEF VerdictIgnoresOrder, SameAnswer, r
<1> QED BY <1>1, EvidenceHolds, PTL
=============================================================================
