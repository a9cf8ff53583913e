---------------------------- MODULE TrainRecords -----------------------------
(***************************************************************************)
(* The training loop with the raw evidence of its checkpoints: a           *)
(* validation is one runtime ranking and one record per example, the       *)
(* history keeps the records beside their summary, and the selection is    *)
(* made from what the records say.  The number of hits that TrainLoop      *)
(* draws from the air is counted here.                                     *)
(***************************************************************************)
EXTENDS TrainLoop, EvalRecords

CONSTANTS Validation,   \* the ids of the validation split, in its order
          RowsOf(_)     \* the log probabilities an adapter may give to an example

(* A validated suite: an example has two or more candidates, the gold one  *)
(* among them, and a permutation of their places.  No two candidates have  *)
(* the same bytes, nor the same tokens, and none has no tokens.            *)
ExampleOK(ex) ==
  LET c == ex.candidates
  IN  /\ c \in Seq(DOMAIN TokenIds) /\ Len(c) >= 2
      /\ \E i \in DOMAIN c : c[i] = ex.gold
      /\ Len(ex.permutation) = Len(c) /\ Range(ex.permutation) = DOMAIN c
      /\ \A i \in DOMAIN c : /\ ByteOrder[c[i]] \in Int
                            /\ TokenIds[c[i]] \in Seq(Nat) /\ Len(TokenIds[c[i]]) > 0
      /\ \A i, j \in DOMAIN c : i # j => /\ ByteOrder[c[i]] # ByteOrder[c[j]]
                                        /\ TokenIds[c[i]] # TokenIds[c[j]]

(* A finite log probability for every token of every candidate.            *)
ScoresOK(ex, rows) ==
  /\ rows \in Seq(Seq(Int)) /\ Len(rows) = Len(ex.candidates)
  /\ \A i \in DOMAIN rows : Len(rows[i]) = Len(TokenIds[ex.candidates[i]])

ASSUME ValidationConstants ==
  /\ Validation \in Seq(DOMAIN CurrentSuite) /\ IsInjective(Validation)
  /\ Examples <= Len(Validation)
  /\ \A i \in DOMAIN Validation :
       LET ex == CurrentSuite[Validation[i]]
       IN  /\ ex.split = "validation" /\ ExampleOK(ex)
           /\ \A rows \in RowsOf(Validation[i]) : ScoresOK(ex, rows)

VARIABLES pending,   \* records of the validation that is going on
          raw,       \* val_history: step, summary and records of each checkpoint
          refused    \* evidence of this run was refused by its own checks

rvars == <<vars, pending, raw, refused>>

(* run_id, recipe and K are the run's; every checkpoint binds its tensors. *)
Identity(state) == [run |-> "run", recipe |-> "recipe", recurrence |-> "recurrence",
                    k |-> 4, state |-> state]
SameRun(identity) == Identity(identity.state) = identity

AsEntry(e) == [step |-> e.step, metric |-> e.metrics.hits, state |-> e.records[1].identity.state]

(* A raw history can select only when every record is evidence of this     *)
(* split and of this run, and every summary is rebuilt from its records.   *)
RawHistoryAccepted(h) ==
  \A i \in DOMAIN h :
    /\ h[i].records # <<>>
    /\ \A j \in DOMAIN h[i].records : ValidInSuite(h[i].records[j], "validation")
    /\ Aggregates(h[i].records) /\ SameRun(h[i].records[1].identity)
    /\ h[i].metrics = Summary(h[i].records)

RecordedInit == Init /\ pending = <<>> /\ raw = <<>> /\ refused = FALSE

(* The examples are ranked and recorded one after the other, the first     *)
(* Examples of the split; a top tie is evidence like any other score.      *)
ScoreExample ==
  /\ pc = "evaluate" /\ Len(pending) < Examples
  /\ LET id == Validation[Len(pending) + 1]
     IN  \E rows \in RowsOf(id) :
           LET record == EvalRecord(Identity(params), id, "validation", rows)
           IN  IF Converts(record, RankCandidates(record.candidates, rows))
               THEN pending' = Append(pending, record) /\ UNCHANGED <<pc, refused>>
               ELSE pc' = "error" /\ refused' = TRUE /\ UNCHANGED pending
  /\ UNCHANGED <<step, params, history, best, report, raw>>

(* The records join the history with their summary, the selector runs over *)
(* the raw history, and the tracker follows when it picks this checkpoint. *)
CloseCheckpoint ==
  /\ pc = "evaluate" /\ Len(pending) = Examples
  /\ LET entry == [step |-> step, metrics |-> Summary(pending), records |-> pending]
     IN  IF Aggregates(pending) /\ RawHistoryAccepted(Append(raw, entry))
         THEN /\ raw' = Append(raw, entry) /\ pending' = <<>>
              /\ history' = Append(history, AsEntry(entry))
              /\ best' = IF Selected(history').step = step THEN Update(AsEntry(entry)) ELSE best
              /\ pc' = NextStep(step) /\ UNCHANGED refused
         ELSE pc' = "error" /\ refused' = TRUE /\ UNCHANGED <<pending, raw, history, best>>
  /\ UNCHANGED <<step, params, report>>

(* The records of the selected step name one state, the one reloaded.      *)
RecordsBind ==
  /\ RawHistoryAccepted(raw)
  /\ \A i \in DOMAIN raw : raw[i].step = best.step =>
       {raw[i].records[j].identity.state : j \in DOMAIN raw[i].records} = {params}

RecordedExport ==
  /\ BindAndExport
  /\ pc' = "exported" => RecordsBind
  /\ refused' = ~(Bound /\ RecordsBind)
  /\ UNCHANGED <<pending, raw>>

RecordedNext ==
  \/ (Forward \/ StepFaults \/ OptimizerStep \/ EvaluateRaises \/ Reload)
       /\ UNCHANGED <<pending, raw, refused>>
  \/ ScoreExample \/ CloseCheckpoint \/ RecordedExport

RecordedSpec == RecordedInit /\ [][RecordedNext]_rvars

-----------------------------------------------------------------------------
(* Properties                                                              *)

(* Hours of training are not lost to the loop's own checks: whatever       *)
(* finite scores a runtime returns, ties of any kind included, the details *)
(* convert, the records pass the suite's validator, the raw history        *)
(* selects, and the binding of the selected records to the reloaded        *)
(* tensors holds; and the metrics selected by are what the records say.    *)
HonestScoresAreEvidence ==
  /\ ~refused
  /\ history = [i \in DOMAIN raw |-> AsEntry(raw[i])]

Shuffled(s, p) == [i \in DOMAIN s |-> s[p[i]]]
InContents(candidates, order) == [n \in DOMAIN order |-> candidates[order[n]]]

(* The place of a candidate in its list decides nothing: with the          *)
(* candidates and their scores in any other order, the scorer gives the    *)
(* same answer, correctness, error and complete ranking of contents, and   *)
(* the runtime the same winner or tie.                                     *)
VerdictIgnoresOrder ==
  pending # <<>> =>
    LET r == pending[Len(pending)] IN \A p \in Bijection(DOMAIN r.candidates, DOMAIN r.candidates) :
      LET candidates == Shuffled(r.candidates, p)
          rows == Shuffled(r.rows, p)
          v == Verdict(candidates, r.gold, rows)
          here == RankCandidates(r.candidates, r.rows)
          there == RankCandidates(candidates, rows)
      IN /\ v.predicted = r.verdict.predicted /\ v.correct = r.verdict.correct
         /\ v.error = r.verdict.error
         /\ InContents(candidates, v.ranking) = InContents(r.candidates, r.verdict.ranking)
         /\ here.tie = there.tie
         /\ InContents(candidates, there.order) = InContents(r.candidates, here.order)
=============================================================================
