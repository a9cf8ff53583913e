----------------------------- MODULE EvalRecords -----------------------------
(***************************************************************************)
(* The evidence of one evaluated example: what rank_candidates of          *)
(* localized.py reports, the latent_eval.v3 record that                    *)
(* build_v3_runtime_record makes of it, and the scorer, the validators and *)
(* the aggregation of eval_v3.py.  A log probability is an integer, and a  *)
(* mean is compared by cross multiplication; an example's prompt and its   *)
(* permutation seed are named by its id.                                   *)
(***************************************************************************)
EXTENDS Integers, FiniteSets, SequencesExt

CONSTANTS ByteOrder,   \* candidate -> its place in the order of UTF-8 bytes
          TokenIds,    \* candidate -> the tokens of its text
          CurrentSuite \* example id -> [split, family, candidates, permutation, gold]

Total(row) ==
  LET upTo[n \in 0 .. Len(row)] == IF n = 0 THEN 0 ELSE upTo[n - 1] + row[n]
  IN  upTo[Len(row)]

(* The primary score is the mean log probability of a candidate's tokens.  *)
Better(a, b) == Total(a) * Len(b) > Total(b) * Len(a)
Level(a, b)  == Total(a) * Len(b) = Total(b) * Len(a)

Leaders(rows) == {i \in DOMAIN rows : \A j \in DOMAIN rows : ~Better(rows[j], rows[i])}

(* The indices from the best score to the worst; pairs <<j, i>> of before  *)
(* say which of two equals comes first.                                    *)
Ranked(rows, before) ==
  LET above(i) == {j \in DOMAIN rows : \/ Better(rows[j], rows[i])
                                       \/ Level(rows[j], rows[i]) /\ <<j, i>> \in before}
  IN  [n \in DOMAIN rows |-> CHOOSE i \in DOMAIN rows : Cardinality(above(i)) = n - 1]

TokensBefore(s, t) ==
  \/ IsStrictPrefix(s, t)
  \/ \E n \in DOMAIN s \cap DOMAIN t : s[n] < t[n] /\ \A m \in 1 .. n - 1 : s[m] = t[m]

-----------------------------------------------------------------------------
(* The runtime and the scorer.                                             *)

(* The runtime knows token ids but not texts, and raises on a top tie with *)
(* the same details.                                                       *)
RankCandidates(candidates, rows) ==
  LET top == Leaders(rows)
      before == {p \in (DOMAIN rows) \X (DOMAIN rows) :
                   TokensBefore(TokenIds[candidates[p[1]]], TokenIds[candidates[p[2]]])}
  IN  [tie    |-> Cardinality(top) > 1,
       topTie |-> IF Cardinality(top) > 1 THEN top ELSE {},
       order  |-> IF Cardinality(top) > 1 THEN <<>> ELSE Ranked(rows, before),
       counts |-> [i \in DOMAIN rows |-> Len(TokenIds[candidates[i]])],
       sums   |-> [i \in DOMAIN rows |-> Total(rows[i])]]

Ties(rows) ==
  {g \in {{j \in DOMAIN rows : Level(rows[i], rows[j])} : i \in DOMAIN rows} : Cardinality(g) > 1}

GoldIndex(candidates, gold) == CHOOSE i \in DOMAIN candidates : candidates[i] = gold

(* A top tie is an error and no answer.                                    *)
VerdictOf(candidates, gold, rows, ranking) ==
  LET tied == Cardinality(Leaders(rows)) > 1
  IN  [goldIndex |-> GoldIndex(candidates, gold),
       counts  |-> [i \in DOMAIN rows |-> Len(rows[i])],
       sums    |-> [i \in DOMAIN rows |-> Total(rows[i])],
       ranking |-> ranking, ties |-> Ties(rows),
       predicted |-> IF tied THEN <<>> ELSE <<candidates[ranking[1]]>>,
       correct |-> ~tied /\ candidates[ranking[1]] = gold,
       status  |-> IF tied THEN "error" ELSE "ok",
       error   |-> IF tied THEN "AMBIGUOUS_TOP_TIE" ELSE "none"]

(* Faulty variant: equal scores are ordered by index.                      *)
VerdictByIndex(candidates, gold, rows) ==
  VerdictOf(candidates, gold, rows,
            Ranked(rows, {p \in (DOMAIN rows) \X (DOMAIN rows) : p[1] < p[2]}))

(* Equal scores are ordered by the bytes of the candidates.                *)
Verdict(candidates, gold, rows) ==
  LET bytes(i) == ByteOrder[candidates[i]]
  IN  VerdictOf(candidates, gold, rows,
                Ranked(rows, {p \in (DOMAIN rows) \X (DOMAIN rows) : bytes(p[1]) < bytes(p[2])}))

(* What a runtime error or a nontermination may claim.                     *)
ErrorVerdict(candidates, gold, status, error) ==
  [goldIndex |-> GoldIndex(candidates, gold),
   counts |-> [i \in DOMAIN candidates |-> 0], sums |-> [i \in DOMAIN candidates |-> {}],
   ranking |-> <<>>, ties |-> {}, predicted |-> <<>>, correct |-> FALSE,
   status |-> status, error |-> error]

-----------------------------------------------------------------------------
(* Records.  An identity is [run, recipe, recurrence, k, state]: state is  *)
(* the hash of the adapter that was measured.                              *)

EvalRecord(identity, id, split, rows) ==
  LET ex == CurrentSuite[id]
  IN  [identity |-> identity, example |-> id, split |-> split, family |-> ex.family,
       candidates |-> ex.candidates, permutation |-> ex.permutation, gold |-> ex.gold,
       rows |-> rows, verdict |-> Verdict(ex.candidates, ex.gold, rows)]

(* Faulty variant: every ranking must be that of the canonical scorer.     *)
ConvertsInOrderOnly(r, runtime) ==
  /\ runtime.counts = r.verdict.counts /\ runtime.sums = r.verdict.sums
  /\ ~runtime.tie => runtime.order = r.verdict.ranking

(* The converter accepts the runtime's details as evidence: same counts,   *)
(* sums and tie, same winner, and the same ranking unless something ties.  *)
Converts(r, runtime) ==
  LET tied == r.verdict.error = "AMBIGUOUS_TOP_TIE"
  IN  /\ runtime.counts = r.verdict.counts /\ runtime.sums = r.verdict.sums
      /\ runtime.tie = tied
      /\ runtime.topTie = IF tied THEN Leaders(r.rows) ELSE {}
      /\ ~runtime.tie =>
           /\ Range(runtime.order) = DOMAIN r.candidates
           /\ r.verdict.status = "ok" => runtime.order[1] = r.verdict.ranking[1]
           /\ r.verdict.ties = {} => runtime.order = r.verdict.ranking

IsRuntimeError(r) == r.verdict.status \in {"error", "nontermination"}
                     /\ r.verdict.error # "AMBIGUOUS_TOP_TIE"

Rescore(r) == IF IsRuntimeError(r)
              THEN ErrorVerdict(r.candidates, r.gold, r.verdict.status, r.verdict.error)
              ELSE Verdict(r.candidates, r.gold, r.rows)

WellFormed(r) ==
  /\ r.identity.k >= 0
  /\ Len(r.candidates) >= 2 /\ IsInjective(r.candidates)
  /\ Range(r.permutation) = DOMAIN r.candidates /\ Len(r.permutation) = Len(r.candidates)

ValidRecord(r) ==
  /\ WellFormed(r)
  /\ \E i \in DOMAIN r.candidates : r.candidates[i] = r.gold
  /\ IF IsRuntimeError(r)
     THEN \A i \in DOMAIN r.rows : r.rows[i] = <<>>
     ELSE Len(r.rows) = Len(r.candidates) /\ \A i \in DOMAIN r.rows : r.rows[i] # <<>>
  /\ r.verdict = Rescore(r)

(* The record describes the very example of the suite that it names.       *)
ValidInSuite(r, split) ==
  /\ ValidRecord(r)
  /\ r.split = split /\ r.example \in DOMAIN CurrentSuite
  /\ LET ex == CurrentSuite[r.example]
     IN  /\ r.split = ex.split /\ r.family = ex.family
         /\ r.candidates = ex.candidates /\ r.permutation = ex.permutation
         /\ r.gold = ex.gold /\ r.verdict.goldIndex = GoldIndex(ex.candidates, ex.gold)

Aggregates(records) ==
  /\ records # <<>> /\ \A i \in DOMAIN records : ValidRecord(records[i])
  /\ \A i, j \in DOMAIN records :
       /\ records[i].example = records[j].example => i = j
       /\ records[i].identity = records[j].identity /\ records[i].split = records[j].split

Hits(records, family) ==
  Cardinality({i \in DOMAIN records : records[i].family \in family /\ records[i].verdict.correct})

(* The summary of a checkpoint: micro accuracy is hits over n.             *)
Summary(records) ==
  LET families == {records[i].family : i \in DOMAIN records}
  IN  [n |-> Len(records), hits |-> Hits(records, families),
       perFamily |-> [f \in families |->
                       <<Hits(records, {f}),
                         Cardinality({i \in DOMAIN records : records[i].family = f})>>],
       errors |-> Cardinality({i \in DOMAIN records : records[i].verdict.status # "ok"})]
=============================================================================
