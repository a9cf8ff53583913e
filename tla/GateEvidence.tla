---------------------------- MODULE GateEvidence ----------------------------
(***************************************************************************)
(* The evidence trees that no_spend_gate.py judges, and its judgement of   *)
(* one report, one checkpoint, one eval file and one quarantine, as        *)
(* functions of what was read.                                             *)
(*                                                                         *)
(* Three run directories: "two" in the 2B root, "live" in runs/ of the 4B  *)
(* root, and "rej", the same path in its _rejected_nan_batch.  A file is a *)
(* record of what the gate can tell about its bytes: two files have the    *)
(* same bytes exactly when their records are equal.  "of" names the run    *)
(* whose identity (model, revision, run, adapter, recipe) a file carries.  *)
(***************************************************************************)
EXTENDS Integers, FiniteSets

CONSTANTS Splits,    \* REQUIRED_SPLITS
          PerSplit   \* preregistered examples of a split

ASSUME EvidenceConstants == Splits # {} /\ PerSplit \in Nat \ {0}

Dir      == {"two", "live", "rej"}
Retained == Dir \ {"rej"}                  \* _evidence_scope: retained_candidate
Members(s) == {<<s, i>> : i \in 1 .. PerSplit}

Absent == [kind |-> "absent"]

GoodReport(d) == [kind |-> "report", of |-> d, parse |-> "strict", schema |-> TRUE,
                  suite |-> TRUE, recipe |-> TRUE, history |-> "v3", perfect |-> FALSE]
GoodBundle(d) == [kind |-> "bundle", of |-> d, selected |-> TRUE, fp32 |-> TRUE]
GoodEval(d, s) == [kind |-> "v3", adapter |-> d, of |-> d, scored |-> GoodBundle(d),
                   split |-> s, ids |-> Members(s), suite |-> TRUE]

Present(f) == f # Absent

-----------------------------------------------------------------------------
(* Reports                                                                 *)

Parsed(r) == Present(r) /\ r.parse = "strict"

(* validate_train_report: the recorded defects.  "schema" stands for the   *)
(* fields, pins, finiteness and precision; a history is "v3" when its raw  *)
(* rows validate against the suite, carry the report's identity and select *)
(* the reported step, metric and state; "forged" when they do not;         *)
(* "legacy" when it has no raw rows.                                       *)
ReportProblems(r) ==
  IF Parsed(r)
  THEN {p \in {"schema", "recipe", "history"} :
          \/ p = "schema"  /\ ~r.schema
          \/ p = "recipe"  /\ ~r.recipe
          \/ p = "history" /\ r.history # "v3"}
  ELSE {"unreadable"}

SelectionConsistent(r) == Parsed(r) => r.history = "v3"

(* The recipe a bundle is loaded against: derived from the config, and     *)
(* only when the declared one equals it.                                   *)
HasRecipe(r) == Parsed(r) /\ r.recipe

(* classify_checkpoint, with the report of its directory or Absent.  The   *)
(* state is compared when the report's raw history selects one.            *)
Classify(r, c) ==
  CASE c.kind = "corrupt"               -> "corrupt"
    [] c.kind = "plain"                 -> "legacy-unbound"
    [] Parsed(r) /\ c.of # r.of         -> "invalid"
    [] ~HasRecipe(r)                    -> "invalid"
    [] r.history = "v3" /\ ~c.selected  -> "invalid"
    [] ~c.fp32                          -> "non-fp32-payload"
    [] OTHER                            -> "loadable"

-----------------------------------------------------------------------------
(* Eval files                                                              *)

Foreign(e) == ~(e.ids \subseteq Members(e.split))

(* evaluate_eval_file: a "v3" file has a valid envelope and raw rows that  *)
(* validate, "forged" ones do not, "raw" is legacy with raw scores,        *)
(* "derived" legacy without, "broken" unreadable or without metadata.      *)
EvalStatus(e) ==
  CASE e.kind = "broken"                          -> "INVALID"
    [] e.ids = {}                                 -> "NO_RECORDS"
    [] e.kind = "derived"                         -> "IRRECOVERABLE"
    [] e.kind = "raw" /\ ~(e.suite /\ Foreign(e)) -> "HISTORICAL"
    [] e.kind # "raw" /\ ~e.suite                 -> "suite_mismatch"
    [] Foreign(e)                                 -> "MEMBERSHIP"
    [] e.kind = "forged"                          -> "INVALID"
    [] OTHER                                      -> "RESCORED"

(* The identity join of an eval with the run its adapter path names.       *)
SameIdentity(e, r, c) == Parsed(r) /\ e.of = r.of /\ e.scored = c

-----------------------------------------------------------------------------
(* The 4B quarantine, from the scanned digests and the reports as they are *)
(* parsed leniently later.                                                 *)

Files(t, d) == {t.report[d], t.ckpt[d]} \ {Absent}

LiveDuplicatesNegative(t) == Files(t, "live") \cap Files(t, "rej") # {}

OnlyInLive(t) == \/ Present(t.report["live"]) /\ ~Present(t.report["rej"])
                 \/ Present(t.ckpt["live"]) /\ ~Present(t.ckpt["rej"])

KnownInvalid(r) == Present(r) /\ (r.parse # "strict" \/ r.perfect)

(* analyze_quarantine, as the facts that the gate goes by.                 *)
Quarantine(scan, now) ==
  {q \in {"marker", "empty", "duplicates", "only_in_live", "live_invalid"} :
     \/ q = "marker"       /\ ~scan.marker
     \/ q = "empty"        /\ ~Present(scan.report["rej"])
     \/ q = "duplicates"   /\ LiveDuplicatesNegative(scan)
     \/ q = "only_in_live" /\ OnlyInLive(scan)
     \/ q = "live_invalid" /\ Present(scan.report["live"])
                           /\ (Present(now.report["live"]) => KnownInvalid(now.report["live"]))}

-----------------------------------------------------------------------------
(* What READY is documented to require of a tree (NO_SPEND_GATE.md, "What  *)
(* READY requires"), said of the files themselves.                         *)

Trustworthy(r) == /\ r.parse = "strict" /\ r.schema /\ r.suite /\ r.recipe
                  /\ r.history = "v3"

Supports(e, d, t) == /\ e.kind = "v3" /\ e.suite /\ e.adapter = d
                     /\ e.of = t.report[d].of /\ e.scored = t.ckpt[d]

Evals(t) == {t.eval[s] : s \in DOMAIN t.eval} \ {Absent}

CheckpointProven(t, d) ==
  /\ Present(t.report[d])
  /\ t.ckpt[d] = GoodBundle(t.report[d].of)
  /\ \A x \in Dir \ {d} : t.ckpt[x] # t.ckpt[d]
  /\ \A s \in Splits : \A i \in Members(s) :
       \E e \in Evals(t) : e.split = s /\ i \in e.ids /\ Supports(e, d, t)

Proven(t) ==
  /\ \E d \in Retained : Present(t.ckpt[d])
  /\ \A d \in Retained :
       /\ Present(t.report[d]) => Trustworthy(t.report[d]) /\ t.bound[d]
       /\ Present(t.ckpt[d]) => CheckpointProven(t, d)
  /\ \A e \in Evals(t) :
       /\ e.adapter \in Retained /\ Present(t.report[e.adapter])
       /\ e.kind = "v3" /\ e.suite /\ e.ids # {} /\ ~Foreign(e)
       /\ Present(t.ckpt[e.adapter]) => Supports(e, e.adapter, t)
  /\ t.marker /\ Present(t.report["rej"])
  /\ ~LiveDuplicatesNegative(t)
  /\ ~KnownInvalid(t.report["live"])

=============================================================================
