-------------------------- MODULE NoSpendGateProofs ---------------------------
(***************************************************************************)
(* TLAPS proofs about the gate's verdict, for any required splits, any     *)
(* number of examples and any number of changes of the trees meanwhile.    *)
(***************************************************************************)
EXTENDS NoSpendGate, TLAPS

USE EvidenceConstants, GateConstants

ReportFile == [kind: {"report"}, of: Dir, parse: {"strict", "nan"}, schema: BOOLEAN,
               suite: BOOLEAN, recipe: BOOLEAN, history: {"v3", "forged", "legacy"},
               perfect: BOOLEAN]
Bundle == [kind: {"bundle", "corrupt", "plain"}, of: Dir, selected: BOOLEAN, fp32: BOOLEAN]
EvalFile == [kind: {"v3", "forged", "raw", "derived", "broken"}, adapter: Dir \cup {"nowhere"},
             of: Dir, scored: Bundle, split: Splits, ids: SUBSET (Splits \X Nat),
             suite: BOOLEAN]
Tree == [report: [Dir -> ReportFile \cup {Absent}], ckpt: [Dir -> Bundle \cup {Absent}],
         bound: [Dir -> BOOLEAN], eval: [Slot -> EvalFile \cup {Absent}], marker: BOOLEAN]

-----------------------------------------------------------------------------
(* The decision over one tree that every stage has seen.                   *)

\* What the stages found is, in each place that they looked at, the tree t.
Saw(t) ==
  /\ \A d \in Dir :
       /\ read.scan.report[d] = t.report[d] /\ read.scan.ckpt[d] = t.ckpt[d]
       /\ read.reports[d] = t.report[d] /\ read.runs.ckpt[d] = t.ckpt[d]
       /\ read.quarantine.report[d] = t.report[d]
  /\ \A d \in Retained : read.runs.bound[d] = t.bound[d]
  /\ \A s \in Slot : read.scan.eval[s] = t.eval[s] /\ read.evals[s] = t.eval[s]
  /\ read.scan.marker = t.marker

LEMMA RetainedAreDirs == Retained = {"two", "live"} /\ Retained \subseteq Dir
BY DEF Retained, Dir

\* What the gate means by its sets, over one tree and in full mode.
LEMMA GateSets ==
  ASSUME NEW t \in Tree, Saw(t), mode = "full"
  PROVE  /\ \A d \in Dir : ReportOf(d) = t.report[d] /\ CkptOf(d) = t.ckpt[d]
         /\ \A d \in Dir : d \in Discovered <=> Present(t.report[d])
         /\ \A d \in Dir : HasCkpt(d) <=> Present(t.report[d]) /\ Present(t.ckpt[d])
         /\ \A d \in Retained :
              /\ d \in RetainedRuns <=> Present(t.report[d])
              /\ d \in Candidates <=> Present(t.report[d]) /\ Present(t.ckpt[d])
              /\ d \in Eligible <=> /\ Present(t.report[d]) /\ Present(t.ckpt[d])
                                    /\ Classify(t.report[d], t.ckpt[d]) = "loadable"
         /\ RetainedRuns \subseteq Retained /\ Candidates \subseteq Retained
         /\ Eligible \subseteq Retained
         /\ \A s \in Slot : s \in JudgedSlots <=> Present(t.eval[s])
         /\ JudgedSlots \subseteq Slot
         /\ \A s \in Slot : Eval(s) = t.eval[s]
<1> USE RetainedAreDirs
<1>1. \A d \in Dir : ReportOf(d) = t.report[d] /\ CkptOf(d) = t.ckpt[d]
  BY DEF Saw, ReportOf, CkptOf, Present
<1>2. \A d \in Dir : d \in Discovered <=> Present(t.report[d])
  BY DEF Saw, Discovered
<1>3. \A d \in Dir : HasCkpt(d) <=> Present(t.report[d]) /\ Present(t.ckpt[d])
  BY <1>2 DEF Saw, HasCkpt
<1>4. /\ RetainedRuns \subseteq Retained /\ Candidates \subseteq Retained
      /\ Eligible \subseteq Retained
  BY DEF RetainedRuns, Candidates, Eligible
<1>5. \A d \in Retained : d \in RetainedRuns <=> Present(t.report[d])
  BY <1>2 DEF RetainedRuns
<1>6. \A d \in Retained : d \in Candidates <=> Present(t.report[d]) /\ Present(t.ckpt[d])
  BY <1>3, <1>5 DEF Candidates
<1>7. ASSUME NEW d \in Retained
      PROVE  d \in Eligible <=> /\ Present(t.report[d]) /\ Present(t.ckpt[d])
                                /\ Classify(t.report[d], t.ckpt[d]) = "loadable"
  BY <1>1, <1>6 DEF Eligible, ClassOf
<1>8. \A s \in Slot : s \in JudgedSlots <=> Present(t.eval[s])
  BY DEF Saw, JudgedSlots
<1>9. JudgedSlots \subseteq Slot
  BY DEF JudgedSlots
<1>10. \A s \in Slot : Eval(s) = t.eval[s]
  BY DEF Saw, Eval
<1> QED BY <1>1, <1>2, <1>3, <1>4, <1>5, <1>6, <1>7, <1>8, <1>9, <1>10

-----------------------------------------------------------------------------
(* The judgement of one file.                                              *)

LEMMA FilesArePresent ==
  /\ \A r \in ReportFile : Present(r)
  /\ \A c \in Bundle : Present(c)
  /\ \A e \in EvalFile : Present(e)
BY DEF ReportFile, Bundle, EvalFile, Present, Absent

\* A report without a problem is what READY asks of it, but for the suite.
LEMMA ReportsWithoutProblem ==
  ASSUME NEW r \in ReportFile
  PROVE  ReportProblems(r) = {} <=>
           r.parse = "strict" /\ r.schema /\ r.recipe /\ r.history = "v3"
<1>1. CASE Parsed(r)
  <2>1. /\ "schema" \in ReportProblems(r) <=> ~r.schema
        /\ "recipe" \in ReportProblems(r) <=> ~r.recipe
        /\ "history" \in ReportProblems(r) <=> r.history # "v3"
        /\ ReportProblems(r) \subseteq {"schema", "recipe", "history"}
    BY <1>1 DEF ReportProblems
  <2> QED BY <1>1, <2>1 DEF Parsed
<1>2. CASE ~Parsed(r)
  BY <1>2, FilesArePresent DEF ReportProblems, Parsed
<1> QED BY <1>1, <1>2

\* A loadable payload beside a trustworthy report is that run's bundle.
LEMMA LoadableIsGood ==
  ASSUME NEW r \in ReportFile, NEW c \in Bundle, Trustworthy(r)
  PROVE  Classify(r, c) = "loadable" <=> c = GoodBundle(r.of)
<1>1. Parsed(r) /\ HasRecipe(r) /\ r.history = "v3"
  BY FilesArePresent DEF Trustworthy, Parsed, HasRecipe
<1>2. Classify(r, c) = "loadable" <=>
        c.kind = "bundle" /\ c.of = r.of /\ c.selected /\ c.fp32
  BY <1>1 DEF Classify, Bundle
<1>3. c = [kind |-> c.kind, of |-> c.of, selected |-> c.selected, fp32 |-> c.fp32]
  BY DEF Bundle
<1> QED BY <1>2, <1>3 DEF GoodBundle, Bundle

LEMMA RescoredIsSound ==
  ASSUME NEW e \in EvalFile
  PROVE  EvalStatus(e) = "RESCORED" <=>
           e.kind = "v3" /\ e.suite /\ e.ids # {} /\ ~Foreign(e)
BY DEF EvalStatus, EvalFile
-----------------------------------------------------------------------------
(* READY over one tree: everything that it is documented to require.       *)

\* What the prerequisites say when all of them are proven.
LEMMA AllProven ==
  ASSUME Unproven = {}
  PROVE  /\ BadReports = {} /\ SuiteMismatch = {}
         /\ mode # "dry" /\ Candidates # {} /\ Eligible = Candidates
         /\ Orphans = {} /\ Duplicates = {}
         /\ BadEvals = {} /\ OrphanEvals = {} /\ Mismatches = {} /\ Gaps = {}
         /\ tests = "passed" /\ Quarantined = {}
<1>1. BadReports \cup SuiteMismatch = {}
  <2>1. "reports" \notin Unproven
    OBVIOUS
  <2> QED BY <2>1 DEF Unproven
<1>2. /\ mode # "dry" /\ Candidates # {} /\ Eligible = Candidates
      /\ Orphans = {} /\ Duplicates = {}
  <2>1. "checkpoints" \notin Unproven
    OBVIOUS
  <2> QED BY <2>1 DEF Unproven
<1>3. RescoreProven
  <2>1. "rescore" \notin Unproven
    OBVIOUS
  <2> QED BY <2>1 DEF Unproven
<1>4. tests = "passed"
  <2>1. "runtime" \notin Unproven
    OBVIOUS
  <2> QED BY <2>1 DEF Unproven
<1>5. Quarantined = {}
  <2>1. "quarantine" \notin Unproven
    OBVIOUS
  <2> QED BY <2>1 DEF Unproven
<1> QED BY <1>1, <1>2, <1>3, <1>4, <1>5 DEF RescoreProven

LEMMA ReadySound ==
  ASSUME NEW t \in Tree, Saw(t), mode = "full", Unproven = {}
  PROVE  Proven(t)
<1> USE RetainedAreDirs
<1>0. /\ BadReports = {} /\ SuiteMismatch = {} /\ Candidates # {} /\ Eligible = Candidates
      /\ Orphans = {} /\ Duplicates = {} /\ BadEvals = {} /\ OrphanEvals = {}
      /\ Mismatches = {} /\ Gaps = {} /\ Quarantined = {}
  BY AllProven
<1> DEFINE R(d) == t.report[d]
           C(d) == t.ckpt[d]
<1>1. \A d \in Dir : /\ R(d) \in ReportFile \cup {Absent} /\ C(d) \in Bundle \cup {Absent}
                     /\ Present(R(d)) <=> R(d) \in ReportFile
                     /\ Present(C(d)) <=> C(d) \in Bundle
  <2>1. \A d \in Dir : t.report[d] \in ReportFile \cup {Absent} /\ t.ckpt[d] \in Bundle \cup {Absent}
    BY DEF Tree
  <2> QED BY <2>1, FilesArePresent DEF Present
<1>2. \A s \in Slot : /\ t.eval[s] \in EvalFile \cup {Absent}
                      /\ Present(t.eval[s]) <=> t.eval[s] \in EvalFile
  <2>1. \A s \in Slot : t.eval[s] \in EvalFile \cup {Absent}
    BY DEF Tree
  <2> QED BY <2>1, FilesArePresent DEF Present
<1>3. /\ \A d \in Dir : ReportOf(d) = R(d) /\ CkptOf(d) = C(d)
      /\ \A d \in Dir : HasCkpt(d) <=> Present(R(d)) /\ Present(C(d))
      /\ \A d \in Retained : d \in RetainedRuns <=> Present(R(d))
      /\ \A d \in Retained : d \in Candidates <=> Present(R(d)) /\ Present(C(d))
      /\ \A d \in Retained :
           d \in Eligible <=> /\ Present(R(d)) /\ Present(C(d))
                             /\ Classify(R(d), C(d)) = "loadable"
      /\ Candidates \subseteq Retained
      /\ \A s \in Slot : s \in JudgedSlots <=> Present(t.eval[s])
      /\ JudgedSlots \subseteq Slot
      /\ \A s \in Slot : Eval(s) = t.eval[s]
  BY GateSets
<1>4. \E d \in Retained : Present(C(d))
  BY <1>0, <1>3
<1>5. ASSUME NEW d \in Retained, Present(R(d))
      PROVE  Trustworthy(R(d)) /\ t.bound[d]
  <2>1. ProblemsOf(d) = {} /\ ~(Parsed(R(d)) /\ ~R(d).suite)
    BY <1>0, <1>3, <1>5 DEF BadReports, SuiteMismatch
  <2>2. ReportProblems(R(d)) = {}
    BY <1>3, <2>1 DEF ProblemsOf
  <2>3. R(d).parse = "strict" /\ R(d).schema /\ R(d).recipe /\ R(d).history = "v3"
    BY <1>1, <1>5, <2>2, ReportsWithoutProblem
  <2>4. Parsed(R(d)) /\ R(d).suite
    BY <1>5, <2>1, <2>3 DEF Parsed
  <2>5. read.runs.bound[d]
    BY <1>3, <2>1, <2>3, <2>4 DEF ProblemsOf
  <2> QED BY <2>3, <2>4, <2>5 DEF Trustworthy, Saw
<1>6. ASSUME NEW d \in Retained, Present(C(d))
      PROVE  /\ Present(R(d)) /\ C(d) = GoodBundle(R(d).of)
             /\ d \in Eligible
             /\ \A x \in Dir \ {d} : C(x) # C(d)
  <2>1. HasCkpt(d)
    BY <1>0, <1>6 DEF Orphans, Saw
  <2>2. Present(R(d)) /\ d \in Eligible
    BY <1>0, <1>3, <1>6, <2>1
  <2>3. C(d) = GoodBundle(R(d).of)
    BY <1>1, <1>3, <1>5, <1>6, <2>2, LoadableIsGood
  <2>4. ASSUME NEW x \in Dir \ {d}, C(x) = C(d)
        PROVE  FALSE
    <3>1. <<d, x>> \in Duplicates
      BY <1>6, <2>1, <2>4 DEF Duplicates, Saw
    <3> QED BY <1>0, <3>1
  <2> QED BY <2>2, <2>3, <2>4
<1>7. ASSUME NEW s \in Slot, Present(t.eval[s])
      PROVE  LET e == t.eval[s]
             IN  /\ e \in EvalFile /\ Status(s) = "RESCORED"
                 /\ e.kind = "v3" /\ e.suite /\ e.ids # {} /\ ~Foreign(e)
                 /\ e.adapter \in Retained /\ BoundTo(s, e.adapter) /\ Present(R(e.adapter))
  <2>1. s \in JudgedSlots /\ t.eval[s] \in EvalFile /\ Eval(s) = t.eval[s]
    BY <1>2, <1>3, <1>7
  <2>2. Status(s) = "RESCORED" /\ Status(s) = EvalStatus(t.eval[s])
    BY <1>0, <1>7, <2>1 DEF BadEvals, Status
  <2>3. PICK d \in Retained : BoundTo(s, d)
    BY <1>0, <2>1 DEF OrphanEvals
  <2>4. t.eval[s].adapter = d /\ Present(R(d))
    BY <1>3, <2>1, <2>3 DEF BoundTo
  <2> QED BY <2>1, <2>2, <2>3, <2>4, RescoredIsSound
<1>8. ASSUME NEW s \in Slot, Present(t.eval[s]), Present(C(t.eval[s].adapter))
      PROVE  Supports(t.eval[s], t.eval[s].adapter, t)
  <2> DEFINE e == t.eval[s]
             d == e.adapter
  <2>1. d \in Retained /\ BoundTo(s, d) /\ s \in JudgedSlots /\ Status(s) = "RESCORED"
    BY <1>3, <1>7, <1>8
  <2>2. d \in Eligible /\ s \in Rescored(d)
    BY <1>6, <1>8, <2>1 DEF Rescored
  <2>3. s \in Joined(d)
    BY <1>0, <2>2 DEF Mismatches
  <2>4. e.of = R(d).of /\ e.scored = C(d)
    BY <1>3, <2>1, <2>3 DEF Joined, SameIdentity
  <2> QED BY <1>7, <1>8, <2>4 DEF Supports
<1>9. ASSUME NEW d \in Retained, Present(C(d)), NEW x \in Splits, NEW i \in Members(x)
      PROVE  \E e \in Evals(t) : e.split = x /\ i \in e.ids /\ Supports(e, d, t)
  <2>1. Covered(d)
    BY <1>0, <1>6, <1>9 DEF Gaps
  <2>2. i \in UNION {Eval(s).ids : s \in {y \in Joined(d) : Eval(y).split = x}}
    BY <2>1, <1>9 DEF Covered
  <2>3. PICK s \in Joined(d) : Eval(s).split = x /\ i \in Eval(s).ids
    BY <2>2
  <2>4. s \in JudgedSlots /\ BoundTo(s, d)
    BY <2>3 DEF Joined, Rescored
  <2>5. s \in Slot /\ Present(t.eval[s]) /\ Eval(s) = t.eval[s] /\ t.eval[s].adapter = d
    BY <1>3, <2>4 DEF BoundTo
  <2>6. t.eval[s] \in Evals(t)
    BY <2>5 DEF Evals, Present, Tree
  <2> QED BY <1>8, <1>9, <2>3, <2>5, <2>6
<1>10. \A d \in Retained : Present(C(d)) => CheckpointProven(t, d)
  BY <1>6, <1>9 DEF CheckpointProven
<1>11. \A e \in Evals(t) : \E s \in Slot : e = t.eval[s] /\ Present(t.eval[s])
  BY DEF Evals, Present, Tree
<1>12. /\ t.marker /\ Present(R("rej"))
       /\ ~LiveDuplicatesNegative(t)
       /\ ~KnownInvalid(R("live"))
  <2> DEFINE Q == Quarantine(read.scan, read.quarantine)
  <2>1. "marker" \notin Q /\ "empty" \notin Q /\ "duplicates" \notin Q /\ "live_invalid" \notin Q
    BY <1>0 DEF Quarantined
  <2>2. /\ read.scan.marker /\ Present(read.scan.report["rej"])
        /\ ~LiveDuplicatesNegative(read.scan)
        /\ ~(/\ Present(read.scan.report["live"])
             /\ (Present(read.quarantine.report["live"])
                   => KnownInvalid(read.quarantine.report["live"])))
    BY <2>1 DEF Quarantine
  <2>3. Files(t, "live") = Files(read.scan, "live") /\ Files(t, "rej") = Files(read.scan, "rej")
    BY DEF Files, Saw, Dir
  <2> QED BY <2>2, <2>3 DEF Saw, Dir, LiveDuplicatesNegative, KnownInvalid
<1> QED BY <1>4, <1>5, <1>7, <1>8, <1>10, <1>11, <1>12 DEF Proven
-----------------------------------------------------------------------------
(* The other way round: a tree that proves everything is READY.            *)

LEMMA ProvenComplete ==
  ASSUME NEW t \in Tree, Saw(t), mode = "full", tests = "passed", Proven(t), ~OnlyInLive(t)
  PROVE  Unproven = {}
<1> USE RetainedAreDirs
<1> DEFINE R(d) == t.report[d]
           C(d) == t.ckpt[d]
<1>1. \A d \in Dir : /\ R(d) \in ReportFile \cup {Absent} /\ C(d) \in Bundle \cup {Absent}
                     /\ Present(R(d)) <=> R(d) \in ReportFile
                     /\ Present(C(d)) <=> C(d) \in Bundle
  <2>1. \A d \in Dir : t.report[d] \in ReportFile \cup {Absent} /\ t.ckpt[d] \in Bundle \cup {Absent}
    BY DEF Tree
  <2> QED BY <2>1, FilesArePresent DEF Present
<1>2. \A s \in Slot : /\ t.eval[s] \in EvalFile \cup {Absent}
                      /\ Present(t.eval[s]) <=> t.eval[s] \in EvalFile
  <2>1. \A s \in Slot : t.eval[s] \in EvalFile \cup {Absent}
    BY DEF Tree
  <2> QED BY <2>1, FilesArePresent DEF Present
<1>3. /\ \A d \in Dir : ReportOf(d) = R(d) /\ CkptOf(d) = C(d)
      /\ \A d \in Dir : HasCkpt(d) <=> Present(R(d)) /\ Present(C(d))
      /\ \A d \in Retained : d \in RetainedRuns <=> Present(R(d))
      /\ \A d \in Retained : d \in Candidates <=> Present(R(d)) /\ Present(C(d))
      /\ \A d \in Retained :
           d \in Eligible <=> /\ Present(R(d)) /\ Present(C(d))
                             /\ Classify(R(d), C(d)) = "loadable"
      /\ RetainedRuns \subseteq Retained /\ Candidates \subseteq Retained
      /\ Eligible \subseteq Retained
      /\ \A s \in Slot : s \in JudgedSlots <=> Present(t.eval[s])
      /\ JudgedSlots \subseteq Slot
      /\ \A s \in Slot : Eval(s) = t.eval[s]
  BY GateSets
<1>4. \A d \in Retained : /\ Present(R(d)) => Trustworthy(R(d)) /\ t.bound[d]
                          /\ Present(C(d)) => CheckpointProven(t, d)
  BY DEF Proven
<1>5. \A s \in Slot : Present(t.eval[s]) =>
        LET e == t.eval[s]
        IN  /\ e.adapter \in Retained /\ Present(R(e.adapter))
            /\ e.kind = "v3" /\ e.suite /\ e.ids # {} /\ ~Foreign(e)
            /\ Present(C(e.adapter)) => Supports(e, e.adapter, t)
  <2>1. \A s \in Slot : Present(t.eval[s]) => t.eval[s] \in Evals(t)
    BY DEF Evals, Present, Tree
  <2> QED BY <2>1 DEF Proven
<1>6. BadReports = {} /\ SuiteMismatch = {}
  <2>1. ASSUME NEW d \in RetainedRuns
        PROVE  ProblemsOf(d) = {} /\ ReportOf(d).suite
    <3>1. d \in Retained /\ Present(R(d)) /\ ReportOf(d) = R(d) /\ R(d) \in ReportFile
      BY <1>1, <1>3, <2>1
    <3>2. Trustworthy(R(d)) /\ read.runs.bound[d]
      BY <1>4, <3>1 DEF Saw
    <3>3. ReportProblems(R(d)) = {}
      BY <3>1, <3>2, ReportsWithoutProblem DEF Trustworthy
    <3> QED BY <3>1, <3>2, <3>3 DEF ProblemsOf, Trustworthy
  <2> QED BY <2>1 DEF BadReports, SuiteMismatch
<1>7. ASSUME NEW d \in Retained, Present(C(d))
      PROVE  d \in Eligible /\ HasCkpt(d) /\ \A x \in Dir \ {d} : C(x) # C(d)
  <2>1. Present(R(d)) /\ C(d) = GoodBundle(R(d).of) /\ \A x \in Dir \ {d} : C(x) # C(d)
    BY <1>4, <1>7 DEF CheckpointProven
  <2>2. Classify(R(d), C(d)) = "loadable"
    BY <1>1, <1>4, <1>7, <2>1, LoadableIsGood
  <2> QED BY <1>3, <1>7, <2>1, <2>2
<1>8. PICK d0 \in Retained : Present(C(d0))
  BY DEF Proven
<1>9. /\ Candidates # {} /\ Eligible = Candidates /\ Eligible # {} /\ RetainedRuns # {}
      /\ Orphans = {}
  BY <1>3, <1>7, <1>8 DEF Orphans, Saw, Candidates
<1>10. Duplicates = {}
  <2>1. ASSUME NEW d \in Retained, NEW x \in Dir, d # x, Present(read.scan.ckpt[d]),
               read.scan.ckpt[d] = read.scan.ckpt[x]
        PROVE  FALSE
    BY <1>7, <2>1 DEF Saw
  <2> QED BY <2>1 DEF Duplicates
<1>11. ASSUME NEW s \in JudgedSlots
       PROVE  /\ s \in Slot /\ Present(t.eval[s]) /\ Status(s) = "RESCORED"
              /\ Eval(s) = t.eval[s] /\ t.eval[s].adapter \in Retained
              /\ BoundTo(s, t.eval[s].adapter)
  <2>1. s \in Slot /\ Present(t.eval[s]) /\ Eval(s) = t.eval[s] /\ t.eval[s] \in EvalFile
    BY <1>2, <1>3
  <2>2. Status(s) = "RESCORED"
    BY <1>5, <2>1, RescoredIsSound DEF Status
  <2>3. t.eval[s].adapter \in RetainedRuns
    BY <1>3, <1>5, <2>1
  <2> QED BY <1>5, <2>1, <2>2, <2>3 DEF BoundTo
<1>12. BadEvals = {} /\ OrphanEvals = {}
  BY <1>11 DEF BadEvals, OrphanEvals
<1>13. ASSUME NEW d \in Eligible, NEW s \in Rescored(d)
       PROVE  s \in Joined(d)
  <2>1. s \in JudgedSlots /\ BoundTo(s, d) /\ d \in Retained
    BY <1>3, <1>13 DEF Rescored
  <2>2. s \in Slot /\ Present(t.eval[s]) /\ Eval(s) = t.eval[s] /\ t.eval[s].adapter = d
    BY <1>11, <2>1 DEF BoundTo
  <2>3. Present(C(d)) /\ Present(R(d)) /\ Parsed(R(d))
    BY <1>3, <1>4, <1>13, <2>1 DEF Trustworthy, Parsed
  <2>4. Supports(t.eval[s], d, t)
    BY <1>5, <2>2, <2>3
  <2> QED BY <1>3, <1>13, <2>1, <2>2, <2>3, <2>4 DEF Joined, SameIdentity, Supports
<1>14. Mismatches = {}
  BY <1>13 DEF Mismatches, Joined
<1>15. ASSUME NEW d \in Retained, Present(C(d)), NEW x \in Splits, NEW i \in Members(x)
       PROVE  \E s \in Joined(d) : Eval(s).split = x /\ i \in Eval(s).ids
  <2>1. PICK e \in Evals(t) : e.split = x /\ i \in e.ids /\ Supports(e, d, t)
    BY <1>4, <1>15 DEF CheckpointProven
  <2>2. PICK s \in Slot : e = t.eval[s] /\ Present(t.eval[s])
    BY DEF Evals, Present, Tree
  <2>3. s \in JudgedSlots /\ t.eval[s].adapter = d /\ Eval(s) = t.eval[s]
    BY <1>3, <2>1, <2>2 DEF Supports
  <2>4. s \in Rescored(d) /\ d \in Eligible
    BY <1>7, <1>11, <1>15, <2>3 DEF Rescored
  <2> QED BY <1>13, <2>1, <2>2, <2>3, <2>4
<1>16. Gaps = {}
  <2>1. ASSUME NEW d \in Eligible, NEW x \in Splits, NEW i \in Members(x)
        PROVE  i \in UNION {Eval(s).ids : s \in {y \in Joined(d) : Eval(y).split = x}}
    <3>1. PICK s \in Joined(d) : Eval(s).split = x /\ i \in Eval(s).ids
      BY <1>3, <1>15, <2>1
    <3> QED BY <3>1
  <2>2. \A d \in Eligible : Covered(d)
    BY <2>1 DEF Covered
  <2> QED BY <2>2 DEF Gaps
<1>17. JudgedSlots # {}
  <2>1. PICK x \in Splits : TRUE
    OBVIOUS
  <2>2. <<x, 1>> \in Members(x)
    BY DEF Members
  <2>3. \E s \in Joined(d0) : Eval(s).split = x /\ <<x, 1>> \in Eval(s).ids
    BY <1>8, <1>15, <2>2
  <2> QED BY <2>3 DEF Joined, Rescored
<1>18. RescoreProven
  BY <1>9, <1>12, <1>14, <1>16, <1>17 DEF RescoreProven
<1>19. SelectionProven
  <2>1. ASSUME NEW d \in RetainedRuns
        PROVE  Parsed(ReportOf(d)) /\ SelectionConsistent(ReportOf(d))
    BY <1>3, <1>4, <2>1 DEF Parsed, SelectionConsistent, Trustworthy
  <2> QED BY <1>9, <1>18, <2>1 DEF SelectionProven
<1>20. Quarantined = {}
  <2>1. /\ t.marker /\ Present(R("rej")) /\ ~LiveDuplicatesNegative(t) /\ ~KnownInvalid(R("live"))
    BY DEF Proven
  <2>2. Files(t, "live") = Files(read.scan, "live") /\ Files(t, "rej") = Files(read.scan, "rej")
    BY DEF Files, Saw, Dir
  <2>3. /\ read.scan.marker /\ Present(read.scan.report["rej"])
        /\ ~LiveDuplicatesNegative(read.scan)
        /\ ~OnlyInLive(read.scan)
        /\ ~(/\ Present(read.scan.report["live"])
             /\ (Present(read.quarantine.report["live"])
                   => KnownInvalid(read.quarantine.report["live"])))
    BY <2>1, <2>2 DEF Saw, Dir, LiveDuplicatesNegative, OnlyInLive
  <2> QED BY <2>3 DEF Quarantined, Quarantine
<1> QED BY <1>6, <1>9, <1>10, <1>18, <1>19, <1>20 DEF Unproven
-----------------------------------------------------------------------------
(* Places of the trees, and what each stage looks at.                      *)

At(t, p) ==
  CASE p[1] = "report" -> t.report[p[2]]
    [] p[1] = "ckpt"   -> t.ckpt[p[2]]
    [] p[1] = "bound"  -> t.bound[p[2]]
    [] p[1] = "eval"   -> t.eval[p[2]]
    [] p[1] = "marker" -> t.marker

ChangedPlaces == {c[1] : c \in changed}

LooksAt(stage) ==
  CASE stage = "reports"    -> {"report"} \X Dir
    [] stage = "quarantine" -> {"report"} \X Dir
    [] stage = "runs"       -> ({"ckpt"} \X Dir) \cup ({"bound"} \X Retained)
    [] stage = "evals"      -> {"eval"} \X Slot
    [] stage = "scan"       -> Places

Found(stage, p) ==
  CASE stage = "reports"    -> read.reports[p[2]]
    [] stage = "quarantine" -> read.quarantine.report[p[2]]
    [] stage = "runs"       -> IF p[1] = "ckpt" THEN read.runs.ckpt[p[2]]
                               ELSE read.runs.bound[p[2]]
    [] stage = "evals"      -> read.evals[p[2]]
    [] stage = "scan"       -> At(read.scan, p)

Stages == {"scan", "reports", "runs", "evals", "quarantine"}

LEMMA LooksAtPlaces ==
  \A stage \in Stages : LooksAt(stage) \subseteq Places
BY DEF LooksAt, Stages, Places

\* When every stage found the tree t wherever it looked, the gate saw t.
LEMMA SawWhatWasFound ==
  ASSUME NEW t \in Tree,
         \A stage \in Stages : \A p \in LooksAt(stage) : Found(stage, p) = At(t, p)
  PROVE  Saw(t)
<1>1. ASSUME NEW d \in Dir
      PROVE  /\ read.scan.report[d] = t.report[d] /\ read.scan.ckpt[d] = t.ckpt[d]
             /\ read.reports[d] = t.report[d] /\ read.runs.ckpt[d] = t.ckpt[d]
             /\ read.quarantine.report[d] = t.report[d]
  <2>1. <<"report", d>> \in Places /\ <<"ckpt", d>> \in Places
    BY DEF Places
  <2>2. At(t, <<"report", d>>) = t.report[d] /\ At(t, <<"ckpt", d>>) = t.ckpt[d]
    BY DEF At
  <2>3. /\ Found("scan", <<"report", d>>) = read.scan.report[d]
        /\ Found("scan", <<"ckpt", d>>) = read.scan.ckpt[d]
    BY DEF Found, At
  <2>4. <<"report", d>> \in LooksAt("scan") /\ <<"ckpt", d>> \in LooksAt("scan")
    BY <2>1 DEF LooksAt
  <2>5. /\ <<"report", d>> \in LooksAt("reports") /\ <<"report", d>> \in LooksAt("quarantine")
        /\ <<"ckpt", d>> \in LooksAt("runs")
    BY DEF LooksAt
  <2>6. /\ Found("reports", <<"report", d>>) = read.reports[d]
        /\ Found("quarantine", <<"report", d>>) = read.quarantine.report[d]
        /\ Found("runs", <<"ckpt", d>>) = read.runs.ckpt[d]
    BY DEF Found
  <2> QED BY <2>2, <2>3, <2>4, <2>5, <2>6 DEF Stages
<1>2. ASSUME NEW d \in Retained
      PROVE  read.runs.bound[d] = t.bound[d]
  <2>1. <<"bound", d>> \in LooksAt("runs") /\ At(t, <<"bound", d>>) = t.bound[d]
    BY DEF LooksAt, At
  <2>2. Found("runs", <<"bound", d>>) = read.runs.bound[d]
    BY DEF Found
  <2> QED BY <2>1, <2>2 DEF Stages
<1>3. ASSUME NEW s \in Slot
      PROVE  read.scan.eval[s] = t.eval[s] /\ read.evals[s] = t.eval[s]
  <2>1. <<"eval", s>> \in LooksAt("scan") /\ <<"eval", s>> \in LooksAt("evals")
    BY DEF LooksAt, Places
  <2>2. At(t, <<"eval", s>>) = t.eval[s]
    BY DEF At
  <2>3. /\ Found("scan", <<"eval", s>>) = read.scan.eval[s]
        /\ Found("evals", <<"eval", s>>) = read.evals[s]
    BY DEF Found, At
  <2> QED BY <2>1, <2>2, <2>3 DEF Stages
<1>4. read.scan.marker = t.marker
  <2>1. <<"marker">> \in LooksAt("scan") /\ At(t, <<"marker">>) = t.marker
    BY DEF LooksAt, Places, At
  <2>2. Found("scan", <<"marker">>) = read.scan.marker
    BY DEF Found, At
  <2> QED BY <2>1, <2>2 DEF Stages
<1> QED BY <1>1, <1>2, <1>3, <1>4 DEF Saw

-----------------------------------------------------------------------------
(* The trees stay trees, and a change touches one place.                   *)

LEMMA GoodFiles ==
  /\ \A d \in Dir : GoodReport(d) \in ReportFile /\ GoodBundle(d) \in Bundle
  /\ \A s \in Slot : GoodEval(s[1], s[2]) \in EvalFile
<1>1. \A d \in Dir : GoodReport(d) \in ReportFile /\ GoodBundle(d) \in Bundle
  BY DEF GoodReport, GoodBundle, ReportFile, Bundle
<1>2. ASSUME NEW s \in Slot
      PROVE  GoodEval(s[1], s[2]) \in EvalFile
  <2>1. s[1] \in Dir /\ s[2] \in Splits
    BY RetainedAreDirs DEF Slot
  <2>2. Members(s[2]) \in SUBSET (Splits \X Nat)
    BY <2>1 DEF Members
  <2>3. GoodBundle(s[1]) \in Bundle
    BY <1>1, <2>1
  <2> QED BY <2>1, <2>2, <2>3 DEF GoodEval, EvalFile
<1> QED BY <1>1, <1>2

LEMMA GoodTreesAreTrees ==
  ASSUME NEW live \in SUBSET Dir
  PROVE  GoodTree(live) \in Tree
BY GoodFiles, RetainedAreDirs DEF GoodTree, Tree, Slot

LEMMA FormsAreFiles ==
  /\ \A d \in Dir : /\ ReportForms(d) \subseteq ReportFile \cup {Absent}
                    /\ CkptForms(d) \subseteq Bundle \cup {Absent}
  /\ \A s \in Slot : EvalForms(s) \subseteq EvalFile \cup {Absent}
<1>1. ASSUME NEW d \in Dir
      PROVE  ReportForms(d) \subseteq ReportFile \cup {Absent}
  <2> DEFINE g == GoodReport(d)
  <2>1. g \in ReportFile /\ \A x \in Dir : GoodReport(x) \in ReportFile
    BY GoodFiles
  <2> HIDE DEF g
  <2>2. /\ [g EXCEPT !.parse = "nan"] \in ReportFile /\ [g EXCEPT !.schema = FALSE] \in ReportFile
        /\ [g EXCEPT !.suite = FALSE] \in ReportFile /\ [g EXCEPT !.recipe = FALSE] \in ReportFile
        /\ [g EXCEPT !.perfect = TRUE] \in ReportFile
        /\ \A h \in {"forged", "legacy"} : [g EXCEPT !.history = h] \in ReportFile
    BY <2>1 DEF ReportFile
  <2>3. {GoodReport(x) : x \in Dir} \subseteq ReportFile
    BY <2>1
  <2>4. {[g EXCEPT !.history = h] : h \in {"forged", "legacy"}} \subseteq ReportFile
    BY <2>2
  <2> QED BY <2>1, <2>2, <2>3, <2>4 DEF ReportForms, g
<1>2. ASSUME NEW d \in Dir
      PROVE  CkptForms(d) \subseteq Bundle \cup {Absent}
  <2> DEFINE g == GoodBundle(d)
  <2>1. g \in Bundle /\ {GoodBundle(x) : x \in Dir} \subseteq Bundle
    BY GoodFiles
  <2> HIDE DEF g
  <2>2. /\ [g EXCEPT !.kind = "corrupt"] \in Bundle /\ [g EXCEPT !.kind = "plain"] \in Bundle
        /\ [g EXCEPT !.selected = FALSE] \in Bundle /\ [g EXCEPT !.fp32 = FALSE] \in Bundle
    BY <2>1 DEF Bundle
  <2> QED BY <2>1, <2>2 DEF CkptForms, g
<1>3. ASSUME NEW s \in Slot
      PROVE  EvalForms(s) \subseteq EvalFile \cup {Absent}
  <2> DEFINE g == GoodEval(s[1], s[2])
  <2>1. g \in EvalFile /\ GoodBundle(s[1]) \in Bundle
    BY GoodFiles, RetainedAreDirs DEF Slot
  <2>2. s[2] \in Splits /\ {<<s[2], 1>>} \in SUBSET (Splits \X Nat)
    BY DEF Slot
  <2>3. [GoodBundle(s[1]) EXCEPT !.selected = FALSE] \in Bundle
    BY <2>1 DEF Bundle
  <2> HIDE DEF g
  <2>4. /\ [g EXCEPT !.ids = {}] \in EvalFile /\ [g EXCEPT !.ids = {<<s[2], 1>>}] \in EvalFile
        /\ [g EXCEPT !.adapter = "nowhere"] \in EvalFile /\ [g EXCEPT !.suite = FALSE] \in EvalFile
        /\ [g EXCEPT !.scored = [GoodBundle(s[1]) EXCEPT !.selected = FALSE]] \in EvalFile
    BY <2>1, <2>2, <2>3 DEF EvalFile
  <2>5. /\ \A k \in {"forged", "raw", "derived", "broken"} : [g EXCEPT !.kind = k] \in EvalFile
        /\ \A x \in Splits : [g EXCEPT !.split = x] \in EvalFile
        /\ \A d \in Retained : [g EXCEPT !.adapter = d] \in EvalFile
    BY <2>1, RetainedAreDirs DEF EvalFile
  <2>6. /\ {[g EXCEPT !.kind = k] : k \in {"forged", "raw", "derived", "broken"}} \subseteq EvalFile
        /\ {[g EXCEPT !.split = x] : x \in Splits} \subseteq EvalFile
        /\ {[g EXCEPT !.adapter = d] : d \in Retained} \subseteq EvalFile
    BY <2>5
  <2> QED BY <2>1, <2>4, <2>6 DEF EvalForms, g
<1> QED BY <1>1, <1>2, <1>3

LEMMA VariantsAreTrees ==
  ASSUME NEW t \in Tree, NEW place \in Places, NEW u \in Variants(t, place)
  PROVE  u \in Tree /\ \A p \in Places : p # place => At(u, p) = At(t, p)
<1>1. ASSUME NEW d \in Dir, place = <<"report", d>>
      PROVE  u \in Tree /\ \A p \in Places : p # place => At(u, p) = At(t, p)
  <2>1. PICK f \in ReportForms(d) : u = [t EXCEPT !.report[d] = f]
    BY <1>1 DEF Variants
  <2>2. f \in ReportFile \cup {Absent}
    BY <2>1, FormsAreFiles
  <2> QED BY <1>1, <2>1, <2>2 DEF Tree, At, Places
<1>2. ASSUME NEW d \in Dir, place = <<"ckpt", d>>
      PROVE  u \in Tree /\ \A p \in Places : p # place => At(u, p) = At(t, p)
  <2>1. PICK f \in CkptForms(d) : u = [t EXCEPT !.ckpt[d] = f]
    BY <1>2 DEF Variants
  <2>2. f \in Bundle \cup {Absent}
    BY <2>1, FormsAreFiles
  <2> QED BY <1>2, <2>1, <2>2 DEF Tree, At, Places
<1>3. ASSUME NEW d \in Retained, place = <<"bound", d>>
      PROVE  u \in Tree /\ \A p \in Places : p # place => At(u, p) = At(t, p)
  <2>1. u = [t EXCEPT !.bound[d] = ~@]
    BY <1>3 DEF Variants
  <2>2. d \in Dir /\ (~t.bound[d]) \in BOOLEAN
    BY RetainedAreDirs
  <2>3. u.bound = [t.bound EXCEPT ![d] = ~t.bound[d]] /\ u = [t EXCEPT !.bound = u.bound]
    BY <2>1 DEF Tree
  <2>4. u.bound \in [Dir -> BOOLEAN] /\ \A x \in Dir : x # d => u.bound[x] = t.bound[x]
    BY <2>2, <2>3 DEF Tree
  <2>5. u \in Tree
    BY <2>3, <2>4 DEF Tree
  <2>6. ASSUME NEW p \in Places, p # place
        PROVE  At(u, p) = At(t, p)
    <3>1. u.report = t.report /\ u.ckpt = t.ckpt /\ u.eval = t.eval /\ u.marker = t.marker
      BY <2>1 DEF Tree
    <3>2. CASE p \in {"bound"} \X Retained
      BY <1>3, <2>4, <2>6, <3>2, RetainedAreDirs DEF At
    <3>3. CASE p \notin {"bound"} \X Retained
      BY <3>1, <3>3 DEF At, Places
    <3> QED BY <3>2, <3>3
  <2> QED BY <2>5, <2>6
<1>4. ASSUME NEW s \in Slot, place = <<"eval", s>>
      PROVE  u \in Tree /\ \A p \in Places : p # place => At(u, p) = At(t, p)
  <2>1. PICK f \in EvalForms(s) : u = [t EXCEPT !.eval[s] = f]
    BY <1>4 DEF Variants
  <2>2. f \in EvalFile \cup {Absent}
    BY <2>1, FormsAreFiles
  <2> QED BY <1>4, <2>1, <2>2 DEF Tree, At, Places
<1>5. ASSUME place = <<"marker">>
      PROVE  u \in Tree /\ \A p \in Places : p # place => At(u, p) = At(t, p)
  <2>1. u = [t EXCEPT !.marker = ~@]
    BY <1>5 DEF Variants
  <2> QED BY <1>5, <2>1 DEF Tree, At, Places
<1> QED BY <1>1, <1>2, <1>3, <1>4, <1>5 DEF Places
-----------------------------------------------------------------------------
(* The gate at work.                                                       *)

Verdict == {"inventory", "verdicts", "gate", "report", "exit0", "exit1"}

GateTypeOK ==
  /\ tree \in Tree
  /\ mode \in {"full", "dry"}
  /\ tests \in {"none", "passed", "failed"}
  /\ pc \in {"start"} \cup Reading \cup Verdict \cup {"exit2"}
  /\ disk \subseteq Outputs

\* The stages that have read after the first fingerprint.
StagesRead ==
  CASE pc = "scan"       -> {}
    [] pc = "reports"    -> {"scan"}
    [] pc = "runs"       -> {"scan", "reports"}
    [] pc = "evals"      -> {"scan", "reports", "runs"}
    [] pc = "quarantine" -> {"scan", "reports", "runs", "evals"}
    [] OTHER             -> Stages

\* A place that differs from the first fingerprint was changed, and a stage
\* that found something else there found a change.  If no change is undone,
\* the place still differs now, and the second fingerprint will show it.
Readings ==
  pc \in Reading \ {"fingerprint"} =>
    /\ DOMAIN read = {"fingerprint"} \cup StagesRead
    /\ \A p \in Places : At(tree, p) # At(read.fingerprint, p) => p \in ChangedPlaces
    /\ \A stage \in StagesRead : \A p \in LooksAt(stage) :
         Found(stage, p) # At(read.fingerprint, p) =>
           /\ p \in ChangedPlaces
           /\ ~Reverts => At(tree, p) # At(read.fingerprint, p)

NothingRead == pc \in {"start", "fingerprint"} => read = Nothing

\* The outputs are written in order, after the decision.
Order ==
  /\ pc \in {"start"} \cup Reading \cup {"inventory"} => disk = {}
  /\ pc = "verdicts" => disk = {"inventory"}
  /\ pc \in {"gate", "report", "exit0", "exit1"} => {"inventory", "verdicts"} \subseteq disk
  /\ "gate" \in disk => {"inventory", "verdicts"} \subseteq disk

\* The decision, as it stands from the second fingerprint on.
Judgement ==
  /\ (pc \in Verdict \/ disk # {}) /\ Ready /\ ~Reverts =>
       mode = "full" /\ tests = "passed" /\ Proven(read.fingerprint)
  /\ pc \in Verdict /\ mode = "full" /\ tests = "passed" /\ changed = {}
       /\ Proven(read.fingerprint) /\ ~OnlyInLive(read.fingerprint) => Ready
  /\ pc = "exit1" => ~Ready

GInv == GateTypeOK /\ Readings /\ NothingRead /\ Order /\ Judgement

LEMMA FoundKept ==
  ASSUME NEW stage \in Stages, read'[stage] = read[stage]
  PROVE  \A p : Found(stage, p)' = Found(stage, p)
BY DEF Found, Stages

LEMMA StagesReadAreStages == StagesRead \subseteq Stages
BY DEF StagesRead, Stages

\* A stage adds what it finds in the trees as they are now.
LEMMA NewReading ==
  ASSUME NEW name \in Stages, NEW part, NEW next,
         Readings, Stage(name, part, next),
         StagesRead' = StagesRead \cup {name},
         \A p \in LooksAt(name) : Found(name, p)' = At(tree, p)
  PROVE  Readings'
<1>1. pc \in Reading \ {"fingerprint"}
  BY DEF Stage, Stages, Reading
<1>2. DOMAIN read' = {"fingerprint"} \cup StagesRead'
  BY <1>1 DEF Stage, Readings
<1>3. /\ read'.fingerprint = read.fingerprint
      /\ \A stage \in StagesRead \ {name} : read'[stage] = read[stage]
  BY <1>1 DEF Stage, Readings, Stages
<1>4. tree' = tree /\ ChangedPlaces' = ChangedPlaces
  BY DEF Stage, ChangedPlaces
<1>5. \A p : At(tree', p) = At(tree, p) /\ At(read'.fingerprint, p) = At(read.fingerprint, p)
  BY <1>3, <1>4
<1>6. ASSUME NEW stage \in StagesRead', NEW p \in LooksAt(stage),
             Found(stage, p)' # At(read.fingerprint, p)
      PROVE  p \in ChangedPlaces /\ (~Reverts => At(tree, p) # At(read.fingerprint, p))
  <2>1. CASE stage = name
    BY <1>1, <1>6, <2>1, LooksAtPlaces DEF Readings
  <2>2. CASE stage # name
    <3>1. stage \in StagesRead /\ stage \in Stages
      BY <2>2, StagesReadAreStages
    <3>2. Found(stage, p)' = Found(stage, p)
      BY <1>3, <2>2, <3>1, FoundKept
    <3> QED BY <1>1, <1>6, <3>1, <3>2 DEF Readings
  <2> QED BY <2>1, <2>2
<1> QED BY <1>1, <1>2, <1>4, <1>5, <1>6 DEF Readings

\* A change is recorded; with no change undone, the place was as the first
\* fingerprint has it, and no stage had found it otherwise.
LEMMA ChangeKeepsReadings ==
  ASSUME NEW place \in Places, GateTypeOK, Readings, Change(place)
  PROVE  Readings'
<1>1. SUFFICES ASSUME pc \in Reading \ {"fingerprint"}
               PROVE  Readings'
  BY DEF Change, Readings
<1>2. ChangedPlaces' = ChangedPlaces \cup {place}
  <2>1. PICK c : c = <<place, Cardinality(changed)>> /\ changed' = changed \cup {c}
    BY DEF Change
  <2>2. c[1] = place
    BY <2>1
  <2>3. changed' = changed \cup {c}
    BY <2>1
  <2> QED BY <2>2, <2>3 DEF ChangedPlaces
<1>3. \A p \in Places : p # place => At(tree', p) = At(tree, p)
  BY VariantsAreTrees DEF Change, GateTypeOK
<1>4. read' = read /\ StagesRead' = StagesRead /\ pc' = pc
  BY DEF Change, StagesRead
<1>5. \A stage \in StagesRead : \A p : Found(stage, p)' = Found(stage, p)
  BY <1>4, FoundKept, StagesReadAreStages
<1>6. ASSUME NEW stage \in StagesRead, NEW p \in LooksAt(stage),
             Found(stage, p) # At(read.fingerprint, p)
      PROVE  /\ p \in ChangedPlaces'
             /\ ~Reverts => At(tree', p) # At(read.fingerprint, p)
  <2>1. p \in Places
    BY StagesReadAreStages, LooksAtPlaces
  <2>2. p \in ChangedPlaces /\ (~Reverts => At(tree, p) # At(read.fingerprint, p))
    BY <1>1, <1>6 DEF Readings
  <2>3. ~Reverts => p # place
    <3>1. Reverts \/ place \notin ChangedPlaces
      BY Zenon DEF Change, ChangedPlaces
    <3> QED BY <2>2, <3>1
  <2> QED BY <1>2, <1>3, <2>1, <2>2, <2>3
<1>7. \A p \in Places : At(tree', p) # At(read.fingerprint, p) => p \in ChangedPlaces'
  BY <1>1, <1>2, <1>3 DEF Readings
<1> QED BY <1>1, <1>4, <1>5, <1>6, <1>7 DEF Readings

\* The gate's invariant: what was read is what was there, the outputs come in
\* order, and the judgement is the one the readings call for.
THEOREM GateInductive == Spec => []GInv
<1>1. Init => GInv
  <2> SUFFICES ASSUME Init PROVE GInv
    OBVIOUS
  <2>1. tree \in Tree
    <3>1. CASE tree = GoodTree({})
      BY <3>1, GoodTreesAreTrees
    <3>2. ASSUME NEW p \in Places, tree \in Variants(GoodTree({"live"}), p)
          PROVE  tree \in Tree
      <4>1. GoodTree({"live"}) \in Tree
        BY GoodTreesAreTrees DEF Dir
      <4> QED BY <3>2, <4>1, VariantsAreTrees
    <3> QED BY <3>1, <3>2 DEF Init
  <2> QED BY <2>1 DEF Init, GInv, GateTypeOK, Readings, NothingRead, Order, Judgement, Outputs,
             Verdict, Reading, NoDecision, Ready
<1>2. GInv /\ [Next]_vars => GInv'
  <2> SUFFICES ASSUME GInv, [Next]_vars PROVE GInv'
    OBVIOUS
  <2>t. GateTypeOK'
    <3> USE DEF GInv, GateTypeOK
    <3>1. ASSUME NEW p \in Places, Change(p) PROVE GateTypeOK'
      BY <3>1, VariantsAreTrees DEF Change
    <3>2. CASE Fingerprint \/ Scan \/ ReadReports \/ JoinRuns \/ JudgeEvals \/ ReadQuarantine
      BY <3>2 DEF Fingerprint, Scan, ReadReports, JoinRuns, JudgeEvals, ReadQuarantine, Stage,
         Reading
    <3>3. CASE Launch \/ Refuse \/ ProofTests \/ Decide
      BY <3>3 DEF Launch, Refuse, ProofTests, Decide, Reading, Verdict
    <3>4. CASE WriteOutputs
      BY <3>4 DEF WriteOutputs, Write, Outputs, Verdict
    <3>5. CASE UNCHANGED vars
      BY <3>5 DEF vars
    <3> QED BY <3>1, <3>2, <3>3, <3>4, <3>5 DEF Next
  <2>n. NothingRead'
    <3> USE DEF GInv, NothingRead
    <3>1. CASE UNCHANGED vars
      BY <3>1 DEF vars
    <3>2. CASE Next
      BY <3>2 DEF Next, Change, Fingerprint, Scan, ReadReports, JoinRuns, JudgeEvals,
         ReadQuarantine, Stage, Launch, Refuse, ProofTests, Decide, WriteOutputs, Write
    <3> QED BY <3>1, <3>2
  <2>o. Order'
    <3> USE DEF GInv, Order, Reading
    <3>1. CASE UNCHANGED vars
      BY <3>1 DEF vars
    <3>2. CASE Next /\ ~WriteOutputs
      BY <3>2 DEF Next, Change, Fingerprint, Scan, ReadReports, JoinRuns, JudgeEvals,
         ReadQuarantine, Stage, Launch, Refuse, ProofTests, Decide
    <3>3. CASE WriteOutputs
      BY <3>3 DEF WriteOutputs, Write
    <3> QED BY <3>1, <3>2, <3>3
  <2>r. Readings'
    <3> USE DEF GInv
    <3>1. ASSUME NEW p \in Places, Change(p) PROVE Readings'
      BY <3>1, ChangeKeepsReadings
    <3>2. CASE Fingerprint
      <4>1. pc' = "scan" /\ tree' = tree /\ read'.fingerprint = tree
            /\ DOMAIN read' = {"fingerprint"}
        BY <3>2 DEF Fingerprint, Stage, NothingRead, Nothing
      <4> QED BY <4>1 DEF Readings, StagesRead
    <3>3. CASE Scan
      <4>1. read'.scan = tree
        BY <3>3 DEF Scan, Stage
      <4>2. \A p : Found("scan", p)' = At(tree, p)
        BY <4>1 DEF Found
      <4>3. StagesRead' = StagesRead \cup {"scan"}
        BY <3>3 DEF Scan, Stage, StagesRead
      <4> QED BY <3>3, <4>2, <4>3, NewReading DEF Scan, Stages
    <3>4. CASE ReadReports
      <4>1. read'.reports = tree.report
        BY <3>4 DEF ReadReports, Stage
      <4>2. \A p \in LooksAt("reports") : Found("reports", p)' = At(tree, p)
        BY <4>1 DEF Found, LooksAt, At
      <4>3. StagesRead' = StagesRead \cup {"reports"}
        BY <3>4 DEF ReadReports, Stage, StagesRead
      <4> QED BY <3>4, <4>2, <4>3, NewReading DEF ReadReports, Stages
    <3>5. CASE JoinRuns
      <4>1. read'.runs.ckpt = tree.ckpt /\ read'.runs.bound = tree.bound
        BY <3>5 DEF JoinRuns, Stage
      <4>2. \A p \in LooksAt("runs") : Found("runs", p)' = At(tree, p)
        BY <4>1 DEF Found, LooksAt, At
      <4>3. StagesRead' = StagesRead \cup {"runs"}
        BY <3>5 DEF JoinRuns, Stage, StagesRead
      <4> QED BY <3>5, <4>2, <4>3, NewReading DEF JoinRuns, Stages
    <3>6. CASE JudgeEvals
      <4>1. read'.evals = tree.eval
        BY <3>6 DEF JudgeEvals, Stage
      <4>2. \A p \in LooksAt("evals") : Found("evals", p)' = At(tree, p)
        BY <4>1 DEF Found, LooksAt, At
      <4>3. StagesRead' = StagesRead \cup {"evals"}
        BY <3>6 DEF JudgeEvals, Stage, StagesRead
      <4> QED BY <3>6, <4>2, <4>3, NewReading DEF JudgeEvals, Stages
    <3>7. CASE ReadQuarantine
      <4>1. read'.quarantine.report = tree.report
        BY <3>7 DEF ReadQuarantine, Stage
      <4>2. \A p \in LooksAt("quarantine") : Found("quarantine", p)' = At(tree, p)
        BY <4>1 DEF Found, LooksAt, At
      <4>3. StagesRead' = StagesRead \cup {"quarantine"}
        BY <3>7 DEF ReadQuarantine, Stage, StagesRead, Stages
      <4> QED BY <3>7, <4>2, <4>3, NewReading DEF ReadQuarantine, Stages
    <3>8. CASE ProofTests
      <4>1. /\ tree' = tree /\ read' = read /\ ChangedPlaces' = ChangedPlaces
            /\ StagesRead = Stages /\ StagesRead' = Stages
        BY <3>8 DEF ProofTests, StagesRead, ChangedPlaces
      <4>2. \A stage \in Stages : \A p : Found(stage, p)' = Found(stage, p)
        BY <4>1, FoundKept
      <4>3. pc \in Reading \ {"fingerprint"}
        BY <3>8 DEF ProofTests, Reading
      <4> QED BY <4>1, <4>2, <4>3 DEF Readings
    <3>9. CASE Launch \/ Refuse \/ Decide \/ WriteOutputs
      BY <3>9 DEF Launch, Refuse, Decide, WriteOutputs, Write, Readings, Reading
    <3>10. CASE UNCHANGED vars
      <4>1. \A stage \in Stages : \A p : Found(stage, p)' = Found(stage, p)
        BY <3>10, FoundKept DEF vars
      <4>2. /\ tree' = tree /\ read' = read /\ ChangedPlaces' = ChangedPlaces
            /\ StagesRead' = StagesRead /\ pc' = pc
        BY <3>10 DEF vars, ChangedPlaces, StagesRead
      <4> QED BY <4>1, <4>2, StagesReadAreStages DEF Readings
    <3> QED BY <3>1, <3>2, <3>3, <3>4, <3>5, <3>6, <3>7, <3>8, <3>9, <3>10 DEF Next
  <2>j. Judgement'
    <3> USE DEF GInv
    <3>1. CASE Decide /\ Unchanged(tree)
      <4>1. /\ pc = "compare" /\ pc' = "inventory" /\ disk' = disk /\ disk = {}
            /\ tree = read.fingerprint /\ read'.fingerprint = read.fingerprint
            /\ Ready' <=> Unproven = {}
            /\ UNCHANGED <<changed, mode, tests>>
        BY <3>1 DEF Decide, Unchanged, Order, Ready, Reading
      <4>2. \A stage \in Stages : \A p \in LooksAt(stage) :
              Found(stage, p) # At(tree, p) => p \in ChangedPlaces /\ Reverts
        BY <4>1, LooksAtPlaces DEF Readings, Reading, StagesRead
      <4>3. ~Reverts \/ changed = {} => Saw(tree)
        BY <4>2, SawWhatWasFound DEF GateTypeOK, ChangedPlaces
      <4>4. Unproven = {} /\ ~Reverts => mode = "full" /\ tests = "passed" /\ Proven(tree)
        BY <4>3, AllProven, ReadySound DEF GateTypeOK
      <4>5. mode = "full" /\ tests = "passed" /\ changed = {} /\ Proven(tree) /\ ~OnlyInLive(tree)
              => Unproven = {}
        BY <4>3, ProvenComplete DEF GateTypeOK
      <4> QED BY <4>1, <4>4, <4>5 DEF Judgement
    <3>2. CASE Decide /\ ~Unchanged(tree)
      BY <3>2 DEF Decide, Judgement, Order, Reading, Verdict
    <3>3. CASE WriteOutputs
      BY <3>3 DEF WriteOutputs, Write, Judgement, Ready, Verdict
    <3>4. ASSUME pc \notin Verdict, pc' \notin Verdict, disk' = disk,
                 disk # {} => UNCHANGED <<read, decision, mode, tests>>
          PROVE  Judgement'
      BY <3>4 DEF Judgement, Ready, Verdict
    <3>5. CASE Next /\ ~Decide /\ ~WriteOutputs
      BY <3>4, <3>5 DEF Next, Change, Fingerprint, Scan, ReadReports, JoinRuns, JudgeEvals,
         ReadQuarantine, Stage, Launch, Refuse, ProofTests, Order, Reading, Verdict
    <3>6. CASE UNCHANGED vars
      BY <3>6 DEF vars, Judgement, Ready
    <3> QED BY <3>1, <3>2, <3>3, <3>5, <3>6 DEF Next
  <2> QED BY <2>t, <2>n, <2>o, <2>r, <2>j DEF GInv
<1> QED BY <1>1, <1>2, PTL DEF Spec

\* READY is proven: with no change undone while the gate runs, whatever was
\* changed when, and whichever stage saw it.
THEOREM ReadyMeansProven ==
  ASSUME ~Reverts
  PROVE  Spec => []ReadyIsProven
<1>1. GInv => ReadyIsProven
  BY DEF GInv, Order, Judgement, ReadyIsProven
<1> QED BY <1>1, GateInductive, PTL

\* The verdict is no stricter than documented: trees that prove everything and
\* stay as they are get READY, if the live tree holds nothing of its own.
THEOREM ProvenMeansReady == Spec => []ProvenIsReady
<1>1. GInv => ProvenIsReady
  BY DEF GInv, Judgement, ProvenIsReady, Verdict
<1> QED BY <1>1, GateInductive, PTL

\* The gate's variables keep their types.
THEOREM TypeCorrect == Spec => []GateTypeOK
<1>1. GInv => GateTypeOK
  BY DEF GInv
<1> QED BY <1>1, GateInductive, PTL
=============================================================================
