----------------------------- MODULE NoSpendGate -----------------------------
(***************************************************************************)
(* The bounded no-spend gate: main and run_gate of no_spend_gate.py.  The  *)
(* gate reads the trees several times (fingerprint, scan, reports,         *)
(* checkpoints and generations, evals, quarantine, fingerprint), up to an  *)
(* hour apart when it runs the proof tests, while other processes may      *)
(* change them; then it decides, and writes its outputs one by one.        *)
(***************************************************************************)
EXTENDS GateEvidence

CONSTANTS MaxChanges,   \* bound: changes of the trees while the gate runs
          Reverts       \* whether a change may be undone while it runs

ASSUME GateConstants == MaxChanges \in Nat /\ Reverts \in BOOLEAN

VARIABLES
  tree,      \* the two input roots
  changed,   \* what was changed since the gate started
  pc,        \* the stage the gate is at
  mode,      \* "full" or "dry"
  read,      \* what each stage found in the trees
  tests,     \* proof tests: "none", "passed" or "failed"
  decision,  \* statuses of the prerequisites and blocker codes
  disk       \* which of the canonical outputs are this run's

vars == <<tree, changed, pc, mode, read, tests, decision, disk>>

Slot == Retained \X Splits

(* A run whose every prerequisite holds, alone or beside a live 4B run.    *)
GoodTree(live) ==
  [report |-> [d \in Dir |-> IF d \in live \cup {"two", "rej"}
                             THEN GoodReport(d) ELSE Absent],
   ckpt   |-> [d \in Dir |-> IF d \in live \cup {"two", "rej"}
                             THEN GoodBundle(d) ELSE Absent],
   bound  |-> [d \in Dir |-> TRUE],
   eval   |-> [s \in Slot |-> IF s[1] \in live \cup {"two"}
                              THEN GoodEval(s[1], s[2]) ELSE Absent],
   marker |-> TRUE]

(* The forms a file may take.  Of a rejected file only its presence and    *)
(* its bytes matter, and that it is bad.                                   *)
ReportForms(d) ==
  LET g == GoodReport(d)
  IN {g, Absent, [g EXCEPT !.parse = "nan"]} \cup {GoodReport(x) : x \in Dir}
     \cup IF d = "rej" THEN {}
          ELSE {[g EXCEPT !.schema = FALSE], [g EXCEPT !.suite = FALSE],
                [g EXCEPT !.recipe = FALSE], [g EXCEPT !.perfect = TRUE]}
               \cup {[g EXCEPT !.history = h] : h \in {"forged", "legacy"}}

CkptForms(d) ==
  LET g == GoodBundle(d)
  IN {g, Absent, [g EXCEPT !.kind = "corrupt"]} \cup {GoodBundle(x) : x \in Dir}
     \cup IF d = "rej" THEN {}
          ELSE {[g EXCEPT !.kind = "plain"], [g EXCEPT !.selected = FALSE],
                [g EXCEPT !.fp32 = FALSE]}

EvalForms(s) ==
  LET g == GoodEval(s[1], s[2])
  IN {g, Absent, [g EXCEPT !.ids = {}], [g EXCEPT !.ids = {<<s[2], 1>>}],
      [g EXCEPT !.adapter = "nowhere"], [g EXCEPT !.suite = FALSE],
      [g EXCEPT !.scored = [GoodBundle(s[1]) EXCEPT !.selected = FALSE]]}
     \cup {[g EXCEPT !.kind = k] : k \in {"forged", "raw", "derived", "broken"}}
     \cup {[g EXCEPT !.split = x] : x \in Splits}
     \cup {[g EXCEPT !.adapter = d] : d \in Retained}

(* The trees that differ from t in one file of the given place.            *)
Variants(t, place) ==
  CASE place[1] = "report" -> {[t EXCEPT !.report[place[2]] = f] : f \in ReportForms(place[2])}
    [] place[1] = "ckpt"   -> {[t EXCEPT !.ckpt[place[2]] = f] : f \in CkptForms(place[2])}
    [] place[1] = "bound"  -> {[t EXCEPT !.bound[place[2]] = ~@]}
    [] place[1] = "eval"   -> {[t EXCEPT !.eval[place[2]] = f] : f \in EvalForms(place[2])}
    [] OTHER               -> {[t EXCEPT !.marker = ~@]}

Places == ({"report", "ckpt"} \X Dir) \cup ({"bound"} \X Retained)
          \cup ({"eval"} \X Slot) \cup {<<"marker">>}

Nothing    == <<>>     \* nothing read
NoDecision == [unproven |-> {}, blockers |-> {}]
Outputs == {"inventory", "verdicts", "gate", "report"}

Init ==
  /\ tree \in {GoodTree({})} \cup UNION {Variants(GoodTree({"live"}), p) : p \in Places}
  /\ changed = {}
  /\ pc = "start"
  /\ mode \in {"full", "dry"}
  /\ read = Nothing
  /\ tests = "none"
  /\ decision = NoDecision
  /\ disk = {}

Reading == {"fingerprint", "scan", "reports", "runs", "evals", "quarantine", "tests", "compare"}

(* Another process replaces, adds or removes one file while the gate has   *)
(* something left to read.                                                 *)
Change(place) ==
  /\ pc \in Reading
  /\ Cardinality(changed) < MaxChanges
  /\ Reverts \/ place \notin {c[1] : c \in changed}
  /\ tree' \in Variants(tree, place) \ {tree}
  /\ changed' = changed \cup {<<place, Cardinality(changed)>>}
  /\ UNCHANGED <<pc, mode, read, tests, decision, disk>>

(* One stage reads its part of the trees as they are and goes on.          *)
Stage(name, part, next) ==
  /\ pc = name
  /\ read' = [s \in DOMAIN read \cup {name} |-> IF s = name THEN part ELSE read[s]]
  /\ pc' = next
  /\ UNCHANGED <<tree, changed, mode, tests, decision, disk>>

(* Roots that are missing or overlap --out, unreadable files, and any      *)
(* exception of a stage: main ends without a verdict.                      *)
Refuse == /\ pc \in {"start"} \cup Reading
          /\ pc' = "exit2"
          /\ read' = Nothing
          /\ UNCHANGED <<tree, changed, mode, tests, decision, disk>>

Launch == /\ pc = "start"
          /\ pc' = "fingerprint"
          /\ UNCHANGED <<tree, changed, mode, read, tests, decision, disk>>

Fingerprint  == Stage("fingerprint", tree, "scan")
Scan         == Stage("scan", tree, "reports")
ReadReports  == Stage("reports", tree.report, "runs")
JoinRuns     == Stage("runs", [ckpt |-> tree.ckpt, bound |-> tree.bound], "evals")
JudgeEvals   == Stage("evals", tree.eval, "quarantine")
ReadQuarantine == Stage("quarantine", [report |-> tree.report], "tests")

(* run_proof_tests, unless dry or --skip-proof-tests.                      *)
ProofTests == /\ pc = "tests"
              /\ tests' \in IF mode = "full" THEN {"passed", "failed", "none"} ELSE {"none"}
              /\ pc' = "compare"
              /\ UNCHANGED <<tree, changed, mode, read, decision, disk>>

-----------------------------------------------------------------------------
(* The decision, from what the stages read.                                *)

ReportOf(d) == IF Present(read.scan.report[d]) THEN read.reports[d] ELSE Absent
Discovered  == {d \in Dir : Present(read.reports[d])}
CkptOf(d)   == read.runs.ckpt[d]
HasCkpt(d)  == d \in Discovered /\ Present(read.scan.ckpt[d])

(* A payload that is gone by the time it is loaded cannot be decoded.      *)
ClassOf(d) == IF mode = "dry" THEN "unproven"
              ELSE IF Present(CkptOf(d)) THEN Classify(ReportOf(d), CkptOf(d))
              ELSE "corrupt"

ProblemsOf(d) ==
  ReportProblems(ReportOf(d))
  \cup IF /\ Parsed(ReportOf(d)) /\ ReportOf(d).history # "legacy"
          /\ mode # "dry" /\ ~read.runs.bound[d]
       THEN {"generation"} ELSE {}

(* Faulty variant: rejected runs take part in the current gates.           *)
AllRuns      == Discovered

RetainedRuns == Discovered \cap Retained
Candidates   == {d \in RetainedRuns : HasCkpt(d)}
Eligible     == {d \in Candidates : ClassOf(d) = "loadable"}

Orphans == {d \in Retained : Present(read.scan.ckpt[d]) /\ ~HasCkpt(d)}

(* Checkpoints of equal bytes in several directories, one of them retained *)
Duplicates == {p \in Retained \X Dir :
                 /\ p[1] # p[2] /\ Present(read.scan.ckpt[p[1]])
                 /\ read.scan.ckpt[p[1]] = read.scan.ckpt[p[2]]
                 /\ HasCkpt(p[1]) \/ HasCkpt(p[2])}

(* The eval files of the scan that the gate has judged; one gone since is  *)
(* unreadable.                                                             *)
JudgedSlots == IF mode = "dry" THEN {}
               ELSE {s \in Slot : Present(read.scan.eval[s])}
Eval(s)   == read.evals[s]
Status(s) == IF Present(Eval(s)) THEN EvalStatus(Eval(s)) ELSE "INVALID"
BoundTo(s, d) == Present(Eval(s)) /\ Eval(s).kind # "broken" /\ Eval(s).adapter = d /\ d \in RetainedRuns

Rescored(d) == {s \in JudgedSlots : BoundTo(s, d) /\ Status(s) = "RESCORED"}
Joined(d)   == {s \in Rescored(d) : SameIdentity(Eval(s), ReportOf(d), CkptOf(d))}
Covered(d)  == \A x \in Splits :
                 Members(x) \subseteq UNION {Eval(s).ids : s \in {y \in Joined(d) : Eval(y).split = x}}

BadEvals      == {s \in JudgedSlots : Status(s) # "RESCORED"}
OrphanEvals   == {s \in JudgedSlots : \A d \in Retained : ~BoundTo(s, d)}
Mismatches    == {d \in Eligible : Rescored(d) # Joined(d)}
Gaps          == IF mode = "dry" THEN {} ELSE {d \in Eligible : ~Covered(d)}
SuiteMismatch == {d \in RetainedRuns : Parsed(ReportOf(d)) /\ ~ReportOf(d).suite}
BadReports    == {d \in RetainedRuns : ProblemsOf(d) # {}}
Quarantined   == Quarantine(read.scan, read.quarantine)

RescoreProven == /\ mode # "dry"
                 /\ BadEvals \cup OrphanEvals = {} /\ Mismatches \cup Gaps = {}
                 /\ Eligible # {} /\ JudgedSlots # {}
SelectionProven == /\ RescoreProven /\ RetainedRuns # {}
                   /\ \A d \in RetainedRuns : Parsed(ReportOf(d)) /\ SelectionConsistent(ReportOf(d))

(* The prerequisites that are not PROVEN.                                  *)
Unproven ==
  {p \in {"reports", "checkpoints", "rescore", "selection", "runtime", "quarantine"} :
     \/ p = "reports"     /\ BadReports \cup SuiteMismatch # {}
     \/ p = "checkpoints" /\ ~(/\ mode # "dry" /\ Candidates # {} /\ Eligible = Candidates
                               /\ Orphans = {} /\ Duplicates = {})
     \/ p = "rescore"     /\ ~RescoreProven
     \/ p = "selection"   /\ ~SelectionProven
     \/ p = "runtime"     /\ tests # "passed"
     \/ p = "quarantine"  /\ Quarantined # {}}

Classes == {ClassOf(d) : d \in Candidates}

Blockers ==
  {b \in {"REPORT", "SUITE", "RECIPE", "NOT_FP32", "UNBOUND", "CORRUPT", "INVALID_IDENTITY",
          "ORPHAN_CHECKPOINT", "DUPLICATE_BINDING", "EVAL_INVALID", "ORPHAN_EVAL",
          "EVAL_IDENTITY", "COVERAGE", "MISSING_RAW", "SELECTION", "LIVE_DUPLICATES",
          "LIVE_INVALID", "MARKER", "BATCH_EMPTY", "TESTS"} :
     \/ b = "REPORT"            /\ BadReports # {}
     \/ b = "SUITE"             /\ SuiteMismatch # {}
     \/ b = "RECIPE"            /\ \E d \in RetainedRuns : "recipe" \in ProblemsOf(d)
     \/ b = "NOT_FP32"          /\ "non-fp32-payload" \in Classes
     \/ b = "UNBOUND"           /\ "legacy-unbound" \in Classes
     \/ b = "CORRUPT"           /\ "corrupt" \in Classes
     \/ b = "INVALID_IDENTITY"  /\ "invalid" \in Classes
     \/ b = "ORPHAN_CHECKPOINT" /\ Orphans # {}
     \/ b = "DUPLICATE_BINDING" /\ Duplicates # {}
     \/ b = "EVAL_INVALID"      /\ BadEvals # {}
     \/ b = "ORPHAN_EVAL"       /\ OrphanEvals # {}
     \/ b = "EVAL_IDENTITY"     /\ Mismatches # {}
     \/ b = "COVERAGE"          /\ Gaps # {}
     \/ b = "MISSING_RAW"       /\ mode # "dry" /\ ~RescoreProven
                                /\ BadEvals \cup OrphanEvals = {} /\ Mismatches \cup Gaps = {}
     \/ b = "SELECTION"         /\ mode # "dry" /\ ~SelectionProven
     \/ b = "LIVE_DUPLICATES"   /\ "duplicates" \in Quarantined
     \/ b = "LIVE_INVALID"      /\ "live_invalid" \in Quarantined
     \/ b = "MARKER"            /\ "marker" \in Quarantined
     \/ b = "BATCH_EMPTY"       /\ "empty" \in Quarantined
     \/ b = "TESTS"             /\ tests = "failed"}

(* Faulty variant: the fingerprints are recorded and not compared.         *)
NotCompared(t) == TRUE

Unchanged(t) == t = read.fingerprint

(* The fingerprints are taken again; the decision follows.                 *)
Decide == /\ pc = "compare"
          /\ IF Unchanged(tree)
             THEN /\ pc' = "inventory"
                  /\ decision' = [unproven |-> Unproven, blockers |-> Blockers]
                  /\ read' = [stage \in {"fingerprint"} |-> read[stage]]
             ELSE pc' = "exit2" /\ read' = Nothing /\ UNCHANGED decision
          /\ UNCHANGED <<tree, changed, mode, tests, disk>>

Ready == decision.unproven = {}

(* main writes inventory, verdicts, gate_verdict.json and GATE_REPORT.md   *)
(* in this order; a write that fails ends it.                              *)
Write(name, next) ==
  /\ pc = name
  /\ \/ disk' = disk \cup {name} /\ pc' = next
     \/ disk' = disk /\ pc' = "exit2"
  /\ UNCHANGED <<tree, changed, mode, read, tests, decision>>

WriteOutputs == \/ Write("inventory", "verdicts")
                \/ Write("verdicts", "gate")
                \/ Write("gate", "report")
                \/ Write("report", IF Ready THEN "exit0" ELSE "exit1")

Next == \/ \E p \in Places : Change(p)
        \/ Launch \/ Refuse \/ Fingerprint \/ Scan \/ ReadReports \/ JoinRuns
        \/ JudgeEvals \/ ReadQuarantine \/ ProofTests \/ Decide \/ WriteOutputs

Spec == Init /\ [][Next]_vars

-----------------------------------------------------------------------------
(* Properties                                                              *)

(* A gate_verdict.json that says READY describes a full run whose tests    *)
(* passed, over trees that satisfy everything READY is documented to       *)
(* require at both fingerprints, whatever was changed between them and     *)
(* whichever stage saw it; and the inventory and the verdicts it carries   *)
(* the digests of are this run's.  (Without Reverts: a change undone       *)
(* before the second fingerprint is invisible to it.)                      *)
ReadyIsProven ==
  "gate" \in disk /\ Ready =>
    /\ mode = "full" /\ tests = "passed"
    /\ Proven(read.fingerprint)
    /\ {"inventory", "verdicts"} \subseteq disk

(* A full run over unchanged trees that prove everything, with the tests   *)
(* passed, is READY; only a file that is in the live 4B tree and not in    *)
(* the rejected batch can keep it from it.                                 *)
ProvenIsReady ==
  pc = "exit1" /\ mode = "full" /\ tests = "passed" /\ changed = {} =>
    ~Proven(read.fingerprint) \/ OnlyInLive(read.fingerprint)

(* "NOT_READY otherwise, with exact blocker codes" (no_spend_gate.py:10):  *)
(* a negative verdict of a full run with its tests names a blocker.        *)
NotReadyNamesABlocker ==
  pc = "exit1" /\ mode = "full" /\ tests # "none" => decision.blockers # {}

=============================================================================
