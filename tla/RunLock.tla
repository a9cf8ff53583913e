------------------------------- MODULE RunLock -------------------------------
(***************************************************************************)
(* acquire_lock of latent_lab/bench/artifacts.py: an exclusive lock file   *)
(* created with O_CREAT|O_EXCL, holding the creator's pid, with recovery   *)
(* of a lock whose recorded pid is dead.  A process is a driver that       *)
(* enters the context manager, works inside it and leaves it; a process    *)
(* that dies stays dead (a restarted driver has another pid and is         *)
(* another member of Proc).                                                *)
(***************************************************************************)
EXTENDS Naturals, FiniteSets

CONSTANTS Proc,         \* driver processes, each with a pid of its own
          MaxCrashes    \* bound: how many of them may be killed

ASSUME CrashBound == MaxCrashes \in Nat
ASSUME ProcNames == Proc \cap {"none", "empty"} = {}

NoLock == [owner |-> "none", pid |-> "none"]   \* no file at the lock path
Empty  == "empty"                              \* the file has no bytes yet

VARIABLES lock,      \* the file at the lock path: who created it, what pid it holds
          pc,        \* where each process is in acquire_lock
          expired,   \* processes whose deadline has passed
          dead       \* killed processes

vars == <<lock, pc, expired, dead>>

Contending == {"open", "read", "break", "check"}
Inside     == {"write", "body", "exit"}

TypeOK ==
  /\ lock \in {NoLock} \cup [owner: Proc, pid: Proc \cup {Empty}]
  /\ pc \in [Proc -> {"idle", "refused"} \cup Contending \cup Inside]
  /\ expired \subseteq Proc
  /\ dead \subseteq Proc

Init ==
  /\ lock = NoLock
  /\ pc = [p \in Proc |-> "idle"]
  /\ expired = {}
  /\ dead = {}

Goto(p, label) == pc' = [pc EXCEPT ![p] = label]

\* acquire_lock is called: deadline = now + timeout_s.
Begin(p) ==
  /\ pc[p] = "idle"
  /\ Goto(p, "open")
  /\ expired' = expired \ {p}
  /\ UNCHANGED <<lock, dead>>

CreateWithoutExcl(p) ==
  /\ pc[p] = "open"
  /\ lock' = [owner |-> p, pid |-> Empty]
  /\ Goto(p, "write")
  /\ UNCHANGED <<expired, dead>>

\* os.open(O_CREAT | O_EXCL) succeeds only when there is no file.
Create(p) ==
  /\ pc[p] = "open"
  /\ lock = NoLock
  /\ lock' = [owner |-> p, pid |-> Empty]
  /\ Goto(p, "write")
  /\ UNCHANGED <<expired, dead>>

\* FileExistsError.
CreateRefused(p) ==
  /\ pc[p] = "open"
  /\ lock # NoLock
  /\ Goto(p, "read")
  /\ UNCHANGED <<lock, expired, dead>>

\* The holder's record is read.  A recorded pid that is dead leads to the
\* break; a live one, an empty file or a file that is gone by now do not.
ReadHolder(p) ==
  /\ pc[p] = "read"
  /\ Goto(p, IF lock.pid \in dead THEN "break" ELSE "check")
  /\ UNCHANGED <<lock, expired, dead>>

\* path.unlink() of the lock judged stale, then `continue`; a file that is
\* already gone raises OSError, which falls through to the deadline check.
BreakStale(p) ==
  /\ pc[p] = "break"
  /\ lock' = NoLock
  /\ Goto(p, IF lock = NoLock THEN "check" ELSE "open")
  /\ UNCHANGED <<expired, dead>>

CheckDeadlineNever(p) ==
  /\ pc[p] = "check"
  /\ Goto(p, "open")
  /\ UNCHANGED <<lock, expired, dead>>

\* Past the deadline RuntimeError ends the attempt, otherwise sleep and retry.
CheckDeadline(p) ==
  /\ pc[p] = "check"
  /\ Goto(p, IF p \in expired THEN "refused" ELSE "open")
  /\ UNCHANGED <<lock, expired, dead>>

\* timeout_s passes while p contends.
DeadlinePasses(p) ==
  /\ pc[p] \in Contending
  /\ p \notin expired
  /\ expired' = expired \cup {p}
  /\ UNCHANGED <<lock, pc, dead>>

\* The pid is written through the descriptor, so it reaches the file at the
\* path only while that file is still the one p created.
WritePid(p) ==
  /\ pc[p] = "write"
  /\ lock' = IF lock.owner = p THEN [lock EXCEPT !.pid = p] ELSE lock
  /\ Goto(p, "body")
  /\ UNCHANGED <<expired, dead>>

\* os.write raises: the body is skipped and the finally clause runs.
WritePidFails(p) ==
  /\ pc[p] = "write"
  /\ Goto(p, "exit")
  /\ UNCHANGED <<lock, expired, dead>>

LeaveBody(p) ==
  /\ pc[p] = "body"
  /\ Goto(p, "exit")
  /\ UNCHANGED <<lock, expired, dead>>

\* finally: the path is unlinked, whichever file is there by now.
Release(p) ==
  /\ pc[p] = "exit"
  /\ lock' = NoLock
  /\ Goto(p, "idle")
  /\ UNCHANGED <<expired, dead>>

\* One step of acquire_lock by a live process, the caller's decisions
\* (Begin, LeaveBody) aside.
Acquire(p) ==
  \/ Create(p) \/ CreateRefused(p)
  \/ ReadHolder(p)
  \/ BreakStale(p)
  \/ CheckDeadline(p)
  \/ WritePid(p) \/ WritePidFails(p)
  \/ Release(p)

Step(p) ==
  /\ p \notin dead
  /\ \/ Begin(p)
     \/ Acquire(p)
     \/ DeadlinePasses(p)
     \/ LeaveBody(p)

Crash(p) ==
  /\ p \notin dead
  /\ Cardinality(dead) < MaxCrashes
  /\ dead' = dead \cup {p}
  /\ UNCHANGED <<lock, pc, expired>>

Next == \E p \in Proc : Step(p) \/ Crash(p)

Spec == Init /\ [][Next]_vars

\* A live process keeps executing and its clock keeps running.
Fairness ==
  \A p \in Proc : /\ WF_vars(p \notin dead /\ Acquire(p))
                  /\ WF_vars(p \notin dead /\ DeadlinePasses(p))

FairSpec == Spec /\ Fairness
-----------------------------------------------------------------------------
Holders == {p \in Proc \ dead : pc[p] \in Inside}

\* "Runs serialize through an exclusive lock file (O_CREAT|O_EXCL with
\* dead-holder recovery). Two drivers can never interleave writes."
\* (artifacts.py:4-5).  Refuted: two waiters that read the same dead pid both
\* break, the second one removing the lock the first has just created.
MutualExclusion == \A p, q \in Holders : p = q

\* What the O_EXCL create does give: as long as no driver has been killed, no
\* two drivers are inside the lock at once, the time between creating the
\* file and writing the pid included.
MutualExclusionUntilCrash == dead = {} => MutualExclusion

\* A contender is never left hanging: it gets the lock, is refused at its
\* deadline, or is killed, however often others take the lock meanwhile and
\* whatever a dead holder left behind.
EveryContenderSettles ==
  \A p \in Proc :
    pc[p] \in Contending ~> (p \in dead \/ pc[p] \in Inside \cup {"refused", "idle"})

\* "with dead-holder recovery" (artifacts.py:4-5): a contender that looks at
\* the lock of a dead holder goes on to break it.  Refuted: a holder killed
\* between creating the file and writing its pid leaves an empty file, which
\* no contender ever breaks.
DeadHolderRecovery ==
  [][\A p \in Proc :
       pc[p] = "read" /\ lock # NoLock /\ lock.owner \in dead /\ pc'[p] # pc[p]
         => pc'[p] = "break"]_vars
=============================================================================
