---------------------------- MODULE RunLockProofs ----------------------------
(***************************************************************************)
(* TLAPS proofs about acquire_lock, for any set of drivers and any number  *)
(* of crashes.                                                             *)
(***************************************************************************)
EXTENDS RunLock, TLAPS

\* Until a driver dies, whoever is inside owns the file at the lock path,
\* and nobody has found a reason to break it.
OwnsFile(p) == pc[p] \in Inside => lock.owner = p
NoBreaker == \A p \in Proc : pc[p] # "break"
IInv == TypeOK /\ (dead = {} => NoBreaker /\ \A p \in Proc : OwnsFile(p))

\* The lock file, the program counters and the process sets keep their types.
THEOREM TypeCorrect == Spec => []TypeOK
<1>1. Init => TypeOK
  BY DEF Init, TypeOK
<1>2. TypeOK /\ [Next]_vars => TypeOK'
  <2>1. SUFFICES ASSUME TypeOK, [Next]_vars PROVE TypeOK'
    OBVIOUS
  <2>2. CASE UNCHANGED vars
    BY <2>1, <2>2 DEF TypeOK, vars
  <2>3. ASSUME NEW p \in Proc, Step(p) PROVE TypeOK'
    <3>1. CASE Begin(p)
      BY <2>1, <3>1 DEF TypeOK, Begin, Goto, Contending
    <3>2. CASE Create(p)
      BY <2>1, <3>2 DEF TypeOK, Create, Goto, Inside
    <3>3. CASE CreateRefused(p)
      BY <2>1, <3>3 DEF TypeOK, CreateRefused, Goto, Contending
    <3>4. CASE ReadHolder(p)
      BY <2>1, <3>4 DEF TypeOK, ReadHolder, Goto, Contending
    <3>5. CASE BreakStale(p)
      BY <2>1, <3>5 DEF TypeOK, BreakStale, Goto, Contending
    <3>6. CASE CheckDeadline(p)
      BY <2>1, <3>6 DEF TypeOK, CheckDeadline, Goto, Contending
    <3>7. CASE WritePid(p)
      <4>1. pc' \in [Proc -> {"idle", "refused"} \cup Contending \cup Inside]
        BY <2>1, <3>7 DEF TypeOK, WritePid, Goto, Inside
      <4>2. lock' \in {NoLock} \cup [owner: Proc, pid: Proc \cup {Empty}]
        BY <2>1, <3>7, ProcNames DEF TypeOK, WritePid, NoLock
      <4> QED BY <2>1, <3>7, <4>1, <4>2 DEF TypeOK, WritePid
    <3>8. CASE WritePidFails(p)
      BY <2>1, <3>8 DEF TypeOK, WritePidFails, Goto, Inside
    <3>9. CASE Release(p)
      BY <2>1, <3>9 DEF TypeOK, Release, Goto
    <3>10. CASE DeadlinePasses(p)
      BY <2>1, <3>10 DEF TypeOK, DeadlinePasses
    <3>11. CASE LeaveBody(p)
      BY <2>1, <3>11 DEF TypeOK, LeaveBody, Goto, Inside
    <3> QED BY <2>3, <3>1, <3>2, <3>3, <3>4, <3>5, <3>6, <3>7, <3>8, <3>9,
                <3>10, <3>11 DEF Step, Acquire
  <2>4. ASSUME NEW p \in Proc, Crash(p) PROVE TypeOK'
    BY <2>1, <2>4 DEF TypeOK, Crash
  <2> QED BY <2>1, <2>2, <2>3, <2>4 DEF Next
<1> QED BY <1>1, <1>2, PTL DEF Spec

\* A step that finds every driver alive keeps the ownership of the lock file
\* in step with the program counters.
LEMMA OwnershipStep ==
  ASSUME TypeOK, dead = {}, dead' = {}, NoBreaker,
         \A p \in Proc : OwnsFile(p),
         NEW p \in Proc, Step(p)
  PROVE  NoBreaker' /\ \A q \in Proc : OwnsFile(q)'
<1>1. CASE Begin(p)
  BY <1>1 DEF Begin, Goto, NoBreaker, OwnsFile, Inside, TypeOK
<1>2. CASE Create(p)
  <2>1. \A q \in Proc : pc[q] \notin Inside
    BY <1>2, ProcNames DEF Create, NoLock, OwnsFile
  <2> QED BY <1>2, <2>1 DEF Create, Goto, NoBreaker, OwnsFile, Inside, TypeOK
<1>3. CASE CreateRefused(p)
  BY <1>3 DEF CreateRefused, Goto, NoBreaker, OwnsFile, Inside, TypeOK
<1>4. CASE ReadHolder(p)
  BY <1>4 DEF ReadHolder, Goto, NoBreaker, OwnsFile, Inside, TypeOK
<1>5. CASE BreakStale(p)
  BY <1>5 DEF BreakStale, NoBreaker
<1>6. CASE CheckDeadline(p)
  BY <1>6 DEF CheckDeadline, Goto, NoBreaker, OwnsFile, Inside, TypeOK
<1>7. CASE WritePid(p)
  <2>1. lock'.owner = lock.owner
    BY <1>7, ProcNames DEF WritePid, TypeOK, NoLock
  <2> QED BY <1>7, <2>1 DEF WritePid, Goto, NoBreaker, OwnsFile, Inside, TypeOK
<1>8. CASE WritePidFails(p)
  BY <1>8 DEF WritePidFails, Goto, NoBreaker, OwnsFile, Inside, TypeOK
<1>9. CASE Release(p)
  <2>1. \A q \in Proc : pc[q] \in Inside => q = p
    BY <1>9 DEF Release, OwnsFile, Inside
  <2> QED BY <1>9, <2>1 DEF Release, Goto, NoBreaker, OwnsFile, Inside, TypeOK
<1>10. CASE DeadlinePasses(p)
  BY <1>10 DEF DeadlinePasses, NoBreaker, OwnsFile
<1>11. CASE LeaveBody(p)
  BY <1>11 DEF LeaveBody, Goto, NoBreaker, OwnsFile, Inside, TypeOK
<1> QED BY <1>1, <1>2, <1>3, <1>4, <1>5, <1>6, <1>7, <1>8, <1>9, <1>10, <1>11
        DEF Step, Acquire

\* However many drivers contend, two of them are never inside the lock at
\* once before the first crash.
THEOREM ExclusionUntilCrash == Spec => []MutualExclusionUntilCrash
<1>1. Init => IInv
  BY DEF Init, IInv, TypeOK, NoBreaker, OwnsFile, Inside
<1>2. IInv /\ TypeOK' /\ [Next]_vars => IInv'
  <2>1. SUFFICES ASSUME IInv, TypeOK', [Next]_vars, dead' = {}
                 PROVE  NoBreaker' /\ \A p \in Proc : OwnsFile(p)'
    BY DEF IInv
  <2>2. CASE UNCHANGED vars
    BY <2>1, <2>2 DEF IInv, NoBreaker, OwnsFile, vars
  <2>3. ASSUME NEW p \in Proc, Step(p)
        PROVE  NoBreaker' /\ \A q \in Proc : OwnsFile(q)'
    <3>1. dead = {}
      BY <2>1, <2>3 DEF Step, Acquire, Begin, Create, CreateRefused, ReadHolder,
         BreakStale, CheckDeadline, WritePid, WritePidFails, Release,
         DeadlinePasses, LeaveBody
    <3> QED BY <2>1, <2>3, <3>1, OwnershipStep DEF IInv
  <2>4. ASSUME NEW p \in Proc, Crash(p) PROVE FALSE
    BY <2>1, <2>4 DEF Crash
  <2> QED BY <2>1, <2>2, <2>3, <2>4 DEF Next
<1>3. IInv => MutualExclusionUntilCrash
  BY DEF IInv, OwnsFile, MutualExclusionUntilCrash, MutualExclusion, Holders
<1> QED BY <1>1, <1>2, <1>3, TypeCorrect, PTL DEF Spec
=============================================================================
