----------------------------- MODULE BoundsProofs -----------------------------
(***************************************************************************)
(* The two loops that spend money stay within what they were given.        *)
(*                                                                         *)
(* The watchdog, for every wall and teardown cap, poll interval, command   *)
(* timeout and number of faults: only a reply that leaves the instance out *)
(* confirms one that runs, the caps are overrun by the commands in flight  *)
(* at most, and a teardown is left unconfirmed only by a fault or a listed *)
(* volume in each of its rounds.                                           *)
(*                                                                         *)
(* The live evaluation, for every number of cases, expand rounds and       *)
(* retries: requests stay within the budget, and the default budget is     *)
(* enough for every cell.                                                  *)
(***************************************************************************)
EXTENDS Watchdog, EvalSuite, TLAPS

-----------------------------------------------------------------------------
(* The watchdog.                                                           *)

\* What is known of the instance is never outrun by it: an instance seen or
\* destroyed is listed or gone, and once a reply says it is inactive it stays
\* so.  A destroy that left the instance there was a fault, and so is a reply
\* that leaves it out.
KnownOK ==
  /\ accepted => inst = "gone"
  /\ seen => inst # "unlisted"
  /\ wpc = "volumes" /\ reply = "active" => inst # "unlisted"
  /\ wpc = "volumes" /\ reply = "inactive" /\ seen => inst \notin Running
  /\ phase = "monitor" => lastDestroy = -Poll
  /\ phase = "teardown" /\ lastDestroy < 0 =>
       lastDestroy = -Poll /\ wpc \in {"head", "destroy", "unconfirmed"}
  /\ lastDestroy >= 0 /\ inst # "gone" => faults >= 1
  /\ wpc = "volumes" /\ phase = "teardown" /\ reply = "omitted" /\ inst # "gone" => faults >= 2
  /\ ConfirmedIsStopped

\* How late each step of a round may be: the head of the loop has seen the
\* deadline ahead, and each command since adds one timeout.
TimeOK ==
  /\ phase = "monitor" =>
       /\ wpc \notin {"destroy", "unconfirmed"}
       /\ wpc = "instances" => now < Wall
       /\ wpc = "volumes" => now < Wall + Command
       /\ now < Wall + 2 * Command
  /\ phase = "teardown" =>
       /\ started < Wall + 2 * Command
       /\ wpc = "destroy" => now < started + Teardown
       /\ wpc = "instances" => now < started + Teardown + Command
       /\ wpc = "volumes" => now < started + Teardown + 2 * Command
       /\ now < started + Teardown + 3 * Command

WatchdogInv == WatchdogTypeOK /\ KnownOK /\ TimeOK
-----------------------------------------------------------------------------
LEMMA NapBounds ==
  ASSUME NEW left \in Int
  PROVE  Nap(left) \in Nat /\ (Nap(left) <= left \/ Nap(left) = 0)
BY Caps DEF Nap, Least

\* The invariant is inductive.
THEOREM WatchdogInductive == WatchdogSpec => []WatchdogInv
<1>1. WatchdogInit => WatchdogInv
  <2> SUFFICES ASSUME WatchdogInit PROVE WatchdogInv
    OBVIOUS
  <2> USE Caps DEF WatchdogInit
  <2>1. now < Wall + 2 * Command
    OBVIOUS
  <2>2. WatchdogTypeOK
    <3>1. now \in Nat /\ started \in Nat /\ lastDestroy \in Int /\ faults \in 0..MaxFaults /\ blocked \in Nat
      OBVIOUS
    <3>2. {volume, stop, seen, accepted} \subseteq BOOLEAN
      BY Zenon
    <3> QED BY <3>1, <3>2 DEF WatchdogTypeOK, Listed
  <2> QED BY <2>1, <2>2 DEF WatchdogInv, KnownOK, TimeOK, Ended, ConfirmedIsStopped
<1>2. WatchdogInv /\ [WatchdogNext]_wvars => WatchdogInv'
  <2> SUFFICES ASSUME WatchdogInv, [WatchdogNext]_wvars PROVE WatchdogInv'
    OBVIOUS
  <2> USE Caps DEF WatchdogInv
  <2>t. WatchdogTypeOK'
    <3>1. CASE MonitorHead
      BY <3>1 DEF MonitorHead, WatchdogTypeOK, provider
    <3>2. CASE TeardownHead
      BY <3>2 DEF TeardownHead, Round, WatchdogTypeOK, provider, Ended
    <3>3. CASE Destroy
      <4>1. now' \in Nat /\ faults' \in 0..MaxFaults
        BY <3>3 DEF Destroy, Takes, Fault, WatchdogTypeOK
      <4>2. accepted' \in BOOLEAN
        BY <3>3, Zenon DEF Destroy, WatchdogTypeOK
      <4>3. inst' \in {"unlisted", "gone"} \cup Listed /\ lastDestroy' \in Int
        BY <3>3 DEF Destroy, WatchdogTypeOK
      <4> QED BY <4>1, <4>2, <4>3, <3>3 DEF Destroy, WatchdogTypeOK
    <3>4. CASE ReadInstances
      BY <3>4 DEF ReadInstances, Takes, Fault, WatchdogTypeOK, provider, ActiveReply, Faulty
    <3>5. CASE ReadVolumes
      <4>1. now' \in Nat /\ faults' \in 0..MaxFaults
        BY <3>5 DEF ReadVolumes, Takes, Fault, WatchdogTypeOK
      <4>2. PICK v : Judge(v)
        BY <3>5 DEF ReadVolumes
      <4>3. seen' \in BOOLEAN /\ wpc' \in {"confirmed", "sleep"}
        BY <4>2, Zenon DEF Judge, WatchdogTypeOK
      <4> QED BY <4>1, <4>3, <3>5 DEF ReadVolumes, WatchdogTypeOK, provider, Ended
    <3>6. CASE Sleep
      BY <3>6, NapBounds DEF Sleep, WatchdogTypeOK, provider
    <3>7. CASE InstanceMoves
      BY <3>7 DEF InstanceMoves, WatchdogTypeOK, Listed
    <3>8. CASE WorkCompletes
      BY <3>8 DEF WorkCompletes, WatchdogTypeOK
    <3>10. CASE VolumeMoves
      <4>1. volume' \in BOOLEAN
        BY <3>10, Zenon DEF VolumeMoves, WatchdogTypeOK
      <4> QED BY <3>10, <4>1 DEF VolumeMoves, WatchdogTypeOK
    <3>9. CASE UNCHANGED wvars
      BY <3>9 DEF wvars, WatchdogTypeOK
    <3> QED BY <3>1, <3>2, <3>3, <3>4, <3>5, <3>6, <3>7, <3>8, <3>9, <3>10 DEF WatchdogNext, Watch
  <2>k. KnownOK'
    <3> USE DEF KnownOK, ConfirmedIsStopped, Running, WatchdogTypeOK, Fault
    <3>1. CASE MonitorHead
      BY <3>1 DEF MonitorHead, provider
    <3>2. CASE TeardownHead
      BY <3>2 DEF TeardownHead, Round, provider
    <3>3. CASE Destroy
      <4>1. wpc = "destroy" /\ wpc' = "instances" /\ phase = "teardown" /\ phase' = phase
        BY <3>3 DEF Destroy, TimeOK
      <4>2. lastDestroy' \in Nat /\ seen' = seen /\ reply' = reply
        BY <3>3 DEF Destroy
      <4>3. CASE inst' = "gone" /\ accepted' = TRUE
        BY <4>1, <4>2, <4>3
      <4>4. CASE inst' \in {inst, "gone"} /\ accepted' = accepted /\ Fault
        <5>1. faults' >= 1
          BY <4>4
        <5>2. (accepted' => inst' = "gone") /\ (seen' => inst' # "unlisted")
          BY <4>4, <4>2, Zenon
        <5> QED BY <4>1, <4>2, <5>1, <5>2
      <4> QED BY <3>3, <4>3, <4>4 DEF Destroy
    <3>4. CASE ReadInstances
      BY <3>4 DEF ReadInstances, ActiveReply, provider, Faulty
    <3>5. CASE ReadVolumes
      BY <3>5 DEF ReadVolumes, Judge, Absent, provider, WatchdogTypeOK
    <3>6. CASE Sleep
      BY <3>6 DEF Sleep, provider
    <3>7. CASE InstanceMoves
      BY <3>7 DEF InstanceMoves
    <3>8. CASE WorkCompletes
      BY <3>8 DEF WorkCompletes
    <3>10. CASE VolumeMoves
      BY <3>10 DEF VolumeMoves
    <3>9. CASE UNCHANGED wvars
      BY <3>9 DEF wvars
    <3> QED BY <3>1, <3>2, <3>3, <3>4, <3>5, <3>6, <3>7, <3>8, <3>9, <3>10 DEF WatchdogNext, Watch
  <2>c. TimeOK'
    <3> USE DEF TimeOK, WatchdogTypeOK
    <3>1. CASE MonitorHead
      BY <3>1 DEF MonitorHead
    <3>2. CASE TeardownHead
      BY <3>2 DEF TeardownHead, Round
    <3>3. CASE Destroy
      BY <3>3 DEF Destroy, Takes
    <3>4. CASE ReadInstances
      BY <3>4 DEF ReadInstances, Takes
    <3>5. CASE ReadVolumes
      BY <3>5 DEF ReadVolumes, Judge, Takes
    <3>6. CASE Sleep
      BY <3>6, NapBounds DEF Sleep
    <3>7. CASE InstanceMoves
      BY <3>7 DEF InstanceMoves
    <3>8. CASE WorkCompletes
      BY <3>8 DEF WorkCompletes
    <3>10. CASE VolumeMoves
      BY <3>10 DEF VolumeMoves
    <3>9. CASE UNCHANGED wvars
      BY <3>9 DEF wvars
    <3> QED BY <3>1, <3>2, <3>3, <3>4, <3>5, <3>6, <3>7, <3>8, <3>9, <3>10 DEF WatchdogNext, Watch
  <2> QED BY <2>t, <2>k, <2>c
<1> QED BY <1>1, <1>2, PTL DEF WatchdogSpec

\* The watchdog's variables keep their types.
THEOREM WatchdogTypeCorrect == WatchdogSpec => []WatchdogTypeOK
<1>1. WatchdogInv => WatchdogTypeOK
  BY DEF WatchdogInv
<1> QED BY <1>1, WatchdogInductive, PTL

\* Only a reply that leaves the instance out confirms a teardown of one that
\* runs, and after a destroy only when that failed too.
THEOREM ConfirmationIsSound == WatchdogSpec => []ConfirmedIsStopped
<1>1. WatchdogInv => ConfirmedIsStopped
  BY DEF WatchdogInv, KnownOK
<1> QED BY <1>1, WatchdogInductive, PTL

\* The two caps hold up to the commands in flight when a deadline passes.
THEOREM OverrunIsBounded == WatchdogSpec => []CapsHoldUpToCommands
<1>1. WatchdogInv => CapsHoldUpToCommands
  BY Caps DEF WatchdogInv, TimeOK, WatchdogTypeOK, CapsHoldUpToCommands
<1> QED BY <1>1, WatchdogInductive, PTL
-----------------------------------------------------------------------------
(* Every round of the teardown issues its destroy, and a round that ends   *)
(* without a verdict had a fault, or a volume was listed.                  *)

Span == Poll + 3 * Command          \* a round and its nap, at their longest
FaultyRounds(n) == n * Span

\* In a round the clock has run for its `commands` commands so far; unless the
\* round went as it should up to now, one of the losses is its own.
Lost == faults + blocked

InRound(asItShould, commands) ==
  \/ asItShould /\ now <= started + FaultyRounds(Lost) + commands * Command
  \/ now + Span <= started + FaultyRounds(Lost) + commands * Command

TeardownRounds ==
  /\ lastDestroy <= now
  /\ phase = "monitor" => lastDestroy = -Poll
  /\ phase = "teardown" =>
       /\ wpc \in {"head", "destroy", "unconfirmed"} => now <= started + FaultyRounds(Lost)
       /\ wpc = "head" => now >= started + Teardown \/ now - lastDestroy >= Poll
       /\ wpc = "instances" => InRound(inst = "gone", 1)
       /\ wpc = "volumes" => InRound(inst = "gone" /\ reply = "inactive", 2)
       /\ wpc = "sleep" => InRound(FALSE, 3)
       /\ wpc = "unconfirmed" => now >= started + Teardown

LEMMA AnotherRound ==
  ASSUME NEW n \in Nat
  PROVE  /\ FaultyRounds(n) \in Nat
         /\ FaultyRounds(n + 1) = FaultyRounds(n) + Span
<1>1. Span \in Nat
  BY Caps DEF Span
<1> QED BY <1>1 DEF FaultyRounds

\* A cap that the faulty rounds fill has no more rounds than they are.
LEMMA RoundsFilled ==
  ASSUME NEW n \in Nat, Teardown <= FaultyRounds(n)
  PROVE  Rounds <= n
<1> DEFINE q == (Teardown + Span - 1) \div Span
<1>1. Span \in Nat /\ Span > 0 /\ Teardown \in Nat
  BY Caps DEF Span
<1>2. q \in Int /\ q * Span <= Teardown + Span - 1
  BY <1>1
<1>3. q * Span < (n + 1) * Span
  BY <1>1, <1>2 DEF FaultyRounds
<1> HIDE DEF q
<1>4. q < n + 1
  BY <1>1, <1>2, <1>3
<1>5. Rounds = q
  BY Caps DEF Rounds, q, Span
<1> QED BY <1>2, <1>4, <1>5

\* The invariant of the teardown's rounds.
THEOREM TeardownInductive == WatchdogSpec => []TeardownRounds
<1>1. WatchdogInit => TeardownRounds
  BY Caps DEF WatchdogInit, TeardownRounds
<1>2. WatchdogInv /\ TeardownRounds /\ [WatchdogNext]_wvars => TeardownRounds'
  <2> SUFFICES ASSUME WatchdogInv, TeardownRounds, [WatchdogNext]_wvars PROVE TeardownRounds'
    OBVIOUS
  <2>l. Lost \in Nat /\ (UNCHANGED <<faults, blocked>> => Lost' = Lost)
    BY Caps DEF WatchdogInv, WatchdogTypeOK, Lost
  <2>f. FaultyRounds(Lost) \in Nat /\ Span \in Nat /\ Span = Poll + 3 * Command
    BY <2>l, AnotherRound, Caps DEF Span
  <2>g. /\ UNCHANGED <<faults, blocked>> => FaultyRounds(Lost)' = FaultyRounds(Lost)
        /\ Fault /\ UNCHANGED blocked => FaultyRounds(Lost)' = FaultyRounds(Lost) + Span
        /\ UNCHANGED faults /\ blocked' = blocked + 1
             => FaultyRounds(Lost)' = FaultyRounds(Lost) + Span
    <3>1. FaultyRounds(Lost)' = FaultyRounds(Lost')
      BY DEF FaultyRounds, Span
    <3>2. Fault /\ UNCHANGED blocked => Lost' = Lost + 1
      BY Caps DEF Fault, Lost, WatchdogInv, WatchdogTypeOK
    <3>3. UNCHANGED faults /\ blocked' = blocked + 1 => Lost' = Lost + 1
      BY Caps DEF Lost, WatchdogInv, WatchdogTypeOK
    <3> QED BY <2>l, <3>1, <3>2, <3>3, AnotherRound
  <2> USE Caps, <2>f, <2>g DEF WatchdogInv, TeardownRounds, WatchdogTypeOK, InRound
  <2>1. CASE MonitorHead
    BY <2>1 DEF MonitorHead, provider
  <2>2. CASE TeardownHead
    BY <2>2 DEF TeardownHead, Round, provider
  <2>3. CASE Destroy
    BY <2>3 DEF Destroy, Takes, TimeOK
  <2>4. CASE ReadInstances
    BY <2>4 DEF ReadInstances, Takes, ActiveReply, Running, provider, Faulty
  <2>5. CASE ReadVolumes
    BY <2>5 DEF ReadVolumes, Takes, Judge, Absent, provider, Faulty
  <2>6. CASE Sleep
    BY <2>6 DEF Sleep, Nap, Least, provider
  <2>7. CASE InstanceMoves
    BY <2>7 DEF InstanceMoves
  <2>8. CASE WorkCompletes
    BY <2>8 DEF WorkCompletes
  <2>10. CASE VolumeMoves
    BY <2>10 DEF VolumeMoves
  <2>9. CASE UNCHANGED wvars
    BY <2>9 DEF wvars
  <2> QED BY <2>1, <2>2, <2>3, <2>4, <2>5, <2>6, <2>7, <2>8, <2>9, <2>10 DEF WatchdogNext, Watch
<1> QED BY <1>1, <1>2, WatchdogInductive, PTL DEF WatchdogSpec

\* A verdict of "unconfirmed" is never the work of a few transient failures or
\* of a volume that was there for a while.
THEOREM UnconfirmedTakesFaults == WatchdogSpec => []UnconfirmedNeedsFaults
<1>1. WatchdogInv /\ TeardownRounds => UnconfirmedNeedsFaults
  <2> SUFFICES ASSUME WatchdogInv, TeardownRounds, wpc = "unconfirmed" PROVE Lost >= Rounds
    BY DEF UnconfirmedNeedsFaults, Lost
  <2>1. phase = "teardown" /\ Lost \in Nat /\ started \in Nat /\ now \in Nat
    BY Caps DEF WatchdogInv, TimeOK, WatchdogTypeOK, Lost
  <2>2. Teardown <= FaultyRounds(Lost)
    BY <2>1, Caps, AnotherRound DEF TeardownRounds
  <2>3. Rounds <= Lost
    BY <2>1, <2>2, RoundsFilled
  <2>4. Rounds \in Int
    BY Caps DEF Rounds
  <2> QED BY <2>1, <2>3, <2>4
<1> QED BY <1>1, WatchdogInductive, TeardownInductive, PTL
-----------------------------------------------------------------------------
(* The budget of a live-evaluation suite.                                  *)

(* The calls one cell can spend at most.                                   *)
PerCell == 1 + MaxExpandRounds

(* While a question is under way the current call is still owed its        *)
(* remaining attempts.                                                     *)
RequestsOK ==
  /\ spent <= maxCalls
  /\ IF pc = "post"
     THEN /\ spent >= 1
          /\ callsMade <= (MaxRetries + 1) * (spent - 1) + attempt
     ELSE callsMade <= (MaxRetries + 1) * spent

(* A cell that asks again has not used up its rounds.                      *)
RoundsOK == /\ pc = "ask" => rounds <= MaxExpandRounds
            /\ pc = "gates" => rounds = 0

(* What the cells so far have spent at most.                               *)
SpentOK == IF pc = "reported"
           THEN spent <= cell * PerCell
           ELSE spent <= (cell - 1) * PerCell + rounds

IInv == SuiteTypeOK /\ RequestsOK /\ RoundsOK

(* The suite's own counts are natural numbers.                             *)
LEMMA CountTypes ==
  /\ PerCell \in Nat \ {0}
  /\ \A e \in {"tool", "closed", "both"} :
       Cells(e) \in Nat \ {0} /\ DefaultBudget(e) = Cells(e) * PerCell /\ DefaultBudget(e) \in Nat
<1>1. PerCell \in Nat \ {0}
  BY SuiteConstants DEF PerCell
<1>2. ASSUME NEW e \in {"tool", "closed", "both"}
      PROVE  /\ Cells(e) \in Nat \ {0}
             /\ DefaultBudget(e) = Cells(e) * PerCell
             /\ DefaultBudget(e) \in Nat
  <2>1. Arms(e) \in {1, 2}
    BY DEF Arms
  <2>2. Cells(e) \in Nat \ {0}
    BY <2>1, SuiteConstants DEF Cells
  <2>3. DefaultBudget(e) = Cells(e) * PerCell
    BY DEF DefaultBudget, PerCell
  <2> QED
    BY <1>1, <2>2, <2>3
<1> QED
  BY <1>1, <1>2

(* A cell that may still make a call has the room for it.                  *)
LEMMA RoomInCell ==
  ASSUME NEW n \in Nat, NEW c \in 1 .. n, NEW k \in Nat \ {0}
  PROVE  /\ (c - 1) * k \in Nat
         /\ (c - 1) * k + k = c * k
         /\ c * k <= n * k
<1>1. (c - 1) * k \in Nat /\ (c - 1) * k + k = c * k
  BY SMT
<1>2. PICK d \in Nat : n = c + d
  <2>1. n - c \in Nat /\ n = c + (n - c)
    OBVIOUS
  <2> QED
    BY <2>1
<1>3. d * k \in Nat /\ (c + d) * k = c * k + d * k /\ c * k \in Nat
  BY SMT
<1> QED
  BY <1>1, <1>2, <1>3

(* The types and the bound on requests are inductive together.             *)
LEMMA RequestsInductive == IInv /\ [Next]_vars => IInv'
<1> SUFFICES ASSUME IInv, [Next]_vars PROVE IInv'
  OBVIOUS
<1> USE SuiteConstants
<1> DEFINE R == MaxRetries + 1
<1>r. R \in Nat /\ R * spent \in Nat /\ R * (spent + 1) = R * spent + R
      /\ (spent >= 1 => R * (spent - 1) + R = R * spent)
  BY SMT DEF IInv, SuiteTypeOK
<1>c. Cells(expansion) \in Nat \ {0}
  BY CountTypes DEF IInv, SuiteTypeOK
<1>1. ASSUME NEW o \in Outcomes, Record(o), UNCHANGED budget,
             callsMade' \in Nat, callsMade' <= R * spent
      PROVE  IInv'
  <2>1. pc' \in {"gates", "reported"} /\ rounds' = 0 /\ attempt' = 0
    BY <1>1 DEF Record
  <2>2. cell' \in 1 .. Cells(expansion) /\ results' \subseteq Outcomes
    BY <1>1, <1>c DEF Record, IInv, SuiteTypeOK
  <2>3. UNCHANGED <<expansion, maxCalls, spent>>
    BY <1>1 DEF budget
  <2>4. SuiteTypeOK'
    BY <2>1, <2>2, <2>3, <1>1 DEF IInv, SuiteTypeOK
  <2>5. spent <= maxCalls
    BY DEF IInv, RequestsOK
  <2>6. RequestsOK'
    BY <2>1, <2>3, <2>5, <1>1 DEF RequestsOK
  <2>7. RoundsOK'
    BY <2>1 DEF RoundsOK
  <2> QED
    BY <2>4, <2>6, <2>7 DEF IInv
<1>o. callsMade \in Nat /\ (pc # "post" => callsMade <= R * spent)
  BY DEF IInv, SuiteTypeOK, RequestsOK
<1>p. pc = "post" => callsMade + 1 <= R * spent
  <2> SUFFICES ASSUME pc = "post" PROVE callsMade + 1 <= R * spent
    OBVIOUS
  <2>1. spent >= 1 /\ callsMade <= R * (spent - 1) + attempt /\ attempt + 1 <= R
    BY DEF IInv, SuiteTypeOK, RequestsOK
  <2>2. R * (spent - 1) \in Nat /\ attempt \in Nat
    BY <2>1 DEF IInv, SuiteTypeOK
  <2> QED
    BY <2>1, <2>2, <1>r, <1>o
<1>2. CASE GateFails
  <2>1. Record("gate failed") /\ UNCHANGED budget /\ callsMade' = callsMade /\ pc # "post"
    BY <1>2 DEF GateFails
  <2> QED
    BY <2>1, <1>1, <1>o DEF Outcomes
<1>3. CASE GatesPass
  BY <1>3 DEF GatesPass, IInv, SuiteTypeOK, RequestsOK, RoundsOK, budget
<1>4. CASE TrySpendRefused
  <2>1. Record("budget exhausted") /\ UNCHANGED budget /\ callsMade' = callsMade /\ pc # "post"
    BY <1>4 DEF TrySpendRefused
  <2> QED
    BY <2>1, <1>1, <1>o DEF Outcomes
<1>5. CASE TrySpend
  BY <1>5, <1>r DEF TrySpend, IInv, SuiteTypeOK, RequestsOK, RoundsOK, budget
<1>6. CASE Answers
  <2>1. Record("answered") /\ UNCHANGED budget /\ callsMade' = callsMade + 1 /\ pc = "post"
    BY <1>6 DEF Answers
  <2> HIDE DEF R
  <2>2. callsMade' = callsMade + 1 /\ callsMade + 1 <= R * spent
    BY <2>1, <1>p, Zenon
  <2>3. callsMade' \in Nat /\ callsMade' <= R * spent
    BY <2>2, <1>o
  <2>4. UNCHANGED budget
    BY <2>1
  <2> QED
    BY <2>1, <2>3, <2>4, <1>1, Zenon DEF Outcomes
<1>7. CASE AsksForEvidence
  BY <1>7, <1>p, <1>r DEF AsksForEvidence, MayExpand, IInv, SuiteTypeOK, RequestsOK, RoundsOK, budget
<1>8. CASE ExpandRaises \/ ScoringRaises
  BY <1>8, <1>p, <1>r DEF ExpandRaises, ScoringRaises, IInv, SuiteTypeOK, RequestsOK, RoundsOK, budget
<1>9. CASE Retries
  BY <1>9, <1>r DEF Retries, IInv, SuiteTypeOK, RequestsOK, RoundsOK, budget
<1>10. CASE ProviderFails
  <2>1. Record("provider error") /\ UNCHANGED budget /\ callsMade' = callsMade + 1 /\ pc = "post"
    BY <1>10 DEF ProviderFails
  <2> HIDE DEF R
  <2>2. callsMade' = callsMade + 1 /\ callsMade + 1 <= R * spent
    BY <2>1, <1>p, Zenon
  <2>3. callsMade' \in Nat /\ callsMade' <= R * spent
    BY <2>2, <1>o
  <2>4. UNCHANGED budget
    BY <2>1
  <2> QED
    BY <2>1, <2>3, <2>4, <1>1, Zenon DEF Outcomes
<1>11. CASE UNCHANGED vars
  BY <1>11 DEF vars, IInv, SuiteTypeOK, RequestsOK, RoundsOK, budget
<1> QED
  BY <1>2, <1>3, <1>4, <1>5, <1>6, <1>7, <1>8, <1>9, <1>10, <1>11 DEF Next

LEMMA RequestsInitial == Init => IInv
BY SuiteConstants, CountTypes
DEF Init, IInv, SuiteTypeOK, RequestsOK, RoundsOK, budget

(* The variables have their types for every number of cases, rounds and    *)
(* retries.                                                                *)
THEOREM SuiteTypeCorrect == Spec => []SuiteTypeOK
<1>1. IInv => SuiteTypeOK
  BY DEF IInv
<1> QED
  BY <1>1, RequestsInitial, RequestsInductive, PTL DEF Spec

(* The cap on calls holds and each budgeted call sends at most             *)
(* max_retries + 1 requests, for every suite.                              *)
THEOREM RequestsAreBounded == Spec => []RequestsStayInBudget
<1>1. IInv => RequestsStayInBudget
  <2> SUFFICES ASSUME IInv PROVE RequestsStayInBudget
    OBVIOUS
  <2>1. spent >= 1 => (MaxRetries + 1) * (spent - 1) + (MaxRetries + 1) = (MaxRetries + 1) * spent
    BY SuiteConstants, SMT DEF IInv, SuiteTypeOK
  <2>2. (MaxRetries + 1) * spent \in Nat /\ (spent >= 1 => (MaxRetries + 1) * (spent - 1) \in Nat)
    BY SuiteConstants, SMT DEF IInv, SuiteTypeOK
  <2> QED
    BY <2>1, <2>2, SuiteConstants DEF IInv, SuiteTypeOK, RequestsOK, RequestsStayInBudget
<1> QED
  BY <1>1, RequestsInitial, RequestsInductive, PTL DEF Spec

-----------------------------------------------------------------------------
(* A cell spends at most 1 + max_expand_rounds calls, so the calls spent   *)
(* stay below the room of the cells begun.                                 *)
SpendingInv == /\ SpentOK
               /\ DefaultBudgetSuffices
               /\ maxCalls \in Nat

LEMMA SpendingInductive == IInv /\ SpendingInv /\ [Next]_vars => SpendingInv'
<1> SUFFICES ASSUME IInv, SpendingInv, [Next]_vars PROVE SpendingInv'
  OBVIOUS
<1> USE SuiteConstants
<1> DEFINE N == Cells(expansion)
<1>n. N \in Nat \ {0} /\ DefaultBudget(expansion) = N * PerCell /\ PerCell \in Nat \ {0}
  BY CountTypes DEF IInv, SuiteTypeOK
<1>e. UNCHANGED <<expansion, maxCalls>>
  BY DEF Next, vars, budget, GateFails, GatesPass, TrySpendRefused, TrySpend, Answers,
         AsksForEvidence, ExpandRaises, ScoringRaises, Retries, ProviderFails
<1>k. /\ (cell - 1) * PerCell \in Nat
      /\ (cell - 1) * PerCell + PerCell = cell * PerCell
      /\ cell * PerCell <= N * PerCell
  <2>1. cell \in 1 .. N
    BY DEF IInv, SuiteTypeOK
  <2> QED
    BY <2>1, <1>n, RoomInCell
<1>p. PerCell = 1 + MaxExpandRounds
  BY DEF PerCell
<1>s. (cell + 1 - 1) * PerCell = cell * PerCell
  BY DEF IInv, SuiteTypeOK
<1>1. ASSUME NEW o \in Outcomes, Record(o), spent' = spent, pc \in {"gates", "ask", "post"}
      PROVE  SpentOK'
  <2>1. spent <= cell * PerCell
    BY <1>1, <1>k, <1>p DEF SpendingInv, SpentOK, IInv, SuiteTypeOK, RoundsOK
  <2>2. CASE cell < N
    <3>1. cell' = cell + 1 /\ pc' = "gates" /\ rounds' = 0
      BY <2>2, <1>1 DEF Record
    <3>2. (cell' - 1) * PerCell + rounds' = cell * PerCell
      <4>1. cell' - 1 = cell /\ cell * PerCell \in Nat
        BY <3>1, <1>k, <1>n DEF IInv, SuiteTypeOK
      <4> QED
        BY <4>1, <3>1
    <3> QED
      BY <2>1, <3>1, <3>2, <1>1 DEF SpentOK
  <2>3. CASE ~(cell < N)
    BY <2>1, <2>3, <1>1 DEF Record, SpentOK
  <2> QED
    BY <2>2, <2>3
<1>2. SpentOK'
  <2>1. CASE GateFails
    BY <2>1, <1>1 DEF GateFails, budget, Outcomes
  <2>2. CASE GatesPass
    BY <2>2, <1>n DEF GatesPass, budget, SpendingInv, SpentOK
  <2>3. CASE TrySpendRefused
    BY <2>3, <1>1 DEF TrySpendRefused, budget, Outcomes
  <2>4. CASE TrySpend
    BY <2>4, <1>k DEF TrySpend, SpendingInv, SpentOK, IInv, SuiteTypeOK
  <2>5. CASE Answers
    BY <2>5, <1>1 DEF Answers, budget, Outcomes
  <2>6. CASE AsksForEvidence \/ ExpandRaises \/ ScoringRaises \/ Retries
    BY <2>6 DEF AsksForEvidence, ExpandRaises, ScoringRaises, Retries, budget, SpendingInv, SpentOK
  <2>7. CASE ProviderFails
    BY <2>7, <1>1 DEF ProviderFails, budget, Outcomes
  <2>8. CASE UNCHANGED vars
    BY <2>8 DEF vars, SpendingInv, SpentOK
  <2> QED
    BY <2>1, <2>2, <2>3, <2>4, <2>5, <2>6, <2>7, <2>8 DEF Next
<1>3. TrySpendRefused => maxCalls # DefaultBudget(expansion)
  <2> SUFFICES ASSUME TrySpendRefused, maxCalls = N * PerCell PROVE FALSE
    BY <1>n
  <2>1. rounds <= MaxExpandRounds /\ spent <= (cell - 1) * PerCell + rounds
    BY DEF TrySpendRefused, SpendingInv, SpentOK, IInv, RoundsOK
  <2>2. PICK room \in Nat, used \in Nat, all \in Nat :
          /\ room = (cell - 1) * PerCell /\ used = cell * PerCell /\ all = N * PerCell
          /\ room + PerCell = used /\ used <= all
    <3>1. cell * PerCell \in Nat /\ N * PerCell \in Nat
      BY <1>n DEF IInv, SuiteTypeOK
    <3> QED
      BY <3>1, <1>k
  <2>3. spent <= room + rounds /\ spent + 1 > all
    BY <2>1, <2>2 DEF TrySpendRefused
  <2>4. spent \in Nat /\ rounds \in Nat
    BY DEF IInv, SuiteTypeOK
  <2> QED
    BY <2>1, <2>2, <2>3, <2>4, <1>p
<1>4. ~TrySpendRefused => ("budget exhausted" \in results' => "budget exhausted" \in results)
  <2>1. ASSUME NEW o \in {"gate failed", "answered", "provider error"}, Record(o)
        PROVE  "budget exhausted" \in results' => "budget exhausted" \in results
    BY <2>1 DEF Record
  <2>2. CASE GateFails \/ Answers \/ ProviderFails
    BY <2>1, <2>2 DEF GateFails, Answers, ProviderFails
  <2>3. CASE \/ GatesPass \/ TrySpend \/ AsksForEvidence \/ ExpandRaises \/ ScoringRaises
             \/ Retries \/ UNCHANGED vars
    BY <2>3 DEF GatesPass, TrySpend, AsksForEvidence, ExpandRaises, ScoringRaises, Retries, vars
  <2> QED
    BY <2>2, <2>3 DEF Next
<1>5. DefaultBudget(expansion)' = DefaultBudget(expansion)
  BY <1>e DEF DefaultBudget, Cells, Arms
<1>6. DefaultBudgetSuffices'
  BY <1>3, <1>4, <1>5, <1>e DEF DefaultBudgetSuffices, SpendingInv
<1> QED
  BY <1>2, <1>6, <1>e DEF SpendingInv

(* With the default budget no cell is refused a call: run_suite's bound    *)
(* counts every round of every cell, for all numbers of cases and rounds.  *)
THEOREM BoundIsEnough == Spec => []DefaultBudgetSuffices
<1>1. Init => SpendingInv
  BY SuiteConstants, CountTypes
  DEF Init, SpendingInv, SpentOK, DefaultBudgetSuffices, PerCell
<1>2. SpendingInv => DefaultBudgetSuffices
  BY DEF SpendingInv
<1> QED
  BY <1>1, <1>2, RequestsInitial, RequestsInductive, SpendingInductive, PTL DEF Spec
=============================================================================
