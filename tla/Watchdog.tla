------------------------------- MODULE Watchdog -------------------------------
(***************************************************************************)
(* latent_lab/bench/vast_watchdog.py: the local watchdog of the one paid   *)
(* instance.  It polls the provider's inventories until the wall deadline, *)
(* the completion sentinel or the provider says the instance is over, then *)
(* destroys the instance until an inventory without it is read.            *)
(*                                                                         *)
(* Time is counted in ticks of the five seconds that are both the default  *)
(* poll interval and the timeout of one provider command, and starts at 0  *)
(* when the watchdog does.                                                 *)
(***************************************************************************)
EXTENDS Integers

CONSTANTS Wall,       \* wall_seconds
          Teardown,   \* teardown_seconds
          Poll,       \* poll_seconds
          Command,    \* longest provider command
          MaxFaults   \* bound: provider commands that fail or take no effect

\* The caps watch() checks before it contacts the provider.
ASSUME Caps ==
  /\ {Wall, Teardown, Poll, Command, MaxFaults} \subseteq Nat
  /\ Wall > 0 /\ Command > 0
  /\ 0 < Poll /\ Poll <= Teardown

VARIABLES inst,        \* the preregistered instance at the provider
          volume,      \* does the provider list a volume?
          stop,        \* the completion sentinel exists
          now,         \* monotonic()
          wpc,         \* where watch() is
          phase,       \* its loop: "monitor" or "teardown"
          started,     \* when the teardown began
          lastDestroy, \* when destroy was issued last, -Poll before the first
          seen,        \* seen_instance
          reply,       \* the instances inventory just read
          accepted,    \* history: a destroy command returned 0
          blocked,     \* history: teardown rounds in which a volume was listed
          faults

wvars == <<inst, volume, stop, now, wpc, phase, started, lastDestroy, seen, reply,
           accepted, blocked, faults>>
provider == <<inst, volume, stop>>

Listed    == {"loading", "running", "exited"}
Running   == {"loading", "running"}     \* what _active_instance reports
Ended     == {"confirmed", "unconfirmed"}

\* What a faulty inventory command may give: a non-zero exit or a timeout, a
\* reply _items raises on, and a reply that reads as an inventory without the
\* entry: a JSON object without the key, or an entry whose id does not parse.
Faulty    == {"failed", "garbled", "omitted"}

WatchdogTypeOK ==
  /\ inst \in {"unlisted", "gone"} \cup Listed
  /\ volume \in BOOLEAN /\ stop \in BOOLEAN
  /\ seen \in BOOLEAN /\ accepted \in BOOLEAN
  /\ now \in Nat /\ started \in Nat /\ lastDestroy \in Int
  /\ wpc \in {"head", "destroy", "instances", "volumes", "sleep"} \cup Ended
  /\ phase \in {"monitor", "teardown"}
  /\ reply \in {"none", "active", "inactive"} \cup Faulty
  /\ blocked \in Nat
  /\ faults \in 0..MaxFaults

\* The instance has been created; the inventory may not list it yet.
WatchdogInit ==
  /\ inst \in {"unlisted", "loading", "running"}
  /\ volume \in BOOLEAN
  /\ stop = FALSE
  /\ now = 0
  /\ wpc = "head" /\ phase = "monitor"
  /\ started = 0 /\ lastDestroy = -Poll
  /\ seen = FALSE /\ reply = "none" /\ accepted = FALSE
  /\ blocked = 0
  /\ faults = 0

Least(a, b) == IF a < b THEN a ELSE b

\* A command is over after at most its timeout, whatever it returns.
Takes == \E d \in 0..Command : now' = now + d

Fault == faults < MaxFaults /\ faults' = faults + 1

\* while monotonic() < wall_deadline and not stop_file.exists()
MonitorHead ==
  /\ wpc = "head" /\ phase = "monitor"
  /\ IF now < Wall /\ ~stop
       THEN wpc' = "instances" /\ UNCHANGED <<phase, started>>
       ELSE wpc' = "head" /\ phase' = "teardown" /\ started' = now
  /\ UNCHANGED <<provider, now, lastDestroy, seen, reply, accepted, blocked, faults>>

RoundForever == IF now >= started + Teardown THEN "head" ELSE "destroy"
RoundDestroyingOnce ==
  IF now >= started + Teardown THEN "unconfirmed"
  ELSE IF lastDestroy < 0 THEN "destroy" ELSE "instances"

\* while monotonic() < teardown_deadline; destroy at most once per interval.
Round ==
  IF now >= started + Teardown THEN "unconfirmed"
  ELSE IF now - lastDestroy >= Poll THEN "destroy" ELSE "instances"

TeardownHead ==
  /\ wpc = "head" /\ phase = "teardown"
  /\ wpc' = Round
  /\ UNCHANGED <<provider, now, phase, started, lastDestroy, seen, reply, accepted, blocked, faults>>

\* vastai destroy instance: the return code is logged and nothing else, so an
\* accepted command that removes nothing is as good as a failed one.
Destroy ==
  /\ wpc = "destroy"
  /\ wpc' = "instances"
  /\ lastDestroy' = now
  /\ Takes
  /\ \/ inst' = "gone" /\ accepted' = TRUE /\ UNCHANGED faults
     \/ inst' \in {inst, "gone"} /\ accepted' = accepted /\ Fault
  /\ UNCHANGED <<volume, stop, phase, started, seen, reply, blocked>>

ActiveReply == IF inst \in Running THEN "active" ELSE "inactive"

\* _inventory: the first of two commands; an error is noticed after both.
ReadInstances ==
  /\ wpc = "instances"
  /\ wpc' = "volumes"
  /\ Takes
  /\ \/ reply' = ActiveReply /\ UNCHANGED faults
     \/ reply' \in Faulty /\ Fault
  /\ UNCHANGED <<provider, phase, started, lastDestroy, seen, accepted, blocked>>

AbsentOrFailed(volumes) == reply # "active" /\ volumes # "present"
Absent(volumes) ==
  reply \in {"inactive", "omitted"} /\ volumes \in {"empty", "omitted"}

\* What the loop body makes of the two inventories; WatchdogError is passed.
\* The monitor, unlike the teardown, must have seen the instance before.
Judge(volumes) ==
  /\ seen' = (seen \/ (phase = "monitor" /\ reply = "active" /\ volumes # "failed"))
  /\ wpc' = IF Absent(volumes) /\ (phase = "monitor" => seen)
             THEN "confirmed" ELSE "sleep"

\* _inventory's second command.
ReadVolumes ==
  /\ wpc = "volumes"
  /\ Takes
  /\ \/ /\ Judge(IF volume THEN "present" ELSE "empty")
        /\ blocked' = IF volume /\ phase = "teardown" THEN blocked + 1 ELSE blocked
        /\ UNCHANGED faults
     \/ \E v \in Faulty : Judge(v) /\ Fault /\ UNCHANGED blocked
  /\ UNCHANGED <<provider, phase, started, lastDestroy, reply, accepted>>

NapWhole(left) == Poll

\* sleep(min(poll_seconds, max(0, deadline - monotonic())))
Nap(left) == Least(Poll, IF left < 0 THEN 0 ELSE left)

Sleep ==
  /\ wpc = "sleep"
  /\ wpc' = "head"
  /\ now' = now + Nap((IF phase = "monitor" THEN Wall ELSE started + Teardown) - now)
  /\ reply' = "none"
  /\ UNCHANGED <<provider, phase, started, lastDestroy, seen, accepted, blocked, faults>>

\* The provider and the work on the instance.  Nobody restarts an instance
\* that exited.
InstanceMoves ==
  /\ inst \in {"unlisted", "loading", "running"}
  /\ inst' \in CASE inst = "unlisted" -> {"loading"}
                 [] inst = "loading"  -> {"running", "exited"}
                 [] inst = "running"  -> {"exited", "gone"}
  /\ UNCHANGED <<volume, stop, now, wpc, phase, started, lastDestroy, seen, reply,
                 accepted, blocked, faults>>

\* Somebody with the same account makes or removes a volume.
VolumeMoves ==
  /\ volume' = ~volume
  /\ UNCHANGED <<inst, stop, now, wpc, phase, started, lastDestroy, seen, reply,
                 accepted, blocked, faults>>

WorkCompletes ==
  /\ ~stop
  /\ stop' = TRUE
  /\ UNCHANGED <<inst, volume, now, wpc, phase, started, lastDestroy, seen, reply,
                 accepted, blocked, faults>>

Watch ==
  \/ MonitorHead \/ TeardownHead
  \/ Destroy
  \/ ReadInstances \/ ReadVolumes
  \/ Sleep

WatchdogNext == Watch \/ InstanceMoves \/ VolumeMoves \/ WorkCompletes

WatchdogSpec == WatchdogInit /\ [][WatchdogNext]_wvars

\* The watchdog's process keeps running.
FairWatchdog == WatchdogSpec /\ WF_wvars(Watch)
-----------------------------------------------------------------------------
\* A confirmed teardown leaves nothing running on the bill, for an instance
\* the inventory listed while the watchdog monitored it or whose destruction
\* the provider accepted; the reads it rests on are older than the verdict.
\* Only a reply that leaves the instance out can deceive it, and in the
\* teardown not that alone: the destroy before it must have failed as well.
ConfirmedIsStopped ==
  wpc = "confirmed" /\ (seen \/ accepted) /\ inst \in Running =>
    /\ reply = "omitted"
    /\ phase = "teardown" => faults >= 2

\* The caps hold up to the commands in flight when a deadline passes: two for
\* the wall deadline, three for the teardown's.
CapsHoldUpToCommands ==
  /\ phase = "teardown" => started < Wall + 2 * Command
  /\ now < Wall + Teardown + 5 * Command

\* The rounds the teardown's cap leaves room for when every command takes as
\* long as it may.
Rounds == (Teardown + Poll + 3 * Command - 1) \div (Poll + 3 * Command)

\* A few transient failures never end in teardown_unconfirmed: the verdict
\* needs a fault or a listed volume in every round of the cap.
UnconfirmedNeedsFaults == wpc = "unconfirmed" => faults + blocked >= Rounds

\* The watchdog always comes to a verdict.
EventuallyJudged == <>(wpc \in Ended)

\* "A transient inventory failure cannot declare success" (vast_watchdog.py:105).
\* Refuted: a JSON object without the key reads as an empty inventory (line 32),
\* and one such reply after the instance was seen ends the monitor with
\* teardown_confirmed while the instance runs on.
FailureDeclaresNothing == wpc = "confirmed" /\ seen => inst \notin Running

\* "destroys exactly the preregistered instance, and requires both instance
\* and volume inventories to be empty" (vast_watchdog.py:4-6).  Refuted: an
\* instance that exited by itself ends the monitor with teardown_confirmed,
\* no destroy issued and the instance still in the inventory.
ConfirmedIsDestroyed == wpc = "confirmed" /\ seen => inst = "gone"

\* "to be empty within 120 seconds" (vast_watchdog.py:5-6).  Refuted: the
\* deadline is read at the head of the loop only, and the round that confirms
\* may end three commands later.
ConfirmedWithinCap ==
  wpc = "confirmed" /\ phase = "teardown" => now <= started + Teardown
=============================================================================
