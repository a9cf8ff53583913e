------------------------------- MODULE Journal -------------------------------
(***************************************************************************)
(* rcc/journal.py: a session with an attached journal.  Every ingestion    *)
(* call changes the session in memory and then appends one line; lines are *)
(* numbered with the session's seq after the change, so an atom or a       *)
(* checkpoint carries the number of the turn before it.  A restart rebuilds*)
(* the session from the journal and the store and attaches the journal to  *)
(* the result.                                                             *)
(*                                                                         *)
(* `live` keeps the last session across a crash: it is what the process    *)
(* had acknowledged, and what a restart is compared with.                  *)
(***************************************************************************)
EXTENDS SessionState

CONSTANTS MaxLines,           \* bound: lines of the journal
          MaxFailedAppends,   \* bound: appends that raise (disk full)
          MaxRollbacks        \* bound: runs continued from restore(upto_seq=...)

ASSUME JournalBounds == {MaxLines, MaxFailedAppends, MaxRollbacks} \subseteq Nat

VARIABLES journal,   \* the lines of the journal file
          own,       \* the session goes by a tokenizer_id of its own, not the
                     \* one its counter is identified as
          up,        \* a process holds the session
          failed,    \* appends that raised so far
          rolled     \* rollbacks continued from so far

jvars == <<objs, live, journal, own, up, failed, rolled>>

Meta          == [type |-> "meta", seq |-> 0]
Torn          == [type |-> "torn"]     \* a line that is not JSON
Snapshot(s, o) == [type |-> "checkpoint", seq |-> s.seq, state |-> Export(s), own |-> o]

\* Journal._append: the line's number is session._seq at the time.
Line(s, type, payload) == [type |-> type, seq |-> s.seq, payload |-> payload]

SayLine(s, m)     == Line(s, "say", m)
ObserveLine(s, c) == Line(s, "observe", [content |-> c, id |-> s.bySha[c]])
AtomLine(s, a)    == Line(s, "atom", a)
-----------------------------------------------------------------------------
\* restore(): the base is the last checkpoint with seq <= limit, wherever it
\* stands in the file, else the meta line and an empty session.
BaseIndex(j, limit) ==
  Greatest({1} \cup {i \in DOMAIN j : j[i].type = "checkpoint" /\ j[i].seq <= limit})

\* The lines replayed on the base: up to the first one numbered beyond limit.
Replayed(j, limit) ==
  LET base  == BaseIndex(j, limit)
      later == {i \in base + 1..Len(j) : j[i].seq > limit}
      stop  == IF later = {} THEN Len(j) ELSE (CHOOSE i \in later : \A k \in later : i <= k) - 1
  IN SubSeq(j, base + 1, stop)

\* One replayed line on r: the session built so far, the store as the replay
\* leaves it, and whether nothing raised yet.  No tokenizer_id is passed on, so
\* a checkpoint written under one of its own is refused.
Replay(r, e) ==
  LET raised == [r EXCEPT !.ok = FALSE]
      c == e.payload.content
      s == WithObservation(r.s, c)
      a == e.payload
  IN CASE ~r.ok -> r
       [] r.ok /\ e.type = "say" -> [r EXCEPT !.s = WithMessage(r.s, e.payload)]
       [] r.ok /\ e.type = "observe" ->
            IF Putable(r.objs, c) /\ s.bySha[c] = e.payload.id
            THEN [r EXCEPT !.s = s, !.objs = AfterPut(r.objs, c)]
            ELSE raised
       [] r.ok /\ e.type = "atom" ->
            IF Backed(r.objs, r.s, a.src, a.num)
            THEN [r EXCEPT !.s = WithAtom(r.s, a.kind, a.num, a.src)]
            ELSE raised
       [] r.ok /\ e.type = "checkpoint" ->
            IF ~e.own /\ Loadable(r.objs, e.state)
            THEN [r EXCEPT !.s = FromState(e.state)]
            ELSE raised
       [] OTHER -> r

Unreadable(j) == \E i \in DOMAIN j : j[i] = Torn

ReplayAll(r, lines) ==
  LET after[n \in 0..Len(lines)] ==
        IF n = 0 THEN r ELSE Replay(after[n - 1], lines[n])
  IN after[Len(lines)]

Nothing(o) == [ok |-> TRUE, s |-> FreshSession, objs |-> o]

Restore(j, o, limit) ==
  ReplayAll(Replay(Nothing(o), j[BaseIndex(j, limit)]), Replayed(j, limit))

\* restore() without upto_seq.
RestoreAll(j, o) == Restore(j, o, j[Len(j)].seq)
-----------------------------------------------------------------------------
JournalInit ==
  /\ objs = [c \in Content |-> "absent"]
  /\ live = FreshSession
  /\ journal = <<Meta>>
  /\ own \in BOOLEAN
  /\ up = TRUE
  /\ failed = 0 /\ rolled = 0

\* The ingestion call changed the session to s: its line is appended, or the
\* append raises with the change already made, leaving no line or a torn one.
Logged(s, line) ==
  /\ up
  /\ Len(journal) < MaxLines
  /\ Len(s.turns) <= MaxTurns /\ Len(s.atoms) <= MaxAtoms
  /\ live' = s
  /\ \/ journal' = Append(journal, line) /\ UNCHANGED failed
     \/ /\ failed < MaxFailedAppends /\ failed' = failed + 1
        /\ journal' \in {journal, Append(journal, Torn)}
  /\ UNCHANGED <<own, up, rolled>>

LogSay(m) ==
  LET s == WithMessage(live, m) IN
  /\ Logged(s, SayLine(s, m))
  /\ UNCHANGED objs

LogObserveFirst(c) ==
  /\ Putable(objs, c)
  /\ objs' = AfterPut(objs, c)
  /\ LET s == WithObservation(live, c) IN Logged(s, ObserveLine([s EXCEPT !.seq = live.seq], c))

LogObserve(c) ==
  /\ Putable(objs, c)
  /\ objs' = AfterPut(objs, c)
  /\ LET s == WithObservation(live, c) IN Logged(s, ObserveLine(s, c))

\* observe() raised before it got to the journal: no line tells of it.
LogObserveUncounted(c) ==
  /\ up
  /\ Cardinality(Skipped(live)) < MaxSkipped
  /\ Putable(objs, c) /\ ~Known(live, c)
  /\ objs' = AfterPut(objs, c)
  /\ live' = WithSkippedId(live)
  /\ UNCHANGED <<journal, own, up, failed, rolled>>

LogAtom(k, num, src) ==
  /\ Backed(objs, live, src, num)
  /\ LET s == WithAtom(live, k, num, src) IN
       Logged(s, AtomLine(s, [kind |-> k, num |-> num, src |-> src]))
  /\ UNCHANGED objs

Checkpoint ==
  /\ up
  /\ Len(journal) < MaxLines
  /\ journal' = Append(journal, Snapshot(live, own))
  /\ UNCHANGED <<objs, live, own, up, failed, rolled>>

\* compact(): temp file and replace, so a crash leaves the old or the new file.
CompactKeepingAtomsOut ==
  /\ up
  /\ journal' = <<Meta, Snapshot([live EXCEPT !.atoms = <<>>], own)>>
  /\ UNCHANGED <<objs, live, own, up, failed, rolled>>

Compact ==
  /\ up
  /\ journal' = <<Meta, Snapshot(live, own)>>
  /\ UNCHANGED <<objs, live, own, up, failed, rolled>>

\* The process dies between two calls, inside observe() after the store's put
\* and before the append, or while a line is being written.
Crash ==
  /\ up
  /\ up' = FALSE
  /\ \/ UNCHANGED <<objs, journal>>
     \/ \E c \in Content : Putable(objs, c) /\ objs' = AfterPut(objs, c) /\ UNCHANGED journal
     \/ Len(journal) < MaxLines /\ journal' = Append(journal, Torn) /\ UNCHANGED objs
  /\ UNCHANGED <<live, own, failed, rolled>>

\* A new process restores and attaches the journal; a restore that raises
\* leaves the run without a session.  Rebuilt from the lines alone, a session
\* that had a tokenizer_id of its own goes on without it.
Resume ==
  /\ ~up
  /\ ~Unreadable(journal)
  /\ LET r == RestoreAll(journal, objs) IN
       /\ r.ok
       /\ live' = r.s
       /\ objs' = r.objs
  /\ up' = TRUE /\ own' = FALSE
  /\ UNCHANGED <<journal, failed, rolled>>

\* restore(upto_seq = the number checkpoint() returned), then on from there.
Rollback(i) ==
  /\ rolled < MaxRollbacks /\ rolled' = rolled + 1
  /\ journal[i].type = "checkpoint"
  /\ ~Unreadable(journal)
  /\ LET r == Restore(journal, objs, journal[i].seq) IN
       /\ r.ok
       /\ live' = r.s
       /\ objs' = r.objs
  /\ up' = TRUE /\ own' = FALSE
  /\ UNCHANGED <<journal, failed>>

LoseObject(c) ==
  /\ DamageObject(c)
  /\ UNCHANGED <<live, journal, own, up, failed, rolled>>

LogTurn ==
  \/ \E m \in Message : LogSay(m)
  \/ \E c \in Content : LogObserve(c)

JournalNext ==
  \/ LogTurn
  \/ \E c \in Content : LogObserveUncounted(c)
  \/ \E k \in Kinds, num \in Content \cup {NoNumber} :
       \E src \in SUBSET DOMAIN live.byId : LogAtom(k, num, src)
  \/ Checkpoint \/ Compact \/ Crash \/ Resume
  \/ \E i \in DOMAIN journal : Rollback(i)
  \/ \E c \in Content : LoseObject(c)

JournalSpec == JournalInit /\ [][JournalNext]_jvars
-----------------------------------------------------------------------------
JournalTypeOK ==
  /\ objs \in [Content -> Health]
  /\ journal[1] = Meta
  /\ \A i \in 2..Len(journal) :
       journal[i] = Torn \/ journal[i].type \in {"say", "observe", "atom", "checkpoint"}
  /\ DOMAIN live.byId \subseteq 1..live.counter
  /\ live.seq = Len(live.turns)
  /\ own \in BOOLEAN /\ up \in BOOLEAN
  /\ failed \in 0..MaxFailedAppends /\ rolled \in 0..MaxRollbacks

\* The journal has been used as it is meant: no append has raised, and nobody
\* went on from a rolled back session.
Straight == failed = 0 /\ rolled = 0

\* The line restore() starts from, and the numbers its session has given out.
Base     == journal[BaseIndex(journal, journal[Len(journal)].seq)]
GivenOut == IF Base = Meta THEN 0 ELSE Base.state.counter

\* The replay numbers contents one after the other.
NumbersFollow ==
  \A i \in DOMAIN live.byId : i > GivenOut => GivenOut + 1..i \subseteq DOMAIN live.byId

\* A restart of a straight history loses and invents nothing: whatever was
\* ingested, checkpointed, compacted and however often the process died or
\* restarted, restore() either raises or rebuilds exactly the session that was
\* acknowledged, indexes and atom counters included, but for numbers it had
\* skipped.  With a readable journal and store it raises for two reasons only:
\* the checkpoint it starts from was written under a tokenizer_id of the
\* session's own, or a number was skipped, by a token count that raised,
\* between that checkpoint and an observation after it.
ResumeEqualsLive ==
  Straight /\ ~Unreadable(journal) =>
    LET r == RestoreAll(journal, objs) IN
    /\ r.ok => /\ r.s = [live EXCEPT !.counter = r.s.counter]
               /\ r.s.counter <= live.counter
    /\ /\ \A i \in DOMAIN live.byId : objs[live.byId[i]] = "intact"
       /\ Base # Meta => ~Base.own
       /\ NumbersFollow
       => r.ok

\* Restoring up to the number a checkpoint() returned brings back the turns
\* and observations of that checkpoint exactly, and its atoms as a prefix.
Apart(d) == [d EXCEPT !.atoms = <<>>, !.counter = 0]

RollbackKeepsTurns ==
  Straight /\ ~Unreadable(journal) =>
    \A i \in DOMAIN journal : journal[i].type = "checkpoint" =>
      LET r == Restore(journal, objs, journal[i].seq)
          d == journal[i].state
      IN r.ok => /\ Apart(Export(r.s)) = Apart(d)
                 /\ Len(d.atoms) <= Len(r.s.atoms)
                 /\ SubSeq(r.s.atoms, 1, Len(d.atoms)) = d.atoms

\* Whatever the journal went through, failed appends and continued rollbacks
\* included, a session restore() returns is whole: every observation it refers
\* to is readable in the store, its indexes are inverse, its references and
\* the numbers of its atoms resolve.
RestoredIsSound ==
  ~Unreadable(journal) =>
    LET r == RestoreAll(journal, objs)
        s == r.s
    IN r.ok => /\ Loadable(r.objs, Export(s))
               /\ \A i \in DOMAIN s.byId : s.bySha[s.byId[i]] = i
               /\ \A c \in Content : s.bySha[c] # 0 => s.byId[s.bySha[c]] = c

\* "rolled.compile().text == mid_state.text" (tests/test_journal.py:54): a
\* rollback to a checkpoint is that checkpoint.  Refuted: an atom added after
\* the checkpoint carries the same number and comes back with it.
RollbackIsExact ==
  ~Unreadable(journal) =>
    \A i \in DOMAIN journal : journal[i].type = "checkpoint" =>
      LET r == Restore(journal, objs, journal[i].seq)
      IN r.ok => Export(r.s) = journal[i].state

\* "Every ingestion event is appended as one JSONL line" to a "rollback-safe"
\* journal (journal.py:4, 7): a turn just ingested is in what restore() gives.
\* Refuted twice: an append that raises leaves the turn in the session only;
\* and turns ingested after a rollback stand behind the abandoned lines of
\* higher number, where restore() stops or replays the abandoned ones.
TurnsAreRestorable ==
  [][LogTurn /\ ~Unreadable(journal') =>
       LET r == RestoreAll(journal', objs') IN r.ok => r.s.turns = live'.turns]_jvars

\* compact() folds the log "without losing history semantics" (journal.py:10):
\* a number a checkpoint returned still restores what it restored.  Refuted:
\* numbers older than the fold restore an empty session, and nothing raises.
CompactKeepsHistory ==
  [][Compact /\ ~Unreadable(journal) =>
       \A i \in DOMAIN journal : journal[i].type = "checkpoint" =>
         Restore(journal', objs, journal[i].seq) = Restore(journal, objs, journal[i].seq)]_jvars
=============================================================================
