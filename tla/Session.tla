------------------------------- MODULE Session -------------------------------
(***************************************************************************)
(* A ResearchSession over its store: ingestion, save/load and compile().   *)
(* The caller may lose the process and load the saved state at any time;   *)
(* the store's files may be damaged or deleted at any time.                *)
(***************************************************************************)
EXTENDS SessionState

CONSTANT MaxFailures   \* bound: note_failure() calls of one session

ASSUME FailureBound == MaxFailures \in Nat

VARIABLE saved   \* the state file: an exported state, NoFile before the first save

svars == <<objs, live, saved>>

NoFile == [seq |-> 0]

Number == Content \cup {NoNumber}
Turn == [kind: {"message"}, msg: Message, seq: Nat]
          \cup [kind: {"observation"}, id: Nat, seq: Nat]
Atom == [kind: Kinds, n: Nat, num: Number, src: SUBSET Nat]

\* What an exported state and a session have in common.
StateOK(s) ==
  /\ s.seq = Len(s.turns)
  /\ s.counter \in Nat
  /\ s.byId \in [DOMAIN s.byId -> Content] /\ DOMAIN s.byId \subseteq 1..s.counter
  /\ s.turns \in Seq(Turn)
  /\ s.atoms \in Seq(Atom)

Fields == {"seq", "counter", "byId", "bySha", "turns", "atoms", "made",
           "failures", "injection"}

SessionTypeOK ==
  /\ objs \in [Content -> Health]
  /\ DOMAIN live = Fields
  /\ StateOK(live)
  /\ live.bySha \in [Content -> Nat]
  /\ live.made \in [Kinds -> Nat]
  /\ live.failures \in Nat /\ live.injection \in BOOLEAN
  /\ saved # NoFile => StateOK(saved)

Init ==
  /\ objs = [c \in Content |-> "absent"]
  /\ live = FreshSession
  /\ saved = NoFile

Say(m) ==
  /\ Len(live.turns) < MaxTurns
  /\ live' = WithMessage(live, m)
  /\ UNCHANGED <<objs, saved>>

\* A corrupt object makes put() raise before the session changes.
Observe(c) ==
  /\ Len(live.turns) < MaxTurns
  /\ Putable(objs, c)
  /\ objs' = AfterPut(objs, c)
  /\ live' = WithObservation(live, c)
  /\ UNCHANGED saved

\* The content is stored and counting its tokens raises.
ObserveUncounted(c) ==
  /\ Cardinality(Skipped(live)) < MaxSkipped
  /\ Putable(objs, c) /\ ~Known(live, c)
  /\ objs' = AfterPut(objs, c)
  /\ live' = WithSkippedId(live)
  /\ UNCHANGED saved

AddAtomUnchecked(k, num, src) ==
  /\ Len(live.atoms) < MaxAtoms
  /\ src \subseteq DOMAIN live.byId
  /\ live' = WithAtom(live, k, num, src)
  /\ UNCHANGED <<objs, saved>>

AddAtom(k, num, src) ==
  /\ Len(live.atoms) < MaxAtoms
  /\ Backed(objs, live, src, num)
  /\ live' = WithAtom(live, k, num, src)
  /\ UNCHANGED <<objs, saved>>

NoteFailure ==
  /\ live.failures < MaxFailures
  /\ live' = [live EXCEPT !.failures = @ + 1]
  /\ UNCHANGED <<objs, saved>>

FlagInjection ==
  /\ live' = [live EXCEPT !.injection = TRUE]
  /\ UNCHANGED <<objs, saved>>

\* save(): temp file and replace.
Save ==
  /\ saved' = Export(live)
  /\ UNCHANGED <<objs, live>>

\* load() in a new process; whatever was not saved is gone.
Load ==
  /\ saved # NoFile
  /\ Loadable(objs, saved)
  /\ live' = FromState(saved)
  /\ UNCHANGED <<objs, saved>>

Damage(c) ==
  /\ DamageObject(c)
  /\ UNCHANGED <<live, saved>>

Ingest ==
  \/ \E m \in Message : Say(m)
  \/ \E c \in Content : Observe(c) \/ ObserveUncounted(c)
  \/ \E k \in Kinds, num \in Number : \E src \in SUBSET DOMAIN live.byId :
       AddAtom(k, num, src)

Next ==
  \/ Ingest
  \/ NoteFailure \/ FlagInjection
  \/ Save \/ Load
  \/ \E c \in Content : Damage(c)

Spec == Init /\ [][Next]_svars
-----------------------------------------------------------------------------
\* compile(): the turns of a session as the model sees them.
IsObservation(s, n) == s.turns[n].kind = "observation"
Occurrences(s, id)  == {n \in DOMAIN s.turns : IsObservation(s, n) /\ s.turns[n].id = id}
ObservedIds(s)      == {s.turns[n].id : n \in {m \in DOMAIN s.turns : IsObservation(s, m)}}

\* _distinct_recent_ids scans backwards and tests the window after adding an
\* id, so a window of 0 keeps one.
Recent(s) ==
  LET Newer(id) == {j \in ObservedIds(s) : Greatest(Occurrences(s, j)) > Greatest(Occurrences(s, id))}
  IN {id \in ObservedIds(s) : Cardinality(Newer(id)) < (IF KeepRecent = 0 THEN 1 ELSE KeepRecent)}

WantMaskEveryRepeat(s, n) ==
  LET id == s.turns[n].id IN
  /\ s.byId[id] \in Bulky
  /\ \/ MaskDuplicates /\ \E m \in Occurrences(s, id) : m # n
     \/ id \notin Recent(s)

\* _mask_candidate with the window gate.
WantMask(s, n) ==
  LET id == s.turns[n].id IN
  /\ s.byId[id] \in Bulky
  /\ \/ MaskDuplicates /\ \E m \in Occurrences(s, id) : m < n
     \/ id \notin Recent(s)

\* How the observation of turn n appears in the compiled context.
Shown(o, s, n) ==
  IF o[s.byId[s.turns[n].id]] # "intact" THEN "unavailable"
  ELSE IF WantMask(s, n) THEN "stub" ELSE "inline"

\* route(): the mode of the scratch block when the router is enabled.
Mode(s) ==
  LET observations == Cardinality(DOMAIN s.byId)
      conflict == \E n \in DOMAIN s.atoms : s.atoms[n].kind = "C"
  IN IF s.injection \/ s.failures >= 2 \/ conflict THEN "FULL"
     ELSE IF observations >= 8 THEN "EXPERT"
     ELSE IF Len(s.atoms) >= 3 THEN "SYMBOLIC"
     ELSE IF observations >= 1 \/ Len(s.atoms) >= 1 THEN "DRAFT"
     ELSE "DIRECT"
-----------------------------------------------------------------------------
\* The two indexes are inverse to each other at all times, over loads of any
\* older saved state too: no content has two ids, no id two contents.
IndexesAgree ==
  /\ \A i \in DOMAIN live.byId : live.bySha[live.byId[i]] = i
  /\ \A c \in Content : live.bySha[c] # 0 =>
       live.bySha[c] \in DOMAIN live.byId /\ live.byId[live.bySha[c]] = c

\* Every reference a turn or an atom holds resolves, every number of an atom
\* is the number of one of its sources, and no two atoms share an id.
RefsResolve ==
  /\ \A n \in DOMAIN live.turns : IsObservation(live, n) => live.turns[n].id \in DOMAIN live.byId
  /\ \A n \in DOMAIN live.atoms : Sourced(live.byId, live.atoms[n].src, live.atoms[n].num)
  /\ \A m, n \in DOMAIN live.atoms :
       live.atoms[m].kind = live.atoms[n].kind /\ live.atoms[m].n = live.atoms[n].n => m = n

\* What save() wrote can be loaded whenever the objects it refers to are
\* intact: no legal history writes a state file that load() refuses.
SavedIsLoadable ==
  saved # NoFile /\ (\A i \in DOMAIN saved.byId : objs[saved.byId[i]] = "intact")
    => Loadable(objs, saved)

\* "most recent distinct observations stay inline" (session.py:77): each of
\* the keep_recent last observed ids whose object is readable has at least one
\* occurrence inline, although duplicates become stubs.
RecentStaysInline ==
  \A id \in Recent(live) : objs[live.byId[id]] = "intact" =>
    \E n \in Occurrences(live, id) : Shown(objs, live, n) = "inline"

\* "If the store is missing or corrupt at compile time the verbatim text stays
\* inline instead" (session.py:11-12).  Refuted: the text exists only in the
\* store, and compile() renders OBSERVATION_UNAVAILABLE.
DamagedStaysInline ==
  \A n \in DOMAIN live.turns :
    IsObservation(live, n) => Shown(objs, live, n) # "unavailable"

\* A session resumed from the state just saved surfaces the same scratch mode.
\* Refuted: the two explicit router signals (session.py:154-155) are not
\* exported, so a restart under suspected injection leaves FULL.
ResumeKeepsMode ==
  [][Load /\ saved = Export(live) => Mode(live') = Mode(live)]_svars
=============================================================================
