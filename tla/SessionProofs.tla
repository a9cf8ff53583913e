---------------------------- MODULE SessionProofs ----------------------------
(***************************************************************************)
(* TLAPS proofs about a research session, for any contents, any length and *)
(* any history of saves, loads and store damage; and about its journal, for*)
(* any history of calls, crashes, restarts, failed appends and rollbacks.  *)
(***************************************************************************)
EXTENDS Session, Journal, FiniteSetTheorems, WellFoundedInduction, TLAPS

\* No two ids have the same content; what turns and atoms refer to is there.
OneIdEach(d)   == \A i, j \in DOMAIN d.byId : d.byId[i] = d.byId[j] => i = j
TurnsResolve(d) == \A n \in DOMAIN d.turns :
                     d.turns[n].kind = "observation" => d.turns[n].id \in DOMAIN d.byId
AtomsSourced(d) == \A n \in DOMAIN d.atoms : Sourced(d.byId, d.atoms[n].src, d.atoms[n].num)
AtomsDistinct(d) == \A m, n \in DOMAIN d.atoms :
  d.atoms[m].kind = d.atoms[n].kind /\ d.atoms[m].n = d.atoms[n].n => m = n
\* The atoms of a kind are numbered 1, 2, ... up to `last` of the kind.
Numbered(d, last) ==
  \A k \in Kinds : {d.atoms[n].n : n \in {m \in DOMAIN d.atoms : d.atoms[m].kind = k}} = 1..last[k]

Whole(d) == /\ StateOK(d) /\ OneIdEach(d) /\ TurnsResolve(d)
            /\ AtomsSourced(d) /\ AtomsDistinct(d)

Indexed(s) ==
  /\ \A i \in DOMAIN s.byId : s.bySha[s.byId[i]] = i
  /\ \A c \in Content : s.bySha[c] # 0 => s.bySha[c] \in DOMAIN s.byId /\ s.byId[s.bySha[c]] = c

SessionOK(s) ==
  /\ DOMAIN s = Fields
  /\ s.bySha \in [Content -> Nat] /\ s.made \in [Kinds -> Nat]
  /\ s.failures \in Nat /\ s.injection \in BOOLEAN
  /\ StateOK(s) /\ Indexed(s)
  /\ TurnsResolve(s) /\ AtomsSourced(s) /\ AtomsDistinct(s) /\ Numbered(s, s.made)

FileOK(d) ==
  /\ Whole(d)
  /\ \E last \in [Kinds -> Nat] : Numbered(d, last)

IInv ==
  /\ objs \in [Content -> Health]
  /\ SessionOK(live)
  /\ saved # NoFile => FileOK(saved)
-----------------------------------------------------------------------------
\* A fresh session is sound.
LEMMA FreshOK == SessionOK(FreshSession)
<1> DEFINE f == FreshSession
<1>1. /\ f.seq = 0 /\ f.counter = 0 /\ f.byId = <<>> /\ f.turns = <<>> /\ f.atoms = <<>>
      /\ f.bySha = [c \in Content |-> 0] /\ f.made = [k \in Kinds |-> 0]
      /\ f.failures = 0 /\ f.injection = FALSE
  BY DEF FreshSession
<1>2. DOMAIN f = Fields
  BY DEF FreshSession, Fields
<1>3. StateOK(f)
  BY <1>1 DEF StateOK
<1>4. Indexed(f) /\ TurnsResolve(f) /\ AtomsSourced(f) /\ AtomsDistinct(f)
  BY <1>1 DEF Indexed, TurnsResolve, AtomsSourced, AtomsDistinct
<1>5. Numbered(f, f.made)
  BY <1>1 DEF Numbered
<1>6. /\ f.bySha \in [Content -> Nat] /\ f.made \in [Kinds -> Nat]
      /\ f.failures \in Nat /\ f.injection \in BOOLEAN
  BY DEF FreshSession
<1> SUFFICES SessionOK(f)
  OBVIOUS
<1> HIDE DEF f
<1> QED BY <1>6, <1>1, <1>2, <1>3, <1>4, <1>5 DEF SessionOK

\* say() keeps a session sound.
LEMMA MessageOK ==
  ASSUME NEW s, SessionOK(s), NEW m \in Message
  PROVE  SessionOK(WithMessage(s, m))
<1> DEFINE t == WithMessage(s, m)
           turn == [kind |-> "message", msg |-> m, seq |-> s.seq]
<1>1. /\ t.seq = s.seq + 1 /\ t.counter = s.counter /\ t.byId = s.byId
      /\ t.bySha = s.bySha /\ t.turns = Append(s.turns, turn) /\ t.atoms = s.atoms
      /\ t.made = s.made /\ t.failures = s.failures /\ t.injection = s.injection /\ DOMAIN t = Fields
  BY DEF SessionOK, Fields, WithMessage
<1>2. s.turns \in Seq(Turn) /\ s.seq \in Nat /\ turn \in Turn
  BY DEF SessionOK, StateOK, Turn
<1> SUFFICES SessionOK(t)
  OBVIOUS
<1> HIDE DEF t
<1>3. StateOK(t)
  BY <1>1, <1>2 DEF SessionOK, StateOK
<1>4. TurnsResolve(t)
  BY <1>1, <1>2 DEF SessionOK, TurnsResolve
<1>5. Indexed(t) /\ AtomsSourced(t) /\ AtomsDistinct(t) /\ Numbered(t, t.made)
  BY <1>1 DEF SessionOK, Indexed, AtomsSourced, AtomsDistinct, Numbered
<1> QED BY <1>1, <1>3, <1>4, <1>5 DEF SessionOK

\* observe() keeps a session sound, whether or not the content has an id.
LEMMA ObservationOK ==
  ASSUME NEW s, SessionOK(s), NEW c \in Content
  PROVE  SessionOK(WithObservation(s, c))
<1> DEFINE t == WithObservation(s, c)
           id == IdOf(s, c)
           turn == [kind |-> "observation", id |-> id, seq |-> s.seq]
<1>1. /\ t.seq = s.seq + 1
      /\ t.counter = IF Known(s, c) THEN s.counter ELSE id
      /\ t.byId = [i \in DOMAIN s.byId \cup {id} |-> IF i = id THEN c ELSE s.byId[i]]
      /\ t.bySha = [s.bySha EXCEPT ![c] = id]
      /\ t.turns = Append(s.turns, turn) /\ t.atoms = s.atoms
      /\ t.made = s.made /\ t.failures = s.failures /\ t.injection = s.injection /\ DOMAIN t = Fields
  BY DEF SessionOK, Fields, WithObservation
<1>2. /\ s.turns \in Seq(Turn) /\ s.seq \in Nat /\ s.counter \in Nat
      /\ s.byId \in [DOMAIN s.byId -> Content] /\ DOMAIN s.byId \subseteq 1..s.counter
      /\ s.bySha \in [Content -> Nat]
  BY DEF SessionOK, StateOK
<1>3. /\ DOMAIN t.byId = DOMAIN s.byId \cup {id}
      /\ t.counter \in Nat /\ s.counter <= t.counter /\ id \in 1..t.counter
      /\ Known(s, c) => id \in DOMAIN s.byId /\ s.byId[id] = c
      /\ ~Known(s, c) => id = s.counter + 1 /\ s.bySha[c] = 0 /\ id \notin DOMAIN s.byId
  <2>1. DOMAIN t.byId = DOMAIN s.byId \cup {id}
    BY <1>1
  <2>2. CASE Known(s, c)
    <3>1. id \in DOMAIN s.byId /\ s.byId[id] = c /\ t.counter = s.counter
      BY <1>1, <2>2 DEF SessionOK, Indexed, IdOf, Known
    <3> QED BY <1>2, <2>1, <2>2, <3>1
  <2>3. CASE ~Known(s, c)
    <3>1. id = s.counter + 1 /\ t.counter = id /\ s.bySha[c] = 0
      BY <1>1, <2>3 DEF IdOf, Known
    <3> HIDE DEF id, t
    <3> QED BY <1>2, <2>1, <2>3, <3>1
  <2> QED BY <2>2, <2>3
<1>4. /\ \A i \in DOMAIN s.byId : t.byId[i] = s.byId[i]
      /\ t.byId[id] = c
  BY <1>1, <1>2, <1>3
<1>5. turn \in Turn
  BY <1>2, <1>3 DEF Turn
<1> SUFFICES SessionOK(t)
  OBVIOUS
<1> HIDE DEF t, id
<1>6. StateOK(t)
  <2>1. t.byId \in [DOMAIN t.byId -> Content] /\ DOMAIN t.byId \subseteq 1..t.counter
    BY <1>1, <1>2, <1>3
  <2> QED BY <1>1, <1>2, <1>3, <1>5, <2>1 DEF SessionOK, StateOK
<1>7. Indexed(t)
  <2>1. \A d \in Content : d # c => t.bySha[d] = s.bySha[d]
    BY <1>1, <1>2
  <2>2. t.bySha[c] = id
    BY <1>1, <1>2
  <2>3. ASSUME NEW i \in DOMAIN t.byId PROVE t.bySha[t.byId[i]] = i
    <3>1. CASE i = id
      BY <3>1, <2>2, <1>4
    <3>2. CASE i # id
      <4>1. i \in DOMAIN s.byId
        BY <3>2, <1>3
      <4>2. s.byId[i] # c
        BY <3>2, <4>1, <1>2, <1>3 DEF SessionOK, Indexed
      <4> QED BY <4>1, <4>2, <2>1, <1>4, <1>2 DEF SessionOK, Indexed
    <3> QED BY <3>1, <3>2
  <2>4. ASSUME NEW d \in Content, t.bySha[d] # 0
        PROVE  t.bySha[d] \in DOMAIN t.byId /\ t.byId[t.bySha[d]] = d
    <3>1. CASE d = c
      BY <3>1, <2>2, <1>3, <1>4
    <3>2. CASE d # c
      BY <3>2, <2>1, <2>4, <1>2, <1>3, <1>4 DEF SessionOK, Indexed
    <3> QED BY <3>1, <3>2
  <2> QED BY <2>3, <2>4 DEF Indexed
<1>8. TurnsResolve(t)
  <2>1. ASSUME NEW n \in DOMAIN t.turns, t.turns[n].kind = "observation"
        PROVE  t.turns[n].id \in DOMAIN t.byId
    <3>1. CASE n \in DOMAIN s.turns
      BY <2>1, <3>1, <1>1, <1>2, <1>3 DEF SessionOK, TurnsResolve
    <3>2. CASE n \notin DOMAIN s.turns
      <4>1. t.turns[n] = turn
        BY <2>1, <3>2, <1>1, <1>2
      <4> QED BY <4>1, <1>3
    <3> QED BY <3>1, <3>2
  <2> QED BY <2>1 DEF TurnsResolve
<1>9. AtomsSourced(t)
  BY <1>1, <1>2, <1>3, <1>4 DEF SessionOK, AtomsSourced, Sourced
<1>10. AtomsDistinct(t) /\ Numbered(t, t.made)
  BY <1>1 DEF SessionOK, AtomsDistinct, Numbered
<1> QED BY <1>1, <1>2, <1>3, <1>6, <1>7, <1>8, <1>9, <1>10 DEF SessionOK

\* A number taken for nothing keeps a session sound.
LEMMA SkippedOK ==
  ASSUME NEW s, SessionOK(s)
  PROVE  SessionOK(WithSkippedId(s))
<1> DEFINE t == WithSkippedId(s)
<1>1. /\ t.seq = s.seq /\ t.counter = s.counter + 1 /\ t.byId = s.byId
      /\ t.bySha = s.bySha /\ t.turns = s.turns /\ t.atoms = s.atoms
      /\ t.made = s.made /\ t.failures = s.failures /\ t.injection = s.injection /\ DOMAIN t = Fields
  BY DEF SessionOK, Fields, WithSkippedId
<1> SUFFICES SessionOK(t)
  OBVIOUS
<1> HIDE DEF t
<1>2. StateOK(t)
  BY <1>1 DEF SessionOK, StateOK
<1>3. /\ Indexed(t) /\ TurnsResolve(t) /\ AtomsSourced(t) /\ AtomsDistinct(t)
      /\ Numbered(t, t.made)
  BY <1>1 DEF SessionOK, Indexed, TurnsResolve, AtomsSourced, AtomsDistinct, Numbered
<1> QED BY <1>1, <1>2, <1>3 DEF SessionOK

\* Scratch.add keeps a session sound.
LEMMA AtomOK ==
  ASSUME NEW s, SessionOK(s), NEW k \in Kinds, NEW num \in Number, NEW src,
         Sourced(s.byId, src, num)
  PROVE  SessionOK(WithAtom(s, k, num, src))
<1> DEFINE t == WithAtom(s, k, num, src)
           atom == [kind |-> k, n |-> s.made[k] + 1, num |-> num, src |-> src]
           last == Len(s.atoms) + 1
           OfKind(d, j) == {m \in DOMAIN d.atoms : d.atoms[m].kind = j}
           Numbers(d, j) == {d.atoms[n].n : n \in OfKind(d, j)}
<1>1. /\ t.seq = s.seq /\ t.counter = s.counter /\ t.byId = s.byId
      /\ t.bySha = s.bySha /\ t.turns = s.turns /\ t.atoms = Append(s.atoms, atom)
      /\ t.made = [s.made EXCEPT ![k] = s.made[k] + 1]
      /\ t.failures = s.failures /\ t.injection = s.injection /\ DOMAIN t = Fields
  BY DEF SessionOK, Fields, WithAtom
<1>2. /\ s.atoms \in Seq(Atom) /\ s.made \in [Kinds -> Nat] /\ s.counter \in Nat
      /\ DOMAIN s.byId \subseteq 1..s.counter
  BY DEF SessionOK, StateOK
<1>3. atom \in Atom
  <2>1. src \in SUBSET Nat
    BY <1>2 DEF Sourced
  <2> QED BY <1>2, <2>1 DEF Atom
<1> SUFFICES SessionOK(t)
  OBVIOUS
<1> HIDE DEF t
<1>4. /\ DOMAIN t.atoms = DOMAIN s.atoms \cup {last} /\ last \notin DOMAIN s.atoms
      /\ \A n \in DOMAIN s.atoms : t.atoms[n] = s.atoms[n]
      /\ t.atoms[last] = atom
      /\ t.atoms \in Seq(Atom)
  BY <1>1, <1>2, <1>3
<1>5. StateOK(t)
  BY <1>1, <1>4 DEF SessionOK, StateOK
<1>6. Indexed(t) /\ TurnsResolve(t)
  BY <1>1 DEF SessionOK, Indexed, TurnsResolve
<1>7. AtomsSourced(t)
  BY <1>1, <1>4 DEF SessionOK, AtomsSourced
<1>8. \A j \in Kinds : Numbers(s, j) = 1..s.made[j]
  BY DEF SessionOK, Numbered
<1>9. AtomsDistinct(t)
  <2>1. \A n \in DOMAIN s.atoms : s.atoms[n].kind = k => s.atoms[n].n # s.made[k] + 1
    <3>1. TAKE n \in DOMAIN s.atoms
    <3>2. s.atoms[n].kind = k => s.atoms[n].n \in Numbers(s, k)
      OBVIOUS
    <3>3. Numbers(s, k) = 1..s.made[k] /\ s.made[k] \in Nat
      BY <1>2, <1>8
    <3> HIDE DEF Numbers
    <3> QED BY <3>2, <3>3
  <2>2. ASSUME NEW m \in DOMAIN t.atoms, NEW n \in DOMAIN t.atoms,
               t.atoms[m].kind = t.atoms[n].kind, t.atoms[m].n = t.atoms[n].n
        PROVE  m = n
    <3>1. CASE m \in DOMAIN s.atoms /\ n \in DOMAIN s.atoms
      BY <2>2, <3>1, <1>4 DEF SessionOK, AtomsDistinct
    <3>2. CASE m \in DOMAIN s.atoms /\ n = last
      BY <2>1, <2>2, <3>2, <1>4
    <3>3. CASE m = last /\ n \in DOMAIN s.atoms
      BY <2>1, <2>2, <3>3, <1>4
    <3>4. CASE m = last /\ n = last
      BY <3>4
    <3> QED BY <2>2, <1>4, <3>1, <3>2, <3>3, <3>4
  <2> QED BY <2>2 DEF AtomsDistinct
<1>10. Numbered(t, t.made)
  <2>1. ASSUME NEW j \in Kinds, j # k PROVE Numbers(t, j) = 1..t.made[j]
    <3>1. OfKind(t, j) = OfKind(s, j)
      BY <2>1, <1>4
    <3>2. Numbers(t, j) = Numbers(s, j)
      BY <3>1, <1>4
    <3>3. t.made[j] = s.made[j]
      BY <2>1, <1>1, <1>2
    <3> QED BY <3>2, <3>3, <1>8
  <2>2. Numbers(t, k) = 1..t.made[k]
    <3>1. OfKind(t, k) = OfKind(s, k) \cup {last}
      BY <1>4
    <3>2. Numbers(t, k) = Numbers(s, k) \cup {s.made[k] + 1}
      BY <3>1, <1>4
    <3>3. t.made[k] = s.made[k] + 1
      BY <1>1, <1>2
    <3>4. Numbers(s, k) = 1..s.made[k] /\ s.made[k] \in Nat
      BY <1>2, <1>8
    <3> HIDE DEF Numbers
    <3> QED BY <3>2, <3>3, <3>4
  <2> QED BY <2>1, <2>2 DEF Numbered
<1> QED BY <1>1, <1>2, <1>5, <1>6, <1>7, <1>9, <1>10 DEF SessionOK

\* The greatest member of a set that has one.
LEMMA GreatestIs ==
  ASSUME NEW S \in SUBSET Nat, NEW m \in S, \A y \in S : y <= m
  PROVE  Greatest(S) = m
<1>1. Greatest(S) \in S /\ \A y \in S : y <= Greatest(S)
  BY DEF Greatest
<1>2. Greatest(S) \in Nat /\ m \in Nat
  BY <1>1
<1>3. Greatest(S) <= m /\ m <= Greatest(S)
  BY <1>1
<1> QED BY <1>2, <1>3

\* load() turns a sound state file into a sound session.
LEMMA LoadOK ==
  ASSUME NEW d, FileOK(d)
  PROVE  SessionOK(FromState(d))
<1> DEFINE t == FromState(d)
           Ids(c) == {i \in DOMAIN d.byId : d.byId[i] = c}
           Numbers(k) == {d.atoms[n].n : n \in {m \in DOMAIN d.atoms : d.atoms[m].kind = k}}
<1>1. /\ t.seq = d.seq /\ t.counter = d.counter /\ t.byId = d.byId
      /\ t.turns = d.turns /\ t.atoms = d.atoms
      /\ t.bySha = [c \in Content |-> Greatest({0} \cup Ids(c))]
      /\ t.made = [k \in Kinds |-> Greatest({0} \cup Numbers(k))]
      /\ t.failures = 0 /\ t.injection = FALSE
  BY DEF FromState
<1>2. DOMAIN t = Fields /\ t.injection \in BOOLEAN
  BY DEF FromState, Fields
<1>3. /\ d.counter \in Nat /\ d.byId \in [DOMAIN d.byId -> Content]
      /\ DOMAIN d.byId \subseteq 1..d.counter /\ OneIdEach(d)
  BY DEF FileOK, Whole, StateOK
<1>4. PICK made \in [Kinds -> Nat] : Numbered(d, made)
  BY DEF FileOK
<1> SUFFICES SessionOK(t)
  OBVIOUS
<1> HIDE DEF t
<1>5. \A i \in DOMAIN d.byId : t.bySha[d.byId[i]] = i
  <2>1. TAKE i \in DOMAIN d.byId
  <2>2. {0} \cup Ids(d.byId[i]) = {0, i}
    BY <1>3 DEF OneIdEach
  <2>3. Greatest({0, i}) = i
    BY <1>3, GreatestIs
  <2>4. d.byId[i] \in Content
    BY <1>3
  <2>5. t.bySha[d.byId[i]] = Greatest({0} \cup Ids(d.byId[i]))
    BY <2>4, <1>1
  <2> QED BY <2>2, <2>3, <2>5
<1>6. \A c \in Content : t.bySha[c] # 0 \/ (\E i \in DOMAIN d.byId : d.byId[i] = c) =>
        t.bySha[c] \in DOMAIN d.byId /\ d.byId[t.bySha[c]] = c
  <2>1. TAKE c \in Content
  <2>2. CASE \E i \in DOMAIN d.byId : d.byId[i] = c
    BY <2>2, <1>5
  <2>3. CASE ~\E i \in DOMAIN d.byId : d.byId[i] = c
    <3>1. {0} \cup Ids(c) = {0}
      BY <2>3, <1>3
    <3>2. Greatest({0}) = 0
      BY GreatestIs
    <3> QED BY <2>3, <3>1, <3>2, <1>1
  <2> QED BY <2>2, <2>3
<1>7. t.bySha \in [Content -> Nat]
  <2>1. \A c \in Content : t.bySha[c] \in Nat
    BY <1>6, <1>3
  <2> QED BY <2>1, <1>1
<1>8. Indexed(t)
  BY <1>1, <1>5, <1>6 DEF Indexed
<1>9. \A k \in Kinds : t.made[k] = made[k]
  <2>1. TAKE k \in Kinds
  <2>2. {0} \cup Numbers(k) = 0..made[k]
    BY <1>4 DEF Numbered
  <2>3. Greatest(0..made[k]) = made[k]
    BY <1>4, GreatestIs
  <2> QED BY <2>2, <2>3, <1>1
<1>10. t.made \in [Kinds -> Nat] /\ Numbered(t, t.made)
  <2>1. t.made \in [Kinds -> Nat]
    BY <1>1, <1>4, <1>9
  <2>2. Numbered(d, t.made)
    BY <1>4, <1>9 DEF Numbered
  <2> QED BY <2>1, <2>2, <1>1 DEF Numbered
<1>11. StateOK(t) /\ TurnsResolve(t) /\ AtomsSourced(t) /\ AtomsDistinct(t)
  BY <1>1 DEF FileOK, Whole, StateOK, TurnsResolve, AtomsSourced, AtomsDistinct
<1> QED BY <1>1, <1>2, <1>7, <1>8, <1>10, <1>11 DEF SessionOK

\* save() writes a sound state file.
LEMMA ExportOK ==
  ASSUME NEW s, SessionOK(s)
  PROVE  FileOK(Export(s))
<1> DEFINE d == Export(s)
<1>1. /\ d.seq = s.seq /\ d.counter = s.counter /\ d.byId = s.byId
      /\ d.turns = s.turns /\ d.atoms = s.atoms
  BY DEF Export
<1> SUFFICES FileOK(d)
  OBVIOUS
<1> HIDE DEF d
<1>2. OneIdEach(d)
  BY <1>1 DEF SessionOK, Indexed, OneIdEach
<1>3. StateOK(d) /\ TurnsResolve(d) /\ AtomsSourced(d) /\ AtomsDistinct(d)
  BY <1>1 DEF SessionOK, StateOK, TurnsResolve, AtomsSourced, AtomsDistinct
<1>4. s.made \in [Kinds -> Nat] /\ Numbered(d, s.made)
  BY <1>1 DEF SessionOK, Numbered
<1> QED BY <1>2, <1>3, <1>4 DEF FileOK, Whole
-----------------------------------------------------------------------------
\* The session and the state file are sound at all times.
THEOREM Inductive == Spec => []IInv
<1>1. Init => IInv
  <2>1. Init => objs \in [Content -> Health]
    BY DEF Init, Health
  <2> QED BY <2>1, FreshOK DEF Init, IInv
<1>2. IInv /\ [Next]_svars => IInv'
  <2>1. SUFFICES ASSUME IInv, [Next]_svars PROVE IInv'
    OBVIOUS
  <2> USE <2>1 DEF IInv
  <2>2. CASE UNCHANGED svars
    BY <2>2 DEF svars
  <2>3. ASSUME NEW m \in Message, Say(m) PROVE IInv'
    BY <2>3, MessageOK DEF Say
  <2>4. ASSUME NEW c \in Content, Observe(c) PROVE IInv'
    <3>1. objs' \in [Content -> Health]
      BY <2>4 DEF Observe, AfterPut, Health
    <3> QED BY <2>4, <3>1, ObservationOK DEF Observe
  <2>12. ASSUME NEW c \in Content, ObserveUncounted(c) PROVE IInv'
    <3>1. objs' \in [Content -> Health]
      BY <2>12 DEF ObserveUncounted, AfterPut, Health
    <3> QED BY <2>12, <3>1, SkippedOK DEF ObserveUncounted
  <2>5. ASSUME NEW k \in Kinds, NEW num \in Number, NEW src \in SUBSET DOMAIN live.byId,
               AddAtom(k, num, src)
        PROVE  IInv'
    BY <2>5, AtomOK DEF AddAtom, Backed
  <2>6. ASSUME NEW f \in Nat, NEW i \in BOOLEAN,
               live' = [live EXCEPT !.failures = f, !.injection = i], UNCHANGED <<objs, saved>>
        PROVE  IInv'
    <3>1. /\ live'.seq = live.seq /\ live'.counter = live.counter /\ live'.byId = live.byId
          /\ live'.bySha = live.bySha /\ live'.turns = live.turns /\ live'.atoms = live.atoms
          /\ live'.made = live.made /\ live'.failures = f /\ live'.injection = i
          /\ DOMAIN live' = Fields
      BY <2>6 DEF SessionOK, Fields
    <3>2. SessionOK(live')
      BY <3>1 DEF SessionOK, StateOK, Indexed, TurnsResolve, AtomsSourced, AtomsDistinct, Numbered
    <3> QED BY <2>6, <3>2
  <2>7. CASE NoteFailure
    <3>1. live.failures + 1 \in Nat /\ live.injection \in BOOLEAN
      BY DEF SessionOK
    <3>2. live' = [live EXCEPT !.failures = live.failures + 1, !.injection = live.injection]
      BY <2>7 DEF NoteFailure, SessionOK, Fields
    <3> QED BY <2>6, <2>7, <3>1, <3>2 DEF NoteFailure
  <2>8. CASE FlagInjection
    <3>1. live.failures \in Nat
      BY DEF SessionOK
    <3>2. live' = [live EXCEPT !.failures = live.failures, !.injection = TRUE]
      BY <2>8 DEF FlagInjection, SessionOK, Fields
    <3> QED BY <2>6, <2>8, <3>1, <3>2 DEF FlagInjection
  <2>9. CASE Save
    BY <2>9, ExportOK DEF Save
  <2>10. CASE Load
    BY <2>10, LoadOK DEF Load
  <2>11. ASSUME NEW c \in Content, Damage(c) PROVE IInv'
    <3>1. objs' \in [Content -> Health]
      BY <2>11 DEF Damage, DamageObject, Health
    <3> QED BY <2>11, <3>1 DEF Damage
  <2> QED BY <2>1, <2>2, <2>3, <2>4, <2>5, <2>7, <2>8, <2>9, <2>10, <2>11, <2>12 DEF Next, Ingest
<1> QED BY <1>1, <1>2, PTL DEF Spec

\* Store, session and state file keep their types.
THEOREM TypeCorrect == Spec => []SessionTypeOK
<1>1. IInv => SessionTypeOK
  BY DEF IInv, SessionOK, FileOK, Whole, SessionTypeOK
<1> QED BY <1>1, Inductive, PTL

\* One id per content and one content per id, over any saves and loads.
THEOREM OneIdPerContent == Spec => []IndexesAgree
<1>1. IInv => IndexesAgree
  BY DEF IInv, SessionOK, StateOK, Indexed, IndexesAgree
<1> QED BY <1>1, Inductive, PTL

\* Every reference resolves, every quoted number has its source, atom ids are
\* unique.
THEOREM ReferencesResolve == Spec => []RefsResolve
<1>1. IInv => RefsResolve
  BY DEF IInv, SessionOK, StateOK, TurnsResolve, AtomsSourced, AtomsDistinct,
         RefsResolve, IsObservation
<1> QED BY <1>1, Inductive, PTL

\* load() never refuses what save() wrote while the store is intact.
THEOREM ResumeIsPossible == Spec => []SavedIsLoadable
<1>1. IInv => SavedIsLoadable
  BY DEF IInv, FileOK, Whole, StateOK, TurnsResolve, AtomsSourced, AtomsDistinct,
         SavedIsLoadable, Loadable
<1> QED BY <1>1, Inductive, PTL

\* A set of positions that is not empty has a first one.
LEMMA FirstOf ==
  ASSUME NEW S \in SUBSET Nat, S # {}
  PROVE  \E n \in S : \A m \in S : ~(m < n)
<1>1. PICK n \in S : \A m \in S : <<m, n>> \notin OpToRel(<, Nat)
  BY NatLessThanWellFounded, WFMin
<1>2. \A m \in S : ~(m < n)
  BY <1>1 DEF OpToRel
<1> QED BY <1>2

\* Whatever was ingested, loaded or damaged, a recent observation that can be
\* read has its first occurrence inline: repeats only ever point back to it.
THEOREM RecentAreInline == Spec => []RecentStaysInline
<1>1. IInv => RecentStaysInline
  <2> SUFFICES ASSUME IInv, NEW id \in Recent(live), objs[live.byId[id]] = "intact"
               PROVE  \E n \in Occurrences(live, id) : Shown(objs, live, n) = "inline"
    BY DEF RecentStaysInline
  <2>1. live.turns \in Seq(Turn) /\ DOMAIN live.turns \subseteq Nat
    BY DEF IInv, SessionOK, StateOK
  <2>2. Occurrences(live, id) # {} /\ Occurrences(live, id) \subseteq Nat
    BY <2>1 DEF Recent, ObservedIds, Occurrences
  <2>3. PICK n \in Occurrences(live, id) : \A m \in Occurrences(live, id) : ~(m < n)
    BY <2>2, FirstOf
  <2>4. live.turns[n].id = id
    BY DEF Occurrences
  <2>5. ~WantMask(live, n)
    BY <2>3, <2>4 DEF WantMask
  <2>6. Shown(objs, live, n) = "inline"
    BY <2>4, <2>5 DEF Shown
  <2> QED BY <2>6
<1> QED BY <1>1, Inductive, PTL
-----------------------------------------------------------------------------
(***************************************************************************)
(* The journal.                                                            *)
(***************************************************************************)
\* A session nobody set a router signal of.
Plain(s) == s = [x \in Fields |-> s[x]] /\ s.failures = 0 /\ s.injection = FALSE

Good(s) == SessionOK(s) /\ Plain(s)

States ==
  {d \in [seq: Nat, counter: Nat, byId: UNION {[D -> Content] : D \in SUBSET Nat},
          turns: Seq(Turn), atoms: Seq(Atom)] : FileOK(d)}

Lines ==
  {Meta, Torn}
    \cup [type: {"say"}, seq: Nat, payload: Message]
    \cup [type: {"observe"}, seq: Nat, payload: [content: Content, id: Nat]]
    \cup [type: {"atom"}, seq: Nat, payload: [kind: Kinds, num: Number, src: SUBSET Nat]]
    \cup [type: {"checkpoint"}, seq: Nat, state: States, own: BOOLEAN]

\* What a line is, by its type.
LineOK(e) ==
  /\ e # Torn => e.seq \in Nat
  /\ \/ e = Torn \/ e = Meta
     \/ e.type = "say" /\ e.payload \in Message
     \/ e.type = "observe" /\ e.payload.content \in Content
     \/ e.type = "atom" /\ e.payload.kind \in Kinds /\ e.payload.num \in Number
     \/ e.type = "checkpoint" /\ FileOK(e.state)

\* A line has what its type says.
LEMMA LineIs ==
  ASSUME NEW e \in Lines
  PROVE  LineOK(e)
<1>1. CASE e \in {Meta, Torn}
  BY <1>1 DEF LineOK, Meta, Torn
<1>2. CASE e \in [type: {"say"}, seq: Nat, payload: Message]
  BY <1>2 DEF LineOK
<1>3. CASE e \in [type: {"observe"}, seq: Nat, payload: [content: Content, id: Nat]]
  BY <1>3 DEF LineOK
<1>4. CASE e \in [type: {"atom"}, seq: Nat, payload: [kind: Kinds, num: Number, src: SUBSET Nat]]
  BY <1>4 DEF LineOK
<1>5. CASE e \in [type: {"checkpoint"}, seq: Nat, state: States, own: BOOLEAN]
  BY <1>5 DEF LineOK, States
<1> QED BY <1>1, <1>2, <1>3, <1>4, <1>5 DEF Lines

\* Ingestion keeps the signals unset, load() resets them.
LEMMA GoodSteps ==
  ASSUME NEW s, Good(s)
  PROVE  /\ \A m \in Message : Good(WithMessage(s, m))
         /\ \A c \in Content : Good(WithObservation(s, c))
         /\ Good(WithSkippedId(s))
         /\ \A k \in Kinds, num \in Number : \A src :
              Sourced(s.byId, src, num) => Good(WithAtom(s, k, num, src))
<1>1. SessionOK(s) /\ Plain(s)
  BY DEF Good
<1>2. \A m : Plain(WithMessage(s, m))
  BY <1>1 DEF Plain, Fields, WithMessage
<1>3. ASSUME NEW c PROVE Plain(WithObservation(s, c))
  <2> DEFINE t == WithObservation(s, c)
  <2>1. t = [x \in DOMAIN s |-> t[x]] /\ DOMAIN s = Fields
    BY <1>1 DEF SessionOK, WithObservation
  <2>2. t.failures = s.failures /\ t.injection = s.injection
    BY <1>1 DEF SessionOK, Fields, WithObservation
  <2> HIDE DEF t
  <2>3. Plain(t)
    BY <1>1, <2>1, <2>2 DEF Plain
  <2> QED BY <2>3 DEF t
<1>4. ASSUME NEW k, NEW num, NEW src PROVE Plain(WithAtom(s, k, num, src))
  <2> DEFINE t == WithAtom(s, k, num, src)
  <2>1. t = [x \in DOMAIN s |-> t[x]] /\ DOMAIN s = Fields
    BY <1>1 DEF SessionOK, WithAtom
  <2>2. t.failures = s.failures /\ t.injection = s.injection
    BY <1>1 DEF SessionOK, Fields, WithAtom
  <2> HIDE DEF t
  <2>3. Plain(t)
    BY <1>1, <2>1, <2>2 DEF Plain
  <2> QED BY <2>3 DEF t
<1>5. Plain(WithSkippedId(s))
  BY <1>1 DEF Plain, Fields, WithSkippedId
<1> QED BY <1>1, <1>2, <1>3, <1>4, <1>5, MessageOK, ObservationOK, AtomOK, SkippedOK DEF Good

\* A session load() builds has no signal set.
LEMMA GoodLoad ==
  ASSUME NEW d, FileOK(d)
  PROVE  Good(FromState(d))
<1>1. Plain(FromState(d))
  BY DEF Plain, Fields, FromState
<1> QED BY <1>1, LoadOK DEF Good

\* Nor has a new one.
LEMMA GoodFresh == Good(FreshSession)
<1>1. Plain(FreshSession)
  BY DEF Plain, Fields, FreshSession
<1> QED BY <1>1, FreshOK DEF Good

\* What save() leaves out of a session without signals, load() computes back.
LEMMA LoadExport ==
  ASSUME NEW s, Good(s)
  PROVE  FromState(Export(s)) = s
<1> DEFINE d == Export(s)
           t == FromState(d)
           Ids(c) == {i \in DOMAIN d.byId : d.byId[i] = c}
           Numbers(k) == {d.atoms[n].n : n \in {m \in DOMAIN d.atoms : d.atoms[m].kind = k}}
<1>1. /\ d.seq = s.seq /\ d.counter = s.counter /\ d.byId = s.byId
      /\ d.turns = s.turns /\ d.atoms = s.atoms
  BY DEF Export
<1>2. /\ t.seq = s.seq /\ t.counter = s.counter /\ t.byId = s.byId
      /\ t.turns = s.turns /\ t.atoms = s.atoms
      /\ t.bySha = [c \in Content |-> Greatest({0} \cup Ids(c))]
      /\ t.made = [k \in Kinds |-> Greatest({0} \cup Numbers(k))]
      /\ t.failures = 0 /\ t.injection = FALSE
  BY <1>1 DEF FromState
<1>10. t = [x \in Fields |-> t[x]]
  BY DEF FromState, Fields
<1>3. SessionOK(s) /\ Plain(s)
  BY DEF Good
<1>4. /\ s.counter \in Nat /\ DOMAIN s.byId \subseteq 1..s.counter
      /\ s.bySha \in [Content -> Nat] /\ s.made \in [Kinds -> Nat]
  BY <1>3 DEF SessionOK, StateOK
<1> HIDE DEF d, t
<1>5. ASSUME NEW c \in Content
      PROVE  Greatest({0} \cup Ids(c)) = s.bySha[c]
  <2>1. \A i \in Ids(c) : i = s.bySha[c]
    BY <1>1, <1>3, <1>4 DEF SessionOK, Indexed
  <2>2. s.bySha[c] # 0 => s.bySha[c] \in Ids(c)
    BY <1>1, <1>3, <1>4 DEF SessionOK, Indexed
  <2>3. {0} \cup Ids(c) = {0, s.bySha[c]}
    BY <2>1, <2>2, <1>1, <1>4
  <2>4. s.bySha[c] \in Nat
    BY <1>4
  <2>5. Greatest({0, s.bySha[c]}) = s.bySha[c]
    BY <2>4, GreatestIs
  <2> QED BY <2>3, <2>5
<1>6. ASSUME NEW k \in Kinds
      PROVE  Greatest({0} \cup Numbers(k)) = s.made[k]
  <2>1. Numbers(k) = 1..s.made[k] /\ s.made[k] \in Nat
    BY <1>1, <1>3, <1>4 DEF SessionOK, Numbered
  <2> HIDE DEF Numbers
  <2>2. {0} \cup Numbers(k) = 0..s.made[k]
    BY <2>1
  <2>3. Greatest(0..s.made[k]) = s.made[k]
    BY <2>1, GreatestIs
  <2> QED BY <2>2, <2>3
<1>7. s.bySha = [c \in Content |-> Greatest({0} \cup Ids(c))]
  BY <1>4, <1>5
<1>8. s.made = [k \in Kinds |-> Greatest({0} \cup Numbers(k))]
  BY <1>4, <1>6
<1>9. t = s
  <2>1. \A x \in Fields : t[x] = s[x]
    BY <1>2, <1>3, <1>7, <1>8 DEF Plain, Fields
  <2>2. s = [x \in Fields |-> s[x]]
    BY <1>3 DEF Plain
  <2> QED BY <2>1, <2>2, <1>10
<1> QED BY <1>9 DEF t, d

\* f[m] is what the first m lines make of r.
Trace(f, r, lines, n) ==
  f = [m \in 0..n |-> IF m = 0 THEN r ELSE Replay(f[m - 1], lines[m])]

\* There is a trace of every length.
LEMMA TraceExists ==
  ASSUME NEW r, NEW lines, NEW len \in Nat
  PROVE  \E f : Trace(f, r, lines, len)
<1> DEFINE Bad == {n \in Nat : ~ \E f : Trace(f, r, lines, n)}
<1> SUFFICES ASSUME Bad # {} PROVE FALSE
  OBVIOUS
<1>1. PICK n \in Bad : \A m \in Bad : ~(m < n)
  <2>1. Bad \in SUBSET Nat
    OBVIOUS
  <2> HIDE DEF Bad
  <2> QED BY <2>1, FirstOf
<1>2. n \in Nat /\ ~ \E f : Trace(f, r, lines, n)
  OBVIOUS
<1>3. CASE n = 0
  <2> DEFINE f == [m \in 0..0 |-> r]
  <2>1. f = [m \in 0..0 |-> IF m = 0 THEN r ELSE Replay(f[m - 1], lines[m])]
    OBVIOUS
  <2> QED BY <1>2, <1>3, <2>1 DEF Trace
<1>4. CASE n # 0
  <2>1. n - 1 \in Nat /\ n - 1 < n
    BY <1>2, <1>4
  <2>2. PICK g : Trace(g, r, lines, n - 1)
    <3>1. n - 1 \notin Bad
      BY <1>1, <2>1
    <3> QED BY <2>1, <3>1
  <2> DEFINE last == Replay(g[n - 1], lines[n])
             f == [m \in 0..n |-> IF m = n THEN last ELSE g[m]]
  <2>3. \A m \in 0..n - 1 : g[m] = IF m = 0 THEN r ELSE Replay(g[m - 1], lines[m])
    BY <2>2 DEF Trace
  <2>4. ASSUME NEW m \in 0..n
        PROVE  f[m] = IF m = 0 THEN r ELSE Replay(f[m - 1], lines[m])
    <3>1. CASE m = n
      <4>1. f[m] = last /\ f[m - 1] = g[m - 1] /\ m # 0
        BY <1>2, <1>4, <2>1, <3>1
      <4> QED BY <3>1, <4>1
    <3>2. CASE m # n
      <4>1. m \in 0..n - 1
        BY <1>2, <3>2
      <4>2. f[m] = g[m]
        BY <3>2
      <4>3. m # 0 => f[m - 1] = g[m - 1]
        BY <1>2, <4>1
      <4> QED BY <2>3, <4>1, <4>2, <4>3
    <3> QED BY <3>1, <3>2
  <2>5. f = [m \in 0..n |-> f[m]]
    OBVIOUS
  <2> HIDE DEF f
  <2>6. Trace(f, r, lines, n)
    BY <2>4, <2>5 DEF Trace
  <2> QED BY <1>2, <2>6
<1> QED BY <1>3, <1>4

\* The states the replay of some lines goes through.
LEMMA ReplayTrace ==
  ASSUME NEW r, NEW lines, Len(lines) \in Nat
  PROVE  \E f : /\ f[0] = r
                /\ \A n \in 1..Len(lines) : f[n] = Replay(f[n - 1], lines[n])
                /\ ReplayAll(r, lines) = f[Len(lines)]
<1> DEFINE after[n \in 0..Len(lines)] ==
             IF n = 0 THEN r ELSE Replay(after[n - 1], lines[n])
<1>1. PICK f : Trace(f, r, lines, Len(lines))
  BY TraceExists
<1>6. f = [n \in 0..Len(lines) |-> IF n = 0 THEN r ELSE Replay(f[n - 1], lines[n])]
  BY <1>1 DEF Trace
<1>2. after = [n \in 0..Len(lines) |-> IF n = 0 THEN r ELSE Replay(after[n - 1], lines[n])]
  BY <1>6
<1>3. ReplayAll(r, lines) = after[Len(lines)]
  BY DEF ReplayAll
<1> HIDE DEF after
<1>4. after[0] = r
  BY <1>2
<1>5. \A n \in 1..Len(lines) : after[n] = Replay(after[n - 1], lines[n])
  BY <1>2
<1> QED BY <1>3, <1>4, <1>5

\* The greatest member of a set of positions.
LEMMA GreatestExists ==
  ASSUME NEW n \in Nat, NEW S \in SUBSET (1..n), S # {}
  PROVE  Greatest(S) \in S /\ \A y \in S : y <= Greatest(S)
<1> DEFINE Mirror == {n - x : x \in S}
<1>1. Mirror \in SUBSET Nat /\ Mirror # {}
  <2>1. \A x \in S : n - x \in Nat
    OBVIOUS
  <2> QED BY <2>1
<1>2. PICK m \in Mirror : \A k \in Mirror : ~(k < m)
  <2> HIDE DEF Mirror
  <2> QED BY <1>1, FirstOf
<1>3. PICK x \in S : m = n - x
  OBVIOUS
<1>4. \A y \in S : y <= x
  <2> TAKE y \in S
  <2>1. ~(n - y < n - x)
    BY <1>2, <1>3
  <2> QED BY <2>1
<1>5. \E g \in S : \A y \in S : y <= g
  BY <1>4
<1> QED BY <1>5 DEF Greatest

\* Where restore() starts: the meta line or a checkpoint within the limit, no
\* such checkpoint standing behind it.
LEMMA BaseIs ==
  ASSUME NEW j, Len(j) \in Nat \ {0}, DOMAIN j = 1..Len(j), NEW limit
  PROVE  LET b == BaseIndex(j, limit) IN
         /\ b \in 1..Len(j)
         /\ b # 1 => j[b].type = "checkpoint" /\ j[b].seq <= limit
         /\ \A i \in 1..Len(j) : j[i].type = "checkpoint" /\ j[i].seq <= limit => i <= b
<1> DEFINE S == {1} \cup {i \in DOMAIN j : j[i].type = "checkpoint" /\ j[i].seq <= limit}
<1>1. S \in SUBSET (1..Len(j)) /\ S # {}
  OBVIOUS
<1>2. Greatest(S) \in S /\ \A y \in S : y <= Greatest(S)
  <2> HIDE DEF S
  <2> QED BY <1>1, GreatestExists
<1>3. BaseIndex(j, limit) = Greatest(S)
  BY DEF BaseIndex
<1>4. BaseIndex(j, limit) \in S /\ \A y \in S : y <= BaseIndex(j, limit)
  BY <1>2, <1>3
<1> QED BY <1>4

\* The lines it replays are those up to position t, all within the limit; all
\* that follow when none is numbered beyond it.
ReplayedTo(j, limit, t) ==
  /\ t \in BaseIndex(j, limit)..Len(j)
  /\ Replayed(j, limit) = SubSeq(j, BaseIndex(j, limit) + 1, t)
  /\ \A i \in BaseIndex(j, limit) + 1..t : ~(j[i].seq > limit)
  /\ (\A i \in BaseIndex(j, limit) + 1..Len(j) : ~(j[i].seq > limit)) => t = Len(j)

LEMMA ReplayedIs ==
  ASSUME NEW j, Len(j) \in Nat \ {0}, DOMAIN j = 1..Len(j), NEW limit
  PROVE  \E t : ReplayedTo(j, limit, t)
<1> DEFINE b == BaseIndex(j, limit)
           later == {i \in b + 1..Len(j) : j[i].seq > limit}
           first == CHOOSE i \in later : \A k \in later : i <= k
           stop == IF later = {} THEN Len(j) ELSE first - 1
<1>1. b \in 1..Len(j)
  BY BaseIs
<1>2. Replayed(j, limit) = SubSeq(j, b + 1, stop)
  BY DEF Replayed
<1>3. CASE later = {}
  <2>1. ReplayedTo(j, limit, Len(j))
    <3>1. \A i \in b + 1..Len(j) : ~(j[i].seq > limit)
      BY <1>3
    <3>2. stop = Len(j) /\ Len(j) \in b..Len(j)
      BY <1>1, <1>3
    <3> QED BY <1>2, <3>1, <3>2 DEF ReplayedTo
  <2> QED BY <2>1
<1>4. CASE later # {}
  <2>1. later \in SUBSET Nat
    BY <1>1
  <2>2. first \in later /\ \A k \in later : first <= k
    <3>1. PICK n \in later : \A m \in later : ~(m < n)
      <4> HIDE DEF later
      <4> QED BY <1>4, <2>1, FirstOf
    <3>2. \A m \in later : n <= m
      BY <3>1, <2>1
    <3> HIDE DEF later
    <3> QED BY <3>1, <3>2
  <2> HIDE DEF first
  <2>3. first \in b + 1..Len(j) /\ j[first].seq > limit
    BY <2>2
  <2>4. first - 1 \in b..Len(j) /\ stop = first - 1
    BY <1>1, <1>4, <2>3
  <2>5. \A i \in b + 1..first - 1 : ~(j[i].seq > limit)
    BY <1>1, <2>2, <2>3
  <2>6. ReplayedTo(j, limit, first - 1)
    <3> HIDE DEF stop, later
    <3> QED BY <1>2, <2>3, <2>4, <2>5 DEF ReplayedTo
  <2> QED BY <2>6
<1> QED BY <1>3, <1>4

\* Every observation of s can be read in the store o.
Held(o, s) == \A i \in DOMAIN s.byId : o[s.byId[i]] = "intact"

\* What a replay holds at any point, whether or not it has raised.
Sound(r) ==
  /\ DOMAIN r = {"ok", "s", "objs"}
  /\ r.ok \in BOOLEAN
  /\ r.objs \in [Content -> Health]
  /\ Good(r.s) /\ Held(r.objs, r.s)

\* An observation gives its content an id, the next one if it is new, and keeps
\* the others.
LEMMA ObservationIs ==
  ASSUME NEW s, SessionOK(s), NEW c \in Content
  PROVE  LET t == WithObservation(s, c) IN
         /\ t.bySha[c] = IdOf(s, c) /\ t.byId[IdOf(s, c)] = c
         /\ DOMAIN t.byId = DOMAIN s.byId \cup {IdOf(s, c)}
         /\ \A i \in DOMAIN s.byId : t.byId[i] = s.byId[i]
         /\ \A i \in DOMAIN t.byId : t.byId[i] = c \/ (i \in DOMAIN s.byId /\ t.byId[i] = s.byId[i])
         /\ t.seq = s.seq + 1 /\ t.atoms = s.atoms
         /\ Known(s, c) => IdOf(s, c) \in DOMAIN s.byId /\ t.counter = s.counter
         /\ ~Known(s, c) => IdOf(s, c) = s.counter + 1 /\ t.counter = s.counter + 1
<1> DEFINE t == WithObservation(s, c)
           id == IdOf(s, c)
<1>1. /\ t.counter = IF Known(s, c) THEN s.counter ELSE id
      /\ t.byId = [i \in DOMAIN s.byId \cup {id} |-> IF i = id THEN c ELSE s.byId[i]]
      /\ t.bySha = [s.bySha EXCEPT ![c] = id]
      /\ t.seq = s.seq + 1 /\ t.atoms = s.atoms
  BY DEF SessionOK, Fields, WithObservation
<1>2. s.counter \in Nat /\ s.bySha \in [Content -> Nat]
  BY DEF SessionOK, StateOK
<1>3. /\ Known(s, c) => id \in DOMAIN s.byId /\ s.byId[id] = c
      /\ ~Known(s, c) => id = s.counter + 1
  BY DEF SessionOK, Indexed, IdOf, Known
<1> HIDE DEF t, id
<1>4. \A i \in DOMAIN s.byId : t.byId[i] = s.byId[i]
  BY <1>1, <1>2, <1>3 DEF SessionOK, StateOK
<1>5. \A i \in DOMAIN t.byId : t.byId[i] = c \/ (i \in DOMAIN s.byId /\ t.byId[i] = s.byId[i])
  BY <1>1
<1>6. t.bySha[c] = id /\ t.byId[id] = c /\ DOMAIN t.byId = DOMAIN s.byId \cup {id}
  BY <1>1, <1>2
<1> QED BY <1>1, <1>2, <1>3, <1>4, <1>5, <1>6 DEF t, id

\* Replaying a line, whatever it is, keeps a replay sound.
LEMMA ReplayKeeps ==
  ASSUME NEW r, Sound(r), NEW e, LineOK(e)
  PROVE  Sound(Replay(r, e))
<1> DEFINE q == Replay(r, e)
<1>1. /\ DOMAIN r = {"ok", "s", "objs"} /\ r.ok \in BOOLEAN
      /\ r.objs \in [Content -> Health] /\ Good(r.s) /\ Held(r.objs, r.s)
  BY DEF Sound
<1>2. SessionOK(r.s)
  BY <1>1 DEF Good
<1>10. /\ e.type = "say" => e.payload \in Message
       /\ e.type = "observe" => e.payload.content \in Content
       /\ e.type = "atom" => e.payload.kind \in Kinds /\ e.payload.num \in Number
       /\ e.type = "checkpoint" => FileOK(e.state)
  BY DEF LineOK, Torn, Meta
<1>3. CASE q \in {r, [r EXCEPT !.ok = FALSE]}
  <2>1. /\ DOMAIN q = {"ok", "s", "objs"} /\ q.ok \in BOOLEAN
        /\ q.objs = r.objs /\ q.s = r.s
    BY <1>1, <1>3
  <2> HIDE DEF q
  <2>2. Sound(q)
    BY <1>1, <2>1 DEF Sound
  <2> QED BY <2>2 DEF q
<1>4. ASSUME NEW t, q = [r EXCEPT !.s = t], Good(t), Held(r.objs, t)
      PROVE  Sound(q)
  <2>1. /\ DOMAIN q = {"ok", "s", "objs"} /\ q.ok \in BOOLEAN
        /\ q.objs = r.objs /\ q.s = t
    BY <1>1, <1>4
  <2> HIDE DEF q
  <2> QED BY <1>1, <1>4, <2>1 DEF Sound
<1>5. CASE r.ok /\ e.type = "say"
  <2>1. q = [r EXCEPT !.s = WithMessage(r.s, e.payload)] /\ e.payload \in Message
    BY <1>1, <1>5, <1>10 DEF Replay
  <2>2. Good(WithMessage(r.s, e.payload))
    BY <1>1, <2>1, GoodSteps
  <2>3. Held(r.objs, WithMessage(r.s, e.payload))
    BY <1>1, <1>2 DEF Held, WithMessage, SessionOK, Fields
  <2> QED BY <1>4, <2>1, <2>2, <2>3
<1>6. CASE r.ok /\ e.type = "observe"
  <2> DEFINE c == e.payload.content
             t == WithObservation(r.s, c)
  <2>1. /\ c \in Content
        /\ q = IF Putable(r.objs, c) /\ t.bySha[c] = e.payload.id
               THEN [r EXCEPT !.s = t, !.objs = AfterPut(r.objs, c)]
               ELSE [r EXCEPT !.ok = FALSE]
    BY <1>1, <1>6, <1>10 DEF Replay
  <2>2. CASE q = [r EXCEPT !.s = t, !.objs = AfterPut(r.objs, c)]
    <3>1. Good(t)
      BY <1>1, <2>1, GoodSteps
    <3>2. /\ AfterPut(r.objs, c) \in [Content -> Health]
          /\ \A d \in Content : d = c \/ r.objs[d] = "intact" => AfterPut(r.objs, c)[d] = "intact"
      BY <1>1, <2>1 DEF AfterPut, Health
    <3>3. \A i \in DOMAIN t.byId : t.byId[i] = c \/ (i \in DOMAIN r.s.byId /\ t.byId[i] = r.s.byId[i])
      BY <1>2, <2>1, ObservationIs
    <3>4. t.byId \in [DOMAIN t.byId -> Content] /\ r.s.byId \in [DOMAIN r.s.byId -> Content]
      BY <1>2, <3>1 DEF Good, SessionOK, StateOK
    <3>5. /\ DOMAIN q = {"ok", "s", "objs"} /\ q.ok \in BOOLEAN
          /\ q.objs = AfterPut(r.objs, c) /\ q.s = t
      BY <1>1, <2>2
    <3> HIDE DEF q, t
    <3>6. Held(AfterPut(r.objs, c), t)
      BY <1>1, <3>2, <3>3, <3>4 DEF Held
    <3>7. Sound(q)
      BY <3>1, <3>2, <3>5, <3>6 DEF Sound
    <3> QED BY <3>7 DEF q
  <2> QED BY <1>3, <2>1, <2>2
<1>7. CASE r.ok /\ e.type = "atom"
  <2> DEFINE a == e.payload
             t == WithAtom(r.s, a.kind, a.num, a.src)
  <2>1. /\ a.kind \in Kinds /\ a.num \in Number
        /\ q = IF Backed(r.objs, r.s, a.src, a.num) THEN [r EXCEPT !.s = t]
               ELSE [r EXCEPT !.ok = FALSE]
    BY <1>1, <1>7, <1>10 DEF Replay
  <2>2. CASE Backed(r.objs, r.s, a.src, a.num)
    <3>1. Good(t)
      BY <1>1, <2>1, <2>2, GoodSteps DEF Backed
    <3>2. Held(r.objs, t)
      BY <1>1, <1>2 DEF Held, WithAtom, SessionOK, Fields
    <3> QED BY <1>4, <2>1, <2>2, <3>1, <3>2
  <2> QED BY <1>3, <2>1, <2>2
<1>8. CASE r.ok /\ e.type = "checkpoint"
  <2> DEFINE t == FromState(e.state)
  <2>1. /\ FileOK(e.state)
        /\ q = IF ~e.own /\ Loadable(r.objs, e.state)
               THEN [r EXCEPT !.s = t]
               ELSE [r EXCEPT !.ok = FALSE]
    BY <1>1, <1>8, <1>10 DEF Replay
  <2>2. CASE ~e.own /\ Loadable(r.objs, e.state)
    <3>1. Good(t)
      BY <2>1, GoodLoad
    <3>2. t.byId = e.state.byId
      BY DEF FromState
    <3> HIDE DEF t
    <3>4. Held(r.objs, t)
      BY <2>2, <3>2 DEF Held, Loadable
    <3> QED BY <1>4, <2>1, <2>2, <3>1, <3>4 DEF t
  <2> QED BY <1>3, <2>1, <2>2
<1>9. CASE ~r.ok \/ e.type \notin {"say", "observe", "atom", "checkpoint"}
  <2>1. q = r
    BY <1>1, <1>9 DEF Replay
  <2> QED BY <1>3, <2>1
<1> QED BY <1>1, <1>5, <1>6, <1>7, <1>8, <1>9

\* A journal's lines from the base on, one by one.
LEMMA LinesFrom ==
  ASSUME NEW j, j \in Seq(Lines), NEW b \in 1..Len(j), NEW t \in b..Len(j)
  PROVE  /\ Len(SubSeq(j, b + 1, t)) = t - b
         /\ \A n \in 1..t - b : SubSeq(j, b + 1, t)[n] = j[b + n] /\ b + n \in 1..Len(j)
OBVIOUS

\* The replay starts from nothing, soundly.
LEMMA NothingSound ==
  ASSUME NEW o, o \in [Content -> Health]
  PROVE  /\ Sound(Nothing(o)) /\ Nothing(o).ok /\ Nothing(o).s = FreshSession
         /\ Nothing(o).objs = o
<1> DEFINE r == Nothing(o)
<1>1. DOMAIN r = {"ok", "s", "objs"} /\ r.ok = TRUE /\ r.objs = o /\ r.s = FreshSession
  BY DEF Nothing
<1>2. DOMAIN FreshSession.byId = {}
  BY DEF FreshSession
<1> HIDE DEF r
<1>3. Held(o, FreshSession)
  BY <1>2 DEF Held
<1>4. Sound(r)
  BY <1>1, <1>3, GoodFresh DEF Sound
<1> QED BY <1>1, <1>4 DEF r

\* Whatever stands in the journal, what restore() builds is sound.
LEMMA RestoreSound ==
  ASSUME NEW o, o \in [Content -> Health], NEW j, j \in Seq(Lines), Len(j) # 0, NEW limit
  PROVE  Sound(Restore(j, o, limit))
<1> DEFINE b == BaseIndex(j, limit)
           start == Replay(Nothing(o), j[b])
<1>1. Len(j) \in Nat \ {0} /\ DOMAIN j = 1..Len(j) /\ \A i \in 1..Len(j) : LineOK(j[i])
  BY LineIs
<1>2. b \in 1..Len(j)
  BY <1>1, BaseIs
<1>3. PICK t : ReplayedTo(j, limit, t)
  BY <1>1, ReplayedIs
<1> DEFINE lines == SubSeq(j, b + 1, t)
<1>4. Replayed(j, limit) = lines /\ t \in b..Len(j)
  BY <1>3 DEF ReplayedTo
<1>5. Sound(Nothing(o))
  BY NothingSound
<1>6. Sound(start)
  BY <1>1, <1>2, <1>5, ReplayKeeps
<1>7. /\ Len(lines) \in Nat
      /\ \A n \in 1..Len(lines) : LineOK(lines[n])
  BY <1>1, <1>2, <1>4, LinesFrom
<1>8. Restore(j, o, limit) = ReplayAll(start, lines)
  BY <1>4 DEF Restore
<1> HIDE DEF start, lines, b
<1>9. PICK f : /\ f[0] = start
               /\ \A n \in 1..Len(lines) : f[n] = Replay(f[n - 1], lines[n])
               /\ ReplayAll(start, lines) = f[Len(lines)]
  BY <1>7, ReplayTrace
<1> DEFINE Bad == {n \in 0..Len(lines) : ~Sound(f[n])}
<1>10. Bad = {}
  <2> SUFFICES ASSUME Bad # {} PROVE FALSE
    OBVIOUS
  <2>1. PICK n \in Bad : \A m \in Bad : ~(m < n)
    <3>1. Bad \in SUBSET Nat
      BY <1>7
    <3> HIDE DEF Bad
    <3> QED BY <3>1, FirstOf
  <2>2. n \in 0..Len(lines) /\ ~Sound(f[n])
    OBVIOUS
  <2>3. n # 0
    BY <1>6, <1>9, <2>2
  <2>4. n \in 1..Len(lines) /\ n - 1 \in 0..Len(lines) /\ n - 1 < n
    BY <1>7, <2>2, <2>3
  <2>5. Sound(f[n - 1])
    BY <2>1, <2>4
  <2> HIDE DEF Bad
  <2>6. Sound(f[n])
    BY <1>7, <1>9, <2>4, <2>5, ReplayKeeps
  <2> QED BY <2>2, <2>6
<1>11. Sound(f[Len(lines)])
  BY <1>7, <1>10
<1> QED BY <1>8, <1>9, <1>11

\* Session t is s after some ingestion: nothing s holds is lost or changed, new
\* observations have higher numbers, and without a new turn there are none.
Grows(s, t) ==
  /\ s.seq <= t.seq
  /\ DOMAIN s.byId \subseteq DOMAIN t.byId
  /\ \A i \in DOMAIN s.byId : t.byId[i] = s.byId[i]
  /\ \A i \in DOMAIN t.byId \ DOMAIN s.byId : \A k \in DOMAIN s.byId : k < i
  /\ Len(s.atoms) <= Len(t.atoms)
  /\ \A n \in 1..Len(s.atoms) : t.atoms[n] = s.atoms[n]
  /\ s.seq = t.seq => s.turns = t.turns /\ s.byId = t.byId

\* The two sessions are the same but for numbers skipped.
Agree(s, t) == \A x \in Fields \ {"counter"} : s[x] = t[x]

\* Line e is a checkpoint of session t.
Marks(e, t) == \E o \in BOOLEAN : e = Snapshot(t, o)

\* Line e tells the step of the session from s to t.
Step(e, s, t) ==
  /\ e.seq = t.seq
  /\ \/ e.type = "say" /\ e.payload \in Message /\ t = WithMessage(s, e.payload)
     \/ /\ e.type = "observe" /\ e.payload.content \in Content
        /\ t = WithObservation(s, e.payload.content)
        /\ e.payload.id = t.bySha[e.payload.content]
     \/ /\ e.type = "atom" /\ e.payload.kind \in Kinds /\ e.payload.num \in Number
        /\ Sourced(s.byId, e.payload.src, e.payload.num)
        /\ t = WithAtom(s, e.payload.kind, e.payload.num, e.payload.src)
     \/ e.type = "checkpoint" /\ Marks(e, t) /\ t = s

\* The same, from s with other numbers skipped.
Tells(e, s, t) == \E u : Good(u) /\ Agree(u, s) /\ Step(e, u, t)

\* What a checkpoint knows of numbers given out is never taken back: those of
\* later observations are beyond it.
Counted(h, j, s) ==
  \A i \in 2..Len(j) : j[i].type = "checkpoint" =>
    /\ h[i].counter <= s.counter
    /\ \A k \in i..Len(j) : h[i].counter <= h[k].counter
    /\ \A n \in DOMAIN s.byId \ DOMAIN h[i].byId : h[i].counter < n

\* h is a history of session s that journal j is the record of: h[i] is the
\* session after line i.  Only the first line behind the meta line may be the
\* checkpoint of a session with an unrecorded past, which compact() left there.
\* Numbers skipped leave no record.
HistoryOf(h, j, s) ==
  /\ h[1] = FreshSession
  /\ Agree(h[Len(j)], s)
  /\ \A i \in 2..Len(j) :
       /\ Good(h[i])
       /\ Tells(j[i], h[i - 1], h[i]) \/ (i = 2 /\ Marks(j[2], h[2]))
  /\ \A i \in 2..Len(j) : \A k \in i..Len(j) : Grows(h[i], h[k])
  /\ Counted(h, j, s)

\* A straight journal that can be read records the session in memory; one that
\* cannot is never written to or restored from again.
Recorded ==
  Straight => IF Unreadable(journal) THEN ~up ELSE \E h : HistoryOf(h, journal, live)

\* The counters of a session are numbers.
LEMMA Sizes ==
  ASSUME NEW s, SessionOK(s)
  PROVE  /\ s.seq \in Nat /\ s.counter \in Nat /\ Len(s.atoms) \in Nat
         /\ DOMAIN s.byId \subseteq 1..s.counter
BY DEF SessionOK, StateOK

\* A session holds what it holds.
LEMMA GrowsReflexive ==
  ASSUME NEW s, SessionOK(s)
  PROVE  Grows(s, s)
<1>1. s.seq \in Nat /\ Len(s.atoms) \in Nat
  BY Sizes
<1> QED BY <1>1 DEF Grows

\* What is kept by two steps is kept by both.
LEMMA GrowsTransitive ==
  ASSUME NEW s, NEW t, NEW u, SessionOK(s), SessionOK(t), SessionOK(u),
         Grows(s, t), Grows(t, u)
  PROVE  Grows(s, u)
<1>1. /\ s.seq \in Nat /\ Len(s.atoms) \in Nat /\ DOMAIN s.byId \subseteq Nat
      /\ t.seq \in Nat /\ Len(t.atoms) \in Nat /\ DOMAIN t.byId \subseteq Nat
      /\ u.seq \in Nat /\ Len(u.atoms) \in Nat /\ DOMAIN u.byId \subseteq Nat
  BY Sizes
<1>2. s.seq <= u.seq /\ Len(s.atoms) <= Len(u.atoms) /\ DOMAIN s.byId \subseteq DOMAIN u.byId
  BY <1>1 DEF Grows
<1>3. \A i \in DOMAIN s.byId : u.byId[i] = s.byId[i]
  BY DEF Grows
<1>4. \A n \in 1..Len(s.atoms) : u.atoms[n] = s.atoms[n]
  BY <1>1 DEF Grows
<1>5. s.seq = u.seq => s.turns = u.turns /\ s.byId = u.byId
  <2> HAVE s.seq = u.seq
  <2>1. s.seq = t.seq /\ t.seq = u.seq
    BY <1>1 DEF Grows
  <2> QED BY <2>1 DEF Grows
<1>6. \A i \in DOMAIN u.byId \ DOMAIN s.byId : \A k \in DOMAIN s.byId : k < i
  BY DEF Grows
<1> QED BY <1>2, <1>3, <1>4, <1>5, <1>6 DEF Grows

\* Growing does not depend on numbers skipped.
LEMMA GrowsAgree ==
  ASSUME NEW s, NEW t, NEW u, NEW v, Agree(s, u), Agree(t, v), Grows(u, v)
  PROVE  Grows(s, t)
<1>1. /\ s.seq = u.seq /\ s.byId = u.byId /\ s.atoms = u.atoms /\ s.turns = u.turns
      /\ t.seq = v.seq /\ t.byId = v.byId /\ t.atoms = v.atoms /\ t.turns = v.turns
  BY DEF Agree, Fields
<1> QED BY <1>1 DEF Grows

\* What a line tells of is ingestion: the session after it is sound and holds
\* what the one before it held; a new observation has the next number.
LEMMA StepGrows ==
  ASSUME NEW e, NEW s, NEW t, Good(s), Step(e, s, t)
  PROVE  /\ Good(t) /\ Grows(s, t) /\ s.counter <= t.counter
         /\ \A n \in DOMAIN t.byId \ DOMAIN s.byId :
              n = s.counter + 1 /\ DOMAIN t.byId = DOMAIN s.byId \cup {n}
<1>1. /\ SessionOK(s) /\ DOMAIN s = Fields /\ s.counter \in Nat
      /\ s.seq \in Nat /\ s.atoms \in Seq(Atom) /\ Len(s.atoms) \in Nat
      /\ DOMAIN s.byId \subseteq 1..s.counter
  BY DEF Good, SessionOK, StateOK
<1>2. CASE e.type = "say" /\ e.payload \in Message /\ t = WithMessage(s, e.payload)
  <2>1. /\ t.seq = s.seq + 1 /\ t.counter = s.counter /\ t.byId = s.byId /\ t.atoms = s.atoms
    BY <1>1, <1>2 DEF WithMessage, Fields
  <2>2. Grows(s, t)
    BY <1>1, <2>1 DEF Grows
  <2>3. Good(t)
    BY <1>2, GoodSteps
  <2> QED BY <1>1, <2>1, <2>2, <2>3
<1>3. CASE /\ e.type = "observe" /\ e.payload.content \in Content
           /\ t = WithObservation(s, e.payload.content)
  <2> DEFINE c == e.payload.content
  <2>1. /\ t.seq = s.seq + 1 /\ t.atoms = s.atoms
        /\ DOMAIN t.byId = DOMAIN s.byId \cup {IdOf(s, c)}
        /\ \A i \in DOMAIN s.byId : t.byId[i] = s.byId[i]
        /\ Known(s, c) => IdOf(s, c) \in DOMAIN s.byId /\ t.counter = s.counter
        /\ ~Known(s, c) => IdOf(s, c) = s.counter + 1 /\ t.counter = s.counter + 1
    BY <1>1, <1>3, ObservationIs
  <2> HIDE DEF c
  <2>2. \A n \in DOMAIN t.byId \ DOMAIN s.byId :
          n = s.counter + 1 /\ DOMAIN t.byId = DOMAIN s.byId \cup {n}
    BY <2>1
  <2>3. \A n \in DOMAIN t.byId \ DOMAIN s.byId : \A k \in DOMAIN s.byId : k < n
    BY <1>1, <2>2
  <2>4. Grows(s, t)
    BY <1>1, <2>1, <2>3 DEF Grows
  <2>5. Good(t)
    BY <1>3, GoodSteps
  <2> QED BY <1>1, <2>1, <2>2, <2>4, <2>5
<1>4. CASE /\ e.payload.kind \in Kinds /\ e.payload.num \in Number
           /\ Sourced(s.byId, e.payload.src, e.payload.num)
           /\ t = WithAtom(s, e.payload.kind, e.payload.num, e.payload.src)
  <2>1. PICK a : /\ t.seq = s.seq /\ t.counter = s.counter /\ t.byId = s.byId
                 /\ t.turns = s.turns /\ t.atoms = Append(s.atoms, a)
    BY <1>1, <1>4 DEF WithAtom, Fields
  <2>2. Good(t)
    BY <1>4, GoodSteps
  <2>3. Len(t.atoms) = Len(s.atoms) + 1 /\ \A n \in 1..Len(s.atoms) : t.atoms[n] = s.atoms[n]
    BY <1>1, <2>1
  <2>4. Grows(s, t)
    BY <1>1, <2>1, <2>3 DEF Grows
  <2> QED BY <1>1, <2>1, <2>2, <2>4
<1>5. CASE t = s
  BY <1>1, <1>5, GrowsReflexive
<1> QED BY <1>2, <1>3, <1>4, <1>5 DEF Step

\* A sound session whose observations can be read can be saved and loaded.
LEMMA HeldLoads ==
  ASSUME NEW s, SessionOK(s), NEW o, Held(o, s)
  PROVE  Loadable(o, Export(s))
<1>1. /\ Export(s).byId = s.byId /\ Export(s).turns = s.turns /\ Export(s).atoms = s.atoms
  BY DEF Export
<1>2. TurnsResolve(s) /\ AtomsSourced(s) /\ AtomsDistinct(s)
  BY DEF SessionOK
<1> QED BY <1>1, <1>2 DEF Loadable, Held, TurnsResolve, AtomsSourced, AtomsDistinct

\* Ingestion does the same to sessions that agree, if it numbers the same.
LEMMA AgreeSteps ==
  ASSUME NEW s, NEW t, Good(s), Good(t), Agree(s, t)
  PROVE  /\ \A m \in Message : Agree(WithMessage(s, m), WithMessage(t, m))
         /\ \A c \in Content : IdOf(s, c) = IdOf(t, c) =>
              Agree(WithObservation(s, c), WithObservation(t, c))
         /\ \A k, num, src : Agree(WithAtom(s, k, num, src), WithAtom(t, k, num, src))
<1>1. /\ DOMAIN s = Fields /\ DOMAIN t = Fields
      /\ s.seq = t.seq /\ s.byId = t.byId /\ s.bySha = t.bySha /\ s.turns = t.turns
      /\ s.atoms = t.atoms /\ s.made = t.made /\ s.failures = t.failures
      /\ s.injection = t.injection
  BY DEF Good, SessionOK, Agree, Fields
<1>2. ASSUME NEW m \in Message PROVE Agree(WithMessage(s, m), WithMessage(t, m))
  BY <1>1 DEF Agree, Fields, WithMessage
<1>3. ASSUME NEW c \in Content, IdOf(s, c) = IdOf(t, c)
      PROVE  Agree(WithObservation(s, c), WithObservation(t, c))
  <2> DEFINE id == IdOf(s, c)
  <2>1. id = IdOf(t, c)
    BY <1>3
  <2> HIDE DEF id
  <2> DEFINE v == WithObservation(s, c)
             w == WithObservation(t, c)
  <2>2. /\ v.seq = s.seq + 1 /\ v.bySha = [s.bySha EXCEPT ![c] = id]
        /\ v.byId = [i \in DOMAIN s.byId \cup {id} |-> IF i = id THEN c ELSE s.byId[i]]
        /\ v.turns = Append(s.turns, [kind |-> "observation", id |-> id, seq |-> s.seq])
        /\ v.atoms = s.atoms /\ v.made = s.made /\ v.failures = s.failures
        /\ v.injection = s.injection
    BY <1>1 DEF WithObservation, Fields, id
  <2>3. /\ w.seq = t.seq + 1 /\ w.bySha = [t.bySha EXCEPT ![c] = id]
        /\ w.byId = [i \in DOMAIN t.byId \cup {id} |-> IF i = id THEN c ELSE t.byId[i]]
        /\ w.turns = Append(t.turns, [kind |-> "observation", id |-> id, seq |-> t.seq])
        /\ w.atoms = t.atoms /\ w.made = t.made /\ w.failures = t.failures
        /\ w.injection = t.injection
    BY <1>1, <2>1 DEF WithObservation, Fields
  <2> HIDE DEF v, w
  <2>4. Agree(v, w)
    BY <1>1, <2>2, <2>3 DEF Agree, Fields
  <2> QED BY <2>4 DEF v, w
<1>4. ASSUME NEW k, NEW num, NEW src
      PROVE  Agree(WithAtom(s, k, num, src), WithAtom(t, k, num, src))
  BY <1>1 DEF Agree, Fields, WithAtom
<1> QED BY <1>2, <1>3, <1>4

\* The numbers a replay on a base with n numbers given out has given out.
Tight(s, n) == n <= s.counter /\ (s.counter = n \/ s.counter \in DOMAIN s.byId)

\* Replaying a line on a session that agrees with the one before it either
\* raises or gives one that agrees with the session after it.  It raises only
\* for want of an object of the latter, or for another number.
LEMMA ReplayFollows ==
  ASSUME NEW r, Sound(r), NEW e, NEW s, NEW t, Good(s), Good(t),
         Step(e, s, t), e.type # "checkpoint", r.ok => Agree(r.s, s), NEW n \in Nat
  PROVE  LET q == Replay(r, e) IN
         /\ q.ok => r.ok /\ Agree(q.s, t) /\ (Tight(r.s, n) => Tight(q.s, n))
         /\ r.ok /\ Held(r.objs, t)
              /\ (\A i \in DOMAIN t.byId \ DOMAIN s.byId : i = r.s.counter + 1)
              => q.ok
         /\ \A c \in Content : r.objs[c] = "intact" => q.objs[c] = "intact"
<1> DEFINE q == Replay(r, e)
<1>1. /\ DOMAIN r = {"ok", "s", "objs"} /\ r.ok \in BOOLEAN /\ r.objs \in [Content -> Health]
      /\ SessionOK(s) /\ SessionOK(t) /\ Good(r.s) /\ SessionOK(r.s)
      /\ r.s.counter \in Nat /\ s.counter \in Nat
      /\ DOMAIN r.s.byId \subseteq 1..r.s.counter /\ DOMAIN s.byId \subseteq 1..s.counter
  BY Sizes DEF Sound, Good
<1>2. CASE ~r.ok
  <2>1. q = r
    BY <1>2 DEF Replay
  <2> QED BY <1>2, <2>1
<1>4. CASE r.ok
  <2>1. Agree(r.s, s)
    BY <1>4
  <2>5. r.s.byId = s.byId /\ r.s.bySha = s.bySha
    BY <2>1 DEF Agree, Fields
  <2>2. CASE e.type = "say" /\ e.payload \in Message /\ t = WithMessage(s, e.payload)
    <3> DEFINE w == WithMessage(r.s, e.payload)
    <3>1. q = [r EXCEPT !.s = w]
      BY <1>4, <2>2 DEF Replay
    <3>2. Agree(w, t)
      BY <1>1, <2>1, <2>2, AgreeSteps
    <3>3. w.counter = r.s.counter /\ w.byId = r.s.byId
      BY <1>1 DEF WithMessage, SessionOK, Fields
    <3> HIDE DEF w
    <3>4. q.objs = r.objs /\ q.ok /\ q.s = w
      BY <1>1, <1>4, <3>1
    <3> HIDE DEF q
    <3>5. Tight(r.s, n) => Tight(q.s, n)
      BY <3>3, <3>4 DEF Tight
    <3> QED BY <1>4, <3>2, <3>4, <3>5 DEF q
  <2>3. CASE /\ e.type = "observe" /\ e.payload.content \in Content
             /\ t = WithObservation(s, e.payload.content)
             /\ e.payload.id = t.bySha[e.payload.content]
    <3> DEFINE c == e.payload.content
               w == WithObservation(r.s, c)
    <3>1. q = IF Putable(r.objs, c) /\ w.bySha[c] = e.payload.id
              THEN [r EXCEPT !.s = w, !.objs = AfterPut(r.objs, c)]
              ELSE [r EXCEPT !.ok = FALSE]
      BY <1>4, <2>3 DEF Replay
    <3>2. c \in Content /\ t = WithObservation(s, c) /\ e.payload.id = t.bySha[c]
      BY <2>3
    <3> HIDE DEF c
    <3>3. /\ w.bySha[c] = IdOf(r.s, c) /\ DOMAIN w.byId = DOMAIN r.s.byId \cup {IdOf(r.s, c)}
          /\ Known(r.s, c) => w.counter = r.s.counter
          /\ ~Known(r.s, c) => IdOf(r.s, c) = r.s.counter + 1 /\ w.counter = r.s.counter + 1
      BY <1>1, <3>2, ObservationIs
    <3>4. /\ e.payload.id = IdOf(s, c) /\ t.byId[IdOf(s, c)] = c
          /\ DOMAIN t.byId = DOMAIN s.byId \cup {IdOf(s, c)}
          /\ ~Known(s, c) => IdOf(s, c) = s.counter + 1
      BY <1>1, <3>2, ObservationIs
    <3>5. (Known(r.s, c) <=> Known(s, c)) /\ (Known(s, c) => IdOf(r.s, c) = IdOf(s, c))
      BY <2>5 DEF Known, IdOf
    <3>6. Held(r.objs, t) => Putable(r.objs, c)
      BY <3>4 DEF Held, Putable
    <3>7. (\A i \in DOMAIN t.byId \ DOMAIN s.byId : i = r.s.counter + 1)
            => IdOf(r.s, c) = IdOf(s, c)
      <4>1. CASE Known(s, c)
        BY <3>5, <4>1
      <4>2. CASE ~Known(s, c)
        <5>1. IdOf(s, c) = s.counter + 1 /\ s.counter + 1 \notin DOMAIN s.byId
          BY <1>1, <3>4, <4>2
        <5>2. IdOf(r.s, c) = r.s.counter + 1
          BY <3>3, <3>5, <4>2
        <5> QED BY <3>4, <5>1, <5>2
      <4> QED BY <4>1, <4>2
    <3>8. IdOf(r.s, c) = IdOf(s, c) => Agree(w, t)
      BY <1>1, <2>1, <3>2, AgreeSteps
    <3>9. Tight(r.s, n) => Tight(w, n)
      <4>1. CASE Known(r.s, c)
        BY <3>3, <4>1 DEF Tight
      <4>2. CASE ~Known(r.s, c)
        BY <1>1, <3>3, <4>2 DEF Tight
      <4> QED BY <4>1, <4>2
    <3>10. \A d \in Content : r.objs[d] = "intact" => AfterPut(r.objs, c)[d] = "intact"
      BY <1>1, <3>2 DEF AfterPut
    <3>11. CASE Putable(r.objs, c) /\ w.bySha[c] = e.payload.id
      <4>1. q.objs = AfterPut(r.objs, c) /\ q.ok /\ q.s = w
        <5> HIDE DEF w
        <5> QED BY <1>1, <1>4, <3>1, <3>11
      <4>2. Agree(w, t)
        BY <3>3, <3>4, <3>8, <3>11
      <4> HIDE DEF q, w
      <4> QED BY <1>4, <3>9, <3>10, <4>1, <4>2 DEF q
    <3>12. CASE ~(Putable(r.objs, c) /\ w.bySha[c] = e.payload.id)
      <4>1. q.objs = r.objs /\ ~q.ok
        <5> HIDE DEF w
        <5> QED BY <1>1, <3>1, <3>12
      <4>2. ~(/\ Held(r.objs, t)
              /\ \A i \in DOMAIN t.byId \ DOMAIN s.byId : i = r.s.counter + 1)
        BY <3>3, <3>4, <3>6, <3>7, <3>12
      <4> HIDE DEF q, w
      <4> QED BY <4>1, <4>2 DEF q
    <3> QED BY <3>11, <3>12
  <2>4. CASE /\ e.type = "atom" /\ Sourced(s.byId, e.payload.src, e.payload.num)
             /\ t = WithAtom(s, e.payload.kind, e.payload.num, e.payload.src)
    <3> DEFINE back == Backed(r.objs, r.s, e.payload.src, e.payload.num)
               w == WithAtom(r.s, e.payload.kind, e.payload.num, e.payload.src)
    <3>1. q = IF back THEN [r EXCEPT !.s = w] ELSE [r EXCEPT !.ok = FALSE]
      BY <1>4, <2>4 DEF Replay
    <3>2. Held(r.objs, t) => back
      <4>1. t.byId = s.byId
        BY <1>1, <2>4 DEF WithAtom, SessionOK, Fields
      <4> QED BY <2>4, <2>5, <4>1 DEF Held, Backed, Sourced
    <3>4. Agree(w, t)
      BY <1>1, <2>1, <2>4, AgreeSteps
    <3>5. w.counter = r.s.counter /\ w.byId = r.s.byId
      BY <1>1 DEF WithAtom, SessionOK, Fields
    <3> HIDE DEF back, w
    <3>6. Tight(r.s, n) => Tight(w, n)
      BY <3>5 DEF Tight
    <3>7. q.objs = r.objs /\ (q.ok <=> back) /\ (q.ok => q.s = w)
      BY <1>1, <1>4, <3>1
    <3> HIDE DEF q
    <3> QED BY <1>4, <3>2, <3>4, <3>6, <3>7 DEF q
  <2> QED BY <2>2, <2>3, <2>4 DEF Step
<1> QED BY <1>1, <1>2, <1>4

\* Replaying a checkpoint gives its session, if its objects can be read and it
\* was not written under a tokenizer_id of the session's own.
LEMMA ReplayCheckpoint ==
  ASSUME NEW r, Sound(r), r.ok, NEW t, Good(t), NEW o \in BOOLEAN
  PROVE  LET q == Replay(r, Snapshot(t, o)) IN
         /\ q.ok => q.s = t
         /\ Held(r.objs, t) /\ ~o => q.ok
         /\ q.objs = r.objs
<1> DEFINE e == Snapshot(t, o)
           q == Replay(r, e)
<1>1. DOMAIN r = {"ok", "s", "objs"}
  BY DEF Sound
<1>2. e.type = "checkpoint" /\ e.state = Export(t) /\ e.own = o
  BY DEF Snapshot
<1> HIDE DEF e
<1>3. q = IF ~o /\ Loadable(r.objs, Export(t)) THEN [r EXCEPT !.s = FromState(Export(t))]
          ELSE [r EXCEPT !.ok = FALSE]
  BY <1>2 DEF Replay
<1>4. FromState(Export(t)) = t
  BY LoadExport
<1>5. Held(r.objs, t) => Loadable(r.objs, Export(t))
  BY HeldLoads DEF Good
<1>6. q.objs = r.objs /\ (q.ok <=> ~o /\ Loadable(r.objs, Export(t))) /\ (q.ok => q.s = t)
  BY <1>1, <1>3, <1>4
<1> HIDE DEF q
<1> QED BY <1>5, <1>6 DEF q, e

\* A number that is new, when none up to it was skipped, is the next one.
LEMMA NextNumber ==
  ASSUME NEW A \in SUBSET Nat, NEW D \in SUBSET Nat, NEW k \in Nat, NEW n \in Nat, NEW m \in Nat,
         A \subseteq 1..k - 1, A \subseteq 1..m, n <= m, m = n \/ m \in A, n < k,
         n + 1..k \subseteq D, \A x \in D \ (A \cup {k}) : \A y \in A \cup {k} : y < x
  PROVE  k = m + 1
<1>1. m <= k - 1
  OBVIOUS
<1>2. CASE k - 1 = n
  BY <1>1, <1>2
<1>3. CASE k - 1 # n
  <2>1. k - 1 \in D
    BY <1>3
  <2>2. k - 1 \in A
    BY <2>1
  <2> QED BY <1>1, <2>2
<1> QED BY <1>2, <1>3

\* The observations of s after number n are numbered without a gap.
Follow(s, n) == \A i \in DOMAIN s.byId : i > n => n + 1..i \subseteq DOMAIN s.byId

\* What the base of a restore() has given out.
Floor(h, b) == IF b = 1 THEN 0 ELSE h[b].counter

\* restore() on a recorded history gives the session after one of its lines, or
\* raises; it does not raise while the observations of the last can be read, the
\* base is not under a tokenizer_id of the session's own, and no number was
\* skipped since the base.
LEMMA RestoreFollows ==
  ASSUME NEW o, o \in [Content -> Health], NEW j, j \in Seq(Lines), Len(j) # 0, j[1] = Meta,
         \A i \in 2..Len(j) : j[i] # Torn,
         NEW h, NEW s, Good(s), HistoryOf(h, j, s), NEW limit \in Nat
  PROVE  LET b == BaseIndex(j, limit)
             r == Restore(j, o, limit)
         IN \E t : /\ ReplayedTo(j, limit, t)
                   /\ r.ok => Agree(r.s, h[t]) /\ Tight(r.s, Floor(h, b))
                   /\ Held(o, s) /\ (b # 1 => ~j[b].own) /\ Follow(s, Floor(h, b)) => r.ok
<1> DEFINE b == BaseIndex(j, limit)
           start == Replay(Nothing(o), j[b])
           floor == Floor(h, b)
           Readable(q) == \A c \in Content : o[c] = "intact" => q.objs[c] = "intact"
           fair == Held(o, s) /\ (b # 1 => ~j[b].own) /\ Follow(s, floor)
<1>1. Len(j) \in Nat \ {0} /\ DOMAIN j = 1..Len(j) /\ \A i \in 1..Len(j) : LineOK(j[i])
  BY LineIs
<1>2. /\ b \in 1..Len(j) /\ (b # 1 => j[b].type = "checkpoint")
      /\ \A i \in 1..Len(j) : j[i].type = "checkpoint" /\ j[i].seq <= limit => i <= b
  BY <1>1, BaseIs
<1>3. PICK t : ReplayedTo(j, limit, t)
  BY <1>1, ReplayedIs
<1> DEFINE lines == SubSeq(j, b + 1, t)
<1>4. /\ Replayed(j, limit) = lines /\ t \in b..Len(j)
      /\ \A i \in b + 1..t : ~(j[i].seq > limit)
  BY <1>3 DEF ReplayedTo
<1>5. /\ Sound(Nothing(o)) /\ Nothing(o).ok /\ Nothing(o).s = FreshSession /\ Nothing(o).objs = o
  BY NothingSound
<1>6. /\ Len(lines) = t - b
      /\ \A n \in 1..t - b : lines[n] = j[b + n] /\ b + n \in 2..Len(j)
  BY <1>1, <1>2, <1>4, LinesFrom
<1>7. /\ h[1] = FreshSession /\ Agree(h[Len(j)], s)
      /\ \A i \in 1..Len(j) : Good(h[i])
      /\ \A i \in 2..Len(j) : Grows(h[i], s)
  <2>1. \A i \in 1..Len(j) : Good(h[i])
    BY <1>1, GoodFresh DEF HistoryOf
  <2>2. Agree(s, h[Len(j)])
    BY DEF HistoryOf, Agree
  <2>3. ASSUME NEW i \in 2..Len(j) PROVE Grows(h[i], s)
    <3>1. Grows(h[i], h[Len(j)])
      BY <1>1 DEF HistoryOf
    <3>2. Agree(h[i], h[i])
      BY DEF Agree
    <3> QED BY <2>2, <3>1, <3>2, GrowsAgree
  <2> QED BY <2>1, <2>3 DEF HistoryOf
<1>8. ASSUME NEW i \in 2..Len(j), Held(o, s) PROVE Held(o, h[i])
  <2>1. Grows(h[i], s)
    BY <1>7
  <2> QED BY <1>8, <2>1 DEF Held, Grows
<1>9. ASSUME NEW i \in b + 1..t
      PROVE  /\ i \in 2..Len(j) /\ j[i].type # "checkpoint"
             /\ Tells(j[i], h[i - 1], h[i])
  <2>1. i \in 2..Len(j) /\ i \in 1..Len(j) /\ ~(i <= b)
    BY <1>1, <1>2, <1>4
  <2>2. j[i].seq \in Nat
    <3>1. LineOK(j[i]) /\ j[i] # Torn
      BY <1>1, <2>1
    <3> QED BY <3>1 DEF LineOK
  <2>3. j[i].seq <= limit
    BY <1>4, <2>2
  <2> HIDE DEF b
  <2>4. j[i].type # "checkpoint"
    BY <1>2, <2>1, <2>3
  <2>5. ~Marks(j[i], h[i])
    <3>1. \A x : Snapshot(h[i], x).type = "checkpoint"
      BY DEF Snapshot
    <3> QED BY <2>4, <3>1 DEF Marks
  <2> QED BY <2>1, <2>4, <2>5 DEF HistoryOf
<1>10. floor \in Nat
  <2>1. h[b].counter \in Nat
    BY <1>2, <1>7, Sizes DEF Good
  <2> QED BY <2>1 DEF Floor
<1>11. /\ Sound(start) /\ Readable(start)
       /\ start.ok => Agree(start.s, h[b]) /\ Tight(start.s, floor)
       /\ fair => start.ok
  <2>1. Sound(start)
    BY <1>1, <1>2, <1>5, ReplayKeeps
  <2>2. CASE b = 1
    <3>1. start = Nothing(o)
      BY <2>2 DEF Replay, Meta
    <3>2. start.s = h[b] /\ start.s.counter = 0 /\ floor = 0
      BY <1>5, <1>7, <2>2, <3>1 DEF FreshSession, Floor
    <3>3. Agree(start.s, h[b]) /\ Tight(start.s, floor)
      <4> HIDE DEF start
      <4> QED BY <3>2 DEF Agree, Tight
    <3> QED BY <1>5, <2>1, <3>1, <3>3
  <2>3. CASE b # 1
    <3>1. b \in 2..Len(j) /\ b \in 1..Len(j)
      BY <1>1, <1>2, <2>3
    <3>2. Marks(j[b], h[b])
      BY <1>2, <2>3, <3>1 DEF Tells, Step, HistoryOf
    <3>3. PICK x \in BOOLEAN : j[b] = Snapshot(h[b], x)
      BY <3>2 DEF Marks
    <3>4. Good(h[b]) /\ j[b].own = x
      BY <1>7, <3>1, <3>3 DEF Snapshot
    <3>5. /\ start.ok => start.s = h[b]
          /\ Held(o, h[b]) /\ ~x => start.ok
          /\ start.objs = o
      <4> DEFINE none == Nothing(o)
      <4> HIDE DEF b, none
      <4>1. Sound(none) /\ none.ok /\ none.objs = o
        BY <1>5 DEF none
      <4>2. /\ Replay(none, Snapshot(h[b], x)).ok => Replay(none, Snapshot(h[b], x)).s = h[b]
            /\ Held(none.objs, h[b]) /\ ~x => Replay(none, Snapshot(h[b], x)).ok
            /\ Replay(none, Snapshot(h[b], x)).objs = none.objs
        BY <3>4, <4>1, ReplayCheckpoint
      <4> QED BY <3>3, <4>1, <4>2 DEF none
    <3>6. Held(o, s) => Held(o, h[b])
      BY <1>8, <3>1
    <3>7. floor = h[b].counter /\ h[b].counter \in Nat
      BY <1>10, <2>3 DEF Floor
    <3> HIDE DEF start, b, floor
    <3>8. start.ok => Agree(start.s, h[b]) /\ Tight(start.s, floor)
      BY <3>5, <3>7 DEF Agree, Tight
    <3> QED BY <2>1, <2>3, <3>4, <3>5, <3>6, <3>8
  <2> QED BY <2>2, <2>3
<1>12. Restore(j, o, limit) = ReplayAll(start, lines)
  BY <1>4 DEF Restore
<1> HIDE DEF start, lines, b, floor, fair
<1>13. Len(lines) \in Nat
  BY <1>1, <1>2, <1>4, <1>6
<1>14. PICK f : /\ f[0] = start
                /\ \A n \in 1..Len(lines) : f[n] = Replay(f[n - 1], lines[n])
                /\ ReplayAll(start, lines) = f[Len(lines)]
  BY <1>13, ReplayTrace
<1> DEFINE Holds(n) == /\ Sound(f[n]) /\ Readable(f[n])
                       /\ f[n].ok => Agree(f[n].s, h[b + n]) /\ Tight(f[n].s, floor)
                       /\ fair => f[n].ok
           Bad == {n \in 0..Len(lines) : ~Holds(n)}
<1>15. Holds(0)
  BY <1>2, <1>11, <1>14
<1>16. ASSUME NEW n \in 1..Len(lines), Holds(n - 1) PROVE Holds(n)
  <2> HIDE DEF Readable
  <2>1. f[n] = Replay(f[n - 1], lines[n])
    BY <1>14
  <2>2. /\ lines[n] = j[b + n] /\ b + n \in 2..Len(j) /\ b + n \in 1..Len(j)
        /\ b + n - 1 \in 1..Len(j) /\ b + (n - 1) = b + n - 1 /\ b + n \in b + 1..t
        /\ b # 1 => b \in 2..Len(j) /\ b + n - 1 \in b..Len(j)
    BY <1>1, <1>2, <1>4, <1>6, <1>13
  <2> DEFINE i == b + n
             r == f[n - 1]
  <2>3. /\ Sound(r) /\ Readable(r) /\ (fair => r.ok)
        /\ r.ok => Agree(r.s, h[i - 1]) /\ Tight(r.s, floor)
    <3>1. h[b + (n - 1)] = h[i - 1]
      BY <1>1, <1>2, <2>2
    <3> HIDE DEF i
    <3> QED BY <1>16, <3>1
  <2>4. /\ Good(h[i - 1]) /\ Good(h[i]) /\ LineOK(j[i]) /\ i \in 2..Len(j)
        /\ Tells(j[i], h[i - 1], h[i]) /\ j[i].type # "checkpoint"
        /\ b # 1 => b \in 2..Len(j) /\ i - 1 \in b..Len(j)
    BY <1>1, <1>7, <1>9, <2>2
  <2> HIDE DEF i, r
  <2>5. f[n] = Replay(r, j[i])
    BY <2>1, <2>2 DEF i, r
  <2>6. Sound(f[n])
    BY <2>3, <2>4, <2>5, ReplayKeeps
  <2>7. PICK u : Good(u) /\ Agree(u, h[i - 1]) /\ Step(j[i], u, h[i])
    BY <2>4 DEF Tells
  <2>8. r.ok => Agree(r.s, u)
    BY <2>3, <2>7 DEF Agree
  <2>9. /\ f[n].ok => r.ok /\ Agree(f[n].s, h[i]) /\ (Tight(r.s, floor) => Tight(f[n].s, floor))
        /\ r.ok /\ Held(r.objs, h[i])
             /\ (\A k \in DOMAIN h[i].byId \ DOMAIN u.byId : k = r.s.counter + 1) => f[n].ok
        /\ \A c \in Content : r.objs[c] = "intact" => f[n].objs[c] = "intact"
    BY <1>10, <2>3, <2>4, <2>5, <2>7, <2>8, ReplayFollows
  <2>10. Readable(f[n])
    BY <2>3, <2>9 DEF Readable
  <2>11. fair => Held(r.objs, h[i])
    <3>1. fair => Held(o, h[i])
      BY <1>8, <2>4 DEF fair
    <3>2. h[i].byId \in [DOMAIN h[i].byId -> Content]
      BY <2>4 DEF Good, SessionOK, StateOK
    <3> QED BY <2>3, <3>1, <3>2 DEF Held, Readable
  <2>12. ASSUME fair, NEW k \in DOMAIN h[i].byId \ DOMAIN u.byId
         PROVE  k = r.s.counter + 1
    <3> DEFINE A == DOMAIN u.byId
               D == DOMAIN s.byId
    <3>1. r.ok /\ Agree(r.s, u) /\ Tight(r.s, floor)
      BY <2>3, <2>8, <2>12
    <3>2. k = u.counter + 1 /\ DOMAIN h[i].byId = A \cup {k}
      BY <2>7, StepGrows
    <3>3. /\ u.counter \in Nat /\ A \subseteq 1..u.counter /\ DOMAIN r.s.byId = A
          /\ r.s.counter \in Nat /\ A \subseteq 1..r.s.counter /\ D \in SUBSET Nat
      <4>1. SessionOK(u) /\ SessionOK(r.s) /\ SessionOK(s)
        BY <2>3, <2>7 DEF Good, Sound
      <4>2. r.s.byId = u.byId
        BY <3>1 DEF Agree, Fields
      <4> QED BY <4>1, <4>2, Sizes
    <3>4. Grows(h[i], s)
      BY <1>7, <2>4
    <3>5. k \in D /\ \A x \in D \ (A \cup {k}) : \A y \in A \cup {k} : y < x
      BY <3>2, <3>4 DEF Grows
    <3>6. floor < k
      <4>1. CASE b = 1
        BY <3>2, <3>3, <4>1 DEF floor, Floor
      <4>2. CASE b # 1
        <5>1. b \in 2..Len(j) /\ j[b].type = "checkpoint" /\ floor = h[b].counter
          BY <1>2, <2>4, <4>2 DEF floor, Floor
        <5>2. \A m \in D \ DOMAIN h[b].byId : h[b].counter < m
          BY <5>1 DEF HistoryOf, Counted
        <5>3. Grows(h[b], h[i - 1]) /\ u.byId = h[i - 1].byId
          BY <2>4, <2>7, <4>2 DEF HistoryOf, Agree, Fields
        <5>4. k \notin DOMAIN h[b].byId
          BY <5>3 DEF Grows
        <5> QED BY <3>5, <5>1, <5>2, <5>4
      <4> QED BY <4>1, <4>2
    <3>7. floor + 1..k \subseteq D
      <4>1. k > floor
        BY <1>10, <3>2, <3>3, <3>6
      <4> QED BY <2>12, <3>5, <4>1 DEF fair, Follow
    <3>8. /\ A \in SUBSET Nat /\ k \in Nat /\ A \subseteq 1..k - 1
          /\ floor <= r.s.counter /\ (r.s.counter = floor \/ r.s.counter \in A)
      BY <3>1, <3>2, <3>3 DEF Tight
    <3> DEFINE m == r.s.counter
    <3>9. /\ m \in Nat /\ A \subseteq 1..m /\ floor \in Nat /\ D \in SUBSET Nat
          /\ floor <= m /\ (m = floor \/ m \in A)
      BY <1>10, <3>3, <3>8
    <3> HIDE DEF A, D, m
    <3>10. k = m + 1
      BY <3>5, <3>6, <3>7, <3>8, <3>9, NextNumber
    <3> QED BY <3>10 DEF m
  <2>13. f[n].ok => Tight(f[n].s, floor)
    BY <2>3, <2>9
  <2>14. fair => f[n].ok
    BY <2>3, <2>9, <2>11, <2>12
  <2> QED BY <2>6, <2>9, <2>10, <2>13, <2>14 DEF i
<1> HIDE DEF Holds
<1>17. Bad = {}
  <2> SUFFICES ASSUME Bad # {} PROVE FALSE
    OBVIOUS
  <2>1. PICK n \in Bad : \A m \in Bad : ~(m < n)
    <3>1. Bad \in SUBSET Nat
      BY <1>13
    <3> HIDE DEF Bad
    <3> QED BY <3>1, FirstOf
  <2>2. n \in 0..Len(lines) /\ ~Holds(n)
    OBVIOUS
  <2>3. n # 0
    BY <1>15, <2>2
  <2>4. n \in 1..Len(lines) /\ n - 1 \in 0..Len(lines) /\ n - 1 < n
    BY <1>13, <2>2, <2>3
  <2>5. Holds(n - 1)
    BY <2>1, <2>4
  <2> QED BY <1>16, <2>2, <2>4, <2>5
<1>18. Holds(Len(lines)) /\ b + Len(lines) = t
  <2>1. Len(lines) \in 0..Len(lines) /\ b + Len(lines) = t
    BY <1>2, <1>4, <1>6, <1>13
  <2>2. Holds(Len(lines))
    BY <1>17, <2>1
  <2> QED BY <2>1, <2>2
<1>19. /\ Restore(j, o, limit).ok =>
            Agree(Restore(j, o, limit).s, h[t]) /\ Tight(Restore(j, o, limit).s, floor)
       /\ fair => Restore(j, o, limit).ok
  BY <1>12, <1>14, <1>18 DEF Holds
<1> QED BY <1>3, <1>19 DEF b, floor, fair

\* A line of the record bears the number of the session after it.
LEMMA HistoryLine ==
  ASSUME NEW j, NEW h, NEW s, HistoryOf(h, j, s), NEW m \in 2..Len(j)
  PROVE  /\ Good(h[m]) /\ h[m].seq \in Nat /\ j[m].seq = h[m].seq
         /\ j[m].type = "checkpoint" => Marks(j[m], h[m])
<1>1. Good(h[m]) /\ (Tells(j[m], h[m - 1], h[m]) \/ Marks(j[m], h[m]))
  BY DEF HistoryOf
<1>2. h[m].seq \in Nat
  BY <1>1, Sizes DEF Good
<1>3. CASE Marks(j[m], h[m])
  BY <1>1, <1>2, <1>3 DEF Marks, Snapshot
<1>4. CASE Tells(j[m], h[m - 1], h[m])
  BY <1>1, <1>2, <1>4 DEF Tells, Step
<1> QED BY <1>1, <1>3, <1>4

\* Every session of a history is what the last one grew from.
LEMMA HistoryReaches ==
  ASSUME NEW j, Len(j) \in Nat, NEW h, NEW s, HistoryOf(h, j, s), NEW i \in 2..Len(j)
  PROVE  Grows(h[i], s)
<1>1. Grows(h[i], h[Len(j)])
  BY DEF HistoryOf
<1>2. Agree(s, h[Len(j)]) /\ Agree(h[i], h[i])
  BY DEF HistoryOf, Agree
<1> QED BY <1>1, <1>2, GrowsAgree

\* A line more on the record of a history.
LEMMA HistoryGrows ==
  ASSUME NEW j, j \in Seq(Lines), Len(j) # 0, NEW h, NEW s, Good(s), HistoryOf(h, j, s),
         NEW e, NEW t, Step(e, s, t)
  PROVE  \E g : HistoryOf(g, Append(j, e), t)
<1> DEFINE last == Len(j) + 1
           g == [i \in 1..last |-> IF i = last THEN t ELSE h[i]]
           k == Append(j, e)
<1>1. /\ Len(j) \in Nat \ {0} /\ Len(k) = last /\ k[last] = e /\ last - 1 = Len(j)
      /\ \A i \in 1..Len(j) : k[i] = j[i]
  OBVIOUS
<1>2. g[last] = t /\ \A i \in 1..Len(j) : g[i] = h[i]
  BY <1>1
<1>3. /\ Good(t) /\ Grows(s, t) /\ s.counter <= t.counter
      /\ \A n \in DOMAIN t.byId \ DOMAIN s.byId : n = s.counter + 1
      /\ s.counter \in Nat /\ t.counter \in Nat
  BY StepGrows, Sizes DEF Good
<1>4. /\ h[1] = FreshSession /\ Agree(s, h[Len(j)])
      /\ \A i \in 2..Len(j) :
           /\ Good(h[i]) /\ h[i].counter \in Nat
           /\ Tells(j[i], h[i - 1], h[i]) \/ (i = 2 /\ Marks(j[2], h[2]))
      /\ \A i \in 2..Len(j) : \A m \in i..Len(j) : Grows(h[i], h[m])
      /\ Counted(h, j, s)
  BY Sizes DEF HistoryOf, Agree, Good
<1> HIDE DEF g, k
<1>5. ASSUME NEW i \in 2..last
      PROVE  /\ Good(g[i])
             /\ Tells(k[i], g[i - 1], g[i]) \/ (i = 2 /\ Marks(k[2], g[2]))
  <2>1. CASE i = last
    <3>1. k[i] = e /\ g[i - 1] = h[Len(j)] /\ g[i] = t
      BY <1>1, <1>2, <2>1
    <3>2. Tells(e, h[Len(j)], t)
      BY <1>4 DEF Tells
    <3> QED BY <1>3, <3>1, <3>2
  <2>2. CASE i # last
    <3>1. i \in 2..Len(j) /\ i \in 1..Len(j) /\ i - 1 \in 1..Len(j)
      BY <1>1, <2>2
    <3>2. k[i] = j[i] /\ g[i - 1] = h[i - 1] /\ g[i] = h[i]
      BY <1>1, <1>2, <3>1
    <3> QED BY <1>4, <3>1, <3>2
  <2> QED BY <2>1, <2>2
<1>6. ASSUME NEW i \in 2..last, NEW m \in i..last
      PROVE  Grows(g[i], g[m])
  <2>1. CASE m # last
    <3>1. i \in 2..Len(j) /\ m \in i..Len(j) /\ i \in 1..Len(j) /\ m \in 1..Len(j)
      BY <1>1, <2>1
    <3>2. g[i] = h[i] /\ g[m] = h[m]
      BY <1>2, <3>1
    <3> QED BY <1>4, <3>1, <3>2
  <2>2. CASE i # last /\ m = last
    <3>1. i \in 2..Len(j) /\ i \in 1..Len(j)
      BY <1>1, <2>2
    <3>2. Grows(h[i], s)
      BY <1>1, <3>1, HistoryReaches
    <3>3. SessionOK(h[i]) /\ SessionOK(s) /\ SessionOK(t)
      BY <1>3, <1>4, <3>1 DEF Good
    <3>4. Grows(h[i], t)
      BY <1>3, <3>2, <3>3, GrowsTransitive
    <3> QED BY <1>2, <2>2, <3>1, <3>4
  <2>3. CASE i = last /\ m = last
    <3>1. SessionOK(t)
      BY <1>3 DEF Good
    <3> QED BY <1>2, <2>3, <3>1, GrowsReflexive
  <2> QED BY <1>1, <2>1, <2>2, <2>3
<1>7. g[1] = FreshSession /\ Agree(g[last], t)
  BY <1>1, <1>2, <1>4 DEF Agree
<1>8. ASSUME NEW i \in 2..last, k[i].type = "checkpoint"
      PROVE  /\ g[i].counter <= t.counter
             /\ \A m \in i..last : g[i].counter <= g[m].counter
             /\ \A n \in DOMAIN t.byId \ DOMAIN g[i].byId : g[i].counter < n
  <2>1. CASE i = last
    <3>1. g[i] = t /\ \A m \in i..last : m = last
      BY <1>1, <1>2, <2>1
    <3> QED BY <1>3, <2>1, <3>1
  <2>2. CASE i # last
    <3>1. i \in 2..Len(j) /\ i \in 1..Len(j) /\ k[i] = j[i] /\ g[i] = h[i]
      BY <1>1, <1>2, <2>2
    <3>2. /\ h[i].counter <= s.counter /\ h[i].counter \in Nat
          /\ \A m \in i..Len(j) : h[i].counter <= h[m].counter
          /\ \A n \in DOMAIN s.byId \ DOMAIN h[i].byId : h[i].counter < n
      BY <1>4, <1>8, <3>1 DEF Counted
    <3>3. g[i].counter <= t.counter
      BY <1>3, <3>1, <3>2
    <3>4. ASSUME NEW m \in i..last PROVE g[i].counter <= g[m].counter
      <4>1. CASE m = last
        BY <1>2, <3>3, <4>1
      <4>2. CASE m # last
        <5>1. m \in i..Len(j) /\ m \in 1..Len(j)
          BY <1>1, <3>1, <4>2
        <5> QED BY <1>2, <3>1, <3>2, <5>1
      <4> QED BY <4>1, <4>2
    <3>5. ASSUME NEW n \in DOMAIN t.byId \ DOMAIN h[i].byId PROVE h[i].counter < n
      <4>1. CASE n \in DOMAIN s.byId
        BY <3>2, <4>1
      <4>2. CASE n \notin DOMAIN s.byId
        <5>1. n = s.counter + 1
          BY <1>3, <4>2
        <5> QED BY <1>3, <3>2, <5>1
      <4> QED BY <4>1, <4>2
    <3> QED BY <3>1, <3>3, <3>4, <3>5
  <2> QED BY <2>1, <2>2
<1>9. Counted(g, k, t)
  BY <1>1, <1>8 DEF Counted
<1>10. HistoryOf(g, k, t)
  BY <1>1, <1>5, <1>6, <1>7, <1>9 DEF HistoryOf
<1> QED BY <1>10 DEF k

\* Numbers skipped, or given again after a restart, leave the record as it is.
LEMMA HistoryMoves ==
  ASSUME NEW j, NEW h, NEW s, NEW t, HistoryOf(h, j, s), Agree(t, s),
         \A i \in 2..Len(j) : j[i].type = "checkpoint" => h[i].counter <= t.counter
  PROVE  HistoryOf(h, j, t)
<1>1. Agree(h[Len(j)], t) /\ s.byId = t.byId
  BY DEF HistoryOf, Agree, Fields
<1>2. Counted(h, j, t)
  BY <1>1 DEF HistoryOf, Counted
<1> QED BY <1>1, <1>2 DEF HistoryOf

\* compact() leaves the record of a history of its own.
LEMMA HistoryFolds ==
  ASSUME NEW s, Good(s), NEW o \in BOOLEAN
  PROVE  \E g : HistoryOf(g, <<Meta, Snapshot(s, o)>>, s)
<1> DEFINE g == [i \in 1..2 |-> IF i = 1 THEN FreshSession ELSE s]
           e == Snapshot(s, o)
           k == <<Meta, e>>
<1>1. Len(k) = 2 /\ k[2] = e /\ g[1] = FreshSession /\ g[2] = s
  OBVIOUS
<1>2. Grows(s, s) /\ s.counter \in Nat /\ s.counter <= s.counter /\ Agree(s, s)
  BY GrowsReflexive, Sizes DEF Good, Agree
<1>3. Marks(e, s)
  BY DEF Marks
<1> HIDE DEF g, k, e
<1>4. HistoryOf(g, k, s)
  <2>1. \A i \in 2..Len(k) : i = 2 /\ \A m \in i..Len(k) : m = 2
    BY <1>1
  <2>2. Counted(g, k, s)
    BY <1>1, <1>2, <2>1 DEF Counted
  <2> QED BY <1>1, <1>2, <1>3, <2>1, <2>2 DEF HistoryOf
<1> QED BY <1>4 DEF k, e

\* The lines the machine writes.
LEMMA LinesWritten ==
  ASSUME NEW s, SessionOK(s)
  PROVE  /\ \A m \in Message : SayLine(s, m) \in Lines
         /\ \A c \in Content : ObserveLine(s, c) \in Lines
         /\ \A k \in Kinds, num \in Number : \A src \in SUBSET Nat :
              AtomLine(s, [kind |-> k, num |-> num, src |-> src]) \in Lines
         /\ \A o \in BOOLEAN : Snapshot(s, o) \in Lines
         /\ Meta \in Lines /\ Torn \in Lines
<1>1. s.seq \in Nat /\ s.counter \in Nat
  BY Sizes
<1>2. \A m \in Message : SayLine(s, m) \in [type: {"say"}, seq: Nat, payload: Message]
  BY <1>1 DEF SayLine, Line
<1>3. \A c \in Content : ObserveLine(s, c) \in
        [type: {"observe"}, seq: Nat, payload: [content: Content, id: Nat]]
  BY <1>1 DEF ObserveLine, Line, SessionOK
<1>4. \A k \in Kinds, num \in Number : \A src \in SUBSET Nat :
        AtomLine(s, [kind |-> k, num |-> num, src |-> src]) \in
          [type: {"atom"}, seq: Nat, payload: [kind: Kinds, num: Number, src: SUBSET Nat]]
  BY <1>1 DEF AtomLine, Line
<1>5. Export(s) \in States
  <2>1. FileOK(Export(s))
    BY ExportOK
  <2>2. s.byId \in UNION {[D -> Content] : D \in SUBSET Nat}
    <3>1. DOMAIN s.byId \in SUBSET Nat /\ s.byId \in [DOMAIN s.byId -> Content]
      BY <1>1 DEF SessionOK, StateOK
    <3> QED BY <3>1
  <2>3. s.turns \in Seq(Turn) /\ s.atoms \in Seq(Atom)
    BY DEF SessionOK, StateOK
  <2>4. Export(s) \in [seq: Nat, counter: Nat, byId: UNION {[D -> Content] : D \in SUBSET Nat},
                       turns: Seq(Turn), atoms: Seq(Atom)]
    BY <1>1, <2>2, <2>3 DEF Export
  <2> QED BY <2>1, <2>4 DEF States
<1>6. \A o \in BOOLEAN : Snapshot(s, o) \in [type: {"checkpoint"}, seq: Nat, state: States, own: BOOLEAN]
  BY <1>1, <1>5 DEF Snapshot
<1> QED BY <1>2, <1>3, <1>4, <1>6 DEF Lines

\* The inductive invariant: store, session and lines are what they should be,
\* and a straight journal is the record of the session's history.
JInv ==
  /\ objs \in [Content -> Health]
  /\ Good(live)
  /\ journal \in Seq(Lines) /\ Len(journal) # 0 /\ journal[1] = Meta
  /\ \A i \in 2..Len(journal) : journal[i] # Meta
  /\ own \in BOOLEAN /\ up \in BOOLEAN
  /\ failed \in 0..MaxFailedAppends /\ rolled \in 0..MaxRollbacks
  /\ Recorded

\* Restoring a straight journal gives back the session it records, but for
\* numbers skipped; what every checkpoint knows of numbers is kept.
LEMMA RestoreAllFollows ==
  ASSUME NEW o, o \in [Content -> Health], NEW j, j \in Seq(Lines), Len(j) # 0, j[1] = Meta,
         \A i \in 2..Len(j) : j[i] # Torn,
         NEW h, NEW s, Good(s), HistoryOf(h, j, s)
  PROVE  LET base == j[BaseIndex(j, j[Len(j)].seq)]
             r == RestoreAll(j, o)
         IN /\ r.ok => /\ Agree(r.s, s) /\ r.s.counter <= s.counter
                       /\ \A i \in 2..Len(j) :
                            j[i].type = "checkpoint" => h[i].counter <= r.s.counter
            /\ /\ Held(o, s)
               /\ base # Meta => ~base.own
               /\ Follow(s, IF base = Meta THEN 0 ELSE base.state.counter)
               => r.ok
<1> DEFINE limit == j[Len(j)].seq
           b == BaseIndex(j, limit)
           r == Restore(j, o, limit)
<1>1. Len(j) \in Nat \ {0} /\ DOMAIN j = 1..Len(j)
  OBVIOUS
<1>2. \A m \in 2..Len(j) : /\ Good(h[m]) /\ h[m].seq \in Nat /\ j[m].seq = h[m].seq
                           /\ h[m].counter \in Nat
                           /\ j[m].type = "checkpoint" => Marks(j[m], h[m])
  BY HistoryLine, Sizes DEF Good
<1>3. limit \in Nat
  <2>1. CASE Len(j) = 1
    BY <2>1 DEF Meta
  <2>2. CASE Len(j) # 1
    BY <1>1, <1>2, <2>2
  <2> QED BY <2>1, <2>2
<1>4. PICK t : /\ ReplayedTo(j, limit, t)
               /\ r.ok => Agree(r.s, h[t]) /\ Tight(r.s, Floor(h, b))
               /\ Held(o, s) /\ (b # 1 => ~j[b].own) /\ Follow(s, Floor(h, b)) => r.ok
  <2> HIDE DEF limit
  <2> QED BY <1>3, RestoreFollows
<1>5. /\ b \in 1..Len(j) /\ (b # 1 => j[b].type = "checkpoint")
      /\ \A i \in 1..Len(j) : j[i].type = "checkpoint" /\ j[i].seq <= limit => i <= b
  <2> HIDE DEF limit
  <2> QED BY <1>1, BaseIs
<1>6. ASSUME NEW i \in 2..Len(j) PROVE j[i].seq <= limit
  <2>1. Len(j) \in 2..Len(j) /\ Len(j) \in i..Len(j)
    BY <1>1
  <2>2. Grows(h[i], h[Len(j)])
    BY <2>1 DEF HistoryOf
  <2>3. h[i].seq \in Nat /\ h[Len(j)].seq \in Nat /\ j[i].seq = h[i].seq /\ limit = h[Len(j)].seq
    BY <1>2, <2>1
  <2>4. h[i].seq <= h[Len(j)].seq
    BY <2>2 DEF Grows
  <2> HIDE DEF limit
  <2> QED BY <2>3, <2>4
<1> HIDE DEF limit
<1>7. \A i \in b + 1..Len(j) : ~(j[i].seq > limit)
  <2> TAKE i \in b + 1..Len(j)
  <2>1. i \in 2..Len(j)
    BY <1>1, <1>5
  <2> QED BY <1>2, <1>3, <1>6, <2>1
<1>8. t = Len(j)
  BY <1>4, <1>7 DEF ReplayedTo
<1> HIDE DEF b, r
<1>9. r.ok => Agree(r.s, s)
  BY <1>4, <1>8 DEF HistoryOf, Agree
<1>10. /\ b = 1 => j[b] = Meta /\ Floor(h, b) = 0
       /\ b # 1 => /\ b \in 2..Len(j) /\ j[b] # Meta /\ j[b].type = "checkpoint"
                   /\ Floor(h, b) = h[b].counter /\ h[b].counter \in Nat
                   /\ j[b].state.counter = h[b].counter
  <2>1. CASE b = 1
    BY <2>1 DEF Floor
  <2>2. CASE b # 1
    <3>1. b \in 2..Len(j) /\ j[b].type = "checkpoint"
      BY <1>1, <1>5, <2>2
    <3>2. PICK x \in BOOLEAN : j[b] = Snapshot(h[b], x)
      BY <1>2, <3>1 DEF Marks
    <3>3. j[b].state.counter = h[b].counter
      BY <3>2 DEF Snapshot, Export
    <3> QED BY <1>2, <2>2, <3>1, <3>3 DEF Floor, Meta
  <2> QED BY <2>1, <2>2
<1>11. Floor(h, b) \in Nat /\ Floor(h, b) <= s.counter /\ s.counter \in Nat
  <2>1. s.counter \in Nat
    BY Sizes DEF Good
  <2>2. b # 1 => h[b].counter <= s.counter
    BY <1>10 DEF HistoryOf, Counted
  <2> QED BY <1>10, <2>1, <2>2
<1>12. ASSUME r.ok
       PROVE  /\ r.s.counter <= s.counter
              /\ \A i \in 2..Len(j) : j[i].type = "checkpoint" => h[i].counter <= r.s.counter
  <2>1. DOMAIN r.s.byId \subseteq 1..s.counter /\ Tight(r.s, Floor(h, b))
    <3>1. r.s.byId = s.byId
      BY <1>9, <1>12 DEF Agree, Fields
    <3> QED BY <1>4, <1>12, <3>1, Sizes DEF Good
  <2>2. r.s.counter \in Nat /\ r.s.counter <= s.counter /\ Floor(h, b) <= r.s.counter
    BY <1>11, <2>1 DEF Tight
  <2>3. ASSUME NEW i \in 2..Len(j), j[i].type = "checkpoint" PROVE h[i].counter <= r.s.counter
    <3>1. i <= b /\ b # 1
      BY <1>1, <1>5, <1>6, <2>3
    <3>2. b \in i..Len(j) /\ Floor(h, b) = h[b].counter
      BY <1>1, <1>5, <1>10, <3>1
    <3>3. h[i].counter <= h[b].counter
      BY <2>3, <3>2 DEF HistoryOf, Counted
    <3>4. h[i].counter \in Nat
      BY <1>2
    <3> QED BY <1>11, <2>2, <3>2, <3>3, <3>4
  <2> QED BY <2>2, <2>3
<1>13. ASSUME Held(o, s), j[b] # Meta => ~j[b].own,
              Follow(s, IF j[b] = Meta THEN 0 ELSE j[b].state.counter)
       PROVE  r.ok
  <2>1. b # 1 => ~j[b].own
    BY <1>10, <1>13
  <2>2. Floor(h, b) = IF j[b] = Meta THEN 0 ELSE j[b].state.counter
    BY <1>10
  <2> QED BY <1>4, <1>13, <2>1, <2>2
<1> QED BY <1>9, <1>12, <1>13 DEF RestoreAll, r, b, limit

\* A line added at the end leaves the rest of the journal alone.
LEMMA Appended ==
  ASSUME NEW j, j \in Seq(Lines), Len(j) # 0, j[1] = Meta, \A i \in 2..Len(j) : j[i] # Meta,
         NEW e \in Lines, e # Meta
  PROVE  LET k == Append(j, e) IN
         /\ k \in Seq(Lines) /\ Len(k) # 0 /\ k[1] = Meta
         /\ \A i \in 2..Len(k) : k[i] # Meta
         /\ Unreadable(k) <=> Unreadable(j) \/ e = Torn
<1> DEFINE k == Append(j, e)
<1>1. /\ Len(j) \in Nat \ {0} /\ k \in Seq(Lines) /\ Len(k) = Len(j) + 1
      /\ k[Len(j) + 1] = e /\ \A i \in 1..Len(j) : k[i] = j[i]
      /\ DOMAIN j = 1..Len(j) /\ DOMAIN k = 1..Len(j) + 1
  OBVIOUS
<1> HIDE DEF k
<1>2. Len(k) # 0 /\ k[1] = Meta
  BY <1>1
<1>3. \A i \in 2..Len(k) : k[i] # Meta
  BY <1>1
<1>4. Unreadable(k) <=> Unreadable(j) \/ e = Torn
  BY <1>1 DEF Unreadable
<1> QED BY <1>1, <1>2, <1>3, <1>4 DEF k

\* An ingestion call and its append keep the invariant.
LEMMA LoggedKeeps ==
  ASSUME JInv, objs' \in [Content -> Health],
         NEW s, NEW e \in Lines, e # Meta, e # Torn, Step(e, live, s), Logged(s, e)
  PROVE  JInv'
<1>1. live' = s /\ up /\ up' = up /\ rolled' = rolled /\ own' = own
  BY DEF Logged
<1>2. Good(live')
  BY <1>1, StepGrows DEF JInv
<1>3. /\ journal \in Seq(Lines) /\ Len(journal) # 0 /\ journal[1] = Meta
      /\ \A i \in 2..Len(journal) : journal[i] # Meta
      /\ own \in BOOLEAN /\ up \in BOOLEAN
      /\ failed \in 0..MaxFailedAppends /\ rolled \in 0..MaxRollbacks
      /\ MaxFailedAppends \in Nat /\ Good(live) /\ Recorded
  BY JournalBounds DEF JInv
<1>4. CASE journal' = Append(journal, e) /\ failed' = failed
  <2>1. /\ journal' \in Seq(Lines) /\ Len(journal') # 0 /\ journal'[1] = Meta
        /\ \A i \in 2..Len(journal') : journal'[i] # Meta
        /\ Unreadable(journal') <=> Unreadable(journal)
    BY <1>3, <1>4, Appended
  <2>2. Recorded'
    <3> SUFFICES ASSUME Straight' PROVE IF Unreadable(journal') THEN ~up'
                                        ELSE \E h : HistoryOf(h, journal', live')
      BY DEF Recorded
    <3>1. Straight
      BY <1>1, <1>4 DEF Straight
    <3>2. PICK h : HistoryOf(h, journal, live) /\ ~Unreadable(journal)
      BY <1>1, <1>3, <3>1 DEF Recorded
    <3>3. \E h1 : HistoryOf(h1, Append(journal, e), s)
      BY <1>3, <3>2, HistoryGrows
    <3> QED BY <1>1, <1>4, <2>1, <3>2, <3>3
  <2> QED BY <1>1, <1>2, <1>3, <1>4, <2>1, <2>2 DEF JInv
<1>5. CASE /\ failed < MaxFailedAppends /\ failed' = failed + 1
           /\ journal' \in {journal, Append(journal, Torn)}
  <2>1. failed' \in 0..MaxFailedAppends /\ failed' # 0
    BY <1>3, <1>5
  <2>2. Torn \in Lines /\ Torn # Meta
    BY DEF Lines, Torn, Meta
  <2>3. /\ journal' \in Seq(Lines) /\ Len(journal') # 0 /\ journal'[1] = Meta
        /\ \A i \in 2..Len(journal') : journal'[i] # Meta
    BY <1>3, <1>5, <2>2, Appended
  <2>4. Recorded'
    BY <2>1 DEF Recorded, Straight
  <2> QED BY <1>1, <1>2, <1>3, <2>1, <2>3, <2>4 DEF JInv
<1> QED BY <1>4, <1>5 DEF Logged

\* The invariant holds at all times.
THEOREM JournalInductive == JournalSpec => []JInv
<1>1. JournalInit => JInv
  <2> SUFFICES ASSUME JournalInit PROVE JInv
    OBVIOUS
  <2>1. objs \in [Content -> Health] /\ live = FreshSession /\ journal = <<Meta>>
        /\ own \in BOOLEAN /\ up = TRUE /\ failed = 0 /\ rolled = 0
    BY DEF JournalInit, Health
  <2>2. Meta \in Lines
    BY DEF Lines
  <2>3. /\ journal \in Seq(Lines) /\ Len(journal) = 1 /\ journal[1] = Meta
        /\ \A i \in 2..Len(journal) : journal[i] # Meta
    BY <2>1, <2>2
  <2>4. \E h : HistoryOf(h, journal, live)
    <3> DEFINE h == [i \in 1..1 |-> FreshSession]
    <3>1. h[1] = FreshSession
      OBVIOUS
    <3> HIDE DEF h
    <3>2. HistoryOf(h, journal, live)
      BY <2>1, <2>3, <3>1 DEF HistoryOf, Agree, Counted
    <3> QED BY <3>2
  <2>5. ~Unreadable(journal)
    BY <2>1 DEF Unreadable, Meta, Torn
  <2>6. Recorded
    BY <2>4, <2>5 DEF Recorded
  <2>7. failed \in 0..MaxFailedAppends /\ rolled \in 0..MaxRollbacks
    BY <2>1, JournalBounds
  <2> QED BY <2>1, <2>3, <2>6, <2>7, GoodFresh DEF JInv
<1>2. JInv /\ [JournalNext]_jvars => JInv'
  <2> SUFFICES ASSUME JInv, [JournalNext]_jvars PROVE JInv'
    OBVIOUS
  <2>1. /\ objs \in [Content -> Health] /\ Good(live) /\ SessionOK(live)
        /\ journal \in Seq(Lines) /\ Len(journal) # 0 /\ journal[1] = Meta
        /\ \A i \in 2..Len(journal) : journal[i] # Meta
        /\ own \in BOOLEAN /\ up \in BOOLEAN
        /\ failed \in 0..MaxFailedAppends /\ rolled \in 0..MaxRollbacks
        /\ Recorded
    BY DEF JInv, Good
  <2>2. ASSUME UNCHANGED <<live, journal, own, up, failed, rolled>>, objs' \in [Content -> Health]
        PROVE  JInv'
    <3>1. Recorded'
      BY <2>1, <2>2 DEF Recorded, Straight
    <3> QED BY <2>1, <2>2, <3>1 DEF JInv
  <2>3. CASE UNCHANGED jvars
    BY <2>1, <2>2, <2>3 DEF jvars
  <2>4. ASSUME NEW m \in Message, LogSay(m) PROVE JInv'
    <3> DEFINE s == WithMessage(live, m)
               e == SayLine(s, m)
    <3>1. SessionOK(s)
      BY <2>1, MessageOK
    <3>2. e \in Lines
      BY <3>1, LinesWritten
    <3>3. e.type = "say" /\ e.seq = s.seq /\ e.payload = m
      BY DEF SayLine, Line
    <3>4. Logged(s, e) /\ objs' = objs
      BY <2>4 DEF LogSay
    <3> HIDE DEF e
    <3>5. Step(e, live, s) /\ e # Meta /\ e # Torn
      BY <3>3 DEF Step, Meta, Torn
    <3> HIDE DEF s
    <3> QED BY <2>1, <3>2, <3>4, <3>5, LoggedKeeps
  <2>5. ASSUME NEW c \in Content, LogObserve(c) PROVE JInv'
    <3> DEFINE s == WithObservation(live, c)
               e == ObserveLine(s, c)
    <3>1. SessionOK(s)
      BY <2>1, ObservationOK
    <3>2. e \in Lines
      BY <3>1, LinesWritten
    <3>3. /\ e.type = "observe" /\ e.seq = s.seq
          /\ e.payload.content = c /\ e.payload.id = s.bySha[c]
      BY DEF ObserveLine, Line
    <3>4. Logged(s, e) /\ objs' = AfterPut(objs, c)
      BY <2>5 DEF LogObserve
    <3>5. objs' \in [Content -> Health]
      BY <2>1, <3>4 DEF AfterPut, Health
    <3> HIDE DEF e
    <3>6. Step(e, live, s) /\ e # Meta /\ e # Torn
      BY <3>3 DEF Step, Meta, Torn
    <3> HIDE DEF s
    <3> QED BY <3>2, <3>4, <3>5, <3>6, LoggedKeeps
  <2>6. ASSUME NEW k \in Kinds, NEW num \in Content \cup {NoNumber},
               NEW src \in SUBSET DOMAIN live.byId, LogAtom(k, num, src)
        PROVE  JInv'
    <3> DEFINE s == WithAtom(live, k, num, src)
               e == AtomLine(s, [kind |-> k, num |-> num, src |-> src])
    <3>1. Sourced(live.byId, src, num) /\ num \in Number /\ Logged(s, e) /\ objs' = objs
      BY <2>6 DEF LogAtom, Backed, Number
    <3>2. SessionOK(s)
      BY <2>1, <3>1, AtomOK
    <3>3. src \in SUBSET Nat
      BY <2>1 DEF SessionOK, StateOK
    <3>4. e \in Lines
      BY <3>1, <3>2, <3>3, LinesWritten
    <3>5. /\ e.type = "atom" /\ e.seq = s.seq
          /\ e.payload.kind = k /\ e.payload.num = num /\ e.payload.src = src
      BY DEF AtomLine, Line
    <3> HIDE DEF e
    <3>6. Step(e, live, s) /\ e # Meta /\ e # Torn
      BY <3>1, <3>5 DEF Step, Meta, Torn
    <3> HIDE DEF s
    <3> QED BY <2>1, <3>1, <3>4, <3>6, LoggedKeeps
  <2>7. CASE Checkpoint
    <3> DEFINE e == Snapshot(live, own)
    <3>1. e \in Lines /\ e.type = "checkpoint" /\ e.seq = live.seq
      BY <2>1, LinesWritten DEF Snapshot
    <3>2. e # Meta /\ e # Torn
      BY <3>1 DEF Meta, Torn
    <3>3. journal' = Append(journal, e) /\ up /\ UNCHANGED <<objs, live, own, up, failed, rolled>>
      BY <2>7 DEF Checkpoint
    <3>4. Step(e, live, live)
      BY <2>1, <3>1 DEF Step, Marks
    <3> HIDE DEF e
    <3>5. /\ journal' \in Seq(Lines) /\ Len(journal') # 0 /\ journal'[1] = Meta
          /\ \A i \in 2..Len(journal') : journal'[i] # Meta
          /\ Unreadable(journal') <=> Unreadable(journal)
      BY <2>1, <3>1, <3>2, <3>3, Appended
    <3>6. Recorded'
      <4> SUFFICES ASSUME Straight' PROVE IF Unreadable(journal') THEN ~up'
                                          ELSE \E h : HistoryOf(h, journal', live')
        BY DEF Recorded
      <4>1. Straight
        BY <3>3 DEF Straight
      <4>2. PICK h : HistoryOf(h, journal, live) /\ ~Unreadable(journal)
        BY <2>1, <3>3, <4>1 DEF Recorded
      <4>3. \E h1 : HistoryOf(h1, Append(journal, e), live)
        BY <2>1, <3>4, <4>2, HistoryGrows
      <4> QED BY <3>3, <3>5, <4>2, <4>3
    <3> QED BY <2>1, <3>3, <3>5, <3>6 DEF JInv
  <2>8. CASE Compact
    <3>1. journal' = <<Meta, Snapshot(live, own)>> /\ UNCHANGED <<objs, live, own, up, failed, rolled>>
      BY <2>8 DEF Compact
    <3>2. /\ Snapshot(live, own) \in Lines /\ Meta \in Lines
          /\ Snapshot(live, own) # Meta /\ Snapshot(live, own) # Torn /\ Meta # Torn
      BY <2>1, LinesWritten DEF Snapshot, Meta, Torn
    <3>3. \E h : HistoryOf(h, journal', live')
      BY <2>1, <3>1, HistoryFolds
    <3>4. /\ journal' \in Seq(Lines) /\ Len(journal') = 2 /\ journal'[1] = Meta
          /\ journal'[2] = Snapshot(live, own) /\ DOMAIN journal' = 1..2
      BY <3>1, <3>2
    <3>5. ~Unreadable(journal') /\ \A i \in 2..Len(journal') : journal'[i] # Meta
      BY <3>2, <3>4 DEF Unreadable
    <3>6. Recorded'
      BY <3>3, <3>5 DEF Recorded
    <3> QED BY <2>1, <3>1, <3>4, <3>5, <3>6 DEF JInv
  <2>9. CASE Crash
    <3>1. up' = FALSE /\ UNCHANGED <<live, own, failed, rolled>>
      BY <2>9 DEF Crash
    <3>2. objs' \in [Content -> Health]
      BY <2>1, <2>9 DEF Crash, AfterPut, Health
    <3>3. journal' = journal \/ journal' = Append(journal, Torn)
      BY <2>9 DEF Crash
    <3>4. Torn \in Lines /\ Torn # Meta
      BY DEF Lines, Torn, Meta
    <3>5. /\ journal' \in Seq(Lines) /\ Len(journal') # 0 /\ journal'[1] = Meta
          /\ \A i \in 2..Len(journal') : journal'[i] # Meta
          /\ ~Unreadable(journal') => journal' = journal
      <4>1. CASE journal' = journal
        BY <2>1, <4>1
      <4>2. CASE journal' = Append(journal, Torn)
        <5>1. Unreadable(journal')
          BY <2>1, <3>4, <4>2, Appended
        <5> QED BY <2>1, <3>4, <4>2, <5>1, Appended
      <4> QED BY <3>3, <4>1, <4>2
    <3>6. Recorded'
      <4>1. Straight' => Straight
        BY <3>1 DEF Straight
      <4>2. CASE Unreadable(journal')
        BY <3>1, <4>2 DEF Recorded
      <4>3. CASE ~Unreadable(journal')
        BY <2>1, <3>1, <3>5, <4>1, <4>3 DEF Recorded
      <4> QED BY <4>2, <4>3
    <3> QED BY <2>1, <3>1, <3>2, <3>5, <3>6 DEF JInv
  <2>10. CASE Resume
    <3> DEFINE r == RestoreAll(journal, objs)
    <3>1. /\ r.ok /\ live' = r.s /\ objs' = r.objs /\ up' = TRUE /\ ~Unreadable(journal)
          /\ own' = FALSE /\ UNCHANGED <<journal, failed, rolled>>
      BY <2>10 DEF Resume
    <3>2. Sound(r)
      BY <2>1, RestoreSound DEF RestoreAll
    <3>3. Recorded'
      <4> SUFFICES ASSUME Straight' PROVE \E h : HistoryOf(h, journal', live')
        BY <3>1 DEF Recorded
      <4>1. Straight
        BY <3>1 DEF Straight
      <4>2. PICK h : HistoryOf(h, journal, live)
        BY <2>1, <3>1, <4>1 DEF Recorded
      <4>3. /\ Agree(r.s, live)
            /\ \A i \in 2..Len(journal) :
                 journal[i].type = "checkpoint" => h[i].counter <= r.s.counter
        <5>1. \A i \in 2..Len(journal) : journal[i] # Torn
          BY <2>1, <3>1 DEF Unreadable
        <5>2. r.ok => /\ Agree(r.s, live)
                      /\ \A i \in 2..Len(journal) :
                           journal[i].type = "checkpoint" => h[i].counter <= r.s.counter
          BY <2>1, <4>2, <5>1, RestoreAllFollows
        <5> QED BY <3>1, <5>2
      <4> HIDE DEF r
      <4>4. HistoryOf(h, journal, r.s)
        BY <4>2, <4>3, HistoryMoves
      <4> QED BY <3>1, <4>4
    <3> HIDE DEF r
    <3> QED BY <2>1, <3>1, <3>2, <3>3 DEF JInv, Sound
  <2>11. ASSUME NEW i \in DOMAIN journal, Rollback(i) PROVE JInv'
    <3> DEFINE r == Restore(journal, objs, journal[i].seq)
    <3>1. /\ rolled < MaxRollbacks /\ rolled' = rolled + 1
          /\ live' = r.s /\ objs' = r.objs /\ up' = TRUE /\ own' = FALSE
          /\ UNCHANGED <<journal, failed>>
      BY <2>11 DEF Rollback
    <3>2. Sound(r)
      BY <2>1, RestoreSound
    <3> HIDE DEF r
    <3>3. rolled' \in 0..MaxRollbacks /\ rolled' # 0
      BY <2>1, <3>1, JournalBounds
    <3>4. Recorded'
      BY <3>3 DEF Recorded, Straight
    <3> QED BY <2>1, <3>1, <3>2, <3>3, <3>4 DEF JInv, Sound
  <2>12. ASSUME NEW c \in Content, LoseObject(c) PROVE JInv'
    <3>1. objs' \in [Content -> Health] /\ UNCHANGED <<live, journal, own, up, failed, rolled>>
      BY <2>1, <2>12 DEF LoseObject, DamageObject, Health
    <3> QED BY <2>2, <3>1
  <2>13. ASSUME NEW c \in Content, LogObserveUncounted(c) PROVE JInv'
    <3> DEFINE s == WithSkippedId(live)
    <3>1. /\ objs' = AfterPut(objs, c) /\ live' = s
          /\ UNCHANGED <<journal, own, up, failed, rolled>>
      BY <2>13 DEF LogObserveUncounted
    <3>2. objs' \in [Content -> Health] /\ Good(s)
      BY <2>1, <3>1, GoodSteps DEF AfterPut, Health
    <3>3. Agree(s, live) /\ s.counter = live.counter + 1 /\ live.counter \in Nat
      BY <2>1 DEF WithSkippedId, Agree, SessionOK, StateOK, Fields
    <3> HIDE DEF s
    <3>4. Recorded'
      <4>1. ASSUME NEW h, HistoryOf(h, journal, live) PROVE HistoryOf(h, journal, s)
        <5>1. ASSUME NEW i \in 2..Len(journal), journal[i].type = "checkpoint"
              PROVE  h[i].counter <= s.counter
          <6>1. h[i].counter <= live.counter /\ h[i].counter \in Nat
            BY <4>1, <5>1, Sizes DEF HistoryOf, Counted, Good
          <6> QED BY <3>3, <6>1
        <5> QED BY <3>3, <4>1, <5>1, HistoryMoves
      <4> QED BY <2>1, <3>1, <4>1 DEF Recorded, Straight
    <3> QED BY <2>1, <3>1, <3>2, <3>4 DEF JInv
  <2> QED BY <2>3, <2>4, <2>5, <2>6, <2>7, <2>8, <2>9, <2>10, <2>11, <2>12, <2>13
          DEF JournalNext, LogTurn
<1> QED BY <1>1, <1>2, PTL DEF JournalSpec

\* A restart of a straight history rebuilds the acknowledged session exactly,
\* but for numbers skipped, or raises; it raises only if an object is damaged,
\* the base is a checkpoint under a tokenizer_id of the session's own, or a
\* number was skipped between the base and a later observation.
THEOREM RestartLosesNothing == JournalSpec => []ResumeEqualsLive
<1>1. JInv => ResumeEqualsLive
  <2> SUFFICES ASSUME JInv, Straight, ~Unreadable(journal)
               PROVE  LET r == RestoreAll(journal, objs) IN
                      /\ r.ok => /\ r.s = [live EXCEPT !.counter = r.s.counter]
                                 /\ r.s.counter <= live.counter
                      /\ /\ \A i \in DOMAIN live.byId : objs[live.byId[i]] = "intact"
                         /\ Base # Meta => ~Base.own
                         /\ NumbersFollow
                         => r.ok
    BY DEF ResumeEqualsLive
  <2> DEFINE r == RestoreAll(journal, objs)
  <2>1. PICK h : HistoryOf(h, journal, live)
    BY DEF JInv, Recorded
  <2>2. /\ objs \in [Content -> Health] /\ journal \in Seq(Lines) /\ Len(journal) # 0
        /\ journal[1] = Meta /\ Good(live)
        /\ \A i \in 2..Len(journal) : journal[i] # Torn
    BY DEF JInv, Unreadable
  <2>3. /\ r.ok => Agree(r.s, live) /\ r.s.counter <= live.counter
        /\ /\ Held(objs, live)
           /\ Base # Meta => ~Base.own
           /\ Follow(live, GivenOut)
           => r.ok
    BY <2>1, <2>2, RestoreAllFollows DEF Base, GivenOut
  <2>4. NumbersFollow => Follow(live, GivenOut)
    BY DEF NumbersFollow, Follow
  <2>5. DOMAIN live = Fields /\ live = [x \in Fields |-> live[x]]
    BY <2>2 DEF Good, Plain
  <2>6. r.s = [x \in Fields |-> r.s[x]]
    <3>1. Sound(r)
      BY RestoreSound DEF JInv, RestoreAll
    <3> QED BY <3>1 DEF Sound, Good, Plain
  <2> HIDE DEF r
  <2>7. ASSUME r.ok PROVE r.s = [live EXCEPT !.counter = r.s.counter]
    <3> DEFINE s == r.s
    <3>1. s = [x \in Fields |-> s[x]] /\ \A x \in Fields \ {"counter"} : s[x] = live[x]
      BY <2>3, <2>6, <2>7 DEF Agree
    <3> HIDE DEF s
    <3>2. [live EXCEPT !.counter = s.counter]
            = [x \in Fields |-> IF x = "counter" THEN s.counter ELSE live[x]]
      BY <2>5
    <3>3. \A x \in Fields : s[x] = IF x = "counter" THEN s.counter ELSE live[x]
      BY <3>1
    <3>4. s = [live EXCEPT !.counter = s.counter]
      BY <3>1, <3>2, <3>3
    <3> QED BY <3>4 DEF s
  <2> QED BY <2>3, <2>4, <2>7 DEF Held, r
<1> QED BY <1>1, JournalInductive, PTL

\* Restoring to a checkpoint of a straight history brings back its turns and
\* observations exactly and its atoms as a prefix.
THEOREM RollbackIsFaithful == JournalSpec => []RollbackKeepsTurns
<1>1. JInv => RollbackKeepsTurns
  <2> SUFFICES ASSUME JInv, Straight, ~Unreadable(journal),
                      NEW i \in DOMAIN journal, journal[i].type = "checkpoint",
                      Restore(journal, objs, journal[i].seq).ok
               PROVE  LET r == Restore(journal, objs, journal[i].seq)
                          d == journal[i].state
                      IN /\ Apart(Export(r.s)) = Apart(d)
                         /\ Len(d.atoms) <= Len(r.s.atoms)
                         /\ SubSeq(r.s.atoms, 1, Len(d.atoms)) = d.atoms
    BY DEF RollbackKeepsTurns
  <2> DEFINE limit == journal[i].seq
             r == Restore(journal, objs, limit)
             b == BaseIndex(journal, limit)
  <2>1. /\ journal \in Seq(Lines) /\ Len(journal) \in Nat \ {0} /\ DOMAIN journal = 1..Len(journal)
        /\ journal[1] = Meta /\ objs \in [Content -> Health] /\ Good(live)
        /\ \A m \in 2..Len(journal) : journal[m] # Torn
    BY DEF JInv, Unreadable
  <2>2. PICK h : HistoryOf(h, journal, live)
    BY DEF JInv, Recorded
  <2>4. i \in 2..Len(journal)
    BY <2>1 DEF Meta
  <2>7. ASSUME NEW m \in 2..Len(journal)
        PROVE  /\ Good(h[m]) /\ h[m].seq \in Nat /\ journal[m].seq = h[m].seq
               /\ journal[m].type = "checkpoint" => Marks(journal[m], h[m])
    BY <2>2, HistoryLine
  <2>3. PICK t : ReplayedTo(journal, limit, t) /\ Agree(r.s, h[t])
    <3>1. limit \in Nat
      BY <2>4, <2>7
    <3> HIDE DEF limit
    <3> QED BY <2>1, <2>2, <3>1, RestoreFollows DEF limit
  <2>5. /\ b \in 1..Len(journal) /\ (b # 1 => journal[b].seq <= limit) /\ i <= b
    <3>1. limit \in Nat
      <4>1. LineOK(journal[i]) /\ journal[i] # Torn
        BY <2>1, LineIs DEF Torn
      <4> QED BY <4>1 DEF LineOK
    <3>2. /\ b \in 1..Len(journal) /\ (b # 1 => journal[b].seq <= limit)
          /\ \A k \in 1..Len(journal) : journal[k].type = "checkpoint" /\ journal[k].seq <= limit => k <= b
      <4> HIDE DEF limit
      <4> QED BY <2>1, BaseIs
    <3>3. i <= b
      BY <2>1, <3>1, <3>2
    <3> QED BY <3>1, <3>2, <3>3
  <2>6. /\ t \in b..Len(journal) /\ t \in 2..Len(journal) /\ t \in i..Len(journal)
        /\ b + 1 <= t => ~(journal[t].seq > limit)
    <3>1. /\ t \in b..Len(journal)
          /\ \A m \in b + 1..t : ~(journal[m].seq > limit)
      BY <2>3 DEF ReplayedTo
    <3> HIDE DEF b, limit
    <3>2. t \in b..Len(journal) /\ t \in 2..Len(journal) /\ t \in i..Len(journal)
      BY <2>1, <2>4, <2>5, <3>1
    <3>3. b + 1 <= t => t \in b + 1..t
      BY <2>5, <3>2
    <3> QED BY <3>1, <3>2, <3>3
  <2>8. Grows(h[i], h[t])
    BY <2>2, <2>4, <2>6 DEF HistoryOf
  <2>9. h[i].seq = h[t].seq
    <3>1. journal[t].seq \in Nat /\ limit \in Nat /\ h[t].seq = journal[t].seq /\ h[i].seq = limit
      BY <2>4, <2>6, <2>7
    <3>2. h[i].seq <= h[t].seq
      BY <2>8 DEF Grows
    <3>3. journal[t].seq <= limit
      <4>1. CASE t = b
        BY <2>5, <2>6, <3>1, <4>1
      <4>2. CASE t # b
        BY <2>5, <2>6, <3>1, <4>2
      <4> QED BY <4>1, <4>2
    <3> QED BY <3>1, <3>2, <3>3
  <2>10. /\ h[i].turns = h[t].turns /\ h[i].byId = h[t].byId
         /\ Len(h[i].atoms) <= Len(h[t].atoms)
         /\ \A n \in 1..Len(h[i].atoms) : h[t].atoms[n] = h[i].atoms[n]
    BY <2>8, <2>9 DEF Grows
  <2>11. journal[i].state = Export(h[i])
    <3>1. PICK x \in BOOLEAN : journal[i] = Snapshot(h[i], x)
      BY <2>4, <2>7 DEF Marks
    <3> QED BY <3>1 DEF Snapshot
  <2>12. /\ r.s.seq = h[t].seq /\ r.s.turns = h[t].turns /\ r.s.byId = h[t].byId
         /\ r.s.atoms = h[t].atoms
    BY <2>3 DEF Agree, Fields
  <2> HIDE DEF r
  <2>13. Apart(Export(r.s)) = Apart(Export(h[i]))
    <3>1. ASSUME NEW x, NEW y, x.seq = y.seq, x.turns = y.turns, x.byId = y.byId
          PROVE  Apart(Export(x)) = Apart(Export(y))
      <4> DEFINE c == Apart(Export(x))
                 d == Apart(Export(y))
                 Kept == {"seq", "counter", "byId", "turns", "atoms"}
      <4>1. c = [f \in Kept |-> c[f]] /\ d = [f \in Kept |-> d[f]]
        BY DEF Apart, Export
      <4>2. /\ c.seq = x.seq /\ c.counter = 0 /\ c.byId = x.byId /\ c.turns = x.turns
            /\ c.atoms = <<>>
        BY DEF Apart, Export
      <4>3. /\ d.seq = y.seq /\ d.counter = 0 /\ d.byId = y.byId /\ d.turns = y.turns
            /\ d.atoms = <<>>
        BY DEF Apart, Export
      <4> HIDE DEF c, d
      <4>4. \A f \in Kept : c[f] = d[f]
        BY <3>1, <4>2, <4>3
      <4>5. c = d
        BY <4>1, <4>4
      <4> QED BY <4>5 DEF c, d
    <3>2. h[i].seq = r.s.seq /\ h[i].turns = r.s.turns /\ h[i].byId = r.s.byId
      BY <2>9, <2>10, <2>12
    <3> QED BY <3>1, <3>2
  <2>14. h[i].atoms \in Seq(Atom) /\ h[t].atoms \in Seq(Atom)
    BY <2>4, <2>6, <2>7 DEF Good, SessionOK, StateOK
  <2>15. SubSeq(h[t].atoms, 1, Len(h[i].atoms)) = h[i].atoms
    BY <2>10, <2>14
  <2>16. Export(h[i]).atoms = h[i].atoms
    BY DEF Export
  <2> QED BY <2>10, <2>11, <2>12, <2>13, <2>15, <2>16 DEF r
<1> QED BY <1>1, JournalInductive, PTL

\* Whatever the journal went through, what restore() returns is whole.
THEOREM RestoredIsWhole == JournalSpec => []RestoredIsSound
<1>1. JInv => RestoredIsSound
  <2> SUFFICES ASSUME JInv
               PROVE  LET r == RestoreAll(journal, objs)
                          s == r.s
                      IN /\ Loadable(r.objs, Export(s))
                         /\ \A i \in DOMAIN s.byId : s.bySha[s.byId[i]] = i
                         /\ \A c \in Content : s.bySha[c] # 0 => s.byId[s.bySha[c]] = c
    BY DEF RestoredIsSound
  <2> DEFINE r == RestoreAll(journal, objs)
             s == r.s
  <2>1. Sound(r)
    BY RestoreSound DEF JInv, RestoreAll
  <2>2. SessionOK(s) /\ Held(r.objs, s)
    BY <2>1 DEF Sound, Good
  <2>3. Loadable(r.objs, Export(s))
    BY <2>2, HeldLoads
  <2> HIDE DEF r
  <2>4. Indexed(s)
    BY <2>2 DEF SessionOK
  <2> QED BY <2>3, <2>4 DEF Indexed, r
<1> QED BY <1>1, JournalInductive, PTL

\* Store, lines, counters and sizes keep their types.
THEOREM JournalTypeCorrect == JournalSpec => []JournalTypeOK
<1>1. JInv => JournalTypeOK
  <2> SUFFICES ASSUME JInv PROVE JournalTypeOK
    OBVIOUS
  <2>1. live.seq = Len(live.turns) /\ DOMAIN live.byId \subseteq 1..live.counter
    BY DEF JInv, Good, SessionOK, StateOK
  <2>3. ASSUME NEW i \in 2..Len(journal)
        PROVE  journal[i] = Torn \/ journal[i].type \in {"say", "observe", "atom", "checkpoint"}
    <3>1. journal[i] \in Lines /\ journal[i] # Meta
      BY DEF JInv
    <3> QED BY <3>1 DEF Lines
  <2> QED BY <2>1, <2>3 DEF JInv, JournalTypeOK
<1> QED BY <1>1, JournalInductive, PTL
=============================================================================
