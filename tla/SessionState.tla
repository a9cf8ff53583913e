---------------------------- MODULE SessionState ----------------------------
(***************************************************************************)
(* The data of rcc/session.py: what a research session holds, what one     *)
(* ingestion call does to it, what is persisted of it and read back, and   *)
(* what compile() shows of each turn.  Session and Journal build their     *)
(* state machines from these operators.                                    *)
(*                                                                         *)
(* A content stands for its bytes, its hash and the one number it quotes.  *)
(* The store is a function from contents to what its object file is worth: *)
(* absent, intact, or corrupt (get() raises on it).                        *)
(***************************************************************************)
EXTENDS Naturals, Sequences, FiniteSets

CONSTANTS Content,         \* observation contents
          Message,         \* trusted messages (role, text, protected flag)
          Kinds,           \* atom kinds (F, Q, N, C)
          Bulky,           \* contents of at least min_mask_tokens tokens
          KeepRecent,      \* Policy.keep_recent
          MaskDuplicates,  \* Policy.mask_duplicates
          MaxTurns,        \* bound: turns of one session
          MaxAtoms,        \* bound: atoms of one session
          MaxSkipped       \* bound: ids of one session no content has

NoNumber == "no number"    \* an atom whose text quotes no number

ASSUME ContentNames == NoNumber \notin Content
ASSUME PolicyType == Bulky \subseteq Content /\ KeepRecent \in Nat /\ MaskDuplicates \in BOOLEAN

ASSUME SessionBounds == {MaxTurns, MaxAtoms, MaxSkipped} \subseteq Nat

VARIABLES objs,    \* the store: what each content's object is worth
          live     \* the session in memory

Health == {"absent", "intact", "corrupt"}

\* A new ResearchSession.  byId and bySha are its two observation indexes
\* (0 for a content without an id), made the number of atoms per kind.
FreshSession ==
  [seq |-> 0, counter |-> 0, byId |-> <<>>, bySha |-> [c \in Content |-> 0],
   turns |-> <<>>, atoms |-> <<>>, made |-> [k \in Kinds |-> 0],
   failures |-> 0, injection |-> FALSE]

\* The environment: an object file is corrupted or removed.
DamageObject(c) ==
  /\ objs[c] = "intact"
  /\ \E h \in {"absent", "corrupt"} : objs' = [objs EXCEPT ![c] = h]

\* RawStore.put: a corrupt object raises, an absent one is published.
Putable(o, c) == o[c] # "corrupt"
AfterPut(o, c) == [o EXCEPT ![c] = "intact"]

\* say()
WithMessage(s, m) ==
  [s EXCEPT !.turns = Append(@, [kind |-> "message", msg |-> m, seq |-> s.seq]),
            !.seq = @ + 1]

\* observe() of a content already put: one id per content, assigned once.
Known(s, c) == s.bySha[c] # 0
IdOf(s, c) == IF Known(s, c) THEN s.bySha[c] ELSE s.counter + 1

WithObservation(s, c) ==
  LET id == IdOf(s, c) IN
  [s EXCEPT !.counter = IF Known(s, c) THEN @ ELSE id,
            !.byId    = [i \in DOMAIN s.byId \cup {id} |-> IF i = id THEN c ELSE s.byId[i]],
            !.bySha   = [@ EXCEPT ![c] = id],
            !.turns   = Append(@, [kind |-> "observation", id |-> id, seq |-> s.seq]),
            !.seq     = @ + 1]

\* observe() of a new content whose token count raises: the caller catches an
\* error, and the number taken for it is gone.
WithSkippedId(s) == [s EXCEPT !.counter = @ + 1]

\* Numbers given to no content.
Skipped(s) == 1..s.counter \ DOMAIN s.byId

\* _validate_numbers: every source is known and readable, and a number in the
\* text is the number of some source.
Sourced(byId, src, num) ==
  /\ src \subseteq DOMAIN byId
  /\ num # NoNumber => \E i \in src : byId[i] = num
Backed(o, s, src, num) ==
  /\ Sourced(s.byId, src, num)
  /\ \A i \in src : o[s.byId[i]] = "intact"

\* Scratch.add once it is backed.
WithAtom(s, k, num, src) ==
  [s EXCEPT !.made[k] = @ + 1,
            !.atoms = Append(@, [kind |-> k, n |-> s.made[k] + 1, num |-> num, src |-> src])]

\* _export_state: everything but the hash index, the atom counters (both
\* rebuilt on load) and the two router signals.
Export(s) == [seq |-> s.seq, counter |-> s.counter, byId |-> s.byId,
              turns |-> s.turns, atoms |-> s.atoms]

\* _from_state reads every observation's object back and validates every atom.
Loadable(o, d) ==
  /\ \A i \in DOMAIN d.byId : o[d.byId[i]] = "intact"
  /\ \A n \in DOMAIN d.turns :
       d.turns[n].kind = "observation" => d.turns[n].id \in DOMAIN d.byId
  /\ \A n \in DOMAIN d.atoms : Sourced(d.byId, d.atoms[n].src, d.atoms[n].num)
  /\ \A m, n \in DOMAIN d.atoms :
       d.atoms[m].kind = d.atoms[n].kind /\ d.atoms[m].n = d.atoms[n].n => m = n

Greatest(S) == CHOOSE x \in S : \A y \in S : y <= x

FromStateRestartingAtoms(d) ==
  [seq |-> d.seq, counter |-> d.counter, byId |-> d.byId,
   bySha |-> [c \in Content |-> Greatest({0} \cup {i \in DOMAIN d.byId : d.byId[i] = c})],
   turns |-> d.turns, atoms |-> d.atoms,
   made |-> [k \in Kinds |-> 0], failures |-> 0, injection |-> FALSE]

FromStateWithoutDedupIndex(d) ==
  [seq |-> d.seq, counter |-> d.counter, byId |-> d.byId,
   bySha |-> [c \in Content |-> 0], turns |-> d.turns, atoms |-> d.atoms,
   made |-> [k \in Kinds |-> Cardinality({n \in DOMAIN d.atoms : d.atoms[n].kind = k})],
   failures |-> 0, injection |-> FALSE]

FromState(d) ==
  LET Ids(c)  == {i \in DOMAIN d.byId : d.byId[i] = c}
      Nums(k) == {d.atoms[n].n : n \in {m \in DOMAIN d.atoms : d.atoms[m].kind = k}}
  IN [seq |-> d.seq, counter |-> d.counter, byId |-> d.byId,
      bySha |-> [c \in Content |-> Greatest({0} \cup Ids(c))],
      turns |-> d.turns, atoms |-> d.atoms,
      made |-> [k \in Kinds |-> Greatest({0} \cup Nums(k))],
      failures |-> 0, injection |-> FALSE]
=============================================================================
