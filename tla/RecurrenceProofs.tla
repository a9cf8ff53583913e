-------------------------- MODULE RecurrenceProofs --------------------------
(***************************************************************************)
(* TLAPS proofs about a LocalizedRecurrence over its lifetime, for any     *)
(* layers, prompts, configurations, arguments and failures.                *)
(*                                                                         *)
(* Programs are typed by the scopes that are open when they run: a program *)
(* that Runs(p, x, y) leaves scopes y when it starts in scopes x, and all  *)
(* methods but load() run from no scope to no scope.                       *)
(*                                                                         *)
(* From that follow, in this order: a call leaves no trace, it computes    *)
(* what it computes on a fresh runtime, each candidate is scored as if it  *)
(* were the only one, and controls score as calls without recurrence.      *)
(***************************************************************************)
EXTENDS Recurrence, FiniteSetTheorems, WellFoundedInduction, TLAPS

\* The scopes that can be open at once: adapter switches, a guard window, and
\* within it the finally block that restores the prompt's cache.
Scopes == {"out", "lora", "window", "window lora", "finally", "finally lora"}

\* Instructions that neither open nor close a scope nor write a tensor.
Flat == {"embed", "layer", "boundary", "state", "base", "tick", "update", "ablate",
         "rewind", "readout", "readdelta", "reset", "snap", "restore", "view",
         "score", "head", "inject", "raise"}

\* An instruction of kind k opens scopes y within scopes x.
Opens(x, k, y) ==
  \/ x = "out" /\ k = "lora" /\ y = "lora"
  \/ x = "window" /\ k = "lora" /\ y = "window lora"
  \/ x = "finally" /\ k = "lora" /\ y = "finally lora"
  \/ x = "out" /\ k = "window" /\ y = "window"
  \/ x = "window" /\ k = "finally" /\ y = "finally"

\* Leaving the innermost of scopes x leads to scopes y.
Closes(x, y) == \E k : Opens(y, k, x)

\* Instruction i leads from scopes x to scopes y.
Move(x, i, y) ==
  \/ i[1] \in Flat /\ x = y
  \/ Opens(x, i[1], y)
  \/ i[1] = "end" /\ Closes(x, y)

IsSequence(p) == \E S : p \in Seq(S)

\* d is the record of the scopes a program goes through.
Passes(d, p, x, y) ==
  /\ d[0] = x /\ d[Len(p)] = y
  /\ \A n \in 0..Len(p) : d[n] \in Scopes
  /\ \A n \in 1..Len(p) : Move(d[n - 1], p[n], d[n])

Runs(p, x, y) == IsSequence(p) /\ \E d : Passes(d, p, x, y)

\* A program of flat instructions.
AllFlat(p) == IsSequence(p) /\ \A n \in 1..Len(p) : p[n][1] \in Flat

\* A set of positions that is not empty has a first one.
LEMMA FirstOf ==
  ASSUME NEW S \in SUBSET Nat, S # {}
  PROVE  \E n \in S : \A m \in S : ~(m < n)
<1>1. PICK n \in S : \A m \in S : <<m, n>> \notin OpToRel(<, Nat)
  BY NatLessThanWellFounded, WFMin
<1>2. \A m \in S : ~(m < n)
  BY <1>1 DEF OpToRel
<1> QED BY <1>2

\* Sequences joined.
LEMMA JoinIs ==
  ASSUME NEW p, NEW q, IsSequence(p), IsSequence(q)
  PROVE  /\ IsSequence(p \o q) /\ Len(p \o q) = Len(p) + Len(q)
         /\ Len(p) \in Nat /\ Len(q) \in Nat
         /\ \A n \in 1..Len(p) : (p \o q)[n] = p[n]
         /\ \A n \in 1..Len(q) : (p \o q)[Len(p) + n] = q[n]
<1>1. PICK S, T : p \in Seq(S) /\ q \in Seq(T)
  BY DEF IsSequence
<1>2. p \in Seq(S \cup T) /\ q \in Seq(S \cup T)
  BY <1>1
<1>3. p \o q \in Seq(S \cup T)
  BY <1>2
<1> QED BY <1>2, <1>3 DEF IsSequence

\* Flat instructions run in any scopes and leave them.
LEMMA FlatRuns ==
  ASSUME NEW p, AllFlat(p), NEW x \in Scopes
  PROVE  Runs(p, x, x)
<1> DEFINE d == [n \in 0..Len(p) |-> x]
<1>1. Len(p) \in Nat
  BY DEF AllFlat, IsSequence
<1>2. Passes(d, p, x, x)
  BY <1>1 DEF AllFlat, Passes, Move
<1> QED BY <1>2 DEF Runs, AllFlat

\* One program after the other.
LEMMA JoinRuns ==
  ASSUME NEW p, NEW q, NEW x, NEW y, NEW z, Runs(p, x, y), Runs(q, y, z)
  PROVE  Runs(p \o q, x, z)
<1>1. PICK d, e : Passes(d, p, x, y) /\ Passes(e, q, y, z)
  BY DEF Runs
<1> DEFINE r == p \o q
           a == Len(p)
           b == Len(q)
           f == [n \in 0..a + b |-> IF n <= a THEN d[n] ELSE e[n - a]]
<1>2. /\ IsSequence(r) /\ Len(r) = a + b /\ a \in Nat /\ b \in Nat
      /\ \A n \in 1..a : r[n] = p[n]
      /\ \A n \in 1..b : r[a + n] = q[n]
  BY JoinIs DEF Runs
<1> HIDE DEF r, a, b
<1>3. /\ d[0] = x /\ d[a] = y
      /\ \A n \in 0..a : d[n] \in Scopes
      /\ \A n \in 1..a : Move(d[n - 1], p[n], d[n])
  BY <1>1 DEF Passes, a
<1>4. /\ e[0] = y /\ e[b] = z
      /\ \A n \in 0..b : e[n] \in Scopes
      /\ \A n \in 1..b : Move(e[n - 1], q[n], e[n])
  BY <1>1 DEF Passes, b
<1>5. /\ \A n \in 0..a : f[n] = d[n]
      /\ \A n \in 0..b : f[a + n] = e[n]
  <2>1. \A n \in 0..a : n \in 0..a + b /\ n <= a
    BY <1>2
  <2>2. \A n \in 0..b : a + n \in 0..a + b /\ (a + n <= a => n = 0) /\ (a + n) - a = n
    BY <1>2
  <2>3. \A n \in 0..a : f[n] = d[n]
    BY <2>1
  <2>4. ASSUME NEW n \in 0..b PROVE f[a + n] = e[n]
    <3>1. CASE n = 0
      BY <1>2, <1>3, <1>4, <2>3, <3>1
    <3>2. CASE n # 0
      <4>1. a + n \in 0..a + b /\ ~(a + n <= a) /\ (a + n) - a = n
        BY <2>2, <3>2
      <4> QED BY <4>1
    <3> QED BY <3>1, <3>2
  <2> QED BY <2>3, <2>4
<1> HIDE DEF f
<1>6. f[0] = x /\ f[a + b] = z
  BY <1>2, <1>3, <1>4, <1>5
<1>7. ASSUME NEW n \in 0..a + b PROVE f[n] \in Scopes
  <2>1. n \in 0..a \/ (n - a \in 0..b /\ n = a + (n - a))
    BY <1>2
  <2> QED BY <1>3, <1>4, <1>5, <2>1
<1>8. ASSUME NEW n \in 1..a + b PROVE Move(f[n - 1], r[n], f[n])
  <2>1. CASE n \in 1..a
    <3>1. n \in 0..a /\ n - 1 \in 0..a
      BY <1>2, <2>1
    <3> QED BY <1>2, <1>3, <1>5, <2>1, <3>1
  <2>2. CASE n \notin 1..a
    <3> DEFINE m == n - a
    <3>1. m \in 1..b /\ m \in 0..b /\ m - 1 \in 0..b /\ n = a + m /\ n - 1 = a + (m - 1)
      BY <1>2, <2>2
    <3> HIDE DEF m
    <3>2. f[n] = e[m] /\ f[n - 1] = e[m - 1] /\ r[n] = q[m]
      BY <1>2, <1>5, <3>1
    <3> QED BY <1>4, <3>1, <3>2
  <2> QED BY <2>1, <2>2
<1>9. Passes(f, r, x, z)
  BY <1>2, <1>6, <1>7, <1>8 DEF Passes
<1> QED BY <1>2, <1>9 DEF Runs, r

\* One instruction.
LEMMA OneRuns ==
  ASSUME NEW i, NEW x \in Scopes, NEW y \in Scopes, Move(x, i, y)
  PROVE  Runs(<<i>>, x, y)
<1> DEFINE d == [n \in 0..1 |-> IF n = 0 THEN x ELSE y]
           p == <<i>>
<1>1. p \in Seq({i}) /\ Len(p) = 1 /\ p[1] = i
  OBVIOUS
<1>2. d[0] = x /\ d[1] = y
  OBVIOUS
<1> HIDE DEF d, p
<1>3. \A n \in 0..1 : n = 0 \/ n = 1
  OBVIOUS
<1>4. \A n \in 1..1 : n = 1 /\ n - 1 = 0
  OBVIOUS
<1>5. Passes(d, p, x, y)
  BY <1>1, <1>2, <1>3, <1>4 DEF Passes
<1> QED BY <1>1, <1>5 DEF Runs, IsSequence, p

\* What a program leaves when it ends, and where its first step leads.
LEMMA RunsStart ==
  ASSUME NEW p, NEW x, NEW y, Runs(p, x, y)
  PROVE  /\ x \in Scopes /\ (p = <<>> => x = y)
         /\ p # <<>> => \E z : Move(x, Head(p), z) /\ Runs(Tail(p), z, y)
<1>1. PICK d : Passes(d, p, x, y)
  BY DEF Runs
<1>2. PICK S : p \in Seq(S)
  BY DEF Runs, IsSequence
<1>3. x \in Scopes /\ (p = <<>> => x = y)
  BY <1>1, <1>2 DEF Passes
<1>4. ASSUME p # <<>> PROVE \E z : Move(x, Head(p), z) /\ Runs(Tail(p), z, y)
  <2> DEFINE q == Tail(p)
             e == [n \in 0..Len(q) |-> d[n + 1]]
  <2>1. /\ Len(p) \in Nat \ {0} /\ Head(p) = p[1] /\ q \in Seq(S)
        /\ Len(q) = Len(p) - 1
        /\ \A n \in 1..Len(q) : q[n] = p[n + 1]
    BY <1>2, <1>4
  <2>2. \A n \in 0..Len(q) : e[n] = d[n + 1]
    OBVIOUS
  <2> HIDE DEF q, e
  <2>3. Move(x, Head(p), d[1])
    <3>1. 1 \in 1..Len(p) /\ 1 - 1 = 0
      BY <2>1
    <3>2. Move(d[1 - 1], p[1], d[1]) /\ d[0] = x
      BY <1>1, <3>1 DEF Passes
    <3> QED BY <2>1, <3>1, <3>2
  <2>4. Passes(e, q, d[1], y)
    <3>1. 0 \in 0..Len(q) /\ Len(q) \in 0..Len(q) /\ Len(q) + 1 = Len(p) /\ 0 + 1 = 1
      BY <2>1
    <3>2. e[0] = d[1] /\ e[Len(q)] = y
      BY <1>1, <2>2, <3>1 DEF Passes
    <3>3. \A n \in 0..Len(q) : n + 1 \in 0..Len(p)
      BY <2>1
    <3>4. \A n \in 0..Len(q) : e[n] \in Scopes
      BY <1>1, <2>2, <3>3 DEF Passes
    <3>5. ASSUME NEW n \in 1..Len(q) PROVE Move(e[n - 1], q[n], e[n])
      <4>1. n + 1 \in 1..Len(p) /\ n \in 0..Len(q) /\ n - 1 \in 0..Len(q)
            /\ (n - 1) + 1 = n /\ (n + 1) - 1 = n
        BY <2>1
      <4>2. Move(d[(n + 1) - 1], p[n + 1], d[n + 1])
        BY <1>1, <4>1 DEF Passes
      <4>3. q[n] = p[n + 1] /\ e[n] = d[n + 1] /\ e[n - 1] = d[n]
        BY <2>1, <2>2, <4>1
      <4> QED BY <4>1, <4>2, <4>3
    <3> QED BY <3>2, <3>4, <3>5 DEF Passes
  <2>5. Runs(q, d[1], y)
    BY <2>1, <2>4 DEF Runs, IsSequence
  <2> QED BY <2>3, <2>5 DEF q
<1> QED BY <1>3, <1>4

\* f joins the sequences of seqs one after the other, up to position n.
Joins(f, seqs, n) ==
  f = [i \in 1..n |-> IF i = 1 THEN seqs[i] ELSE f[i-1] \o seqs[i]]

\* Sequences can be joined up to every position.
LEMMA JoinsExist ==
  ASSUME NEW seqs, NEW len \in Nat
  PROVE  \E f : Joins(f, seqs, len)
<1> DEFINE Bad == {n \in Nat : ~ \E f : Joins(f, seqs, n)}
<1> SUFFICES ASSUME Bad # {} PROVE FALSE
  OBVIOUS
<1>1. PICK n \in Bad : \A m \in Bad : ~(m < n)
  <2>1. Bad \in SUBSET Nat
    OBVIOUS
  <2> HIDE DEF Bad
  <2> QED BY <2>1, FirstOf
<1>2. n \in Nat /\ ~ \E f : Joins(f, seqs, n)
  OBVIOUS
<1>3. CASE n = 0
  <2> DEFINE f == [i \in 1..0 |-> <<>>]
  <2>1. f = [i \in 1..0 |-> IF i = 1 THEN seqs[i] ELSE f[i-1] \o seqs[i]]
    OBVIOUS
  <2> QED BY <1>2, <1>3, <2>1 DEF Joins
<1>4. CASE n # 0
  <2>1. n - 1 \in Nat /\ n - 1 < n
    BY <1>2, <1>4
  <2>2. PICK g : Joins(g, seqs, n - 1)
    <3>1. n - 1 \notin Bad
      BY <1>1, <2>1
    <3> QED BY <2>1, <3>1
  <2> DEFINE last == IF n = 1 THEN seqs[n] ELSE g[n-1] \o seqs[n]
             f == [i \in 1..n |-> IF i = n THEN last ELSE g[i]]
  <2>3. \A i \in 1..n - 1 : g[i] = IF i = 1 THEN seqs[i] ELSE g[i-1] \o seqs[i]
    BY <2>2 DEF Joins
  <2>4. ASSUME NEW i \in 1..n
        PROVE  f[i] = IF i = 1 THEN seqs[i] ELSE f[i-1] \o seqs[i]
    <3>1. CASE i = n
      <4>1. f[i] = last /\ (i # 1 => f[i-1] = g[i-1])
        BY <1>2, <1>4, <2>1, <3>1
      <4> QED BY <3>1, <4>1
    <3>2. CASE i # n
      <4>1. i \in 1..n - 1
        BY <1>2, <3>2
      <4>2. f[i] = g[i]
        BY <3>2
      <4>3. i # 1 => f[i-1] = g[i-1]
        BY <1>2, <4>1
      <4> QED BY <2>3, <4>1, <4>2, <4>3
    <3> QED BY <3>1, <3>2
  <2>5. f = [i \in 1..n |-> f[i]]
    OBVIOUS
  <2> HIDE DEF f
  <2>6. Joins(f, seqs, n)
    BY <2>4, <2>5 DEF Joins
  <2> QED BY <1>2, <2>6
<1> QED BY <1>3, <1>4

\* Programs that each end in the scopes they started in do so joined.
LEMMA FlattenRuns ==
  ASSUME NEW seqs, Len(seqs) \in Nat, Len(seqs) = 0 => seqs = <<>>,
         NEW x \in Scopes, \A j \in 1..Len(seqs) : Runs(seqs[j], x, x)
  PROVE  Runs(FlattenSeq(seqs), x, x)
<1> DEFINE len == Len(seqs)
           flatten[i \in 1..len] ==
             IF i = 1 THEN seqs[i] ELSE flatten[i-1] \o seqs[i]
<1>1. CASE len = 0
  <2>1. FlattenSeq(seqs) = <<>>
    BY <1>1 DEF FlattenSeq
  <2>2. AllFlat(<<>>)
    BY DEF AllFlat, IsSequence
  <2> QED BY <2>1, <2>2, FlatRuns
<1>2. CASE len # 0
  <2>1. PICK f : Joins(f, seqs, len)
    BY JoinsExist
  <2>2. f = [i \in 1..len |-> IF i = 1 THEN seqs[i] ELSE f[i-1] \o seqs[i]]
    BY <2>1 DEF Joins
  <2>3. flatten = [i \in 1..len |-> IF i = 1 THEN seqs[i] ELSE flatten[i-1] \o seqs[i]]
    BY <2>2
  <2>4. FlattenSeq(seqs) = flatten[len]
    BY <1>2 DEF FlattenSeq
  <2> HIDE DEF flatten, len
  <2>5. ASSUME NEW i \in 1..len
        PROVE  flatten[i] = IF i = 1 THEN seqs[i] ELSE flatten[i-1] \o seqs[i]
    BY <2>3
  <2> DEFINE Bad == {n \in Nat : n \in 1..len /\ ~Runs(flatten[n], x, x)}
  <2>6. CASE Bad = {}
    <3>1. len \in Nat /\ len \in 1..len
      BY <1>2 DEF len
    <3> QED BY <2>4, <2>6, <3>1
  <2>7. CASE Bad # {}
    <3>1. PICK n \in Bad : \A m \in Bad : ~(m < n)
      <4>1. Bad \in SUBSET Nat
        OBVIOUS
      <4> HIDE DEF Bad
      <4> QED BY <2>7, <4>1, FirstOf
    <3>2. n \in 1..len /\ ~Runs(flatten[n], x, x) /\ len \in Nat
      BY DEF len
    <3>3. Runs(seqs[n], x, x)
      BY <3>2 DEF len
    <3>4. CASE n = 1
      BY <2>5, <3>2, <3>3, <3>4
    <3>5. CASE n # 1
      <4>1. n - 1 \in Nat /\ n - 1 \in 1..len /\ n - 1 < n
        BY <3>2, <3>5
      <4>2. Runs(flatten[n-1], x, x)
        BY <3>1, <4>1
      <4>3. Runs(flatten[n-1] \o seqs[n], x, x)
        BY <3>3, <4>2, JoinRuns
      <4> QED BY <2>5, <3>2, <3>5, <4>3
    <3> QED BY <3>4, <3>5
  <2> QED BY <2>6, <2>7
<1> QED BY <1>1, <1>2

\* A scope around a program that ends in the scope.
LEMMA ScopeRuns ==
  ASSUME NEW i, NEW e, NEW body, NEW x \in Scopes, NEW y \in Scopes,
         Opens(x, i[1], y), e[1] = "end", Runs(body, y, y)
  PROVE  Runs(<<i>> \o body \o <<e>>, x, x)
<1>1. Move(x, i, y)
  BY DEF Move
<1>2. Move(y, e, x)
  <2>1. Closes(y, x)
    BY DEF Closes
  <2> QED BY <2>1 DEF Move
<1>3. Runs(<<i>>, x, y) /\ Runs(<<e>>, y, x)
  BY <1>1, <1>2, OneRuns
<1>4. Runs(<<i>> \o body, x, y)
  BY <1>3, JoinRuns
<1> QED BY <1>3, <1>4, JoinRuns

\* The context managers of the code, in the scopes they are opened in.
LEMMA ScopedRuns ==
  ASSUME NEW r, NEW on, NEW body, NEW x \in {"out", "window", "finally"},
         \A y \in Scopes : Runs(body, y, y)
  PROVE  Runs(Scoped(r, on, body), x, x)
<1> DEFINE y == CASE x = "out" -> "lora" [] x = "window" -> "window lora"
                  [] x = "finally" -> "finally lora"
<1>1. y \in Scopes /\ x \in Scopes /\ Opens(x, "lora", y)
  BY DEF Scopes, Opens
<1> HIDE DEF y
<1>2. Runs(body, y, y) /\ Runs(body, x, x)
  BY <1>1
<1> DEFINE i == <<"lora", on>>
           e == <<"end">>
<1>3. i[1] = "lora" /\ e[1] = "end"
  OBVIOUS
<1> HIDE DEF i, e
<1>4. Runs(<<i>> \o body \o <<e>>, x, x)
  BY <1>1, <1>2, <1>3, ScopeRuns
<1> QED BY <1>2, <1>4 DEF Scoped, i, e

LEMMA GuardedRuns ==
  ASSUME NEW body, Runs(body, "window", "window")
  PROVE  Runs(Guarded(body), "out", "out")
<1> DEFINE i == <<"window">>
           e == <<"end">>
<1>1. /\ i[1] = "window" /\ e[1] = "end" /\ "out" \in Scopes /\ "window" \in Scopes
      /\ Opens("out", "window", "window")
  BY DEF Scopes, Opens
<1> HIDE DEF i, e
<1>2. Runs(<<i>> \o body \o <<e>>, "out", "out")
  BY <1>1, ScopeRuns
<1> QED BY <1>2 DEF Guarded, i, e

LEMMA FinallyRuns ==
  ASSUME NEW c, NEW key, NEW body, Runs(body, "finally", "finally")
  PROVE  Runs(<<<<"finally", c, key>>>> \o body \o <<<<"end">>>>, "window", "window")
<1> DEFINE i == <<"finally", c, key>>
           e == <<"end">>
<1>1. /\ i[1] = "finally" /\ e[1] = "end" /\ "window" \in Scopes /\ "finally" \in Scopes
      /\ Opens("window", "finally", "finally")
  BY DEF Scopes, Opens
<1> HIDE DEF i, e
<1>2. Runs(<<i>> \o body \o <<e>>, "window", "window")
  BY <1>1, ScopeRuns
<1> QED BY <1>2 DEF i, e

\* Tuples as joined sequences.
LEMMA SameSequence ==
  ASSUME NEW p, NEW q, IsSequence(p), IsSequence(q), Len(p) = Len(q),
         \A n \in 1..Len(p) : p[n] = q[n]
  PROVE  p = q
<1>1. PICK S, T : p \in Seq(S) /\ q \in Seq(T)
  BY DEF IsSequence
<1>2. p = [n \in 1..Len(p) |-> p[n]] /\ q = [n \in 1..Len(q) |-> q[n]]
  BY <1>1
<1> QED BY <1>2

LEMMA PairJoined ==
  ASSUME NEW i, NEW j
  PROVE  <<i>> \o <<j>> = <<i, j>>
<1> DEFINE p == <<i>>
           q == <<j>>
           t == <<i, j>>
           r == p \o q
<1>1. /\ p \in Seq({i}) /\ Len(p) = 1 /\ p[1] = i
      /\ q \in Seq({j}) /\ Len(q) = 1 /\ q[1] = j
  OBVIOUS
<1>2. t \in Seq({i, j}) /\ Len(t) = 2 /\ t[1] = i /\ t[2] = j
  OBVIOUS
<1> HIDE DEF p, q, t
<1>3. IsSequence(r) /\ Len(r) = 2 /\ r[1] = i /\ r[2] = j
  <2>1. IsSequence(p) /\ IsSequence(q)
    BY <1>1 DEF IsSequence
  <2>2. /\ IsSequence(r) /\ Len(r) = Len(p) + Len(q)
        /\ \A n \in 1..Len(p) : r[n] = p[n]
        /\ \A n \in 1..Len(q) : r[Len(p) + n] = q[n]
    BY <2>1, JoinIs
  <2>3. 1 \in 1..Len(p) /\ 1 \in 1..Len(q) /\ Len(p) + 1 = 2 /\ Len(p) + Len(q) = 2
    BY <1>1
  <2> QED BY <1>1, <2>2, <2>3
<1> HIDE DEF r
<1>4. \A n \in 1..2 : r[n] = t[n]
  BY <1>2, <1>3
<1>5. r = t
  BY <1>2, <1>3, <1>4, SameSequence DEF IsSequence
<1> QED BY <1>5 DEF r, p, q, t

LEMMA TripleJoined ==
  ASSUME NEW i, NEW j, NEW k
  PROVE  <<i>> \o <<j>> \o <<k>> = <<i, j, k>>
<1> DEFINE p == <<i, j>>
           q == <<k>>
           t == <<i, j, k>>
           r == p \o q
<1>1. /\ p \in Seq({i, j}) /\ Len(p) = 2 /\ p[1] = i /\ p[2] = j
      /\ q \in Seq({k}) /\ Len(q) = 1 /\ q[1] = k
  OBVIOUS
<1>2. t \in Seq({i, j, k}) /\ Len(t) = 3 /\ t[1] = i /\ t[2] = j /\ t[3] = k
  OBVIOUS
<1> HIDE DEF p, q, t
<1>3. IsSequence(r) /\ Len(r) = 3 /\ r[1] = i /\ r[2] = j /\ r[3] = k
  <2>1. IsSequence(p) /\ IsSequence(q)
    BY <1>1 DEF IsSequence
  <2>2. /\ IsSequence(r) /\ Len(r) = Len(p) + Len(q)
        /\ \A n \in 1..Len(p) : r[n] = p[n]
        /\ \A n \in 1..Len(q) : r[Len(p) + n] = q[n]
    BY <2>1, JoinIs
  <2>3. /\ 1 \in 1..Len(p) /\ 2 \in 1..Len(p) /\ 1 \in 1..Len(q)
        /\ Len(p) + 1 = 3 /\ Len(p) + Len(q) = 3
    BY <1>1
  <2> QED BY <1>1, <2>2, <2>3
<1> HIDE DEF r
<1>4. \A n \in 1..3 : r[n] = t[n]
  BY <1>2, <1>3
<1>5. r = t
  BY <1>2, <1>3, <1>4, SameSequence DEF IsSequence
<1> QED BY <1>5, PairJoined DEF r, p, q, t

\* The positions of a sequence, and intervals from 1.
LEMMA SequenceDomain ==
  ASSUME NEW S, NEW p \in Seq(S)
  PROVE  Len(p) \in Nat /\ DOMAIN p = 1..Len(p)
OBVIOUS

LEMMA SameInterval ==
  ASSUME NEW a \in Nat, NEW b \in Nat, 1..a = 1..b
  PROVE  a = b
<1>1. a # 0 => a \in 1..a
  OBVIOUS
<1>2. b # 0 => b \in 1..b
  OBVIOUS
<1>3. a # 0 => a \in 1..b
  BY <1>1
<1>4. b # 0 => b \in 1..a
  BY <1>2
<1> QED BY <1>3, <1>4

\* A function on an interval from 1 is a sequence.
LEMMA FunctionIsSequence ==
  ASSUME NEW n \in Int, NEW f, f = [j \in 1..n |-> f[j]]
  PROVE  IsSequence(f) /\ Len(f) \in Nat /\ (Len(f) = 0 => f = <<>>) /\ 1..Len(f) = 1..n
<1> DEFINE m == IF n < 0 THEN 0 ELSE n
           S == {f[j] : j \in 1..n}
<1>1. m \in Nat /\ 1..m = 1..n
  OBVIOUS
<1>2. f \in [1..m -> S]
  BY <1>1
<1> HIDE DEF m, S
<1>3. f \in Seq(S)
  BY <1>1, <1>2
<1>4. Len(f) = m
  <2>1. Len(f) \in Nat /\ DOMAIN f = 1..Len(f)
    BY <1>3, SequenceDomain
  <2>2. DOMAIN f = 1..m
    BY <1>2
  <2>3. 1..Len(f) = 1..m
    BY <2>1, <2>2
  <2> QED BY <1>1, <2>1, <2>3, SameInterval
<1>5. Len(f) = 0 => f = <<>>
  BY <1>3
<1>6. IsSequence(f)
  BY <1>3 DEF IsSequence
<1> QED BY <1>1, <1>4, <1>5, <1>6

\* Methods joined from an indexed family of programs.
LEMMA FamilyRuns ==
  ASSUME NEW n \in Int, NEW f, f = [j \in 1..n |-> f[j]],
         NEW x \in Scopes, \A j \in 1..n : Runs(f[j], x, x)
  PROVE  Runs(FlattenSeq(f), x, x)
<1>1. Len(f) \in Nat /\ (Len(f) = 0 => f = <<>>) /\ 1..Len(f) = 1..n
  BY FunctionIsSequence
<1> QED BY <1>1, FlattenRuns

LEMMA FlatOne ==
  ASSUME NEW i, i[1] \in Flat
  PROVE  AllFlat(<<i>>)
<1> DEFINE p == <<i>>
<1>1. p \in Seq({i}) /\ Len(p) = 1 /\ p[1] = i
  OBVIOUS
<1> HIDE DEF p
<1>2. \A n \in 1..Len(p) : n = 1
  BY <1>1
<1>3. \A n \in 1..Len(p) : p[n][1] \in Flat
  BY <1>1, <1>2
<1>4. AllFlat(p)
  BY <1>1, <1>3 DEF AllFlat, IsSequence
<1> QED BY <1>4 DEF p

LEMMA FlatNone == AllFlat(<<>>)
BY DEF AllFlat, IsSequence

LEMMA FlatJoin ==
  ASSUME NEW p, NEW q, AllFlat(p), AllFlat(q)
  PROVE  AllFlat(p \o q)
<1>1. /\ IsSequence(p \o q) /\ Len(p \o q) = Len(p) + Len(q)
      /\ Len(p) \in Nat /\ Len(q) \in Nat
      /\ \A n \in 1..Len(p) : (p \o q)[n] = p[n]
      /\ \A n \in 1..Len(q) : (p \o q)[Len(p) + n] = q[n]
  BY JoinIs DEF AllFlat
<1>2. ASSUME NEW n \in 1..Len(p \o q) PROVE (p \o q)[n][1] \in Flat
  <2>1. CASE n \in 1..Len(p)
    BY <1>1, <2>1 DEF AllFlat
  <2>2. CASE n \notin 1..Len(p)
    <3> DEFINE m == n - Len(p)
    <3>1. m \in 1..Len(q) /\ n = Len(p) + m
      BY <1>1, <2>2
    <3> HIDE DEF m
    <3> QED BY <1>1, <3>1 DEF AllFlat
  <2> QED BY <2>1, <2>2
<1> QED BY <1>1, <1>2 DEF AllFlat

LEMMA FlatRun ==
  ASSUME NEW from \in Int, NEW to \in Int, NEW c, NEW pos, NEW n, NEW what, NEW phase_
  PROVE  AllFlat(Run(from, to, c, pos, n, what, phase_))
<1> DEFINE run == [j \in 1..(to - from + 1) |->
                     <<"layer", c, from + j - 1, pos, n, what, phase_>>]
<1>2. \A j \in 1..(to - from + 1) : run[j][1] = "layer"
  OBVIOUS
<1>4. run = [j \in 1..(to - from + 1) |-> run[j]] /\ to - from + 1 \in Int
  OBVIOUS
<1> HIDE DEF run
<1>1. IsSequence(run) /\ 1..Len(run) = 1..(to - from + 1)
  BY <1>4, FunctionIsSequence
<1>3. AllFlat(run)
  BY <1>1, <1>2 DEF AllFlat, Flat
<1> QED BY <1>3 DEF Run, run

\* A flat instruction as a program.
LEMMA FlatStep ==
  ASSUME NEW i, i[1] \in Flat, NEW x \in Scopes
  PROVE  Runs(<<i>>, x, x)
BY FlatOne, FlatRuns

LEMMA NothingRuns ==
  ASSUME NEW x \in Scopes
  PROVE  Runs(<<>>, x, x)
BY FlatNone, FlatRuns

\* Flat instructions under a context manager that switches adapters.
LEMMA ScopedFlat ==
  ASSUME NEW r, NEW on, NEW body, AllFlat(body), NEW x \in {"out", "window", "finally"}
  PROVE  Runs(Scoped(r, on, body), x, x)
BY FlatRuns, ScopedRuns

\* Where the layers of a configuration lie.
LEMMA LayerBounds ==
  ASSUME NEW r \in Runtimes
  PROVE  r.lo \in Int /\ r.hi \in Int /\ NLayers \in Int /\ r.slots \in Nat
<1>1. NLayers \in Nat
  BY RuntimeConstants
<1>2. r.lo \in 0..NLayers /\ r.hi \in 1..NLayers /\ r.slots \in 1..2
  BY DEF Runtimes, Layers
<1> QED BY <1>1, <1>2

LEMMA EncodeRuns ==
  ASSUME NEW r \in Runtimes, NEW c, NEW p
  PROVE  Runs(Encode(r, c, p), "out", "out")
<1> DEFINE emb == <<"embed", <<"prompt", p>>>>
           err == <<"raise">>
           low == Run(1, r.hi, c, 0, PromptLen[p], p, "prefill")
           cut == <<"boundary", c>>
           high == Run(r.hi + 1, NLayers, c, 0, PromptLen[p], p, "prefill")
           body == low \o <<cut>> \o high
<1>1. "out" \in Scopes /\ emb[1] \in Flat /\ err[1] \in Flat /\ cut[1] \in Flat
  BY DEF Scopes, Flat
<1>2. AllFlat(low) /\ AllFlat(high)
  BY LayerBounds, FlatRun
<1> HIDE DEF emb, err, low, cut, high
<1>3. AllFlat(body)
  BY <1>1, <1>2, FlatOne, FlatJoin
<1> HIDE DEF body
<1>4. Runs(<<err>>, "out", "out") /\ Runs(<<emb>>, "out", "out")
  BY <1>1, FlatStep
<1>5. Runs(Scoped(r, FALSE, body), "out", "out")
  BY <1>3, ScopedFlat
<1>6. Runs(<<emb>> \o Scoped(r, FALSE, body), "out", "out")
  BY <1>4, <1>5, JoinRuns
<1> QED BY <1>4, <1>6 DEF Encode, emb, err, low, cut, high, body

LEMMA PassRuns ==
  ASSUME NEW r \in Runtimes, NEW ab, NEW c, NEW pos, NEW on, NEW x \in {"window", "finally"}
  PROVE  Runs(Pass(r, ab, c, pos, on), x, x)
<1> DEFINE body == Run(r.lo + 1, r.hi, c, pos, r.slots, "loop", "loop")
<1>1. AllFlat(body)
  BY LayerBounds, FlatRun
<1> HIDE DEF body
<1>2. Runs(Scoped(r, on, body), x, x)
  BY <1>1, ScopedFlat
<1>3. Runs(<<>>, x, x)
  BY NothingRuns DEF Scopes
<1> QED BY <1>2, <1>3 DEF Pass, body

LEMMA PairedStepRuns ==
  ASSUME NEW r \in Runtimes, NEW ab, NEW c, NEW start, NEW ci, NEW x \in {"window", "finally"}
  PROVE  Runs(PairedStep(r, ab, c, start, ci), x, x)
<1> DEFINE i1 == <<"state", c>>
           p1 == Pass(r, ab, c, start, FALSE)
           i2 == <<"base">>
           i3 == <<"restore", c, <<"loop", c>>>>
           i4 == <<"tick", c, ci, ab.clocks # <<"off">>>>
           p2 == Pass(r, ab, c, start, TRUE)
           i5 == <<"update", c, ci>>
<1>1. /\ x \in Scopes /\ i1[1] \in Flat /\ i2[1] \in Flat /\ i3[1] \in Flat
      /\ i4[1] \in Flat /\ i5[1] \in Flat
  BY DEF Scopes, Flat
<1>2. Runs(p1, x, x) /\ Runs(p2, x, x)
  BY PassRuns
<1>6. PairedStep(r, ab, c, start, ci)
        = <<i1>> \o p1 \o <<i2>> \o <<i3>> \o <<i4>> \o p2 \o <<i5, i3>>
  BY DEF PairedStep
<1> HIDE DEF i1, p1, i2, i3, i4, p2, i5
<1>3. /\ Runs(<<i1>>, x, x) /\ Runs(<<i2>>, x, x) /\ Runs(<<i3>>, x, x)
      /\ Runs(<<i4>>, x, x) /\ Runs(<<i5>>, x, x)
  BY <1>1, FlatStep
<1>4. Runs(<<i5, i3>>, x, x)
  BY <1>3, PairJoined, JoinRuns
<1>5. Runs(<<i1>> \o p1 \o <<i2>> \o <<i3>>, x, x)
  BY <1>2, <1>3, JoinRuns
<1>8. Runs(<<i1>> \o p1 \o <<i2>> \o <<i3>> \o <<i4>> \o p2, x, x)
  BY <1>2, <1>3, <1>5, JoinRuns
<1> QED BY <1>4, <1>6, <1>8, JoinRuns

LEMMA SingleStepRuns ==
  ASSUME NEW r \in Runtimes, NEW ab, NEW c, NEW pos, NEW ci, NEW x \in {"window", "finally"}
  PROVE  Runs(SingleStep(r, ab, c, pos, ci), x, x)
<1> DEFINE i1 == <<"tick", c, ci, ab.clocks # <<"off">>>>
           p1 == Pass(r, ab, c, pos, TRUE)
           i2 == <<"update", c, ci>>
           i3 == <<"restore", c, <<"loop", c>>>>
           last == IF Neutral(r) THEN <<i3>> ELSE <<>>
<1>1. x \in Scopes /\ i1[1] \in Flat /\ i2[1] \in Flat /\ i3[1] \in Flat
  BY DEF Scopes, Flat
<1>2. Runs(p1, x, x)
  BY PassRuns
<1>3. SingleStep(r, ab, c, pos, ci) = <<i1>> \o p1 \o <<i2>> \o last
  BY DEF SingleStep
<1> HIDE DEF i1, p1, i2, i3
<1>4. Runs(<<i1>>, x, x) /\ Runs(<<i2>>, x, x) /\ Runs(<<i3>>, x, x) /\ Runs(<<>>, x, x)
  BY <1>1, FlatStep, NothingRuns
<1>5. Runs(last, x, x)
  BY <1>4
<1> HIDE DEF last
<1> QED BY <1>2, <1>3, <1>4, <1>5, JoinRuns

LEMMA LoopRuns ==
  ASSUME NEW r \in Runtimes, NEW ab, NEW c, NEW start, NEW k,
         EffectiveK(ab, k) \in Int, NEW x \in {"window", "finally"}
  PROVE  Runs(Loop(r, ab, c, start, k), x, x)
<1> DEFINE n == EffectiveK(ab, k)
           step(j) == LoopStep(r, ab, c, start, j, ClockSteps(ab.clocks, k)[j])
           f == [j \in 1..n |-> step(j)]
<1>1. x \in Scopes
  BY DEF Scopes
<1>2. ASSUME NEW j, NEW ci PROVE Runs(LoopStep(r, ab, c, start, j, ci), x, x)
  <2> DEFINE i == <<"restore", c, <<"loop", c>>>>
             first == IF Neutral(r) THEN <<i>> ELSE <<>>
             pos == IF Neutral(r) THEN start ELSE start + j - 1
             rest == IF r.paired THEN PairedStep(r, ab, c, start, ci)
                     ELSE SingleStep(r, ab, c, pos, ci)
  <2>1. i[1] \in Flat
    BY DEF Flat
  <2>2. LoopStep(r, ab, c, start, j, ci) = first \o rest
    BY DEF LoopStep
  <2> HIDE DEF i, pos
  <2>3. Runs(first, x, x)
    BY <1>1, <2>1, FlatStep, NothingRuns
  <2>4. Runs(rest, x, x)
    BY PairedStepRuns, SingleStepRuns
  <2> HIDE DEF first, rest
  <2> QED BY <2>2, <2>3, <2>4, JoinRuns
<1>3. \A j \in 1..n : Runs(f[j], x, x)
  BY <1>2
<1>4. f = [j \in 1..n |-> f[j]]
  OBVIOUS
<1>5. Loop(r, ab, c, start, k) = FlattenSeq(f)
  BY DEF Loop
<1> HIDE DEF f
<1> QED BY <1>1, <1>3, <1>4, <1>5, FamilyRuns

LEMMA LatentStepsRuns ==
  ASSUME NEW r \in Runtimes, NEW ab, NEW c, NEW start, NEW k,
         k \in 0..MaxK => EffectiveK(ab, k) \in Int
  PROVE  Runs(LatentSteps(r, ab, c, start, k), "out", "out")
<1> DEFINE err == <<"raise">>
           sn == <<"snap", c, <<"loop", c>>>>
           first == IF Neutral(r) THEN <<sn>> ELSE <<>>
           loop == Loop(r, ab, c, start, k)
           fin == <<<<"finally", c, <<"loop", c>>>>>> \o loop \o <<<<"end">>>>
           body == IF Neutral(r) THEN fin ELSE loop
           last == StateControls(c, ab.state)
           az == <<"ablate", c, "zero">>
           an == <<"ablate", c, "noise">>
<1>1. /\ "out" \in Scopes /\ err[1] \in Flat /\ sn[1] \in Flat
      /\ az[1] \in Flat /\ an[1] \in Flat
  BY DEF Scopes, Flat
<1>2. last = IF "zero" \in ab.state THEN <<az>>
             ELSE IF "noise" \in ab.state THEN <<an>> ELSE <<>>
  BY DEF StateControls
<1> HIDE DEF err, sn, az, an, last
<1>3. Runs(<<err>>, "out", "out") /\ Runs(first, "out", "out")
  BY <1>1, FlatStep, NothingRuns
<1>4. Runs(last, "out", "out")
  <2>1. Runs(<<az>>, "out", "out") /\ Runs(<<an>>, "out", "out") /\ Runs(<<>>, "out", "out")
    BY <1>1, FlatStep, NothingRuns
  <2> QED BY <1>2, <2>1
<1>5. CASE k \in 0..MaxK
  <2>1. Runs(loop, "window", "window") /\ Runs(loop, "finally", "finally")
    BY <1>5, LoopRuns
  <2> HIDE DEF loop
  <2>2. Runs(fin, "window", "window")
    BY <2>1, FinallyRuns
  <2> HIDE DEF fin
  <2>3. Runs(body, "window", "window")
    BY <2>1, <2>2
  <2>4. LatentSteps(r, ab, c, start, k) = first \o Guarded(body) \o last
    BY <1>5 DEF LatentSteps, fin, loop, sn, last
  <2> HIDE DEF first, body
  <2>5. Runs(Guarded(body), "out", "out")
    BY <2>3, GuardedRuns
  <2>6. Runs(first \o Guarded(body), "out", "out")
    BY <1>3, <2>5, JoinRuns
  <2> QED BY <1>4, <2>4, <2>6, JoinRuns
<1>6. CASE k \notin 0..MaxK
  <2>1. LatentSteps(r, ab, c, start, k) = <<err>>
    BY <1>6 DEF LatentSteps, err
  <2> QED BY <1>3, <2>1
<1> QED BY <1>5, <1>6

LEMMA AnswerTokenRuns ==
  ASSUME NEW r \in Runtimes, NEW c, NEW pos, NEW tok, NEW next, NEW last
  PROVE  Runs(AnswerToken(r, c, pos, tok, next, last), "out", "out")
<1> DEFINE hd == <<"head", tok>>
           emb == <<"embed", <<"token", tok>>>>
           low == Run(1, r.hi, c, next, 1, tok, "answer")
           inj == <<"inject">>
           high == Run(r.hi + 1, NLayers, c, next, 1, tok, "answer")
           body == low \o <<inj>> \o high
           more == IF last THEN <<>> ELSE <<emb>> \o Scoped(r, FALSE, body)
<1>1. /\ "out" \in Scopes /\ "window" \in Scopes
      /\ hd[1] \in Flat /\ emb[1] \in Flat /\ inj[1] \in Flat
  BY DEF Scopes, Flat
<1>2. AllFlat(low) /\ AllFlat(high)
  BY LayerBounds, FlatRun
<1>3. AnswerToken(r, c, pos, tok, next, last) = Guarded(<<hd>>) \o more
  BY DEF AnswerToken
<1> HIDE DEF hd, emb, low, inj, high
<1>4. AllFlat(body)
  BY <1>1, <1>2, FlatOne, FlatJoin
<1> HIDE DEF body
<1>5. Runs(Guarded(<<hd>>), "out", "out")
  BY <1>1, FlatStep, GuardedRuns
<1>6. Runs(Scoped(r, FALSE, body), "out", "out")
  BY <1>4, ScopedFlat
<1>7. Runs(<<emb>> \o Scoped(r, FALSE, body), "out", "out")
  BY <1>1, <1>6, FlatStep, JoinRuns
<1>8. Runs(more, "out", "out")
  BY <1>1, <1>7, NothingRuns
<1> HIDE DEF more
<1> QED BY <1>3, <1>5, <1>8, JoinRuns

LEMMA ScoreTokensRuns ==
  ASSUME NEW r \in Runtimes, NEW c, NEW pos, NEW cand \in Seq(Tokens), NEW label
  PROVE  Runs(ScoreTokens(r, c, pos, cand, label), "out", "out")
<1> DEFINE err == <<"raise">>
           start == <<"score", label, cand>>
           tail == r.hi < NLayers
           first == pos + IF tail THEN 1 ELSE 0
           low == Run(r.hi + 1, NLayers, c, pos, 1, "carrier", "tail")
           carrier == IF tail THEN Scoped(r, FALSE, low) ELSE <<>>
           tok(j) == AnswerToken(r, c, pos, cand[j], first + j - 1, j = Len(cand))
           f == [j \in DOMAIN cand |-> tok(j)]
<1>1. "out" \in Scopes /\ err[1] \in Flat /\ start[1] \in Flat
  BY DEF Scopes, Flat
<1>2. /\ cand = <<>> => ScoreTokens(r, c, pos, cand, label) = <<err>>
      /\ cand # <<>> => ScoreTokens(r, c, pos, cand, label)
                          = <<start>> \o carrier \o FlattenSeq(f)
  BY DEF ScoreTokens
<1>3. Len(cand) \in Int /\ DOMAIN cand = 1..Len(cand)
  OBVIOUS
<1>4. \A j \in 1..Len(cand) : Runs(f[j], "out", "out")
  <2> TAKE j \in 1..Len(cand)
  <2>1. f[j] = tok(j)
    BY <1>3
  <2> QED BY <2>1, AnswerTokenRuns
<1>5. f = [j \in 1..Len(cand) |-> f[j]]
  BY <1>3
<1>6. AllFlat(low)
  BY LayerBounds, FlatRun
<1> HIDE DEF err, start, low, f
<1>7. Runs(FlattenSeq(f), "out", "out")
  BY <1>1, <1>3, <1>4, <1>5, FamilyRuns
<1>8. Runs(carrier, "out", "out")
  BY <1>1, <1>6, ScopedFlat, NothingRuns
<1> HIDE DEF carrier
<1>9. Runs(<<err>>, "out", "out") /\ Runs(<<start>>, "out", "out")
  BY <1>1, FlatStep
<1>10. Runs(<<start>> \o carrier, "out", "out")
  BY <1>8, <1>9, JoinRuns
<1>11. Runs(<<start>> \o carrier \o FlattenSeq(f), "out", "out")
  BY <1>7, <1>10, JoinRuns
<1> QED BY <1>2, <1>9, <1>11

LEMMA ScoreEachRuns ==
  ASSUME NEW r \in Runtimes, NEW c, NEW pos, NEW key, NEW cands \in Seq(Seq(Tokens)),
         NEW label
  PROVE  Runs(ScoreEach(r, c, pos, key, cands, label), "out", "out")
<1> DEFINE i == <<"restore", c, key>>
           f == [j \in DOMAIN cands |-> <<i>> \o ScoreTokens(r, c, pos, cands[j], label)]
<1>1. "out" \in Scopes /\ i[1] \in Flat
  BY DEF Scopes, Flat
<1>2. ScoreEach(r, c, pos, key, cands, label) = FlattenSeq(f)
  BY DEF ScoreEach
<1>3. Len(cands) \in Int /\ DOMAIN cands = 1..Len(cands)
  OBVIOUS
<1> HIDE DEF i
<1>4. \A j \in 1..Len(cands) : Runs(f[j], "out", "out")
  <2> TAKE j \in 1..Len(cands)
  <2>1. f[j] = <<i>> \o ScoreTokens(r, c, pos, cands[j], label)
    BY <1>3
  <2>2. cands[j] \in Seq(Tokens)
    OBVIOUS
  <2>3. Runs(<<i>>, "out", "out")
    BY <1>1, FlatStep
  <2>4. Runs(ScoreTokens(r, c, pos, cands[j], label), "out", "out")
    BY <2>2, ScoreTokensRuns
  <2>5. Runs(<<i>> \o ScoreTokens(r, c, pos, cands[j], label), "out", "out")
    BY <2>3, <2>4, JoinRuns
  <2> QED BY <2>1, <2>5
<1>5. f = [j \in 1..Len(cands) |-> f[j]]
  BY <1>3
<1> HIDE DEF f
<1> QED BY <1>1, <1>2, <1>3, <1>4, <1>5, FamilyRuns

\* The arguments of a call.
LEMMA ArgumentTypes ==
  ASSUME NEW a \in CallArguments
  PROVE  /\ EffectiveK(a.ab, a.k) \in Int /\ a.k \in Int
         /\ a.cands \in Seq(Seq(Tokens)) /\ a.targets \in Seq(Int \X Seq(Tokens))
         /\ a.kind = "nll" => a.cands[1] \in Seq(Tokens)
         /\ a.sd.version \in Nat
         /\ a.kind \in {"score", "nll", "ce", "trace", "margin", "load"}
<1>1. /\ a.ab \in AblationArguments /\ a.k \in Int /\ a.cands \in Seq(Seq(Tokens))
      /\ a.targets \in Seq(Int \X Seq(Tokens)) /\ a.sd \in [sound : BOOLEAN, version : Nat]
      /\ a.kind = "nll" => a.cands # <<>>
      /\ a.kind \in {"score", "nll", "ce", "trace", "margin", "load"}
  BY DEF CallArguments
<1>2. EffectiveK(a.ab, a.k) \in Int
  <2>1. a.ab.truncate \in Int
    BY <1>1 DEF AblationArguments
  <2> QED BY <1>1, <2>1 DEF EffectiveK
<1>3. a.kind = "nll" => a.cands[1] \in Seq(Tokens)
  <2>1. a.cands # <<>> => 1 \in 1..Len(a.cands)
    BY <1>1
  <2> QED BY <1>1, <2>1
<1> QED BY <1>1, <1>2, <1>3

LEMMA CleanSteps ==
  ASSUME NEW k \in Int
  PROVE  EffectiveK(Clean, k) \in Int
BY DEF EffectiveK, Clean

LEMMA TrainPrefixRuns ==
  ASSUME NEW r \in Runtimes, NEW a, EffectiveK(a.ab, a.k) \in Int
  PROVE  Runs(TrainPrefix(r, a), "out", "out")
<1> DEFINE sn == <<"snap", "target", <<"prompt">>>>
           rs == <<"restore", "target", <<"prompt">>>>
           e == Encode(r, "target", a.p)
           st == a.ab.state # {}
           p1 == IF st THEN <<sn>> ELSE <<>>
           l == LatentSteps(r, a.ab, "target", PromptLen[a.p], a.k)
           p2 == IF st THEN <<rs>> ELSE <<>>
<1>1. "out" \in Scopes /\ sn[1] \in Flat /\ rs[1] \in Flat
  BY DEF Scopes, Flat
<1>2. TrainPrefix(r, a) = e \o p1 \o l \o p2
  BY DEF TrainPrefix
<1>3. Runs(e, "out", "out") /\ Runs(l, "out", "out")
  BY EncodeRuns, LatentStepsRuns
<1> HIDE DEF sn, rs, e, st, l
<1>4. Runs(p1, "out", "out") /\ Runs(p2, "out", "out")
  BY <1>1, FlatStep, NothingRuns
<1> HIDE DEF p1, p2
<1>5. Runs(e \o p1 \o l, "out", "out")
  BY <1>3, <1>4, JoinRuns
<1> QED BY <1>2, <1>4, <1>5, JoinRuns

LEMMA NllRuns ==
  ASSUME NEW r \in Runtimes, NEW a \in CallArguments, a.kind = "nll"
  PROVE  Runs(NllCall(r, a), "out", "out")
<1> DEFINE ro == <<"readout", "target">>
           vw == <<"view">>
           t == TrainPrefix(r, a)
           sc == ScoreTokens(r, "target", ReadoutPos(r, a.ab, a.p, a.k), a.cands[1], "own")
<1>1. "out" \in Scopes /\ ro[1] \in Flat /\ vw[1] \in Flat
  BY DEF Scopes, Flat
<1>2. NllCall(r, a) = t \o <<ro, vw>> \o sc
  BY DEF NllCall
<1>3. Runs(t, "out", "out") /\ Runs(sc, "out", "out")
  BY ArgumentTypes, TrainPrefixRuns, ScoreTokensRuns
<1> HIDE DEF ro, vw, t, sc
<1>4. Runs(<<ro>>, "out", "out") /\ Runs(<<vw>>, "out", "out")
  BY <1>1, FlatStep
<1>5. Runs(<<ro, vw>>, "out", "out")
  BY <1>4, PairJoined, JoinRuns
<1> QED BY <1>2, <1>3, <1>5, JoinRuns

LEMMA CeRuns ==
  ASSUME NEW r \in Runtimes, NEW a, EffectiveK(a.ab, a.k) \in Int,
         a.cands \in Seq(Seq(Tokens))
  PROVE  Runs(CeCall(r, a), "out", "out")
<1> DEFINE sn == <<"snap", "target", <<"read">>>>
           ro == <<"readout", "target">>
           vw == <<"view">>
           t == TrainPrefix(r, a)
           sc == ScoreEach(r, "target", ReadoutPos(r, a.ab, a.p, a.k), <<"read">>,
                           a.cands, "own")
<1>1. "out" \in Scopes /\ ro[1] \in Flat /\ vw[1] \in Flat /\ sn[1] \in Flat
  BY DEF Scopes, Flat
<1>2. CeCall(r, a) = t \o <<sn, ro, vw>> \o sc
  BY DEF CeCall
<1>6. <<sn, ro, vw>> = <<sn>> \o <<ro>> \o <<vw>>
  BY TripleJoined
<1>3. Runs(t, "out", "out") /\ Runs(sc, "out", "out")
  BY TrainPrefixRuns, ScoreEachRuns
<1> HIDE DEF sn, ro, vw, t, sc
<1>4. Runs(<<sn>>, "out", "out") /\ Runs(<<ro>>, "out", "out") /\ Runs(<<vw>>, "out", "out")
  BY <1>1, FlatStep
<1>5. Runs(<<sn, ro, vw>>, "out", "out")
  BY <1>4, <1>6, JoinRuns
<1> QED BY <1>2, <1>3, <1>5, JoinRuns

LEMMA ScoreCallRuns ==
  ASSUME NEW r \in Runtimes, NEW a \in CallArguments
  PROVE  Runs(ScoreCall(r, a), "out", "out")
<1> DEFINE swap == "swap" \in a.ab.state
           pos == ReadoutPos(r, a.ab, a.p, a.k)
           sp == <<"snap", "target", <<"prompt">>>>
           rp == <<"restore", "target", <<"prompt">>>>
           rt1 == <<"readout", "target">>
           rt2 == <<"readout", "partner">>
           rs == <<"reset">>
           sr == <<"snap", "target", <<"read">>>>
           vw == <<"view">>
           e1 == Encode(r, "target", a.p)
           c1 == IF a.ab.cache THEN <<sp>> ELSE <<>>
           e2 == IF swap THEN Encode(r, "partner", a.q) ELSE <<>>
           l1 == LatentSteps(r, a.ab, "target", PromptLen[a.p], a.k)
           m2 == LatentSteps(r, a.ab, "partner", PromptLen[a.q], a.k)
           l2 == IF swap THEN m2 \o <<rt2>> ELSE <<>>
           c2 == IF "reset" \in a.ab.state THEN <<rs>> ELSE <<>>
           c3 == IF a.ab.cache THEN <<rp>> ELSE <<>>
           sc == ScoreEach(r, "target", pos, <<"read">>, a.cands, "own")
<1>1. /\ "out" \in Scopes /\ sp[1] \in Flat /\ rp[1] \in Flat /\ rt1[1] \in Flat
      /\ rt2[1] \in Flat /\ rs[1] \in Flat /\ sr[1] \in Flat /\ vw[1] \in Flat
  BY DEF Scopes, Flat
<1>2. ScoreCall(r, a) = e1 \o c1 \o e2 \o l1 \o <<rt1>> \o l2 \o c2 \o c3
                        \o <<sr, vw>> \o sc
  BY DEF ScoreCall
<1>3. Runs(e1, "out", "out") /\ Runs(e2, "out", "out")
  BY <1>1, EncodeRuns, NothingRuns
<1>4. Runs(l1, "out", "out") /\ Runs(m2, "out", "out")
  BY ArgumentTypes, LatentStepsRuns
<1>5. Runs(sc, "out", "out")
  BY ArgumentTypes, ScoreEachRuns
<1> HIDE DEF swap, pos, sp, rp, rt1, rt2, rs, sr, vw, e1, e2, l1, m2, sc
<1>6. /\ Runs(<<sp>>, "out", "out") /\ Runs(<<rp>>, "out", "out")
      /\ Runs(<<rt1>>, "out", "out") /\ Runs(<<rt2>>, "out", "out")
      /\ Runs(<<rs>>, "out", "out") /\ Runs(<<sr>>, "out", "out")
      /\ Runs(<<vw>>, "out", "out") /\ Runs(<<>>, "out", "out")
  BY <1>1, FlatStep, NothingRuns
<1>7. Runs(m2 \o <<rt2>>, "out", "out")
  BY <1>4, <1>6, JoinRuns
<1>8. /\ Runs(c1, "out", "out") /\ Runs(l2, "out", "out") /\ Runs(c2, "out", "out")
      /\ Runs(c3, "out", "out")
  BY <1>6, <1>7
<1> HIDE DEF c1, l2, c2, c3
<1>9. Runs(<<sr, vw>>, "out", "out")
  BY <1>6, PairJoined, JoinRuns
<1>10. Runs(e1 \o c1 \o e2 \o l1, "out", "out")
  BY <1>3, <1>4, <1>8, JoinRuns
<1>11. Runs(e1 \o c1 \o e2 \o l1 \o <<rt1>> \o l2, "out", "out")
  BY <1>6, <1>8, <1>10, JoinRuns
<1>12. Runs(e1 \o c1 \o e2 \o l1 \o <<rt1>> \o l2 \o c2 \o c3, "out", "out")
  BY <1>8, <1>11, JoinRuns
<1>13. Runs(e1 \o c1 \o e2 \o l1 \o <<rt1>> \o l2 \o c2 \o c3 \o <<sr, vw>>, "out", "out")
  BY <1>9, <1>12, JoinRuns
<1> QED BY <1>2, <1>5, <1>13, JoinRuns

LEMMA TraceRuns ==
  ASSUME NEW r \in Runtimes, NEW a \in CallArguments
  PROVE  Runs(TraceCall(r, a), "out", "out")
<1> DEFINE sp == <<"snap", "target", <<"prompt">>>>
           rp == <<"restore", "target", <<"prompt">>>>
           sr == <<"snap", "target", <<"read">>>>
           ro == <<"readout", "target">>
           vw == <<"view">>
           e == Encode(r, "target", a.p)
           l == LatentSteps(r, Clean, "target", PromptLen[a.p], a.k)
           sc == ScoreEach(r, "target", PromptLen[a.p], <<"read">>, a.cands, "own")
           rw(j) == <<"rewind", a.targets[j][1]>>
           st(j) == ScoreTokens(r, "target", PromptLen[a.p], a.targets[j][2],
                                <<"trace", a.targets[j][1]>>)
           f == [j \in DOMAIN a.targets |-> <<rp, rw(j)>> \o st(j)]
<1>1. /\ "out" \in Scopes /\ sp[1] \in Flat /\ rp[1] \in Flat /\ sr[1] \in Flat
      /\ ro[1] \in Flat /\ vw[1] \in Flat /\ \A j : rw(j)[1] \in Flat
  BY DEF Scopes, Flat
<1>2. TraceCall(r, a) = e \o <<sp>> \o l \o <<sr, ro, vw>> \o sc \o FlattenSeq(f)
  BY DEF TraceCall
<1>3. Runs(e, "out", "out") /\ Runs(l, "out", "out")
  BY EncodeRuns, ArgumentTypes, CleanSteps, LatentStepsRuns
<1>4. Runs(sc, "out", "out")
  BY ArgumentTypes, ScoreEachRuns
<1>5. Len(a.targets) \in Int /\ DOMAIN a.targets = 1..Len(a.targets)
  BY ArgumentTypes
<1>6. ASSUME NEW j \in 1..Len(a.targets) PROVE Runs(st(j), "out", "out")
  <2>1. a.targets[j][2] \in Seq(Tokens)
    BY ArgumentTypes
  <2> QED BY <2>1, ScoreTokensRuns
<1>7. f = [j \in 1..Len(a.targets) |-> f[j]]
      /\ \A j \in 1..Len(a.targets) : f[j] = <<rp, rw(j)>> \o st(j)
  BY <1>5
<1> HIDE DEF sp, rp, sr, ro, vw, e, l, sc, rw, st, f
<1>8. \A j \in 1..Len(a.targets) : Runs(f[j], "out", "out")
  <2> TAKE j \in 1..Len(a.targets)
  <2>1. Runs(<<rp>>, "out", "out") /\ Runs(<<rw(j)>>, "out", "out")
    BY <1>1, FlatStep
  <2>2. Runs(<<rp, rw(j)>>, "out", "out")
    BY <2>1, PairJoined, JoinRuns
  <2>3. Runs(<<rp, rw(j)>> \o st(j), "out", "out")
    BY <1>6, <2>2, JoinRuns
  <2> QED BY <1>7, <2>3
<1>9. Runs(FlattenSeq(f), "out", "out")
  BY <1>1, <1>5, <1>7, <1>8, FamilyRuns
<1>10. /\ Runs(<<sp>>, "out", "out") /\ Runs(<<sr>>, "out", "out")
       /\ Runs(<<ro>>, "out", "out") /\ Runs(<<vw>>, "out", "out")
  BY <1>1, FlatStep
<1>11. Runs(<<sr, ro, vw>>, "out", "out")
  BY <1>10, TripleJoined, JoinRuns
<1>12. Runs(e \o <<sp>> \o l, "out", "out")
  BY <1>3, <1>10, JoinRuns
<1>13. Runs(e \o <<sp>> \o l \o <<sr, ro, vw>> \o sc, "out", "out")
  BY <1>4, <1>11, <1>12, JoinRuns
<1> QED BY <1>2, <1>9, <1>13, JoinRuns

LEMMA ContextRuns ==
  ASSUME NEW r \in Runtimes, NEW c, NEW p, NEW k \in Int
  PROVE  Runs(RecurrentContext(r, c, p, k), "out", "out")
<1> DEFINE sp == <<"snap", c, <<"prompt", c>>>>
           rp == <<"restore", c, <<"prompt", c>>>>
           e == Encode(r, c, p)
           l == LatentSteps(r, Clean, c, PromptLen[p], k)
<1>1. "out" \in Scopes /\ sp[1] \in Flat /\ rp[1] \in Flat
  BY DEF Scopes, Flat
<1>2. RecurrentContext(r, c, p, k) = e \o <<sp>> \o l \o <<rp>>
  BY DEF RecurrentContext
<1>3. Runs(e, "out", "out") /\ Runs(l, "out", "out")
  BY EncodeRuns, CleanSteps, LatentStepsRuns
<1> HIDE DEF sp, rp, e, l
<1>4. Runs(<<sp>>, "out", "out") /\ Runs(<<rp>>, "out", "out")
  BY <1>1, FlatStep
<1>5. Runs(e \o <<sp>> \o l, "out", "out")
  BY <1>3, <1>4, JoinRuns
<1> QED BY <1>2, <1>4, <1>5, JoinRuns

LEMMA MarginRuns ==
  ASSUME NEW r \in Runtimes, NEW a \in CallArguments
  PROVE  Runs(MarginCall(r, a), "out", "out")
<1> DEFINE vw == <<"view">>
           c1 == RecurrentContext(r, "target", a.p, a.k)
           c2 == RecurrentContext(r, "partner", a.q, a.k)
           which(j) == <<"own", "zero", "other">>[j]
           pair(j) == ScoreDelta(r, a, "target", a.p, which(j))
                      \o ScoreDelta(r, a, "partner", a.q, which(j))
           f == [j \in 1..3 |-> pair(j)]
<1>1. "out" \in Scopes /\ vw[1] \in Flat
  BY DEF Scopes, Flat
<1>2. MarginCall(r, a) = c1 \o c2 \o <<vw>> \o FlattenSeq(f)
  BY DEF MarginCall
<1>3. Runs(c1, "out", "out") /\ Runs(c2, "out", "out")
  BY ArgumentTypes, ContextRuns
<1>4. ASSUME NEW c, NEW p, NEW w PROVE Runs(ScoreDelta(r, a, c, p, w), "out", "out")
  <2> DEFINE i == <<"readdelta", c, w>>
             sc == ScoreEach(r, c, PromptLen[p], <<"prompt", c>>, a.cands, <<c, w>>)
  <2>1. i[1] \in Flat
    BY DEF Flat
  <2>2. Runs(sc, "out", "out")
    BY ArgumentTypes, ScoreEachRuns
  <2>3. ScoreDelta(r, a, c, p, w) = <<i>> \o sc
    BY DEF ScoreDelta
  <2> HIDE DEF i, sc
  <2>4. Runs(<<i>>, "out", "out")
    BY <1>1, <2>1, FlatStep
  <2> QED BY <2>2, <2>3, <2>4, JoinRuns
<1>5. \A j : Runs(pair(j), "out", "out")
  BY <1>4, JoinRuns
<1>6. f = [j \in 1..3 |-> f[j]] /\ 3 \in Int /\ \A j \in 1..3 : f[j] = pair(j)
  OBVIOUS
<1> HIDE DEF vw, c1, c2, pair, f
<1>7. Runs(FlattenSeq(f), "out", "out")
  BY <1>1, <1>5, <1>6, FamilyRuns
<1>8. Runs(<<vw>>, "out", "out")
  BY <1>1, FlatStep
<1>9. Runs(c1 \o c2 \o <<vw>>, "out", "out")
  BY <1>3, <1>8, JoinRuns
<1> QED BY <1>2, <1>7, <1>9, JoinRuns

\* Every call but a load runs from no scope to no scope.
LEMMA ProgramRuns ==
  ASSUME NEW r \in Runtimes, NEW a \in CallArguments, a.kind # "load"
  PROVE  Runs(Program(r, a), "out", "out")
<1>1. CASE a.kind = "score"
  BY <1>1, ScoreCallRuns DEF Program
<1>2. CASE a.kind = "nll"
  BY <1>2, NllRuns DEF Program
<1>3. CASE a.kind = "ce"
  <2>1. EffectiveK(a.ab, a.k) \in Int /\ a.cands \in Seq(Seq(Tokens))
    BY ArgumentTypes
  <2> QED BY <1>3, <2>1, CeRuns DEF Program
<1>4. CASE a.kind = "trace"
  <2> DEFINE b == [a EXCEPT !.ab = Clean]
  <2>1. b.ab = Clean /\ b.k = a.k /\ b.cands = a.cands
    BY DEF CallArguments
  <2>2. Program(r, a) = IF a.targets = <<>> THEN CeCall(r, b) ELSE TraceCall(r, a)
    BY <1>4 DEF Program
  <2> HIDE DEF b
  <2>3. Runs(CeCall(r, b), "out", "out")
    BY <2>1, ArgumentTypes, CleanSteps, CeRuns
  <2> QED BY <2>2, <2>3, TraceRuns
<1>5. CASE a.kind = "margin"
  BY <1>5, MarginRuns DEF Program
<1> QED BY <1>1, <1>2, <1>3, <1>4, <1>5, ArgumentTypes

----------------------------------------------------------------------------
(* What the instructions leave alone                                       *)

\* What outlives a call, its trainables at entry, and the open scopes.
Kept == {"flags", "open", "w", "entry", "stack"}
HasFrame(st) == Kept \subseteq DOMAIN st
SameFrame(n, st) ==
  /\ HasFrame(n)
  /\ n.flags = st.flags /\ n.open = st.open /\ n.w = st.w
  /\ n.entry = st.entry /\ n.stack = st.stack

LEMMA LayerKeeps ==
  ASSUME NEW r, NEW st, HasFrame(st), NEW c, NEW l, NEW pos, NEW n, NEW what, NEW phase_
  PROVE  SameFrame(ApplyLayer(r, st, c, l, pos, n, what, phase_), st)
<1> DEFINE tag == Adapted(r, st, l)
           grown == Append(Content(st, c, l), <<what, pos, tag>>)
           hid == <<"layer", l, tag, st.h, Content(st, c, l), pos>>
           next == [st EXCEPT !.h = hid, !.count[phase_] = @ + n]
           inner == [next EXCEPT !.snap[st.alias[c][l]][l] = grown]
           outer == [next EXCEPT !.live[c][l] = grown, !.alias[c][l] = Own]
<1>1. ApplyLayer(r, st, c, l, pos, n, what, phase_) \in {inner, outer}
  BY DEF ApplyLayer
<1> HIDE DEF tag, grown, hid
<1>2. SameFrame(next, st)
  BY DEF SameFrame, HasFrame, Kept
<1> HIDE DEF next
<1>3. SameFrame(inner, st)
  BY <1>2 DEF SameFrame, HasFrame, Kept
<1>4. SameFrame(outer, st)
  BY <1>2 DEF SameFrame, HasFrame, Kept
<1> QED BY <1>1, <1>3, <1>4

LEMMA ReadoutKeeps ==
  ASSUME NEW r, NEW st, HasFrame(st), NEW c
  PROVE  SameFrame(Readout(r, st, c), st)
<1> DEFINE d == Difference(st.z[c], st.z0[c])
           e == Plus(st.z0["target"], d)
<1>1. Readout(r, st, c) \in {[st EXCEPT !.delta = d, !.rd = e], [st EXCEPT !.rd = st.z[c]]}
  BY DEF Readout
<1> HIDE DEF d, e
<1>2. SameFrame([st EXCEPT !.delta = d, !.rd = e], st)
  BY DEF SameFrame, HasFrame, Kept
<1>3. SameFrame([st EXCEPT !.rd = st.z[c]], st)
  BY DEF SameFrame, HasFrame, Kept
<1> QED BY <1>1, <1>2, <1>3

LEMMA UpdateKeeps ==
  ASSUME NEW r, NEW st, HasFrame(st), NEW c, NEW ci
  PROVE  SameFrame(Update(r, st, c, ci), st)
<1>1. \E new : Update(r, st, c, ci) = [st EXCEPT !.z[c] = new, !.traj = Append(@, new)]
  BY DEF Update
<1> QED BY <1>1 DEF SameFrame, HasFrame, Kept

LEMMA AblateKeeps ==
  ASSUME NEW r, NEW st, HasFrame(st), NEW c, NEW how
  PROVE  SameFrame(Ablate(r, st, c, how), st)
<1>1. \/ Ablate(r, st, c, how) = st
      \/ \E new : Ablate(r, st, c, how) = [st EXCEPT !.z[c] = new]
  BY DEF Ablate
<1> QED BY <1>1 DEF SameFrame, HasFrame, Kept

LEMMA ReadDeltaKeeps ==
  ASSUME NEW st, HasFrame(st), NEW c, NEW which
  PROVE  SameFrame(ReadDelta(st, c, which), st)
<1>1. \E d, e : ReadDelta(st, c, which) = [st EXCEPT !.delta = d, !.rd = e]
  BY DEF ReadDelta
<1> QED BY <1>1 DEF SameFrame, HasFrame, Kept

LEMMA TickKeeps ==
  ASSUME NEW r, NEW st, HasFrame(st), NEW c, NEW ci, NEW on
  PROVE  SameFrame(Tick(r, st, c, ci, on), st)
<1>1. \E e : Tick(r, st, c, ci, on) = [st EXCEPT !.h = e]
  BY DEF Tick
<1> QED BY <1>1 DEF SameFrame, HasFrame, Kept

LEMMA CopyKeeps ==
  ASSUME NEW st, HasFrame(st), NEW c, NEW key
  PROVE  SameFrame(Snapshot(st, c, key), st) /\ SameFrame(Restore(st, c, key), st)
<1>1. \E e : Snapshot(st, c, key) = [st EXCEPT !.snap = e]
  BY DEF Snapshot
<1>2. \E e, f : Restore(st, c, key) = [st EXCEPT !.live[c] = e, !.alias[c] = f]
  BY DEF Restore
<1>3. SameFrame(Snapshot(st, c, key), st)
  BY <1>1 DEF SameFrame, HasFrame, Kept
<1>4. SameFrame(Restore(st, c, key), st)
  BY <1>2 DEF SameFrame, HasFrame, Kept
<1> QED BY <1>3, <1>4

\* A flat instruction leaves the switches, the windows, the trainables and the
\* open scopes as they were.
LEMMA FlatKeeps ==
  ASSUME NEW r, NEW st, HasFrame(st), NEW i, i[1] \in Flat, i[1] # "raise"
  PROVE  SameFrame(Do(r, i, st), st)
<1>1. CASE i[1] = "embed"
  BY <1>1 DEF Do, SameFrame, HasFrame, Kept
<1>2. CASE i[1] = "layer"
  BY <1>2, LayerKeeps DEF Do
<1>3. CASE i[1] = "boundary"
  BY <1>3 DEF Do, SameFrame, HasFrame, Kept
<1>4. CASE i[1] = "state"
  BY <1>4 DEF Do, SameFrame, HasFrame, Kept
<1>5. CASE i[1] = "base"
  BY <1>5 DEF Do, SameFrame, HasFrame, Kept
<1>6. CASE i[1] = "tick"
  BY <1>6, TickKeeps DEF Do
<1>7. CASE i[1] = "update"
  BY <1>7, UpdateKeeps DEF Do
<1>8. CASE i[1] = "ablate"
  BY <1>8, AblateKeeps DEF Do
<1>9. CASE i[1] = "rewind"
  <2> DEFINE mid == [st EXCEPT !.z["target"] = st.traj[i[2]]]
  <2>1. Do(r, i, st) = Readout(r, mid, "target")
    BY <1>9 DEF Do
  <2>2. SameFrame(mid, st)
    BY DEF SameFrame, HasFrame, Kept
  <2> HIDE DEF mid
  <2>3. SameFrame(Readout(r, mid, "target"), mid)
    BY <2>2, ReadoutKeeps DEF SameFrame
  <2> QED BY <2>1, <2>2, <2>3 DEF SameFrame
<1>10. CASE i[1] = "readout"
  BY <1>10, ReadoutKeeps DEF Do
<1>11. CASE i[1] = "readdelta"
  BY <1>11, ReadDeltaKeeps DEF Do
<1>12. CASE i[1] = "reset"
  BY <1>12 DEF Do, SameFrame, HasFrame, Kept
<1>13. CASE i[1] = "snap"
  BY <1>13, CopyKeeps DEF Do
<1>14. CASE i[1] = "restore"
  BY <1>14, CopyKeeps DEF Do
<1>15. CASE i[1] = "view"
  BY <1>15 DEF Do, SameFrame, HasFrame, Kept
<1>16. CASE i[1] = "score"
  BY <1>16 DEF Do, SameFrame, HasFrame, Kept
<1>17. CASE i[1] = "head"
  BY <1>17 DEF Do, SameFrame, HasFrame, Kept
<1>18. CASE i[1] = "inject"
  BY <1>18 DEF Do, SameFrame, HasFrame, Kept
<1> QED
  BY <1>1, <1>2, <1>3, <1>4, <1>5, <1>6, <1>7, <1>8, <1>9, <1>10, <1>11, <1>12, <1>13,
     <1>14, <1>15, <1>16, <1>17, <1>18 DEF Flat

----------------------------------------------------------------------------
(* The scopes that are open                                                *)

LoraFrame(r) == <<"lora", RestingFlags(r)>>
WindowFrame == <<"window">>

\* The stack of frames when scopes x are open; f is the frame of the finally
\* block.
Frames(r, f, x) ==
  CASE x = "out"          -> <<>>
    [] x = "lora"         -> <<LoraFrame(r)>>
    [] x = "window"       -> <<WindowFrame>>
    [] x = "window lora"  -> <<LoraFrame(r), WindowFrame>>
    [] x = "finally"      -> <<f, WindowFrame>>
    [] x = "finally lora" -> <<LoraFrame(r), f, WindowFrame>>

\* The frame an instruction of kind k puts on the stack.
Top(r, f, k) ==
  CASE k = "lora" -> LoraFrame(r) [] k = "window" -> WindowFrame [] k = "finally" -> f

\* The switches, windows and frames of a runtime in which scopes x are open,
\* and whose trainables are those it had at entry.
Within(r, st, x) ==
  /\ HasFrame(st)
  /\ \E f : f[1] = "finally" /\ st.stack = Frames(r, f, x)
  /\ x \in {"out", "window", "finally"} => st.flags = RestingFlags(r)
  /\ x \in {"out", "lora"} => st.open = <<>>
  /\ x \notin {"out", "lora"} => \E i : st.open = <<i>>
  /\ st.w = st.entry

LEMMA SameWithin ==
  ASSUME NEW r, NEW st, NEW n, NEW x, Within(r, st, x), SameFrame(n, st)
  PROVE  Within(r, n, x)
BY DEF Within, SameFrame

\* A frame on top of a stack, and taken off again.
LEMMA StackOfOne ==
  ASSUME NEW i
  PROVE  /\ Head(<<i>>) = i /\ Tail(<<i>>) = <<>> /\ <<i>> # <<>>
         /\ <<i>> \o <<>> = <<i>>
<1>1. Head(<<i>>) = i /\ Tail(<<i>>) = <<>>
  OBVIOUS
<1>2. <<i>> \o <<>> = <<i>>
  OBVIOUS
<1>3. <<i>> # <<>>
  BY Len(<<>>) = 0, Len(<<i>>) = 1
<1> QED BY <1>1, <1>2, <1>3

LEMMA StackOfTwo ==
  ASSUME NEW i, NEW j
  PROVE  /\ Head(<<i, j>>) = i /\ Tail(<<i, j>>) = <<j>> /\ <<i, j>> # <<>>
         /\ <<i>> \o <<j>> = <<i, j>>
<1>1. Head(<<i, j>>) = i /\ Tail(<<i, j>>) = <<j>>
  OBVIOUS
<1>2. <<i, j>> # <<>>
  BY Len(<<>>) = 0, Len(<<i, j>>) = 2
<1> QED BY <1>1, <1>2, PairJoined

LEMMA PushOnTwo ==
  ASSUME NEW i, NEW j, NEW k
  PROVE  <<i>> \o <<j, k>> = <<i, j, k>>
<1> DEFINE p == <<i>>
           q == <<j, k>>
           t == <<i, j, k>>
           r == p \o q
<1>1. /\ p \in Seq({i}) /\ Len(p) = 1 /\ p[1] = i
      /\ q \in Seq({j, k}) /\ Len(q) = 2 /\ q[1] = j /\ q[2] = k
  OBVIOUS
<1>2. t \in Seq({i, j, k}) /\ Len(t) = 3 /\ t[1] = i /\ t[2] = j /\ t[3] = k
  OBVIOUS
<1> HIDE DEF p, q, t
<1>3. IsSequence(p) /\ IsSequence(q) /\ IsSequence(t)
  BY <1>1, <1>2 DEF IsSequence
<1>4. /\ IsSequence(r) /\ Len(r) = Len(p) + Len(q)
      /\ \A n \in 1..Len(p) : r[n] = p[n]
      /\ \A n \in 1..Len(q) : r[Len(p) + n] = q[n]
  BY <1>3, JoinIs
<1>5. /\ 1 \in 1..Len(p) /\ 1 \in 1..Len(q) /\ 2 \in 1..Len(q)
      /\ Len(p) + 1 = 2 /\ Len(p) + 2 = 3 /\ Len(p) + Len(q) = 3
  BY <1>1
<1>6. Len(r) = 3 /\ r[1] = i /\ r[2] = j /\ r[3] = k
  BY <1>1, <1>4, <1>5
<1> HIDE DEF r
<1>7. \A n \in 1..3 : r[n] = t[n]
  BY <1>2, <1>6
<1>8. r = t
  BY <1>2, <1>3, <1>4, <1>6, <1>7, SameSequence
<1> QED BY <1>8 DEF r, p, q, t

LEMMA StackOfThree ==
  ASSUME NEW i, NEW j, NEW k
  PROVE  /\ Head(<<i, j, k>>) = i /\ Tail(<<i, j, k>>) = <<j, k>> /\ <<i, j, k>> # <<>>
         /\ <<i>> \o <<j, k>> = <<i, j, k>>
<1>1. Head(<<i, j, k>>) = i /\ Tail(<<i, j, k>>) = <<j, k>>
  OBVIOUS
<1>2. <<i, j, k>> # <<>>
  BY Len(<<>>) = 0, Len(<<i, j, k>>) = 3
<1> QED BY <1>1, <1>2, PushOnTwo

\* What an opened scope puts on the stack, and what is below it.
LEMMA FramesPushed ==
  ASSUME NEW r, NEW f, NEW x, NEW k, NEW y, Opens(x, k, y)
  PROVE  Frames(r, f, y) = <<Top(r, f, k)>> \o Frames(r, f, x)
<1> DEFINE L == LoraFrame(r)
           W == WindowFrame
<1>1. /\ Frames(r, f, "out") = <<>> /\ Frames(r, f, "lora") = <<L>>
      /\ Frames(r, f, "window") = <<W>> /\ Frames(r, f, "window lora") = <<L, W>>
      /\ Frames(r, f, "finally") = <<f, W>> /\ Frames(r, f, "finally lora") = <<L, f, W>>
  BY DEF Frames
<1>2. Top(r, f, "lora") = L /\ Top(r, f, "window") = W /\ Top(r, f, "finally") = f
  BY DEF Top
<1> HIDE DEF L, W
<1>3. \A i : <<i>> \o <<>> = <<i>>
  BY StackOfOne
<1>4. \A i, j : <<i>> \o <<j>> = <<i, j>>
  BY StackOfTwo
<1>5. <<L>> \o <<f, W>> = <<L, f, W>>
  BY StackOfThree
<1>6. CASE x = "out" /\ k = "lora" /\ y = "lora"
  BY <1>1, <1>2, <1>3, <1>6
<1>7. CASE x = "window" /\ k = "lora" /\ y = "window lora"
  BY <1>1, <1>2, <1>4, <1>7
<1>8. CASE x = "finally" /\ k = "lora" /\ y = "finally lora"
  BY <1>1, <1>2, <1>5, <1>8
<1>9. CASE x = "out" /\ k = "window" /\ y = "window"
  BY <1>1, <1>2, <1>3, <1>9
<1>10. CASE x = "window" /\ k = "finally" /\ y = "finally"
  BY <1>1, <1>2, <1>4, <1>10
<1> QED BY <1>6, <1>7, <1>8, <1>9, <1>10 DEF Opens

LEMMA FramesOpen ==
  ASSUME NEW r, NEW f, NEW x, NEW k, NEW y, Opens(x, k, y)
  PROVE  Frames(r, f, y) # <<>>
<1> DEFINE L == LoraFrame(r)
           W == WindowFrame
<1>1. /\ Frames(r, f, "out") = <<>> /\ Frames(r, f, "lora") = <<L>>
      /\ Frames(r, f, "window") = <<W>> /\ Frames(r, f, "window lora") = <<L, W>>
      /\ Frames(r, f, "finally") = <<f, W>> /\ Frames(r, f, "finally lora") = <<L, f, W>>
  BY DEF Frames
<1>2. Top(r, f, "lora") = L /\ Top(r, f, "window") = W /\ Top(r, f, "finally") = f
  BY DEF Top
<1> HIDE DEF L, W
<1>3. \A i : <<i>> # <<>>
  BY StackOfOne
<1>4. \A i, j : <<i, j>> # <<>>
  BY StackOfTwo
<1>5. <<L, f, W>> # <<>>
  BY StackOfThree
<1>6. CASE x = "out" /\ k = "lora" /\ y = "lora"
  BY <1>1, <1>2, <1>3, <1>6
<1>7. CASE x = "window" /\ k = "lora" /\ y = "window lora"
  BY <1>1, <1>2, <1>4, <1>7
<1>8. CASE x = "finally" /\ k = "lora" /\ y = "finally lora"
  BY <1>1, <1>2, <1>5, <1>8
<1>9. CASE x = "out" /\ k = "window" /\ y = "window"
  BY <1>1, <1>2, <1>3, <1>9
<1>10. CASE x = "window" /\ k = "finally" /\ y = "finally"
  BY <1>1, <1>2, <1>4, <1>10
<1> QED BY <1>6, <1>7, <1>8, <1>9, <1>10 DEF Opens

LEMMA FramesHead ==
  ASSUME NEW r, NEW f, NEW x, NEW k, NEW y, Opens(x, k, y)
  PROVE  Head(Frames(r, f, y)) = Top(r, f, k)
<1> DEFINE L == LoraFrame(r)
           W == WindowFrame
<1>1. /\ Frames(r, f, "out") = <<>> /\ Frames(r, f, "lora") = <<L>>
      /\ Frames(r, f, "window") = <<W>> /\ Frames(r, f, "window lora") = <<L, W>>
      /\ Frames(r, f, "finally") = <<f, W>> /\ Frames(r, f, "finally lora") = <<L, f, W>>
  BY DEF Frames
<1>2. Top(r, f, "lora") = L /\ Top(r, f, "window") = W /\ Top(r, f, "finally") = f
  BY DEF Top
<1> HIDE DEF L, W
<1>3. \A i : Head(<<i>>) = i
  BY StackOfOne
<1>4. \A i, j : Head(<<i, j>>) = i
  BY StackOfTwo
<1>5. Head(<<L, f, W>>) = L
  BY StackOfThree
<1>6. CASE x = "out" /\ k = "lora" /\ y = "lora"
  BY <1>1, <1>2, <1>3, <1>6
<1>7. CASE x = "window" /\ k = "lora" /\ y = "window lora"
  BY <1>1, <1>2, <1>4, <1>7
<1>8. CASE x = "finally" /\ k = "lora" /\ y = "finally lora"
  BY <1>1, <1>2, <1>5, <1>8
<1>9. CASE x = "out" /\ k = "window" /\ y = "window"
  BY <1>1, <1>2, <1>3, <1>9
<1>10. CASE x = "window" /\ k = "finally" /\ y = "finally"
  BY <1>1, <1>2, <1>4, <1>10
<1> QED BY <1>6, <1>7, <1>8, <1>9, <1>10 DEF Opens

LEMMA FramesTail ==
  ASSUME NEW r, NEW f, NEW x, NEW k, NEW y, Opens(x, k, y)
  PROVE  Tail(Frames(r, f, y)) = Frames(r, f, x)
<1> DEFINE L == LoraFrame(r)
           W == WindowFrame
<1>1. /\ Frames(r, f, "out") = <<>> /\ Frames(r, f, "lora") = <<L>>
      /\ Frames(r, f, "window") = <<W>> /\ Frames(r, f, "window lora") = <<L, W>>
      /\ Frames(r, f, "finally") = <<f, W>> /\ Frames(r, f, "finally lora") = <<L, f, W>>
  BY DEF Frames
<1>2. Top(r, f, "lora") = L /\ Top(r, f, "window") = W /\ Top(r, f, "finally") = f
  BY DEF Top
<1> HIDE DEF L, W
<1>3. \A i : Tail(<<i>>) = <<>>
  BY StackOfOne
<1>4. \A i, j : Tail(<<i, j>>) = <<j>>
  BY StackOfTwo
<1>5. Tail(<<L, f, W>>) = <<f, W>>
  BY StackOfThree
<1>6. CASE x = "out" /\ k = "lora" /\ y = "lora"
  BY <1>1, <1>2, <1>3, <1>6
<1>7. CASE x = "window" /\ k = "lora" /\ y = "window lora"
  BY <1>1, <1>2, <1>4, <1>7
<1>8. CASE x = "finally" /\ k = "lora" /\ y = "finally lora"
  BY <1>1, <1>2, <1>5, <1>8
<1>9. CASE x = "out" /\ k = "window" /\ y = "window"
  BY <1>1, <1>2, <1>3, <1>9
<1>10. CASE x = "window" /\ k = "finally" /\ y = "finally"
  BY <1>1, <1>2, <1>4, <1>10
<1> QED BY <1>6, <1>7, <1>8, <1>9, <1>10 DEF Opens

LEMMA WithinIs ==
  ASSUME NEW r, NEW st, NEW x, HasFrame(st), NEW f, f[1] = "finally",
         st.stack = Frames(r, f, x), st.w = st.entry,
         x \in {"out", "window", "finally"} => st.flags = RestingFlags(r),
         x \in {"out", "lora"} => st.open = <<>>,
         x \notin {"out", "lora"} => \E i : st.open = <<i>>
  PROVE  Within(r, st, x)
BY DEF Within

\* Opening a scope.
LEMMA OpensWithin ==
  ASSUME NEW r, NEW st, NEW i, NEW x, NEW y, Opens(x, i[1], y),
         Within(r, st, x)
  PROVE  Within(r, Do(r, i, st), y)
<1> DEFINE n == Do(r, i, st)
<1>1. PICK f : f[1] = "finally" /\ st.stack = Frames(r, f, x)
  BY DEF Within
<1>2. HasFrame(st) /\ st.w = st.entry
  BY DEF Within
<1>3. Frames(r, f, y) = <<Top(r, f, i[1])>> \o st.stack
  BY <1>1, FramesPushed
<1>4. CASE i[1] = "lora"
  <2>1. /\ x \in {"out", "window", "finally"} /\ y \notin {"out", "window", "finally"}
        /\ x \in {"out", "lora"} <=> y \in {"out", "lora"}
    BY <1>4 DEF Opens
  <2>2. st.flags = RestingFlags(r)
    BY <2>1 DEF Within
  <2>3. \E g : n = [[st EXCEPT !.stack = <<LoraFrame(r)>> \o st.stack] EXCEPT !.flags = g]
    BY <1>4, <2>2 DEF Do, Push, LoraFrame
  <2>4. /\ HasFrame(n) /\ n.open = st.open /\ n.w = st.w /\ n.entry = st.entry
        /\ n.stack = <<LoraFrame(r)>> \o st.stack
    BY <1>2, <2>3 DEF HasFrame, Kept
  <2> HIDE DEF n
  <2>5. n.stack = Frames(r, f, y)
    BY <1>3, <1>4, <2>4 DEF Top
  <2>6. /\ y \in {"out", "lora"} => n.open = <<>>
        /\ y \notin {"out", "lora"} => \E o : n.open = <<o>>
    BY <2>1, <2>4 DEF Within
  <2>7. Within(r, n, y)
    BY <1>1, <1>2, <2>1, <2>4, <2>5, <2>6, WithinIs
  <2> QED BY <2>7 DEF n
<1>5. CASE i[1] = "window"
  <2>8. Opens(x, "window", y)
    BY <1>5
  <2>1. x = "out" /\ y = "window"
    BY <2>8 DEF Opens
  <2>2. st.flags = RestingFlags(r) /\ st.open = <<>>
    BY <2>1 DEF Within
  <2>3. n = [[st EXCEPT !.stack = <<WindowFrame>> \o st.stack] EXCEPT !.open = <<i>> \o st.open]
    BY <1>2, <1>5 DEF Do, Push, HasFrame, Kept, WindowFrame
  <2>4. /\ HasFrame(n) /\ n.flags = st.flags /\ n.w = st.w /\ n.entry = st.entry
        /\ n.stack = <<WindowFrame>> \o st.stack /\ n.open = <<i>> \o st.open
    BY <1>2, <2>3 DEF HasFrame, Kept
  <2> HIDE DEF n
  <2>5. n.open = <<i>>
    BY <2>2, <2>4, StackOfOne
  <2>6. n.stack = Frames(r, f, y)
    BY <1>3, <1>5, <2>4 DEF Top
  <2>7. Within(r, n, y)
    BY <1>1, <1>2, <2>1, <2>2, <2>4, <2>5, <2>6, WithinIs
  <2> QED BY <2>7 DEF n
<1>6. CASE i[1] = "finally"
  <2>8. Opens(x, "finally", y)
    BY <1>6
  <2>1. x = "window" /\ y = "finally"
    BY <2>8 DEF Opens
  <2>2. n = [st EXCEPT !.stack = <<i>> \o st.stack]
    BY <1>6 DEF Do, Push
  <2>3. /\ HasFrame(n) /\ n.flags = st.flags /\ n.w = st.w /\ n.entry = st.entry
        /\ n.open = st.open /\ n.stack = <<i>> \o st.stack
    BY <1>2, <2>2 DEF HasFrame, Kept
  <2> HIDE DEF n
  <2>4. st.stack = Frames(r, i, x)
    BY <1>1, <2>1 DEF Frames
  <2>5. n.stack = Frames(r, i, y)
    <3>1. Frames(r, i, y) = <<Top(r, i, "finally")>> \o Frames(r, i, x)
      BY <2>8, FramesPushed
    <3> QED BY <2>3, <2>4, <3>1 DEF Top
  <2>6. st.flags = RestingFlags(r) /\ \E o : st.open = <<o>>
    BY <2>1 DEF Within
  <2>7. Within(r, n, y)
    BY <1>2, <1>6, <2>1, <2>3, <2>5, <2>6, WithinIs
  <2> QED BY <2>7 DEF n
<1> QED BY <1>4, <1>5, <1>6 DEF Opens

\* Leaving one, by its end or by an exception.
LEMMA ClosesWithin ==
  ASSUME NEW r, NEW st, NEW x, NEW y, Closes(x, y), Within(r, st, x),
         NEW raised
  PROVE  /\ st.stack # <<>>
         /\ Within(r, Leave(Pop(st), Head(st.stack), raised), y)
<1> DEFINE mid == [st EXCEPT !.stack = Tail(st.stack)]
           frame == Head(st.stack)
           n == Leave(mid, frame, raised)
<1>1. PICK f : f[1] = "finally" /\ st.stack = Frames(r, f, x)
  BY DEF Within
<1>2. Pop(st) = mid
  BY DEF Pop
<1>3. /\ HasFrame(mid) /\ mid.flags = st.flags /\ mid.w = st.w /\ mid.entry = st.entry
      /\ mid.open = st.open /\ mid.stack = Tail(st.stack)
  BY DEF HasFrame, Kept, Within
<1>4. st.w = st.entry
  BY DEF Within
<1>5. PICK k : Opens(y, k, x)
  BY DEF Closes
<1>9. /\ st.stack # <<>> /\ frame = Top(r, f, k) /\ mid.stack = Frames(r, f, y)
  <2>1. Frames(r, f, x) # <<>>
    BY <1>5, FramesOpen
  <2>2. Head(Frames(r, f, x)) = Top(r, f, k)
    BY <1>5, FramesHead
  <2>3. Tail(Frames(r, f, x)) = Frames(r, f, y)
    BY <1>5, FramesTail
  <2> QED BY <1>1, <1>3, <2>1, <2>2, <2>3
<1> HIDE DEF mid
<1>6. CASE k = "lora"
  <2>1. frame[1] = "lora" /\ frame[2] = RestingFlags(r)
    BY <1>6, <1>9 DEF Top, LoraFrame
  <2>2. x \in {"out", "lora"} <=> y \in {"out", "lora"}
    BY <1>5, <1>6 DEF Opens
  <2> HIDE DEF frame
  <2>3. n = [mid EXCEPT !.flags = RestingFlags(r)]
    BY <2>1 DEF Leave, CloseScope
  <2>4. /\ HasFrame(n) /\ n.flags = RestingFlags(r) /\ n.w = st.w /\ n.entry = st.entry
        /\ n.open = st.open /\ n.stack = mid.stack
    BY <1>3, <2>3 DEF HasFrame, Kept
  <2> HIDE DEF n
  <2>5. /\ y \in {"out", "lora"} => n.open = <<>>
        /\ y \notin {"out", "lora"} => \E i : n.open = <<i>>
    BY <2>2, <2>4 DEF Within
  <2>6. Within(r, n, y)
    BY <1>1, <1>4, <1>9, <2>4, <2>5, WithinIs
  <2> QED BY <1>2, <1>9, <2>6 DEF n, frame
<1>7. CASE k = "window"
  <2>1. frame[1] = "window"
    BY <1>7, <1>9 DEF Top, WindowFrame
  <2>9. Opens(y, "window", x)
    BY <1>5, <1>7
  <2>2. x = "window" /\ y = "out"
    BY <2>9 DEF Opens
  <2> HIDE DEF frame
  <2>3. n = [mid EXCEPT !.open = Tail(mid.open)]
    BY <2>1 DEF Leave, CloseWindow
  <2>4. /\ HasFrame(n) /\ n.flags = st.flags /\ n.w = st.w /\ n.entry = st.entry
        /\ n.open = Tail(st.open) /\ n.stack = mid.stack
    BY <1>3, <2>3 DEF HasFrame, Kept
  <2> HIDE DEF n
  <2>5. st.flags = RestingFlags(r) /\ \E i : st.open = <<i>>
    BY <2>2 DEF Within
  <2>6. n.open = <<>>
    BY <2>4, <2>5, StackOfOne
  <2>7. Within(r, n, y)
    BY <1>1, <1>4, <1>9, <2>2, <2>4, <2>5, <2>6, WithinIs
  <2> QED BY <1>2, <1>9, <2>7 DEF n, frame
<1>8. CASE k = "finally"
  <2>1. frame[1] = "finally"
    BY <1>1, <1>8, <1>9 DEF Top
  <2>9. Opens(y, "finally", x)
    BY <1>5, <1>8
  <2>2. x = "finally" /\ y = "window"
    BY <2>9 DEF Opens
  <2> HIDE DEF frame
  <2>3. n = Restore(mid, frame[2], frame[3])
    BY <2>1 DEF Leave
  <2>4. SameFrame(n, mid)
    BY <1>3, <2>3, CopyKeeps
  <2> HIDE DEF n
  <2>5. mid.flags = RestingFlags(r) /\ \E i : mid.open = <<i>>
    BY <1>3, <2>2 DEF Within
  <2>6. Within(r, mid, y)
    BY <1>1, <1>3, <1>4, <1>9, <2>2, <2>5, WithinIs
  <2>7. Within(r, n, y)
    BY <2>4, <2>6, SameWithin
  <2> QED BY <1>2, <1>9, <2>7 DEF n, frame
<1> QED BY <1>5, <1>6, <1>7, <1>8 DEF Opens

\* The restore of a finally block that fails: its frame is gone all the same.
LEMMA FinallyLost ==
  ASSUME NEW r, NEW st, NEW x \in Scopes, Within(r, st, x), st.stack # <<>>,
         Head(st.stack)[1] = "finally"
  PROVE  Within(r, Pop(st), "window")
<1>1. PICK f : f[1] = "finally" /\ st.stack = Frames(r, f, x)
  BY DEF Within
<1> DEFINE mid == [st EXCEPT !.stack = Tail(st.stack)]
<1>2. Pop(st) = mid
  BY DEF Pop
<1>3. /\ HasFrame(mid) /\ mid.flags = st.flags /\ mid.w = st.w /\ mid.entry = st.entry
      /\ mid.open = st.open /\ mid.stack = Tail(st.stack) /\ st.w = st.entry
  BY DEF HasFrame, Kept, Within
<1> HIDE DEF mid
<1>4. PICK y, k : Opens(y, k, x)
  <2>1. x # "out"
    BY <1>1 DEF Frames
  <2> QED BY <2>1 DEF Scopes, Opens
<1>5. Head(st.stack) = Top(r, f, k) /\ Tail(st.stack) = Frames(r, f, y)
  <2>1. Head(Frames(r, f, x)) = Top(r, f, k)
    BY <1>4, FramesHead
  <2>2. Tail(Frames(r, f, x)) = Frames(r, f, y)
    BY <1>4, FramesTail
  <2> QED BY <1>1, <2>1, <2>2
<1>6. x = "finally" /\ y = "window"
  <2>1. Top(r, f, "lora")[1] = "lora" /\ Top(r, f, "window")[1] = "window"
    BY DEF Top, LoraFrame, WindowFrame
  <2>2. k = "finally"
    BY <1>4, <1>5, <2>1 DEF Opens
  <2>3. Opens(y, "finally", x)
    BY <1>4, <2>2
  <2> QED BY <2>3 DEF Opens
<1>7. mid.flags = RestingFlags(r) /\ \E i : mid.open = <<i>>
  BY <1>3, <1>6 DEF Within
<1>8. Within(r, mid, "window")
  BY <1>1, <1>3, <1>5, <1>6, <1>7, WithinIs
<1> QED BY <1>2, <1>8

\* With scopes open there is something to leave, and it can be left.
LEMMA LeavesWithin ==
  ASSUME NEW r, NEW st, NEW x \in Scopes, Within(r, st, x)
  PROVE  /\ x = "out" <=> st.stack = <<>>
         /\ x # "out" => \E y \in Scopes : Closes(x, y)
<1>1. x = "out" => st.stack = <<>>
  BY DEF Within, Frames
<1>2. x # "out" => \E y \in Scopes : Closes(x, y)
  <2>1. SUFFICES ASSUME x # "out" PROVE \E y \in Scopes : Closes(x, y)
    OBVIOUS
  <2>2. PICK y, k : Opens(y, k, x)
    BY <2>1 DEF Scopes, Opens
  <2>3. Closes(x, y)
    BY <2>2 DEF Closes
  <2> QED BY <2>2, <2>3 DEF Opens, Scopes
<1>3. x # "out" => st.stack # <<>>
  BY <1>2, ClosesWithin
<1> QED BY <1>1, <1>2, <1>3

----------------------------------------------------------------------------
(* Loading                                                                 *)

\* Trainables are kept per tensor of the configuration.
Shaped(r, st) ==
  /\ st.w = [t \in Tensors(r) |-> st.w[t]]
  /\ st.entry = [t \in Tensors(r) |-> st.entry[t]]

\* The switches and windows at rest, which a load does not touch.
Calm(r, st) == HasFrame(st) /\ st.flags = RestingFlags(r) /\ st.open = <<>>

\* What is left of a load: copies, and the end of the try block.  Every tensor
\* has been copied or still will be.
Copies(r, a, st, p) ==
  /\ IsSequence(p) /\ p # <<>> /\ p[Len(p)] = <<"end">>
  /\ \A n \in 1..Len(p) - 1 : \E t \in Tensors(r) : p[n] = <<"copy", t, a.sd.version>>
  /\ \A t \in Tensors(r) :
       \/ st.w[t] = a.sd.version
       \/ \E n \in 1..Len(p) - 1 : p[n] = <<"copy", t, a.sd.version>>

Trying(st) == st.stack = <<<<"except", st.entry>>>>
Loaded(r, a) == [t \in Tensors(r) |-> a.sd.version]

Loading(r, a, st, p) ==
  /\ Calm(r, st)
  /\ \/ p = LoadCall(r, a) /\ st.stack = <<>> /\ st.w = st.entry
     \/ Trying(st) /\ Copies(r, a, st, p)
     \/ p = <<>> /\ st.stack = <<>> /\ st.w = Loaded(r, a)

LoadFailed(r, st) ==
  Calm(r, st) /\ (Trying(st) \/ (st.stack = <<>> /\ st.w = st.entry))

\* The tensors in the order they are copied in: every one of them.
LEMMA TensorOrder ==
  ASSUME NEW r
  PROVE  /\ Cardinality(Tensors(r)) \in Nat
         /\ SetToSeq(Tensors(r)) \in [1..Cardinality(Tensors(r)) -> Tensors(r)]
         /\ \A t \in Tensors(r) :
              \E j \in 1..Cardinality(Tensors(r)) : SetToSeq(Tensors(r))[j] = t
<1> DEFINE T == Tensors(r)
           n == Cardinality(T)
           f == SetToSeq(T)
<1>1. IsFiniteSet(T)
  <2>1. T \subseteq {"A", "B", "clock", "gates"}
    BY DEF Tensors
  <2>2. IsFiniteSet({"A"}) /\ IsFiniteSet({"A"} \cup {"B"})
        /\ IsFiniteSet({"A"} \cup {"B"} \cup {"clock"})
        /\ IsFiniteSet({"A"} \cup {"B"} \cup {"clock"} \cup {"gates"})
    BY FS_Singleton, FS_AddElement
  <2>3. T \subseteq {"A"} \cup {"B"} \cup {"clock"} \cup {"gates"}
    BY <2>1
  <2> HIDE DEF T
  <2> QED BY <2>2, <2>3, FS_Subset
<1> HIDE DEF T
<1>2. n \in Nat /\ ExistsBijection(1..n, T)
  BY <1>1, FS_CardinalityType
<1>3. \E g \in [1..n -> T] : IsInjective(g)
  BY <1>2 DEF ExistsBijection, Bijection, Injection
<1>4. f \in [1..n -> T] /\ IsInjective(f)
  BY <1>3 DEF SetToSeq
<1>5. IsFiniteSet(1..n) /\ Cardinality(1..n) = n
  BY <1>2, FS_Interval
<1> HIDE DEF n, f
<1>6. f \in Injection(1..n, T)
  BY <1>4 DEF Injection
<1>7. f \in Surjection(1..n, T)
  <2>1. Cardinality(1..n) = Cardinality(T)
    BY <1>5 DEF n
  <2> QED BY <1>1, <1>6, <2>1, FS_Injection
<1>8. \A t \in T : \E j \in 1..n : f[j] = t
  BY <1>7 DEF Surjection
<1> QED BY <1>2, <1>4, <1>8 DEF T, n, f

LEMMA OneIs ==
  ASSUME NEW i
  PROVE  IsSequence(<<i>>) /\ Len(<<i>>) = 1 /\ <<i>>[1] = i
<1>1. <<i>> \in Seq({i})
  OBVIOUS
<1>2. Len(<<i>>) = 1 /\ <<i>>[1] = i
  OBVIOUS
<1> QED BY <1>1, <1>2 DEF IsSequence

LEMMA TailIs ==
  ASSUME NEW p, IsSequence(p), p # <<>>
  PROVE  /\ Head(p) = p[1] /\ IsSequence(Tail(p)) /\ Len(Tail(p)) = Len(p) - 1
         /\ \A n \in 1..Len(p) - 1 : Tail(p)[n] = p[n + 1]
         /\ Len(p) \in Nat \ {0}
<1>1. PICK S : p \in Seq(S)
  BY DEF IsSequence
<1>2. Len(p) \in Nat \ {0} /\ Head(p) = p[1]
  BY <1>1
<1>3. Tail(p) \in Seq(S) /\ Len(Tail(p)) = Len(p) - 1
  BY <1>1
<1>4. \A n \in 1..Len(p) - 1 : Tail(p)[n] = p[n + 1]
  BY <1>1, <1>2
<1> QED BY <1>2, <1>3, <1>4 DEF IsSequence

\* The program of a load, taken apart.
AllCopies(r, a, q) ==
  /\ IsSequence(q) /\ q # <<>> /\ q[Len(q)] = <<"end">>
  /\ \A n \in 1..Len(q) - 1 : \E t \in Tensors(r) : q[n] = <<"copy", t, a.sd.version>>
  /\ \A t \in Tensors(r) :
       \E n \in 1..Len(q) - 1 : q[n] = <<"copy", t, a.sd.version>>

LEMMA LoadIs ==
  ASSUME NEW r, NEW a
  PROVE  /\ LoadCall(r, a) # <<>> /\ Head(LoadCall(r, a)) = <<"except">>
         /\ AllCopies(r, a, Tail(LoadCall(r, a)))
<1> DEFINE T == Tensors(r)
           n == Cardinality(T)
           f == SetToSeq(T)
           v == a.sd.version
           c == [j \in 1..n |-> <<"copy", f[j], v>>]
           x == <<"except">>
           e == <<"end">>
           p == <<x>> \o c \o <<e>>
<1>1. /\ n \in Nat /\ f \in [1..n -> T]
      /\ \A t \in T : \E j \in 1..n : f[j] = t
  BY TensorOrder
<1>2. LoadCall(r, a) = p
  BY DEF LoadCall
<1> HIDE DEF T, n, f, v, x, e
<1>3. c = [j \in 1..n |-> c[j]] /\ \A j \in 1..n : c[j] = <<"copy", f[j], v>>
  OBVIOUS
<1> HIDE DEF c
<1>4. IsSequence(c) /\ Len(c) \in Nat /\ 1..Len(c) = 1..n
  BY <1>1, <1>3, FunctionIsSequence
<1>5. Len(c) = n
  BY <1>1, <1>4, SameInterval
<1>6. /\ IsSequence(<<x>>) /\ Len(<<x>>) = 1 /\ <<x>>[1] = x
      /\ IsSequence(<<e>>) /\ Len(<<e>>) = 1 /\ <<e>>[1] = e
  BY OneIs
<1> DEFINE b == <<x>> \o c
<1>7. /\ IsSequence(b) /\ Len(b) = n + 1 /\ b[1] = x
      /\ \A j \in 1..n : b[j + 1] = c[j]
  <2>1. /\ IsSequence(b) /\ Len(b) = Len(<<x>>) + Len(c)
        /\ \A m \in 1..Len(<<x>>) : b[m] = <<x>>[m]
        /\ \A m \in 1..Len(c) : b[Len(<<x>>) + m] = c[m]
    BY <1>4, <1>6, JoinIs
  <2> HIDE DEF b
  <2>2. 1 \in 1..Len(<<x>>) /\ Len(<<x>>) + Len(c) = n + 1
    BY <1>1, <1>5, <1>6
  <2>3. \A j \in 1..n : Len(<<x>>) + j = j + 1 /\ j \in 1..Len(c)
    BY <1>1, <1>5, <1>6
  <2> QED BY <1>6, <2>1, <2>2, <2>3
<1> HIDE DEF b
<1>8. /\ IsSequence(p) /\ Len(p) = n + 2 /\ p[1] = x /\ p[n + 2] = e
      /\ \A j \in 1..n : p[j + 1] = c[j]
  <2>1. /\ IsSequence(p) /\ Len(p) = Len(b) + Len(<<e>>)
        /\ \A m \in 1..Len(b) : p[m] = b[m]
        /\ \A m \in 1..Len(<<e>>) : p[Len(b) + m] = <<e>>[m]
    <3>1. p = b \o <<e>>
      BY DEF b
    <3> HIDE DEF p
    <3>2. /\ IsSequence(b \o <<e>>) /\ Len(b \o <<e>>) = Len(b) + Len(<<e>>)
          /\ \A m \in 1..Len(b) : (b \o <<e>>)[m] = b[m]
          /\ \A m \in 1..Len(<<e>>) : (b \o <<e>>)[Len(b) + m] = <<e>>[m]
      BY <1>6, <1>7, JoinIs
    <3> QED BY <3>1, <3>2
  <2> HIDE DEF p
  <2>2. /\ 1 \in 1..Len(b) /\ 1 \in 1..Len(<<e>>) /\ Len(b) + 1 = n + 2
        /\ Len(b) + Len(<<e>>) = n + 2
    BY <1>1, <1>6, <1>7
  <2>3. \A j \in 1..n : j + 1 \in 1..Len(b)
    BY <1>1, <1>7
  <2> QED BY <1>6, <1>7, <2>1, <2>2, <2>3
<1> HIDE DEF p
<1> DEFINE q == Tail(p)
<1>9. p # <<>>
  BY <1>1, <1>8
<1>10. /\ Head(p) = x /\ IsSequence(q) /\ Len(q) = n + 1
       /\ \A m \in 1..n + 1 : q[m] = p[m + 1]
  <2>1. /\ Head(p) = p[1] /\ IsSequence(q) /\ Len(q) = Len(p) - 1
        /\ \A m \in 1..Len(p) - 1 : q[m] = p[m + 1]
    BY <1>8, <1>9, TailIs
  <2>2. (n + 2) - 1 = n + 1
    BY <1>1
  <2> QED BY <1>8, <2>1, <2>2
<1> HIDE DEF q
<1>11. q # <<>> /\ q[Len(q)] = e
  <2>1. n + 1 \in 1..n + 1 /\ (n + 1) + 1 = n + 2 /\ n + 1 # 0
    BY <1>1
  <2>2. q[n + 1] = p[n + 2]
    BY <1>10, <2>1
  <2> QED BY <1>8, <1>10, <2>1, <2>2
<1>12. \A j \in 1..n : q[j] = <<"copy", f[j], v>>
  <2>1. \A j \in 1..n : j \in 1..n + 1
    BY <1>1
  <2> QED BY <1>3, <1>8, <1>10, <2>1
<1>13. 1..Len(q) - 1 = 1..n
  <2>1. (n + 1) - 1 = n
    BY <1>1
  <2> QED BY <1>10, <2>1
<1>14. \A m \in 1..Len(q) - 1 : \E t \in T : q[m] = <<"copy", t, v>>
  BY <1>1, <1>12, <1>13
<1>15. \A t \in T : \E m \in 1..Len(q) - 1 : q[m] = <<"copy", t, v>>
  BY <1>1, <1>12, <1>13
<1>16. /\ p # <<>> /\ Head(p) = x /\ Tail(p) = q
  BY <1>9, <1>10 DEF q
<1>17. AllCopies(r, a, q)
  BY <1>10, <1>11, <1>14, <1>15 DEF AllCopies, T, v, e
<1>18. LoadCall(r, a) # <<>>
  BY <1>2, <1>16
<1>19. Head(LoadCall(r, a)) = x
  BY <1>2, <1>16
<1>20. Tail(LoadCall(r, a)) = q
  BY <1>2, <1>16
<1> QED BY <1>17, <1>18, <1>19, <1>20 DEF x

CopyTo(st, t, v) == [st EXCEPT !.w[t] = v]

\* A tensor copied, whole or torn, is all that a copy changes.
LEMMA CopyWrites ==
  ASSUME NEW r, NEW st, Calm(r, st), Shaped(r, st), NEW t \in Tensors(r), NEW v, NEW n,
         n = CopyTo(st, t, v)
  PROVE  /\ Calm(r, n) /\ Shaped(r, n) /\ n.entry = st.entry /\ n.stack = st.stack
         /\ n.w[t] = v /\ \A u \in Tensors(r) : u # t => n.w[u] = st.w[u]
<1>1. HasFrame(st)
  BY DEF Calm
<1>2. /\ HasFrame(n) /\ n.flags = st.flags /\ n.open = st.open /\ n.entry = st.entry
      /\ n.stack = st.stack /\ n.w = [st.w EXCEPT ![t] = v]
  BY <1>1 DEF CopyTo, HasFrame, Kept
<1>3. DOMAIN st.w = Tensors(r)
  BY DEF Shaped
<1>4. /\ n.w = [u \in Tensors(r) |-> n.w[u]] /\ n.w[t] = v
      /\ \A u \in Tensors(r) : u # t => n.w[u] = st.w[u]
  BY <1>2, <1>3
<1>5. n.entry = [u \in Tensors(r) |-> n.entry[u]]
  BY <1>2 DEF Shaped
<1> QED BY <1>2, <1>4, <1>5 DEF Calm, Shaped

\* What the first instruction of the copies is.
LEMMA CopiesStart ==
  ASSUME NEW r, NEW a, NEW st, NEW p, Copies(r, a, st, p)
  PROVE  \/ Head(p) = <<"end">> /\ Tail(p) = <<>>
            /\ \A t \in Tensors(r) : st.w[t] = a.sd.version
         \/ Tail(p) # <<>> /\ \E t \in Tensors(r) : Head(p) = <<"copy", t, a.sd.version>>
<1> DEFINE q == Tail(p)
<1>1. /\ Head(p) = p[1] /\ IsSequence(q) /\ Len(q) = Len(p) - 1 /\ Len(p) \in Nat \ {0}
  BY TailIs DEF Copies
<1> HIDE DEF q
<1>2. CASE Len(p) = 1
  <2>1. q = <<>>
    BY <1>1, <1>2 DEF IsSequence
  <2>2. p[1] = <<"end">>
    BY <1>2 DEF Copies
  <2>3. \A n \in 1..Len(p) - 1 : FALSE
    BY <1>2
  <2>4. \A t \in Tensors(r) : st.w[t] = a.sd.version
    BY <2>3 DEF Copies
  <2> QED BY <1>1, <2>1, <2>2, <2>4 DEF q
<1>3. CASE Len(p) # 1
  <2>1. 1 \in 1..Len(p) - 1 /\ Len(q) # 0
    BY <1>1, <1>3
  <2>2. \E t \in Tensors(r) : p[1] = <<"copy", t, a.sd.version>>
    BY <2>1 DEF Copies
  <2>3. q # <<>>
    BY <2>1
  <2> QED BY <1>1, <2>2, <2>3 DEF q
<1> QED BY <1>2, <1>3

\* What is left after the first of the copies.
LEMMA CopiesOn ==
  ASSUME NEW r, NEW a, NEW st, NEW p, Copies(r, a, st, p), NEW t \in Tensors(r), NEW n,
         Head(p) = <<"copy", t, a.sd.version>>, Tail(p) # <<>>,
         n.w[t] = a.sd.version, \A u \in Tensors(r) : u # t => n.w[u] = st.w[u]
  PROVE  Copies(r, a, n, Tail(p))
<1> DEFINE q == Tail(p)
           v == a.sd.version
<1>1. /\ Head(p) = p[1] /\ IsSequence(q) /\ Len(q) = Len(p) - 1 /\ Len(p) \in Nat \ {0}
      /\ \A m \in 1..Len(p) - 1 : q[m] = p[m + 1]
  BY TailIs DEF Copies
<1>2. /\ p[Len(p)] = <<"end">>
      /\ \A m \in 1..Len(p) - 1 : \E u \in Tensors(r) : p[m] = <<"copy", u, v>>
      /\ \A u \in Tensors(r) : \/ st.w[u] = v
                               \/ \E m \in 1..Len(p) - 1 : p[m] = <<"copy", u, v>>
  BY DEF Copies
<1>3. q # <<>>
  OBVIOUS
<1>9. Head(p) = <<"copy", t, v>>
  OBVIOUS
<1>10. n.w[t] = v
  OBVIOUS
<1> HIDE DEF q, v
<1>4. Len(q) # 0
  BY <1>1, <1>3 DEF IsSequence
<1>5. q[Len(q)] = <<"end">>
  <2>1. Len(q) \in 1..Len(p) - 1 /\ Len(q) + 1 = Len(p)
    BY <1>1, <1>4
  <2> QED BY <1>1, <1>2, <2>1
<1>6. \A m \in 1..Len(q) - 1 : \E u \in Tensors(r) : q[m] = <<"copy", u, v>>
  <2> TAKE m \in 1..Len(q) - 1
  <2>1. m \in 1..Len(p) - 1 /\ m + 1 \in 1..Len(p) - 1
    BY <1>1
  <2> QED BY <1>1, <1>2, <2>1
<1>7. ASSUME NEW u \in Tensors(r), n.w[u] # v
      PROVE  \E m \in 1..Len(q) - 1 : q[m] = <<"copy", u, v>>
  <2>1. u # t /\ n.w[u] = st.w[u]
    BY <1>7, <1>10
  <2>2. PICK m \in 1..Len(p) - 1 : p[m] = <<"copy", u, v>>
    BY <1>2, <1>7, <2>1
  <2>3. m # 1
    <3>1. <<"copy", t, v>>[2] = t /\ <<"copy", u, v>>[2] = u
      OBVIOUS
    <3>2. SUFFICES ASSUME m = 1 PROVE FALSE
      OBVIOUS
    <3>3. <<"copy", t, v>> = <<"copy", u, v>>
      BY <1>1, <1>9, <2>2, <3>2
    <3> QED BY <2>1, <3>1, <3>3
  <2>4. m - 1 \in 1..Len(q) - 1 /\ m - 1 \in 1..Len(p) - 1 /\ (m - 1) + 1 = m
    BY <1>1, <2>3
  <2>5. q[m - 1] = <<"copy", u, v>>
    BY <1>1, <2>2, <2>4
  <2> QED BY <2>4, <2>5
<1>8. Copies(r, a, n, q)
  BY <1>1, <1>3, <1>5, <1>6, <1>7 DEF Copies, v
<1> QED BY <1>8 DEF q

\* A step of a load.
LEMMA LoadStep ==
  ASSUME NEW r, NEW a, NEW st, NEW p, Loading(r, a, st, p), Shaped(r, st), p # <<>>,
         NEW n, n = Do(r, Head(p), st)
  PROVE  Loading(r, a, n, Tail(p)) /\ Shaped(r, n)
<1>1. Calm(r, st) /\ HasFrame(st)
  BY DEF Loading, Calm
<1>2. CASE p = LoadCall(r, a) /\ st.stack = <<>> /\ st.w = st.entry
  <2>1. Head(p) = <<"except">> /\ AllCopies(r, a, Tail(p))
    BY <1>2, LoadIs
  <2>2. Head(p)[1] = "except"
    BY <2>1
  <2>3. n = [st EXCEPT !.stack = <<<<"except", st.w>>>> \o st.stack]
    BY <2>2 DEF Do, Push
  <2>4. /\ HasFrame(n) /\ n.flags = st.flags /\ n.open = st.open /\ n.entry = st.entry
        /\ n.w = st.w /\ n.stack = <<<<"except", st.w>>>> \o st.stack
    BY <1>1, <2>3 DEF HasFrame, Kept
  <2>5. Calm(r, n) /\ Shaped(r, n)
    BY <1>1, <2>4 DEF Calm, Shaped
  <2>6. Trying(n)
    <3> DEFINE i == <<"except", st.w>>
    <3>1. <<i>> \o <<>> = <<i>>
      BY StackOfOne
    <3> QED BY <1>2, <2>4, <3>1 DEF Trying
  <2>7. Copies(r, a, n, Tail(p))
    BY <2>1 DEF Copies, AllCopies
  <2> QED BY <2>5, <2>6, <2>7 DEF Loading
<1>3. CASE Trying(st) /\ Copies(r, a, st, p)
  <2>1. CASE Head(p) = <<"end">> /\ Tail(p) = <<>>
             /\ \A t \in Tensors(r) : st.w[t] = a.sd.version
    <3> DEFINE f == <<"except", st.entry>>
               mid == [st EXCEPT !.stack = Tail(st.stack)]
    <3>1. Head(p)[1] = "end" /\ f[1] = "except"
      BY <2>1
    <3>2. Head(st.stack) = f /\ Tail(st.stack) = <<>>
      BY <1>3, StackOfOne DEF Trying
    <3> HIDE DEF f
    <3>3. n = Leave(Pop(st), Head(st.stack), FALSE)
      BY <3>1 DEF Do
    <3>4. n = mid
      BY <3>1, <3>2, <3>3 DEF Leave, Pop
    <3>5. /\ HasFrame(n) /\ n.flags = st.flags /\ n.open = st.open /\ n.entry = st.entry
          /\ n.w = st.w /\ n.stack = <<>>
      BY <1>1, <3>2, <3>4 DEF HasFrame, Kept
    <3>6. Calm(r, n) /\ Shaped(r, n)
      BY <1>1, <3>5 DEF Calm, Shaped
    <3>7. n.w = Loaded(r, a)
      BY <2>1, <3>5 DEF Loaded, Shaped
    <3> QED BY <2>1, <3>5, <3>6, <3>7 DEF Loading
  <2>2. ASSUME NEW t \in Tensors(r), Head(p) = <<"copy", t, a.sd.version>>, Tail(p) # <<>>
        PROVE  Loading(r, a, n, Tail(p)) /\ Shaped(r, n)
    <3>1. /\ Head(p)[1] = "copy" /\ Head(p)[2] = t /\ Head(p)[3] = a.sd.version
      BY <2>2
    <3> DEFINE v == a.sd.version
    <3>2. n = CopyTo(st, t, v)
      BY <3>1 DEF Do, CopyTo
    <3>6. Shaped(r, st)
      OBVIOUS
    <3> HIDE DEF v
    <3>7. /\ Calm(r, n) /\ Shaped(r, n) /\ n.entry = st.entry /\ n.stack = st.stack
          /\ n.w[t] = v /\ \A u \in Tensors(r) : u # t => n.w[u] = st.w[u]
      BY <1>1, <3>2, <3>6, CopyWrites
    <3>3. /\ Calm(r, n) /\ Shaped(r, n) /\ n.entry = st.entry /\ n.stack = st.stack
          /\ n.w[t] = a.sd.version /\ \A u \in Tensors(r) : u # t => n.w[u] = st.w[u]
      BY <3>7 DEF v
    <3>4. Copies(r, a, n, Tail(p))
      BY <1>3, <2>2, <3>3, CopiesOn
    <3>5. Trying(n)
      BY <1>3, <3>3 DEF Trying
    <3> QED BY <3>3, <3>4, <3>5 DEF Loading
  <2> QED BY <1>3, <2>1, <2>2, CopiesStart
<1> QED BY <1>2, <1>3 DEF Loading

\* Only a copy of a load can fail, and then the try block is open.
LEMMA LoadFails ==
  ASSUME NEW r, NEW a, NEW st, NEW p, Loading(r, a, st, p), Shaped(r, st), p # <<>>
  PROVE  /\ Head(p)[1] # "raise"
         /\ Head(p)[1] \in Fallible =>
              \A n \in Damage(Head(p), st) : LoadFailed(r, n) /\ Shaped(r, n)
<1>1. Calm(r, st)
  BY DEF Loading
<1>2. CASE p = LoadCall(r, a)
  <2>1. Head(p)[1] = "except"
    BY <1>2, LoadIs
  <2> QED BY <2>1 DEF Fallible
<1>3. CASE Trying(st) /\ Copies(r, a, st, p)
  <2>1. CASE Head(p) = <<"end">>
    <3>1. Head(p)[1] = "end"
      BY <2>1
    <3> QED BY <3>1 DEF Fallible
  <2>2. ASSUME NEW t \in Tensors(r), Head(p) = <<"copy", t, a.sd.version>>
        PROVE  /\ Head(p)[1] # "raise"
               /\ \A n \in Damage(Head(p), st) : LoadFailed(r, n) /\ Shaped(r, n)
    <3>1. Head(p)[1] = "copy" /\ Head(p)[2] = t
      BY <2>2
    <3>2. ASSUME NEW n \in Damage(Head(p), st) PROVE LoadFailed(r, n) /\ Shaped(r, n)
      <4>1. n = st \/ n = CopyTo(st, t, Torn)
        BY <3>1 DEF Damage, CopyTo
      <4>2. CASE n = st
        BY <1>1, <1>3, <4>2 DEF LoadFailed
      <4>3. CASE n = CopyTo(st, t, Torn)
        <5>1. Calm(r, n) /\ Shaped(r, n) /\ n.entry = st.entry /\ n.stack = st.stack
          BY <1>1, <4>3, CopyWrites
        <5> QED BY <1>3, <5>1 DEF LoadFailed, Trying
      <4> QED BY <4>1, <4>2, <4>3
    <3> QED BY <3>1, <3>2
  <2> QED BY <1>3, <2>1, <2>2, CopiesStart
<1> QED BY <1>2, <1>3 DEF Loading

\* The exception leaves the try block: every tensor is rolled back.
LEMMA LoadUnwinds ==
  ASSUME NEW r, NEW st, LoadFailed(r, st), Shaped(r, st), st.stack # <<>>,
         NEW n, n = Leave(Pop(st), Head(st.stack), TRUE)
  PROVE  /\ LoadFailed(r, n) /\ Shaped(r, n)
         /\ Head(st.stack)[1] # "finally"
<1>1. Trying(st) /\ Calm(r, st) /\ HasFrame(st)
  BY DEF LoadFailed, Calm
<1> DEFINE f == <<"except", st.entry>>
           mid == [st EXCEPT !.stack = Tail(st.stack)]
<1>2. f[1] = "except" /\ f[2] = st.entry
  OBVIOUS
<1>3. Head(st.stack) = f /\ Tail(st.stack) = <<>>
  BY <1>1, StackOfOne DEF Trying
<1> HIDE DEF f
<1>4. n = [mid EXCEPT !.w = st.entry]
  BY <1>2, <1>3 DEF Leave, Pop, RollBack
<1>5. /\ HasFrame(n) /\ n.flags = st.flags /\ n.open = st.open /\ n.entry = st.entry
      /\ n.w = st.entry /\ n.stack = <<>>
  BY <1>1, <1>3, <1>4 DEF HasFrame, Kept
<1>6. Calm(r, n) /\ Shaped(r, n)
  BY <1>1, <1>5 DEF Calm, Shaped
<1> QED BY <1>2, <1>3, <1>5, <1>6 DEF LoadFailed

----------------------------------------------------------------------------
(* The invariant                                                           *)

\* What holds of a runtime in each phase of a call.
Sound ==
  /\ rt \in Runtimes /\ rt \in MCRuntimes
  /\ HasFrame(s) /\ Shaped(rt, s)
  /\ phase \in {"idle", "running", "raising", "returned", "raised"}
  /\ phase \in {"idle", "raised"} => Within(rt, s, "out")
  /\ phase \in {"running", "raising", "returned"} => call \in CallArguments
  /\ phase = "running" /\ call.kind # "load" =>
       \E x \in Scopes : Within(rt, s, x) /\ Runs(todo, x, "out")
  /\ phase = "running" /\ call.kind = "load" => Loading(rt, call, s, todo)
  /\ phase = "raising" /\ call.kind # "load" => \E x \in Scopes : Within(rt, s, x)
  /\ phase = "raising" /\ call.kind = "load" => LoadFailed(rt, s)
  /\ phase = "returned" /\ call.kind # "load" => Within(rt, s, "out")
  /\ phase = "returned" /\ call.kind = "load" =>
       Calm(rt, s) /\ s.w = Loaded(rt, call)

\* A runtime at rest is calm, and nothing is left on its stack.
LEMMA WithinOut ==
  ASSUME NEW r, NEW st
  PROVE  Within(r, st, "out") <=> Calm(r, st) /\ st.stack = <<>> /\ st.w = st.entry
<1>1. \A f : Frames(r, f, "out") = <<>>
  BY DEF Frames
<1>2. Within(r, st, "out") => Calm(r, st) /\ st.stack = <<>> /\ st.w = st.entry
  BY <1>1 DEF Within, Calm
<1>3. ASSUME Calm(r, st) /\ st.stack = <<>> /\ st.w = st.entry PROVE Within(r, st, "out")
  <2> DEFINE f == <<"finally">>
  <2>1. f[1] = "finally"
    OBVIOUS
  <2> HIDE DEF f
  <2>2. st.stack = Frames(r, f, "out")
    BY <1>1, <1>3
  <2>3. HasFrame(st) /\ st.flags = RestingFlags(r) /\ st.open = <<>>
    BY <1>3 DEF Calm
  <2> QED BY <1>3, <2>1, <2>2, <2>3, WithinIs
<1> QED BY <1>2, <1>3

\* A new frame.
LEMMA EnterWithin ==
  ASSUME NEW r, NEW st, Calm(r, st), st.w = [t \in Tensors(r) |-> st.w[t]]
  PROVE  Within(r, Enter(r, st), "out") /\ Shaped(r, Enter(r, st))
<1> DEFINE m == Rest(r, st.w)
           n == Enter(r, st)
<1>1. /\ HasFrame(m) /\ m.w = st.w /\ m.entry = st.w /\ m.stack = <<>>
      /\ "flags" \in DOMAIN m /\ "open" \in DOMAIN m
  BY DEF Rest, HasFrame, Kept
<1>2. n = [m EXCEPT !.flags = st.flags, !.open = st.open]
  BY DEF Enter
<1> HIDE DEF m, n
<1>3. /\ HasFrame(n) /\ n.w = st.w /\ n.entry = st.w /\ n.stack = <<>>
      /\ n.flags = st.flags /\ n.open = st.open
  BY <1>1, <1>2 DEF HasFrame, Kept
<1>4. Calm(r, n) /\ Shaped(r, n)
  BY <1>3 DEF Calm, Shaped
<1> QED BY <1>3, <1>4, WithinOut DEF n

\* Leaving the innermost scope.
LeaveTop(st, raised) == Leave(Pop(st), Head(st.stack), raised)

\* Leaving a scope of a call that loads nothing changes no trainable.
LEMMA LeavesKeep ==
  ASSUME NEW r, NEW st, NEW x, NEW y, Closes(x, y), Within(r, st, x),
         NEW raised
  PROVE  LeaveTop(st, raised).w = st.w /\ LeaveTop(st, raised).entry = st.entry
<1> DEFINE mid == [st EXCEPT !.stack = Tail(st.stack)]
           frame == Head(st.stack)
           n == LeaveTop(st, raised)
<1>1. PICK f : f[1] = "finally" /\ st.stack = Frames(r, f, x)
  BY DEF Within
<1>2. PICK k : Opens(y, k, x)
  BY DEF Closes
<1>3. frame[1] = k /\ k \in {"lora", "window", "finally"}
  <2>1. Head(Frames(r, f, x)) = Top(r, f, k)
    BY <1>2, FramesHead
  <2>2. k \in {"lora", "window", "finally"}
    BY <1>2 DEF Opens
  <2>3. Top(r, f, k)[1] = k
    BY <1>1, <2>2 DEF Top, LoraFrame, WindowFrame
  <2> QED BY <1>1, <2>1, <2>2, <2>3
<1>4. /\ HasFrame(mid) /\ mid.w = st.w /\ mid.entry = st.entry
  BY DEF Within, HasFrame, Kept
<1>5. n = Leave(mid, frame, raised)
  BY DEF Pop, LeaveTop
<1> HIDE DEF mid, frame, n
<1>6. n.w = st.w /\ n.entry = st.entry
  <2>1. CASE k = "lora"
    <3>1. n = [mid EXCEPT !.flags = frame[2]]
      BY <1>3, <1>5, <2>1 DEF Leave, CloseScope
    <3> QED BY <1>4, <3>1 DEF HasFrame, Kept
  <2>2. CASE k = "window"
    <3>1. n = [mid EXCEPT !.open = Tail(mid.open)]
      BY <1>3, <1>5, <2>2 DEF Leave, CloseWindow
    <3> QED BY <1>4, <3>1 DEF HasFrame, Kept
  <2>3. CASE k = "finally"
    <3>1. n = Restore(mid, frame[2], frame[3])
      BY <1>3, <1>5, <2>3 DEF Leave
    <3>2. SameFrame(n, mid)
      BY <1>4, <3>1, CopyKeeps
    <3> QED BY <1>4, <3>2 DEF SameFrame
  <2> QED BY <1>3, <2>1, <2>2, <2>3
<1> QED BY <1>6 DEF n

SameTrainables(m, n) == m.w = n.w /\ m.entry = n.entry

\* An instruction of such a call, where its program has led.
LEMMA MoveWithin ==
  ASSUME NEW r, NEW st, NEW x, NEW y, NEW i, Within(r, st, x), Move(x, i, y),
         i[1] # "raise"
  PROVE  /\ Within(r, Do(r, i, st), y)
         /\ SameTrainables(Do(r, i, st), st)
<1> DEFINE n == Do(r, i, st)
<1> SUFFICES Within(r, n, y) /\ n.w = st.w /\ n.entry = st.entry
  BY DEF SameTrainables
<1>1. HasFrame(st)
  BY DEF Within
<1>2. CASE i[1] \in Flat /\ x = y
  <2>1. SameFrame(n, st)
    BY <1>1, <1>2, FlatKeeps
  <2> QED BY <1>2, <2>1, SameWithin DEF SameFrame
<1>3. CASE Opens(x, i[1], y)
  <2>1. Within(r, n, y)
    BY <1>3, OpensWithin
  <2>2. i[1] \in {"lora", "window", "finally"}
    BY <1>3 DEF Opens
  <2>3. CASE i[1] = "lora"
    BY <1>1, <2>1, <2>3 DEF Do, Push, HasFrame, Kept
  <2>4. CASE i[1] = "window"
    BY <1>1, <2>1, <2>4 DEF Do, Push, HasFrame, Kept
  <2>5. CASE i[1] = "finally"
    BY <1>1, <2>1, <2>5 DEF Do, Push, HasFrame, Kept
  <2> QED BY <2>2, <2>3, <2>4, <2>5
<1>4. CASE i[1] = "end" /\ Closes(x, y)
  <2>1. n = LeaveTop(st, FALSE)
    BY <1>4 DEF Do, LeaveTop
  <2>2. Within(r, LeaveTop(st, FALSE), y)
    BY <1>4, ClosesWithin DEF LeaveTop
  <2>3. LeaveTop(st, FALSE).w = st.w /\ LeaveTop(st, FALSE).entry = st.entry
    BY <1>4, LeavesKeep
  <2> QED BY <2>1, <2>2, <2>3
<1> QED BY <1>2, <1>3, <1>4 DEF Move

LEMMA SoundInit == Init => Sound
<1> SUFFICES ASSUME Init PROVE Sound
  OBVIOUS
<1> DEFINE w0 == [t \in Tensors(rt) |-> 0]
<1>1. rt \in MCRuntimes /\ rt \in Runtimes /\ phase = "idle" /\ s = Rest(rt, w0)
  BY RecurrenceConstants DEF Init
<1>2. w0 = [t \in Tensors(rt) |-> w0[t]]
  OBVIOUS
<1> HIDE DEF w0
<1>3. /\ HasFrame(s) /\ s.w = w0 /\ s.entry = w0 /\ s.stack = <<>>
      /\ s.flags = RestingFlags(rt) /\ s.open = <<>>
  BY <1>1 DEF Rest, HasFrame, Kept
<1>4. Calm(rt, s) /\ Shaped(rt, s)
  BY <1>2, <1>3 DEF Calm, Shaped
<1>5. Within(rt, s, "out")
  BY <1>3, <1>4, WithinOut
<1> QED BY <1>1, <1>3, <1>4, <1>5 DEF Sound

LEMMA BeginSound == Sound /\ Begin => Sound'
<1> SUFFICES ASSUME Sound, Begin PROVE Sound'
  OBVIOUS
<1>1. /\ rt \in Runtimes /\ rt \in MCRuntimes /\ Within(rt, s, "out") /\ Shaped(rt, s)
      /\ rt' = rt /\ s' = Enter(rt, s) /\ call' \in Calls(rt)
  BY DEF Sound, Begin
<1>2. call' \in CallArguments
  BY <1>1, RecurrenceConstants
<1>3. Within(rt, s', "out") /\ Shaped(rt, s') /\ HasFrame(s')
  <2>1. Calm(rt, s) /\ s.w = [t \in Tensors(rt) |-> s.w[t]]
    BY <1>1, WithinOut DEF Shaped
  <2>2. Within(rt, s', "out") /\ Shaped(rt, s')
    BY <1>1, <2>1, EnterWithin
  <2> QED BY <2>2 DEF Within
<1>4. CASE ~Accepts(rt, call')
  <2>1. phase' = "raised"
    BY <1>4 DEF Begin
  <2> QED BY <1>1, <1>3, <2>1 DEF Sound
<1>5. CASE Accepts(rt, call')
  <2>1. phase' = "running" /\ todo' = Program(rt, call')
    BY <1>5 DEF Begin
  <2>2. CASE call'.kind # "load"
    <3>1. Runs(todo', "out", "out") /\ "out" \in Scopes
      BY <1>1, <1>2, <2>1, <2>2, ProgramRuns DEF Scopes
    <3>2. \E x \in Scopes : Within(rt, s', x) /\ Runs(todo', x, "out")
      BY <1>3, <3>1
    <3> QED BY <1>1, <1>2, <1>3, <2>1, <2>2, <3>2 DEF Sound
  <2>3. CASE call'.kind = "load"
    <3>1. todo' = LoadCall(rt, call')
      BY <2>1, <2>3 DEF Program
    <3>2. Calm(rt, s') /\ s'.stack = <<>> /\ s'.w = s'.entry
      BY <1>3, WithinOut
    <3>3. Loading(rt, call', s', todo')
      BY <3>1, <3>2 DEF Loading
    <3> QED BY <1>1, <1>2, <1>3, <2>1, <2>3, <3>3 DEF Sound
  <2> QED BY <2>2, <2>3
<1> QED BY <1>4, <1>5

LEMMA StepSound == Sound /\ Step => Sound'
<1> SUFFICES ASSUME Sound, Step PROVE Sound'
  OBVIOUS
<1> DEFINE i == Head(todo)
<1>1. /\ phase = "running" /\ todo # <<>> /\ i[1] # "raise"
      /\ s' = Do(rt, i, s) /\ todo' = Tail(todo)
      /\ rt' = rt /\ call' = call /\ phase' = phase
      /\ rt \in Runtimes /\ rt \in MCRuntimes /\ call \in CallArguments
      /\ HasFrame(s) /\ Shaped(rt, s)
  BY DEF Sound, Step
<1>2. CASE call.kind # "load"
  <2>1. PICK x \in Scopes : Within(rt, s, x) /\ Runs(todo, x, "out")
    BY <1>1, <1>2 DEF Sound
  <2>2. PICK y : Move(x, i, y) /\ Runs(Tail(todo), y, "out")
    BY <1>1, <2>1, RunsStart
  <2>3. y \in Scopes
    BY <2>2, RunsStart
  <2> HIDE DEF i
  <2>6. Within(rt, Do(rt, i, s), y)
    BY <1>1, <2>1, <2>2, MoveWithin
  <2>7. SameTrainables(Do(rt, i, s), s)
    BY <1>1, <2>1, <2>2, MoveWithin
  <2>4. Within(rt, s', y) /\ s'.w = s.w /\ s'.entry = s.entry
    BY <1>1, <2>6, <2>7 DEF SameTrainables
  <2>5. HasFrame(s') /\ Shaped(rt, s')
    BY <1>1, <2>4 DEF Within, Shaped
  <2> QED BY <1>1, <1>2, <2>2, <2>3, <2>4, <2>5 DEF Sound
<1>3. CASE call.kind = "load"
  <2>1. Loading(rt, call, s, todo)
    BY <1>1, <1>3 DEF Sound
  <2>2. Loading(rt, call, s', todo') /\ Shaped(rt, s')
    BY <1>1, <2>1, LoadStep
  <2>3. HasFrame(s')
    BY <2>2 DEF Loading, Calm
  <2> QED BY <1>1, <1>3, <2>2, <2>3 DEF Sound
<1> QED BY <1>2, <1>3

LEMMA ReturnSound == Sound /\ Return => Sound'
<1> SUFFICES ASSUME Sound, Return PROVE Sound'
  OBVIOUS
<1>1. /\ phase = "running" /\ todo = <<>> /\ phase' = "returned"
      /\ rt' = rt /\ s' = s /\ call' = call /\ todo' = todo
  BY DEF Return
<1>2. /\ rt \in Runtimes /\ rt \in MCRuntimes /\ call \in CallArguments
      /\ HasFrame(s) /\ Shaped(rt, s)
  BY <1>1 DEF Sound
<1>3. CASE call.kind # "load"
  <2>1. PICK x \in Scopes : Within(rt, s, x) /\ Runs(todo, x, "out")
    BY <1>1, <1>3 DEF Sound
  <2>2. x = "out"
    BY <1>1, <2>1, RunsStart
  <2> QED BY <1>1, <1>2, <1>3, <2>1, <2>2 DEF Sound
<1>4. CASE call.kind = "load"
  <2>1. Loading(rt, call, s, todo)
    BY <1>1, <1>4 DEF Sound
  <2>2. todo # LoadCall(rt, call)
    BY <1>1, LoadIs
  <2>3. Calm(rt, s) /\ s.w = Loaded(rt, call)
    BY <1>1, <2>1, <2>2 DEF Loading, Copies
  <2> QED BY <1>1, <1>2, <1>4, <2>3 DEF Sound
<1> QED BY <1>3, <1>4

LEMMA RaiseSound == Sound /\ (Refuse \/ Fail) => Sound'
<1> SUFFICES ASSUME Sound, Refuse \/ Fail PROVE Sound'
  OBVIOUS
<1>1. /\ phase = "running" /\ todo # <<>> /\ phase' = "raising"
      /\ rt' = rt /\ call' = call
  BY DEF Refuse, Fail
<1>2. /\ rt \in Runtimes /\ rt \in MCRuntimes /\ call \in CallArguments
      /\ HasFrame(s) /\ Shaped(rt, s)
  BY <1>1 DEF Sound
<1>3. \/ Head(todo)[1] = "raise" /\ s' = s
      \/ Head(todo)[1] \in Fallible /\ s' \in Damage(Head(todo), s)
  BY DEF Refuse, Fail
<1>4. CASE call.kind # "load"
  <2>1. PICK x \in Scopes : Within(rt, s, x) /\ Runs(todo, x, "out")
    BY <1>1, <1>4 DEF Sound
  <2>2. PICK y : Move(x, Head(todo), y)
    BY <1>1, <2>1, RunsStart
  <2>3. Head(todo)[1] # "copy"
    BY <2>2 DEF Move, Flat, Opens
  <2>4. s' = s
    BY <1>3, <2>3 DEF Damage
  <2> QED BY <1>1, <1>2, <1>4, <2>1, <2>4 DEF Sound
<1>5. CASE call.kind = "load"
  <2>1. Loading(rt, call, s, todo)
    BY <1>1, <1>5 DEF Sound
  <2>2. LoadFailed(rt, s') /\ Shaped(rt, s')
    BY <1>1, <1>2, <1>3, <2>1, LoadFails
  <2>3. HasFrame(s')
    BY <2>2 DEF LoadFailed, Calm
  <2> QED BY <1>1, <1>2, <1>5, <2>2, <2>3 DEF Sound
<1> QED BY <1>4, <1>5

LEMMA UnwindSound == Sound /\ Unwind => Sound'
<1> SUFFICES ASSUME Sound, Unwind PROVE Sound'
  OBVIOUS
<1>1. /\ phase = "raising" /\ s.stack # <<>> /\ phase' = phase
      /\ s' = Leave(Pop(s), Head(s.stack), TRUE)
      /\ rt' = rt /\ call' = call
  BY DEF Unwind
<1>2. /\ rt \in Runtimes /\ rt \in MCRuntimes /\ call \in CallArguments
      /\ HasFrame(s) /\ Shaped(rt, s)
  BY <1>1 DEF Sound
<1>3. CASE call.kind # "load"
  <2>1. PICK x \in Scopes : Within(rt, s, x)
    BY <1>1, <1>3 DEF Sound
  <2>2. PICK y \in Scopes : Closes(x, y)
    BY <1>1, <2>1, LeavesWithin
  <2>3. Within(rt, s', y)
    BY <1>1, <2>1, <2>2, ClosesWithin
  <2>4. s'.w = s.w /\ s'.entry = s.entry
    BY <1>1, <2>1, <2>2, LeavesKeep DEF LeaveTop
  <2>6. Shaped(rt, s')
    BY <1>2, <2>4 DEF Shaped
  <2>5. HasFrame(s')
    BY <2>3 DEF Within
  <2> QED BY <1>1, <1>2, <1>3, <2>3, <2>5, <2>6 DEF Sound
<1>4. CASE call.kind = "load"
  <2>1. LoadFailed(rt, s)
    BY <1>1, <1>4 DEF Sound
  <2>2. LoadFailed(rt, s') /\ Shaped(rt, s')
    BY <1>1, <1>2, <2>1, LoadUnwinds
  <2>3. HasFrame(s')
    BY <2>2 DEF LoadFailed, Calm
  <2> QED BY <1>1, <1>2, <1>4, <2>2, <2>3 DEF Sound
<1> QED BY <1>3, <1>4

LEMMA UnwindFailsSound == Sound /\ UnwindFails => Sound'
<1> SUFFICES ASSUME Sound, UnwindFails PROVE Sound'
  OBVIOUS
<1>1. /\ phase = "raising" /\ s.stack # <<>> /\ phase' = phase
      /\ Head(s.stack)[1] = "finally" /\ s' = Pop(s)
      /\ rt' = rt /\ call' = call
  BY DEF UnwindFails
<1>2. /\ rt \in Runtimes /\ rt \in MCRuntimes /\ call \in CallArguments
      /\ HasFrame(s) /\ Shaped(rt, s)
  BY <1>1 DEF Sound
<1>3. call.kind # "load"
  <2>1. SUFFICES ASSUME call.kind = "load" PROVE FALSE
    OBVIOUS
  <2>2. LoadFailed(rt, s)
    BY <1>1, <2>1 DEF Sound
  <2>3. \A n : n = Leave(Pop(s), Head(s.stack), TRUE) => Head(s.stack)[1] # "finally"
    BY <1>1, <1>2, <2>2, LoadUnwinds
  <2> QED BY <1>1, <2>3
<1>4. PICK x \in Scopes : Within(rt, s, x)
  BY <1>1, <1>3 DEF Sound
<1>5. Within(rt, s', "window") /\ "window" \in Scopes
  BY <1>1, <1>4, FinallyLost DEF Scopes
<1>6. HasFrame(s') /\ s'.w = s.w /\ s'.entry = s.entry
  BY <1>1, <1>2 DEF Pop, HasFrame, Kept
<1>7. Shaped(rt, s')
  BY <1>2, <1>6 DEF Shaped
<1> QED BY <1>1, <1>2, <1>3, <1>5, <1>6, <1>7 DEF Sound

LEMMA EscapeSound == Sound /\ Escape => Sound'
<1> SUFFICES ASSUME Sound, Escape PROVE Sound'
  OBVIOUS
<1>1. /\ phase = "raising" /\ s.stack = <<>> /\ phase' = "raised"
      /\ rt' = rt /\ s' = s
  BY DEF Escape
<1>2. /\ rt \in Runtimes /\ rt \in MCRuntimes /\ HasFrame(s) /\ Shaped(rt, s)
  BY DEF Sound
<1>3. Within(rt, s, "out")
  <2>1. CASE call.kind # "load"
    <3>1. PICK x \in Scopes : Within(rt, s, x)
      BY <1>1, <2>1 DEF Sound
    <3>2. x = "out"
      BY <1>1, <3>1, LeavesWithin
    <3> QED BY <3>1, <3>2
  <2>2. CASE call.kind = "load"
    <3>1. LoadFailed(rt, s)
      BY <1>1, <2>2 DEF Sound
    <3>2. ~Trying(s)
      BY <1>1, StackOfOne DEF Trying
    <3> QED BY <1>1, <3>1, <3>2, WithinOut DEF LoadFailed
  <2> QED BY <2>1, <2>2
<1> QED BY <1>1, <1>2, <1>3 DEF Sound

LEMMA ForgetSound == Sound /\ Forget => Sound'
<1> SUFFICES ASSUME Sound, Forget PROVE Sound'
  OBVIOUS
<1>1. /\ phase \in {"returned", "raised"} /\ phase' = "idle" /\ s' = Enter(rt, s) /\ rt' = rt
  BY DEF Forget
<1>2. /\ rt \in Runtimes /\ rt \in MCRuntimes /\ Shaped(rt, s)
  BY DEF Sound
<1>3. Calm(rt, s)
  BY <1>1, WithinOut DEF Sound
<1>4. Within(rt, s', "out") /\ Shaped(rt, s')
  BY <1>1, <1>2, <1>3, EnterWithin DEF Shaped
<1>5. HasFrame(s')
  BY <1>4 DEF Within
<1> QED BY <1>1, <1>2, <1>4, <1>5 DEF Sound

\* Sound is an inductive invariant of the runtime.
THEOREM RuntimeInductive == Spec => []Sound
<1>1. Sound /\ [Next]_vars => Sound'
  <2> SUFFICES ASSUME Sound, [Next]_vars PROVE Sound'
    OBVIOUS
  <2>1. CASE UNCHANGED vars
    BY <2>1 DEF Sound, vars
  <2> QED
    BY <2>1, BeginSound, StepSound, ReturnSound, RaiseSound, UnwindSound, UnwindFailsSound,
       EscapeSound, ForgetSound DEF Next
<1> QED BY <1>1, SoundInit, PTL DEF Spec

\* However a call ends and wherever it failed, the adapters rest, no guard
\* window is open, and a load has replaced all tensors or none
\* (localized.py:117-152, 564-580, 1626-1651).
THEOREM NoTraceIsLeft == Spec => []CallsLeaveNoTrace
<1>1. Sound => CallsLeaveNoTrace
  <2> SUFFICES ASSUME Sound, phase \in {"idle", "returned", "raised"}
               PROVE  /\ s.flags = RestingFlags(rt) /\ s.open = <<>>
                      /\ s.w = IF Returned({"load"})
                               THEN [t \in Tensors(rt) |-> call.sd.version] ELSE s.entry
    BY DEF CallsLeaveNoTrace
  <2>1. CASE Within(rt, s, "out") /\ ~Returned({"load"})
    BY <2>1, WithinOut DEF Calm
  <2>2. CASE Returned({"load"})
    BY <2>2 DEF Returned, Sound, Calm, Loaded
  <2> QED BY <2>1, <2>2 DEF Sound, Returned
<1> QED BY <1>1, RuntimeInductive, PTL

----------------------------------------------------------------------------
(* What a program makes of a state                                         *)

\* f is the course of states that program p takes, up to position n.
Course(f, r, st, p, n) ==
  f = [m \in 0..n |-> IF m = 0 THEN st ELSE Do(r, p[m], f[m - 1])]

\* There is a course of every length.
LEMMA CourseExists ==
  ASSUME NEW r, NEW st, NEW p, NEW len \in Nat
  PROVE  \E f : Course(f, r, st, p, len)
<1> DEFINE Bad == {n \in Nat : ~ \E f : Course(f, r, st, p, n)}
<1> SUFFICES ASSUME Bad # {} PROVE FALSE
  OBVIOUS
<1>1. PICK n \in Bad : \A m \in Bad : ~(m < n)
  <2>1. Bad \in SUBSET Nat
    OBVIOUS
  <2> HIDE DEF Bad
  <2> QED BY <2>1, FirstOf
<1>2. n \in Nat /\ ~ \E f : Course(f, r, st, p, n)
  OBVIOUS
<1>3. CASE n = 0
  <2> DEFINE f == [m \in 0..0 |-> st]
  <2>1. f = [m \in 0..0 |-> IF m = 0 THEN st ELSE Do(r, p[m], f[m - 1])]
    OBVIOUS
  <2> QED BY <1>2, <1>3, <2>1 DEF Course
<1>4. CASE n # 0
  <2>1. n - 1 \in Nat /\ n - 1 < n
    BY <1>2, <1>4
  <2>2. PICK g : Course(g, r, st, p, n - 1)
    <3>1. n - 1 \notin Bad
      BY <1>1, <2>1
    <3> QED BY <2>1, <3>1
  <2> DEFINE last == Do(r, p[n], g[n - 1])
             f == [m \in 0..n |-> IF m = n THEN last ELSE g[m]]
  <2>3. \A m \in 0..n - 1 : g[m] = IF m = 0 THEN st ELSE Do(r, p[m], g[m - 1])
    BY <2>2 DEF Course
  <2>4. ASSUME NEW m \in 0..n
        PROVE  f[m] = IF m = 0 THEN st ELSE Do(r, p[m], f[m - 1])
    <3>1. CASE m = n
      <4>1. f[m] = last /\ f[m - 1] = g[m - 1] /\ m # 0
        BY <1>2, <1>4, <2>1, <3>1
      <4> QED BY <3>1, <4>1
    <3>2. CASE m # n
      <4>1. m \in 0..n - 1
        BY <1>2, <3>2
      <4>2. f[m] = g[m]
        BY <3>2
      <4>3. m # 0 => f[m - 1] = g[m - 1]
        BY <1>2, <4>1
      <4> QED BY <2>3, <4>1, <4>2, <4>3
    <3> QED BY <3>1, <3>2
  <2>5. f = [m \in 0..n |-> f[m]]
    OBVIOUS
  <2> HIDE DEF f
  <2>6. Course(f, r, st, p, n)
    BY <2>4, <2>5 DEF Course
  <2> QED BY <1>2, <2>6
<1> QED BY <1>3, <1>4

\* A course that follows a program.
Along(f, r, st, p) == f[0] = st /\ \A n \in 1..Len(p) : f[n] = Do(r, p[n], f[n - 1])

\* A program executes along a course.
LEMMA ExecutedCourse ==
  ASSUME NEW r, NEW st, NEW p, Len(p) \in Nat
  PROVE  \E f : /\ f[0] = st
                /\ \A n \in 1..Len(p) : f[n] = Do(r, p[n], f[n - 1])
                /\ Executed(r, st, p) = f[Len(p)]
<1> DEFINE after[n \in 0..Len(p)] == IF n = 0 THEN st ELSE Do(r, p[n], after[n - 1])
<1>1. PICK f : Course(f, r, st, p, Len(p))
  BY CourseExists
<1>2. f = [n \in 0..Len(p) |-> IF n = 0 THEN st ELSE Do(r, p[n], f[n - 1])]
  BY <1>1 DEF Course
<1>3. after = [n \in 0..Len(p) |-> IF n = 0 THEN st ELSE Do(r, p[n], after[n - 1])]
  BY <1>2
<1>4. Executed(r, st, p) = after[Len(p)]
  BY DEF Executed
<1> HIDE DEF after
<1>5. after[0] = st
  BY <1>3
<1>6. \A n \in 1..Len(p) : after[n] = Do(r, p[n], after[n - 1])
  BY <1>3
<1> QED BY <1>4, <1>5, <1>6

\* The only one.
LEMMA ExecutedIs ==
  ASSUME NEW r, NEW st, NEW p, Len(p) \in Nat, NEW g, Along(g, r, st, p)
  PROVE  Executed(r, st, p) = g[Len(p)]
<1>1. PICK f : /\ f[0] = st
               /\ \A n \in 1..Len(p) : f[n] = Do(r, p[n], f[n - 1])
               /\ Executed(r, st, p) = f[Len(p)]
  BY ExecutedCourse
<1> DEFINE Bad == {n \in Nat : n \in 0..Len(p) /\ f[n] # g[n]}
<1>2. CASE Bad = {}
  <2>1. Len(p) \in 0..Len(p)
    OBVIOUS
  <2> QED BY <1>1, <1>2, <2>1
<1>3. CASE Bad # {}
  <2>1. PICK n \in Bad : \A m \in Bad : ~(m < n)
    <3>1. Bad \in SUBSET Nat
      OBVIOUS
    <3> HIDE DEF Bad
    <3> QED BY <1>3, <3>1, FirstOf
  <2>2. n \in 0..Len(p) /\ f[n] # g[n]
    BY <2>1
  <2>3. n # 0
    BY <1>1, <2>2 DEF Along
  <2>4. n \in 1..Len(p) /\ n - 1 \in Nat /\ n - 1 \in 0..Len(p) /\ n - 1 < n
    BY <2>2, <2>3
  <2>5. f[n - 1] = g[n - 1]
    BY <2>1, <2>4
  <2>6. f[n] = Do(r, p[n], f[n - 1])
    BY <1>1, <2>4
  <2>7. g[n] = Do(r, p[n], g[n - 1])
    BY <2>4 DEF Along
  <2> QED BY <2>2, <2>5, <2>6, <2>7
<1> QED BY <1>2, <1>3

\* Nothing, one instruction, and one program after another.
LEMMA ExecutedNone ==
  ASSUME NEW r, NEW st
  PROVE  Executed(r, st, <<>>) = st
<1> DEFINE g == [n \in 0..0 |-> st]
           p == <<>>
<1>1. Len(p) = 0 /\ g[0] = st
  OBVIOUS
<1> HIDE DEF g, p
<1>2. \A n \in 1..Len(p) : g[n] = Do(r, p[n], g[n - 1])
  BY <1>1
<1>4. Along(g, r, st, p) /\ Len(p) \in Nat
  BY <1>1, <1>2 DEF Along
<1>3. Executed(r, st, p) = g[Len(p)]
  BY <1>4, ExecutedIs
<1> QED BY <1>1, <1>3 DEF p

LEMMA ExecutedOne ==
  ASSUME NEW r, NEW st, NEW i
  PROVE  Executed(r, st, <<i>>) = Do(r, i, st)
<1> DEFINE n1 == Do(r, i, st)
           g == [n \in 0..1 |-> IF n = 0 THEN st ELSE n1]
           p == <<i>>
<1>1. Len(p) = 1 /\ p[1] = i /\ Len(p) \in Nat
  BY OneIs
<1>2. g[0] = st /\ g[1] = n1
  OBVIOUS
<1> HIDE DEF g, p
<1>3. ASSUME NEW n \in 1..Len(p) PROVE g[n] = Do(r, p[n], g[n - 1])
  <2>1. n = 1 /\ n - 1 = 0
    BY <1>1
  <2> QED BY <1>1, <1>2, <2>1
<1>5. Along(g, r, st, p)
  BY <1>2, <1>3 DEF Along
<1>4. Executed(r, st, p) = g[Len(p)]
  BY <1>1, <1>5, ExecutedIs
<1> QED BY <1>1, <1>2, <1>4 DEF p

LEMMA ExecutedJoin ==
  ASSUME NEW r, NEW st, NEW p, NEW q, IsSequence(p), IsSequence(q)
  PROVE  Executed(r, st, p \o q) = Executed(r, Executed(r, st, p), q)
<1> DEFINE w == p \o q
           a == Len(p)
           b == Len(q)
           mid == Executed(r, st, p)
<1>1. /\ IsSequence(w) /\ Len(w) = a + b /\ a \in Nat /\ b \in Nat
      /\ \A n \in 1..a : w[n] = p[n]
      /\ \A n \in 1..b : w[a + n] = q[n]
  BY JoinIs
<1>2. PICK f : /\ f[0] = st /\ \A n \in 1..a : f[n] = Do(r, p[n], f[n - 1])
               /\ mid = f[a]
  BY <1>1, ExecutedCourse
<1>3. PICK g : /\ g[0] = mid /\ \A n \in 1..b : g[n] = Do(r, q[n], g[n - 1])
               /\ Executed(r, mid, q) = g[b]
  BY <1>1, ExecutedCourse
<1> HIDE DEF w, a, b, mid
<1> DEFINE h == [n \in 0..a + b |-> IF n <= a THEN f[n] ELSE g[n - a]]
<1>4. \A n \in 0..a : h[n] = f[n]
  <2>1. \A n \in 0..a : n \in 0..a + b /\ n <= a
    BY <1>1
  <2> QED BY <2>1
<1>5. ASSUME NEW n \in 0..b PROVE h[a + n] = g[n]
  <2>1. a + n \in 0..a + b /\ (a + n <= a => n = 0) /\ (a + n) - a = n
    BY <1>1
  <2>2. CASE n = 0
    <3>1. a + n = a /\ a \in 0..a
      BY <1>1, <2>2
    <3> QED BY <1>2, <1>3, <1>4, <2>2, <3>1
  <2>3. CASE n # 0
    BY <2>1, <2>3
  <2> QED BY <2>2, <2>3
<1> HIDE DEF h
<1>6. ASSUME NEW n \in 1..a + b PROVE h[n] = Do(r, w[n], h[n - 1])
  <2>1. CASE n \in 1..a
    <3>1. n \in 0..a /\ n - 1 \in 0..a
      BY <1>1, <2>1
    <3> QED BY <1>1, <1>2, <1>4, <2>1, <3>1
  <2>2. CASE n \notin 1..a
    <3> DEFINE m == n - a
    <3>1. m \in 1..b /\ m \in 0..b /\ m - 1 \in 0..b /\ n = a + m /\ n - 1 = a + (m - 1)
      BY <1>1, <2>2
    <3> HIDE DEF m
    <3>2. h[n] = g[m] /\ h[n - 1] = g[m - 1] /\ w[n] = q[m]
      BY <1>1, <1>5, <3>1
    <3> QED BY <1>3, <3>1, <3>2
  <2> QED BY <2>1, <2>2
<1>7. h[0] = st
  BY <1>1, <1>2, <1>4
<1>8. Len(w) \in Nat
  BY <1>1
<1>11. Along(h, r, st, w)
  BY <1>1, <1>6, <1>7 DEF Along
<1>9. Executed(r, st, w) = h[a + b]
  BY <1>1, <1>8, <1>11, ExecutedIs
<1>10. h[a + b] = g[b]
  BY <1>1, <1>5
<1> QED BY <1>3, <1>9, <1>10 DEF w, mid

\* What has been executed so far, and one instruction more.
LEMMA ExecutedOn ==
  ASSUME NEW r, NEW st, NEW p, IsSequence(p), NEW i
  PROVE  /\ IsSequence(p \o <<i>>)
         /\ Executed(r, st, p \o <<i>>) = Do(r, i, Executed(r, st, p))
<1>1. IsSequence(<<i>>)
  BY OneIs
<1>2. IsSequence(p \o <<i>>)
  BY <1>1, JoinIs
<1>3. Executed(r, st, p \o <<i>>) = Executed(r, Executed(r, st, p), <<i>>)
  BY <1>1, ExecutedJoin
<1> QED BY <1>2, <1>3, ExecutedOne

\* r is p followed by q, position by position.
JoinOf(p, q, r) ==
  /\ IsSequence(r) /\ Len(r) = Len(p) + Len(q)
  /\ Len(p) \in Nat /\ Len(q) \in Nat
  /\ \A n \in 1..Len(p) : r[n] = p[n]
  /\ \A n \in 1..Len(q) : r[Len(p) + n] = q[n]

LEMMA Joined ==
  ASSUME NEW p, NEW q, IsSequence(p), IsSequence(q)
  PROVE  JoinOf(p, q, p \o q)
BY JoinIs DEF JoinOf

\* The first instruction of a program moved to what is done.
LEMMA MoveOne ==
  ASSUME NEW d, NEW p, IsSequence(d), IsSequence(p), p # <<>>
  PROVE  (d \o <<Head(p)>>) \o Tail(p) = d \o p
<1> DEFINE i == Head(p)
           u == Tail(p)
           o == <<i>>
           e == d \o o
           left == e \o u
           right == d \o p
<1>1. /\ i = p[1] /\ IsSequence(u) /\ Len(u) = Len(p) - 1 /\ Len(p) \in Nat \ {0}
      /\ \A n \in 1..Len(p) - 1 : u[n] = p[n + 1]
  BY TailIs
<1>2. IsSequence(o) /\ Len(o) = 1 /\ o[1] = i
  BY OneIs
<1> HIDE DEF i, u, o
<1>9. JoinOf(d, o, e)
  BY <1>2, Joined
<1> HIDE DEF e
<1>3. /\ IsSequence(e) /\ Len(e) = Len(d) + Len(o) /\ Len(d) \in Nat
      /\ \A n \in 1..Len(d) : e[n] = d[n]
      /\ \A n \in 1..Len(o) : e[Len(d) + n] = o[n]
  BY <1>9 DEF JoinOf
<1>10. JoinOf(e, u, left)
  BY <1>1, <1>3, Joined
<1>4. /\ IsSequence(left) /\ Len(left) = Len(e) + Len(u)
      /\ \A n \in 1..Len(e) : left[n] = e[n]
      /\ \A n \in 1..Len(u) : left[Len(e) + n] = u[n]
  BY <1>10 DEF JoinOf
<1>5. /\ IsSequence(right) /\ Len(right) = Len(d) + Len(p)
      /\ \A n \in 1..Len(d) : right[n] = d[n]
      /\ \A n \in 1..Len(p) : right[Len(d) + n] = p[n]
  BY JoinIs
<1> HIDE DEF left, right
<1>6. Len(left) = Len(right)
  BY <1>1, <1>2, <1>3, <1>4, <1>5
<1>7. ASSUME NEW n \in 1..Len(left) PROVE left[n] = right[n]
  <2>1. CASE n \in 1..Len(d)
    <3>1. n \in 1..Len(e)
      BY <1>2, <1>3, <2>1
    <3> QED BY <1>3, <1>4, <1>5, <2>1, <3>1
  <2>2. CASE n = Len(d) + 1
    <3>1. n \in 1..Len(e) /\ 1 \in 1..Len(o) /\ 1 \in 1..Len(p)
      BY <1>1, <1>2, <1>3, <2>2
    <3>2. left[n] = e[n] /\ e[n] = o[1] /\ right[n] = p[1]
      BY <1>3, <1>4, <1>5, <2>2, <3>1
    <3> QED BY <1>1, <1>2, <3>2
  <2>3. CASE n \notin 1..Len(d) /\ n # Len(d) + 1
    <3> DEFINE m == n - (Len(d) + 1)
    <3>1. /\ m \in 1..Len(u) /\ m + 1 \in 1..Len(p) /\ m \in 1..Len(p) - 1
          /\ n = Len(e) + m /\ n = Len(d) + (m + 1)
      BY <1>1, <1>2, <1>3, <1>4, <2>3
    <3> HIDE DEF m
    <3>2. left[n] = u[m] /\ right[n] = p[m + 1]
      BY <1>4, <1>5, <3>1
    <3> QED BY <1>1, <3>1, <3>2
  <2> QED BY <2>1, <2>2, <2>3
<1>8. left = right
  BY <1>4, <1>5, <1>6, <1>7, SameSequence
<1> QED BY <1>8 DEF left, right, e, o, i, u

LEMMA NothingIs == IsSequence(<<>>)
<1>1. <<>> \in Seq({})
  OBVIOUS
<1> QED BY <1>1 DEF IsSequence

LEMMA JoinNothing ==
  ASSUME NEW p, IsSequence(p)
  PROVE  IsSequence(<<>>) /\ <<>> \o p = p /\ p \o <<>> = p
<1>1. PICK S : p \in Seq(S)
  BY DEF IsSequence
<1>2. <<>> \o p = p /\ p \o <<>> = p
  BY <1>1
<1> QED BY <1>2, NothingIs

\* A call that enters a runtime at rest starts as in a fresh one.
LEMMA EnterIsRest ==
  ASSUME NEW r, NEW st, Calm(r, st)
  PROVE  Enter(r, st) = Rest(r, st.w)
<1> DEFINE m == Rest(r, st.w)
<1>1. m.flags = st.flags /\ m.open = st.open
  BY DEF Rest, Calm
<1>2. m = [x \in DOMAIN m |-> m[x]]
  BY DEF Rest
<1>3. Enter(r, st) = [m EXCEPT !.flags = st.flags, !.open = st.open]
  BY DEF Enter
<1> HIDE DEF m
<1>4. [m EXCEPT !.flags = st.flags, !.open = st.open] = m
  BY <1>1, <1>2
<1> QED BY <1>3, <1>4 DEF m

----------------------------------------------------------------------------
(* What went before a call makes no difference to it                       *)

Unrefused(d) == \A n \in 1..Len(d) : d[n][1] # "raise"

\* st is what the instructions d make of a fresh runtime with the trainables
\* that st was entered with; p is left of the program of a.
Begun(r, a, st, d, p) ==
  /\ IsSequence(d) /\ IsSequence(p) /\ Program(r, a) = d \o p
  /\ Unrefused(d)
  /\ st = Executed(r, Rest(r, st.entry), d)

\* A call that runs or has returned.
AsAlone ==
  /\ phase = "running" /\ call.kind # "load" => \E d : Begun(rt, call, s, d, todo)
  /\ phase = "returned" /\ call.kind # "load" =>
       Begun(rt, call, s, Program(rt, call), <<>>)

LEMMA BeginAlone == Sound /\ Begin => AsAlone'
<1> SUFFICES ASSUME Sound, Begin PROVE AsAlone'
  OBVIOUS
<1>1. /\ rt \in Runtimes /\ rt \in MCRuntimes /\ Within(rt, s, "out") /\ Shaped(rt, s)
      /\ rt' = rt /\ s' = Enter(rt, s) /\ call' \in Calls(rt)
  BY DEF Sound, Begin
<1>2. call' \in CallArguments
  BY <1>1, RecurrenceConstants
<1>3. CASE phase' = "raised"
  BY <1>3 DEF AsAlone
<1>4. CASE phase' = "running" /\ todo' = Program(rt, call') /\ call'.kind # "load"
  <2> DEFINE prog == Program(rt, call')
  <2>1. IsSequence(prog)
    BY <1>1, <1>2, <1>4, ProgramRuns DEF Runs
  <2>2. s' = Rest(rt, s.w)
    BY <1>1, WithinOut, EnterIsRest
  <2>3. s'.entry = s.w
    BY <2>2 DEF Rest
  <2>4. s' = Executed(rt, Rest(rt, s'.entry), <<>>)
    BY <2>2, <2>3, ExecutedNone
  <2> HIDE DEF prog
  <2>5. IsSequence(<<>>) /\ <<>> \o prog = prog
    BY <2>1, JoinNothing
  <2>6. Unrefused(<<>>)
    BY DEF Unrefused
  <2>7. Begun(rt, call', s', <<>>, todo')
    BY <1>4, <2>1, <2>4, <2>5, <2>6 DEF Begun, prog
  <2> QED BY <1>1, <1>4, <2>7 DEF AsAlone
<1>5. CASE phase' = "running" /\ call'.kind = "load"
  BY <1>5 DEF AsAlone
<1> QED BY <1>3, <1>4, <1>5 DEF Begin

\* The step that takes one more instruction.
LEMMA BegunOn ==
  ASSUME NEW r, NEW a, NEW st, NEW d, NEW p, Begun(r, a, st, d, p), p # <<>>,
         Head(p)[1] # "raise", NEW n, n = Do(r, Head(p), st), n.entry = st.entry
  PROVE  Begun(r, a, n, d \o <<Head(p)>>, Tail(p))
<1> DEFINE i == Head(p)
           e == d \o <<i>>
           b == Rest(r, st.entry)
<1>1. IsSequence(d) /\ IsSequence(p) /\ Program(r, a) = d \o p /\ st = Executed(r, b, d)
  BY DEF Begun
<1>2. IsSequence(Tail(p)) /\ e \o Tail(p) = d \o p
  BY <1>1, TailIs, MoveOne
<1>3. /\ IsSequence(<<i>>) /\ Len(<<i>>) = 1 /\ <<i>>[1] = i
  BY OneIs
<1>4. i[1] # "raise"
  OBVIOUS
<1>9. n = Do(r, i, st)
  OBVIOUS
<1> HIDE DEF i, b
<1>5. IsSequence(e) /\ Executed(r, b, e) = Do(r, i, Executed(r, b, d))
  BY <1>1, ExecutedOn
<1>6. /\ Len(e) = Len(d) + 1 /\ Len(d) \in Nat
      /\ \A m \in 1..Len(d) : e[m] = d[m]
      /\ e[Len(d) + 1] = i
  <2>1. /\ Len(e) = Len(d) + Len(<<i>>) /\ Len(d) \in Nat
        /\ \A m \in 1..Len(d) : e[m] = d[m]
        /\ \A m \in 1..Len(<<i>>) : e[Len(d) + m] = <<i>>[m]
    BY <1>1, <1>3, JoinIs
  <2>2. 1 \in 1..Len(<<i>>)
    BY <1>3
  <2> QED BY <1>3, <2>1, <2>2
<1> HIDE DEF e
<1>7. Unrefused(e)
  <2>1. \A m \in 1..Len(e) : m \in 1..Len(d) \/ m = Len(d) + 1
    BY <1>6
  <2> QED BY <1>4, <1>6, <2>1 DEF Begun, Unrefused
<1>8. n = Executed(r, Rest(r, n.entry), e)
  BY <1>1, <1>5, <1>9 DEF b
<1>10. Begun(r, a, n, e, Tail(p))
  BY <1>1, <1>2, <1>5, <1>7, <1>8 DEF Begun
<1> QED BY <1>10 DEF e, i

LEMMA StepAlone == Sound /\ AsAlone /\ Step => AsAlone'
<1> SUFFICES ASSUME Sound, AsAlone, Step PROVE AsAlone'
  OBVIOUS
<1> DEFINE i == Head(todo)
<1>1. /\ phase = "running" /\ todo # <<>> /\ i[1] # "raise"
      /\ s' = Do(rt, i, s) /\ todo' = Tail(todo)
      /\ rt' = rt /\ call' = call /\ phase' = phase
  BY DEF Step
<1>2. CASE call.kind = "load"
  BY <1>1, <1>2 DEF AsAlone
<1>3. CASE call.kind # "load"
  <2>1. PICK d : Begun(rt, call, s, d, todo)
    BY <1>1, <1>3 DEF AsAlone
  <2>2. PICK x \in Scopes : Within(rt, s, x) /\ Runs(todo, x, "out")
    BY <1>1, <1>3 DEF Sound
  <2>3. PICK y : Move(x, i, y)
    BY <1>1, <2>2, RunsStart
  <2> HIDE DEF i
  <2>4. SameTrainables(Do(rt, i, s), s)
    BY <1>1, <2>2, <2>3, MoveWithin
  <2>5. s'.entry = s.entry
    BY <1>1, <2>4 DEF SameTrainables
  <2>6. Begun(rt, call, s', d \o <<Head(todo)>>, Tail(todo))
    BY <1>1, <2>1, <2>5, BegunOn DEF i
  <2>7. \E e : Begun(rt, call, s', e, todo')
    BY <1>1, <2>6
  <2> QED BY <1>1, <1>3, <2>7 DEF AsAlone
<1> QED BY <1>2, <1>3

LEMMA ReturnAlone == AsAlone /\ Return => AsAlone'
<1> SUFFICES ASSUME AsAlone, Return PROVE AsAlone'
  OBVIOUS
<1>1. /\ phase = "running" /\ todo = <<>> /\ phase' = "returned"
      /\ rt' = rt /\ s' = s /\ call' = call
  BY DEF Return
<1>2. CASE call.kind # "load"
  <2>1. PICK d : Begun(rt, call, s, d, <<>>)
    BY <1>1, <1>2 DEF AsAlone
  <2>2. d = Program(rt, call)
    BY <2>1, JoinNothing DEF Begun
  <2>3. Program(rt, call) = Program(rt, call) \o <<>>
    BY <2>1, <2>2, JoinNothing DEF Begun
  <2>4. Begun(rt, call, s, Program(rt, call), <<>>)
    BY <2>1, <2>2, <2>3
  <2> QED BY <1>1, <1>2, <2>4 DEF AsAlone
<1> QED BY <1>1, <1>2 DEF AsAlone

LEMMA AloneInductive == Spec => []AsAlone
<1>1. Init => AsAlone
  BY DEF Init, AsAlone
<1>2. Sound /\ AsAlone /\ [Next]_vars => AsAlone'
  <2> SUFFICES ASSUME Sound, AsAlone, [Next]_vars PROVE AsAlone'
    OBVIOUS
  <2>1. CASE UNCHANGED vars
    BY <2>1 DEF AsAlone, vars
  <2>2. CASE Refuse \/ Fail \/ Unwind \/ UnwindFails \/ Escape \/ Forget
    <3>1. phase' \notin {"running", "returned"}
      BY <2>2 DEF Refuse, Fail, Unwind, UnwindFails, Escape, Forget
    <3> QED BY <3>1 DEF AsAlone
  <2> QED BY <2>1, <2>2, BeginAlone, StepAlone, ReturnAlone DEF Next
<1> QED BY <1>1, <1>2, RuntimeInductive, PTL DEF Spec

\* A call that returns has done what it does on a fresh runtime with the same
\* trainables: no earlier call makes a difference to it, returned or raised,
\* and nothing of its program was refused (localized.py:1003-1017).
THEOREM EveryCallIsAsAlone ==
  Spec => [](phase = "returned" /\ call.kind # "load" => s = Alone(s.entry, call))
<1>1. AsAlone => (phase = "returned" /\ call.kind # "load" => s = Alone(s.entry, call))
  BY DEF AsAlone, Begun, Alone
<1> QED BY <1>1, AloneInductive, PTL

----------------------------------------------------------------------------
(* The instructions a program is made of                                   *)

\* The class of an instruction: its kind, with the layers of the target's
\* context told from other layers.
Class(i) == IF i[1] = "layer" /\ i[2] = "target" /\ i[3] \in Layers
            THEN "target layer" ELSE i[1]

\* All instructions of p are of classes K.
MadeOf(p, K) == IsSequence(p) /\ \A n \in 1..Len(p) : Class(p[n]) \in K

LEMMA MadeOfNothing ==
  ASSUME NEW K
  PROVE  MadeOf(<<>>, K)
<1>1. IsSequence(<<>>) /\ 1..Len(<<>>) = {}
  BY NothingIs
<1> QED BY <1>1 DEF MadeOf

LEMMA MadeOfOne ==
  ASSUME NEW K, NEW i, Class(i) \in K
  PROVE  MadeOf(<<i>>, K)
<1> DEFINE p == <<i>>
<1>1. IsSequence(p) /\ Len(p) = 1 /\ p[1] = i
  BY OneIs
<1> HIDE DEF p
<1>2. ASSUME NEW n \in 1..Len(p) PROVE Class(p[n]) \in K
  <2>1. n = 1
    BY <1>1
  <2> QED BY <1>1, <2>1
<1>3. MadeOf(p, K)
  BY <1>1, <1>2 DEF MadeOf
<1> QED BY <1>3 DEF p

LEMMA MadeOfJoin ==
  ASSUME NEW K, NEW p, NEW q, MadeOf(p, K), MadeOf(q, K)
  PROVE  MadeOf(p \o q, K)
<1> DEFINE w == p \o q
<1>1. JoinOf(p, q, w)
  BY Joined DEF MadeOf
<1> HIDE DEF w
<1>2. ASSUME NEW n \in 1..Len(w) PROVE Class(w[n]) \in K
  <2>1. CASE n \in 1..Len(p)
    BY <1>1, <2>1 DEF JoinOf, MadeOf
  <2>2. CASE n \notin 1..Len(p)
    <3> DEFINE m == n - Len(p)
    <3>1. m \in 1..Len(q) /\ n = Len(p) + m
      BY <1>1, <2>2 DEF JoinOf
    <3> HIDE DEF m
    <3> QED BY <1>1, <3>1 DEF JoinOf, MadeOf
  <2> QED BY <2>1, <2>2
<1>3. MadeOf(w, K)
  BY <1>1, <1>2 DEF JoinOf, MadeOf
<1> QED BY <1>3 DEF w

LEMMA MadeOfMore ==
  ASSUME NEW K, NEW L, K \subseteq L, NEW p, MadeOf(p, K)
  PROVE  MadeOf(p, L)
BY DEF MadeOf

\* g joins programs one by one.
Joining(g, seqs) ==
  /\ g[0] = <<>>
  /\ \A j \in 1..Len(seqs) : g[j] = g[j - 1] \o seqs[j]
  /\ \A j \in 0..Len(seqs) : IsSequence(g[j])
  /\ FlattenSeq(seqs) = g[Len(seqs)]

LEMMA JoiningExists ==
  ASSUME NEW seqs, Len(seqs) \in Nat, Len(seqs) = 0 => seqs = <<>>,
         \A j \in 1..Len(seqs) : IsSequence(seqs[j])
  PROVE  \E g : Joining(g, seqs)
<1> DEFINE len == Len(seqs)
           flatten[i \in 1..len] ==
             IF i = 1 THEN seqs[i] ELSE flatten[i-1] \o seqs[i]
           g == [j \in 0..len |-> IF j = 0 THEN <<>> ELSE flatten[j]]
<1>1. PICK f : Joins(f, seqs, len)
  BY JoinsExist
<1>2. f = [i \in 1..len |-> IF i = 1 THEN seqs[i] ELSE f[i-1] \o seqs[i]]
  BY <1>1 DEF Joins
<1>3. flatten = [i \in 1..len |-> IF i = 1 THEN seqs[i] ELSE flatten[i-1] \o seqs[i]]
  BY <1>2
<1>4. FlattenSeq(seqs) = IF len = 0 THEN <<>> ELSE flatten[len]
  BY DEF FlattenSeq
<1> HIDE DEF flatten
<1>5. ASSUME NEW i \in 1..len
      PROVE  flatten[i] = IF i = 1 THEN seqs[i] ELSE flatten[i-1] \o seqs[i]
  BY <1>3
<1>6. g[0] = <<>> /\ \A j \in 1..len : g[j] = flatten[j]
  OBVIOUS
<1>7. FlattenSeq(seqs) = g[len]
  BY <1>4
<1> HIDE DEF g
<1>8. ASSUME NEW j \in 1..len PROVE g[j] = g[j - 1] \o seqs[j]
  <2>1. CASE j = 1
    <3>1. <<>> \o seqs[1] = seqs[1]
      BY <2>1, JoinNothing
    <3>2. j - 1 = 0 /\ g[j] = seqs[1]
      BY <1>5, <1>6, <2>1
    <3>3. g[j - 1] = <<>>
      BY <1>6, <3>2
    <3> QED BY <2>1, <3>1, <3>2, <3>3
  <2>2. CASE j # 1
    <3>1. j - 1 \in 1..len
      BY <2>2
    <3> QED BY <1>5, <1>6, <2>2, <3>1
  <2> QED BY <2>1, <2>2
<1> HIDE DEF len
<1>9. len \in Nat /\ \A j \in 1..len : IsSequence(seqs[j])
  BY DEF len
<1> DEFINE Bad == {j \in Nat : j \in 0..len /\ ~IsSequence(g[j])}
<1>10. Bad = {}
  <2> SUFFICES ASSUME Bad # {} PROVE FALSE
    OBVIOUS
  <2>1. PICK j \in Bad : \A m \in Bad : ~(m < j)
    <3>1. Bad \in SUBSET Nat
      OBVIOUS
    <3> HIDE DEF Bad
    <3> QED BY <3>1, FirstOf
  <2>2. j \in 0..len /\ ~IsSequence(g[j])
    OBVIOUS
  <2>3. j # 0
    BY <1>6, <2>2, NothingIs
  <2>4. j \in 1..len /\ j - 1 \in Nat /\ j - 1 \in 0..len /\ j - 1 < j
    BY <1>9, <2>2, <2>3
  <2>5. IsSequence(g[j - 1]) /\ IsSequence(seqs[j])
    BY <1>9, <2>1, <2>4
  <2>6. IsSequence(g[j - 1] \o seqs[j])
    BY <2>5, JoinIs
  <2> QED BY <1>8, <2>2, <2>4, <2>6
<1>11. \A j \in 0..len : IsSequence(g[j])
  <2>1. \A j \in 0..len : j \in Nat
    BY <1>9
  <2> QED BY <1>10, <2>1
<1>12. Joining(g, seqs)
  BY <1>6, <1>7, <1>8, <1>11 DEF Joining, len
<1> QED BY <1>12

LEMMA MadeOfFlat ==
  ASSUME NEW K, NEW n \in Int, NEW f, f = [j \in 1..n |-> f[j]],
         \A j \in 1..n : MadeOf(f[j], K)
  PROVE  MadeOf(FlattenSeq(f), K)
<1>1. Len(f) \in Nat /\ (Len(f) = 0 => f = <<>>) /\ 1..Len(f) = 1..n
  BY FunctionIsSequence
<1> DEFINE len == Len(f)
<1>2. \A j \in 1..len : MadeOf(f[j], K) /\ IsSequence(f[j])
  BY <1>1 DEF MadeOf
<1>3. PICK g : Joining(g, f)
  BY <1>1, <1>2, JoiningExists
<1>4. /\ g[0] = <<>> /\ FlattenSeq(f) = g[len] /\ len \in Nat
      /\ \A j \in 1..len : g[j] = g[j - 1] \o f[j]
  BY <1>1, <1>3 DEF Joining
<1> HIDE DEF len
<1> DEFINE Bad == {j \in Nat : j \in 0..len /\ ~MadeOf(g[j], K)}
<1>5. CASE Bad = {}
  <2>1. len \in 0..len
    BY <1>4
  <2> QED BY <1>4, <1>5, <2>1
<1>6. CASE Bad # {}
  <2>1. PICK j \in Bad : \A m \in Bad : ~(m < j)
    <3>1. Bad \in SUBSET Nat
      OBVIOUS
    <3> HIDE DEF Bad
    <3> QED BY <1>6, <3>1, FirstOf
  <2>2. j \in 0..len /\ ~MadeOf(g[j], K)
    OBVIOUS
  <2>3. j # 0
    BY <1>4, <2>2, MadeOfNothing
  <2>4. j \in 1..len /\ j - 1 \in Nat /\ j - 1 \in 0..len /\ j - 1 < j
    BY <1>4, <2>2, <2>3
  <2>5. MadeOf(g[j - 1], K) /\ MadeOf(f[j], K)
    BY <1>2, <2>1, <2>4
  <2>6. MadeOf(g[j - 1] \o f[j], K)
    BY <2>5, MadeOfJoin
  <2> QED BY <1>4, <2>2, <2>4, <2>6
<1> QED BY <1>5, <1>6

\* A stream through layers of the decoder.
LEMMA MadeOfRun ==
  ASSUME NEW from \in Int, NEW to \in Int, NEW c, NEW pos, NEW n, NEW what, NEW phase_
  PROVE  /\ MadeOf(Run(from, to, c, pos, n, what, phase_), {"layer", "target layer"})
         /\ c = "target" /\ from >= 1 /\ to <= NLayers =>
              MadeOf(Run(from, to, c, pos, n, what, phase_), {"target layer"})
<1> DEFINE run == [j \in 1..(to - from + 1) |->
                     <<"layer", c, from + j - 1, pos, n, what, phase_>>]
<1>1. \A j \in 1..(to - from + 1) :
        run[j][1] = "layer" /\ run[j][2] = c /\ run[j][3] = from + j - 1
  OBVIOUS
<1>2. run = [j \in 1..(to - from + 1) |-> run[j]] /\ to - from + 1 \in Int
  OBVIOUS
<1> HIDE DEF run
<1>3. IsSequence(run) /\ 1..Len(run) = 1..(to - from + 1)
  BY <1>2, FunctionIsSequence
<1>4. MadeOf(run, {"layer", "target layer"})
  BY <1>1, <1>3 DEF MadeOf, Class
<1>5. ASSUME c = "target", from >= 1, to <= NLayers
      PROVE  MadeOf(run, {"target layer"})
  <2>1. NLayers \in Int /\ Layers = 1..NLayers
    BY RuntimeConstants DEF Layers
  <2>2. \A j \in 1..(to - from + 1) : from + j - 1 \in Layers
    BY <1>5, <2>1
  <2>3. \A j \in 1..(to - from + 1) : Class(run[j]) = "target layer"
    BY <1>1, <1>5, <2>2 DEF Class
  <2> QED BY <1>3, <2>3 DEF MadeOf
<1> QED BY <1>4, <1>5 DEF Run, run

\* What leads to the readout neither opens a score nor calls the head.
Leading == {"embed", "layer", "target layer", "boundary", "state", "base", "tick",
            "update", "ablate", "readout", "reset", "snap", "restore", "view", "raise",
            "lora", "window", "finally", "end"}

\* What an answer is made of, once its score is open.
Answering == {"embed", "target layer", "inject", "head", "lora", "window", "end"}

LEMMA LeadingOne ==
  ASSUME NEW i, i[1] \in Leading
  PROVE  MadeOf(<<i>>, Leading)
<1>1. Class(i) \in Leading
  BY DEF Class, Leading
<1> QED BY <1>1, MadeOfOne

LEMMA AnsweringOne ==
  ASSUME NEW i, i[1] \in Answering
  PROVE  MadeOf(<<i>>, Answering)
<1>1. Class(i) \in Answering
  BY DEF Class, Answering
<1> QED BY <1>1, MadeOfOne

LEMMA LeadingRun ==
  ASSUME NEW from \in Int, NEW to \in Int, NEW c, NEW pos, NEW n, NEW what, NEW phase_
  PROVE  MadeOf(Run(from, to, c, pos, n, what, phase_), Leading)
<1>1. {"layer", "target layer"} \subseteq Leading
  BY DEF Leading
<1>2. MadeOf(Run(from, to, c, pos, n, what, phase_), {"layer", "target layer"})
  BY MadeOfRun
<1> QED BY <1>1, <1>2, MadeOfMore

\* The context managers, around programs of classes K.
LEMMA ManagedMade ==
  ASSUME NEW K, {"lora", "window", "end"} \subseteq K, NEW r, NEW on, NEW body,
         MadeOf(body, K)
  PROVE  MadeOf(Scoped(r, on, body), K) /\ MadeOf(Guarded(body), K)
<1> DEFINE l == <<"lora", on>>
           w == <<"window">>
           e == <<"end">>
<1>1. Class(l) \in K /\ Class(w) \in K /\ Class(e) \in K
  BY DEF Class
<1> HIDE DEF l, w, e
<1>2. MadeOf(<<l>>, K) /\ MadeOf(<<w>>, K) /\ MadeOf(<<e>>, K)
  BY <1>1, MadeOfOne
<1>3. MadeOf(<<l>> \o body, K) /\ MadeOf(<<w>> \o body, K)
  BY <1>2, MadeOfJoin
<1>4. MadeOf(<<l>> \o body \o <<e>>, K) /\ MadeOf(<<w>> \o body \o <<e>>, K)
  BY <1>2, <1>3, MadeOfJoin
<1> QED BY <1>4 DEF Scoped, Guarded, l, w, e

LEMMA EncodeLeads ==
  ASSUME NEW r \in Runtimes, NEW c, NEW p
  PROVE  MadeOf(Encode(r, c, p), Leading)
<1> DEFINE emb == <<"embed", <<"prompt", p>>>>
           err == <<"raise">>
           low == Run(1, r.hi, c, 0, PromptLen[p], p, "prefill")
           cut == <<"boundary", c>>
           high == Run(r.hi + 1, NLayers, c, 0, PromptLen[p], p, "prefill")
           body == low \o <<cut>> \o high
<1>1. emb[1] \in Leading /\ err[1] \in Leading /\ cut[1] \in Leading
  BY DEF Leading
<1>2. MadeOf(low, Leading) /\ MadeOf(high, Leading)
  BY LayerBounds, LeadingRun
<1>7. Encode(r, c, p) \in {<<err>>, <<emb>> \o Scoped(r, FALSE, body)}
  BY DEF Encode
<1> HIDE DEF emb, err, low, cut, high
<1>3. MadeOf(<<emb>>, Leading) /\ MadeOf(<<err>>, Leading) /\ MadeOf(<<cut>>, Leading)
  BY <1>1, LeadingOne
<1>4. MadeOf(low \o <<cut>>, Leading)
  BY <1>2, <1>3, MadeOfJoin
<1>5. MadeOf(body, Leading)
  BY <1>2, <1>4, MadeOfJoin
<1> HIDE DEF body
<1>6. MadeOf(Scoped(r, FALSE, body), Leading)
  <2>1. {"lora", "window", "end"} \subseteq Leading
    BY DEF Leading
  <2> QED BY <1>5, <2>1, ManagedMade
<1>8. MadeOf(<<emb>> \o Scoped(r, FALSE, body), Leading)
  BY <1>3, <1>6, MadeOfJoin
<1> QED BY <1>3, <1>7, <1>8

LEMMA PassLeads ==
  ASSUME NEW r \in Runtimes, NEW ab, NEW c, NEW pos, NEW on
  PROVE  MadeOf(Pass(r, ab, c, pos, on), Leading)
<1> DEFINE body == Run(r.lo + 1, r.hi, c, pos, r.slots, "loop", "loop")
<1>1. MadeOf(body, Leading)
  BY LayerBounds, LeadingRun
<1>2. Pass(r, ab, c, pos, on) \in {<<>>, Scoped(r, on, body)}
  BY DEF Pass
<1> HIDE DEF body
<1>3. {"lora", "window", "end"} \subseteq Leading
  BY DEF Leading
<1>4. MadeOf(Scoped(r, on, body), Leading)
  BY <1>1, <1>3, ManagedMade
<1> QED BY <1>2, <1>4, MadeOfNothing

LEMMA LoopStepLeads ==
  ASSUME NEW r \in Runtimes, NEW ab, NEW c, NEW start, NEW j, NEW ci
  PROVE  MadeOf(LoopStep(r, ab, c, start, j, ci), Leading)
<1> DEFINE i1 == <<"state", c>>
           i2 == <<"base">>
           i3 == <<"restore", c, <<"loop", c>>>>
           i4 == <<"tick", c, ci, ab.clocks # <<"off">>>>
           i5 == <<"update", c, ci>>
           pos == IF Neutral(r) THEN start ELSE start + j - 1
           p1 == Pass(r, ab, c, start, FALSE)
           p2 == Pass(r, ab, c, start, TRUE)
           p3 == Pass(r, ab, c, pos, TRUE)
           first == IF Neutral(r) THEN <<i3>> ELSE <<>>
           paired == <<i1>> \o p1 \o <<i2>> \o <<i3>> \o <<i4>> \o p2 \o <<i5, i3>>
           single == <<i4>> \o p3 \o <<i5>> \o first
<1>1. /\ i1[1] \in Leading /\ i2[1] \in Leading /\ i3[1] \in Leading
      /\ i4[1] \in Leading /\ i5[1] \in Leading
  BY DEF Leading
<1>2. MadeOf(p1, Leading) /\ MadeOf(p2, Leading) /\ MadeOf(p3, Leading)
  BY PassLeads
<1>3. LoopStep(r, ab, c, start, j, ci) \in {first \o paired, first \o single}
  BY DEF LoopStep, PairedStep, SingleStep
<1> HIDE DEF i1, i2, i3, i4, i5, p1, p2, p3
<1>4. /\ MadeOf(<<i1>>, Leading) /\ MadeOf(<<i2>>, Leading) /\ MadeOf(<<i3>>, Leading)
      /\ MadeOf(<<i4>>, Leading) /\ MadeOf(<<i5>>, Leading)
  BY <1>1, LeadingOne
<1>5. MadeOf(<<i5, i3>>, Leading)
  BY <1>4, PairJoined, MadeOfJoin
<1>6. MadeOf(first, Leading)
  BY <1>4, MadeOfNothing
<1>7. MadeOf(<<i1>> \o p1 \o <<i2>>, Leading)
  BY <1>2, <1>4, MadeOfJoin
<1>8. MadeOf(<<i1>> \o p1 \o <<i2>> \o <<i3>> \o <<i4>>, Leading)
  BY <1>4, <1>7, MadeOfJoin
<1>9. MadeOf(paired, Leading)
  BY <1>2, <1>5, <1>8, MadeOfJoin
<1> HIDE DEF first
<1>10. MadeOf(single, Leading)
  BY <1>2, <1>4, <1>6, MadeOfJoin
<1> HIDE DEF paired, single
<1>11. MadeOf(first \o paired, Leading) /\ MadeOf(first \o single, Leading)
  BY <1>6, <1>9, <1>10, MadeOfJoin
<1> QED BY <1>3, <1>11

LEMMA LatentStepsLead ==
  ASSUME NEW r \in Runtimes, NEW ab, NEW c, NEW start, NEW k,
         k \in 0..MaxK => EffectiveK(ab, k) \in Int
  PROVE  MadeOf(LatentSteps(r, ab, c, start, k), Leading)
<1> DEFINE err == <<"raise">>
           sn == <<"snap", c, <<"loop", c>>>>
           fi == <<"finally", c, <<"loop", c>>>>
           en == <<"end">>
           first == IF Neutral(r) THEN <<sn>> ELSE <<>>
           step(j) == LoopStep(r, ab, c, start, j, ClockSteps(ab.clocks, k)[j])
           f == [j \in 1..EffectiveK(ab, k) |-> step(j)]
           loop == FlattenSeq(f)
           fin == <<fi>> \o loop \o <<en>>
           body == IF Neutral(r) THEN fin ELSE loop
           az == <<"ablate", c, "zero">>
           an == <<"ablate", c, "noise">>
           last == IF "zero" \in ab.state THEN <<az>>
                   ELSE IF "noise" \in ab.state THEN <<an>> ELSE <<>>
<1>1. /\ err[1] \in Leading /\ sn[1] \in Leading /\ fi[1] \in Leading /\ en[1] \in Leading
      /\ az[1] \in Leading /\ an[1] \in Leading
  BY DEF Leading
<1>2. LatentSteps(r, ab, c, start, k)
        = IF k \notin 0..MaxK THEN <<err>> ELSE first \o Guarded(body) \o last
  BY DEF LatentSteps, Loop, StateControls
<1>3. \A j : MadeOf(step(j), Leading)
  BY LoopStepLeads
<1>4. f = [j \in 1..EffectiveK(ab, k) |-> f[j]]
      /\ \A j \in 1..EffectiveK(ab, k) : f[j] = step(j)
  OBVIOUS
<1> HIDE DEF err, sn, fi, en, step, f, az, an
<1>5. /\ MadeOf(<<err>>, Leading) /\ MadeOf(<<sn>>, Leading) /\ MadeOf(<<fi>>, Leading)
      /\ MadeOf(<<en>>, Leading) /\ MadeOf(<<az>>, Leading) /\ MadeOf(<<an>>, Leading)
  BY <1>1, LeadingOne
<1>6. MadeOf(first, Leading) /\ MadeOf(last, Leading)
  BY <1>5, MadeOfNothing
<1>7. CASE k \in 0..MaxK
  <2>1. MadeOf(loop, Leading)
    BY <1>3, <1>4, <1>7, MadeOfFlat
  <2> HIDE DEF loop
  <2>2. MadeOf(<<fi>> \o loop, Leading)
    BY <1>5, <2>1, MadeOfJoin
  <2>3. MadeOf(fin, Leading)
    BY <1>5, <2>2, MadeOfJoin
  <2> HIDE DEF fin
  <2>4. MadeOf(body, Leading)
    BY <2>1, <2>3
  <2> HIDE DEF body, first, last
  <2>5. MadeOf(Guarded(body), Leading)
    <3>1. {"lora", "window", "end"} \subseteq Leading
      BY DEF Leading
    <3> QED BY <2>4, <3>1, ManagedMade
  <2>6. MadeOf(first \o Guarded(body), Leading)
    BY <1>6, <2>5, MadeOfJoin
  <2>7. MadeOf(first \o Guarded(body) \o last, Leading)
    BY <1>6, <2>6, MadeOfJoin
  <2> QED BY <1>2, <1>7, <2>7
<1>8. CASE k \notin 0..MaxK
  BY <1>2, <1>5, <1>8
<1> QED BY <1>7, <1>8

\* A score call up to its readout, which the candidates do not matter to.
ReadPrefix(r, a) ==
  LET swap == "swap" \in a.ab.state
  IN Encode(r, "target", a.p)
     \o (IF a.ab.cache THEN <<<<"snap", "target", <<"prompt">>>>>> ELSE <<>>)
     \o (IF swap THEN Encode(r, "partner", a.q) ELSE <<>>)
     \o LatentSteps(r, a.ab, "target", PromptLen[a.p], a.k)
     \o <<<<"readout", "target">>>>
     \o (IF swap THEN LatentSteps(r, a.ab, "partner", PromptLen[a.q], a.k)
                      \o <<<<"readout", "partner">>>>
         ELSE <<>>)
     \o (IF "reset" \in a.ab.state THEN <<<<"reset">>>> ELSE <<>>)
     \o (IF a.ab.cache THEN <<<<"restore", "target", <<"prompt">>>>>> ELSE <<>>)
     \o <<<<"snap", "target", <<"read">>>>, <<"view">>>>

LEMMA PrefixIs ==
  ASSUME NEW r \in Runtimes, NEW a \in CallArguments
  PROVE  /\ MadeOf(ReadPrefix(r, a), Leading) /\ Runs(ReadPrefix(r, a), "out", "out")
         /\ ScoreCall(r, a)
              = ReadPrefix(r, a) \o ScoreEach(r, "target", ReadoutPos(r, a.ab, a.p, a.k),
                                              <<"read">>, a.cands, "own")
<1> DEFINE swap == "swap" \in a.ab.state
           sp == <<"snap", "target", <<"prompt">>>>
           rp == <<"restore", "target", <<"prompt">>>>
           rt1 == <<"readout", "target">>
           rt2 == <<"readout", "partner">>
           rs == <<"reset">>
           sr == <<"snap", "target", <<"read">>>>
           vw == <<"view">>
           e1 == Encode(r, "target", a.p)
           c1 == IF a.ab.cache THEN <<sp>> ELSE <<>>
           f2 == Encode(r, "partner", a.q)
           e2 == IF swap THEN f2 ELSE <<>>
           l1 == LatentSteps(r, a.ab, "target", PromptLen[a.p], a.k)
           m2 == LatentSteps(r, a.ab, "partner", PromptLen[a.q], a.k)
           l2 == IF swap THEN m2 \o <<rt2>> ELSE <<>>
           c2 == IF "reset" \in a.ab.state THEN <<rs>> ELSE <<>>
           c3 == IF a.ab.cache THEN <<rp>> ELSE <<>>
           pre == e1 \o c1 \o e2 \o l1 \o <<rt1>> \o l2 \o c2 \o c3 \o <<sr, vw>>
<1>1. /\ "out" \in Scopes /\ sp[1] \in Flat /\ rp[1] \in Flat /\ rt1[1] \in Flat
      /\ rt2[1] \in Flat /\ rs[1] \in Flat /\ sr[1] \in Flat /\ vw[1] \in Flat
  BY DEF Scopes, Flat
<1>2. /\ sp[1] \in Leading /\ rp[1] \in Leading /\ rt1[1] \in Leading
      /\ rt2[1] \in Leading /\ rs[1] \in Leading /\ sr[1] \in Leading /\ vw[1] \in Leading
  BY DEF Leading
<1>3. ReadPrefix(r, a) = pre
  BY DEF ReadPrefix
<1>4. ScoreCall(r, a) = pre \o ScoreEach(r, "target", ReadoutPos(r, a.ab, a.p, a.k),
                                         <<"read">>, a.cands, "own")
  BY DEF ScoreCall
<1>5. Runs(e1, "out", "out") /\ Runs(f2, "out", "out")
  BY EncodeRuns
<1>6. Runs(l1, "out", "out") /\ Runs(m2, "out", "out")
  BY ArgumentTypes, LatentStepsRuns
<1>7. MadeOf(e1, Leading) /\ MadeOf(f2, Leading)
  BY EncodeLeads
<1>8. MadeOf(l1, Leading) /\ MadeOf(m2, Leading)
  BY ArgumentTypes, LatentStepsLead
<1> HIDE DEF swap, sp, rp, rt1, rt2, rs, sr, vw, e1, f2, l1, m2
<1>9. /\ Runs(<<sp>>, "out", "out") /\ Runs(<<rp>>, "out", "out")
      /\ Runs(<<rt1>>, "out", "out") /\ Runs(<<rt2>>, "out", "out")
      /\ Runs(<<rs>>, "out", "out") /\ Runs(<<sr>>, "out", "out")
      /\ Runs(<<vw>>, "out", "out") /\ Runs(<<>>, "out", "out")
  BY <1>1, FlatStep, NothingRuns
<1>10. /\ MadeOf(<<sp>>, Leading) /\ MadeOf(<<rp>>, Leading) /\ MadeOf(<<rt1>>, Leading)
       /\ MadeOf(<<rt2>>, Leading) /\ MadeOf(<<rs>>, Leading) /\ MadeOf(<<sr>>, Leading)
       /\ MadeOf(<<vw>>, Leading) /\ MadeOf(<<>>, Leading)
  BY <1>2, LeadingOne, MadeOfNothing
<1>11. Runs(m2 \o <<rt2>>, "out", "out") /\ Runs(<<sr, vw>>, "out", "out")
  BY <1>6, <1>9, PairJoined, JoinRuns
<1>12. MadeOf(m2 \o <<rt2>>, Leading) /\ MadeOf(<<sr, vw>>, Leading)
  BY <1>8, <1>10, PairJoined, MadeOfJoin
<1>13. /\ Runs(c1, "out", "out") /\ Runs(e2, "out", "out") /\ Runs(l2, "out", "out")
       /\ Runs(c2, "out", "out") /\ Runs(c3, "out", "out")
  BY <1>5, <1>9, <1>11
<1>14. /\ MadeOf(c1, Leading) /\ MadeOf(e2, Leading) /\ MadeOf(l2, Leading)
       /\ MadeOf(c2, Leading) /\ MadeOf(c3, Leading)
  BY <1>7, <1>10, <1>12
<1> HIDE DEF c1, e2, l2, c2, c3
<1>15. Runs(pre, "out", "out")
  <2>1. Runs(e1 \o c1 \o e2 \o l1, "out", "out")
    BY <1>5, <1>6, <1>13, JoinRuns
  <2>2. Runs(e1 \o c1 \o e2 \o l1 \o <<rt1>> \o l2, "out", "out")
    BY <1>9, <1>13, <2>1, JoinRuns
  <2>3. Runs(e1 \o c1 \o e2 \o l1 \o <<rt1>> \o l2 \o c2 \o c3, "out", "out")
    BY <1>13, <2>2, JoinRuns
  <2> QED BY <1>11, <2>3, JoinRuns
<1>16. MadeOf(pre, Leading)
  <2>1. MadeOf(e1 \o c1 \o e2 \o l1, Leading)
    BY <1>7, <1>8, <1>14, MadeOfJoin
  <2>2. MadeOf(e1 \o c1 \o e2 \o l1 \o <<rt1>> \o l2, Leading)
    BY <1>10, <1>14, <2>1, MadeOfJoin
  <2>3. MadeOf(e1 \o c1 \o e2 \o l1 \o <<rt1>> \o l2 \o c2 \o c3, Leading)
    BY <1>14, <2>2, MadeOfJoin
  <2> QED BY <1>12, <2>3, MadeOfJoin
<1> HIDE DEF pre
<1> QED BY <1>3, <1>4, <1>15, <1>16

\* The fields an answer reads or writes.
Fields == {"flags", "open", "w", "entry", "stack", "live", "alias", "snap", "h", "z",
           "rd", "delta", "count", "scores"}
Formed(st) ==
  Fields \subseteq DOMAIN st /\ "target" \in DOMAIN st.live /\ "target" \in DOMAIN st.alias

\* n has the scores of st.
Silent(n, st) == Formed(n) /\ n.scores = st.scores

LEMMA LayerSilent ==
  ASSUME NEW r, NEW st, Formed(st), NEW c, NEW l, NEW pos, NEW n, NEW what, NEW phase_
  PROVE  Silent(ApplyLayer(r, st, c, l, pos, n, what, phase_), st)
<1> DEFINE tag == Adapted(r, st, l)
           grown == Append(Content(st, c, l), <<what, pos, tag>>)
           hid == <<"layer", l, tag, st.h, Content(st, c, l), pos>>
           next == [st EXCEPT !.h = hid, !.count[phase_] = @ + n]
           inner == [next EXCEPT !.snap[st.alias[c][l]][l] = grown]
           outer == [next EXCEPT !.live[c][l] = grown, !.alias[c][l] = Own]
<1>1. ApplyLayer(r, st, c, l, pos, n, what, phase_) \in {inner, outer}
  BY DEF ApplyLayer
<1> HIDE DEF tag, grown, hid
<1>2. Silent(next, st)
  BY DEF Silent, Formed, Fields
<1> HIDE DEF next
<1>3. Silent(inner, st)
  BY <1>2 DEF Silent, Formed, Fields
<1>4. Silent(outer, st)
  BY <1>2 DEF Silent, Formed, Fields
<1> QED BY <1>1, <1>3, <1>4

LEMMA ReadoutSilent ==
  ASSUME NEW r, NEW st, Formed(st), NEW c
  PROVE  Silent(Readout(r, st, c), st)
<1> DEFINE d == Difference(st.z[c], st.z0[c])
           e == Plus(st.z0["target"], d)
<1>1. Readout(r, st, c) \in {[st EXCEPT !.delta = d, !.rd = e], [st EXCEPT !.rd = st.z[c]]}
  BY DEF Readout
<1> HIDE DEF d, e
<1>2. Silent([st EXCEPT !.delta = d, !.rd = e], st)
  BY DEF Silent, Formed, Fields
<1>3. Silent([st EXCEPT !.rd = st.z[c]], st)
  BY DEF Silent, Formed, Fields
<1> QED BY <1>1, <1>2, <1>3

LEMMA UpdateSilent ==
  ASSUME NEW r, NEW st, Formed(st), NEW c, NEW ci
  PROVE  Silent(Update(r, st, c, ci), st)
<1>1. \E new : Update(r, st, c, ci) = [st EXCEPT !.z[c] = new, !.traj = Append(@, new)]
  BY DEF Update
<1> QED BY <1>1 DEF Silent, Formed, Fields

LEMMA AblateSilent ==
  ASSUME NEW r, NEW st, Formed(st), NEW c, NEW how
  PROVE  Silent(Ablate(r, st, c, how), st)
<1>1. \/ Ablate(r, st, c, how) = st
      \/ \E new : Ablate(r, st, c, how) = [st EXCEPT !.z[c] = new]
  BY DEF Ablate
<1> QED BY <1>1 DEF Silent, Formed, Fields

LEMMA TickSilent ==
  ASSUME NEW r, NEW st, Formed(st), NEW c, NEW ci, NEW on
  PROVE  Silent(Tick(r, st, c, ci, on), st)
<1>1. \E e : Tick(r, st, c, ci, on) = [st EXCEPT !.h = e]
  BY DEF Tick
<1> QED BY <1>1 DEF Silent, Formed, Fields

LEMMA CopySilent ==
  ASSUME NEW st, Formed(st), NEW c, NEW key
  PROVE  Silent(Snapshot(st, c, key), st) /\ Silent(Restore(st, c, key), st)
<1>1. \E e : Snapshot(st, c, key) = [st EXCEPT !.snap = e]
  BY DEF Snapshot
<1>2. \E e, f : Restore(st, c, key) = [st EXCEPT !.live[c] = e, !.alias[c] = f]
  BY DEF Restore
<1>3. Silent(Snapshot(st, c, key), st)
  BY <1>1 DEF Silent, Formed, Fields
<1>4. Silent(Restore(st, c, key), st)
  BY <1>2 DEF Silent, Formed, Fields
<1> QED BY <1>3, <1>4

\* The frames on the stack when scopes x are open.
LEMMA TopFrame ==
  ASSUME NEW r, NEW st, NEW x, NEW y, Closes(x, y), Within(r, st, x)
  PROVE  /\ Head(st.stack)[1] \in {"lora", "window", "finally"}
         /\ x \notin {"finally", "finally lora"} => Head(st.stack)[1] # "finally"
<1>1. PICK f : f[1] = "finally" /\ st.stack = Frames(r, f, x)
  BY DEF Within
<1>2. PICK k : Opens(y, k, x)
  BY DEF Closes
<1>3. Head(Frames(r, f, x)) = Top(r, f, k)
  BY <1>2, FramesHead
<1>4. k \in {"lora", "window", "finally"}
      /\ (x \notin {"finally", "finally lora"} => k # "finally")
  BY <1>2 DEF Opens
<1>5. Top(r, f, k)[1] = k
  BY <1>1, <1>4 DEF Top, LoraFrame, WindowFrame
<1> QED BY <1>1, <1>3, <1>4, <1>5

LEMMA LeaveSilent ==
  ASSUME NEW r, NEW st, NEW x, NEW y, Closes(x, y), Within(r, st, x), Formed(st)
  PROVE  Silent(LeaveTop(st, FALSE), st)
<1> DEFINE mid == [st EXCEPT !.stack = Tail(st.stack)]
           frame == Head(st.stack)
<1>1. frame[1] \in {"lora", "window", "finally"}
  BY TopFrame
<1>2. LeaveTop(st, FALSE) = Leave(mid, frame, FALSE)
  BY DEF LeaveTop, Pop
<1>3. Silent(mid, st)
  BY DEF Silent, Formed, Fields
<1> HIDE DEF mid, frame
<1>4. CASE frame[1] = "lora"
  <2>1. Leave(mid, frame, FALSE) = [mid EXCEPT !.flags = frame[2]]
    BY <1>4 DEF Leave, CloseScope
  <2> QED BY <1>2, <1>3, <2>1 DEF Silent, Formed, Fields
<1>5. CASE frame[1] = "window"
  <2>1. Leave(mid, frame, FALSE) = [mid EXCEPT !.open = Tail(mid.open)]
    BY <1>5 DEF Leave, CloseWindow
  <2> QED BY <1>2, <1>3, <2>1 DEF Silent, Formed, Fields
<1>6. CASE frame[1] = "finally"
  <2>1. Leave(mid, frame, FALSE) = Restore(mid, frame[2], frame[3])
    BY <1>6 DEF Leave
  <2>2. Formed(mid)
    BY <1>3 DEF Silent
  <2>3. Silent(Restore(mid, frame[2], frame[3]), mid)
    BY <2>2, CopySilent
  <2> QED BY <1>2, <1>3, <2>1, <2>3 DEF Silent
<1> QED BY <1>1, <1>4, <1>5, <1>6

\* What leads to a readout scores nothing.
LEMMA LeadingSilent ==
  ASSUME NEW r, NEW st, NEW x, NEW y, NEW i, Within(r, st, x), Move(x, i, y),
         Class(i) \in Leading, i[1] # "raise", Formed(st)
  PROVE  Silent(Do(r, i, st), st)
<1>1. CASE i[1] = "embed"
  BY <1>1 DEF Do, Silent, Formed, Fields
<1>2. CASE i[1] = "layer"
  BY <1>2, LayerSilent DEF Do
<1>3. CASE i[1] = "boundary"
  BY <1>3 DEF Do, Silent, Formed, Fields
<1>4. CASE i[1] = "state"
  BY <1>4 DEF Do, Silent, Formed, Fields
<1>5. CASE i[1] = "base"
  BY <1>5 DEF Do, Silent, Formed, Fields
<1>6. CASE i[1] = "tick"
  BY <1>6, TickSilent DEF Do
<1>7. CASE i[1] = "update"
  BY <1>7, UpdateSilent DEF Do
<1>8. CASE i[1] = "ablate"
  BY <1>8, AblateSilent DEF Do
<1>9. CASE i[1] = "readout"
  BY <1>9, ReadoutSilent DEF Do
<1>10. CASE i[1] = "reset"
  BY <1>10 DEF Do, Silent, Formed, Fields
<1>11. CASE i[1] = "snap"
  BY <1>11, CopySilent DEF Do
<1>12. CASE i[1] = "restore"
  BY <1>12, CopySilent DEF Do
<1>13. CASE i[1] = "view"
  BY <1>13 DEF Do, Silent, Formed, Fields
<1>14. CASE i[1] = "lora"
  BY <1>14 DEF Do, Push, Silent, Formed, Fields
<1>15. CASE i[1] = "window"
  BY <1>15 DEF Do, Push, Silent, Formed, Fields
<1>16. CASE i[1] = "finally"
  BY <1>16 DEF Do, Push, Silent, Formed, Fields
<1>17. CASE i[1] = "end"
  <2>1. Closes(x, y)
    BY <1>17 DEF Move, Flat, Opens
  <2>2. Do(r, i, st) = LeaveTop(st, FALSE)
    BY <1>17 DEF Do, LeaveTop
  <2>3. Silent(LeaveTop(st, FALSE), st)
    BY <2>1, LeaveSilent
  <2> QED BY <2>2, <2>3
<1>18. i[1] \in Leading \ {"target layer"}
  <2>1. i[1] = "layer" \/ Class(i) = i[1]
    BY DEF Class
  <2>2. i[1] # "target layer"
    BY DEF Move, Flat, Opens
  <2> QED BY <2>1, <2>2 DEF Leading
<1> QED
  BY <1>1, <1>2, <1>3, <1>4, <1>5, <1>6, <1>7, <1>8, <1>9, <1>10, <1>11, <1>12, <1>13,
     <1>14, <1>15, <1>16, <1>17, <1>18 DEF Leading

\* A program that leads to a readout, from rest.
LEMMA LeadingRuns ==
  ASSUME NEW r, NEW st, NEW p, Runs(p, "out", "out"), MadeOf(p, Leading), Unrefused(p),
         Within(r, st, "out"), Formed(st)
  PROVE  /\ Within(r, Executed(r, st, p), "out") /\ Silent(Executed(r, st, p), st)
         /\ SameTrainables(Executed(r, st, p), st)
<1> DEFINE len == Len(p)
<1>1. PICK d : Passes(d, p, "out", "out")
  BY DEF Runs
<1>2. len \in Nat
  BY DEF MadeOf, IsSequence
<1>3. PICK f : /\ f[0] = st /\ \A n \in 1..len : f[n] = Do(r, p[n], f[n - 1])
               /\ Executed(r, st, p) = f[len]
  BY <1>2, ExecutedCourse
<1>4. /\ d[0] = "out" /\ d[len] = "out" /\ \A n \in 1..len : Move(d[n - 1], p[n], d[n])
  BY <1>1 DEF Passes
<1>5. \A n \in 1..len : Class(p[n]) \in Leading /\ p[n][1] # "raise"
  BY DEF MadeOf, Unrefused
<1> HIDE DEF len
<1> DEFINE Good(n) == Within(r, f[n], d[n]) /\ Silent(f[n], st) /\ SameTrainables(f[n], st)
           Bad == {n \in Nat : n \in 0..len /\ ~Good(n)}
<1>6. Good(0)
  BY <1>3, <1>4 DEF Silent, SameTrainables
<1>7. ASSUME NEW n \in 1..len, Good(n - 1) PROVE Good(n)
  <2>1. /\ f[n] = Do(r, p[n], f[n - 1]) /\ Move(d[n - 1], p[n], d[n])
        /\ Class(p[n]) \in Leading /\ p[n][1] # "raise"
    BY <1>3, <1>4, <1>5
  <2>2. Within(r, f[n - 1], d[n - 1]) /\ Formed(f[n - 1])
    BY <1>7 DEF Silent
  <2>3. Within(r, Do(r, p[n], f[n - 1]), d[n])
    BY <2>1, <2>2, MoveWithin
  <2>4. SameTrainables(Do(r, p[n], f[n - 1]), f[n - 1])
    BY <2>1, <2>2, MoveWithin
  <2>5. Silent(Do(r, p[n], f[n - 1]), f[n - 1])
    BY <2>1, <2>2, LeadingSilent
  <2> QED BY <1>7, <2>1, <2>3, <2>4, <2>5 DEF Silent, SameTrainables
<1>8. Bad = {}
  <2> SUFFICES ASSUME Bad # {} PROVE FALSE
    OBVIOUS
  <2> HIDE DEF Good
  <2>1. PICK n \in Bad : \A m \in Bad : ~(m < n)
    <3>1. Bad \in SUBSET Nat
      OBVIOUS
    <3> HIDE DEF Bad
    <3> QED BY <3>1, FirstOf
  <2>2. n \in 0..len /\ ~Good(n)
    OBVIOUS
  <2>3. n # 0
    BY <1>6, <2>2
  <2>4. n \in 1..len /\ n - 1 \in Nat /\ n - 1 \in 0..len /\ n - 1 < n
    BY <1>2, <2>2, <2>3
  <2>5. Good(n - 1)
    BY <2>1, <2>4
  <2> QED BY <1>7, <2>2, <2>4, <2>5
<1>9. Good(len)
  <2>1. len \in Nat /\ len \in 0..len
    BY <1>2
  <2> HIDE DEF Good
  <2> QED BY <1>8, <2>1
<1> QED BY <1>3, <1>4, <1>9

----------------------------------------------------------------------------
(* An answer                                                               *)

AnswerScopes == {"out", "lora", "window", "window lora"}

\* The score that is open, and a runtime that writes one: its own cache is live.
OpenScore(st) == st.scores[Len(st.scores)]
Writing(st) ==
  /\ Formed(st) /\ IsSequence(st.scores) /\ Len(st.scores) \in Nat \ {0}
  /\ st.alias["target"] = [l \in Layers |-> Own]

\* n has what an answer reads of st, and its earlier scores.
Under(n, st) ==
  /\ n.rd = st.rd /\ n.delta = st.delta /\ n.snap = st.snap
  /\ Len(n.scores) = Len(st.scores)
  /\ \A k \in 1..Len(st.scores) - 1 : n.scores[k] = st.scores[k]

\* Two runtimes that go on with an answer in the same way.
Alike(m, n) ==
  /\ m.flags = n.flags /\ m.w = n.w /\ m.h = n.h /\ m.rd = n.rd /\ m.delta = n.delta
  /\ m.live["target"] = n.live["target"]
  /\ OpenScore(m) = OpenScore(n)

\* A sequence with one entry replaced.
SetAt(q, k, e) == [q EXCEPT ![k] = e]

LEMMA SetOne ==
  ASSUME NEW q, IsSequence(q), NEW k \in 1..Len(q), NEW e
  PROVE  /\ IsSequence(SetAt(q, k, e)) /\ Len(SetAt(q, k, e)) = Len(q)
         /\ SetAt(q, k, e)[k] = e
         /\ \A j \in 1..Len(q) : j # k => SetAt(q, k, e)[j] = q[j]
<1> DEFINE n == [q EXCEPT ![k] = e]
<1>1. PICK S : q \in Seq(S)
  BY DEF IsSequence
<1>2. q \in Seq(S \cup {e}) /\ e \in S \cup {e} /\ DOMAIN q = 1..Len(q)
  BY <1>1
<1>3. n \in Seq(S \cup {e})
  BY <1>2
<1>4. Len(n) = Len(q)
  BY <1>2
<1>5. n[k] = e /\ \A j \in 1..Len(q) : j # k => n[j] = q[j]
  BY <1>2
<1>6. n = SetAt(q, k, e)
  BY DEF SetAt
<1> HIDE DEF n
<1> QED BY <1>3, <1>4, <1>5, <1>6 DEF IsSequence

\* What the head adds to the score that is open.
Said(st, i) == Append(OpenScore(st)[3], <<st.h, i[2]>>)
Scored(st, i) == [OpenScore(st) EXCEPT ![3] = Said(st, i)]

LEMMA HeadIs ==
  ASSUME NEW r, NEW st, NEW i, i[1] = "head", Writing(st)
  PROVE  /\ Writing(Do(r, i, st)) /\ Under(Do(r, i, st), st)
         /\ OpenScore(Do(r, i, st)) = Scored(st, i)
         /\ Do(r, i, st).flags = st.flags /\ Do(r, i, st).h = st.h
         /\ Do(r, i, st).live = st.live
<1> DEFINE n == Do(r, i, st)
           k == Len(st.scores)
           q == SetAt(st.scores, k, Scored(st, i))
           c == [st.count EXCEPT !["head"] = st.count["head"] + 1]
<1>1. n = [st EXCEPT !.count["head"] = @ + 1,
                     !.scores[Len(st.scores)][3] = Append(@, <<st.h, i[2]>>)]
  BY DEF Do
<1>2. Formed(st) /\ IsSequence(st.scores) /\ k \in Nat \ {0}
  BY DEF Writing
<1>3. n.scores = q
  BY <1>1, <1>2 DEF Formed, Fields, Scored, Said, OpenScore, SetAt
<1>4. /\ n.flags = st.flags /\ n.h = st.h /\ n.live = st.live /\ n.rd = st.rd
      /\ n.delta = st.delta /\ n.snap = st.snap /\ n.alias = st.alias /\ Formed(n)
  BY <1>1, <1>2 DEF Formed, Fields
<1>5. k \in 1..Len(st.scores)
  BY <1>2
<1> HIDE DEF n, k
<1>6. /\ IsSequence(q) /\ Len(q) = Len(st.scores) /\ q[k] = Scored(st, i)
      /\ \A j \in 1..Len(st.scores) : j # k => q[j] = st.scores[j]
  BY <1>2, <1>5, SetOne
<1> HIDE DEF q
<1>7. k = Len(st.scores) /\ \A j \in 1..k - 1 : j \in 1..Len(st.scores) /\ j # k
  BY <1>2 DEF k
<1>8. Writing(n)
  BY <1>2, <1>3, <1>4, <1>6, <1>7 DEF Writing
<1>9. Under(n, st)
  BY <1>3, <1>4, <1>6, <1>7 DEF Under
<1>10. OpenScore(n) = Scored(st, i)
  BY <1>3, <1>6, <1>7 DEF OpenScore
<1> QED BY <1>4, <1>8, <1>9, <1>10 DEF n

\* What a layer computes and what it adds to its cache.
Hidden(r, st, i) ==
  <<"layer", i[3], Adapted(r, st, i[3]), st.h, st.live["target"][i[3]], i[4]>>
Grown(r, st, i) ==
  [st.live["target"] EXCEPT ![i[3]] =
     Append(st.live["target"][i[3]], <<i[6], i[4], Adapted(r, st, i[3])>>)]

LEMMA LayerIs ==
  ASSUME NEW r, NEW st, NEW i, Class(i) = "target layer", i[1] = "layer", Writing(st)
  PROVE  /\ Writing(Do(r, i, st)) /\ Under(Do(r, i, st), st)
         /\ Do(r, i, st).scores = st.scores
         /\ Do(r, i, st).flags = st.flags /\ Do(r, i, st).h = Hidden(r, st, i)
         /\ Do(r, i, st).live["target"] = Grown(r, st, i)
<1> DEFINE n == Do(r, i, st)
           l == i[3]
           tag == Adapted(r, st, l)
           old == st.live["target"][l]
           grown == Append(old, <<i[6], i[4], tag>>)
           next == [st EXCEPT !.h = <<"layer", l, tag, st.h, old, i[4]>>,
                              !.count[i[7]] = @ + i[5]]
<1>1. i[1] = "layer" /\ i[2] = "target" /\ l \in Layers
  BY DEF Class
<1>2. /\ Formed(st) /\ IsSequence(st.scores) /\ Len(st.scores) \in Nat \ {0}
      /\ st.alias["target"] = [m \in Layers |-> Own]
  BY DEF Writing
<1>3. st.alias["target"][l] = Own /\ Content(st, "target", l) = old
  BY <1>1, <1>2 DEF Content
<1>4. n = ApplyLayer(r, st, "target", l, i[4], i[5], i[6], i[7])
  BY <1>1 DEF Do
<1>5. n = [next EXCEPT !.live["target"][l] = grown, !.alias["target"][l] = Own]
  BY <1>3, <1>4 DEF ApplyLayer
<1> HIDE DEF n
<1>6. /\ next.h = <<"layer", l, tag, st.h, old, i[4]>>
      /\ next.flags = st.flags /\ next.live = st.live /\ next.rd = st.rd
      /\ next.delta = st.delta /\ next.snap = st.snap /\ next.alias = st.alias
      /\ next.scores = st.scores /\ Formed(next)
  BY <1>2 DEF Formed, Fields
<1> HIDE DEF next
<1>7. /\ n.h = next.h /\ n.flags = next.flags /\ n.rd = next.rd /\ n.delta = next.delta
      /\ n.snap = next.snap /\ n.scores = next.scores /\ Formed(n)
  BY <1>5, <1>6 DEF Formed, Fields
<1>8. n.live["target"] = [next.live["target"] EXCEPT ![l] = grown]
  BY <1>5, <1>6 DEF Formed, Fields
<1>9. n.alias["target"] = [next.alias["target"] EXCEPT ![l] = Own]
  BY <1>5, <1>6 DEF Formed, Fields
<1>10. n.alias["target"] = [m \in Layers |-> Own]
  BY <1>1, <1>2, <1>6, <1>9
<1>11. Writing(n)
  BY <1>2, <1>6, <1>7, <1>10 DEF Writing
<1>12. Under(n, st)
  BY <1>6, <1>7 DEF Under
<1>13. n.h = Hidden(r, st, i)
  BY <1>6, <1>7 DEF Hidden
<1>14. n.live["target"] = Grown(r, st, i)
  BY <1>6, <1>8 DEF Grown
<1> QED BY <1>6, <1>7, <1>11, <1>12, <1>13, <1>14 DEF n

\* The other instructions change the value that flows or the switches.
Flowing(r, st, i) ==
  CASE i[1] = "embed"  -> i[2]
    [] i[1] = "inject" -> IF Neutral(r) THEN Plus(st.h, st.delta) ELSE Plus(st.h, st.rd)
    [] OTHER           -> st.h

Switched(st, i) ==
  IF i[1] = "lora" THEN [l \in DOMAIN st.flags |-> i[2]] ELSE st.flags
Other == {"embed", "inject", "lora", "window"}

LEMMA OtherIs ==
  ASSUME NEW r, NEW st, NEW i, i[1] \in Other, Writing(st)
  PROVE  /\ Writing(Do(r, i, st)) /\ Under(Do(r, i, st), st)
         /\ Do(r, i, st).scores = st.scores /\ Do(r, i, st).live = st.live
         /\ Do(r, i, st).h = Flowing(r, st, i)
         /\ Do(r, i, st).flags = Switched(st, i)
<1> DEFINE n == Do(r, i, st)
<1>1. Formed(st)
  BY DEF Writing
<1>2. /\ n.rd = st.rd /\ n.delta = st.delta /\ n.snap = st.snap /\ n.alias = st.alias
      /\ n.scores = st.scores /\ n.live = st.live /\ Formed(n)
      /\ n.h = Flowing(r, st, i)
      /\ n.flags = Switched(st, i)
  <2>1. CASE i[1] = "embed"
    BY <1>1, <2>1 DEF Do, Formed, Fields, Flowing, Switched
  <2>2. CASE i[1] = "inject"
    <3> DEFINE x == IF Neutral(r) THEN Plus(st.h, st.delta) ELSE Plus(st.h, st.rd)
    <3>1. n = [st EXCEPT !.h = x]
      BY <2>2 DEF Do
    <3>2. Flowing(r, st, i) = x /\ Switched(st, i) = st.flags
      BY <2>2 DEF Flowing, Switched
    <3> HIDE DEF n, x
    <3> QED BY <1>1, <2>2, <3>1, <3>2 DEF Formed, Fields
  <2>3. CASE i[1] = "lora"
    BY <1>1, <2>3 DEF Do, Push, Formed, Fields, Flowing, Switched
  <2>4. CASE i[1] = "window"
    BY <1>1, <2>4 DEF Do, Push, Formed, Fields, Flowing, Switched
  <2> QED BY <2>1, <2>2, <2>3, <2>4 DEF Other
<1> HIDE DEF n
<1>3. Writing(n) /\ Under(n, st)
  BY <1>2 DEF Writing, Under
<1> QED BY <1>2, <1>3 DEF n

LEMMA LeaveIs ==
  ASSUME NEW r, NEW st, NEW x \in AnswerScopes, NEW y, Closes(x, y), Within(r, st, x),
         Writing(st)
  PROVE  /\ Writing(LeaveTop(st, FALSE)) /\ Under(LeaveTop(st, FALSE), st)
         /\ LeaveTop(st, FALSE).scores = st.scores /\ LeaveTop(st, FALSE).live = st.live
         /\ LeaveTop(st, FALSE).h = st.h
         /\ LeaveTop(st, FALSE).flags = RestingFlags(r)
<1> DEFINE mid == [st EXCEPT !.stack = Tail(st.stack)]
           frame == Head(st.stack)
           n == LeaveTop(st, FALSE)
<1>1. frame[1] \in {"lora", "window"}
  BY TopFrame DEF AnswerScopes
<1>2. n = Leave(mid, frame, FALSE)
  BY DEF LeaveTop, Pop
<1>3. Formed(st)
  BY DEF Writing
<1>4. /\ mid.rd = st.rd /\ mid.delta = st.delta /\ mid.snap = st.snap
      /\ mid.alias = st.alias /\ mid.scores = st.scores /\ mid.live = st.live
      /\ mid.h = st.h /\ Formed(mid)
  BY <1>3 DEF Formed, Fields
<1> HIDE DEF mid, frame, n
<1>5. /\ n.rd = st.rd /\ n.delta = st.delta /\ n.snap = st.snap
      /\ n.alias = st.alias /\ n.scores = st.scores /\ n.live = st.live
      /\ n.h = st.h /\ Formed(n)
  <2>1. CASE frame[1] = "lora"
    <3>1. n = [mid EXCEPT !.flags = frame[2]]
      BY <1>2, <2>1 DEF Leave, CloseScope
    <3> QED BY <1>4, <3>1 DEF Formed, Fields
  <2>2. CASE frame[1] = "window"
    <3>1. n = [mid EXCEPT !.open = Tail(mid.open)]
      BY <1>2, <2>2 DEF Leave, CloseWindow
    <3> QED BY <1>4, <3>1 DEF Formed, Fields
  <2> QED BY <1>1, <2>1, <2>2
<1>6. Writing(n) /\ Under(n, st)
  BY <1>5 DEF Writing, Under
<1>7. n.flags = RestingFlags(r)
  <2>1. Within(r, LeaveTop(st, FALSE), y)
    BY ClosesWithin DEF LeaveTop
  <2>2. y \in {"out", "window", "finally"}
    BY DEF Closes, Opens
  <2> QED BY <2>1, <2>2 DEF Within, n
<1> QED BY <1>5, <1>6, <1>7 DEF n

\* The instruction of an answer, in the scopes an answer opens.
LEMMA AnswerKinds ==
  ASSUME NEW x \in AnswerScopes, NEW y, NEW i, Move(x, i, y), Class(i) \in Answering
  PROVE  /\ y \in AnswerScopes /\ i[1] # "raise"
         /\ \/ i[1] \in Other
            \/ i[1] = "head"
            \/ i[1] = "layer" /\ Class(i) = "target layer"
            \/ i[1] = "end" /\ Closes(x, y)
<1>1. CASE i[1] = "layer"
  <2>1. Class(i) = "target layer"
    BY <1>1 DEF Class, Answering
  <2>2. y = x
    BY <1>1 DEF Move, Opens
  <2> QED BY <1>1, <2>1, <2>2
<1>2. CASE i[1] # "layer"
  <2>1. Class(i) = i[1]
    BY <1>2 DEF Class
  <2>2. i[1] # "target layer"
    BY DEF Move, Flat, Opens
  <2>3. i[1] \in {"embed", "inject", "head", "lora", "window", "end"}
    BY <2>1, <2>2 DEF Answering
  <2>4. CASE i[1] \in {"embed", "inject", "head"}
    <3>1. y = x
      BY <2>4 DEF Move, Opens
    <3> QED BY <2>4, <3>1 DEF Other
  <2>5. CASE i[1] \in {"lora", "window"}
    <3>1. Opens(x, i[1], y)
      BY <2>5 DEF Move, Flat
    <3> QED BY <2>5, <3>1 DEF Opens, AnswerScopes, Other
  <2>6. CASE i[1] = "end"
    <3>1. Closes(x, y)
      BY <2>6 DEF Move, Flat, Opens
    <3>2. PICK k : Opens(y, k, x)
      BY <3>1 DEF Closes
    <3>3. y \in AnswerScopes
      BY <3>2 DEF Opens, AnswerScopes
    <3> QED BY <2>6, <3>1, <3>3
  <2> QED BY <2>3, <2>4, <2>5, <2>6 DEF Other
<1> QED BY <1>1, <1>2

\* Runtime st answers, scopes x open, the score that o opened.
Inside(r, x, o, st) ==
  /\ x \in AnswerScopes /\ Within(r, st, x)
  /\ Writing(st) /\ Under(st, o) /\ SameTrainables(st, o)

LEMMA AnswerStep ==
  ASSUME NEW r, NEW o, NEW m, NEW x, NEW y, NEW i, Inside(r, x, o, m), Move(x, i, y),
         Class(i) \in Answering
  PROVE  Inside(r, y, o, Do(r, i, m))
<1> DEFINE n == Do(r, i, m)
<1>1. x \in AnswerScopes /\ Within(r, m, x) /\ Writing(m)
  BY DEF Inside
<1>2. /\ y \in AnswerScopes /\ i[1] # "raise"
      /\ \/ i[1] \in Other
         \/ i[1] = "head"
         \/ i[1] = "layer" /\ Class(i) = "target layer"
         \/ i[1] = "end" /\ Closes(x, y)
  BY <1>1, AnswerKinds
<1>3. Within(r, n, y)
  BY <1>1, <1>2, MoveWithin
<1>4. SameTrainables(n, m)
  BY <1>1, <1>2, MoveWithin
<1>5. Writing(n) /\ Under(n, m)
  <2>1. CASE i[1] \in Other
    BY <1>1, <2>1, OtherIs
  <2>2. CASE i[1] = "head"
    BY <1>1, <2>2, HeadIs
  <2>3. CASE i[1] = "layer" /\ Class(i) = "target layer"
    BY <1>1, <2>3, LayerIs
  <2>4. CASE i[1] = "end" /\ Closes(x, y)
    <3>1. n = LeaveTop(m, FALSE)
      BY <2>4 DEF Do, LeaveTop
    <3>2. Writing(LeaveTop(m, FALSE)) /\ Under(LeaveTop(m, FALSE), m)
      BY <1>1, <2>4, LeaveIs
    <3> QED BY <3>1, <3>2
  <2> QED BY <1>2, <2>1, <2>2, <2>3, <2>4
<1> HIDE DEF n
<1>6. Under(n, o)
  BY <1>5 DEF Inside, Under
<1>7. SameTrainables(n, o)
  BY <1>4 DEF Inside, SameTrainables
<1>8. Inside(r, y, o, n)
  BY <1>2, <1>3, <1>5, <1>6, <1>7 DEF Inside
<1> QED BY <1>8 DEF n

LEMMA StillAlike ==
  ASSUME NEW m, NEW n, NEW m1, NEW n1, Alike(m, n), Under(m1, m), Under(n1, n),
         m1.w = n1.w, m1.flags = n1.flags, m1.h = n1.h,
         m1.live["target"] = n1.live["target"], OpenScore(m1) = OpenScore(n1)
  PROVE  Alike(m1, n1)
<1>1. m1.rd = m.rd /\ n1.rd = n.rd /\ m1.delta = m.delta /\ n1.delta = n.delta
  BY DEF Under
<1>2. m.rd = n.rd /\ m.delta = n.delta
  BY DEF Alike
<1> QED BY <1>1, <1>2 DEF Alike

LEMMA AnswerAlike ==
  ASSUME NEW r, NEW m, NEW n, NEW x \in AnswerScopes, NEW y, NEW i,
         Within(r, m, x), Within(r, n, x), Writing(m), Writing(n), Alike(m, n),
         Move(x, i, y), Class(i) \in Answering
  PROVE  Alike(Do(r, i, m), Do(r, i, n))
<1> DEFINE m1 == Do(r, i, m)
           n1 == Do(r, i, n)
<1> SUFFICES Alike(m1, n1)
  OBVIOUS
<1>1. /\ y \in AnswerScopes /\ i[1] # "raise"
      /\ \/ i[1] \in Other
         \/ i[1] = "head"
         \/ i[1] = "layer" /\ Class(i) = "target layer"
         \/ i[1] = "end" /\ Closes(x, y)
  BY AnswerKinds
<1>2. SameTrainables(m1, m)
  BY <1>1, MoveWithin
<1>3. SameTrainables(n1, n)
  BY <1>1, MoveWithin
<1>4. m1.w = n1.w
  BY <1>2, <1>3 DEF SameTrainables, Alike
<1>5. CASE i[1] \in Other
  <2>1. /\ Under(m1, m) /\ m1.scores = m.scores /\ m1.live = m.live
        /\ m1.h = Flowing(r, m, i) /\ m1.flags = Switched(m, i)
    BY <1>5, OtherIs
  <2>2. /\ Under(n1, n) /\ n1.scores = n.scores /\ n1.live = n.live
        /\ n1.h = Flowing(r, n, i) /\ n1.flags = Switched(n, i)
    BY <1>5, OtherIs
  <2> HIDE DEF m1, n1
  <2>3. Flowing(r, m, i) = Flowing(r, n, i)
    BY DEF Flowing, Alike
  <2>4. Switched(m, i) = Switched(n, i)
    BY DEF Switched, Alike
  <2>5. OpenScore(m1) = OpenScore(n1) /\ m1.live["target"] = n1.live["target"]
    BY <2>1, <2>2 DEF Alike, OpenScore
  <2> QED BY <1>4, <2>1, <2>2, <2>3, <2>4, <2>5, StillAlike
<1>6. CASE i[1] = "head"
  <2>1. /\ Under(m1, m) /\ OpenScore(m1) = Scored(m, i) /\ m1.flags = m.flags
        /\ m1.h = m.h /\ m1.live = m.live
    BY <1>6, HeadIs
  <2>2. /\ Under(n1, n) /\ OpenScore(n1) = Scored(n, i) /\ n1.flags = n.flags
        /\ n1.h = n.h /\ n1.live = n.live
    BY <1>6, HeadIs
  <2> HIDE DEF m1, n1
  <2>3. Scored(m, i) = Scored(n, i)
    BY DEF Scored, Said, Alike
  <2>4. m1.flags = n1.flags /\ m1.h = n1.h /\ m1.live["target"] = n1.live["target"]
    BY <2>1, <2>2 DEF Alike
  <2> QED BY <1>4, <2>1, <2>2, <2>3, <2>4, StillAlike
<1>7. CASE i[1] = "layer" /\ Class(i) = "target layer"
  <2>1. /\ Under(m1, m) /\ m1.scores = m.scores /\ m1.flags = m.flags
        /\ m1.h = Hidden(r, m, i) /\ m1.live["target"] = Grown(r, m, i)
    BY <1>7, LayerIs
  <2>2. /\ Under(n1, n) /\ n1.scores = n.scores /\ n1.flags = n.flags
        /\ n1.h = Hidden(r, n, i) /\ n1.live["target"] = Grown(r, n, i)
    BY <1>7, LayerIs
  <2> HIDE DEF m1, n1
  <2>3. Adapted(r, m, i[3]) = Adapted(r, n, i[3])
    BY DEF Adapted, Alike
  <2>4. Hidden(r, m, i) = Hidden(r, n, i) /\ Grown(r, m, i) = Grown(r, n, i)
    BY <2>3 DEF Hidden, Grown, Alike
  <2>5. OpenScore(m1) = OpenScore(n1) /\ m1.flags = n1.flags
    BY <2>1, <2>2 DEF Alike, OpenScore
  <2> QED BY <1>4, <2>1, <2>2, <2>4, <2>5, StillAlike
<1>8. CASE i[1] = "end" /\ Closes(x, y)
  <2>1. m1 = LeaveTop(m, FALSE) /\ n1 = LeaveTop(n, FALSE)
    BY <1>8 DEF Do, LeaveTop
  <2> HIDE DEF m1, n1
  <2>2. /\ Under(LeaveTop(m, FALSE), m) /\ LeaveTop(m, FALSE).scores = m.scores
        /\ LeaveTop(m, FALSE).live = m.live /\ LeaveTop(m, FALSE).h = m.h
        /\ LeaveTop(m, FALSE).flags = RestingFlags(r)
    BY <1>8, LeaveIs
  <2>3. /\ Under(LeaveTop(n, FALSE), n) /\ LeaveTop(n, FALSE).scores = n.scores
        /\ LeaveTop(n, FALSE).live = n.live /\ LeaveTop(n, FALSE).h = n.h
        /\ LeaveTop(n, FALSE).flags = RestingFlags(r)
    BY <1>8, LeaveIs
  <2> DEFINE m2 == LeaveTop(m, FALSE)
             n2 == LeaveTop(n, FALSE)
  <2>4. m2.h = n2.h /\ m2.flags = n2.flags /\ m2.live["target"] = n2.live["target"]
    BY <2>2, <2>3 DEF Alike
  <2>5. OpenScore(m2) = OpenScore(n2)
    BY <2>2, <2>3 DEF Alike, OpenScore
  <2>6. Under(m2, m) /\ Under(n2, n) /\ m2.w = n2.w
    BY <1>4, <2>1, <2>2, <2>3
  <2> HIDE DEF m2, n2
  <2>7. Alike(m2, n2)
    BY <2>4, <2>5, <2>6, StillAlike
  <2> QED BY <2>1, <2>7 DEF m2, n2
<1> QED BY <1>1, <1>5, <1>6, <1>7, <1>8

\* An answer written from two runtimes that are alike comes out the same.
LEMMA AnswerRuns ==
  ASSUME NEW r, NEW p, Runs(p, "out", "out"), MadeOf(p, Answering),
         NEW m, NEW n, Inside(r, "out", m, m), Inside(r, "out", n, n), Alike(m, n)
  PROVE  /\ Inside(r, "out", m, Executed(r, m, p)) /\ Inside(r, "out", n, Executed(r, n, p))
         /\ Alike(Executed(r, m, p), Executed(r, n, p))
<1> DEFINE len == Len(p)
<1>1. PICK d : Passes(d, p, "out", "out")
  BY DEF Runs
<1>2. len \in Nat
  BY DEF MadeOf, IsSequence
<1>3. PICK f : /\ f[0] = m /\ \A k \in 1..len : f[k] = Do(r, p[k], f[k - 1])
               /\ Executed(r, m, p) = f[len]
  BY <1>2, ExecutedCourse
<1>4. PICK g : /\ g[0] = n /\ \A k \in 1..len : g[k] = Do(r, p[k], g[k - 1])
               /\ Executed(r, n, p) = g[len]
  BY <1>2, ExecutedCourse
<1>5. /\ d[0] = "out" /\ d[len] = "out" /\ \A k \in 1..len : Move(d[k - 1], p[k], d[k])
  BY <1>1 DEF Passes
<1>6. \A k \in 1..len : Class(p[k]) \in Answering
  BY DEF MadeOf
<1> HIDE DEF len
<1> DEFINE Good(k) == Inside(r, d[k], m, f[k]) /\ Inside(r, d[k], n, g[k]) /\ Alike(f[k], g[k])
           Bad == {k \in Nat : k \in 0..len /\ ~Good(k)}
<1>7. Good(0)
  BY <1>3, <1>4, <1>5
<1>8. ASSUME NEW k \in 1..len, Good(k - 1) PROVE Good(k)
  <2>1. /\ f[k] = Do(r, p[k], f[k - 1]) /\ g[k] = Do(r, p[k], g[k - 1])
        /\ Move(d[k - 1], p[k], d[k]) /\ Class(p[k]) \in Answering
    BY <1>3, <1>4, <1>5, <1>6
  <2>2. Inside(r, d[k], m, Do(r, p[k], f[k - 1]))
    BY <1>8, <2>1, AnswerStep
  <2>3. Inside(r, d[k], n, Do(r, p[k], g[k - 1]))
    BY <1>8, <2>1, AnswerStep
  <2>4. /\ d[k - 1] \in AnswerScopes /\ Within(r, f[k - 1], d[k - 1])
        /\ Within(r, g[k - 1], d[k - 1]) /\ Writing(f[k - 1]) /\ Writing(g[k - 1])
        /\ Alike(f[k - 1], g[k - 1])
    BY <1>8 DEF Inside
  <2>5. Alike(Do(r, p[k], f[k - 1]), Do(r, p[k], g[k - 1]))
    BY <2>1, <2>4, AnswerAlike
  <2> QED BY <2>1, <2>2, <2>3, <2>5
<1>9. Bad = {}
  <2> SUFFICES ASSUME Bad # {} PROVE FALSE
    OBVIOUS
  <2> HIDE DEF Good
  <2>1. PICK k \in Bad : \A j \in Bad : ~(j < k)
    <3>1. Bad \in SUBSET Nat
      OBVIOUS
    <3> HIDE DEF Bad
    <3> QED BY <3>1, FirstOf
  <2>2. k \in 0..len /\ ~Good(k)
    OBVIOUS
  <2>3. k # 0
    BY <1>7, <2>2
  <2>4. k \in 1..len /\ k - 1 \in Nat /\ k - 1 \in 0..len /\ k - 1 < k
    BY <1>2, <2>2, <2>3
  <2>5. Good(k - 1)
    BY <2>1, <2>4
  <2> QED BY <1>8, <2>2, <2>4, <2>5
<1>10. Good(len)
  <2>1. len \in Nat /\ len \in 0..len
    BY <1>2
  <2> HIDE DEF Good
  <2> QED BY <1>9, <2>1
<1> QED BY <1>3, <1>4, <1>5, <1>10

\* The runtime in which a candidate's answer starts.
Opened(r, cand, m) ==
  Do(r, <<"score", "own", cand>>, Do(r, <<"restore", "target", <<"read">>>>, m))

\* A runtime that stands at the readout b, with any scores.
Ready(r, b, m) ==
  /\ Within(r, m, "out") /\ Formed(m) /\ IsSequence(m.scores)
  /\ m.rd = b.rd /\ m.delta = b.delta /\ m.snap = b.snap /\ SameTrainables(m, b)

\* What scores one candidate.
Block(r, pos, cand) ==
  <<<<"restore", "target", <<"read">>>>>> \o ScoreTokens(r, "target", pos, cand, "own")

LEMMA AppendOne ==
  ASSUME NEW q, IsSequence(q), NEW e
  PROVE  /\ IsSequence(Append(q, e)) /\ Len(Append(q, e)) = Len(q) + 1 /\ Len(q) \in Nat
         /\ Append(q, e)[Len(q) + 1] = e
         /\ \A k \in 1..Len(q) : Append(q, e)[k] = q[k]
<1>1. PICK S : q \in Seq(S)
  BY DEF IsSequence
<1>2. q \in Seq(S \cup {e}) /\ e \in S \cup {e}
  BY <1>1
<1>3. Append(q, e) \in Seq(S \cup {e}) /\ Len(Append(q, e)) = Len(q) + 1
  BY <1>2
<1>4. Append(q, e)[Len(q) + 1] = e /\ Len(q) \in Nat
  BY <1>2
<1>5. \A k \in 1..Len(q) : Append(q, e)[k] = q[k]
  BY <1>2
<1> QED BY <1>3, <1>4, <1>5 DEF IsSequence

\* The score that is opened, and what is kept of m: n goes on from the readout b.
NewScore(cand) == <<"own", cand, <<>>>>
StartOf(r, b, cand, m, n) ==
  /\ Inside(r, "out", n, n) /\ Ready(r, b, n)
  /\ n.scores = Append(m.scores, NewScore(cand))
  /\ n.h = b.rd /\ n.live["target"] = b.snap[<<"read">>]

LEMMA OpenedIs ==
  ASSUME NEW r, NEW cand, NEW b, NEW m, Ready(r, b, m)
  PROVE  StartOf(r, b, cand, m, Opened(r, cand, m))
<1> DEFINE i == <<"restore", "target", <<"read">>>>
           j == <<"score", "own", cand>>
           e == <<"own", cand, <<>>>>
           own == [l \in Layers |-> Own]
           mid == Do(r, i, m)
           n == Do(r, j, mid)
<1>1. /\ Within(r, m, "out") /\ Formed(m) /\ IsSequence(m.scores)
      /\ m.rd = b.rd /\ m.delta = b.delta /\ m.snap = b.snap /\ SameTrainables(m, b)
  BY DEF Ready
<1>2. /\ i[1] = "restore" /\ i[2] = "target" /\ i[3] = <<"read">>
      /\ j[1] = "score" /\ j[2] = "own" /\ j[3] = cand
  OBVIOUS
<1>3. mid = Restore(m, "target", <<"read">>)
  BY <1>2 DEF Do
<1>4. mid = [m EXCEPT !.live["target"] = m.snap[<<"read">>], !.alias["target"] = own]
  BY <1>3 DEF Restore
<1>5. n = [mid EXCEPT !.h = mid.rd, !.scores = Append(mid.scores, e)]
  BY <1>2 DEF Do
<1>6. Opened(r, cand, m) = n
  BY DEF Opened
<1>7. Move("out", i, "out") /\ Move("out", j, "out") /\ i[1] # "raise" /\ j[1] # "raise"
  BY <1>2 DEF Move, Flat
<1>8. Within(r, mid, "out") /\ SameTrainables(mid, m)
  <2> HIDE DEF i
  <2>1. Within(r, Do(r, i, m), "out")
    BY <1>1, <1>7, MoveWithin
  <2>2. SameTrainables(Do(r, i, m), m)
    BY <1>1, <1>7, MoveWithin
  <2> QED BY <2>1, <2>2
<1>9. Within(r, n, "out") /\ SameTrainables(n, mid)
  <2> HIDE DEF j, mid
  <2>1. Within(r, Do(r, j, mid), "out")
    BY <1>7, <1>8, MoveWithin
  <2>2. SameTrainables(Do(r, j, mid), mid)
    BY <1>7, <1>8, MoveWithin
  <2> QED BY <2>1, <2>2
<1> HIDE DEF i, j, e, own, mid, n
<1>10. /\ mid.rd = m.rd /\ mid.delta = m.delta /\ mid.snap = m.snap /\ mid.scores = m.scores
       /\ mid.live["target"] = m.snap[<<"read">>] /\ mid.alias["target"] = own
       /\ Formed(mid)
  BY <1>1, <1>4 DEF Formed, Fields
<1>11. /\ n.rd = mid.rd /\ n.delta = mid.delta /\ n.snap = mid.snap
       /\ n.scores = Append(mid.scores, e) /\ n.live = mid.live /\ n.alias = mid.alias
       /\ n.h = mid.rd /\ Formed(n)
  BY <1>5, <1>10 DEF Formed, Fields
<1>12. IsSequence(n.scores) /\ Len(n.scores) \in Nat \ {0}
  BY <1>1, <1>10, <1>11, AppendOne
<1>13. Writing(n)
  BY <1>10, <1>11, <1>12 DEF Writing, own
<1>14. Under(n, n) /\ SameTrainables(n, n)
  BY DEF Under, SameTrainables
<1>15. Inside(r, "out", n, n)
  BY <1>9, <1>13, <1>14 DEF Inside, AnswerScopes
<1>16. SameTrainables(n, b)
  BY <1>1, <1>8, <1>9 DEF SameTrainables
<1>17. Ready(r, b, n)
  BY <1>1, <1>9, <1>10, <1>11, <1>12, <1>16 DEF Ready
<1>18. e = NewScore(cand)
  BY DEF e, NewScore
<1>19. StartOf(r, b, cand, m, n)
  BY <1>1, <1>10, <1>11, <1>15, <1>17, <1>18 DEF StartOf
<1> QED BY <1>6, <1>19

LEMMA AnswerTokenMade ==
  ASSUME NEW r \in Runtimes, NEW pos, NEW tok, NEW next, NEW last
  PROVE  MadeOf(AnswerToken(r, "target", pos, tok, next, last), Answering)
<1> DEFINE hd == <<"head", tok>>
           emb == <<"embed", <<"token", tok>>>>
           low == Run(1, r.hi, "target", next, 1, tok, "answer")
           inj == <<"inject">>
           high == Run(r.hi + 1, NLayers, "target", next, 1, tok, "answer")
           body == low \o <<inj>> \o high
           more == <<emb>> \o Scoped(r, FALSE, body)
<1>1. /\ hd[1] \in Answering /\ emb[1] \in Answering /\ inj[1] \in Answering
      /\ {"lora", "window", "end"} \subseteq Answering /\ {"target layer"} \subseteq Answering
  BY DEF Answering
<1>2. MadeOf(low, {"target layer"}) /\ MadeOf(high, {"target layer"})
  <2>1. /\ r.hi \in Int /\ NLayers \in Int /\ 1 >= 1 /\ r.hi <= NLayers /\ NLayers <= NLayers
        /\ r.hi + 1 \in Int /\ r.hi + 1 >= 1 /\ 1 \in Int
    BY RuntimeConstants DEF Runtimes, Layers
  <2>2. MadeOf(low, {"target layer"})
    BY <2>1, MadeOfRun
  <2>3. MadeOf(high, {"target layer"})
    BY <2>1, MadeOfRun
  <2> QED BY <2>2, <2>3
<1>3. AnswerToken(r, "target", pos, tok, next, last)
        = Guarded(<<hd>>) \o (IF last THEN <<>> ELSE more)
  BY DEF AnswerToken
<1> HIDE DEF hd, emb, low, inj, high
<1>4. MadeOf(low, Answering) /\ MadeOf(high, Answering)
  BY <1>1, <1>2, MadeOfMore
<1>5. MadeOf(<<hd>>, Answering) /\ MadeOf(<<emb>>, Answering) /\ MadeOf(<<inj>>, Answering)
  BY <1>1, AnsweringOne
<1>6. MadeOf(low \o <<inj>>, Answering)
  BY <1>4, <1>5, MadeOfJoin
<1>7. MadeOf(body, Answering)
  BY <1>4, <1>6, MadeOfJoin
<1> HIDE DEF body
<1>8. MadeOf(Scoped(r, FALSE, body), Answering) /\ MadeOf(Guarded(<<hd>>), Answering)
  BY <1>1, <1>5, <1>7, ManagedMade
<1>9. MadeOf(more, Answering)
  BY <1>5, <1>8, MadeOfJoin
<1> HIDE DEF more
<1>10. MadeOf(IF last THEN <<>> ELSE more, Answering)
  BY <1>9, MadeOfNothing
<1> QED BY <1>3, <1>8, <1>10, MadeOfJoin

\* A candidate is scored by opening its score and answering.
LEMMA AnswerBody ==
  ASSUME NEW r \in Runtimes, NEW pos, NEW cand \in Seq(Tokens), cand # <<>>
  PROVE  \E body : /\ Runs(body, "out", "out") /\ MadeOf(body, Answering)
                   /\ \A m : Executed(r, m, Block(r, pos, cand))
                               = Executed(r, Opened(r, cand, m), body)
<1> DEFINE rs == <<"restore", "target", <<"read">>>>
           start == <<"score", "own", cand>>
           tail == r.hi < NLayers
           first == pos + IF tail THEN 1 ELSE 0
           low == Run(r.hi + 1, NLayers, "target", pos, 1, "carrier", "tail")
           carrier == IF tail THEN Scoped(r, FALSE, low) ELSE <<>>
           tok(j) == AnswerToken(r, "target", pos, cand[j], first + j - 1, j = Len(cand))
           f == [j \in DOMAIN cand |-> tok(j)]
           flat == FlattenSeq(f)
           body == carrier \o flat
<1>1. "out" \in Scopes /\ {"lora", "window", "end"} \subseteq Answering
      /\ {"target layer"} \subseteq Answering
  BY DEF Scopes, Answering
<1>2. Block(r, pos, cand) = <<rs>> \o (<<start>> \o carrier \o flat)
  BY DEF ScoreTokens, Block
<1>3. Len(cand) \in Int /\ DOMAIN cand = 1..Len(cand)
  OBVIOUS
<1>4. \A j \in 1..Len(cand) : Runs(f[j], "out", "out") /\ MadeOf(f[j], Answering)
  <2> TAKE j \in 1..Len(cand)
  <2>1. f[j] = tok(j)
    BY <1>3
  <2>2. Runs(tok(j), "out", "out")
    BY AnswerTokenRuns
  <2>3. MadeOf(tok(j), Answering)
    BY AnswerTokenMade
  <2> QED BY <2>1, <2>2, <2>3
<1>5. f = [j \in 1..Len(cand) |-> f[j]]
  BY <1>3
<1>6. AllFlat(low)
  BY LayerBounds, FlatRun
<1>7. MadeOf(low, Answering)
  <2>1. r.hi + 1 \in Int /\ NLayers \in Int /\ r.hi + 1 >= 1 /\ NLayers <= NLayers
    BY RuntimeConstants DEF Runtimes, Layers
  <2>2. MadeOf(low, {"target layer"})
    BY <2>1, MadeOfRun
  <2> HIDE DEF low
  <2> QED BY <1>1, <2>2, MadeOfMore
<1>8. \A m : Opened(r, cand, m) = Do(r, start, Do(r, rs, m))
  BY DEF Opened
<1> HIDE DEF rs, start, low, f
<1>9. Runs(flat, "out", "out")
  BY <1>1, <1>3, <1>4, <1>5, FamilyRuns
<1>10. MadeOf(flat, Answering)
  BY <1>3, <1>4, <1>5, MadeOfFlat
<1>11. Runs(carrier, "out", "out")
  BY <1>1, <1>6, ScopedFlat, NothingRuns
<1>12. MadeOf(carrier, Answering)
  BY <1>1, <1>7, ManagedMade, MadeOfNothing
<1> HIDE DEF carrier, flat
<1>13. Runs(body, "out", "out")
  BY <1>9, <1>11, JoinRuns
<1>14. MadeOf(body, Answering)
  BY <1>10, <1>12, MadeOfJoin
<1>15. /\ IsSequence(carrier) /\ IsSequence(flat) /\ IsSequence(<<rs>>)
       /\ IsSequence(<<start>>)
  BY <1>10, <1>12, OneIs DEF MadeOf
<1>16. ASSUME NEW m
       PROVE  Executed(r, m, Block(r, pos, cand)) = Executed(r, Opened(r, cand, m), body)
  <2> DEFINE u == <<start>> \o carrier
             v == u \o flat
             m1 == Do(r, rs, m)
             m2 == Do(r, start, m1)
  <2>1. IsSequence(u)
    BY <1>15, JoinIs
  <2>2. IsSequence(v)
    BY <1>15, <2>1, JoinIs
  <2>3. Executed(r, m, <<rs>>) = m1 /\ Executed(r, m1, <<start>>) = m2
    BY ExecutedOne
  <2> HIDE DEF m1, m2
  <2>4. Executed(r, m1, u) = Executed(r, m2, carrier)
    BY <1>15, <2>3, ExecutedJoin
  <2> HIDE DEF u
  <2>5. Executed(r, m1, v) = Executed(r, Executed(r, m2, carrier), flat)
    BY <1>15, <2>1, <2>4, ExecutedJoin
  <2> HIDE DEF v
  <2>6. Executed(r, m, <<rs>> \o v) = Executed(r, m1, v)
    BY <1>15, <2>2, <2>3, ExecutedJoin
  <2>7. Executed(r, m2, body) = Executed(r, Executed(r, m2, carrier), flat)
    BY <1>15, ExecutedJoin
  <2>8. Block(r, pos, cand) = <<rs>> \o v
    BY <1>2 DEF u, v
  <2>9. Opened(r, cand, m) = m2
    BY <1>8 DEF m1, m2
  <2> QED BY <2>5, <2>6, <2>7, <2>8, <2>9
<1> HIDE DEF body
<1> QED BY <1>13, <1>14, <1>16

\* n is m with the score e added, back at the readout b.
Adds(r, b, m, e, n) ==
  /\ Ready(r, b, n) /\ Len(m.scores) \in Nat /\ Len(n.scores) = Len(m.scores) + 1
  /\ \A k \in 1..Len(m.scores) : n.scores[k] = m.scores[k]
  /\ n.scores[Len(m.scores) + 1] = e

\* The candidate's score is the same whatever was scored before it.
LEMMA BlockIs ==
  ASSUME NEW r \in Runtimes, NEW pos, NEW cand \in Seq(Tokens), cand # <<>>,
         NEW b, NEW m, Ready(r, b, b), Ready(r, b, m)
  PROVE  Adds(r, b, m, Executed(r, b, Block(r, pos, cand)).scores[Len(b.scores) + 1],
              Executed(r, m, Block(r, pos, cand)))
<1> DEFINE om == Opened(r, cand, m)
           ob == Opened(r, cand, b)
           e == NewScore(cand)
           B == Executed(r, b, Block(r, pos, cand))
           M == Executed(r, m, Block(r, pos, cand))
<1>1. PICK body : /\ Runs(body, "out", "out") /\ MadeOf(body, Answering)
                  /\ \A n : Executed(r, n, Block(r, pos, cand))
                              = Executed(r, Opened(r, cand, n), body)
  BY AnswerBody
<1>2. M = Executed(r, om, body) /\ B = Executed(r, ob, body)
  BY <1>1
<1>20. StartOf(r, b, cand, m, om)
  BY OpenedIs
<1>21. StartOf(r, b, cand, b, ob)
  BY OpenedIs
<1> HIDE DEF om, ob, e, B, M
<1>3. /\ Inside(r, "out", om, om) /\ Ready(r, b, om) /\ om.scores = Append(m.scores, e)
      /\ om.h = b.rd /\ om.live["target"] = b.snap[<<"read">>]
  BY <1>20 DEF StartOf, e
<1>4. /\ Inside(r, "out", ob, ob) /\ Ready(r, b, ob) /\ ob.scores = Append(b.scores, e)
      /\ ob.h = b.rd /\ ob.live["target"] = b.snap[<<"read">>]
  BY <1>21 DEF StartOf, e
<1>5. IsSequence(m.scores) /\ IsSequence(b.scores)
  BY DEF Ready
<1>6. /\ Len(om.scores) = Len(m.scores) + 1 /\ Len(m.scores) \in Nat
      /\ om.scores[Len(m.scores) + 1] = e
      /\ \A k \in 1..Len(m.scores) : om.scores[k] = m.scores[k]
  BY <1>3, <1>5, AppendOne
<1>7. /\ Len(ob.scores) = Len(b.scores) + 1 /\ Len(b.scores) \in Nat
      /\ ob.scores[Len(b.scores) + 1] = e
  BY <1>4, <1>5, AppendOne
<1>8. OpenScore(om) = OpenScore(ob)
  BY <1>6, <1>7 DEF OpenScore
<1>9. om.flags = ob.flags
  <2>1. Within(r, om, "out") /\ Within(r, ob, "out")
    BY <1>3, <1>4 DEF Ready
  <2> QED BY <2>1 DEF Within
<1>10. Alike(om, ob)
  BY <1>3, <1>4, <1>8, <1>9 DEF Alike, Ready, SameTrainables
<1>11. Inside(r, "out", om, Executed(r, om, body)) /\ Inside(r, "out", ob, Executed(r, ob, body))
  BY <1>1, <1>3, <1>4, <1>10, AnswerRuns
<1>12. Alike(Executed(r, om, body), Executed(r, ob, body))
  BY <1>1, <1>3, <1>4, <1>10, AnswerRuns
<1>13. Inside(r, "out", om, M) /\ Inside(r, "out", ob, B) /\ Alike(M, B)
  BY <1>2, <1>11, <1>12
<1>14. /\ Within(r, M, "out") /\ Writing(M) /\ Under(M, om) /\ SameTrainables(M, om)
       /\ Under(B, ob)
  BY <1>13 DEF Inside
<1>15. Ready(r, b, M)
  <2>1. Formed(M) /\ IsSequence(M.scores)
    BY <1>14 DEF Writing
  <2>2. M.rd = b.rd /\ M.delta = b.delta /\ M.snap = b.snap
    BY <1>3, <1>14 DEF Under, Ready
  <2>3. SameTrainables(M, b)
    BY <1>3, <1>14 DEF Ready, SameTrainables
  <2> QED BY <1>14, <2>1, <2>2, <2>3 DEF Ready
<1>16. Len(M.scores) = Len(m.scores) + 1 /\ Len(B.scores) = Len(b.scores) + 1
  BY <1>6, <1>7, <1>14 DEF Under
<1>17. \A k \in 1..Len(m.scores) : M.scores[k] = m.scores[k]
  <2>1. \A k \in 1..Len(om.scores) - 1 : M.scores[k] = om.scores[k]
    BY <1>14 DEF Under
  <2>2. Len(om.scores) - 1 = Len(m.scores)
    BY <1>6
  <2> QED BY <1>6, <2>1, <2>2
<1>18. M.scores[Len(m.scores) + 1] = B.scores[Len(b.scores) + 1]
  BY <1>13, <1>16 DEF Alike, OpenScore
<1>19. Adds(r, b, m, B.scores[Len(b.scores) + 1], M)
  BY <1>6, <1>15, <1>16, <1>17, <1>18 DEF Adds
<1> QED BY <1>19 DEF B, M

LEMMA UnrefusedJoin ==
  ASSUME NEW p, NEW q, IsSequence(p), IsSequence(q), Unrefused(p \o q)
  PROVE  Unrefused(p) /\ Unrefused(q)
<1> DEFINE w == p \o q
<1>1. JoinOf(p, q, w) /\ Unrefused(w)
  BY Joined
<1> HIDE DEF w
<1>2. ASSUME NEW n \in 1..Len(p) PROVE p[n][1] # "raise"
  <2>1. n \in 1..Len(w) /\ w[n] = p[n]
    BY <1>1 DEF JoinOf
  <2> QED BY <1>1, <2>1 DEF Unrefused
<1>3. ASSUME NEW n \in 1..Len(q) PROVE q[n][1] # "raise"
  <2>1. Len(p) + n \in 1..Len(w) /\ w[Len(p) + n] = q[n]
    BY <1>1 DEF JoinOf
  <2> QED BY <1>1, <2>1 DEF Unrefused
<1> QED BY <1>2, <1>3 DEF Unrefused

\* A program that refuses nothing has no part that does.
LEMMA UnrefusedParts ==
  ASSUME NEW seqs, NEW g, Joining(g, seqs), Len(seqs) \in Nat,
         \A j \in 1..Len(seqs) : IsSequence(seqs[j]), Unrefused(g[Len(seqs)])
  PROVE  \A j \in 1..Len(seqs) : Unrefused(seqs[j])
<1> DEFINE len == Len(seqs)
<1>1. /\ \A j \in 1..len : g[j] = g[j - 1] \o seqs[j]
      /\ \A j \in 0..len : IsSequence(g[j])
  BY DEF Joining
<1>2. len \in Nat /\ Unrefused(g[len]) /\ \A j \in 1..len : IsSequence(seqs[j])
  OBVIOUS
<1> HIDE DEF len
<1> DEFINE Bad == {k \in Nat : k \in 0..len /\ ~Unrefused(g[len - k])}
<1>3. Bad = {}
  <2> SUFFICES ASSUME Bad # {} PROVE FALSE
    OBVIOUS
  <2>1. PICK k \in Bad : \A j \in Bad : ~(j < k)
    <3>1. Bad \in SUBSET Nat
      OBVIOUS
    <3> HIDE DEF Bad
    <3> QED BY <3>1, FirstOf
  <2>2. k \in 0..len /\ ~Unrefused(g[len - k])
    OBVIOUS
  <2>3. k # 0
    BY <1>2, <2>2
  <2>4. k - 1 \in Nat /\ k - 1 \in 0..len /\ k - 1 < k
    BY <1>2, <2>2, <2>3
  <2>5. Unrefused(g[len - (k - 1)])
    BY <2>1, <2>4
  <2> DEFINE j == len - (k - 1)
  <2>6. j \in 1..len /\ j - 1 \in 0..len /\ j - 1 = len - k
    BY <1>2, <2>2, <2>3
  <2> HIDE DEF j
  <2>7. g[j] = g[j - 1] \o seqs[j] /\ IsSequence(g[j - 1]) /\ IsSequence(seqs[j])
    BY <1>1, <1>2, <2>6
  <2>8. Unrefused(g[j])
    BY <2>5 DEF j
  <2>9. Unrefused(g[j - 1])
    BY <2>7, <2>8, UnrefusedJoin
  <2> QED BY <2>2, <2>6, <2>9
<1>4. ASSUME NEW j \in 1..len PROVE Unrefused(seqs[j])
  <2> DEFINE k == len - j
  <2>1. k \in Nat /\ k \in 0..len /\ len - k = j
    BY <1>2
  <2>2. Unrefused(g[len - k])
    BY <1>3, <2>1
  <2> HIDE DEF k
  <2>3. Unrefused(g[j])
    BY <2>1, <2>2
  <2>4. j - 1 \in 0..len
    BY <1>2
  <2>5. g[j] = g[j - 1] \o seqs[j] /\ IsSequence(g[j - 1]) /\ IsSequence(seqs[j])
    BY <1>1, <1>2, <2>4
  <2> QED BY <2>3, <2>5, UnrefusedJoin
<1> QED BY <1>4 DEF len

\* The candidates have been scored from the readout b, each as if it were alone.
EachOK(r, pos, cands, b, n) ==
  /\ IsSequence(n.scores) /\ Len(n.scores) = Len(cands)
  /\ \A j \in 1..Len(cands) :
       /\ cands[j] # <<>>
       /\ n.scores[j] = Executed(r, b, Block(r, pos, cands[j])).scores[1]

\* Scoring the candidates one after the other, from a readout.
LEMMA EachScored ==
  ASSUME NEW r \in Runtimes, NEW pos, NEW cands \in Seq(Seq(Tokens)), NEW b,
         Ready(r, b, b), b.scores = <<>>,
         Unrefused(ScoreEach(r, "target", pos, <<"read">>, cands, "own"))
  PROVE  EachOK(r, pos, cands, b,
                Executed(r, b, ScoreEach(r, "target", pos, <<"read">>, cands, "own")))
<1> DEFINE f == [i \in DOMAIN cands |-> Block(r, pos, cands[i])]
           len == Len(cands)
           all == FlattenSeq(f)
<1>1. ScoreEach(r, "target", pos, <<"read">>, cands, "own") = all
  BY DEF ScoreEach, Block
<1>2. /\ DOMAIN cands = 1..len /\ len \in Nat
      /\ \A i \in 1..len : cands[i] \in Seq(Tokens)
  OBVIOUS
<1>3. f = [i \in 1..len |-> f[i]] /\ \A i \in 1..len : f[i] = Block(r, pos, cands[i])
  BY <1>2
<1>4. \A i \in 1..len : IsSequence(f[i])
  <2> TAKE i \in 1..len
  <2> DEFINE rs == <<"restore", "target", <<"read">>>>
  <2>1. Runs(ScoreTokens(r, "target", pos, cands[i], "own"), "out", "out")
    BY <1>2, ScoreTokensRuns
  <2>2. IsSequence(ScoreTokens(r, "target", pos, cands[i], "own"))
    BY <2>1 DEF Runs
  <2>3. Block(r, pos, cands[i]) = <<rs>> \o ScoreTokens(r, "target", pos, cands[i], "own")
    BY DEF Block
  <2> HIDE DEF rs
  <2>4. IsSequence(<<rs>>)
    BY OneIs
  <2>5. IsSequence(Block(r, pos, cands[i]))
    BY <2>2, <2>3, <2>4, JoinIs
  <2> QED BY <1>3, <2>5
<1> HIDE DEF f, len
<1>5. Len(f) \in Nat /\ (Len(f) = 0 => f = <<>>) /\ Len(f) = len
  <2>1. Len(f) \in Nat /\ (Len(f) = 0 => f = <<>>) /\ 1..Len(f) = 1..len
    BY <1>2, <1>3, FunctionIsSequence
  <2> QED BY <1>2, <2>1, SameInterval
<1>6. PICK g : Joining(g, f)
  BY <1>4, <1>5, JoiningExists
<1>7. /\ g[0] = <<>> /\ \A i \in 1..len : g[i] = g[i - 1] \o f[i]
      /\ \A i \in 0..len : IsSequence(g[i])
      /\ all = g[len]
  BY <1>5, <1>6 DEF Joining
<1>8. \A i \in 1..len : Unrefused(f[i])
  <2>1. Unrefused(g[Len(f)])
    BY <1>1, <1>5, <1>7
  <2>2. \A i \in 1..Len(f) : IsSequence(f[i])
    BY <1>4, <1>5
  <2>3. \A i \in 1..Len(f) : Unrefused(f[i])
    BY <1>5, <1>6, <2>1, <2>2, UnrefusedParts
  <2> QED BY <1>5, <2>3
<1>9. \A i \in 1..len : cands[i] # <<>>
  <2> SUFFICES ASSUME NEW i \in 1..len, cands[i] = <<>> PROVE FALSE
    OBVIOUS
  <2> DEFINE rs == <<"restore", "target", <<"read">>>>
             err == <<"raise">>
  <2>1. Block(r, pos, cands[i]) = <<rs>> \o <<err>>
    BY DEF Block, ScoreTokens
  <2>2. err[1] = "raise"
    OBVIOUS
  <2> HIDE DEF rs, err
  <2>3. Unrefused(<<rs>> \o <<err>>)
    BY <1>3, <1>8, <2>1
  <2>4. IsSequence(<<rs>>) /\ IsSequence(<<err>>)
    BY OneIs
  <2>5. Unrefused(<<err>>)
    BY <2>3, <2>4, UnrefusedJoin
  <2>6. Len(<<err>>) = 1 /\ <<err>>[1] = err
    BY OneIs
  <2>7. 1 \in 1..Len(<<err>>)
    BY <2>6
  <2> QED BY <2>2, <2>5, <2>6, <2>7 DEF Unrefused
<1> DEFINE M(i) == Executed(r, b, g[i])
           B(i) == Executed(r, b, f[i])
           Good(i) == /\ Ready(r, b, M(i)) /\ Len(M(i).scores) = i
                      /\ \A k \in 1..i : M(i).scores[k] = B(k).scores[1]
           Bad == {i \in Nat : i \in 0..len /\ ~Good(i)}
<1>10. Good(0)
  <2>1. M(0) = b
    BY <1>7, ExecutedNone
  <2>2. Len(b.scores) = 0
    OBVIOUS
  <2> QED BY <2>1, <2>2
<1>11. ASSUME NEW i \in 1..len, Good(i - 1) PROVE Good(i)
  <2> DEFINE m == M(i - 1)
             n == M(i)
             o == B(i)
  <2>1. i - 1 \in 0..len /\ i \in Nat
    BY <1>2
  <2>11. g[i] = g[i - 1] \o f[i] /\ IsSequence(g[i - 1]) /\ IsSequence(f[i])
    BY <1>4, <1>7, <2>1
  <2>12. Executed(r, b, g[i - 1] \o f[i]) = Executed(r, Executed(r, b, g[i - 1]), f[i])
    BY <2>11, ExecutedJoin
  <2>2. n = Executed(r, m, f[i])
    BY <2>11, <2>12
  <2>3. f[i] = Block(r, pos, cands[i]) /\ cands[i] \in Seq(Tokens) /\ cands[i] # <<>>
    BY <1>2, <1>3, <1>9
  <2>4. /\ Ready(r, b, m) /\ Len(m.scores) = i - 1
        /\ \A k \in 1..i - 1 : m.scores[k] = B(k).scores[1]
    BY <1>11
  <2>5. o = Executed(r, b, f[i])
    OBVIOUS
  <2> HIDE DEF m, n, o, M
  <2>6. n = Executed(r, m, Block(r, pos, cands[i])) /\ o = Executed(r, b, Block(r, pos, cands[i]))
    BY <2>2, <2>3, <2>5
  <2>13. Adds(r, b, m, Executed(r, b, Block(r, pos, cands[i])).scores[Len(b.scores) + 1],
              Executed(r, m, Block(r, pos, cands[i])))
    BY <2>3, <2>4, BlockIs
  <2>14. Adds(r, b, m, o.scores[Len(b.scores) + 1], n)
    BY <2>6, <2>13
  <2>7. /\ Ready(r, b, n) /\ Len(n.scores) = Len(m.scores) + 1
        /\ \A k \in 1..Len(m.scores) : n.scores[k] = m.scores[k]
        /\ n.scores[Len(m.scores) + 1] = o.scores[Len(b.scores) + 1]
    BY <2>14 DEF Adds
  <2>8. Len(b.scores) + 1 = 1 /\ Len(n.scores) = i /\ Len(m.scores) + 1 = i
    BY <2>1, <2>4, <2>7
  <2>9. n.scores[i] = o.scores[1]
    BY <2>7, <2>8
  <2>10. \A k \in 1..i : n.scores[k] = B(k).scores[1]
    <3> TAKE k \in 1..i
    <3>1. CASE k = i
      BY <2>9, <3>1 DEF o
    <3>2. CASE k # i
      <4>1. k \in 1..i - 1 /\ k \in 1..Len(m.scores)
        BY <2>1, <2>4, <3>2
      <4> QED BY <2>4, <2>7, <4>1
    <3> QED BY <3>1, <3>2
  <2> QED BY <2>7, <2>8, <2>10 DEF n
<1>12. Bad = {}
  <2> SUFFICES ASSUME Bad # {} PROVE FALSE
    OBVIOUS
  <2> HIDE DEF Good
  <2>1. PICK i \in Bad : \A k \in Bad : ~(k < i)
    <3>1. Bad \in SUBSET Nat
      OBVIOUS
    <3> HIDE DEF Bad
    <3> QED BY <3>1, FirstOf
  <2>2. i \in 0..len /\ ~Good(i)
    OBVIOUS
  <2>3. i # 0
    BY <1>10, <2>2
  <2>4. i \in 1..len /\ i - 1 \in Nat /\ i - 1 \in 0..len /\ i - 1 < i
    BY <1>2, <2>2, <2>3
  <2>5. Good(i - 1)
    BY <2>1, <2>4
  <2> QED BY <1>11, <2>2, <2>4, <2>5
<1>13. Good(len)
  <2>1. len \in Nat /\ len \in 0..len
    BY <1>2
  <2> HIDE DEF Good
  <2> QED BY <1>12, <2>1
<1>14. Ready(r, b, M(len)) /\ Len(M(len).scores) = len
  BY <1>13
<1>15. ASSUME NEW j \in 1..len
       PROVE  M(len).scores[j] = Executed(r, b, Block(r, pos, cands[j])).scores[1]
  <2>1. M(len).scores[j] = B(j).scores[1]
    BY <1>13
  <2>2. f[j] = Block(r, pos, cands[j])
    BY <1>2, <1>3
  <2> QED BY <2>1, <2>2
<1>16. M(len) = Executed(r, b, all)
  BY <1>7
<1> HIDE DEF M, all
<1>17. IsSequence(M(len).scores)
  BY <1>14 DEF Ready
<1>18. EachOK(r, pos, cands, b, M(len))
  BY <1>9, <1>14, <1>15, <1>17 DEF EachOK, len
<1> QED BY <1>1, <1>16, <1>18

\* Scoring one candidate is scoring it first.
LEMMA EachOfOne ==
  ASSUME NEW r \in Runtimes, NEW pos, NEW cand \in Seq(Tokens)
  PROVE  ScoreEach(r, "target", pos, <<"read">>, <<cand>>, "own") = Block(r, pos, cand)
<1> DEFINE one == <<cand>>
           f == [j \in DOMAIN one |-> Block(r, pos, one[j])]
           block == Block(r, pos, cand)
<1>1. ScoreEach(r, "target", pos, <<"read">>, one, "own") = FlattenSeq(f)
  BY DEF ScoreEach, Block
<1>2. DOMAIN one = 1..1 /\ one[1] = cand
  OBVIOUS
<1>3. IsSequence(block)
  <2> DEFINE rs == <<"restore", "target", <<"read">>>>
             rest == ScoreTokens(r, "target", pos, cand, "own")
  <2>1. Runs(rest, "out", "out")
    BY ScoreTokensRuns
  <2>2. IsSequence(rest)
    BY <2>1 DEF Runs
  <2>3. block = <<rs>> \o rest
    BY DEF Block
  <2> HIDE DEF rs, rest
  <2>4. IsSequence(<<rs>>)
    BY OneIs
  <2>5. IsSequence(<<rs>> \o rest)
    BY <2>2, <2>4, JoinIs
  <2> QED BY <2>3, <2>5
<1> HIDE DEF one
<1>4. f = [j \in 1..1 |-> f[j]] /\ f[1] = block
  BY <1>2
<1> HIDE DEF f, block
<1>5. Len(f) \in Nat /\ (Len(f) = 0 => f = <<>>) /\ Len(f) = 1
  <2>1. Len(f) \in Nat /\ (Len(f) = 0 => f = <<>>) /\ 1..Len(f) = 1..1
    BY <1>4, FunctionIsSequence
  <2>2. 1 \in Nat
    OBVIOUS
  <2> QED BY <2>1, <2>2, SameInterval
<1>6. \A j \in 1..Len(f) : IsSequence(f[j])
  BY <1>3, <1>4, <1>5
<1>7. PICK g : Joining(g, f)
  BY <1>5, <1>6, JoiningExists
<1>8. g[0] = <<>> /\ g[1] = g[0] \o f[1] /\ FlattenSeq(f) = g[1]
  <2>1. /\ g[0] = <<>> /\ FlattenSeq(f) = g[Len(f)]
        /\ \A j \in 1..Len(f) : g[j] = g[j - 1] \o f[j]
    BY <1>7 DEF Joining
  <2>2. 1 \in 1..Len(f) /\ 1 - 1 = 0
    BY <1>5
  <2>3. g[1] = g[1 - 1] \o f[1]
    BY <2>1, <2>2
  <2>4. g[1] = g[0] \o f[1]
    BY <2>2, <2>3
  <2> QED BY <1>5, <2>1, <2>4
<1>9. <<>> \o block = block
  BY <1>3, JoinNothing
<1>10. FlattenSeq(f) = block
  BY <1>4, <1>8, <1>9
<1>11. ScoreEach(r, "target", pos, <<"read">>, one, "own") = block
  BY <1>1, <1>10
<1> QED BY <1>11 DEF one, block

\* The readout of a score call on a fresh runtime with trainables w.
AtReadout(r, w, a) == Executed(r, Rest(r, w), ReadPrefix(r, a))

\* Scoring each candidate of a call.
EachOf(r, a) ==
  ScoreEach(r, "target", ReadoutPos(r, a.ab, a.p, a.k), <<"read">>, a.cands, "own")

\* A score call reads out, then scores each candidate.
LEMMA ScoreInTwo ==
  ASSUME NEW r \in Runtimes, NEW a \in CallArguments, a.kind = "score", NEW w
  PROVE  /\ Executed(r, Rest(r, w), Program(r, a)) = Executed(r, AtReadout(r, w, a), EachOf(r, a))
         /\ Unrefused(Program(r, a)) => Unrefused(ReadPrefix(r, a)) /\ Unrefused(EachOf(r, a))
<1> DEFINE b == Rest(r, w)
           pre == ReadPrefix(r, a)
           each == EachOf(r, a)
<1>1. Program(r, a) = ScoreCall(r, a)
  BY DEF Program
<1>2. Runs(pre, "out", "out") /\ ScoreCall(r, a) = pre \o each
  BY PrefixIs DEF EachOf
<1>3. a.cands \in Seq(Seq(Tokens))
  BY DEF CallArguments
<1>4. Runs(each, "out", "out")
  BY <1>3, ScoreEachRuns DEF EachOf
<1>5. IsSequence(pre) /\ IsSequence(each)
  BY <1>2, <1>4 DEF Runs
<1>6. AtReadout(r, w, a) = Executed(r, b, pre)
  BY DEF AtReadout
<1> HIDE DEF b, pre, each
<1>7. Executed(r, b, pre \o each) = Executed(r, Executed(r, b, pre), each)
  BY <1>5, ExecutedJoin
<1>8. Unrefused(pre \o each) => Unrefused(pre) /\ Unrefused(each)
  BY <1>5, UnrefusedJoin
<1>9. /\ Executed(r, b, Program(r, a)) = Executed(r, AtReadout(r, w, a), each)
      /\ Unrefused(Program(r, a)) => Unrefused(pre) /\ Unrefused(each)
  BY <1>1, <1>2, <1>6, <1>7, <1>8
<1> QED BY <1>9 DEF b, pre, each

LEMMA RestIs ==
  ASSUME NEW r, NEW w
  PROVE  Within(r, Rest(r, w), "out") /\ Formed(Rest(r, w)) /\ Rest(r, w).scores = <<>>
<1> DEFINE b == Rest(r, w)
<1>1. /\ HasFrame(b) /\ b.flags = RestingFlags(r) /\ b.open = <<>> /\ b.stack = <<>>
      /\ b.w = b.entry /\ b.scores = <<>>
  BY DEF Rest, HasFrame, Kept
<1>2. Formed(b)
  BY DEF Rest, Formed, Fields, Contexts
<1> HIDE DEF b
<1>3. Within(r, b, "out")
  BY <1>1, WithinOut DEF Calm
<1> QED BY <1>1, <1>2, <1>3 DEF b

LEMMA ReadoutReady ==
  ASSUME NEW r \in Runtimes, NEW a \in CallArguments, NEW w, Unrefused(ReadPrefix(r, a))
  PROVE  /\ Ready(r, AtReadout(r, w, a), AtReadout(r, w, a))
         /\ AtReadout(r, w, a).scores = <<>>
<1> DEFINE b == Rest(r, w)
           pre == ReadPrefix(r, a)
           m == AtReadout(r, w, a)
<1>1. MadeOf(pre, Leading) /\ Runs(pre, "out", "out")
  BY PrefixIs
<1>2. Within(r, b, "out") /\ Formed(b) /\ b.scores = <<>>
  BY RestIs
<1>3. m = Executed(r, b, pre) /\ Unrefused(pre)
  BY DEF AtReadout
<1> HIDE DEF b, pre, m
<1>4. Within(r, Executed(r, b, pre), "out") /\ Silent(Executed(r, b, pre), b)
  BY <1>1, <1>2, <1>3, LeadingRuns
<1>5. Within(r, m, "out") /\ Silent(m, b)
  BY <1>3, <1>4
<1>6. Formed(m) /\ m.scores = <<>>
  BY <1>2, <1>5 DEF Silent
<1>7. SameTrainables(m, m)
  BY DEF SameTrainables
<1>8. Ready(r, m, m)
  BY <1>5, <1>6, <1>7, NothingIs DEF Ready
<1> QED BY <1>6, <1>8 DEF m

\* The same call with candidate j only.
Only(a, j) == [a EXCEPT !.cands = <<a.cands[j]>>]

LEMMA OnlyOne ==
  ASSUME NEW r \in Runtimes, NEW a \in CallArguments, a.kind = "score",
         NEW j \in DOMAIN a.cands
  PROVE  /\ Only(a, j) \in CallArguments /\ Only(a, j).kind = "score"
         /\ ReadPrefix(r, Only(a, j)) = ReadPrefix(r, a)
         /\ EachOf(r, Only(a, j))
              = Block(r, ReadoutPos(r, a.ab, a.p, a.k), a.cands[j])
<1> DEFINE c == a.cands[j]
           one == <<c>>
           o == Only(a, j)
<1>1. a.cands \in Seq(Seq(Tokens))
  BY DEF CallArguments
<1>2. c \in Seq(Tokens) /\ one \in Seq(Seq(Tokens)) /\ one # <<>>
  BY <1>1
<1>3. o = [a EXCEPT !.cands = one]
  BY DEF Only
<1> HIDE DEF c, one, o
<1>4. o \in CallArguments
  BY <1>2, <1>3 DEF CallArguments
<1>5. /\ o.kind = "score" /\ o.cands = one /\ o.ab = a.ab /\ o.p = a.p /\ o.q = a.q
      /\ o.k = a.k
  BY <1>3 DEF CallArguments
<1>6. ReadPrefix(r, o) = ReadPrefix(r, a)
  BY <1>5 DEF ReadPrefix
<1>7. EachOf(r, o) = ScoreEach(r, "target", ReadoutPos(r, a.ab, a.p, a.k), <<"read">>, one, "own")
  BY <1>5 DEF EachOf
<1>8. EachOf(r, o) = Block(r, ReadoutPos(r, a.ab, a.p, a.k), c)
  BY <1>2, <1>7, EachOfOne DEF one
<1> QED BY <1>4, <1>5, <1>6, <1>8 DEF c, o

\* The score of candidate j is that of the call with candidate j only.
LEMMA ScoredAlone ==
  ASSUME NEW r \in Runtimes, NEW a \in CallArguments, a.kind = "score", NEW w,
         Unrefused(Program(r, a)), NEW j \in DOMAIN a.cands
  PROVE  Executed(r, Rest(r, w), Program(r, a)).scores[j]
           = Executed(r, Rest(r, w), Program(r, Only(a, j))).scores[1]
<1> DEFINE b == AtReadout(r, w, a)
           o == Only(a, j)
           pos == ReadoutPos(r, a.ab, a.p, a.k)
<1>1. /\ o \in CallArguments /\ o.kind = "score" /\ ReadPrefix(r, o) = ReadPrefix(r, a)
      /\ EachOf(r, o) = Block(r, pos, a.cands[j])
  BY OnlyOne
<1>2. /\ Executed(r, Rest(r, w), Program(r, a)) = Executed(r, b, EachOf(r, a))
      /\ Unrefused(ReadPrefix(r, a)) /\ Unrefused(EachOf(r, a))
  BY ScoreInTwo
<1>3. AtReadout(r, w, o) = b
  BY <1>1 DEF AtReadout
<1>4. Ready(r, b, b) /\ b.scores = <<>>
  BY <1>2, ReadoutReady
<1> HIDE DEF b, o, pos
<1>5. Executed(r, Rest(r, w), Program(r, o)) = Executed(r, AtReadout(r, w, o), EachOf(r, o))
  BY <1>1, ScoreInTwo
<1>6. EachOf(r, a) = ScoreEach(r, "target", pos, <<"read">>, a.cands, "own")
  BY DEF EachOf, pos
<1>7. a.cands \in Seq(Seq(Tokens)) /\ j \in 1..Len(a.cands)
  <2>1. a.cands \in Seq(Seq(Tokens))
    BY DEF CallArguments
  <2> QED BY <2>1
<1>8. Unrefused(ScoreEach(r, "target", pos, <<"read">>, a.cands, "own"))
  BY <1>2, <1>6
<1>9. Executed(r, b, ScoreEach(r, "target", pos, <<"read">>, a.cands, "own")).scores[j]
        = Executed(r, b, Block(r, pos, a.cands[j])).scores[1]
  <2>1. EachOK(r, pos, a.cands, b,
               Executed(r, b, ScoreEach(r, "target", pos, <<"read">>, a.cands, "own")))
    BY <1>4, <1>7, <1>8, EachScored
  <2> QED BY <1>7, <2>1 DEF EachOK
<1>10. Executed(r, Rest(r, w), Program(r, a)).scores[j]
         = Executed(r, Rest(r, w), Program(r, o)).scores[1]
  BY <1>1, <1>2, <1>3, <1>5, <1>6, <1>9
<1> QED BY <1>10 DEF o

\* The score of a candidate is the one it gets as the only candidate of the
\* same call on a fresh runtime: what was scored before it in this call, and
\* the calls that went before, failed ones included, make no difference to it
\* (localized.py:1003-1017).
THEOREM ScoresStandAlone == Spec => []ScoresDependOnTheCallOnly
<1>1. Sound /\ AsAlone => ScoresDependOnTheCallOnly
  <2> SUFFICES ASSUME Sound, AsAlone, phase = "returned", call.kind = "score",
                      NEW j \in DOMAIN call.cands
               PROVE  s.scores[j]
                        = Alone(s.entry, [call EXCEPT !.cands = <<@[j]>>]).scores[1]
    BY DEF ScoresDependOnTheCallOnly, Returned
  <2>1. rt \in Runtimes /\ call \in CallArguments
    BY DEF Sound
  <2>2. Begun(rt, call, s, Program(rt, call), <<>>)
    BY DEF AsAlone
  <2>3. /\ Unrefused(Program(rt, call))
        /\ s = Executed(rt, Rest(rt, s.entry), Program(rt, call))
    BY <2>2 DEF Begun
  <2> DEFINE w == s.entry
  <2>4. s = Executed(rt, Rest(rt, w), Program(rt, call))
    BY <2>3
  <2>5. Alone(w, [call EXCEPT !.cands = <<@[j]>>])
          = Executed(rt, Rest(rt, w), Program(rt, Only(call, j)))
    BY DEF Alone, Only
  <2> HIDE DEF w
  <2>6. Executed(rt, Rest(rt, w), Program(rt, call)).scores[j]
          = Executed(rt, Rest(rt, w), Program(rt, Only(call, j))).scores[1]
    BY <2>1, <2>3, ScoredAlone
  <2>7. s.scores[j] = Alone(w, [call EXCEPT !.cands = <<@[j]>>]).scores[1]
    BY <2>4, <2>5, <2>6
  <2> QED BY <2>7 DEF w
<1> QED BY <1>1, RuntimeInductive, AloneInductive, PTL

----------------------------------------------------------------------------
(* Readouts that are answered alike                                        *)

\* What an answer reads of a readout.
SameReadout(b, o) ==
  /\ b.rd = o.rd /\ b.delta = o.delta /\ b.snap[<<"read">>] = o.snap[<<"read">>]
  /\ b.w = o.w

LEMMA BlockAlike ==
  ASSUME NEW r \in Runtimes, NEW pos, NEW cand \in Seq(Tokens), cand # <<>>,
         NEW b, NEW o, Ready(r, b, b), Ready(r, o, o), SameReadout(b, o),
         b.scores = <<>>, o.scores = <<>>
  PROVE  Executed(r, b, Block(r, pos, cand)).scores[1]
           = Executed(r, o, Block(r, pos, cand)).scores[1]
<1> DEFINE ob == Opened(r, cand, b)
           oo == Opened(r, cand, o)
           e == NewScore(cand)
           B == Executed(r, b, Block(r, pos, cand))
           O == Executed(r, o, Block(r, pos, cand))
<1>1. PICK body : /\ Runs(body, "out", "out") /\ MadeOf(body, Answering)
                  /\ \A n : Executed(r, n, Block(r, pos, cand))
                              = Executed(r, Opened(r, cand, n), body)
  BY AnswerBody
<1>2. B = Executed(r, ob, body) /\ O = Executed(r, oo, body)
  BY <1>1
<1>3. StartOf(r, b, cand, b, ob)
  BY OpenedIs
<1>4. StartOf(r, o, cand, o, oo)
  BY OpenedIs
<1> HIDE DEF ob, oo, e, B, O
<1>5. /\ Inside(r, "out", ob, ob) /\ Ready(r, b, ob) /\ ob.scores = Append(b.scores, e)
      /\ ob.h = b.rd /\ ob.live["target"] = b.snap[<<"read">>]
  BY <1>3 DEF StartOf, e
<1>6. /\ Inside(r, "out", oo, oo) /\ Ready(r, o, oo) /\ oo.scores = Append(o.scores, e)
      /\ oo.h = o.rd /\ oo.live["target"] = o.snap[<<"read">>]
  BY <1>4 DEF StartOf, e
<1>7. ob.scores = oo.scores /\ Len(ob.scores) = 1
  BY <1>5, <1>6
<1>8. OpenScore(ob) = OpenScore(oo)
  BY <1>7 DEF OpenScore
<1>9. ob.flags = oo.flags
  <2>1. Within(r, ob, "out") /\ Within(r, oo, "out")
    BY <1>5, <1>6 DEF Ready
  <2> QED BY <2>1 DEF Within
<1>10. ob.w = b.w /\ oo.w = o.w /\ ob.rd = b.rd /\ oo.rd = o.rd /\ ob.delta = b.delta
       /\ oo.delta = o.delta
  BY <1>5, <1>6 DEF Ready, SameTrainables
<1>11. Alike(ob, oo)
  BY <1>5, <1>6, <1>8, <1>9, <1>10 DEF Alike, SameReadout
<1>12. Inside(r, "out", ob, Executed(r, ob, body)) /\ Inside(r, "out", oo, Executed(r, oo, body))
  BY <1>1, <1>5, <1>6, <1>11, AnswerRuns
<1>13. Alike(Executed(r, ob, body), Executed(r, oo, body))
  BY <1>1, <1>5, <1>6, <1>11, AnswerRuns
<1>14. Under(B, ob) /\ Under(O, oo) /\ Alike(B, O)
  BY <1>2, <1>12, <1>13 DEF Inside
<1>15. Len(B.scores) = 1 /\ Len(O.scores) = 1
  BY <1>7, <1>14 DEF Under
<1>16. B.scores[1] = O.scores[1]
  BY <1>14, <1>15 DEF Alike, OpenScore
<1> QED BY <1>16 DEF B, O

\* Both readouts answer every candidate alike.
LEMMA EachAlike ==
  ASSUME NEW r \in Runtimes, NEW pos, NEW cands \in Seq(Seq(Tokens)),
         NEW b, NEW o, Ready(r, b, b), Ready(r, o, o), SameReadout(b, o),
         b.scores = <<>>, o.scores = <<>>,
         Unrefused(ScoreEach(r, "target", pos, <<"read">>, cands, "own"))
  PROVE  Results(Executed(r, b, ScoreEach(r, "target", pos, <<"read">>, cands, "own")))
           = Results(Executed(r, o, ScoreEach(r, "target", pos, <<"read">>, cands, "own")))
<1> DEFINE each == ScoreEach(r, "target", pos, <<"read">>, cands, "own")
           B == Executed(r, b, each).scores
           O == Executed(r, o, each).scores
<1>1. EachOK(r, pos, cands, b, Executed(r, b, each))
  BY EachScored
<1>2. EachOK(r, pos, cands, o, Executed(r, o, each))
  BY EachScored
<1>3. ASSUME NEW q, IsSequence(q), Len(q) = Len(cands) PROVE DOMAIN q = 1..Len(cands)
  BY <1>3 DEF IsSequence
<1>4. DOMAIN B = 1..Len(cands) /\ DOMAIN O = 1..Len(cands)
  BY <1>1, <1>2, <1>3 DEF EachOK
<1>5. ASSUME NEW j \in 1..Len(cands) PROVE B[j] = O[j]
  <2>1. cands[j] \in Seq(Tokens)
    OBVIOUS
  <2>2. cands[j] # <<>> /\ B[j] = Executed(r, b, Block(r, pos, cands[j])).scores[1]
    BY <1>1 DEF EachOK
  <2>3. O[j] = Executed(r, o, Block(r, pos, cands[j])).scores[1]
    BY <1>2 DEF EachOK
  <2>4. Executed(r, b, Block(r, pos, cands[j])).scores[1]
          = Executed(r, o, Block(r, pos, cands[j])).scores[1]
    BY <2>1, <2>2, BlockAlike
  <2> QED BY <2>2, <2>3, <2>4
<1> DEFINE R == Results(Executed(r, b, each))
           Q == Results(Executed(r, o, each))
<1>6. R = [j \in 1..Len(cands) |-> B[j][3]] /\ Q = [j \in 1..Len(cands) |-> O[j][3]]
  BY <1>4 DEF Results
<1> HIDE DEF B, O
<1>7. \A j \in 1..Len(cands) : B[j][3] = O[j][3]
  BY <1>5
<1> QED BY <1>6, <1>7

----------------------------------------------------------------------------
(* What a program does to the context it works in, and to nothing else     *)

OwnCache == [l \in Layers |-> Own]
Parts == {"flags", "open", "w", "entry", "stack", "live", "alias", "snap", "h", "base",
          "traj", "z", "z0", "rd", "delta", "view", "count", "scores"}

\* A runtime whose caches are its own.
Whole(st) ==
  /\ Parts \subseteq DOMAIN st /\ IsSequence(st.stack)
  /\ \A d \in Contexts : /\ d \in DOMAIN st.live /\ d \in DOMAIN st.z
                         /\ d \in DOMAIN st.z0 /\ d \in DOMAIN st.alias
                         /\ st.alias[d] = OwnCache

\* Trainables as they are initialised.
Fresh(r, w) == \A t \in Tensors(r) : w[t] = 0

SameRun(n, m) ==
  /\ n.w = m.w /\ n.entry = m.entry /\ n.stack = m.stack /\ n.snap = m.snap
  /\ n.rd = m.rd /\ n.delta = m.delta /\ n.scores = m.scores

\* The runtime m has become n by work in context c: a pass through layers, a
\* recurrent loop, one that fresh trainables keep steady, or the prompt's encoding.
Still(r, k, c, n, m) ==
  /\ Whole(n) /\ SameRun(n, m)
  /\ \A d \in Contexts :
       d # c => n.live[d] = m.live[d] /\ n.z[d] = m.z[d] /\ n.z0[d] = m.z0[d]
  /\ k # "encode" => n.z0[c] = m.z0[c]
  /\ k = "encode" /\ m.z[c] = m.z0[c] => n.z[c] = n.z0[c]
  /\ k = "pass" => n.z[c] = m.z[c] /\ n.base = m.base
  /\ k = "steady" /\ Fresh(r, m.w) => n.z[c] = m.z[c]

LEMMA StillSelf ==
  ASSUME NEW r, NEW k, NEW c, NEW m, Whole(m)
  PROVE  Still(r, k, c, m, m)
BY DEF Still, SameRun

LEMMA StillOn ==
  ASSUME NEW r, NEW k, NEW c, NEW m, NEW n, NEW o, Still(r, k, c, n, m), Still(r, k, c, o, n)
  PROVE  Still(r, k, c, o, m)
<1>1. SameRun(o, m)
  BY DEF Still, SameRun
<1>2. n.w = m.w
  BY DEF Still, SameRun
<1> QED BY <1>1, <1>2 DEF Still

\* All but the value that flows, the cache of c and the compute is as it was.
LEMMA StillUnless ==
  ASSUME NEW r, NEW k, NEW c, NEW m, NEW n, Whole(n), SameRun(n, m), n.z = m.z, n.z0 = m.z0,
         n.base = m.base, \A d \in Contexts : d # c => n.live[d] = m.live[d]
  PROVE  Still(r, k, c, n, m)
BY DEF Still

LEMMA EmbedStill ==
  ASSUME NEW r, NEW k, NEW c, NEW m, Whole(m), NEW e, NEW n, n = [m EXCEPT !.h = e]
  PROVE  Still(r, k, c, n, m) /\ n.h = e
<1>1. Whole(n) /\ SameRun(n, m) /\ n.z = m.z /\ n.z0 = m.z0 /\ n.base = m.base
      /\ n.live = m.live /\ n.h = e
  BY DEF Whole, Parts, SameRun
<1>2. Still(r, k, c, n, m)
  BY <1>1, StillUnless
<1> QED BY <1>1, <1>2

\* What a layer computes and what it adds to its cache, in any context.
Passed(r, st, i) ==
  <<"layer", i[3], Adapted(r, st, i[3]), st.h, st.live[i[2]][i[3]], i[4]>>
Longer(r, st, i) ==
  [st.live[i[2]] EXCEPT ![i[3]] =
     Append(st.live[i[2]][i[3]], <<i[6], i[4], Adapted(r, st, i[3])>>)]

LEMMA LayerStill ==
  ASSUME NEW r, NEW k, NEW c \in Contexts, NEW m, Whole(m), NEW i, i[1] = "layer", i[2] = c,
         i[3] \in Layers
  PROVE  /\ Still(r, k, c, Do(r, i, m), m)
         /\ Do(r, i, m).h = Passed(r, m, i) /\ Do(r, i, m).live[c] = Longer(r, m, i)
<1> DEFINE n == Do(r, i, m)
           l == i[3]
           tag == Adapted(r, m, l)
           old == m.live[c][l]
           grown == Append(old, <<i[6], i[4], tag>>)
           next == [m EXCEPT !.h = <<"layer", l, tag, m.h, old, i[4]>>,
                             !.count[i[7]] = @ + i[5]]
<1>1. m.alias[c][l] = Own /\ Content(m, c, l) = old /\ m.alias[c] = OwnCache
  BY DEF Content, Whole, OwnCache
<1>2. n = ApplyLayer(r, m, c, l, i[4], i[5], i[6], i[7])
  BY DEF Do
<1>3. n = [next EXCEPT !.live[c][l] = grown, !.alias[c][l] = Own]
  BY <1>1, <1>2 DEF ApplyLayer
<1> HIDE DEF n
<1>4. /\ next.h = <<"layer", l, tag, m.h, old, i[4]>> /\ next.live = m.live
      /\ next.alias = m.alias /\ next.z = m.z /\ next.z0 = m.z0 /\ next.base = m.base
      /\ SameRun(next, m) /\ Whole(next)
  BY DEF Whole, Parts, SameRun
<1> HIDE DEF next
<1>5. /\ n.h = next.h /\ n.z = next.z /\ n.z0 = next.z0 /\ n.base = next.base
      /\ SameRun(n, next) /\ Parts \subseteq DOMAIN n
  BY <1>3, <1>4 DEF Whole, Parts, SameRun
<1>6. /\ n.live[c] = [m.live[c] EXCEPT ![l] = grown]
      /\ \A d \in Contexts : d # c => n.live[d] = m.live[d]
      /\ DOMAIN n.live = DOMAIN m.live
  BY <1>3, <1>4 DEF Whole, Parts
<1>7. /\ n.alias[c] = [m.alias[c] EXCEPT ![l] = Own]
      /\ \A d \in Contexts : d # c => n.alias[d] = m.alias[d]
      /\ DOMAIN n.alias = DOMAIN m.alias
  BY <1>3, <1>4 DEF Whole, Parts
<1>8. n.alias[c] = OwnCache
  BY <1>1, <1>7 DEF OwnCache
<1>9. Whole(n)
  BY <1>4, <1>5, <1>6, <1>7, <1>8 DEF Whole, SameRun
<1>10. SameRun(n, m) /\ n.z = m.z /\ n.z0 = m.z0 /\ n.base = m.base
  BY <1>4, <1>5 DEF SameRun
<1>11. Still(r, k, c, n, m)
  BY <1>6, <1>9, <1>10, StillUnless
<1>12. n.h = Passed(r, m, i)
  BY <1>4, <1>5 DEF Passed
<1>13. n.live[c] = Longer(r, m, i)
  BY <1>6 DEF Longer
<1> QED BY <1>11, <1>12, <1>13 DEF n

LEMMA RestoreStill ==
  ASSUME NEW r, NEW k, NEW c \in Contexts, NEW m, Whole(m), NEW key
  PROVE  /\ Still(r, k, c, Restore(m, c, key), m) /\ Restore(m, c, key).h = m.h
         /\ Restore(m, c, key).live[c] = m.snap[key]
<1> DEFINE n == Restore(m, c, key)
<1>1. n = [m EXCEPT !.live[c] = m.snap[key], !.alias[c] = OwnCache]
  BY DEF Restore, OwnCache
<1> HIDE DEF n
<1>2. /\ SameRun(n, m) /\ n.z = m.z /\ n.z0 = m.z0 /\ n.base = m.base /\ n.h = m.h
      /\ Parts \subseteq DOMAIN n
  BY <1>1 DEF Whole, Parts, SameRun
<1>3. /\ n.live[c] = m.snap[key] /\ n.alias[c] = OwnCache
      /\ \A d \in Contexts : d # c => n.live[d] = m.live[d] /\ n.alias[d] = m.alias[d]
      /\ DOMAIN n.live = DOMAIN m.live /\ DOMAIN n.alias = DOMAIN m.alias
  BY <1>1 DEF Whole, Parts
<1>4. Whole(n)
  BY <1>2, <1>3 DEF Whole, SameRun
<1>5. Still(r, k, c, n, m)
  BY <1>2, <1>3, <1>4, StillUnless
<1> QED BY <1>2, <1>3, <1>5 DEF n

LEMMA BaseStill ==
  ASSUME NEW r, NEW k \in {"loop", "steady"}, NEW c, NEW m, Whole(m), NEW n,
         n = [m EXCEPT !.base = m.h]
  PROVE  Still(r, k, c, n, m) /\ n.z = m.z /\ n.base = m.h
<1>1. Whole(n) /\ SameRun(n, m) /\ n.z = m.z /\ n.z0 = m.z0 /\ n.live = m.live /\ n.base = m.h
  BY DEF Whole, Parts, SameRun
<1>2. Still(r, k, c, n, m)
  BY <1>1 DEF Still
<1> QED BY <1>1, <1>2

LEMMA BoundaryStill ==
  ASSUME NEW r, NEW c \in Contexts, NEW m, Whole(m), NEW i, i[1] = "boundary", i[2] = c
  PROVE  Still(r, "encode", c, Do(r, i, m), m)
<1> DEFINE n == Do(r, i, m)
<1>1. n = [m EXCEPT !.z0[c] = m.h, !.z[c] = m.h]
  BY DEF Do
<1> HIDE DEF n
<1>2. /\ SameRun(n, m) /\ Parts \subseteq DOMAIN n /\ n.live = m.live /\ n.alias = m.alias
      /\ n.z[c] = m.h /\ n.z0[c] = m.h
      /\ \A d \in Contexts : d # c => n.z[d] = m.z[d] /\ n.z0[d] = m.z0[d]
      /\ DOMAIN n.z = DOMAIN m.z /\ DOMAIN n.z0 = DOMAIN m.z0
  BY <1>1 DEF Whole, Parts, SameRun
<1>3. Whole(n)
  BY <1>2 DEF Whole, SameRun
<1>4. Still(r, "encode", c, n, m)
  BY <1>2, <1>3 DEF Still
<1> QED BY <1>4 DEF n

\* An update keeps the state when both passes came out the same, or the gates
\* are still closed.
LEMMA UpdateStill ==
  ASSUME NEW r, NEW c \in Contexts, NEW m, Whole(m), NEW ci
  PROVE  /\ Still(r, "loop", c, Update(r, m, c, ci), m)
         /\ r.paired /\ m.h = m.base => Update(r, m, c, ci).z[c] = m.z[c]
         /\ ~r.paired /\ Gated(r) /\ m.w["gates"] = 0 => Update(r, m, c, ci).z[c] = m.z[c]
<1> DEFINE new == CASE r.paired -> IF m.h = m.base THEN m.z[c]
                                   ELSE <<"paired", m.z[c], m.h, m.base>>
                    [] Gated(r) -> IF m.w["gates"] = 0 \/ m.h = m.z[c] THEN m.z[c]
                                   ELSE <<"gated", ci, m.w["gates"], m.z[c], m.h>>
                    [] OTHER    -> m.h
           n == Update(r, m, c, ci)
<1>1. n = [m EXCEPT !.z[c] = new, !.traj = Append(@, new)]
  BY DEF Update
<1>2. r.paired /\ m.h = m.base => new = m.z[c]
  BY DEF Gated
<1>3. ~r.paired /\ Gated(r) /\ m.w["gates"] = 0 => new = m.z[c]
  OBVIOUS
<1> HIDE DEF n, new
<1>4. /\ SameRun(n, m) /\ Parts \subseteq DOMAIN n /\ n.live = m.live /\ n.alias = m.alias
      /\ n.z0 = m.z0 /\ n.z[c] = new
      /\ \A d \in Contexts : d # c => n.z[d] = m.z[d]
      /\ DOMAIN n.z = DOMAIN m.z
  BY <1>1 DEF Whole, Parts, SameRun
<1>5. Whole(n)
  BY <1>4 DEF Whole, SameRun
<1>6. Still(r, "loop", c, n, m)
  BY <1>4, <1>5 DEF Still
<1> QED BY <1>2, <1>3, <1>4, <1>6 DEF n

\* What holds at 0, and from one position to the next, holds at the last one.
LEMMA UpTo ==
  ASSUME NEW len \in Nat, NEW G, 0 \in G, \A n \in 1..len : n - 1 \in G => n \in G
  PROVE  len \in G
<1> DEFINE Bad == {n \in Nat : n \in 0..len /\ n \notin G}
<1>1. CASE Bad = {}
  <2>1. len \in Nat /\ len \in 0..len
    OBVIOUS
  <2> QED BY <1>1, <2>1
<1>2. CASE Bad # {}
  <2>1. PICK n \in Bad : \A m \in Bad : ~(m < n)
    <3>1. Bad \in SUBSET Nat
      OBVIOUS
    <3> HIDE DEF Bad
    <3> QED BY <1>2, <3>1, FirstOf
  <2>2. n \in 0..len /\ n \notin G
    BY <2>1
  <2>3. n \in 1..len /\ n - 1 \in Nat /\ n - 1 \in 0..len /\ n - 1 < n
    BY <2>2
  <2>4. n - 1 \in G
    BY <2>1, <2>3
  <2> QED BY <2>2, <2>3, <2>4
<1> QED BY <1>1, <1>2

\* Program p works in context c in manner k.
Works(r, k, c, p) ==
  IsSequence(p) /\ \A m : Whole(m) => Still(r, k, c, Executed(r, m, p), m)

LEMMA WorksNone ==
  ASSUME NEW r, NEW k, NEW c
  PROVE  Works(r, k, c, <<>>)
<1>1. \A m : Executed(r, m, <<>>) = m
  BY ExecutedNone
<1>2. \A m : Whole(m) => Still(r, k, c, m, m)
  BY StillSelf
<1> QED BY <1>1, <1>2, NothingIs DEF Works

LEMMA WorksOne ==
  ASSUME NEW r, NEW k, NEW c, NEW i, \A m : Whole(m) => Still(r, k, c, Do(r, i, m), m)
  PROVE  Works(r, k, c, <<i>>)
<1>1. \A m : Executed(r, m, <<i>>) = Do(r, i, m)
  BY ExecutedOne
<1>2. IsSequence(<<i>>)
  BY OneIs
<1> QED BY <1>1, <1>2 DEF Works

LEMMA WorksJoin ==
  ASSUME NEW r, NEW k, NEW c, NEW p, NEW q, Works(r, k, c, p), Works(r, k, c, q)
  PROVE  Works(r, k, c, p \o q)
<1>1. IsSequence(p) /\ IsSequence(q)
  BY DEF Works
<1>2. IsSequence(p \o q)
  BY <1>1, JoinIs
<1> DEFINE w == p \o q
<1>3. ASSUME NEW m, Whole(m) PROVE Still(r, k, c, Executed(r, m, w), m)
  <2> DEFINE n == Executed(r, m, p)
             o == Executed(r, n, q)
  <2>1. Executed(r, m, w) = o
    BY <1>1, ExecutedJoin
  <2>2. Still(r, k, c, n, m)
    BY <1>3 DEF Works
  <2>3. Whole(n)
    BY <2>2 DEF Still
  <2>4. Still(r, k, c, o, n)
    BY <2>3 DEF Works
  <2> HIDE DEF n, o
  <2>5. Still(r, k, c, o, m)
    BY <2>2, <2>4, StillOn
  <2> QED BY <2>1, <2>5
<1> HIDE DEF w
<1>4. Works(r, k, c, w)
  BY <1>2, <1>3 DEF Works, w
<1> QED BY <1>4 DEF w

\* A program whose every instruction does.
LEMMA WorksEach ==
  ASSUME NEW r, NEW k, NEW c, NEW p, IsSequence(p), Len(p) \in Nat,
         \A n \in 1..Len(p) : \A m : Whole(m) => Still(r, k, c, Do(r, p[n], m), m)
  PROVE  Works(r, k, c, p)
<1> DEFINE len == Len(p)
<1>1. ASSUME NEW m, Whole(m) PROVE Still(r, k, c, Executed(r, m, p), m)
  <2>1. PICK f : /\ f[0] = m /\ \A n \in 1..len : f[n] = Do(r, p[n], f[n - 1])
                 /\ Executed(r, m, p) = f[len]
    BY ExecutedCourse
  <2>2. len \in Nat /\ \A n \in 1..len : \A o : Whole(o) => Still(r, k, c, Do(r, p[n], o), o)
    OBVIOUS
  <2> HIDE DEF len
  <2> DEFINE G == {n \in Nat : Still(r, k, c, f[n], m)}
  <2>3. 0 \in G
    BY <1>1, <2>1, StillSelf
  <2>4. ASSUME NEW n \in 1..len, n - 1 \in G PROVE n \in G
    <3>1. n \in Nat /\ Still(r, k, c, f[n - 1], m)
      BY <2>2, <2>4
    <3>2. Whole(f[n - 1])
      BY <3>1 DEF Still
    <3>3. Still(r, k, c, Do(r, p[n], f[n - 1]), f[n - 1])
      BY <2>2, <3>2
    <3>4. Still(r, k, c, f[n], f[n - 1])
      BY <2>1, <3>3
    <3>5. Still(r, k, c, f[n], m)
      BY <3>1, <3>4, StillOn
    <3> QED BY <3>1, <3>5
  <2>5. len \in G
    <3> HIDE DEF G
    <3> QED BY <2>2, <2>3, <2>4, UpTo
  <2> QED BY <2>1, <2>5
<1> QED BY <1>1 DEF Works

\* A stream through layers.
Layered(p, c) ==
  /\ IsSequence(p) /\ Len(p) \in Nat
  /\ \A j \in 1..Len(p) : p[j][1] = "layer" /\ p[j][2] = c /\ p[j][3] \in Layers

LEMMA RunLayers ==
  ASSUME NEW from \in Int, NEW to \in Int, from >= 1, to <= NLayers, NEW c, NEW pos, NEW n,
         NEW what, NEW phase_
  PROVE  Layered(Run(from, to, c, pos, n, what, phase_), c)
<1> DEFINE run == [j \in 1..(to - from + 1) |->
                     <<"layer", c, from + j - 1, pos, n, what, phase_>>]
<1>1. \A j \in 1..(to - from + 1) :
        run[j][1] = "layer" /\ run[j][2] = c /\ run[j][3] = from + j - 1
  OBVIOUS
<1>2. run = [j \in 1..(to - from + 1) |-> run[j]] /\ to - from + 1 \in Int
  OBVIOUS
<1>3. Run(from, to, c, pos, n, what, phase_) = run
  BY DEF Run
<1> HIDE DEF run
<1>4. IsSequence(run) /\ Len(run) \in Nat /\ 1..Len(run) = 1..(to - from + 1)
  BY <1>2, FunctionIsSequence
<1>5. NLayers \in Int /\ Layers = 1..NLayers
  BY RuntimeConstants DEF Layers
<1>6. \A j \in 1..(to - from + 1) : from + j - 1 \in Layers
  BY <1>5
<1>7. \A j \in 1..Len(run) : run[j][1] = "layer" /\ run[j][2] = c /\ run[j][3] \in Layers
  BY <1>1, <1>4, <1>6
<1>8. Layered(run, c)
  BY <1>4, <1>7 DEF Layered
<1> QED BY <1>3, <1>8

LEMMA RunWorks ==
  ASSUME NEW r, NEW k, NEW from \in Int, NEW to \in Int, from >= 1, to <= NLayers,
         NEW c \in Contexts, NEW pos, NEW n, NEW what, NEW phase_
  PROVE  Works(r, k, c, Run(from, to, c, pos, n, what, phase_))
<1> DEFINE run == Run(from, to, c, pos, n, what, phase_)
<1>1. /\ IsSequence(run) /\ Len(run) \in Nat
      /\ \A j \in 1..Len(run) : run[j][1] = "layer" /\ run[j][2] = c /\ run[j][3] \in Layers
  BY RunLayers DEF Layered
<1> HIDE DEF run
<1>2. \A j \in 1..Len(run) : \A m : Whole(m) => Still(r, k, c, Do(r, run[j], m), m)
  BY <1>1, LayerStill
<1>3. Works(r, k, c, run)
  BY <1>1, <1>2, WorksEach
<1> QED BY <1>3 DEF run

\* Programs one after the other.
LEMMA WorksFlat ==
  ASSUME NEW r, NEW k, NEW c, NEW n \in Int, NEW f, f = [j \in 1..n |-> f[j]],
         \A j \in 1..n : Works(r, k, c, f[j])
  PROVE  Works(r, k, c, FlattenSeq(f))
<1>1. Len(f) \in Nat /\ (Len(f) = 0 => f = <<>>) /\ 1..Len(f) = 1..n
  BY FunctionIsSequence
<1> DEFINE len == Len(f)
<1>2. \A j \in 1..len : Works(r, k, c, f[j]) /\ IsSequence(f[j])
  BY <1>1 DEF Works
<1>3. PICK g : Joining(g, f)
  BY <1>1, <1>2, JoiningExists
<1>4. /\ g[0] = <<>> /\ FlattenSeq(f) = g[len] /\ len \in Nat
      /\ \A j \in 1..len : g[j] = g[j - 1] \o f[j]
  BY <1>1, <1>3 DEF Joining
<1> HIDE DEF len
<1> DEFINE G == {j \in Nat : Works(r, k, c, g[j])}
<1>5. 0 \in G
  BY <1>4, WorksNone
<1>6. ASSUME NEW j \in 1..len, j - 1 \in G PROVE j \in G
  <2>1. j \in Nat /\ Works(r, k, c, g[j - 1]) /\ Works(r, k, c, f[j])
    BY <1>2, <1>4, <1>6
  <2>2. Works(r, k, c, g[j - 1] \o f[j])
    BY <2>1, WorksJoin
  <2> QED BY <1>4, <2>1, <2>2
<1>7. len \in G
  <2> HIDE DEF G
  <2> QED BY <1>4, <1>5, <1>6, UpTo
<1> QED BY <1>4, <1>7

\* T is the stack S with frame f on top.
Pushed(f, S, T) == IsSequence(T) /\ Head(T) = f /\ Tail(T) = S

LEMMA PushIs ==
  ASSUME NEW f, NEW S, IsSequence(S)
  PROVE  Pushed(f, S, <<f>> \o S)
<1> DEFINE o == <<f>>
           T == o \o S
<1>1. IsSequence(o) /\ Len(o) = 1 /\ o[1] = f
  BY OneIs
<1> HIDE DEF o
<1>2. JoinOf(o, S, T)
  BY <1>1, Joined
<1> HIDE DEF T
<1>3. IsSequence(T) /\ Len(T) = 1 + Len(S) /\ Len(S) \in Nat
  BY <1>1, <1>2 DEF JoinOf
<1>4. T[1] = f /\ \A n \in 1..Len(S) : T[1 + n] = S[n]
  BY <1>1, <1>2 DEF JoinOf
<1>5. T # <<>>
  BY <1>3
<1>6. /\ Head(T) = T[1] /\ IsSequence(Tail(T)) /\ Len(Tail(T)) = Len(T) - 1
      /\ \A n \in 1..Len(T) - 1 : Tail(T)[n] = T[n + 1]
  BY <1>3, <1>5, TailIs
<1>7. Tail(T) = S
  <2>1. Len(Tail(T)) = Len(S)
    BY <1>3, <1>6
  <2>2. ASSUME NEW n \in 1..Len(Tail(T)) PROVE Tail(T)[n] = S[n]
    <3>1. n \in 1..Len(T) - 1 /\ n \in 1..Len(S) /\ n + 1 = 1 + n
      BY <1>3, <1>6, <2>1
    <3> QED BY <1>4, <1>6, <3>1
  <2> QED BY <1>6, <2>1, <2>2, SameSequence
<1>8. Pushed(f, S, T)
  BY <1>3, <1>4, <1>6, <1>7 DEF Pushed
<1> QED BY <1>8 DEF T, o

\* Only the stack, the switches and the windows differ.
Beside(n, m) ==
  /\ n.w = m.w /\ n.entry = m.entry /\ n.snap = m.snap /\ n.rd = m.rd /\ n.delta = m.delta
  /\ n.scores = m.scores /\ n.z = m.z /\ n.z0 = m.z0 /\ n.live = m.live
  /\ n.alias = m.alias /\ n.base = m.base /\ n.h = m.h

\* A scope that is opened puts its frame on the stack.
LEMMA ScopeOpens ==
  ASSUME NEW r, NEW m, Whole(m), NEW i, i[1] \in {"lora", "window", "finally"}
  PROVE  \E f : /\ f[1] = i[1] /\ (i[1] = "finally" => f = i)
                /\ Pushed(f, m.stack, Do(r, i, m).stack)
                /\ Beside(Do(r, i, m), m) /\ Whole(Do(r, i, m))
<1> DEFINE f == CASE i[1] = "lora" -> <<"lora", m.flags>>
                  [] i[1] = "window" -> <<"window">>
                  [] i[1] = "finally" -> i
           T == <<f>> \o m.stack
           n == Do(r, i, m)
<1>1. f[1] = i[1] /\ (i[1] = "finally" => f = i)
  OBVIOUS
<1>2. Pushed(f, m.stack, T)
  BY PushIs DEF Whole
<1>3. n.stack = T /\ Beside(n, m) /\ Parts \subseteq DOMAIN n
  <2>1. CASE i[1] = "lora"
    <3> DEFINE g == [l \in DOMAIN m.flags |-> i[2]]
    <3>1. f = <<"lora", m.flags>>
      BY <2>1
    <3>2. n = [m EXCEPT !.stack = T, !.flags = g]
      BY <2>1, <3>1 DEF Do, Push, Whole, Parts
    <3> HIDE DEF n, f, T, g
    <3> QED BY <3>2 DEF Whole, Parts, Beside
  <2>2. CASE i[1] = "window"
    <3> DEFINE g == <<i>> \o m.open
    <3>1. f = <<"window">>
      BY <2>2
    <3>2. n = [m EXCEPT !.stack = T, !.open = g]
      BY <2>2, <3>1 DEF Do, Push, Whole, Parts
    <3> HIDE DEF n, f, T, g
    <3> QED BY <3>2 DEF Whole, Parts, Beside
  <2>3. CASE i[1] = "finally"
    <3>1. n = [m EXCEPT !.stack = T]
      BY <2>3 DEF Do, Push
    <3> HIDE DEF n, f, T
    <3> QED BY <3>1 DEF Whole, Parts, Beside
  <2> QED BY <2>1, <2>2, <2>3
<1> HIDE DEF f, T, n
<1>4. Whole(n)
  BY <1>2, <1>3 DEF Whole, Beside, Pushed
<1>5. Pushed(f, m.stack, n.stack)
  BY <1>2, <1>3
<1> QED BY <1>1, <1>3, <1>4, <1>5 DEF n

\* A scope that ends takes its frame off.
LEMMA ScopeEnds ==
  ASSUME NEW r, NEW m, Whole(m), NEW f, f[1] \in {"lora", "window"}, NEW S, IsSequence(S),
         Pushed(f, S, m.stack), NEW i, i[1] = "end"
  PROVE  /\ Do(r, i, m).stack = S /\ Beside(Do(r, i, m), m) /\ Whole(Do(r, i, m))
<1> DEFINE mid == [m EXCEPT !.stack = Tail(m.stack)]
           n == Do(r, i, m)
<1>1. Head(m.stack) = f /\ Tail(m.stack) = S
  BY DEF Pushed
<1>2. n = Leave(mid, f, FALSE)
  BY <1>1 DEF Do, Pop
<1>3. mid.stack = S /\ Beside(mid, m) /\ Parts \subseteq DOMAIN mid
  BY <1>1 DEF Whole, Parts, Beside
<1> HIDE DEF mid, n
<1>4. n.stack = S /\ Beside(n, m) /\ Parts \subseteq DOMAIN n
  <2>1. CASE f[1] = "lora"
    <3>1. n = [mid EXCEPT !.flags = f[2]]
      BY <1>2, <2>1 DEF Leave, CloseScope
    <3> QED BY <1>3, <3>1 DEF Parts, Beside
  <2>2. CASE f[1] = "window"
    <3>1. n = [mid EXCEPT !.open = Tail(mid.open)]
      BY <1>2, <2>2 DEF Leave, CloseWindow
    <3> QED BY <1>3, <3>1 DEF Parts, Beside
  <2> QED BY <2>1, <2>2
<1>5. Whole(n)
  BY <1>4 DEF Whole, Beside
<1> QED BY <1>4, <1>5 DEF n

LEMMA FinallyEnds ==
  ASSUME NEW r, NEW m, Whole(m), NEW f, f[1] = "finally", NEW S, IsSequence(S),
         Pushed(f, S, m.stack), NEW i, i[1] = "end"
  PROVE  \E mid : /\ mid.stack = S /\ Beside(mid, m) /\ Whole(mid)
                  /\ Do(r, i, m) = Restore(mid, f[2], f[3])
<1> DEFINE mid == [m EXCEPT !.stack = Tail(m.stack)]
<1>1. Head(m.stack) = f /\ Tail(m.stack) = S
  BY DEF Pushed
<1>2. Do(r, i, m) = Leave(mid, f, FALSE)
  BY <1>1 DEF Do, Pop
<1>3. Do(r, i, m) = Restore(mid, f[2], f[3])
  BY <1>2 DEF Leave
<1>4. mid.stack = S /\ Beside(mid, m) /\ Parts \subseteq DOMAIN mid
  BY <1>1 DEF Whole, Parts, Beside
<1> HIDE DEF mid
<1>5. Whole(mid)
  BY <1>4 DEF Whole, Beside
<1> QED BY <1>3, <1>4, <1>5

\* A program between the opening and the end of a scope.
LEMMA InScope ==
  ASSUME NEW r, NEW i, NEW body, IsSequence(body), NEW e, NEW m
  PROVE  /\ IsSequence(<<i>> \o body \o <<e>>)
         /\ Executed(r, m, <<i>> \o body \o <<e>>)
              = Do(r, e, Executed(r, Do(r, i, m), body))
<1> DEFINE p == <<i>>
           q == <<e>>
           u == p \o body
<1>1. IsSequence(p) /\ IsSequence(q)
  BY OneIs
<1>2. IsSequence(u)
  BY <1>1, JoinIs
<1>3. \A n : Executed(r, n, p) = Do(r, i, n) /\ Executed(r, n, q) = Do(r, e, n)
  BY ExecutedOne
<1> HIDE DEF p, q
<1>4. Executed(r, m, u) = Executed(r, Do(r, i, m), body)
  BY <1>1, <1>3, ExecutedJoin
<1> HIDE DEF u
<1>5. IsSequence(u \o q)
  BY <1>1, <1>2, JoinIs
<1>6. Executed(r, m, u \o q) = Executed(r, Executed(r, m, u), q)
  BY <1>1, <1>2, ExecutedJoin
<1>7. Executed(r, m, u \o q) = Do(r, e, Executed(r, Do(r, i, m), body))
  BY <1>3, <1>4, <1>6
<1> QED BY <1>5, <1>7 DEF p, q, u

LEMMA BesideStill ==
  ASSUME NEW r, NEW k, NEW c, NEW m, NEW m1, NEW m2, NEW n, Beside(m1, m),
         Still(r, k, c, m2, m1), Beside(n, m2), n.stack = m.stack, Whole(n)
  PROVE  Still(r, k, c, n, m)
<1>1. SameRun(n, m)
  BY DEF Still, SameRun, Beside
<1> QED BY <1>1 DEF Still, Beside

LEMMA WorksScoped ==
  ASSUME NEW r, NEW k, NEW c, NEW on, NEW body, Works(r, k, c, body)
  PROVE  Works(r, k, c, Scoped(r, on, body))
<1> DEFINE i == <<"lora", on>>
           e == <<"end">>
           w == <<i>> \o body \o <<e>>
<1>1. i[1] = "lora" /\ e[1] = "end"
  OBVIOUS
<1>2. Scoped(r, on, body) \in {w, body}
  BY DEF Scoped
<1>3. IsSequence(body)
  BY DEF Works
<1> HIDE DEF i, e
<1>4. IsSequence(w)
  BY <1>3, InScope
<1>5. ASSUME NEW m, Whole(m) PROVE Still(r, k, c, Executed(r, m, w), m)
  <2> DEFINE m1 == Do(r, i, m)
             m2 == Executed(r, m1, body)
             n == Do(r, e, m2)
  <2>1. PICK f : f[1] = "lora" /\ Pushed(f, m.stack, m1.stack) /\ Beside(m1, m) /\ Whole(m1)
    BY <1>1, <1>5, ScopeOpens
  <2>2. Still(r, k, c, m2, m1)
    BY <2>1 DEF Works
  <2>3. Executed(r, m, w) = n
    BY <1>3, InScope
  <2> HIDE DEF m1, m2
  <2>4. Whole(m2) /\ Pushed(f, m.stack, m2.stack) /\ IsSequence(m.stack)
    BY <1>5, <2>1, <2>2 DEF Still, SameRun, Whole
  <2>5. n.stack = m.stack /\ Beside(n, m2) /\ Whole(n)
    BY <1>1, <2>1, <2>4, ScopeEnds
  <2> HIDE DEF n
  <2>6. Still(r, k, c, n, m)
    BY <2>1, <2>2, <2>5, BesideStill
  <2> QED BY <2>3, <2>6
<1> HIDE DEF w
<1>6. Works(r, k, c, w)
  BY <1>4, <1>5 DEF Works
<1> QED BY <1>2, <1>6

LEMMA LayerRange ==
  ASSUME NEW r \in Runtimes
  PROVE  /\ r.lo + 1 \in Int /\ r.lo + 1 >= 1 /\ r.hi \in Int /\ r.hi <= NLayers
         /\ r.hi + 1 \in Int /\ r.hi + 1 >= 1 /\ NLayers \in Int /\ NLayers <= NLayers
         /\ 1 \in Int /\ 1 >= 1
<1>1. NLayers \in Nat
  BY RuntimeConstants
<1>2. r.lo \in 0..NLayers /\ r.hi \in 1..NLayers
  BY DEF Runtimes, Layers
<1> QED BY <1>1, <1>2

\* The encoding of a prompt leaves the state at the boundary.
LEMMA EncodeWorks ==
  ASSUME NEW r \in Runtimes, NEW c \in Contexts, NEW p, Unrefused(Encode(r, c, p))
  PROVE  Works(r, "encode", c, Encode(r, c, p))
<1> DEFINE emb == <<"embed", <<"prompt", p>>>>
           err == <<"raise">>
           low == Run(1, r.hi, c, 0, PromptLen[p], p, "prefill")
           cut == <<"boundary", c>>
           high == Run(r.hi + 1, NLayers, c, 0, PromptLen[p], p, "prefill")
           body == low \o <<cut>> \o high
           enc == Encode(r, c, p)
<1>1. emb[1] = "embed" /\ err[1] = "raise" /\ cut[1] = "boundary" /\ cut[2] = c
  OBVIOUS
<1>2. enc = IF PromptLen[p] < r.slots THEN <<err>> ELSE <<emb>> \o Scoped(r, FALSE, body)
  BY DEF Encode
<1>3. Works(r, "encode", c, low)
  BY LayerRange, RunWorks
<1>4. Works(r, "encode", c, high)
  BY LayerRange, RunWorks
<1> HIDE DEF emb, err, low, cut, high, enc
<1>5. enc # <<err>>
  <2> DEFINE o == <<err>>
  <2>1. Len(o) = 1 /\ o[1] = err
    BY OneIs
  <2> HIDE DEF o
  <2>2. ~Unrefused(o)
    <3>1. 1 \in 1..Len(o)
      BY <2>1
    <3> QED BY <1>1, <2>1, <3>1 DEF Unrefused
  <2> QED BY <2>2 DEF enc, o
<1>6. ASSUME NEW m, Whole(m) PROVE Still(r, "encode", c, Do(r, emb, m), m)
  <2>1. Do(r, emb, m) = [m EXCEPT !.h = emb[2]]
    BY <1>1 DEF Do
  <2> QED BY <1>6, <2>1, EmbedStill
<1>7. \A m : Whole(m) => Still(r, "encode", c, Do(r, cut, m), m)
  BY <1>1, BoundaryStill
<1>8. Works(r, "encode", c, <<emb>>)
  BY <1>6, WorksOne
<1>9. Works(r, "encode", c, <<cut>>)
  BY <1>7, WorksOne
<1>10. Works(r, "encode", c, low \o <<cut>>)
  BY <1>3, <1>9, WorksJoin
<1>11. Works(r, "encode", c, body)
  BY <1>4, <1>10, WorksJoin
<1> HIDE DEF body
<1>12. Works(r, "encode", c, Scoped(r, FALSE, body))
  BY <1>11, WorksScoped
<1>13. Works(r, "encode", c, <<emb>> \o Scoped(r, FALSE, body))
  BY <1>8, <1>12, WorksJoin
<1>14. Works(r, "encode", c, enc)
  BY <1>2, <1>5, <1>13
<1> QED BY <1>14 DEF enc

LEMMA PassWorks ==
  ASSUME NEW r \in Runtimes, NEW k, NEW ab, NEW c \in Contexts, NEW pos, NEW on
  PROVE  Works(r, k, c, Pass(r, ab, c, pos, on))
<1> DEFINE body == Run(r.lo + 1, r.hi, c, pos, r.slots, "loop", "loop")
<1>1. Works(r, k, c, body)
  BY LayerRange, RunWorks
<1> HIDE DEF body
<1>2. Works(r, k, c, Scoped(r, on, body))
  BY <1>1, WorksScoped
<1> QED BY <1>2, WorksNone DEF Pass, body

----------------------------------------------------------------------------
(* Adapters that add nothing                                               *)

\* Two runtimes with the same value before layers of context c, and with
\* adapters that still are zero.
Mirror(c, m, n) ==
  /\ Whole(m) /\ Whole(n) /\ m.h = n.h /\ m.live[c] = n.live[c]
  /\ m.w["B"] = 0 /\ n.w["B"] = 0

LEMMA LayerMirror ==
  ASSUME NEW r, NEW c \in Contexts, NEW m, NEW n, Mirror(c, m, n), NEW i, i[1] = "layer",
         i[2] = c, i[3] \in Layers
  PROVE  Mirror(c, Do(r, i, m), Do(r, i, n))
<1> DEFINE m1 == Do(r, i, m)
           n1 == Do(r, i, n)
<1>1. Whole(m) /\ Whole(n)
  BY DEF Mirror
<1>2. Still(r, "pass", c, m1, m) /\ m1.h = Passed(r, m, i) /\ m1.live[c] = Longer(r, m, i)
  BY <1>1, LayerStill
<1>3. Still(r, "pass", c, n1, n) /\ n1.h = Passed(r, n, i) /\ n1.live[c] = Longer(r, n, i)
  BY <1>1, LayerStill
<1> HIDE DEF m1, n1
<1>4. Adapted(r, m, i[3]) = <<>> /\ Adapted(r, n, i[3]) = <<>>
  BY DEF Adapted, Mirror
<1>5. Passed(r, m, i) = Passed(r, n, i) /\ Longer(r, m, i) = Longer(r, n, i)
  BY <1>4 DEF Passed, Longer, Mirror
<1>6. Whole(m1) /\ Whole(n1) /\ m1.w = m.w /\ n1.w = n.w
  BY <1>2, <1>3 DEF Still, SameRun
<1>7. Mirror(c, m1, n1)
  BY <1>2, <1>3, <1>5, <1>6 DEF Mirror
<1> QED BY <1>7 DEF m1, n1

LEMMA RunMirror ==
  ASSUME NEW r, NEW from \in Int, NEW to \in Int, from >= 1, to <= NLayers,
         NEW c \in Contexts, NEW pos, NEW k, NEW what, NEW phase_,
         NEW m, NEW n, Mirror(c, m, n)
  PROVE  Mirror(c, Executed(r, m, Run(from, to, c, pos, k, what, phase_)),
                   Executed(r, n, Run(from, to, c, pos, k, what, phase_)))
<1> DEFINE p == Run(from, to, c, pos, k, what, phase_)
           len == Len(p)
<1>1. /\ IsSequence(p) /\ len \in Nat
      /\ \A j \in 1..len : p[j][1] = "layer" /\ p[j][2] = c /\ p[j][3] \in Layers
  BY RunLayers DEF Layered
<1> HIDE DEF p
<1>2. PICK f : /\ f[0] = m /\ \A j \in 1..len : f[j] = Do(r, p[j], f[j - 1])
               /\ Executed(r, m, p) = f[len]
  BY <1>1, ExecutedCourse
<1>3. PICK g : /\ g[0] = n /\ \A j \in 1..len : g[j] = Do(r, p[j], g[j - 1])
               /\ Executed(r, n, p) = g[len]
  BY <1>1, ExecutedCourse
<1> HIDE DEF len
<1> DEFINE G == {j \in Nat : Mirror(c, f[j], g[j])}
<1>4. 0 \in G
  BY <1>2, <1>3
<1>5. ASSUME NEW j \in 1..len, j - 1 \in G PROVE j \in G
  <2>1. j \in Nat /\ Mirror(c, f[j - 1], g[j - 1])
    BY <1>1, <1>5
  <2>2. Mirror(c, Do(r, p[j], f[j - 1]), Do(r, p[j], g[j - 1]))
    BY <1>1, <2>1, LayerMirror
  <2> QED BY <1>2, <1>3, <2>1, <2>2
<1>6. len \in G
  <2> HIDE DEF G
  <2> QED BY <1>1, <1>4, <1>5, UpTo
<1> QED BY <1>2, <1>3, <1>6 DEF p

\* A pass gives the same with the adapters on as with the adapters off.
LEMMA PassMirror ==
  ASSUME NEW r \in Runtimes, NEW ab, NEW c \in Contexts, NEW pos, NEW on, NEW off,
         NEW m, NEW n, Mirror(c, m, n)
  PROVE  Mirror(c, Executed(r, m, Pass(r, ab, c, pos, on)),
                   Executed(r, n, Pass(r, ab, c, pos, off)))
<1> DEFINE body == Run(r.lo + 1, r.hi, c, pos, r.slots, "loop", "loop")
           i == <<"lora", on>>
           j == <<"lora", off>>
           e == <<"end">>
<1>1. Works(r, "pass", c, body)
  BY LayerRange, RunWorks
<1>2. ASSUME NEW x, NEW y, Mirror(c, x, y)
      PROVE  Mirror(c, Executed(r, x, body), Executed(r, y, body))
  BY <1>2, LayerRange, RunMirror
<1>3. i[1] = "lora" /\ j[1] = "lora" /\ e[1] = "end"
  OBVIOUS
<1>4. /\ Pass(r, ab, c, pos, on) = IF ab.bypass THEN <<>>
                                   ELSE IF r.ro THEN <<i>> \o body \o <<e>> ELSE body
      /\ Pass(r, ab, c, pos, off) = IF ab.bypass THEN <<>>
                                    ELSE IF r.ro THEN <<j>> \o body \o <<e>> ELSE body
  BY DEF Pass, Scoped
<1> HIDE DEF body, i, j, e
<1>5. CASE ab.bypass
  BY <1>4, <1>5, ExecutedNone
<1>6. CASE ~ab.bypass /\ ~r.ro
  BY <1>2, <1>4, <1>6
<1>7. CASE ~ab.bypass /\ r.ro
  <2> DEFINE m1 == Do(r, i, m)
             n1 == Do(r, j, n)
             m2 == Executed(r, m1, body)
             n2 == Executed(r, n1, body)
             m3 == Do(r, e, m2)
             n3 == Do(r, e, n2)
  <2>1. IsSequence(body) /\ Whole(m) /\ Whole(n)
    BY <1>1 DEF Works, Mirror
  <2>2. /\ Executed(r, m, <<i>> \o body \o <<e>>) = m3
        /\ Executed(r, n, <<j>> \o body \o <<e>>) = n3
    BY <2>1, InScope
  <2>3. PICK f : f[1] = "lora" /\ Pushed(f, m.stack, m1.stack) /\ Beside(m1, m) /\ Whole(m1)
    BY <1>3, <2>1, ScopeOpens
  <2>4. PICK g : g[1] = "lora" /\ Pushed(g, n.stack, n1.stack) /\ Beside(n1, n) /\ Whole(n1)
    BY <1>3, <2>1, ScopeOpens
  <2> HIDE DEF m1, n1
  <2>5. Mirror(c, m1, n1)
    BY <2>3, <2>4 DEF Mirror, Beside
  <2>6. Mirror(c, m2, n2)
    BY <1>2, <2>5
  <2>7. Still(r, "pass", c, m2, m1) /\ Still(r, "pass", c, n2, n1)
    BY <1>1, <2>3, <2>4 DEF Works
  <2> HIDE DEF m2, n2
  <2>8. /\ Whole(m2) /\ Pushed(f, m.stack, m2.stack) /\ IsSequence(m.stack)
        /\ Whole(n2) /\ Pushed(g, n.stack, n2.stack) /\ IsSequence(n.stack)
    BY <2>1, <2>3, <2>4, <2>7 DEF Still, SameRun, Whole
  <2>9. Beside(m3, m2) /\ Whole(m3)
    BY <1>3, <2>3, <2>8, ScopeEnds
  <2>10. Beside(n3, n2) /\ Whole(n3)
    BY <1>3, <2>4, <2>8, ScopeEnds
  <2> HIDE DEF m3, n3
  <2>11. Mirror(c, m3, n3)
    BY <2>6, <2>9, <2>10 DEF Mirror, Beside
  <2> QED BY <1>4, <1>7, <2>2, <2>11
<1> QED BY <1>5, <1>6, <1>7

LEMMA FreshIs ==
  ASSUME NEW r, NEW w, Fresh(r, w)
  PROVE  /\ w["B"] = 0 /\ (r.clock => w["clock"] = 0) /\ (Gated(r) => w["gates"] = 0)
<1>1. "B" \in Tensors(r) /\ (r.clock => "clock" \in Tensors(r))
      /\ (Gated(r) => "gates" \in Tensors(r))
  BY DEF Tensors
<1> QED BY <1>1 DEF Fresh

\* The instructions of a recurrent step that come between its passes.
LEMMA StateIs ==
  ASSUME NEW r, NEW k, NEW c, NEW m, Whole(m), NEW i, i[1] = "state", i[2] = c
  PROVE  /\ Still(r, k, c, Do(r, i, m), m) /\ Do(r, i, m).h = m.z[c]
         /\ Do(r, i, m).live = m.live
<1> DEFINE n == Do(r, i, m)
           e == m.z[c]
<1>1. n = [m EXCEPT !.h = e]
  BY DEF Do
<1> HIDE DEF n, e
<1>2. Still(r, k, c, n, m) /\ n.h = e
  BY <1>1, EmbedStill
<1>3. n.live = m.live
  BY <1>1
<1> QED BY <1>2, <1>3 DEF n, e

LEMMA TickIs ==
  ASSUME NEW r, NEW k, NEW c, NEW m, Whole(m), NEW i, i[1] = "tick", i[2] = c
  PROVE  /\ Still(r, k, c, Do(r, i, m), m) /\ Do(r, i, m).live = m.live
         /\ Fresh(r, m.w) => Do(r, i, m).h = m.z[c]
<1> DEFINE e == IF i[4] /\ r.clock /\ m.w["clock"] # 0
                THEN <<"clock", i[3], m.w["clock"], m.z[c]>> ELSE m.z[c]
           n == Do(r, i, m)
<1>1. n = [m EXCEPT !.h = e]
  BY DEF Do, Tick
<1>2. Fresh(r, m.w) => e = m.z[c]
  BY FreshIs
<1> HIDE DEF e, n
<1>3. Still(r, k, c, n, m) /\ n.h = e
  BY <1>1, EmbedStill
<1>4. n.live = m.live
  BY <1>1
<1> QED BY <1>2, <1>3, <1>4 DEF n

LEMMA RestoreIs ==
  ASSUME NEW r, NEW k, NEW c \in Contexts, NEW m, Whole(m), NEW i, i[1] = "restore", i[2] = c
  PROVE  /\ Still(r, k, c, Do(r, i, m), m) /\ Do(r, i, m).h = m.h
         /\ Do(r, i, m).live[c] = m.snap[i[3]]
<1>1. Do(r, i, m) = Restore(m, c, i[3])
  BY DEF Do
<1>2. Still(r, k, c, Restore(m, c, i[3]), m) /\ Restore(m, c, i[3]).h = m.h
      /\ Restore(m, c, i[3]).live[c] = m.snap[i[3]]
  BY RestoreStill
<1> QED BY <1>1, <1>2

LEMMA BaseIs ==
  ASSUME NEW r, NEW k \in {"loop", "steady"}, NEW c, NEW m, Whole(m), NEW i, i[1] = "base"
  PROVE  /\ Still(r, k, c, Do(r, i, m), m) /\ Do(r, i, m).z = m.z /\ Do(r, i, m).base = m.h
<1>1. Do(r, i, m) = [m EXCEPT !.base = m.h]
  BY DEF Do
<1> QED BY <1>1, BaseStill

LEMMA UpdateIs ==
  ASSUME NEW r, NEW c \in Contexts, NEW m, Whole(m), NEW i, i[1] = "update", i[2] = c
  PROVE  Still(r, "loop", c, Do(r, i, m), m)
<1>1. Do(r, i, m) = Update(r, m, c, i[3])
  BY DEF Do
<1>2. Still(r, "loop", c, Update(r, m, c, i[3]), m)
  BY UpdateStill
<1> QED BY <1>1, <1>2

\* The update of m leaves the state as it is.
Idle(r, m) == \/ r.paired /\ m.h = m.base
              \/ ~r.paired /\ Gated(r) /\ m.w["gates"] = 0

LEMMA UpdateKeptIs ==
  ASSUME NEW r, NEW c \in Contexts, NEW m, Whole(m), NEW i, i[1] = "update", i[2] = c,
         Idle(r, m)
  PROVE  Do(r, i, m).z[c] = m.z[c]
<1>1. Do(r, i, m) = Update(r, m, c, i[3])
  BY DEF Do
<1>2. /\ r.paired /\ m.h = m.base => Update(r, m, c, i[3]).z[c] = m.z[c]
      /\ ~r.paired /\ Gated(r) /\ m.w["gates"] = 0 => Update(r, m, c, i[3]).z[c] = m.z[c]
  BY UpdateStill
<1> QED BY <1>1, <1>2 DEF Idle

\* A single step of a gated runtime whose gates are closed keeps the state.
LEMMA SingleWorks ==
  ASSUME NEW r \in Runtimes, Neutral(r), ~r.paired, NEW ab, NEW c \in Contexts, NEW pos,
         NEW ci
  PROVE  Works(r, "steady", c, SingleStep(r, ab, c, pos, ci))
<1> DEFINE i == <<"tick", c, ci, ab.clocks # <<"off">>>>
           p == Pass(r, ab, c, pos, TRUE)
           u == <<"update", c, ci>>
           b == <<"restore", c, <<"loop", c>>>>
<1>1. i[1] = "tick" /\ i[2] = c /\ u[1] = "update" /\ u[2] = c /\ b[1] = "restore" /\ b[2] = c
  OBVIOUS
<1>2. SingleStep(r, ab, c, pos, ci) = <<i>> \o p \o <<u>> \o <<b>>
  BY DEF SingleStep
<1>3. Works(r, "steady", c, p)
  BY PassWorks
<1> HIDE DEF i, p, u, b
<1>4. \A m : Whole(m) => Still(r, "steady", c, Do(r, i, m), m)
  BY <1>1, TickIs
<1>5. \A m : Whole(m) => Still(r, "steady", c, Do(r, b, m), m)
  BY <1>1, RestoreIs
<1>6. ASSUME NEW m, Whole(m) PROVE Still(r, "steady", c, Do(r, u, m), m)
  <2> DEFINE n == Do(r, u, m)
  <2>1. Still(r, "loop", c, n, m)
    BY <1>1, <1>6, UpdateIs
  <2>3. ASSUME Fresh(r, m.w) PROVE n.z[c] = m.z[c]
    <3>1. Gated(r)
      BY DEF Gated
    <3>2. m.w["gates"] = 0
      BY <2>3, <3>1, FreshIs
    <3>3. Idle(r, m)
      BY <3>1, <3>2 DEF Idle
    <3> QED BY <1>1, <1>6, <3>3, UpdateKeptIs
  <2> HIDE DEF n
  <2>4. Still(r, "steady", c, n, m)
    BY <2>1, <2>3 DEF Still
  <2> QED BY <2>4 DEF n
<1>7. Works(r, "steady", c, <<i>>)
  BY <1>4, WorksOne
<1>8. Works(r, "steady", c, <<u>>)
  BY <1>6, WorksOne
<1>9. Works(r, "steady", c, <<b>>)
  BY <1>5, WorksOne
<1>10. Works(r, "steady", c, <<i>> \o p)
  BY <1>3, <1>7, WorksJoin
<1>11. Works(r, "steady", c, <<i>> \o p \o <<u>>)
  BY <1>8, <1>10, WorksJoin
<1>12. Works(r, "steady", c, <<i>> \o p \o <<u>> \o <<b>>)
  BY <1>9, <1>11, WorksJoin
<1> QED BY <1>2, <1>12

\* The instructions of a paired step, in their order.
PairedOrder(r, m, n, i1, p1, i2, i3, i4, p2, i5) ==
  \E m2, m3, m4, m5, m6, m7, m8 :
    /\ m2 = Do(r, i1, m) /\ m3 = Executed(r, m2, p1) /\ m4 = Do(r, i2, m3)
    /\ m5 = Do(r, i3, m4) /\ m6 = Do(r, i4, m5) /\ m7 = Executed(r, m6, p2)
    /\ m8 = Do(r, i5, m7) /\ n = Do(r, i3, m8)

LEMMA PairedSteps ==
  ASSUME NEW r, NEW m, NEW i1, NEW p1, IsSequence(p1), NEW i2, NEW i3, NEW i4, NEW p2,
         IsSequence(p2), NEW i5, NEW p,
         p = <<i1>> \o p1 \o <<i2>> \o <<i3>> \o <<i4>> \o p2 \o <<i5, i3>>
  PROVE  IsSequence(p) /\ PairedOrder(r, m, Executed(r, m, p), i1, p1, i2, i3, i4, p2, i5)
<1> DEFINE o == <<i1>>
           a == o \o p1
           b == a \o <<i2>>
           c == b \o <<i3>>
           d == c \o <<i4>>
           e == d \o p2
           f == e \o <<i5>>
           g == f \o <<i3>>
           last == <<i5, i3>>
           u == <<i5>>
           v == <<i3>>
           m2 == Do(r, i1, m)
           m3 == Executed(r, m2, p1)
           m4 == Do(r, i2, m3)
           m5 == Do(r, i3, m4)
           m6 == Do(r, i4, m5)
           m7 == Executed(r, m6, p2)
           m8 == Do(r, i5, m7)
           n == Do(r, i3, m8)
<1>0. IsSequence(o) /\ Executed(r, m, o) = m2
  BY OneIs, ExecutedOne
<1> HIDE DEF o
<1>1. IsSequence(a) /\ Executed(r, m, a) = m3
  BY <1>0, JoinIs, ExecutedJoin
<1> HIDE DEF a, m2
<1>2. IsSequence(b) /\ Executed(r, m, b) = m4
  BY <1>1, ExecutedOn
<1> HIDE DEF b, m3
<1>3. IsSequence(c) /\ Executed(r, m, c) = m5
  BY <1>2, ExecutedOn
<1> HIDE DEF c, m4
<1>4. IsSequence(d) /\ Executed(r, m, d) = m6
  BY <1>3, ExecutedOn
<1> HIDE DEF d, m5
<1>5. IsSequence(e) /\ Executed(r, m, e) = m7
  BY <1>4, JoinIs, ExecutedJoin
<1> HIDE DEF e, m6
<1>6. IsSequence(f) /\ Executed(r, m, f) = m8
  BY <1>5, ExecutedOn
<1>7. u \o v = last
  BY PairJoined
<1>8. p = e \o last
  BY DEF e, d, c, b, a, o
<1>9. IsSequence(u) /\ IsSequence(v)
  BY OneIs
<1>10. Executed(r, m7, u) = m8
  BY ExecutedOne
<1> HIDE DEF m7
<1>11. Executed(r, m8, v) = n
  BY ExecutedOne
<1> HIDE DEF m8, u, v, last, f
<1>12. IsSequence(last) /\ Executed(r, m7, last) = n
  <2>1. IsSequence(u \o v)
    BY <1>9, JoinIs
  <2>2. Executed(r, m7, u \o v) = Executed(r, Executed(r, m7, u), v)
    BY <1>9, ExecutedJoin
  <2> QED BY <1>7, <1>10, <1>11, <2>1, <2>2
<1>13. IsSequence(p) /\ Executed(r, m, p) = n
  <2>1. IsSequence(e \o last)
    BY <1>5, <1>12, JoinIs
  <2>2. Executed(r, m, e \o last) = Executed(r, Executed(r, m, e), last)
    BY <1>5, <1>12, ExecutedJoin
  <2> QED BY <1>5, <1>8, <1>12, <2>1, <2>2
<1> QED BY <1>13 DEF PairedOrder, m2, m3, m4, m5, m6, m7, m8

LEMMA StillLoop ==
  ASSUME NEW r, NEW c, NEW m, NEW n, Still(r, "pass", c, n, m)
  PROVE  Still(r, "loop", c, n, m) /\ n.z[c] = m.z[c] /\ n.base = m.base
BY DEF Still

LEMMA StillSteady ==
  ASSUME NEW r, NEW c, NEW m, NEW n, Still(r, "loop", c, n, m),
         Fresh(r, m.w) => n.z[c] = m.z[c]
  PROVE  Still(r, "steady", c, n, m)
BY DEF Still

\* A paired step of fresh trainables keeps the state: both passes start from the
\* prompt's cache and come out the same.
LEMMA PairedWorks ==
  ASSUME NEW r \in Runtimes, r.paired, NEW ab, NEW c \in Contexts, NEW start, NEW ci
  PROVE  Works(r, "steady", c,
               <<<<"restore", c, <<"loop", c>>>>>> \o PairedStep(r, ab, c, start, ci))
<1> DEFINE i1 == <<"state", c>>
           p1 == Pass(r, ab, c, start, FALSE)
           i2 == <<"base">>
           i3 == <<"restore", c, <<"loop", c>>>>
           i4 == <<"tick", c, ci, ab.clocks # <<"off">>>>
           p2 == Pass(r, ab, c, start, TRUE)
           i5 == <<"update", c, ci>>
           p == PairedStep(r, ab, c, start, ci)
           w == <<i3>> \o p
<1>1. /\ i1[1] = "state" /\ i1[2] = c /\ i2[1] = "base" /\ i3[1] = "restore" /\ i3[2] = c
      /\ i4[1] = "tick" /\ i4[2] = c /\ i5[1] = "update" /\ i5[2] = c
  OBVIOUS
<1>2. \A k : Works(r, k, c, p1) /\ Works(r, k, c, p2)
  BY PassWorks
<1>3. ASSUME NEW x, NEW y, Mirror(c, x, y)
      PROVE  Mirror(c, Executed(r, x, p1), Executed(r, y, p2))
  BY <1>3, PassMirror
<1>4. p = <<i1>> \o p1 \o <<i2>> \o <<i3>> \o <<i4>> \o p2 \o <<i5, i3>>
  BY DEF PairedStep
<1>5. IsSequence(p1) /\ IsSequence(p2)
  BY <1>2 DEF Works
<1> HIDE DEF i1, p1, i2, i3, i4, p2, i5, p
<1>6. IsSequence(p)
  BY <1>4, <1>5, PairedSteps
<1>7. IsSequence(<<i3>>)
  BY OneIs
<1>8. IsSequence(w)
  BY <1>6, <1>7, JoinIs
<1>9. ASSUME NEW m, Whole(m) PROVE Still(r, "steady", c, Executed(r, m, w), m)
  <2> DEFINE m1 == Do(r, i3, m)
             n == Executed(r, m1, p)
             key == i3[3]
  <2>1. Executed(r, m, <<i3>>) = m1
    BY ExecutedOne
  <2>2. Executed(r, m, w) = n
    BY <1>6, <1>7, <2>1, ExecutedJoin
  <2>3. Still(r, "pass", c, m1, m) /\ m1.live[c] = m.snap[key]
    BY <1>1, <1>9, RestoreIs
  <2>4. PairedOrder(r, m1, n, i1, p1, i2, i3, i4, p2, i5)
    BY <1>4, <1>5, PairedSteps
  <2> HIDE DEF m1, n, w, key
  <2>5. PICK m2, m3, m4, m5, m6, m7, m8 :
          /\ m2 = Do(r, i1, m1) /\ m3 = Executed(r, m2, p1) /\ m4 = Do(r, i2, m3)
          /\ m5 = Do(r, i3, m4) /\ m6 = Do(r, i4, m5) /\ m7 = Executed(r, m6, p2)
          /\ m8 = Do(r, i5, m7) /\ n = Do(r, i3, m8)
    BY <2>4 DEF PairedOrder
  <2>6. Whole(m1)
    BY <2>3 DEF Still
  <2>7. Still(r, "pass", c, m2, m1) /\ m2.h = m1.z[c] /\ m2.live = m1.live
    BY <1>1, <2>5, <2>6, StateIs
  <2>8. Whole(m2)
    BY <2>7 DEF Still
  <2>9. Still(r, "pass", c, m3, m2)
    BY <1>2, <2>5, <2>8 DEF Works
  <2>10. Whole(m3)
    BY <2>9 DEF Still
  <2>11. Still(r, "loop", c, m4, m3) /\ m4.z = m3.z /\ m4.base = m3.h
    BY <1>1, <2>5, <2>10, BaseIs
  <2>12. Whole(m4)
    BY <2>11 DEF Still
  <2>13. Still(r, "pass", c, m5, m4) /\ m5.live[c] = m4.snap[key]
    BY <1>1, <2>5, <2>12, RestoreIs DEF key
  <2>14. Whole(m5)
    BY <2>13 DEF Still
  <2>15. /\ Still(r, "pass", c, m6, m5) /\ m6.live = m5.live
         /\ Fresh(r, m5.w) => m6.h = m5.z[c]
    BY <1>1, <2>5, <2>14, TickIs
  <2>16. Whole(m6)
    BY <2>15 DEF Still
  <2>17. Still(r, "pass", c, m7, m6)
    BY <1>2, <2>5, <2>16 DEF Works
  <2>18. Whole(m7)
    BY <2>17 DEF Still
  <2>19. Still(r, "loop", c, m8, m7)
    BY <1>1, <2>5, <2>18, UpdateIs
  <2>20. Whole(m8)
    BY <2>19 DEF Still
  <2>21. Still(r, "pass", c, n, m8)
    BY <1>1, <2>5, <2>20, RestoreIs
  <2>22. Still(r, "loop", c, n, m)
    <3>1. Still(r, "loop", c, m2, m)
      BY <2>3, <2>7, StillLoop, StillOn
    <3>2. Still(r, "loop", c, m4, m)
      BY <2>9, <2>11, <3>1, StillLoop, StillOn
    <3>3. Still(r, "loop", c, m6, m)
      BY <2>13, <2>15, <3>2, StillLoop, StillOn
    <3>4. Still(r, "loop", c, m8, m)
      BY <2>17, <2>19, <3>3, StillLoop, StillOn
    <3> QED BY <2>21, <3>4, StillLoop, StillOn
  <2>23. ASSUME Fresh(r, m.w) PROVE n.z[c] = m.z[c]
    <3>1. /\ m1.w = m.w /\ m2.w = m.w /\ m3.w = m.w /\ m4.w = m.w /\ m5.w = m.w /\ m6.w = m.w
      BY <2>3, <2>7, <2>9, <2>11, <2>13, <2>15 DEF Still, SameRun
    <3>2. m4.snap = m.snap
      BY <2>3, <2>7, <2>9, <2>11 DEF Still, SameRun
    <3>3. m3.z[c] = m.z[c] /\ m2.h = m.z[c] /\ m5.z[c] = m.z[c] /\ m7.z[c] = m.z[c]
      BY <2>3, <2>7, <2>9, <2>11, <2>13, <2>15, <2>17, StillLoop
    <3>4. m6.h = m.z[c]
      BY <2>15, <2>23, <3>1, <3>3
    <3>5. m2.live[c] = m6.live[c]
      BY <2>3, <2>7, <2>13, <2>15, <3>2
    <3>6. Mirror(c, m2, m6)
      BY <2>8, <2>16, <2>23, <3>1, <3>3, <3>4, <3>5, FreshIs DEF Mirror
    <3>7. Mirror(c, m3, m7)
      BY <1>3, <2>5, <3>6
    <3>8. m7.base = m3.h
      BY <2>11, <2>13, <2>15, <2>17, StillLoop
    <3>9. m7.h = m7.base
      BY <3>7, <3>8 DEF Mirror
    <3>10. Idle(r, m7)
      BY <3>9 DEF Idle
    <3>11. m8.z[c] = m7.z[c]
      BY <1>1, <2>5, <2>18, <3>10, UpdateKeptIs
    <3>12. n.z[c] = m8.z[c]
      BY <2>21, StillLoop
    <3> QED BY <3>3, <3>11, <3>12
  <2>24. Still(r, "steady", c, n, m)
    BY <2>22, <2>23, StillSteady
  <2> QED BY <2>2, <2>24
<1> HIDE DEF w
<1>10. Works(r, "steady", c, w)
  BY <1>8, <1>9 DEF Works
<1> QED BY <1>10 DEF w, i3, p

\* The recurrent loop of a neutral runtime, and the empty one.
LEMMA LoopWorks ==
  ASSUME NEW r \in Runtimes, Neutral(r), NEW ab, NEW c \in Contexts, NEW start, NEW k,
         EffectiveK(ab, k) \in Int
  PROVE  Works(r, "steady", c, Loop(r, ab, c, start, k))
<1> DEFINE n == EffectiveK(ab, k)
           step(j) == LoopStep(r, ab, c, start, j, ClockSteps(ab.clocks, k)[j])
           f == [j \in 1..n |-> step(j)]
<1>1. ASSUME NEW j, NEW ci PROVE Works(r, "steady", c, LoopStep(r, ab, c, start, j, ci))
  <2> DEFINE i == <<"restore", c, <<"loop", c>>>>
  <2>1. CASE r.paired
    <3>1. LoopStep(r, ab, c, start, j, ci) = <<i>> \o PairedStep(r, ab, c, start, ci)
      BY <2>1 DEF LoopStep
    <3>2. Works(r, "steady", c, <<i>> \o PairedStep(r, ab, c, start, ci))
      BY <2>1, PairedWorks
    <3> QED BY <3>1, <3>2
  <2>2. CASE ~r.paired
    <3>1. LoopStep(r, ab, c, start, j, ci) = <<i>> \o SingleStep(r, ab, c, start, ci)
      BY <2>2 DEF LoopStep
    <3>2. Works(r, "steady", c, SingleStep(r, ab, c, start, ci))
      BY <2>2, SingleWorks
    <3>3. i[1] = "restore" /\ i[2] = c
      OBVIOUS
    <3> HIDE DEF i
    <3>4. \A m : Whole(m) => Still(r, "steady", c, Do(r, i, m), m)
      BY <3>3, RestoreIs
    <3>5. Works(r, "steady", c, <<i>>)
      BY <3>4, WorksOne
    <3>6. Works(r, "steady", c, <<i>> \o SingleStep(r, ab, c, start, ci))
      BY <3>2, <3>5, WorksJoin
    <3> QED BY <3>1, <3>6
  <2> QED BY <2>1, <2>2
<1>2. \A j \in 1..n : Works(r, "steady", c, f[j])
  BY <1>1
<1>3. f = [j \in 1..n |-> f[j]]
  OBVIOUS
<1>4. Loop(r, ab, c, start, k) = FlattenSeq(f)
  BY DEF Loop
<1> HIDE DEF f
<1> QED BY <1>2, <1>3, <1>4, WorksFlat

LEMMA NoLoop ==
  ASSUME NEW r, NEW ab, NEW c, NEW start, NEW k, EffectiveK(ab, k) = 0
  PROVE  \A kind : Works(r, kind, c, Loop(r, ab, c, start, k))
<1> DEFINE step(j) == LoopStep(r, ab, c, start, j, ClockSteps(ab.clocks, k)[j])
           f == [j \in 1..0 |-> step(j)]
<1>1. f = [j \in 1..0 |-> f[j]] /\ 0 \in Int /\ 1..0 = {}
  OBVIOUS
<1>2. Loop(r, ab, c, start, k) = FlattenSeq(f)
  BY DEF Loop
<1> HIDE DEF f
<1>3. \A kind : Works(r, kind, c, FlattenSeq(f))
  BY <1>1, WorksFlat
<1> QED BY <1>2, <1>3

\* Contents that are kept or put back.
LEMMA ContentsAre ==
  ASSUME NEW m, NEW n, Whole(m), Whole(n), NEW d \in Contexts, NEW e \in Contexts
  PROVE  /\ n.live[d] = m.live[d] => Contents(n, d) = Contents(m, d)
         /\ n.live[d] = Contents(m, e) => Contents(n, d) = Contents(m, e)
<1>1. Contents(n, d) = [l \in Layers |-> n.live[d][l]]
  BY DEF Contents, Content, Whole, OwnCache
<1>2. Contents(m, d) = [l \in Layers |-> m.live[d][l]]
  BY DEF Contents, Content, Whole, OwnCache
<1>3. Contents(m, e) = [l \in Layers |-> Contents(m, e)[l]]
  BY DEF Contents
<1> QED BY <1>1, <1>2, <1>3

\* n has the snapshots of m but the one of key.
Hold(n, m, key) ==
  \A x \in DOMAIN m.snap : x # key => x \in DOMAIN n.snap /\ n.snap[x] = m.snap[x]

\* n is m with a snapshot of context c.
Snapped(n, m, c, key) ==
  /\ Whole(n) /\ Hold(n, m, key) /\ key \in DOMAIN n.snap /\ n.snap[key] = Contents(m, c)
  /\ n.w = m.w /\ n.rd = m.rd /\ n.delta = m.delta
  /\ n.z = m.z /\ n.z0 = m.z0 /\ n.live = m.live

LEMMA SnapIs ==
  ASSUME NEW r, NEW m, Whole(m), NEW i, i[1] = "snap"
  PROVE  Snapped(Do(r, i, m), m, i[2], i[3])
<1> DEFINE n == Do(r, i, m)
           key == i[3]
           cont == Contents(m, i[2])
           snaps == [x \in DOMAIN m.snap \cup {key} |->
                       IF x = key THEN cont ELSE m.snap[x]]
<1>1. n = [m EXCEPT !.snap = snaps]
  BY DEF Do, Snapshot
<1>2. /\ \A x \in DOMAIN m.snap : x # key => x \in DOMAIN snaps /\ snaps[x] = m.snap[x]
      /\ key \in DOMAIN snaps /\ snaps[key] = cont
  OBVIOUS
<1> HIDE DEF n, snaps
<1>3. /\ Parts \subseteq DOMAIN n /\ n.snap = snaps /\ n.stack = m.stack
      /\ n.w = m.w /\ n.rd = m.rd /\ n.delta = m.delta
      /\ n.z = m.z /\ n.z0 = m.z0 /\ n.live = m.live /\ n.alias = m.alias
  BY <1>1 DEF Whole, Parts
<1>4. Whole(n)
  BY <1>3 DEF Whole
<1> QED BY <1>2, <1>3, <1>4 DEF Snapped, Hold, n

\* Program p puts back the cache of context c that was saved as key.
Restores(r, c, key, p) ==
  \A m : Whole(m) => Executed(r, m, p).live[c] = m.snap[key]

\* A finally block that restores context c.
LEMMA FinallyWorks ==
  ASSUME NEW r, NEW k, NEW c \in Contexts, NEW body, Works(r, k, c, body),
         NEW i, i[1] = "finally", i[2] = c, NEW e, e[1] = "end",
         NEW p, p = <<i>> \o body \o <<e>>
  PROVE  Works(r, k, c, p) /\ Restores(r, c, i[3], p)
<1>1. IsSequence(body)
  BY DEF Works
<1>2. IsSequence(p)
  BY <1>1, InScope
<1>3. ASSUME NEW m, Whole(m)
      PROVE  /\ Still(r, k, c, Executed(r, m, p), m)
             /\ Executed(r, m, p).live[c] = m.snap[i[3]]
  <2> DEFINE m1 == Do(r, i, m)
             m2 == Executed(r, m1, body)
             n == Do(r, e, m2)
             key == i[3]
  <2>1. PICK f : /\ f[1] = "finally" /\ f = i /\ Pushed(f, m.stack, m1.stack)
                 /\ Beside(m1, m) /\ Whole(m1)
    BY <1>3, ScopeOpens
  <2>2. Still(r, k, c, m2, m1)
    BY <2>1 DEF Works
  <2>3. Executed(r, m, p) = n
    BY <1>1, InScope
  <2> HIDE DEF m1, m2
  <2>4. Whole(m2) /\ Pushed(f, m.stack, m2.stack) /\ IsSequence(m.stack)
    BY <1>3, <2>1, <2>2 DEF Still, SameRun, Whole
  <2>5. PICK mid : /\ mid.stack = m.stack /\ Beside(mid, m2) /\ Whole(mid)
                   /\ n = Restore(mid, f[2], f[3])
    BY <2>1, <2>4, FinallyEnds
  <2>6. n = Restore(mid, c, key)
    BY <2>1, <2>5
  <2> HIDE DEF n, key
  <2>7. Still(r, k, c, mid, m)
    BY <2>1, <2>2, <2>5, BesideStill
  <2>8. Still(r, k, c, n, mid) /\ n.live[c] = mid.snap[key]
    BY <2>5, <2>6, RestoreStill
  <2>9. Still(r, k, c, n, m)
    BY <2>7, <2>8, StillOn
  <2>10. mid.snap = m.snap
    BY <2>7 DEF Still, SameRun
  <2> QED BY <2>3, <2>8, <2>9, <2>10 DEF key
<1> QED BY <1>2, <1>3 DEF Works, Restores

\* A guard window around work in context c.
LEMMA GuardedWorks ==
  ASSUME NEW r, NEW k, NEW c \in Contexts, NEW key, NEW body, Works(r, k, c, body),
         Restores(r, c, key, body)
  PROVE  Works(r, k, c, Guarded(body)) /\ Restores(r, c, key, Guarded(body))
<1> DEFINE i == <<"window">>
           e == <<"end">>
           p == <<i>> \o body \o <<e>>
<1>0. Guarded(body) = p
  BY DEF Guarded
<1>1. i[1] = "window" /\ e[1] = "end"
  OBVIOUS
<1>2. IsSequence(body)
  BY DEF Works
<1> HIDE DEF i, e
<1>3. IsSequence(p)
  BY <1>2, InScope
<1>4. ASSUME NEW m, Whole(m)
      PROVE  /\ Still(r, k, c, Executed(r, m, p), m)
             /\ Executed(r, m, p).live[c] = m.snap[key]
  <2> DEFINE m1 == Do(r, i, m)
             m2 == Executed(r, m1, body)
             n == Do(r, e, m2)
  <2>1. PICK f : f[1] = "window" /\ Pushed(f, m.stack, m1.stack) /\ Beside(m1, m) /\ Whole(m1)
    BY <1>1, <1>4, ScopeOpens
  <2>2. Still(r, k, c, m2, m1) /\ m2.live[c] = m1.snap[key]
    BY <2>1 DEF Works, Restores
  <2>3. Executed(r, m, p) = n
    BY <1>2, InScope
  <2> HIDE DEF m1, m2
  <2>4. Whole(m2) /\ Pushed(f, m.stack, m2.stack) /\ IsSequence(m.stack)
    BY <1>4, <2>1, <2>2 DEF Still, SameRun, Whole
  <2>5. n.stack = m.stack /\ Beside(n, m2) /\ Whole(n)
    BY <1>1, <2>1, <2>4, ScopeEnds
  <2> HIDE DEF n
  <2>6. Still(r, k, c, n, m)
    BY <2>1, <2>2, <2>5, BesideStill
  <2>7. n.live[c] = m.snap[key]
    BY <2>1, <2>2, <2>5 DEF Beside
  <2> QED BY <2>3, <2>6, <2>7
<1> HIDE DEF p
<1>5. Works(r, k, c, p) /\ Restores(r, c, key, p)
  BY <1>3, <1>4 DEF Works, Restores
<1> QED BY <1>0, <1>5

\* What recurrent steps in context c make of m: only its state, and that only
\* when there is no control or something was learnt.
Recurred(r, ab, c, k, n, m) ==
  /\ Whole(n) /\ Hold(n, m, <<"loop", c>>)
  /\ n.w = m.w /\ n.rd = m.rd /\ n.delta = m.delta
  /\ \A d \in Contexts : n.z0[d] = m.z0[d] /\ Contents(n, d) = Contents(m, d)
  /\ \A d \in Contexts : d # c => n.z[d] = m.z[d]
  /\ "zero" \in ab.state => n.z[c] = n.z0[c]
  /\ ab.state \cap {"zero", "noise"} = {} /\ (Fresh(r, m.w) \/ EffectiveK(ab, k) = 0) =>
       n.z[c] = m.z[c]

LEMMA AblateIs ==
  ASSUME NEW r, Neutral(r), NEW c \in Contexts, NEW m, Whole(m), NEW i, i[1] = "ablate",
         i[2] = c
  PROVE  /\ Whole(Do(r, i, m)) /\ SameRun(Do(r, i, m), m)
         /\ Do(r, i, m).live = m.live /\ Do(r, i, m).z0 = m.z0
         /\ \A d \in Contexts : d # c => Do(r, i, m).z[d] = m.z[d]
         /\ i[3] = "zero" => Do(r, i, m).z[c] = m.z0[c]
<1> DEFINE n == Do(r, i, m)
           noise == <<"noise", m.z0[c], Difference(m.z[c], m.z0[c])>>
           new == IF i[3] = "zero" THEN m.z0[c] ELSE noise
<1>1. n = Ablate(r, m, c, i[3])
  BY DEF Do
<1>2. CASE i[3] \in {"zero", "noise"}
  <2>1. n = [m EXCEPT !.z[c] = new]
    BY <1>1, <1>2 DEF Ablate, Whole, Parts
  <2>4. i[3] = "zero" => new = m.z0[c]
    OBVIOUS
  <2> HIDE DEF n, new
  <2>2. /\ SameRun(n, m) /\ Parts \subseteq DOMAIN n /\ n.live = m.live /\ n.alias = m.alias
        /\ n.z0 = m.z0 /\ n.z[c] = new /\ DOMAIN n.z = DOMAIN m.z
        /\ \A d \in Contexts : d # c => n.z[d] = m.z[d]
    BY <2>1 DEF Whole, Parts, SameRun
  <2>3. Whole(n)
    BY <2>2 DEF Whole, SameRun
  <2> QED BY <2>2, <2>3, <2>4 DEF n
<1>3. CASE i[3] \notin {"zero", "noise"}
  <2>1. n = m
    BY <1>1, <1>3 DEF Ablate
  <2> HIDE DEF n
  <2> QED BY <1>3, <2>1 DEF SameRun, n
<1> QED BY <1>2, <1>3

\* Up to the state control.
LEMMA GuardedLoop ==
  ASSUME NEW r \in Runtimes, Neutral(r), NEW ab, NEW c \in Contexts, NEW start, NEW k,
         EffectiveK(ab, k) \in Int, NEW kind, kind = "steady" \/ EffectiveK(ab, k) = 0,
         NEW fin, fin = <<<<"finally", c, <<"loop", c>>>>>> \o Loop(r, ab, c, start, k)
                        \o <<<<"end">>>>
  PROVE  Works(r, kind, c, Guarded(fin)) /\ Restores(r, c, <<"loop", c>>, Guarded(fin))
<1> DEFINE loop == Loop(r, ab, c, start, k)
           i == <<"finally", c, <<"loop", c>>>>
           e == <<"end">>
           key == <<"loop", c>>
<1>1. Works(r, kind, c, loop)
  BY LoopWorks, NoLoop
<1>2. i[1] = "finally" /\ i[2] = c /\ i[3] = key /\ e[1] = "end"
  OBVIOUS
<1>3. fin = <<i>> \o loop \o <<e>>
  OBVIOUS
<1> HIDE DEF loop, i, e, key
<1>4. Works(r, kind, c, fin) /\ Restores(r, c, i[3], fin)
  BY <1>1, <1>2, <1>3, FinallyWorks
<1>5. Restores(r, c, key, fin)
  BY <1>2, <1>4
<1>6. Works(r, kind, c, Guarded(fin)) /\ Restores(r, c, key, Guarded(fin))
  BY <1>4, <1>5, GuardedWorks
<1> QED BY <1>6 DEF key

LEMMA StepsRecur ==
  ASSUME NEW r \in Runtimes, Neutral(r), NEW ab, NEW c \in Contexts, NEW start,
         NEW k \in 0..MaxK, EffectiveK(ab, k) \in Int, NEW m, Whole(m)
  PROVE  Recurred(r, ab, c, k, Executed(r, m, LatentSteps(r, ab, c, start, k)), m)
<1> DEFINE key == <<"loop", c>>
           sn == <<"snap", c, key>>
           fin == <<<<"finally", c, key>>>> \o Loop(r, ab, c, start, k) \o <<<<"end">>>>
           body == Guarded(fin)
           last == StateControls(c, ab.state)
           az == <<"ablate", c, "zero">>
           an == <<"ablate", c, "noise">>
           first == <<sn>>
           m1 == Do(r, sn, m)
           m2 == Executed(r, m1, body)
           n == Executed(r, m2, last)
<1>1. /\ sn[1] = "snap" /\ sn[2] = c /\ sn[3] = key
      /\ az[1] = "ablate" /\ az[2] = c /\ az[3] = "zero" /\ an[1] = "ablate" /\ an[2] = c
  OBVIOUS
<1>2. last = IF "zero" \in ab.state THEN <<az>>
             ELSE IF "noise" \in ab.state THEN <<an>> ELSE <<>>
  BY DEF StateControls
<1>3. LatentSteps(r, ab, c, start, k) = first \o body \o last
  BY DEF LatentSteps
<1>4. Works(r, "steady", c, body)
  BY GuardedLoop
<1>5. Restores(r, c, key, body)
  BY GuardedLoop
<1>6. ASSUME EffectiveK(ab, k) = 0 PROVE Works(r, "pass", c, body)
  <2> DEFINE kind == "pass"
  <2>1. kind = "steady" \/ EffectiveK(ab, k) = 0
    BY <1>6
  <2> HIDE DEF kind
  <2>2. Works(r, kind, c, body)
    BY <2>1, GuardedLoop
  <2> QED BY <2>2 DEF kind
<1>7. IsSequence(first) /\ Executed(r, m, first) = m1
  BY OneIs, ExecutedOne
<1> HIDE DEF key, sn, body, az, an, first, last
<1>8. IsSequence(body)
  BY <1>4 DEF Works
<1>9. IsSequence(last)
  BY <1>2, OneIs, NothingIs
<1>10. Executed(r, m, LatentSteps(r, ab, c, start, k)) = n
  <2>1. IsSequence(first \o body)
    BY <1>7, <1>8, JoinIs
  <2>2. Executed(r, m, first \o body) = m2
    BY <1>7, <1>8, ExecutedJoin
  <2> HIDE DEF m2
  <2>3. Executed(r, m, first \o body \o last) = Executed(r, Executed(r, m, first \o body), last)
    BY <1>9, <2>1, ExecutedJoin
  <2> QED BY <1>3, <2>2, <2>3
<1>11. Snapped(m1, m, c, key)
  BY <1>1, SnapIs
<1> HIDE DEF m1
<1>12. /\ Whole(m1) /\ Hold(m1, m, key) /\ key \in DOMAIN m1.snap
       /\ m1.snap[key] = Contents(m, c) /\ m1.w = m.w /\ m1.rd = m.rd /\ m1.delta = m.delta
       /\ m1.z = m.z /\ m1.z0 = m.z0 /\ m1.live = m.live
  BY <1>11 DEF Snapped
<1>13. Still(r, "steady", c, m2, m1) /\ m2.live[c] = m1.snap[key]
  BY <1>4, <1>5, <1>12 DEF Works, Restores
<1>14. EffectiveK(ab, k) = 0 => Still(r, "pass", c, m2, m1)
  BY <1>6, <1>12 DEF Works
<1> HIDE DEF m2
<1>15. /\ Whole(m2) /\ Hold(m2, m, key) /\ m2.w = m.w /\ m2.rd = m.rd /\ m2.delta = m.delta
       /\ \A d \in Contexts : m2.z0[d] = m.z0[d]
       /\ \A d \in Contexts : d # c => m2.z[d] = m.z[d] /\ m2.live[d] = m.live[d]
       /\ m2.live[c] = Contents(m, c)
       /\ Fresh(r, m.w) \/ EffectiveK(ab, k) = 0 => m2.z[c] = m.z[c]
  BY <1>12, <1>13, <1>14 DEF Still, SameRun, Hold
<1>16. \A d \in Contexts : Contents(m2, d) = Contents(m, d)
  BY <1>15, ContentsAre
<1>17. CASE "zero" \notin ab.state /\ "noise" \notin ab.state
  <2>1. n = m2
    BY <1>2, <1>17, ExecutedNone
  <2> HIDE DEF n
  <2>2. Recurred(r, ab, c, k, n, m)
    BY <1>15, <1>16, <1>17, <2>1 DEF Recurred, key
  <2> QED BY <1>10, <2>2
<1>18. ASSUME NEW i \in {az, an}, last = <<i>>, ab.state \cap {"zero", "noise"} # {},
              "zero" \in ab.state => i = az
       PROVE  Recurred(r, ab, c, k, n, m)
  <2>1. n = Do(r, i, m2)
    BY <1>18, ExecutedOne
  <2>2. i[1] = "ablate" /\ i[2] = c
    BY <1>1, <1>18
  <2>3. /\ Whole(n) /\ SameRun(n, m2) /\ n.live = m2.live /\ n.z0 = m2.z0
        /\ \A d \in Contexts : d # c => n.z[d] = m2.z[d]
        /\ i[3] = "zero" => n.z[c] = m2.z0[c]
    BY <1>15, <2>1, <2>2, AblateIs
  <2> HIDE DEF n
  <2>4. \A d \in Contexts : Contents(n, d) = Contents(m2, d)
    BY <1>15, <2>3, ContentsAre
  <2>5. "zero" \in ab.state => n.z[c] = n.z0[c]
    BY <1>1, <1>18, <2>3
  <2>6. n.w = m.w /\ n.rd = m.rd /\ n.delta = m.delta /\ n.snap = m2.snap
    BY <1>15, <2>3 DEF SameRun
  <2>7. Hold(n, m, key)
    BY <1>15, <2>6 DEF Hold
  <2> QED BY <1>15, <1>16, <1>18, <2>3, <2>4, <2>5, <2>6, <2>7 DEF Recurred, key
<1>19. CASE "zero" \in ab.state
  BY <1>2, <1>10, <1>18, <1>19
<1>20. CASE "zero" \notin ab.state /\ "noise" \in ab.state
  BY <1>2, <1>10, <1>18, <1>20
<1> QED BY <1>17, <1>19, <1>20

----------------------------------------------------------------------------
(* Readouts that carry nothing                                             *)

\* Nothing of the recurrence is left in the carrier of a call: its state is
\* zeroed, or it has not moved.
Quiet(r, w, a) ==
  \/ "zero" \in a.ab.state
  \/ "noise" \notin a.ab.state /\ (Fresh(r, w) \/ EffectiveK(a.ab, a.k) = 0)

\* n still has the prompt of e in the target's cache.
Since(a, n, e) ==
  /\ Whole(n) /\ n.w = e.w /\ n.z0["target"] = e.z0["target"]
  /\ Contents(n, "target") = Contents(e, "target")
  /\ a.ab.cache => /\ <<"prompt">> \in DOMAIN n.snap
                   /\ n.snap[<<"prompt">>] = Contents(e, "target")

\* Nothing of the recurrence is read.
Unmoved(n) == n.delta = Zero /\ n.rd = n.z0["target"]

LEMMA SinceKept ==
  ASSUME NEW a, NEW e, NEW m, NEW n, Since(a, m, e), Whole(n), n.w = m.w,
         n.z0["target"] = m.z0["target"], n.snap = m.snap,
         n.live["target"] = m.live["target"]
  PROVE  Since(a, n, e)
<1>1. Whole(m) /\ "target" \in Contexts
  BY DEF Since, Contexts
<1>2. Contents(n, "target") = Contents(m, "target")
  BY <1>1, ContentsAre
<1> QED BY <1>2 DEF Since

LEMMA SinceRecurred ==
  ASSUME NEW r, NEW a, NEW e, NEW m, NEW n, NEW ab, NEW c, NEW k, Since(a, m, e),
         Recurred(r, ab, c, k, n, m)
  PROVE  Since(a, n, e)
<1> DEFINE x == <<"prompt">>
           y == <<"loop", c>>
<1>1. x[1] = "prompt" /\ y[1] = "loop"
  OBVIOUS
<1>2. Hold(n, m, y) /\ "target" \in Contexts
  BY DEF Recurred, Contexts
<1>3. a.ab.cache => x \in DOMAIN m.snap /\ m.snap[x] = Contents(e, "target")
  BY DEF Since
<1> HIDE DEF x, y
<1>4. x # y
  BY <1>1
<1>5. a.ab.cache => x \in DOMAIN n.snap /\ n.snap[x] = Contents(e, "target")
  BY <1>2, <1>3, <1>4 DEF Hold
<1>6. /\ Whole(n) /\ n.w = e.w /\ n.z0["target"] = e.z0["target"]
      /\ Contents(n, "target") = Contents(e, "target")
  BY <1>2 DEF Since, Recurred
<1> QED BY <1>5, <1>6 DEF Since, x

\* A quiet carrier stays at the boundary.
LEMMA QuietStays ==
  ASSUME NEW r, NEW a, NEW ab, ab = a.ab, NEW k, k = a.k, NEW w, NEW c \in Contexts,
         NEW m, m.w = w, NEW n, Recurred(r, ab, c, k, n, m), Quiet(r, w, a), m.z[c] = m.z0[c]
  PROVE  n.z[c] = n.z0[c]
<1>1. CASE "zero" \in a.ab.state
  BY <1>1 DEF Recurred
<1>2. CASE "zero" \notin a.ab.state
  <2>1. a.ab.state \cap {"zero", "noise"} = {} /\ (Fresh(r, m.w) \/ EffectiveK(a.ab, a.k) = 0)
    BY <1>2 DEF Quiet
  <2>2. n.z[c] = m.z[c]
    BY <2>1 DEF Recurred
  <2>3. n.z0[c] = m.z0[c]
    BY DEF Recurred
  <2> QED BY <2>2, <2>3
<1> QED BY <1>1, <1>2

LEMMA ReadoutIs ==
  ASSUME NEW r, Neutral(r), NEW c \in Contexts, NEW m, Whole(m), NEW i, i[1] = "readout",
         i[2] = c
  PROVE  /\ Whole(Do(r, i, m)) /\ Do(r, i, m).w = m.w /\ Do(r, i, m).snap = m.snap
         /\ Do(r, i, m).live = m.live /\ Do(r, i, m).z = m.z /\ Do(r, i, m).z0 = m.z0
         /\ m.z[c] = m.z0[c] => Unmoved(Do(r, i, m))
<1> DEFINE d == Difference(m.z[c], m.z0[c])
           rd == Plus(m.z0["target"], d)
           n == Do(r, i, m)
<1>1. n = [m EXCEPT !.delta = d, !.rd = rd]
  BY DEF Do, Readout
<1>2. m.z[c] = m.z0[c] => d = Zero /\ rd = m.z0["target"]
  BY DEF Difference, Plus
<1> HIDE DEF n, d, rd
<1>3. /\ Parts \subseteq DOMAIN n /\ n.delta = d /\ n.rd = rd /\ n.w = m.w /\ n.snap = m.snap
      /\ n.live = m.live /\ n.alias = m.alias /\ n.stack = m.stack /\ n.z = m.z /\ n.z0 = m.z0
  BY <1>1 DEF Whole, Parts
<1>4. Whole(n)
  BY <1>3 DEF Whole
<1> QED BY <1>2, <1>3, <1>4 DEF Unmoved, n

LEMMA ResetIs ==
  ASSUME NEW r, NEW m, Whole(m), NEW i, i[1] = "reset"
  PROVE  /\ Whole(Do(r, i, m)) /\ Do(r, i, m).w = m.w /\ Do(r, i, m).snap = m.snap
         /\ Do(r, i, m).live = m.live /\ Do(r, i, m).z0 = m.z0 /\ Unmoved(Do(r, i, m))
<1> DEFINE n == Do(r, i, m)
           rd == m.z0["target"]
<1>1. n = [m EXCEPT !.rd = rd, !.delta = Zero]
  BY DEF Do
<1> HIDE DEF n
<1>3. /\ Parts \subseteq DOMAIN n /\ n.delta = Zero /\ n.rd = rd /\ n.w = m.w
      /\ n.snap = m.snap /\ n.live = m.live /\ n.alias = m.alias /\ n.stack = m.stack
      /\ n.z = m.z /\ n.z0 = m.z0
  BY <1>1 DEF Whole, Parts
<1>4. Whole(n)
  BY <1>3 DEF Whole
<1> QED BY <1>3, <1>4 DEF Unmoved, n

LEMMA ViewIs ==
  ASSUME NEW r, NEW m, Whole(m), NEW i, i[1] = "view"
  PROVE  /\ Do(r, i, m).w = m.w /\ Do(r, i, m).snap = m.snap /\ Do(r, i, m).rd = m.rd
         /\ Do(r, i, m).delta = m.delta /\ Do(r, i, m).z0 = m.z0
<1> DEFINE n == Do(r, i, m)
           seen == Contents(m, "target")
<1>1. n = [m EXCEPT !.view = seen]
  BY DEF Do
<1> HIDE DEF n, seen
<1>2. n.w = m.w /\ n.snap = m.snap /\ n.rd = m.rd /\ n.delta = m.delta /\ n.z0 = m.z0
  BY <1>1
<1> QED BY <1>2 DEF n

LEMMA RestWhole ==
  ASSUME NEW r, NEW w
  PROVE  /\ Whole(Rest(r, w)) /\ Rest(r, w).w = w
         /\ \A d \in Contexts : Rest(r, w).z[d] = Rest(r, w).z0[d]
<1> DEFINE m == Rest(r, w)
<1>1. /\ Parts \subseteq DOMAIN m /\ m.w = w /\ m.stack = <<>>
      /\ m.live = [c \in Contexts |-> [l \in Layers |-> <<>>]]
      /\ m.alias = [c \in Contexts |-> [l \in Layers |-> Own]]
      /\ m.z0 = [c \in Contexts |-> Zero] /\ m.z = [c \in Contexts |-> Zero]
  BY DEF Rest, Parts
<1> HIDE DEF m
<1>2. Whole(m)
  BY <1>1, NothingIs DEF Whole, OwnCache
<1> QED BY <1>1, <1>2 DEF m

\* The stages of a score call up to its readout.
Stages(r, m, n, p1, p2, p3, p4, p5, p6, p7, p8, p9) ==
  \E s1, s2, s3, s4, s5, s6, s7, s8 :
    /\ s1 = Executed(r, m, p1) /\ s2 = Executed(r, s1, p2) /\ s3 = Executed(r, s2, p3)
    /\ s4 = Executed(r, s3, p4) /\ s5 = Executed(r, s4, p5) /\ s6 = Executed(r, s5, p6)
    /\ s7 = Executed(r, s6, p7) /\ s8 = Executed(r, s7, p8) /\ n = Executed(r, s8, p9)

\* The parts p1..p9 of program w.
InParts(w, p1, p2, p3, p4, p5, p6, p7, p8, p9) ==
  /\ IsSequence(p1) /\ IsSequence(p2) /\ IsSequence(p3) /\ IsSequence(p4)
  /\ IsSequence(p5) /\ IsSequence(p6) /\ IsSequence(p7) /\ IsSequence(p8)
  /\ IsSequence(p9) /\ w = p1 \o p2 \o p3 \o p4 \o p5 \o p6 \o p7 \o p8 \o p9

LEMMA StagesAre ==
  ASSUME NEW r, NEW m, NEW w, NEW p1, NEW p2, NEW p3, NEW p4, NEW p5, NEW p6, NEW p7, NEW p8,
         NEW p9, InParts(w, p1, p2, p3, p4, p5, p6, p7, p8, p9)
  PROVE  /\ Stages(r, m, Executed(r, m, w), p1, p2, p3, p4, p5, p6, p7, p8, p9)
         /\ Unrefused(w) => /\ Unrefused(p1) /\ Unrefused(p2) /\ Unrefused(p3)
                            /\ Unrefused(p4) /\ Unrefused(p6)
<1> DEFINE w2 == p1 \o p2
           w3 == w2 \o p3
           w4 == w3 \o p4
           w5 == w4 \o p5
           w6 == w5 \o p6
           w7 == w6 \o p7
           w8 == w7 \o p8
           w9 == w8 \o p9
           s1 == Executed(r, m, p1)
           s2 == Executed(r, s1, p2)
           s3 == Executed(r, s2, p3)
           s4 == Executed(r, s3, p4)
           s5 == Executed(r, s4, p5)
           s6 == Executed(r, s5, p6)
           s7 == Executed(r, s6, p7)
           s8 == Executed(r, s7, p8)
           n == Executed(r, s8, p9)
<1>1. /\ w = w9 /\ IsSequence(p1) /\ IsSequence(p2) /\ IsSequence(p3) /\ IsSequence(p4)
      /\ IsSequence(p5) /\ IsSequence(p6) /\ IsSequence(p7) /\ IsSequence(p8)
      /\ IsSequence(p9)
  BY DEF InParts
<1>2. /\ IsSequence(w2) /\ Executed(r, m, w2) = s2
      /\ Unrefused(w2) => Unrefused(p1) /\ Unrefused(p2)
  BY <1>1, JoinIs, ExecutedJoin, UnrefusedJoin
<1> HIDE DEF w2, s1
<1>3. /\ IsSequence(w3) /\ Executed(r, m, w3) = s3
      /\ Unrefused(w3) => Unrefused(w2) /\ Unrefused(p3)
  BY <1>1, <1>2, JoinIs, ExecutedJoin, UnrefusedJoin
<1> HIDE DEF w3, s2
<1>4. /\ IsSequence(w4) /\ Executed(r, m, w4) = s4
      /\ Unrefused(w4) => Unrefused(w3) /\ Unrefused(p4)
  BY <1>1, <1>3, JoinIs, ExecutedJoin, UnrefusedJoin
<1> HIDE DEF w4, s3
<1>5. /\ IsSequence(w5) /\ Executed(r, m, w5) = s5
      /\ Unrefused(w5) => Unrefused(w4) /\ Unrefused(p5)
  BY <1>1, <1>4, JoinIs, ExecutedJoin, UnrefusedJoin
<1> HIDE DEF w5, s4
<1>6. /\ IsSequence(w6) /\ Executed(r, m, w6) = s6
      /\ Unrefused(w6) => Unrefused(w5) /\ Unrefused(p6)
  BY <1>1, <1>5, JoinIs, ExecutedJoin, UnrefusedJoin
<1> HIDE DEF w6, s5
<1>7. /\ IsSequence(w7) /\ Executed(r, m, w7) = s7
      /\ Unrefused(w7) => Unrefused(w6) /\ Unrefused(p7)
  BY <1>1, <1>6, JoinIs, ExecutedJoin, UnrefusedJoin
<1> HIDE DEF w7, s6
<1>8. /\ IsSequence(w8) /\ Executed(r, m, w8) = s8
      /\ Unrefused(w8) => Unrefused(w7) /\ Unrefused(p8)
  BY <1>1, <1>7, JoinIs, ExecutedJoin, UnrefusedJoin
<1> HIDE DEF w8, s7
<1>9. Executed(r, m, w9) = n /\ (Unrefused(w9) => Unrefused(w8) /\ Unrefused(p9))
  BY <1>1, <1>8, ExecutedJoin, UnrefusedJoin
<1> HIDE DEF w9
<1>10. Stages(r, m, n, p1, p2, p3, p4, p5, p6, p7, p8, p9)
  BY DEF Stages, s8, s7, s6, s5, s4, s3, s2, s1
<1> HIDE DEF n
<1> QED BY <1>1, <1>2, <1>3, <1>4, <1>5, <1>6, <1>7, <1>8, <1>9, <1>10

\* The parts of ReadPrefix(r, a).
PromptPart(a) == IF a.ab.cache THEN <<<<"snap", "target", <<"prompt">>>>>> ELSE <<>>
PartnerPart(r, a) == IF "swap" \in a.ab.state THEN Encode(r, "partner", a.q) ELSE <<>>
Recurring(r, a, c, p) == LatentSteps(r, a.ab, c, PromptLen[p], a.k)
SwapPart(r, a) ==
  IF "swap" \in a.ab.state THEN Recurring(r, a, "partner", a.q) \o <<<<"readout", "partner">>>>
  ELSE <<>>
ResetPart(a) == IF "reset" \in a.ab.state THEN <<<<"reset">>>> ELSE <<>>
BackPart(a) == IF a.ab.cache THEN <<<<"restore", "target", <<"prompt">>>>>> ELSE <<>>
ReadPart == <<<<"snap", "target", <<"read">>>>, <<"view">>>>

PrefixStages(r, a, m, n) ==
  Stages(r, m, n, Encode(r, "target", a.p), PromptPart(a), PartnerPart(r, a),
         Recurring(r, a, "target", a.p), <<<<"readout", "target">>>>, SwapPart(r, a),
         ResetPart(a), BackPart(a), ReadPart)

LEMMA PrefixInStages ==
  ASSUME NEW r \in Runtimes, NEW a \in CallArguments, NEW m
  PROVE  /\ PrefixStages(r, a, m, Executed(r, m, ReadPrefix(r, a)))
         /\ Unrefused(ReadPrefix(r, a)) =>
              /\ Unrefused(Encode(r, "target", a.p)) /\ Unrefused(PartnerPart(r, a))
              /\ Unrefused(Recurring(r, a, "target", a.p)) /\ Unrefused(SwapPart(r, a))
<1> DEFINE p1 == Encode(r, "target", a.p)
           p2 == PromptPart(a)
           p3 == PartnerPart(r, a)
           p4 == Recurring(r, a, "target", a.p)
           rt1 == <<"readout", "target">>
           p5 == <<rt1>>
           p6 == SwapPart(r, a)
           p7 == ResetPart(a)
           p8 == BackPart(a)
           p9 == ReadPart
           w == ReadPrefix(r, a)
<1>1. w = p1 \o p2 \o p3 \o p4 \o p5 \o p6 \o p7 \o p8 \o p9
  BY DEF ReadPrefix, PromptPart, PartnerPart, Recurring, SwapPart, ResetPart, BackPart, ReadPart
<1>2. IsSequence(p1) /\ IsSequence(p3)
  BY EncodeRuns, NothingIs DEF Runs, PartnerPart
<1>3. ASSUME NEW c, NEW p PROVE IsSequence(Recurring(r, a, c, p))
  <2>1. Runs(LatentSteps(r, a.ab, c, PromptLen[p], a.k), "out", "out")
    BY ArgumentTypes, LatentStepsRuns
  <2> QED BY <2>1 DEF Runs, Recurring
<1>4. IsSequence(p2) /\ IsSequence(p5) /\ IsSequence(p7) /\ IsSequence(p8)
  BY OneIs, NothingIs DEF PromptPart, ResetPart, BackPart
<1>5. IsSequence(p6)
  <2> DEFINE i == <<"readout", "partner">>
             q == Recurring(r, a, "partner", a.q)
  <2>1. p6 = IF "swap" \in a.ab.state THEN q \o <<i>> ELSE <<>>
    BY DEF SwapPart
  <2>2. IsSequence(q)
    BY <1>3
  <2>3. IsSequence(<<i>>)
    BY OneIs
  <2> HIDE DEF q, i, p6
  <2> QED BY <2>1, <2>2, <2>3, JoinIs, NothingIs
<1>6. IsSequence(p9)
  <2> DEFINE i == <<"snap", "target", <<"read">>>>
             j == <<"view">>
  <2>1. p9 = <<i>> \o <<j>>
    BY PairJoined DEF ReadPart
  <2>2. IsSequence(<<i>>) /\ IsSequence(<<j>>)
    BY OneIs
  <2> HIDE DEF i, j, p9
  <2> QED BY <2>1, <2>2, JoinIs
<1>7. IsSequence(p4)
  BY <1>3
<1> HIDE DEF p1, p2, p3, p4, p5, p6, p7, p8, p9, w
<1>8. /\ Stages(r, m, Executed(r, m, w), p1, p2, p3, p4, p5, p6, p7, p8, p9)
      /\ Unrefused(w) => /\ Unrefused(p1) /\ Unrefused(p3) /\ Unrefused(p4) /\ Unrefused(p6)
  <2>1. InParts(w, p1, p2, p3, p4, p5, p6, p7, p8, p9)
    BY <1>1, <1>2, <1>4, <1>5, <1>6, <1>7 DEF InParts
  <2> QED BY <2>1, StagesAre
<1> QED BY <1>8 DEF PrefixStages, p1, p2, p3, p4, p5, p6, p7, p8, p9, w, rt1

\* The readout b is that of the prompt e alone.
NothingRead(b, e) ==
  /\ b.rd = e.z0["target"] /\ b.delta = Zero
  /\ b.snap[<<"read">>] = Contents(e, "target") /\ b.w = e.w

\* An encoded prompt of a fresh runtime with trainables w.
Encoded(r, w, p) == Executed(r, Rest(r, w), Encode(r, "target", p))

LEMMA StepsInRange ==
  ASSUME NEW r, NEW a, NEW c, NEW p, Unrefused(Recurring(r, a, c, p))
  PROVE  a.k \in 0..MaxK
<1> SUFFICES ASSUME a.k \notin 0..MaxK PROVE FALSE
  OBVIOUS
<1> DEFINE err == <<"raise">>
           o == <<err>>
<1>1. Recurring(r, a, c, p) = o
  BY DEF Recurring, LatentSteps
<1>2. err[1] = "raise"
  OBVIOUS
<1> HIDE DEF err
<1>3. Len(o) = 1 /\ o[1] = err
  BY OneIs
<1> HIDE DEF o
<1>4. 1 \in 1..Len(o)
  BY <1>3
<1>5. ~Unrefused(o)
  BY <1>2, <1>3, <1>4 DEF Unrefused
<1> QED BY <1>1, <1>5

\* From the encoded prompt to the recurrent steps of the target.
LEMMA BeforeSteps ==
  ASSUME NEW r \in Runtimes, NEW a \in CallArguments, NEW w, NEW s1, NEW s2, NEW s3,
         s1 = Encoded(r, w, a.p), s2 = Executed(r, s1, PromptPart(a)),
         s3 = Executed(r, s2, PartnerPart(r, a)),
         Unrefused(Encode(r, "target", a.p)), Unrefused(PartnerPart(r, a))
  PROVE  /\ Since(a, s3, s1) /\ Whole(s1) /\ s1.w = w
         /\ \A d \in Contexts : s3.z[d] = s3.z0[d]
<1>0. "target" \in Contexts /\ "partner" \in Contexts /\ Contexts = {"target", "partner"}
  BY DEF Contexts
<1>1. /\ Whole(s1) /\ s1.w = w /\ \A d \in Contexts : s1.z[d] = s1.z0[d]
  <2> DEFINE m == Rest(r, w)
  <2>1. Whole(m) /\ m.w = w /\ \A d \in Contexts : m.z[d] = m.z0[d]
    BY RestWhole
  <2>2. Works(r, "encode", "target", Encode(r, "target", a.p))
    BY <1>0, EncodeWorks
  <2>3. s1 = Executed(r, m, Encode(r, "target", a.p))
    BY DEF Encoded
  <2> HIDE DEF m
  <2>4. Still(r, "encode", "target", s1, m)
    BY <2>1, <2>2, <2>3 DEF Works
  <2> QED BY <1>0, <2>1, <2>4 DEF Still, SameRun
<1>2. Since(a, s2, s1) /\ s2.z = s1.z /\ s2.z0 = s1.z0
  <2>1. CASE ~a.ab.cache
    <3>1. s2 = s1
      BY <2>1, ExecutedNone DEF PromptPart
    <3> QED BY <1>1, <2>1, <3>1 DEF Since
  <2>2. CASE a.ab.cache
    <3> DEFINE x == <<"prompt">>
               i == <<"snap", "target", x>>
    <3>1. i[1] = "snap" /\ i[2] = "target" /\ i[3] = x
      OBVIOUS
    <3>2. PromptPart(a) = <<i>>
      BY <2>2 DEF PromptPart
    <3> HIDE DEF i, x
    <3>3. s2 = Do(r, i, s1)
      BY <3>2, ExecutedOne
    <3>4. Snapped(s2, s1, "target", x)
      BY <1>1, <3>1, <3>3, SnapIs
    <3>5. /\ Whole(s2) /\ x \in DOMAIN s2.snap /\ s2.snap[x] = Contents(s1, "target")
          /\ s2.w = s1.w /\ s2.z = s1.z /\ s2.z0 = s1.z0 /\ s2.live = s1.live
      BY <3>4 DEF Snapped
    <3>6. Contents(s2, "target") = Contents(s1, "target")
      BY <1>0, <1>1, <3>5, ContentsAre
    <3> QED BY <2>2, <3>5, <3>6 DEF Since, x
  <2> QED BY <2>1, <2>2
<1>3. CASE "swap" \notin a.ab.state
  <2>1. s3 = s2
    BY <1>3, ExecutedNone DEF PartnerPart
  <2> QED BY <1>1, <1>2, <2>1
<1>4. CASE "swap" \in a.ab.state
  <2> DEFINE enc == Encode(r, "partner", a.q)
  <2>1. PartnerPart(r, a) = enc
    BY <1>4 DEF PartnerPart
  <2>2. Works(r, "encode", "partner", enc)
    BY <1>0, <2>1, EncodeWorks
  <2> HIDE DEF enc
  <2>3. Whole(s2)
    BY <1>2 DEF Since
  <2>4. Still(r, "encode", "partner", s3, s2)
    BY <2>1, <2>2, <2>3 DEF Works
  <2>5. /\ Whole(s3) /\ s3.w = s2.w /\ s3.snap = s2.snap
        /\ s3.z0["target"] = s2.z0["target"] /\ s3.z["target"] = s2.z["target"]
        /\ s3.live["target"] = s2.live["target"]
        /\ s2.z["partner"] = s2.z0["partner"] => s3.z["partner"] = s3.z0["partner"]
    BY <1>0, <2>4 DEF Still, SameRun
  <2>6. Since(a, s3, s1)
    BY <1>2, <2>5, SinceKept
  <2> QED BY <1>0, <1>1, <1>2, <2>5, <2>6
<1> QED BY <1>3, <1>4

\* The recurrent steps and readouts.
LEMMA AfterReadouts ==
  ASSUME NEW r \in Runtimes, Neutral(r), NEW a \in CallArguments, NEW e, NEW s3, NEW s4,
         NEW s5, NEW s6, Since(a, s3, e), \A d \in Contexts : s3.z[d] = s3.z0[d],
         s4 = Executed(r, s3, Recurring(r, a, "target", a.p)),
         s5 = Executed(r, s4, <<<<"readout", "target">>>>),
         s6 = Executed(r, s5, SwapPart(r, a)), a.k \in 0..MaxK
  PROVE  Since(a, s6, e) /\ (Quiet(r, e.w, a) => Unmoved(s6))
<1>0. "target" \in Contexts /\ "partner" \in Contexts /\ "partner" # "target"
  BY DEF Contexts
<1>1. EffectiveK(a.ab, a.k) \in Int
  BY ArgumentTypes
<1>2. ASSUME NEW c \in Contexts, NEW p, NEW m, Whole(m)
      PROVE  Recurred(r, a.ab, c, a.k, Executed(r, m, Recurring(r, a, c, p)), m)
  BY <1>1, <1>2, StepsRecur DEF Recurring
<1>3. Whole(s3) /\ s3.w = e.w
  BY DEF Since
<1>4. Recurred(r, a.ab, "target", a.k, s4, s3)
  BY <1>0, <1>2, <1>3
<1>5. Since(a, s4, e)
  BY <1>4, SinceRecurred
<1>6. ASSUME Quiet(r, e.w, a) PROVE s4.z["target"] = s4.z0["target"]
  <2>1. Quiet(r, s3.w, a)
    BY <1>3, <1>6
  <2>2. s3.z["target"] = s3.z0["target"]
    BY <1>0
  <2> QED BY <1>0, <1>4, <2>1, <2>2, QuietStays
<1>7. s4.z["partner"] = s4.z0["partner"] /\ Whole(s4) /\ s4.w = e.w
  BY <1>0, <1>3, <1>4 DEF Recurred
<1>8. /\ Whole(s5) /\ s5.w = s4.w /\ s5.snap = s4.snap /\ s5.live = s4.live
      /\ s5.z = s4.z /\ s5.z0 = s4.z0
      /\ s4.z["target"] = s4.z0["target"] => Unmoved(s5)
  <2> DEFINE i == <<"readout", "target">>
  <2>1. i[1] = "readout" /\ i[2] = "target"
    OBVIOUS
  <2>2. s5 = Executed(r, s4, <<i>>)
    OBVIOUS
  <2> HIDE DEF i
  <2>3. s5 = Do(r, i, s4)
    BY <2>2, ExecutedOne
  <2> QED BY <1>0, <1>7, <2>1, <2>3, ReadoutIs
<1>9. Since(a, s5, e)
  BY <1>5, <1>8, SinceKept
<1>10. CASE "swap" \notin a.ab.state
  <2>1. s6 = s5
    BY <1>10, ExecutedNone DEF SwapPart
  <2> QED BY <1>6, <1>8, <1>9, <2>1
<1>11. CASE "swap" \in a.ab.state
  <2> DEFINE q == Recurring(r, a, "partner", a.q)
             i == <<"readout", "partner">>
             m == Executed(r, s5, q)
  <2>1. i[1] = "readout" /\ i[2] = "partner"
    OBVIOUS
  <2>2. SwapPart(r, a) = q \o <<i>>
    BY <1>11 DEF SwapPart
  <2>3. Runs(q, "out", "out")
    BY <1>1, LatentStepsRuns DEF Recurring
  <2>4. IsSequence(q)
    BY <2>3 DEF Runs
  <2>5. Recurred(r, a.ab, "partner", a.k, m, s5)
    BY <1>0, <1>2, <1>8
  <2> HIDE DEF q, i
  <2>6. s6 = Do(r, i, m)
    BY <2>2, <2>4, ExecutedOn
  <2> HIDE DEF m
  <2>7. Since(a, m, e)
    BY <1>9, <2>5, SinceRecurred
  <2>8. Whole(m)
    BY <2>7 DEF Since
  <2>9. ASSUME Quiet(r, e.w, a) PROVE m.z["partner"] = m.z0["partner"]
    <3>1. Quiet(r, s5.w, a)
      BY <1>7, <1>8, <2>9
    <3>2. s5.z["partner"] = s5.z0["partner"]
      BY <1>7, <1>8
    <3> QED BY <1>0, <2>5, <3>1, <3>2, QuietStays
  <2>10. /\ Whole(s6) /\ s6.w = m.w /\ s6.snap = m.snap /\ s6.live = m.live
         /\ s6.z = m.z /\ s6.z0 = m.z0
         /\ m.z["partner"] = m.z0["partner"] => Unmoved(s6)
    BY <1>0, <2>1, <2>6, <2>8, ReadoutIs
  <2>11. Since(a, s6, e)
    BY <2>7, <2>10, SinceKept
  <2> QED BY <2>9, <2>10, <2>11
<1> QED BY <1>10, <1>11

\* What is read in the end.
LEMMA ReadsNothing ==
  ASSUME NEW r, NEW a, NEW e, Whole(e), NEW s6, NEW s7, NEW s8, NEW n, Since(a, s6, e),
         s7 = Executed(r, s6, ResetPart(a)), s8 = Executed(r, s7, BackPart(a)),
         n = Executed(r, s8, ReadPart), "reset" \in a.ab.state \/ Unmoved(s6)
  PROVE  NothingRead(n, e)
<1>0. "target" \in Contexts
  BY DEF Contexts
<1>1. Since(a, s7, e) /\ Unmoved(s7)
  <2>1. CASE "reset" \notin a.ab.state
    <3>1. s7 = s6
      BY <2>1, ExecutedNone DEF ResetPart
    <3> QED BY <2>1, <3>1
  <2>2. CASE "reset" \in a.ab.state
    <3> DEFINE i == <<"reset">>
    <3>1. i[1] = "reset"
      OBVIOUS
    <3>2. ResetPart(a) = <<i>>
      BY <2>2 DEF ResetPart
    <3> HIDE DEF i
    <3>3. s7 = Do(r, i, s6)
      BY <3>2, ExecutedOne
    <3>4. Whole(s6)
      BY DEF Since
    <3>5. /\ Whole(s7) /\ s7.w = s6.w /\ s7.snap = s6.snap /\ s7.live = s6.live
          /\ s7.z0 = s6.z0 /\ Unmoved(s7)
      BY <3>1, <3>3, <3>4, ResetIs
    <3>6. Since(a, s7, e)
      BY <3>5, SinceKept
    <3> QED BY <3>5, <3>6
  <2> QED BY <2>1, <2>2
<1>2. Whole(s7)
  BY <1>1 DEF Since
<1>3. Since(a, s8, e) /\ Unmoved(s8)
  <2>1. CASE ~a.ab.cache
    <3>1. s8 = s7
      BY <2>1, ExecutedNone DEF BackPart
    <3> QED BY <1>1, <3>1
  <2>2. CASE a.ab.cache
    <3> DEFINE x == <<"prompt">>
               i == <<"restore", "target", x>>
    <3>1. i[1] = "restore" /\ i[2] = "target" /\ i[3] = x
      OBVIOUS
    <3>2. BackPart(a) = <<i>>
      BY <2>2 DEF BackPart
    <3>3. x \in DOMAIN s7.snap /\ s7.snap[x] = Contents(e, "target")
      BY <1>1, <2>2 DEF Since
    <3> HIDE DEF i, x
    <3>4. s8 = Do(r, i, s7)
      BY <3>2, ExecutedOne
    <3>5. Still(r, "pass", "target", s8, s7) /\ s8.live["target"] = s7.snap[x]
      BY <1>0, <1>2, <3>1, <3>4, RestoreIs
    <3>6. /\ Whole(s8) /\ s8.w = s7.w /\ s8.snap = s7.snap /\ s8.rd = s7.rd
          /\ s8.delta = s7.delta /\ s8.z0["target"] = s7.z0["target"]
      BY <3>5 DEF Still, SameRun
    <3>7. s8.live["target"] = Contents(e, "target")
      BY <3>3, <3>5
    <3>8. Contents(s8, "target") = Contents(e, "target")
      BY <1>0, <3>6, <3>7, ContentsAre
    <3> QED BY <1>1, <3>3, <3>6, <3>8 DEF Since, Unmoved, x
  <2> QED BY <2>1, <2>2
<1>4. Whole(s8) /\ s8.w = e.w /\ Contents(s8, "target") = Contents(e, "target")
      /\ s8.z0["target"] = e.z0["target"]
  BY <1>3 DEF Since
<1> DEFINE y == <<"read">>
           j == <<"snap", "target", y>>
           v == <<"view">>
           m == Do(r, j, s8)
<1>5. j[1] = "snap" /\ j[2] = "target" /\ j[3] = y /\ v[1] = "view"
  OBVIOUS
<1>6. ReadPart = <<j>> \o <<v>>
  BY PairJoined DEF ReadPart
<1> HIDE DEF y, j, v
<1>7. Executed(r, s8, <<j>>) = m
  BY ExecutedOne
<1>8. IsSequence(<<j>>)
  BY OneIs
<1> HIDE DEF m
<1>9. n = Do(r, v, m)
  BY <1>6, <1>7, <1>8, ExecutedOn
<1>10. Snapped(m, s8, "target", y)
  BY <1>4, <1>5, SnapIs DEF m
<1>11. /\ Whole(m) /\ m.snap[y] = Contents(s8, "target") /\ m.w = s8.w /\ m.rd = s8.rd
       /\ m.delta = s8.delta /\ m.z0 = s8.z0
  BY <1>10 DEF Snapped
<1>12. /\ n.w = m.w /\ n.snap = m.snap /\ n.rd = m.rd /\ n.delta = m.delta /\ n.z0 = m.z0
  BY <1>5, <1>9, <1>11, ViewIs
<1> QED BY <1>3, <1>4, <1>11, <1>12 DEF NothingRead, Unmoved, y

\* A call whose carrier is reset or quiet reads the prompt and nothing else.
LEMMA ControlReads ==
  ASSUME NEW r \in Runtimes, Neutral(r), NEW a \in CallArguments, NEW w,
         Unrefused(ReadPrefix(r, a)), Quiet(r, w, a) \/ "reset" \in a.ab.state
  PROVE  NothingRead(AtReadout(r, w, a), Encoded(r, w, a.p)) /\ Encoded(r, w, a.p).w = w
<1> DEFINE m == Rest(r, w)
           n == AtReadout(r, w, a)
           e == Encoded(r, w, a.p)
           p5 == <<<<"readout", "target">>>>
<1>1. n = Executed(r, m, ReadPrefix(r, a)) /\ e = Executed(r, m, Encode(r, "target", a.p))
  BY DEF AtReadout, Encoded
<1> HIDE DEF m, n, e
<1>2. PrefixStages(r, a, m, n)
  BY <1>1, PrefixInStages
<1>3. /\ Unrefused(Encode(r, "target", a.p)) /\ Unrefused(PartnerPart(r, a))
      /\ Unrefused(Recurring(r, a, "target", a.p))
  BY PrefixInStages
<1>4. PICK s1, s2, s3, s4, s5, s6, s7, s8 :
        /\ s1 = Executed(r, m, Encode(r, "target", a.p))
        /\ s2 = Executed(r, s1, PromptPart(a)) /\ s3 = Executed(r, s2, PartnerPart(r, a))
        /\ s4 = Executed(r, s3, Recurring(r, a, "target", a.p)) /\ s5 = Executed(r, s4, p5)
        /\ s6 = Executed(r, s5, SwapPart(r, a)) /\ s7 = Executed(r, s6, ResetPart(a))
        /\ s8 = Executed(r, s7, BackPart(a)) /\ n = Executed(r, s8, ReadPart)
  BY <1>2 DEF PrefixStages, Stages
<1>5. s1 = e
  BY <1>1, <1>4
<1>6. Since(a, s3, e) /\ Whole(e) /\ e.w = w /\ \A d \in Contexts : s3.z[d] = s3.z0[d]
  <2>1. s1 = Encoded(r, w, a.p)
    BY <1>5 DEF e
  <2>2. Since(a, s3, s1) /\ Whole(s1) /\ s1.w = w /\ \A d \in Contexts : s3.z[d] = s3.z0[d]
    BY <1>3, <1>4, <2>1, BeforeSteps
  <2> QED BY <1>5, <2>2
<1>7. a.k \in 0..MaxK
  BY <1>3, StepsInRange
<1>8. Since(a, s6, e) /\ (Quiet(r, e.w, a) => Unmoved(s6))
  BY <1>4, <1>6, <1>7, AfterReadouts
<1>9. "reset" \in a.ab.state \/ Unmoved(s6)
  BY <1>6, <1>8
<1>10. NothingRead(n, e)
  BY <1>4, <1>6, <1>8, <1>9, ReadsNothing
<1> QED BY <1>6, <1>10 DEF n, e

----------------------------------------------------------------------------
(* The call without recurrence                                             *)

LEMMA UnrefusedBoth ==
  ASSUME NEW p, NEW q, IsSequence(p), IsSequence(q), Unrefused(p), Unrefused(q)
  PROVE  Unrefused(p \o q) /\ IsSequence(p \o q)
<1> DEFINE w == p \o q
<1>1. JoinOf(p, q, w)
  BY Joined
<1> HIDE DEF w
<1>2. ASSUME NEW n \in 1..Len(w) PROVE w[n][1] # "raise"
  <2>1. CASE n \in 1..Len(p)
    BY <1>1, <2>1 DEF JoinOf, Unrefused
  <2>2. CASE n \notin 1..Len(p)
    <3> DEFINE j == n - Len(p)
    <3>1. j \in 1..Len(q) /\ Len(p) + j = n
      BY <1>1, <2>2 DEF JoinOf
    <3> HIDE DEF j
    <3>2. w[n] = q[j]
      BY <1>1, <3>1 DEF JoinOf
    <3> QED BY <3>1, <3>2 DEF Unrefused
  <2> QED BY <2>1, <2>2
<1>3. IsSequence(w)
  BY <1>1 DEF JoinOf
<1> QED BY <1>2, <1>3 DEF Unrefused, w

LEMMA UnrefusedOne ==
  ASSUME NEW i, i[1] # "raise"
  PROVE  Unrefused(<<i>>) /\ IsSequence(<<i>>)
<1> DEFINE o == <<i>>
<1>1. IsSequence(o) /\ Len(o) = 1 /\ o[1] = i
  BY OneIs
<1> HIDE DEF o
<1>2. \A n \in 1..Len(o) : n = 1
  BY <1>1
<1>3. Unrefused(o)
  BY <1>1, <1>2 DEF Unrefused
<1> QED BY <1>1, <1>3 DEF o

LEMMA UnrefusedNone == Unrefused(<<>>) /\ IsSequence(<<>>)
<1>1. Len(<<>>) = 0
  OBVIOUS
<1>2. 1..0 = {}
  OBVIOUS
<1> QED BY <1>1, <1>2, NothingIs DEF Unrefused

LEMMA LoopNothing ==
  ASSUME NEW r, NEW ab, NEW c, NEW start, NEW k, EffectiveK(ab, k) = 0
  PROVE  Loop(r, ab, c, start, k) = <<>>
<1> DEFINE step(j) == LoopStep(r, ab, c, start, j, ClockSteps(ab.clocks, k)[j])
           f == [j \in 1..0 |-> step(j)]
<1>1. f = [j \in 1..0 |-> f[j]] /\ 0 \in Int /\ 0 \in Nat
  OBVIOUS
<1>2. Loop(r, ab, c, start, k) = FlattenSeq(f)
  BY DEF Loop
<1> HIDE DEF f
<1>3. Len(f) \in Nat /\ (Len(f) = 0 => f = <<>>) /\ 1..Len(f) = 1..0
  BY <1>1, FunctionIsSequence
<1>4. Len(f) = 0
  BY <1>1, <1>3, SameInterval
<1>5. \A j \in 1..Len(f) : IsSequence(f[j])
  BY <1>4
<1>6. PICK g : Joining(g, f)
  BY <1>3, <1>5, JoiningExists
<1>7. FlattenSeq(f) = <<>>
  BY <1>4, <1>6 DEF Joining
<1> QED BY <1>2, <1>7

\* The recurrent steps of a call without recurrence refuse nothing.
LEMMA NoStepsUnrefused ==
  ASSUME NEW r, Neutral(r), NEW c, NEW start
  PROVE  /\ Unrefused(LatentSteps(r, Clean, c, start, 0))
         /\ IsSequence(LatentSteps(r, Clean, c, start, 0))
<1> DEFINE sn == <<"snap", c, <<"loop", c>>>>
           wi == <<"window">>
           fi == <<"finally", c, <<"loop", c>>>>
           en == <<"end">>
           none == <<>>
           fin == <<fi>> \o none \o <<en>>
           body == <<wi>> \o fin \o <<en>>
           all == <<sn>> \o body \o none
<1>1. sn[1] # "raise" /\ wi[1] # "raise" /\ fi[1] # "raise" /\ en[1] # "raise"
  OBVIOUS
<1>2. EffectiveK(Clean, 0) = 0 /\ StateControls(c, Clean.state) = none /\ 0 \in 0..MaxK
  <2>1. MaxK \in Nat
    BY RuntimeConstants
  <2> QED BY <2>1 DEF EffectiveK, Clean, StateControls
<1>3. Loop(r, Clean, c, start, 0) = none
  BY <1>2, LoopNothing
<1>4. LatentSteps(r, Clean, c, start, 0) = all
  BY <1>2, <1>3 DEF LatentSteps, Guarded
<1> HIDE DEF sn, wi, fi, en, none
<1>5. /\ Unrefused(<<sn>>) /\ IsSequence(<<sn>>) /\ Unrefused(<<wi>>) /\ IsSequence(<<wi>>)
      /\ Unrefused(<<fi>>) /\ IsSequence(<<fi>>) /\ Unrefused(<<en>>) /\ IsSequence(<<en>>)
      /\ Unrefused(none) /\ IsSequence(none)
  BY <1>1, UnrefusedOne, UnrefusedNone DEF none
<1>6. Unrefused(fin) /\ IsSequence(fin)
  BY <1>5, UnrefusedBoth
<1> HIDE DEF fin
<1>7. Unrefused(body) /\ IsSequence(body)
  BY <1>5, <1>6, UnrefusedBoth
<1> HIDE DEF body
<1>8. Unrefused(all) /\ IsSequence(all)
  BY <1>5, <1>7, UnrefusedBoth
<1> QED BY <1>4, <1>8

\* The same call with nothing that recurs.
Zeroed(a) == [a EXCEPT !.k = 0, !.ab = Clean, !.q = NoPrompt]

LEMMA ZeroedIs ==
  ASSUME NEW a \in CallArguments, a.kind = "score"
  PROVE  /\ Zeroed(a) \in CallArguments /\ Zeroed(a).kind = "score" /\ Zeroed(a).k = 0
         /\ Zeroed(a).ab = Clean /\ Zeroed(a).q = NoPrompt /\ Zeroed(a).p = a.p
         /\ Zeroed(a).cands = a.cands
<1> DEFINE z == Zeroed(a)
<1>1. z = [a EXCEPT !.k = 0, !.ab = Clean, !.q = NoPrompt]
  BY DEF Zeroed
<1>2. Clean \in AblationArguments
  BY DEF Clean, AblationArguments
<1> HIDE DEF z
<1>4. /\ z.kind = "score" /\ z.k = 0 /\ z.ab = Clean /\ z.q = NoPrompt /\ z.p = a.p
      /\ z.cands = a.cands
  BY <1>1 DEF CallArguments
<1>3. z \in CallArguments
  <2> DEFINE Kinds == {"score", "nll", "ce", "trace", "margin", "load"}
             Abs == AblationArguments
             Others == Prompts \cup {NoPrompt}
             Cands == Seq(Seq(Tokens))
             Targets == Seq(Int \X Seq(Tokens))
             Tensors_ == [sound : BOOLEAN, version : Nat]
             All == [kind : Kinds, k : Int, ab : Abs, p : Prompts, q : Others,
                     cands : Cands, gold : Int, otherGold : Int, targets : Targets,
                     sd : Tensors_]
  <2>1. CallArguments = {x \in All : /\ x.kind = "margin" => x.q # NoPrompt
                                     /\ x.kind = "nll" => x.cands # <<>>}
    BY DEF CallArguments
  <2>2. a \in All
    BY <2>1
  <2> DEFINE z1 == [a EXCEPT !.k = 0]
             z2 == [z1 EXCEPT !.ab = Clean]
             z3 == [z2 EXCEPT !.q = NoPrompt]
  <2>7. Clean \in Abs /\ NoPrompt \in Others
    BY <1>2
  <2> HIDE DEF Kinds, Abs, Others, Cands, Targets, Tensors_
  <2>3. z1 \in All
    BY <2>2
  <2> HIDE DEF z1
  <2>4. z2 \in All
    BY <2>3, <2>7
  <2> HIDE DEF z2
  <2>5. z3 \in All
    BY <2>4, <2>7
  <2>6. z = z3
    BY <1>1 DEF z1, z2
  <2> HIDE DEF All, z3
  <2> QED BY <1>4, <2>1, <2>5, <2>6
<1> QED BY <1>3, <1>4 DEF z

LEMMA ZeroedPrefix ==
  ASSUME NEW r \in Runtimes, Neutral(r), NEW a \in CallArguments, a.kind = "score",
         Unrefused(Encode(r, "target", a.p))
  PROVE  Unrefused(ReadPrefix(r, Zeroed(a)))
<1> DEFINE z == Zeroed(a)
           enc == Encode(r, "target", a.p)
           steps == LatentSteps(r, Clean, "target", PromptLen[a.p], 0)
           none == <<>>
           rd == <<"readout", "target">>
           sr == <<"snap", "target", <<"read">>>>
           vw == <<"view">>
           last == <<sr, vw>>
           pre == enc \o none \o none \o steps \o <<rd>> \o none \o none \o none \o last
<1>1. rd[1] # "raise" /\ sr[1] # "raise" /\ vw[1] # "raise"
  OBVIOUS
<1>2. z.k = 0 /\ z.ab = Clean /\ z.p = a.p
  BY ZeroedIs
<1>3. "swap" \notin Clean.state /\ "reset" \notin Clean.state /\ ~Clean.cache
  BY DEF Clean
<1>4. ReadPrefix(r, z) = pre
  BY <1>2, <1>3 DEF ReadPrefix
<1>5. last = <<sr>> \o <<vw>>
  BY PairJoined
<1>6. Unrefused(steps) /\ IsSequence(steps)
  BY NoStepsUnrefused
<1>7. Unrefused(enc) /\ IsSequence(enc)
  BY EncodeRuns DEF Runs
<1> HIDE DEF z, enc, steps, none, rd, sr, vw, last
<1>8. /\ Unrefused(<<rd>>) /\ IsSequence(<<rd>>) /\ Unrefused(<<sr>>) /\ IsSequence(<<sr>>)
      /\ Unrefused(<<vw>>) /\ IsSequence(<<vw>>) /\ Unrefused(none) /\ IsSequence(none)
  BY <1>1, UnrefusedOne, UnrefusedNone DEF none
<1>9. Unrefused(last) /\ IsSequence(last)
  BY <1>5, <1>8, UnrefusedBoth
<1> DEFINE w4 == enc \o none \o none \o steps
           w8 == w4 \o <<rd>> \o none \o none \o none
<1>10. Unrefused(w4) /\ IsSequence(w4)
  BY <1>6, <1>7, <1>8, UnrefusedBoth
<1> HIDE DEF w4
<1>11. Unrefused(w8) /\ IsSequence(w8)
  BY <1>8, <1>10, UnrefusedBoth
<1>12. pre = w8 \o last
  BY DEF w4
<1> HIDE DEF w8, pre
<1>13. Unrefused(pre)
  BY <1>9, <1>11, <1>12, UnrefusedBoth
<1> QED BY <1>4, <1>13 DEF z

\* A control of a call with a delta readout scores as the call without recurrence.
LEMMA ControlScores ==
  ASSUME NEW r \in Runtimes, Neutral(r), NEW a \in CallArguments, a.kind = "score", NEW w,
         Unrefused(Program(r, a)), Quiet(r, w, a) \/ "reset" \in a.ab.state
  PROVE  Results(Executed(r, Rest(r, w), Program(r, a)))
           = Results(Executed(r, Rest(r, w), Program(r, Zeroed(a))))
<1> DEFINE z == Zeroed(a)
           b == AtReadout(r, w, a)
           o == AtReadout(r, w, z)
           e == Encoded(r, w, a.p)
           pos == ReadoutPos(r, a.ab, a.p, a.k)
           each == ScoreEach(r, "target", pos, <<"read">>, a.cands, "own")
<1>1. /\ z \in CallArguments /\ z.kind = "score" /\ z.k = 0 /\ z.ab = Clean /\ z.p = a.p
      /\ z.cands = a.cands
  BY ZeroedIs
<1>2. /\ Executed(r, Rest(r, w), Program(r, a)) = Executed(r, b, EachOf(r, a))
      /\ Unrefused(ReadPrefix(r, a)) /\ Unrefused(EachOf(r, a))
  BY ScoreInTwo
<1>3. Executed(r, Rest(r, w), Program(r, z)) = Executed(r, o, EachOf(r, z))
  BY <1>1, ScoreInTwo
<1>4. EachOf(r, a) = each
  BY DEF EachOf
<1>5. EachOf(r, z) = each
  BY <1>1 DEF EachOf, ReadoutPos
<1>6. Unrefused(Encode(r, "target", a.p))
  BY <1>2, PrefixInStages
<1>7. Unrefused(ReadPrefix(r, z))
  BY <1>6, ZeroedPrefix
<1>8. Quiet(r, w, z)
  <2>1. EffectiveK(Clean, 0) = 0 /\ "noise" \notin Clean.state
    BY DEF EffectiveK, Clean
  <2> QED BY <1>1, <2>1 DEF Quiet
<1>9. NothingRead(b, e)
  BY <1>2, ControlReads
<1>10. NothingRead(o, Encoded(r, w, z.p))
  BY <1>1, <1>7, <1>8, ControlReads
<1>11. NothingRead(o, e)
  BY <1>1, <1>10
<1>12. Ready(r, b, b) /\ b.scores = <<>>
  BY <1>2, ReadoutReady
<1>13. Ready(r, o, o) /\ o.scores = <<>>
  BY <1>1, <1>7, ReadoutReady
<1>14. a.cands \in Seq(Seq(Tokens))
  BY DEF CallArguments
<1> HIDE DEF z, b, o, e, pos
<1>15. SameReadout(b, o)
  BY <1>9, <1>11 DEF NothingRead, SameReadout
<1>16. Unrefused(each)
  BY <1>2, <1>4
<1>17. Results(Executed(r, b, each)) = Results(Executed(r, o, each))
  BY <1>12, <1>13, <1>14, <1>15, <1>16, EachAlike
<1> HIDE DEF each
<1>18. Results(Executed(r, Rest(r, w), Program(r, a)))
         = Results(Executed(r, Rest(r, w), Program(r, z)))
  BY <1>2, <1>3, <1>4, <1>5, <1>17
<1> QED BY <1>18 DEF z

----------------------------------------------------------------------------
(* Adapters that only the recurrence may use, in a call without it         *)

AllOff(r) == [l \in Interval(r) |-> FALSE]

\* Two runtimes that differ in their trainables, with the adapters off.
Twin(r, m, n) ==
  /\ Parts \subseteq DOMAIN m /\ Parts \subseteq DOMAIN n /\ IsSequence(m.stack)
  /\ m.flags = AllOff(r) /\ n.flags = AllOff(r) /\ m.stack = n.stack
  /\ m.live = n.live /\ m.alias = n.alias /\ m.snap = n.snap /\ m.h = n.h
  /\ m.z = n.z /\ m.z0 = n.z0 /\ m.rd = n.rd /\ m.delta = n.delta /\ m.scores = n.scores

TwinOn(r, m, a, b) == Twin(r, a, b) /\ a.stack = m.stack

\* Instructions between scopes that take no trainable but through the adapters.
Plain == {"embed", "layer", "boundary", "ablate", "readout", "reset", "snap", "restore",
          "view", "score", "head", "inject"}

LEMMA TwinLayer ==
  ASSUME NEW r, NEW m, NEW n, Twin(r, m, n), NEW i, i[1] = "layer"
  PROVE  TwinOn(r, m, Do(r, i, m), Do(r, i, n))
<1> DEFINE c == i[2]
           l == i[3]
           cont == Content(m, c, l)
           grown == Append(cont, <<i[6], i[4], <<>>>>)
           h == <<"layer", l, <<>>, m.h, cont, i[4]>>
           deep == l \in InPlace /\ m.alias[c][l] # Own
           live == [m.live EXCEPT ![c][l] = grown]
           alias == [m.alias EXCEPT ![c][l] = Own]
           snap == [m.snap EXCEPT ![m.alias[c][l]][l] = grown]
           a == Do(r, i, m)
           b == Do(r, i, n)
<1>1. Adapted(r, m, l) = <<>> /\ Adapted(r, n, l) = <<>>
  BY DEF Twin, Adapted, AllOff
<1>2. Content(n, c, l) = cont
  BY DEF Twin, Content
<1> DEFINE m1 == [m EXCEPT !.h = h, !.count[i[7]] = @ + i[5]]
           n1 == [n EXCEPT !.h = h, !.count[i[7]] = @ + i[5]]
<1>3. a = ApplyLayer(r, m, c, l, i[4], i[5], i[6], i[7])
  BY DEF Do
<1>4. b = ApplyLayer(r, n, c, l, i[4], i[5], i[6], i[7])
  BY DEF Do
<1>5. n.h = m.h /\ n.alias = m.alias
  BY DEF Twin
<1>6. a = IF deep THEN [m1 EXCEPT !.snap[m.alias[c][l]][l] = grown]
          ELSE [m1 EXCEPT !.live[c][l] = grown, !.alias[c][l] = Own]
  BY <1>1, <1>3 DEF ApplyLayer
<1>7. b = IF deep THEN [n1 EXCEPT !.snap[m.alias[c][l]][l] = grown]
          ELSE [n1 EXCEPT !.live[c][l] = grown, !.alias[c][l] = Own]
  BY <1>1, <1>2, <1>4, <1>5 DEF ApplyLayer
<1>8. Twin(r, m1, n1) /\ m1.stack = m.stack /\ m1.live = m.live /\ m1.alias = m.alias
      /\ m1.snap = m.snap
  <2> HIDE DEF h
  <2> QED BY DEF Twin, Parts
<1>9. n1.live = m.live /\ n1.alias = m.alias /\ n1.snap = m.snap
  BY <1>8 DEF Twin
<1> HIDE DEF a, b, m1, n1, h, grown, cont, deep
<1>10. CASE deep
  <2>1. a = [m1 EXCEPT !.snap = snap]
    BY <1>6, <1>8, <1>10 DEF Twin, Parts
  <2>2. b = [n1 EXCEPT !.snap = snap]
    BY <1>7, <1>8, <1>9, <1>10 DEF Twin, Parts
  <2> HIDE DEF snap
  <2>3. TwinOn(r, m, a, b)
    BY <1>8, <2>1, <2>2 DEF Twin, TwinOn, Parts
  <2> QED BY <2>3 DEF a, b
<1>11. CASE ~deep
  <2>1. a = [m1 EXCEPT !.live = live, !.alias = alias]
    BY <1>6, <1>8, <1>11 DEF Twin, Parts
  <2>2. b = [n1 EXCEPT !.live = live, !.alias = alias]
    BY <1>7, <1>8, <1>9, <1>11 DEF Twin, Parts
  <2> HIDE DEF live, alias
  <2>3. TwinOn(r, m, a, b)
    BY <1>8, <2>1, <2>2 DEF Twin, TwinOn, Parts
  <2> QED BY <2>3 DEF a, b
<1> QED BY <1>10, <1>11

LEMMA TwinPlain ==
  ASSUME NEW r, NEW m, NEW n, Twin(r, m, n), NEW i, i[1] \in Plain
  PROVE  TwinOn(r, m, Do(r, i, m), Do(r, i, n))
<1> DEFINE a == Do(r, i, m)
           b == Do(r, i, n)
<1>0. /\ Parts \subseteq DOMAIN m /\ Parts \subseteq DOMAIN n
      /\ m.live = n.live /\ m.alias = n.alias /\ m.snap = n.snap /\ m.h = n.h
      /\ m.z = n.z /\ m.z0 = n.z0 /\ m.rd = n.rd /\ m.delta = n.delta
      /\ m.scores = n.scores
  BY DEF Twin
<1>1. CASE i[1] = "layer"
  BY <1>1, TwinLayer
<1>2. CASE i[1] = "embed"
  <2> DEFINE e == i[2]
  <2>1. a = [m EXCEPT !.h = e] /\ b = [n EXCEPT !.h = e]
    BY <1>2 DEF Do
  <2> HIDE DEF a, b, e
  <2>2. TwinOn(r, m, a, b)
    BY <2>1 DEF Twin, TwinOn, Parts
  <2> QED BY <2>2 DEF a, b
<1>3. CASE i[1] = "boundary"
  <2> DEFINE x == [m.z0 EXCEPT ![i[2]] = m.h]
             y == [m.z EXCEPT ![i[2]] = m.h]
  <2>1. a = [m EXCEPT !.z0 = x, !.z = y]
    BY <1>0, <1>3 DEF Do, Parts
  <2>2. b = [n EXCEPT !.z0 = x, !.z = y]
    BY <1>0, <1>3 DEF Do, Parts
  <2> HIDE DEF a, b, x, y
  <2>3. TwinOn(r, m, a, b)
    BY <2>1, <2>2 DEF Twin, TwinOn, Parts
  <2> QED BY <2>3 DEF a, b
<1>4. CASE i[1] = "ablate"
  <2> DEFINE c == i[2]
             x == IF Neutral(r) THEN m.z0[c] ELSE Zero
             y == IF Neutral(r) THEN <<"noise", m.z0[c], Difference(m.z[c], m.z0[c])>>
                  ELSE <<"noise", Zero, m.z[c]>>
             zx == [m.z EXCEPT ![c] = x]
             zy == [m.z EXCEPT ![c] = y]
  <2>1. a = Ablate(r, m, c, i[3]) /\ b = Ablate(r, n, c, i[3])
    BY <1>4 DEF Do
  <2>2. CASE i[3] = "zero"
    <3>1. a = [m EXCEPT !.z = zx]
      BY <1>0, <2>1, <2>2 DEF Ablate, Parts
    <3>2. b = [n EXCEPT !.z = zx]
      BY <1>0, <2>1, <2>2 DEF Ablate, Parts
    <3> HIDE DEF a, b, zx
    <3>3. TwinOn(r, m, a, b)
      BY <3>1, <3>2 DEF Twin, TwinOn, Parts
    <3> QED BY <3>3 DEF a, b
  <2>3. CASE i[3] = "noise"
    <3>1. a = [m EXCEPT !.z = zy]
      BY <1>0, <2>1, <2>3 DEF Ablate, Parts
    <3>2. b = [n EXCEPT !.z = zy]
      BY <1>0, <2>1, <2>3 DEF Ablate, Parts
    <3> HIDE DEF a, b, zy
    <3>3. TwinOn(r, m, a, b)
      BY <3>1, <3>2 DEF Twin, TwinOn, Parts
    <3> QED BY <3>3 DEF a, b
  <2>4. CASE i[3] \notin {"zero", "noise"}
    <3>1. a = m /\ b = n
      BY <2>1, <2>4 DEF Ablate
    <3> HIDE DEF a, b
    <3>2. TwinOn(r, m, a, b)
      BY <3>1 DEF TwinOn
    <3> QED BY <3>2 DEF a, b
  <2> QED BY <2>2, <2>3, <2>4
<1>5. CASE i[1] = "readout"
  <2> DEFINE c == i[2]
             d == Difference(m.z[c], m.z0[c])
             rd == Plus(m.z0["target"], d)
             far == m.z[c]
  <2>1. a = Readout(r, m, c) /\ b = Readout(r, n, c)
    BY <1>5 DEF Do
  <2>2. CASE Neutral(r)
    <3>1. a = [m EXCEPT !.delta = d, !.rd = rd]
      BY <2>1, <2>2 DEF Readout
    <3>2. b = [n EXCEPT !.delta = d, !.rd = rd]
      BY <1>0, <2>1, <2>2 DEF Readout
    <3> HIDE DEF a, b, d, rd
    <3>3. TwinOn(r, m, a, b)
      BY <3>1, <3>2 DEF Twin, TwinOn, Parts
    <3> QED BY <3>3 DEF a, b
  <2>3. CASE ~Neutral(r)
    <3>1. a = [m EXCEPT !.rd = far]
      BY <2>1, <2>3 DEF Readout
    <3>2. b = [n EXCEPT !.rd = far]
      BY <1>0, <2>1, <2>3 DEF Readout
    <3> HIDE DEF a, b, far
    <3>3. TwinOn(r, m, a, b)
      BY <3>1, <3>2 DEF Twin, TwinOn, Parts
    <3> QED BY <3>3 DEF a, b
  <2> QED BY <2>2, <2>3
<1>6. CASE i[1] = "reset"
  <2> DEFINE x == m.z0["target"]
  <2>1. a = [m EXCEPT !.rd = x, !.delta = Zero]
    BY <1>6 DEF Do
  <2>2. b = [n EXCEPT !.rd = x, !.delta = Zero]
    BY <1>0, <1>6 DEF Do
  <2> HIDE DEF a, b, x
  <2>3. TwinOn(r, m, a, b)
    BY <2>1, <2>2 DEF Twin, TwinOn, Parts
  <2> QED BY <2>3 DEF a, b
<1>7. CASE i[1] = "snap"
  <2> DEFINE cont == Contents(m, i[2])
             x == [y \in DOMAIN m.snap \cup {i[3]} |-> IF y = i[3] THEN cont ELSE m.snap[y]]
  <2>1. Contents(n, i[2]) = cont
    BY <1>0 DEF Contents, Content
  <2>2. a = [m EXCEPT !.snap = x]
    BY <1>7 DEF Do, Snapshot
  <2> HIDE DEF cont
  <2>3. b = [n EXCEPT !.snap = x]
    BY <1>0, <1>7, <2>1 DEF Do, Snapshot
  <2> HIDE DEF a, b, x
  <2>4. TwinOn(r, m, a, b)
    BY <2>2, <2>3 DEF Twin, TwinOn, Parts
  <2> QED BY <2>4 DEF a, b
<1>8. CASE i[1] = "restore"
  <2> DEFINE x == [m.live EXCEPT ![i[2]] = m.snap[i[3]]]
             y == [m.alias EXCEPT ![i[2]] = OwnCache]
  <2>1. a = [m EXCEPT !.live = x, !.alias = y]
    BY <1>0, <1>8 DEF Do, Restore, OwnCache, Parts
  <2>2. b = [n EXCEPT !.live = x, !.alias = y]
    BY <1>0, <1>8 DEF Do, Restore, OwnCache, Parts
  <2> HIDE DEF a, b, x, y
  <2>3. TwinOn(r, m, a, b)
    BY <2>1, <2>2 DEF Twin, TwinOn, Parts
  <2> QED BY <2>3 DEF a, b
<1>9. CASE i[1] = "view"
  <2> DEFINE x == Contents(m, "target")
             y == Contents(n, "target")
  <2>1. a = [m EXCEPT !.view = x] /\ b = [n EXCEPT !.view = y]
    BY <1>9 DEF Do
  <2> HIDE DEF a, b, x, y
  <2>2. TwinOn(r, m, a, b)
    BY <2>1 DEF Twin, TwinOn, Parts
  <2> QED BY <2>2 DEF a, b
<1>10. CASE i[1] = "score"
  <2> DEFINE x == Append(m.scores, <<i[2], i[3], <<>>>>)
             h == m.rd
  <2>1. a = [m EXCEPT !.h = h, !.scores = x]
    BY <1>10 DEF Do
  <2>2. b = [n EXCEPT !.h = h, !.scores = x]
    BY <1>0, <1>10 DEF Do
  <2> HIDE DEF a, b, x, h
  <2>3. TwinOn(r, m, a, b)
    BY <2>1, <2>2 DEF Twin, TwinOn, Parts
  <2> QED BY <2>3 DEF a, b
<1>11. CASE i[1] = "head"
  <2> DEFINE said == <<m.h, i[2]>>
             last == Len(m.scores)
             x == [m.scores EXCEPT ![last][3] = Append(@, said)]
             cm == [m.count EXCEPT !["head"] = @ + 1]
             cn == [n.count EXCEPT !["head"] = @ + 1]
  <2>1. a = [m EXCEPT !.count = cm, !.scores = x]
    BY <1>0, <1>11 DEF Do, Parts
  <2>2. b = [n EXCEPT !.count = cn, !.scores = x]
    BY <1>0, <1>11 DEF Do, Parts
  <2> HIDE DEF a, b, x, cm, cn
  <2>3. TwinOn(r, m, a, b)
    BY <2>1, <2>2 DEF Twin, TwinOn, Parts
  <2> QED BY <2>3 DEF a, b
<1>12. CASE i[1] = "inject"
  <2> DEFINE x == IF Neutral(r) THEN Plus(m.h, m.delta) ELSE Plus(m.h, m.rd)
  <2>1. a = [m EXCEPT !.h = x]
    BY <1>12 DEF Do
  <2>2. b = [n EXCEPT !.h = x]
    BY <1>0, <1>12 DEF Do
  <2> HIDE DEF a, b, x
  <2>3. TwinOn(r, m, a, b)
    BY <2>1, <2>2 DEF Twin, TwinOn, Parts
  <2> QED BY <2>3 DEF a, b
<1> QED BY <1>1, <1>2, <1>3, <1>4, <1>5, <1>6, <1>7, <1>8, <1>9, <1>10, <1>11, <1>12 DEF Plain

\* Program p keeps twins twins.
Twofold(r, p) ==
  /\ IsSequence(p)
  /\ Unrefused(p) =>
       \A m, n : Twin(r, m, n) => TwinOn(r, m, Executed(r, m, p), Executed(r, n, p))

LEMMA TwofoldNone ==
  ASSUME NEW r
  PROVE  Twofold(r, <<>>)
<1>1. \A m : Executed(r, m, <<>>) = m
  BY ExecutedNone
<1>2. \A m, n : Twin(r, m, n) => TwinOn(r, m, m, n)
  BY DEF TwinOn
<1> QED BY <1>1, <1>2, NothingIs DEF Twofold

LEMMA TwofoldOne ==
  ASSUME NEW r, NEW i, i[1] \in Plain \cup {"raise"}
  PROVE  Twofold(r, <<i>>)
<1> DEFINE p == <<i>>
<1>1. \A m : Executed(r, m, p) = Do(r, i, m)
  BY ExecutedOne
<1>2. IsSequence(p) /\ Len(p) = 1 /\ p[1] = i
  BY OneIs
<1> HIDE DEF p
<1>3. CASE i[1] = "raise"
  <2>1. 1 \in 1..Len(p)
    BY <1>2
  <2>2. ~Unrefused(p)
    BY <1>2, <1>3, <2>1 DEF Unrefused
  <2> QED BY <1>2, <2>2 DEF Twofold, p
<1>4. CASE i[1] \in Plain
  <2>1. ASSUME NEW m, NEW n, Twin(r, m, n)
        PROVE  TwinOn(r, m, Executed(r, m, p), Executed(r, n, p))
    <3>1. TwinOn(r, m, Do(r, i, m), Do(r, i, n))
      BY <1>4, <2>1, TwinPlain
    <3> QED BY <1>1, <3>1
  <2>2. Twofold(r, p)
    BY <1>2, <2>1 DEF Twofold
  <2> QED BY <2>2 DEF p
<1> QED BY <1>3, <1>4

LEMMA TwofoldJoin ==
  ASSUME NEW r, NEW p, NEW q, Twofold(r, p), Twofold(r, q)
  PROVE  Twofold(r, p \o q)
<1> DEFINE w == p \o q
<1>1. IsSequence(p) /\ IsSequence(q)
  BY DEF Twofold
<1>2. IsSequence(w)
  BY <1>1, JoinIs
<1>3. Unrefused(w) => Unrefused(p) /\ Unrefused(q)
  BY <1>1, UnrefusedJoin
<1>4. \A m : Executed(r, m, w) = Executed(r, Executed(r, m, p), q)
  BY <1>1, ExecutedJoin
<1> HIDE DEF w
<1>5. ASSUME Unrefused(w), NEW m, NEW n, Twin(r, m, n)
      PROVE  TwinOn(r, m, Executed(r, m, w), Executed(r, n, w))
  <2> DEFINE a == Executed(r, m, p)
             b == Executed(r, n, p)
             c == Executed(r, a, q)
             d == Executed(r, b, q)
  <2>1. TwinOn(r, m, a, b)
    BY <1>3, <1>5 DEF Twofold
  <2>2. Twin(r, a, b) /\ a.stack = m.stack
    BY <2>1 DEF TwinOn
  <2>3. TwinOn(r, a, c, d)
    BY <1>3, <1>5, <2>2 DEF Twofold
  <2>4. Executed(r, m, w) = c /\ Executed(r, n, w) = d
    BY <1>4
  <2> HIDE DEF a, b, c, d
  <2>5. TwinOn(r, m, c, d)
    BY <2>2, <2>3 DEF TwinOn
  <2> QED BY <2>4, <2>5
<1>6. Twofold(r, w)
  BY <1>2, <1>5 DEF Twofold
<1> QED BY <1>6 DEF w

\* A stream through layers.
LEMMA TwofoldEach ==
  ASSUME NEW r, NEW p, IsSequence(p), Len(p) \in Nat,
         \A j \in 1..Len(p) : p[j][1] \in Plain
  PROVE  Twofold(r, p)
<1> DEFINE len == Len(p)
<1>1. ASSUME NEW m, NEW n, Twin(r, m, n)
      PROVE  TwinOn(r, m, Executed(r, m, p), Executed(r, n, p))
  <2>1. PICK f : /\ f[0] = m /\ \A j \in 1..len : f[j] = Do(r, p[j], f[j - 1])
                 /\ Executed(r, m, p) = f[len]
    BY ExecutedCourse
  <2>2. PICK g : /\ g[0] = n /\ \A j \in 1..len : g[j] = Do(r, p[j], g[j - 1])
                 /\ Executed(r, n, p) = g[len]
    BY ExecutedCourse
  <2>3. len \in Nat /\ \A j \in 1..len : p[j][1] \in Plain
    OBVIOUS
  <2> HIDE DEF len
  <2> DEFINE G == {j \in Nat : TwinOn(r, m, f[j], g[j])}
  <2>4. 0 \in G
    BY <1>1, <2>1, <2>2 DEF TwinOn
  <2>5. ASSUME NEW j \in 1..len, j - 1 \in G PROVE j \in G
    <3>1. j \in Nat /\ TwinOn(r, m, f[j - 1], g[j - 1]) /\ p[j][1] \in Plain
      BY <2>3, <2>5
    <3>2. Twin(r, f[j - 1], g[j - 1]) /\ f[j - 1].stack = m.stack
      BY <3>1 DEF TwinOn
    <3>3. TwinOn(r, f[j - 1], Do(r, p[j], f[j - 1]), Do(r, p[j], g[j - 1]))
      BY <3>1, <3>2, TwinPlain
    <3>4. TwinOn(r, f[j - 1], f[j], g[j])
      BY <2>1, <2>2, <3>3
    <3>5. TwinOn(r, m, f[j], g[j])
      BY <3>2, <3>4 DEF TwinOn
    <3> QED BY <3>1, <3>5
  <2>6. len \in G
    <3> HIDE DEF G
    <3> QED BY <2>3, <2>4, <2>5, UpTo
  <2> QED BY <2>1, <2>2, <2>6
<1> QED BY <1>1 DEF Twofold

LEMMA TwofoldRun ==
  ASSUME NEW r, NEW from \in Int, NEW to \in Int, from >= 1, to <= NLayers, NEW c, NEW pos,
         NEW n, NEW what, NEW phase_
  PROVE  Twofold(r, Run(from, to, c, pos, n, what, phase_))
<1> DEFINE run == Run(from, to, c, pos, n, what, phase_)
<1>1. /\ IsSequence(run) /\ Len(run) \in Nat
      /\ \A j \in 1..Len(run) : run[j][1] = "layer"
  BY RunLayers DEF Layered
<1> HIDE DEF run
<1>2. \A j \in 1..Len(run) : run[j][1] \in Plain
  BY <1>1 DEF Plain
<1>3. Twofold(r, run)
  BY <1>1, <1>2, TwofoldEach
<1> QED BY <1>3 DEF run

LEMMA TwofoldFlat ==
  ASSUME NEW r, NEW n \in Int, NEW f, f = [j \in 1..n |-> f[j]],
         \A j \in 1..n : Twofold(r, f[j])
  PROVE  Twofold(r, FlattenSeq(f))
<1>1. Len(f) \in Nat /\ (Len(f) = 0 => f = <<>>) /\ 1..Len(f) = 1..n
  BY FunctionIsSequence
<1> DEFINE len == Len(f)
<1>2. \A j \in 1..len : Twofold(r, f[j]) /\ IsSequence(f[j])
  BY <1>1 DEF Twofold
<1>3. PICK g : Joining(g, f)
  BY <1>1, <1>2, JoiningExists
<1>4. /\ g[0] = <<>> /\ FlattenSeq(f) = g[len] /\ len \in Nat
      /\ \A j \in 1..len : g[j] = g[j - 1] \o f[j]
  BY <1>1, <1>3 DEF Joining
<1> HIDE DEF len
<1> DEFINE G == {j \in Nat : Twofold(r, g[j])}
<1>5. 0 \in G
  BY <1>4, TwofoldNone
<1>6. ASSUME NEW j \in 1..len, j - 1 \in G PROVE j \in G
  <2>1. j \in Nat /\ Twofold(r, g[j - 1]) /\ Twofold(r, f[j])
    BY <1>2, <1>4, <1>6
  <2>2. Twofold(r, g[j - 1] \o f[j])
    BY <2>1, TwofoldJoin
  <2> QED BY <1>4, <2>1, <2>2
<1>7. len \in G
  <2> HIDE DEF G
  <2> QED BY <1>4, <1>5, <1>6, UpTo
<1> QED BY <1>4, <1>7

\* A scope that keeps the adapters off, and its frame.
Opening(i) == i[1] \in {"lora", "window", "finally"} /\ (i[1] = "lora" => i[2] = FALSE)

FrameOf(r, i, f) ==
  /\ f[1] = i[1] /\ i[1] \in {"lora", "window", "finally"}
  /\ i[1] = "finally" => f = i
  /\ i[1] = "lora" => f[2] = AllOff(r)

LEMMA TwinOpens ==
  ASSUME NEW r, NEW m, NEW n, Twin(r, m, n), NEW i, Opening(i)
  PROVE  \E f : /\ FrameOf(r, i, f) /\ Pushed(f, m.stack, Do(r, i, m).stack)
                /\ Twin(r, Do(r, i, m), Do(r, i, n))
<1> DEFINE f == CASE i[1] = "lora" -> <<"lora", m.flags>>
                  [] i[1] = "window" -> <<"window">>
                  [] i[1] = "finally" -> i
           T == <<f>> \o m.stack
           a == Do(r, i, m)
           b == Do(r, i, n)
<1>0. m.stack = n.stack /\ m.flags = n.flags /\ m.flags = AllOff(r) /\ IsSequence(m.stack)
  BY DEF Twin
<1>4. i[1] \in {"lora", "window", "finally"} /\ (i[1] = "lora" => i[2] = FALSE)
  BY DEF Opening
<1>1. FrameOf(r, i, f)
  <2>1. i[1] = "lora" => f = <<"lora", m.flags>>
    OBVIOUS
  <2>2. f[1] = i[1] /\ (i[1] = "finally" => f = i)
    BY <1>4
  <2>3. i[1] = "lora" => f[2] = AllOff(r)
    BY <1>0, <2>1
  <2> HIDE DEF f
  <2> QED BY <1>4, <2>2, <2>3 DEF FrameOf
<1>2. Pushed(f, m.stack, T)
  BY <1>0, PushIs
<1>3. a.stack = T /\ Twin(r, a, b)
  <2>0. IsSequence(T)
    BY <1>2 DEF Pushed
  <2>1. CASE i[1] = "lora"
    <3> DEFINE g == [l \in DOMAIN m.flags |-> i[2]]
    <3>1. f = <<"lora", m.flags>> /\ f = <<"lora", n.flags>>
      BY <1>0, <2>1
    <3>2. a = [m EXCEPT !.stack = T, !.flags = g]
      BY <2>1, <3>1 DEF Do, Push, Twin, Parts
    <3>3. b = [n EXCEPT !.stack = T, !.flags = g]
      BY <1>0, <2>1, <3>1 DEF Do, Push, Twin, Parts
    <3>4. g = AllOff(r)
      BY <1>0, <1>4, <2>1 DEF AllOff
    <3> HIDE DEF a, b, f, T, g
    <3> QED BY <2>0, <3>2, <3>3, <3>4 DEF Twin, Parts
  <2>2. CASE i[1] = "window"
    <3> DEFINE g == <<i>> \o m.open
               h == <<i>> \o n.open
    <3>1. f = <<"window">>
      BY <2>2
    <3>2. a = [m EXCEPT !.stack = T, !.open = g]
      BY <2>2, <3>1 DEF Do, Push, Twin, Parts
    <3>3. b = [n EXCEPT !.stack = T, !.open = h]
      BY <1>0, <2>2, <3>1 DEF Do, Push, Twin, Parts
    <3> HIDE DEF a, b, f, T, g, h
    <3> QED BY <2>0, <3>2, <3>3 DEF Twin, Parts
  <2>3. CASE i[1] = "finally"
    <3>1. a = [m EXCEPT !.stack = T]
      BY <2>3 DEF Do, Push
    <3>2. b = [n EXCEPT !.stack = T]
      BY <1>0, <2>3 DEF Do, Push
    <3> HIDE DEF a, b, f, T
    <3> QED BY <2>0, <3>1, <3>2 DEF Twin, Parts
  <2> QED BY <1>4, <2>1, <2>2, <2>3
<1> HIDE DEF f, T, a, b
<1>5. Pushed(f, m.stack, a.stack)
  BY <1>2, <1>3
<1> QED BY <1>1, <1>3, <1>5 DEF a, b

LEMMA TwinEnds ==
  ASSUME NEW r, NEW m, NEW n, Twin(r, m, n), NEW o, NEW f, FrameOf(r, o, f), NEW S,
         IsSequence(S), Pushed(f, S, m.stack), NEW i, i[1] = "end"
  PROVE  Do(r, i, m).stack = S /\ Twin(r, Do(r, i, m), Do(r, i, n))
<1> DEFINE mm == [m EXCEPT !.stack = S]
           mn == [n EXCEPT !.stack = S]
           a == Do(r, i, m)
           b == Do(r, i, n)
<1>1. Head(m.stack) = f /\ Tail(m.stack) = S /\ m.stack = n.stack
  BY DEF Pushed, Twin
<1>2. a = Leave(mm, f, FALSE) /\ b = Leave(mn, f, FALSE)
  BY <1>1 DEF Do, Pop
<1>3. Twin(r, mm, mn) /\ mm.stack = S
  BY DEF Twin, Parts
<1> HIDE DEF mm, mn, a, b
<1>4. a.stack = S /\ Twin(r, a, b)
  <2>1. CASE f[1] = "lora"
    <3>1. f[2] = AllOff(r)
      BY <2>1 DEF FrameOf
    <3>2. a = [mm EXCEPT !.flags = f[2]] /\ b = [mn EXCEPT !.flags = f[2]]
      BY <1>2, <2>1 DEF Leave, CloseScope
    <3> QED BY <1>3, <3>1, <3>2 DEF Twin, Parts
  <2>2. CASE f[1] = "window"
    <3> DEFINE g == Tail(mm.open)
               h == Tail(mn.open)
    <3>1. a = [mm EXCEPT !.open = g] /\ b = [mn EXCEPT !.open = h]
      BY <1>2, <2>2 DEF Leave, CloseWindow
    <3> HIDE DEF g, h
    <3> QED BY <1>3, <3>1 DEF Twin, Parts
  <2>3. CASE f[1] = "finally"
    <3> DEFINE x == [mm.live EXCEPT ![f[2]] = mm.snap[f[3]]]
               y == [mm.alias EXCEPT ![f[2]] = OwnCache]
    <3>0. /\ Parts \subseteq DOMAIN mm /\ Parts \subseteq DOMAIN mn
          /\ mm.live = mn.live /\ mm.alias = mn.alias /\ mm.snap = mn.snap
      BY <1>3 DEF Twin
    <3>1. a = [mm EXCEPT !.live = x, !.alias = y]
      BY <1>2, <2>3, <3>0 DEF Leave, Restore, OwnCache, Parts
    <3>2. b = [mn EXCEPT !.live = x, !.alias = y]
      BY <1>2, <2>3, <3>0 DEF Leave, Restore, OwnCache, Parts
    <3> HIDE DEF x, y
    <3> QED BY <1>3, <3>1, <3>2 DEF Twin, Parts
  <2> QED BY <2>1, <2>2, <2>3 DEF FrameOf
<1> QED BY <1>4 DEF a, b

\* A scope that keeps the adapters off.
LEMMA TwofoldScope ==
  ASSUME NEW r, NEW body, Twofold(r, body), NEW i, Opening(i), NEW e, e[1] = "end",
         NEW p, p = <<i>> \o body \o <<e>>
  PROVE  Twofold(r, p)
<1> DEFINE pi == <<i>>
           pe == <<e>>
           u == pi \o body
<1>1. IsSequence(body)
  BY DEF Twofold
<1>2. IsSequence(p) /\ \A m : Executed(r, m, p) = Do(r, e, Executed(r, Do(r, i, m), body))
  BY <1>1, InScope
<1>3. Unrefused(p) => Unrefused(body)
  <2>1. IsSequence(pi) /\ IsSequence(pe)
    BY OneIs
  <2>2. p = u \o pe
    OBVIOUS
  <2> HIDE DEF pi, pe
  <2>3. IsSequence(u)
    BY <1>1, <2>1, JoinIs
  <2>4. Unrefused(u) => Unrefused(body)
    BY <1>1, <2>1, UnrefusedJoin
  <2> HIDE DEF u
  <2>5. Unrefused(u \o pe) => Unrefused(u)
    BY <2>1, <2>3, UnrefusedJoin
  <2> QED BY <2>2, <2>4, <2>5
<1>4. ASSUME Unrefused(p), NEW m, NEW n, Twin(r, m, n)
      PROVE  TwinOn(r, m, Executed(r, m, p), Executed(r, n, p))
  <2> DEFINE m1 == Do(r, i, m)
             n1 == Do(r, i, n)
             m2 == Executed(r, m1, body)
             n2 == Executed(r, n1, body)
             m3 == Do(r, e, m2)
             n3 == Do(r, e, n2)
  <2>1. PICK f : FrameOf(r, i, f) /\ Pushed(f, m.stack, m1.stack) /\ Twin(r, m1, n1)
    BY <1>4, TwinOpens
  <2>2. TwinOn(r, m1, m2, n2)
    BY <1>3, <1>4, <2>1 DEF Twofold
  <2>3. Executed(r, m, p) = m3 /\ Executed(r, n, p) = n3
    BY <1>2
  <2> HIDE DEF m1, n1, m2, n2
  <2>4. Twin(r, m2, n2) /\ Pushed(f, m.stack, m2.stack) /\ IsSequence(m.stack)
    BY <1>4, <2>1, <2>2 DEF TwinOn, Twin
  <2>5. m3.stack = m.stack /\ Twin(r, m3, n3)
    BY <2>1, <2>4, TwinEnds
  <2> HIDE DEF m3, n3
  <2> QED BY <2>3, <2>5 DEF TwinOn
<1> QED BY <1>2, <1>4 DEF Twofold

LEMMA TwofoldScoped ==
  ASSUME NEW r, r.ro, NEW body, Twofold(r, body)
  PROVE  Twofold(r, Scoped(r, FALSE, body))
<1> DEFINE i == <<"lora", FALSE>>
           e == <<"end">>
           p == <<i>> \o body \o <<e>>
<1>1. Opening(i) /\ e[1] = "end"
  BY DEF Opening
<1>2. Scoped(r, FALSE, body) = p
  BY DEF Scoped
<1> HIDE DEF i, e
<1>3. Twofold(r, p)
  BY <1>1, TwofoldScope
<1> QED BY <1>2, <1>3

LEMMA TwofoldGuarded ==
  ASSUME NEW r, NEW body, Twofold(r, body)
  PROVE  Twofold(r, Guarded(body))
<1> DEFINE i == <<"window">>
           e == <<"end">>
           p == <<i>> \o body \o <<e>>
<1>1. Opening(i) /\ e[1] = "end"
  BY DEF Opening
<1>2. Guarded(body) = p
  BY DEF Guarded
<1> HIDE DEF i, e
<1>3. Twofold(r, p)
  BY <1>1, TwofoldScope
<1> QED BY <1>2, <1>3

LEMMA TwofoldEncode ==
  ASSUME NEW r \in Runtimes, r.ro, NEW c, NEW p
  PROVE  Twofold(r, Encode(r, c, p))
<1> DEFINE emb == <<"embed", <<"prompt", p>>>>
           err == <<"raise">>
           low == Run(1, r.hi, c, 0, PromptLen[p], p, "prefill")
           cut == <<"boundary", c>>
           high == Run(r.hi + 1, NLayers, c, 0, PromptLen[p], p, "prefill")
           body == low \o <<cut>> \o high
           enc == Encode(r, c, p)
<1>1. /\ emb[1] \in Plain \cup {"raise"} /\ err[1] \in Plain \cup {"raise"}
      /\ cut[1] \in Plain \cup {"raise"}
  BY DEF Plain
<1>2. enc = IF PromptLen[p] < r.slots THEN <<err>> ELSE <<emb>> \o Scoped(r, FALSE, body)
  BY DEF Encode
<1>3. Twofold(r, low)
  BY LayerRange, TwofoldRun
<1>4. Twofold(r, high)
  BY LayerRange, TwofoldRun
<1> HIDE DEF emb, err, low, cut, high, enc
<1>5. Twofold(r, <<emb>>) /\ Twofold(r, <<err>>) /\ Twofold(r, <<cut>>)
  BY <1>1, TwofoldOne
<1>6. Twofold(r, low \o <<cut>>)
  BY <1>3, <1>5, TwofoldJoin
<1>7. Twofold(r, body)
  BY <1>4, <1>6, TwofoldJoin
<1> HIDE DEF body
<1>8. Twofold(r, Scoped(r, FALSE, body))
  BY <1>7, TwofoldScoped
<1>9. Twofold(r, <<emb>> \o Scoped(r, FALSE, body))
  BY <1>5, <1>8, TwofoldJoin
<1>10. Twofold(r, enc)
  BY <1>2, <1>5, <1>9
<1> QED BY <1>10 DEF enc

\* No recurrent step, or a call that is refused.
LEMMA TwofoldSteps ==
  ASSUME NEW r, NEW ab, NEW c, NEW start, NEW k, EffectiveK(ab, k) = 0
  PROVE  Twofold(r, LatentSteps(r, ab, c, start, k))
<1> DEFINE err == <<"raise">>
           sn == <<"snap", c, <<"loop", c>>>>
           az == <<"ablate", c, "zero">>
           an == <<"ablate", c, "noise">>
           i == <<"finally", c, <<"loop", c>>>>
           e == <<"end">>
           none == <<>>
           fin == <<i>> \o none \o <<e>>
           first == IF Neutral(r) THEN <<sn>> ELSE none
           body == IF Neutral(r) THEN fin ELSE none
           last == StateControls(c, ab.state)
           win == Guarded(body)
           all == first \o win \o last
<1>1. /\ err[1] \in Plain \cup {"raise"} /\ sn[1] \in Plain \cup {"raise"}
      /\ az[1] \in Plain \cup {"raise"} /\ an[1] \in Plain \cup {"raise"}
      /\ Opening(i) /\ e[1] = "end"
  BY DEF Plain, Opening
<1>2. last = IF "zero" \in ab.state THEN <<az>>
             ELSE IF "noise" \in ab.state THEN <<an>> ELSE none
  BY DEF StateControls
<1>3. Loop(r, ab, c, start, k) = none
  BY LoopNothing
<1>4. LatentSteps(r, ab, c, start, k) = IF k \notin 0..MaxK THEN <<err>> ELSE all
  BY <1>3 DEF LatentSteps
<1>5. Twofold(r, none)
  BY TwofoldNone
<1> HIDE DEF err, sn, az, an, i, e, none, last
<1>6. Twofold(r, <<err>>) /\ Twofold(r, <<sn>>) /\ Twofold(r, <<az>>) /\ Twofold(r, <<an>>)
  BY <1>1, TwofoldOne
<1>7. Twofold(r, fin)
  BY <1>1, <1>5, TwofoldScope
<1> HIDE DEF fin
<1>8. Twofold(r, first) /\ Twofold(r, last) /\ Twofold(r, body)
  BY <1>2, <1>5, <1>6, <1>7
<1> HIDE DEF first, body
<1>9. Twofold(r, win)
  BY <1>8, TwofoldGuarded
<1> HIDE DEF win
<1>10. Twofold(r, first \o win)
  BY <1>8, <1>9, TwofoldJoin
<1>11. Twofold(r, all)
  BY <1>8, <1>10, TwofoldJoin
<1> HIDE DEF all
<1> QED BY <1>4, <1>6, <1>11

LEMMA TwofoldToken ==
  ASSUME NEW r \in Runtimes, r.ro, NEW c, NEW pos, NEW tok, NEW next, NEW last
  PROVE  Twofold(r, AnswerToken(r, c, pos, tok, next, last))
<1> DEFINE hd == <<"head", tok>>
           emb == <<"embed", <<"token", tok>>>>
           low == Run(1, r.hi, c, next, 1, tok, "answer")
           inj == <<"inject">>
           high == Run(r.hi + 1, NLayers, c, next, 1, tok, "answer")
           body == low \o <<inj>> \o high
           more == IF last THEN <<>> ELSE <<emb>> \o Scoped(r, FALSE, body)
<1>1. /\ hd[1] \in Plain \cup {"raise"} /\ emb[1] \in Plain \cup {"raise"}
      /\ inj[1] \in Plain \cup {"raise"}
  BY DEF Plain
<1>2. AnswerToken(r, c, pos, tok, next, last) = Guarded(<<hd>>) \o more
  BY DEF AnswerToken
<1>3. Twofold(r, low)
  BY LayerRange, TwofoldRun
<1>4. Twofold(r, high)
  BY LayerRange, TwofoldRun
<1> HIDE DEF hd, emb, low, inj, high
<1>5. Twofold(r, <<hd>>) /\ Twofold(r, <<emb>>) /\ Twofold(r, <<inj>>) /\ Twofold(r, <<>>)
  BY <1>1, TwofoldOne, TwofoldNone
<1>6. Twofold(r, low \o <<inj>>)
  BY <1>3, <1>5, TwofoldJoin
<1>7. Twofold(r, body)
  BY <1>4, <1>6, TwofoldJoin
<1> HIDE DEF body
<1>8. Twofold(r, Scoped(r, FALSE, body))
  BY <1>7, TwofoldScoped
<1>9. Twofold(r, <<emb>> \o Scoped(r, FALSE, body))
  BY <1>5, <1>8, TwofoldJoin
<1>10. Twofold(r, more)
  BY <1>5, <1>9
<1> HIDE DEF more
<1>11. Twofold(r, Guarded(<<hd>>))
  BY <1>5, TwofoldGuarded
<1>12. Twofold(r, Guarded(<<hd>>) \o more)
  BY <1>10, <1>11, TwofoldJoin
<1> QED BY <1>2, <1>12

LEMMA TwofoldScore ==
  ASSUME NEW r \in Runtimes, r.ro, NEW c, NEW pos, NEW cand \in Seq(Tokens), NEW label
  PROVE  Twofold(r, ScoreTokens(r, c, pos, cand, label))
<1> DEFINE err == <<"raise">>
           start == <<"score", label, cand>>
           tail == r.hi < NLayers
           first == pos + IF tail THEN 1 ELSE 0
           low == Run(r.hi + 1, NLayers, c, pos, 1, "carrier", "tail")
           carrier == IF tail THEN Scoped(r, FALSE, low) ELSE <<>>
           tok(j) == AnswerToken(r, c, pos, cand[j], first + j - 1, j = Len(cand))
           f == [j \in DOMAIN cand |-> tok(j)]
<1>1. err[1] \in Plain \cup {"raise"} /\ start[1] \in Plain \cup {"raise"}
  BY DEF Plain
<1>2. /\ cand = <<>> => ScoreTokens(r, c, pos, cand, label) = <<err>>
      /\ cand # <<>> => ScoreTokens(r, c, pos, cand, label)
                          = <<start>> \o carrier \o FlattenSeq(f)
  BY DEF ScoreTokens
<1>3. Len(cand) \in Int /\ DOMAIN cand = 1..Len(cand)
  OBVIOUS
<1>4. \A j \in 1..Len(cand) : Twofold(r, f[j])
  <2> TAKE j \in 1..Len(cand)
  <2>1. f[j] = tok(j)
    BY <1>3
  <2> QED BY <2>1, TwofoldToken
<1>5. f = [j \in 1..Len(cand) |-> f[j]]
  BY <1>3
<1>6. Twofold(r, low)
  BY LayerRange, TwofoldRun
<1> HIDE DEF err, start, low, f
<1>7. Twofold(r, FlattenSeq(f))
  BY <1>3, <1>4, <1>5, TwofoldFlat
<1>8. Twofold(r, Scoped(r, FALSE, low))
  BY <1>6, TwofoldScoped
<1>9. Twofold(r, carrier)
  BY <1>8, TwofoldNone
<1> HIDE DEF carrier
<1>10. Twofold(r, <<err>>) /\ Twofold(r, <<start>>)
  BY <1>1, TwofoldOne
<1>11. Twofold(r, <<start>> \o carrier)
  BY <1>9, <1>10, TwofoldJoin
<1>12. Twofold(r, <<start>> \o carrier \o FlattenSeq(f))
  BY <1>7, <1>11, TwofoldJoin
<1> QED BY <1>2, <1>10, <1>12

LEMMA TwofoldScores ==
  ASSUME NEW r \in Runtimes, r.ro, NEW c, NEW pos, NEW key, NEW cands \in Seq(Seq(Tokens)),
         NEW label
  PROVE  Twofold(r, ScoreEach(r, c, pos, key, cands, label))
<1> DEFINE i == <<"restore", c, key>>
           f == [j \in DOMAIN cands |-> <<i>> \o ScoreTokens(r, c, pos, cands[j], label)]
<1>1. i[1] \in Plain \cup {"raise"}
  BY DEF Plain
<1>2. ScoreEach(r, c, pos, key, cands, label) = FlattenSeq(f)
  BY DEF ScoreEach
<1>3. Len(cands) \in Int /\ DOMAIN cands = 1..Len(cands)
  OBVIOUS
<1> HIDE DEF i
<1>4. \A j \in 1..Len(cands) : Twofold(r, f[j])
  <2> TAKE j \in 1..Len(cands)
  <2>1. f[j] = <<i>> \o ScoreTokens(r, c, pos, cands[j], label)
    BY <1>3
  <2>2. cands[j] \in Seq(Tokens)
    OBVIOUS
  <2>3. Twofold(r, <<i>>)
    BY <1>1, TwofoldOne
  <2>4. Twofold(r, ScoreTokens(r, c, pos, cands[j], label))
    BY <2>2, TwofoldScore
  <2>5. Twofold(r, <<i>> \o ScoreTokens(r, c, pos, cands[j], label))
    BY <2>3, <2>4, TwofoldJoin
  <2> QED BY <2>1, <2>5
<1>5. f = [j \in 1..Len(cands) |-> f[j]]
  BY <1>3
<1> HIDE DEF f
<1>6. Twofold(r, FlattenSeq(f))
  BY <1>3, <1>4, <1>5, TwofoldFlat
<1> QED BY <1>2, <1>6

LEMMA TwofoldCall ==
  ASSUME NEW r \in Runtimes, r.ro, NEW a \in CallArguments, EffectiveK(a.ab, a.k) = 0
  PROVE  Twofold(r, ScoreCall(r, a))
<1> DEFINE swap == "swap" \in a.ab.state
           pos == ReadoutPos(r, a.ab, a.p, a.k)
           sp == <<"snap", "target", <<"prompt">>>>
           rp == <<"restore", "target", <<"prompt">>>>
           rt1 == <<"readout", "target">>
           rt2 == <<"readout", "partner">>
           rs == <<"reset">>
           sr == <<"snap", "target", <<"read">>>>
           vw == <<"view">>
           e1 == Encode(r, "target", a.p)
           c1 == IF a.ab.cache THEN <<sp>> ELSE <<>>
           e3 == Encode(r, "partner", a.q)
           e2 == IF swap THEN e3 ELSE <<>>
           l1 == LatentSteps(r, a.ab, "target", PromptLen[a.p], a.k)
           m2 == LatentSteps(r, a.ab, "partner", PromptLen[a.q], a.k)
           l2 == IF swap THEN m2 \o <<rt2>> ELSE <<>>
           c2 == IF "reset" \in a.ab.state THEN <<rs>> ELSE <<>>
           c3 == IF a.ab.cache THEN <<rp>> ELSE <<>>
           sc == ScoreEach(r, "target", pos, <<"read">>, a.cands, "own")
           rd == <<sr, vw>>
           w4 == e1 \o c1 \o e2 \o l1
           w6 == w4 \o <<rt1>> \o l2
           w8 == w6 \o c2 \o c3
           w9 == w8 \o rd
<1>1. /\ sp[1] \in Plain \cup {"raise"} /\ rp[1] \in Plain \cup {"raise"}
      /\ rt1[1] \in Plain \cup {"raise"} /\ rt2[1] \in Plain \cup {"raise"}
      /\ rs[1] \in Plain \cup {"raise"} /\ sr[1] \in Plain \cup {"raise"}
      /\ vw[1] \in Plain \cup {"raise"}
  BY DEF Plain
<1>2. ScoreCall(r, a) = w9 \o sc
  BY DEF ScoreCall
<1>3. Twofold(r, e1) /\ Twofold(r, e3) /\ Twofold(r, <<>>)
  BY TwofoldEncode, TwofoldNone
<1>4. Twofold(r, l1) /\ Twofold(r, m2)
  BY TwofoldSteps
<1>5. a.cands \in Seq(Seq(Tokens))
  BY DEF CallArguments
<1>6. Twofold(r, sc)
  BY <1>5, TwofoldScores
<1>7. rd = <<sr>> \o <<vw>>
  BY PairJoined
<1> HIDE DEF swap, pos, sp, rp, rt1, rt2, rs, sr, vw, e1, e3, l1, m2, sc, rd
<1>8. /\ Twofold(r, <<sp>>) /\ Twofold(r, <<rp>>) /\ Twofold(r, <<rt1>>)
      /\ Twofold(r, <<rt2>>) /\ Twofold(r, <<rs>>) /\ Twofold(r, <<sr>>)
      /\ Twofold(r, <<vw>>)
  BY <1>1, TwofoldOne
<1>9. Twofold(r, m2 \o <<rt2>>)
  BY <1>4, <1>8, TwofoldJoin
<1>10. Twofold(r, rd)
  BY <1>7, <1>8, TwofoldJoin
<1>11. /\ Twofold(r, c1) /\ Twofold(r, e2) /\ Twofold(r, l2) /\ Twofold(r, c2)
       /\ Twofold(r, c3)
  BY <1>3, <1>8, <1>9
<1> HIDE DEF c1, e2, l2, c2, c3
<1>12. Twofold(r, e1 \o c1)
  BY <1>3, <1>11, TwofoldJoin
<1>13. Twofold(r, e1 \o c1 \o e2)
  BY <1>11, <1>12, TwofoldJoin
<1>14. Twofold(r, w4)
  BY <1>4, <1>13, TwofoldJoin
<1> HIDE DEF w4
<1>15. Twofold(r, w4 \o <<rt1>>)
  BY <1>8, <1>14, TwofoldJoin
<1>16. Twofold(r, w6)
  BY <1>11, <1>15, TwofoldJoin
<1> HIDE DEF w6
<1>17. Twofold(r, w6 \o c2)
  BY <1>11, <1>16, TwofoldJoin
<1>18. Twofold(r, w8)
  BY <1>11, <1>17, TwofoldJoin
<1> HIDE DEF w8
<1>19. Twofold(r, w9)
  BY <1>10, <1>18, TwofoldJoin
<1> HIDE DEF w9
<1>20. Twofold(r, w9 \o sc)
  BY <1>6, <1>19, TwofoldJoin
<1> QED BY <1>2, <1>20

\* A call without recurrence scores with trainables w as with any others.
LEMMA UntrainedScores ==
  ASSUME NEW r \in Runtimes, r.ro, NEW a \in CallArguments, a.kind = "score", NEW w, NEW v,
         EffectiveK(a.ab, a.k) = 0, Unrefused(Program(r, a))
  PROVE  Results(Executed(r, Rest(r, w), Program(r, a)))
           = Results(Executed(r, Rest(r, v), Program(r, a)))
<1> DEFINE m == Rest(r, w)
           n == Rest(r, v)
           p == Program(r, a)
           x == Executed(r, m, p)
           y == Executed(r, n, p)
<1>1. p = ScoreCall(r, a)
  BY DEF Program
<1>2. Twofold(r, p)
  BY <1>1, TwofoldCall
<1>3. Twin(r, m, n)
  <2>1. RestingFlags(r) = AllOff(r)
    BY DEF RestingFlags, AllOff
  <2>2. m.flags = AllOff(r) /\ n.flags = AllOff(r) /\ m.stack = <<>> /\ n.stack = <<>>
    BY <2>1 DEF Rest
  <2>3. Parts \subseteq DOMAIN m /\ Parts \subseteq DOMAIN n
    BY DEF Rest, Parts
  <2>4. /\ m.live = n.live /\ m.alias = n.alias /\ m.snap = n.snap /\ m.h = n.h
        /\ m.z = n.z /\ m.z0 = n.z0 /\ m.rd = n.rd /\ m.delta = n.delta
        /\ m.scores = n.scores
    BY DEF Rest
  <2> HIDE DEF m, n
  <2> QED BY <2>2, <2>3, <2>4, NothingIs DEF Twin
<1> HIDE DEF m, n, p
<1>4. TwinOn(r, m, x, y)
  BY <1>2, <1>3 DEF Twofold, p
<1>5. x.scores = y.scores
  BY <1>4 DEF TwinOn, Twin
<1> HIDE DEF x, y
<1>6. Results(x) = Results(y)
  BY <1>5 DEF Results
<1> QED BY <1>6 DEF x, y, m, n, p

\* No control contains recurrence: with adapters that only the recurrence may
\* use, a call without effective steps scores as the frozen model; with a delta
\* readout, a zeroed or reset state, or adapters at their initialisation, score
\* exactly as K=0 does (localized.py:18-20, 770-776, 814-818, 987-996).
THEOREM ControlsAreNeutral == Spec => []ControlsCarryNoRecurrence
<1>1. Sound /\ AsAlone => ControlsCarryNoRecurrence
  <2> DEFINE K0 == [call EXCEPT !.k = 0, !.ab = Clean, !.q = NoPrompt]
             fresh == [t \in Tensors(rt) |-> 0]
             control == \/ call.ab.state \cap {"zero", "reset"} # {}
                        \/ s.entry = fresh /\ "noise" \notin call.ab.state
             w == s.entry
             here == Executed(rt, Rest(rt, w), Program(rt, call))
  <2> SUFFICES ASSUME Sound, AsAlone, phase = "returned", call.kind = "score"
               PROVE  /\ rt.ro /\ EffectiveK(call.ab, call.k) = 0 =>
                           Results(s) = Results(Alone(fresh, call))
                      /\ Neutral(rt) /\ control => Results(s) = Results(Alone(s.entry, K0))
    BY DEF ControlsCarryNoRecurrence, Returned
  <2>1. rt \in Runtimes /\ call \in CallArguments
    BY DEF Sound
  <2>2. Begun(rt, call, s, Program(rt, call), <<>>)
    BY DEF AsAlone
  <2>3. Unrefused(Program(rt, call)) /\ s = here
    BY <2>2 DEF Begun
  <2>4. ASSUME rt.ro, EffectiveK(call.ab, call.k) = 0
        PROVE  Results(s) = Results(Alone(fresh, call))
    <3> HIDE DEF w, fresh
    <3>1. Results(here) = Results(Executed(rt, Rest(rt, fresh), Program(rt, call)))
      BY <2>1, <2>3, <2>4, UntrainedScores
    <3> QED BY <2>3, <3>1 DEF Alone
  <2>5. ASSUME Neutral(rt), control
        PROVE  Results(s) = Results(Alone(s.entry, K0))
    <3>1. Quiet(rt, w, call) \/ "reset" \in call.ab.state
      <4>1. fresh = w => Fresh(rt, w)
        BY DEF Fresh
      <4>2. control
        BY <2>5
      <4> HIDE DEF fresh
      <4> QED BY <4>1, <4>2 DEF Quiet
    <3>2. K0 = Zeroed(call)
      BY DEF Zeroed
    <3> HIDE DEF K0, fresh, control
    <3>3. Results(here) = Results(Executed(rt, Rest(rt, w), Program(rt, Zeroed(call))))
      <4> HIDE DEF w
      <4> QED BY <2>1, <2>3, <2>5, <3>1, ControlScores
    <3>4. Alone(s.entry, K0) = Executed(rt, Rest(rt, w), Program(rt, Zeroed(call)))
      BY <3>2 DEF Alone
    <3> QED BY <2>3, <3>3, <3>4
  <2> QED BY <2>4, <2>5
<1> QED BY <1>1, RuntimeInductive, AloneInductive, PTL
=============================================================================
