--------------------------- MODULE LatentRuntime ---------------------------
(***************************************************************************)
(* The calls of LocalizedRecurrence (backends/localized.py) as straight-   *)
(* line programs over layers, caches and adapter switches.  Values are     *)
(* terms that say what they were computed from: two values are equal when  *)
(* the code computes them in the same way from the same inputs.  An        *)
(* instruction is a tuple whose first element names it; Do gives its       *)
(* effect on the runtime's state s.                                        *)
(***************************************************************************)
EXTENDS Integers, SequencesExt

CONSTANTS NLayers,    \* decoder layers
          InPlace,    \* layers whose cached state is overwritten in place
          Prompts,    \* prompts, as tokens-to-be: PromptLen says how many
          PromptLen,
          Tokens,     \* answer tokens
          MaxK,       \* max_k of the runtime
          FixedK      \* the only K of the trace and margin losses (4)

ASSUME RuntimeConstants ==
  /\ {NLayers, MaxK, FixedK} \subseteq Nat /\ NLayers > 0
  /\ InPlace \subseteq 1..NLayers
  /\ PromptLen \in [Prompts -> Nat \ {0}]

Layers == 1..NLayers
Contexts == {"target", "partner"}
Zero == <<"zero">>
Own == <<"own">>

----------------------------------------------------------------------------
(* Configurations and arguments *)

(* Which constructor arguments are accepted.                               *)
ValidRuntime(r) ==
  /\ r.lo < r.hi
  /\ r.neutral \/ r.paired => r.lo = 0 /\ r.hi = NLayers /\ r.ro
  /\ r.slots > 1 => r.paired

Runtimes == {r \in [lo : 0..NLayers, hi : Layers, ro : BOOLEAN,
                    neutral : BOOLEAN, paired : BOOLEAN, slots : 1..2,
                    clock : BOOLEAN] : ValidRuntime(r)}

Neutral(r) == r.neutral \/ r.paired
Interval(r) == (r.lo + 1)..r.hi
Gated(r) == Neutral(r) /\ ~r.paired

Tensors(r) == {"A", "B"} \cup (IF r.clock THEN {"clock"} ELSE {})
                         \cup (IF Gated(r) THEN {"gates"} ELSE {})

(* The resting state of the switches: off when only the recurrence may use *)
(* the adapters.                                                           *)
RestingFlags(r) == [l \in Interval(r) |-> ~r.ro]

ValidClocks(mode, k) ==
  mode[1] = "perm" => Len(mode[2]) = k /\ ToSet(mode[2]) = 0..(k - 1)

ClockSteps(mode, k) ==
  CASE mode[1] = "perm"    -> mode[2]
    [] mode[1] = "reverse" -> [j \in 1..k |-> k - j]
    [] OTHER               -> [j \in 1..k |-> j - 1]

(* An ablation: state controls, cache control, clocks, bypass and a        *)
(* truncation (-1: none).                                                  *)
Clean == [state |-> {}, cache |-> FALSE, clocks |-> <<"identity">>,
          bypass |-> FALSE, truncate |-> -1]

ValidAblation(ab, k) ==
  /\ ValidClocks(ab.clocks, k)
  /\ ab.truncate \in -1..k
  /\ \A x, y \in ab.state : x = y
  /\ ab.cache => ab.state \subseteq {"reset"}

EffectiveK(ab, k) == IF ab.truncate = -1 THEN k ELSE ab.truncate

----------------------------------------------------------------------------
(* The runtime's state: switches, guard windows and trainables outlive a   *)
(* call, the rest is the frame of the call.                                *)

Rest(r, w) ==
  [flags |-> RestingFlags(r), open |-> <<>>, w |-> w, entry |-> w,
   stack |-> <<>>,
   live  |-> [c \in Contexts |-> [l \in Layers |-> <<>>]],
   alias |-> [c \in Contexts |-> [l \in Layers |-> Own]],
   snap  |-> <<>>, h |-> Zero, base |-> Zero, traj |-> <<>>,
   z0    |-> [c \in Contexts |-> Zero], z |-> [c \in Contexts |-> Zero],
   rd    |-> Zero, delta |-> Zero, prompt |-> <<>>, view |-> <<>>,
   count |-> [p \in {"prefill", "loop", "tail", "answer", "head"} |-> 0],
   scores |-> <<>>]

(* Enter a call: a new frame.                                              *)
Enter(r, s) == [Rest(r, s.w) EXCEPT !.flags = s.flags, !.open = s.open]

Content(s, c, l) ==
  IF s.alias[c][l] = Own THEN s.live[c][l] ELSE s.snap[s.alias[c][l]][l]
Contents(s, c) == [l \in Layers |-> Content(s, c, l)]

(* A snapshot and a restore both copy: later writes in place reach neither *)
(* the snapshot nor, after a restore, anything but the live cache.         *)
Snapshot(s, c, key) ==
  [s EXCEPT !.snap = [x \in DOMAIN @ \cup {key} |->
                        IF x = key THEN Contents(s, c) ELSE @[x]]]
RestoreAliased(s, c, key) ==     \* mutant: the snapshot itself becomes live
  [s EXCEPT !.alias[c] = [l \in Layers |-> key]]
Restore(s, c, key) ==
  [s EXCEPT !.live[c] = s.snap[key], !.alias[c] = [l \in Layers |-> Own]]

(* What the adapter of a layer adds: nothing while it is off or its B is   *)
(* still zero, as at initialisation.                                       *)
Adapted(r, s, l) ==
  IF l \in Interval(r) /\ s.flags[l] /\ s.w["B"] # 0
  THEN <<s.w["A"], s.w["B"]>> ELSE <<>>

ApplyLayer(r, s, c, l, pos, n, what, phase) ==
  LET tag   == Adapted(r, s, l)
      grown == Append(Content(s, c, l), <<what, pos, tag>>)
      next  == [s EXCEPT !.h = <<"layer", l, tag, @, Content(s, c, l), pos>>,
                         !.count[phase] = @ + n]
  IN IF l \in InPlace /\ s.alias[c][l] # Own
     THEN [next EXCEPT !.snap[s.alias[c][l]][l] = grown]
     ELSE [next EXCEPT !.live[c][l] = grown, !.alias[c][l] = Own]

Tick(r, s, c, ci, on) ==
  [s EXCEPT !.h = IF on /\ r.clock /\ s.w["clock"] # 0
                  THEN <<"clock", ci, s.w["clock"], s.z[c]>> ELSE s.z[c]]

(* z + (adapted - base), z + gate * (proposal - z), or the proposal.       *)
Update(r, s, c, ci) ==
  LET z == s.z[c]
      new == CASE r.paired -> IF s.h = s.base THEN z
                              ELSE <<"paired", z, s.h, s.base>>
               [] Gated(r) -> IF s.w["gates"] = 0 \/ s.h = z THEN z
                              ELSE <<"gated", ci, s.w["gates"], z, s.h>>
               [] OTHER    -> s.h
  IN [s EXCEPT !.z[c] = new, !.traj = Append(@, new)]

Difference(z, z0) == IF z = z0 THEN Zero ELSE <<"delta", z, z0>>
Plus(h, d) == IF d = Zero THEN h ELSE <<"plus", h, d>>

Ablate(r, s, c, how) ==
  CASE how = "zero"  -> [s EXCEPT !.z[c] = IF Neutral(r) THEN s.z0[c] ELSE Zero]
    [] how = "noise" ->
         [s EXCEPT !.z[c] = IF Neutral(r)
                            THEN <<"noise", s.z0[c], Difference(@, s.z0[c])>>
                            ELSE <<"noise", Zero, @>>]
    [] OTHER -> s

(* The state and the delta of context c, read into the target's carrier.   *)
Readout(r, s, c) ==
  IF Neutral(r)
  THEN LET d == Difference(s.z[c], s.z0[c])
       IN [s EXCEPT !.delta = d, !.rd = Plus(s.z0["target"], d)]
  ELSE [s EXCEPT !.rd = s.z[c]]

(* The counterfactual losses read a context's own delta, none, or the      *)
(* other context's delta scaled to the own one's norm.                     *)
ReadDelta(s, c, which) ==
  LET other == CHOOSE x \in Contexts : x # c
      own   == Difference(s.z[c], s.z0[c])
      far   == Difference(s.z[other], s.z0[other])
      d     == CASE which = "own"   -> own
                 [] which = "zero"  -> Zero
                 [] which = "other" -> IF Zero \in {own, far} THEN Zero
                                       ELSE <<"matched", far, own>>
  IN [s EXCEPT !.delta = d, !.rd = Plus(s.z0[c], d)]
=============================================================================
