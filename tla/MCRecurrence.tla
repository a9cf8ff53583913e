--------------------------- MODULE MCRecurrence ---------------------------
(* Three layers, two of them with states overwritten in place; every       *)
(* configuration with a clock, and the calls that differ in what they do.  *)
EXTENDS Recurrence

MCPromptLen == [p \in {"p", "q"} |-> IF p = "p" THEN 2 ELSE 3]
MCConfigs == {r \in Runtimes : r.clock}

Cands == <<<<"a", "b">>, <<"c">>>>
Perm == <<"perm", <<1, 0>>>>

(* Clean, each single intervention, and the pairs the code accepts or must *)
(* refuse.                                                                 *)
Ablations ==
  {Clean, [Clean EXCEPT !.clocks = <<"off">>],
   [Clean EXCEPT !.clocks = Perm], [Clean EXCEPT !.truncate = 1],
   [Clean EXCEPT !.bypass = TRUE], [Clean EXCEPT !.cache = TRUE],
   [Clean EXCEPT !.state = {"reset"}, !.cache = TRUE],
   [Clean EXCEPT !.state = {"swap"}, !.truncate = 1],
   [Clean EXCEPT !.state = {"zero", "swap"}]}
  \cup {[Clean EXCEPT !.state = {x}] : x \in {"zero", "noise", "swap", "reset"}}

Arg(kind, k, ab, q, cands) ==
  [kind |-> kind, k |-> k, ab |-> ab, p |-> "p", q |-> q, cands |-> cands,
   gold |-> 1, otherGold |-> 2, targets |-> <<>>, sd |-> [sound |-> TRUE, version |-> 1]]

PartnerOf(ab) == IF "swap" \in ab.state THEN "q" ELSE NoPrompt

MCCalls(r) ==
  {Arg("score", k, ab, PartnerOf(ab), Cands) : k \in {0, 2}, ab \in Ablations}
  \cup {Arg("ce", 2, ab, NoPrompt, Cands) : ab \in Ablations}
  \cup {Arg("nll", 2, ab, NoPrompt, Cands) :
          ab \in {x \in Ablations : x.state \in {{}, {"zero"}}}}
  \cup {Arg("score", 2, Clean, NoPrompt, <<<<"a">>, <<>>>>),
        Arg("score", 3, Clean, NoPrompt, Cands),
        Arg("ce", 0, Clean, NoPrompt, Cands),
        Arg("margin", 2, Clean, "q", Cands), Arg("margin", 1, Clean, "q", Cands),
        [Arg("margin", 2, Clean, "q", Cands) EXCEPT !.otherGold = 1],
        Arg("trace", 2, Clean, NoPrompt, Cands),
        [Arg("trace", 2, Clean, NoPrompt, Cands)
           EXCEPT !.targets = <<<<1, <<"t">>>>>>],
        Arg("load", 0, Clean, NoPrompt, <<>>),
        [Arg("load", 0, Clean, NoPrompt, <<>>) EXCEPT !.sd.sound = FALSE]}
=============================================================================
