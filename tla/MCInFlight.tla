----------------------------- MODULE MCInFlight -----------------------------
(***************************************************************************)
(* An instance of InFlight for TLC: a Deployment under one policy.          *)
(***************************************************************************)
EXTENDS InFlight, TLC

CONSTANTS a, b, c, c1, c2

Nobody == {}
Two == {a, b}
Three == {a, b, c}
TwoChans == {c1, c2}
Carrying(names) == {<<name, "1">> : name \in names}
AllLabelled == [s \in Slots |-> Carrying({"on", "a"})]
OneKey == [s \in Slots |-> [i \in {1} |-> "key"]]
OneID == [g \in {Group(s) : s \in Slots} |-> "id"]
OneByOne ==
  <<[selector |-> Carrying({"a"}), bypass |-> {}, maxBlocked |-> FALSE,
     pacer |-> [kind |-> "exponential", maxStagger |-> 3, minInitial |-> 1,
                num |-> 1, den |-> 1]]>>
Symmetry == Permutations(Slots) \cup Permutations(Chans)

\* Of a group that has slipped, the only one here, the run's properties say
\* nothing more.
NotSlipped == slipped = {}
Refusals == {"abort", "evictfail", "listfail"}
=============================================================================
