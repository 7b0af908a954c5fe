---------------------------- MODULE MCStraggler ----------------------------
(***************************************************************************)
(* Instances of Straggler for TLC: which pods, which policies, which faults.*)
(***************************************************************************)
EXTENDS Straggler, TLC

Two == {1, 2}
Three == {1, 2, 3}
Nobody == {}
Third == {3}
OthersAlike == Permutations(Slots \ StableNames)

\* Labels "a" and "b" are what policies select on, "on" enables staggering.
Carrying(names) == {<<name, "1">> : name \in names}

AllLabelled == [s \in Slots |-> Carrying({"on", "a"})]
AllBoth == [s \in Slots |-> Carrying({"on", "a", "b"})]
ThirdBoth == [s \in Slots |-> Carrying(IF s = 3 THEN {"on", "a", "b"} ELSE {"on", "a"})]

OneKey == [s \in Slots |-> [i \in 1..2 |-> "key"]]

Exponential(min, max, num, den) ==
  [kind |-> "exponential", maxStagger |-> max, minInitial |-> min, num |-> num, den |-> den]
Linear(step, max) == [kind |-> "linear", maxStagger |-> max, step |-> step]

OnLabel(label, maxBlocked, pacer) ==
  [selector |-> Carrying({label}), bypass |-> {}, maxBlocked |-> maxBlocked, pacer |-> pacer]

\* One pod first, then as many more at a time as are ready.
Doubling == <<OnLabel("a", FALSE, Exponential(1, 3, 1, 1))>>
DoublingMaxBlocked == <<OnLabel("a", TRUE, Exponential(1, 3, 1, 1))>>
OneByOne == <<OnLabel("a", FALSE, Linear(1, 3))>>
TwoPolicies == <<OnLabel("a", FALSE, Exponential(1, 3, 3, 2)),
                 OnLabel("b", FALSE, Linear(2, 3))>>

NoFault == {}
Ends == {"gone", "unready", "abort", "evictfail", "listfail"}
Losses == {"restart", "expire", "listfail", "failopen"}
Restarts == {"restart"}
=============================================================================
