---------------------------- MODULE MCPacerLoop ----------------------------
(***************************************************************************)
(* Composites for TLC: each pacer by itself, pairs in both orders, and one  *)
(* with multipliers that round up.                                          *)
(***************************************************************************)
EXTENDS PacerLoop

Exponential(min, max, num, den) ==
  [kind |-> "exponential", maxStagger |-> max, minInitial |-> min, num |-> num, den |-> den]
Linear(step, max) == [kind |-> "linear", maxStagger |-> max, step |-> step]

SomePacers ==
  {Linear(1, 4), Linear(2, 3), Linear(3, 5), Linear(2, 0),
   Exponential(1, 4, 2, 1), Exponential(2, 5, 3, 2), Exponential(1, 3, 1, 1),
   Exponential(0, 4, 1, 2)}

Singles == {<<p>> : p \in SomePacers}
Pairs == {<<p, q>> : p, q \in SomePacers}
SomeComposites ==
  Singles \cup Pairs
  \cup {<<Linear(1, 4), Exponential(1, 4, 2, 1), Linear(2, 3)>>}

ThreePods == {"a", "b", "c"}
=============================================================================
