------------------------------- MODULE Pacers -------------------------------
(***************************************************************************)
(* The pacing algorithms of pkg/pacer.  A pacer looks at a staggering group *)
(* (how many of its pods are ready, how many are starting, which are        *)
(* blocked) and says which blocked pods may go.                             *)
(*                                                                          *)
(* A pacer configuration is one of the records                              *)
(*    [kind |-> "linear", maxStagger |-> m, step |-> s]                     *)
(*    [kind |-> "exponential", maxStagger |-> m, minInitial |-> i,          *)
(*     num |-> n, den |-> d]                                                *)
(* where n/d is the float64 multiplier of the code, a dyadic rational, for  *)
(* which float64 multiplication and math.Ceil are exact.                    *)
(***************************************************************************)
EXTENDS Integers, FiniteSets

(***************************************************************************)
(* The configurations under which the pacers are defined: the code divides  *)
(* by Step, and NewPacerFactory checks none of these values.                *)
(***************************************************************************)
LinearPacer == [kind : {"linear"}, maxStagger : Nat, step : Nat \ {0}]

ExponentialPacer ==
  [kind : {"exponential"}, maxStagger : Nat, minInitial : Nat,
   num : Nat, den : Nat \ {0}]

Pacer == LinearPacer \cup ExponentialPacer

-----------------------------------------------------------------------------
(***************************************************************************)
(* How many pods a pacer lets go.                                           *)
(***************************************************************************)
LesserOf(a, b) == IF a < b THEN a ELSE b
GreaterOf(a, b) == IF a > b THEN a ELSE b

\* Mutant: one pod short of the step.
LinearCountShort(p, ready, starting, blocked) ==
  LET allowCount == p.step - (ready % p.step) - 1
  IN  IF allowCount <= starting THEN 0 ELSE LesserOf(blocked, allowCount)

\* What is missing to the next multiple of Step, unless that many are starting.
LinearCount(p, ready, starting, blocked) ==
  LET allowCount == p.step - (ready % p.step)
  IN  IF allowCount <= starting THEN 0 ELSE LesserOf(blocked, allowCount)

\* math.Ceil(float64(readyCount) * multiplier)
DesiredCount(p, ready) == (ready * p.num + p.den - 1) \div p.den

ExponentialCount(p, ready, starting, blocked) ==
  LET wanted == IF ready = 0 THEN p.minInitial ELSE DesiredCount(p, ready)
  IN  LesserOf(GreaterOf(0, wanted - starting), blocked)

\* MaxStagger ready pods switch staggering off.
AllowedCount(p, ready, starting, blocked) ==
  IF ready >= p.maxStagger THEN blocked
  ELSE IF p.kind = "linear" THEN LinearCount(p, ready, starting, blocked)
  ELSE ExponentialCount(p, ready, starting, blocked)

-----------------------------------------------------------------------------
(***************************************************************************)
(* What pacing promises, whoever computes it: whether one more pod may      *)
(* start when so many of its group are ready and starting.                  *)
(***************************************************************************)
HasRoom(p, ready, starting) ==
  \/ ready >= p.maxStagger
  \/ p.kind = "linear" /\ starting < p.step - (ready % p.step)
  \/ p.kind = "exponential" /\ ready = 0 /\ starting < p.minInitial
  \/ p.kind = "exponential" /\ ready > 0 /\ starting < DesiredCount(p, ready)

-----------------------------------------------------------------------------
(***************************************************************************)
(* Which pods go.  Every pacer takes the front of the blocked list, and an  *)
(* exponential pacer that paces sorts the caller's list by creation time    *)
(* before it does.                                                          *)
(***************************************************************************)
Sorts(p, ready) == p.kind = "exponential" /\ ready < p.maxStagger

\* The lists that hold each pod of a set once.
Orderings(S) ==
  {f \in [1..Cardinality(S) -> S] : \A p \in S : \E k \in DOMAIN f : f[k] = p}

Foremost(list, n) == {list[k] : k \in {j \in DOMAIN list : j <= n}}

(***************************************************************************)
(* The pods all pacers of a composite let go.  pacers is a function whose   *)
(* domain is a set of numbers, consulted in increasing order; listed is the *)
(* blocked list as the composite receives it, and sorted the same pods by   *)
(* creation time, the order every pacer sees from the first that sorts on.  *)
(***************************************************************************)
ListSeenBy(i, pacers, ready, listed, sorted) ==
  IF \E j \in DOMAIN pacers : j <= i /\ Sorts(pacers[j], ready)
  THEN sorted ELSE listed

PassedBy(i, pacers, ready, starting, listed, sorted, blocked) ==
  Foremost(ListSeenBy(i, pacers, ready, listed, sorted),
        AllowedCount(pacers[i], ready, starting, blocked))

Pace(pacers, ready, starting, listed, sorted, blocked) ==
  {p \in Foremost(listed, blocked) :
     \A i \in DOMAIN pacers :
        p \in PassedBy(i, pacers, ready, starting, listed, sorted, blocked)}
=============================================================================
