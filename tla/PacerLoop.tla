----------------------------- MODULE PacerLoop -----------------------------
(***************************************************************************)
(* One call of composite.Pace (pkg/pacer/composite.go), pacer by pacer.     *)
(* The composite counts, for every pod, the pacers that let it go, and      *)
(* allows the pods all pacers let go.  Its pacers share the slice of        *)
(* blocked pods: what one sorts, the following ones find sorted, and the    *)
(* composite itself goes through it last.                                   *)
(***************************************************************************)
EXTENDS Pacers, Sequences

CONSTANTS
  Composites,   \* the composites to call, each a sequence of pacers
  Pods,         \* pods that may be blocked
  MaxCount      \* bound: ready pods, and starting pods

ASSUME LoopAssumption ==
  /\ \A c \in Composites : c \in Seq(Pacer) \ {<<>>}
  /\ IsFiniteSet(Pods)
  /\ MaxCount \in Nat

VARIABLES
  pacers,     \* the pacers of the composite
  ready, starting,   \* how many pods of the group are ready, and starting
  listed,     \* the slice of blocked pods when Pace is called
  sorted,     \* the same pods in the order sort.Slice gives them
  list,       \* the slice now
  next,       \* the pacer to consult next
  votes,      \* results: the number of pacers that let a pod go
  allowed     \* allowPods
input == <<pacers, ready, starting, listed, sorted>>
vars == <<input, list, next, votes, allowed>>

Init ==
  /\ pacers \in Composites
  /\ ready \in 0..MaxCount /\ starting \in 0..MaxCount
  /\ \E B \in SUBSET Pods : listed \in Orderings(B) /\ sorted \in Orderings(B)
  /\ list = listed
  /\ next = 1
  /\ votes = [p \in Pods |-> 0]
  /\ allowed = {}

Consult ==
  /\ next \in DOMAIN pacers
  /\ list' = IF Sorts(pacers[next], ready) THEN sorted ELSE list
  /\ LET result == Foremost(list', AllowedCount(pacers[next], ready, starting, Len(list)))
     IN  votes' = [p \in Pods |-> IF p \in result THEN votes[p] + 1 ELSE votes[p]]
  /\ next' = next + 1
  /\ UNCHANGED <<input, allowed>>

Done == next = Len(pacers) + 2

\* Mutant: one vote is enough.
CollectAny ==
  /\ next = Len(pacers) + 1
  /\ allowed' = {p \in Foremost(list, Len(list)) : votes[p] > 0}
  /\ next' = next + 1
  /\ UNCHANGED <<input, list, votes>>

\* Mutant: the results are gone through time and again.
CollectAgain ==
  /\ next > Len(pacers)
  /\ allowed' = {p \in Foremost(list, Len(list)) : votes[p] = Len(pacers)}
  /\ next' = next + 1
  /\ UNCHANGED <<input, list, votes>>

Collect ==
  /\ next = Len(pacers) + 1
  /\ allowed' = {p \in Foremost(list, Len(list)) : votes[p] = Len(pacers)}
  /\ next' = next + 1
  /\ UNCHANGED <<input, list, votes>>

Next == Consult \/ Collect

Spec == Init /\ [][Next]_vars

-----------------------------------------------------------------------------
(* Every variable ranges over the values the code can give it.             *)
TypeOK ==
  /\ pacers \in Seq(Pacer)
  /\ ready \in Nat /\ starting \in Nat
  /\ listed \in Seq(Pods) /\ sorted \in Seq(Pods) /\ list \in Seq(Pods)
  /\ next \in 1..(Len(pacers) + 2)
  /\ votes \in [Pods -> Nat]
  /\ allowed \subseteq Pods

(***************************************************************************)
(* Between two pacers, the slice is sorted if one of those consulted sorted *)
(* it, and a pod has the votes of those consulted that let it go.           *)
(***************************************************************************)
Passes(i, p) == p \in PassedBy(i, pacers, ready, starting, listed, sorted, Len(listed))

SamePods ==
  /\ Len(sorted) = Len(listed)
  /\ Foremost(sorted, Len(sorted)) = Foremost(listed, Len(listed))

ListInv ==
  list = IF \E j \in DOMAIN pacers : j < next /\ Sorts(pacers[j], ready)
         THEN sorted ELSE listed

VotesInv ==
  \A p \in Pods :
    votes[p] = Cardinality({j \in DOMAIN pacers : j < next /\ Passes(j, p)})

(***************************************************************************)
(* Counting votes over a slice that is sorted on the way computes what      *)
(* Pace says: the pods in the part of the list every pacer lets go.         *)
(***************************************************************************)
ComputesPace ==
  Done => allowed = Pace(pacers, ready, starting, listed, sorted, Len(listed))

LoopInv == TypeOK /\ SamePods /\ ListInv /\ VotesInv /\ ComputesPace

(***************************************************************************)
(* The composite does not come to a standstill: with no pod starting, one   *)
(* of the blocked pods goes, provided that each pacer by itself lets one go *)
(* and that all of them are given the pods in the same order.               *)
(***************************************************************************)
Lively(p) == p.kind = "exponential" => p.minInitial > 0 /\ p.num >= p.den

SameOrder ==
  \A i, j \in DOMAIN pacers :
    ListSeenBy(i, pacers, ready, listed, sorted) = ListSeenBy(j, pacers, ready, listed, sorted)

NoStandstill ==
  (/\ Done
   /\ listed # <<>> /\ starting = 0
   /\ SameOrder /\ \A i \in DOMAIN pacers : Lively(pacers[i])) => allowed # {}
=============================================================================
