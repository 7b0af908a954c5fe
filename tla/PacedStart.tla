----------------------------- MODULE PacedStart -----------------------------
(***************************************************************************)
(* What staggering is for, without webhook, cache, stubs and evictions: the *)
(* pods of a group start one after the other, each only when every pacer of *)
(* the group has room for it.  All pods that were let go before are counted *)
(* then; which of them are ready may be known late.  That holds until the   *)
(* group gets loose, for the pace is best effort.                           *)
(***************************************************************************)
EXTENDS Pacers

CONSTANTS
  Members,    \* the pods
  GroupOf,    \* [Members -> groups]
  Pacing(_)   \* the pacers of a group, a function from numbers to pacer configurations

VARIABLES
  started,  \* pods that were let go
  ready,    \* those of them that are ready
  loose     \* groups for which nothing is promised any more

vars == <<started, ready, loose>>

Init == started = {} /\ ready = {} /\ loose = {}

InGroupOf(p, S) == {q \in S : GroupOf[q] = GroupOf[p]}

RoomFor(p) ==
  \E known \in SUBSET InGroupOf(p, ready) :
    LET pacers == Pacing(GroupOf[p])
        others == InGroupOf(p, started) \ known
    IN  \A i \in DOMAIN pacers :
          HasRoom(pacers[i], Cardinality(known), Cardinality(others))

Start(p) ==
  /\ p \notin started
  /\ GroupOf[p] \in loose \/ RoomFor(p)
  /\ started' = started \cup {p}
  /\ UNCHANGED <<ready, loose>>

BecomeReady(p) ==
  /\ p \in started \ ready
  /\ ready' = ready \cup {p}
  /\ UNCHANGED <<started, loose>>

\* A pod that was let go is not created after all.
Stop(p) ==
  /\ p \in started \ ready
  /\ started' = started \ {p}
  /\ UNCHANGED <<ready, loose>>

Loosen ==
  /\ \E S \in SUBSET {GroupOf[p] : p \in Members} : loose' = loose \cup S
  /\ UNCHANGED <<started, ready>>

Next == Loosen \/ \E p \in Members : Start(p) \/ BecomeReady(p) \/ Stop(p)

Spec == Init /\ [][Next]_vars

-----------------------------------------------------------------------------
(***************************************************************************)
(* What a pacer bounds: pods of a group that were let go and are not ready. *)
(***************************************************************************)
Batch(pacer, readyCount) ==
  IF pacer.kind = "linear" THEN pacer.step
  ELSE GreaterOf(pacer.minInitial, DesiredCount(pacer, readyCount))

(***************************************************************************)
(* No stampede: until a pacer's MaxStagger pods of a group are ready, or    *)
(* the group is loose, no more of its pods start at a time than a batch.    *)
(***************************************************************************)
WithinBatch ==
  \A p \in Members : GroupOf[p] \notin loose =>
    LET pacers == Pacing(GroupOf[p])
        readyCount == Cardinality(InGroupOf(p, ready))
    IN  \A i \in DOMAIN pacers :
          \/ readyCount >= pacers[i].maxStagger
          \/ Cardinality(InGroupOf(p, started \ ready)) <= Batch(pacers[i], readyCount)
=============================================================================
