-------------------------- MODULE PacerLoopProofs --------------------------
(***************************************************************************)
(* The vote-counting loop of composite.Pace computes Pace, for any          *)
(* composite and any list of blocked pods: the pods that collected the      *)
(* votes of all pacers are those all pacers let go, even though the slice   *)
(* they are counted over may be sorted between two pacers.                  *)
(***************************************************************************)
EXTENDS PacerLoop, TLAPS, SequenceTheorems, FiniteSetTheorems

(* An ordering of a finite set is a list of its elements.                  *)
LEMMA OrderingList ==
  ASSUME NEW S, IsFiniteSet(S), NEW f \in Orderings(S)
  PROVE  /\ f \in Seq(S)
         /\ Len(f) = Cardinality(S)
         /\ Foremost(f, Len(f)) = S
<1>1. Cardinality(S) \in Nat
  BY FS_CardinalityType
<1>2. f \in Seq(S) /\ Len(f) = Cardinality(S) /\ DOMAIN f = 1..Len(f)
  BY <1>1 DEF Orderings
<1>3. Foremost(f, Len(f)) \subseteq S
  BY <1>2 DEF Foremost
<1>4. ASSUME NEW p \in S PROVE p \in Foremost(f, Len(f))
  <2>1. PICK k \in DOMAIN f : f[k] = p
    BY DEF Orderings
  <2> QED
    BY <2>1, <1>2 DEF Foremost
<1> QED
  BY <1>2, <1>3, <1>4

(* The invariant holds before the first pacer is consulted.                *)
LEMMA InitLoopInv == Init => LoopInv
<1> SUFFICES ASSUME Init PROVE LoopInv
  OBVIOUS
<1>1. PICK B \in SUBSET Pods : listed \in Orderings(B) /\ sorted \in Orderings(B)
  BY DEF Init
<1>2. IsFiniteSet(B)
  BY FS_Subset, LoopAssumption
<1>3. /\ listed \in Seq(Pods) /\ sorted \in Seq(Pods)
      /\ SamePods
  BY <1>1, <1>2, OrderingList DEF SamePods
<1>4. pacers \in Seq(Pacer) /\ pacers # <<>>
  BY LoopAssumption DEF Init
<1>5. DOMAIN pacers = 1..Len(pacers) /\ Len(pacers) \in Nat \ {0}
  BY <1>4
<1>6. TypeOK
  BY <1>3, <1>4, <1>5, LoopAssumption DEF Init, TypeOK
<1>7. ListInv
  BY <1>5 DEF Init, ListInv
<1>8. VotesInv
  <2>1. \A p \in Pods : {j \in DOMAIN pacers : j < next /\ Passes(j, p)} = {}
    BY <1>5 DEF Init
  <2> QED
    BY <2>1, FS_EmptySet DEF Init, VotesInv
<1>9. ComputesPace
  BY <1>5 DEF Init, ComputesPace, Done
<1> QED
  BY <1>3, <1>6, <1>7, <1>8, <1>9 DEF LoopInv

(* Consulting a pacer keeps the invariant: it sees the list that ListSeenBy*)
(* says, and adds its vote to those of the pods it lets go.                *)
LEMMA ConsultLoopInv == LoopInv /\ Consult => LoopInv'
<1> SUFFICES ASSUME LoopInv, Consult PROVE LoopInv'
  OBVIOUS
<1>1. TypeOK /\ SamePods /\ ListInv /\ VotesInv
  BY DEF LoopInv
<1>2. /\ DOMAIN pacers = 1..Len(pacers) /\ Len(pacers) \in Nat
      /\ next \in DOMAIN pacers /\ next \in 1..Len(pacers)
  BY <1>1 DEF TypeOK, Consult
<1>3. UNCHANGED <<pacers, ready, starting, listed, sorted, allowed>> /\ next' = next + 1
  BY DEF Consult, input
<1>4. list' = ListSeenBy(next, pacers, ready, listed, sorted)
  <2>1. (\E j \in DOMAIN pacers : j <= next /\ Sorts(pacers[j], ready))
          <=> Sorts(pacers[next], ready)
                \/ \E j \in DOMAIN pacers : j < next /\ Sorts(pacers[j], ready)
    BY <1>2
  <2> QED
    BY <1>1, <2>1 DEF Consult, ListInv, ListSeenBy
<1>5. ListInv'
  <2>1. \A j \in DOMAIN pacers : j < next' <=> j <= next
    BY <1>2, <1>3
  <2> QED
    BY <1>3, <1>4, <2>1 DEF ListInv, ListSeenBy
<1>6. Len(list) = Len(listed)
  BY <1>1 DEF ListInv, SamePods
<1>7. \A p \in Pods : votes'[p] = IF Passes(next, p) THEN votes[p] + 1 ELSE votes[p]
  BY <1>4, <1>6 DEF Consult, Passes, PassedBy
<1>8. VotesInv'
  <2> SUFFICES ASSUME NEW p \in Pods
               PROVE  votes'[p] =
                        Cardinality({j \in DOMAIN pacers : j < next + 1 /\ Passes(j, p)})
    BY <1>3 DEF VotesInv, Passes
  <2> DEFINE before == {j \in DOMAIN pacers : j < next /\ Passes(j, p)}
             after == {j \in DOMAIN pacers : j < next + 1 /\ Passes(j, p)}
  <2>1. IsFiniteSet(before) /\ next \notin before
    <3>1. IsFiniteSet(1..Len(pacers))
      BY <1>2, FS_Interval
    <3> QED
      BY <1>2, <3>1, FS_Subset
  <2>2. votes[p] = Cardinality(before)
    BY <1>1 DEF VotesInv
  <2>3. CASE Passes(next, p)
    <3>1. after = before \cup {next}
      BY <1>2, <2>3
    <3> QED
      BY <1>7, <2>1, <2>2, <2>3, <3>1, FS_AddElement
  <2>4. CASE ~ Passes(next, p)
    <3>1. after = before
      BY <1>2, <2>4
    <3> QED
      BY <1>7, <2>2, <2>4, <3>1
  <2> QED
    BY <2>3, <2>4
<1>9. TypeOK'
  <2>1. list' \in Seq(Pods)
    BY <1>1 DEF Consult, TypeOK
  <2>2. votes' \in [Pods -> Nat]
    BY <1>1, <1>7 DEF Consult, TypeOK
  <2> QED
    BY <1>1, <1>2, <1>3, <2>1, <2>2 DEF TypeOK
<1>10. ComputesPace'
  <2>1. ~ Done'
    BY <1>2, <1>3 DEF Done
  <2> QED
    BY <2>1 DEF ComputesPace
<1>11. SamePods'
  BY <1>1, <1>3 DEF SamePods
<1> QED
  BY <1>5, <1>8, <1>9, <1>10, <1>11 DEF LoopInv

(* Collecting the pods with all votes yields Pace.                         *)
LEMMA CollectLoopInv == LoopInv /\ Collect => LoopInv'
<1> SUFFICES ASSUME LoopInv, Collect PROVE LoopInv'
  OBVIOUS
<1>1. TypeOK /\ SamePods /\ ListInv /\ VotesInv
  BY DEF LoopInv
<1>2. DOMAIN pacers = 1..Len(pacers) /\ Len(pacers) \in Nat /\ next = Len(pacers) + 1
  BY <1>1 DEF TypeOK, Collect
<1>3. UNCHANGED <<pacers, ready, starting, listed, sorted, list, votes>> /\ next' = next + 1
  BY DEF Collect, input
<1>4. Foremost(list, Len(list)) = Foremost(listed, Len(listed))
  BY <1>1 DEF ListInv, SamePods
<1>5. Foremost(listed, Len(listed)) \subseteq Pods
  BY <1>1 DEF Foremost, TypeOK
<1>6. ASSUME NEW p \in Pods
      PROVE  votes[p] = Len(pacers) <=> \A i \in DOMAIN pacers : Passes(i, p)
  <2> DEFINE voters == {j \in DOMAIN pacers : j < next /\ Passes(j, p)}
  <2>1. votes[p] = Cardinality(voters)
    BY <1>1 DEF VotesInv
  <2>2. IsFiniteSet(1..Len(pacers)) /\ Cardinality(1..Len(pacers)) = Len(pacers)
    <3>1. /\ IsFiniteSet(1..Len(pacers))
          /\ Cardinality(1..Len(pacers)) = IF 1 > Len(pacers) THEN 0 ELSE Len(pacers) - 1 + 1
      <4>1. 1 \in Int /\ Len(pacers) \in Int
        BY <1>2
      <4> QED
        BY ONLY <4>1, FS_Interval
    <3> QED
      BY <1>2, <3>1
  <2>3. voters \subseteq 1..Len(pacers)
    BY <1>2
  <2>4. Cardinality(voters) = Len(pacers) <=> voters = 1..Len(pacers)
    <3> HIDE DEF voters
    <3>1. Cardinality(1..Len(pacers)) = Cardinality(voters) => 1..Len(pacers) = voters
      BY <2>2, <2>3, FS_Subset
    <3> QED
      BY <2>2, <3>1
  <2>5. voters = 1..Len(pacers) <=> \A i \in DOMAIN pacers : Passes(i, p)
    BY <1>2
  <2> QED
    BY <2>1, <2>4, <2>5
<1>7. allowed' = Pace(pacers, ready, starting, listed, sorted, Len(listed))
  <2>1. allowed' = {p \in Foremost(listed, Len(listed)) : votes[p] = Len(pacers)}
    BY <1>4 DEF Collect
  <2> QED
    BY <1>5, <1>6, <2>1 DEF Pace, Passes
<1>8. ComputesPace'
  BY <1>3, <1>7 DEF ComputesPace
<1>9. VotesInv'
  <2>1. \A j \in DOMAIN pacers : j < next /\ j < next'
    BY <1>2, <1>3
  <2> QED
    BY <1>1, <1>3, <2>1 DEF VotesInv, Passes
<1>10. ListInv'
  <2>1. \A j \in DOMAIN pacers : j < next /\ j < next'
    BY <1>2, <1>3
  <2> QED
    BY <1>1, <1>3, <2>1 DEF ListInv
<1>11. TypeOK'
  BY <1>1, <1>2, <1>3, <1>5, <1>4 DEF TypeOK, Collect
<1>12. SamePods'
  BY <1>1, <1>3 DEF SamePods
<1> QED
  BY <1>8, <1>9, <1>10, <1>11, <1>12 DEF LoopInv

(* The invariant holds throughout.                                         *)
LEMMA LoopInvHolds == Spec => []LoopInv
<1>1. LoopInv /\ [Next]_vars => LoopInv'
  <2>1. LoopInv /\ UNCHANGED vars => LoopInv'
    BY DEF LoopInv, TypeOK, SamePods, ListInv, VotesInv, ComputesPace, Passes, Done,
       vars, input
  <2> QED
    BY <2>1, ConsultLoopInv, CollectLoopInv DEF Next
<1> QED
  BY <1>1, InitLoopInv, PTL DEF Spec

(* The loop allows exactly the pods that all pacers of the composite let   *)
(* go, for any composite, any counts and any list of blocked pods.         *)
THEOREM LoopComputesPace == Spec => []ComputesPace
<1>1. LoopInv => ComputesPace
  BY DEF LoopInv
<1> QED
  BY <1>1, LoopInvHolds, PTL
(* Every variable keeps to its type; in particular no pod gets a vote it   *)
(* could lose, and the loop ends after the last pacer.                     *)
THEOREM TypeCorrect == Spec => []TypeOK
<1>1. LoopInv => TypeOK
  BY DEF LoopInv
<1> QED
  BY <1>1, LoopInvHolds, PTL

(* A lively pacer lets at least one blocked pod go when none is starting.  *)
LEMMA LivelyLetsOneGo ==
  ASSUME NEW p \in Pacer, Lively(p), NEW n \in Nat, NEW blocked \in Nat, blocked > 0
  PROVE  AllowedCount(p, n, 0, blocked) >= 1
<1>1. CASE n >= p.maxStagger
  BY <1>1 DEF AllowedCount
<1>2. CASE n < p.maxStagger /\ p \in LinearPacer
  <2>1. p.step \in Nat /\ p.step > 0 /\ p.kind = "linear" /\ p.maxStagger \in Nat
    BY <1>2 DEF LinearPacer
  <2>2. n % p.step \in Nat /\ n % p.step < p.step
    BY <2>1
  <2>3. LinearCount(p, n, 0, blocked) >= 1
    BY <2>1, <2>2 DEF LinearCount, LesserOf
  <2> QED
    BY <1>2, <2>1, <2>3 DEF AllowedCount
<1>3. CASE n < p.maxStagger /\ p \in ExponentialPacer
  <2>1. /\ p.kind = "exponential" /\ p.maxStagger \in Nat /\ p.minInitial \in Nat
        /\ p.num \in Nat /\ p.den \in Nat /\ p.den > 0
        /\ p.minInitial > 0 /\ p.num >= p.den
    BY <1>3 DEF ExponentialPacer, Lively
  <2>2. n # 0 => DesiredCount(p, n) \in Nat /\ DesiredCount(p, n) >= 1
    <3> SUFFICES ASSUME n # 0 PROVE DesiredCount(p, n) \in Nat /\ DesiredCount(p, n) >= 1
      OBVIOUS
    <3> DEFINE d == p.den
               x == n * p.num + d - 1
    <3>1. n * p.num >= p.num
      BY <2>1
    <3>2. n * p.num \in Nat
      BY <2>1
    <3>3. x \in Nat /\ x >= d /\ d \in Nat /\ d > 0
      BY <2>1, <3>1, <3>2
    <3>4. DesiredCount(p, n) = x \div d
      BY DEF DesiredCount
    <3> HIDE DEF x, d
    <3>5. x \div d \in Nat /\ x \div d >= 1
      BY <3>3
    <3> QED
      BY <3>4, <3>5
  <2>3. ExponentialCount(p, n, 0, blocked) >= 1
    BY <2>1, <2>2 DEF ExponentialCount, LesserOf, GreaterOf
  <2> QED
    BY <1>3, <2>1, <2>3 DEF AllowedCount
<1> QED
  BY <1>1, <1>2, <1>3 DEF Pacer, LinearPacer, ExponentialPacer

(* A composite of lively pacers that see the blocked pods in one order     *)
(* always lets one of them go, if there is one and no pod is starting.     *)
THEOREM CompositeDoesNotStall == Spec => []NoStandstill
<1>1. LoopInv => NoStandstill
  <2> SUFFICES ASSUME LoopInv, Done, listed # <<>>, starting = 0, SameOrder,
                      \A i \in DOMAIN pacers : Lively(pacers[i])
               PROVE  allowed # {}
    BY DEF NoStandstill
  <2>1. /\ allowed = Pace(pacers, ready, starting, listed, sorted, Len(listed))
        /\ SamePods /\ TypeOK
    BY DEF LoopInv, ComputesPace
  <2>2. Len(listed) \in Nat /\ Len(listed) > 0 /\ DOMAIN pacers = 1..Len(pacers)
    BY <2>1 DEF TypeOK
  <2>3. PICK l \in {listed, sorted} :
          \A i \in DOMAIN pacers : ListSeenBy(i, pacers, ready, listed, sorted) = l
    <3>1. \A i \in DOMAIN pacers :
            ListSeenBy(i, pacers, ready, listed, sorted) \in {listed, sorted}
      BY DEF ListSeenBy
    <3>2. CASE DOMAIN pacers = {}
      BY <3>2
    <3>3. ASSUME NEW i \in DOMAIN pacers
          PROVE  \A j \in DOMAIN pacers :
                   ListSeenBy(j, pacers, ready, listed, sorted)
                     = ListSeenBy(i, pacers, ready, listed, sorted)
      BY DEF SameOrder
    <3> QED
      BY <3>1, <3>2, <3>3
  <2>4. l \in Seq(Pods) /\ Len(l) = Len(listed) /\ 1 \in DOMAIN l
    BY <2>1, <2>2, <2>3 DEF TypeOK, SamePods
  <2>5. l[1] \in Foremost(l, Len(l))
    BY <2>2, <2>4 DEF Foremost
  <2>6. Foremost(l, Len(l)) = Foremost(listed, Len(listed))
    BY <2>1, <2>3 DEF SamePods
  <2>7. ASSUME NEW i \in DOMAIN pacers
        PROVE  l[1] \in PassedBy(i, pacers, ready, starting, listed, sorted, Len(listed))
    <3>1. pacers[i] \in Pacer /\ ready \in Nat
      BY <2>1, <2>2 DEF TypeOK
    <3>2. AllowedCount(pacers[i], ready, 0, Len(listed)) >= 1
      BY <2>2, <3>1, LivelyLetsOneGo
    <3>3. l[1] \in Foremost(l, AllowedCount(pacers[i], ready, 0, Len(listed)))
      BY <2>4, <3>2 DEF Foremost
    <3> QED
      BY <2>3, <3>3 DEF PassedBy
  <2>8. l[1] \in Pace(pacers, ready, starting, listed, sorted, Len(listed))
    BY <2>5, <2>6, <2>7 DEF Pace
  <2> QED
    BY <2>1, <2>8
<1> QED
  BY <1>1, LoopInvHolds, PTL
=============================================================================
