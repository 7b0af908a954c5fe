-------------------------- MODULE PacedStartProofs --------------------------
(***************************************************************************)
(* Pods that start in the pace of their group never start all at once: what *)
(* PacedStart says of each single start bounds how many pods of a group are *)
(* starting at any time, for any pods, groups and pacers.                   *)
(***************************************************************************)
EXTENDS PacedStart, TLAPS, FiniteSetTheorems

\* The pods are finitely many and the pacers of their groups are configured.
Configured ==
  /\ IsFiniteSet(Members)
  /\ \A p \in Members : \A i \in DOMAIN Pacing(GroupOf[p]) : Pacing(GroupOf[p])[i] \in Pacer

-----------------------------------------------------------------------------
(***************************************************************************)
(* Pacers.                                                                  *)
(***************************************************************************)

(* The more pods are ready, the more an exponential pacer wants.           *)
LEMMA DesiredGrows ==
  ASSUME NEW p \in ExponentialPacer, NEW r \in Nat, NEW q \in Nat, r <= q
  PROVE  /\ DesiredCount(p, r) \in Int /\ DesiredCount(p, q) \in Int
         /\ DesiredCount(p, r) <= DesiredCount(p, q)
<1>1. p.num \in Nat /\ p.den \in Nat \ {0}
  BY DEF ExponentialPacer
<1>2. PICK d \in Nat : q = r + d
  <2>1. q - r \in Nat /\ q = r + (q - r)
    OBVIOUS
  <2> QED
    BY <2>1
<1>3. r * p.num \in Nat /\ d * p.num \in Nat /\ q * p.num = r * p.num + d * p.num
  BY <1>1, <1>2
<1>4. \A a, b \in Int, c \in Nat \ {0} :
        a <= b => a \div c \in Int /\ b \div c \in Int /\ a \div c <= b \div c
  OBVIOUS
<1> DEFINE some == r * p.num + p.den - 1
           more == q * p.num + p.den - 1
<1>5. some \in Int /\ more \in Int /\ some <= more
  BY <1>1, <1>3
<1>6. DesiredCount(p, r) = some \div p.den /\ DesiredCount(p, q) = more \div p.den
  BY DEF DesiredCount
<1> HIDE DEF some, more
<1> QED
  BY <1>1, <1>4, <1>5, <1>6

(* A batch does not shrink when pods get ready.                            *)
LEMMA BatchGrows ==
  ASSUME NEW p \in Pacer, NEW r \in Nat, NEW q \in Nat, r <= q
  PROVE  Batch(p, r) \in Int /\ Batch(p, q) \in Int /\ Batch(p, r) <= Batch(p, q)
<1>1. CASE p \in LinearPacer
  BY <1>1 DEF LinearPacer, Batch
<1>2. CASE p \in ExponentialPacer
  <2>1. p.kind = "exponential" /\ p.minInitial \in Nat
    BY <1>2 DEF ExponentialPacer
  <2>2. /\ DesiredCount(p, r) \in Int /\ DesiredCount(p, q) \in Int
        /\ DesiredCount(p, r) <= DesiredCount(p, q)
    BY <1>2, DesiredGrows
  <2> QED
    BY <2>1, <2>2 DEF Batch, GreaterOf
<1> QED
  BY <1>1, <1>2 DEF Pacer

(* Who has room for one more has it in the batch, also when more pods are  *)
(* ready than it knows of.                                                 *)
LEMMA RoomInBatch ==
  ASSUME NEW p \in Pacer, NEW known \in Nat, NEW readyCount \in Nat, known <= readyCount,
         NEW n \in Nat, HasRoom(p, known, n)
  PROVE  readyCount >= p.maxStagger \/ n + 1 <= Batch(p, readyCount)
<1>1. p.maxStagger \in Nat
  BY DEF Pacer, LinearPacer, ExponentialPacer
<1>2. CASE known >= p.maxStagger
  BY <1>1, <1>2
<1>3. CASE p.kind = "linear" /\ n < p.step - (known % p.step)
  <2>1. p.step \in Nat \ {0}
    BY <1>3 DEF Pacer, LinearPacer, ExponentialPacer
  <2>2. known % p.step \in Nat
    BY <2>1
  <2> QED
    BY <1>3, <2>1, <2>2 DEF Batch
<1>4. CASE p.kind = "exponential" /\ n < GreaterOf(p.minInitial, DesiredCount(p, known))
  <2>1. p \in ExponentialPacer /\ p.minInitial \in Nat
    BY <1>4 DEF Pacer, LinearPacer, ExponentialPacer
  <2>2. Batch(p, known) = GreaterOf(p.minInitial, DesiredCount(p, known))
    BY <1>4 DEF Batch
  <2>3. /\ Batch(p, known) \in Int /\ Batch(p, readyCount) \in Int
        /\ Batch(p, known) <= Batch(p, readyCount)
    BY BatchGrows
  <2> QED
    BY <1>4, <2>2, <2>3
<1>5. p.kind = "exponential" => p.minInitial \in Nat /\ DesiredCount(p, known) \in Int
  BY DesiredGrows DEF Pacer, LinearPacer, ExponentialPacer
<1>6. p.kind = "exponential" /\ n < p.minInitial
        => n < GreaterOf(p.minInitial, DesiredCount(p, known))
  BY <1>5 DEF GreaterOf
<1>7. p.kind = "exponential" /\ n < DesiredCount(p, known)
        => n < GreaterOf(p.minInitial, DesiredCount(p, known))
  BY <1>5 DEF GreaterOf
<1> QED
  BY <1>2, <1>3, <1>4, <1>6, <1>7 DEF HasRoom

-----------------------------------------------------------------------------
(***************************************************************************)
(* The invariant.                                                           *)
(***************************************************************************)
ReadyStarted == ready \subseteq started /\ started \subseteq Members

(* A pod that stops, starts or gets ready counts for its own group only.   *)
LEMMA GroupsFinite ==
  ASSUME IsFiniteSet(Members), ReadyStarted, NEW p
  PROVE  /\ IsFiniteSet(InGroupOf(p, ready)) /\ IsFiniteSet(InGroupOf(p, started))
         /\ IsFiniteSet(InGroupOf(p, started \ ready))
         /\ Cardinality(InGroupOf(p, ready)) \in Nat
         /\ Cardinality(InGroupOf(p, started \ ready)) \in Nat
<1>1. /\ InGroupOf(p, ready) \subseteq Members /\ InGroupOf(p, started) \subseteq Members
      /\ InGroupOf(p, started \ ready) \subseteq Members
  BY DEF InGroupOf, ReadyStarted
<1> QED
  BY <1>1, FS_Subset, FS_CardinalityType

(* Every step keeps the batches.                                           *)
LEMMA BatchStep ==
  ASSUME Configured, ReadyStarted, WithinBatch, [Next]_vars
  PROVE  ReadyStarted' /\ WithinBatch'
<1>1. IsFiniteSet(Members)
  BY DEF Configured
<1>2. ReadyStarted'
  BY DEF ReadyStarted, Next, vars, Loosen, Start, BecomeReady, Stop
<1> SUFFICES ASSUME NEW p \in Members, GroupOf[p] \notin loose',
                    NEW i \in DOMAIN Pacing(GroupOf[p])
             PROVE  LET pacer == Pacing(GroupOf[p])[i]
                        readyCount == Cardinality(InGroupOf(p, ready'))
                    IN  \/ readyCount >= pacer.maxStagger
                        \/ Cardinality(InGroupOf(p, started' \ ready')) <= Batch(pacer, readyCount)
  BY <1>2 DEF WithinBatch, InGroupOf
<1> DEFINE pacer == Pacing(GroupOf[p])[i]
           readyOnes == InGroupOf(p, ready)
           starting == InGroupOf(p, started \ ready)
           Bounded(r, s) == \/ Cardinality(r) >= pacer.maxStagger
                            \/ Cardinality(s) <= Batch(pacer, Cardinality(r))
<1>3. pacer \in Pacer /\ pacer.maxStagger \in Nat
  BY DEF Configured, Pacer, LinearPacer, ExponentialPacer
<1>4. GroupOf[p] \notin loose
  BY DEF Next, vars, Loosen, Start, BecomeReady, Stop
<1>5. Bounded(readyOnes, starting)
  BY <1>4 DEF WithinBatch
<1>6. /\ IsFiniteSet(readyOnes) /\ IsFiniteSet(starting)
      /\ Cardinality(readyOnes) \in Nat /\ Cardinality(starting) \in Nat
  BY <1>1, GroupsFinite
<1>7. Batch(pacer, Cardinality(readyOnes)) \in Int
  BY <1>3, <1>6, BatchGrows
<1> SUFFICES Bounded(InGroupOf(p, ready'), InGroupOf(p, started' \ ready'))
  OBVIOUS
<1>8. CASE UNCHANGED <<started, ready>>
  BY <1>5, <1>8
<1>9. ASSUME NEW q \in Members, GroupOf[q] # GroupOf[p],
             Start(q) \/ BecomeReady(q) \/ Stop(q)
      PROVE  Bounded(InGroupOf(p, ready'), InGroupOf(p, started' \ ready'))
  <2>1. InGroupOf(p, ready') = readyOnes /\ InGroupOf(p, started' \ ready') = starting
    BY <1>9 DEF InGroupOf, Start, BecomeReady, Stop
  <2> QED
    BY <1>5, <2>1
<1>10. ASSUME NEW q \in Members, GroupOf[q] = GroupOf[p], Start(q)
       PROVE  Bounded(InGroupOf(p, ready'), InGroupOf(p, started' \ ready'))
  <2>1. InGroupOf(q, ready) = readyOnes /\ InGroupOf(q, started) = InGroupOf(p, started)
    BY <1>10 DEF InGroupOf
  <2>2. PICK seen \in SUBSET readyOnes :
          HasRoom(pacer, Cardinality(seen), Cardinality(InGroupOf(p, started) \ seen))
    BY <1>4, <1>10, <2>1 DEF Start, RoomFor
  <2> DEFINE others == InGroupOf(p, started) \ seen
  <2>3. /\ Cardinality(seen) \in Nat /\ Cardinality(seen) <= Cardinality(readyOnes)
    BY <1>6, FS_Subset, FS_CardinalityType
  <2>4. /\ Cardinality(others) \in Nat /\ Cardinality(starting) <= Cardinality(others)
    <3>1. starting \subseteq others /\ others \subseteq InGroupOf(p, started)
      BY DEF InGroupOf
    <3>2. IsFiniteSet(others)
      BY <1>1, <3>1, GroupsFinite, FS_Subset
    <3> HIDE DEF others, starting
    <3> QED
      BY <3>1, <3>2, FS_Subset, FS_CardinalityType
  <2>5. \/ Cardinality(readyOnes) >= pacer.maxStagger
        \/ Cardinality(others) + 1 <= Batch(pacer, Cardinality(readyOnes))
    BY <1>3, <1>6, <2>2, <2>3, <2>4, RoomInBatch
  <2>6. InGroupOf(p, ready') = readyOnes /\ InGroupOf(p, started' \ ready') = starting \cup {q}
    BY <1>10 DEF InGroupOf, Start, ReadyStarted
  <2>7. Cardinality(starting \cup {q}) = Cardinality(starting) + 1
    <3>1. q \notin starting
      BY <1>10 DEF InGroupOf, Start
    <3> HIDE DEF starting
    <3> QED
      BY <1>6, <3>1, FS_AddElement
  <2> HIDE DEF readyOnes, starting, others, pacer
  <2>8. /\ Cardinality(InGroupOf(p, ready')) = Cardinality(readyOnes)
        /\ Cardinality(InGroupOf(p, started' \ ready')) = Cardinality(starting) + 1
    BY <2>6, <2>7
  <2>9. \/ Cardinality(readyOnes) >= pacer.maxStagger
        \/ Cardinality(starting) + 1 <= Batch(pacer, Cardinality(readyOnes))
    BY <1>6, <1>7, <2>4, <2>5
  <2> QED
    BY <2>8, <2>9
<1>11. ASSUME NEW q \in Members, GroupOf[q] = GroupOf[p], BecomeReady(q)
       PROVE  Bounded(InGroupOf(p, ready'), InGroupOf(p, started' \ ready'))
  <2>1. /\ InGroupOf(p, ready') = readyOnes \cup {q} /\ q \notin readyOnes
        /\ InGroupOf(p, started' \ ready') \subseteq starting
    BY <1>11 DEF InGroupOf, BecomeReady
  <2>2. Cardinality(readyOnes \cup {q}) = Cardinality(readyOnes) + 1
    <3> HIDE DEF readyOnes
    <3> QED
      BY <1>6, <2>1, FS_AddElement
  <2>3. /\ Cardinality(InGroupOf(p, started' \ ready')) <= Cardinality(starting)
        /\ Cardinality(InGroupOf(p, started' \ ready')) \in Nat
    BY <1>6, <2>1, FS_Subset, FS_CardinalityType
  <2>4. /\ Batch(pacer, Cardinality(readyOnes)) <= Batch(pacer, Cardinality(readyOnes) + 1)
        /\ Batch(pacer, Cardinality(readyOnes) + 1) \in Int
    BY <1>3, <1>6, BatchGrows
  <2> DEFINE after == InGroupOf(p, started' \ ready')
  <2> HIDE DEF readyOnes, starting, pacer, after
  <2> QED
    BY <1>3, <1>5, <1>6, <1>7, <2>1, <2>2, <2>3, <2>4 DEF after
<1>12. ASSUME NEW q \in Members, GroupOf[q] = GroupOf[p], Stop(q)
       PROVE  Bounded(InGroupOf(p, ready'), InGroupOf(p, started' \ ready'))
  <2>1. /\ InGroupOf(p, ready') = readyOnes
        /\ InGroupOf(p, started' \ ready') \subseteq starting
    BY <1>12 DEF InGroupOf, Stop
  <2>2. /\ Cardinality(InGroupOf(p, started' \ ready')) <= Cardinality(starting)
        /\ Cardinality(InGroupOf(p, started' \ ready')) \in Nat
    BY <1>6, <2>1, FS_Subset, FS_CardinalityType
  <2> HIDE DEF readyOnes, starting, pacer
  <2> QED
    BY <1>5, <1>6, <1>7, <2>1, <2>2
<1> QED
  BY <1>8, <1>9, <1>10, <1>11, <1>12 DEF Next, Loosen, vars

(* No stampede: however many pods a group has, only a batch of them starts *)
(* at a time, while its pacers pace and it has not slipped.                *)
THEOREM StartsWithinBatch ==
  ASSUME Configured
  PROVE  Spec => []WithinBatch
<1>1. Init => ReadyStarted /\ WithinBatch
  <2> SUFFICES ASSUME Init PROVE ReadyStarted /\ WithinBatch
    OBVIOUS
  <2>1. \A p : InGroupOf(p, ready) = {} /\ InGroupOf(p, started \ ready) = {}
    BY DEF Init, InGroupOf
  <2>2. Cardinality({}) = 0
    BY FS_EmptySet
  <2>3. \A p \in Pacer : p.maxStagger \in Nat /\ Batch(p, 0) \in Int /\ Batch(p, 0) >= 0
    <3>1. ASSUME NEW p \in LinearPacer
          PROVE  p.maxStagger \in Nat /\ Batch(p, 0) \in Int /\ Batch(p, 0) >= 0
      BY DEF LinearPacer, Batch
    <3>2. ASSUME NEW p \in ExponentialPacer
          PROVE  p.maxStagger \in Nat /\ Batch(p, 0) \in Int /\ Batch(p, 0) >= 0
      <4>1. p.kind = "exponential" /\ p.minInitial \in Nat /\ p.maxStagger \in Nat
        BY DEF ExponentialPacer
      <4>2. DesiredCount(p, 0) \in Int
        BY DesiredGrows
      <4> QED
        BY <4>1, <4>2 DEF Batch, GreaterOf
    <3> QED
      BY <3>1, <3>2 DEF Pacer
  <2>4. ReadyStarted
    BY DEF Init, ReadyStarted
  <2> QED
    BY <2>1, <2>2, <2>3, <2>4 DEF WithinBatch, Configured
<1>2. (ReadyStarted /\ WithinBatch) /\ [Next]_vars => (ReadyStarted /\ WithinBatch)'
  BY BatchStep
<1> QED
  BY <1>1, <1>2, PTL DEF Spec
=============================================================================
