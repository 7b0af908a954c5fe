------------------------ MODULE FlightTrackerProofs ------------------------
(***************************************************************************)
(* What holds of FlightTracker for any pods, groups, channels and bounds:   *)
(* types, that nobody waits for what cannot come, that a pod lands once,    *)
(* and that a committed pod of a generated name lands.                      *)
(***************************************************************************)
EXTENDS FlightTracker, TLAPS, SequenceTheorems, FiniteSetTheorems

USE TrackerAssumption DEF history

-----------------------------------------------------------------------------
(***************************************************************************)
(* The list of flights of an entry.                                         *)
(***************************************************************************)

(* Removing an element leaves a sequence that is shorter by one.           *)
LEMMA RemoveAtShortens ==
  ASSUME NEW S, NEW s \in Seq(S), NEW i \in DOMAIN s
  PROVE  RemoveAt(s, i) \in Seq(S) /\ Len(RemoveAt(s, i)) = Len(s) - 1
<1> DEFINE before == SubSeq(s, 1, i - 1)
           after == SubSeq(s, i + 1, Len(s))
<1>1. /\ Len(s) \in Nat /\ i \in 1..Len(s)
      /\ \A j \in 1..Len(s) : s[j] \in S
  OBVIOUS
<1>2. before \in Seq(S) /\ Len(before) = i - 1
  BY <1>1, SubSeqProperties
<1>3. after \in Seq(S) /\ Len(after) = Len(s) - i
  BY <1>1, SubSeqProperties
<1>4. RemoveAt(s, i) = before \o after
  BY DEF RemoveAt
<1> HIDE DEF before, after
<1>5. before \o after \in Seq(S) /\ Len(before \o after) = Len(before) + Len(after)
  BY <1>2, <1>3, ConcatProperties
<1> QED
  BY <1>1, <1>2, <1>3, <1>4, <1>5

(* The evicter splits the list into what it lands and what stays.          *)
LEMMA OverdueOrInTime ==
  ASSUME TypeOK, NEW k \in Keys
  PROVE  /\ Overdue(k) \in Nat
         /\ InTime(k) \in Seq(FlightRecord)
         /\ Len(InTime(k)) + Overdue(k) = Len(flights[k])
<1> DEFINE old == {i \in DOMAIN flights[k] : flights[k][i].old}
<1>1. /\ flights[k] \in Seq(FlightRecord)
      /\ Len(flights[k]) \in Nat /\ DOMAIN flights[k] = 1..Len(flights[k])
      /\ \A i \in 1..Len(flights[k]) : flights[k][i] \in FlightRecord
  BY DEF TypeOK
<1>2. IsFiniteSet(1..Len(flights[k])) /\ Cardinality(1..Len(flights[k])) = Len(flights[k])
  BY <1>1, FS_Interval
<1>3. IsFiniteSet(old) /\ Cardinality(old) <= Len(flights[k])
  BY <1>1, <1>2, FS_Subset
<1>4. Overdue(k) \in Nat /\ Overdue(k) <= Len(flights[k])
  BY <1>3, FS_CardinalityType DEF Overdue
<1>5. /\ InTime(k) \in Seq(FlightRecord)
      /\ Len(InTime(k)) = IF Overdue(k) + 1 <= Len(flights[k])
                          THEN Len(flights[k]) - Overdue(k) ELSE 0
  BY <1>1, <1>4, SubSeqProperties DEF InTime
<1> QED
  BY <1>1, <1>4, <1>5

-----------------------------------------------------------------------------
(***************************************************************************)
(* Types.  What a call has got from WaitOne is part of what keeps them.     *)
(***************************************************************************)
CallsHaveGroups ==
  \A n \in Pods :
    /\ call[n] # "none" => callKey[n] \in Keys
    /\ call[n] = "waiting" => waitChan[n] \in Chans

Types == TypeOK /\ CallsHaveGroups

(* A return from WaitOne keeps the types.                                  *)
LEMMA ReturnsType ==
  ASSUME Types, NEW n \in Pods, call[n] = "waiting", Returns(n),
         senders' \in [Chans -> Nat], slipped' \subseteq Keys
  PROVE  Types'
BY DEF Types, TypeOK, CallsHaveGroups, Returns, cluster, Calls

(* Every step keeps the types.                                             *)
LEMMA TypeStep == Types /\ [Next]_vars => Types'
<1> SUFFICES ASSUME Types, [Next]_vars PROVE Types'
  OBVIOUS
<1> USE DEF Types, TypeOK, CallsHaveGroups
<1>0. CASE UNCHANGED vars
  BY <1>0 DEF vars, tracker, admission, cluster
<1>1. ASSUME NEW n \in Pods, NEW k \in Keys, NEW c \in Chans, WaitOne(n, k, c)
      PROVE  Types'
  <2>1. [name |-> Flight[n], old |-> FALSE] \in FlightRecord
    BY DEF FlightRecord
  <2>2. Append(flights[k], [name |-> Flight[n], old |-> FALSE]) \in Seq(FlightRecord)
    BY <2>1
  <2>3. /\ chan' \in [Keys -> Chans \cup {NoChan}]
        /\ flights' \in [Keys -> Seq(FlightRecord)]
    BY <1>1, <2>2 DEF WaitOne
  <2>4. \/ /\ call' = [call EXCEPT ![n] = "passed"]
           /\ waitChan' = waitChan
        \/ /\ call' = [call EXCEPT ![n] = "waiting"]
           /\ waitChan' = [waitChan EXCEPT ![n] = c]
    BY <1>1 DEF WaitOne
  <2>5. used' \subseteq Pods /\ slipped' \subseteq Keys
    BY <1>1 DEF WaitOne
  <2>6. callKey' = [callKey EXCEPT ![n] = k]
    BY <1>1 DEF WaitOne
  <2>7. CallsHaveGroups'
    BY <2>4, <2>6
  <2> QED
    BY <1>1, <2>3, <2>4, <2>5, <2>6, <2>7 DEF WaitOne, Calls
<1>2. ASSUME NEW n \in Pods, Receive(n) PROVE Types'
  <2>1. senders' \in [Chans -> Nat]
    BY <1>2 DEF Receive
  <2> QED
    BY <1>2, <2>1, ReturnsType DEF Receive
<1>3. ASSUME NEW n \in Pods, TimeOut(n) PROVE Types'
  BY <1>3, ReturnsType DEF TimeOut
<1>4. ASSUME NEW n \in Pods, Arrive(n) PROVE Types'
  BY <1>4 DEF Arrive, Answered, tracker, Calls, PodLabels
<1>5. ASSUME NEW n \in Pods, Refused(n) PROVE Types'
  BY <1>5 DEF Refused, Answered, tracker, cluster, Calls
<1>6. ASSUME NEW n \in Pods, Change(n) PROVE Types'
  BY <1>6 DEF Change, tracker, admission
<1>7. ASSUME NEW n \in Pods, Delete(n) PROVE Types'
  BY <1>7 DEF Delete, tracker, admission, PodLabels
<1>8. ASSUME NEW n \in Pods, ReconcileNotFound(n) PROVE Types'
  BY <1>8 DEF ReconcileNotFound, admission
<1>9. ASSUME NEW n \in Pods, ReconcileNothing(n) PROVE Types'
  BY <1>9 DEF ReconcileNothing, tracker, admission
<1>10. ASSUME NEW n \in Pods, NEW k \in Keys, ReconcileLands(n, k) PROVE Types'
  <2>1. PICK i \in FlightsOf(n, k) : flights' = [flights EXCEPT ![k] = RemoveAt(@, i)]
    BY <1>10 DEF ReconcileLands
  <2>2. RemoveAt(flights[k], i) \in Seq(FlightRecord)
    BY <2>1, RemoveAtShortens DEF FlightsOf, NamedFlights
  <2>3. flights' \in [Keys -> Seq(FlightRecord)]
    BY <2>1, <2>2
  <2>4. chan[k] \in Chans
    BY <1>10 DEF ReconcileLands, Lands
  <2> QED
    BY <1>10, <2>3, <2>4 DEF ReconcileLands, admission
<1>11. ASSUME NEW k \in Keys, Age(k) PROVE Types'
  <2>1. PICK i \in DOMAIN flights[k] : flights' = [flights EXCEPT ![k][i].old = TRUE]
    BY <1>11 DEF Age
  <2>2. [flights[k] EXCEPT ![i].old = TRUE] \in Seq(FlightRecord)
    <3>1. flights[k] \in Seq(FlightRecord) /\ i \in 1..Len(flights[k])
      BY <2>1
    <3>2. flights[k][i] \in FlightRecord
      BY <3>1
    <3>3. [flights[k][i] EXCEPT !.old = TRUE] \in FlightRecord
      BY <3>2 DEF FlightRecord
    <3> QED
      BY <3>1, <3>3
  <2>3. flights' \in [Keys -> Seq(FlightRecord)]
    BY <2>1, <2>2
  <2> QED
    BY <1>11, <2>3 DEF Age, admission, cluster
<1>12. ASSUME EvictRound PROVE Types'
  <2>1. chan' \in [Keys -> Chans \cup {NoChan}]
    BY <1>12 DEF EvictRound
  <2>2. flights' \in [Keys -> Seq(FlightRecord)]
    BY <1>12, OverdueOrInTime DEF EvictRound
  <2>3. senders' \in [Chans -> Nat]
    <3>1. \A k \in Keys : Overdue(k) \in Nat
      BY OverdueOrInTime
    <3>2. \A c \in Chans : (\E k \in Keys : chan[k] = c)
            => (CHOOSE k \in Keys : chan[k] = c) \in Keys
      OBVIOUS
    <3>3. ASSUME NEW c \in Chans PROVE senders[c] \in Nat
      OBVIOUS
    <3>4. senders' = [c \in Chans |->
            IF \E k \in Keys : chan[k] = c
            THEN senders[c] + Overdue(CHOOSE k \in Keys : chan[k] = c) ELSE senders[c]]
      BY <1>12 DEF EvictRound
    <3> QED
      BY ONLY <3>1, <3>2, <3>3, <3>4
  <2> QED
    BY <1>12, <2>1, <2>2, <2>3 DEF EvictRound, admission, cluster
<1> QED
  BY <1>0, <1>1, <1>2, <1>3, <1>4, <1>5, <1>6, <1>7, <1>8, <1>9, <1>10, <1>11, <1>12
     DEF Next, PodStep

LEMMA TypesHold == Spec => []Types
<1>1. Init => Types
  BY DEF Init, Types, TypeOK, CallsHaveGroups, Calls, PodLabels
<1> QED
  BY <1>1, TypeStep, PTL DEF Spec

(* Every variable keeps to its type, for any pods, groups and bounds; no   *)
(* count of landings goes below zero.                                      *)
THEOREM TypeCorrect == Spec => []TypeOK
BY TypesHold, PTL DEF Types

-----------------------------------------------------------------------------
(***************************************************************************)
(* Waiters and landings.                                                    *)
(***************************************************************************)
OneEntryPerChan ==
  \A j, k \in Keys : chan[j] = chan[k] /\ chan[k] # NoChan => j = k

NoFlightsWithoutEntry == \A k \in Keys : chan[k] = NoChan => flights[k] = <<>>

Landings == OneEntryPerChan /\ NoFlightsWithoutEntry /\ EveryWaiterHasALanding

(* The callers that wait on a channel are finitely many.                   *)
LEMMA WaitingFinite ==
  \A c : IsFiniteSet(Waiting(c)) /\ Cardinality(Waiting(c)) \in Nat
BY FS_Subset, FS_CardinalityType DEF Waiting

(* A channel belongs to one entry and an entry keeps its channel until it  *)
(* is deleted, idle.                                                       *)
LEMMA EntriesStep ==
  Types /\ OneEntryPerChan /\ NoFlightsWithoutEntry /\ [Next]_vars
    => OneEntryPerChan' /\ NoFlightsWithoutEntry'
<1> SUFFICES ASSUME Types, OneEntryPerChan, NoFlightsWithoutEntry, [Next]_vars
             PROVE  OneEntryPerChan' /\ NoFlightsWithoutEntry'
  OBVIOUS
<1> USE DEF OneEntryPerChan, NoFlightsWithoutEntry, Types
<1>1. ASSUME NEW n \in Pods, NEW k \in Keys, NEW c \in Chans, WaitOne(n, k, c)
      PROVE  OneEntryPerChan' /\ NoFlightsWithoutEntry'
  BY <1>1 DEF WaitOne, Fresh, TypeOK
<1>2. ASSUME NEW n \in Pods, NEW k \in Keys, ReconcileLands(n, k)
      PROVE  OneEntryPerChan' /\ NoFlightsWithoutEntry'
  BY <1>2 DEF ReconcileLands, Lands, TypeOK
<1>3. ASSUME NEW k \in Keys, Age(k)
      PROVE  OneEntryPerChan' /\ NoFlightsWithoutEntry'
  BY <1>3 DEF Age, TypeOK
<1>4. CASE EvictRound
  <2>1. \A k \in Keys : flights[k] = <<>> => flights'[k] = <<>>
    <3> SUFFICES ASSUME NEW k \in Keys, flights[k] = <<>> PROVE InTime(k) = <<>>
      BY <1>4 DEF EvictRound
    <3> QED
      BY OverdueOrInTime
  <2> QED
    BY <1>4, <2>1 DEF EvictRound, Idle, TypeOK
<1>5. CASE UNCHANGED <<chan, flights>>
  BY <1>5
<1> QED
  BY <1>1, <1>2, <1>3, <1>4, <1>5
     DEF Next, PodStep, Receive, TimeOut, Returns, Arrive, Refused, Change, Delete,
         ReconcileNotFound, ReconcileNothing, vars, tracker

(* Returning takes a caller off its channel, and at most one landing.      *)
LEMMA ReturnsLandings ==
  ASSUME Types, Landings, NEW n \in Pods, call[n] = "waiting", Returns(n),
         \/ senders' = senders
         \/ senders' = [senders EXCEPT ![waitChan[n]] = @ - 1]
  PROVE  EveryWaiterHasALanding'
<1> SUFFICES ASSUME NEW c \in Chans
             PROVE  \/ Cardinality(Waiting(c)') <= senders'[c]
                    \/ \E k \in Keys :
                         /\ chan[k] = c
                         /\ Cardinality(Waiting(c)') <= senders'[c] + Len(flights[k])
  BY DEF EveryWaiterHasALanding, Returns
<1>1. Waiting(c)' = IF c = waitChan[n] THEN Waiting(c) \ {n} ELSE Waiting(c)
  BY DEF Waiting, Returns, Types, TypeOK
<1>2. c = waitChan[n] => n \in Waiting(c)
  BY DEF Waiting
<1>3. /\ Cardinality(Waiting(c)) \in Nat
      /\ Cardinality(Waiting(c)') =
           IF c = waitChan[n] THEN Cardinality(Waiting(c)) - 1 ELSE Cardinality(Waiting(c))
  BY <1>1, <1>2, WaitingFinite, FS_RemoveElement
<1>4. /\ senders[c] \in Nat
      /\ senders'[c] \in {senders[c], senders[c] - 1}
      /\ c # waitChan[n] => senders'[c] = senders[c]
  BY DEF Types, TypeOK
<1>5. \A k \in Keys : Len(flights[k]) \in Nat
  BY DEF Types, TypeOK
<1> QED
  BY <1>3, <1>4, <1>5 DEF Landings, EveryWaiterHasALanding

(* Every step keeps a landing for every caller that waits.                 *)
LEMMA LandingsStep == Types /\ Landings /\ [Next]_vars => Landings'
<1> SUFFICES ASSUME Types, Landings, [Next]_vars PROVE EveryWaiterHasALanding'
  BY EntriesStep DEF Landings
<1> USE DEF Types
<1>0. /\ \A k \in Keys : Len(flights[k]) \in Nat
      /\ \A c \in Chans : senders[c] \in Nat /\ Cardinality(Waiting(c)) \in Nat
  BY WaitingFinite DEF TypeOK
<1>1. ASSUME NEW n \in Pods, NEW k \in Keys, NEW c \in Chans, WaitOne(n, k, c)
      PROVE  EveryWaiterHasALanding'
  <2> SUFFICES ASSUME NEW d \in Chans
               PROVE  \/ Cardinality(Waiting(d)') <= senders[d]
                      \/ \E j \in Keys :
                           /\ chan'[j] = d
                           /\ Cardinality(Waiting(d)') <= senders[d] + Len(flights'[j])
    BY <1>1 DEF EveryWaiterHasALanding, WaitOne
  <2>1. /\ chan' = [chan EXCEPT ![k] = c]
        /\ chan[k] \in {c, NoChan}
        /\ chan[k] = NoChan => Waiting(c) = {}
    BY <1>1 DEF WaitOne, Fresh
  <2>2. /\ Len(flights'[k]) = Len(flights[k]) + 1
        /\ \A j \in Keys \ {k} : flights'[j] = flights[j]
    <3>1. Len(Append(flights[k], [name |-> Flight[n], old |-> FALSE])) = Len(flights[k]) + 1
      BY DEF TypeOK
    <3> QED
      BY <1>1, <3>1 DEF WaitOne, TypeOK
  <2>3. \/ Waiting(d)' = Waiting(d)
        \/ d = c /\ Waiting(d)' = Waiting(d) \cup {n}
    BY <1>1 DEF WaitOne, Waiting, TypeOK
  <2>4. /\ Cardinality(Waiting(d)') <= Cardinality(Waiting(d)) + 1
        /\ d # c => Cardinality(Waiting(d)') = Cardinality(Waiting(d))
        /\ Cardinality(Waiting(d)') \in Nat
    <3>1. IsFiniteSet(Waiting(d)) /\ Cardinality(Waiting(d)) \in Nat
      BY WaitingFinite
    <3>2. Cardinality(Waiting(d) \cup {n}) \in {Cardinality(Waiting(d)), Cardinality(Waiting(d)) + 1}
      BY <3>1, FS_AddElement
    <3>3. CASE Waiting(d)' = Waiting(d)
      <4>1. Cardinality(Waiting(d)') = Cardinality(Waiting(d))
        BY <3>3
      <4> QED
        BY <3>1, <4>1
    <3>4. CASE d = c /\ Waiting(d)' = Waiting(d) \cup {n}
      <4>1. Cardinality(Waiting(d)') = Cardinality(Waiting(d) \cup {n})
        BY <3>4
      <4> QED
        BY <3>1, <3>2, <3>4, <4>1
    <3> QED
      BY <2>3, <3>3, <3>4
  <2>5. CASE d = c
    <3>1. CASE Cardinality(Waiting(c)) <= senders[c]
      BY <1>0, <2>1, <2>2, <2>4, <2>5, <3>1 DEF TypeOK
    <3>2. ASSUME NEW j \in Keys, chan[j] = c,
                 Cardinality(Waiting(c)) <= senders[c] + Len(flights[j])
          PROVE  Cardinality(Waiting(c)') <= senders[c] + Len(flights'[k])
      <4>1. CASE chan[k] = NoChan
        <5>1. Cardinality(Waiting(c)) = 0
          BY <2>1, <4>1, FS_EmptySet
        <5>2. Cardinality(Waiting(c)') \in Nat /\ Cardinality(Waiting(c)') <= 1
          BY <2>4, <2>5, <5>1
        <5> QED
          BY <1>0, <2>2, <5>2
      <4>2. CASE chan[k] = c
        <5>1. j = k
          BY <3>2, <4>2 DEF Landings, OneEntryPerChan
        <5> QED
          BY <1>0, <2>2, <2>4, <2>5, <3>2, <5>1
      <4> QED
        BY <2>1, <4>1, <4>2
    <3> QED
      BY <2>1, <2>5, <3>1, <3>2 DEF Landings, EveryWaiterHasALanding, TypeOK
  <2>6. CASE d # c
    <3>1. \A j \in Keys : chan[j] = d => j # k /\ chan'[j] = d /\ flights'[j] = flights[j]
      BY <2>1, <2>2, <2>6 DEF TypeOK
    <3> QED
      BY <2>4, <2>6, <3>1 DEF Landings, EveryWaiterHasALanding
  <2> QED
    BY <2>5, <2>6
<1>2. ASSUME NEW n \in Pods, Receive(n) \/ TimeOut(n) PROVE EveryWaiterHasALanding'
  BY <1>2, ReturnsLandings DEF Receive, TimeOut
<1>3. ASSUME NEW n \in Pods, NEW k \in Keys, ReconcileLands(n, k)
      PROVE  EveryWaiterHasALanding'
  <2> SUFFICES ASSUME NEW c \in Chans
               PROVE  \/ Cardinality(Waiting(c)) <= senders'[c]
                      \/ \E j \in Keys :
                           /\ chan[j] = c
                           /\ Cardinality(Waiting(c)) <= senders'[c] + Len(flights'[j])
    BY <1>3 DEF EveryWaiterHasALanding, ReconcileLands, admission, Waiting
  <2>1. Len(flights'[k]) = Len(flights[k]) - 1 /\ \A j \in Keys \ {k} : flights'[j] = flights[j]
    <3>1. PICK i \in FlightsOf(n, k) : flights' = [flights EXCEPT ![k] = RemoveAt(@, i)]
      BY <1>3 DEF ReconcileLands
    <3>2. i \in DOMAIN flights[k]
      BY <3>1 DEF FlightsOf, NamedFlights
    <3> QED
      BY <3>1, <3>2, RemoveAtShortens DEF TypeOK
  <2>2. senders'[c] = IF c = chan[k] THEN senders[c] + 1 ELSE senders[c]
    BY <1>3 DEF ReconcileLands, TypeOK
  <2>3. ASSUME NEW j \in Keys, chan[j] = c
        PROVE  senders'[c] + Len(flights'[j]) = senders[c] + Len(flights[j])
    <3>1. chan[k] # NoChan
      BY <1>3 DEF ReconcileLands, Lands
    <3>2. c = chan[k] <=> j = k
      BY <2>3, <3>1 DEF Landings, OneEntryPerChan
    <3>3. CASE j = k
      <4>1. senders'[c] = senders[c] + 1 /\ Len(flights'[j]) = Len(flights[j]) - 1
        BY <2>1, <2>2, <3>2, <3>3
      <4>2. senders[c] \in Nat /\ Len(flights[j]) \in Nat
        BY <1>0
      <4> QED
        BY <4>1, <4>2
    <3>4. CASE j # k
      BY <2>1, <2>2, <3>2, <3>4
    <3> QED
      BY <3>3, <3>4
  <2>4. senders[c] <= senders'[c]
    BY <1>0, <2>2
  <2>5. CASE Cardinality(Waiting(c)) <= senders[c]
    BY <1>0, <2>2, <2>4, <2>5
  <2>6. CASE \E j \in Keys :
               chan[j] = c /\ Cardinality(Waiting(c)) <= senders[c] + Len(flights[j])
    BY <2>3, <2>6
  <2> QED
    BY <2>5, <2>6 DEF Landings, EveryWaiterHasALanding
<1>4. ASSUME NEW k \in Keys, Age(k) PROVE EveryWaiterHasALanding'
  <2>1. \A j \in Keys : Len(flights'[j]) = Len(flights[j])
    <3>1. PICK i \in DOMAIN flights[k] : flights' = [flights EXCEPT ![k][i].old = TRUE]
      BY <1>4 DEF Age
    <3> QED
      BY <3>1 DEF TypeOK
  <2> QED
    BY <1>4, <2>1 DEF Landings, EveryWaiterHasALanding, Age, admission, Waiting
<1>5. ASSUME EvictRound PROVE EveryWaiterHasALanding'
  <2> SUFFICES ASSUME NEW c \in Chans
               PROVE  \/ Cardinality(Waiting(c)) <= senders'[c]
                      \/ \E j \in Keys :
                           /\ chan'[j] = c
                           /\ Cardinality(Waiting(c)) <= senders'[c] + Len(flights'[j])
    <3>1. \A c \in Chans : Waiting(c)' = Waiting(c)
      BY <1>5 DEF EvictRound, admission, Waiting
    <3> QED
      BY <3>1 DEF EveryWaiterHasALanding
  <2>1. senders'[c] \in Nat /\ senders[c] <= senders'[c]
    BY <1>0, <1>5, OverdueOrInTime DEF EvictRound
  <2>2. ASSUME NEW k \in Keys, chan[k] = c
        PROVE  senders'[c] + Len(flights'[k]) = senders[c] + Len(flights[k])
    <3>1. (CHOOSE j \in Keys : chan[j] = c) = k
      BY <2>2 DEF Landings, OneEntryPerChan
    <3>2. senders'[c] = senders[c] + Overdue(k) /\ flights'[k] = InTime(k)
      BY <1>5, <2>2, <3>1 DEF EvictRound
    <3>3. /\ Overdue(k) \in Nat /\ Len(InTime(k)) \in Nat
          /\ Len(InTime(k)) + Overdue(k) = Len(flights[k])
      BY OverdueOrInTime
    <3> QED
      BY <1>0, <3>2, <3>3
  <2>3. ASSUME NEW k \in Keys, chan[k] = c
        PROVE  chan'[k] = c \/ Len(flights[k]) = 0
    BY <1>5, <2>3 DEF EvictRound, Idle
  <2> QED
    BY <1>0, <2>1, <2>2, <2>3 DEF Landings, EveryWaiterHasALanding
<1>6. CASE UNCHANGED <<chan, flights, senders>> /\ \A c \in Chans : Waiting(c)' = Waiting(c)
  BY <1>6 DEF Landings, EveryWaiterHasALanding
<1>7. ASSUME NEW n \in Pods, Arrive(n) \/ Refused(n)
      PROVE  UNCHANGED <<chan, flights, senders>> /\ \A c \in Chans : Waiting(c)' = Waiting(c)
  BY <1>7 DEF Arrive, Refused, Answered, tracker, Waiting, TypeOK
<1>8. ASSUME NEW n \in Pods,
             \/ Change(n) \/ Delete(n) \/ ReconcileNotFound(n) \/ ReconcileNothing(n)
      PROVE  UNCHANGED <<chan, flights, senders>> /\ \A c \in Chans : Waiting(c)' = Waiting(c)
  BY <1>8 DEF Change, Delete, ReconcileNotFound, ReconcileNothing, tracker, admission, Waiting
<1>9. UNCHANGED vars
        => UNCHANGED <<chan, flights, senders>> /\ \A c \in Chans : Waiting(c)' = Waiting(c)
  BY DEF vars, tracker, admission, Waiting
<1> QED
  BY <1>1, <1>2, <1>3, <1>4, <1>5, <1>6, <1>7, <1>8, <1>9 DEF Next, PodStep

(* A caller waits only on a channel on which at least as many landings are *)
(* still to come as callers wait, for any number of either.                *)
THEOREM NobodyWaitsInVain == Spec => []EveryWaiterHasALanding
<1>1. Init => Landings
  <2> SUFFICES ASSUME Init PROVE EveryWaiterHasALanding
    BY DEF Init, Landings, OneEntryPerChan, NoFlightsWithoutEntry
  <2>1. \A c \in Chans : Waiting(c) = {} /\ senders[c] = 0
    BY DEF Init, Waiting
  <2> QED
    BY <2>1, FS_EmptySet DEF EveryWaiterHasALanding
<1>2. Landings => EveryWaiterHasALanding
  BY DEF Landings
<1> QED
  BY <1>1, <1>2, TypesHold, LandingsStep, PTL DEF Spec

-----------------------------------------------------------------------------
(***************************************************************************)
(* Pods that are gone.                                                      *)
(***************************************************************************)

(* Every step keeps it: a pod is removed with an event, and the event of a *)
(* removed pod takes it out of the group it is filed under.                *)
LEMMA GoneStep == Types /\ GoneAreForgotten /\ [Next]_vars => GoneAreForgotten'
<1> SUFFICES ASSUME Types, GoneAreForgotten, [Next]_vars PROVE GoneAreForgotten'
  OBVIOUS
<1> USE DEF GoneAreForgotten, tracker, admission, cluster, history
<1>0. /\ seen \in [Keys -> SUBSET Pods] /\ seenKey \in [Pods -> Keys \cup {NoKey}]
      /\ pod \in [Pods -> PodLabels]
  BY DEF Types, TypeOK
<1>1. CASE UNCHANGED <<seen, seenKey, pod, dirty>>
  BY <1>1
<1>2. ASSUME NEW n \in Pods, Arrive(n) \/ Change(n) \/ Delete(n) PROVE GoneAreForgotten'
  BY <1>0, <1>2 DEF Arrive, Change, Delete, Answered
<1>3. ASSUME NEW n \in Pods, ReconcileNotFound(n) PROVE GoneAreForgotten'
  <2>1. /\ dirty' = dirty \ {n} /\ seenKey' = seenKey /\ pod' = pod
        /\ seen' = IF seenKey[n] \in Keys THEN [seen EXCEPT ![seenKey[n]] = @ \ {n}] ELSE seen
    BY <1>3 DEF ReconcileNotFound
  <2>2. ASSUME NEW k \in Keys, NEW m \in seen'[k]
        PROVE  m \in seen[k] /\ (m = n => seenKey[n] # k)
    BY <1>0, <2>1
  <2> SUFFICES ASSUME NEW k \in Keys, NEW m \in seen'[k], pod[m] = "absent"
               PROVE  m \in dirty \ {n} \/ seenKey[m] # k
    BY <2>1
  <2> QED
    BY <2>2
<1>4. ASSUME NEW n \in Pods, ReconcileNothing(n) PROVE GoneAreForgotten'
  BY <1>4 DEF ReconcileNothing
<1>5. ASSUME NEW n \in Pods, NEW k \in Keys, ReconcileLands(n, k) PROVE GoneAreForgotten'
  <2>1. /\ seen' = [seen EXCEPT ![k] = @ \cup {n}] /\ seenKey' = [seenKey EXCEPT ![n] = k]
        /\ dirty' = dirty \ {n} /\ pod' = pod /\ pod[n] = k
    BY <1>5 DEF ReconcileLands, Lands
  <2>2. pod[n] # "absent"
    BY <2>1, TrackerAssumption
  <2> QED
    BY <1>0, <2>1, <2>2
<1>6. CASE UNCHANGED vars
  BY <1>1, <1>6 DEF vars
<1>7. ASSUME NEW n \in Pods,
             \/ \E k \in Keys, c \in Chans : WaitOne(n, k, c)
             \/ Receive(n) \/ TimeOut(n) \/ Refused(n)
      PROVE  GoneAreForgotten'
  BY <1>1, <1>7 DEF WaitOne, Receive, TimeOut, Returns, Refused, Answered
<1>8. CASE (\E k \in Keys : Age(k)) \/ EvictRound
  BY <1>1, <1>8 DEF Age, EvictRound
<1> QED
  BY <1>2, <1>3, <1>4, <1>5, <1>6, <1>7, <1>8 DEF Next, PodStep

(* A seen pod that is gone will be forgotten, its deletion being queued,   *)
(* unless its name has come back in another group since.                   *)
THEOREM GonePodsForgotten == Spec => []GoneAreForgotten
<1>1. Init => GoneAreForgotten
  BY DEF Init, GoneAreForgotten
<1> QED
  BY <1>1, GoneStep, TypesHold, PTL DEF Spec

-----------------------------------------------------------------------------
(***************************************************************************)
(* Landings of a pod.                                                       *)
(***************************************************************************)

\* A pod that has landed and has not changed groups is among the seen pods of
\* its group: no event of it gets as far as its flight again.
LandedAreSeen == \A n \in landed : pod[n] \in Keys => n \in seen[pod[n]]

(* A seen pod is forgotten only when it is gone.                           *)
LEMMA LandedStep == Types /\ LandedAreSeen /\ [Next]_vars => LandedAreSeen'
<1> SUFFICES ASSUME Types, LandedAreSeen, [Next]_vars PROVE LandedAreSeen'
  OBVIOUS
<1> USE DEF Types, TypeOK, LandedAreSeen
<1>0. CASE UNCHANGED <<seen, pod, landed>>
  BY <1>0
<1>1. ASSUME NEW n \in Pods, Arrive(n) PROVE LandedAreSeen'
  BY <1>1 DEF Arrive, tracker
<1>2. ASSUME NEW n \in Pods, Delete(n) PROVE LandedAreSeen'
  BY <1>2 DEF Delete, tracker
<1>3. ASSUME NEW n \in Pods, ReconcileNotFound(n) PROVE LandedAreSeen'
  BY <1>3 DEF ReconcileNotFound
<1>4. ASSUME NEW n \in Pods, NEW k \in Keys, ReconcileLands(n, k) PROVE LandedAreSeen'
  BY <1>4 DEF ReconcileLands, Lands
<1> QED
  BY <1>0, <1>1, <1>2, <1>3, <1>4
     DEF Next, PodStep, WaitOne, Receive, TimeOut, Returns, Refused, Change,
         ReconcileNothing, Age, EvictRound, vars, tracker, admission, cluster

(* A pod lands no second flight in its life.                               *)
THEOREM PodLandsOnce == Spec => LandsOnce
<1>1. Init => LandedAreSeen
  BY DEF Init, LandedAreSeen
<1>2. LandedAreSeen
        => \A n \in Pods, k \in Keys : ReconcileLands(n, k) => n \notin landed
  BY DEF LandedAreSeen, ReconcileLands, Lands
<1> QED
  BY <1>1, <1>2, TypesHold, LandedStep, PTL DEF Spec, LandsOnce

\* Names that are generated are not used again: what an entry has seen of such
\* a name is the pod itself, and has landed.
SeenAreOver ==
  \A n \in Pods \ Stable :
    /\ call[n] # "none" \/ pod[n] # "absent" => n \in used
    /\ pod[n] # "absent" => call[n] = "none"
    /\ \A k \in Keys : n \in seen[k] => n \in used \cap landed /\ call[n] = "none"

(* No step lets an unused name be seen, or a seen one be used.             *)
LEMMA SeenStep == Types /\ SeenAreOver /\ [Next]_vars => SeenAreOver'
<1> SUFFICES ASSUME Types, SeenAreOver, [Next]_vars PROVE SeenAreOver'
  OBVIOUS
<1> USE DEF Types, TypeOK, SeenAreOver
<1>0. CASE UNCHANGED <<seen, pod, landed, call, used>>
  BY <1>0
<1>1. ASSUME NEW n \in Pods, NEW k \in Keys, NEW c \in Chans, WaitOne(n, k, c)
      PROVE  SeenAreOver'
  BY <1>1 DEF WaitOne
<1>2. ASSUME NEW n \in Pods, Receive(n) \/ TimeOut(n) PROVE SeenAreOver'
  BY <1>2 DEF Receive, TimeOut, Returns, cluster
<1>3. ASSUME NEW n \in Pods, Arrive(n) PROVE SeenAreOver'
  BY <1>3 DEF Arrive, Answered, tracker
<1>4. ASSUME NEW n \in Pods, Refused(n) PROVE SeenAreOver'
  BY <1>4 DEF Refused, Answered, tracker, cluster
<1>5. ASSUME NEW n \in Pods, Delete(n) PROVE SeenAreOver'
  BY <1>5 DEF Delete, tracker, admission
<1>6. ASSUME NEW n \in Pods, ReconcileNotFound(n) PROVE SeenAreOver'
  BY <1>6 DEF ReconcileNotFound, admission
<1>7. ASSUME NEW n \in Pods, NEW k \in Keys, ReconcileLands(n, k) PROVE SeenAreOver'
  BY <1>7 DEF ReconcileLands, Lands, admission
<1> QED
  BY <1>0, <1>1, <1>2, <1>3, <1>4, <1>5, <1>6, <1>7
     DEF Next, PodStep, Change, ReconcileNothing, Age, EvictRound, vars,
         tracker, admission, cluster

(* Handling a committed pod that has not landed lands a pending flight of  *)
(* its name, if there is one.                                              *)
LEMMA CommittedStep ==
  ASSUME Types, NoFlightsWithoutEntry, SeenAreOver, [Next]_vars,
         NEW n \in Pods \ Stable, NEW k \in Keys,
         Reconciled(n), pod[n] = k, n \notin landed, NamedFlights(k, Flight[n]) # {}
  PROVE  Len(flights'[k]) < Len(flights[k])
<1>1. Lands(n, k)
  <2>1. chan[k] # NoChan
    BY DEF NoFlightsWithoutEntry, NamedFlights
  <2>2. n \notin seen[k]
    BY DEF SeenAreOver
  <2> QED
    BY <2>1, <2>2 DEF Lands, FlightsOf
<1>2. ReconcileLands(n, k)
  <2>1. ~ ReconcileNotFound(n) /\ ~ ReconcileNothing(n)
    BY <1>1 DEF ReconcileNotFound, ReconcileNothing
  <2>2. \A j \in Keys : ReconcileLands(n, j) => j = k
    BY DEF ReconcileLands, Lands
  <2>3. \A m \in Pods \ {n} :
          /\ ~ ReconcileNotFound(m) /\ ~ ReconcileNothing(m)
          /\ \A j \in Keys : ~ ReconcileLands(m, j)
    BY DEF Reconciled, ReconcileNotFound, ReconcileNothing, ReconcileLands
  <2> QED
    BY <2>1, <2>2, <2>3
       DEF Reconciled, Next, PodStep, WaitOne, Receive, TimeOut, Returns, Arrive, Refused,
           Answered, Change, Delete, Age, EvictRound, vars, cluster
<1>3. PICK i \in FlightsOf(n, k) : flights' = [flights EXCEPT ![k] = RemoveAt(@, i)]
  BY <1>2 DEF ReconcileLands
<1>4. flights[k] \in Seq(FlightRecord) /\ i \in DOMAIN flights[k]
  BY <1>3 DEF FlightsOf, NamedFlights, Types, TypeOK
<1> QED
  BY <1>3, <1>4, RemoveAtShortens DEF Types, TypeOK

(* A pod of a generated name lands a flight when it is first reconciled in *)
(* its group, if one of its name is pending.                               *)
THEOREM CommittedPodsLand == Spec => CommittedPodLands
<1> DEFINE Past == OneEntryPerChan /\ NoFlightsWithoutEntry /\ SeenAreOver
<1>1. Init => Past
  BY DEF Init, OneEntryPerChan, NoFlightsWithoutEntry, SeenAreOver
<1>2. Types /\ Past /\ [Next]_vars => Past'
  BY EntriesStep, SeenStep
<1>3. Types /\ Past /\ [Next]_vars =>
        \A n \in Pods \ Stable, k \in Keys :
          (/\ Reconciled(n) /\ pod[n] = k
           /\ n \notin landed /\ NamedFlights(k, Flight[n]) # {})
             => Len(flights'[k]) < Len(flights[k])
  BY CommittedStep
<1> QED
  BY <1>1, <1>2, <1>3, TypesHold, PTL DEF Spec, CommittedPodLands
-----------------------------------------------------------------------------
(***************************************************************************)
(* One pod of a group at a time.                                            *)
(***************************************************************************)
Ahead(k) == Cardinality(Calling(k, "passed")) + Cardinality(Unlanded(k))

\* A channel of an entry has waiters of its group only; and unless the group
\* has slipped, all of them: the entry is not deleted meanwhile.
WaitersOfEntry ==
  \A n \in Pods :
    call[n] = "waiting" =>
      /\ \A k \in Keys : chan[k] = waitChan[n] => callKey[n] = k
      /\ callKey[n] \notin slipped => chan[callKey[n]] = waitChan[n]

\* Each pod on its way has a flight; and while there are waiters, a landing
\* waits for them only if nobody is ahead of them.
OneAhead ==
  \A k \in Keys \ slipped :
    /\ Cardinality(Calling(k, "waiting")) + Ahead(k) <= Len(flights[k])
    /\ Ahead(k) <= 1
    /\ Calling(k, "waiting") # {} => Ahead(k) + senders[chan[k]] <= 1

(* Counting pods.                                                          *)
LEMMA CountPods ==
  ASSUME NEW S \in SUBSET Pods
  PROVE  /\ Cardinality(S) \in Nat
         /\ Cardinality(S) = 0 <=> S = {}
         /\ \A n \in S : Cardinality(S \ {n}) = Cardinality(S) - 1
         /\ \A n \in Pods \ S : Cardinality(S \cup {n}) = Cardinality(S) + 1
<1>1. IsFiniteSet(S)
  BY FS_Subset
<1> QED
  BY <1>1, FS_CardinalityType, FS_EmptySet, FS_RemoveElement, FS_AddElement

(* The sets counted are sets of pods, in any state.                        *)
LEMMA PodsCounted ==
  /\ \A k, c : Calling(k, c) \in SUBSET Pods /\ Cardinality(Calling(k, c)) \in Nat
  /\ \A k : Unlanded(k) \in SUBSET Pods /\ Cardinality(Unlanded(k)) \in Nat
BY CountPods DEF Calling, Unlanded

(* An entry is deleted only when nobody of its group is on the way.        *)
LEMMA IdleIsDeserted ==
  ASSUME Types, OneAhead, NEW k \in Keys \ slipped, Len(flights[k]) = 0
  PROVE  Calling(k, "waiting") = {} /\ Calling(k, "passed") = {} /\ Unlanded(k) = {}
<1>1. Cardinality(Calling(k, "waiting")) + Ahead(k) <= 0
  BY DEF OneAhead
<1>2. /\ Cardinality(Calling(k, "waiting")) = 0
      /\ Cardinality(Calling(k, "passed")) = 0
      /\ Cardinality(Unlanded(k)) = 0
  BY <1>1, PodsCounted DEF Ahead
<1> QED
  BY <1>2, PodsCounted, CountPods

(* Waiters keep to the channel of their entry.                             *)
LEMMA WaitersStep ==
  Types /\ OneEntryPerChan /\ WaitersOfEntry /\ OneAhead /\ [Next]_vars => WaitersOfEntry'
<1> SUFFICES ASSUME Types, OneEntryPerChan, WaitersOfEntry, OneAhead, [Next]_vars
             PROVE  WaitersOfEntry'
  OBVIOUS
<1> USE DEF Types, TypeOK, CallsHaveGroups, WaitersOfEntry
<1>0. CASE UNCHANGED <<chan, call, callKey, waitChan, slipped>>
  BY <1>0
<1>1. ASSUME NEW n \in Pods, NEW k \in Keys, NEW c \in Chans, WaitOne(n, k, c)
      PROVE  WaitersOfEntry'
  <2>1. /\ chan' = [chan EXCEPT ![k] = c]
        /\ callKey' = [callKey EXCEPT ![n] = k]
        /\ chan[k] = NoChan \/ chan[k] = c
        /\ chan[k] = NoChan => Waiting(c) = {} /\ \A j \in Keys : chan[j] # c
        /\ slipped \subseteq slipped'
    BY <1>1 DEF WaitOne, Fresh
  <2>2. \/ UNCHANGED waitChan /\ call' = [call EXCEPT ![n] = "passed"]
        \/ /\ call' = [call EXCEPT ![n] = "waiting"]
           /\ waitChan' = [waitChan EXCEPT ![n] = c]
    BY <1>1 DEF WaitOne
  <2>3. ASSUME NEW m \in Pods, m # n, call'[m] = "waiting"
        PROVE  /\ \A j \in Keys : chan'[j] = waitChan'[m] => callKey'[m] = j
               /\ callKey'[m] \notin slipped' => chan'[callKey'[m]] = waitChan'[m]
    BY <2>1, <2>2, <2>3 DEF Waiting
  <2>4. ASSUME call'[n] = "waiting"
        PROVE  /\ \A j \in Keys : chan'[j] = waitChan'[n] => callKey'[n] = j
               /\ chan'[callKey'[n]] = waitChan'[n]
    BY <2>1, <2>2, <2>4 DEF OneEntryPerChan
  <2> QED
    BY <2>3, <2>4
<1>2. ASSUME NEW n \in Pods, Receive(n) \/ TimeOut(n) PROVE WaitersOfEntry'
  <2>1. /\ slipped \subseteq slipped' /\ UNCHANGED <<chan, callKey>>
        /\ call' = [call EXCEPT ![n] = "passed"]
        /\ waitChan' = [waitChan EXCEPT ![n] = NoChan]
    BY <1>2 DEF Receive, TimeOut, Returns
  <2> QED
    BY ONLY <2>1, WaitersOfEntry, Types DEF WaitersOfEntry, Types, TypeOK
<1>3. ASSUME NEW n \in Pods, Arrive(n) \/ Refused(n) PROVE WaitersOfEntry'
  <2>1. /\ UNCHANGED <<chan, waitChan, slipped>>
        /\ call' = [call EXCEPT ![n] = "none"]
        /\ callKey' = [callKey EXCEPT ![n] = NoKey]
    BY <1>3 DEF Arrive, Refused, Answered, tracker
  <2> QED
    BY ONLY <2>1, WaitersOfEntry, Types DEF WaitersOfEntry, Types, TypeOK
<1>4. ASSUME EvictRound PROVE WaitersOfEntry'
  <2>1. /\ chan' = [k \in Keys |-> IF Idle(k) THEN NoChan ELSE chan[k]]
        /\ slipped \subseteq slipped' /\ UNCHANGED <<call, callKey, waitChan>>
    BY <1>4 DEF EvictRound, admission
  <2>2. ASSUME NEW n \in Pods, call[n] = "waiting", callKey[n] \notin slipped
        PROVE  ~ Idle(callKey[n])
    <3>1. callKey[n] \in Keys \ slipped /\ n \in Calling(callKey[n], "waiting")
      BY <2>2 DEF Calling
    <3>2. Len(flights[callKey[n]]) # 0
      BY <3>1, IdleIsDeserted
    <3> QED
      BY <3>2 DEF Idle
  <2> QED
    BY <2>1, <2>2
<1> QED
  BY <1>0, <1>1, <1>2, <1>3, <1>4
     DEF Next, PodStep, Change, Delete, ReconcileNotFound, ReconcileNothing, ReconcileLands,
         Age, vars, tracker, admission, cluster
(* What a step leaves alone of a group.                                    *)
LEMMA GroupUntouched ==
  ASSUME OneAhead, NEW k \in Keys \ slipped,
         \A c \in Calls \ {"none"} : Calling(k, c)' = Calling(k, c),
         Unlanded(k)' = Unlanded(k),
         Len(flights'[k]) = Len(flights[k]),
         Calling(k, "waiting") # {} => senders'[chan'[k]] = senders[chan[k]]
  PROVE  /\ (Cardinality(Calling(k, "waiting")) + Ahead(k) <= Len(flights[k]))'
         /\ (Ahead(k) <= 1)'
         /\ (Calling(k, "waiting") # {} => Ahead(k) + senders[chan[k]] <= 1)'
<1>1. /\ Calling(k, "waiting")' = Calling(k, "waiting")
      /\ Calling(k, "passed")' = Calling(k, "passed")
  BY DEF Calls
<1>2. /\ Cardinality(Calling(k, "waiting")') = Cardinality(Calling(k, "waiting"))
      /\ Ahead(k)' = Ahead(k)
  BY <1>1 DEF Ahead
<1> QED
  BY <1>1, <1>2 DEF OneAhead

(* A group that has slipped stays so.                                      *)
LEMMA SlippedForGood == [Next]_vars => slipped \subseteq slipped'
<1> SUFFICES ASSUME [Next]_vars PROVE slipped \subseteq slipped'
  OBVIOUS
<1>1. ASSUME NEW n \in Pods, NEW k \in Keys, NEW c \in Chans, WaitOne(n, k, c)
      PROVE  slipped \subseteq slipped'
  BY <1>1 DEF WaitOne
<1>2. ASSUME NEW n \in Pods, Receive(n) \/ TimeOut(n) PROVE slipped \subseteq slipped'
  BY <1>2 DEF Receive, TimeOut
<1>3. ASSUME NEW n \in Pods, Arrive(n) \/ Refused(n) \/ Change(n) \/ Delete(n)
      PROVE  slipped \subseteq slipped'
  BY <1>3 DEF Arrive, Refused, Change, Delete
<1>4. ASSUME NEW n \in Pods, ReconcileNotFound(n) \/ ReconcileNothing(n)
      PROVE  slipped \subseteq slipped'
  BY <1>4 DEF ReconcileNotFound, ReconcileNothing
<1>5. ASSUME NEW n \in Pods, NEW k \in Keys, ReconcileLands(n, k)
      PROVE  slipped \subseteq slipped'
  BY <1>5 DEF ReconcileLands
<1>6. ASSUME NEW k \in Keys, Age(k) PROVE slipped \subseteq slipped'
  BY <1>6 DEF Age
<1>7. CASE EvictRound
  BY <1>7 DEF EvictRound
<1>8. CASE UNCHANGED vars
  BY <1>8 DEF vars
<1> QED
  BY <1>1, <1>2, <1>3, <1>4, <1>5, <1>6, <1>7, <1>8 DEF Next, PodStep

(* No step puts a second pod ahead of the waiters of a group, unless the   *)
(* group slips.                                                            *)
LEMMA AheadStep ==
  /\ Types /\ OneEntryPerChan /\ NoFlightsWithoutEntry /\ LandedAreSeen
  /\ WaitersOfEntry /\ OneAhead /\ [Next]_vars
  => OneAhead'
<1> SUFFICES ASSUME Types, OneEntryPerChan, NoFlightsWithoutEntry, LandedAreSeen,
                    WaitersOfEntry, OneAhead, [Next]_vars,
                    NEW k \in Keys, k \notin slipped'
             PROVE  /\ (Cardinality(Calling(k, "waiting")) + Ahead(k) <= Len(flights[k]))'
                    /\ (Ahead(k) <= 1)'
                    /\ (Calling(k, "waiting") # {} => Ahead(k) + senders[chan[k]] <= 1)'
  BY DEF OneAhead
<1> DEFINE Goal == /\ (Cardinality(Calling(k, "waiting")) + Ahead(k) <= Len(flights[k]))'
                   /\ (Ahead(k) <= 1)'
                   /\ (Calling(k, "waiting") # {} => Ahead(k) + senders[chan[k]] <= 1)'
           w == Cardinality(Calling(k, "waiting"))
           p == Cardinality(Calling(k, "passed"))
           u == Cardinality(Unlanded(k))
<1> USE DEF Types
<1>a. /\ w \in Nat /\ p \in Nat /\ u \in Nat /\ Len(flights[k]) \in Nat
      /\ w' \in Nat /\ p' \in Nat /\ u' \in Nat
      /\ \A c \in Chans : senders[c] \in Nat
  <2>1. /\ Calling(k, "waiting")' \in SUBSET Pods /\ Calling(k, "passed")' \in SUBSET Pods
        /\ Unlanded(k)' \in SUBSET Pods
    BY DEF Calling, Unlanded
  <2>2. w' \in Nat /\ p' \in Nat /\ u' \in Nat
    BY <2>1, CountPods
  <2> QED
    BY <2>2, PodsCounted DEF TypeOK
<1>b. k \notin slipped =>
        /\ w + (p + u) <= Len(flights[k]) /\ p + u <= 1
        /\ Calling(k, "waiting") # {} => (p + u) + senders[chan[k]] <= 1
  BY DEF OneAhead, Ahead
<1>c. ASSUME w' + (p' + u') <= Len(flights'[k]), p' + u' <= 1,
             Calling(k, "waiting")' # {} => (p' + u') + senders'[chan'[k]] <= 1
      PROVE  Goal
  BY <1>c DEF Ahead
<1>d. k \notin slipped
  BY SlippedForGood
<1>0. CASE UNCHANGED vars
  <2>1. /\ \A c \in Calls \ {"none"} : Calling(k, c)' = Calling(k, c)
        /\ Unlanded(k)' = Unlanded(k) /\ UNCHANGED <<flights, senders, chan>>
    BY <1>0 DEF vars, tracker, admission, cluster, Calling, Unlanded
  <2> QED
    BY <1>d, <2>1, GroupUntouched
<1>1. ASSUME NEW n \in Pods, NEW j \in Keys, NEW c \in Chans, WaitOne(n, j, c)
      PROVE  Goal
  <2>1. /\ call[n] = "none" /\ callKey' = [callKey EXCEPT ![n] = j]
        /\ UNCHANGED <<senders, pod, landed>>
        /\ chan[j] = NoChan \/ chan[j] = c
        /\ chan' = [chan EXCEPT ![j] = c]
        /\ flights' = [flights EXCEPT ![j] = Append(@, [name |-> Flight[n], old |-> FALSE])]
    BY <1>1 DEF WaitOne
  <2>2. Unlanded(k)' = Unlanded(k)
    BY <2>1 DEF Unlanded
  <2>3. \/ Alone(flights'[j]) /\ call' = [call EXCEPT ![n] = "passed"]
        \/ /\ ~ Alone(flights'[j]) /\ call' = [call EXCEPT ![n] = "waiting"]
           /\ slipped' = IF LeftOver(c) THEN slipped \cup {j} ELSE slipped
    BY <1>1 DEF WaitOne
  <2>4. CASE j # k
    <3>1. \A d \in Calls \ {"none"} : Calling(k, d)' = Calling(k, d)
      BY <2>1, <2>3, <2>4 DEF Calling, TypeOK, Calls
    <3>2. UNCHANGED senders /\ chan'[k] = chan[k] /\ flights'[k] = flights[k]
      BY <2>1, <2>4 DEF TypeOK
    <3> QED
      BY <1>d, <2>2, <3>1, <3>2, GroupUntouched
  <2>5. CASE j = k
    <3>1. Len(flights'[k]) = Len(flights[k]) + 1
      <4>1. Len(Append(flights[k], [name |-> Flight[n], old |-> FALSE])) = Len(flights[k]) + 1
        BY DEF TypeOK
      <4> QED
        BY <2>1, <2>5, <4>1 DEF TypeOK
    <3>2. u' = u
      BY <2>2
    <3>3. CASE Alone(flights'[j]) /\ call' = [call EXCEPT ![n] = "passed"]
      <4>0. Len(flights'[k]) = 1
        BY <2>5, <3>3 DEF Alone
      <4>1. Len(flights[k]) = 0
        <5>1. Len(flights[k]) \in Nat
          BY <1>a
        <5>2. \A i \in Nat : i + 1 = 1 => i = 0
          OBVIOUS
        <5>3. Len(flights[k]) + 1 = 1
          BY ONLY <3>1, <4>0, Zenon
        <5> QED
          BY ONLY <5>1, <5>2, <5>3, Zenon
      <4>2. Calling(k, "waiting") = {} /\ Calling(k, "passed") = {} /\ Unlanded(k) = {}
        BY <1>d, <4>1, IdleIsDeserted
      <4>3. Calling(k, "waiting")' = {}
        BY <2>1, <3>3, <4>2 DEF Calling, TypeOK
      <4>4. Calling(k, "passed")' = {n}
        BY <2>1, <2>5, <3>3, <4>2 DEF Calling, TypeOK
      <4>5. w' = 0 /\ p' = 1 /\ u' = 0
        BY <3>2, <4>2, <4>3, <4>4, FS_EmptySet, FS_Singleton
      <4> QED
        BY <1>c, <3>1, <4>1, <4>3, <4>5
    <3>4. CASE /\ ~ Alone(flights'[j]) /\ call' = [call EXCEPT ![n] = "waiting"]
               /\ slipped' = IF LeftOver(c) THEN slipped \cup {j} ELSE slipped
      <4>1. Calling(k, "waiting")' = Calling(k, "waiting") \cup {n} /\ n \notin Calling(k, "waiting")
        BY <2>1, <2>5, <3>4 DEF Calling, TypeOK
      <4>2. Calling(k, "passed")' = Calling(k, "passed")
        BY <2>1, <3>4 DEF Calling, TypeOK
      <4>3. w' = w + 1 /\ p' = p
        BY <4>1, <4>2, PodsCounted, CountPods
      <4>4. chan[k] = c /\ chan'[k] = c
        <5>1. chan[k] # NoChan
          BY <1>a, <2>5, <3>1, <3>4 DEF NoFlightsWithoutEntry, Alone
        <5> QED
          BY <2>1, <2>5, <5>1 DEF TypeOK
      <4>5. senders[c] <= Cardinality(Waiting(c))
        BY <1>a, <2>5, <3>4, WaitingFinite DEF LeftOver
      <4>6. (p + u) + senders[c] <= 1
        <5>1. CASE Calling(k, "waiting") = {}
          <6>1. Waiting(c) = {}
            BY <4>4, <5>1 DEF WaitersOfEntry, Waiting, Calling
          <6>2. senders[c] = 0
            BY <1>a, <4>5, <6>1, FS_EmptySet
          <6> QED
            BY <1>a, <1>b, <1>d, <6>2
        <5>2. CASE Calling(k, "waiting") # {}
          BY <1>b, <1>d, <4>4, <5>2
        <5> QED
          BY <5>1, <5>2
      <4>7. p' + u' = p + u
        BY <3>2, <4>3
      <4>8. p + u <= 1 /\ w + (p + u) <= Len(flights[k])
        BY <1>b, <1>d
      <4>9. (w + 1) + (p + u) <= Len(flights[k]) + 1
        BY <1>a, <4>8
      <4>10. w' + (p' + u') <= Len(flights'[k])
        BY <3>1, <4>3, <4>7, <4>9
      <4>11. senders'[chan'[k]] = senders[c]
        BY <2>1, <4>4
      <4> QED
        BY <1>c, <4>6, <4>7, <4>8, <4>10, <4>11
    <3> QED
      BY <2>3, <3>3, <3>4
  <2> QED
    BY <2>4, <2>5
<1>2. ASSUME NEW n \in Pods, Receive(n) \/ TimeOut(n) PROVE Goal
  <2>1. /\ call[n] = "waiting" /\ call' = [call EXCEPT ![n] = "passed"]
        /\ UNCHANGED <<chan, flights, callKey, pod, landed>>
        /\ \/ /\ senders' = [senders EXCEPT ![waitChan[n]] = @ - 1]
              /\ senders[waitChan[n]] > 0
           \/ senders' = senders /\ callKey[n] # k
    BY <1>2 DEF Receive, TimeOut, Returns, cluster
  <2>2. Unlanded(k)' = Unlanded(k)
    BY <2>1 DEF Unlanded
  <2>3. CASE callKey[n] # k
    <3>1. \A c \in Calls \ {"none"} : Calling(k, c)' = Calling(k, c)
      BY <2>1, <2>3 DEF Calling, TypeOK
    <3>2. Calling(k, "waiting") # {} => senders'[chan'[k]] = senders[chan[k]]
      <4>1. chan[k] # waitChan[n]
        BY <2>1, <2>3 DEF WaitersOfEntry
      <4> QED
        <5>1. Calling(k, "waiting") # {} => chan[k] \in Chans
          BY <1>d DEF WaitersOfEntry, Calling, CallsHaveGroups
        <5>2. chan[k] \in Chans => senders'[chan[k]] = senders[chan[k]]
          BY <2>1, <4>1 DEF TypeOK
        <5> QED
          BY <2>1, <5>1, <5>2
    <3> QED
      BY <1>d, <2>1, <2>2, <3>1, <3>2, GroupUntouched
  <2>4. CASE callKey[n] = k
    <3>1. /\ Calling(k, "waiting")' = Calling(k, "waiting") \ {n}
          /\ n \in Calling(k, "waiting")
      BY <2>1, <2>4 DEF Calling, TypeOK
    <3>2. /\ Calling(k, "passed")' = Calling(k, "passed") \cup {n}
          /\ n \notin Calling(k, "passed")
      BY <2>1, <2>4 DEF Calling, TypeOK
    <3>3. w' = w - 1 /\ p' = p + 1 /\ u' = u
      BY <2>2, <3>1, <3>2, PodsCounted, CountPods
    <3>4. waitChan[n] \in Chans /\ chan[k] = waitChan[n] /\ chan'[k] = chan[k]
      BY <1>d, <2>1, <2>4 DEF WaitersOfEntry, CallsHaveGroups
    <3>5. senders'[chan'[k]] = senders[chan[k]] - 1 /\ senders[chan[k]] > 0
      BY <2>1, <2>4, <3>4 DEF TypeOK
    <3>6. (p + u) + senders[chan[k]] <= 1
      BY <1>b, <1>d, <3>1
    <3>7. w' + (p' + u') <= Len(flights'[k])
      BY <1>a, <1>b, <1>d, <2>1, <3>3
    <3>8. p' + u' = (p + u) + 1
      BY <1>a, <3>3
    <3>9. senders[chan[k]] \in Nat
      BY <1>a, <3>4
    <3>10. (p' + u') + senders'[chan'[k]] <= 1
      BY <1>a, <3>5, <3>6, <3>8, <3>9
    <3>11. p' + u' <= 1
      BY <1>a, <3>5, <3>6, <3>8, <3>9
    <3> QED
      BY <1>c, <3>7, <3>10, <3>11
  <2> QED
    BY <2>3, <2>4
<1>3. ASSUME NEW n \in Pods, Arrive(n) \/ Refused(n) PROVE Goal
  <2>1. /\ call[n] = "passed" /\ call' = [call EXCEPT ![n] = "none"]
        /\ callKey' = [callKey EXCEPT ![n] = NoKey]
        /\ UNCHANGED <<chan, flights, senders>>
    BY <1>3 DEF Arrive, Refused, Answered, tracker
  <2>2. Calling(k, "waiting")' = Calling(k, "waiting")
    BY <2>1 DEF Calling, TypeOK
  <2>3. Calling(k, "passed")' = Calling(k, "passed") \ {n}
    BY <2>1 DEF Calling, TypeOK
  <2>4. p' = IF callKey[n] = k THEN p - 1 ELSE p
    <3>1. n \in Calling(k, "passed") <=> callKey[n] = k
      BY <2>1 DEF Calling
    <3>2. callKey[n] # k => Calling(k, "passed")' = Calling(k, "passed")
      BY <2>3, <3>1
    <3> QED
      BY <2>3, <3>1, <3>2, PodsCounted, CountPods
  <2>5. u' = u \/ (callKey[n] = k /\ u' = u + 1)
    <3>1. CASE Refused(n)
      BY <3>1 DEF Refused, cluster, Unlanded
    <3>2. CASE Arrive(n)
      <4>1. n \notin Unlanded(k)
        BY <3>2 DEF Arrive, Unlanded
      <4>2. \/ Unlanded(k)' = Unlanded(k)
            \/ callKey[n] = k /\ Unlanded(k)' = Unlanded(k) \cup {n}
        BY <3>2 DEF Arrive, Unlanded, TypeOK
      <4> QED
        BY <4>1, <4>2, PodsCounted, CountPods
    <3> QED
      BY <1>3, <3>1, <3>2
  <2>6. w' = w /\ p' + u' <= p + u
    BY <1>a, <2>2, <2>4, <2>5
  <2> QED
    <3>1. w' + (p' + u') <= Len(flights'[k]) /\ p' + u' <= 1
      BY <1>a, <1>b, <1>d, <2>1, <2>6
    <3>2. ASSUME Calling(k, "waiting")' # {} PROVE (p' + u') + senders'[chan'[k]] <= 1
      <4>1. (p + u) + senders[chan[k]] <= 1 /\ chan[k] \in Chans
        BY <1>b, <1>d, <2>2, <3>2 DEF WaitersOfEntry, Calling, CallsHaveGroups
      <4> QED
        BY <1>a, <2>1, <2>6, <4>1
    <3> QED
      BY <1>c, <3>1, <3>2
<1>4. ASSUME NEW n \in Pods, Delete(n) PROVE Goal
  <2>1. /\ UNCHANGED <<chan, flights, senders, call, callKey>>
        /\ Unlanded(k)' = Unlanded(k) \ {n}
    BY <1>4 DEF Delete, tracker, admission, Unlanded, TypeOK
  <2>2. w' = w /\ p' = p
    BY <2>1 DEF Calling
  <2>3. u' <= u
    <3>1. n \notin Unlanded(k) => Unlanded(k)' = Unlanded(k)
      BY <2>1
    <3> QED
      <4>1. CASE n \in Unlanded(k)
        <5>1. Cardinality(Unlanded(k) \ {n}) = Cardinality(Unlanded(k)) - 1
          BY <4>1, PodsCounted, CountPods
        <5>2. u' = u - 1
          BY <2>1, <5>1
        <5> QED
          BY <1>a, <5>2
      <4>2. CASE n \notin Unlanded(k)
        <5>1. u' = u
          BY <3>1, <4>2
        <5> QED
          BY <1>a, <5>1
      <4> QED
        BY <4>1, <4>2
  <2> QED
    <3>1. w' + (p' + u') <= Len(flights'[k]) /\ p' + u' <= 1
      BY <1>a, <1>b, <1>d, <2>1, <2>2, <2>3
    <3>2. ASSUME Calling(k, "waiting")' # {} PROVE (p' + u') + senders'[chan'[k]] <= 1
      <4>1. Calling(k, "waiting") # {}
        BY <2>1, <3>2 DEF Calling
      <4>2. (p + u) + senders[chan[k]] <= 1 /\ chan[k] \in Chans
        BY <1>b, <1>d, <4>1 DEF WaitersOfEntry, Calling, CallsHaveGroups
      <4> QED
        BY <1>a, <2>1, <2>2, <2>3, <4>2
    <3> QED
      BY <1>c, <3>1, <3>2
<1>5. ASSUME NEW n \in Pods, NEW j \in Keys, ReconcileLands(n, j) PROVE Goal
  <2>1. /\ UNCHANGED <<chan, call, callKey, pod>>
        /\ pod[n] = j /\ n \notin landed /\ landed' = landed \cup {n}
        /\ chan[j] \in Chans
        /\ senders' = [senders EXCEPT ![chan[j]] = @ + 1]
    BY <1>5 DEF ReconcileLands, Lands, admission, LandedAreSeen, TypeOK
  <2>2. \A c \in Calls \ {"none"} : Calling(k, c)' = Calling(k, c)
    BY <2>1 DEF Calling
  <2>3. Len(flights'[j]) = Len(flights[j]) - 1 /\ \A i \in Keys \ {j} : flights'[i] = flights[i]
    <3>1. PICK i \in FlightsOf(n, j) : flights' = [flights EXCEPT ![j] = RemoveAt(@, i)]
      BY <1>5 DEF ReconcileLands
    <3>2. i \in DOMAIN flights[j]
      BY <3>1 DEF FlightsOf, NamedFlights
    <3> QED
      BY <3>1, <3>2, RemoveAtShortens DEF TypeOK
  <2>4. CASE j # k
    <3>1. Unlanded(k)' = Unlanded(k)
      BY <2>1, <2>4 DEF Unlanded
    <3>2. Calling(k, "waiting") # {} => senders'[chan'[k]] = senders[chan[k]]
      BY <1>d, <2>1, <2>4 DEF OneEntryPerChan, WaitersOfEntry, Calling, CallsHaveGroups, TypeOK
    <3> QED
      BY <1>d, <2>2, <2>3, <2>4, <3>1, <3>2, GroupUntouched
  <2>5. CASE j = k
    <3>1. Unlanded(k)' = Unlanded(k) \ {n} /\ n \in Unlanded(k)
      BY <2>1, <2>5 DEF Unlanded
    <3>2. w' = w /\ p' = p /\ u' = u - 1
      <4>1. w' = w /\ p' = p
        BY <2>1 DEF Calling
      <4>2. u' = u - 1
        BY <3>1, PodsCounted, CountPods
      <4> QED
        BY <4>1, <4>2
    <3>3. senders'[chan'[k]] = senders[chan[k]] + 1 /\ senders[chan[k]] \in Nat
      BY <2>1, <2>5 DEF TypeOK
    <3>4. w' + (p' + u') <= Len(flights'[k]) /\ p' + u' <= 1
      BY <1>a, <1>b, <1>d, <2>3, <2>5, <3>2
    <3>5. ASSUME Calling(k, "waiting")' # {} PROVE (p' + u') + senders'[chan'[k]] <= 1
      <4>1. Calling(k, "waiting") # {}
        BY <2>1, <3>5 DEF Calling
      <4>2. (p + u) + senders[chan[k]] <= 1
        BY <1>b, <1>d, <4>1
      <4> QED
        BY <1>a, <3>2, <3>3, <4>2
    <3> QED
      BY <1>c, <3>4, <3>5
  <2> QED
    BY <2>4, <2>5
<1>6. ASSUME NEW j \in Keys, Age(j) PROVE Goal
  <2>1. Len(flights'[k]) = Len(flights[k])
    <3>1. PICK i \in DOMAIN flights[j] : flights' = [flights EXCEPT ![j][i].old = TRUE]
      BY <1>6 DEF Age
    <3> QED
      BY <3>1 DEF TypeOK
  <2>2. /\ \A c \in Calls \ {"none"} : Calling(k, c)' = Calling(k, c)
        /\ Unlanded(k)' = Unlanded(k) /\ UNCHANGED <<senders, chan>>
    BY <1>6 DEF Age, admission, cluster, Calling, Unlanded
  <2> QED
    BY <1>d, <2>1, <2>2, GroupUntouched
<1>7. ASSUME EvictRound PROVE Goal
  <2>1. /\ \A c \in Calls \ {"none"} : Calling(k, c)' = Calling(k, c)
        /\ Unlanded(k)' = Unlanded(k)
    BY <1>7 DEF EvictRound, admission, cluster, Calling, Unlanded
  <2>2. /\ Overdue(k) = 0 /\ flights'[k] = InTime(k)
        /\ Len(InTime(k)) = Len(flights[k])
    <3>1. /\ ~ (Overdue(k) > 0) /\ flights'[k] = InTime(k)
          /\ Overdue(k) \in Nat /\ Len(InTime(k)) \in Nat
          /\ Len(InTime(k)) + Overdue(k) = Len(flights[k])
      BY <1>7, OverdueOrInTime DEF EvictRound
    <3> QED
      BY <1>a, <3>1
  <2>3. ASSUME Calling(k, "waiting") # {} PROVE senders'[chan'[k]] = senders[chan[k]]
    <3>1. Len(flights[k]) # 0
      BY <1>d, <2>3, IdleIsDeserted
    <3>2. chan'[k] = chan[k]
      BY <1>7, <3>1 DEF EvictRound, Idle
    <3>3. chan[k] \in Chans
      BY <1>d, <2>3 DEF WaitersOfEntry, Calling, CallsHaveGroups
    <3>4. (CHOOSE j \in Keys : chan[j] = chan[k]) = k
      BY <3>3 DEF OneEntryPerChan
    <3>5. senders'[chan[k]] = senders[chan[k]] + Overdue(k)
      BY <1>7, <3>3, <3>4 DEF EvictRound
    <3> QED
      BY <1>a, <2>2, <3>2, <3>3, <3>5
  <2> QED
    BY <1>d, <2>1, <2>2, <2>3, GroupUntouched
<1>8. ASSUME NEW n \in Pods, Change(n) \/ ReconcileNotFound(n) \/ ReconcileNothing(n)
      PROVE  Goal
  <2>1. /\ \A c \in Calls \ {"none"} : Calling(k, c)' = Calling(k, c)
        /\ Unlanded(k)' = Unlanded(k) /\ UNCHANGED <<flights, senders, chan>>
    BY <1>8 DEF Change, ReconcileNotFound, ReconcileNothing, tracker, admission, cluster,
                Calling, Unlanded
  <2> QED
    BY <1>d, <2>1, GroupUntouched
<1> QED
  BY <1>0, <1>1, <1>2, <1>3, <1>4, <1>5, <1>6, <1>7, <1>8 DEF Next, PodStep

(* Until a wait times out, a flight is landed by force or a landing is     *)
(* left over for a waiter, at most one pod of a group is between the wait  *)
(* and its landing, for any number of pods, groups, entries and events.    *)
THEOREM OnePodAtATime == Spec => []OneAtATime
<1> DEFINE OneIInv == /\ OneEntryPerChan /\ NoFlightsWithoutEntry /\ LandedAreSeen
                      /\ WaitersOfEntry /\ OneAhead
<1>1. Init => OneIInv
  <2> SUFFICES ASSUME Init PROVE OneAhead
    BY DEF Init, OneEntryPerChan, NoFlightsWithoutEntry, LandedAreSeen, WaitersOfEntry
  <2>1. \A k \in Keys : /\ Calling(k, "waiting") = {} /\ Calling(k, "passed") = {}
                        /\ Unlanded(k) = {} /\ Len(flights[k]) = 0
    BY DEF Init, Calling, Unlanded
  <2>2. Cardinality({}) = 0
    BY FS_EmptySet
  <2>3. ASSUME NEW k \in Keys
        PROVE  Ahead(k) = 0 /\ Cardinality(Calling(k, "waiting")) = 0
    <3>1. /\ Cardinality(Calling(k, "waiting")) = 0
          /\ Cardinality(Calling(k, "passed")) = 0
          /\ Cardinality(Unlanded(k)) = 0
      BY <2>1, <2>2, Zenon
    <3> QED
      BY <3>1 DEF Ahead
  <2> QED
    BY <2>1, <2>3 DEF OneAhead
<1>2. Types /\ OneIInv /\ [Next]_vars => OneIInv'
  BY EntriesStep, LandedStep, WaitersStep, AheadStep
<1>3. OneIInv => OneAtATime
  BY DEF OneAhead, OneAtATime, Ahead
<1> QED
  BY <1>1, <1>2, <1>3, TypesHold, PTL DEF Spec
=============================================================================
