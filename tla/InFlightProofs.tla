--------------------------- MODULE InFlightProofs ---------------------------
(***************************************************************************)
(* InFlight is made of its components: what it does is a behaviour of       *)
(* Straggler and, under the instantiation, one of FlightTracker.  Whatever  *)
(* is proved of these for any constants holds of the composition.           *)
(***************************************************************************)
EXTENDS InFlight, TLAPS, FiniteSetTheorems

(* What the composition does is a step of Straggler: the tracker only      *)
(* restricts when a wait ends.                                             *)
LEMMA StaggererSteps == [InFlightNext]_all => [Next]_vars
<1> SUFFICES ASSUME [InFlightNext]_all PROVE [Next]_vars
  OBVIOUS
<1>1. ASSUME NEW s \in Slots, SubmitAndTakeOff(s) PROVE Next
  BY <1>1 DEF SubmitAndTakeOff, Next, SlotStep
<1>2. ASSUME NEW s \in Slots, DecideAfterWait(s) PROVE Next
  BY <1>2 DEF DecideAfterWait, Next, SlotStep
<1>3. ASSUME NEW s \in Slots, DecideFailsAfterWait(s) PROVE Next
  BY <1>3 DEF DecideFailsAfterWait, Next, SlotStep
<1>4. ASSUME NEW s \in Slots, AbortFlight(s) PROVE Next
  BY <1>4 DEF AbortFlight, Next, SlotStep
<1>5. ASSUME NEW s \in Slots, Unseen(s) PROVE Next
  BY <1>5 DEF Unseen, Next, SlotStep
<1>6. CASE DeliverToBoth
  BY <1>6 DEF DeliverToBoth, Next
<1>7. CASE UnseenEnd
  BY <1>7 DEF UnseenEnd, Next
<1>8. CASE TrackerStep
  BY <1>8 DEF TrackerStep
<1>9. CASE UNCHANGED all
  BY <1>9 DEF all
<1>10. QED
  BY <1>1, <1>2, <1>3, <1>4, <1>5, <1>6, <1>7, <1>8, <1>9 DEF InFlightNext

(* The composition staggers as Straggler does.                             *)
THEOREM Staggers == InFlightSpec => Spec
<1>1. InFlightInit => Init
  BY DEF InFlightInit
<1> QED
  BY <1>1, StaggererSteps, PTL DEF InFlightSpec, Spec

(* And a step of FlightTracker: what the cluster does to the pods is what  *)
(* FlightTracker allows it to do.                                          *)
LEMMA TrackerSteps == [InFlightNext]_all => [Tracker!Next]_(Tracker!vars)
<1> SUFFICES ASSUME [InFlightNext]_all PROVE [Tracker!Next]_(Tracker!vars)
  OBVIOUS
<1>0. ASSUME UNCHANGED flying PROVE UNCHANGED Tracker!vars
  BY <1>0 DEF flying, Tracker!vars, Tracker!tracker, Tracker!admission,
              Tracker!cluster, Tracker!history
<1>1. ASSUME NEW s \in Slots, SubmitAndTakeOff(s) PROVE Tracker!Next
  <2>1. PICK c \in Chans : Tracker!WaitOne(NextName(s), ID(s), c)
    BY <1>1 DEF SubmitAndTakeOff
  <2>2. NextName(s) \in PodNames /\ ID(s) \in IDs
    BY <1>1 DEF SubmitAndTakeOff, IDs
  <2>3. QED
    BY <2>1, <2>2 DEF Tracker!Next, Tracker!PodStep
<1>2. ASSUME NEW s \in Slots, DecideAfterWait(s) PROVE UNCHANGED Tracker!vars
  BY <1>0, <1>2 DEF DecideAfterWait
<1>3. ASSUME NEW s, NEW n \in NamesOf(s) PROVE n \in PodNames
  BY DEF NamesOf
<1>4. ASSUME NEW s \in Slots, NotCreated(s) PROVE Tracker!Next
  <2>1. PICK n \in NamesOf(s) : Tracker!Refused(n)
    BY <1>4 DEF NotCreated
  <2>2. n \in PodNames
    BY <1>3
  <2>3. QED
    BY <2>1, <2>2 DEF Tracker!Next, Tracker!PodStep
<1>5. ASSUME NEW s \in Slots, DecideFailsAfterWait(s)
      PROVE  Tracker!Next \/ UNCHANGED Tracker!vars
  BY <1>0, <1>4, <1>5 DEF DecideFailsAfterWait
<1>6. ASSUME NEW s \in Slots, AbortFlight(s) PROVE Tracker!Next
  BY <1>4, <1>6 DEF AbortFlight
<1>7. ASSUME NEW s \in Slots, Unseen(s) PROVE UNCHANGED Tracker!vars
  BY <1>0, <1>7 DEF Unseen
<1>8. ASSUME DeliverToBoth PROVE Tracker!Next
  <2> DEFINE s == Head(watch).slot
  <2>1. PICK n \in NamesOf(s) : Tracker!Delete(n) \/ Tracker!Arrive(n) \/ Tracker!Change(n)
    BY <1>8 DEF DeliverToBoth, Cached, Arriving, OnTheWay
  <2>2. n \in PodNames
    BY <1>3
  <2>3. QED
    BY <2>1, <2>2 DEF Tracker!Next, Tracker!PodStep
<1>9. ASSUME UnseenEnd PROVE UNCHANGED Tracker!vars
  BY <1>0, <1>9 DEF UnseenEnd
<1>10. ASSUME TrackerStep PROVE Tracker!Next
  BY <1>10 DEF TrackerStep, Tracker!Next, Tracker!PodStep
<1>11. ASSUME UNCHANGED all PROVE UNCHANGED Tracker!vars
  BY <1>0, <1>11 DEF all
<1>12. QED
  BY <1>1, <1>2, <1>5, <1>6, <1>7, <1>8, <1>9, <1>10, <1>11 DEF InFlightNext

(* The flights of the composition are tracked as FlightTracker says.       *)
THEOREM TracksFlights == InFlightSpec => Tracker!Spec
<1>1. InFlightInit => Tracker!Init
  BY DEF InFlightInit
<1> QED
  BY <1>1, TrackerSteps, PTL DEF InFlightSpec, Tracker!Spec

-----------------------------------------------------------------------------
(***************************************************************************)
(* The theorems about FlightTracker, for this instance of it.  Proved is    *)
(* the instance of FlightTrackerProofs, whose definitions are those of      *)
(* Tracker under another name.                                              *)
(***************************************************************************)
Proved == INSTANCE FlightTrackerProofs WITH
  Keys <- IDs, Pods <- PodNames, NoKey <- NoID,
  Flight <- [n \in PodNames |-> GenerateName],
  KeyOf <- [n \in PodNames |-> {ID(n[1])}]

(* The names of the pods are finitely many.                                *)
LEMMA NamesFinite == IsFiniteSet(PodNames)
<1>1. IsFiniteSet(1..Lives)
  BY InFlightAssumption, FS_Interval
<1> QED
  BY <1>1, SlotsAssumption, FS_Product DEF PodNames

(* What FlightTracker assumes of its constants holds of this instance.     *)
LEMMA InstanceAssumption == Proved!TrackerAssumption
<1>1. Proved!IsFiniteSet(PodNames)
  BY NamesFinite DEF IsFiniteSet, Proved!IsFiniteSet
<1>2. \A n \in PodNames : ID(n[1]) \in IDs
  BY DEF PodNames, IDs
<1> QED
  BY <1>1, <1>2, InFlightAssumption DEF Proved!TrackerAssumption

(* The helpers of the two instances agree.                                 *)
LEMMA SameHelpers ==
  /\ Tracker!Stable = Proved!Stable
  /\ \A c : Tracker!Fresh(c) <=> Proved!Fresh(c)
  /\ \A c : Tracker!LeftOver(c) <=> Proved!LeftOver(c)
  /\ \A k : Tracker!Idle(k) <=> Proved!Idle(k)
  /\ \A k : Tracker!Overdue(k) = Proved!Overdue(k)
  /\ \A k : Tracker!InTime(k) = Proved!InTime(k)
  /\ \A n, k : Tracker!FlightsOf(n, k) = Proved!FlightsOf(n, k)
  /\ \A n, k : Tracker!Lands(n, k) <=> Proved!Lands(n, k)
  /\ \A s, i : Tracker!RemoveAt(s, i) = Proved!RemoveAt(s, i)
<1>1. \A S : Tracker!Cardinality(S) = Proved!Cardinality(S)
  BY DEF Tracker!Cardinality, Proved!Cardinality
<1>2. Tracker!Stable = Proved!Stable
  BY DEF Tracker!Stable, Proved!Stable
<1>3. \A c : Tracker!Fresh(c) <=> Proved!Fresh(c)
  BY DEF Tracker!Fresh, Proved!Fresh, Tracker!Waiting, Proved!Waiting
<1>4. \A c : Tracker!LeftOver(c) <=> Proved!LeftOver(c)
  BY <1>1 DEF Tracker!LeftOver, Proved!LeftOver, Tracker!Waiting, Proved!Waiting
<1>5. \A k : Tracker!Idle(k) <=> Proved!Idle(k)
  BY DEF Tracker!Idle, Proved!Idle
<1>6. \A k : Tracker!Overdue(k) = Proved!Overdue(k)
  BY <1>1 DEF Tracker!Overdue, Proved!Overdue
<1>7. \A k : Tracker!InTime(k) = Proved!InTime(k)
  BY <1>6 DEF Tracker!InTime, Proved!InTime
<1>8. \A n, k : Tracker!FlightsOf(n, k) = Proved!FlightsOf(n, k)
  BY DEF Tracker!FlightsOf, Proved!FlightsOf, Tracker!NamedFlights, Proved!NamedFlights
<1>9. \A n, k : Tracker!Lands(n, k) <=> Proved!Lands(n, k)
  BY <1>8 DEF Tracker!Lands, Proved!Lands
<1>10. \A s, i : Tracker!RemoveAt(s, i) = Proved!RemoveAt(s, i)
  BY DEF Tracker!RemoveAt, Proved!RemoveAt
<1> QED
  BY <1>2, <1>3, <1>4, <1>5, <1>6, <1>7, <1>8, <1>9, <1>10

(* Their steps are the same.                                               *)
LEMMA SameSteps == [Tracker!Next]_(Tracker!vars) => [Proved!Next]_(Proved!vars)
<1> USE DEF Tracker!vars, Proved!vars, Tracker!tracker, Proved!tracker,
            Tracker!admission, Proved!admission, Tracker!cluster, Proved!cluster,
            Tracker!history, Proved!history
<1>1. \A n, k, c : Tracker!WaitOne(n, k, c) => Proved!WaitOne(n, k, c)
  BY SameHelpers DEF Tracker!WaitOne, Proved!WaitOne, Tracker!Alone, Proved!Alone
<1>2. \A n : Tracker!Receive(n) \/ Tracker!TimeOut(n) => Proved!Receive(n) \/ Proved!TimeOut(n)
  BY DEF Tracker!Receive, Proved!Receive, Tracker!TimeOut, Proved!TimeOut,
         Tracker!Returns, Proved!Returns
<1>3. \A n : Tracker!Arrive(n) \/ Tracker!Refused(n) => Proved!Arrive(n) \/ Proved!Refused(n)
  BY DEF Tracker!Arrive, Proved!Arrive, Tracker!Refused, Proved!Refused,
         Tracker!Answered, Proved!Answered
<1>4. \A n : Tracker!Change(n) \/ Tracker!Delete(n) => Proved!Change(n) \/ Proved!Delete(n)
  BY DEF Tracker!Change, Proved!Change, Tracker!Delete, Proved!Delete
<1>5. \A n : Tracker!ReconcileNotFound(n) \/ Tracker!ReconcileNothing(n)
               => Proved!ReconcileNotFound(n) \/ Proved!ReconcileNothing(n)
  BY SameHelpers DEF Tracker!ReconcileNotFound, Proved!ReconcileNotFound,
     Tracker!ReconcileNothing, Proved!ReconcileNothing
<1>6. \A n, k : Tracker!ReconcileLands(n, k) => Proved!ReconcileLands(n, k)
  BY SameHelpers DEF Tracker!ReconcileLands, Proved!ReconcileLands
<1>7. \A k : Tracker!Age(k) => Proved!Age(k)
  BY DEF Tracker!Age, Proved!Age
<1>8. Tracker!EvictRound => Proved!EvictRound
  BY SameHelpers DEF Tracker!EvictRound, Proved!EvictRound
<1>9. \A n \in PodNames : Tracker!PodStep(n) => Proved!PodStep(n)
  BY <1>1, <1>2, <1>3, <1>4, <1>5, <1>6 DEF Tracker!PodStep, Proved!PodStep
<1>10. Tracker!Next => Proved!Next
  BY <1>7, <1>8, <1>9 DEF Tracker!Next, Proved!Next
<1> QED
  BY <1>10

(* The composition behaves as the tracker of the theorems.                 *)
LEMMA BehavesAsProved == InFlightSpec => Proved!Spec
<1>1. Tracker!Init => Proved!Init
  BY DEF Tracker!Init, Proved!Init
<1> QED
  BY <1>1, SameSteps, TracksFlights, PTL DEF Tracker!Spec, Proved!Spec

(* At most one pod of a group is between the wait and its landing, until   *)
(* the group slips; and nobody waits in vain.                              *)
THEOREM OneInFlight ==
  InFlightSpec => [](Tracker!OneAtATime /\ Tracker!EveryWaiterHasALanding)
<1>1. \A S : Tracker!Cardinality(S) = Proved!Cardinality(S)
  BY DEF Tracker!Cardinality, Proved!Cardinality
<1>2. Proved!OneAtATime => Tracker!OneAtATime
  BY <1>1 DEF Tracker!OneAtATime, Proved!OneAtATime, Tracker!Calling, Proved!Calling,
     Tracker!Unlanded, Proved!Unlanded
<1>3. Proved!EveryWaiterHasALanding => Tracker!EveryWaiterHasALanding
  BY <1>1 DEF Tracker!EveryWaiterHasALanding, Proved!EveryWaiterHasALanding,
     Tracker!Waiting, Proved!Waiting
<1> QED
  BY <1>2, <1>3, BehavesAsProved, InstanceAssumption, Proved!OnePodAtATime,
     Proved!NobodyWaitsInVain, PTL
=============================================================================
