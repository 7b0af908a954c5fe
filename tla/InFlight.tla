------------------------------ MODULE InFlight ------------------------------
(***************************************************************************)
(* The staggering controller with its flight tracker: Straggler, in which   *)
(* the wait of an admission ends at any time, composed with FlightTracker,  *)
(* which says when it ends.  The two meet where the code of one calls the   *)
(* other or both get the same event of the informer:                        *)
(*                                                                          *)
(*   handlePodAdmission calls WaitOne and goes on when it returns;          *)
(*   a refused creation is one whose flight does not arrive;                *)
(*   an event of the informer updates the cache from which admission        *)
(*   lists the group, and queues the pod for the tracker's Reconcile.       *)
(*                                                                          *)
(* The tracker knows pods by their names, generated ones here: a slot's     *)
(* pod gets another name with every life.                                   *)
(***************************************************************************)
EXTENDS Straggler

CONSTANTS
  Lives,               \* bound: names for the pods of a slot
  GroupIDs,            \* [groups -> identities], the hashes of the group IDs
  NoID,                \* not a group's identity
  Chans, NoChan, MaxLandings   \* see FlightTracker

VARIABLES
  chan, flights, seen, seenKey, senders, call, callKey, waitChan,
  pod, used, dirty, landed, slipped   \* see FlightTracker

Groups == {Group(s) : s \in Slots}
ID(s) == GroupIDs[Group(s)]
IDs == {ID(s) : s \in Slots}

PodNames == Slots \X (1..Lives)
NamesOf(s) == {n \in PodNames : n[1] = s}

\* The pods have one owner: in admission they all have its generateName.
GenerateName == <<NoSlot, 0>>

ASSUME InFlightAssumption ==
  /\ \A s \in Slots : AdmissionEnabled(s) /\ Grouped(s) /\ Watched(s)
  /\ StableNames = {} /\ JobPods = {}
  /\ Faults \cap {"failopen", "restart"} = {}
  /\ Lives \in Nat
  /\ {NoID, "absent", "unlabelled"} \cap IDs = {} /\ NoChan \notin Chans
  /\ MaxLandings \in Nat

Tracker == INSTANCE FlightTracker WITH
  Keys <- IDs, Pods <- PodNames, NoKey <- NoID,
  Flight <- [n \in PodNames |-> GenerateName],
  KeyOf <- [n \in PodNames |-> {ID(n[1])}]

flying == <<chan, flights, seen, seenKey, senders, call, callKey, waitChan,
            pod, used, dirty, landed, slipped>>
all == <<vars, flying>>

-----------------------------------------------------------------------------
(***************************************************************************)
(* The names of a slot's pods are used in their order: the one given last   *)
(* and the next one, those in the cache and of these the next to arrive.    *)
(***************************************************************************)
Given(s) == Cardinality(NamesOf(s) \cap used)
Latest(s) == <<s, Given(s)>>
NextName(s) == <<s, Given(s) + 1>>
Cached(s) == {n \in NamesOf(s) : pod[n] # "absent"}

OnTheWay(s) == {n \in NamesOf(s) : call[n] = "passed"}
Arriving(s) == {n \in OnTheWay(s) : \A m \in OnTheWay(s) : n[2] <= m[2]}

-----------------------------------------------------------------------------
InFlightInit == Init /\ Tracker!Init

\* handlePodAdmission up to WaitOne and, in WaitOne, up to the wait.
SubmitAndTakeOff(s) ==
  /\ NextName(s) \in PodNames
  /\ Submit(s)
  /\ \E c \in Chans : Tracker!WaitOne(NextName(s), ID(s), c)

\* handlePodAdmission from the return of WaitOne on.
PassedWait(s) == hook[s] = "waiting" /\ call[Latest(s)] = "passed"

DecideAfterWait(s) ==
  /\ PassedWait(s)
  /\ Decide(s)
  /\ UNCHANGED flying

NotCreated(s) == \E n \in NamesOf(s) : n = Latest(s) /\ Tracker!Refused(n)

DecideFailsAfterWait(s) ==
  /\ PassedWait(s)
  /\ DecideFails(s)
  /\ IF hook'[s] = "idle" THEN NotCreated(s) ELSE UNCHANGED flying

AbortFlight(s) == Abort(s) /\ NotCreated(s)

\* One event of the informer, for the cache and both controllers.
DeliverToBoth ==
  /\ Deliver
  /\ LET s == Head(watch).slot
         gone == Head(watch).phase = "none"
     IN  \/ gone /\ \E n \in Cached(s) : Tracker!Delete(n)
         \/ /\ ~ gone /\ cache[s] = "none"
            /\ \E n \in Arriving(s) : Tracker!Arrive(n) /\ pod'[n] = ID(s)
         \/ ~ gone /\ cache[s] # "none" /\ \E n \in Cached(s) : Tracker!Change(n)

\* Steps of the cluster and of the reconciler the tracker does not see.
Unseen(s) ==
  /\ \/ Commit(s) \/ BecomeReady(s) \/ BecomeUnready(s) \/ Gone(s) \/ BecomeOverdue(s)
     \/ ReconcileSkip(s) \/ ReconcileError(s) \/ ReconcileStart(s)
     \/ Evict(s) \/ EvictFails(s)
  /\ UNCHANGED flying

UnseenEnd ==
  /\ ReconcileEnd \/ \E g \in known : ExpireGroup(g)
  /\ UNCHANGED flying

\* Steps of the tracker the rest does not see.
TrackerStep ==
  /\ \/ \E n \in PodNames : \/ Tracker!Receive(n) \/ Tracker!TimeOut(n)
                            \/ Tracker!ReconcileNotFound(n) \/ Tracker!ReconcileNothing(n)
                            \/ \E k \in IDs : Tracker!ReconcileLands(n, k)
     \/ \E k \in IDs : Tracker!Age(k)
     \/ Tracker!EvictRound
  /\ UNCHANGED vars

InFlightNext ==
  \/ \E s \in Slots : \/ SubmitAndTakeOff(s) \/ DecideAfterWait(s)
                      \/ DecideFailsAfterWait(s) \/ AbortFlight(s) \/ Unseen(s)
  \/ DeliverToBoth \/ UnseenEnd \/ TrackerStep

InFlightSpec == InFlightInit /\ [][InFlightNext]_all

-----------------------------------------------------------------------------
(***************************************************************************)
(* An admission that is past the wait overlooks nobody: until its group     *)
(* slips, each pod of the group that was let go is in the cache from which  *)
(* the admission counts, as a pod that was let go, however much the cache   *)
(* lags.                                                                    *)
(***************************************************************************)
LetGo(s) == api[s] \in {"starting", "ready"} \/ hook[s] = "allow"
Counted(s) == cache[s] \in {"starting", "ready"}

NoneOverlooked ==
  \A s, t \in Slots :
    (/\ PassedWait(s) /\ ID(s) \notin slipped
     /\ t # s /\ Group(t) = Group(s) /\ LetGo(t)) => Counted(t)

(***************************************************************************)
(* Staggering does what PacedStart promises: each group starts its pods in  *)
(* its pace until it slips, through lagging caches, refused creations and   *)
(* refused evictions.                                                       *)
(***************************************************************************)
Paced == INSTANCE PacedStart WITH
  Members <- Slots,
  GroupOf <- [s \in Slots |-> Group(s)],
  Pacing <- PacersOf,
  started <- {s \in Slots : LetGo(s)},
  ready <- {s \in Slots : api[s] = "ready"},
  loose <- {g \in Groups : GroupIDs[g] \in slipped}

PacedStarts == Paced!Spec

(***************************************************************************)
(* The cluster never has a stampede: until a group slips or has MaxStagger  *)
(* pods ready, no more of its pods have been let go and are not ready than  *)
(* the batch of each of its pacers (Step, or the multiple of what is ready).*)
(***************************************************************************)
NoStampede == Paced!WithinBatch
=============================================================================
