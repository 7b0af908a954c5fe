--------------------------- MODULE FlightTracker ---------------------------
(***************************************************************************)
(* The flight tracker of pkg/controller/flightracker.go: pods on their way  *)
(* from admission to the informer cache.  WaitOne registers a flight in the *)
(* entry of its group and, if it is not alone there, waits for some flight  *)
(* to land.  Reconcile, which gets the events of watched pods, lands the    *)
(* flight of a pod that has arrived; the evicter lands those that take too  *)
(* long.  A landing is a goroutine that sends on the entry's unbuffered     *)
(* channel: it stays until somebody receives.                               *)
(*                                                                          *)
(* An entry is a pointer that waiters and goroutines keep after the evicter *)
(* has deleted it from the map, hence the channel identities below.  The    *)
(* mutex makes WaitOne up to its select, Reconcile and a round of the       *)
(* evicter atomic.  The error of WaitOne for an object without any name is  *)
(* left out: the API server has no such object.                             *)
(***************************************************************************)
EXTENDS Integers, SequencesExt

CONSTANTS
  Keys,        \* group IDs
  Pods,        \* names of pods
  Flight,      \* [Pods -> names]: the name in a pod's admission: its own or a generateName
  KeyOf,       \* [Pods -> SUBSET Keys]: the groups a pod of that name may be put in
  Chans,       \* channels, a bound on those referenced at a time
  NoKey, NoChan,
  MaxLandings  \* bound: flights of an entry and goroutines blocked on its channel

Stable == {n \in Pods : Flight[n] = n}

ASSUME TrackerAssumption ==
  /\ IsFiniteSet(Pods)
  /\ {NoKey, "absent", "unlabelled"} \cap Keys = {} /\ NoChan \notin Chans
  /\ \A n \in Pods : KeyOf[n] \subseteq Keys
  /\ MaxLandings \in Nat

VARIABLES
  chan,      \* [Keys -> Chans]: landedChan of the key's entry, NoChan without an entry
  flights,   \* [Keys -> Seq]: the flights of the entry, the newest last
  seen,      \* [Keys -> sets of pods]: seenPodsByNamespacedName of the entry
  seenKey,   \* [Pods -> Keys]: seenPodsKeysByNamespacedName
  senders,   \* [Chans -> Nat]: goroutines at landedChan <- nil
  call,      \* [Pods -> Calls]: the admission of a pod
  callKey,   \* [Pods -> Keys]: the group it was put in
  waitChan,  \* [Pods -> Chans]: the channel it waits on
  pod,       \* [Pods -> the group label of the pod in the informer cache]
  used,      \* generated names a pod has had: they are not used again
  dirty,     \* the work queue of Reconcile
  landed,    \* history: pods that landed a flight since they were created
  slipped    \* history: groups that had a landing other than for an arrival, see OneAtATime

tracker == <<chan, flights, seen, seenKey, senders>>
admission == <<call, callKey, waitChan>>
cluster == <<pod, used, dirty>>
history == <<landed, slipped>>
vars == <<tracker, admission, cluster, history>>

Calls == {"none", "waiting", "passed"}
PodLabels == Keys \cup {"absent", "unlabelled"}
FlightRecord == [name : {Flight[n] : n \in Pods} \cup Pods, old : BOOLEAN]

-----------------------------------------------------------------------------
Init ==
  /\ chan = [k \in Keys |-> NoChan]
  /\ flights = [k \in Keys |-> <<>>]
  /\ seen = [k \in Keys |-> {}]
  /\ seenKey = [n \in Pods |-> NoKey]
  /\ senders = [c \in Chans |-> 0]
  /\ call = [n \in Pods |-> "none"]
  /\ callKey = [n \in Pods |-> NoKey]
  /\ waitChan = [n \in Pods |-> NoChan]
  /\ pod = [n \in Pods |-> "absent"]
  /\ used = {} /\ dirty = {} /\ landed = {} /\ slipped = {}

Waiting(c) == {n \in Pods : call[n] = "waiting" /\ waitChan[n] = c}

\* Nobody holds the channel: it can stand for one that make creates.
Fresh(c) == Waiting(c) = {} /\ senders[c] = 0 /\ \A k \in Keys : chan[k] # c

\* Landings that nobody has waited for are there for the next who waits.
LeftOver(c) == senders[c] > Cardinality(Waiting(c))

(***************************************************************************)
(* Admission.                                                               *)
(***************************************************************************)
\* Mutant: one flight before is no reason to wait.
AloneOrSecond(list) == Len(list) <= 2

Alone(list) == Len(list) = 1

WaitOne(n, k, c) ==
  /\ call[n] = "none" /\ n \notin used
  /\ k \in KeyOf[n] /\ Len(flights[k]) + senders[c] < MaxLandings
  /\ IF chan[k] = NoChan THEN Fresh(c) ELSE c = chan[k]
  /\ chan' = [chan EXCEPT ![k] = c]
  /\ flights' = [flights EXCEPT ![k] = Append(@, [name |-> Flight[n], old |-> FALSE])]
  /\ callKey' = [callKey EXCEPT ![n] = k]
  /\ IF Alone(flights'[k])
     THEN /\ call' = [call EXCEPT ![n] = "passed"]
          /\ UNCHANGED <<waitChan, slipped>>
     ELSE /\ call' = [call EXCEPT ![n] = "waiting"]
          /\ waitChan' = [waitChan EXCEPT ![n] = c]
          /\ slipped' = IF LeftOver(c) THEN slipped \cup {k} ELSE slipped
  /\ used' = used \cup ({n} \ Stable)
  /\ UNCHANGED <<seen, seenKey, senders, pod, dirty, landed>>

Returns(n) ==
  /\ call' = [call EXCEPT ![n] = "passed"]
  /\ waitChan' = [waitChan EXCEPT ![n] = NoChan]
  /\ UNCHANGED <<chan, flights, seen, seenKey, callKey, cluster, landed>>

\* Mutant: no goroutine needs to be there.
ReceiveNothing(n) ==
  /\ call[n] = "waiting"
  /\ senders' = [senders EXCEPT ![waitChan[n]] = @ - 1]
  /\ slipped' = slipped
  /\ Returns(n)

Receive(n) ==
  /\ call[n] = "waiting" /\ senders[waitChan[n]] > 0
  /\ senders' = [senders EXCEPT ![waitChan[n]] = @ - 1]
  /\ slipped' = slipped
  /\ Returns(n)

TimeOut(n) ==
  /\ call[n] = "waiting"
  /\ senders' = senders
  /\ slipped' = slipped \cup {callKey[n]}
  /\ Returns(n)

(***************************************************************************)
(* The cluster.  The webhook has answered and the pod arrives in the cache, *)
(* without its label if the API server had stopped waiting for the answer;  *)
(* or it is never created.  Pods are changed, and deleted.  (A pod without  *)
(* the label may arrive while its handler still waits.  Reconcile passes    *)
(* over it, so that the tracker does the same if it arrives after that.)    *)
(***************************************************************************)
Answered(n) ==
  /\ call' = [call EXCEPT ![n] = "none"]
  /\ callKey' = [callKey EXCEPT ![n] = NoKey]
  /\ UNCHANGED waitChan

Arrive(n) ==
  /\ call[n] = "passed" /\ pod[n] = "absent"
  /\ \E label \in {callKey[n], "unlabelled"} : pod' = [pod EXCEPT ![n] = label]
  /\ Answered(n)
  /\ dirty' = dirty \cup {n}
  /\ landed' = landed \ {n}
  /\ UNCHANGED <<tracker, used, slipped>>

Refused(n) ==
  /\ call[n] = "passed"
  /\ Answered(n)
  /\ UNCHANGED <<tracker, cluster, history>>

Change(n) ==
  /\ pod[n] # "absent"
  /\ dirty' = dirty \cup {n}
  /\ UNCHANGED <<tracker, admission, pod, used, history>>

Delete(n) ==
  /\ pod[n] # "absent"
  /\ pod' = [pod EXCEPT ![n] = "absent"]
  /\ dirty' = dirty \cup {n}
  /\ UNCHANGED <<tracker, admission, used, history>>

-----------------------------------------------------------------------------
(***************************************************************************)
(* Reconcile.                                                               *)
(***************************************************************************)
NamedFlights(k, name) == {i \in DOMAIN flights[k] : flights[k][i].name = name}

\* Mutant: flights are matched by the pod's own name only.
FlightsOfName(n, k) == NamedFlights(k, n)

\* The flights a pod of group k may land: those of its own name, if there are
\* any, and those of its generateName else.
FlightsOf(n, k) ==
  IF NamedFlights(k, n) # {} THEN NamedFlights(k, n) ELSE NamedFlights(k, Flight[n])

\* Mutant: a deleted pod stays among the seen ones.
NotFoundIgnored(n) ==
  /\ n \in dirty /\ pod[n] = "absent"
  /\ dirty' = dirty \ {n}
  /\ UNCHANGED <<tracker, admission, pod, used, history>>

ReconcileNotFound(n) ==
  /\ n \in dirty /\ pod[n] = "absent"
  /\ dirty' = dirty \ {n}
  /\ seen' = IF seenKey[n] \in Keys
             THEN [seen EXCEPT ![seenKey[n]] = @ \ {n}] ELSE seen
  /\ UNCHANGED <<chan, flights, seenKey, senders, admission, pod, used, history>>

\* Mutant: seen pods are not skipped.
LandsAgain(n, k) ==
  /\ pod[n] = k /\ chan[k] # NoChan
  /\ FlightsOf(n, k) # {}

Lands(n, k) ==
  /\ pod[n] = k /\ chan[k] # NoChan
  /\ n \notin seen[k]
  /\ FlightsOf(n, k) # {}

ReconcileNothing(n) ==
  /\ n \in dirty /\ pod[n] # "absent"
  /\ \A k \in Keys : ~ Lands(n, k)
  /\ dirty' = dirty \ {n}
  /\ UNCHANGED <<tracker, admission, pod, used, history>>

ReconcileLands(n, k) ==
  /\ n \in dirty /\ Lands(n, k)
  /\ dirty' = dirty \ {n}
  /\ \E i \in FlightsOf(n, k) :
       /\ \A j \in FlightsOf(n, k) : j <= i
       /\ flights' = [flights EXCEPT ![k] = RemoveAt(@, i)]
  /\ seen' = [seen EXCEPT ![k] = @ \cup {n}]
  /\ seenKey' = [seenKey EXCEPT ![n] = k]
  /\ senders' = [senders EXCEPT ![chan[k]] = @ + 1]
  /\ landed' = landed \cup {n}
  /\ UNCHANGED <<chan, admission, pod, used, slipped>>

(***************************************************************************)
(* The evicter.  Flights grow old in the order they took off; a round drops *)
(* the entries without flights or seen pods and lands what is old.          *)
(***************************************************************************)
Age(k) ==
  \E i \in DOMAIN flights[k] :
    /\ ~ flights[k][i].old
    /\ \A j \in 1..(i - 1) : flights[k][j].old
    /\ flights' = [flights EXCEPT ![k][i].old = TRUE]
    /\ UNCHANGED <<chan, seen, seenKey, senders, admission, cluster, history>>

\* Mutant: an entry without seen pods is idle, whatever flies.
IdleUnseen(k) == chan[k] # NoChan /\ seen[k] = {}

Idle(k) == chan[k] # NoChan /\ flights[k] = <<>> /\ seen[k] = {}

\* How many flights are too old, the first ones of the list.
Overdue(k) == Cardinality({i \in DOMAIN flights[k] : flights[k][i].old})
InTime(k) == SubSeq(flights[k], Overdue(k) + 1, Len(flights[k]))

\* Mutant: old flights are dropped, not landed.
EvictSilently ==
  /\ \E k \in Keys : Idle(k) \/ Overdue(k) > 0
  /\ chan' = [k \in Keys |-> IF Idle(k) THEN NoChan ELSE chan[k]]
  /\ flights' = [k \in Keys |-> InTime(k)]
  /\ slipped' = slipped \cup {k \in Keys : Overdue(k) > 0}
  /\ UNCHANGED <<seen, seenKey, senders, admission, cluster, landed>>

EvictRound ==
  /\ \E k \in Keys : Idle(k) \/ Overdue(k) > 0
  /\ chan' = [k \in Keys |-> IF Idle(k) THEN NoChan ELSE chan[k]]
  /\ flights' = [k \in Keys |-> InTime(k)]
  /\ senders' = [c \in Chans |->
       IF \E k \in Keys : chan[k] = c
       THEN senders[c] + Overdue(CHOOSE k \in Keys : chan[k] = c) ELSE senders[c]]
  /\ slipped' = slipped \cup {k \in Keys : Overdue(k) > 0}
  /\ UNCHANGED <<seen, seenKey, admission, cluster, landed>>

-----------------------------------------------------------------------------
PodStep(n) ==
  \/ \E k \in Keys, c \in Chans : WaitOne(n, k, c)
  \/ Receive(n) \/ TimeOut(n)
  \/ Arrive(n) \/ Refused(n) \/ Change(n) \/ Delete(n)
  \/ ReconcileNotFound(n) \/ ReconcileNothing(n) \/ \E k \in Keys : ReconcileLands(n, k)

Next ==
  \/ \E n \in Pods : PodStep(n)
  \/ \E k \in Keys : Age(k)
  \/ EvictRound

Spec == Init /\ [][Next]_vars

(***************************************************************************)
(* Fairness: time passes and the evicter's timer fires; the work queue is   *)
(* served; receivers of a channel are served in the order they came, so one *)
(* of them receives if there is something to receive time and again.        *)
(* Nothing makes an admission time out: what these conditions give, callers *)
(* get without it.                                                          *)
(***************************************************************************)
Fairness ==
  /\ \A k \in Keys : WF_vars(Age(k))
  /\ WF_vars(EvictRound)
  /\ \A n \in Pods :
       /\ SF_vars(Receive(n))
       /\ WF_vars(ReconcileNotFound(n) \/ ReconcileNothing(n)
                    \/ \E k \in Keys : ReconcileLands(n, k))

FairSpec == Spec /\ Fairness

-----------------------------------------------------------------------------
(* Every variable ranges over the values the code can give it.             *)
TypeOK ==
  /\ chan \in [Keys -> Chans \cup {NoChan}]
  /\ flights \in [Keys -> Seq(FlightRecord)]
  /\ seen \in [Keys -> SUBSET Pods]
  /\ seenKey \in [Pods -> Keys \cup {NoKey}]
  /\ senders \in [Chans -> Nat]
  /\ call \in [Pods -> Calls]
  /\ callKey \in [Pods -> Keys \cup {NoKey}]
  /\ waitChan \in [Pods -> Chans \cup {NoChan}]
  /\ pod \in [Pods -> PodLabels]
  /\ used \subseteq Pods /\ dirty \subseteq Pods
  /\ landed \subseteq Pods /\ slipped \subseteq Keys

(***************************************************************************)
(* Nobody waits for what cannot come: a channel has at least as many        *)
(* landings to come, goroutines sending on it and flights of its entry, as  *)
(* callers that wait on it.                                                 *)
(***************************************************************************)
EveryWaiterHasALanding ==
  \A c \in Chans :
    \/ Cardinality(Waiting(c)) <= senders[c]
    \/ \E k \in Keys :
         /\ chan[k] = c
         /\ Cardinality(Waiting(c)) <= senders[c] + Len(flights[k])

(***************************************************************************)
(* The wait makes admissions of a group go one at a time: at most one pod   *)
(* is past the wait and has not landed since it arrived in the cache.  This *)
(* is so until the group slips: a wait times out, a flight is landed by     *)
(* force, or an admission that waits finds a landing left over from before. *)
(***************************************************************************)
Calling(k, c) == {n \in Pods : call[n] = c /\ callKey[n] = k}
Unlanded(k) == {n \in Pods : pod[n] = k /\ n \notin landed}

OneAtATime ==
  \A k \in Keys \ slipped :
    Cardinality(Calling(k, "passed")) + Cardinality(Unlanded(k)) <= 1

(***************************************************************************)
(* A pod lands one flight in its life, however many events it has.          *)
(***************************************************************************)
LandsOnce == [][\A n \in Pods, k \in Keys : ReconcileLands(n, k) => n \notin landed]_vars

(***************************************************************************)
(* A caller is let through even if its admission never times out.           *)
(***************************************************************************)
WaiterReleased == \A n \in Pods : call[n] = "waiting" ~> call[n] # "waiting"

(***************************************************************************)
(* A seen pod that is gone will be forgotten, its deletion being queued, by *)
(* the group its name is filed under.  What is never forgotten, and keeps   *)
(* its entry for good, is a name that has come back in another group since: *)
(* seenPodsKeysByNamespacedName has one group for a name.                   *)
(***************************************************************************)
GoneAreForgotten ==
  \A k \in Keys : \A n \in seen[k] :
    pod[n] = "absent" => n \in dirty \/ seenKey[n] # k

(***************************************************************************)
(* The entry of a group whose pods are gone for good is deleted, if their   *)
(* names stay in the group.                                                 *)
(***************************************************************************)
Staying(k) == \A n \in Pods : k \in KeyOf[n] => KeyOf[n] = {k}

Deserted(k) ==
  \A n \in Pods : k \in KeyOf[n] => pod[n] = "absent" /\ call[n] = "none"

IdleEntryDeleted ==
  \A k \in Keys : Staying(k) => (<>[]Deserted(k) => <>[](chan[k] = NoChan))

(***************************************************************************)
(* Reconcile, "Reconciles committed pods and landing corresponding pending  *)
(* entries": a pod of a generated name lands a flight when it is first      *)
(* reconciled in its group, if one of its name is pending.  (A name that is *)
(* used again may be taken for the seen pod that had it before.)            *)
(***************************************************************************)
Reconciled(n) == n \in dirty /\ n \notin dirty'

CommittedPodLands ==
  [][\A n \in Pods \ Stable, k \in Keys :
       (/\ Reconciled(n) /\ pod[n] = k
        /\ n \notin landed /\ NamedFlights(k, Flight[n]) # {})
          => Len(flights'[k]) < Len(flights[k])]_vars
=============================================================================
