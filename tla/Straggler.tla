----------------------------- MODULE Straggler -----------------------------
(***************************************************************************)
(* The staggering controller of pkg/controller, composed with the parts of  *)
(* Kubernetes it works through.                                             *)
(*                                                                          *)
(* Controllers (Deployments, StatefulSets, Jobs) keep a number of slots     *)
(* filled with pods.  Creating a pod calls the admission webhook            *)
(* (admission.go), which classifies the pod into a staggering group, waits  *)
(* for the flight tracker, counts the pods of the group in the informer     *)
(* cache and asks the group's pacer whether the new pod may start; if not,  *)
(* the pod is created as a stub, blocked.  The reconciler (reconciler.go)   *)
(* runs on every event of a watched pod, asks the same pacer which blocked  *)
(* pods may go, and evicts these: the owner of an evicted pod creates       *)
(* another one, which admission should let start.                           *)
(*                                                                          *)
(* The API server changes api and appends to watch, the ordered stream of   *)
(* pod events from which the informer cache is fed; what the webhook and    *)
(* the reconciler decide, they decide on the cache.                         *)
(***************************************************************************)
EXTENDS Pacers, Sequences

CONSTANTS
  Slots,               \* places for a pod that the owning controllers keep filled
  NoSlot,              \* not a slot; in a list of pods, the pod under admission
  StableNames,         \* slots whose pods all have the same name (StatefulSet)
  JobPods,             \* slots whose pods carry the jobPod label
  Labels,              \* [Slots -> sets of <<label, value>>]: the labels of a slot's pods
  Keys,                \* [Slots -> [policies -> keys]]: the grouping expression's value
  NoKey,               \* the value of a grouping expression that yields nothing
  Policies,            \* the sequence of staggering policies, see Policy
  EnableLabel,         \* options.EnableLabel, what admission and the watches look for
  DefaultEnableLabel,  \* the label NewReconciler looks for
  BypassFailure,       \* options.BypassFailure
  Faults,              \* what may go wrong, a subset of FaultKinds
  MaxLosses,           \* bound: restarts and expired groups
  MaxLag               \* bound: events in the watch stream

FaultKinds ==
  {"gone",        \* somebody else deletes a pod
   "unready",     \* a ready pod fails its readiness probe
   "abort",       \* the creation is refused after the webhook has answered
   "failopen",    \* the webhook call fails: failurePolicy Ignore lets the pod be
   "listfail",    \* listing the pods of a group fails
   "evictfail",   \* the eviction is refused, by a disruption budget for example
   "expire",      \* an entry of groupsByID outlives its 30 minutes
   "restart"}     \* the leader stops and another replica takes over

(***************************************************************************)
(* A policy selects the pods that carry all labels of selector, except      *)
(* those that carry all labels of a non-empty bypass.  maxBlocked says that *)
(* MaxBlockedDuration is set.                                               *)
(***************************************************************************)
Policy == [selector : SUBSET UNION {Labels[s] : s \in Slots},
           bypass : SUBSET UNION {Labels[s] : s \in Slots},
           maxBlocked : BOOLEAN,
           pacer : Pacer]

ASSUME SlotsAssumption ==
  /\ IsFiniteSet(Slots)
  /\ NoSlot \notin Slots
  /\ StableNames \subseteq Slots
  /\ JobPods \subseteq Slots

ASSUME PolicyAssumption ==
  /\ DOMAIN Policies \subseteq Nat
  /\ \A i \in DOMAIN Policies : Policies[i].pacer \in Pacer

ASSUME OptionsAssumption ==
  /\ BypassFailure \in BOOLEAN
  /\ Faults \subseteq FaultKinds
  /\ MaxLosses \in Nat /\ MaxLag \in Nat

VARIABLES
  api,       \* [Slots -> Phase]: the pod in the slot, as the API server has it
  watch,     \* the events the informer has yet to apply
  cache,     \* [Slots -> Phase]: the pod in the slot, as the informer cache has it
  hook,      \* [Slots -> Hook]: the creation of the slot's pod
  known,     \* podClassifier.groupsByID
  rqueue,    \* the reconciler's work queue: pods waiting for Reconcile
  current,   \* the pod Reconcile is running for, or NoSlot
  target,    \* [Slots -> Target]: the eviction loop of that Reconcile
  overdue,   \* blocked pods older than the MaxBlockedDuration of a policy of theirs
  losses     \* restarts and expired groups so far

vars == <<api, watch, cache, hook, known, rqueue, current, target, overdue, losses>>

(***************************************************************************)
(* What is in a slot: nothing; a pod in no group; a job's pod blocked       *)
(* without a group; a pod blocked in its group; and a pod of its group that *)
(* was let go, before and after it is ready.                                *)
(***************************************************************************)
Phase == {"none", "plain", "held", "blocked", "starting", "ready"}

(***************************************************************************)
(* The creation of a pod: none under way; in WaitOne; and the webhook's     *)
(* answer, on its way through the API server.                               *)
(***************************************************************************)
Verdict == {"plain", "hold", "allow", "block"}
Hook == {"idle", "waiting"} \cup Verdict

(***************************************************************************)
(* The eviction loop: pods not in it; pods it has to evict, of which those  *)
(* "gone" no longer exist; and pods whose eviction succeeded or failed.     *)
(***************************************************************************)
Target == {"no", "live", "gone", "done", "failed"}

-----------------------------------------------------------------------------
(***************************************************************************)
(* Classification: podClassifier and the label checks.                      *)
(***************************************************************************)

Matches(s, i) ==
  /\ Policies[i].selector \subseteq Labels[s]
  /\ ~ (Policies[i].bypass # {} /\ Policies[i].bypass \subseteq Labels[s])
  /\ Keys[s][i] # NoKey

\* The group ID stands for the matched policies, each with its key.
Group(s) == [i \in {j \in DOMAIN Policies : Matches(s, j)} |-> Keys[s][i]]

Grouped(s) == DOMAIN Group(s) # {}

PacersOf(g) == [i \in DOMAIN g |-> Policies[i].pacer]

\* ClassifyByGroupID returns a group without its GroupPolicies.
MaxBlockedEnforced(g) == FALSE

AdmissionEnabled(s) == <<EnableLabel, "1">> \in Labels[s]
ReconcileEnabled(s) == <<DefaultEnableLabel, "1">> \in Labels[s]

\* The watch predicate requires the labels of all policies together, of any value.
HasLabel(s, name) == \E l \in Labels[s] : l[1] = name

Watched(s) ==
  /\ HasLabel(s, EnableLabel)
  /\ \A i \in DOMAIN Policies : \A l \in Policies[i].selector : HasLabel(s, l[1])

-----------------------------------------------------------------------------
(***************************************************************************)
(* ClassifyPodGroup, and the pacing of what it lists.                       *)
(***************************************************************************)
InGroup(g, phase) == {s \in Slots : cache[s] = phase /\ Group(s) = g}

(***************************************************************************)
(* The informer cache lists in any order, and creation times are in seconds *)
(* so that sorting by them leaves any order among pods of a burst: both     *)
(* orders are arbitrary.  The pod under admission is appended to the list   *)
(* and, having no creation time yet, sorts first.                           *)
(***************************************************************************)
\* Mutant: the pod under admission sorts last, as if created after all others.
SortIncomingLast(f) == Append(f, NoSlot)

AppendIncoming(f) == Append(f, NoSlot)
SortIncoming(f) == <<NoSlot>> \o f

\* Mutant: starting pods are not counted.
PaceGroupByReady(g, listed, sorted, n) ==
  Pace(PacersOf(g), Cardinality(InGroup(g, "ready")), 0, listed, sorted, n)

PaceGroup(g, listed, sorted, n) ==
  Pace(PacersOf(g), Cardinality(InGroup(g, "ready")),
       Cardinality(InGroup(g, "starting")), listed, sorted, n)

MayPassAdmission(g) ==
  LET blocked == InGroup(g, "blocked")
  IN  {PaceGroup(g, AppendIncoming(f), SortIncoming(h), Cardinality(blocked) + 1) :
         f \in Orderings(blocked), h \in Orderings(blocked)}

MayBeUnblocked(g) ==
  LET blocked == InGroup(g, "blocked")
  IN  {PaceGroup(g, f, h, Cardinality(blocked)) :
         f \in Orderings(blocked), h \in Orderings(blocked)}

-----------------------------------------------------------------------------
(***************************************************************************)
(* The API server.                                                          *)
(***************************************************************************)
Event(s, phase) == [slot |-> s, phase |-> phase]

\* The pod in s changes; the informer hears of it in order.
Becomes(s, phase) ==
  /\ Len(watch) < MaxLag
  /\ api' = [api EXCEPT ![s] = phase]
  /\ watch' = Append(watch, Event(s, phase))

\* The pod in s is removed: the eviction loop's name for it is now stale.
Removed(s) ==
  /\ api[s] # "none"
  /\ Becomes(s, "none")
  /\ overdue' = overdue \ {s}

RemovalPending(s) == \E k \in DOMAIN watch : watch[k] = Event(s, "none")

Pending(s) == \E k \in DOMAIN watch : watch[k].slot = s

-----------------------------------------------------------------------------
Init ==
  /\ api = [s \in Slots |-> "none"]
  /\ cache = api
  /\ watch = <<>>
  /\ hook = [s \in Slots |-> "idle"]
  /\ known = {}
  /\ rqueue = {}
  /\ current = NoSlot
  /\ target = [s \in Slots |-> "no"]
  /\ overdue = {}
  /\ losses = 0

(***************************************************************************)
(* Admission.                                                               *)
(***************************************************************************)

\* The owner creates a pod; handlePodAdmission up to the wait for a flight.
Submit(s) ==
  /\ api[s] = "none" /\ hook[s] = "idle"
  /\ IF AdmissionEnabled(s) /\ s \notin JobPods /\ Grouped(s)
     THEN /\ hook' = [hook EXCEPT ![s] = "waiting"]
          /\ known' = known \cup {Group(s)}
     ELSE /\ hook' = [hook EXCEPT ![s] =
                        IF AdmissionEnabled(s) /\ s \in JobPods THEN "hold" ELSE "plain"]
          /\ known' = known
  /\ UNCHANGED <<api, watch, cache, rqueue, current, target, overdue, losses>>

(***************************************************************************)
(* The wait is over, by a landing or by its timeout, both of which the code *)
(* treats alike.  The new pod looks for itself among the passed pods by     *)
(* name: only itself for a generated name, any pod of that name otherwise.  *)
(***************************************************************************)
FindsItself(s, passed) == NoSlot \in passed \/ (s \in StableNames /\ s \in passed)

Decide(s) ==
  /\ hook[s] = "waiting"
  /\ \E passed \in MayPassAdmission(Group(s)) :
        hook' = [hook EXCEPT ![s] = IF FindsItself(s, passed) THEN "allow" ELSE "block"]
  /\ UNCHANGED <<api, watch, cache, known, rqueue, current, target, overdue, losses>>

\* An error after the pod has its group label: bypassed, or the pod is refused.
DecideFails(s) ==
  /\ "listfail" \in Faults
  /\ hook[s] = "waiting"
  /\ hook' = [hook EXCEPT ![s] = IF BypassFailure THEN "allow" ELSE "idle"]
  /\ UNCHANGED <<api, watch, cache, known, rqueue, current, target, overdue, losses>>

\* The API server gets no answer and creates the pod as its owner wrote it.
FailOpen(s) ==
  /\ "failopen" \in Faults
  /\ api[s] = "none" /\ hook[s] \in {"idle", "waiting"}
  /\ hook' = [hook EXCEPT ![s] = "plain"]
  /\ UNCHANGED <<api, watch, cache, known, rqueue, current, target, overdue, losses>>

\* Mutant: the stub is created but not recognised as blocked.
CreatedAsVerdict == [plain |-> "plain", hold |-> "held", allow |-> "starting", block |-> "block"]

CreatedAs == [plain |-> "plain", hold |-> "held", allow |-> "starting", block |-> "blocked"]

Commit(s) ==
  /\ hook[s] \in Verdict
  /\ Becomes(s, CreatedAs[hook[s]])
  /\ hook' = [hook EXCEPT ![s] = "idle"]
  /\ UNCHANGED <<cache, known, rqueue, current, target, overdue, losses>>

Abort(s) ==
  /\ "abort" \in Faults
  /\ hook[s] \in Verdict
  /\ hook' = [hook EXCEPT ![s] = "idle"]
  /\ UNCHANGED <<api, watch, cache, known, rqueue, current, target, overdue, losses>>

(***************************************************************************)
(* The life of a pod that was let go, and of any pod at the hands of others:*)
(* somebody deletes it.  A pod that has completed or failed stays until it  *)
(* is deleted, and counts as starting.                                      *)
(***************************************************************************)
BecomeReady(s) ==
  /\ api[s] = "starting"
  /\ Becomes(s, "ready")
  /\ UNCHANGED <<cache, hook, known, rqueue, current, target, overdue, losses>>

BecomeUnready(s) ==
  /\ "unready" \in Faults
  /\ api[s] = "ready"
  /\ Becomes(s, "starting")
  /\ UNCHANGED <<cache, hook, known, rqueue, current, target, overdue, losses>>

Gone(s) ==
  /\ "gone" \in Faults
  /\ Removed(s)
  /\ target' = [target EXCEPT ![s] = IF @ = "live" THEN "gone" ELSE @]
  /\ UNCHANGED <<cache, hook, known, rqueue, current, losses>>

BecomeOverdue(s) ==
  /\ api[s] = "blocked" /\ s \notin overdue
  /\ \E i \in DOMAIN Group(s) : Policies[i].maxBlocked
  /\ overdue' = overdue \cup {s}
  /\ UNCHANGED <<api, watch, cache, hook, known, rqueue, current, target, losses>>

(***************************************************************************)
(* The informer, which also fills the work queue, and the loss of what only *)
(* memory holds.                                                            *)
(***************************************************************************)
Deliver ==
  /\ watch # <<>>
  /\ LET e == Head(watch)
     IN  /\ cache' = [cache EXCEPT ![e.slot] = e.phase]
         /\ rqueue' = IF Watched(e.slot) THEN rqueue \cup {e.slot} ELSE rqueue
  /\ watch' = Tail(watch)
  /\ UNCHANGED <<api, hook, known, current, target, overdue, losses>>

\* Entries of groupsByID expire 30 minutes after they were made, used or not.
ExpireGroup(g) ==
  /\ "expire" \in Faults /\ losses < MaxLosses
  /\ g \in known
  /\ known' = known \ {g}
  /\ losses' = losses + 1
  /\ UNCHANGED <<api, watch, cache, hook, rqueue, current, target, overdue>>

(***************************************************************************)
(* Another replica is elected and becomes ready.  Its classifier is empty,  *)
(* its cache is read from the API server and each watched pod is queued;    *)
(* the webhook calls under way fail open.                                   *)
(***************************************************************************)
Restart ==
  /\ "restart" \in Faults /\ losses < MaxLosses
  /\ losses' = losses + 1
  /\ hook' = [s \in Slots |-> IF hook[s] = "waiting" THEN "plain" ELSE hook[s]]
  /\ known' = {}
  /\ cache' = api
  /\ watch' = <<>>
  /\ rqueue' = {s \in Slots : Watched(s) /\ api[s] # "none"}
  /\ current' = NoSlot
  /\ target' = [s \in Slots |-> "no"]
  /\ UNCHANGED <<api, overdue>>

(***************************************************************************)
(* The reconciler.                                                          *)
(***************************************************************************)

\* What Reconcile looks at: blocked pods, and ready ones, that have a group.
Reconcilable(s) == ReconcileEnabled(s) /\ cache[s] \in {"blocked", "ready"}

ReconcileSkip(s) ==
  /\ current = NoSlot /\ s \in rqueue
  /\ ~ Reconcilable(s)
  /\ rqueue' = rqueue \ {s}
  /\ UNCHANGED <<api, watch, cache, hook, known, current, target, overdue, losses>>

\* Mutant: an error ends the matter.
ReconcileGivesUp(s) ==
  /\ current = NoSlot /\ s \in rqueue
  /\ Reconcilable(s)
  /\ Group(s) \notin known \/ "listfail" \in Faults
  /\ rqueue' = rqueue \ {s}
  /\ UNCHANGED <<api, watch, cache, hook, known, current, target, overdue, losses>>

\* The group is not known, or cannot be listed: the pod is queued again.
ReconcileError(s) ==
  /\ current = NoSlot /\ s \in rqueue
  /\ Reconcilable(s)
  /\ Group(s) \notin known \/ "listfail" \in Faults
  /\ UNCHANGED vars

\* Mutant: evicting whatever pod has taken the place of the one listed.
NamedBySlot(s) == IF api[s] = "none" THEN "gone" ELSE "live"

\* The pods to evict are known by their names in the cache.
Named(s) == IF RemovalPending(s) THEN "gone" ELSE "live"

\* The pod is read and its group listed in one step, from one cache.  If the pod
\* changes between the two, the list alone decides what is evicted, and a pod
\* that is queued again for nothing is skipped then.
ReconcileStart(s) ==
  /\ current = NoSlot /\ s \in rqueue
  /\ Reconcilable(s)
  /\ Group(s) \in known
  /\ \E unblocked \in MayBeUnblocked(Group(s)) :
        target' = [t \in Slots |-> IF t \in unblocked THEN Named(t) ELSE "no"]
  /\ current' = s
  /\ rqueue' = rqueue \ {s}
  /\ UNCHANGED <<api, watch, cache, hook, known, overdue, losses>>

\* Mutant: the pod is unblocked where it is.
EvictInPlace(s) ==
  /\ target[s] \in {"live", "gone"}
  /\ IF target[s] = "live" \/ (s \in StableNames /\ api[s] # "none")
     THEN Becomes(s, "starting") /\ UNCHANGED overdue
     ELSE UNCHANGED <<api, watch, overdue>>
  /\ target' = [target EXCEPT ![s] = "done"]
  /\ UNCHANGED <<cache, hook, known, rqueue, current, losses>>

\* evictPod goes by name: for a stable name it finds whatever pod has it now.
Evict(s) ==
  /\ target[s] \in {"live", "gone"}
  /\ IF target[s] = "live" \/ (s \in StableNames /\ api[s] # "none")
     THEN Removed(s)
     ELSE UNCHANGED <<api, watch, overdue>>
  /\ target' = [target EXCEPT ![s] = "done"]
  /\ UNCHANGED <<cache, hook, known, rqueue, current, losses>>

EvictFails(s) ==
  /\ "evictfail" \in Faults
  /\ target[s] \in {"live", "gone"}
  /\ target' = [target EXCEPT ![s] = "failed"]
  /\ UNCHANGED <<api, watch, cache, hook, known, rqueue, current, overdue, losses>>

\* Mutant: Reconcile ends without asking to be called again.
ReconcileEndForgets ==
  /\ current # NoSlot
  /\ \A s \in Slots : target[s] \notin {"live", "gone"}
  /\ current' = NoSlot
  /\ target' = [s \in Slots |-> "no"]
  /\ UNCHANGED <<api, watch, cache, hook, known, rqueue, overdue, losses>>

(***************************************************************************)
(* After the loop: nothing more if the reconciled pod was evicted itself;   *)
(* else the MaxBlockedDuration policy, which may fail to evict it, and the  *)
(* pod is queued again.                                                     *)
(***************************************************************************)
ReconcileEnd ==
  /\ current # NoSlot
  /\ \A s \in Slots : target[s] \notin {"live", "gone"}
  /\ \E fails \in IF "evictfail" \in Faults THEN BOOLEAN ELSE {FALSE} :
       IF /\ target[current] # "done"
          /\ MaxBlockedEnforced(Group(current)) /\ current \in overdue
          /\ ~ fails
       THEN Removed(current) /\ UNCHANGED rqueue
       ELSE /\ rqueue' = IF target[current] = "done" THEN rqueue ELSE rqueue \cup {current}
            /\ UNCHANGED <<api, watch, overdue>>
  /\ current' = NoSlot
  /\ target' = [s \in Slots |-> "no"]
  /\ UNCHANGED <<cache, hook, known, losses>>

-----------------------------------------------------------------------------
SlotStep(s) ==
  \/ Submit(s) \/ Decide(s) \/ DecideFails(s) \/ FailOpen(s) \/ Commit(s) \/ Abort(s)
  \/ BecomeReady(s) \/ BecomeUnready(s) \/ Gone(s) \/ BecomeOverdue(s)
  \/ ReconcileSkip(s) \/ ReconcileError(s) \/ ReconcileStart(s)
  \/ Evict(s) \/ EvictFails(s)

Next ==
  \/ \E s \in Slots : SlotStep(s)
  \/ \E g \in known : ExpireGroup(g)
  \/ Deliver \/ Restart \/ ReconcileEnd

Spec == Init /\ [][Next]_vars

(***************************************************************************)
(* Fairness.  Owners recreate missing pods, WaitOne ends by its timeout and *)
(* the API server answers; informers deliver; the work queue is first in    *)
(* first out and its delays are finite, so a queued pod is reconciled in    *)
(* its turn whatever other pods are queued meanwhile (hence strong          *)
(* fairness); a Reconcile that runs ends.                                   *)
(***************************************************************************)
Fairness ==
  /\ \A s \in Slots : /\ WF_vars(Submit(s)) /\ WF_vars(Decide(s)) /\ WF_vars(Commit(s))
                      /\ WF_vars(Evict(s)) /\ WF_vars(BecomeOverdue(s))
                      /\ SF_vars(ReconcileSkip(s) \/ ReconcileStart(s))
  /\ WF_vars(Deliver) /\ WF_vars(ReconcileEnd)

FairSpec == Spec /\ Fairness

\* The workloads are healthy: a pod that was let go becomes ready.
HealthyPods == \A s \in Slots : WF_vars(BecomeReady(s))

HealthySpec == FairSpec /\ HealthyPods

-----------------------------------------------------------------------------
(* Every variable ranges over the values the code can give it.             *)
TypeOK ==
  /\ api \in [Slots -> Phase]
  /\ cache \in [Slots -> Phase]
  /\ watch \in Seq([slot : Slots, phase : Phase])
  /\ hook \in [Slots -> Hook]
  /\ known \subseteq {Group(s) : s \in Slots}
  /\ rqueue \subseteq Slots
  /\ current \in Slots \cup {NoSlot}
  /\ target \in [Slots -> Target]
  /\ overdue \subseteq Slots
  /\ losses \in Nat

(***************************************************************************)
(* What informer cache, watch stream and API server agree on.  A slot with  *)
(* no event on its way is cached as it is, and the last event on its way    *)
(* says what it is; a pod seen as blocked, in the cache or in the stream,   *)
(* has no event on its way unless its removal is on its way.                *)
(***************************************************************************)
CacheSettles == \A s \in Slots : ~ Pending(s) => cache[s] = api[s]

LastEventIsTrue ==
  \A k \in DOMAIN watch :
    (\A j \in DOMAIN watch : j > k => watch[j].slot # watch[k].slot)
      => watch[k].phase = api[watch[k].slot]

BlockedInCache ==
  \A s \in Slots : cache[s] = "blocked" /\ ~ RemovalPending(s) => ~ Pending(s)

BlockedInStream ==
  \A k \in DOMAIN watch :
    (/\ watch[k].phase = "blocked"
     /\ \A j \in DOMAIN watch : j > k => watch[j] # Event(watch[k].slot, "none"))
      => \A j \in DOMAIN watch : j > k => watch[j].slot # watch[k].slot

StreamConsistent == CacheSettles /\ LastEventIsTrue /\ BlockedInCache /\ BlockedInStream

\* A pod is being created only in an empty slot.
CreationNeedsRoom == \A s \in Slots : hook[s] # "idle" => api[s] = "none"

\* A pod the eviction loop knows by the right name is blocked.
LiveTargetIsBlocked == \A s \in Slots : target[s] = "live" => api[s] = "blocked"

Inv == TypeOK /\ StreamConsistent /\ CreationNeedsRoom /\ LiveTargetIsBlocked

(***************************************************************************)
(* A blocked pod is never forgotten: once the informer has caught up with   *)
(* it, a pod blocked in its group is in the work queue, or Reconcile is     *)
(* running for it and will queue it again or evict it.                      *)
(***************************************************************************)
InReconcile(s) == current = s /\ target[s] \in {"no", "live", "failed"}

NoLostBlockedPod ==
  \A s \in Slots :
    (/\ Watched(s) /\ ReconcileEnabled(s)
     /\ api[s] = "blocked" /\ ~ Pending(s)) => s \in rqueue \/ InReconcile(s)

(***************************************************************************)
(* What the reconciler evicts is a blocked pod, never one that runs,        *)
(* although it decides on a cache in which the pod may be stale.  There is  *)
(* one exception: a pod of a fixed name, created while an eviction loop     *)
(* had its blocked predecessor, which is gone, still to evict.              *)
(***************************************************************************)
EvictsNow(s) ==
  /\ api[s] # "none" /\ api'[s] = "none"
  /\ (target[s] # "done" /\ target'[s] = "done") \/ current' # current

OutlivedItsTarget(s) == s \in StableNames /\ target[s] = "gone"

EvictOnlyBlocked ==
  [][\A s \in Slots : EvictsNow(s) => api[s] = "blocked" \/ OutlivedItsTarget(s)]_vars

(***************************************************************************)
(* Admission keeps the pace: while the cache is up to date, a pod is let go *)
(* only if every pacer of its group has room for one more starting pod in   *)
(* the cluster as it is.                                                    *)
(***************************************************************************)
Truly(g, phase) == {s \in Slots : api[s] = phase /\ Group(s) = g}

AdmitsWithinPace ==
  [][\A s \in Slots :
       hook[s] = "waiting" /\ hook'[s] = "allow" /\ watch = <<>> =>
         \A i \in DOMAIN Group(s) :
           HasRoom(Policies[i].pacer, Cardinality(Truly(Group(s), "ready")),
                   Cardinality(Truly(Group(s), "starting")))]_vars

(***************************************************************************)
(* Staggering ends: every pod comes to be ready for good.                   *)
(***************************************************************************)
Starts(s) == <>[](api[s] = "ready")

EveryPodStarts == \A s \in Slots : Starts(s)

(***************************************************************************)
(* The same through restarts, expired groups and failing calls, for a group *)
(* the classifier comes to remember: its pods start, unless they escaped    *)
(* staggering or are a job's.                                               *)
(***************************************************************************)
RememberedGroupStarts ==
  \A s \in Slots \ JobPods : <>[](Group(s) \in known) => <>[](api[s] \in {"ready", "plain"})

(***************************************************************************)
(* README, maxBlockedDuration: a pod blocked for longer is started.         *)
(***************************************************************************)
OverdueReleased ==
  \A s \in Slots : (s \in overdue /\ api[s] = "blocked") ~> api[s] # "blocked"
=============================================================================
