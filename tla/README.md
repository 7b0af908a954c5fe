# A TLA+ verification of straggler

Straggler staggers the start of pods in a Kubernetes cluster: an admission
webhook lets a new pod start or creates it as a blocked stub, and a reconciler
evicts blocked pods when their turn has come, so that their owner creates them
again. This directory holds TLA+ models of the code under `src/pkg`, TLC
configurations that check them on small instances, and TLAPS proofs of what they
promise for every value of their constants.

## The system

| Part | Code | State | Operations |
|---|---|---|---|
| Pod admission | `controller/admission.go` | none of its own | `Default`, `handlePodAdmission` |
| Job admission | `controller/admission.go` | none | `handleJobAdmission`, `checkEnabled` |
| Reconciler | `controller/reconciler.go` | the work queue of controller-runtime | `Reconcile`, `evictPod` |
| Pod classifier | `controller/classifier.go` | configs and their order, `pacersByKey`, `groupsByID` (30 minutes each) | `AddConfig`, `RemoveConfig`, `UpdateConfig`, `Classify`, `ClassifyByGroupID` |
| Group standing classifier | `controller/podgroupstandingclassifier.go` | none, reads the informer cache | `ClassifyPodGroup` |
| Pacers | `pacer/linear`, `pacer/exponential` | none | `Pace` |
| Composite pacer | `pacer/composite.go` | its pacers | `Pace` |
| Flight tracker | `controller/flightracker.go` | flights, landing channel and seen pods by group | `WaitOne`, `Reconcile`, the evicter |
| Pod blocker | `blocker/stubpod.go` | none | `Block`, `IsBlocked` |
| Manager and wiring | `cmd/*.go` | leader election, watches, options | `NewControllerManager` and the factories |

They interact like this. The API server calls the webhook when an owner
(Deployment, StatefulSet, Job) creates a pod. Admission classifies the pod into
a group, labels it, waits in the flight tracker for a landing of the group, lists
the group's pods *in the informer cache*, asks the group's composite pacer with
the new pod appended to the blocked ones, and either leaves the pod as it is or
turns it into a stub. The informer later delivers the pod's event to two
controllers: the flight tracker, which lands the flight, and the reconciler,
which lists the group again, asks the same pacer and evicts by name every pod
that may go. An evicted pod is created again by its owner and passes admission a
second time.

What makes this hard: both deciders read a cache that lags behind the cluster;
an unblocking is two decisions made at different times on different lists;
groups live in memory only; the webhook fails open; evictions may fail one by
one; landings are goroutines that nobody may be waiting for; and the pacers
share a slice that one of them sorts in place.

What makes each part correct:

* *Admission*: with an up-to-date cache a pod is let go only within the pace.
* *Reconciler*: it never forgets a blocked pod, evicts only blocked pods, and in
  the end every pod starts.
* *Classifier*: same policies and same keys, same group; the label of a pod leads
  to a group of its own policies and keys, paced by what these policies say.
* *Pacers and composite*: what is let go is what every pacer lets go; with
  nothing starting and something blocked, something is let go.
* *Flight tracker*: nobody waits for a landing that cannot come; one pod, one
  landing; admissions of a group one at a time; pods that are gone are forgotten,
  and with the last of them the entry of their group, unless a name has come back
  in another group (see the divergences).
* *Admission with its flight tracker*: an admission counts every pod that was let
  go before, although its cache lags, so that a group starts in its pace.
* *Job admission*: evicting stubs costs a job nothing, and the author's rules
  keep their say.

## Modules

| Module | Models | Checked by | Proved in |
|---|---|---|---|
| `Pacers` | the pacing algorithms and the composite, as operators | all of `MCPacerLoop`, `MCStraggler` | |
| `PacerLoop` | the loop of `composite.Pace` over its pacers, with the shared slice | `MCPacerLoop` | `PacerLoopProofs` |
| `Straggler` | admission, reconciler, groups, cache, API server, owners, faults | `MCStraggler` | `StragglerProofs` |
| `FlightTracker` | the flight tracker with the pods it follows | `MCFlightTracker` | `FlightTrackerProofs` |
| `InFlight` | `Straggler` composed with `FlightTracker` | `MCInFlight` | `InFlightProofs`, `PacingProofs` |
| `PacedStart` | abstract: what staggering promises, pods that start in a pace | as a property of `InFlight` | `PacedStartProofs` |
| `Classifier` | the pod classifier | `MCClassifier` | `ClassifierProofs` |
| `JobAdmission` | job admission, the job's rules, its pods and the job controller | `MCJobAdmission` | `JobAdmissionProofs` |

`Straggler` extends `Pacers`: its admission and its reconciler use the operator
`Pace`, and `PacerLoop` with its proof is what says that the loop of the code
computes that operator. `Straggler` uses `Group(s)`, the matched policies with
their keys, for the group ID; `Classifier` computes the ID as the code does and
`GroupsAreKeys` says that the two agree for keys that only one expression yields.
`Straggler` lets the wait in the flight tracker end at any time, by landing or by
time-out, which the code of admission treats alike; `FlightTracker` says how it
ends, and `InFlight` puts the two together.

### Pacers and PacerLoop

A pacer gets the numbers of ready and starting pods and the list of blocked pods
and returns those that may go. `LinearCount` and `ExponentialCount` are the two
counts, `Sorts` says which pacer sorts the list, `Pace` is the part all pacers
agree on. Multipliers are fractions `num/den`, so that the rounding up of the
exponential pacer is exact; configurations for which the code divides by zero
are excluded by `LinearPacer`. `PacerLoop` has one step per pacer (`Consult`)
and the final collection of the votes (`Collect`).

### Straggler

A *slot* is a place for a pod which an owner keeps filled; `api[s]` is the pod in
it. Pods with generated names are never mistaken for their successor, pods of
`StableNames` are. The API server appends an event to `watch` with each change,
and `Deliver` applies the oldest one to `cache` and fills the reconciler's queue.

| Actions | Code |
|---|---|
| `Submit` | `handlePodAdmission` up to `WaitOne`, with the classification that makes the group known |
| `Decide`, `DecideFails` | the rest of `handlePodAdmission`: list, pace, find itself, block; an error and `BypassFailure` |
| `FailOpen`, `Commit`, `Abort` | the API server: the call fails and is ignored; the pod is created; it is refused later |
| `BecomeReady`, `BecomeUnready`, `Gone`, `BecomeOverdue` | the life of a pod |
| `Deliver`, `ExpireGroup`, `Restart` | the informer, the cache of groups, a new leader |
| `ReconcileSkip`, `ReconcileError`, `ReconcileStart`, `Evict`, `EvictFails`, `ReconcileEnd` | `Reconcile`: its early returns, its list and pace, the evictions one by one in any order, its ends |

The cache lists pods in any order and creation times have a second's resolution,
so both the listed and the sorted order of blocked pods are arbitrary. The pod
under admission has no creation time and sorts first. A restart is a change of
leader: only the leader serves the webhook, calls under way fail open, the
cache is filled from the API server and every watched pod is queued.
`ReconcileError` leaves the pod in the queue (a rate-limited retry), so it
changes nothing.

`Reconcile` reads the cache twice, for its pod (`reconciler.go:58`) and for the list
(`:109`); `ReconcileStart` merges the two. Should the pod change in between, the
list alone decides what is evicted, and a pod that is gone by then is queued
again and skipped when its turn comes. `Gone` is a pod that somebody deletes. One
that has completed or failed is `starting` for the code
(`podgroupstandingclassifier.go:53-54`) and for the models until it is deleted.

### FlightTracker

An entry of `flightsByKey` is `chan[k]`, `flights[k]` and `seen[k]`; channels
have identities because waiters and goroutines keep an entry's channel after the
evicter has deleted the entry. `senders[c]` counts the goroutines blocked on
sending. The mutex makes `WaitOne` up to its `select`, `Reconcile` and a round of
the evicter atomic. The three returns of `Reconcile` that change nothing are
`ReconcileNothing`. A flight is `old` when it has flown too long, which flights
become in the order they took off. Two history variables are for the
properties: `landed`, the pods that landed a flight since they were created, and
`slipped`, the groups in which an admission may have gone on without an arrival:
its wait timed out, a flight was landed by force, or it found a landing that
nobody had waited for (`LeftOver`).

### InFlight and PacedStart

`InFlight` extends `Straggler` and takes `FlightTracker` in with `INSTANCE`. Each
of its actions is one of `Straggler`, one of the tracker, or both at once:
`SubmitAndTakeOff` is the handler up to the wait, `DecideAfterWait` and
`DecideFailsAfterWait` are the handler from the return of `WaitOne` on,
`AbortFlight` is a refused creation, and `DeliverToBoth` is one event of the
informer for the cache and for both controllers. The tracker knows pods by name;
a slot's pods get the names `<<s, 1>>`, `<<s, 2>>` and so on, the bound `Lives`.
The module is about enabled pods of generated names in watched groups, without
webhook calls that fail open and without restarts (`InFlightAssumption`), for such pods
are not tracked: see the divergences below.

`PacedStart` is the abstract specification: a pod starts only if every pacer of
its group has room, all pods that were let go before being counted, until the
group gets loose. Which of them are ready may be known late, as readiness comes
through the lagging cache. `Stop` is for a pod that was let go and is not created
after all. What this comes to is `WithinBatch`: of a group that is not loose, no
more pods start at a time than a batch of each pacer, until `MaxStagger` of them
are ready. The batch is the step of a linear pacer; of an exponential one it is
the larger of `MinInitial` and the multiple of what is ready. `NoStampede` is
`WithinBatch` of the pods of `InFlight`. `PacedStarts` is the refinement: `started` are the pods
let go, in the API server or by an answer on its way, `ready` those ready in the
API server, `loose` the groups that have slipped. It leaves out pods that are deleted or
turn unready: a pacer may let a pod go on a readiness or on a pod
that is no more, which is not the flight tracker's to prevent. `NoneOverlooked` says
what remains then: no pod that was let go is missing from the count.

### JobAdmission

The job controller takes an evicted stub for a failed pod, so admission adds a
rule to the job's `podFailurePolicy`. The module follows one job: `Submit` and
`Resubmit` (created again from its stored specification) call `HandleJob` if the
webhook is asked and the job enabled on both the job and the template; the API
server then checks the result (`Valid`). `CreatePod`, `EvictStub`, `PodFails` and
`Complete` are the life of its pods, one at a time, and `Judge` is the job
controller, which goes by the first rule that matches. A rule is an action and
the set of signs it matches on; the sign `Disrupted` is a `DisruptionTarget` condition
with status True. An evicted stub has that sign, any other conditions, and no exit
code, since `runContainer` exits with 0. `others` counts, as history, the failures
that were not evicted stubs. Job controller and API server are external, modelled
from what the code relies on.

### Classifier

One action per operation; operations that return an error change nothing and
have none. `GroupID` is the list of pacer IDs and of config names, a list of
names without repetition being a set with an order (its hash is left out).
`RemoveConfig` takes out the one place of the name, which is what the filter of
the code does on a list without repetitions (`ConfigsListed`); the other case
arises after `UpdateConfig` of a name that is not listed. `ExpirePacer` and
`ExpireGroup` may happen at any time, the 30 minutes being more than anything
else takes. `assigned` is a history variable: the ID that a pod's label keeps,
while the group expires, comes back through another pod or is classified anew
with other configs, and the keys the pod was matched with. `GroupsServeTheirPods`
relates it to what the reconciler finds under that ID.

## Runs

| Run | Question | Bounds |
|---|---|---|
| `pacer_loop` | Does the vote counting compute `Pace`, and does a composite with one order never stand still? | 73 composites, up to three blocked pods in any order |
| `staggering_safe` | Is the cache reliable on blocked pods, are these not forgotten and only these evicted, does admission keep the pace? | 3 pods in two policies, one with a fixed name, `MaxLag` 2, failing and deleted pods, failing calls (five kinds of faults), no restart or expiry |
| `staggering_ends` | Does every pod start? | 3 pods, no fault, healthy pods |
| `losses_recovered` | And through a restart or expiry and failing calls, for a group that becomes known again? Is a blocked pod ever forgotten then? | 3 pods, one a job's, `maxBlocked`, two losses |
| `flights` | Waiters have landings and go on, admissions go one at a time, pods land once, pods that are gone are forgotten, entries are deleted | one group, a generated and a stable name, 2 channels, 3 landings |
| `in_flight` | Does the wait make a group start in its pace with a lagging cache, and do no more pods than a batch start at a time? | 3 pods, 2 lives each, `MaxLag` 2, 2 channels, 3 landings, refused creations and evictions and failing lists, until the group slips |
| `classifier` | Do lists stay in step, do labels lead to groups of their pods, and do groups pace by their own policies? | 2 policies, one in two versions, 3 pods, one of them bypassed by one version and with one key under both expressions, up to 2 groups remembered |
| `jobs` | Are evictions of stubs free, do the author's rules keep their say, is one rule added at most? | all lists of up to 3 out of 7 rules, every placement of the labels, backoff limit 1 |

Three pods are what the interesting cases need: one that starts, one that is
evicted and one that is blocked before it. Two policies give pacers that sort
and pacers that do not, with the pod in both. `MaxLag` of the event stream allows
a removal and a creation of the same slot under way, which is what makes a name
stale. A loss makes the group unknown, it becomes known again by the next admission, and
a second loss may undo that. A bypass label is exercised in `classifier`, where two groups remembered are one
that a pod was given and one that was made after it. Two channels are an old and a new entry of one group, three landings
two callers that wait while a third flies. Two lives are a stub and the pod that
replaces it. Three rules put the added one behind two of the author's, and lists
of three rules are as long as the API server takes here.
`in_flight` stops at states in which its only group has slipped (`NotSlipped`),
since its properties say nothing of them. `staggering_safe` and `in_flight` use the
symmetry of the slots that are alike and `classifier` that of its two equal pods,
for safety only. With a second group the states of `flights` are too many for TLC;
what depends on there being several, `GoneAreForgotten`, is proved for any number. Deadlock is checked except where the system may stop: after a restart or
with stable names everything may be at rest, names may be used up in `in_flight`, and a flight tracker without pods
is.

Four runs show that the code does other than its documentation says:

| Run | What it shows |
|---|---|
| `restart_forgets` | after a restart, blocked pods name a group nobody knows and stay blocked until another pod of the group is created |
| `linear_livelock` | under a linear pacer the replacement of an evicted pod is appended behind the other blocked pods and blocked again, as long as it finds another one in the cache; if every replacement does, this goes on without end. A schedule in which all are evicted before a replacement decides gets through, which the end-to-end test `src/test/controller_test.go` relies on (a linear pacer with step 1). The exponential pacer sorts the replacement first |
| `two_policies` | the watch predicate requires the selector labels of all policies, so pods of one of two policies are blocked and never looked at |
| `max_blocked` | `ClassifyByGroupID` drops the policies, so `maxBlockedDuration` is never enforced |

## Fairness

`Straggler`: owners recreate missing pods, admission ends by its time-out and
the API server answers (weak fairness of `Submit`, `Decide`, `Commit`), events
are delivered, a running `Reconcile` ends. Reconciling a queued pod is strongly
fair: another pod's `Reconcile` disables it again and again, but the work queue
is first in, first out. `HealthySpec` adds that a pod that was let go becomes
ready; without it nothing would ever be unblocked, since pacers wait for ready
pods. No fault is fair.

`FlightTracker`: time passes, the evicter's timer fires, the work queue is
served, and a receiver of a channel is served in its turn, which is strong
fairness since others may receive first. Nothing is assumed of time-outs:
`WaiterReleased` holds without them.

## Proofs

All theorems hold for every value of the constants that the `ASSUME`s of the
modules allow (`LoopAssumption`, `SlotsAssumption`, `PolicyAssumption`,
`OptionsAssumption`, `TrackerAssumption`, `InFlightAssumption`, `JobAssumption`: sets are finite, placeholders are not
members of the sets, bounds are numbers), which TLC evaluates in the runs.

* `PacerLoopProofs!LoopComputesPace`: the loop returns `Pace`. Inductive invariant:
  the votes so far are how many of the consulted pacers let the pod go, and the
  slice is the given list, sorted once a sorting pacer was asked.
* `PacerLoopProofs!CompositeDoesNotStall`: with nothing starting, each lively pacer
  allows at least one of its list (`LivelyLetsOneGo`), so that the first pod of the
  one order they all see is let go by each of them.
* `StragglerProofs!Consistency` and `StreamStaysConsistent`: cache, stream and API
  server agree on blocked pods. A pod blocked in the cache is blocked, unless
  its removal is on its way; this alone is not inductive, the same must hold of
  every event in the stream, hence `StreamConsistent`.
* `NothingForgotten`: by `Consistency`, an event of a blocked pod puts it in the queue
  and every end of `Reconcile` but its own eviction puts it back.
* `OnlyBlockedEvicted`: what the eviction loop knows by a live name is blocked
  (`LiveTargetIsBlocked`). The exception for fixed names is part of the property.
* `AdmissionKeepsPace`: assumes that listing does not fail or failures are not
  bypassed, as a bypassed pod goes whatever the pace is.
* `FlightTrackerProofs`: `NobodyWaitsInVain` rests on `Landings`: a channel belongs
  to one entry, there are no flights without an entry, and flights and senders
  make up for the waiters. `OnePodAtATime` rests on
  `OneAhead`: as long as a group has not slipped, its waiters and the pod ahead of
  them, past the wait or not yet landed, each have a flight, that pod is one at
  most, and while somebody waits it and the landings under way are one at most
  together. This counts pods, and needs that the entry is not deleted under its
  waiters (`WaitersOfEntry`). `PodLandsOnce` rests on landed pods being seen until
  they are gone. `GonePodsForgotten` is inductive as it stands, with the types: a
  deletion is queued, and what it removes is filed where the name was seen last. `CommittedPodsLand` rests on generated names not being used
  again, so that nothing but the pod itself is seen under its name.
* `ClassifierProofs`: `ListsInStep` and `TypeCorrect` hold through any operations; the
  latter needs that among the configs that yield a key one comes first.
  `PodsFindTheirGroups` rests on two facts about IDs, which outlive what they were
  computed from: the ID of a pod tells the keys it was matched with (`IDsTellKeys`)
  and the ID of a group its pacers (`IDsTellPacers`). `GroupsPaceByOwnPolicies` and
  `GroupsByPoliciesAndKeys` rest on `Untouched`: as long as no config was replaced, each
  cached pacer comes from a config that yields its key, and the ID of a pod whose
  keys no other expression yields is the one its own configs would give
  (`OwnID`), also after others were added (`OwnIDStays`).
* `InFlightProofs`: `Staggers` and `TracksFlights` say that each step of the
  composition is one of `Straggler`, or none, and one of `FlightTracker` under the
  instantiation, or none. The safety theorems about both, which hold for all
  constants, so hold of the composition; the instance of `TrackerAssumption` it
  takes follows from `SlotsAssumption` and `InFlightAssumption`. `OneInFlight` carries
  `OneAtATime` over: the theorems about the tracker are taken in as the instance
  `Proved` of `FlightTrackerProofs`, whose step is the composition's own
  (`BehavesAsProved`).
* `PacingProofs!NobodyOverlooked`: no pod that was let go is missing from the count of
  an admission past its wait, with every fault that `InFlightAssumption` allows,
  any number of pods, groups, policies and names and any lag. What the tracker
  promises is about names, what admission counts about slots, and between them
  lies the stream. The inductive invariant `Paths` relates the three. `Told(s)` is what
  is told of a slot, by the cache, by the events on their way and by the API
  server, in this order; a creation on its way to the cache is a `none` told
  before a pod (`Born`). `BirthsAwaited` says, of groups that have not slipped, that
  there is one such creation at most and that its call is past the wait and has not
  landed. So by `OneInFlight`, when another admission of the group is past its wait
  (`OnlyOneFlies`) nothing is on its way and the cache has all who were let go
  (`KnownHolds`). The other parts of `Paths` make it inductive: a call is filed under
  the group of its slot, a creation under way has the name given last and its
  call, and no pod of the composition goes without its group.
* `PacingProofs!StartsArePaced`: `InFlight` implements `PacedStart`, step by step
  (`StepIsPaced`), as `NoneOverlooked` makes the pods that admission lists all that
  were let go. It has two hypotheses. `PodsLast` is that a pod that was let go is neither
  deleted nor turns unready: then what the cache says of it stays true, though late
  (`Lasting`); otherwise a pacer counts a pod as ready that is no more, which no
  wait prevents. `NoBypass` is that of `AdmissionKeepsPace`. Both hold in the run, and
  refused creations and evictions are allowed.
* `PacedStartProofs!StartsWithinBatch`: `PacedStart` keeps `WithinBatch`. A pacer that has
  room for one more with some of the ready pods known has it within the batch of
  all that are ready (`RoomInBatch`), since batches do not shrink when more pods
  are ready (`BatchGrows`) and a ready pod that is not known counts as starting.
  `PacingProofs!NoStampedeEver` takes this through the refinement to `InFlight`.
* `JobAdmissionProofs`: `RulesInv` says that the stored rules are the author's or
  what `HandleJob` makes of them, the latter once the job was handled; it is
  inductive since `HandleJob` is idempotent (`HandledOnce`). `ClaimsKept` shows that
  appending leaves the first matching rule of the author's the first, hence
  `AuthorsRulesKept` and, with the count of charged failures, `EvictionsAreFree`.

Every invariant and action property of the passing runs and the refinement is a
theorem. Only model-checked is liveness: `EveryPodStarts`, `RememberedGroupStarts`,
`WaiterReleased` and `IdleEntryDeleted` rest on fairness and so on ENABLED, which are
out of the prover's reach. Two hypotheses of theorems, `PodsLast` and `NoBypass`, are met by the runs and not
guaranteed by the code: pods are deleted, and failures are bypassed if so configured.
Without them the pace is not kept, for the reasons given above.

## Other divergences the models show

These are in the models but have no run of their own.

* A linear pacer compares the starting pods with the rest of its step but does
  not subtract them, so that up to a step less one more may go (`linear/pacer.go:48`,
  against "5 => 10 => 15" at line 21).
* Groups expire 30 minutes after they were made, though their pods may still be
  blocked (`classifier.go:60`); the effect is that of a restart.
* The reconciler looks for the default enable label whatever the option says
  (`reconciler.go:50`): with another label it passes over every pod.
* A pod with the `jobPod` label is blocked without group and `staggered` label
  (`admission.go:115-120`) and nobody handles it: phase `held`.
* With stable names the reconciler may evict a running pod by the name of the
  blocked one it replaced, as there is no UID precondition: the exception in
  `EvictOnlyBlocked`, which therefore is about generated names. For the same
  reason admission may take an older blocked pod of that name for the new one
  (`admission.go:163`); `AdmitsWithinPace` is about an up-to-date cache and
  `NoneOverlooked` about generated names.
* Policies whose expressions yield the same key share one pacer, that of the
  policy classified first (`classifier.go:160`): `OwnPacers` says no more than that, and
  the converse in `GroupsAreKeys` is about keys that one expression yields.
* Bypassed pods get no group label and so are not counted (`README.md:86` says
  they are).
* A landing that nobody waits for stays and lets a later admission through. The
  last pod of every burst leaves one (`flightracker.go:198-204`), so that of the next
  burst one admission does not wait; `NoneOverlooked` and `PacedStarts` stop there
  (`slipped`). A forced landing (`flightracker.go:229-241`) has the same effect.
* A pod whose webhook call failed open, or that the new leader's informer brings
  up, has no flight of its own and may land another pod's.
* A job whose own rule decides otherwise on `DisruptionTarget` is left alone with
  a log line, but its pods are staggered and their evictions charged: README.md:98
  says that straggler "will not apply policies".
* The jobs webhook looks for the enable label on the job (`helm/straggler`,
  `objectSelector`), `handleJobAdmission` on the pod template: a job labelled in its
  template only gets no rule while its pods are staggered.
* The chart has the API server call `/mutate--v1-job` for jobs
  (`helm/straggler/templates/deployment.yaml:67`), while controller-runtime serves
  them at `/mutate-batch-v1-job`, as the test's `test/data/manifest.yaml` has it. With
  the chart's `failurePolicy: Ignore` job admission is then always missed: what
  `StaggeringIsFree` says of handled jobs holds for none.
* A job with a `restartPolicy` other than Never, or with as many rules as allowed, is
  refused by the API server once the rule is added.
* After a change of the stub's image the stubs made before are not recognised as
  blocked (`stubpod.go:63`): they count as starting pods for good.
* A leader that loses its election logs the error and stays up (`cmd.go:101-104`).
* A pod deleted and created again under its name before it is reconciled is taken
  for the seen one and lands no flight; its flight is landed by the evicter.
* A pod name that comes back in another group leaves the first group's seen entry
  and so its `flightList` behind (`flightracker.go:198`), hence the condition `Staying`
  in `IdleEntryDeleted`; `GoneAreForgotten` says that this is the only way to be left
  behind. `seenPodsKeysByNamespacedName` never shrinks.
* `UpdateConfig` refuses a config whose expression is unchanged, as it compares
  with itself too, and puts a config in under an unlisted name, which `Classify`
  never looks at.
* Two pacers that see different orders may agree on no pod although each lets
  some go; `NoStandstill` is about composites whose pacers see one order.
* A pod whose webhook call failed open is in no group and is not counted.

## Not modelled

* What a stub looks like (`Block`): only that it is recognised as blocked.
* Parsing of configurations, label selectors and JSONPath: a pod is given by its
  labels and by what each expression yields.
* The stub container, the command line, the recorder and the metrics.

## Plan

What could come next:

1. `InFlight` with restarts and with webhook calls that fail open, whose pods land
   the flights of others.
2. The pace of linear pacers over several admissions: a step is one decision of the
   reconciler, which does not subtract what is starting.
3. `PacedStart` with pods that end or turn unready, and how much of the pace is
   left then.
