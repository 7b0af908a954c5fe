-------------------------- MODULE StragglerProofs --------------------------
(***************************************************************************)
(* What holds of Straggler for any slots, policies, faults and bounds:      *)
(* types, that no blocked pod is forgotten, that only blocked pods are      *)
(* evicted where names are unique, and that admission keeps the pace.       *)
(*                                                                          *)
(* The argument is about the watch stream.  Between the informer cache and  *)
(* the API server lies a sequence of events; the inductive invariant says   *)
(* what cache, stream and API server agree on.  Its heart is that a pod     *)
(* seen as blocked, in the cache or in the stream, is blocked still unless  *)
(* its removal follows in the stream.                                       *)
(***************************************************************************)
EXTENDS Straggler, TLAPS, SequenceTheorems, FiniteSetTheorems

Events == [slot : Slots, phase : Phase]

-----------------------------------------------------------------------------
(***************************************************************************)
(* Types.                                                                   *)
(***************************************************************************)

(* A change of a pod through the API server keeps the types.               *)
LEMMA BecomesType ==
  ASSUME TypeOK, NEW s \in Slots, NEW phase \in Phase, Becomes(s, phase)
  PROVE  api' \in [Slots -> Phase] /\ watch' \in Seq(Events)
BY DEF Becomes, TypeOK, Event, Events

(* Every step of the controller and of the cluster keeps the types.        *)
LEMMA TypeStep == TypeOK /\ [Next]_vars => TypeOK'
<1> SUFFICES ASSUME TypeOK, [Next]_vars PROVE TypeOK'
  OBVIOUS
<1> USE DEF TypeOK
<1>0. CASE UNCHANGED vars
  BY <1>0 DEF vars
<1>1. ASSUME NEW s \in Slots, Submit(s) PROVE TypeOK'
  BY <1>1 DEF Submit, Hook, Verdict
<1>2. ASSUME NEW s \in Slots, Decide(s) PROVE TypeOK'
  BY <1>2 DEF Decide, Hook, Verdict
<1>3. ASSUME NEW s \in Slots, DecideFails(s) PROVE TypeOK'
  BY <1>3 DEF DecideFails, Hook, Verdict
<1>4. ASSUME NEW s \in Slots, FailOpen(s) PROVE TypeOK'
  BY <1>4 DEF FailOpen, Hook, Verdict
<1>5. ASSUME NEW s \in Slots, Commit(s) PROVE TypeOK'
  <2>1. CreatedAs[hook[s]] \in Phase
    BY <1>5 DEF Commit, CreatedAs, Verdict, Phase
  <2> QED
    BY <1>5, <2>1, BecomesType DEF Commit, Hook, Events
<1>6. ASSUME NEW s \in Slots, Abort(s) PROVE TypeOK'
  BY <1>6 DEF Abort, Hook
<1>7. ASSUME NEW s \in Slots, BecomeReady(s) PROVE TypeOK'
  BY <1>7, BecomesType DEF BecomeReady, Phase, Events
<1>8. ASSUME NEW s \in Slots, BecomeUnready(s) PROVE TypeOK'
  BY <1>8, BecomesType DEF BecomeUnready, Phase, Events
<1>9. ASSUME NEW s \in Slots, Gone(s) PROVE TypeOK'
  BY <1>9, BecomesType DEF Gone, Removed, Phase, Target, Events
<1>10. ASSUME NEW s \in Slots, BecomeOverdue(s) PROVE TypeOK'
  BY <1>10 DEF BecomeOverdue
<1>11. ASSUME Deliver PROVE TypeOK'
  <2>1. Head(watch) \in Events /\ Tail(watch) \in Seq(Events)
    <3>1. watch \in Seq(Events) /\ watch # <<>>
      BY <1>11 DEF Deliver, Events
    <3> HIDE DEF TypeOK
    <3> QED
      BY <3>1, HeadTailProperties
  <2>2. /\ Head(watch).slot \in Slots /\ Head(watch).phase \in Phase
        /\ watch' \in Seq([slot : Slots, phase : Phase])
    BY <1>11, <2>1 DEF Deliver, Events
  <2> QED
    BY <1>11, <2>2 DEF Deliver
<1>12. ASSUME NEW g \in known, ExpireGroup(g) PROVE TypeOK'
  BY <1>12 DEF ExpireGroup
<1>13. ASSUME Restart PROVE TypeOK'
  BY <1>13 DEF Restart, Hook, Verdict, Target
<1>14. ASSUME NEW s \in Slots, ReconcileSkip(s) PROVE TypeOK'
  BY <1>14 DEF ReconcileSkip
<1>15. ASSUME NEW s \in Slots, ReconcileError(s) PROVE TypeOK'
  BY <1>15 DEF ReconcileError, vars
<1>16. ASSUME NEW s \in Slots, ReconcileStart(s) PROVE TypeOK'
  BY <1>16 DEF ReconcileStart, Named, Target
<1>17. ASSUME NEW s \in Slots, Evict(s) PROVE TypeOK'
  BY <1>17, BecomesType DEF Evict, Removed, Phase, Target, Events
<1>18. ASSUME NEW s \in Slots, EvictFails(s) PROVE TypeOK'
  BY <1>18 DEF EvictFails, Target
<1>19. ASSUME ReconcileEnd PROVE TypeOK'
  <2>1. current \in Slots
    BY <1>19 DEF ReconcileEnd
  <2> QED
    BY <1>19, <2>1, BecomesType DEF ReconcileEnd, Removed, Phase, Target, Events
<1> QED
  BY <1>0, <1>1, <1>2, <1>3, <1>4, <1>5, <1>6, <1>7, <1>8, <1>9, <1>10, <1>11, <1>12,
     <1>13, <1>14, <1>15, <1>16, <1>17, <1>18, <1>19 DEF Next, SlotStep

(* Every variable keeps to its type, for any number of pods and policies.  *)
THEOREM TypeCorrect == Spec => []TypeOK
<1>1. Init => TypeOK
  BY DEF Init, TypeOK, Phase, Hook, Target
<1> QED
  BY <1>1, TypeStep, PTL DEF Spec

-----------------------------------------------------------------------------
(***************************************************************************)
(* The watch stream.                                                        *)
(***************************************************************************)

(* An event put on the stream keeps cache, stream and API server           *)
(* consistent, as long as a blocked pod changes only by being removed.     *)
LEMMA BecomesStream ==
  ASSUME TypeOK, StreamConsistent, NEW s \in Slots, NEW phase \in Phase,
         Becomes(s, phase), cache' = cache,
         api[s] = "blocked" => phase = "none"
  PROVE  StreamConsistent'
<1> DEFINE n == Len(watch)
           e == Event(s, phase)
<1>1. /\ n \in Nat /\ DOMAIN watch = 1..n /\ DOMAIN watch' = 1..(n + 1)
      /\ \A k \in 1..n : watch'[k] = watch[k]
      /\ watch'[n + 1] = e
      /\ \A k \in 1..n : watch[k] \in Events
  <2>1. watch \in Seq(Events) /\ e \in Events
    BY DEF TypeOK, Events, Event
  <2>2. watch' = Append(watch, e)
    BY DEF Becomes
  <2> QED
    BY <2>1, <2>2
<1>2. e.slot = s /\ e.phase = phase /\ Event(s, "none").slot = s
  BY DEF Event
<1>3. api' = [api EXCEPT ![s] = phase] /\ api \in [Slots -> Phase]
  BY DEF Becomes, TypeOK
<1>4. \A t \in Slots : Pending(t) => Pending(t)'
  BY <1>1 DEF Pending
<1>5. Pending(s)'
  BY <1>1, <1>2 DEF Pending
<1>6. \A t \in Slots : RemovalPending(t) => RemovalPending(t)'
  BY <1>1 DEF RemovalPending
<1>7. CacheSettles'
  BY <1>3, <1>4, <1>5 DEF CacheSettles, StreamConsistent
<1>8. LastEventIsTrue'
  <2> SUFFICES ASSUME NEW k \in 1..(n + 1),
                      \A j \in 1..(n + 1) : j > k => watch'[j].slot # watch'[k].slot
               PROVE  watch'[k].phase = api'[watch'[k].slot]
    BY <1>1 DEF LastEventIsTrue
  <2>1. CASE k = n + 1
    BY <2>1, <1>1, <1>2, <1>3
  <2>2. CASE k \in 1..n
    <3>1. watch[k].slot # s
      BY <2>2, <1>1, <1>2
    <3>2. \A j \in 1..n : j > k => watch[j].slot # watch[k].slot
      BY <2>2, <1>1
    <3>3. watch[k].phase = api[watch[k].slot] /\ watch[k].slot \in Slots
      BY <2>2, <3>2, <1>1 DEF StreamConsistent, LastEventIsTrue, Events
    <3> QED
      BY <2>2, <3>1, <3>3, <1>1, <1>3
  <2> QED
    BY <2>1, <2>2, <1>1
<1>9. BlockedInCache'
  <2> SUFFICES ASSUME NEW t \in Slots, cache[t] = "blocked", ~ RemovalPending(t)'
               PROVE  ~ Pending(t)'
    BY DEF BlockedInCache
  <2>1. ~ Pending(t)
    BY <1>6 DEF StreamConsistent, BlockedInCache
  <2>2. api[t] = "blocked"
    BY <2>1 DEF StreamConsistent, CacheSettles
  <2>3. t # s
    <3> SUFFICES ASSUME t = s PROVE FALSE
      OBVIOUS
    <3>1. watch'[n + 1] = Event(t, "none")
      BY <2>2, <1>1
    <3> QED
      BY <3>1, <1>1 DEF RemovalPending
  <2> QED
    BY <2>1, <2>3, <1>1, <1>2 DEF Pending
<1>10. BlockedInStream'
  <2> SUFFICES ASSUME NEW k \in 1..(n + 1), watch'[k].phase = "blocked",
                      \A j \in 1..(n + 1) :
                        j > k => watch'[j] # Event(watch'[k].slot, "none"),
                      NEW j \in 1..(n + 1), j > k
               PROVE  watch'[j].slot # watch'[k].slot
    BY <1>1 DEF BlockedInStream
  <2>1. k \in 1..n
    BY <1>1
  <2>2. \A i \in 1..n : i > k => watch[i] # Event(watch[k].slot, "none")
    BY <2>1, <1>1
  <2>3. \A i \in 1..n : i > k => watch[i].slot # watch[k].slot
    BY <2>1, <2>2, <1>1 DEF StreamConsistent, BlockedInStream
  <2>4. api[watch[k].slot] = "blocked"
    BY <2>1, <2>3, <1>1 DEF StreamConsistent, LastEventIsTrue
  <2>5. watch[k].slot # s
    BY <2>1, <2>4, <1>1
  <2>6. CASE j = n + 1
    BY <2>1, <2>5, <2>6, <1>1, <1>2
  <2>7. CASE j \in 1..n
    BY <2>1, <2>3, <2>7, <1>1
  <2> QED
    BY <2>6, <2>7, <1>1
<1> QED
  BY <1>7, <1>8, <1>9, <1>10 DEF StreamConsistent

(* The informer applies the first event of the stream, and what remains is *)
(* consistent with the cache it leaves.                                    *)
LEMMA DeliverStream ==
  ASSUME TypeOK, StreamConsistent, Deliver
  PROVE  StreamConsistent'
<1> DEFINE n == Len(watch) - 1
           e == watch[1]
<1>1. /\ n \in Nat /\ DOMAIN watch = 1..(n + 1) /\ DOMAIN watch' = 1..n
      /\ \A k \in 1..n : watch'[k] = watch[k + 1]
      /\ \A k \in 1..(n + 1) : watch[k] \in Events
      /\ e = Head(watch)
  <2>1. watch \in Seq(Events) /\ watch # <<>>
    BY DEF Deliver, TypeOK, Events
  <2>2. watch' = Tail(watch)
    BY DEF Deliver
  <2> QED
    BY <2>1, <2>2, HeadTailProperties
<1>2. /\ cache' = [cache EXCEPT ![e.slot] = e.phase] /\ api' = api
      /\ cache \in [Slots -> Phase] /\ e.slot \in Slots
  BY <1>1 DEF Deliver, TypeOK, Events
<1>3. \A t \in Slots : ~ Pending(t)' => \A k \in 2..(n + 1) : watch[k].slot # t
  <2> SUFFICES ASSUME NEW t \in Slots, ~ Pending(t)', NEW k \in 2..(n + 1)
               PROVE  watch[k].slot # t
    OBVIOUS
  <2>1. k - 1 \in 1..n /\ watch'[k - 1] = watch[k]
    BY <1>1
  <2> QED
    BY <2>1, <1>1 DEF Pending
<1>4. \A t \in Slots : t # e.slot /\ Pending(t) => Pending(t)'
  <2> SUFFICES ASSUME NEW t \in Slots, t # e.slot, NEW k \in 1..(n + 1), watch[k].slot = t
               PROVE  Pending(t)'
    BY <1>1 DEF Pending
  <2>1. k - 1 \in 1..n /\ watch'[k - 1] = watch[k]
    BY <1>1
  <2> QED
    BY <2>1, <1>1 DEF Pending
<1>5. CacheSettles'
  <2> SUFFICES ASSUME NEW t \in Slots, ~ Pending(t)' PROVE cache'[t] = api[t]
    BY <1>2 DEF CacheSettles
  <2>1. CASE t = e.slot
    <3>1. \A j \in DOMAIN watch : j > 1 => watch[j].slot # e.slot
      BY <2>1, <1>1, <1>3
    <3>2. e.phase = api[e.slot]
      BY <3>1, <1>1 DEF StreamConsistent, LastEventIsTrue
    <3> QED
      BY <2>1, <3>2, <1>2
  <2>2. CASE t # e.slot
    BY <2>2, <1>2, <1>4 DEF StreamConsistent, CacheSettles
  <2> QED
    BY <2>1, <2>2
<1>6. LastEventIsTrue'
  <2> SUFFICES ASSUME NEW k \in 1..n,
                      \A j \in 1..n : j > k => watch'[j].slot # watch'[k].slot
               PROVE  watch'[k].phase = api[watch'[k].slot]
    BY <1>1, <1>2 DEF LastEventIsTrue
  <2>1. ASSUME NEW j \in 1..(n + 1), j > k + 1 PROVE watch[j].slot # watch[k + 1].slot
    <3>1. j - 1 \in 1..n /\ j - 1 > k /\ watch'[j - 1] = watch[j]
      BY <2>1, <1>1
    <3> QED
      BY <3>1, <1>1
  <2> QED
    BY <2>1, <1>1 DEF StreamConsistent, LastEventIsTrue
<1>7. BlockedInCache'
  <2> SUFFICES ASSUME NEW t \in Slots, cache'[t] = "blocked", ~ RemovalPending(t)'
               PROVE  ~ Pending(t)'
    BY DEF BlockedInCache
  <2>1. ASSUME NEW k \in 1..(n + 1), k > 1 PROVE watch[k] # Event(t, "none")
    <3>1. k - 1 \in 1..n /\ watch'[k - 1] = watch[k]
      BY <2>1, <1>1
    <3> QED
      BY <3>1, <1>1 DEF RemovalPending
  <2>2. CASE t = e.slot
    <3>1. e.phase = "blocked"
      BY <2>2, <1>2
    <3>2. \A j \in 1..(n + 1) : j > 1 => watch[j].slot # t
      BY <2>1, <2>2, <3>1, <1>1 DEF StreamConsistent, BlockedInStream
    <3> QED
      BY <3>2, <1>1 DEF Pending
  <2>3. CASE t # e.slot
    <3>1. cache[t] = "blocked"
      BY <2>3, <1>2
    <3>2. Event(t, "none").slot = t
      BY DEF Event
    <3>3. ~ RemovalPending(t)
      BY <2>1, <2>3, <3>2, <1>1 DEF RemovalPending
    <3>4. ~ Pending(t)
      BY <3>1, <3>3 DEF StreamConsistent, BlockedInCache
    <3> QED
      BY <3>4, <1>1 DEF Pending
  <2> QED
    BY <2>2, <2>3
<1>8. BlockedInStream'
  <2> SUFFICES ASSUME NEW k \in 1..n, watch'[k].phase = "blocked",
                      \A j \in 1..n : j > k => watch'[j] # Event(watch'[k].slot, "none"),
                      NEW j \in 1..n, j > k
               PROVE  watch'[j].slot # watch'[k].slot
    BY <1>1 DEF BlockedInStream
  <2>1. ASSUME NEW i \in 1..(n + 1), i > k + 1
        PROVE  watch[i] # Event(watch[k + 1].slot, "none")
    <3>1. i - 1 \in 1..n /\ i - 1 > k /\ watch'[i - 1] = watch[i]
      BY <2>1, <1>1
    <3> QED
      BY <3>1, <1>1
  <2>2. \A i \in 1..(n + 1) : i > k + 1 => watch[i].slot # watch[k + 1].slot
    BY <2>1, <1>1 DEF StreamConsistent, BlockedInStream
  <2> QED
    BY <2>2, <1>1
<1> QED
  BY <1>5, <1>6, <1>7, <1>8 DEF StreamConsistent

-----------------------------------------------------------------------------
(***************************************************************************)
(* The inductive invariant.                                                 *)
(***************************************************************************)

(* What is consistent stays so while API server, stream and cache rest.    *)
LEMMA QuietStream ==
  ASSUME StreamConsistent, UNCHANGED <<api, watch, cache>>
  PROVE  StreamConsistent'
BY DEF StreamConsistent, CacheSettles, LastEventIsTrue, BlockedInCache, BlockedInStream,
       Pending, RemovalPending

(* A pod whose cached standing is blocked, and whose removal is not on its *)
(* way, is blocked in the cluster.                                         *)
LEMMA NamedLiveIsBlocked ==
  ASSUME StreamConsistent, NEW s \in Slots, cache[s] = "blocked", Named(s) = "live"
  PROVE  api[s] = "blocked"
<1>1. ~ RemovalPending(s)
  BY DEF Named
<1>2. ~ Pending(s)
  BY <1>1 DEF StreamConsistent, BlockedInCache
<1> QED
  BY <1>2 DEF StreamConsistent, CacheSettles

(* The pods a composite lets go come from the list it was given.           *)
LEMMA UnblockedAreBlocked ==
  ASSUME NEW g, NEW unblocked \in MayBeUnblocked(g), NEW s \in unblocked
  PROVE  s \in Slots /\ cache[s] = "blocked" /\ Group(s) = g
<1>1. PICK f \in Orderings(InGroup(g, "blocked")) :
        \A t \in unblocked : t \in Foremost(f, Cardinality(InGroup(g, "blocked")))
  BY DEF MayBeUnblocked, PaceGroup, Pace
<1>2. s \in InGroup(g, "blocked")
  BY <1>1 DEF Foremost, Orderings
<1> QED
  BY <1>2 DEF InGroup

(* Init establishes the invariant.                                         *)
LEMMA InitInv == Init => Inv
<1> SUFFICES ASSUME Init PROVE Inv
  OBVIOUS
<1>1. TypeOK
  BY DEF Init, TypeOK, Phase, Hook, Target
<1>2. DOMAIN watch = {}
  BY DEF Init
<1> QED
  BY <1>1, <1>2 DEF Init, Inv, StreamConsistent, CacheSettles, LastEventIsTrue,
     BlockedInCache, BlockedInStream, Pending, CreationNeedsRoom, LiveTargetIsBlocked

(* Every step keeps the invariant.                                         *)
LEMMA StepInv == Inv /\ [Next]_vars => Inv'
<1> SUFFICES ASSUME Inv, [Next]_vars PROVE Inv'
  OBVIOUS
<1>1. TypeOK /\ TypeOK'
  BY TypeStep DEF Inv
<1> DEFINE Rest == StreamConsistent /\ CreationNeedsRoom /\ LiveTargetIsBlocked
<1>2. StreamConsistent /\ CreationNeedsRoom /\ LiveTargetIsBlocked
  BY DEF Inv
<1> SUFFICES Rest'
  BY <1>1 DEF Inv
<1> USE DEF CreationNeedsRoom, LiveTargetIsBlocked
\* Steps of admission and of the reconciler that leave api, watch and cache alone.
<1>3. ASSUME UNCHANGED <<api, watch, cache>>, CreationNeedsRoom', LiveTargetIsBlocked'
      PROVE  Rest'
  BY <1>2, <1>3, QuietStream
<1>4. CASE UNCHANGED vars
  BY <1>2, <1>3, <1>4 DEF vars
<1>5. ASSUME NEW s \in Slots, Submit(s) PROVE Rest'
  BY <1>1, <1>2, <1>3, <1>5 DEF Submit, TypeOK
<1>6. ASSUME NEW s \in Slots, Decide(s) PROVE Rest'
  BY <1>1, <1>2, <1>3, <1>6 DEF Decide, TypeOK
<1>7. ASSUME NEW s \in Slots, DecideFails(s) PROVE Rest'
  BY <1>1, <1>2, <1>3, <1>7 DEF DecideFails, TypeOK
<1>8. ASSUME NEW s \in Slots, FailOpen(s) PROVE Rest'
  BY <1>1, <1>2, <1>3, <1>8 DEF FailOpen, TypeOK
<1>9. ASSUME NEW s \in Slots, Commit(s) PROVE Rest'
  <2>1. CreatedAs[hook[s]] \in Phase
    BY <1>9 DEF Commit, CreatedAs, Verdict, Phase
  <2>2. api[s] = "none"
    BY <1>1, <1>2, <1>9 DEF Commit, Verdict
  <2>3. StreamConsistent'
    BY <1>1, <1>2, <1>9, <2>1, <2>2, BecomesStream DEF Commit
  <2> QED
    BY <1>1, <1>2, <1>9, <2>2, <2>3 DEF Commit, Becomes, TypeOK
<1>10. ASSUME NEW s \in Slots, Abort(s) PROVE Rest'
  BY <1>1, <1>2, <1>3, <1>10 DEF Abort, TypeOK
<1>11. ASSUME NEW s \in Slots, BecomeReady(s) PROVE Rest'
  <2>1. StreamConsistent'
    BY <1>1, <1>2, <1>11, BecomesStream DEF BecomeReady, Phase
  <2> QED
    BY <1>1, <1>2, <1>11, <2>1 DEF BecomeReady, Becomes, TypeOK
<1>12. ASSUME NEW s \in Slots, BecomeUnready(s) PROVE Rest'
  <2>1. StreamConsistent'
    BY <1>1, <1>2, <1>12, BecomesStream DEF BecomeUnready, Phase
  <2> QED
    BY <1>1, <1>2, <1>12, <2>1 DEF BecomeUnready, Becomes, TypeOK
<1>13. ASSUME NEW s \in Slots, Gone(s) PROVE Rest'
  <2>1. StreamConsistent'
    BY <1>1, <1>2, <1>13, BecomesStream DEF Gone, Removed, Phase
  <2> QED
    BY <1>1, <1>2, <1>13, <2>1 DEF Gone, Removed, Becomes, TypeOK
<1>14. ASSUME NEW s \in Slots, BecomeOverdue(s) PROVE Rest'
  BY <1>2, <1>3, <1>14 DEF BecomeOverdue
<1>15. ASSUME Deliver PROVE Rest'
  BY <1>1, <1>2, <1>15, DeliverStream DEF Deliver
<1>16. ASSUME NEW g \in known, ExpireGroup(g) PROVE Rest'
  BY <1>2, <1>3, <1>16 DEF ExpireGroup
<1>17. ASSUME Restart PROVE Rest'
  <2>1. DOMAIN watch' = {}
    BY <1>17 DEF Restart
  <2>2. StreamConsistent'
    BY <1>17, <2>1 DEF Restart, StreamConsistent, CacheSettles, LastEventIsTrue,
       BlockedInCache, BlockedInStream, Pending
  <2> QED
    BY <1>1, <1>2, <1>17, <2>2 DEF Restart, TypeOK
<1>18. ASSUME NEW s \in Slots, ReconcileSkip(s) PROVE Rest'
  BY <1>2, <1>3, <1>18 DEF ReconcileSkip
<1>19. ASSUME NEW s \in Slots, ReconcileError(s) PROVE Rest'
  BY <1>2, <1>3, <1>19 DEF ReconcileError, vars
<1>20. ASSUME NEW s \in Slots, ReconcileStart(s) PROVE Rest'
  <2>1. PICK unblocked \in MayBeUnblocked(Group(s)) :
          target' = [t \in Slots |-> IF t \in unblocked THEN Named(t) ELSE "no"]
    BY <1>20 DEF ReconcileStart
  <2>2. \A t \in Slots : target'[t] = "live" => api[t] = "blocked"
    BY <1>2, <2>1, UnblockedAreBlocked, NamedLiveIsBlocked
  <2> QED
    BY <1>2, <1>3, <1>20, <2>2 DEF ReconcileStart
<1>21. ASSUME NEW s \in Slots, Evict(s) PROVE Rest'
  <2>1. CASE Removed(s)
    <3>1. StreamConsistent'
      BY <1>1, <1>2, <1>21, <2>1, BecomesStream DEF Evict, Removed, Phase
    <3> QED
      BY <1>1, <1>2, <1>21, <2>1, <3>1 DEF Evict, Removed, Becomes, TypeOK
  <2>2. CASE UNCHANGED <<api, watch, overdue>>
    BY <1>1, <1>2, <1>3, <1>21, <2>2 DEF Evict, TypeOK
  <2> QED
    BY <1>21, <2>1, <2>2 DEF Evict
<1>22. ASSUME NEW s \in Slots, EvictFails(s) PROVE Rest'
  BY <1>1, <1>2, <1>3, <1>22 DEF EvictFails, TypeOK
<1>23. ASSUME ReconcileEnd PROVE Rest'
  BY <1>1, <1>2, <1>3, <1>23 DEF ReconcileEnd, MaxBlockedEnforced, TypeOK
<1> QED
  BY <1>4, <1>5, <1>6, <1>7, <1>8, <1>9, <1>10, <1>11, <1>12, <1>13, <1>14, <1>15, <1>16,
     <1>17, <1>18, <1>19, <1>20, <1>21, <1>22, <1>23 DEF Next, SlotStep

(* Cache, stream and API server stay consistent, and what the eviction     *)
(* loop takes for a live target is a blocked pod.                          *)
THEOREM Consistency == Spec => []Inv
BY InitInv, StepInv, PTL DEF Spec

(* Whatever the lag of the stream, what cache and stream say of blocked    *)
(* pods is true of the API server, or their removal is on its way.         *)
THEOREM StreamStaysConsistent == Spec => []StreamConsistent
BY Consistency, PTL DEF Inv

-----------------------------------------------------------------------------
(***************************************************************************)
(* No blocked pod is forgotten.                                             *)
(***************************************************************************)

(* A slot with events on its way still has them after another event.       *)
LEMMA BecomesPending ==
  ASSUME TypeOK, NEW s \in Slots, NEW t \in Slots, NEW phase \in Phase, Becomes(t, phase)
  PROVE  Pending(t)' /\ (Pending(s) => Pending(s)')
<1>1. watch \in Seq(Events) /\ Event(t, phase) \in Events
  BY DEF TypeOK, Events, Event
<1>2. watch' = Append(watch, Event(t, phase))
  BY DEF Becomes
<1>3. /\ Len(watch) + 1 \in DOMAIN watch' /\ watch'[Len(watch) + 1] = Event(t, phase)
      /\ \A k \in DOMAIN watch : k \in DOMAIN watch' /\ watch'[k] = watch[k]
  BY <1>1, <1>2
<1> QED
  BY <1>3 DEF Pending, Event

(* Delivering the event of one slot leaves the events of the others.       *)
LEMMA DeliverPending ==
  ASSUME TypeOK, Deliver, NEW s \in Slots, Pending(s), s # Head(watch).slot
  PROVE  Pending(s)'
<1>1. watch \in Seq(Events) /\ watch # <<>> /\ watch' = Tail(watch)
  BY DEF Deliver, TypeOK, Events
<1>2. PICK k \in DOMAIN watch : watch[k].slot = s
  BY DEF Pending
<1>3. k \in 2..Len(watch)
  BY <1>1, <1>2
<1>4. k - 1 \in DOMAIN watch' /\ watch'[k - 1] = watch[k]
  BY <1>1, <1>3, HeadTailProperties
<1> QED
  BY <1>2, <1>4 DEF Pending

(* A slot without events on its way has no removal on its way.             *)
LEMMA NotPendingIsLive ==
  ASSUME NEW s \in Slots, ~ Pending(s)
  PROVE  Named(s) = "live"
BY DEF Named, RemovalPending, Pending, Event

(* A step that changes slot t through the API server and leaves the work   *)
(* queue, and the eviction of other slots, alone forgets no blocked pod.   *)
LEMMA BecomesForgetsNothing ==
  ASSUME TypeOK, NoLostBlockedPod, NEW t \in Slots, NEW phase \in Phase,
         Becomes(t, phase), UNCHANGED <<rqueue, current>>,
         \A s \in Slots \ {t} : target'[s] = target[s]
  PROVE  NoLostBlockedPod'
<1> SUFFICES ASSUME NEW s \in Slots, Watched(s), ReconcileEnabled(s),
                    api'[s] = "blocked", ~ Pending(s)'
             PROVE  s \in rqueue' \/ InReconcile(s)'
  BY DEF NoLostBlockedPod, Watched, HasLabel, ReconcileEnabled
<1>1. s # t /\ ~ Pending(s)
  BY BecomesPending
<1>2. api[s] = "blocked"
  BY <1>1 DEF Becomes, TypeOK
<1> QED
  BY <1>1, <1>2 DEF NoLostBlockedPod, InReconcile

(* Every step keeps NoLostBlockedPod, given the invariant.                 *)
LEMMA StepForgetsNothing ==
  Inv /\ NoLostBlockedPod /\ [Next]_vars => NoLostBlockedPod'
<1> SUFFICES ASSUME Inv, NoLostBlockedPod, [Next]_vars PROVE NoLostBlockedPod'
  OBVIOUS
<1>1. TypeOK /\ StreamConsistent
  BY DEF Inv
<1>2. ASSUME UNCHANGED <<api, watch, rqueue, current, target>> PROVE NoLostBlockedPod'
  BY <1>2 DEF NoLostBlockedPod, Pending, InReconcile, Watched, HasLabel, ReconcileEnabled
\* The other steps are shown for one blocked pod.
<1> DEFINE Kept(s) == s \in rqueue' \/ InReconcile(s)'
           Due(s) == /\ Watched(s) /\ ReconcileEnabled(s)
                     /\ api'[s] = "blocked" /\ ~ Pending(s)'
<1>3. ASSUME \A s \in Slots : Due(s) => Kept(s) PROVE NoLostBlockedPod'
  BY <1>3 DEF NoLostBlockedPod, Watched, HasLabel, ReconcileEnabled
<1>4. ASSUME UNCHANGED <<api, watch>>, NEW s \in Slots, Due(s)
      PROVE  (s \in rqueue \/ InReconcile(s)) /\ api[s] = "blocked" /\ ~ Pending(s)
  BY <1>4 DEF NoLostBlockedPod, Pending
<1>5. CASE UNCHANGED vars
  BY <1>2, <1>5 DEF vars
<1>6. ASSUME NEW s \in Slots,
             Submit(s) \/ Decide(s) \/ DecideFails(s) \/ FailOpen(s) \/ Abort(s)
               \/ BecomeOverdue(s) \/ ReconcileError(s)
      PROVE  NoLostBlockedPod'
  BY <1>2, <1>6 DEF Submit, Decide, DecideFails, FailOpen, Abort, BecomeOverdue,
     ReconcileError, vars
<1>7. ASSUME NEW s \in Slots, Commit(s) \/ BecomeReady(s) \/ BecomeUnready(s) \/ Gone(s)
      PROVE  NoLostBlockedPod'
  <2>1. \E phase \in Phase : Becomes(s, phase)
    BY <1>7 DEF Commit, BecomeReady, BecomeUnready, Gone, Removed, Phase, Verdict, CreatedAs
  <2>2. \A t \in Slots \ {s} : target'[t] = target[t]
    BY <1>1, <1>7 DEF Commit, BecomeReady, BecomeUnready, Gone, TypeOK
  <2>3. UNCHANGED <<rqueue, current>>
    BY <1>7 DEF Commit, BecomeReady, BecomeUnready, Gone
  <2> QED
    BY <1>1, <2>1, <2>2, <2>3, BecomesForgetsNothing
<1>8. ASSUME Deliver PROVE NoLostBlockedPod'
  <2> SUFFICES ASSUME NEW s \in Slots, Due(s) PROVE Kept(s)
    BY <1>3
  <2>1. CASE s = Head(watch).slot
    BY <1>8, <2>1 DEF Deliver
  <2>2. CASE s # Head(watch).slot
    <3>1. ~ Pending(s)
      BY <1>1, <1>8, <2>2, DeliverPending
    <3>2. s \in rqueue \/ InReconcile(s)
      BY <1>8, <3>1 DEF Deliver, NoLostBlockedPod
    <3> QED
      BY <1>8, <3>2 DEF Deliver, InReconcile
  <2> QED
    BY <2>1, <2>2
<1>9. ASSUME NEW g \in known, ExpireGroup(g) PROVE NoLostBlockedPod'
  BY <1>2, <1>9 DEF ExpireGroup
<1>10. ASSUME Restart PROVE NoLostBlockedPod'
  BY <1>3, <1>10 DEF Restart
<1>11. ASSUME NEW t \in Slots, ReconcileSkip(t) PROVE NoLostBlockedPod'
  <2> SUFFICES ASSUME NEW s \in Slots, Due(s) PROVE Kept(s)
    BY <1>3
  <2>1. (s \in rqueue \/ InReconcile(s)) /\ api[s] = "blocked" /\ ~ Pending(s)
    BY <1>4, <1>11 DEF ReconcileSkip
  <2>2. cache[s] = "blocked"
    BY <1>1, <2>1 DEF StreamConsistent, CacheSettles
  <2>3. s # t
    BY <1>11, <2>2 DEF ReconcileSkip, Reconcilable
  <2> QED
    BY <1>11, <2>1, <2>3 DEF ReconcileSkip, InReconcile
<1>12. ASSUME NEW t \in Slots, ReconcileStart(t) PROVE NoLostBlockedPod'
  <2> SUFFICES ASSUME NEW s \in Slots, Due(s) PROVE Kept(s)
    BY <1>3
  <2>1. (s \in rqueue \/ InReconcile(s)) /\ ~ Pending(s)
    BY <1>4, <1>12 DEF ReconcileStart
  <2>2. s \in rqueue
    BY <1>12, <2>1, SlotsAssumption DEF ReconcileStart, InReconcile
  <2>3. CASE s = t
    <3>1. target'[s] \in {"no", Named(s)}
      BY <1>12 DEF ReconcileStart
    <3> QED
      BY <1>12, <2>1, <2>3, <3>1, NotPendingIsLive DEF ReconcileStart, InReconcile
  <2>4. CASE s # t
    BY <1>12, <2>2, <2>4 DEF ReconcileStart
  <2> QED
    BY <2>3, <2>4
<1>13. ASSUME NEW t \in Slots, Evict(t) PROVE NoLostBlockedPod'
  <2>1. \A s \in Slots \ {t} : target'[s] = target[s]
    BY <1>1, <1>13 DEF Evict, TypeOK
  <2>2. CASE Removed(t)
    BY <1>1, <1>13, <2>1, <2>2, BecomesForgetsNothing DEF Evict, Removed, Phase
  <2>3. CASE UNCHANGED <<api, watch, overdue>> /\ target[t] = "gone"
    <3> SUFFICES ASSUME NEW s \in Slots, Due(s) PROVE Kept(s)
      BY <1>3
    <3>1. s \in rqueue \/ InReconcile(s)
      BY <1>4, <2>3
    <3> QED
      BY <1>13, <2>1, <2>3, <3>1 DEF Evict, InReconcile
  <2> QED
    BY <1>13, <2>2, <2>3 DEF Evict
<1>14. ASSUME NEW t \in Slots, EvictFails(t) PROVE NoLostBlockedPod'
  <2> SUFFICES ASSUME NEW s \in Slots, Due(s) PROVE Kept(s)
    BY <1>3
  <2>1. s \in rqueue \/ InReconcile(s)
    BY <1>4, <1>14 DEF EvictFails
  <2> QED
    BY <1>1, <1>14, <2>1 DEF EvictFails, InReconcile, TypeOK
<1>15. ASSUME ReconcileEnd PROVE NoLostBlockedPod'
  <2> SUFFICES ASSUME NEW s \in Slots, Due(s) PROVE Kept(s)
    BY <1>3
  <2>1. UNCHANGED <<api, watch>>
    BY <1>15 DEF ReconcileEnd, MaxBlockedEnforced
  <2>2. s \in rqueue \/ InReconcile(s)
    BY <1>4, <2>1
  <2> QED
    BY <1>15, <2>2 DEF ReconcileEnd, MaxBlockedEnforced, InReconcile
<1> QED
  BY <1>5, <1>6, <1>7, <1>8, <1>9, <1>10, <1>11, <1>12, <1>13, <1>14, <1>15
     DEF Next, SlotStep

(* A pod blocked in its group is always queued or being reconciled once    *)
(* the informer knows it: through crashes, failed evictions and pods that  *)
(* others delete, and for any number of pods.                              *)
THEOREM NothingForgotten == Spec => []NoLostBlockedPod
<1>1. Init => NoLostBlockedPod
  BY DEF Init, NoLostBlockedPod
<1> QED
  BY <1>1, Consistency, StepForgetsNothing, PTL DEF Spec

-----------------------------------------------------------------------------
(***************************************************************************)
(* What is evicted, and what is let go.                                     *)
(***************************************************************************)

(* The reconciler evicts only pods that are blocked when the eviction      *)
(* happens, however old its cache; or, in a slot of fixed names, the       *)
(* successor of a blocked pod that is gone.                                *)
THEOREM OnlyBlockedEvicted == Spec => EvictOnlyBlocked
<1>1. Inv /\ [Next]_vars =>
        [\A s \in Slots : EvictsNow(s) => api[s] = "blocked" \/ OutlivedItsTarget(s)]_vars
  <2> SUFFICES ASSUME Inv, Next, NEW s \in Slots, EvictsNow(s)
               PROVE  api[s] = "blocked" \/ OutlivedItsTarget(s)
    OBVIOUS
  <2> USE DEF EvictsNow
  <2>1. TypeOK
    BY DEF Inv
  <2>2. ASSUME NEW t \in Slots, Evict(t)
        PROVE  api[s] = "blocked" \/ OutlivedItsTarget(s)
    <3>1. t = s
      BY <2>1, <2>2 DEF Evict, TypeOK, Target, Removed, Becomes
    <3>2. target[s] = "live" \/ (s \in StableNames /\ target[s] = "gone")
      BY <2>2, <3>1 DEF Evict
    <3> QED
      BY <3>2 DEF Inv, LiveTargetIsBlocked, OutlivedItsTarget
  <2>3. ASSUME NEW t \in Slots, SlotStep(t), ~ Evict(t) PROVE FALSE
    BY <2>1, <2>3, SlotsAssumption DEF SlotStep, Submit, Decide, DecideFails, FailOpen,
       Commit, Abort, BecomeReady, BecomeUnready, Gone, BecomeOverdue, ReconcileSkip,
       ReconcileError, ReconcileStart, EvictFails, vars, TypeOK, Target
  <2>4. ASSUME Deliver \/ Restart \/ ReconcileEnd \/ \E g \in known : ExpireGroup(g)
        PROVE  FALSE
    BY <2>4 DEF Deliver, Restart, ReconcileEnd, MaxBlockedEnforced, ExpireGroup
  <2> QED
    BY <2>2, <2>3, <2>4 DEF Next
<1> QED
  BY <1>1, Consistency, PTL DEF Spec, EvictOnlyBlocked

(* A pacer that lets some blocked pod go has room for one more.            *)
LEMMA CountNeedsRoom ==
  ASSUME NEW p \in Pacer, NEW ready \in Nat, NEW starting \in Nat, NEW blocked \in Nat,
         AllowedCount(p, ready, starting, blocked) > 0
  PROVE  HasRoom(p, ready, starting)
<1>1. CASE ready >= p.maxStagger
  BY <1>1 DEF HasRoom
<1>2. CASE ready < p.maxStagger /\ p \in LinearPacer
  <2>1. p.kind = "linear" /\ p.step \in Nat \ {0} /\ p.maxStagger \in Nat
    BY <1>2 DEF LinearPacer
  <2>2. LinearCount(p, ready, starting, blocked) > 0
    BY <1>2, <2>1 DEF AllowedCount
  <2>3. ready % p.step \in Int
    BY <2>1
  <2>4. ~ (p.step - (ready % p.step) <= starting)
    BY <2>2 DEF LinearCount
  <2> QED
    BY <2>1, <2>3, <2>4 DEF HasRoom
<1>3. CASE ready < p.maxStagger /\ p \in ExponentialPacer
  <2>1. /\ p.kind = "exponential" /\ p.maxStagger \in Nat /\ p.minInitial \in Nat
        /\ p.num \in Nat /\ p.den \in Nat \ {0}
    BY <1>3 DEF ExponentialPacer
  <2>2. ExponentialCount(p, ready, starting, blocked) > 0
    BY <1>3, <2>1 DEF AllowedCount
  <2>3. DesiredCount(p, ready) \in Int
    <3>1. ready * p.num + p.den - 1 \in Int
      BY <2>1
    <3> QED
      BY <2>1, <3>1 DEF DesiredCount
  <2> DEFINE wanted == IF ready = 0 THEN p.minInitial ELSE DesiredCount(p, ready)
  <2>4. wanted \in Int
    BY <2>1, <2>3
  <2>5. LesserOf(GreaterOf(0, wanted - starting), blocked) > 0
    BY <2>2 DEF ExponentialCount
  <2>6. wanted - starting > 0
    <3> HIDE DEF wanted
    <3> QED
      BY <2>4, <2>5 DEF LesserOf, GreaterOf
  <2> QED
    BY <2>1, <2>3, <2>6 DEF HasRoom
<1> QED
  BY <1>1, <1>2, <1>3 DEF Pacer, LinearPacer, ExponentialPacer

(* A composite that lets some pod of a list go has room for one more in    *)
(* each of its pacers.                                                     *)
LEMMA PaceNeedsRoom ==
  ASSUME NEW pacers, NEW i \in DOMAIN pacers, pacers[i] \in Pacer,
         NEW ready \in Nat, NEW starting \in Nat, NEW blocked \in Nat,
         NEW listed, DOMAIN listed \subseteq Nat \ {0},
         NEW sorted, DOMAIN sorted \subseteq Nat \ {0},
         Pace(pacers, ready, starting, listed, sorted, blocked) # {}
  PROVE  HasRoom(pacers[i], ready, starting)
<1> DEFINE list == ListSeenBy(i, pacers, ready, listed, sorted)
           count == AllowedCount(pacers[i], ready, starting, blocked)
<1>1. \E k \in DOMAIN list : k <= count
  BY DEF Pace, PassedBy, Foremost
<1>2. DOMAIN list \subseteq Nat \ {0}
  BY DEF ListSeenBy
<1>3. count \in Int
  <2>1. CASE pacers[i] \in LinearPacer
    <3>1. pacers[i].step \in Nat \ {0} /\ pacers[i].maxStagger \in Nat
          /\ pacers[i].kind = "linear"
      BY <2>1 DEF LinearPacer
    <3>2. pacers[i].step - (ready % pacers[i].step) \in Int
      BY <3>1
    <3>3. LinearCount(pacers[i], ready, starting, blocked) \in Int
      BY <3>2 DEF LinearCount, LesserOf
    <3> QED
      BY <3>1, <3>3 DEF AllowedCount
  <2>2. CASE pacers[i] \in ExponentialPacer
    <3>1. /\ pacers[i].kind = "exponential" /\ pacers[i].minInitial \in Nat
          /\ pacers[i].num \in Nat /\ pacers[i].den \in Nat \ {0}
      BY <2>2 DEF ExponentialPacer
    <3>2. ready * pacers[i].num + pacers[i].den - 1 \in Int
      BY <3>1
    <3>3. DesiredCount(pacers[i], ready) \in Int
      BY <3>1, <3>2 DEF DesiredCount
    <3>4. ExponentialCount(pacers[i], ready, starting, blocked) \in Int
      BY <3>1, <3>3 DEF ExponentialCount, LesserOf, GreaterOf
    <3> QED
      BY <3>1, <3>4 DEF AllowedCount
  <2> QED
    BY <2>1, <2>2 DEF Pacer
<1>4. count > 0
  <2> HIDE DEF list, count
  <2> QED
    BY <1>1, <1>2, <1>3
<1> QED
  BY <1>4, CountNeedsRoom

(* The orderings of a set number its elements from 1, also with the pod    *)
(* under admission at either end.                                          *)
LEMMA OrderingDomains ==
  ASSUME NEW S, IsFiniteSet(S), NEW f \in Orderings(S)
  PROVE  /\ DOMAIN AppendIncoming(f) \subseteq Nat \ {0}
         /\ DOMAIN SortIncoming(f) \subseteq Nat \ {0}
<1>1. Cardinality(S) \in Nat
  BY FS_CardinalityType
<1>2. f \in Seq(S \cup {NoSlot})
  BY <1>1 DEF Orderings
<1> QED
  BY <1>2 DEF AppendIncoming, SortIncoming

(* Admission lets a pod go only if each pacer of its group has room for it *)
(* in the group as the cache has it.                                       *)
LEMMA AdmittedHasRoom ==
  ASSUME TypeOK, NEW s \in Slots, Decide(s), hook'[s] = "allow"
  PROVE  \A i \in DOMAIN Group(s) :
           HasRoom(Policies[i].pacer, Cardinality(InGroup(Group(s), "ready")),
                   Cardinality(InGroup(Group(s), "starting")))
<1> DEFINE g == Group(s)
           blocked == InGroup(g, "blocked")
<1>1. \A phase : IsFiniteSet(InGroup(g, phase)) /\ Cardinality(InGroup(g, phase)) \in Nat
  BY SlotsAssumption, FS_Subset, FS_CardinalityType DEF InGroup
<1>2. PICK f \in Orderings(blocked), h \in Orderings(blocked) :
        FindsItself(s, PaceGroup(g, AppendIncoming(f), SortIncoming(h),
                                 Cardinality(blocked) + 1))
  BY DEF Decide, MayPassAdmission, TypeOK
<1>3. PaceGroup(g, AppendIncoming(f), SortIncoming(h), Cardinality(blocked) + 1) # {}
  BY <1>2 DEF FindsItself
<1>4. /\ DOMAIN AppendIncoming(f) \subseteq Nat \ {0}
      /\ DOMAIN SortIncoming(h) \subseteq Nat \ {0}
  BY <1>1, OrderingDomains
<1>5. \A i \in DOMAIN g : /\ i \in DOMAIN PacersOf(g)
                          /\ PacersOf(g)[i] = Policies[i].pacer
                          /\ Policies[i].pacer \in Pacer
  BY PolicyAssumption DEF PacersOf, Group
<1>6. Cardinality(blocked) + 1 \in Nat
  BY <1>1
<1> SUFFICES ASSUME NEW i \in DOMAIN g
             PROVE  HasRoom(Policies[i].pacer, Cardinality(InGroup(g, "ready")),
                            Cardinality(InGroup(g, "starting")))
  OBVIOUS
<1> HIDE DEF g, blocked
<1> QED
  BY <1>1, <1>3, <1>4, <1>5, <1>6, PaceNeedsRoom DEF PaceGroup

(* Admission lets a pod go, while the cache is up to date, only if each    *)
(* pacer of its group has room for it: for any number of pods and policies,*)
(* unless an error of the webhook bypasses staggering.                     *)
THEOREM AdmissionKeepsPace ==
  ASSUME "listfail" \notin Faults \/ ~ BypassFailure
  PROVE  Spec => AdmitsWithinPace
<1> DEFINE Room(s) ==
      \A i \in DOMAIN Group(s) :
        HasRoom(Policies[i].pacer, Cardinality(Truly(Group(s), "ready")),
                Cardinality(Truly(Group(s), "starting")))
<1>1. ASSUME Inv, NEW s \in Slots, Decide(s), hook'[s] = "allow", watch = <<>>
      PROVE  Room(s)
  <2>1. \A phase : InGroup(Group(s), phase) = Truly(Group(s), phase)
    <3>1. \A t \in Slots : cache[t] = api[t]
      BY <1>1 DEF Inv, StreamConsistent, CacheSettles, Pending
    <3> QED
      BY <3>1 DEF InGroup, Truly
  <2> QED
    BY <1>1, <2>1, AdmittedHasRoom DEF Inv
<1>2. ASSUME Inv, Next, NEW s \in Slots, hook[s] = "waiting", hook'[s] = "allow"
      PROVE  Decide(s)
  <2>1. TypeOK
    BY <1>2 DEF Inv
  <2>2. ASSUME NEW t \in Slots, SlotStep(t), ~ Decide(t) PROVE FALSE
    BY <1>2, <2>1, <2>2, OptionsAssumption DEF SlotStep, Submit, DecideFails, FailOpen,
       Commit, Abort, BecomeReady, BecomeUnready, Gone, BecomeOverdue, ReconcileSkip,
       ReconcileError, ReconcileStart, Evict, EvictFails, vars, TypeOK, Verdict
  <2>3. ASSUME Deliver \/ Restart \/ ReconcileEnd \/ \E g \in known : ExpireGroup(g)
        PROVE  FALSE
    BY <1>2, <2>1, <2>3 DEF Deliver, Restart, ReconcileEnd, ExpireGroup, TypeOK
  <2>4. ASSUME NEW t \in Slots, Decide(t) PROVE Decide(s)
    BY <1>2, <2>1, <2>4 DEF Decide, TypeOK
  <2> QED
    BY <1>2, <2>2, <2>3, <2>4 DEF Next
<1>3. Inv /\ [Next]_vars =>
        [\A s \in Slots : hook[s] = "waiting" /\ hook'[s] = "allow" /\ watch = <<>>
                            => Room(s)]_vars
  BY <1>1, <1>2
<1> QED
  BY <1>3, Consistency, PTL DEF Spec, AdmitsWithinPace
=============================================================================
