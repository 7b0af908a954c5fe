---------------------------- MODULE PacingProofs ----------------------------
(***************************************************************************)
(* Groups start in their pace: InFlight implements PacedStart, for any      *)
(* number of pods, groups, policies, channels and names.                    *)
(*                                                                          *)
(* Admission counts in a cache that lags.  That it counts all pods that     *)
(* were let go is the work of the flight tracker, but what the tracker      *)
(* promises is about names, and what admission counts about slots.  The     *)
(* inductive invariant relates the two: a pod whose creation the cache does *)
(* not have yet still has its flight, so that as long as flights go one at  *)
(* a time an admission past its wait knows of all the others' creations.    *)
(***************************************************************************)
EXTENDS InFlightProofs, StragglerProofs

-----------------------------------------------------------------------------
(***************************************************************************)
(* What is told of a slot: by the cache, then by the events of the stream,  *)
(* then by the API server.                                                  *)
(***************************************************************************)
Told(s) == {0, Len(watch) + 1} \cup {j \in DOMAIN watch : watch[j].slot = s}

Tells(s, j) ==
  IF j = 0 THEN cache[s] ELSE IF j = Len(watch) + 1 THEN api[s] ELSE watch[j].phase

\* A pod of s is created between j and k.
Born(s, j, k) == j < k /\ Tells(s, j) = "none" /\ Tells(s, k) # "none"

\* No creation is on its way to the cache; or no more than one.
Settled(s) == \A j, k \in Told(s) : ~ Born(s, j, k)

BornOnce(s) == \A i, j, k, l \in Told(s) : ~ (Born(s, i, j) /\ j < k /\ Born(s, k, l))

(* The stream, and what an event put on it tells.                          *)
LEMMA StreamType ==
  ASSUME TypeOK
  PROVE  /\ Len(watch) \in Nat /\ DOMAIN watch = 1..Len(watch)
         /\ \A j \in DOMAIN watch : watch[j].slot \in Slots /\ watch[j].phase \in Phase
         /\ \A s \in Slots : Told(s) \subseteq 0..(Len(watch) + 1)
         /\ \A s \in Slots : \A j \in Told(s) : Tells(s, j) \in Phase
<1>1. watch \in Seq(Events)
  BY DEF TypeOK, Events
<1>2. /\ Len(watch) \in Nat /\ DOMAIN watch = 1..Len(watch)
      /\ \A j \in DOMAIN watch : watch[j] \in Events
  BY <1>1
<1> QED
  BY <1>2 DEF Events, Told, Tells, TypeOK

LEMMA BecomesTells ==
  ASSUME TypeOK, NEW s \in Slots, NEW phase \in Phase, Becomes(s, phase), cache' = cache,
         NEW n, n = Len(watch)
  PROVE  /\ Len(watch') = n + 1
         /\ Told(s)' = Told(s) \cup {n + 2}
         /\ \A j \in 0..n : Tells(s, j)' = Tells(s, j)
         /\ Tells(s, n + 1)' = phase /\ Tells(s, n + 2)' = phase
         /\ Tells(s, n + 1) = api[s]
         /\ \A t \in Slots \ {s} :
              /\ Told(t)' = (Told(t) \ {n + 1}) \cup {n + 2}
              /\ \A j \in 0..n : Tells(t, j)' = Tells(t, j)
              /\ Tells(t, n + 2)' = api[t] /\ Tells(t, n + 1) = api[t]
<1> DEFINE e == Event(s, phase)
<1>1. watch \in Seq(Events) /\ e \in Events
  BY DEF TypeOK, Events, Event
<1>2. watch' = Append(watch, e) /\ api' = [api EXCEPT ![s] = phase]
  BY DEF Becomes
<1>3. /\ n \in Nat /\ Len(watch') = n + 1
      /\ DOMAIN watch = 1..n /\ DOMAIN watch' = 1..(n + 1)
      /\ \A j \in 1..n : watch'[j] = watch[j]
      /\ watch'[n + 1] = e
  BY <1>1, <1>2
<1>4. e.slot = s /\ e.phase = phase
  BY DEF Event
<1>5. /\ api'[s] = phase
      /\ \A t \in Slots \ {s} : api'[t] = api[t]
  BY <1>2 DEF TypeOK
<1> HIDE DEF e
<1>6. \A t \in Slots : {j \in DOMAIN watch' : watch'[j].slot = t}
        = {j \in DOMAIN watch : watch[j].slot = t} \cup (IF t = s THEN {n + 1} ELSE {})
  BY <1>3, <1>4
<1>7. Told(s)' = Told(s) \cup {n + 2}
  BY <1>3, <1>6 DEF Told
<1>8. \A t \in Slots \ {s} : Told(t)' = (Told(t) \ {n + 1}) \cup {n + 2}
  BY <1>3, <1>6 DEF Told
<1>9. \A t \in Slots, j \in 0..n : Tells(t, j)' = Tells(t, j)
  BY <1>3 DEF Tells
<1>10. \A t \in Slots : Tells(t, n + 2)' = api'[t] /\ Tells(t, n + 1) = api[t]
  BY <1>3 DEF Tells
<1>11. Tells(s, n + 1)' = phase
  BY <1>3, <1>4 DEF Tells
<1> QED
  BY <1>3, <1>5, <1>7, <1>8, <1>9, <1>10, <1>11

(* An event on another slot, a change or a removal bring no creation.      *)
LEMMA BecomesKeepsSettled ==
  ASSUME TypeOK, NEW s \in Slots, NEW phase \in Phase, Becomes(s, phase), cache' = cache,
         NEW t \in Slots, t # s \/ phase = "none" \/ api[s] # "none"
  PROVE  (Settled(t) => Settled(t)') /\ (BornOnce(t) => BornOnce(t)')
<1> DEFINE before(n, j) == IF j <= n THEN j ELSE n + 1
<1>1. PICK n \in Nat : n = Len(watch)
  BY StreamType
<1>2. /\ Told(t) \subseteq 0..(n + 1) /\ Told(t)' \subseteq 0..(n + 2)
      /\ \A j \in Told(t)' : before(n, j) \in Told(t)
      /\ \A j \in Told(t)' : j <= n => Tells(t, j)' = Tells(t, j)
      /\ \A j \in Told(t)' : j > n /\ Tells(t, j)' # "none" => Tells(t, n + 1) # "none"
      /\ \A j \in Told(t)' : j > n /\ Tells(t, j)' = "none" /\ Tells(t, n + 1) # "none"
           => \A k \in Told(t)' : k > n => Tells(t, k)' = "none"
  <2>1. Told(t) \subseteq 0..(n + 1) /\ n + 1 \in Told(t)
    BY <1>1, StreamType DEF Told
  <2>2. CASE t = s
    BY <1>1, <2>1, <2>2, BecomesTells
  <2>3. CASE t # s
    BY <1>1, <2>1, <2>3, BecomesTells
  <2> QED
    BY <2>2, <2>3
<1>3. \A j, k \in Told(t)' : Born(t, j, k)' => Born(t, before(n, j), before(n, k))
  BY <1>2 DEF Born
<1>4. \A j, k, l \in Told(t)' : j < k /\ Born(t, k, l)' /\ Tells(t, j)' # "none"
                                 => before(n, j) < before(n, k)
  BY <1>2 DEF Born
<1>5. Settled(t) => Settled(t)'
  BY <1>2, <1>3 DEF Settled
<1>6. ASSUME BornOnce(t) PROVE BornOnce(t)'
  <2> SUFFICES ASSUME NEW i \in Told(t)', NEW j \in Told(t)', NEW k \in Told(t)',
                      NEW l \in Told(t)', Born(t, i, j)', j < k, Born(t, k, l)'
               PROVE  FALSE
    BY DEF BornOnce
  <2>1. Born(t, before(n, i), before(n, j)) /\ Born(t, before(n, k), before(n, l))
    BY <1>3
  <2>2. before(n, j) < before(n, k)
    BY <1>4 DEF Born
  <2> QED
    BY <1>2, <1>6, <2>1, <2>2 DEF BornOnce
<1> QED
  BY <1>5, <1>6

(* The first creation on its way is the only one.                          *)
LEMMA BecomesBornOnce ==
  ASSUME TypeOK, NEW s \in Slots, NEW phase \in Phase, Becomes(s, phase), cache' = cache,
         Settled(s)
  PROVE  BornOnce(s)'
<1>1. PICK n \in Nat : n = Len(watch)
  BY StreamType
<1>2. /\ Told(s) \subseteq 0..(n + 1) /\ n + 1 \in Told(s)
      /\ Told(s)' = Told(s) \cup {n + 2}
      /\ \A j \in 0..n : Tells(s, j)' = Tells(s, j)
      /\ Tells(s, n + 1)' = Tells(s, n + 2)'
  <2>1. Told(s) \subseteq 0..(n + 1) /\ n + 1 \in Told(s)
    BY <1>1, StreamType DEF Told
  <2> QED
    BY <1>1, <2>1, BecomesTells
<1>3. ASSUME NEW j \in Told(s)', NEW k \in Told(s)', Born(s, j, k)'
      PROVE  k > n /\ j <= k
  BY <1>2, <1>3 DEF Born, Settled
<1>4. ASSUME NEW k \in Told(s)', NEW l \in Told(s)', k > n, Born(s, k, l)'
      PROVE  FALSE
  BY <1>2, <1>4 DEF Born
<1> SUFFICES ASSUME NEW i \in Told(s)', NEW j \in Told(s)', NEW k \in Told(s)',
                    NEW l \in Told(s)', Born(s, i, j)', j < k, Born(s, k, l)'
             PROVE  FALSE
  BY DEF BornOnce
<1>5. j > n /\ k > n
  BY <1>2, <1>3
<1> QED
  BY <1>4, <1>5

(* What is told after the first event has been delivered.                  *)
LEMMA DeliverTells ==
  ASSUME TypeOK, Deliver, NEW t \in Slots, NEW n, n = Len(watch)
  PROVE  /\ n \in Nat \ {0} /\ Len(watch') = n - 1
         /\ Told(t)' \subseteq 0..n
         /\ \A j \in Told(t)' : j > 0 => j + 1 \in Told(t) /\ Tells(t, j)' = Tells(t, j + 1)
         /\ t = Head(watch).slot =>
              1 \in Told(t) /\ Tells(t, 1) = Head(watch).phase /\ Tells(t, 0)' = Tells(t, 1)
         /\ t # Head(watch).slot => Tells(t, 0)' = Tells(t, 0)
<1>1. watch \in Seq(Events) /\ watch # <<>> /\ watch' = Tail(watch)
  BY DEF Deliver, TypeOK, Events
<1>2. /\ n \in Nat \ {0} /\ Len(watch') = n - 1
      /\ DOMAIN watch = 1..n /\ DOMAIN watch' = 1..(n - 1)
      /\ \A j \in 1..(n - 1) : watch'[j] = watch[j + 1]
      /\ watch[1] = Head(watch)
  BY <1>1, HeadTailProperties
<1>3. /\ api' = api /\ cache \in [Slots -> Phase]
      /\ cache' = [cache EXCEPT ![Head(watch).slot] = Head(watch).phase]
  BY DEF Deliver, TypeOK
<1>4. Told(t)' \subseteq 0..n
  BY <1>2 DEF Told
<1>5. ASSUME NEW j \in Told(t)', j > 0
      PROVE  j + 1 \in Told(t) /\ Tells(t, j)' = Tells(t, j + 1)
  <2>1. CASE j = n
    BY <1>2, <1>3, <2>1 DEF Told, Tells
  <2>2. CASE j # n
    <3>1. j \in 1..(n - 1) /\ watch'[j].slot = t
      BY <1>2, <1>5, <2>2 DEF Told
    <3> QED
      BY <1>2, <2>2, <3>1 DEF Told, Tells
  <2> QED
    BY <2>1, <2>2
<1>6. t = Head(watch).slot =>
        1 \in Told(t) /\ Tells(t, 1) = Head(watch).phase /\ Tells(t, 0)' = Tells(t, 1)
  BY <1>2, <1>3 DEF Told, Tells
<1>7. t # Head(watch).slot => Tells(t, 0)' = Tells(t, 0)
  BY <1>3 DEF Tells
<1> QED
  BY <1>2, <1>4, <1>5, <1>6, <1>7

(* Delivery brings no creation to what is on its way, and takes the one it *)
(* delivers away.                                                          *)
LEMMA DeliverKeepsSettled ==
  ASSUME TypeOK, Deliver, NEW t \in Slots
  PROVE  /\ Settled(t) => Settled(t)'
         /\ BornOnce(t) => BornOnce(t)'
         /\ (/\ BornOnce(t) /\ t = Head(watch).slot
             /\ cache[t] = "none" /\ Head(watch).phase # "none") => Settled(t)'
<1>1. PICK n \in Nat : n = Len(watch)
  BY StreamType
<1> DEFINE h == IF t = Head(watch).slot THEN 1 ELSE 0
<1>2. /\ h \in {0, 1} /\ h \in Told(t) /\ Tells(t, 0)' = Tells(t, h)
      /\ t = Head(watch).slot => h = 1
  BY <1>1, DeliverTells DEF Told
<1> HIDE DEF h
<1> DEFINE was(j) == IF j > 0 THEN j + 1 ELSE h
<1>3. /\ Told(t)' \subseteq 0..n
      /\ \A j \in Told(t)' : was(j) \in Told(t) /\ Tells(t, j)' = Tells(t, was(j))
  <2>1. Told(t)' \subseteq 0..n
    BY <1>1, DeliverTells
  <2> SUFFICES ASSUME NEW j \in Told(t)'
               PROVE  was(j) \in Told(t) /\ Tells(t, j)' = Tells(t, was(j))
    BY <2>1
  <2>2. CASE j = 0
    BY <1>2, <2>2
  <2>3. CASE j > 0
    BY <1>1, <2>3, DeliverTells
  <2> QED
    BY <2>1, <2>2, <2>3
<1>4. \A j, k \in Told(t)' : j < k => was(j) < was(k)
  BY <1>2, <1>3
<1>5. \A j, k \in Told(t)' : Born(t, j, k)' => Born(t, was(j), was(k))
  BY <1>3, <1>4 DEF Born
<1>6. Settled(t) => Settled(t)'
  BY <1>3, <1>5 DEF Settled
<1>7. BornOnce(t) => BornOnce(t)'
  BY <1>3, <1>4, <1>5 DEF BornOnce
<1>8. ASSUME BornOnce(t), t = Head(watch).slot, cache[t] = "none", Head(watch).phase # "none"
      PROVE  Settled(t)'
  <2>1. 0 \in Told(t) /\ 1 \in Told(t) /\ Born(t, 0, 1)
    <3>1. 1 \in Told(t) /\ Tells(t, 1) # "none"
      BY <1>1, <1>8, DeliverTells
    <3>2. 0 \in Told(t) /\ Tells(t, 0) = "none"
      BY <1>8 DEF Told, Tells
    <3> QED
      BY <3>1, <3>2 DEF Born
  <2>2. h = 1
    BY <1>2, <1>8
  <2> SUFFICES ASSUME NEW j \in Told(t)', NEW k \in Told(t)', Born(t, j, k)' PROVE FALSE
    BY DEF Settled
  <2>3. Born(t, was(j), was(k))
    BY <1>5
  <2>4. Tells(t, was(j)) = "none" /\ Tells(t, 1) # "none"
    BY <2>1, <2>3 DEF Born
  <2>5. 1 < was(j)
    BY <1>3, <2>2, <2>4
  <2> QED
    BY <1>3, <1>8, <2>1, <2>3, <2>5 DEF BornOnce
<1> QED
  BY <1>6, <1>7, <1>8

(* Nothing is told anew while API server, stream and cache rest.           *)
LEMMA QuietTells ==
  ASSUME UNCHANGED <<api, watch, cache>>, NEW t
  PROVE  /\ Settled(t)' = Settled(t) /\ BornOnce(t)' = BornOnce(t)
         /\ Told(t)' = Told(t) /\ \A j : Tells(t, j)' = Tells(t, j)
BY DEF Settled, BornOnce, Born, Told, Tells

-----------------------------------------------------------------------------
(***************************************************************************)
(* Flights and creations.                                                   *)
(***************************************************************************)

\* A pod is in the flight tracker under the group of its slot.
CallsOfOwnGroup ==
  \A n \in PodNames : call[n] # "none" => callKey[n] = ID(n[1]) /\ n \in used

\* A creation has the name given last, and until its group slips it is past its
\* wait when the webhook has answered.
CreationHasCall ==
  \A s \in Slots :
    /\ hook[s] # "idle" => Latest(s) \in PodNames
    /\ (hook[s] \in Verdict /\ ID(s) \notin slipped) => call[Latest(s)] = "passed"

\* A pod of s that was created has yet to arrive.
Awaited(s) ==
  \E n \in NamesOf(s) : call[n] = "passed" /\ (hook[s] # "idle" => n # Latest(s))

BirthsAwaited ==
  \A s \in Slots : ID(s) \notin slipped => BornOnce(s) /\ (Awaited(s) \/ Settled(s))

\* All pods are in their group, whoever tells of them.
NoneEscapes ==
  \A s \in Slots : /\ hook[s] \notin {"plain", "hold"}
                   /\ \A j \in Told(s) : Tells(s, j) \notin {"plain", "held"}

Paths == CallsOfOwnGroup /\ CreationHasCall /\ BirthsAwaited /\ NoneEscapes

(* What is used here of the tracker's types.                               *)
LEMMA CallTypes ==
  ASSUME Proved!Types
  PROVE  /\ call \in [PodNames -> {"none", "waiting", "passed"}]
         /\ callKey \in [PodNames -> IDs \cup {NoID}]
         /\ used \subseteq PodNames
BY DEF Proved!Types, Proved!TypeOK, Proved!Calls

(* Until a group slips no two of its pods are past the wait.               *)
LEMMA OnlyOneFlies ==
  ASSUME Tracker!OneAtATime, CallsOfOwnGroup, NEW m \in PodNames, NEW n \in PodNames,
         call[m] = "passed", call[n] = "passed", ID(m[1]) = ID(n[1]), ID(m[1]) \notin slipped
  PROVE  m = n
<1> DEFINE k == ID(m[1])
           passed == Tracker!Calling(k, "passed")
           unlanded == Tracker!Unlanded(k)
<1>1. k \in IDs \ slipped
  BY DEF PodNames, IDs
<1>2. {m, n} \subseteq passed
  BY DEF CallsOfOwnGroup, Tracker!Calling
<1>3. IsFiniteSet(passed) /\ IsFiniteSet(unlanded)
  BY NamesFinite, FS_Subset DEF Tracker!Calling, Tracker!Unlanded
<1>4. Cardinality(passed) + Cardinality(unlanded) <= 1
  <2>1. \A S : Tracker!Cardinality(S) = Cardinality(S)
    BY DEF Tracker!Cardinality, Cardinality
  <2> QED
    BY <1>1, <2>1 DEF Tracker!OneAtATime
<1>5. Cardinality({m, n}) <= Cardinality(passed) /\ Cardinality({m, n}) \in Nat
  BY <1>2, <1>3, FS_Subset, FS_CardinalityType
<1>6. m # n => Cardinality({m, n}) = 2
  <2>1. ASSUME m # n PROVE Cardinality({m} \cup {n}) = Cardinality({m}) + 1
    BY <2>1, FS_Singleton, FS_AddElement
  <2>2. Cardinality({m}) = 1 /\ {m} \cup {n} = {m, n}
    BY FS_Singleton
  <2> QED
    BY <2>1, <2>2
<1>7. Cardinality(passed) \in Nat /\ Cardinality(unlanded) \in Nat
  BY <1>3, FS_CardinalityType
<1> HIDE DEF k, passed, unlanded
<1> QED
  BY <1>4, <1>5, <1>6, <1>7

(* The next name becomes the latest of its slot.                           *)
LEMMA NextIsLatest ==
  ASSUME used \subseteq PodNames, NEW s \in Slots, NextName(s) \notin used,
         used' = used \cup {NextName(s)}, NextName(s) \in PodNames
  PROVE  Latest(s)' = NextName(s) /\ \A t \in Slots \ {s} : Latest(t)' = Latest(t)
<1> DEFINE had == NamesOf(s) \cap used
<1>1. IsFiniteSet(had)
  BY NamesFinite, FS_Subset DEF NamesOf
<1>2. NextName(s) \in NamesOf(s) /\ \A t \in Slots \ {s} : NextName(s) \notin NamesOf(t)
  BY DEF NamesOf, NextName
<1>3. (NamesOf(s) \cap used)' = had \cup {NextName(s)}
  BY <1>2 DEF NamesOf, PodNames
<1>4. Given(s)' = Given(s) + 1
  BY <1>1, <1>3, FS_AddElement DEF Given
<1>5. \A t \in Slots \ {s} : (NamesOf(t) \cap used)' = NamesOf(t) \cap used
  BY <1>2 DEF NamesOf, PodNames
<1> QED
  BY <1>4, <1>5 DEF Latest, Given, NextName

(* Names are given only then.                                              *)
LEMMA LatestRests ==
  ASSUME used' = used, NEW s \in Slots
  PROVE  Latest(s)' = Latest(s) /\ NamesOf(s)' = NamesOf(s)
BY DEF Latest, Given, NamesOf, PodNames

(* While API server, stream and cache rest, what was awaited has to be.    *)
LEMMA QuietPaths ==
  ASSUME Paths, UNCHANGED <<api, watch, cache>>, slipped \subseteq slipped',
         CallsOfOwnGroup', CreationHasCall',
         \A s \in Slots : hook'[s] \notin {"plain", "hold"},
         \A s \in Slots : Awaited(s) => Awaited(s)'
  PROVE  Paths'
<1>1. BirthsAwaited'
  <2> SUFFICES ASSUME NEW s \in Slots, ID(s) \notin slipped'
               PROVE  BornOnce(s)' /\ (Awaited(s)' \/ Settled(s)')
    BY DEF BirthsAwaited, ID, Group, Matches
  <2> QED
    BY QuietTells DEF Paths, BirthsAwaited
<1>2. NoneEscapes'
  <2>1. \A s \in Slots : Told(s)' = Told(s) /\ \A j : Tells(s, j)' = Tells(s, j)
    BY QuietTells
  <2> QED
    BY <2>1 DEF Paths, NoneEscapes
<1> QED
  BY <1>1, <1>2 DEF Paths

(* A pod of a group, or none, is all that is told after such a change.     *)
LEMMA BecomesNoEscape ==
  ASSUME TypeOK, NoneEscapes, NEW s \in Slots, NEW phase \in Phase \ {"plain", "held"},
         Becomes(s, phase), cache' = cache,
         \A t \in Slots : hook'[t] \notin {"plain", "hold"}
  PROVE  NoneEscapes'
<1>1. PICK n \in Nat : n = Len(watch)
  BY StreamType
<1>2. \A t \in Slots : Told(t) \subseteq 0..(n + 1) /\ n + 1 \in Told(t)
  BY <1>1, StreamType DEF Told
<1> SUFFICES ASSUME NEW t \in Slots, NEW j \in Told(t)'
             PROVE  Tells(t, j)' \notin {"plain", "held"}
  BY DEF NoneEscapes
<1>3. CASE t = s
  <2>1. /\ Told(s)' = Told(s) \cup {n + 2}
        /\ \A i \in 0..n : Tells(s, i)' = Tells(s, i)
        /\ Tells(s, n + 1)' = phase /\ Tells(s, n + 2)' = phase
    BY <1>1, BecomesTells
  <2> QED
    BY <1>1, <1>2, <1>3, <2>1 DEF NoneEscapes
<1>4. CASE t # s
  <2>0. \A u \in Slots \ {s} :
         /\ Told(u)' = (Told(u) \ {n + 1}) \cup {n + 2}
         /\ \A i \in 0..n : Tells(u, i)' = Tells(u, i)
         /\ Tells(u, n + 2)' = api[u] /\ Tells(u, n + 1) = api[u]
    BY <1>1, BecomesTells
  <2>1. /\ Told(t)' = (Told(t) \ {n + 1}) \cup {n + 2}
        /\ \A i \in 0..n : Tells(t, i)' = Tells(t, i)
        /\ Tells(t, n + 2)' = api[t] /\ Tells(t, n + 1) = api[t]
    BY <1>4, <2>0
  <2> QED
    BY <1>1, <1>2, <2>1 DEF NoneEscapes
<1> QED
  BY <1>3, <1>4

(* A change of a pod that is there, or its removal.                        *)
LEMMA BecomesPaths ==
  ASSUME TypeOK, Paths, NEW s \in Slots, NEW phase \in Phase \ {"plain", "held"},
         Becomes(s, phase), phase = "none" \/ api[s] # "none",
         cache' = cache, hook' = hook, UNCHANGED flying
  PROVE  Paths'
<1>1. UNCHANGED <<call, callKey, used, slipped>>
  BY DEF flying
<1>2. \A t \in Slots : Latest(t)' = Latest(t) /\ NamesOf(t)' = NamesOf(t)
  BY <1>1, LatestRests
<1>3. CallsOfOwnGroup' /\ CreationHasCall'
  BY <1>1, <1>2 DEF Paths, CallsOfOwnGroup, CreationHasCall, PodNames, ID, Group, Matches
<1>4. BirthsAwaited'
  <2> SUFFICES ASSUME NEW t \in Slots, ID(t) \notin slipped
               PROVE  BornOnce(t)' /\ (Awaited(t)' \/ Settled(t)')
    BY <1>1 DEF BirthsAwaited, ID, Group, Matches
  <2>1. Awaited(t) => Awaited(t)'
    BY <1>1, <1>2 DEF Awaited
  <2>2. (Settled(t) => Settled(t)') /\ (BornOnce(t) => BornOnce(t)')
    BY BecomesKeepsSettled
  <2> QED
    BY <2>1, <2>2 DEF Paths, BirthsAwaited
<1>5. NoneEscapes'
  BY BecomesNoEscape DEF Paths, NoneEscapes
<1> QED
  BY <1>3, <1>4, <1>5 DEF Paths

(* A creation begins, under the next name.                                 *)
LEMMA SubmitPaths ==
  ASSUME TypeOK, Proved!Types, Paths, slipped \subseteq slipped',
         NEW s \in Slots, SubmitAndTakeOff(s)
  PROVE  Paths'
<1> DEFINE n == NextName(s)
<1>1. /\ n \in PodNames /\ n[1] = s /\ Submit(s)
      /\ \E c \in Chans : Tracker!WaitOne(n, ID(s), c)
  BY DEF SubmitAndTakeOff, NextName
<1>2. Tracker!Stable = {}
  BY SlotsAssumption DEF Tracker!Stable, GenerateName, PodNames
<1>3. /\ call[n] = "none" /\ n \notin used /\ used' = used \cup {n}
      /\ call' \in {[call EXCEPT ![n] = "passed"], [call EXCEPT ![n] = "waiting"]}
      /\ callKey' = [callKey EXCEPT ![n] = ID(s)]
  BY <1>1, <1>2 DEF Tracker!WaitOne
<1>4. /\ UNCHANGED <<api, watch, cache>>
      /\ hook \in [Slots -> Hook] /\ hook[s] = "idle" /\ hook' = [hook EXCEPT ![s] = "waiting"]
  BY <1>1, InFlightAssumption DEF Submit, TypeOK
<1>5. Latest(s)' = n /\ \A t \in Slots \ {s} : Latest(t)' = Latest(t)
  BY <1>1, <1>3, CallTypes, NextIsLatest
<1>6. /\ call' \in [PodNames -> {"none", "waiting", "passed"}]
      /\ \A m \in PodNames \ {n} : call'[m] = call[m] /\ callKey'[m] = callKey[m]
      /\ callKey'[n] = ID(s)
  BY <1>1, <1>3, CallTypes
<1> HIDE DEF n
<1>7. CallsOfOwnGroup'
  <2> SUFFICES ASSUME NEW m \in PodNames, call'[m] # "none"
               PROVE  callKey'[m] = ID(m[1]) /\ m \in used'
    BY DEF CallsOfOwnGroup, PodNames, ID, Group, Matches
  <2>1. CASE m = n
    BY <1>1, <1>3, <1>6, <2>1
  <2>2. CASE m # n
    BY <1>3, <1>6, <2>2 DEF Paths, CallsOfOwnGroup
  <2> QED
    BY <2>1, <2>2
<1>8. CreationHasCall'
  <2> SUFFICES ASSUME NEW t \in Slots
               PROVE  /\ hook'[t] # "idle" => Latest(t)' \in PodNames
                      /\ (hook'[t] \in Verdict /\ ID(t) \notin slipped')
                           => call'[Latest(t)'] = "passed"
    BY DEF CreationHasCall, PodNames, Verdict, ID, Group, Matches
  <2>1. CASE t = s
    BY <1>1, <1>4, <1>5, <2>1 DEF Verdict
  <2>2. CASE t # s
    <3>1. hook'[t] = hook[t] /\ Latest(t)' = Latest(t)
      BY <1>4, <1>5, <2>2
    <3>2. Latest(t) # n
      BY <1>1, <2>2 DEF Latest
    <3>3. Latest(t) \in PodNames => call'[Latest(t)] = call[Latest(t)]
      BY <1>6, <3>2
    <3> QED
      BY <3>1, <3>3 DEF Paths, CreationHasCall, Verdict
  <2> QED
    BY <2>1, <2>2
<1>9. \A t \in Slots : Awaited(t) => Awaited(t)'
  <2> SUFFICES ASSUME NEW t \in Slots, NEW m \in NamesOf(t), call[m] = "passed",
                      hook[t] # "idle" => m # Latest(t)
               PROVE  Awaited(t)'
    BY DEF Awaited
  <2>1. m # n /\ m \in PodNames /\ NamesOf(t)' = NamesOf(t)
    BY <1>3 DEF NamesOf, PodNames
  <2>2. call'[m] = "passed"
    BY <1>6, <2>1
  <2> QED
    BY <1>4, <1>5, <2>1, <2>2 DEF Awaited
<1>10. \A t \in Slots : hook'[t] \notin {"plain", "hold"}
  BY <1>4 DEF Paths, NoneEscapes
<1> QED
  BY <1>4, <1>7, <1>8, <1>9, <1>10, QuietPaths

(* The webhook answers, or the creation ends without a pod.                *)
LEMMA AnswerPaths ==
  ASSUME TypeOK, Proved!Types, Paths, slipped \subseteq slipped', NEW s \in Slots,
         PassedWait(s) \/ hook[s] \in Verdict, UNCHANGED <<api, watch, cache>>,
         \E h \in {"idle", "allow", "block"} : hook' = [hook EXCEPT ![s] = h],
         IF hook'[s] = "idle" THEN NotCreated(s) ELSE PassedWait(s) /\ UNCHANGED flying
  PROVE  Paths'
<1>1. hook \in [Slots -> Hook] /\ hook[s] # "idle"
  BY DEF TypeOK, PassedWait, Verdict
<1>2. \A t \in Slots \ {s} : hook'[t] = hook[t]
  BY <1>1
<1>3. CASE hook'[s] = "idle"
  <2> DEFINE n == Latest(s)
  <2>1. /\ n \in PodNames /\ n[1] = s /\ call[n] = "passed"
        /\ call' = [call EXCEPT ![n] = "none"]
        /\ callKey' = [callKey EXCEPT ![n] = NoID] /\ used' = used
    <3>1. PICK m \in NamesOf(s) : m = n /\ Tracker!Refused(m)
      BY <1>3 DEF NotCreated
    <3> QED
      BY <3>1 DEF NamesOf, Tracker!Refused, Tracker!Answered, Tracker!cluster
  <2>2. \A t \in Slots : Latest(t)' = Latest(t) /\ NamesOf(t)' = NamesOf(t)
    BY <2>1, LatestRests
  <2>3. \A m \in PodNames \ {n} : call'[m] = call[m] /\ callKey'[m] = callKey[m]
    BY <2>1, CallTypes
  <2>4. call'[n] = "none"
    BY <2>1, CallTypes
  <2> HIDE DEF n
  <2>5. CallsOfOwnGroup'
    BY <2>1, <2>3, <2>4 DEF Paths, CallsOfOwnGroup, PodNames, ID, Group, Matches
  <2>6. CreationHasCall'
    <3>1. \A t \in Slots \ {s} : Latest(t) # n
      BY <2>1 DEF Latest
    <3> QED
      BY <1>2, <1>3, <2>2, <2>3, <3>1 DEF Paths, CreationHasCall, PodNames, Verdict,
         ID, Group, Matches
  <2>7. \A t \in Slots : Awaited(t) => Awaited(t)'
    <3> SUFFICES ASSUME NEW t \in Slots, NEW m \in NamesOf(t), call[m] = "passed",
                        hook[t] # "idle" => m # Latest(t)
                 PROVE  Awaited(t)'
      BY DEF Awaited
    <3>1. m # n /\ m \in PodNames
      BY <1>1, <2>1 DEF NamesOf, n
    <3>2. hook'[t] # "idle" => hook[t] # "idle"
      BY <1>1, <1>2
    <3> QED
      BY <2>2, <2>3, <3>1, <3>2 DEF Awaited
  <2>8. \A t \in Slots : hook'[t] \notin {"plain", "hold"}
    BY <1>2, <1>3 DEF Paths, NoneEscapes
  <2> QED
    BY <2>5, <2>6, <2>7, <2>8, QuietPaths
<1>4. CASE hook'[s] # "idle"
  <2>1. UNCHANGED <<call, callKey, used>> /\ call[Latest(s)] = "passed"
    BY <1>4 DEF flying, PassedWait
  <2>2. \A t \in Slots : Latest(t)' = Latest(t) /\ NamesOf(t)' = NamesOf(t)
    BY <2>1, LatestRests
  <2>3. CallsOfOwnGroup'
    BY <2>1 DEF Paths, CallsOfOwnGroup, PodNames, ID, Group, Matches
  <2>4. CreationHasCall'
    <3> SUFFICES ASSUME NEW t \in Slots
                 PROVE  /\ hook'[t] # "idle" => Latest(t) \in PodNames
                        /\ (hook'[t] \in Verdict /\ ID(t) \notin slipped')
                             => call[Latest(t)] = "passed"
      BY <2>1, <2>2 DEF CreationHasCall, PodNames, Verdict, ID, Group, Matches
    <3> QED
      BY <1>1, <1>2, <2>1 DEF Paths, CreationHasCall
  <2>5. \A t \in Slots : Awaited(t) => Awaited(t)'
    BY <1>1, <1>2, <2>1, <2>2 DEF Awaited
  <2>6. \A t \in Slots : hook'[t] \notin {"plain", "hold"}
    BY <1>1, <1>2 DEF Paths, NoneEscapes
  <2> QED
    BY <2>3, <2>4, <2>5, <2>6, QuietPaths
<1> QED
  BY <1>3, <1>4

(* A pod is created, while nothing of its slot is on its way to the cache. *)
LEMMA CommitPaths ==
  ASSUME Inv, Paths, Tracker!OneAtATime, NEW s \in Slots, Commit(s), UNCHANGED flying
  PROVE  Paths'
<1> DEFINE phase == CreatedAs[hook[s]]
<1>1. /\ TypeOK /\ hook[s] \in {"allow", "block"} /\ cache' = cache
      /\ Becomes(s, phase) /\ phase \in {"starting", "blocked"}
      /\ hook' = [hook EXCEPT ![s] = "idle"] /\ api[s] = "none"
  BY DEF Commit, Paths, NoneEscapes, Verdict, CreatedAs, Inv, CreationNeedsRoom
<1> HIDE DEF phase
<1>2. phase \in Phase \ {"plain", "held"} /\ hook \in [Slots -> Hook]
  BY <1>1 DEF Phase, TypeOK
<1>3. UNCHANGED <<call, callKey, used, slipped>>
  BY DEF flying
<1>4. \A t \in Slots : Latest(t)' = Latest(t) /\ NamesOf(t)' = NamesOf(t)
  BY <1>3, LatestRests
<1>5. \A t \in Slots \ {s} : hook'[t] = hook[t]
  BY <1>1, <1>2
<1>6. hook'[s] = "idle"
  BY <1>1, <1>2
<1>7. CallsOfOwnGroup'
  BY <1>3 DEF Paths, CallsOfOwnGroup, PodNames, ID, Group, Matches
<1>8. CreationHasCall'
  BY <1>3, <1>4, <1>5, <1>6 DEF Paths, CreationHasCall, PodNames, Verdict, ID, Group, Matches
<1>9. BirthsAwaited'
  <2> SUFFICES ASSUME NEW t \in Slots, ID(t) \notin slipped
               PROVE  BornOnce(t)' /\ (Awaited(t)' \/ Settled(t)')
    BY <1>3 DEF BirthsAwaited, ID, Group, Matches
  <2>1. CASE t = s
    <3>1. Latest(s) \in PodNames /\ Latest(s) \in NamesOf(s) /\ call[Latest(s)] = "passed"
      BY <1>1, <2>1 DEF Paths, CreationHasCall, Verdict, NamesOf, Latest
    <3>2. ~ Awaited(s)
      <4> SUFFICES ASSUME NEW n \in NamesOf(s), call[n] = "passed", n # Latest(s)
                   PROVE  FALSE
        BY <1>1 DEF Awaited
      <4>1. n \in PodNames /\ n[1] = s /\ Latest(s)[1] = s
        BY DEF NamesOf, Latest
      <4> QED
        BY <2>1, <3>1, <4>1, OnlyOneFlies DEF Paths
    <3>3. BornOnce(s)'
      BY <1>1, <1>2, <2>1, <3>2, BecomesBornOnce DEF Paths, BirthsAwaited
    <3>4. Awaited(s)'
      BY <1>3, <1>4, <1>6, <3>1 DEF Awaited
    <3> QED
      BY <2>1, <3>3, <3>4
  <2>2. CASE t # s
    <3>1. (Settled(t) => Settled(t)') /\ (BornOnce(t) => BornOnce(t)')
      BY <1>1, <1>2, <2>2, BecomesKeepsSettled
    <3>2. Awaited(t) => Awaited(t)'
      BY <1>3, <1>4, <1>5, <2>2 DEF Awaited
    <3> QED
      BY <3>1, <3>2 DEF Paths, BirthsAwaited
  <2> QED
    BY <2>1, <2>2
<1>10. NoneEscapes'
  <2>1. \A t \in Slots : hook'[t] \notin {"plain", "hold"}
    BY <1>5, <1>6 DEF Paths, NoneEscapes
  <2> QED
    BY <1>1, <1>2, <2>1, BecomesNoEscape DEF Paths
<1> QED
  BY <1>7, <1>8, <1>9, <1>10 DEF Paths

(* What the informer does with a delivery leaves the names of the calls    *)
(* alone, except that a pod that arrives has been created.                 *)
LEMMA DeliverCalls ==
  ASSUME Proved!Types, DeliverToBoth
  PROVE  /\ Deliver /\ UNCHANGED <<used, slipped>>
         /\ \/ UNCHANGED <<call, callKey>>
            \/ /\ Head(watch).phase # "none" /\ cache[Head(watch).slot] = "none"
               /\ \E n \in NamesOf(Head(watch).slot) :
                    /\ call[n] = "passed"
                    /\ call' = [call EXCEPT ![n] = "none"]
                    /\ callKey' = [callKey EXCEPT ![n] = NoID]
BY DEF DeliverToBoth, Arriving, OnTheWay, Tracker!Delete, Tracker!Change, Tracker!Arrive,
   Tracker!Answered, Tracker!admission, Tracker!history

LEMMA DeliverPaths ==
  ASSUME Inv, Proved!Types, Paths, Tracker!OneAtATime, DeliverToBoth
  PROVE  Paths'
<1> DEFINE Arrives(n) == /\ call[n] = "passed" /\ call' = [call EXCEPT ![n] = "none"]
                         /\ callKey' = [callKey EXCEPT ![n] = NoID]
<1>0. PICK s : s = Head(watch).slot
  OBVIOUS
<1>1. TypeOK /\ Deliver /\ UNCHANGED <<used, slipped, hook>>
  BY DeliverCalls DEF Inv, Deliver
<1>2. \A t \in Slots : Latest(t)' = Latest(t) /\ NamesOf(t)' = NamesOf(t)
  BY <1>1, LatestRests
<1>3. NoneEscapes'
  <2> SUFFICES ASSUME NEW t \in Slots, NEW j \in Told(t)'
               PROVE  Tells(t, j)' \notin {"plain", "held"}
    BY <1>1 DEF NoneEscapes, Paths
  <2>1. PICK n \in Nat : n = Len(watch)
    BY <1>1, StreamType
  <2>2. Told(t)' \subseteq 0..n
    BY <1>1, <2>1, DeliverTells
  <2>3. CASE j > 0
    BY <1>1, <2>1, <2>3, DeliverTells DEF Paths, NoneEscapes
  <2>4. CASE j = 0
    <3>1. \/ Tells(t, 0)' = Tells(t, 0)
          \/ 1 \in Told(t) /\ Tells(t, 0)' = Tells(t, 1)
      BY <1>1, <2>1, DeliverTells
    <3>2. 0 \in Told(t)
      BY DEF Told
    <3> QED
      BY <2>4, <3>1, <3>2 DEF Paths, NoneEscapes
  <2> QED
    BY <2>2, <2>3, <2>4
<1>4. \A t \in Slots : (Settled(t) => Settled(t)') /\ (BornOnce(t) => BornOnce(t)')
  BY <1>1, DeliverKeepsSettled
<1>5. CASE UNCHANGED <<call, callKey>>
  <2>1. CallsOfOwnGroup' /\ CreationHasCall'
    BY <1>1, <1>2, <1>5 DEF Paths, CallsOfOwnGroup, CreationHasCall, PodNames, ID, Group, Matches
  <2>2. \A t \in Slots : Awaited(t) => Awaited(t)'
    BY <1>1, <1>2, <1>5 DEF Awaited
  <2>3. BirthsAwaited'
    BY <1>1, <1>4, <2>2 DEF Paths, BirthsAwaited, ID, Group, Matches
  <2> QED
    BY <1>3, <2>1, <2>3 DEF Paths
<1>6. ASSUME Head(watch).phase # "none", cache[s] = "none", NEW n \in NamesOf(s), Arrives(n)
      PROVE  Paths'
  <2>1. /\ n \in PodNames /\ n[1] = s /\ s \in Slots
        /\ \A m \in PodNames \ {n} : call'[m] = call[m] /\ callKey'[m] = callKey[m]
        /\ call'[n] = "none"
    BY <1>6, CallTypes DEF NamesOf, PodNames
  <2>2. CallsOfOwnGroup'
    BY <1>1, <2>1 DEF Paths, CallsOfOwnGroup, PodNames, ID, Group, Matches
  <2>3. ID(s) \notin slipped => Awaited(s) /\ Settled(s)'
    <3> SUFFICES ASSUME ID(s) \notin slipped PROVE Awaited(s) /\ Settled(s)'
      OBVIOUS
    <3>1. BornOnce(s) /\ (Awaited(s) \/ Settled(s))
      BY <2>1 DEF Paths, BirthsAwaited
    <3>2. Settled(s)'
      BY <1>0, <1>1, <1>6, <2>1, <3>1, DeliverKeepsSettled
    <3>3. ~ Settled(s)
      <4>1. 0 \in Told(s) /\ Tells(s, 0) = "none"
        BY <1>6 DEF Told, Tells
      <4>2. 1 \in Told(s) /\ Tells(s, 1) # "none"
        BY <1>0, <1>1, <1>6, <2>1, StreamType, DeliverTells
      <4> QED
        BY <4>1, <4>2 DEF Settled, Born
    <3> QED
      BY <3>1, <3>2, <3>3
  <2>4. CreationHasCall'
    <3> SUFFICES ASSUME NEW t \in Slots, hook[t] \in Verdict, ID(t) \notin slipped
                 PROVE  call'[Latest(t)] = "passed"
      BY <1>1, <1>2, <2>1 DEF Paths, CreationHasCall, PodNames, Verdict, ID, Group, Matches
    <3>1. Latest(t) \in PodNames /\ call[Latest(t)] = "passed" /\ Latest(t)[1] = t
      BY DEF Paths, CreationHasCall, Verdict, Latest
    <3>2. ASSUME Latest(t) = n PROVE FALSE
      <4>1. t = s
        BY <2>1, <3>1, <3>2
      <4>2. PICK m \in NamesOf(s) : call[m] = "passed" /\ m # Latest(s)
        BY <2>3, <4>1 DEF Awaited, Verdict
      <4>3. m \in PodNames /\ m[1] = s
        BY DEF NamesOf
      <4> QED
        BY <3>1, <4>1, <4>2, <4>3, OnlyOneFlies DEF Paths
    <3> QED
      BY <2>1, <3>1, <3>2
  <2>5. BirthsAwaited'
    <3> SUFFICES ASSUME NEW t \in Slots, ID(t) \notin slipped
                 PROVE  BornOnce(t)' /\ (Awaited(t)' \/ Settled(t)')
      BY <1>1 DEF BirthsAwaited, ID, Group, Matches
    <3>1. CASE t = s
      BY <1>4, <2>3, <3>1 DEF Paths, BirthsAwaited
    <3>2. CASE t # s
      <4>1. \A m \in NamesOf(t) : m \in PodNames \ {n}
        BY <2>1, <3>2 DEF NamesOf
      <4>2. Awaited(t) => Awaited(t)'
        BY <1>1, <1>2, <2>1, <4>1 DEF Awaited
      <4> QED
        BY <1>4, <4>2 DEF Paths, BirthsAwaited
    <3> QED
      BY <3>1, <3>2
  <2> QED
    BY <1>3, <2>2, <2>4, <2>5 DEF Paths
<1> QED
  BY <1>0, <1>5, <1>6, DeliverCalls

(* Steps of the tracker alone: calls pass their wait, and groups slip.     *)
LEMMA TrackerPaths ==
  ASSUME Proved!Types, Paths, slipped \subseteq slipped', TrackerStep
  PROVE  Paths'
<1>1. UNCHANGED <<api, watch, cache, hook>>
  BY DEF TrackerStep, vars
<1>2. /\ UNCHANGED <<used, callKey>>
      /\ call' \in [PodNames -> {"none", "waiting", "passed"}]
      /\ \A n \in PodNames : call'[n] = call[n] \/ (call[n] = "waiting" /\ call'[n] = "passed")
  <2>1. ASSUME NEW n \in PodNames, Tracker!Receive(n) \/ Tracker!TimeOut(n)
        PROVE  /\ UNCHANGED <<used, callKey>>
               /\ call[n] = "waiting" /\ call' = [call EXCEPT ![n] = "passed"]
    BY <2>1 DEF Tracker!Receive, Tracker!TimeOut, Tracker!Returns, Tracker!cluster
  <2>2. (\A n \in PodNames : ~ (Tracker!Receive(n) \/ Tracker!TimeOut(n)))
          => UNCHANGED <<used, callKey, call>>
    BY DEF TrackerStep, Tracker!ReconcileNotFound, Tracker!ReconcileNothing,
       Tracker!ReconcileLands, Tracker!Age, Tracker!EvictRound, Tracker!admission,
       Tracker!cluster
  <2> QED
    BY <2>1, <2>2, CallTypes
<1>3. \A t \in Slots : Latest(t)' = Latest(t) /\ NamesOf(t)' = NamesOf(t)
  BY <1>2, LatestRests
<1>4. CallsOfOwnGroup'
  BY <1>2 DEF Paths, CallsOfOwnGroup, PodNames, ID, Group, Matches
<1>5. CreationHasCall'
  <2> SUFFICES ASSUME NEW t \in Slots
               PROVE  /\ hook[t] # "idle" => Latest(t) \in PodNames
                      /\ (hook[t] \in Verdict /\ ID(t) \notin slipped')
                           => call'[Latest(t)] = "passed"
    BY <1>1, <1>3 DEF CreationHasCall, PodNames, Verdict, ID, Group, Matches
  <2> QED
    BY <1>2 DEF Paths, CreationHasCall, Verdict
<1>6. \A t \in Slots : Awaited(t) => Awaited(t)'
  <2> SUFFICES ASSUME NEW t \in Slots, NEW m \in NamesOf(t), call[m] = "passed",
                      hook[t] # "idle" => m # Latest(t)
               PROVE  Awaited(t)'
    BY DEF Awaited
  <2>1. call'[m] = "passed"
    BY <1>2 DEF NamesOf
  <2> QED
    BY <1>1, <1>3, <2>1 DEF Awaited
<1> QED
  BY <1>1, <1>4, <1>5, <1>6, QuietPaths DEF Paths, NoneEscapes

(* A quiet step of the rest.                                               *)
LEMMA UnseenPaths ==
  ASSUME TypeOK, Paths, UNCHANGED <<api, watch, cache, hook>>, UNCHANGED flying
  PROVE  Paths'
<1>1. UNCHANGED <<call, callKey, used, slipped>>
  BY DEF flying
<1>2. \A t \in Slots : Latest(t)' = Latest(t) /\ NamesOf(t)' = NamesOf(t)
  BY <1>1, LatestRests
<1>3. CallsOfOwnGroup' /\ CreationHasCall'
  BY <1>1, <1>2 DEF Paths, CallsOfOwnGroup, CreationHasCall, PodNames, ID, Group, Matches
<1>4. \A t \in Slots : Awaited(t) => Awaited(t)'
  BY <1>1, <1>2 DEF Awaited
<1> QED
  BY <1>1, <1>3, <1>4, QuietPaths DEF Paths, NoneEscapes

(* Init establishes the invariant.                                         *)
LEMMA InitPaths == InFlightInit => Paths
<1> SUFFICES ASSUME InFlightInit PROVE Paths
  OBVIOUS
<1>1. /\ \A s \in Slots : api[s] = "none" /\ cache[s] = "none" /\ hook[s] = "idle"
      /\ Len(watch) = 0 /\ DOMAIN watch = {}
      /\ \A n \in PodNames : call[n] = "none"
  BY DEF InFlightInit, Init, Tracker!Init
<1>2. \A s \in Slots : Told(s) = {0, 1} /\ \A j \in Told(s) : Tells(s, j) = "none"
  BY <1>1 DEF Told, Tells
<1> QED
  BY <1>1, <1>2 DEF Paths, CallsOfOwnGroup, CreationHasCall, BirthsAwaited, BornOnce,
     Settled, Born, NoneEscapes, Verdict

(* Every step keeps it, while flights go one at a time.                    *)
LEMMA StepPaths ==
  ASSUME Inv, Proved!Types, Tracker!OneAtATime, Paths, [InFlightNext]_all
  PROVE  Paths'
<1>1. TypeOK
  BY DEF Inv
<1>2. slipped \subseteq slipped'
  BY TrackerSteps, SameSteps, InstanceAssumption, Proved!SlippedForGood
<1>3. ASSUME NEW s \in Slots, SubmitAndTakeOff(s) PROVE Paths'
  BY <1>1, <1>2, <1>3, SubmitPaths
<1>4. ASSUME NEW s \in Slots, DecideAfterWait(s) PROVE Paths'
  <2>1. hook \in [Slots -> Hook] /\ hook[s] = "waiting"
    BY <1>1, <1>4 DEF DecideAfterWait, PassedWait, TypeOK
  <2>2. \E h \in {"allow", "block"} : hook' = [hook EXCEPT ![s] = h]
    BY <1>4 DEF DecideAfterWait, Decide
  <2>3. hook'[s] # "idle"
    BY <2>1, <2>2
  <2> QED
    BY <1>1, <1>2, <1>4, <2>2, <2>3, AnswerPaths DEF DecideAfterWait, Decide
<1>5. ASSUME NEW s \in Slots, DecideFailsAfterWait(s) PROVE Paths'
  <2>1. \E h \in {"allow", "idle"} : hook' = [hook EXCEPT ![s] = h]
    BY <1>5 DEF DecideFailsAfterWait, DecideFails
  <2> QED
    BY <1>1, <1>2, <1>5, <2>1, AnswerPaths DEF DecideFailsAfterWait, DecideFails
<1>6. ASSUME NEW s \in Slots, AbortFlight(s) PROVE Paths'
  <2>1. hook' = [hook EXCEPT ![s] = "idle"] /\ hook'[s] = "idle"
    BY <1>1, <1>6 DEF AbortFlight, Abort, TypeOK
  <2> QED
    BY <1>1, <1>2, <1>6, <2>1, AnswerPaths DEF AbortFlight, Abort
<1>7. ASSUME NEW s \in Slots, Unseen(s) PROVE Paths'
  <2>1. UNCHANGED flying
    BY <1>7 DEF Unseen
  <2>2. CASE Commit(s)
    BY <2>1, <2>2, CommitPaths
  <2>3. CASE BecomeReady(s)
    BY <1>1, <2>1, <2>3, BecomesPaths DEF BecomeReady, Phase
  <2>4. CASE BecomeUnready(s)
    BY <1>1, <2>1, <2>4, BecomesPaths DEF BecomeUnready, Phase
  <2>5. CASE Gone(s)
    BY <1>1, <2>1, <2>5, BecomesPaths DEF Gone, Removed, Phase
  <2>6. CASE Evict(s)
    <3>1. CASE Removed(s)
      BY <1>1, <2>1, <2>6, <3>1, BecomesPaths DEF Evict, Removed, Phase
    <3>2. CASE ~ Removed(s)
      BY <1>1, <2>1, <2>6, <3>2, UnseenPaths DEF Evict
    <3> QED
      BY <3>1, <3>2
  <2>7. CASE \/ BecomeOverdue(s) \/ ReconcileSkip(s) \/ ReconcileError(s)
             \/ ReconcileStart(s) \/ EvictFails(s)
    BY <1>1, <2>1, <2>7, UnseenPaths DEF BecomeOverdue, ReconcileSkip, ReconcileError,
       ReconcileStart, EvictFails, vars
  <2> QED
    BY <1>7, <2>2, <2>3, <2>4, <2>5, <2>6, <2>7 DEF Unseen
<1>8. ASSUME DeliverToBoth PROVE Paths'
  BY <1>8, DeliverPaths
<1>9. ASSUME UnseenEnd PROVE Paths'
  BY <1>1, <1>9, UnseenPaths DEF UnseenEnd, ReconcileEnd, MaxBlockedEnforced, ExpireGroup
<1>10. ASSUME TrackerStep PROVE Paths'
  BY <1>2, <1>10, TrackerPaths
<1>11. CASE UNCHANGED all
  BY <1>1, <1>11, UnseenPaths DEF all, vars
<1> QED
  BY <1>3, <1>4, <1>5, <1>6, <1>7, <1>8, <1>9, <1>10, <1>11 DEF InFlightNext

(* What is proved of the components and of their paths, together.          *)
Known == Inv /\ Proved!Types /\ Tracker!OneAtATime /\ Paths

LEMMA KnownHolds == InFlightSpec => []Known
<1>1. InFlightSpec => [](Inv /\ Proved!Types /\ Tracker!OneAtATime)
  BY Staggers, Consistency, BehavesAsProved, InstanceAssumption, Proved!TypesHold,
     OneInFlight, PTL
<1>2. (Inv /\ Proved!Types /\ Tracker!OneAtATime) /\ Paths /\ [InFlightNext]_all => Paths'
  BY StepPaths
<1> QED
  BY <1>1, <1>2, InitPaths, PTL DEF InFlightSpec, Known

(* Nobody past the wait overlooks a pod of its group that was let go:      *)
(* for any number of pods, groups and channels, and with every fault the   *)
(* composition has.                                                        *)
THEOREM NobodyOverlooked == InFlightSpec => []NoneOverlooked
<1>1. ASSUME Known, NEW s \in Slots, NEW t \in Slots, PassedWait(s), ID(s) \notin slipped,
             t # s, Group(t) = Group(s), LetGo(t)
      PROVE  Counted(t)
  <2>1. /\ TypeOK /\ StreamConsistent /\ CreationNeedsRoom /\ Tracker!OneAtATime
        /\ CallsOfOwnGroup /\ CreationHasCall /\ BirthsAwaited /\ NoneEscapes
    BY <1>1 DEF Known, Inv, Paths
  <2>2. Latest(s) \in PodNames /\ call[Latest(s)] = "passed" /\ ID(t) = ID(s)
    BY <1>1, <2>1 DEF PassedWait, CreationHasCall, ID
  <2>3. \A n \in NamesOf(t) : call[n] # "passed"
    <3> SUFFICES ASSUME NEW n \in NamesOf(t), call[n] = "passed" PROVE FALSE
      OBVIOUS
    <3>1. n \in PodNames /\ n[1] = t /\ Latest(s)[1] = s
      BY DEF NamesOf, Latest
    <3> QED
      BY <1>1, <2>1, <2>2, <3>1, OnlyOneFlies
  <2>4. Settled(t)
    BY <1>1, <2>1, <2>2, <2>3 DEF BirthsAwaited, Awaited
  <2>5. api[t] \in {"starting", "ready"}
    <3>1. hook[t] # "allow"
      BY <1>1, <2>1, <2>2, <2>3 DEF CreationHasCall, Verdict, NamesOf, Latest
    <3> QED
      BY <1>1, <3>1 DEF LetGo
  <2>6. PICK n \in Nat : n = Len(watch) /\ DOMAIN watch = 1..n
    BY <2>1, StreamType
  <2>7. n + 1 \in Told(t) /\ Tells(t, n + 1) = api[t]
    BY <2>6 DEF Told, Tells
  <2>8. \A j \in Told(t) : Tells(t, j) # "none"
    <3>1. \A j \in Told(t) : j \in 0..(n + 1)
      BY <2>1, <2>6, StreamType
    <3> QED
      BY <2>4, <2>5, <2>6, <2>7, <3>1 DEF Settled, Born
  <2>9. cache[t] \notin {"none", "plain", "held"}
    BY <2>1, <2>8 DEF NoneEscapes, Told, Tells
  <2>10. cache[t] # "blocked"
    <3> SUFFICES ASSUME cache[t] = "blocked" PROVE FALSE
      OBVIOUS
    <3>1. ~ RemovalPending(t)
      <4> SUFFICES ASSUME NEW k \in 1..n, watch[k] = Event(t, "none") PROVE FALSE
        BY <2>6 DEF RemovalPending
      <4>1. watch[k].slot = t /\ watch[k].phase = "none"
        BY DEF Event
      <4> QED
        BY <2>6, <2>8, <4>1 DEF Told, Tells
    <3> QED
      BY <2>1, <2>5, <3>1 DEF StreamConsistent, BlockedInCache, CacheSettles
  <2> QED
    BY <2>1, <2>9, <2>10 DEF Counted, TypeOK, Phase
<1>2. Known => NoneOverlooked
  BY <1>1 DEF NoneOverlooked
<1> QED
  BY <1>2, KnownHolds, PTL

-----------------------------------------------------------------------------
(***************************************************************************)
(* The refinement.  The cache lags, but what it says of a pod that was let  *)
(* go stays true: that it started, and that it is ready.  This needs pods   *)
(* that stay, and stay ready, once they are.                                *)
(***************************************************************************)
PodsLast == Faults \cap {"gone", "unready"} = {}

Lasting ==
  \A s \in Slots : \A j \in Told(s) :
    /\ Tells(s, j) = "ready" => api[s] = "ready"
    /\ Tells(s, j) = "starting" => api[s] \in {"starting", "ready"}

(* A change of a pod keeps it, if a pod that was let go becomes ready.     *)
LEMMA BecomesLasting ==
  ASSUME TypeOK, Lasting, NEW s \in Slots, NEW phase \in Phase,
         Becomes(s, phase), cache' = cache,
         api[s] \in {"starting", "ready"} => phase = "ready"
  PROVE  Lasting'
<1>1. PICK n \in Nat : n = Len(watch)
  BY StreamType
<1>2. \A t \in Slots : Told(t) \subseteq 0..(n + 1)
  BY <1>1, StreamType
<1>3. api'[s] = phase /\ \A t \in Slots \ {s} : api'[t] = api[t]
  BY DEF Becomes, TypeOK
<1> SUFFICES ASSUME NEW t \in Slots, NEW j \in Told(t)'
             PROVE  /\ Tells(t, j)' = "ready" => api'[t] = "ready"
                    /\ Tells(t, j)' = "starting" => api'[t] \in {"starting", "ready"}
  BY DEF Lasting
<1>4. CASE t = s
  <2>1. /\ Told(s)' = Told(s) \cup {n + 2}
        /\ \A i \in 0..n : Tells(s, i)' = Tells(s, i)
        /\ Tells(s, n + 1)' = phase /\ Tells(s, n + 2)' = phase
    BY <1>1, BecomesTells
  <2> QED
    BY <1>1, <1>2, <1>3, <1>4, <2>1 DEF Lasting
<1>5. CASE t # s
  <2>1. \A u \in Slots \ {s} :
         /\ Told(u)' = (Told(u) \ {n + 1}) \cup {n + 2}
         /\ \A i \in 0..n : Tells(u, i)' = Tells(u, i)
         /\ Tells(u, n + 2)' = api[u]
    BY <1>1, BecomesTells
  <2> QED
    BY <1>1, <1>2, <1>3, <1>5, <2>1 DEF Lasting
<1> QED
  BY <1>4, <1>5

(* A delivery keeps it: nothing new is told.                               *)
LEMMA DeliverLasting ==
  ASSUME TypeOK, Lasting, Deliver
  PROVE  Lasting'
<1>1. PICK n \in Nat : n = Len(watch)
  BY StreamType
<1> SUFFICES ASSUME NEW t \in Slots, NEW j \in Told(t)'
             PROVE  /\ Tells(t, j)' = "ready" => api[t] = "ready"
                    /\ Tells(t, j)' = "starting" => api[t] \in {"starting", "ready"}
  BY DEF Lasting, Deliver
<1>2. \E i \in Told(t) : Tells(t, j)' = Tells(t, i)
  <2>1. Told(t)' \subseteq 0..n
    BY <1>1, DeliverTells
  <2>2. CASE j > 0
    BY <1>1, <2>2, DeliverTells
  <2>3. CASE j = 0
    <3>1. \/ Tells(t, 0)' = Tells(t, 0)
          \/ 1 \in Told(t) /\ Tells(t, 0)' = Tells(t, 1)
      BY <1>1, DeliverTells
    <3>2. 0 \in Told(t)
      BY DEF Told
    <3> QED
      BY <2>3, <3>1, <3>2
  <2> QED
    BY <2>1, <2>2, <2>3
<1> QED
  BY <1>2 DEF Lasting

(* Every step keeps it.                                                    *)
LEMMA StepLasting ==
  ASSUME PodsLast, Inv, Paths, Lasting, [InFlightNext]_all
  PROVE  Lasting'
<1>1. TypeOK
  BY DEF Inv
<1>2. ASSUME UNCHANGED <<api, watch, cache>> PROVE Lasting'
  BY <1>2, QuietTells DEF Lasting
<1>3. ASSUME NEW s \in Slots,
             SubmitAndTakeOff(s) \/ DecideAfterWait(s) \/ DecideFailsAfterWait(s)
               \/ AbortFlight(s)
      PROVE  Lasting'
  BY <1>2, <1>3 DEF SubmitAndTakeOff, DecideAfterWait, DecideFailsAfterWait, AbortFlight,
     Submit, Decide, DecideFails, Abort
<1>4. ASSUME NEW s \in Slots, Unseen(s) PROVE Lasting'
  <2>1. CASE Commit(s)
    BY <1>1, <2>1, BecomesLasting
       DEF Commit, CreatedAs, Verdict, Phase, Inv, CreationNeedsRoom
  <2>2. CASE BecomeReady(s)
    BY <1>1, <2>2, BecomesLasting DEF BecomeReady, Phase
  <2>3. CASE BecomeUnready(s) \/ Gone(s)
    BY <2>3 DEF BecomeUnready, Gone, PodsLast
  <2>4. CASE Evict(s)
    <3>1. CASE Removed(s)
      <4>1. api[s] = "blocked"
        BY <2>4, <3>1, InFlightAssumption DEF Evict, Inv, LiveTargetIsBlocked, Removed,
           Becomes, TypeOK
      <4> QED
        BY <1>1, <2>4, <3>1, <4>1, BecomesLasting DEF Evict, Removed, Phase
    <3>2. CASE ~ Removed(s)
      BY <1>2, <2>4, <3>2 DEF Evict
    <3> QED
      BY <3>1, <3>2
  <2>5. CASE \/ BecomeOverdue(s) \/ ReconcileSkip(s) \/ ReconcileError(s)
             \/ ReconcileStart(s) \/ EvictFails(s)
    BY <1>2, <2>5 DEF BecomeOverdue, ReconcileSkip, ReconcileError, ReconcileStart,
       EvictFails, vars
  <2> QED
    BY <1>4, <2>1, <2>2, <2>3, <2>4, <2>5 DEF Unseen
<1>5. ASSUME DeliverToBoth PROVE Lasting'
  BY <1>1, <1>5, DeliverLasting DEF DeliverToBoth
<1>6. ASSUME UnseenEnd \/ TrackerStep \/ UNCHANGED all PROVE Lasting'
  BY <1>2, <1>6 DEF UnseenEnd, ReconcileEnd, MaxBlockedEnforced, ExpireGroup, TrackerStep,
     all, vars
<1> QED
  BY <1>3, <1>4, <1>5, <1>6 DEF InFlightNext

\* No error lets a pod pass that was not counted.
NoBypass == "listfail" \notin Faults \/ ~ BypassFailure

Started == {s \in Slots : LetGo(s)}
Ready == {s \in Slots : api[s] = "ready"}
Loose == {g \in Groups : GroupIDs[g] \in slipped}

(* Of what starts and what is ready, PacedStart sees nothing else.         *)
LEMMA PacedRests ==
  ASSUME slipped \subseteq slipped', Started' = Started, Ready' = Ready
  PROVE  [Paced!Next]_(Paced!vars)
<1>1. Loose \subseteq Loose' /\ Loose' \subseteq Groups
  BY DEF Loose, Groups, Group, Matches
<1>2. Groups = {[s \in Slots |-> Group(s)][p] : p \in Slots}
  BY DEF Groups
<1>3. \E S \in SUBSET Groups : Loose' = Loose \cup S
  BY <1>1
<1>4. Paced!Loosen
  BY <1>2, <1>3 DEF Paced!Loosen, Started, Ready, Loose
<1> QED
  BY <1>4 DEF Paced!Next

(* A pod admitted within the pace of its group starts in its pace.         *)
LEMMA AdmittedStarts ==
  ASSUME Known, Lasting, NoneOverlooked, NEW s \in Slots, DecideAfterWait(s),
         hook'[s] = "allow"
  PROVE  Paced!Start(s)
<1> DEFINE g == Group(s)
           seenReady == InGroup(g, "ready")
<1>1. /\ TypeOK /\ hook \in [Slots -> Hook] /\ PassedWait(s) /\ Decide(s) /\ hook[s] = "waiting"
      /\ UNCHANGED <<api, slipped>> /\ hook' = [hook EXCEPT ![s] = "allow"]
      /\ api[s] = "none"
  BY DEF DecideAfterWait, flying, PassedWait, Decide, Known, Inv, TypeOK, CreationNeedsRoom
<1>2. s \notin Started /\ Started' = Started \cup {s} /\ Ready' = Ready /\ Loose' = Loose
  <2>1. \A t \in Slots \ {s} : hook'[t] = hook[t]
    BY <1>1
  <2> QED
    BY <1>1, <2>1 DEF Started, Ready, Loose, LetGo, Groups, Group, Matches
<1>3. \A t \in Slots : /\ cache[t] = "ready" => api[t] = "ready"
                       /\ cache[t] = "starting" => api[t] \in {"starting", "ready"}
  BY DEF Lasting, Told, Tells
<1>4. ASSUME ID(s) \notin slipped PROVE Paced!RoomFor(s)
  <2>1. seenReady \in SUBSET {t \in Ready : Group(t) = g}
    BY <1>3 DEF InGroup, Ready
  <2>2. {t \in Started : Group(t) = g} \ seenReady = InGroup(g, "starting")
    <3>1. \A t \in Started : Group(t) = g /\ t \notin seenReady => cache[t] = "starting"
      BY <1>1, <1>2, <1>4 DEF NoneOverlooked, Counted, Started, InGroup
    <3> QED
      BY <1>3, <3>1 DEF InGroup, Started, LetGo
  <2>3. \A i \in DOMAIN g :
          HasRoom(Policies[i].pacer, Cardinality(seenReady), Cardinality(InGroup(g, "starting")))
    BY <1>1, AdmittedHasRoom
  <2>4. \A i \in DOMAIN PacersOf(g) :
          HasRoom(PacersOf(g)[i], Cardinality(seenReady),
                  Cardinality({t \in Started : Group(t) = g} \ seenReady))
    BY <2>2, <2>3 DEF PacersOf
  <2>5. /\ {t \in Ready : Group(t) = g} = Paced!InGroupOf(s, Ready)
        /\ {t \in Started : Group(t) = g} = Paced!InGroupOf(s, Started)
    BY DEF Paced!InGroupOf, Ready, Started
  <2>6. \A p, r, n : Paced!HasRoom(p, r, n) <=> HasRoom(p, r, n)
    BY DEF Paced!HasRoom, HasRoom, Paced!DesiredCount, DesiredCount
  <2>7. \A S : Paced!Cardinality(S) = Cardinality(S)
    BY DEF Paced!Cardinality, Cardinality
  <2>8. [t \in Slots |-> Group(t)][s] = g
    OBVIOUS
  <2> HIDE DEF g, seenReady
  <2> QED
    BY <2>1, <2>4, <2>5, <2>6, <2>7, <2>8 DEF Paced!RoomFor, Ready, Started
<1>5. [t \in Slots |-> Group(t)][s] \in Loose \/ Paced!RoomFor(s)
  BY <1>4 DEF Loose, Groups, ID
<1> QED
  BY <1>2, <1>5 DEF Paced!Start, Started, Ready, Loose

(* Every step of the composition is one of PacedStart, or a stutter.       *)
LEMMA StepIsPaced ==
  ASSUME NoBypass, PodsLast, Known, Lasting, NoneOverlooked, [InFlightNext]_all
  PROVE  [Paced!Next]_(Paced!vars)
<1>1. /\ TypeOK /\ CreationNeedsRoom /\ LiveTargetIsBlocked
      /\ api \in [Slots -> Phase] /\ hook \in [Slots -> Hook]
      /\ \A s \in Slots : hook[s] \notin {"plain", "hold"}
  BY DEF Known, Inv, TypeOK, Paths, NoneEscapes
<1>2. slipped \subseteq slipped'
  BY TrackerSteps, SameSteps, InstanceAssumption, Proved!SlippedForGood
<1>3. ASSUME UNCHANGED <<api, hook>> PROVE [Paced!Next]_(Paced!vars)
  BY <1>2, <1>3, PacedRests DEF Started, Ready, LetGo
\* The creation of one pod goes on, and no pod is let go or held back by it.
<1>4. ASSUME NEW s \in Slots, NEW h, hook' = [hook EXCEPT ![s] = h], api' = api,
             hook[s] # "allow", h # "allow"
      PROVE  [Paced!Next]_(Paced!vars)
  <2>1. \A t \in Slots : LetGo(t)' = LetGo(t)
    BY <1>1, <1>4 DEF LetGo
  <2> QED
    BY <1>2, <1>4, <2>1, PacedRests DEF Started, Ready
<1>5. ASSUME NEW s \in Slots, SubmitAndTakeOff(s) PROVE [Paced!Next]_(Paced!vars)
  BY <1>4, <1>5, InFlightAssumption DEF SubmitAndTakeOff, Submit
<1>6. ASSUME NEW s \in Slots, DecideAfterWait(s) PROVE [Paced!Next]_(Paced!vars)
  <2>1. /\ hook[s] = "waiting" /\ api' = api
        /\ \E h \in {"allow", "block"} : hook' = [hook EXCEPT ![s] = h]
    BY <1>6 DEF DecideAfterWait, Decide
  <2>2. CASE hook'[s] = "allow"
    BY <1>6, <2>2, AdmittedStarts DEF Paced!Next
  <2>3. CASE hook'[s] # "allow"
    BY <1>1, <1>4, <2>1, <2>3
  <2> QED
    BY <2>2, <2>3
<1>7. ASSUME NEW s \in Slots, DecideFailsAfterWait(s) PROVE [Paced!Next]_(Paced!vars)
  BY <1>4, <1>7, OptionsAssumption DEF DecideFailsAfterWait, DecideFails, NoBypass
<1>8. ASSUME NEW s \in Slots, AbortFlight(s) PROVE [Paced!Next]_(Paced!vars)
  <2>1. hook' = [hook EXCEPT ![s] = "idle"] /\ api' = api /\ api[s] = "none"
    BY <1>1, <1>8 DEF AbortFlight, Abort, CreationNeedsRoom, Verdict
  <2>2. CASE hook[s] = "allow"
    <3>1. s \in Started \ Ready /\ Started' = Started \ {s} /\ Ready' = Ready
      <4>1. \A t \in Slots \ {s} : LetGo(t)' = LetGo(t)
        BY <1>1, <2>1 DEF LetGo
      <4>2. LetGo(s) /\ ~ LetGo(s)'
        BY <1>1, <2>1, <2>2 DEF LetGo
      <4> QED
        BY <2>1, <4>1, <4>2 DEF Started, Ready
    <3>2. Loose' = Loose
      <4>1. slipped' = slipped
        BY <1>8 DEF AbortFlight, NotCreated, Tracker!Refused, Tracker!history
      <4> QED
        BY <4>1 DEF Loose, Groups, Group, Matches
    <3>3. Paced!Stop(s)
      BY <3>1, <3>2 DEF Paced!Stop, Started, Ready, Loose
    <3> QED
      BY <3>3 DEF Paced!Next
  <2>3. CASE hook[s] # "allow"
    BY <1>4, <2>1, <2>3
  <2> QED
    BY <2>2, <2>3
<1>9. ASSUME NEW s \in Slots, Unseen(s) PROVE [Paced!Next]_(Paced!vars)
  <2>1. slipped' = slipped
    BY <1>9 DEF Unseen, flying
  <2>2. CASE Commit(s)
    <3>1. /\ hook[s] \in {"allow", "block"} /\ api[s] = "none"
          /\ api' = [api EXCEPT ![s] = IF hook[s] = "allow" THEN "starting" ELSE "blocked"]
          /\ hook' = [hook EXCEPT ![s] = "idle"]
      <4>1. hook[s] \in {"allow", "block"} /\ api[s] = "none"
        BY <1>1, <2>2 DEF Commit, Verdict, CreationNeedsRoom
      <4>2. CreatedAs[hook[s]] = IF hook[s] = "allow" THEN "starting" ELSE "blocked"
        BY <4>1 DEF CreatedAs
      <4> QED
        BY <2>2, <4>1, <4>2 DEF Commit, Becomes
    <3>2. \A t \in Slots : LetGo(t)' = LetGo(t) /\ (api'[t] = "ready" <=> api[t] = "ready")
      BY <1>1, <3>1 DEF LetGo
    <3> QED
      BY <1>2, <3>2, PacedRests DEF Started, Ready
  <2>3. CASE BecomeReady(s)
    <3>1. /\ api[s] = "starting" /\ api' = [api EXCEPT ![s] = "ready"] /\ hook' = hook
      BY <2>3 DEF BecomeReady, Becomes
    <3>2. \A t \in Slots : LetGo(t)' = LetGo(t)
      BY <1>1, <3>1 DEF LetGo
    <3>3. s \in Started \ Ready /\ Started' = Started /\ Ready' = Ready \cup {s}
      BY <1>1, <3>1, <3>2 DEF Started, Ready, LetGo
    <3>4. Loose' = Loose
      BY <2>1 DEF Loose, Groups, Group, Matches
    <3>5. Paced!BecomeReady(s)
      BY <3>3, <3>4 DEF Paced!BecomeReady, Started, Ready, Loose
    <3> QED
      BY <3>5 DEF Paced!Next
  <2>4. CASE BecomeUnready(s) \/ Gone(s)
    BY <2>4 DEF BecomeUnready, Gone, PodsLast
  <2>5. CASE Evict(s)
    <3>1. CASE Removed(s)
      <4>1. api[s] = "blocked"
        BY <1>1, <2>5, <3>1, InFlightAssumption
           DEF Evict, LiveTargetIsBlocked, Removed, Becomes
      <4>2. api' = [api EXCEPT ![s] = "none"] /\ hook' = hook
        BY <2>5, <3>1 DEF Evict, Removed, Becomes
      <4>3. \A t \in Slots : LetGo(t)' = LetGo(t) /\ (api'[t] = "ready" <=> api[t] = "ready")
        BY <1>1, <4>1, <4>2 DEF LetGo
      <4> QED
        BY <1>2, <4>3, PacedRests DEF Started, Ready
    <3>2. CASE ~ Removed(s)
      BY <1>3, <2>5, <3>2 DEF Evict
    <3> QED
      BY <3>1, <3>2
  <2>6. CASE \/ BecomeOverdue(s) \/ ReconcileSkip(s) \/ ReconcileError(s)
             \/ ReconcileStart(s) \/ EvictFails(s)
    BY <1>3, <2>6 DEF BecomeOverdue, ReconcileSkip, ReconcileError, ReconcileStart,
       EvictFails, vars
  <2> QED
    BY <1>9, <2>2, <2>3, <2>4, <2>5, <2>6 DEF Unseen
<1>10. ASSUME DeliverToBoth \/ UnseenEnd \/ TrackerStep \/ UNCHANGED all
       PROVE  [Paced!Next]_(Paced!vars)
  BY <1>3, <1>10 DEF DeliverToBoth, Deliver, UnseenEnd, ReconcileEnd, MaxBlockedEnforced,
     ExpireGroup, TrackerStep, all, vars
<1> QED
  BY <1>5, <1>6, <1>7, <1>8, <1>9, <1>10 DEF InFlightNext

(* The composition implements PacedStart: each group starts its pods in    *)
(* its pace until it slips, for any number of pods, groups and policies,   *)
(* with refused creations, evictions and listings, as long as pods that    *)
(* were let go stay and stay ready, and no error bypasses admission.       *)
THEOREM StartsArePaced ==
  ASSUME NoBypass, PodsLast
  PROVE  InFlightSpec => PacedStarts
<1>1. InFlightInit => Paced!Init /\ Lasting
  <2> SUFFICES ASSUME InFlightInit PROVE Paced!Init /\ Lasting
    OBVIOUS
  <2>1. /\ \A s \in Slots : api[s] = "none" /\ cache[s] = "none" /\ hook[s] = "idle"
        /\ Len(watch) = 0 /\ DOMAIN watch = {} /\ slipped = {}
    BY DEF InFlightInit, Init, Tracker!Init
  <2>2. \A s \in Slots : \A j \in Told(s) : Tells(s, j) = "none"
    BY <2>1 DEF Told, Tells
  <2> QED
    BY <2>1, <2>2 DEF Paced!Init, LetGo, Lasting
<1>2. Known /\ Lasting /\ [InFlightNext]_all => Lasting'
  BY StepLasting DEF Known
<1>3. Known /\ Lasting /\ NoneOverlooked /\ [InFlightNext]_all => [Paced!Next]_(Paced!vars)
  BY StepIsPaced
<1> QED
  BY <1>1, <1>2, <1>3, KnownHolds, NobodyOverlooked, PTL DEF InFlightSpec, PacedStarts, Paced!Spec

-----------------------------------------------------------------------------
(***************************************************************************)
(* The theorem about PacedStart, for this instance of it.  Bounded is the   *)
(* instance of PacedStartProofs, whose definitions are those of Paced.      *)
(***************************************************************************)
Bounded == INSTANCE PacedStartProofs WITH
  Members <- Slots,
  GroupOf <- [s \in Slots |-> Group(s)],
  Pacing <- PacersOf,
  started <- {s \in Slots : LetGo(s)},
  ready <- {s \in Slots : api[s] = "ready"},
  loose <- {g \in Groups : GroupIDs[g] \in slipped}

(* The pods are finitely many, and their policies have pacers.             *)
LEMMA PacersConfigured == Bounded!Configured
<1>1. Bounded!IsFiniteSet(Slots)
  BY SlotsAssumption DEF IsFiniteSet, Bounded!IsFiniteSet
<1>2. Bounded!Pacer = Pacer
  BY DEF Bounded!Pacer, Pacer, Bounded!LinearPacer, LinearPacer, Bounded!ExponentialPacer,
     ExponentialPacer
<1>3. \A s \in Slots : \A i \in DOMAIN PacersOf(Group(s)) : PacersOf(Group(s))[i] \in Pacer
  BY PolicyAssumption DEF PacersOf, Group
<1> QED
  BY <1>1, <1>2, <1>3 DEF Bounded!Configured

(* The two instances of PacedStart agree.                                  *)
LEMMA SamePace ==
  /\ Paced!Init => Bounded!Init
  /\ [Paced!Next]_(Paced!vars) => [Bounded!Next]_(Bounded!vars)
  /\ Bounded!WithinBatch => Paced!WithinBatch
<1>1. \A S : Paced!Cardinality(S) = Bounded!Cardinality(S)
  BY DEF Paced!Cardinality, Bounded!Cardinality
<1>2. \A p, S : Paced!InGroupOf(p, S) = Bounded!InGroupOf(p, S)
  BY DEF Paced!InGroupOf, Bounded!InGroupOf
<1>3. \A p, r : Paced!DesiredCount(p, r) = Bounded!DesiredCount(p, r)
  BY DEF Paced!DesiredCount, Bounded!DesiredCount
<1>4. \A p, r, n : Paced!HasRoom(p, r, n) <=> Bounded!HasRoom(p, r, n)
  BY <1>3 DEF Paced!HasRoom, Bounded!HasRoom
<1>5. \A p, r : Paced!Batch(p, r) = Bounded!Batch(p, r)
  BY <1>3 DEF Paced!Batch, Bounded!Batch, Paced!GreaterOf, Bounded!GreaterOf
<1>6. \A p : Paced!RoomFor(p) => Bounded!RoomFor(p)
  BY <1>1, <1>2, <1>4 DEF Paced!RoomFor, Bounded!RoomFor
<1>7. \A p : Paced!Start(p) => Bounded!Start(p)
  BY <1>6 DEF Paced!Start, Bounded!Start
<1>8. \A p : Paced!BecomeReady(p) => Bounded!BecomeReady(p)
  BY DEF Paced!BecomeReady, Bounded!BecomeReady
<1>9. \A p : Paced!Stop(p) => Bounded!Stop(p)
  BY DEF Paced!Stop, Bounded!Stop
<1>10. Paced!Loosen => Bounded!Loosen
  BY DEF Paced!Loosen, Bounded!Loosen
<1>11. Paced!Next => Bounded!Next
  BY <1>7, <1>8, <1>9, <1>10 DEF Paced!Next, Bounded!Next
<1>12. UNCHANGED Paced!vars => UNCHANGED Bounded!vars
  BY DEF Paced!vars, Bounded!vars
<1>13. Bounded!WithinBatch => Paced!WithinBatch
  BY <1>1, <1>2, <1>5 DEF Paced!WithinBatch, Bounded!WithinBatch
<1>14. Paced!Init => Bounded!Init
  BY DEF Paced!Init, Bounded!Init
<1> QED
  BY <1>11, <1>12, <1>13, <1>14

(* The cluster never has a stampede: of a group that has not slipped, no   *)
(* more pods than a batch of each of its pacers start at a time, for any   *)
(* number of pods and any pacers, under what the refinement assumes.       *)
THEOREM NoStampedeEver ==
  ASSUME NoBypass, PodsLast
  PROVE  InFlightSpec => []NoStampede
BY StartsArePaced, SamePace, PacersConfigured, Bounded!StartsWithinBatch, PTL
   DEF PacedStarts, Paced!Spec, Bounded!Spec, NoStampede
=============================================================================
