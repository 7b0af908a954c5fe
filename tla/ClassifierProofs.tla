-------------------------- MODULE ClassifierProofs --------------------------
(***************************************************************************)
(* What holds of Classifier for any configs, pods and labels: types, that   *)
(* the list of names and the configs stay in step, that the label of a pod  *)
(* leads to a group of its policies and keys; and, as long as configs are   *)
(* only added, that a group paces by its own policies, and that groups are  *)
(* what policies and keys make of them where expressions yield keys of      *)
(* their own.                                                               *)
(***************************************************************************)
EXTENDS Classifier, TLAPS, SequenceTheorems, WellFoundedInduction

-----------------------------------------------------------------------------
(***************************************************************************)
(* The configs and the list of their names.                                 *)
(***************************************************************************)

(* RemoveAt takes out one place and moves the later ones up.               *)
LEMMA RemoveAtMoves ==
  ASSUME NEW S, NEW s \in Seq(S), NEW i \in DOMAIN s
  PROVE  /\ RemoveAt(s, i) \in Seq(S) /\ DOMAIN RemoveAt(s, i) = 1..(Len(s) - 1)
         /\ \A j \in 1..(Len(s) - 1) :
              RemoveAt(s, i)[j] = IF j < i THEN s[j] ELSE s[j + 1]
<1> DEFINE before == SubSeq(s, 1, i - 1)
           after == SubSeq(s, i + 1, Len(s))
<1>1. /\ Len(s) \in Nat /\ i \in 1..Len(s)
      /\ \A j \in 1..Len(s) : s[j] \in S
  OBVIOUS
<1>2. /\ before \in Seq(S) /\ Len(before) = i - 1
      /\ \A j \in 1..(i - 1) : before[j] = s[j]
  BY <1>1, SubSeqProperties
<1>3. /\ after \in Seq(S) /\ Len(after) = Len(s) - i
      /\ \A j \in 1..(Len(s) - i) : after[j] = s[i + j]
  BY <1>1, SubSeqProperties
<1>4. RemoveAt(s, i) = before \o after
  BY DEF RemoveAt
<1> HIDE DEF before, after
<1>5. /\ before \o after \in Seq(S)
      /\ Len(before \o after) = Len(before) + Len(after)
      /\ \A j \in 1..(Len(before) + Len(after)) :
           (before \o after)[j] =
             IF j <= Len(before) THEN before[j] ELSE after[j - Len(before)]
  BY <1>2, <1>3, ConcatProperties
<1>6. before \o after \in Seq(S) /\ Len(before \o after) = Len(s) - 1
  BY <1>1, <1>2, <1>3, <1>5
<1>7. Len(before) + Len(after) = Len(s) - 1
  BY <1>1, <1>2, <1>3
<1>8. ASSUME NEW j \in 1..(Len(s) - 1)
      PROVE  (before \o after)[j] = IF j < i THEN s[j] ELSE s[j + 1]
  <2>1. /\ i \in Nat /\ j \in Nat /\ 1 <= j /\ j <= Len(s) - 1
        /\ (before \o after)[j] = IF j <= i - 1 THEN before[j] ELSE after[j - (i - 1)]
    <3>1. /\ i \in Nat /\ j \in Nat /\ 1 <= j /\ j <= Len(s) - 1
          /\ j \in 1..(Len(before) + Len(after))
      BY <1>1, <1>7
    <3>2. (before \o after)[j] =
            IF j <= Len(before) THEN before[j] ELSE after[j - Len(before)]
      BY <1>5, <3>1
    <3> QED
      BY <1>2, <3>1, <3>2
  <2>2. CASE j < i
    <3>1. j \in 1..(i - 1) /\ j <= i - 1
      BY <2>1, <2>2
    <3> QED
      BY <1>2, <2>1, <2>2, <3>1
  <2>3. CASE ~ j < i
    <3>1. /\ ~ j <= i - 1 /\ j - (i - 1) \in 1..(Len(s) - i)
          /\ i + (j - (i - 1)) = j + 1
      BY <1>1, <2>1, <2>3
    <3> QED
      BY <1>3, <2>1, <2>3, <3>1
  <2> QED
    BY <2>2, <2>3
<1> QED
  BY <1>1, <1>4, <1>6, <1>8

Configured ==
  /\ DOMAIN configs \subseteq Names
  /\ \A n \in DOMAIN configs : configs[n] \in Configs /\ configs[n].name = n
  /\ configNames \in Seq(Names)

Lists == Configured /\ ConfigsListed

(* Adding, removing and updating keep names and configs in step.           *)
LEMMA ListsStep == Lists /\ [Next]_vars => Lists'
<1> SUFFICES ASSUME Lists, [Next]_vars PROVE Lists'
  OBVIOUS
<1> USE DEF Lists, Configured, ConfigsListed, EachListedOnce, Listed
<1>0. CASE UNCHANGED <<configs, configNames>>
  BY <1>0
<1>1. ASSUME NEW c \in Configs, AddConfig(c) PROVE Lists'
  <2>1. /\ c.name \in Names /\ c.name \notin DOMAIN configs
        /\ configs' = With(configs, c.name, c)
        /\ configNames' = Append(configNames, c.name)
        /\ \A n \in DOMAIN configs : configs[n].expr # c.expr
    BY <1>1 DEF AddConfig, NewExpression, Names
  <2>2. /\ configNames' \in Seq(Names)
        /\ Len(configNames') = Len(configNames) + 1
        /\ DOMAIN configNames = 1..Len(configNames)
        /\ DOMAIN configNames' = 1..(Len(configNames) + 1)
        /\ \A i \in 1..Len(configNames) : configNames'[i] = configNames[i]
        /\ configNames'[Len(configNames) + 1] = c.name
    BY <2>1, AppendProperties
  <2>3. Configured'
    BY <2>1, <2>2 DEF With
  <2>4. Listed' = Listed \cup {c.name}
    BY <2>2
  <2>5. EachListedOnce'
    BY <2>1, <2>2
  <2>6. \A m, n \in DOMAIN configs' : configs'[m].expr = configs'[n].expr => m = n
    BY <2>1 DEF With
  <2>7. Listed' \subseteq DOMAIN configs'
    BY <2>1, <2>4 DEF With
  <2> QED
    BY <2>3, <2>5, <2>6, <2>7
<1>2. ASSUME NEW n \in Names, RemoveConfig(n) PROVE Lists'
  <2>1. configs' = Without(configs, n)
    BY <1>2 DEF RemoveConfig
  <2>2. /\ DOMAIN configs' \subseteq Names
        /\ \A m \in DOMAIN configs' : configs'[m] \in Configs /\ configs'[m].name = m
        /\ \A l, m \in DOMAIN configs' : configs'[l].expr = configs'[m].expr => l = m
    BY <2>1 DEF Without
  <2>3. /\ configNames' \in Seq(Names) /\ EachListedOnce'
        /\ Listed' \subseteq Listed \ {n}
    <3>1. CASE n \notin Listed /\ configNames' = configNames
      BY <3>1
    <3>2. ASSUME NEW i \in DOMAIN configNames, configNames[i] = n,
                 configNames' = RemoveAt(configNames, i)
          PROVE  /\ configNames' \in Seq(Names) /\ EachListedOnce'
                 /\ Listed' \subseteq Listed \ {n}
      <4>1. /\ DOMAIN configNames = 1..Len(configNames)
            /\ Len(configNames) \in Nat
            /\ configNames' \in Seq(Names)
            /\ DOMAIN configNames' = 1..(Len(configNames) - 1)
            /\ \A j \in 1..(Len(configNames) - 1) :
                 configNames'[j] = IF j < i THEN configNames[j] ELSE configNames[j + 1]
        <5>1. /\ configNames \in Seq(Names) /\ DOMAIN configNames = 1..Len(configNames)
              /\ Len(configNames) \in Nat
          OBVIOUS
        <5>2. /\ RemoveAt(configNames, i) \in Seq(Names)
              /\ DOMAIN RemoveAt(configNames, i) = 1..(Len(configNames) - 1)
              /\ \A j \in 1..(Len(configNames) - 1) :
                   RemoveAt(configNames, i)[j] =
                     IF j < i THEN configNames[j] ELSE configNames[j + 1]
          <6> HIDE DEF Lists
          <6> QED
            BY <3>2, <5>1, RemoveAtMoves
        <5> QED
          BY ONLY <3>2, <5>1, <5>2
      <4>2. EachListedOnce'
        <5> DEFINE old(j) == IF j < i THEN j ELSE j + 1
        <5>1. /\ i \in 1..Len(configNames)
              /\ \A j \in DOMAIN configNames' :
                   old(j) \in DOMAIN configNames /\ configNames'[j] = configNames[old(j)]
          BY <3>2, <4>1
        <5>2. \A j, k \in DOMAIN configNames' : old(j) = old(k) => j = k
          BY <4>1, <5>1
        <5> HIDE DEF old
        <5> QED
          BY <5>1, <5>2
      <4>3. Listed' \subseteq Listed \ {n}
        BY <3>2, <4>1
      <4> QED
        BY <4>1, <4>2, <4>3
    <3> QED
      BY <1>2, <3>1, <3>2 DEF RemoveConfig
  <2> QED
    BY <2>1, <2>2, <2>3 DEF Without
<1>3. ASSUME NEW c \in Configs, UpdateConfig(c) PROVE Lists'
  <2>1. /\ configs' = With(configs, c.name, c) /\ configNames' = configNames
        /\ \A n \in DOMAIN configs : configs[n].expr # c.expr
        /\ c.name \in Names
    BY <1>3 DEF UpdateConfig, NewExpression, Names
  <2> QED
    BY <2>1 DEF With
<1> QED
  BY <1>0, <1>1, <1>2, <1>3 DEF Next, Classify, ExpirePacer, ExpireGroup, vars

LEMMA ListsHold == Spec => []Lists
<1>1. Init => Lists
  BY DEF Init, Lists, Configured, ConfigsListed, EachListedOnce, Listed, Empty
<1> QED
  BY <1>1, ListsStep, PTL DEF Spec

(* However configs are added, removed and updated, every listed name has   *)
(* its config, is listed once, and no two configs share an expression.     *)
THEOREM ListsInStep == Spec => []ConfigsListed
BY ListsHold, PTL DEF Lists

-----------------------------------------------------------------------------
(***************************************************************************)
(* Types of the caches: the config that makes a missing pacer exists.       *)
(***************************************************************************)

LEMMA LeastNumber ==
  ASSUME NEW T \in SUBSET Nat, T # {}
  PROVE  \E x \in T : \A y \in T : x <= y
<1>1. PICK x \in T : \A y \in T : ~ (<<y, x>> \in OpToRel(<, Nat))
  BY NatLessThanWellFounded, WFMin
<1>2. \A y \in T : y \in Nat /\ x \in Nat /\ ~ (<<y, x>> \in OpToRel(<, Nat))
  BY <1>1
<1>3. \A y \in T : y \in Nat /\ x \in Nat /\ ~ y < x
  BY <1>2 DEF OpToRel
<1>4. \A y \in T : x <= y
  BY ONLY <1>3
<1> QED
  BY <1>4

(* Among the configs that yield a key for a pod one comes first.           *)
LEMMA FirstExists ==
  ASSUME Lists, NEW p \in Pods, NEW n \in Matched(p)
  PROVE  LET m == FirstFor(p, KeyOf(p, n))
         IN  m \in Matched(p) /\ KeyOf(p, m) = KeyOf(p, n)
<1> DEFINE key == KeyOf(p, n)
           places == {i \in DOMAIN configNames :
                        configNames[i] \in Matched(p) /\ KeyOf(p, configNames[i]) = key}
<1>1. places \in SUBSET Nat /\ places # {}
  BY DEF Lists, Configured, Matched, Listed
<1>2. PICK i \in places : \A j \in places : i <= j
  BY <1>1, LeastNumber
<1>3. ASSUME NEW m \in Matched(p), KeyOf(p, m) = key
      PROVE  m = configNames[i] \/ Before(configNames[i], m)
  <2>1. PICK j \in DOMAIN configNames : configNames[j] = m
    BY DEF Matched, Listed
  <2>2. i \in Nat /\ j \in Nat /\ i <= j
    BY <1>1, <1>2, <1>3, <2>1
  <2>3. CASE i = j
    BY <2>1, <2>3
  <2>4. CASE i < j
    BY <2>1, <2>4 DEF Before
  <2> QED
    BY <2>2, <2>3, <2>4
<1>4. \E m \in Matched(p) :
        /\ KeyOf(p, m) = key
        /\ \A l \in Matched(p) : KeyOf(p, l) = key => l = m \/ Before(m, l)
  <2>1. configNames[i] \in Matched(p) /\ KeyOf(p, configNames[i]) = key
    BY <1>2
  <2> QED
    BY <1>3, <2>1
<1> HIDE DEF key
<1>5. FirstFor(p, key) \in Matched(p) /\ KeyOf(p, FirstFor(p, key)) = key
  BY <1>4 DEF FirstFor
<1> QED
  BY <1>5 DEF key

(* A pacer that is made for a matched config is a pacer for its key.       *)
LEMMA NewIsPacer ==
  ASSUME Lists, NEW p \in Pods, NEW n \in Matched(p), NEW m \in Matched(p)
  PROVE  New(configs[m].factory, KeyOf(p, n)) \in Pacer
<1> DEFINE factories == {c.factory : c \in Configs}
           keys == UNION {{Value[q][c.expr] : c \in Configs} : q \in Pods}
<1>1. /\ configs[n] \in Configs /\ configs[m] \in Configs
      /\ Value[p][configs[n].expr] # NoKey
  BY DEF Lists, Configured, ConfigsListed, Matched, Matches
<1>2. configs[m].factory \in factories
  BY <1>1
<1>3. KeyOf(p, n) \in keys \ {NoKey}
  <2>1. Value[p][configs[n].expr] \in {Value[p][c.expr] : c \in Configs}
    BY <1>1
  <2> QED
    BY <1>1, <2>1 DEF KeyOf
<1>4. Pacer = [factory : factories, key : keys \ {NoKey}]
  BY DEF Pacer
<1> HIDE DEF factories, keys
<1> QED
  BY <1>2, <1>3, <1>4 DEF New

LEMMA PacerForIsPacer ==
  ASSUME TypeOK, Lists, NEW p \in Pods, NEW n \in Matched(p)
  PROVE  PacerFor(p, n) \in Pacer
BY FirstExists, NewIsPacer DEF TypeOK, PacerFor

(* Every step keeps the types.                                             *)
LEMMA TypeStep == TypeOK /\ Lists /\ Lists' /\ [Next]_vars => TypeOK'
<1> SUFFICES ASSUME TypeOK, Lists, Lists', [Next]_vars PROVE TypeOK'
  OBVIOUS
<1>0. DOMAIN configs' \subseteq Names
      /\ (\A n \in DOMAIN configs' : configs'[n] \in Configs /\ configs'[n].name = n)
      /\ configNames' \in Seq(Names)
  BY DEF Lists, Configured
<1>1. CASE UNCHANGED vars
  BY <1>1 DEF vars, TypeOK
<1>2. ASSUME NEW c \in Configs, AddConfig(c) PROVE TypeOK'
  BY <1>0, <1>2 DEF AddConfig, TypeOK
<1>3. ASSUME NEW c \in Configs, UpdateConfig(c) PROVE TypeOK'
  BY <1>0, <1>3 DEF UpdateConfig, TypeOK
<1>4. ASSUME NEW n \in Names, RemoveConfig(n) PROVE TypeOK'
  BY <1>0, <1>4 DEF RemoveConfig, TypeOK
<1>5. ASSUME NEW p \in Pods, Classify(p) PROVE TypeOK'
  <2> DEFINE pacers == PacersFor(p)
             id == GroupID(pacers)
  <2>1. ASSUME NEW k \in DOMAIN pacersByKey'
        PROVE  pacersByKey'[k] \in Pacer /\ pacersByKey'[k].key = k
    <3>1. CASE k \in DOMAIN pacersByKey
      BY <1>5, <3>1 DEF Classify, TypeOK
    <3>2. CASE k \notin DOMAIN pacersByKey
      <4>1. PICK n \in Matched(p) : k = KeyOf(p, n)
        BY <1>5, <2>1, <3>2 DEF Classify
      <4>2. pacersByKey'[k] = New(configs[FirstFor(p, k)].factory, k)
        BY <1>5, <2>1, <3>2 DEF Classify
      <4>3. FirstFor(p, k) \in Matched(p)
        BY <4>1, FirstExists
      <4>4. New(configs[FirstFor(p, k)].factory, k) \in Pacer
        BY <4>1, <4>3, NewIsPacer
      <4> QED
        BY <4>2, <4>4 DEF New
    <3> QED
      BY <3>1, <3>2
  <2>2. DOMAIN pacers \subseteq Names /\ \A n \in DOMAIN pacers : pacers[n] \in Pacer
    BY PacerForIsPacer DEF PacersFor, Matched, Lists, ConfigsListed, Configured
  <2>3. groupsByID' = groupsByID \/ groupsByID' = With(groupsByID, id, pacers)
    BY <1>5 DEF Classify
  <2> HIDE DEF pacers, id
  <2>4. \A i \in DOMAIN groupsByID' :
          /\ DOMAIN groupsByID'[i] \subseteq Names
          /\ \A n \in DOMAIN groupsByID'[i] : groupsByID'[i][n] \in Pacer
    BY <2>2, <2>3 DEF With, TypeOK
  <2>5. DOMAIN assigned' = Pods /\ rewired' \in BOOLEAN
    BY <1>5 DEF Classify, TypeOK
  <2> QED
    BY <1>0, <2>1, <2>4, <2>5 DEF TypeOK
<1>6. ASSUME NEW k \in DOMAIN pacersByKey, ExpirePacer(k) PROVE TypeOK'
  BY <1>6 DEF ExpirePacer, Without, TypeOK
<1>7. ASSUME NEW i \in DOMAIN groupsByID, ExpireGroup(i) PROVE TypeOK'
  BY <1>7 DEF ExpireGroup, Without, TypeOK
<1> QED
  BY <1>1, <1>2, <1>3, <1>4, <1>5, <1>6, <1>7 DEF Next

(* Every variable keeps to its type: Classify always finds a factory for a *)
(* key that has no pacer, and caches each pacer under its own key.         *)
THEOREM TypeCorrect == Spec => []TypeOK
<1>1. Init => TypeOK
  <2> SUFFICES ASSUME Init PROVE TypeOK
    OBVIOUS
  <2>1. /\ DOMAIN configs = {} /\ DOMAIN pacersByKey = {} /\ DOMAIN groupsByID = {}
        /\ configNames \in Seq(Names) /\ DOMAIN assigned = Pods
    BY DEF Init, Empty
  <2>2. rewired \in BOOLEAN
    BY DEF Init
  <2> QED
    BY <2>1, <2>2 DEF TypeOK
<1> QED
  BY <1>1, ListsHold, TypeStep, PTL DEF Spec

-----------------------------------------------------------------------------
(***************************************************************************)
(* Group IDs.  A pod's ID tells its keys, and a group's ID its pacers.      *)
(***************************************************************************)
IDsTellKeys ==
  \A p \in Classified :
    assigned[p].keys = [n \in DOMAIN assigned[p].id.pacers |-> assigned[p].id.pacers[n][2]]

IDsTellPacers ==
  \A id \in DOMAIN groupsByID :
    id.pacers = [n \in DOMAIN groupsByID[id] |-> PacerID(groupsByID[id][n])]

\* Whether a pacer is found or made, it is one for the key.
LEMMA PacerHasKey ==
  ASSUME TypeOK, NEW p \in Pods, NEW n \in Matched(p)
  PROVE  PacerFor(p, n).key = KeyOf(p, n)
BY DEF TypeOK, PacerFor, New

LEMMA ClassifiedKeys ==
  ASSUME TypeOK, NEW p \in Pods
  PROVE  KeysMatched(p) = [n \in DOMAIN GroupID(PacersFor(p)).pacers |->
                             GroupID(PacersFor(p)).pacers[n][2]]
<1>1. GroupID(PacersFor(p)).pacers = [n \in Matched(p) |-> PacerID(PacerFor(p, n))]
  BY DEF GroupID, PacersFor
<1>2. \A n \in Matched(p) : PacerID(PacerFor(p, n))[2] = KeyOf(p, n)
  BY PacerHasKey DEF PacerID
<1> QED
  BY <1>1, <1>2 DEF KeysMatched

(* Every step keeps what IDs tell.                                         *)
LEMMA IDsStep ==
  TypeOK /\ IDsTellKeys /\ IDsTellPacers /\ [Next]_vars => IDsTellKeys' /\ IDsTellPacers'
<1> SUFFICES ASSUME TypeOK, IDsTellKeys, IDsTellPacers, [Next]_vars
             PROVE  IDsTellKeys' /\ IDsTellPacers'
  OBVIOUS
<1>1. ASSUME NEW p \in Pods, Classify(p) PROVE IDsTellKeys' /\ IDsTellPacers'
  <2> DEFINE pacers == PacersFor(p)
             id == GroupID(pacers)
             keys == KeysMatched(p)
  <2>1. /\ groupsByID' = groupsByID \/ groupsByID' = With(groupsByID, id, pacers)
        /\ assigned' = [assigned EXCEPT ![p] = [id |-> id, keys |-> keys]]
        /\ DOMAIN assigned = Pods
    BY <1>1 DEF Classify, TypeOK
  <2>2. /\ id.pacers = [n \in DOMAIN pacers |-> PacerID(pacers[n])]
        /\ keys = [n \in DOMAIN id.pacers |-> id.pacers[n][2]]
    BY ClassifiedKeys DEF GroupID
  <2> HIDE DEF pacers, id, keys
  <2>3. IDsTellKeys'
    BY <2>1, <2>2 DEF IDsTellKeys, Classified
  <2>4. IDsTellPacers'
    BY <2>1, <2>2 DEF With, IDsTellPacers
  <2> QED
    BY <2>3, <2>4
<1>2. ASSUME NEW i \in DOMAIN groupsByID, ExpireGroup(i) PROVE IDsTellKeys' /\ IDsTellPacers'
  BY <1>2 DEF ExpireGroup, Without, IDsTellKeys, IDsTellPacers, Classified
<1>3. CASE UNCHANGED <<groupsByID, assigned>>
  BY <1>3 DEF IDsTellKeys, IDsTellPacers, Classified
<1> QED
  BY <1>1, <1>2, <1>3
     DEF Next, AddConfig, UpdateConfig, RemoveConfig, ExpirePacer, vars

LEMMA IDsTell == Spec => [](IDsTellKeys /\ IDsTellPacers)
<1>1. Init => IDsTellKeys /\ IDsTellPacers
  BY DEF Init, IDsTellKeys, IDsTellPacers, Classified, Empty
<1> QED
  BY <1>1, TypeCorrect, IDsStep, PTL DEF Spec

(* The label a pod was given leads to a group of the pod's own policies    *)
(* and keys, if to any, whoever has made the group and whatever became of  *)
(* the configs since.                                                      *)
THEOREM PodsFindTheirGroups == Spec => []GroupsServeTheirPods
<1>1. IDsTellKeys /\ IDsTellPacers => GroupsServeTheirPods
  <2> SUFFICES ASSUME IDsTellKeys, IDsTellPacers, NEW p \in Classified,
                      assigned[p].id \in DOMAIN groupsByID
               PROVE  LET group == groupsByID[assigned[p].id]
                      IN  [n \in DOMAIN group |-> group[n].key] = assigned[p].keys
    BY DEF GroupsServeTheirPods
  <2> DEFINE id == assigned[p].id
             group == groupsByID[id]
  <2>1. id.pacers = [n \in DOMAIN group |-> PacerID(group[n])]
    BY DEF IDsTellPacers
  <2>2. \A n \in DOMAIN group : PacerID(group[n])[2] = group[n].key
    BY DEF PacerID
  <2>3. assigned[p].keys = [n \in DOMAIN id.pacers |-> id.pacers[n][2]]
    BY DEF IDsTellKeys
  <2> QED
    BY <2>1, <2>2, <2>3
<1> QED
  BY <1>1, IDsTell, PTL

-----------------------------------------------------------------------------
(***************************************************************************)
(* Groups are what policies and keys make of them.                          *)
(***************************************************************************)

\* The ID of a pod with these keys if every config makes its own pacers.
OwnID(keys) == GroupID([n \in DOMAIN keys |-> New(configs[n].factory, keys[n])])

\* Until a config is replaced: a cached pacer comes from a config that yields its
\* key, and a pod whose keys no other config yields has the ID of its own pacers.
Untouched ==
  /\ \A k \in DOMAIN pacersByKey :
       \E n \in Yielding(k) : pacersByKey[k] = New(configs[n].factory, k)
  /\ \A p \in Classified :
       /\ DOMAIN assigned[p].keys \subseteq Listed
       /\ KeysApart(assigned[p].keys) => assigned[p].id = OwnID(assigned[p].keys)

OwnGroups == OwnPacers /\ (~ rewired => Untouched)

(* A key of its own tells the config that yields it.                       *)
LEMMA KeyTellsConfig ==
  ASSUME Lists, NEW p \in Pods, NEW n \in Matched(p), KeyApart(KeyOf(p, n)),
         NEW m \in Yielding(KeyOf(p, n))
  PROVE  m = n
<1>1. m \in DOMAIN configs /\ n \in DOMAIN configs
  BY DEF Lists, ConfigsListed, Matched, Yielding
<1>2. configs[m] \in Configs /\ configs[n] \in Configs
  BY <1>1 DEF Lists, Configured
<1>3. PICK q \in Pods : Value[q][configs[m].expr] = KeyOf(p, n)
  BY DEF Yielding
<1>4. configs[m].expr = configs[n].expr
  BY <1>2, <1>3 DEF KeyApart, KeyOf
<1> QED
  BY <1>1, <1>4 DEF Lists, ConfigsListed

(* A pacer that Classify finds or makes comes from a config that yields    *)
(* the key.                                                                *)
LEMMA PacerYielded ==
  ASSUME Lists, Untouched, NEW p \in Pods, NEW n \in Matched(p)
  PROVE  /\ n \in Yielding(KeyOf(p, n))
         /\ \E m \in Yielding(KeyOf(p, n)) :
              PacerFor(p, n) = New(configs[m].factory, KeyOf(p, n))
<1>1. \A m \in Matched(p) : KeyOf(p, m) = KeyOf(p, n) => m \in Yielding(KeyOf(p, n))
  BY DEF Yielding, KeyOf, Lists, ConfigsListed, Matched
<1>2. CASE KeyOf(p, n) \in DOMAIN pacersByKey
  BY <1>1, <1>2 DEF Untouched, PacerFor
<1>3. CASE KeyOf(p, n) \notin DOMAIN pacersByKey
  <2>1. FirstFor(p, KeyOf(p, n)) \in Yielding(KeyOf(p, n))
    BY <1>1, FirstExists
  <2> QED
    BY <1>1, <1>3, <2>1 DEF PacerFor
<1> QED
  BY <1>2, <1>3

LEMMA OwnIDFound ==
  ASSUME Lists, Untouched, NEW p \in Pods, KeysApart(KeysMatched(p))
  PROVE  GroupID(PacersFor(p)) = OwnID(KeysMatched(p))
<1>1. ASSUME NEW n \in Matched(p)
      PROVE  PacerFor(p, n) = New(configs[n].factory, KeyOf(p, n))
  <2>1. KeyApart(KeyOf(p, n))
    BY DEF KeysApart, KeysMatched
  <2> QED
    BY <2>1, PacerYielded, KeyTellsConfig
<1>2. PacersFor(p) =
        [n \in DOMAIN KeysMatched(p) |-> New(configs[n].factory, KeysMatched(p)[n])]
  BY <1>1 DEF PacersFor, KeysMatched
<1> QED
  BY <1>2 DEF OwnID

(* The ID of listed configs stays the same when another one is added.      *)
LEMMA OwnIDStays ==
  ASSUME Lists, NEW c \in Configs, AddConfig(c), NEW keys, DOMAIN keys \subseteq Listed
  PROVE  OwnID(keys)' = OwnID(keys) /\ DOMAIN keys \subseteq Listed'
<1>1. /\ configs' = With(configs, c.name, c) /\ c.name \notin DOMAIN configs
      /\ configNames' = Append(configNames, c.name)
      /\ configNames \in Seq(Names) /\ c.name \in Names
  BY DEF AddConfig, Lists, Configured, Names
<1>2. /\ Len(configNames) \in Nat
      /\ DOMAIN configNames = 1..Len(configNames)
      /\ DOMAIN configNames' = 1..(Len(configNames) + 1)
      /\ \A i \in 1..Len(configNames) : configNames'[i] = configNames[i]
      /\ configNames'[Len(configNames) + 1] = c.name
  BY <1>1, AppendProperties
<1>3. Listed \subseteq DOMAIN configs /\ c.name \notin Listed
  BY <1>1 DEF Lists, ConfigsListed
<1>4. \A n \in DOMAIN keys : configs'[n] = configs[n]
  BY <1>1, <1>3 DEF With
<1>5. ASSUME NEW m \in Listed, NEW n \in Listed PROVE Before(m, n)' <=> Before(m, n)
  <2>1. ASSUME Before(m, n) PROVE Before(m, n)'
    BY <1>2, <2>1 DEF Before
  <2>2. ASSUME Before(m, n)' PROVE Before(m, n)
    <3>1. PICK i \in DOMAIN configNames', j \in DOMAIN configNames' :
            i < j /\ configNames'[i] = m /\ configNames'[j] = n
      BY <2>2 DEF Before
    <3>2. i # Len(configNames) + 1 /\ j # Len(configNames) + 1
      BY <1>2, <1>3, <3>1
    <3>3. /\ i \in DOMAIN configNames /\ j \in DOMAIN configNames
          /\ configNames[i] = m /\ configNames[j] = n
      BY <1>2, <3>1, <3>2
    <3> QED
      BY <3>1, <3>3 DEF Before
  <2> QED
    BY <2>1, <2>2
<1> DEFINE pacers == [n \in DOMAIN keys |-> New(configs[n].factory, keys[n])]
<1>6. pacers' = pacers
  BY <1>4 DEF New
<1>7. DOMAIN pacers = DOMAIN keys
  OBVIOUS
<1> HIDE DEF pacers
<1>8. Order(DOMAIN pacers)' = Order(DOMAIN pacers)
  BY <1>5, <1>6, <1>7 DEF Order
<1>9. GroupID(pacers)' = GroupID(pacers)
  BY <1>6, <1>8 DEF GroupID, PacerID
<1>10. Listed \subseteq Listed'
  BY <1>2 DEF Listed
<1> QED
  BY <1>9, <1>10 DEF OwnID, pacers

(* Every step but those that replace a config keeps groups their own.      *)
LEMMA OwnGroupsStep == TypeOK /\ Lists /\ OwnGroups /\ [Next]_vars => OwnGroups'
<1> SUFFICES ASSUME TypeOK, Lists, OwnPacers, ~ rewired => Untouched, [Next]_vars,
                    ~ rewired'
             PROVE  OwnPacers' /\ Untouched'
  BY DEF OwnGroups, OwnPacers
<1>0. /\ \A c \in Configs : ~ UpdateConfig(c)
      /\ \A n \in Names : ~ RemoveConfig(n)
  BY DEF UpdateConfig, RemoveConfig
<1>1. ~ rewired /\ Untouched
  <2>1. ~ (\E n \in Names : RemoveConfig(n)) /\ ~ (\E c \in Configs : UpdateConfig(c))
    BY <1>0
  <2>2. \/ \E c \in Configs : AddConfig(c)
        \/ \E p \in Pods : Classify(p)
        \/ \E k \in DOMAIN pacersByKey : ExpirePacer(k)
        \/ \E i \in DOMAIN groupsByID : ExpireGroup(i)
        \/ UNCHANGED vars
    BY <2>1 DEF Next
  <2>3. rewired' = rewired
    BY <2>2 DEF AddConfig, Classify, ExpirePacer, ExpireGroup, vars
  <2> QED
    BY <2>3
<1>2. ASSUME configs' = configs, configNames' = configNames
      PROVE  /\ \A k : Yielding(k)' = Yielding(k)
             /\ \A keys : OwnID(keys)' = OwnID(keys)
             /\ Listed' = Listed
  BY <1>2 DEF Yielding, OwnID, GroupID, Order, Before, Listed
<1>3. ASSUME NEW c \in Configs, AddConfig(c) PROVE OwnPacers' /\ Untouched'
  <2>1. /\ configs' = With(configs, c.name, c) /\ c.name \notin DOMAIN configs
        /\ pacersByKey' = pacersByKey /\ groupsByID' = groupsByID /\ assigned' = assigned
    BY <1>3 DEF AddConfig
  <2>2. \A n \in DOMAIN configs : n \in DOMAIN configs' /\ configs'[n] = configs[n]
    BY <2>1 DEF With
  <2>3. ASSUME NEW k, NEW n \in Yielding(k)
        PROVE  n \in Yielding(k)' /\ configs'[n] = configs[n]
    BY <2>2 DEF Yielding
  <2>4. OwnPacers'
    BY <1>1, <2>1, <2>3 DEF OwnPacers
  <2>5. \A p \in Classified :
          OwnID(assigned[p].keys)' = OwnID(assigned[p].keys)
            /\ DOMAIN assigned[p].keys \subseteq Listed'
    BY <1>1, <1>3, <2>1, OwnIDStays DEF Untouched
  <2>6. Untouched'
    BY <1>1, <2>1, <2>3, <2>5 DEF Untouched, Classified, KeysApart, KeyApart
  <2> QED
    BY <2>4, <2>6
<1>4. ASSUME NEW p \in Pods, Classify(p) PROVE OwnPacers' /\ Untouched'
  <2> DEFINE pacers == PacersFor(p)
             keys == KeysMatched(p)
  <2>1. /\ configs' = configs /\ configNames' = configNames
        /\ \/ groupsByID' = groupsByID
           \/ groupsByID' = With(groupsByID, GroupID(pacers), pacers)
        /\ assigned' = [assigned EXCEPT ![p] = [id |-> GroupID(pacers), keys |-> keys]]
        /\ DOMAIN assigned = Pods
    BY <1>4 DEF Classify, TypeOK
  <2>2. ASSUME NEW k \in DOMAIN pacersByKey'
        PROVE  \E n \in Yielding(k) : pacersByKey'[k] = New(configs[n].factory, k)
    <3>1. CASE k \in DOMAIN pacersByKey
      BY <1>1, <1>4, <3>1 DEF Classify, Untouched
    <3>2. CASE k \notin DOMAIN pacersByKey
      <4>1. PICK n \in Matched(p) : k = KeyOf(p, n)
        BY <1>4, <2>2, <3>2 DEF Classify
      <4>2. pacersByKey'[k] = PacerFor(p, n)
        BY <1>4, <2>2, <3>2, <4>1 DEF Classify, PacerFor
      <4> QED
        BY <1>1, <4>1, <4>2, PacerYielded
    <3> QED
      BY <3>1, <3>2
  <2>3. ASSUME NEW n \in DOMAIN pacers
        PROVE  /\ n \in Yielding(pacers[n].key)
               /\ \E m \in Yielding(pacers[n].key) : pacers[n].factory = configs[m].factory
    <3>1. n \in Matched(p) /\ pacers[n] = PacerFor(p, n)
      BY DEF PacersFor
    <3> QED
      BY <1>1, <3>1, PacerYielded DEF New
  <2>4. keys = [n \in Matched(p) |-> KeyOf(p, n)] /\ Matched(p) \subseteq Listed
    BY DEF KeysMatched, Matched
  <2>5. KeysApart(keys) => GroupID(pacers) = OwnID(keys)
    BY <1>1, OwnIDFound
  <2> HIDE DEF pacers, keys
  <2>6. OwnPacers'
    BY <1>1, <1>2, <2>1, <2>3 DEF OwnPacers, With
  <2>7. \A q \in Classified' :
          /\ DOMAIN assigned'[q].keys \subseteq Listed
          /\ KeysApart(assigned'[q].keys) => assigned'[q].id = OwnID(assigned'[q].keys)
    BY <1>1, <2>1, <2>4, <2>5 DEF Untouched, Classified
  <2>8. Untouched'
    BY <1>2, <2>1, <2>2, <2>7 DEF Untouched, KeysApart, KeyApart
  <2> QED
    BY <2>6, <2>8
<1>5. ASSUME NEW k \in DOMAIN pacersByKey, ExpirePacer(k) PROVE OwnPacers' /\ Untouched'
  BY <1>1, <1>2, <1>5
     DEF ExpirePacer, Without, Untouched, Classified, OwnPacers, KeysApart, KeyApart
<1>6. ASSUME NEW i \in DOMAIN groupsByID, ExpireGroup(i) PROVE OwnPacers' /\ Untouched'
  BY <1>1, <1>2, <1>6
     DEF ExpireGroup, Without, Untouched, Classified, OwnPacers, KeysApart, KeyApart
<1>7. CASE UNCHANGED vars
  BY <1>1, <1>2, <1>7 DEF vars, Untouched, Classified, OwnPacers, KeysApart, KeyApart
<1> QED
  BY <1>0, <1>3, <1>4, <1>5, <1>6, <1>7 DEF Next

LEMMA OwnGroupsHold == Spec => []OwnGroups
<1>1. Init => OwnGroups
  BY DEF Init, OwnGroups, OwnPacers, Untouched, Classified, Empty
<1> QED
  BY <1>1, TypeCorrect, ListsHold, OwnGroupsStep, PTL DEF Spec

(* As long as configs are only added, a group paces each of its policies   *)
(* by a pacer of that policy or of another one that yields the same key.   *)
THEOREM GroupsPaceByOwnPolicies == Spec => []OwnPacers
BY OwnGroupsHold, PTL DEF OwnGroups

(* Two pods with one group ID were matched by the same policies with the   *)
(* same keys; and the converse, as long as configs are only added and no   *)
(* other expression yields these keys.                                     *)
THEOREM GroupsByPoliciesAndKeys == Spec => []GroupsAreKeys
<1>1. IDsTellKeys /\ OwnGroups => GroupsAreKeys
  BY DEF IDsTellKeys, OwnGroups, Untouched, GroupsAreKeys
<1> QED
  BY <1>1, IDsTell, OwnGroupsHold, PTL
=============================================================================
