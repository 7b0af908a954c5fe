----------------------------- MODULE Classifier -----------------------------
(***************************************************************************)
(* The pod classifier of pkg/controller/classifier.go: staggering configs   *)
(* in the order they were added, the pacers made for the grouping keys, and *)
(* the groups admission has come across, by ID.  Both caches forget their   *)
(* entries after 30 minutes.  The mutex makes each operation atomic;        *)
(* ClassifyByGroupID, which does not take it, is one read of groupsByID.    *)
(* An operation that returns an error changes nothing and has no action     *)
(* here, and expressions that are empty or do not parse are left out.       *)
(***************************************************************************)
EXTENDS Integers, SequencesExt

CONSTANTS
  Configs,     \* the StaggerGroup configs that may be added, or replace another:
               \* [name, selector, bypass, expr, factory : [kind, setting]]
  Pods,        \* pods to classify
  PodLabels,   \* [Pods -> sets of labels]
  Value,       \* [Pods -> [expressions -> keys]]: what an expression yields for a pod
  NoKey,       \* what it yields if it finds nothing
  NoGroup      \* not a group ID

Names == {c.name : c \in Configs}

VARIABLES
  configs,       \* [some names -> Configs]
  configNames,   \* the names in the order their configs were added
  pacersByKey,   \* [some keys -> pacers]
  groupsByID,    \* [some IDs -> groups: the pacer for each matched config]
  assigned,      \* history: the ID a pod got last and the keys it matched, or NoGroup
  rewired        \* history: a config was removed or replaced

vars == <<configs, configNames, pacersByKey, groupsByID, assigned, rewired>>

-----------------------------------------------------------------------------
Matches(p, n) ==
  /\ configs[n].selector \subseteq PodLabels[p]
  /\ ~ (configs[n].bypass # {} /\ configs[n].bypass \subseteq PodLabels[p])
  /\ Value[p][configs[n].expr] # NoKey

Listed == {configNames[i] : i \in DOMAIN configNames}

Matched(p) == {n \in Listed : Matches(p, n)}

KeyOf(p, n) == Value[p][configs[n].expr]

KeysMatched(p) == [n \in Matched(p) |-> KeyOf(p, n)]

\* Classify goes through the configs in this order.
Before(m, n) ==
  \E i, j \in DOMAIN configNames : i < j /\ configNames[i] = m /\ configNames[j] = n

\* Mutant: the first config makes the pacers of all keys.
FirstMatched(p, key) ==
  CHOOSE n \in Matched(p) : \A m \in Matched(p) : m = n \/ Before(n, m)

\* The config whose factory makes a pacer for a key that has none.
FirstFor(p, key) ==
  CHOOSE n \in Matched(p) :
    /\ KeyOf(p, n) = key
    /\ \A m \in Matched(p) : KeyOf(p, m) = key => m = n \/ Before(n, m)

\* Mutant: the factory forgets the key.
NewForNoKey(factory, key) == [factory |-> factory, key |-> NoKey]

New(factory, key) == [factory |-> factory, key |-> key]

PacerFor(p, n) ==
  IF KeyOf(p, n) \in DOMAIN pacersByKey THEN pacersByKey[KeyOf(p, n)]
  ELSE New(configs[FirstFor(p, KeyOf(p, n))].factory, KeyOf(p, n))

PacersFor(p) == [n \in Matched(p) |-> PacerFor(p, n)]

(***************************************************************************)
(* The ID of a group lists the IDs of its pacers, which are their kinds and *)
(* keys, and the names of its configs.  A list of names without repetition  *)
(* is a set with an order.                                                  *)
(***************************************************************************)
PacerID(pacer) == <<pacer.factory.kind, pacer.key>>

Order(S) == {pair \in S \X S : Before(pair[1], pair[2])}

\* Mutant: the keys of the pacers are left out.
KindsAndNames(pacers) ==
  [pacers |-> [n \in DOMAIN pacers |-> <<pacers[n].factory.kind, NoKey>>],
   order |-> Order(DOMAIN pacers)]

GroupID(pacers) ==
  [pacers |-> [n \in DOMAIN pacers |-> PacerID(pacers[n])],
   order |-> Order(DOMAIN pacers)]

-----------------------------------------------------------------------------
Empty == [k \in {} |-> k]

Init ==
  /\ configs = Empty
  /\ configNames = <<>>
  /\ pacersByKey = Empty
  /\ groupsByID = Empty
  /\ assigned = [p \in Pods |-> NoGroup]
  /\ rewired = FALSE

\* "no duplicate expressions", among all configs there are.
NewExpression(c) == \A n \in DOMAIN configs : configs[n].expr # c.expr

With(f, x, y) == [z \in DOMAIN f \cup {x} |-> IF z = x THEN y ELSE f[z]]
Without(f, x) == [z \in DOMAIN f \ {x} |-> f[z]]

\* Mutant: the name is not looked up.
AddConfigAgain(c) ==
  /\ NewExpression(c)
  /\ configs' = With(configs, c.name, c)
  /\ configNames' = Append(configNames, c.name)
  /\ UNCHANGED <<pacersByKey, groupsByID, assigned, rewired>>

AddConfig(c) ==
  /\ c.name \notin DOMAIN configs /\ NewExpression(c)
  /\ configs' = With(configs, c.name, c)
  /\ configNames' = Append(configNames, c.name)
  /\ UNCHANGED <<pacersByKey, groupsByID, assigned, rewired>>

RemoveConfig(n) ==
  /\ n \in DOMAIN configs
  /\ configs' = Without(configs, n)
  /\ \/ \E i \in DOMAIN configNames :
          configNames[i] = n /\ configNames' = RemoveAt(configNames, i)
     \/ n \notin Listed /\ configNames' = configNames
  /\ rewired' = TRUE
  /\ UNCHANGED <<pacersByKey, groupsByID, assigned>>

\* The name need not be there, and is not listed if it is not.
UpdateConfig(c) ==
  /\ NewExpression(c)
  /\ configs' = With(configs, c.name, c)
  /\ rewired' = TRUE
  /\ UNCHANGED <<configNames, pacersByKey, groupsByID, assigned>>

Classify(p) ==
  /\ Matched(p) # {}
  /\ LET pacers == PacersFor(p)
         used == {KeyOf(p, n) : n \in Matched(p)}
         id == GroupID(pacers)
     IN  /\ pacersByKey' =
              [k \in DOMAIN pacersByKey \cup used |->
                 IF k \in DOMAIN pacersByKey THEN pacersByKey[k]
                 ELSE New(configs[FirstFor(p, k)].factory, k)]
         /\ groupsByID' = IF id \in DOMAIN groupsByID THEN groupsByID
                          ELSE With(groupsByID, id, pacers)
         /\ assigned' = [assigned EXCEPT ![p] = [id |-> id, keys |-> KeysMatched(p)]]
  /\ UNCHANGED <<configs, configNames, rewired>>

\* 30 minutes after the last Classify that used the key.
ExpirePacer(k) ==
  /\ k \in DOMAIN pacersByKey
  /\ pacersByKey' = Without(pacersByKey, k)
  /\ UNCHANGED <<configs, configNames, groupsByID, assigned, rewired>>

\* 30 minutes after the Classify that made it.
ExpireGroup(id) ==
  /\ id \in DOMAIN groupsByID
  /\ groupsByID' = Without(groupsByID, id)
  /\ UNCHANGED <<configs, configNames, pacersByKey, assigned, rewired>>

Next ==
  \/ \E c \in Configs : AddConfig(c) \/ UpdateConfig(c)
  \/ \E n \in Names : RemoveConfig(n)
  \/ \E p \in Pods : Classify(p)
  \/ \E k \in DOMAIN pacersByKey : ExpirePacer(k)
  \/ \E id \in DOMAIN groupsByID : ExpireGroup(id)

Spec == Init /\ [][Next]_vars

-----------------------------------------------------------------------------
(* Every variable ranges over the values the code can give it.             *)
Pacer == [factory : {c.factory : c \in Configs},
          key : (UNION {{Value[p][c.expr] : c \in Configs} : p \in Pods}) \ {NoKey}]

TypeOK ==
  /\ DOMAIN configs \subseteq Names
  /\ \A n \in DOMAIN configs : configs[n] \in Configs /\ configs[n].name = n
  /\ configNames \in Seq(Names)
  /\ \A k \in DOMAIN pacersByKey : pacersByKey[k] \in Pacer /\ pacersByKey[k].key = k
  /\ \A id \in DOMAIN groupsByID :
       /\ DOMAIN groupsByID[id] \subseteq Names
       /\ \A n \in DOMAIN groupsByID[id] : groupsByID[id][n] \in Pacer
  /\ DOMAIN assigned = Pods
  /\ rewired \in BOOLEAN

(***************************************************************************)
(* Through any sequence of adding, removing and updating, Classify finds a  *)
(* config for each name it goes through, each name once, and no two configs *)
(* group by the same expression.                                            *)
(***************************************************************************)
EachListedOnce ==
  \A i, j \in DOMAIN configNames : configNames[i] = configNames[j] => i = j

ConfigsListed ==
  /\ Listed \subseteq DOMAIN configs
  /\ EachListedOnce
  /\ \A m, n \in DOMAIN configs : configs[m].expr = configs[n].expr => m = n

(***************************************************************************)
(* The label a pod was given leads the reconciler to a group of the pod's   *)
(* own policies and keys, if to any: also when the group has expired since  *)
(* and another pod has made one under that ID, or configs were replaced.    *)
(***************************************************************************)
Classified == {p \in Pods : assigned[p] # NoGroup}

GroupsServeTheirPods ==
  \A p \in Classified : assigned[p].id \in DOMAIN groupsByID =>
    LET group == groupsByID[assigned[p].id]
    IN  [n \in DOMAIN group |-> group[n].key] = assigned[p].keys

(***************************************************************************)
(* Two pods with one group ID were matched by the same configs with the     *)
(* same keys, whenever they were classified.  The converse holds as long as *)
(* configs are only added, as the program does, and no other expression     *)
(* yields these keys: this is the group of a pod in module Straggler.       *)
(***************************************************************************)
KeyApart(key) ==
  \A p, q \in Pods : \A c, d \in Configs :
    Value[p][c.expr] = key /\ Value[q][d.expr] = key => c.expr = d.expr

KeysApart(keys) == \A n \in DOMAIN keys : KeyApart(keys[n])

GroupsAreKeys ==
  \A p, q \in Classified :
    /\ assigned[p].id = assigned[q].id => assigned[p].keys = assigned[q].keys
    /\ (~ rewired /\ KeysApart(assigned[p].keys) /\ assigned[p].keys = assigned[q].keys)
         => assigned[p].id = assigned[q].id

(***************************************************************************)
(* README: "Policies define matching pods, a grouping key and a pacer."  As *)
(* long as configs are only added, a group paces each of its policies by a  *)
(* pacer of that policy, or of another one that yields the same key:        *)
(* pacersByKey does not tell them apart.                                    *)
(***************************************************************************)
Yielding(key) == {n \in DOMAIN configs : \E p \in Pods : Value[p][configs[n].expr] = key}

OwnPacers ==
  ~ rewired =>
    \A id \in DOMAIN groupsByID :
      LET group == groupsByID[id]
      IN  \A n \in DOMAIN group :
            /\ n \in Yielding(group[n].key)
            /\ \E m \in Yielding(group[n].key) : group[n].factory = configs[m].factory
=============================================================================
