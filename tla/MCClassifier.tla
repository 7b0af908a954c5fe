---------------------------- MODULE MCClassifier ----------------------------
(***************************************************************************)
(* An instance of Classifier for TLC: two policies on different labels, one *)
(* of them in two versions, two pods matched by both, and one that the      *)
(* first version passes over and of which the others yield the same key.    *)
(***************************************************************************)
EXTENDS Classifier

CONSTANTS web1, web2, batch

Linear(step) == [kind |-> "linear", setting |-> step]
Exponential(min) == [kind |-> "exponential", setting |-> min]

ByNamespace ==
  [name |-> "namespaces", selector |-> {"a"}, bypass |-> {}, expr |-> "namespace",
   factory |-> Linear(5)]
ByImage ==
  [name |-> "images", selector |-> {"b"}, bypass |-> {"skip"}, expr |-> "image",
   factory |-> Exponential(1)]
ByZone ==
  [name |-> "images", selector |-> {"b"}, bypass |-> {}, expr |-> "zone",
   factory |-> Linear(2)]

TwoVersions == {ByNamespace, ByImage, ByZone}

ThreePods == {web1, web2, batch}
SomeLabels ==
  [p \in Pods |-> IF p = batch THEN {"a", "b", "skip"} ELSE {"a", "b"}]

Values ==
  [p \in Pods |->
     IF p = batch THEN [namespace |-> "east", image |-> "nginx", zone |-> "east"]
     ELSE [namespace |-> "team", image |-> "nginx", zone |-> "none"]]

Symmetry == Permutations({web1, web2})

\* Bound: groups remembered at a time.
FewGroups == Cardinality(DOMAIN groupsByID) <= 2
=============================================================================
