-------------------------- MODULE MCFlightTracker --------------------------
(***************************************************************************)
(* An instance of FlightTracker for TLC: pod "a" of a ReplicaSet, whose     *)
(* name is generated and not used again, and pod "s" of a StatefulSet.      *)
(***************************************************************************)
EXTENDS FlightTracker

CONSTANTS c1, c2

Mixed == {"a", "s"}
FlightName == [a |-> "gen-", s |-> "s"]
OneGroup == {"k"}
AllInK == [n \in Pods |-> {"k"}]
TwoChans == {c1, c2}
=============================================================================
