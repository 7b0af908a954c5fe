SPECIFICATION Spec
CONSTANTS
  Composites <- SomeComposites
  Pods <- ThreePods
  MaxCount = 5
INVARIANTS TypeOK ComputesPace NoStandstill
CHECK_DEADLOCK FALSE
