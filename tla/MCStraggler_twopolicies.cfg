SPECIFICATION HealthySpec
CONSTANTS
  Slots <- Three
  NoSlot = NoSlot
  StableNames <- Nobody
  JobPods <- Nobody
  Labels <- ThirdBoth
  Keys <- OneKey
  NoKey = NoKey
  Policies <- TwoPolicies
  EnableLabel = "on"
  DefaultEnableLabel = "on"
  BypassFailure = TRUE
  Faults <- NoFault
  MaxLosses = 0
  MaxLag = 2
PROPERTY EveryPodStarts
CHECK_DEADLOCK FALSE
