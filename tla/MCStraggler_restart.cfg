SPECIFICATION HealthySpec
CONSTANTS
  Slots <- Two
  NoSlot = NoSlot
  StableNames <- Nobody
  JobPods <- Nobody
  Labels <- AllLabelled
  Keys <- OneKey
  NoKey = NoKey
  Policies <- Doubling
  EnableLabel = "on"
  DefaultEnableLabel = "on"
  BypassFailure = TRUE
  Faults <- Restarts
  MaxLosses = 1
  MaxLag = 2
PROPERTY EveryPodStarts
CHECK_DEADLOCK FALSE
