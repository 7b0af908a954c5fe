SPECIFICATION HealthySpec
CONSTANTS
  Slots <- Three
  NoSlot = NoSlot
  StableNames <- Nobody
  JobPods <- Nobody
  Labels <- AllLabelled
  Keys <- OneKey
  NoKey = NoKey
  Policies <- Doubling
  EnableLabel = "on"
  DefaultEnableLabel = "on"
  BypassFailure = TRUE
  Faults <- NoFault
  MaxLosses = 0
  MaxLag = 2
PROPERTY EveryPodStarts
