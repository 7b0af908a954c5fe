SPECIFICATION HealthySpec
CONSTANTS
  Slots <- Three
  NoSlot = NoSlot
  StableNames <- Nobody
  JobPods <- Third
  Labels <- AllLabelled
  Keys <- OneKey
  NoKey = NoKey
  Policies <- DoublingMaxBlocked
  EnableLabel = "on"
  DefaultEnableLabel = "on"
  BypassFailure = TRUE
  Faults <- Losses
  MaxLosses = 2
  MaxLag = 2
INVARIANT NoLostBlockedPod
PROPERTY RememberedGroupStarts
CHECK_DEADLOCK FALSE
