SPECIFICATION FairSpec
CONSTANTS
  Slots <- Two
  NoSlot = NoSlot
  StableNames <- Nobody
  JobPods <- Nobody
  Labels <- AllLabelled
  Keys <- OneKey
  NoKey = NoKey
  Policies <- DoublingMaxBlocked
  EnableLabel = "on"
  DefaultEnableLabel = "on"
  BypassFailure = TRUE
  Faults <- NoFault
  MaxLosses = 0
  MaxLag = 2
PROPERTY OverdueReleased
