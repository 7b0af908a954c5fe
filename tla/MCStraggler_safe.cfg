SPECIFICATION Spec
CONSTANTS
  Slots = {s1, s2, s3}
  NoSlot = NoSlot
  StableNames = {s1}
  JobPods <- Nobody
  Labels <- AllBoth
  Keys <- OneKey
  NoKey = NoKey
  Policies <- TwoPolicies
  EnableLabel = "on"
  DefaultEnableLabel = "on"
  BypassFailure = FALSE
  Faults <- Ends
  MaxLosses = 0
  MaxLag = 2
INVARIANTS TypeOK StreamConsistent NoLostBlockedPod
PROPERTIES EvictOnlyBlocked AdmitsWithinPace
SYMMETRY OthersAlike
