SPECIFICATION InFlightSpec
CONSTANTS
  a = a
  b = b
  c = c
  c1 = c1
  c2 = c2
  Slots <- Three
  NoSlot = NoSlot
  StableNames <- Nobody
  JobPods <- Nobody
  Labels <- AllLabelled
  Keys <- OneKey
  NoKey = NoKey
  Policies <- OneByOne
  EnableLabel = "on"
  DefaultEnableLabel = "on"
  BypassFailure = FALSE
  Faults <- Refusals
  MaxLosses = 0
  MaxLag = 2
  Lives = 2
  GroupIDs <- OneID
  NoID = NoID
  Chans <- TwoChans
  NoChan = NoChan
  MaxLandings = 3
INVARIANTS NoneOverlooked NoStampede
PROPERTIES PacedStarts
CONSTRAINT NotSlipped
SYMMETRY Symmetry
CHECK_DEADLOCK FALSE
