SPECIFICATION FairSpec
CONSTANTS
  Keys <- OneGroup
  Pods <- Mixed
  Flight <- FlightName
  KeyOf <- AllInK
  Chans <- TwoChans
  c1 = c1
  c2 = c2
  NoKey = NoKey
  NoChan = NoChan
  MaxLandings = 3
INVARIANTS TypeOK EveryWaiterHasALanding OneAtATime GoneAreForgotten
PROPERTIES LandsOnce CommittedPodLands WaiterReleased IdleEntryDeleted
CHECK_DEADLOCK FALSE
