SPECIFICATION Spec
CONSTANTS
  web1 = web1
  web2 = web2
  batch = batch
  Configs <- TwoVersions
  Pods <- ThreePods
  PodLabels <- SomeLabels
  Value <- Values
  NoKey = "none"
  NoGroup = NoGroup
INVARIANTS TypeOK ConfigsListed GroupsServeTheirPods GroupsAreKeys OwnPacers
CONSTRAINT FewGroups
SYMMETRY Symmetry
