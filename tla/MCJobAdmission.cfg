SPECIFICATION Spec
CONSTANTS
  Rules <- SomeRules
  Disrupted = "disrupted"
  Undisrupted = "undisrupted"
  OtherConditions <- AConfigIssue
  ExitCodes <- AnExitCode
  MaxRules = 3
  BackoffLimit = 1
  MaxFailures = 2
INVARIANTS TypeOK StaggeringIsFree VerdictsKept NoRuleTwice
