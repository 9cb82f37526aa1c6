SPECIFICATION BSpec
CONSTANTS
  Scenarios <- Shipped
  Utterances <- ShippedUtterances
  Verdicts <- ShippedVerdicts
  NoVerdict = NoVerdict
  Horizon <- ShippedHorizon
  Specs <- MCSpecs
  Nesting <- MCNesting
  Documents <- MCDocuments
  Disks <- MCDisks
INVARIANTS NoBadScenarioRuns OffenderIsNamed
PROPERTIES FailureNeverSilent
CHECK_DEADLOCK FALSE
