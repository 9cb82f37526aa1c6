SPECIFICATION HFairSpec
CONSTANTS
  Scenarios <- MCScenarios
  Utterances <- MCUtterances
  Verdicts <- MCVerdicts
  NoVerdict = NoVerdict
  Horizon <- MCHorizon
INVARIANTS TypeOK ExecConsistent CancelBeforeCommand
PROPERTIES PassJustified FailJustified NothingSurvivesItsScenario StatusProtocol Settles
