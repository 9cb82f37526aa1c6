SPECIFICATION Spec
CONSTANTS
  Scenarios <- MCScenarios
  Utterances <- MCUtterances
  Verdicts <- MCVerdicts
  NoVerdict = NoVerdict
  Horizon <- MCHorizon
  Threads = {e1, e2}
  Main = main
  ChunkCounts <- MCChunkCounts
  MaxSaid <- MCMaxSaid
PROPERTY BargeInSparesLaterMessages
