SPECIFICATION Spec
CONSTANTS
  Scenarios <- MCScenarios
  Utterances <- MCUtterances
  NoVerdict = NoVerdict
  Horizon <- MCHorizon
  Threads = {t1, t2}
  Evaluations = {TRUE, FALSE}
  NoSubtask = NoSubtask
  Depth <- MCDepth
INVARIANT TypeOK
PROPERTY PassIsForThisCheck
