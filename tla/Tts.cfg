SPECIFICATION HFairSpec
CONSTANTS
  Threads = {e1, e2}
  Main = main
  Utterances <- Pair
  Blank <- NoBlank
  ChunkCounts <- MCChunkCounts
INVARIANTS TypeOK SpokenInOrder NothingInFlightBetween
PROPERTIES LaterSpeechSpared EstopLetsOutOnlyOne NoneIsStuck
CHECK_DEADLOCK FALSE
