SPECIFICATION SSpec
CONSTANTS
  Threads = {e1}
  Main = main
  Utterances = {1}
  Blank = {}
  ChunkCounts = {2}
PROPERTY StopCutsSpeech
CHECK_DEADLOCK FALSE
