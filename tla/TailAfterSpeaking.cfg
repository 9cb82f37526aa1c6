SPECIFICATION TSpec
CONSTANTS
  Threads = {e1}
  EchoTail = 2
  MaxTime = 4
INVARIANT TailAfterSpeaking
