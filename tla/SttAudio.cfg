SPECIFICATION HSpec
CONSTANTS
  Threads = {e1, e2}
  EchoTail = 2
  MaxTime = 4
INVARIANTS TypeOK TailAfterLastEcho
