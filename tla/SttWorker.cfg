SPECIFICATION HFairSpec
CONSTANTS
  MaxQueue = 3
  MaxReconnect = 3
  MaxStale = 2
INVARIANT TypeOK
PROPERTIES NoCarryOver GivesUpAfterAllAttempts StopIsHeard
CHECK_DEADLOCK FALSE
