SPECIFICATION HSpec
CONSTANTS
  MaxQueue = 2
  MaxReconnect = 2
  MaxStale = 1
PROPERTY FlushedBeforeReconnect
CHECK_DEADLOCK FALSE
