SPECIFICATION FFairSpec
CONSTANTS
  Connections = {c1}
  MaxFrames = 0
  Plan <- MCPlan
PROPERTIES JoinersAreShownTheStatus
CHECK_DEADLOCK FALSE
