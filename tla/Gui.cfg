SPECIFICATION FFairSpec
CONSTANTS
  Connections = {c1, c2}
  MaxFrames = 2
  Plan <- MCPlan
INVARIANTS TypeOK StatusInStep FrameInStep RendererContract
PROPERTIES ShowsTheEnd
CHECK_DEADLOCK FALSE
