SPECIFICATION Spec
CONSTANTS
  MaxInstance = 1
  MaxHandoff = 1
  MaxCalls = 1
  MaxMoved = 0
  MaxStalled = 0
  MaxQuit = 0
CHECK_DEADLOCK FALSE
INVARIANTS
  NoStrayWindow
