SPECIFICATION Spec
CONSTANTS
  MaxInstance = 2
  MaxHandoff = 2
  MaxCalls = 1
  MaxMoved = 4
  MaxStalled = 3
  MaxQuit = 2
CHECK_DEADLOCK FALSE
INVARIANTS CloseEarned RetirementSound PreferenceSettled
