SPECIFICATION SwitchSpec
CONSTANTS
  c1 = c1  c2 = c2  d1 = d1  d2 = d2  P1 = P1  K1 = K1  K2 = K2
  Callers = {c1, c2}
  Drainers = {d1, d2}
  Profiles = {P1}
  Compounds = {}
  Steps <- NoSteps
  MaxRuns = 4
  MaxEpoch = 2
CONSTRAINT BoundedSwitch
SYMMETRY Symmetry
INVARIANTS DrainOwned RestartExclusive DrainClears SlotsSound
