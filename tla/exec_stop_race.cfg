SPECIFICATION Spec
CONSTANTS
  c1 = c1  c2 = c2  d1 = d1  d2 = d2  P1 = P1  K1 = K1  K2 = K2
  Callers = {c1}
  Drainers = {d1}
  Profiles = {P1, K1}
  Compounds = {K1}
  Steps <- OneStep
  MaxRuns = 3
  MaxEpoch = 0
INVARIANT
  StopReachesLeaf
