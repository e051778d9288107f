SPECIFICATION Spec
CONSTANTS
  w1 = w1
  w2 = w2
  w3 = w3
  c1 = c1
  c2 = c2
  r1 = r1
  r2 = r2
  r3 = r3
  NoRoot = NoRoot
  Run = {r1, r2}
  Roots = {w1, w2}
  Callers = {c1}
  LastEpoch = 4
  MaxCloses = 1
SYMMETRY Symmetry
CHECK_DEADLOCK FALSE
INVARIANTS HistorySound WorkspaceIsolation ShutdownFinal LoadsSound
