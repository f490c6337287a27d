SPECIFICATION Spec
CONSTANTS
  a = a
  b = b
  x1 = x1
  x2 = x2
  NoRecord = NoRecord
  NoPlan = NoPlan
  Names = {a, b}
  Procs = {x1, x2}
  Ports = {1, 2}
  Pids = {1, 2, 3}
  Flaky = TRUE
SYMMETRY Symmetry
INVARIANTS TypeOK NoStrayTunnel
PROPERTIES MountsThroughOwn KillsOwnTunnel
CHECK_DEADLOCK FALSE
VIEW View
CONSTRAINTS FewAfterOverlap FewLost
