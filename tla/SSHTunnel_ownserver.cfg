SPECIFICATION Spec
CONSTANTS
  a = a
  b = b
  x1 = x1
  x2 = x2
  NoRecord = NoRecord
  NoPlan = NoPlan
  Names = {a, b}
  Procs = {x1}
  Ports = {1, 2}
  Pids = {1, 2, 3, 4}
  Flaky = TRUE
SYMMETRY Symmetry
PROPERTY ReachesOwnServer
CHECK_DEADLOCK FALSE
VIEW View
