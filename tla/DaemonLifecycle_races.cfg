SPECIFICATION Spec
CONSTANTS
  Daemons = {d1, d2, d3}
  CLIs = {c1, c2}
  NoOne = NoOne
  Ghost = Ghost
  BatchOps = {"mount"}
  Leftover = TRUE
  Slow = TRUE
  MaxCrashes = 1
  MaxDowns = 1
  d1 = d1
  d2 = d2
  d3 = d3
  c1 = c1
  c2 = c2
SYMMETRY Symmetric
INVARIANTS TypeOK StaleOnlyByCrash AloneReachable
