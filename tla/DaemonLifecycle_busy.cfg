SPECIFICATION Spec
CONSTANTS
  Daemons = {d1, d2}
  CLIs = {c1, c2}
  NoOne = NoOne
  Ghost = Ghost
  BatchOps = {"mount"}
  Leftover = FALSE
  Slow = TRUE
  MaxCrashes = 0
  MaxDowns = 0
  d1 = d1
  d2 = d2
  c1 = c1
  c2 = c2
INVARIANT MountsReachable
