SPECIFICATION Spec
CONSTANTS
  Daemons = {d1}
  CLIs = {c1, c2}
  NoOne = NoOne
  Ghost = Ghost
  BatchOps = {"mount"}
  Leftover = FALSE
  Slow = TRUE
  MaxCrashes = 0
  MaxDowns = 1
  d1 = d1
  c1 = c1
  c2 = c2
PROPERTY NotRunningIsTrue
