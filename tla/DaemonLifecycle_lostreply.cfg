SPECIFICATION Spec
CONSTANTS
  Daemons = {d1}
  CLIs = {c1}
  NoOne = NoOne
  Ghost = Ghost
  BatchOps = {"mount"}
  Leftover = FALSE
  Slow = FALSE
  MaxCrashes = 0
  MaxDowns = 1
  d1 = d1
  c1 = c1
PROPERTY DownErrorMeansRunning
