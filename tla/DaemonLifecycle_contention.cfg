SPECIFICATION FairSpec
CONSTANTS
  Daemons = {d1, d2}
  CLIs = {c1, c2}
  NoOne = NoOne
  Ghost = Ghost
  BatchOps = {"unmount"}
  Leftover = TRUE
  Slow = FALSE
  MaxCrashes = 1
  MaxDowns = 0
  d1 = d1
  d2 = d2
  c1 = c1
  c2 = c2
PROPERTIES CommandsEnd StartRecovers DaemonsSettle
