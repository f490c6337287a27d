SPECIFICATION FairSpec
CONSTANTS
  Names = {"a"}
  Types = {"s3"}
  ManagedTypes = {"s3"}
  Dirs = {"/a"}
  SessionIds = {s1, s2}
  Handlers = {h1, h2}
  Batches <- MCOneEntry
  CleanupCap = 1
  NoSession = NoSession
  NoEntry = NoEntry
  NoName = NoName
  Free = Free
  s1 = s1
  s2 = s2
  h1 = h1
  h2 = h2
PROPERTIES RequestsAnswered EndedSessionsCleared
