SPECIFICATION Spec
CONSTANTS
  Names = {"a", "b"}
  Types = {"s3", "webdav", "smb"}
  ManagedTypes = {"s3", "webdav"}
  Dirs = {"/a", "/b"}
  SessionIds = {s1, s2}
  Handlers = {h1, h2}
  Batches <- MCSessions
  CleanupCap = 1
  NoSession = NoSession
  NoEntry = NoEntry
  NoName = NoName
  Free = Free
  s1 = s1
  s2 = s2
  h1 = h1
  h2 = h2
INVARIANT NoMountLeftBehind
