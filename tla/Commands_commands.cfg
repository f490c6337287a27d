SPECIFICATION Spec
CONSTANTS
  Commands = {"c1", "c2"}
  Order <- MCOrder
  Managed = {"m"}
  Dirs = {"x", "y"}
  DirOf <- MCDirOf
  Unknown = "?"
  Requests <- MCRequests
  InitialDirs <- MCInitialDirs
  MountedBefore = {{}, {"m"}}
  MaxOutside = 1
  None = None
INVARIANTS TypeOK ReportsTrue AllReported ExitTells StacksBounded MkdirPrepares
PROPERTIES OnlyAsked
