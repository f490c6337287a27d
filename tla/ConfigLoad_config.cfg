SPECIFICATION FairSpec
CONSTANTS
  Text <- MCText
  NoBlock = NoBlock
  Paths = {"r", "f", "g"}
  Root = "r"
  Files <- MCFiles
  NameRank <- MCNameRank
  Resolve <- MCResolve
  Unread = Unread
  Unresolved = Unresolved
INVARIANTS TypeOK Complete FailsForCause OrderAsAsked LoadedUsable
PROPERTIES RefinesContents LoadEnds
