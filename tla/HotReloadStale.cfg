CONSTANTS
  Names <- OneName
  Lower <- OneLower
  Rank <- OneRank
  Files <- OneFile
  FileOf <- OneFileOf
  Sites <- OneSites
  InitialDisks <- OneDisks
  Posted <- OneSites
  Written <- OneWritten
  NoSite = NoSite
  NoFile = NoFile
  Broken = Broken
  Absent = Absent
  Empty = Empty
  Blends <- OneBlends
  Watcher = W
  Handlers = {h1}
  Pinned = {}
  MaxLoads = 6
  MaxEvents = 1
  MaxEdits = 1
  MaxMishaps = 0
SPECIFICATION PastSpec
INVARIANT SettledTablesMatchDisk
CHECK_DEADLOCK FALSE
