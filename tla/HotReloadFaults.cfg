CONSTANTS
  Names <- TwoNames
  Lower <- TwoLower
  Rank <- TwoRank
  Files <- TwoFiles
  FileOf <- TwoFileOf
  Sites <- TwoSites
  InitialDisks <- TwoDisks
  Posted <- TwoPosted
  Written <- TwoWritten
  NoSite = NoSite
  NoFile = NoFile
  Broken = Broken
  Absent = Absent
  Empty = Empty
  Blends <- OneBlends
  Watcher = W
  Handlers = {h1}
  Pinned = {2}
  MaxLoads = 5
  MaxEvents = 1
  MaxEdits = 1
  MaxMishaps = 1
SPECIFICATION PastFairSpec
INVARIANT TypeOK
INVARIANT WatcherHasLastWord
INVARIANT UntouchedStaysRouted
INVARIANT CertsCoverDirectory
PROPERTY ChangesReachTables
PROPERTY ImplementsVersions
CHECK_DEADLOCK FALSE
