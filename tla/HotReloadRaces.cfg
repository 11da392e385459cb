CONSTANTS
  Names <- OneName
  Lower <- OneLower
  Rank <- OneRank
  Files <- OneFile
  FileOf <- OneFileOf
  Sites <- OneSites
  InitialDisks <- OneDisks
  Posted <- OnePosted
  Written <- OneWritten
  NoSite = NoSite
  NoFile = NoFile
  Broken = Broken
  Absent = Absent
  Empty = Empty
  Blends <- OneBlends
  Watcher = W
  Handlers = {h1, h2}
  Pinned = {}
  MaxLoads = 6
  MaxEvents = 1
  MaxEdits = 0
  MaxMishaps = 0
SPECIFICATION PastSpec
SYMMETRY Requesters
VIEW UpToNumbers
INVARIANT WatcherHasLastWord
INVARIANT CertsCoverDirectory
PROPERTY ImplementsVersions
CHECK_DEADLOCK FALSE
