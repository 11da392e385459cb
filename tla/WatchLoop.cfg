CONSTANTS
  long = long
  short = short
  s1 = s1
  s2 = s2
  del = del
  cp = cp
  Files <- TwoFiles
  Jobs <- EditJobs
  Kind <- EditKind
  Target <- EditTarget
  Doc <- EditDoc
  Initial <- SiteOne
  Docs <- TwoDocs
  Size <- DocSize
  Inodes <- FewInodes
  Empty = Empty
  Torn = Torn
  Absent = Absent
  NoInode = NoInode
  Off = Off
  D = 2
  Overlap = FALSE
  MaxFaults = 1
  MaxCrashes = 1
SPECIFICATION FairSpec
INVARIANT TypeOK
INVARIANT SavedIsPersisted
PROPERTY ImplementsDirectory
PROPERTY QuietBeforeReload
PROPERTY ChangesAreLoaded
CHECK_DEADLOCK FALSE
