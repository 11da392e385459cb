CONSTANTS
  long = long
  short = short
  s1 = s1
  s2 = s2
  del = del
  cp = cp
  Files <- TwoFiles
  Jobs <- TwoSaves
  Kind <- SaveKind
  Target <- SaveFile
  Doc <- SaveDoc
  Initial <- SiteOne
  Docs <- TwoDocs
  Size <- DocSize
  Inodes <- FewInodes
  Empty = Empty
  Torn = Torn
  Absent = Absent
  NoInode = NoInode
  Off = Off
  D = 2
  Overlap = TRUE
  MaxFaults = 0
  MaxCrashes = 0
SPECIFICATION FairSpec
INVARIANT SavedIsPersisted
CHECK_DEADLOCK FALSE
