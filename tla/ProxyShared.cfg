CONSTANTS
  A = A
  a = a
  b = b
  c = c
  r1 = r1
  r2 = r2
  r3 = r3
  Names <- AllNames
  Lower <- Lowered
  Rank <- ByteRank
  Files <- TwoFiles
  FileOf <- TheFileOf
  NoSite = NoSite
  NoFile = NoFile
  NoEntry = NoEntry
  Sites <- SharingSites
  Loads <- SharingLoad
  Requests = {r1, r2, r3}
  HostOf <- Hosts
  Upgrading = {}
  Reloaders = {p1}
  Pinned = {}
  MaxReloads = 1
  MaxToggles = 0
SPECIFICATION Spec
INVARIANT LimitedByOwnSite
CHECK_DEADLOCK FALSE
