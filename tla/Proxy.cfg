CONSTANTS
  A = A
  a = a
  b = b
  c = c
  r1 = r1
  r2 = r2
  r3 = r3
  Names <- AllNames
  Lower <- Lowered
  Rank <- ByteRank
  Files <- TwoFiles
  FileOf <- TheFileOf
  NoSite = NoSite
  NoFile = NoFile
  NoEntry = NoEntry
  Sites <- SomeSites
  Loads <- SomeLoads
  Requests = {r1, r2, r3}
  HostOf <- Hosts
  Upgrading = {r2}
  Reloaders = {p1, p2}
  Pinned <- KeptFile
  MaxReloads = 2
  MaxToggles = 1
SPECIFICATION TwoArrive
SYMMETRY Goroutines
INVARIANT TypeOK
INVARIANT CountsExact
INVARIANT LimitedByOwnSite
PROPERTY UntouchedIsServed
CHECK_DEADLOCK FALSE
