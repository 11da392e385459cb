CONSTANTS
  siteA = siteA
  siteB = siteB
  r1 = r1
  r2 = r2
  r3 = r3
  r4 = r4
  Requests <- Four
  DomainOf <- TheDomain
  StatusOf <- TheStatus
  TookOf <- Took
  Milli = 2
  Sites <- Listed
  N = 3
  RingSize = 2
  MaxClock = 6
  MaxDelay = 2
  MaxPages = 1
SPECIFICATION Spec
INVARIANT TypeOK
INVARIANT MinuteIsExact
INVARIANT TotalsAccounted
INVARIANT ChartAddsUp
INVARIANT PercentilesOfLatest
CHECK_DEADLOCK FALSE
