CONSTANTS
  b1 = b1
  pw = pw
  r1 = r1
  r2 = r2
  other = other
  Browsers = {b1}
  Names <- TypedNames
  LowerName <- Lowered
  Dotted <- WithDot
  Passwords <- OnlyPw
  Configs <- AllConfigs
  Own = Own
  Weak = Weak
  Unset = Unset
  BadConfig = BadConfig
  NoFile = NoFile
  Short = Short
  NoCookie = NoCookie
  Age = 2
  MaxClock = 2
  MaxEdits = 1
  MaxMoves = 1
  Requests <- TwoRequests
  At <- TwoAt
  MaxFaults = 1
  MaxDeaths = 3
  MaxStops = 1
SPECIFICATION Scenes
INVARIANT TypeOK
INVARIANT CookieDecides
INVARIANT SecretIsWhole
INVARIANT DrainedBeforeExit
INVARIANT ReportsGoThrough
PROPERTY ShutdownEnds
PROPERTY ServiceRecovers
CHECK_DEADLOCK FALSE
