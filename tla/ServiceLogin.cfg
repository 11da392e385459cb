CONSTANTS
  b1 = b1
  pw = pw
  r1 = r1
  r2 = r2
  other = other
  Browsers = {b1}
  Names <- TypedNames
  LowerName <- Lowered
  Dotted <- WithDot
  Passwords <- OnlyPw
  Configs <- OneConfig
  Own = Own
  Weak = Weak
  Unset = Unset
  BadConfig = BadConfig
  NoFile = NoFile
  Short = Short
  NoCookie = NoCookie
  Age = 2
  MaxClock = 0
  MaxEdits = 0
  MaxMoves = 0
  Requests <- NoRequests
  At <- NoAt
  MaxFaults = 0
  MaxDeaths = 0
  MaxStops = 0
SPECIFICATION Spec
INVARIANT LoginLetsIn
CHECK_DEADLOCK FALSE
