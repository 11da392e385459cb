CONSTANTS
  r1 = r1
  r2 = r2
  r3 = r3
  r4 = r4
  r5 = r5
  Requests = {r1, r2, r3, r4, r5}
  Keys <- TwoRuntimes
  KeyOf <- Found
  RPS = 2
  Burst = 0
  Q = 3
  Pool = 2
  Wrap = 3
  MaxClock = 3
  NoBucket = NoBucket
SPECIFICATION RuntimeSpec
SYMMETRY Alike
INVARIANT TypeOK
INVARIANT SlidingBound
INVARIANT WindowBound
INVARIANT ClientBudget
INVARIANT RotationFair
PROPERTY SpacedClientAllowed
CHECK_DEADLOCK FALSE
