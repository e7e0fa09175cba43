SPECIFICATION FairSpec
CONSTANTS
  MaxItems <- ItemBounds
  MaxMishaps = 1
  LastName = 4
  SpillAt = 2
  Capacity = 2
  MAX_CONSECUTIVE_OPEN_FAILURES = 2
INVARIANT TypeOK
PROPERTY ImplementsSensorLine
PROPERTY ImplementsRelayLine
PROPERTY ReadingsDrain
