\* Three servers, one crash, two misjudgements.
CONSTANTS
  Server = {1, 2, 3}
  None = None
  MaxGlitches = 2
  MaxCrashes = 1
SPECIFICATION Spec
INVARIANT TypeOK
PROPERTIES
  LeaderStays
  
CHECK_DEADLOCK FALSE
