\* Three servers, one follower that misses its leader's broadcasts once.
CONSTANTS
  Server = {1, 2, 3}
  None = None
  MaxGlitches = 1
  MaxCrashes = 0
SPECIFICATION Spec
PROPERTY NoOtherPotentialLeader
CHECK_DEADLOCK FALSE
