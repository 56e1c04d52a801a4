\* A leader and two other servers; one follower may once not be heard in an interval.
CONSTANTS
  l = l
  a = a
  b = b
  Server = {l, a, b}
  Leader = l
  None = None
  MaxEntries = 2
  MaxFaults = 1
SPECIFICATION Spec
INVARIANTS
  TypeOK
  NoEarlyDeath
  FoundSoon
PROPERTY CrashedRemoved
CHECK_DEADLOCK FALSE
