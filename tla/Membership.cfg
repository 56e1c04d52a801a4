\* Two servers that join a leader, three attempts, one fault.
CONSTANTS
  l = l
  a = a
  b = b
  Server = {l, a, b}
  Leader = l
  None = None
  MaxJoins = 3
  MaxFaults = 1
SYMMETRY JoinerSymmetry
SPECIFICATION Spec
INVARIANTS
  TypeOK
  
  
  ListenerFree
CHECK_DEADLOCK FALSE
