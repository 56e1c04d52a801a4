\* Two and three servers, and a buffer in which the longest messages do not fit.
CONSTANTS
  Member = {1, 2, 3}
  IdLen = 2
  BufLens = {9, 11, 14, 18, 30}
  Text <- Lines
  Clocks = {0, 1}
SPECIFICATION Spec
INVARIANTS
  RoundTrip
  
  CutOnlyPads
CHECK_DEADLOCK FALSE
