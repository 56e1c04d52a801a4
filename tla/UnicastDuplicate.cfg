\* A message is passed up twice.
CONSTANTS
  a = a  b = b  c1 = c1  c2 = c2
  Node = {a, b}
  Call = {c1, c2}
  From <- OneWayFrom
  To <- OneWayTo
  MaxTries = 0
  ChanCap = 1
  NoCall = NoCall
SPECIFICATION Spec
INVARIANT NoDuplicateDelivery
CHECK_DEADLOCK FALSE
