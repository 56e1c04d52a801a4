\* Two concurrent calls over one link, two retransmissions each: every loss,
\* duplicate and reordering.
CONSTANTS
  a = a  b = b  c1 = c1  c2 = c2
  Node = {a, b}
  Call = {c1, c2}
  From <- OneWayFrom
  To <- OneWayTo
  MaxTries = 2
  ChanCap = 1
  NoCall = NoCall
SPECIFICATION FairSpec
INVARIANTS TypeOK OrderedDelivery TrueMeansReceived SequentialExactlyOnce
PROPERTIES SendReturns ImplementsUnicastLink
CHECK_DEADLOCK FALSE
