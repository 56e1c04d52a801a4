\* Two messages that may overtake each other and their retransmissions, a death
\* declared and multicast, a shutdown at any time.
CONSTANTS
  a = a  b = b  c = c
  Member = {a, b}
  Rank <- MCRank
  Leader = a
  MaxWrites = 2
  MaxSends <- FifoSends
  Mortal = {b}
  Closing = {a, b}
  Nobody = Nobody
SPECIFICATION FairSpec
INVARIANTS DeliveredOnce HoldBackDrained 
PROPERTY ReadyDelivered
CHECK_DEADLOCK FALSE
