\* Three members, a message and its answer: causal order at the third.
CONSTANTS
  a = a  b = b  c = c
  Member = {a, b, c}
  Rank <- MCRank
  Leader = a
  MaxWrites = 1
  MaxSends <- ChainSends
  Mortal = {}
  Closing = {}
  Nobody = Nobody
SPECIFICATION Spec
INVARIANTS TypeOK CausalDelivery
PROPERTY ImplementsCausalBroadcast
CHECK_DEADLOCK FALSE
