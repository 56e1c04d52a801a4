\* Two other servers, three goroutines at once.
CONSTANTS
  p1 = p1
  p2 = p2
  s1 = s1
  s2 = s2
  s3 = s3
  Peer = {p1, p2}
  Self = Self
  NoLeader = NoLeader
  Slot = {s1, s2, s3}
SPECIFICATION Spec
SYMMETRY PeersAndSlots
INVARIANTS
  TypeOK
  
  BroadcastOnlyAsLeader
  Settled
