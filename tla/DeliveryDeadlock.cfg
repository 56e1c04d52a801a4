\* A burst larger than the channel and the hands of its reader, and a death.
CONSTANTS
  c1 = c1
  m1 = m1
  m2 = m2
  m3 = m3
  p = p
  Client = {c1}
  MaxLines = 1
  Remote = {m1, m2, m3}
  Peer = {p}
  DeathOf <- OneDeath
  NoPeer = NoPeer
  DeadNode = DeadNode
  RmCap = 1
  ChatCap = 1
SPECIFICATION FairSpec
PROPERTIES
  DeliveryDone
CHECK_DEADLOCK FALSE
