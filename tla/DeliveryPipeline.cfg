\* One author of two lines, a burst no larger than the channel and the hands of
\* its reader, one of it a death.
CONSTANTS
  c1 = c1
  m1 = m1
  m2 = m2
  m3 = m3
  p = p
  Client = {c1}
  MaxLines = 2
  Remote = {m1, m2}
  Peer = {p}
  DeathOf <- OneDeath
  NoPeer = NoPeer
  DeadNode = DeadNode
  RmCap = 1
  ChatCap = 1
SPECIFICATION FairSpec
INVARIANTS
  TypeOK
  AnswersFollow
  ShownInOrder
PROPERTIES
  DeliveryDone
  LineMulticast
CHECK_DEADLOCK FALSE
