SPECIFICATION FairSpec
CONSTANTS
  p1 = p1
  p2 = p2
  Publishers = {p1, p2}
  Streams = {s1, s2}
  Capacity = 2
  Event <- Events
  Leavers = {s1}
  Nobody = Nobody
INVARIANTS
  TypeOK
  NoSendOnClosed
  InOrder
PROPERTIES
  EverySubscriberServed
  PublishReturns
  StreamEnds
  ImplementsTopic
CHECK_DEADLOCK FALSE
