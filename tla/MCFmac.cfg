SPECIFICATION FairSpec
CONSTANTS
  Packets = {p1, p2}
  NoPacket = NoPacket
  Torn = Torn
  Stale = Stale
  FrameletCounts = {1, 2, 3}
  Lengths = {12, 16}
  Capacity = 2
  HostWaits = TRUE
INVARIANTS
  TypeOK
  NoAssertionFails
  TimerFollowsState
  NoLostWakeup
  SinglePopper
  PacketStable
PROPERTIES
  TransmissionEnds
  QueueServed
  
  ImplementsRepeater
CHECK_DEADLOCK FALSE
