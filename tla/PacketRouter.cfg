SPECIFICATION FairSpec
CONSTANTS
  p = p  q = q  t = t  i = i  j = j  a = a  b = b
  NoPacket = NoPacket
  Helper = Helper
  Bridges = {a, b}
  Loads <- RouterLoads
INVARIANTS InFlightExact InjectInOrder OwnersDecide
PROPERTIES EveryPacketSettles ShutdownEnds
CHECK_DEADLOCK FALSE
