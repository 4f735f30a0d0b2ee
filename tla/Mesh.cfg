SPECIFICATION Spec
CONSTANTS
  a = a  b = b  c = c  e = e  s = s  d = d
  HashOf <- Hashes
  MaxPathBytes = 5
  MaxHopCount = 3
  MaxFloodHops = 3
  LoopMax <- LoopModes
  UnscopedAllow = TRUE
  MultiAcks = 1
  Repeaters = {a, b, c, e}
  Stations = {s, d}
  Traffic <- AllTraffic
  Scopes = {"region"}
  Worlds <- MeshWorlds
INVARIANTS PathTells RelayOnce Coverage AckSurvives
PROPERTY ImplementsSpread
CHECK_DEADLOCK FALSE
