SPECIFICATION RepeaterSpec
CONSTANTS
  me = me  p1 = p1  p2 = p2  p3 = p3  q = q  x = x  l = l
  Me = me  NoCall = NoCall
  HashOf <- OwnHash
  MaxPathBytes = 8  MaxHopCount = 6  MaxFloodHops = 3
  LoopMax <- LoopOff
  UnscopedAllow = TRUE
  MultiAcks = 0
  Loads <- RepeaterLoads
  MaxCacheSize = 1
  Ttl = 2  MinTtl = 1
  KeyTtl = 1
  MaxRecent = 2  MaxDuplicates = 1
  MaxAge = 3
  a1 = a1  a2 = a2  key1 = key1  key2 = key2
  Adverts = {a1, a2}
  Keys = {key1, key2}
  KeyOf <- MCKeyOf
  DedupeTtl = 2  MaxHashes = 1
  Capacity = 2  Unit = 2
  Rate <- MCRate  MinGap <- MCMinGap
  Threshold = 2  Decay = 2  BasePenalty = 2  Factor = 2  MaxPenalty = 3
  Hysteresis = 1
  WindowLength = 3  CleanupEvery = 3  Retention = 3  MaxTracked = 1  EvictShare = 2
  AgeCap = 4  MaxStrikes = 4
INVARIANTS RecordsFiled RateBound FairToKeys
PROPERTIES NoEarlyRelay ScopeObeyed
SYMMETRY Receptions
CHECK_DEADLOCK FALSE
