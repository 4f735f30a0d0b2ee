SPECIFICATION ServicesSpec
CONSTANTS
  n1 = n1  n2 = n2
  Neighbors = {n1, n2}
  Interval = 2  Retry = 1  Grace = 1
  Loads <- MCLoads
  Timers = 3  MaxSetbacks = 3  MaxRefreshes = 2
  k1 = k1  k2 = k2
  s1 = s1  s2 = s2  d1 = d1  d2 = d2  p1 = p1  p2 = p2
  old = old  lost = lost  gone = gone  torn = torn  nobody = nobody
  ConfigKeys = {k1, k2}
  Calls <- MCCalls
  KindOf <- MCKindOf
  ConfigKeyOf <- MCKeyOf
  SectionsOf <- MCSectionsOf
  Batches <- MCBatches
  MaxFailures = 2  MaxEnds = 2
  Channels = {main, dev}
  nothing = nothing
  Jobs = 2  MaxRequests = 4
  m1 = m1  m2 = m2  again = again  c1 = c1  c2 = c2
  none = none
  Messages <- MCMessages
  Channel <- MCChannel
  PacketHashOf <- MCHashOf
  Arrivals <- MCArrivals
  Sizes = {1, 2}
  MaxStarts = 1
INVARIANTS RowsTrue KeepsTrying DiskWhole SavedStands RefusedUnseen StateTrue DeliveredOnce
PROPERTIES Spaced CycleEnds
CHECK_DEADLOCK FALSE
