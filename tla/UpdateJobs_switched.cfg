SPECIFICATION UpdateSpec
CONSTANTS
  Channels = {main, dev}
  nothing = nothing
  Jobs = 1  MaxRequests = 2
INVARIANT LatestOfChannel
CHECK_DEADLOCK FALSE
