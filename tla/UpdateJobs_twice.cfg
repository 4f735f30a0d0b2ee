SPECIFICATION UpdateSpec
CONSTANTS
  Channels = {main, dev}
  nothing = nothing
  Jobs = 2  MaxRequests = 4
INVARIANT OneUpdate
CHECK_DEADLOCK FALSE
