SPECIFICATION FairSpec
CONSTANTS
  Known <- mcHolding
  Available <- mcHolding
  Others <- mcOthers
  Initial <- mcInitial
  Blocks <- mcBlocks
  Panel <- mcNumberPanel
  Follows <- mcFollows
  Callers = {"number"}
  CommandsOf <- mcNumber
  Displays = {"percentage", "air_flow_rate_manual"}
  BatchSize = 2
  Retry = 2
  MaxCalls = 1
  MaxFaults = 0
  MaxTouches = 1
  None = None
  Poll = Poll
PROPERTY ConfirmedIsShown
