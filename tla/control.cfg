SPECIFICATION FairSpec
CONSTANTS
  Known <- mcHolding
  Available <- mcHolding
  Others <- mcOthers
  Initial <- mcInitial
  Blocks <- mcBlocks
  Panel <- mcPanel
  Follows <- mcFollows
  Callers = {"fan", "other"}
  CommandsOf <- mcCommands
  Displays = {"percentage", "air_flow_rate_manual"}
  BatchSize = 2
  Retry = 2
  MaxCalls = 2
  MaxFaults = 2
  MaxTouches = 1
  None = None
  Poll = Poll
INVARIANTS TypeOK BlocksAreWhole StepsInOrder
PROPERTIES SuccessIsEarned OverlayIsEarned Settles
