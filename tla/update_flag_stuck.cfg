CONSTANTS
  None = None
  Inputs = {}
  Holding = {hold1}
  Coils = {}
  Writers = {w1}
  Background <- NoTasks
  Retry = 1
  MaxFailures = 1
  MaxVersion = 0
SPECIFICATION Spec
INVARIANTS
  UpdateFlagMatchesCycle
