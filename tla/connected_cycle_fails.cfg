CONSTANTS
  None = None
  Inputs = {}
  Holding = {hold1}
  Coils = {coil1}
  Writers = {w1}
  Background <- NoTasks
  Retry = 2
  MaxFailures = 1
  MaxVersion = 0
SPECIFICATION Spec
PROPERTIES
  FailsOnlyUnconnected
