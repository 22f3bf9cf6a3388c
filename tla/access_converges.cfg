CONSTANTS
  None = None
  Inputs = {}
  Holding = {hold1}
  Coils = {coil1}
  Writers = {w1}
  Background <- NoTasks
  Retry = 2
  MaxFailures = 0
  MaxVersion = 1
SPECIFICATION SettlingSpec
PROPERTIES
  ViewSpec
  Converges
