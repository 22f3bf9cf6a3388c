CONSTANTS
  None = None
  Inputs = {}
  Holding = {hold1}
  Coils = {coil1}
  Writers = {w1}
  Background <- ScanAndStop
  Retry = 2
  MaxFailures = 0
  MaxVersion = 0
SPECIFICATION FairSpec
PROPERTIES
  TasksEnd
