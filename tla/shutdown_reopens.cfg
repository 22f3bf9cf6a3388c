CONSTANTS
  None = None
  Inputs = {in1}
  Holding = {hold1}
  Coils = {coil1}
  Writers = {}
  Background <- JustStop
  Retry = 2
  MaxFailures = 1
  MaxVersion = 0
SPECIFICATION Spec
INVARIANTS
  ShutdownDisconnects
