CONSTANTS
  None = None
  Inputs = {in1}
  Holding = {hold1}
  Coils = {coil1}
  Writers = {w1, w2}
  Background <- ScanAndStop
  Retry = 2
  MaxFailures = 1
  MaxVersion = 0
SPECIFICATION Spec
INVARIANTS
  TypeOK
  WriteLockOwner
  SingleEndpoint
SYMMETRY WriterSymmetry
