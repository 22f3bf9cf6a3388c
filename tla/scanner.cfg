SPECIFICATION FairSpec
CONSTANTS
  Named <- mcNamed
  Tails <- mcTails
  Missing <- mcMissing
  UartOptional <- mcUartOptional
  Alarms <- mcAlarms
  InfoBlock <- mcInfoBlock
  Version <- mcVersion
  NameBlock <- mcNameBlock
  RawAddresses <- mcRawAddresses
  Boundaries <- mcBoundaries
  Setups <- AllSetups
  Batch = 2
  Retry = 2
  Runs = 2
  MaxFaults = 2
INVARIANTS TypeOK CacheCoherent FailedWereProbed QuietScanIsExact MissingIsExplained ValidationClosesAll
PROPERTY ScanEnds
CHECK_DEADLOCK FALSE
