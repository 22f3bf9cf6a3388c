SPECIFICATION FairSpec
CONSTANTS
  Sites <- mcSites
  Socks = {s1, s2}
  Retry = 2
  MaxFaults = 0
  None = None
  Gone = Gone

PROPERTY SupportedUnitIsPolled
CHECK_DEADLOCK FALSE
