SPECIFICATION FairSpec
CONSTANTS
  Sites <- mcSites
  Socks = {s1, s2}
  Retry = 3
  MaxFaults = 4
  None = None
  Gone = Gone
INVARIANTS TypeOK AnswersMatch OneLink RetriesMaskFaults ResolvedIsSpoken
PROPERTY SoundSiteIsPolled
CHECK_DEADLOCK FALSE
