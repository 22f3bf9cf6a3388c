SPECIFICATION FairSpec
CONSTANTS
  u1 = u1
  u2 = u2
  h1 = h1
  h2 = h2
  None = None
  Units = {u1, u2}
  Hosts = {h1, h2}
  EntryIds = {e1, e2}
  FlowIds = {f1, f2}
  Fold <- mcFold
  Home <- mcHome
  MaxFlows = 2
  MaxEvents = 1
INVARIANTS TypeOK UidUnique FlowCacheOnce LoadedIsCurrent
CHECK_DEADLOCK FALSE
PROPERTY SetupSettles
