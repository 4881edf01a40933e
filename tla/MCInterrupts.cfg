SPECIFICATION FairSpec
CONSTANTS
  IRQs = {0, 1, 2}
  Handlers = {h1, h2}
  NULL = NULL
  MaxNested = 2
INVARIANTS NestsUpwards NoUpdateLost DispatchesWhole
PROPERTY UrgentServed
