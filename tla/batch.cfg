\* Two candidates on two threads, each called up to three times, one answer lost per candidate.
SPECIFICATION FairSpec
CONSTANTS
  Slots = {c1, c2}
  MaxWorkers = 2
  Humans = {h1}
  None = None
  MaxCalls = 3
  MaxLost = 1
INVARIANTS
  TypeOK
  PaidAgainForAReason
PROPERTIES
  StoredIsPaidOnce
  BatchEnds
CHECK_DEADLOCK FALSE
