\* Two jobs of two projects and one worker, callbacks that may fail; fairness, no symmetry.
SPECIFICATION FairSpec
CONSTANTS
  Projects = {p1, p2}
  Keys = {k1}
  Jobs = {j1, j2}
  Workers = {w1}
  None = None
  Listening = TRUE
  WriteMayFail = FALSE
INVARIANTS
  InFlightIsBacked
  TimelineEndsOnce
PROPERTIES
  JobsEnd
