\* Two projects, two keys and two jobs on two workers; the write of a record may fail.
SPECIFICATION Spec
CONSTANTS
  Projects = {p1, p2}
  Keys = {k1, k2}
  Jobs = {j1, j2}
  Workers = {w1, w2}
  None = None
  Listening = FALSE
  WriteMayFail = TRUE
SYMMETRY Symmetry
INVARIANTS
  TypeOK
  OneExecutionPerProject
  KeyRunsOnce
  OutcomeIsTrue
PROPERTIES
  FinalStatusStays
  ImplementsWorkOrders
