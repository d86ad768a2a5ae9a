\* One call made up to four times, two of them without an answer; two humans decide.
SPECIFICATION Spec
CONSTANTS
  Keys = {k1}
  Humans = {h1, h2}
  None = None
  MaxCalls = 4
  MaxLost = 2
SYMMETRY Symmetry
INVARIANTS
  ChargesAreAudited
  NoBlindRetry
CHECK_DEADLOCK FALSE
