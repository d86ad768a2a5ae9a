\* Every form of every page on one branch; two task books, two images, four rounds.
SPECIFICATION Spec
CONSTANTS
  Docs = {t1, t2}
  Budget = 1
  MaxRevisions = 2
  Policies <- GatedOnly
  MaxRounds = 4
  None = None
  Malformed = Malformed
  Requests <- Forms
  IntakeBlocked = FALSE
  BranchPhases = {}
  MaxImages = 2
  MaxVersions = 1
SYMMETRY Symmetry
INVARIANTS
  TypeOK
  DeliveredWasJudged
  OneDecisionOneRound
CHECK_DEADLOCK FALSE
