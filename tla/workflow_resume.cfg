\* A project of no gate but the task book's, with a second version of its plans.
SPECIFICATION Spec
CONSTANTS
  Docs = {t1}
  Budget = 1
  MaxRevisions = 1
  Policies <- AutoOnly
  MaxRounds = 3
  None = None
  Malformed = Malformed
  Requests <- Plain
  IntakeBlocked = FALSE
  BranchPhases = {}
  MaxImages = 2
  MaxVersions = 2
INVARIANTS
  BatchPaidOnce
CHECK_DEADLOCK FALSE
