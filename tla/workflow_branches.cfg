\* Branches under two policies, from the newest checkpoint and from an older batch; three images, three rounds.
SPECIFICATION Spec
CONSTANTS
  Docs = {t1}
  Budget = 1
  MaxRevisions = 1
  Policies <- Both
  MaxRounds = 3
  None = None
  Malformed = Malformed
  Requests <- Approvals
  IntakeBlocked = FALSE
  BranchPhases = {"candidate_generation_completed"}
  MaxImages = 3
  MaxVersions = 1
INVARIANTS
  PaidWasReleased
  
CHECK_DEADLOCK FALSE
