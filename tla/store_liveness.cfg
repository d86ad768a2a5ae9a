\* Termination of transactions, also when a write of a rollback fails; fairness, no symmetry.
SPECIFICATION FairSpec
CONSTANTS
  Branches = {main, b1}
  Main = main
  States = {s1}
  MaxSeq = 1
  Policies = {p0, p1}
  InitPolicy = p0
  Keys = {k1}
  None = None
  RollbackMayFail = TRUE
PROPERTIES
  IntentResolved
