\* A standalone project whose supplied files never change, and one rebuilt branch.
SPECIFICATION Spec
CONSTANTS
  l1 = l1
  l2 = l2
  m1 = m1
  m2 = m2
  None = None
  Keep = Keep
  Releases = {l1, l2}
  Rounds = {1, 2}
  Models = {m1, m2}
  ModelStates <- MCModelStates
  Role <- MCRole
  Authorized = {m1, m2}
  Private = {"p0", "p1"}
  Clients = {c1, c2}
  Patches <- OnePatch
  Versions <- OneVersion
  Registry <- NoRegistry
  Deployments = {FALSE}
  Names = {n1}
  MaxId = 3
  MaxStage = 2
CHECK_DEADLOCK FALSE
INVARIANT ActiveBranchLoads
