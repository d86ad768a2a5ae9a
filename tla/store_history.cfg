\* Two branches of two checkpoints, two configurations and two apply requests.
SPECIFICATION Spec
CONSTANTS
  Branches = {main, b1}
  Main = main
  States = {s1}
  MaxSeq = 2
  Policies = {p0, p1}
  InitPolicy = p0
  Keys = {k1, k2}
  None = None
  RollbackMayFail = FALSE
INVARIANTS
  TypeOK
  ReadersSeeDurableHead
  HistoryWellFormed
  HeadIsNewest
  LogMatchesHistory
  KeyTakesEffectOnce
  PolicyFileOfSomeBranch
PROPERTIES
  CommittedNeverLost
  PublishedBeforeVisible
  ReadersSeeAtomicCommits
