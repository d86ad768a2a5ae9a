\* Two branches, two completed checkpoints, an intact and a damaged image; fairness, no symmetry.
SPECIFICATION FairSpec
CONSTANTS
  Assets = {a1, a2}
  Damaged = {a2}
  MaxBranch = 2
  MaxAttempts = 2
  MaxPrepared = 2
  None = None
INVARIANTS
  TypeOK
  CandidateIsWhole
  BundleNeverConflicts
PROPERTY
  CandidatesDelivered
