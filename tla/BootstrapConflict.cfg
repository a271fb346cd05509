\* The cascade's finalizer strip conflicts with its own Delete.
SPECIFICATION Spec
CONSTANTS
  Pkg = Pkg
  d1 = d1
  s1 = s1
  s2 = s2
  CODs <- MCNoCODs
  COSs <- MCNoCOSs
  OwnerOf <- MCNoOwnerOf
  StuckOrphans <- MCNoStuck
  MaxFaults = 0
  MaxEnvWrites = 0
  DeployRecovers = FALSE
CHECK_DEADLOCK FALSE
INVARIANT
  NoConflictWithoutConcurrentWriters
