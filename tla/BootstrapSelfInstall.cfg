\* After the forced cleanup the Job fails instead of self-installing.
SPECIFICATION Spec
CONSTANTS
  Pkg = Pkg
  d1 = d1
  s1 = s1
  s2 = s2
  CODs <- MCCODs
  COSs <- MCCOSs
  OwnerOf <- MCOwnerOf
  StuckOrphans <- MCNoStuck
  MaxFaults = 0
  MaxEnvWrites = 0
  DeployRecovers = FALSE
CHECK_DEADLOCK FALSE
INVARIANT
  CleanupProceedsToSelfInstall
