\* A cascade fails after deleting the package; the restarted run sees the recovered Deployment, updates the package being deleted and returns nil.
SPECIFICATION Spec
CONSTANTS
  Pkg = Pkg
  d1 = d1
  s1 = s1
  s2 = s2
  CODs <- MCCODs
  COSs <- MCCOSs
  OwnerOf <- MCOwnerOf
  StuckOrphans <- MCNoStuck
  MaxFaults = 0
  MaxEnvWrites = 1
  DeployRecovers = TRUE
CHECK_DEADLOCK FALSE
INVARIANT
  DoneMeansInstalled
