\* Safety of the cascade and of the self-bootstrap's result, and eventual
\* success, with the Deployment able to recover at any point of a run and
\* one ClusterObjectSet stuck at revision 0 beside a collected previous set.
SPECIFICATION Spec
CONSTANTS
  Pkg = Pkg
  d1 = d1
  s1 = s1
  s2 = s2
  CODs <- MCCODs
  COSs <- MCCOSs
  OwnerOf <- MCOwnerOf
  StuckOrphans <- MCStuck
  MaxFaults = 1
  MaxEnvWrites = 1
  DeployRecovers = TRUE
INVARIANTS
  TypeOK
  NukeLeavesNothing
  SelfBootstrapInstalled
PROPERTIES
  BootstrapEventuallySucceeds
\* The Job completes once Bootstrap returns nil: a run may stop in "done".
CHECK_DEADLOCK FALSE
