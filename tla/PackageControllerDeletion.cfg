\* A package in deletion held only by the loader-job finalizer.
SPECIFICATION Spec
CONSTANTS
  p1 = p1
  p2 = p2
  w1 = w1
  w2 = w2
  NoKey = NoKey
  Pkgs <- MCPkgs
  Workers <- MCOneWorker
  MaxFaults = 0
  MaxEnvWrites = 0
CHECK_DEADLOCK FALSE
INVARIANT
  DeletionAbsorbsNotFound
