\* Reconcile under two workers, with deletions, finalizer removals and
\* ObjectDeployment availability changes racing it.
SPECIFICATION Spec
CONSTANTS
  p1 = p1
  p2 = p2
  w1 = w1
  w2 = w2
  NoKey = NoKey
  Pkgs <- MCPkgs
  Workers <- MCWorkers
  MaxFaults = 1
  MaxEnvWrites = 2
INVARIANTS
  TypeOK
PROPERTIES
  DeletingStatusFrozen
  DeletionCompletes
  StatusConverges
\* With no event left the workers wait on an empty queue: the controller may idle.
CHECK_DEADLOCK FALSE
