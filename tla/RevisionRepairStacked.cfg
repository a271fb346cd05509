\* A crashed rollout stacked on a crashed rollout: revision order after repair.
SPECIFICATION Spec
CONSTANTS
  N = 4
  MaxRev = 3
  Crashes <- MCCrashes
  Collected <- MCStackedCollected
  Stacked = TRUE
  MaxFaults = 0
  MaxEnvWrites = 0
INVARIANTS
  RevisionsIncrease
