\* A crashed set whose previous set was collected: does the Job ever finish?
SPECIFICATION Spec
CONSTANTS
  N = 4
  MaxRev = 3
  Crashes <- MCCrashes
  Collected <- MCCollected
  Stacked = FALSE
  MaxFaults = 0
  MaxEnvWrites = 0
PROPERTIES
  RepairEventuallyCompletes
