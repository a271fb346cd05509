\* Safety and termination of the repair, stuck sets never stacked.
SPECIFICATION Spec
CONSTANTS
  N = 4
  MaxRev = 3
  Crashes <- MCCrashes
  Collected <- MCCollected
  Stacked = FALSE
  MaxFaults = 1
  MaxEnvWrites = 1
INVARIANTS
  TypeOK
  RevisionsIncrease
  RepairLeavesNoneStuck
PROPERTIES
  ConditionsNeverRolledBack
  RepairCompletesWhenHistoryKept
