\* Eleven schemas, migrated to in any order, no fault.
CONSTANTS
  None = None
  Temp = "Temp"
  Rank <- MCRank
  Targets <- MCTargets
  MaxFaults = 0
SPECIFICATION Spec
INVARIANT MigrationCompletes
