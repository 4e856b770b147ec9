\* Eleven schemas, migrated to in any order, one fault.
CONSTANTS
  None = None
  Temp = "Temp"
  Rank <- MCRank
  Targets <- MCTargets
  MaxFaults = 1
SPECIFICATION Spec
INVARIANTS SuccessMatchesTarget OnlyUnworkableFails ConnectionRestored
PROPERTIES RebuildIsAtomic RowsSurvive
