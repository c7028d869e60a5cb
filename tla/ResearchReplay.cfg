SPECIFICATION Spec
CONSTANTS
  BranchReports <- MCReports
  PlansPerRound = 2
  MaxResearchRounds = 2
  MaxResearchRecords = 2
  Lemmas = {2}
  MaxDependencies = 0
  Sources = {"x"}
  MaxRetrievals = 0
  MaxTries = 0
INVARIANTS AcceptedRecordsReplay
CHECK_DEADLOCK FALSE
