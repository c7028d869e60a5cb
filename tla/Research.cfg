SPECIFICATION Spec
CONSTANTS
  Lemmas = {2, 3, 4}
  MaxDependencies = 3
  PlansPerRound = 2
  BranchReports <- MCReports
  MaxResearchRounds = 2
  MaxResearchRecords = 2
  Sources = {"x", "y"}
  MaxRetrievals = 4
  MaxTries = 3
INVARIANTS RoutesExact RecordsAgree EvidenceCountsOnce
PROPERTIES AdviceSound
CHECK_DEADLOCK FALSE
