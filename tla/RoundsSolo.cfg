SPECIFICATION RoundsSpec
CONSTANTS
  PlanCount = 2
  MaxRounds = 2
  Refreshers = {r1}
  Hazards = {"crash", "cancel"}
  NoProof = NoProof
  Proofs = {p1, p2, p3}
  Compiles = {p1, p3}
  Claims = {"c", "d"}
  Promoters = {t1}
  MaxViews = 1
  Lemmas = {"l"}
  Hypotheses = {"h"}
  Provers = {q1, q2}
  NoRun = noRun
  NodeBudget = 2
  NewestFacts = 2
  MaxOwnerRevisions = 0
  MaxRevocations = 1
  Given = {"g"}
  Papers = {"a"}
  PaperProofs = {p1, p2}
  NoDraft = NoDraft
  Searchers = {h1}
  Bases = {"stored", "inspection", "unresolved"}
  MaxSearches = 1
  MaxSnapshots = 3
  MaxRejections = 1
  BranchesPerRound = 2
  LastRound = 2
  LastEpoch = 9
  MaxRecords = 6
  MaxEvents = 1
  Callers = {c1}
  Parts = {"rounds", "gate", "registry", "evidence", "access"}
SYMMETRY RunSymmetry
INVARIANTS RoundsSound PublishedCompiles ApprovalEvidenced FindingsSound Firewalled
CHECK_DEADLOCK FALSE
