SPECIFICATION RoundsSpec
CONSTANTS
  PlanCount = 2
  MaxRounds = 2
  Refreshers = {r1, r2}
  Hazards = {"crash", "cancel"}
  NoProof = NoProof
  Proofs = {p1, p2}
  Compiles = {p1, p2}
  Claims = {"c"}
  Promoters = {t1, t2}
  MaxViews = 0
  Lemmas = {"l"}
  Hypotheses = {"h"}
  Provers = {q1, q2}
  NoRun = noRun
  NodeBudget = 2
  NewestFacts = 2
  MaxOwnerRevisions = 1
  MaxRevocations = 1
  Given = {}
  Papers = {"a"}
  PaperProofs = {p1}
  NoDraft = NoDraft
  Searchers = {h1, h2}
  Bases = {"derivation", "not_material"}
  MaxSearches = 2
  MaxSnapshots = 4
  MaxRejections = 0
  BranchesPerRound = 2
  LastRound = 2
  LastEpoch = 9
  MaxRecords = 6
  MaxEvents = 1
  Callers = {c1}
  Parts = {"rounds", "gate", "registry", "evidence"}
INVARIANTS NeverDenied RegistrySound
PROPERTIES ResultsReadOnly ImplementsForkJoin ImplementsPipeline
CHECK_DEADLOCK FALSE
