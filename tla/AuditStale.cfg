SPECIFICATION EvidenceSpec
CONSTANTS
  Given = {"g"}
  Papers = {"a"}
  PaperProofs = {p1, p2}
  NoDraft = NoDraft
  Searchers = {h1}
  Bases = {"stored", "inspection", "unresolved"}
  MaxSearches = 1
  MaxSnapshots = 3
  MaxRejections = 1
INVARIANTS AuditsOfApprovedProof
CHECK_DEADLOCK FALSE
