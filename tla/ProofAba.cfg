SPECIFICATION Spec
CONSTANTS
  NoProof = NoProof
  Proofs = {p1, p2}
  Compiles = {p1}
  Refreshers = {r1, r2}
  Hazards = {}
INVARIANTS PublishedCompiles
CHECK_DEADLOCK FALSE
