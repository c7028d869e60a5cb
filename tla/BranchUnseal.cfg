SPECIFICATION Spec
CONSTANTS
  PlanCount = 2
  MaxRounds = 1
  Refreshers = {r1, r2}
  Hazards = {}
INVARIANTS JoinCoversRound
CHECK_DEADLOCK FALSE
