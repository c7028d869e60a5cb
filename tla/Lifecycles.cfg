SPECIFICATION Spec
CONSTANTS
  Starters = {s1, s2}
  CreationKeys = {k1}
  CreationInputs = {"p", "q"}
  RunIds = {1, 2}
  InitFiles = {1, 2}
  MaxReceipts = 1
  MaxCreationFaults = 1
  Callers = {c1, c2}
  CommandIds = {1, 2}
  MaxActive = 1
  MaxRetained = 1
  MaxCalls = 2
  Stubborn = {1}
  Caps = {p1, p2}
  Workers = {w1, w2}
  Files = {f1}
  Bytes = {b1}
  Hazards = {"crash"}
  Requests <- Submissions
  NoCap = NoCap  NoRequest = NoRequest  NoFile = NoFile  NoWorker = NoWorker
PROPERTIES CreationConverges CommandsEnd EveryCallReturns
CHECK_DEADLOCK FALSE
