SPECIFICATION Spec
CONSTANTS
  c1 = c1  c2 = c2
  w1 = w1  w2 = w2  w3 = w3
  f1 = f1  b1 = b1
  NoCap = NoCap  NoRequest = NoRequest  NoFile = NoFile  NoWorker = NoWorker
  Caps = {c1}
  Workers = {w1, w2, w3}
  Files = {f1}
  Bytes = {b1}
  MaxReceipts = 2
  Hazards = {"expiry"}
  Requests <- RaceRequests
SYMMETRY Symmetry
INVARIANTS Inv InFlightFenced
CHECK_DEADLOCK FALSE
