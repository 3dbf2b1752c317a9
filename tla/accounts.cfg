SPECIFICATION Spec
CONSTANTS
  Call = {c1, c2}
  Message = {m1, m2, m3}
  BatchSize = 2
  MinReserve = 1
  MaxKeyId = 5
  MaxBatches = 3
  MaxCrashes = 1
  Readers = 1
  None = None
SYMMETRY Symmetry
INVARIANTS  VerifiedReachable
 
CHECK_DEADLOCK FALSE
