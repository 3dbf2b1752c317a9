SPECIFICATION Spec
CONSTANTS
  Send = {s1, s2, s3}
  MaxKeys = 2
  MaxEnvelopes = 3
  BlockUnsealed = FALSE
  Crossing = FALSE
SYMMETRY Symmetry
INVARIANTS  SessionsCurrent
CHECK_DEADLOCK FALSE
