SPECIFICATION ShardsFairSpec
CONSTANTS
  NumShards = 2
  User = {c1, c2}
  Diag = d
  MaxSize = 2
  Rounds = 2
  MaxFaults = 1
  MaxEarly = 1
INVARIANTS EvenlyAssigned
PROPERTIES RestartsEnd Heals
