CONSTANTS
  alice = alice
  request1 = request1
  request2 = request2
  envelope = envelope
  None = None
  Stop = Stop
  Account = {alice}
  Request = {request1, request2}
  Message = {envelope}
  MaxJobs = 4
  MaxErrors = 2
  Overlap = 1
SPECIFICATION FairSpec
INVARIANTS  BeliefMatches DrainLosesOnlyLate
PROPERTIES DisruptionsResolved Stops
CHECK_DEADLOCK FALSE
