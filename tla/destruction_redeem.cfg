CONSTANTS
  red = red
  blue = blue
  job1 = job1
  job2 = job2
  admin1 = admin1
  admin2 = admin2
  message1 = message1
  message2 = message2
  request1 = request1
  NoChannel = NoChannel
  Channel = {red, blue}
  Job = {job1}
  Admin = {admin1}
  Message = {message1}
  Request = {request1}
  Grace = 3
  Period = 1
  Prompt = TRUE
  MaxFailures = 1
SPECIFICATION Spec
SYMMETRY Symmetry
INVARIANT SettledRedemptionsHold
INVARIANT NothingLeftBehind
