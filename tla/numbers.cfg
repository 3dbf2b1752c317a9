CONSTANTS
  n1 = n1
  c1 = c1
  c2 = c2
  s1 = s1
  s2 = s2
  api = api
  t1 = t1
  t2 = t2
  None = None
  Provision = Provision
  Startup = Startup
  Number = {n1}
  Creation = {c1, c2}
  Slot = {s1, s2}
  Api = {api}
  Sender = {s1}
  Text = {t1, t2}
  Quota = 1
  MaxFailures = 1
  AtOnce = 2
  Asked = {}
  Initial <- NoneBought
SPECIFICATION Spec
SYMMETRY Symmetry
INVARIANTS CreationHolds OwnedRecorded  QuotaOvershoot
CHECK_DEADLOCK FALSE
