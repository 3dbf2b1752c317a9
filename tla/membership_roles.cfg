SPECIFICATION Spec
CONSTANTS
  alice = alice
  bob = bob
  carol = carol
  dave = dave
  NoPhone = NoPhone
  Phone = {alice, bob}
  Task = {t1, t2}
  Founders <- OneFounder
  SubscriberLimit = 2
  VouchLevels = {1}
  InvitedElsewhere = {}
  Command = {"JOIN", "ACCEPT", "INVITE", "BAN", "ADD", "API_ADD", "REKEY", "REMOVE"}
  MaxMessages = 4
SYMMETRY HandlerSymmetry
INVARIANTS SettledBansHold SettledDeauthsHold
 
CHECK_DEADLOCK FALSE
