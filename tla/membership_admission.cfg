SPECIFICATION Spec
CONSTANTS
  alice = alice
  bob = bob
  carol = carol
  dave = dave
  NoPhone = NoPhone
  Phone = {alice, bob, carol}
  Task = {t1, t2}
  Founders <- OneFounder
  SubscriberLimit = 1
  VouchLevels = {1, 2}
  InvitedElsewhere = {bob, carol}
  Command = {"INVITE", "ACCEPT", "DECLINE", "JOIN", "LEAVE", "VOUCHING", "VOUCH_LEVEL"}
  MaxMessages = 4
SYMMETRY Symmetry
INVARIANTS OvershootBounded
PROPERTIES VouchedEntry
CHECK_DEADLOCK FALSE
