CONSTANTS
  ann = ann  bob = bob  sue = sue  pat = pat  h1 = h1  h2 = h2
  Person <- People
  MaxVouchLevel = 2
  Handler <- Handlers
  Inboxes <- Arrivals
  FirstMembers <- Memberships
  Invited <- Invites
  Maintainers <- Carers
  Slow = sue
  MaxInterval = 2
  MaxDrops = 6
  MaxFaults = 1
SPECIFICATION Spec
SYMMETRY Alike
INVARIANTS CountsMatchSent Answered TimersAgree ReplyReachesAuthor ResendsBounded
