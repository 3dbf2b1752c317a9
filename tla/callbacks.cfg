CONSTANTS
  alice = alice
  bob = bob
  NoPhone = NoPhone
  Phone = {alice}
  Kinds = {"HEALTHCHECK", "IS_ALIVE", "TRUST", "VERIFY", "SEND"}
  MaxRequests = 3
SPECIFICATION FairSpec
INVARIANTS TypeOK PendingRegistered EntriesExpire ResentAfterTrust
PROPERTIES PromisesSettle PromisesKept
CHECK_DEADLOCK FALSE
