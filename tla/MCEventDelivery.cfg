CONSTANTS
  Messages <- MCMessages
  Malformed <- MCMalformed
  Workers = {w1, w2}
  MaxDeliver = 3
  StreamName = XYNPOS_EVENTS
  EventType = transaction_completed
  NoMessage = NoMessage
  good = good
  bad = bad
SPECIFICATION FairSpec
CHECK_DEADLOCK FALSE
INVARIANTS
  TypeOK
  LostOnlyAfterRetries
PROPERTIES
  Settled
