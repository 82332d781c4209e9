SPECIFICATION FairSpec
CONSTANTS
  post = post
  rec = rec
  c1 = c1
  NoMessage = NoMessage
  Posters = {post}
  Recoveries = {rec}
  MaxMessages = 2
  MaxRetries = 1
  Callbacks = {c1}
INVARIANTS
  TypeOK
  VerdictIsTrue
  PendingIsRecoverable
PROPERTIES
  PendingIsHandedOver
  EventuallyDecided
