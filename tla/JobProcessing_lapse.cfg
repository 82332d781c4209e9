SPECIFICATION FairSpec
CONSTANTS
  ev = ev
  cf = cf
  re = re
  sw = sw
  None = None
  Orphan = Orphan
  Events = {ev}
  Confirms = {}
  Redeliveries = {re}
  Sweeps = {sw}
  MaxAttempts = 3
  MaxRetries = 0
  MaxCrashes = 1
  LeaseHolds = FALSE
INVARIANTS
  TypeOK
  ResultOfLastCompletion
  OutboxMatchesMoves
PROPERTIES
  EveryDeliveryEnds
  EventuallySettled
