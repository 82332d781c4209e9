SPECIFICATION Spec
CONSTANTS
  ev = ev
  cf = cf
  re = re
  sw = sw
  None = None
  Orphan = Orphan
  Events = {ev}
  Confirms = {cf}
  Redeliveries = {re}
  Sweeps = {}
  MaxAttempts = 3
  MaxRetries = 1
  MaxCrashes = 0
  LeaseHolds = TRUE
INVARIANTS
  NoEarlyDelivery
  NoConflict
PROPERTIES
  RowPromise
