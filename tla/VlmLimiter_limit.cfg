SPECIFICATION FairSpec
CONSTANTS
  c1 = c1
  c2 = c2
  c3 = c3
  c4 = c4
  Callers = {c1, c2, c3, c4}
  Max = 2
  TTL = 3
  Durations = {2, 5}
  MaxFaults = 2
INVARIANTS
  TypeOK
  LimitHolds
  ExcessIsLost
PROPERTIES
  QuietRepairs
