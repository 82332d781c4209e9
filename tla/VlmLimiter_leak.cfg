SPECIFICATION FairSpec
CONSTANTS
  c1 = c1
  c2 = c2
  c3 = c3
  c4 = c4
  Callers = {c1, c2}
  Max = 1
  TTL = 3
  Durations = {2}
  MaxFaults = 1
PROPERTIES
  LeaseExpires
