SPECIFICATION Spec
CONSTANTS
  d1 = d1
  d2 = d2
  d3 = d3
  Nobody = Nobody
  TTL = 12
  Interval = 4
  MaxStall = 1
  MaxFails = 1
  Holder <- ThreeDeliveries
INVARIANTS
  TypeOK
  MutualExclusion
