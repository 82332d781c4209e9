SPECIFICATION FairSpec
CONSTANTS
  d1 = d1
  d2 = d2
  d3 = d3
  Nobody = Nobody
  TTL = 6
  Interval = 2
  MaxStall = 1
  MaxFails = 3
  Holder <- ThreeDeliveries
PROPERTIES
  LeaseIsTheOwners
  OrphanExpires
  LossIsNoticed
