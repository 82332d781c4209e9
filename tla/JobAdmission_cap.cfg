SPECIFICATION FairSpec
CONSTANTS
  j1 = j1
  j2 = j2
  j3 = j3
  b1 = b1
  b2 = b2
  x = x
  y = y
  None = None
  Jobs = {j1, j2, j3}
  DocOf <- CapDocOf
  Scenes <- CapScenes
  Max = 1
  Connections = 2
  Beats = {b1, b2}
  MaxAttempts = 3
  MaxFaults = 1
INVARIANTS
  TypeOK
  CapOvershootBounded
PROPERTIES
  SlotsComeBack
