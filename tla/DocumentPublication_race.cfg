SPECIFICATION FairSpec
CHECK_DEADLOCK FALSE
CONSTANTS
  d1 = d1
  d2 = d2
  j1 = j1
  j2 = j2
  j3 = j3
  k1 = k1
  k2 = k2
  ar = ar
  ed = ed
  u1 = u1
  u2 = u2
  None = None
  Docs = {d1, d2}
  Jobs = {j1, j2, j3, k1, k2}
  Archivers = {ar}
  Editors = {ed}
  DocOf <- PublishDocOf
  UserOf <- PublishUserOf
  Scenes <- PublishScenes
  Related <- PublishRelated
  Clock = {1, 2}
  MaxTries = 2
INVARIANTS
  TypeOK
  NewestRevisionIsCurrent
  GraphFollowsDocument
  EdgesAreCurrent
PROPERTIES
  OnlyEarlierJobsRevive
  EveryTransactionEnds
