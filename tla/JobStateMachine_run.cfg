SPECIFICATION FairSpec
CONSTANTS
  s1 = s1
  s2 = s2
  s3 = s3
  s4 = s4
  NoSession = NoSession
  NoSnap = NoSnap
  MaxAttempts = 3
  InitStatus = "running"
  Session <- RunSessions
  Call <- RunCalls
INVARIANTS
  TypeOK
  NoLostTransition
PROPERTIES
  TerminalLeftOnlyAfterMiss
  CacheNeverRegresses
  RowPromise
  EveryCallReturns
