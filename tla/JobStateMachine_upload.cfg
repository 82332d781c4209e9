SPECIFICATION Spec
CONSTANTS
  s1 = s1
  s2 = s2
  s3 = s3
  s4 = s4
  NoSession = NoSession
  NoSnap = NoSnap
  MaxAttempts = 3
  InitStatus = "waiting-file"
  Session <- UploadSessions
  Call <- UploadCalls
INVARIANTS
  FirstAttemptIsLegal
  AuditCoversHistory
  CacheFollowsRow
