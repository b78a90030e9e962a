SPECIFICATION FairSpec
CONSTANTS
  b1 = b1  b2 = b2
  e1 = e1  e2 = e2  u1 = u1
  Primary = Primary
  BackupProviderIDs <- OneBackup
  Evaluation = {e1}
  Handler = {u1}
  Recovery = Recovery
  Client = Client
  Nobody = Nobody
  NoAdvice = NoAdvice
  InitialSettings <- AlwaysAutomatic
  Settings <- AlwaysAutomatic
  FailureThreshold = 1
  RecoveryThreshold = 1
  MaxRequests = 0
PROPERTY BackupIsWatched
CHECK_DEADLOCK FALSE
