SPECIFICATION Spec
CONSTANTS
  b1 = b1  b2 = b2
  e1 = e1  e2 = e2  u1 = u1
  Primary = Primary
  BackupProviderIDs <- TwoBackups
  Evaluation = {e1, e2}
  Handler = {u1}
  Recovery = Recovery
  Client = Client
  Nobody = Nobody
  NoAdvice = NoAdvice
  InitialSettings <- EitherMode
  Settings <- AllSettings
  FailureThreshold = 1
  RecoveryThreshold = 2
  MaxRequests = 1
SYMMETRY Evaluations
INVARIANTS TypeOK OnlyValidatedBackups ThresholdIsAnswered ValidationIsExclusive
CHECK_DEADLOCK FALSE
