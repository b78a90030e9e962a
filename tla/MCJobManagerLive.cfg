SPECIFICATION FairSpec
CONSTANTS
  j1 = j1  j2 = j2  t1 = t1  t2 = t2
  JobId = {j1, j2}
  Target = {t1, t2}
  Schedule = {s1}
  NoJob = NoJob
  NoTarget = NoTarget
  NoSchedule = NoSchedule
  Options <- LeaseOptions
  MaxActiveJobs = 1
  FailureThreshold = 2
  HistoryLimit = 2
  MaxAttempts = 1
PROPERTIES StopEndsJob ShutdownEnds ImplementsLease
CHECK_DEADLOCK FALSE
