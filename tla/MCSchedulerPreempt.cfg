SPECIFICATION FairSchedSpec
CONSTANTS
  j1 = j1  j2 = j2  s1 = s1  s2 = s2  t1 = t1  t2 = t2
  JobId = {j1, j2}
  Target = {t1}
  Schedule = {s1, s2}
  NoJob = NoJob
  NoTarget = NoTarget
  NoSchedule = NoSchedule
  Options <- Rivals
  RuleOptions <- RivalRules
  Grouped = {}
  RunNow <- KeepaliveNow
  ByHand <- NoOptions
  ResolverFails = FALSE
  MaxEdits = 0
  MaxClock = 0
  MaxActiveJobs = 2
  FailureThreshold = 1
  HistoryLimit = 1
  MaxAttempts = 0
PROPERTY ProbeGetsItsTarget
CHECK_DEADLOCK FALSE
