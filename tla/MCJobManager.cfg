SPECIFICATION Spec
CONSTANTS
  j1 = j1  j2 = j2  t1 = t1  t2 = t2
  JobId = {j1, j2}
  Target = {t1, t2}
  Schedule = {s1}
  NoJob = NoJob
  NoTarget = NoTarget
  NoSchedule = NoSchedule
  Options <- MixedOptions
  MaxActiveJobs = 2
  FailureThreshold = 2
  HistoryLimit = 1
  MaxAttempts = 2
SYMMETRY Ids
INVARIANTS TypeOK TargetExclusive LocksMatchJobs JobResolvable ScheduleEntryIsLive RequestsArePaired RecoveryMatchesFailures DrainedIsQuiet
PROPERTY KeepaliveOutlivesFailures
CHECK_DEADLOCK FALSE
