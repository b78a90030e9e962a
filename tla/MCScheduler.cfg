SPECIFICATION SchedSpec
CONSTANTS
  j1 = j1  j2 = j2  s1 = s1  s2 = s2  t1 = t1  t2 = t2
  JobId = {j1, j2}
  Target = {t1, t2}
  Schedule = {s1}
  NoJob = NoJob
  NoTarget = NoTarget
  NoSchedule = NoSchedule
  Options <- Probes
  RuleOptions <- ProbeRules
  Grouped = {s1}
  RunNow <- NoOptions
  ByHand <- NoOptions
  ResolverFails = FALSE
  MaxEdits = 1
  MaxClock = 0
  MaxActiveJobs = 2
  FailureThreshold = 1
  HistoryLimit = 1
  MaxAttempts = 1
SYMMETRY IdsAndTargets
INVARIANTS QuietRowIsFinal OneJobPerSchedule
CHECK_DEADLOCK FALSE
