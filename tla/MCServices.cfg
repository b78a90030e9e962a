INIT Init
NEXT Next
CONSTANTS
  MaxEvents = 3
  MaxEdits = 2
  Client = {c1}
  RecoverySuccesses = 2
  Threshold = 2
  RequestCap = 2
  Request <- MCRequest
  Fingerprint = {"f1", "f2"}
  HashOf <- MCHashOf
  NoRecord = NoRecord
  SummaryId = {a, b}
  SummaryLimit = 1
  MaxWrites = 3
  MaxId = 5
  MaxRows = 4
  MaxBytes = 5
  BatchSize = 2
  Limit = 3
  SourceSchedules <- MCSourceSchedules
  SourceSummaries <- MCSourceSummaries
  SourceEvents = 2
  MaxEvent = 4
  MaxStarts = 3
  Url = {u1, u2}
  NoUrl = NoUrl
  Channel = {d1, d2}
  Kind = {k1}
  Webhook = {w1, w2}
  EnvHook = w1
  NoHook = NoHook
  NoChannel = NoChannel
  MaxChanges = 2
  MaxRequests = 5
  Interval = 2
  MinSamples = 2
  RatePercent = 50
  AlertSuccesses = 2
  MaxQueued = 2
  MaxUpsets = 1
  MaxDay = 2
  MaxManual = 2
  MaxDigestFaults = 2
  DigestLimit = 2
  Key = {t1, t2}
  NoticeLimit = 1
  SummaryAt = 2
  MaxNotes = 2
  MaxToggles = 1
INVARIANTS
  TypeOK
  FailureIsVisible
  OneExecution
  CacheFollowsRedis
  ListingIsComplete
  ImportedOnce
  LiveMatchesStored
  RoutedOrDefault
  AlertsFollowTheStreak
  OneDigestPerDay
  NoticesAddUp
CHECK_DEADLOCK FALSE
