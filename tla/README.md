# AI Watch in TLA+

AI Watch is a service that keeps AI command line tools (Codex, Claude) and their
providers warm: it starts CLI processes against a provider until one answers
(*probe*) or for ever (*keepalive*), by hand or by a schedule, records every
request in an event ledger, and derives alerts, incidents and failover advice
from it. This directory models the concurrent core of the service and the protocols
around it, checks them with TLC and proves with TLAPS the central invariants of the
job table, the scheduler, the event pipeline, the failover, the idempotency filter,
the incidents and alerts, the daily digest, the messages and their routing, the proxy
configuration, and the cache, the start and the event ledger of the store.

Paths are relative to `src/`; `manager.go` and `scheduler.go` are in
`internal/jobs/`. `PROJECT.json` maps every definition to the lines it stands for.

## 1. Inventory

| Component | State | Operations | Talks to |
|---|---|---|---|
| Job table (`manager.go`) | `jobs`, `locks`, `scheduleJobs`, `history`, `closing` under `Manager.mu`; one goroutine per job | start, run, continueKeepalive, finish, Stop, StopTarget, Shutdown, SetSettings, Subscribe | executor, store, event pipeline, notifications |
| Event pipeline (`manager.go`) | `eventQueue` (bounded channel), `eventWG`, `persistenceErr` | publishLocked, recordOperationalEvent, flushEventWrites, persistEvents, close | every publisher; store; starts failover, incident and alert evaluations |
| Scheduler (`scheduler.go`) | rows in the store, `scheduleJobs`, a wake channel | reconcileSchedules, UpsertSchedule, DeleteSchedule, StartForSchedule | job table, store, resolver |
| Failover (`failover.go`, `api/provider_groups.go`) | provider groups in the store, `failoverRunning`, `groupMutationMu` | evaluateFailover, validateFailoverGroup, CompleteProviderGroupEvaluation, ApplyProviderGroupAdvice, recoverFailoverAdvice, reconcileProviderGroupRecovery | starts jobs, flushes and reads the ledger, stops schedule jobs |
| Incidents (`incidents.go`, `api/incidents.go`) | incident rows, `incidentMu` | aggregateIncident, acknowledge, mute, maintenance | ledger, notifications |
| Alerts and digest (`reliability_alerts.go`, `reliability_digest.go`) | alert state per provider, `digestSentDate` | evaluateReliabilityAlert, runReliabilityDigest | ledger, notifications |
| Notifications (`notifications.go`, `notify/`) | merge timer, progress intervals, `notificationSlots` | queueRecovery, recordProbeProgress, recordKeepaliveSuccess | DingTalk |
| Idempotency (`api/idempotency.go`) | records per key, with a TTL | claim, wait, execute, complete, replay | every mutating request |
| Runner (`runner/`) | process group, temporary directory | Run, kill, reap | operating system |
| Stores (`store/redis.go`, `store/json.go`) | rows, caches, `writeMu`, the event index | scripts for atomic updates, trimming, paging, prewarm, import | Redis, SQLite, file |
| Proxy configuration (`proxyconfig/`) | subscription, files of Mihomo | Apply, Clear, Restore with rollback | Mihomo controller |
| Notification routing (`secureconfig/service.go`, `api/notification_routing.go`) | channels, routes, default webhook | save, delete, deliverRouted | store, DingTalk |
| Pure algorithms | none | classify, percentiles and streaks (`reliability/`), windows (`scheduleOccurrence`, `nextScheduleRun`) | callers |
| Secure configuration, scan, diagnostics, redaction, HTTP API, frontend | files, none | editing, parsing, probing, encoding | I/O |

What is hard in each: the job table has goroutines that start, stop and exit in any
order around one lock table; the pipeline has a bounded channel that is filled
with the lock held and closed by a shutdown; the scheduler acts on a copy of rows
that requests, jobs and the clock change; failover and incidents read a row, wait
(for a job, a flush, a delivery) and write the whole row back; idempotency,
digest and proxy configuration have steps that a crash, a store error or a
cancelled context can separate; the Redis store answers readers from a copy that
follows Redis only while replies arrive, and opens with an import of many commands.
The properties are in section 4; the hazards in `PROJECT.json` name the line where
each question bites, and, where no property covers it, the reason.

## 2. Modules

| Module | Stands for |
|---|---|
| `TargetLease` | Abstract specification: targets are leased to jobs, exclusively, once per job, up to a limit, until the service closes; a revoked lease is given back. |
| `JobManager` | The job table: start, the goroutine of a job, finish, stop, shutdown, and the store rows they write. Implements `TargetLease`. |
| `JobManagerProofs` | Its theorems. |
| `Scheduler` | Extends `JobManager` by the reconciler and the handlers that edit rows; every step of a job, a client or the shutdown is the `JobManager` action. |
| `SchedulerProofs` | Its theorems, on top of `JobManagerProofs`. |
| `EventPipeline` | Queue, writer, flush, evaluations and shutdown, with the read-write lock that ties them together. |
| `EventPipelineProofs` | Its theorems. |
| `Failover` | One provider group: evaluations, validations, advice, switches, recovery probes and users, over a group row that is always written whole. |
| `FailoverProofs` | Its theorems. |
| `Incidents` | The incidents of one subject: evaluations in any order under `incidentMu`, requests that write the same rows without it. |
| `ReliabilityProofs` | Theorems about `Incidents` and `Alerts`. |
| `Idempotency` | One idempotency key: claim, wait, execution, replay. |
| `RedisCache` | The tables of the Redis store that have a copy in memory, and `writeMu`. |
| `EventLedger` | The event index in Redis: insertion, trimming, clearing, what the start-up removes from it, and a listing that pages through it. |
| `StoreOpen` | The start of the store: schema, import of SQLite, defaults, prewarm, with a crash between any two commands. |
| `StoreProofs` | Theorems about `RedisCache`, `StoreOpen` and `EventLedger`. |
| `ProxyConfig` | The Mihomo subscription in store, file and controller: apply, clear, restore, rollback. |
| `RequestProofs` | Theorems about `Idempotency` and `ProxyConfig`. |
| `Routing` | Channels, routes and the default webhook, and a delivery that reads them one by one. |
| `Alerts` | The alert state of a provider over streaks, late evaluations and restarts. |
| `Digest` | The daily digest: loop, memory, ledger, event queue, restarts. |
| `Notices` | Summaries, progress and merged recoveries of jobs. |
| `MessageProofs` | Theorems about `Digest`, `Routing` and `Notices`. |
| `MC*` | Instances for TLC. `MCServices` extends the ten modules above from `Incidents` to `Notices` and holds them side by side: they share no variable, and a behaviour is one of one of them. |

They meet where the code calls: a `request_end` that `EventPipeline` saves is what
`Incidents`, `Alerts` and `Failover` evaluate; `Alerts`, `Digest` and `Notices` hand
their messages to what `Routing` delivers; `EventLedger` is the listing that
statistics, digest and incidents read; `RedisCache` is what the rounds of `Scheduler`
read rows from. Each module states what it takes from the others: a flush has
returned, a delivery arrived or not, a listing is complete.

### JobManager and the code

A critical section of `Manager.mu` is one action, and so is a call of the store;
`pc[j]` is the place of a job's goroutine between them. `Register` is the section
of `start` that enters the tables; for a scheduled job `MarkQueued` follows, in the
caller, before the goroutine is started. `SetRunning` .. `WaitOver` are the steps
of `run` in their order. `Finish` is the section of `finish`, followed by
`SaveSummary` and `MarkTerminal`, which run without the lock: that is where other
goroutines see a job that has left the tables and not yet reached the store.
`cancelled[j]` is the context of the job, which stop, preemption and shutdown
cancel and which the loop, the wait and the executor observe.

The executor's result is nondeterministic: success, fatal, anything that is
retried, or stopped, the last only with a cancelled context. An executor may also
fail to start. `MarkScheduleRun` is the Redis script: it overwrites the marks of a
row that exists and does nothing otherwise.

### Scheduler and the code

`BeginRound` copies the rows, `Scan` handles one of them, `Preempt` cancels
scheduled keepalives on targets that probes want, `Choose` takes the candidates,
probes first, and checks the entry again; `StartCandidate`, `StartConflicts`,
`MarkSkipped` and `StartRefused` are the outcomes of `start`. `UpsertSchedule` and
`UpsertStops` (and `DeleteStops`, `DeleteSchedule`) are the two halves of the
request handlers, between which the reconciler may run. An occurrence key is the
version of the rule (its `UpdatedAt`) and the day, as in `scheduleOccurrence`. The
clock counts half days, and every window is open in the first half: this keeps the
two facts the round depends on, whether the window is open and which occurrence it
is.

### EventPipeline and the code

`publishLocked` sends with the write lock held, so `PublishLock` and `PublishSend`
are two steps and the second waits for room. The lock is Go's `sync.RWMutex`: a
waiting writer (`pending`) bars new readers. `flushEventWrites` sends its barrier
with the read lock held. `recordOperationalEvent` reads `closing` under the lock
and sends without it. The writer reads settings under the lock for every saved
`request_end` (`EvaluateCheck`), whether alerts are enabled or not, and may start an alert evaluation. Failover
evaluations are named by the event that caused them; the goroutines of request
handlers, and the one a standby validation leaves behind, are `ApiCaller`s, which
no wait group counts. The store may refuse an event (`lost`); the error flag that
remembers it is in `Digest`, where it decides something.

### Failover and the code

The store's row is `row`; everybody who works on it has a copy in `local` and a
place in `pc`, and every `UpsertProviderGroup` writes a whole copy back. Between a
read and a write stand the waits of the code: a job (`TryBackup`, `RecoveryProbe`,
`EvaluationEnds`), a flush of the event queue (`CountFailures`, `RecoverAdvice`, and
`requestIDForJob` before `OpenAdvice`, `RecoverySettle` and `CompleteEvaluation`), or a
user who looks at a page (`ReadGroup`). `holder` is `failoverRunning`, which an
evaluation that lost the race is turned away by, and `mutation` is `groupMutationMu`,
which it would wait for; a validation by hand takes neither. The ledger is kept as
the last streak of results on the primary (`streak`), counted up to the larger
threshold, and `passed` remembers which job validated which backup. The branch of
`evaluateFailover` that completes a validation by the end of its request
(`failover.go:186`) is not reached: `queueFailoverEvaluation` returns early for
the requests of validations.

### Incidents and the code

A request that ends is published and its evaluation queued in one section; the
goroutine waits for `incidentMu`, flushes, and then works on a copy (`agg.row`) it
writes back whole, a second time when its message was delivered. The handlers of
`incidentRoute` and the maintenance synchronisation hold a copy of their own
(`client`). `order` is the sorted set by update time that `FindOpenIncident` walks.
`dismissed` remembers which incidents a request wrote as resolved, `faulty` that the
store refused a call.

### Idempotency and the code

`SetNX` and `GetRecord` are the two commands of `ClaimIdempotency`; `Poll` is the
read every 25 ms, whose dropped error makes `PollFails` go on to the execution;
`SetNXTwice` is a command that the Redis client repeated because its reply was lost
and that now finds its own record. `gone` is a request that died with the process; its
record stays. `own` executes and records, `bare` executes
without a record after a failed claim, or when the key went between the commands.

### RedisCache, EventLedger, StoreOpen and the code

`RedisCache`: a write is `BeginWrite`, the command (`Commit`, `Refused` or `AnswerLost`),
for summaries the trimming, and `UpdateCache`, all under `writeMu`. A row is its
number of writing; `Written` is what the scripts make of the old row. `unsure` names
the tables whose last effective write was not acknowledged, where code and cache
legitimately part until the next write or start.

`EventLedger`: `saveEventScript` (`InsertEvent`), `retainEventScript` (`RetainEvents`) and
`clearEventScript` are atomic, and trim by age, by rows and by the running sum of the sizes
(`Retained`); a listing is ids (`ReadIds`) and rows (`ReadRows`), batch by batch. An event
may be inserted late, before others, since the index is by time. `jobs.New` starts the
scheduler and the digest loop (`manager.go:119`) before `main.go:64` removes the events of a
retired type and `main.go:70` applies the retention, so saves and listings go on meanwhile:
`cleanup` is the place of the start-up between the commands of `DeleteEventsByType`
(`ReadRetired`, `ReadSizes`, `DeleteRetired`, `CheckBytes`, `ResetBytes`), and it may die at
each (`LedgerRestart`). A retired row that a save trims after its size was read is taken off
the sum twice, and `short` remembers by how much the sum is off; the read of a size can fail
and its error is dropped, which `misread` remembers; and rows that go from the middle shift
the offset of a listing, which is promised nothing more (`must`). `Bytes` is a number of
pairs, and `Kept` selects by rank: both say what the loops of the code yield, in a form the
prover can compare.

`StoreOpen`: one action per command of `open` and `migrateSQLite`; the process can
fail at each and start again. A dropped read error of the sums is `misread`.

### ProxyConfig and the code

`call` is the holder of `operationMu` with its place, what it found stored and in the
file, and whether its context is cancelled. `live` is what Mihomo runs. Every call of
the controller may be done, done without an answer, or refused; a cancelled context
refuses all further ones, those of the rollback too.

### Routing, Alerts, Digest, Notices and the code

`Routing`: each read of a delivery (`ReadRoute`, `FindDefault`, `ReadDefault`,
`ReadChannel`) and each command of a request (`SaveChannel`, `DeleteChannel`,
`LoadRoutes`, `SaveRoutes`) is a step; `seen` collects what was configured while the
delivery went on. Every read may fail. `fault` notes that of the route or the channel,
after which the default gets the message. `noDefault` notes that of the default:
`effectiveWebhook` returns the error, the channel is still tried, and then the
delivery ends without the environment's webhook, even if nobody touched it.

`Alerts`: `ended` is the ledger with the begin of the 24 hours for each event;
`Evaluate` is everything `evaluateReliabilityAlert` does before it sends,
`Send`, `SaveAlert` and `SaveRecovery` the rest. `StartAgain` clears the memory, and
`Reloaded` is the state that the newest of the stored events (`alertLog`, a set) gives back.

`Digest`: `Tick` .. `Record` are the steps of `runReliabilityDigest`, `SaveNext` the
event writer with its error flag, `Close` and `Reopen` an orderly restart.

`Notices`: a counter (`keepalives`, `progress`, `recoveries`) is the sum, the named
targets and what was only counted. `Recovers` .. `MergeRecovery` are the reads and
sections of `queueRecovery`, between which settings, webhook, timer and shutdown move.
A sum over targets or messages (`SumOf`) is written as the number of its copies, not as a
fold, so that the prover can compare two of them.

## 3. Bounds

Identifiers are model values. Where only safety is checked, permutations of job
ids, and of targets where all rows may ask for all of them, are symmetries.

* Two job ids: a conflict, and a job that follows on one that is ending, need two.
  Ids are never reused, so a behaviour ends when they are used up; deadlock
  checking is off for that reason in all runs: a system without fresh ids or
  events may stop.
* Two targets where targets could be confused (`jobs`, `lease`, `rows`), else one.
* `MaxAttempts` (attempts of one job) 2 reaches a failure, the threshold
  (`FailureThreshold` 2), the recovery phase and a success after a failure. In
  `window` and `preempt` it is 0: jobs start, are stopped and finish, but do not
  execute, because the property is about rows and entries only.
* `HistoryLimit` 1 makes the history overflow within a behaviour; `MaxActiveJobs` 1
  makes the limit bite in `lease`.
* The pipeline has one job with two events; the evaluations of its requests and a
  request handler are further senders and readers of the lock, so that four
  goroutines besides the writer and the shutdown meet on a queue of two.
  `queue_deadlock` has two jobs and a queue of one. `Slots` 1 makes the evaluation
  slots full after one evaluation.
* `MaxEdits` 1 (`rows`, `effect`): one edit at any point of a round. `MaxClock` 1
  (`window`): one closing of the window at any point of a round. After the last
  edit and tick the rows are what they are and the rounds go on, which is what the
  liveness runs rest on.
* `Failover` has two evaluations and one validation by hand, the recovery probe and
  one request of a user, so that up to five writers hold copies of one row; two
  backups, of which the first can fail and the second pass. The thresholds are 1 and
  2: a single failure starts an evaluation, and a recovery needs a success besides
  the one that looks for it. Evaluations are symmetric. `stranded` needs one
  backup, one evaluation and no edits.
* `services`: three results and two requests on incidents, with a recovery of two
  successes, so that a success can be late, a copy old, and a second incident opened
  (one request at a time: two requests only overwrite each other). Three requests
  with two fingerprints for a key: an owner, a duplicate and a stranger. Three writes
  of the store: a write, one without answer, and one that finds its row. Five events, two
  of them from before the start, with room for four (or fewer, by their bytes, or because up to
  two have grown old), batches of two and a limit of three: a listing takes three
  batches, ends by the limit or by the end, and events go and come in between; the sum of
  the sizes is taken off twice and set to zero.
  Three starts of an import of four rows: every command can be the last of one start.
  Two subscriptions. One kind of message with two channels and two webhooks, two
  requests during the deliveries, the first route to a channel that may be gone.
  Five results with an interval of two: two boundaries of one streak, or a streak, its
  recovery and the next; one restart, missing slot or move of the window. Two days,
  two digests by hand, a listing of two, two faults: two digests by hand hide the
  scheduled one. Two targets with room for one, two results, one change of settings.
* `RunNow` and `ByHand` are what clients start by hand: in `preempt` a keepalive for
  its row, so that it can be first; in `window` also one without a row.

## 4. Runs

| Run | Shows |
|---|---|
| `jobs` | Exclusion on a target, lock table = job table, no id lost, schedule entries, paired requests, recovery phases, quiet after shutdown, keepalives outlive failures (all modes, with stops and shutdown anywhere). |
| `lease` | Stops and shutdowns end; `JobManager` implements `TargetLease` with its liveness. |
| `pipeline` | Nothing dropped, duplicated or reordered, flushes cover what came before, the queue is closed after its tracked senders, a shutdown loses nothing. |
| `rows` | A row whose job is gone is not left queued or running; the reconciler has one unfinished job per row, with edits and stops during rounds. |
| `window` | A row whose window closed ends without a job. |
| `preempt` | A due probe gets the target of a scheduled keepalive. |
| `failover` | Advice and switches name backups that passed, a reached threshold is answered by an advice, and validating, probing and applying exclude each other without leaving the lock behind. |
| `services` | When the last result of a provider is a failure, the incident that a failure was last added to is unresolved, unless a client resolved it; one execution per idempotency key, crashes included, and never a result of another request; the copy in memory is what Redis holds; a listing misses no event that was there all the time; the import is done once and completely; Mihomo runs what is stored, and nothing is stored untested; a message reaches its channel or the default and nobody else; alerts announce each boundary of a streak once and recoveries alternate with them; a day's digest goes out once and no day is claimed undelivered; the totals of messages add up and every recovery is told once. |

The ten parts of `services` have between 1 600 and 180 000 states each. Each of its
properties speaks of one part and names its own exceptions, as history variables:
where a call failed without an answer, a process died, a key expired or a client
decided otherwise, the code promises less, and the property says exactly how much.

Four runs end in a counterexample, each against a sentence of the repository:

| Run | What happens |
|---|---|
| `queue_deadlock` | The writer saved a request_end and wants the read lock to look at the alert settings, while a publisher holds the lock and waits for room: both wait for ever. The read lock is taken even with alerts disabled. The test of the backpressure publishes no request_end. |
| `once` | A round runs between the end of a job's entry and the final mark of its row, or with a copy from before the mark: a completed occurrence runs again. |
| `effect` | A round that copied the rows before an edit starts the old rule after the edit stopped its job; no later round replaces it before its window ends. |
| `stranded` | A group has switched to its backup; a user validates the backup again and the validation fails. The advice is now `validation_failed`, and the reconciler, which probes the primary only under an open or applied advice, leaves the group on the backup. |

Three more observations have no run of their own and are listed as hazards: an
alert evaluation can start after Shutdown has waited for evaluations (the writer
is waited for last); a goroutine that no wait group counts can read `closing`, be
delayed over the whole shutdown and send on the closed queue, which is the
`panicked` state of `EventPipeline`; and a probe refused by a lock is passed over, so
that a keepalive candidate of the same round can take the target when the lock is
given back in between.

In `Failover` whole rows overwrite each other. A validation holds its copy for as
long as its jobs run, so that a window or a mode saved meanwhile is lost, and it may
switch a group whose window has begun; a page that was opened before an automatic
switch and saved after it switches back; two evaluations with copies from before
the first advice validate one after the other. `synthetic-failover-incident-design.md:58`
speaks of one completion channel against exactly such old copies. No run states
these losses; `OnlyValidatedBackups` states what holds in spite of them.

In the parts of `services`, too, the code loses things that no property forbids,
because nothing in the repository promises them: an incident loses a note or a status
to a copy written over it; a failed read makes a waiting duplicate execute; a deleted
row whose reply was lost stays in the cache until the next start; a rollback fails with the
cancelled request it serves; routes saved during the deletion of a channel are
overwritten; a restart within a streak reads back the count of an older alert, so that a
boundary can pass unannounced; a keepalive that ends while it recovers stays
listed in the progress.

What the passing runs do not say. `OneJobPerSchedule` is checked without starts by
hand: `StartForSchedule` replaces the entry of a row whose job still runs on
another target, and then there are two. `IdleRowsStop` speaks of rows that exist
and have no provider group. `ProbeGetsItsTarget` is checked with one due probe and
without jobs that belong to no row: between two probes, and against a job started
by hand without a row, the code promises nothing.

## 5. Fairness

`JobManager`: weak fairness of every job's goroutine (goroutines are scheduled, an
attempt has a deadline and the runner kills the process group, timers fire) and of
a shutdown that was called. Clients owe nothing: starts, stops and the call of
Shutdown are unfair.

`Scheduler`: in addition, the rounds go on (a ticker of 15 seconds), a handler that
saved a row stops its job, and the loop sees a cancelled context: its `select` has
that case and the ticker, and chooses at random among the ready ones, hence strong
fairness.

`EventPipeline`: goroutines that can go on do; who waits for the lock or for room
gets it if it is available again and again (`sync.RWMutex` and channels serve
waiting goroutines in order), hence strong fairness of these steps.

The parts of `services` are checked for safety only; they assume no fairness.

`Failover`: evaluations, validations and the recovery probe go on (a timer bounds
every wait for a job, the ticker of the reconciler fires), and the mutex goes to
everybody who waits for it. Failures, successes and users need not come.

## 6. Proofs

`JobManagerProofs` proves for every value of the constants, under
`JobManagerAssumption` (a finite set of job ids, none of the "empty" values in the
sets they stand beside, positive limits):

* `TypeCorrect`: types, and both lists of finished jobs within the history limit.
* `LocksCorrect`, `EntriesCorrect`, `ExclusionCorrect`: from the inductive invariant
  `IInv`. Agreement of locks and jobs is not inductive alone, because `Finish`
  frees the target its job was *asked* for: one has to know that a live job is
  between registration and finish (`TableMatchesPc`), that a fresh id is in no table
  (`FreshIsClean`), and that a live job holds the lock of its own target
  (`LocksMatchJobs`). Two executors on one target would both own its lock.
* `RequestsCorrect`, `RecoveryCorrect`, `KeepaliveCorrect`: from invariants of one
  job each; `KeepaliveCorrect` needs that the verdict of a continuous keepalive is
  never success or fatal.
* `ShutdownCorrect`: after the drain no goroutine is counted, and no registration
  passes the closing flag.
* `HistoryCorrect`: an id that left the table is in the history as long as the
  history was never full; a list that is full stays full (`TrimPrepend`).
* `LeaseImplemented`: initial states map to initial states and every step is a step
  of `TargetLease` or a stutter, so `Spec => Lease!LeaseSafety`. The mapping needs
  that the holders of leases are exactly the unfinished jobs (`HoldersAreJobs`), so
  that the limit on jobs is the limit on leases.

`SchedulerProofs` assumes `SchedulerAssumption` besides: the options of a rule are
options, and what clients start by hand names rows and options that exist.

* `TableCorrect`: the job table's `IInv` survives what the scheduler adds to it. Every
  step is a step of the job table, a registration by the reconciler, or leaves jobs and
  locks alone and at most cancels jobs, edits rows or marks them (`Overlay`).
* `RowsCorrect`: from `Rows`. Marks are written by jobs, callers and the reconciler
  in any order; what carries the property is that the reconciler's marks claim nothing,
  that a job past its end has a final verdict (`VerdictIsFinal`), and that a row that is
  gone is blank (`AbsentIsBlank`), so that a late mark does not revive it.
* `OneJobCorrect`, `RowsLeftAloneCorrect`: from `EntryNamesJob`. The check of the entry
  and the registration are two sections of the lock; nobody registers a job of the row
  in between unless a client starts the row by hand. `OneJobCorrect` has the hypothesis
  `RunNow = {}`, under which the run checks the property; `RowsLeftAloneCorrect` needs it of one row only
  (`LeftAlone`), whatever clients start for others.
* `DrainedCorrect`: the wait group counts the reconciler too (`DrainedMeansExited`).

`EventPipelineProofs` assumes `EventPipelineAssumption` and `GoroutineAssumption`: the
capacities are positive, and no name stands for two goroutines.

* `LedgerCorrect`: from `InOrder` and `NothingForgotten`. That the store has the events of a
  job in order says nothing about the next one; the invariant orders what is handled,
  what the writer holds and what is queued, each by the numbers of one owner.
* `FlushCorrect`: from `BarriersCover`: an event its caller waits for is handled, held, or
  in the queue in front of the barrier, and a caller has one barrier at most.
* `CloseCorrect`, `TrackedCorrect`, `ShutdownCorrect`: from `Stopping`, which says for each point of
  Shutdown who is gone and who may not come any more. It needs that a caller in the act
  of sending a barrier holds the read lock, so that nobody is there when `closing` is set.

`FailoverProofs` assumes `FailoverAssumption` and `NoAdviceAssumption`: there is a backup, the
primary is none, no name stands for two actors, and "no advice" is no advice.

* `BackupsAreValidated`: whole rows overwrite each other, so the row of the store is only
  as good as every copy somebody may still write: `Sound` of the row and of each copy,
  and what the owner of a copy knows where it stands (`Place`), such as that the backup it is
  about to open an advice for is one it has validated itself.
* `FailoverRunsAlone`: a lock that is held exactly at the places of its holder is
  inductive as it stands; each step takes it, gives it back or stays (`LockStep`).
* `EveryThresholdIsAnswered`: an advice once written is never removed, only replaced
  (`UpsertKeeps`: a copy without an advice takes over the one of the row), and whoever gives
  the lock back leaves an advice or is on the way down (`AnswerStep`).

`RequestProofs` assumes `IdempotencyAssumption`: every request has a fingerprint,
no request is one of the values that stand for another answer than a result, and the
value for "no record" is no record.

* `IdempotencyTypes`: types of the record and the requests.
* `OneExecutionCorrect`: from `IdemTyped /\ SameBehindClaim /\ OneOwner`. The property
  speaks of results; what makes them agree is that, until the key expires, whoever is
  past the claim has the fingerprint of the record (`SameBehindClaim`), even when the
  store fails. That the handler runs once needs in addition that a pending record has
  exactly one owner, who has run the handler once or not yet, or one that died with the
  process and has no successor, and that a duplicate with a result has the one in the record
  (`OneOwner`); this part holds until a call of the store fails, over any number of crashes.

`ReliabilityProofs` assumes `IncidentAssumption`: bounds and thresholds are numbers, and a
recovery takes a success.

* `IncidentTypes`: types, among them that `order` lists each incident once: `UpsertIncident`
  takes a member of the sorted set from its old place.
* `FailureCorrect`: rows are overwritten by copies of any age, so the invariant says nothing
  about what a row has lost. It follows the latest failure: it waits for its evaluation, is
  being evaluated, or the incident it was added to is visible (`Seen`). A copy with the mark of a
  recovery can hide a failure only while its writer works, and then every later failure
  waits for the mutex (`Recovering`); this is where it matters that the results are counted
  under the mutex and after the flush. An evaluation that finds its own request in the copy leaves
  without writing: it never does, because rows and copies hold only events that were
  evaluated before (`Counting`).

About the alerts it assumes `AlertAssumption`: bounds are numbers, and the interval and the
successes of a recovery are positive (the settings are validated to be, `manager.go:1085`).

* `AlertTypes`: types. That the count of successes stays in bounds is not a matter of its
  type: each evaluation adds one at most and takes its event from the queue (`Shape`).
* `AlertsCorrect`: the property speaks of all messages, the code of the state in memory,
  which a restart reads back from the newest stored event. As long as evaluations come in order
  and no call fails, stored events are the messages in their order (`Kept`), the state is that
  of the newest (`Follows`), and what is about to be sent is new (`Reasons`): counts grow in a
  streak whose window stands still (`CountGrows`), so that a count above the last alert's
  differs from those of all alerts of the streak. When no evaluation is left out either,
  they take the requests one by one (`NoneLeft`), and each boundary is found (`Heard`),
  because the count of the last alert is of the same streak or was read back by a restart
  in this one (`CountIsFresh`), which `Unbroken` leaves out; the successes counted before a
  recovery are the last results (`Recoveries`).

`MessageProofs` assumes `DigestAssumption` (the bounds are numbers, and there is a day),
`RoutingAssumption` (no channel and no webhook is the value for none, and the number
of requests is bounded) and `NoticeAssumption` (there are finitely many keys).

* `DigestTypes`: types.
* `OneDigestCorrect`: from `Typed /\ Remembered /\ Unsent /\ Claimed`, for any limit of
  the listing. A delivered digest is with the loop, in the queue or in the ledger, unless
  its day is forgotten (`Remembered`); the loop builds and sends only for a day of which
  nothing is queued or stored (`Unsent`): the look at the ledger found none, a day whose
  event it overlooked is forgotten, and nobody but the loop records scheduled digests;
  and what is remembered was delivered (`Claimed`).
* `RouteTypes`: types.
* `RoutedCorrect`: the property speaks of a delivery that is over and of everything that
  was configured meanwhile. On the way the invariant says that what is configured now was
  seen (`Witnessed`), which default and which route the message carries, or that their
  reads failed (`BaseKnown`, `RouteKnown`), and for each place which addresses were tried, in which order
  (`Tried`, `DefaultTried`).
* `NoticeTypes`: types. A recovery that is told or lost is taken off an account, which
  stays a number only because each was owed (`OwedIsThere`).
* `NoticesCorrect`: `NoticesAddUp` is inductive but for one case. A job about to be told of
  by itself goes on as a keepalive, so that what is listed of it must by then be cleared,
  or left for want of a webhook (`SettledOrLeft`). The accounts add what waits, what is
  being handed over and what is on its way, and follow from lemmas about sums: one value
  that changes, one message more, one message less (`SumMoves`, `SumAppends`, `SumRemoves`).

About the proxy configuration `RequestProofs` assumes nothing.

* `ProxyTypes`: types, among them that an operation is at a place of its own.
* `LiveCorrect`: a rollback is only as good as what was noted before the change. `Noted`
  says that the notes are the stored record and a file that belongs to it, `Changed` and
  `Undone` how far the change or its undoing has come, and `Untouched` that between two
  operations the file belongs to the stored subscription or is not there: without it, the
  rollback would load a file of somebody else.

`StoreProofs` assumes `CacheAssumption` (bounds are numbers, and the limit of the summaries
is positive, as `manager.go:851` asks of the history), `ImportAssumption` (rows of a table of SQLite have different keys, and its events
fit under the bound of the ids) and `LedgerAssumption` (the limits of the retention, a batch
and a listing are positive, as the settings are validated to be, `manager.go:1115`, and the
bound of the ids admits the events there are at the start).

* `CacheTypes`: types, among them that a list of summaries has one row of a job, which is why
  it is enough to take one out when a job is saved again (`NewestTyped`).
* `CacheCorrect`: the copy agrees with Redis between two writes, and a write is between two
  writes only at its ends. Meanwhile the copies of other tables agree (`Others`), and what
  the writer is about to put into the copy is what Redis holds (`Trimming`, `Copying`); for
  the list of summaries only if the copy was right before. A command on a row that is
  not there writes nothing because such a row is blank (`AbsentIsBlank`), and a row is
  told from none by its number (`Numbered`).
* `OpenTypes`: types of the start-up.
* `ImportCorrect`: for a source of any size and any number of starts. An attempt that failed
  leaves rows behind that the next one writes again, so the invariant speaks of what the
  running attempt has copied so far (`SchedulesCopied`, `SummariesCopied`, `EventsCopied`):
  the numbers of the summaries come from a counter above all that were ever given, and until
  the marker the events of Redis are the source's own, which makes the new counter their
  highest number. Nothing is imported under the marker and nobody is served without it
  (`InOrder`), so what users write later is neither imported over nor missed.
* `LedgerTypes`: types, and ids are given once.
* `ListingCorrect`: for any limits, batches and sizes. The property speaks of a listing that
  is done, while every save shifts the places under the offset it has reached. The invariant
  says of a row that is promised and not listed (`Owed`) that everything listed is newer, and
  that the listing has not come to it: it lies behind the offset, is among the ids just read
  or behind them (`Behind`), or the listing is full (`Reached`). What moves the rows is written as a map
  from the places after a step to those before it (`Carried`): it keeps the order, is onto
  but for the oldest, and no row comes nearer to the newest end than it was, so that
  a row is listed twice rather than passed over; `SoundCarried` is then one lemma for saving,
  trimming and clearing. Beside it go facts without which the steps of the listing are not
  covered: ids are read newest first (`NewestFirst`), and ids are given once (`Distinct`).
  For the sum, the invariant is that it is the bytes of the rows less what
  was taken off twice (`short`, which is
  negative only if the read of a size has failed, `misread`), and, while the start-up has sizes in its hands, that they are no less
  than what is still there of their rows (`Counted`): saves may trim those rows but bring none
  back. Sums are compared as sets are (`BytesSplit`, `BytesLess`), and what the loop of the
  scripts leaves is the least number of rows that makes the rest fit (`ExcessIs`).

TLC evaluates all these assumptions in the runs, whose modules extend the ones that
state them.

Only model-checked: every liveness property (`StopEndsJob`, `ShutdownEnds`, `IdleRowsStop`,
`ProbeGetsItsTarget`, the liveness half of `ImplementsLease`), since the prover does not handle
fairness and ENABLED. The `TypeOK` of `services` puts the types of its ten parts side by side,
each of which is a theorem about that part.

## 7. Not modelled

Validation and formatting of options and events, subscriptions (an event that a
slow subscriber misses is dropped by design), store errors of the job table and the
scheduler, and a restart of the job table: it is rebuilt empty and the history is
read from the store. Of the modelled components: percentiles, buckets and
recommendations of the statistics, postmortems and exports of incidents, encryption,
scenarios, health checks and the job event cache of the Redis store, and the proxies
and credentials of providers. Whole components left out are the runner (operating
system calls), classification, redaction and the scan (text), diagnostics (network
probes), the JSON store (each operation is one critical section over a file; the
service runs on Redis), the handlers that only decode and encode, and the frontend.

## 8. Plan

1. `Failover`, second half: deletion of a group (a late upsert brings it back), edits
   of its members, the jobs of its plans (with `Scheduler`), and a restart during a
   validation, which leaves `validating` behind.
2. `Scheduler`: deletion that leaves an orphan, groups whose provider changes (with
   `Failover`), restart with stored marks.
3. Windows and next runs (`scheduleOccurrence`, `nextScheduleRun`) and percentiles
   against reference definitions; the runner (timeout, stop, exit).
