----------------------------- MODULE JobManager -----------------------------
(***************************************************************************)
(* The job table of internal/jobs/manager.go: Manager.start, the goroutine *)
(* Manager.run with continueKeepalive and wait, Manager.finish, Stop and   *)
(* Shutdown.  A critical section of Manager.mu, and a call of the store,   *)
(* is one action; pc[j] is where the goroutine of job j stands between     *)
(* them.  The marks that MarkScheduleRun writes to a schedule row and the   *)
(* summaries SaveSummary writes are the part of the store a job touches.   *)
(*                                                                         *)
(* Left out: validation of the options, the event stream (EventPipeline),  *)
(* and the notification hand-offs, none of which change these variables.   *)
(***************************************************************************)
EXTENDS Naturals, Sequences, FiniteSets

CONSTANTS
  JobId,             \* what newID can return: never the same id twice
  Target,            \* lock keys: CLI, base URL and lock identity
  Schedule,          \* ids of the rows of the schedule table
  NoJob,             \* the empty job id
  NoTarget,          \* the empty lock key
  NoSchedule,        \* the empty schedule id
  Options,           \* what jobs are asked for: [mode, runOnce, target]
  MaxActiveJobs,     \* maxActiveJobs
  FailureThreshold,  \* JobOptions.FailureThreshold
  HistoryLimit,      \* Settings.HistoryLimit
  MaxAttempts        \* bound of the model on the attempts of one job

Mode == {"probe", "keepalive"}

ASSUME JobManagerAssumption ==
  /\ NoJob \notin JobId
  /\ NoSchedule \notin Schedule
  /\ NoTarget \notin Target
  /\ Options \subseteq [mode : Mode, runOnce : BOOLEAN, target : Target]
  /\ IsFiniteSet(JobId)
  /\ MaxActiveJobs \in Nat \ {0}
  /\ FailureThreshold \in Nat \ {0}
  /\ HistoryLimit \in Nat \ {0}
  /\ MaxAttempts \in Nat

VARIABLES
  jobs,          \* Manager.jobs: ids of the runtimes that have not finished
  locks,         \* Manager.locks: target -> id of the job that owns it
  scheduleJobs,  \* Manager.scheduleJobs: schedule -> job started for it last
  history,       \* Manager.history: ids of finished jobs, newest first
  shutdown,      \* how far Manager.Shutdown has come
  pc,            \* where the goroutine of a job stands
  opts,          \* what the job was started with
  cancelled,     \* the context of the job is cancelled
  status,        \* Job.Status
  verdict,       \* the status run() has decided to finish the job with
  latest,        \* classification of the attempt that ended last
  phase,         \* Job.Phase
  failures,      \* runtime.consecutiveFailures
  attempts,      \* Job.Attempts: one request_start each
  responses,     \* request_end events of the job
  summaries,     \* store: ids of the saved summaries, newest first
  marks          \* store: the run marks of the schedule rows

tables  == <<jobs, locks, scheduleJobs, history>>
runVars == <<latest, phase, failures, attempts, responses>>
store   == <<summaries, marks>>
vars    == <<jobs, locks, scheduleJobs, history, shutdown, pc, opts, cancelled,
             status, verdict, latest, phase, failures, attempts, responses,
             summaries, marks>>

-----------------------------------------------------------------------------
(***************************************************************************)
(* An occurrence key names the version of the rule (its UpdatedAt) and the *)
(* day; StartForSchedule uses a key of its own, equal to no rule's.        *)
(***************************************************************************)
Occurrence       == Nat \X Nat
NoOccurrence     == <<0, 0>>
ManualOccurrence == <<0, 1>>

JobStatus  == {"queued", "running", "success", "fatal", "failed", "stopped"}
Completed  == {"success", "fatal", "failed"}
Terminal   == Completed \cup {"stopped"}
MarkStatus == JobStatus \cup {"", "skipped", "resolve_failed"}

\* Results of one attempt: "retry" stands for the classifications that are
\* neither success nor fatal (timeout, overload, no match).
Attempt == {"success", "fatal", "retry", "stopped"}

JobOptions ==
  [mode : Mode, runOnce : BOOLEAN, target : Target,
   schedule : Schedule \cup {NoSchedule}, occurrence : Occurrence]

ZeroOptions ==
  [mode |-> "probe", runOnce |-> FALSE, target |-> NoTarget,
   schedule |-> NoSchedule, occurrence |-> NoOccurrence]

\* What a row of the schedule table remembers of its runs.
Mark == [exists : BOOLEAN, lastOccurrence : Occurrence, lastStatus : MarkStatus,
         lastJob : JobId \cup {NoJob}]

PC == {"new", "marking", "spawned", "started", "loop", "attempt",
       "classified", "waiting", "finishing", "saving", "ending", "done"}

closing   == shutdown # "up"
Live(j)   == j \in jobs
Scheduled(j) == opts[j].schedule # NoSchedule

\* Goroutines Manager.wg waits for.
InWaitGroup(j) == pc[j] \notin {"new", "done"}

Prepend(x, s)  == <<x>> \o s
Trim(s)        == IF Len(s) > HistoryLimit THEN SubSeq(s, 1, HistoryLimit) ELSE s

\* Store.MarkScheduleRun: overwrites the marks of a row, if it is there.
MarkScheduleRun(s, occurrence, mark, j) ==
  marks' = [marks EXCEPT ![s] =
              IF @.exists THEN [exists |-> TRUE, lastOccurrence |-> occurrence,
                                lastStatus |-> mark, lastJob |-> j]
              ELSE @]

-----------------------------------------------------------------------------
Init ==
  /\ jobs = {}
  /\ locks = [t \in Target |-> NoJob]
  /\ scheduleJobs = [s \in Schedule |-> NoJob]
  /\ history = <<>>
  /\ shutdown = "up"
  /\ pc = [j \in JobId |-> "new"]
  /\ opts = [j \in JobId |-> ZeroOptions]
  /\ cancelled = [j \in JobId |-> FALSE]
  /\ status = [j \in JobId |-> "queued"]
  /\ verdict = [j \in JobId |-> "queued"]
  /\ latest = [j \in JobId |-> "retry"]
  /\ phase = [j \in JobId |-> "probe"]
  /\ failures = [j \in JobId |-> 0]
  /\ attempts = [j \in JobId |-> 0]
  /\ responses = [j \in JobId |-> 0]
  /\ summaries = <<>>
  /\ marks = [s \in Schedule |-> [exists |-> TRUE, lastOccurrence |-> NoOccurrence,
                                  lastStatus |-> "", lastJob |-> NoJob]]

\* Wrong versions of CanStart: one that forgets a shutdown, one without limit.
CanStartWhileClosing(o) ==
  Cardinality(jobs) < MaxActiveJobs /\ locks[o.target] = NoJob

CanStartUnlimited(o) == ~closing /\ locks[o.target] = NoJob

\* The conditions start() checks under mu before it registers a job.
CanStart(o) ==
  /\ ~closing
  /\ Cardinality(jobs) < MaxActiveJobs
  /\ locks[o.target] = NoJob

(***************************************************************************)
(* start(): everything between m.mu.Lock and m.mu.Unlock, including        *)
(* wg.Add(1).  The id is fresh.  A scheduled job marks its row next, any   *)
(* other spawns its goroutine at once.                                     *)
(***************************************************************************)
Register(j, o, s, occurrence) ==
  /\ pc[j] = "new"
  /\ jobs' = jobs \cup {j}
  /\ locks' = [locks EXCEPT ![o.target] = j]
  /\ scheduleJobs' = IF s = NoSchedule THEN scheduleJobs
                     ELSE [scheduleJobs EXCEPT ![s] = j]
  /\ opts' = [opts EXCEPT ![j] = [mode |-> o.mode, runOnce |-> o.runOnce,
                                  target |-> o.target, schedule |-> s,
                                  occurrence |-> occurrence]]
  /\ phase' = [phase EXCEPT ![j] = o.mode]
  /\ pc' = [pc EXCEPT ![j] = IF s = NoSchedule THEN "spawned" ELSE "marking"]
  /\ UNCHANGED <<history, shutdown, cancelled, status, verdict, latest, failures,
                 attempts, responses, summaries, marks>>

StartJob(j, o, s, occurrence) == CanStart(o) /\ Register(j, o, s, occurrence)

\* start() after the unlock: the row is marked queued, then the goroutine starts.
MarkQueued(j) ==
  /\ pc[j] = "marking"
  /\ MarkScheduleRun(opts[j].schedule, opts[j].occurrence, "queued", j)
  /\ pc' = [pc EXCEPT ![j] = "spawned"]
  /\ UNCHANGED <<tables, shutdown, opts, cancelled, status, verdict, runVars, summaries>>

\* run() begins: m.update sets the status.
SetRunning(j) ==
  /\ pc[j] = "spawned"
  /\ status' = [status EXCEPT ![j] = "running"]
  /\ pc' = [pc EXCEPT ![j] = IF Scheduled(j) THEN "started" ELSE "loop"]
  /\ UNCHANGED <<tables, shutdown, opts, cancelled, verdict, runVars, store>>

MarkRunning(j) ==
  /\ pc[j] = "started"
  /\ MarkScheduleRun(opts[j].schedule, opts[j].occurrence, "running", j)
  /\ pc' = [pc EXCEPT ![j] = "loop"]
  /\ UNCHANGED <<tables, shutdown, opts, cancelled, status, verdict, runVars, summaries>>

FinishWith(j, s) ==
  /\ verdict' = [verdict EXCEPT ![j] = s]
  /\ pc' = [pc EXCEPT ![j] = "finishing"]

\* Top of the loop of run(): rt.ctx.Err() # nil.
SeeCancelled(j) ==
  /\ pc[j] = "loop"
  /\ cancelled[j]
  /\ FinishWith(j, "stopped")
  /\ UNCHANGED <<tables, shutdown, opts, cancelled, status, runVars, store>>

\* attempt_start and request_start are published, the executor runs.
BeginAttempt(j) ==
  /\ pc[j] = "loop"
  /\ ~cancelled[j]
  /\ attempts[j] < MaxAttempts
  /\ attempts' = [attempts EXCEPT ![j] = @ + 1]
  /\ pc' = [pc EXCEPT ![j] = "attempt"]
  /\ UNCHANGED <<tables, shutdown, opts, cancelled, status, verdict, latest, phase,
                 failures, responses, store>>

\* Wrong: a launch failure publishes no request_end.
LaunchFailsSilently(j) ==
  /\ pc[j] = "attempt"
  /\ FinishWith(j, "failed")
  /\ UNCHANGED <<tables, shutdown, opts, cancelled, status, runVars, store>>

\* executor.Run returned an error: the CLI could not be started.
LaunchFails(j) ==
  /\ pc[j] = "attempt"
  /\ responses' = [responses EXCEPT ![j] = @ + 1]
  /\ FinishWith(j, "failed")
  /\ UNCHANGED <<tables, shutdown, opts, cancelled, status, latest, phase, failures,
                 attempts, store>>

\* executor.Run returned a result: request_end, LatestAttempt, classification.
\* Only a cancelled context is classified stopped, but a CLI that exits just
\* then is classified by what it printed.
EndAttempt(j, a) ==
  /\ pc[j] = "attempt"
  /\ a = "stopped" => cancelled[j]
  /\ responses' = [responses EXCEPT ![j] = @ + 1]
  /\ latest' = [latest EXCEPT ![j] = a]
  /\ pc' = [pc EXCEPT ![j] = "classified"]
  /\ UNCHANGED <<tables, shutdown, opts, cancelled, status, verdict, phase, failures,
                 attempts, store>>

\* Wrong: the classification of the attempt is taken for the status of the job.
oneShotResultRaw(a) == a

oneShotResult(a) == IF a \in {"success", "fatal"} THEN a ELSE "failed"

\* Wrong: a fatal answer ends every job, continuous keepalives too.
ConcludeOnFatal(j) ==
  /\ pc[j] = "classified"
  /\ \/ latest[j] = "stopped" /\ FinishWith(j, "stopped")
     \/ latest[j] # "stopped" /\ opts[j].runOnce /\ FinishWith(j, oneShotResult(latest[j]))
     \/ latest[j] = "success" /\ opts[j].mode = "probe" /\ FinishWith(j, "success")
     \/ latest[j] = "fatal" /\ FinishWith(j, "fatal")
  /\ UNCHANGED <<tables, shutdown, opts, cancelled, status, runVars, store>>

\* Wrong: an attempt that was stopped is not recognised.
ConcludeUnlessStopped(j) ==
  /\ pc[j] = "classified" /\ latest[j] # "stopped"
  /\ opts[j].runOnce \/ (opts[j].mode = "probe" /\ latest[j] # "retry")
  /\ FinishWith(j, oneShotResult(latest[j]))
  /\ UNCHANGED <<tables, shutdown, opts, cancelled, status, runVars, store>>

\* The attempt decides the job: it was stopped, runs once, or is a probe
\* that got a final answer.
Conclude(j) ==
  /\ pc[j] = "classified"
  /\ \/ latest[j] = "stopped" /\ FinishWith(j, "stopped")
     \/ /\ latest[j] # "stopped"
        /\ opts[j].runOnce
        /\ FinishWith(j, oneShotResult(latest[j]))
     \/ /\ latest[j] \in {"success", "fatal"}
        /\ ~opts[j].runOnce
        /\ opts[j].mode = "probe"
        /\ FinishWith(j, latest[j])
  /\ UNCHANGED <<tables, shutdown, opts, cancelled, status, runVars, store>>

RetryProbe(j) ==
  /\ pc[j] = "classified"
  /\ opts[j].mode = "probe" /\ ~opts[j].runOnce
  /\ latest[j] = "retry"
  /\ pc' = [pc EXCEPT ![j] = "waiting"]
  /\ UNCHANGED <<tables, shutdown, opts, cancelled, status, verdict, runVars, store>>

\* Wrong: the recovery probe starts one failure late.
ContinueKeepaliveLate(j) ==
  /\ pc[j] = "classified"
  /\ opts[j].mode = "keepalive" /\ ~opts[j].runOnce /\ latest[j] # "stopped"
  /\ failures' = [failures EXCEPT ![j] = IF latest[j] = "success" THEN 0 ELSE @ + 1]
  /\ phase' = [phase EXCEPT ![j] = IF latest[j] = "success" THEN "keepalive"
                                   ELSE IF failures[j] >= FailureThreshold THEN "recovery_probe" ELSE @]
  /\ pc' = [pc EXCEPT ![j] = "waiting"]
  /\ UNCHANGED <<tables, shutdown, opts, cancelled, status, verdict, latest, attempts,
                 responses, store>>

\* continueKeepalive: a success ends the outage, a failure (fatal ones too)
\* is counted and starts the recovery probe at the threshold.
ContinueKeepalive(j) ==
  /\ pc[j] = "classified"
  /\ opts[j].mode = "keepalive" /\ ~opts[j].runOnce
  /\ latest[j] # "stopped"
  /\ IF latest[j] = "success"
     THEN /\ failures' = [failures EXCEPT ![j] = 0]
          /\ phase' = [phase EXCEPT ![j] = "keepalive"]
     ELSE /\ failures' = [failures EXCEPT ![j] = @ + 1]
          /\ phase' = [phase EXCEPT ![j] =
                         IF failures[j] + 1 >= FailureThreshold THEN "recovery_probe" ELSE @]
  /\ pc' = [pc EXCEPT ![j] = "waiting"]
  /\ UNCHANGED <<tables, shutdown, opts, cancelled, status, verdict, latest, attempts,
                 responses, store>>

\* wait(): the timer, or the context; both may be ready.
WaitOver(j) ==
  /\ pc[j] = "waiting"
  /\ \/ /\ pc' = [pc EXCEPT ![j] = "loop"]
        /\ UNCHANGED verdict
     \/ /\ cancelled[j]
        /\ FinishWith(j, "stopped")
  /\ UNCHANGED <<tables, shutdown, opts, cancelled, status, runVars, store>>

\* Wrong versions of finish(): the lock survives a failed job; the schedule
\* entry survives its job; a stopped job is left out of the history.
FinishWrong(j, newLocks, newEntries, newHistory) ==
  /\ pc[j] = "finishing"
  /\ status' = [status EXCEPT ![j] = verdict[j]]
  /\ jobs' = jobs \ {j}
  /\ locks' = newLocks /\ scheduleJobs' = newEntries /\ history' = newHistory
  /\ cancelled' = [cancelled EXCEPT ![j] = TRUE]
  /\ pc' = [pc EXCEPT ![j] = "saving"]
  /\ UNCHANGED <<shutdown, opts, verdict, runVars, store>>

Unlocked(j) == [locks EXCEPT ![opts[j].target] = NoJob]

FinishKeepsLock(j) ==
  FinishWrong(j, IF verdict[j] = "failed" THEN locks ELSE Unlocked(j), scheduleJobs,
              Trim(Prepend(j, history)))

FinishKeepsEntry(j) == FinishWrong(j, Unlocked(j), scheduleJobs, Trim(Prepend(j, history)))

FinishForgetsStopped(j) ==
  FinishWrong(j, Unlocked(j), scheduleJobs,
              IF verdict[j] = "stopped" THEN history ELSE Trim(Prepend(j, history)))

(***************************************************************************)
(* finish(): the critical section.  The lock, the table entry and the      *)
(* schedule entry (only if it still names this job) go, the summary is     *)
(* prepended to the history, the context is cancelled.                     *)
(***************************************************************************)
Finish(j) ==
  /\ pc[j] = "finishing"
  /\ status' = [status EXCEPT ![j] = verdict[j]]
  /\ jobs' = jobs \ {j}
  /\ locks' = [locks EXCEPT ![opts[j].target] = NoJob]
  /\ scheduleJobs' = [s \in Schedule |->
       IF s = opts[j].schedule /\ scheduleJobs[s] = j THEN NoJob ELSE scheduleJobs[s]]
  /\ history' = Trim(Prepend(j, history))
  /\ cancelled' = [cancelled EXCEPT ![j] = TRUE]
  /\ pc' = [pc EXCEPT ![j] = "saving"]
  /\ UNCHANGED <<shutdown, opts, verdict, runVars, store>>

\* finish() after the unlock: SaveSummary, which trims the stored index.
SaveSummary(j) ==
  /\ pc[j] = "saving"
  /\ summaries' = Trim(Prepend(j, summaries))
  /\ pc' = [pc EXCEPT ![j] = IF Scheduled(j) THEN "ending" ELSE "done"]
  /\ UNCHANGED <<tables, shutdown, opts, cancelled, status, verdict, runVars, marks>>

\* Wrong: a stopped job leaves the marks of its row as they are.
MarkTerminalUnlessStopped(j) ==
  /\ pc[j] = "ending"
  /\ IF verdict[j] = "stopped" THEN UNCHANGED marks
     ELSE MarkScheduleRun(opts[j].schedule, opts[j].occurrence, verdict[j], j)
  /\ pc' = [pc EXCEPT ![j] = "done"]
  /\ UNCHANGED <<tables, shutdown, opts, cancelled, status, verdict, runVars, summaries>>

\* finish() ends: the row gets the final status; wg.Done.
MarkTerminal(j) ==
  /\ pc[j] = "ending"
  /\ MarkScheduleRun(opts[j].schedule, opts[j].occurrence, verdict[j], j)
  /\ pc' = [pc EXCEPT ![j] = "done"]
  /\ UNCHANGED <<tables, shutdown, opts, cancelled, status, verdict, runVars, summaries>>

JobStep(j) ==
  \/ MarkQueued(j) \/ SetRunning(j) \/ MarkRunning(j)
  \/ SeeCancelled(j) \/ BeginAttempt(j) \/ LaunchFails(j)
  \/ \E a \in Attempt : EndAttempt(j, a)
  \/ Conclude(j) \/ RetryProbe(j) \/ ContinueKeepalive(j) \/ WaitOver(j)
  \/ Finish(j) \/ SaveSummary(j) \/ MarkTerminal(j)

-----------------------------------------------------------------------------
\* Wrong: a stop gives the target back at once.
CancelUnlocks(j) ==
  /\ Live(j)
  /\ cancelled' = [cancelled EXCEPT ![j] = TRUE]
  /\ locks' = Unlocked(j)
  /\ UNCHANGED <<jobs, scheduleJobs, history, shutdown, pc, opts, status, verdict, runVars, store>>

\* Stop, stopScheduleJob, StopTarget and preemption end in rt.cancel().
Cancel(j) ==
  /\ Live(j)
  /\ cancelled' = [cancelled EXCEPT ![j] = TRUE]
  /\ UNCHANGED <<tables, shutdown, pc, opts, status, verdict, runVars, store>>

ShutdownBegin ==
  /\ shutdown = "up"
  /\ shutdown' = "closing"
  /\ UNCHANGED <<tables, pc, opts, cancelled, status, verdict, runVars, store>>

\* Wrong: the contexts of the jobs do not derive from the manager's.
ShutdownCancelsNothing ==
  /\ shutdown = "closing"
  /\ shutdown' = "cancelled"
  /\ UNCHANGED <<tables, pc, opts, cancelled, status, verdict, runVars, store>>

\* m.cancel(): the contexts of all jobs derive from the manager's.
ShutdownCancel ==
  /\ shutdown = "closing"
  /\ shutdown' = "cancelled"
  /\ cancelled' = [j \in JobId |-> cancelled[j] \/ Live(j)]
  /\ UNCHANGED <<tables, pc, opts, status, verdict, runVars, store>>

\* m.wg.Wait() returns.
ShutdownDrained ==
  /\ shutdown = "cancelled"
  /\ \A j \in JobId : ~InWaitGroup(j)
  /\ shutdown' = "drained"
  /\ UNCHANGED <<tables, pc, opts, cancelled, status, verdict, runVars, store>>

Shutdown == ShutdownBegin \/ ShutdownCancel \/ ShutdownDrained

\* POST /api/jobs, and StartForSchedule for a row's "run now".
Start(j, o)               == StartJob(j, o, NoSchedule, NoOccurrence)
StartForSchedule(j, o, s) == StartJob(j, o, s, ManualOccurrence)

Next ==
  \/ \E j \in JobId, o \in Options :
       Start(j, o) \/ \E s \in Schedule : StartForSchedule(j, o, s)
  \/ \E j \in JobId : JobStep(j) \/ Cancel(j)
  \/ Shutdown

(***************************************************************************)
(* Fairness: goroutines are scheduled, the executor returns (its context   *)
(* has a deadline and the runner kills the process group), timers fire and *)
(* a Shutdown that was called goes on.  Nothing obliges a client to start  *)
(* or stop a job.                                                          *)
(***************************************************************************)
Fairness ==
  /\ \A j \in JobId : WF_vars(JobStep(j))
  /\ WF_vars(ShutdownCancel \/ ShutdownDrained)

Spec     == Init /\ [][Next]_vars
FairSpec == Spec /\ Fairness
-----------------------------------------------------------------------------
\* Every variable has its type.
TypeOK ==
  /\ jobs \subseteq JobId
  /\ locks \in [Target -> JobId \cup {NoJob}]
  /\ scheduleJobs \in [Schedule -> JobId \cup {NoJob}]
  /\ history \in Seq(JobId)
  /\ shutdown \in {"up", "closing", "cancelled", "drained"}
  /\ pc \in [JobId -> PC]
  /\ opts \in [JobId -> JobOptions \cup {ZeroOptions}]
  /\ cancelled \in [JobId -> BOOLEAN]
  /\ status \in [JobId -> JobStatus]
  /\ verdict \in [JobId -> JobStatus]
  /\ latest \in [JobId -> Attempt]
  /\ phase \in [JobId -> {"probe", "keepalive", "recovery_probe"}]
  /\ failures \in [JobId -> Nat]
  /\ attempts \in [JobId -> Nat]
  /\ responses \in [JobId -> Nat]
  /\ summaries \in Seq(JobId)
  /\ marks \in [Schedule -> Mark]

\* Two CLI processes never run against one target at the same time, however
\* starts, stops, preemptions and slow exits interleave: a cancelled job keeps
\* its lock until its executor has returned and finish() has run.
TargetExclusive ==
  \A i, j \in JobId :
    pc[i] = "attempt" /\ pc[j] = "attempt" /\ opts[i].target = opts[j].target => i = j

\* The lock table and the job table never drift apart: a target is locked by
\* exactly the unfinished job that runs against it, so no lock is leaked by a
\* job that ended and none is dropped while its job is alive.
LocksMatchJobs ==
  \A t \in Target, j \in JobId :
    locks[t] = j <=> (Live(j) /\ opts[j].target = t)

\* A schedule entry always names an unfinished job of that schedule: the
\* reconciler, which refuses to start a schedule that has an entry, is never
\* blocked by a job that is gone, even after "run now" replaced the entry.
ScheduleEntryIsLive ==
  \A s \in Schedule : scheduleJobs[s] # NoJob =>
    Live(scheduleJobs[s]) /\ opts[scheduleJobs[s]].schedule = s

\* A job id that was handed out stays resolvable by Get and Stop: it is in the
\* job table or in the history, unless the history was full and dropped it,
\* and it is never in both.
JobResolvable ==
  \A j \in JobId :
    LET listed == \E i \in DOMAIN history : history[i] = j
    IN  pc[j] # "new" =>
          /\ Live(j) \/ listed \/ Len(history) = HistoryLimit
          /\ ~(Live(j) /\ listed)

\* Every request_start of a job has exactly one request_end, whatever ends the
\* attempt: launch failure, timeout, stop or shutdown.
RequestsArePaired ==
  \A j \in JobId :
    attempts[j] = responses[j] + (IF pc[j] = "attempt" THEN 1 ELSE 0)

\* A continuous keepalive is in its recovery probe exactly while the failure
\* threshold is reached; it leaves only by a success, which resets the count.
RecoveryMatchesFailures ==
  \A j \in JobId :
    opts[j].mode = "keepalive" =>
      (phase[j] = "recovery_probe" <=> failures[j] >= FailureThreshold)

\* When Shutdown has waited for the job goroutines none is left and none
\* appears later: no job touches the store once main() goes on to close it.
DrainedIsQuiet ==
  shutdown = "drained" => jobs = {} /\ \A j \in JobId : pc[j] \in {"new", "done"}

\* A continuous keepalive outlives every answer of its provider, fatal ones
\* included: it ends only when it is told to stop or its CLI cannot start.
KeepaliveOutlivesFailures ==
  [][\A j \in JobId :
       opts[j].mode = "keepalive" /\ ~opts[j].runOnce /\ status'[j] # status[j]
         => status'[j] \in {"running", "stopped", "failed"}]_status

\* A job that is told to stop ends, has its summary saved and its row marked.
StopEndsJob == \A j \in JobId : Live(j) /\ cancelled[j] ~> pc[j] = "done"

\* Shutdown returns from its wait although jobs were running.
ShutdownEnds == shutdown = "closing" ~> shutdown = "drained"

\* The job table implements the leases of TargetLease.
Lease == INSTANCE TargetLease WITH
  Job <- JobId, Limit <- MaxActiveJobs, holder <- locks,
  retired <- {j \in JobId : pc[j] \in {"saving", "ending", "done"}},
  revoked <- {j \in jobs : cancelled[j]},
  open <- ~closing

\* The fair specification implements the leases with their liveness.
ImplementsLease == Lease!LeaseSpec
=============================================================================
