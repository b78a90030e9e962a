----------------------------- MODULE Scheduler -----------------------------
(***************************************************************************)
(* internal/jobs/scheduler.go on top of the job table: one goroutine       *)
(* (scheduleLoop) compares the schedule rows with the clock and starts,    *)
(* stops and preempts jobs, while request handlers edit the rows           *)
(* (UpsertSchedule, DeleteSchedule) and the jobs run.  The goroutine works *)
(* on a copy of the rows taken at the start of a round, and reads the job  *)
(* table anew, under Manager.mu, at every step.                            *)
(*                                                                         *)
(* A row has the settings of its rule (rules) and the marks of its runs    *)
(* (marks, in JobManager), written together and read together.             *)
(*                                                                         *)
(* Left out: a ListSchedules that fails (the round does nothing), operational *)
(* events, and the arithmetic of windows: a tick of the clock is half a    *)
(* day and every window is open in the first half of its day.              *)
(***************************************************************************)
EXTENDS JobManager

CONSTANTS
  RuleOptions,   \* what the rule of each row may ask for: [Schedule -> set of options]
  Grouped,       \* rows bound to a provider group, which may be unusable
  RunNow,        \* what clients start by hand for a row: [schedule, opts]
  ByHand,        \* what clients start without a row
  ResolverFails, \* whether Resolve may fail
  MaxEdits,      \* bound of the model on the edits of rows
  MaxClock       \* bound of the model on the clock

ASSUME SchedulerAssumption ==
  /\ RuleOptions \in [Schedule -> SUBSET {o \in Options : o.mode = "keepalive" => ~o.runOnce}]
  /\ Grouped \subseteq Schedule
  /\ RunNow \subseteq [schedule : Schedule, opts : Options]
  /\ ByHand \subseteq Options
  /\ ResolverFails \in BOOLEAN
  /\ MaxEdits \in Nat /\ MaxClock \in Nat

VARIABLES
  rules,       \* store: the settings of the rows
  clock,       \* half days since the start
  edits,       \* edits so far
  editor,      \* the request handler that edits rows: what it does next
  rpc,         \* where the reconciler stands
  seen,        \* its copy of the rows, [rule, mark] each
  now,         \* its clock
  todo,        \* rows it has not scanned
  candidates,  \* rows it wants to start
  current,     \* the row it starts
  starting     \* the job it has registered last

round     == <<seen, now, todo, candidates, current, starting>>
schedVars == <<rules, clock, edits, editor, rpc, round>>
allVars   == <<vars, schedVars>>

Rule == [enabled : BOOLEAN, version : Nat \ {0}, opts : Options]

NoMark == [exists |-> FALSE, lastOccurrence |-> NoOccurrence, lastStatus |-> "", lastJob |-> NoJob]
Idle   == [at |-> "idle", schedule |-> NoSchedule]

Probe(o) == o.mode = "probe"

\* scheduleOccurrence: open until noon; the key names the rule's version.
WindowOpen(t)            == t % 2 = 0
ScheduleOccurrence(r, t) == <<r.version, t \div 2>>

terminalScheduleStatus(mark) == mark \in Completed

\* shouldSkipScheduleOccurrence, on the copy of the row.
ShouldSkip(s) ==
  /\ seen[s].mark.lastOccurrence = ScheduleOccurrence(seen[s].rule, now)
  /\ terminalScheduleStatus(seen[s].mark.lastStatus)

\* Wrong: a job that was told to stop counts as gone.
HasEntryNotStopped(s) == scheduleJobs[s] # NoJob /\ ~cancelled[scheduleJobs[s]]

HasEntry(s) == scheduleJobs[s] # NoJob

\* The part of the state that nobody touches who only cancels jobs or marks rows.
quiet == <<tables, shutdown, pc, opts, status, verdict, runVars, summaries>>

\* stopScheduleJob: cancels the job the entry names.
StopScheduleJob(s) ==
  /\ cancelled' = [j \in JobId |-> cancelled[j] \/ (Live(j) /\ scheduleJobs[s] = j)]
  /\ UNCHANGED <<quiet, marks>>

-----------------------------------------------------------------------------
SchedInit ==
  /\ Init
  /\ rules \in {r \in [Schedule -> [enabled : {TRUE}, version : {1}, opts : Options]] :
                 \A s \in Schedule : r[s].opts \in RuleOptions[s]}
  /\ clock = 0
  /\ edits = 0
  /\ editor = Idle
  /\ rpc = "idle"
  /\ seen = <<>> /\ now = 0
  /\ todo = {} /\ candidates = {}
  /\ current = NoSchedule /\ starting = NoJob

-----------------------------------------------------------------------------
(***************************************************************************)
(* Request handlers.  One edits rows at a time.                            *)
(***************************************************************************)
MayEdit == editor = Idle /\ edits < MaxEdits

\* UpsertSchedule: closing is checked, the row is saved with a new UpdatedAt
\* and keeps its marks; the job that runs is stopped in the next step.
UpsertSchedule(s, o, on) ==
  /\ MayEdit
  /\ ~closing
  /\ rules' = [rules EXCEPT ![s] = [enabled |-> on, version |-> @.version + 1, opts |-> o]]
  /\ marks' = [marks EXCEPT ![s].exists = TRUE]
  /\ edits' = edits + 1
  /\ editor' = [at |-> "stop", schedule |-> s]
  /\ UNCHANGED <<quiet, cancelled, clock, rpc, round>>

UpsertStops ==
  /\ editor.at = "stop"
  /\ StopScheduleJob(editor.schedule)
  /\ editor' = Idle
  /\ UNCHANGED <<rules, clock, edits, rpc, round>>

\* DeleteSchedule: the job is stopped, then the row goes.
DeleteStops(s) ==
  /\ MayEdit
  /\ StopScheduleJob(s)
  /\ edits' = edits + 1
  /\ editor' = [at |-> "delete", schedule |-> s]
  /\ UNCHANGED <<rules, clock, rpc, round>>

DeleteSchedule ==
  /\ editor.at = "delete"
  /\ marks' = [marks EXCEPT ![editor.schedule] = NoMark]
  /\ editor' = Idle
  /\ UNCHANGED <<quiet, cancelled, rules, clock, edits, rpc, round>>

Edit ==
  \/ \E s \in Schedule :
       DeleteStops(s) \/ \E o \in RuleOptions[s], on \in BOOLEAN : UpsertSchedule(s, o, on)
  \/ UpsertStops \/ DeleteSchedule

Tick ==
  /\ clock < MaxClock
  /\ clock' = clock + 1
  /\ UNCHANGED <<vars, rules, edits, editor, rpc, round>>

-----------------------------------------------------------------------------
(***************************************************************************)
(* reconcileSchedules.  The loop wakes up every 15 seconds.                *)
(***************************************************************************)
BeginRound ==
  /\ rpc = "idle"
  /\ rpc' = "scan"
  /\ seen' = [s \in Schedule |-> [rule |-> rules[s], mark |-> marks[s]]]
  /\ now' = clock
  /\ todo' = {s \in Schedule : marks[s].exists}
  /\ UNCHANGED <<vars, rules, clock, edits, editor, candidates, current, starting>>

Due(s) == seen[s].rule.enabled /\ WindowOpen(now)

\* A failed resolution is marked again only after five minutes.
MarkResolveFailed(s) ==
  /\ \/ MarkScheduleRun(s, IF WindowOpen(now) THEN ScheduleOccurrence(seen[s].rule, now)
                           ELSE NoOccurrence, "resolve_failed", NoJob)
     \/ seen[s].mark.lastStatus = "resolve_failed" /\ UNCHANGED marks
  /\ UNCHANGED <<quiet, cancelled>>

\* The provider group of the row is disabled or gone.
GroupUnresolved(s) == s \in Grouped /\ MarkResolveFailed(s) /\ UNCHANGED candidates

\* Wrong: a row that is not due is only skipped.
NotDueIgnored(s) == ~Due(s) /\ UNCHANGED <<vars, candidates>>

NotDue(s) == ~Due(s) /\ StopScheduleJob(s) /\ UNCHANGED candidates

AlreadyDone(s) ==
  /\ Due(s)
  /\ HasEntry(s) \/ ShouldSkip(s)
  /\ UNCHANGED <<vars, candidates>>

Unresolved(s) ==
  /\ Due(s) /\ ~HasEntry(s) /\ ~ShouldSkip(s)
  /\ ResolverFails
  /\ MarkResolveFailed(s)
  /\ UNCHANGED candidates

Wanted(s) ==
  /\ Due(s) /\ ~HasEntry(s) /\ ~ShouldSkip(s)
  /\ candidates' = candidates \cup {s}
  /\ UNCHANGED vars

Scan(s) ==
  /\ rpc = "scan" /\ s \in todo
  /\ GroupUnresolved(s) \/ NotDue(s) \/ AlreadyDone(s) \/ Unresolved(s) \/ Wanted(s)
  /\ todo' = todo \ {s}
  /\ UNCHANGED <<rules, clock, edits, editor, rpc, seen, now, current, starting>>

\* Wrong: nothing is preempted.
PreemptNothing ==
  /\ rpc = "scan" /\ todo = {}
  /\ rpc' = "choose"
  /\ UNCHANGED <<vars, rules, clock, edits, editor, round>>

\* Scheduled keepalives make way for the probes that are due.
Preempt ==
  /\ rpc = "scan" /\ todo = {}
  /\ LET probed == {seen[s].rule.opts.target : s \in {c \in candidates : Probe(seen[c].rule.opts)}}
     IN  cancelled' = [j \in JobId |-> cancelled[j] \/ (Live(j) /\ Scheduled(j)
                                       /\ ~Probe(opts[j]) /\ opts[j].target \in probed)]
  /\ rpc' = "choose"
  /\ UNCHANGED <<quiet, marks, rules, clock, edits, editor, round>>

\* The next candidate, probes first; the entry is checked again.  The job
\* registered before it has been marked by then: start() had returned.
Choose(s) ==
  /\ rpc = "choose" /\ s \in candidates
  /\ \A j \in JobId : starting = j => pc[j] # "marking"
  /\ Probe(seen[s].rule.opts) \/ \A c \in candidates : ~Probe(seen[c].rule.opts)
  /\ candidates' = candidates \ {s}
  /\ IF HasEntry(s) THEN UNCHANGED <<rpc, current>>
     ELSE rpc' = "start" /\ current' = s
  /\ starting' = NoJob
  /\ UNCHANGED <<vars, rules, clock, edits, editor, seen, now, todo>>

Ask        == seen[current].rule.opts
Occasion   == ScheduleOccurrence(seen[current].rule, now)
Back       == rpc' = "choose" /\ UNCHANGED starting

\* start() with the copied settings: it succeeds, or is refused.
StartCandidate(j) ==
  /\ rpc = "start"
  /\ StartJob(j, Ask, current, Occasion)
  /\ starting' = j
  /\ rpc' = "choose"
  /\ UNCHANGED <<rules, clock, edits, editor, seen, now, todo, candidates, current>>

\* Refused because start() cannot resolve the provider, by shutdown or the job
\* limit; or by the bound of the model on ids.
StartRefused ==
  /\ rpc = "start"
  /\ ResolverFails \/ closing \/ Cardinality(jobs) >= MaxActiveJobs \/ \A j \in JobId : pc[j] # "new"
  /\ Back
  /\ UNCHANGED <<vars, rules, clock, edits, editor, seen, now, todo, candidates, current>>

\* ErrLockConflict: the row is marked skipped, unless the copy says it is.
StartConflicts ==
  /\ rpc = "start"
  /\ ~closing /\ Cardinality(jobs) < MaxActiveJobs
  /\ locks[Ask.target] # NoJob
  /\ IF seen[current].mark.lastStatus # "skipped" \/ seen[current].mark.lastOccurrence # Occasion
     THEN rpc' = "skip" /\ UNCHANGED starting
     ELSE Back
  /\ UNCHANGED <<vars, rules, clock, edits, editor, seen, now, todo, candidates, current>>

MarkSkipped ==
  /\ rpc = "skip"
  /\ MarkScheduleRun(current, Occasion, "skipped", NoJob)
  /\ Back
  /\ UNCHANGED <<quiet, cancelled, rules, clock, edits, editor, seen, now, todo, candidates, current>>

EndRound ==
  /\ rpc = "choose" /\ candidates = {}
  /\ \A j \in JobId : starting = j => pc[j] # "marking"
  /\ rpc' = "idle"
  /\ seen' = <<>> /\ now' = 0 /\ current' = NoSchedule /\ starting' = NoJob
  /\ UNCHANGED <<vars, rules, clock, edits, editor, todo, candidates>>

\* The select of scheduleLoop takes the cancelled context.
LoopExits ==
  /\ rpc = "idle"
  /\ shutdown = "cancelled"
  /\ rpc' = "exited"
  /\ UNCHANGED <<vars, rules, clock, edits, editor, round>>

Reconciler ==
  \/ BeginRound \/ Preempt \/ StartRefused \/ StartConflicts \/ MarkSkipped \/ EndRound
  \/ \E s \in Schedule : Scan(s) \/ Choose(s)
  \/ \E j \in JobId : StartCandidate(j)

-----------------------------------------------------------------------------
\* The job table goes on as before; its wait group counts the reconciler too.
Clients ==
  /\ \E j \in JobId :
       \/ \E o \in ByHand : Start(j, o)
       \/ \E r \in RunNow : StartForSchedule(j, r.opts, r.schedule)
       \/ Cancel(j)
  /\ UNCHANGED schedVars

JobSteps(j) == JobStep(j) /\ UNCHANGED schedVars

Closing  == ShutdownBegin /\ UNCHANGED schedVars

Draining ==
  /\ ShutdownCancel \/ (rpc = "exited" /\ ShutdownDrained)
  /\ UNCHANGED schedVars

SchedNext ==
  \/ Clients \/ Closing \/ Draining \/ Edit \/ Tick \/ Reconciler \/ LoopExits
  \/ \E j \in JobId : JobSteps(j)

(***************************************************************************)
(* Fairness: as in JobManager; the ticker fires again and again, a round   *)
(* that began goes on, a request handler finishes, and a select with two   *)
(* ready cases does not for ever overlook one.                             *)
(***************************************************************************)
SchedFairness ==
  /\ \A j \in JobId : WF_allVars(JobSteps(j))
  /\ WF_allVars(Reconciler)
  /\ SF_allVars(LoopExits)
  /\ WF_allVars(UpsertStops \/ DeleteSchedule)
  /\ WF_allVars(Draining)

SchedSpec     == SchedInit /\ [][SchedNext]_allVars
FairSchedSpec == SchedSpec /\ SchedFairness

-----------------------------------------------------------------------------
\* A job of the row s that may still write the row.
InFlight(j, s) == InWaitGroup(j) /\ opts[j].schedule = s

\* A row says that something is queued or running only while something is:
\* whatever late marks of old jobs, skips and failed resolutions overwrite each
\* other, the last word is not that of a job that is gone.
QuietRowIsFinal ==
  \A s \in Schedule :
    marks[s].lastStatus \in {"queued", "running"} => \E j \in JobId : InFlight(j, s)

\* The reconciler has at most one unfinished job per row, however edits,
\* stops and rounds interleave.
OneJobPerSchedule ==
  \A i, j \in JobId :
    Live(i) /\ Live(j) /\ Scheduled(i) /\ opts[i].schedule = opts[j].schedule => i = j

\* Outside its window, or disabled, a row has in the end no job that runs: a
\* round that worked on an old copy is corrected by a later one.
IdleRowsStop ==
  \A s \in Schedule :
    <>[](marks[s].exists /\ ~(rules[s].enabled /\ WindowOpen(clock))) => <>[]~HasEntry(s)

\* A due probe gets its target again and again until its occurrence is done,
\* whatever scheduled keepalive holds the target, if no other probe and no job
\* without a row wants it (and the model does not run out of job ids).
OnlyProbe(s) ==
  /\ \A r \in Schedule : marks[r].exists /\ Probe(rules[r].opts) <=> r = s
  /\ \A j \in JobId : Live(j) => Scheduled(j)

OccurrenceDone(s) ==
  /\ marks[s].lastOccurrence = ScheduleOccurrence(rules[s], clock)
  /\ terminalScheduleStatus(marks[s].lastStatus)

ProbeGetsItsTarget ==
  \A s \in Schedule :
    <>[](OnlyProbe(s) /\ rules[s].enabled /\ WindowOpen(clock) /\ ~closing)
      => []<>(HasEntry(s) \/ OccurrenceDone(s) \/ \A j \in JobId : pc[j] # "new")

\* "occurrence ran %d times, want exactly once": an occurrence that a job has
\* completed is not started again.
CompletedOnce ==
  \A i, j \in JobId :
    /\ Scheduled(i) /\ opts[i].schedule = opts[j].schedule
    /\ opts[i].occurrence = opts[j].occurrence /\ opts[i].occurrence # ManualOccurrence
    /\ status[i] \in Completed /\ status[j] \in Completed
    => i = j

\* "A saved rule takes effect immediately": once an edit is through, no job of
\* an older version of the rule goes on unless it was told to stop.
SavedRuleRuns ==
  \A s \in Schedule :
    LET j == scheduleJobs[s]
    IN  editor # [at |-> "stop", schedule |-> s] /\ HasEntry(s) /\ opts[j].occurrence # ManualOccurrence
          => opts[j].occurrence[1] = rules[s].version \/ cancelled[j]
=============================================================================
