---------------------------- MODULE SchedulerProofs ----------------------------
(***************************************************************************)
(* Theorems about Scheduler, for any number of rows, jobs, targets, edits  *)
(* and ticks of the clock.                                                 *)
(*                                                                         *)
(* The reconciler drives the job table of JobManager by steps that table   *)
(* does not have alone: it cancels several jobs at once and, with the      *)
(* request handlers, overwrites marks and rows.  What the job table keeps  *)
(* by itself (IInv of JobManagerProofs) is shown to survive that, and the  *)
(* two promises about rows are built on it.                                *)
(***************************************************************************)
EXTENDS Scheduler, JobManagerProofs

Round == {"scan", "choose", "start", "skip"}

SchedTyped ==
  /\ rules \in [Schedule -> Rule]
  /\ clock \in Nat
  /\ editor \in [at : {"idle", "stop", "delete"}, schedule : Schedule \cup {NoSchedule}]
  /\ editor.at # "idle" => editor.schedule \in Schedule
  /\ rpc \in Round \cup {"idle", "exited"}
  /\ rpc \in Round => seen \in [Schedule -> [rule : Rule, mark : Mark]]
  /\ now \in Nat
  /\ todo \subseteq Schedule /\ candidates \subseteq Schedule
  /\ rpc \in {"start", "skip"} => current \in Schedule

InProgress == {"queued", "running"}

\* A row that is gone says nothing; a job on its way out has a final verdict.
AbsentIsBlank    == \A s \in Schedule : marks[s].exists \/ marks[s].lastStatus = ""
VerdictIsFinal ==
  \A j \in JobId : pc[j] \in {"finishing", "saving", "ending"} => verdict[j] \in Terminal

Rows == AbsentIsBlank /\ VerdictIsFinal /\ QuietRowIsFinal

\* Clients do not start the row by hand.
LeftAlone(s) == \A r \in RunNow : r.schedule # s

\* Only the reconciler registers jobs of such a row, and only after it has
\* seen that the row has no entry; nobody else can add one in between.
EntryNamesJob ==
  \A s \in Schedule : LeftAlone(s) =>
    /\ \A j \in JobId : j \in jobs /\ opts[j].schedule = s => scheduleJobs[s] = j
    /\ rpc \in {"start", "skip"} /\ current = s => scheduleJobs[s] = NoJob

\* With the reconciler gone nobody but request handlers writes the store.
DrainedMeansExited ==
  shutdown = "drained" => rpc = "exited" /\ DrainedIsQuiet

SchedIInv ==
  Typed /\ IInv /\ SchedTyped /\ Rows /\ EntryNamesJob /\ DrainedMeansExited

-----------------------------------------------------------------------------
(***************************************************************************)
(* What a step of the scheduler is to the job table.                       *)
(***************************************************************************)
Registers(j) ==
  \E o \in Options, s \in Schedule \cup {NoSchedule}, occurrence \in Occurrence :
    CanStart(o) /\ Register(j, o, s, occurrence)

\* Neither a start nor a step of a job: jobs are told to stop, rows are edited
\* or marked by the reconciler, the manager shuts down.
Overlay ==
  /\ UNCHANGED <<tables, pc, opts, status, verdict, runVars, summaries>>
  /\ shutdown' \in {"up", "closing", "cancelled", "drained"}
  /\ cancelled' \in [JobId -> BOOLEAN]
  /\ \A j \in JobId : j \notin jobs => cancelled'[j] = cancelled[j]
  /\ marks' \in [Schedule -> Mark]
  /\ \A s \in Schedule :
       /\ marks'[s].lastStatus \in InProgress => marks[s].lastStatus \in InProgress
       /\ (marks[s].exists \/ marks[s].lastStatus = "")
            => (marks'[s].exists \/ marks'[s].lastStatus = "")

\* A mark changes the row that is there and no other.
LEMMA MarkRow ==
  ASSUME marks \in [Schedule -> Mark], NEW s, NEW occurrence \in Occurrence,
         NEW m \in MarkStatus, NEW j \in JobId \cup {NoJob},
         MarkScheduleRun(s, occurrence, m, j)
  PROVE  /\ marks' \in [Schedule -> Mark]
         /\ \A r \in Schedule :
              /\ marks'[r].exists = marks[r].exists
              /\ marks'[r].lastStatus = IF r = s /\ marks[r].exists THEN m ELSE marks[r].lastStatus
BY DEF MarkScheduleRun, Mark

\* The reconciler's marks are no claims that something runs.
LEMMA MarkOverlay ==
  ASSUME marks \in [Schedule -> Mark], NEW s \in Schedule, NEW occurrence \in Occurrence,
         NEW m \in {"skipped", "resolve_failed"}, MarkScheduleRun(s, occurrence, m, NoJob)
  PROVE  /\ marks' \in [Schedule -> Mark]
         /\ \A r \in Schedule :
              /\ marks'[r].lastStatus \in InProgress => marks[r].lastStatus \in InProgress
              /\ (marks[r].exists \/ marks[r].lastStatus = "")
                   => (marks'[r].exists \/ marks'[r].lastStatus = "")
<1>1. m \in MarkStatus
  BY DEF MarkStatus
<1>2. /\ marks' \in [Schedule -> Mark]
      /\ \A r \in Schedule :
           /\ marks'[r].exists = marks[r].exists
           /\ marks'[r].lastStatus = IF r = s /\ marks[r].exists THEN m ELSE marks[r].lastStatus
  BY <1>1, MarkRow
<1> QED
  BY <1>2 DEF InProgress

\* The keys of the reconciler are occurrences.
LEMMA OccurrenceTyped ==
  ASSUME SchedTyped, rpc \in Round, NEW s \in Schedule
  PROVE  /\ ScheduleOccurrence(seen[s].rule, now) \in Occurrence
         /\ seen[s].rule \in Rule
<1>1. seen[s].rule \in Rule /\ now \in Nat
  BY DEF SchedTyped
<1>2. now \div 2 \in Nat
  BY <1>1
<1> QED
  BY <1>1, <1>2 DEF ScheduleOccurrence, Rule, Occurrence

\* Nothing but the flags of jobs in the table.
LEMMA StopOverlay ==
  ASSUME Typed, NEW s \in Schedule, StopScheduleJob(s)
  PROVE  Overlay
BY DEF StopScheduleJob, quiet, tables, runVars, Live, Overlay, Typed, TypeOK

\* Nothing at all.
LEMMA IdleOverlay == Typed /\ UNCHANGED vars => Overlay
BY DEF vars, tables, runVars, Overlay, Typed, TypeOK

\* Edits of rows.
LEMMA EditOverlay ==
  ASSUME Typed, SchedTyped, Edit
  PROVE  Overlay
<1>1. CASE \E s \in Schedule : DeleteStops(s)
  BY <1>1, StopOverlay DEF DeleteStops
<1>2. CASE UpsertStops
  <2>1. editor.schedule \in Schedule
    BY <1>2 DEF UpsertStops, SchedTyped
  <2> QED
    BY <1>2, <2>1, StopOverlay DEF UpsertStops
<1>3. CASE \E s \in Schedule, o \in Options, on \in BOOLEAN : UpsertSchedule(s, o, on)
  <2>1. PICK s \in Schedule : marks' = [marks EXCEPT ![s].exists = TRUE]
    BY <1>3 DEF UpsertSchedule
  <2>2. marks \in [Schedule -> Mark] /\ marks[s] \in Mark
    BY DEF Typed, TypeOK
  <2>3. marks' \in [Schedule -> Mark] /\ \A r \in Schedule \ {s} : marks'[r] = marks[r]
    BY <2>1, <2>2 DEF Mark
  <2>4. marks'[s].exists /\ marks'[s].lastStatus = marks[s].lastStatus
    BY <2>1, <2>2 DEF Mark
  <2>5. UNCHANGED <<quiet, cancelled>>
    BY <1>3 DEF UpsertSchedule
  <2> QED
    BY <2>3, <2>4, <2>5 DEF quiet, tables, runVars, Overlay, Typed, TypeOK
<1>4. CASE DeleteSchedule
  <2>1. NoMark \in Mark /\ NoMark.lastStatus = ""
    BY DEF NoMark, Mark, NoOccurrence, Occurrence, MarkStatus
  <2>2. marks' \in [Schedule -> Mark] /\ \A r \in Schedule : marks'[r] \in {marks[r], NoMark}
    BY <1>4, <2>1 DEF DeleteSchedule, Typed, TypeOK
  <2>3. UNCHANGED <<quiet, cancelled>>
    BY <1>4 DEF DeleteSchedule
  <2> QED
    BY <2>1, <2>2, <2>3 DEF quiet, tables, runVars, Overlay, Typed, TypeOK, InProgress
<1> QED
  BY <1>1, <1>2, <1>3, <1>4, SchedulerAssumption DEF Edit

\* The scan of a row.
LEMMA ScanOverlay ==
  ASSUME Typed, SchedTyped, NEW s \in Schedule, Scan(s)
  PROVE  Overlay
<1>0. rpc \in Round /\ NoOccurrence \in Occurrence /\ marks \in [Schedule -> Mark]
  BY DEF Scan, Round, NoOccurrence, Occurrence, Typed, TypeOK
<1>1. CASE MarkResolveFailed(s)
  <2>1. CASE UNCHANGED marks
    BY <1>1, <2>1, IdleOverlay DEF MarkResolveFailed, quiet, vars, tables, runVars
  <2>2. CASE ~UNCHANGED marks
    <3>1. PICK occurrence \in Occurrence : MarkScheduleRun(s, occurrence, "resolve_failed", NoJob)
      BY <1>0, <1>1, <2>2, OccurrenceTyped DEF MarkResolveFailed
    <3> QED
      BY <1>0, <1>1, <3>1, MarkOverlay
         DEF MarkResolveFailed, quiet, tables, runVars, Overlay, Typed, TypeOK
  <2> QED
    BY <2>1, <2>2
<1>2. CASE StopScheduleJob(s)
  BY <1>2, StopOverlay
<1>3. CASE UNCHANGED vars
  BY <1>3, IdleOverlay
<1> QED
  BY <1>1, <1>2, <1>3 DEF Scan, GroupUnresolved, NotDue, AlreadyDone, Unresolved, Wanted

\* The steps of the reconciler between its starts.
LEMMA ReconcilerOverlay ==
  ASSUME Typed, SchedTyped, Reconciler, \A j \in JobId : ~StartCandidate(j)
  PROVE  Overlay
<1>1. CASE \E s \in Schedule : Scan(s)
  BY <1>1, ScanOverlay
<1>2. CASE Preempt
  BY <1>2 DEF Preempt, quiet, tables, runVars, Live, Overlay, Typed, TypeOK
<1>3. CASE MarkSkipped
  <2>1. current \in Schedule /\ Occasion \in Occurrence
    BY <1>3, OccurrenceTyped DEF MarkSkipped, SchedTyped, Occasion, Round
  <2> QED
    BY <1>3, <2>1, MarkOverlay
       DEF MarkSkipped, quiet, tables, runVars, Overlay, Typed, TypeOK
<1>4. CASE UNCHANGED vars
  BY <1>4, IdleOverlay
<1> QED
  BY <1>1, <1>2, <1>3, <1>4
     DEF Reconciler, BeginRound, StartRefused, StartConflicts, EndRound, Choose

\* A step of the scheduler is a start, a step of a job, or an overlay.
LEMMA SchedSteps ==
  ASSUME Typed, SchedTyped, [SchedNext]_allVars
  PROVE  \/ \E j \in JobId : Registers(j)
         \/ \E j \in JobId : JobStep(j)
         \/ Overlay
<1>1. CASE Clients
  <2>1. CASE \E j \in JobId : Cancel(j)
    BY <2>1 DEF Cancel, tables, runVars, store, Live, Overlay, Typed, TypeOK
  <2>2. NoOccurrence \in Occurrence /\ ManualOccurrence \in Occurrence
    BY DEF NoOccurrence, ManualOccurrence, Occurrence
  <2> QED
    BY <1>1, <2>1, <2>2, SchedulerAssumption
       DEF Clients, Start, StartForSchedule, StartJob, Registers
<1>2. CASE Closing \/ Draining
  BY <1>2 DEF Closing, Draining, ShutdownBegin, ShutdownCancel, ShutdownDrained, tables, runVars,
              store, Live, Overlay, Typed, TypeOK
<1>3. CASE \E j \in JobId : StartCandidate(j)
  <2>1. rpc \in Round /\ current \in Schedule
    BY <1>3 DEF StartCandidate, Round, SchedTyped
  <2>2. Ask \in Options /\ Occasion \in Occurrence
    BY <2>1, OccurrenceTyped DEF Ask, Occasion, Rule
  <2> QED
    BY <1>3, <2>1, <2>2 DEF StartCandidate, StartJob, Registers
<1>4. CASE Tick \/ LoopExits \/ UNCHANGED allVars
  BY <1>4, IdleOverlay DEF Tick, LoopExits, allVars
<1> QED
  BY <1>1, <1>2, <1>3, <1>4, EditOverlay, ReconcilerOverlay DEF SchedNext, JobSteps
-----------------------------------------------------------------------------
(***************************************************************************)
(* The job table under the scheduler.                                      *)
(***************************************************************************)
\* What an overlay leaves alone is all that the tables rest on.
LEMMA OverlayKeepsTable ==
  ASSUME Typed, IInv, Overlay
  PROVE  Typed' /\ IInv'
<1>1. Typed'
  BY DEF Overlay, Typed, TypeOK, HistoryBounded, tables, runVars
<1>2. TableMatchesPc'
  BY DEF Overlay, IInv, TableMatchesPc, tables
<1>3. LocksMatchJobs'
  BY DEF Overlay, IInv, LocksMatchJobs, Live, tables
<1>4. ScheduleEntryIsLive'
  BY DEF Overlay, IInv, ScheduleEntryIsLive, Live, tables
<1>5. FreshIsClean'
  BY DEF Overlay, IInv, FreshIsClean, TableMatchesPc, runVars
<1> QED
  BY <1>1, <1>2, <1>3, <1>4, <1>5 DEF IInv, Typed

\* A step of the scheduler keeps what the job table keeps.
LEMMA SchedTable ==
  ASSUME Typed, IInv, SchedTyped, [SchedNext]_allVars
  PROVE  Typed' /\ IInv'
<1>1. CASE \E j \in JobId : Registers(j)
  <2>1. PICK j \in JobId, o \in Options, s \in Schedule \cup {NoSchedule},
             occurrence \in Occurrence :
          CanStart(o) /\ Register(j, o, s, occurrence)
    BY <1>1 DEF Registers
  <2>2. Typed'
    BY <2>1, RegisterTyped
  <2> QED
    BY <2>1, <2>2, RegisterIInv DEF Typed
<1>2. CASE \E j \in JobId : JobStep(j)
  BY <1>2, JobStepTyped, JobStepIInv DEF Typed
<1> QED
  BY <1>1, <1>2, OverlayKeepsTable, SchedSteps

\* A step of a job moves it along; it ends with its summary or its last mark.
LEMMA JobStepMoves ==
  ASSUME NEW j \in JobId, JobStep(j)
  PROVE  /\ opts' = opts /\ pc[j] \notin {"new", "done"}
         /\ \E c \in PC \ {"new"} :
              pc' = [pc EXCEPT ![j] = c] /\ (c = "done" => SaveSummary(j) \/ MarkTerminal(j))
<1>1. CASE MarkQueued(j) \/ SetRunning(j) \/ MarkRunning(j) \/ SeeCancelled(j)
  BY <1>1 DEF MarkQueued, SetRunning, MarkRunning, SeeCancelled, FinishWith, PC
<1>2. CASE BeginAttempt(j) \/ LaunchFails(j) \/ \E a \in Attempt : EndAttempt(j, a)
  BY <1>2 DEF BeginAttempt, LaunchFails, EndAttempt, FinishWith, PC
<1>3. CASE Conclude(j) \/ RetryProbe(j) \/ ContinueKeepalive(j) \/ WaitOver(j)
  BY <1>3 DEF Conclude, RetryProbe, ContinueKeepalive, WaitOver, FinishWith, PC
<1>4. CASE Finish(j) \/ SaveSummary(j) \/ MarkTerminal(j)
  BY <1>4 DEF Finish, SaveSummary, MarkTerminal, PC
<1> QED
  BY <1>1, <1>2, <1>3, <1>4 DEF JobStep

-----------------------------------------------------------------------------
(***************************************************************************)
(* The rows and the reconciler's place.                                    *)
(***************************************************************************)
\* The request handlers and the reconciler keep the types of what they share.
LEMMA SchedTypedStep ==
  ASSUME Typed, SchedTyped, [SchedNext]_allVars
  PROVE  SchedTyped'
<1>1. CASE Clients \/ Closing \/ Draining \/ (\E j \in JobId : JobSteps(j)) \/ UNCHANGED allVars
  <2>1. UNCHANGED schedVars
    BY <1>1 DEF Clients, Closing, Draining, JobSteps, allVars
  <2> QED
    BY <2>1 DEF schedVars, round, SchedTyped
<1>2. CASE Edit
  <2>1. UNCHANGED <<clock, rpc, round>>
    BY <1>2 DEF Edit, DeleteStops, UpsertSchedule, UpsertStops, DeleteSchedule
  <2>2. rules' \in [Schedule -> Rule]
    <3>1. CASE \E s \in Schedule, o \in Options, on \in BOOLEAN : UpsertSchedule(s, o, on)
      <4>1. PICK s \in Schedule, o \in Options, on \in BOOLEAN :
              rules' = [rules EXCEPT ![s] = [enabled |-> on, version |-> @.version + 1, opts |-> o]]
        BY <3>1 DEF UpsertSchedule
      <4>2. rules[s].version + 1 \in Nat \ {0}
        BY DEF SchedTyped, Rule
      <4> QED
        BY <4>1, <4>2 DEF SchedTyped, Rule
    <3>2. CASE rules' = rules
      BY <3>2 DEF SchedTyped
    <3> QED
      BY <1>2, <3>1, <3>2, SchedulerAssumption
         DEF Edit, DeleteStops, UpsertStops, DeleteSchedule
  <2>3. /\ editor' \in [at : {"idle", "stop", "delete"}, schedule : Schedule \cup {NoSchedule}]
        /\ editor'.at # "idle" => editor'.schedule \in Schedule
    BY <1>2 DEF Edit, DeleteStops, UpsertSchedule, UpsertStops, DeleteSchedule, Idle
  <2> QED
    BY <2>1, <2>2, <2>3 DEF SchedTyped, round
<1>3. CASE Tick
  BY <1>3 DEF Tick, round, SchedTyped
<1>4. CASE BeginRound
  BY <1>4 DEF BeginRound, SchedTyped, Round, Typed, TypeOK
<1>5. CASE \E s \in Schedule : Scan(s)
  BY <1>5 DEF Scan, GroupUnresolved, NotDue, AlreadyDone, Unresolved, Wanted, SchedTyped, Round
<1>6. CASE Preempt \/ LoopExits \/ EndRound
  BY <1>6 DEF Preempt, LoopExits, EndRound, round, SchedTyped, Round
<1>7. CASE \E s \in Schedule : Choose(s)
  BY <1>7 DEF Choose, SchedTyped, Round
<1>8. CASE StartRefused \/ StartConflicts \/ MarkSkipped \/ \E j \in JobId : StartCandidate(j)
  BY <1>8 DEF StartRefused, StartConflicts, MarkSkipped, StartCandidate, Back, SchedTyped, Round
<1> QED
  BY <1>1, <1>2, <1>3, <1>4, <1>5, <1>6, <1>7, <1>8 DEF SchedNext, Reconciler

\* A job is on its way out with the verdict it was finished with.
LEMMA VerdictStep ==
  ASSUME Typed, VerdictIsFinal, NEW j \in JobId, JobStep(j)
  PROVE  VerdictIsFinal'
<1>0. pc \in [JobId -> PC] /\ verdict \in [JobId -> JobStatus]
  BY DEF Typed, TypeOK
<1>1. CASE \E v \in Terminal : FinishWith(j, v)
  BY <1>0, <1>1 DEF FinishWith, VerdictIsFinal
<1>2. CASE MarkQueued(j) \/ SetRunning(j) \/ MarkRunning(j) \/ BeginAttempt(j)
  BY <1>0, <1>2 DEF MarkQueued, SetRunning, MarkRunning, BeginAttempt, VerdictIsFinal
<1>3. CASE (\E a \in Attempt : EndAttempt(j, a)) \/ RetryProbe(j) \/ ContinueKeepalive(j)
  BY <1>0, <1>3 DEF EndAttempt, RetryProbe, ContinueKeepalive, VerdictIsFinal
<1>4. CASE Finish(j) \/ SaveSummary(j) \/ MarkTerminal(j)
  BY <1>0, <1>4 DEF Finish, SaveSummary, MarkTerminal, VerdictIsFinal
<1>5. CASE WaitOver(j)
  <2>1. CASE pc' = [pc EXCEPT ![j] = "loop"] /\ UNCHANGED verdict
    BY <1>0, <2>1 DEF VerdictIsFinal
  <2> QED
    BY <1>1, <1>5, <2>1 DEF WaitOver, Terminal
<1>6. CASE SeeCancelled(j) \/ LaunchFails(j) \/ Conclude(j)
  BY <1>1, <1>6 DEF SeeCancelled, LaunchFails, Conclude, oneShotResult, Terminal, Completed
<1> QED
  BY <1>2, <1>3, <1>4, <1>5, <1>6 DEF JobStep

\* A mark of a job: a row that was there is there, with a claim only if the job
\* goes on.
LEMMA JobMarks ==
  ASSUME Typed, Rows, NEW j \in JobId, JobStep(j), NEW s \in Schedule
  PROVE  /\ marks'[s].exists = marks[s].exists
         /\ marks[s].lastStatus = "" /\ ~marks[s].exists => marks'[s].lastStatus = ""
         /\ marks'[s].lastStatus \in InProgress =>
              \/ /\ marks[s].lastStatus \in InProgress
                 /\ ~(MarkTerminal(j) /\ opts[j].schedule = s)
              \/ opts[j].schedule = s /\ pc'[j] \in {"spawned", "loop"}
<1>0. marks \in [Schedule -> Mark] /\ opts[j].occurrence \in Occurrence /\ pc \in [JobId -> PC]
  BY OptionsTyped DEF Typed, TypeOK
<1>1. CASE MarkQueued(j) \/ MarkRunning(j)
  <2>1. PICK m \in InProgress : MarkScheduleRun(opts[j].schedule, opts[j].occurrence, m, j)
    BY <1>1 DEF MarkQueued, MarkRunning, InProgress
  <2>2. m \in MarkStatus
    BY DEF InProgress, MarkStatus, JobStatus
  <2>3. /\ marks'[s].exists = marks[s].exists
        /\ marks'[s].lastStatus = IF s = opts[j].schedule /\ marks[s].exists THEN m
                                  ELSE marks[s].lastStatus
    BY <1>0, <2>1, <2>2, MarkRow
  <2>4. pc'[j] \in {"spawned", "loop"} /\ ~MarkTerminal(j)
    BY <1>0, <1>1 DEF MarkQueued, MarkRunning, MarkTerminal
  <2> QED
    BY <2>3, <2>4
<1>2. CASE MarkTerminal(j)
  <2>1. verdict[j] \in Terminal /\ verdict[j] \in MarkStatus
    BY <1>2 DEF MarkTerminal, Rows, VerdictIsFinal, Terminal, Completed, MarkStatus, JobStatus
  <2>2. /\ marks'[s].exists = marks[s].exists
        /\ marks'[s].lastStatus = IF s = opts[j].schedule /\ marks[s].exists THEN verdict[j]
                                  ELSE marks[s].lastStatus
    BY <1>0, <1>2, <2>1, MarkRow DEF MarkTerminal
  <2> QED
    BY <2>1, <2>2 DEF Rows, AbsentIsBlank, InProgress, Terminal, Completed
<1>3. CASE UNCHANGED marks /\ ~MarkTerminal(j)
  BY <1>3
<1> QED
  BY <1>1, <1>2, <1>3 DEF JobStep, SetRunning, SeeCancelled, BeginAttempt, LaunchFails, EndAttempt,
     Conclude, RetryProbe, ContinueKeepalive, WaitOver, Finish, SaveSummary, store

\* The last word about a row is not that of a job that is gone.
LEMMA RowsStep ==
  ASSUME Typed, IInv, SchedTyped, Rows, [SchedNext]_allVars
  PROVE  Rows'
<1>0. pc \in [JobId -> PC] /\ opts \in [JobId -> JobOptions \cup {ZeroOptions}]
  BY DEF Typed, TypeOK
<1>1. CASE \E j \in JobId : Registers(j)
  <2>1. PICK j \in JobId : /\ pc[j] = "new" /\ UNCHANGED <<marks, verdict>>
                           /\ pc'[j] \in {"spawned", "marking"}
                           /\ \A i \in JobId \ {j} : pc'[i] = pc[i] /\ opts'[i] = opts[i]
    BY <1>0, <1>1 DEF Registers, Register
  <2>2. AbsentIsBlank'
    BY <2>1 DEF Rows, AbsentIsBlank
  <2>3. VerdictIsFinal'
    BY <2>1 DEF Rows, VerdictIsFinal
  <2>4. QuietRowIsFinal'
    <3> SUFFICES ASSUME NEW s \in Schedule, marks[s].lastStatus \in {"queued", "running"}
                 PROVE  \E i \in JobId : pc'[i] \notin {"new", "done"} /\ opts'[i].schedule = s
      BY <2>1 DEF QuietRowIsFinal, InFlight, InWaitGroup
    <3>1. PICK i \in JobId : pc[i] \notin {"new", "done"} /\ opts[i].schedule = s
      BY DEF Rows, QuietRowIsFinal, InFlight, InWaitGroup
    <3> QED
      BY <2>1, <3>1
  <2> QED
    BY <2>2, <2>3, <2>4 DEF Rows
<1>2. CASE \E j \in JobId : JobStep(j)
  <2>1. PICK j \in JobId : JobStep(j)
    BY <1>2
  <2>2. PICK c \in PC \ {"new"} : /\ pc' = [pc EXCEPT ![j] = c]
                                  /\ c = "done" => SaveSummary(j) \/ MarkTerminal(j)
    BY <2>1, JobStepMoves
  <2>3. opts' = opts
    BY <2>1, JobStepMoves
  <2>4. AbsentIsBlank'
    BY <2>1, JobMarks DEF Rows, AbsentIsBlank
  <2>5. QuietRowIsFinal'
    <3> SUFFICES ASSUME NEW s \in Schedule, marks'[s].lastStatus \in InProgress
                 PROVE  \E i \in JobId : pc'[i] \notin {"new", "done"} /\ opts'[i].schedule = s
      BY DEF QuietRowIsFinal, InFlight, InWaitGroup, InProgress
    <3>1. CASE opts[j].schedule = s /\ pc'[j] \in {"spawned", "loop"}
      BY <2>3, <3>1
    <3>2. CASE marks[s].lastStatus \in InProgress /\ ~(MarkTerminal(j) /\ opts[j].schedule = s)
      <4>1. PICK i \in JobId : pc[i] \notin {"new", "done"} /\ opts[i].schedule = s
        BY <3>2 DEF Rows, QuietRowIsFinal, InFlight, InWaitGroup, InProgress
      <4>2. CASE i = j /\ c = "done"
        <5>1. SaveSummary(j) /\ ~Scheduled(j)
          <6>1. SaveSummary(j) /\ pc'[j] = "done"
            BY <1>0, <2>2, <3>2, <4>1, <4>2
          <6> QED
            BY <1>0, <6>1 DEF SaveSummary
        <5> QED
          BY <4>1, <4>2, <5>1, JobManagerAssumption DEF Scheduled
      <4>3. CASE ~(i = j /\ c = "done")
        <5>1. pc'[i] \notin {"new", "done"}
          BY <1>0, <2>2, <4>1, <4>3
        <5> QED
          BY <2>3, <4>1, <5>1
      <4> QED
        BY <4>2, <4>3
    <3> QED
      BY <2>1, <3>1, <3>2, JobMarks
  <2> QED
    BY <2>1, <2>4, <2>5, VerdictStep DEF Rows
<1>3. CASE Overlay
  BY <1>3 DEF Overlay, Rows, AbsentIsBlank, VerdictIsFinal, QuietRowIsFinal, InFlight, InWaitGroup,
              InProgress
<1> QED
  BY <1>1, <1>2, <1>3, SchedSteps
-----------------------------------------------------------------------------
(***************************************************************************)
(* One job per row, and the end of a shutdown.                             *)
(***************************************************************************)
\* finish() takes the job out of the table, and its own entry with it.
LEMMA EntryOfFinished ==
  ASSUME Typed, EntryNamesJob, NEW j \in JobId, Finish(j), UNCHANGED <<rpc, current>>
  PROVE  EntryNamesJob'
<1>1. /\ jobs' = jobs \ {j} /\ opts' = opts
      /\ scheduleJobs' = [s \in Schedule |->
           IF s = opts[j].schedule /\ scheduleJobs[s] = j THEN NoJob ELSE scheduleJobs[s]]
  BY DEF Finish
<1> QED
  BY <1>1 DEF EntryNamesJob, LeftAlone

\* A new job of a row that clients leave alone comes from the reconciler, which
\* has found the row without an entry.
LEMMA EntryOfStarted ==
  ASSUME Typed, SchedTyped, EntryNamesJob, NEW j \in JobId, NEW s \in Schedule \cup {NoSchedule},
         NEW o, NEW occurrence, Register(j, o, s, occurrence),
         \/ s = NoSchedule /\ UNCHANGED <<rpc, current>>
         \/ ~LeftAlone(s) /\ UNCHANGED <<rpc, current>>
         \/ s = current /\ rpc = "start" /\ rpc' = "choose"
  PROVE  EntryNamesJob'
<1>1. /\ jobs' = jobs \cup {j}
      /\ scheduleJobs' = IF s = NoSchedule THEN scheduleJobs ELSE [scheduleJobs EXCEPT ![s] = j]
      /\ \A i \in JobId \ {j} : opts'[i] = opts[i]
      /\ opts'[j].schedule = s
  BY DEF Register, Typed, TypeOK
<1>2. /\ scheduleJobs \in [Schedule -> JobId \cup {NoJob}]
      /\ NoJob \notin JobId /\ NoSchedule \notin Schedule
  BY JobManagerAssumption DEF Typed, TypeOK
<1> SUFFICES ASSUME NEW r \in Schedule, LeftAlone(r)
             PROVE  /\ \A i \in JobId : i \in jobs' /\ opts'[i].schedule = r => scheduleJobs'[r] = i
                    /\ rpc' \in {"start", "skip"} /\ current' = r => scheduleJobs'[r] = NoJob
  BY DEF EntryNamesJob, LeftAlone
<1>3. /\ \A i \in JobId : i \in jobs /\ opts[i].schedule = r => scheduleJobs[r] = i
      /\ rpc \in {"start", "skip"} /\ current = r => scheduleJobs[r] = NoJob
  BY DEF EntryNamesJob
<1>4. CASE r # s
  BY <1>1, <1>2, <1>3, <1>4
<1>5. CASE r = s
  <2>1. s = current /\ rpc = "start" /\ rpc' = "choose" /\ s # NoSchedule
    BY <1>2, <1>5
  <2>2. scheduleJobs[r] = NoJob /\ scheduleJobs'[r] = j
    BY <1>1, <1>2, <1>3, <1>5, <2>1
  <2>3. \A i \in JobId \ {j} : i \in jobs => opts[i].schedule # r
    BY <1>2, <1>3, <2>2
  <2> QED
    BY <1>1, <2>1, <2>2, <2>3
<1> QED
  BY <1>4, <1>5

\* Every step keeps the entry of a row with its job.
LEMMA EntryStep ==
  ASSUME Typed, SchedTyped, EntryNamesJob, [SchedNext]_allVars
  PROVE  EntryNamesJob'
<1>1. CASE \E j \in JobId : JobSteps(j)
  <2>1. PICK j \in JobId : JobStep(j) /\ UNCHANGED <<rpc, current>>
    BY <1>1 DEF JobSteps, schedVars, round
  <2>2. CASE ~Finish(j)
    <3>1. UNCHANGED <<jobs, opts, scheduleJobs>>
      BY <2>1, <2>2 DEF JobStep, MarkQueued, SetRunning, MarkRunning, SeeCancelled, BeginAttempt,
         LaunchFails, EndAttempt, Conclude, RetryProbe, ContinueKeepalive, WaitOver, SaveSummary,
         MarkTerminal, tables
    <3> QED
      BY <2>1, <3>1 DEF EntryNamesJob, LeftAlone
  <2> QED
    BY <2>1, <2>2, EntryOfFinished
<1>2. CASE Clients
  <2>0. UNCHANGED <<rpc, current>>
    BY <1>2 DEF Clients, schedVars, round
  <2>1. CASE \E j \in JobId, o \in ByHand : Start(j, o)
    BY <2>0, <2>1, EntryOfStarted DEF Start, StartJob
  <2>2. CASE \E j \in JobId, r \in RunNow : StartForSchedule(j, r.opts, r.schedule)
    <3>1. PICK j \in JobId, r \in RunNow : Register(j, r.opts, r.schedule, ManualOccurrence)
      BY <2>2 DEF StartForSchedule, StartJob
    <3>2. r.schedule \in Schedule /\ ~LeftAlone(r.schedule)
      BY SchedulerAssumption DEF LeftAlone
    <3> QED
      BY <2>0, <3>1, <3>2, EntryOfStarted
  <2>3. CASE \E j \in JobId : Cancel(j)
    BY <2>0, <2>3 DEF Cancel, tables, EntryNamesJob, LeftAlone
  <2> QED
    BY <1>2, <2>1, <2>2, <2>3 DEF Clients
<1>3. CASE \E j \in JobId : StartCandidate(j)
  <2>1. PICK j \in JobId : /\ rpc = "start" /\ rpc' = "choose"
                           /\ Register(j, Ask, current, Occasion)
    BY <1>3 DEF StartCandidate, StartJob
  <2>2. current \in Schedule
    BY <2>1 DEF SchedTyped
  <2> QED
    BY <2>1, <2>2, EntryOfStarted
<1>4. CASE /\ UNCHANGED <<jobs, opts, scheduleJobs>>
           /\ \/ rpc' \notin {"start", "skip"}
              \/ UNCHANGED <<rpc, current>>
              \/ rpc = "start" /\ current' = current
              \/ scheduleJobs[current'] = NoJob
  BY <1>4 DEF EntryNamesJob, LeftAlone
<1>5. CASE Closing \/ Draining \/ Tick \/ LoopExits \/ UNCHANGED allVars
  BY <1>4, <1>5 DEF Closing, Draining, Tick, LoopExits, ShutdownBegin, ShutdownCancel,
     ShutdownDrained, allVars, schedVars, vars, round, tables
<1>6. CASE Edit
  BY <1>4, <1>6 DEF Edit, DeleteStops, UpsertSchedule, UpsertStops, DeleteSchedule,
     StopScheduleJob, quiet, tables, round
<1>7. CASE \E s \in Schedule : Scan(s)
  BY <1>4, <1>7 DEF Scan, GroupUnresolved, NotDue, AlreadyDone, Unresolved, Wanted,
     MarkResolveFailed, StopScheduleJob, quiet, tables, vars
<1>8. CASE \E s \in Schedule : Choose(s)
  BY <1>4, <1>8 DEF Choose, HasEntry, vars
<1>9. CASE BeginRound \/ Preempt \/ StartRefused \/ EndRound
  BY <1>4, <1>9 DEF BeginRound, Preempt, StartRefused, EndRound, Back, vars, quiet, tables
<1>10. CASE StartConflicts \/ MarkSkipped
  BY <1>4, <1>10 DEF StartConflicts, MarkSkipped, Back, vars, quiet, tables
<1> QED
  BY <1>1, <1>2, <1>3, <1>5, <1>6, <1>7, <1>8, <1>9, <1>10 DEF SchedNext, Reconciler

\* The last wait of Shutdown ends after the reconciler, which never comes back,
\* and no start gets past the closing flag.
LEMMA DrainedStep ==
  ASSUME Typed, IInv, DrainedMeansExited, [SchedNext]_allVars
  PROVE  DrainedMeansExited'
<1>1. CASE shutdown = "drained"
  <2>1. /\ rpc = "exited" /\ jobs = {} /\ closing
        /\ \A j \in JobId : pc[j] \in {"new", "done"}
    BY <1>1 DEF DrainedMeansExited, DrainedIsQuiet, closing
  <2>2. \A j \in JobId : ~JobStep(j) /\ ~Cancel(j)
    BY <2>1 DEF JobStep, MarkQueued, SetRunning, MarkRunning, SeeCancelled, BeginAttempt,
       LaunchFails, EndAttempt, Conclude, RetryProbe, ContinueKeepalive, WaitOver, Finish,
       SaveSummary, MarkTerminal, Cancel, Live
  <2>3. ~Clients
    BY <2>1, <2>2 DEF Clients, Start, StartForSchedule, StartJob, CanStart
  <2>4. ~Reconciler
    BY <2>1 DEF Reconciler, BeginRound, Preempt, StartRefused, StartConflicts, MarkSkipped,
       EndRound, Scan, Choose, StartCandidate
  <2>5. UNCHANGED <<rpc, jobs, pc>>
    BY <1>1, <2>1, <2>2, <2>3, <2>4
       DEF SchedNext, JobSteps, Closing, Draining, ShutdownBegin, ShutdownCancel, ShutdownDrained,
           Edit, DeleteStops, UpsertSchedule, UpsertStops, DeleteSchedule, StopScheduleJob, quiet,
           Tick, LoopExits, allVars, schedVars, vars, tables
  <2> QED
    BY <2>1, <2>5 DEF DrainedMeansExited, DrainedIsQuiet
<1>2. CASE shutdown # "drained" /\ Draining
  BY <1>2 DEF Draining, ShutdownCancel, ShutdownDrained, InWaitGroup, IInv, TypeOK, TableMatchesPc,
     tables, schedVars, DrainedMeansExited, DrainedIsQuiet
<1>3. CASE shutdown # "drained" /\ ~Draining
  <2>1. shutdown' # "drained"
    <3>1. CASE UNCHANGED shutdown
      BY <1>3, <3>1
    <3>2. CASE Closing
      BY <3>2 DEF Closing, ShutdownBegin
    <3>3. CASE Clients
      BY <3>1, <3>3 DEF Clients, Start, StartForSchedule, StartJob, Register, Cancel
    <3>4. CASE \E j \in JobId : JobSteps(j)
      BY <3>1, <3>4 DEF JobSteps, JobStep, MarkQueued, SetRunning, MarkRunning, SeeCancelled,
         BeginAttempt, LaunchFails, EndAttempt, Conclude, RetryProbe, ContinueKeepalive, WaitOver,
         Finish, SaveSummary, MarkTerminal
    <3>5. CASE Edit \/ Tick \/ LoopExits \/ UNCHANGED allVars
      BY <3>1, <3>5 DEF Edit, DeleteStops, UpsertSchedule, UpsertStops, DeleteSchedule,
         StopScheduleJob, quiet, Tick, LoopExits, allVars, vars
    <3>6. CASE Reconciler
      <4>1. CASE \E s \in Schedule : Scan(s)
        BY <3>1, <4>1 DEF Scan, GroupUnresolved, NotDue, AlreadyDone, Unresolved, Wanted,
           MarkResolveFailed, StopScheduleJob, quiet, vars
      <4>2. CASE \E j \in JobId : StartCandidate(j)
        BY <3>1, <4>2 DEF StartCandidate, StartJob, Register
      <4> QED
        BY <3>1, <3>6, <4>1, <4>2 DEF Reconciler, BeginRound, Preempt, StartRefused, StartConflicts,
           MarkSkipped, EndRound, Choose, quiet, vars
    <3> QED
      BY <1>3, <3>2, <3>3, <3>4, <3>5, <3>6 DEF SchedNext
  <2> QED
    BY <2>1 DEF DrainedMeansExited
<1> QED
  BY <1>1, <1>2, <1>3

-----------------------------------------------------------------------------
(***************************************************************************)
(* The inductive invariant and what follows from it.                       *)
(***************************************************************************)
\* The scheduler starts with rows of version one and nothing to do.
LEMMA SchedInitIInv == SchedInit => SchedIInv
<1> SUFFICES ASSUME SchedInit PROVE SchedIInv
  OBVIOUS
<1>1. Typed /\ IInv
  BY InitTyped, InitIInv DEF SchedInit
<1>2. SchedTyped
  <2>1. rules \in [Schedule -> [enabled : {TRUE}, version : {1}, opts : Options]]
    BY DEF SchedInit
  <2>2. rules \in [Schedule -> Rule]
    <3>1. ASSUME NEW r \in [enabled : {TRUE}, version : {1}, opts : Options]
          PROVE  r \in Rule
      <4>1. r = [enabled |-> TRUE, version |-> 1, opts |-> r.opts] /\ r.opts \in Options
        OBVIOUS
      <4>2. \A o \in Options : [enabled |-> TRUE, version |-> 1, opts |-> o] \in Rule
        BY DEF Rule
      <4> QED
        BY <4>1, <4>2
    <3> QED
      BY <2>1, <3>1
  <2>3. /\ editor = [at |-> "idle", schedule |-> NoSchedule] /\ rpc = "idle"
        /\ clock = 0 /\ now = 0 /\ todo = {} /\ candidates = {}
    BY DEF SchedInit, Idle
  <2> QED
    BY <2>2, <2>3 DEF SchedTyped, Round
<1>3. Rows
  BY DEF SchedInit, Init, Rows, AbsentIsBlank, VerdictIsFinal, QuietRowIsFinal
<1>4. EntryNamesJob /\ DrainedMeansExited
  BY DEF SchedInit, Init, EntryNamesJob, DrainedMeansExited
<1> QED
  BY <1>1, <1>2, <1>3, <1>4 DEF SchedIInv

\* The inductive invariant holds in every reachable state of the scheduler.
LEMMA SchedInductive == SchedSpec => []SchedIInv
<1>1. SchedIInv /\ [SchedNext]_allVars => SchedIInv'
  BY SchedTable, SchedTypedStep, RowsStep, EntryStep, DrainedStep DEF SchedIInv
<1> QED
  BY <1>1, SchedInitIInv, PTL DEF SchedSpec

\* A row claims that something is queued or running only while a job of the row
\* is in the wait group: late marks of old jobs, skips, failed resolutions and
\* edits of the row never leave such a claim behind.
THEOREM RowsCorrect == SchedSpec => []QuietRowIsFinal
<1>1. SchedIInv => QuietRowIsFinal
  BY DEF SchedIInv, Rows
<1> QED
  BY <1>1, SchedInductive, PTL

\* Of a row that clients do not start by hand at most one job is unfinished,
\* whatever they start for other rows.
OneJobPerRowLeftAlone ==
  \A i, j \in JobId :
    /\ Live(i) /\ Live(j) /\ Scheduled(i) /\ opts[i].schedule = opts[j].schedule
    /\ LeftAlone(opts[i].schedule)
    => i = j

\* A row that clients leave alone has one unfinished job at most.
THEOREM RowsLeftAloneCorrect == SchedSpec => []OneJobPerRowLeftAlone
<1>1. SchedIInv => OneJobPerRowLeftAlone
  <2> SUFFICES ASSUME SchedIInv, NEW i \in JobId, NEW j \in JobId, i \in jobs, j \in jobs,
                      opts[i].schedule # NoSchedule, opts[i].schedule = opts[j].schedule,
                      LeftAlone(opts[i].schedule)
               PROVE  i = j
    BY DEF OneJobPerRowLeftAlone, Live, Scheduled
  <2>1. pc[i] # "new"
    BY DEF SchedIInv, IInv, TableMatchesPc
  <2>2. opts[i].schedule \in Schedule
    BY <2>1 DEF SchedIInv, IInv, FreshIsClean, JobOptions
  <2> QED
    BY <2>2 DEF SchedIInv, EntryNamesJob
<1> QED
  BY <1>1, SchedInductive, PTL

\* Where clients start no row by hand, the reconciler has at most one unfinished
\* job for each: 'run now' is the one thing that makes two.
THEOREM OneJobCorrect ==
  ASSUME RunNow = {}
  PROVE  SchedSpec => []OneJobPerSchedule
<1>1. OneJobPerRowLeftAlone => OneJobPerSchedule
  BY DEF OneJobPerRowLeftAlone, OneJobPerSchedule, LeftAlone
<1> QED
  BY <1>1, RowsLeftAloneCorrect, PTL

\* Preemption, edits of rows and the reconciler's marks leave the job table as
\* it promises by itself: locks and entries match the jobs, two executors never
\* run against one target.
THEOREM TableCorrect == SchedSpec => [](LocksMatchJobs /\ ScheduleEntryIsLive /\ TargetExclusive)
<1>1. SchedIInv => LocksMatchJobs /\ ScheduleEntryIsLive
  BY DEF SchedIInv, IInv
<1>2. SchedIInv => TargetExclusive
  BY TableExcludes DEF SchedIInv
<1> QED
  BY <1>1, <1>2, SchedInductive, PTL

\* When Shutdown has drained the wait group, the reconciler is gone too.
THEOREM DrainedCorrect == SchedSpec => []DrainedMeansExited
<1>1. SchedIInv => DrainedMeansExited
  BY DEF SchedIInv
<1> QED
  BY <1>1, SchedInductive, PTL
=============================================================================
