-------------------------- MODULE JobManagerProofs --------------------------
(* Theorems about JobManager and their proofs. *)
EXTENDS JobManager, TLAPS

(***************************************************************************)
(* The inductive invariant.  LocksMatchJobs is not inductive by itself: it *)
(* needs to know at which places of its goroutine a job is in the table    *)
(* (TableMatchesPc), and that a job that has not been started carries      *)
(* nothing over into its start (FreshIsClean).                             *)
(***************************************************************************)
TableMatchesPc ==
  \A j \in JobId : j \in jobs <=> pc[j] \notin {"new", "saving", "ending", "done"}

FreshIsClean ==
  \A j \in JobId :
    IF pc[j] = "new"
    THEN opts[j] = ZeroOptions /\ ~cancelled[j] /\ failures[j] = 0
    ELSE opts[j] \in JobOptions

\* Only a stop or a launch failure ends a continuous keepalive.
VerdictOfKeepalive ==
  \A j \in JobId :
    pc[j] = "finishing" /\ opts[j].mode = "keepalive" /\ ~opts[j].runOnce
      => verdict[j] \in {"stopped", "failed"}

IInv ==
  /\ TypeOK
  /\ TableMatchesPc
  /\ FreshIsClean
  /\ LocksMatchJobs
  /\ ScheduleEntryIsLive

-----------------------------------------------------------------------------
(***************************************************************************)
(* The lists of finished jobs: what Prepend and Trim put where.            *)
(***************************************************************************)

\* A trimmed list is a list again, never longer than the limit, and full
\* once it was full: finish() never makes m.history shrink.
LEMMA TrimPrepend ==
  ASSUME NEW S, NEW j \in S, NEW s \in Seq(S), Len(s) <= HistoryLimit
  PROVE  /\ Trim(Prepend(j, s)) \in Seq(S)
         /\ Len(Trim(Prepend(j, s))) <= HistoryLimit
         /\ Len(s) = HistoryLimit => Len(Trim(Prepend(j, s))) = HistoryLimit
         /\ Len(s) < HistoryLimit => Trim(Prepend(j, s)) = Prepend(j, s)
         /\ Trim(Prepend(j, s))[1] = j
         /\ \A i \in 2 .. Len(Trim(Prepend(j, s))) :
              Trim(Prepend(j, s))[i] = s[i - 1]
<1> DEFINE p == Prepend(j, s)
<1>0. HistoryLimit \in Nat /\ HistoryLimit >= 1  BY JobManagerAssumption
<1>1. p \in Seq(S) /\ Len(p) = Len(s) + 1 /\ p[1] = j
  BY DEF Prepend
<1>2. \A i \in 2 .. Len(p) : p[i] = s[i - 1]
  BY DEF Prepend
<1>3. CASE Len(p) > HistoryLimit
  <2>1. Trim(p) = SubSeq(p, 1, HistoryLimit)  BY <1>3 DEF Trim
  <2> QED  BY <1>0, <1>1, <1>2, <1>3, <2>1
<1>4. CASE ~(Len(p) > HistoryLimit)
  <2>1. Trim(p) = p  BY <1>4 DEF Trim
  <2> QED  BY <1>0, <1>1, <1>2, <1>4, <2>1
<1> QED  BY <1>3, <1>4

-----------------------------------------------------------------------------
(***************************************************************************)
(* Type correctness.  HistoryBounded is needed with it: what Trim returns  *)
(* is known only for lists that were within the limit.                     *)
(***************************************************************************)
HistoryBounded ==
  Len(history) <= HistoryLimit /\ Len(summaries) <= HistoryLimit

Typed == TypeOK /\ HistoryBounded

\* Writing the marks of a row keeps their type.
LEMMA MarkTyped ==
  ASSUME marks \in [Schedule -> Mark], NEW s, NEW occurrence \in Occurrence,
         NEW mark \in MarkStatus, NEW j \in JobId,
         MarkScheduleRun(s, occurrence, mark, j)
  PROVE  marks' \in [Schedule -> Mark]
BY DEF MarkScheduleRun, Mark

\* The initial state is typed and within the history limit.
LEMMA InitTyped == Init => Typed
<1> SUFFICES ASSUME Init PROVE Typed  OBVIOUS
<1>1. history \in Seq(JobId) /\ Len(history) = 0 /\ summaries \in Seq(JobId) /\ Len(summaries) = 0
  <2>1. <<>> \in Seq(JobId) /\ Len(<<>>) = 0  OBVIOUS
  <2> QED  BY <2>1 DEF Init
<1>2. marks \in [Schedule -> Mark]
  BY DEF Init, Mark, Occurrence, NoOccurrence, MarkStatus
<1>3. locks \in [Target -> JobId \cup {NoJob}] /\ scheduleJobs \in [Schedule -> JobId \cup {NoJob}]
  BY DEF Init
<1>4. /\ opts \in [JobId -> JobOptions \cup {ZeroOptions}]
      /\ pc \in [JobId -> PC]
      /\ cancelled \in [JobId -> BOOLEAN]
  BY DEF Init, PC
<1>5. /\ status \in [JobId -> JobStatus]
      /\ verdict \in [JobId -> JobStatus]
      /\ latest \in [JobId -> Attempt]
      /\ phase \in [JobId -> {"probe", "keepalive", "recovery_probe"}]
  BY DEF Init, JobStatus, Attempt
<1>6. /\ failures \in [JobId -> Nat]
      /\ attempts \in [JobId -> Nat]
      /\ responses \in [JobId -> Nat]
  BY DEF Init
<1>7. jobs \subseteq JobId /\ shutdown \in {"up", "closing", "cancelled", "drained"}
  BY DEF Init
<1>8. HistoryBounded
  BY <1>1, JobManagerAssumption DEF HistoryBounded
<1> QED  BY <1>1, <1>2, <1>3, <1>4, <1>5, <1>6, <1>7, <1>8 DEF Typed, TypeOK

\* The steps of start() keep the types.
LEMMA RegisterTyped ==
  ASSUME Typed, NEW j \in JobId, NEW o \in Options, NEW s \in Schedule \cup {NoSchedule},
         NEW occurrence \in Occurrence, Register(j, o, s, occurrence)
  PROVE  Typed'
<1>1. o \in [mode : Mode, runOnce : BOOLEAN, target : Target]
  BY JobManagerAssumption
<1>2. opts' \in [JobId -> JobOptions \cup {ZeroOptions}]
  BY <1>1 DEF Typed, TypeOK, Register, JobOptions
<1>3. phase' \in [JobId -> {"probe", "keepalive", "recovery_probe"}]
  BY <1>1 DEF Typed, TypeOK, Register, Mode
<1>4. locks' \in [Target -> JobId \cup {NoJob}] /\ scheduleJobs' \in [Schedule -> JobId \cup {NoJob}]
  BY DEF Typed, TypeOK, Register
<1>5. pc' \in [JobId -> PC] /\ jobs' \subseteq JobId
  BY DEF Typed, TypeOK, Register, PC
<1> QED  BY <1>2, <1>3, <1>4, <1>5 DEF Typed, TypeOK, HistoryBounded, Register

\* What start() stores for a job is a record of job options.
LEMMA OptionsTyped ==
  ASSUME TypeOK, NEW j \in JobId
  PROVE  opts[j].occurrence \in Occurrence
BY DEF TypeOK, JobOptions, ZeroOptions, Occurrence, NoOccurrence

\* The steps of the goroutine of a job keep the types.
LEMMA JobStepTyped ==
  ASSUME Typed, NEW j \in JobId, JobStep(j)
  PROVE  Typed'
<1> USE DEF Typed
<1>0. opts[j].occurrence \in Occurrence
  BY OptionsTyped
<1>1. CASE MarkQueued(j)
  <2>1. marks' \in [Schedule -> Mark]
    BY <1>0, <1>1, MarkTyped DEF MarkQueued, TypeOK, MarkStatus, JobStatus
  <2> QED  BY <1>1, <2>1 DEF MarkQueued, TypeOK, HistoryBounded, PC, tables, runVars
<1>2. CASE SetRunning(j)
  BY <1>2 DEF SetRunning, TypeOK, HistoryBounded, PC, JobStatus, tables, runVars, store
<1>3. CASE MarkRunning(j)
  <2>1. marks' \in [Schedule -> Mark]
    BY <1>0, <1>3, MarkTyped DEF MarkRunning, TypeOK, MarkStatus, JobStatus
  <2> QED  BY <1>3, <2>1 DEF MarkRunning, TypeOK, HistoryBounded, PC, tables, runVars
<1>4. CASE SeeCancelled(j)
  BY <1>4 DEF SeeCancelled, FinishWith, TypeOK, HistoryBounded, PC, JobStatus, tables, runVars, store
<1>5. CASE BeginAttempt(j)
  BY <1>5 DEF BeginAttempt, TypeOK, HistoryBounded, PC, tables, store
<1>6. CASE LaunchFails(j)
  BY <1>6 DEF LaunchFails, FinishWith, TypeOK, HistoryBounded, PC, JobStatus, tables, store
<1>7. CASE \E a \in Attempt : EndAttempt(j, a)
  BY <1>7 DEF EndAttempt, TypeOK, HistoryBounded, PC, tables, store
<1>8. CASE Conclude(j)
  <2>1. PICK v \in JobStatus : FinishWith(j, v)
    BY <1>8 DEF Conclude, oneShotResult, TypeOK, JobStatus, Attempt
  <2> QED  BY <1>8, <2>1 DEF Conclude, FinishWith, TypeOK, HistoryBounded, PC, tables, runVars, store
<1>9. CASE RetryProbe(j)
  BY <1>9 DEF RetryProbe, TypeOK, HistoryBounded, PC, tables, runVars, store
<1>10. CASE ContinueKeepalive(j)
  <2>1. failures' \in [JobId -> Nat]
    <3>1. failures \in [JobId -> Nat]  BY DEF TypeOK
    <3>2. PICK n \in Nat : failures' = [failures EXCEPT ![j] = n]
      BY <1>10, <3>1 DEF ContinueKeepalive
    <3> QED  BY <3>1, <3>2
  <2>2. phase' \in [JobId -> {"probe", "keepalive", "recovery_probe"}]
    BY <1>10 DEF ContinueKeepalive, TypeOK
  <2> QED  BY <1>10, <2>1, <2>2 DEF ContinueKeepalive, TypeOK, HistoryBounded, PC, tables, store
<1>11. CASE WaitOver(j)
  BY <1>11 DEF WaitOver, FinishWith, TypeOK, HistoryBounded, PC, JobStatus, tables, runVars, store
<1>12. CASE Finish(j)
  <2>1. history' \in Seq(JobId) /\ Len(history') <= HistoryLimit
    BY <1>12, TrimPrepend DEF Finish, TypeOK, HistoryBounded
  <2>2. locks' \in [Target -> JobId \cup {NoJob}] /\ scheduleJobs' \in [Schedule -> JobId \cup {NoJob}]
    BY <1>12 DEF Finish, TypeOK
  <2> QED  BY <1>12, <2>1, <2>2 DEF Finish, TypeOK, HistoryBounded, PC, runVars, store
<1>13. CASE SaveSummary(j)
  <2>1. summaries' \in Seq(JobId) /\ Len(summaries') <= HistoryLimit
    BY <1>13, TrimPrepend DEF SaveSummary, TypeOK, HistoryBounded
  <2> QED  BY <1>13, <2>1 DEF SaveSummary, TypeOK, HistoryBounded, PC, tables, runVars
<1>14. CASE MarkTerminal(j)
  <2>1. marks' \in [Schedule -> Mark]
    BY <1>0, <1>14, MarkTyped DEF MarkTerminal, TypeOK, MarkStatus
  <2> QED  BY <1>14, <2>1 DEF MarkTerminal, TypeOK, HistoryBounded, PC, tables, runVars
<1> QED  BY <1>1, <1>2, <1>3, <1>4, <1>5, <1>6, <1>7, <1>8, <1>9, <1>10, <1>11,
            <1>12, <1>13, <1>14 DEF JobStep

\* What a job was asked for names a schedule or none, and an occurrence.
LEMMA StartRegisters ==
  ASSUME NEW j \in JobId, NEW o \in Options,
         Start(j, o) \/ \E s \in Schedule : StartForSchedule(j, o, s)
  PROVE  /\ CanStart(o)
         /\ \E s \in Schedule \cup {NoSchedule}, occurrence \in Occurrence :
              Register(j, o, s, occurrence)
<1>1. NoOccurrence \in Occurrence /\ ManualOccurrence \in Occurrence
  BY DEF NoOccurrence, ManualOccurrence, Occurrence
<1> QED  BY <1>1 DEF Start, StartForSchedule, StartJob

\* Every step keeps the types and the history limit.
LEMMA NextTyped == Typed /\ [Next]_vars => Typed'
<1> SUFFICES ASSUME Typed, [Next]_vars PROVE Typed'
  OBVIOUS
<1>1. CASE UNCHANGED vars
  BY <1>1 DEF vars, Typed, TypeOK, HistoryBounded
<1>2. CASE \E j \in JobId, o \in Options :
             Start(j, o) \/ \E s \in Schedule : StartForSchedule(j, o, s)
  BY <1>2, StartRegisters, RegisterTyped
<1>3. CASE \E j \in JobId : JobStep(j)
  BY <1>3, JobStepTyped
<1>4. CASE \E j \in JobId : Cancel(j)
  BY <1>4 DEF Cancel, Typed, TypeOK, HistoryBounded, tables, runVars, store
<1>5. CASE Shutdown
  <2>1. cancelled' \in [JobId -> BOOLEAN]
    BY <1>5 DEF Shutdown, ShutdownBegin, ShutdownCancel, ShutdownDrained, Live, Typed, TypeOK
  <2> QED
    BY <1>5, <2>1 DEF Shutdown, ShutdownBegin, ShutdownCancel, ShutdownDrained,
                      Typed, TypeOK, HistoryBounded, tables, runVars, store
<1> QED  BY <1>1, <1>2, <1>3, <1>4, <1>5 DEF Next

\* Every variable keeps its type, and the two lists of finished jobs never
\* outgrow the history limit.
THEOREM TypeCorrect == Spec => [](TypeOK /\ HistoryBounded)
<1>1. Spec => []Typed
  BY InitTyped, NextTyped, PTL DEF Spec
<1> QED  BY <1>1 DEF Typed

-----------------------------------------------------------------------------
(***************************************************************************)
(* The tables.                                                             *)
(***************************************************************************)
LEMMA InitIInv == Init => IInv
<1> SUFFICES ASSUME Init PROVE IInv  OBVIOUS
<1>1. TypeOK  BY InitTyped DEF Typed
<1>2. TableMatchesPc /\ FreshIsClean
  BY DEF Init, TableMatchesPc, FreshIsClean
<1>3. LocksMatchJobs /\ ScheduleEntryIsLive
  BY JobManagerAssumption DEF Init, LocksMatchJobs, ScheduleEntryIsLive, Live
<1> QED  BY <1>1, <1>2, <1>3 DEF IInv

\* start() takes a free lock for a fresh id.
LEMMA RegisterIInv ==
  ASSUME IInv, TypeOK', NEW j \in JobId, NEW o \in Options, NEW s \in Schedule \cup {NoSchedule},
         NEW occurrence \in Occurrence, CanStart(o), Register(j, o, s, occurrence)
  PROVE  IInv'
<1> DEFINE started == [mode |-> o.mode, runOnce |-> o.runOnce, target |-> o.target,
                       schedule |-> s, occurrence |-> occurrence]
<1>0. /\ TypeOK /\ TableMatchesPc /\ FreshIsClean /\ LocksMatchJobs /\ ScheduleEntryIsLive
      /\ NoJob \notin JobId /\ NoSchedule \notin Schedule
      /\ o \in [mode : Mode, runOnce : BOOLEAN, target : Target]
  BY JobManagerAssumption DEF IInv
<1>1. /\ pc[j] = "new" /\ j \notin jobs /\ jobs' = jobs \cup {j}
      /\ pc' = [pc EXCEPT ![j] = IF s = NoSchedule THEN "spawned" ELSE "marking"]
      /\ opts' = [opts EXCEPT ![j] = started]
      /\ cancelled' = cancelled /\ failures' = failures
      /\ locks[o.target] = NoJob /\ locks' = [locks EXCEPT ![o.target] = j]
      /\ scheduleJobs' = IF s = NoSchedule THEN scheduleJobs
                         ELSE [scheduleJobs EXCEPT ![s] = j]
  BY <1>0 DEF Register, CanStart, TableMatchesPc
<1>2. started \in JobOptions /\ started.target = o.target /\ o.target \in Target
      /\ started.schedule = s
  BY <1>0 DEF JobOptions
<1>3. TableMatchesPc'
  BY <1>0, <1>1 DEF TableMatchesPc, TypeOK
<1>4. FreshIsClean'
  BY <1>0, <1>1, <1>2 DEF FreshIsClean, TypeOK
<1>5. LocksMatchJobs'
  <2> SUFFICES ASSUME NEW t \in Target, NEW i \in JobId
               PROVE  locks'[t] = i <=> (i \in jobs' /\ opts'[i].target = t)
    BY DEF LocksMatchJobs, Live
  <2>1. locks[t] = i <=> (i \in jobs /\ opts[i].target = t)
    BY <1>0 DEF LocksMatchJobs, Live
  <2>2. CASE i = j
    BY <1>0, <1>1, <1>2, <2>1, <2>2 DEF TypeOK
  <2>3. CASE i # j
    BY <1>0, <1>1, <1>2, <2>1, <2>3 DEF TypeOK
  <2> QED  BY <2>2, <2>3
<1>6. ScheduleEntryIsLive'
  <2> SUFFICES ASSUME NEW r \in Schedule, scheduleJobs'[r] # NoJob
               PROVE  scheduleJobs'[r] \in jobs' /\ opts'[scheduleJobs'[r]].schedule = r
    BY DEF ScheduleEntryIsLive, Live
  <2>1. CASE scheduleJobs'[r] = scheduleJobs[r] /\ scheduleJobs[r] # NoJob
    BY <1>0, <1>1, <2>1 DEF ScheduleEntryIsLive, Live, TypeOK
  <2>2. CASE s = r /\ scheduleJobs'[r] = j
    BY <1>0, <1>1, <1>2, <2>2 DEF TypeOK
  <2> QED  BY <1>0, <1>1, <2>1, <2>2 DEF TypeOK
<1> QED  BY <1>3, <1>4, <1>5, <1>6 DEF IInv

InTable == PC \ {"new", "saving", "ending", "done"}

\* A step that only moves a started job along, on the same side of finish().
LEMMA QuietIInv ==
  ASSUME IInv, TypeOK', NEW j \in JobId, NEW c \in PC \ {"new"},
         pc[j] # "new", pc[j] \in InTable <=> c \in InTable,
         pc' = [pc EXCEPT ![j] = c],
         UNCHANGED <<jobs, locks, scheduleJobs, opts, cancelled>>,
         \A i \in JobId \ {j} : failures'[i] = failures[i]
  PROVE  IInv'
<1>0. TypeOK /\ TableMatchesPc /\ FreshIsClean /\ LocksMatchJobs /\ ScheduleEntryIsLive
  BY DEF IInv
<1>1. TableMatchesPc'
  BY <1>0 DEF TableMatchesPc, InTable, TypeOK
<1>2. FreshIsClean'
  BY <1>0 DEF FreshIsClean, TypeOK
<1>3. LocksMatchJobs' /\ ScheduleEntryIsLive'
  BY <1>0 DEF LocksMatchJobs, ScheduleEntryIsLive, Live
<1> QED  BY <1>1, <1>2, <1>3 DEF IInv

\* finish() gives back the lock of the job and nobody else's.
LEMMA FinishIInv ==
  ASSUME IInv, TypeOK', NEW j \in JobId, Finish(j)
  PROVE  IInv'
<1>0. /\ TypeOK /\ TableMatchesPc /\ FreshIsClean /\ LocksMatchJobs /\ ScheduleEntryIsLive
      /\ NoJob \notin JobId
  BY JobManagerAssumption DEF IInv
<1>1. /\ pc[j] = "finishing" /\ jobs' = jobs \ {j}
      /\ pc' = [pc EXCEPT ![j] = "saving"]
      /\ locks' = [locks EXCEPT ![opts[j].target] = NoJob]
      /\ scheduleJobs' = [s \in Schedule |->
           IF s = opts[j].schedule /\ scheduleJobs[s] = j THEN NoJob ELSE scheduleJobs[s]]
      /\ cancelled' = [cancelled EXCEPT ![j] = TRUE]
      /\ opts' = opts /\ failures' = failures
  BY DEF Finish, runVars
<1>2. j \in jobs /\ opts[j] \in JobOptions /\ opts[j].target \in Target
      /\ locks[opts[j].target] = j
  BY <1>0, <1>1 DEF TableMatchesPc, FreshIsClean, JobOptions, LocksMatchJobs, Live
<1>3. TableMatchesPc'
  BY <1>0, <1>1 DEF TableMatchesPc, TypeOK
<1>4. FreshIsClean'
  BY <1>0, <1>1, <1>2 DEF FreshIsClean, TypeOK
<1>5. LocksMatchJobs'
  <2> SUFFICES ASSUME NEW t \in Target, NEW i \in JobId
               PROVE  locks'[t] = i <=> (i \in jobs' /\ opts'[i].target = t)
    BY DEF LocksMatchJobs, Live
  <2>1. locks[t] = i <=> (i \in jobs /\ opts[i].target = t)
    BY <1>0 DEF LocksMatchJobs, Live
  <2>2. locks'[t] = IF t = opts[j].target THEN NoJob ELSE locks[t]
    BY <1>0, <1>1, <1>2 DEF TypeOK
  <2> QED  BY <1>0, <1>1, <1>2, <2>1, <2>2
<1>6. ScheduleEntryIsLive'
  <2> SUFFICES ASSUME NEW r \in Schedule, scheduleJobs'[r] # NoJob
               PROVE  scheduleJobs'[r] \in jobs' /\ opts'[scheduleJobs'[r]].schedule = r
    BY DEF ScheduleEntryIsLive, Live
  <2>1. scheduleJobs[r] # NoJob /\ scheduleJobs'[r] = scheduleJobs[r]
        /\ ~(r = opts[j].schedule /\ scheduleJobs[r] = j)
    BY <1>1
  <2>2. scheduleJobs[r] \in jobs /\ opts[scheduleJobs[r]].schedule = r
    BY <1>0, <2>1 DEF ScheduleEntryIsLive, Live
  <2> QED  BY <1>1, <2>1, <2>2
<1> QED  BY <1>3, <1>4, <1>5, <1>6 DEF IInv

\* The steps of a job keep the invariant; only finish() touches the tables.
LEMMA JobStepIInv ==
  ASSUME IInv, TypeOK', NEW j \in JobId, JobStep(j)
  PROVE  IInv'
<1>1. CASE Finish(j)
  BY <1>1, FinishIInv
<1>2. CASE ContinueKeepalive(j)
  <2>1. \A i \in JobId \ {j} : failures'[i] = failures[i]
    BY <1>2 DEF ContinueKeepalive, IInv, TypeOK
  <2> QED  BY <1>2, <2>1, QuietIInv DEF ContinueKeepalive, PC, InTable, tables
<1>3. CASE MarkQueued(j) \/ SetRunning(j) \/ MarkRunning(j)
  <2>1. PICK c \in {"spawned", "started", "loop"} : pc' = [pc EXCEPT ![j] = c]
    BY <1>3 DEF MarkQueued, SetRunning, MarkRunning
  <2> QED  BY <1>3, <2>1, QuietIInv
           DEF MarkQueued, SetRunning, MarkRunning, PC, InTable, tables, runVars
<1>4. CASE SeeCancelled(j) \/ LaunchFails(j) \/ Conclude(j)
  BY <1>4, QuietIInv DEF SeeCancelled, LaunchFails, Conclude, FinishWith, PC, InTable, tables, runVars
<1>5. CASE BeginAttempt(j) \/ (\E a \in Attempt : EndAttempt(j, a)) \/ RetryProbe(j)
  BY <1>5, QuietIInv DEF BeginAttempt, EndAttempt, RetryProbe, PC, InTable, tables, runVars
<1>6. CASE WaitOver(j)
  BY <1>6, QuietIInv DEF WaitOver, FinishWith, PC, InTable, tables, runVars
<1>7. CASE SaveSummary(j) \/ MarkTerminal(j)
  <2>1. PICK c \in {"ending", "done"} : pc' = [pc EXCEPT ![j] = c]
    BY <1>7 DEF SaveSummary, MarkTerminal
  <2> QED  BY <1>7, <2>1, QuietIInv DEF SaveSummary, MarkTerminal, PC, InTable, tables, runVars
<1> QED  BY <1>1, <1>2, <1>3, <1>4, <1>5, <1>6, <1>7 DEF JobStep

\* Every step keeps the invariant.
LEMMA NextIInv == IInv /\ Typed' /\ [Next]_vars => IInv'
<1> SUFFICES ASSUME IInv, TypeOK', [Next]_vars PROVE IInv'
  BY DEF Typed
<1> USE DEF IInv
<1>1. CASE UNCHANGED vars
  BY <1>1 DEF vars, TableMatchesPc, FreshIsClean, LocksMatchJobs, ScheduleEntryIsLive, Live
<1>2. CASE \E j \in JobId, o \in Options :
             Start(j, o) \/ \E s \in Schedule : StartForSchedule(j, o, s)
  <2>1. PICK j \in JobId, o \in Options :
             Start(j, o) \/ \E s \in Schedule : StartForSchedule(j, o, s)
    BY <1>2
  <2>2. PICK s \in Schedule \cup {NoSchedule}, occurrence \in Occurrence :
             CanStart(o) /\ Register(j, o, s, occurrence)
    BY <2>1, StartRegisters
  <2> QED  BY <2>2, RegisterIInv
<1>3. CASE \E j \in JobId : JobStep(j)
  BY <1>3, JobStepIInv
<1>4. CASE (\E j \in JobId : Cancel(j)) \/ Shutdown
  <2>1. \A i \in JobId : pc[i] = "new" => cancelled'[i] = cancelled[i]
    <3>1. CASE \E j \in jobs : cancelled' = [cancelled EXCEPT ![j] = TRUE]
      BY <3>1 DEF TableMatchesPc, TypeOK
    <3>2. CASE cancelled' = [j \in JobId |-> cancelled[j] \/ j \in jobs]
      BY <3>2 DEF TableMatchesPc, TypeOK
    <3>3. CASE cancelled' = cancelled
      BY <3>3
    <3> QED  BY <1>4, <3>1, <3>2, <3>3
             DEF Cancel, Shutdown, ShutdownBegin, ShutdownCancel, ShutdownDrained, Live
  <2>2. UNCHANGED <<jobs, locks, scheduleJobs, pc, opts, failures>>
    BY <1>4 DEF Cancel, Shutdown, ShutdownBegin, ShutdownCancel, ShutdownDrained, tables, runVars
  <2>3. FreshIsClean'
    BY <2>1, <2>2 DEF FreshIsClean
  <2> QED  BY <2>2, <2>3 DEF TableMatchesPc, LocksMatchJobs, ScheduleEntryIsLive, Live
<1> QED  BY <1>1, <1>2, <1>3, <1>4 DEF Next

\* The inductive invariant holds in every reachable state.
LEMMA Inductive == Spec => [](Typed /\ IInv)
<1>1. Init => Typed /\ IInv
  BY InitTyped, InitIInv
<1>2. Typed /\ IInv /\ [Next]_vars => (Typed /\ IInv)'
  BY NextTyped, NextIInv
<1> QED  BY <1>1, <1>2, PTL DEF Spec

\* The lock table and the job table agree in every reachable state.
THEOREM LocksCorrect == Spec => []LocksMatchJobs
<1>1. IInv => LocksMatchJobs
  BY DEF IInv
<1> QED  BY <1>1, Inductive, PTL

\* A schedule entry never outlives its job.
THEOREM EntriesCorrect == Spec => []ScheduleEntryIsLive
<1>1. IInv => ScheduleEntryIsLive
  BY DEF IInv
<1> QED  BY <1>1, Inductive, PTL

\* Two executors against one target would both own its lock.
LEMMA TableExcludes == IInv => TargetExclusive
<1> SUFFICES ASSUME IInv, NEW i \in JobId, NEW j \in JobId,
                    pc[i] = "attempt", pc[j] = "attempt", opts[i].target = opts[j].target
             PROVE  i = j
  BY DEF TargetExclusive
<1>1. i \in jobs /\ j \in jobs
  BY DEF IInv, TableMatchesPc
<1>2. opts[i].target \in Target
  BY DEF IInv, FreshIsClean, JobOptions
<1>3. locks[opts[i].target] = i /\ locks[opts[i].target] = j
  BY <1>1, <1>2 DEF IInv, LocksMatchJobs, Live
<1> QED  BY <1>3

\* Two executors never run against one target.
THEOREM ExclusionCorrect == Spec => []TargetExclusive
  BY TableExcludes, Inductive, PTL

-----------------------------------------------------------------------------
(***************************************************************************)
(* Requests, recovery and shutdown.                                        *)
(***************************************************************************)

\* The numbers of requests and responses of a job differ by the attempt that
\* is running.
THEOREM RequestsCorrect == Spec => []RequestsArePaired
<1>1. Init => RequestsArePaired
  <2> SUFFICES ASSUME Init, NEW j \in JobId
               PROVE  attempts[j] = responses[j] + (IF pc[j] = "attempt" THEN 1 ELSE 0)
    BY DEF RequestsArePaired
  <2>1. attempts[j] = 0 /\ responses[j] = 0 /\ pc[j] = "new"
    BY DEF Init
  <2> QED  BY <2>1
<1>2. Typed /\ IInv /\ RequestsArePaired /\ [Next]_vars => RequestsArePaired'
  <2> SUFFICES ASSUME TypeOK, IInv, RequestsArePaired, [Next]_vars, NEW i \in JobId
               PROVE  attempts'[i] = responses'[i] + (IF pc'[i] = "attempt" THEN 1 ELSE 0)
    BY DEF RequestsArePaired, Typed
  <2>0. /\ attempts[i] = responses[i] + (IF pc[i] = "attempt" THEN 1 ELSE 0)
        /\ attempts[i] \in Nat /\ responses[i] \in Nat
        /\ pc \in [JobId -> PC] /\ attempts \in [JobId -> Nat] /\ responses \in [JobId -> Nat]
    BY DEF RequestsArePaired, TypeOK
  <2>1. CASE \E j \in JobId : BeginAttempt(j)
    BY <2>0, <2>1 DEF BeginAttempt
  <2>2. CASE \E j \in JobId : LaunchFails(j) \/ \E a \in Attempt : EndAttempt(j, a)
    BY <2>0, <2>2 DEF LaunchFails, EndAttempt, FinishWith
  <2>3. CASE /\ UNCHANGED <<attempts, responses>>
             /\ \/ UNCHANGED pc
                \/ \E j \in JobId, c \in PC \ {"attempt"} :
                     pc[j] # "attempt" /\ pc' = [pc EXCEPT ![j] = c]
    BY <2>0, <2>3
  <2>4. CASE UNCHANGED vars \/ (\E j \in JobId : Cancel(j)) \/ Shutdown
    BY <2>3, <2>4 DEF vars, Cancel, Shutdown, ShutdownBegin, ShutdownCancel, ShutdownDrained, runVars
  <2>5. CASE \E j \in JobId, o \in Options :
               Start(j, o) \/ \E s \in Schedule : StartForSchedule(j, o, s)
    BY <2>3, <2>5, StartRegisters DEF Register, PC
  <2>6. CASE \E j \in JobId : MarkQueued(j) \/ SetRunning(j) \/ MarkRunning(j) \/ SeeCancelled(j)
    BY <2>3, <2>6 DEF MarkQueued, SetRunning, MarkRunning, SeeCancelled, FinishWith, PC, runVars
  <2>7. CASE \E j \in JobId : Conclude(j) \/ RetryProbe(j) \/ ContinueKeepalive(j) \/ WaitOver(j)
    BY <2>3, <2>7 DEF Conclude, RetryProbe, ContinueKeepalive, WaitOver, FinishWith, PC, runVars
  <2>8. CASE \E j \in JobId : Finish(j) \/ SaveSummary(j) \/ MarkTerminal(j)
    BY <2>3, <2>8 DEF Finish, SaveSummary, MarkTerminal, PC, runVars
  <2> QED  BY <2>1, <2>2, <2>4, <2>5, <2>6, <2>7, <2>8 DEF Next, JobStep
<1> QED  BY <1>1, <1>2, Inductive, PTL DEF Spec

\* A drained manager stays quiet: no start gets past the closing flag.
THEOREM ShutdownCorrect == Spec => []DrainedIsQuiet
<1>1. Init => DrainedIsQuiet
  BY DEF Init, DrainedIsQuiet
<1>2. Typed /\ IInv /\ DrainedIsQuiet /\ [Next]_vars => DrainedIsQuiet'
  <2> SUFFICES ASSUME TypeOK, TableMatchesPc, DrainedIsQuiet, [Next]_vars, shutdown' = "drained"
               PROVE  jobs' = {} /\ \A j \in JobId : pc'[j] \in {"new", "done"}
    BY DEF DrainedIsQuiet, Typed, IInv
  <2>1. CASE shutdown = "drained"
    <3>1. jobs = {} /\ \A j \in JobId : pc[j] \in {"new", "done"}
      BY <2>1 DEF DrainedIsQuiet
    <3>2. ~(\E j \in JobId : JobStep(j) \/ Cancel(j))
      BY <3>1 DEF JobStep, MarkQueued, SetRunning, MarkRunning, SeeCancelled, BeginAttempt,
                  LaunchFails, EndAttempt, Conclude, RetryProbe, ContinueKeepalive, WaitOver,
                  Finish, SaveSummary, MarkTerminal, Cancel, Live
    <3>3. ~(\E j \in JobId, o \in Options :
              Start(j, o) \/ \E s \in Schedule : StartForSchedule(j, o, s))
      BY <2>1 DEF Start, StartForSchedule, StartJob, CanStart, closing
    <3>4. UNCHANGED <<jobs, pc>>
      BY <2>1, <3>2, <3>3 DEF Next, vars, Shutdown, ShutdownBegin, ShutdownCancel, ShutdownDrained
    <3> QED  BY <3>1, <3>4
  <2>2. CASE shutdown # "drained"
    <3>1. ShutdownDrained
      BY <2>2 DEF Next, vars, Shutdown, ShutdownBegin, ShutdownCancel, Start, StartForSchedule,
                  StartJob, Register, JobStep, MarkQueued, SetRunning, MarkRunning, SeeCancelled,
                  BeginAttempt, LaunchFails, EndAttempt, Conclude, RetryProbe, ContinueKeepalive,
                  WaitOver, Finish, SaveSummary, MarkTerminal, Cancel
    <3> QED  BY <3>1 DEF ShutdownDrained, InWaitGroup, TableMatchesPc, TypeOK, tables
  <2> QED  BY <2>1, <2>2
<1> QED  BY <1>1, <1>2, Inductive, PTL DEF Spec

\* The recovery probe of a keepalive begins and ends with its failures.
THEOREM RecoveryCorrect == Spec => []RecoveryMatchesFailures
<1>0. FailureThreshold \in Nat /\ FailureThreshold >= 1
  BY JobManagerAssumption
<1>1. Init => RecoveryMatchesFailures
  <2> SUFFICES ASSUME Init, NEW j \in JobId PROVE opts[j].mode # "keepalive"
    BY DEF RecoveryMatchesFailures
  <2>1. opts[j] = ZeroOptions
    BY DEF Init
  <2> QED  BY <2>1 DEF ZeroOptions
<1>2. Typed /\ IInv /\ RecoveryMatchesFailures /\ [Next]_vars => RecoveryMatchesFailures'
  <2> SUFFICES ASSUME TypeOK, FreshIsClean, RecoveryMatchesFailures, [Next]_vars,
                      NEW i \in JobId, opts'[i].mode = "keepalive"
               PROVE  phase'[i] = "recovery_probe" <=> failures'[i] >= FailureThreshold
    BY DEF RecoveryMatchesFailures, Typed, IInv
  <2>0. /\ opts[i].mode = "keepalive" =>
             (phase[i] = "recovery_probe" <=> failures[i] >= FailureThreshold)
        /\ failures[i] \in Nat
        /\ failures \in [JobId -> Nat]
        /\ phase \in [JobId -> {"probe", "keepalive", "recovery_probe"}]
        /\ opts \in [JobId -> JobOptions \cup {ZeroOptions}]
    BY DEF RecoveryMatchesFailures, TypeOK
  <2>1. CASE \E j \in JobId, o \in Options :
               Start(j, o) \/ \E s \in Schedule : StartForSchedule(j, o, s)
    <3>1. PICK j \in JobId, o \in Options, s \in Schedule \cup {NoSchedule}, occurrence \in Occurrence :
             Register(j, o, s, occurrence)
      BY <2>1, StartRegisters
    <3>2. CASE i = j
      <4>1. failures'[i] = 0 /\ phase'[i] = opts'[i].mode
        BY <2>0, <3>1, <3>2 DEF Register, FreshIsClean
      <4> QED  BY <1>0, <4>1
    <3>3. CASE i # j
      BY <2>0, <3>1, <3>3 DEF Register
    <3> QED  BY <3>2, <3>3
  <2>2. CASE \E j \in JobId : ContinueKeepalive(j)
    <3>1. PICK j \in JobId : ContinueKeepalive(j)
      BY <2>2
    <3>2. CASE i = j /\ latest[j] = "success"
      <4>1. failures'[i] = 0 /\ phase'[i] = "keepalive"
        BY <2>0, <3>1, <3>2 DEF ContinueKeepalive
      <4> QED  BY <1>0, <4>1
    <3>3. CASE i = j /\ latest[j] # "success"
      <4>1. /\ failures'[i] = failures[i] + 1
            /\ phase'[i] = IF failures[i] + 1 >= FailureThreshold THEN "recovery_probe" ELSE phase[i]
            /\ opts'[i] = opts[i]
        BY <2>0, <3>1, <3>3 DEF ContinueKeepalive
      <4> QED  BY <1>0, <2>0, <4>1
    <3>4. CASE i # j
      BY <2>0, <3>1, <3>4 DEF ContinueKeepalive
    <3> QED  BY <3>2, <3>3, <3>4
  <2>3. CASE UNCHANGED <<opts, phase, failures>>
    BY <2>0, <2>3
  <2>4. CASE UNCHANGED vars \/ (\E j \in JobId : Cancel(j)) \/ Shutdown
    BY <2>3, <2>4 DEF vars, Cancel, Shutdown, ShutdownBegin, ShutdownCancel, ShutdownDrained, runVars
  <2>5. CASE \E j \in JobId : JobStep(j) /\ ~ContinueKeepalive(j)
    BY <2>3, <2>5 DEF JobStep, MarkQueued, SetRunning, MarkRunning, SeeCancelled, BeginAttempt,
                LaunchFails, EndAttempt, Conclude, RetryProbe, WaitOver, Finish, SaveSummary,
                MarkTerminal, runVars
  <2> QED  BY <2>1, <2>2, <2>4, <2>5 DEF Next, JobStep
<1> QED  BY <1>1, <1>2, Inductive, PTL DEF Spec

\* No answer of the provider ends a continuous keepalive.
THEOREM KeepaliveCorrect == Spec => KeepaliveOutlivesFailures
<1>1. Init => VerdictOfKeepalive
  BY DEF Init, VerdictOfKeepalive
<1>2. Typed /\ IInv /\ VerdictOfKeepalive /\ [Next]_vars => VerdictOfKeepalive'
  <2> SUFFICES ASSUME TypeOK, FreshIsClean, VerdictOfKeepalive, [Next]_vars, NEW i \in JobId,
                      pc'[i] = "finishing", opts'[i].mode = "keepalive", ~opts'[i].runOnce
               PROVE  verdict'[i] \in {"stopped", "failed"}
    BY DEF VerdictOfKeepalive, Typed, IInv
  <2>0. pc \in [JobId -> PC] /\ verdict \in [JobId -> JobStatus]
        /\ opts \in [JobId -> JobOptions \cup {ZeroOptions}]
    BY DEF TypeOK
  <2>1. CASE \E j \in JobId, o \in Options :
               Start(j, o) \/ \E s \in Schedule : StartForSchedule(j, o, s)
    <3>1. PICK j \in JobId, o \in Options, s \in Schedule \cup {NoSchedule}, occurrence \in Occurrence :
             Register(j, o, s, occurrence)
      BY <2>1, StartRegisters
    <3>2. i # j
      BY <2>0, <3>1 DEF Register
    <3> QED  BY <2>0, <3>1, <3>2 DEF Register, VerdictOfKeepalive
  <2>2. CASE \E j \in JobId : SeeCancelled(j) \/ LaunchFails(j) \/ WaitOver(j)
    BY <2>0, <2>2 DEF SeeCancelled, LaunchFails, WaitOver, FinishWith, VerdictOfKeepalive
  <2>3. CASE \E j \in JobId : Conclude(j)
    BY <2>0, <2>3 DEF Conclude, FinishWith, VerdictOfKeepalive
  <2>4. CASE UNCHANGED vars \/ (\E j \in JobId : Cancel(j)) \/ Shutdown
    BY <2>4 DEF vars, Cancel, Shutdown, ShutdownBegin, ShutdownCancel, ShutdownDrained,
                VerdictOfKeepalive
  <2>5. CASE \E j \in JobId : MarkQueued(j) \/ SetRunning(j) \/ MarkRunning(j) \/ BeginAttempt(j)
    BY <2>0, <2>5 DEF MarkQueued, SetRunning, MarkRunning, BeginAttempt, VerdictOfKeepalive
  <2>6. CASE \E j \in JobId : (\E a \in Attempt : EndAttempt(j, a)) \/ RetryProbe(j) \/ ContinueKeepalive(j)
    BY <2>0, <2>6 DEF EndAttempt, RetryProbe, ContinueKeepalive, VerdictOfKeepalive
  <2>7. CASE \E j \in JobId : Finish(j) \/ SaveSummary(j) \/ MarkTerminal(j)
    BY <2>0, <2>7 DEF Finish, SaveSummary, MarkTerminal, VerdictOfKeepalive
  <2> QED  BY <2>1, <2>2, <2>3, <2>4, <2>5, <2>6, <2>7 DEF Next, JobStep
<1>3. Typed /\ VerdictOfKeepalive /\ [Next]_vars =>
      [\A j \in JobId :
         opts[j].mode = "keepalive" /\ ~opts[j].runOnce /\ status'[j] # status[j]
           => status'[j] \in {"running", "stopped", "failed"}]_status
  <2> SUFFICES ASSUME TypeOK, VerdictOfKeepalive, [Next]_vars, NEW i \in JobId,
                      opts[i].mode = "keepalive", ~opts[i].runOnce, status'[i] # status[i]
               PROVE  status'[i] \in {"running", "stopped", "failed"}
    BY DEF Typed
  <2>0. status \in [JobId -> JobStatus]
    BY DEF TypeOK
  <2>1. \E j \in JobId : SetRunning(j) \/ Finish(j)
    BY StartRegisters
       DEF Next, vars, Cancel, Shutdown, ShutdownBegin, ShutdownCancel, ShutdownDrained, Register,
           JobStep, MarkQueued, MarkRunning, SeeCancelled, BeginAttempt, LaunchFails,
           EndAttempt, Conclude, RetryProbe, ContinueKeepalive, WaitOver, SaveSummary, MarkTerminal
  <2> QED  BY <2>0, <2>1 DEF SetRunning, Finish, VerdictOfKeepalive
<1>4. Spec => [](Typed /\ VerdictOfKeepalive)
  BY <1>1, <1>2, Inductive, PTL DEF Spec
<1> QED  BY <1>3, <1>4, PTL DEF Spec, KeepaliveOutlivesFailures

-----------------------------------------------------------------------------
(***************************************************************************)
(* Ids that were handed out.                                               *)
(***************************************************************************)
Listed(j) == \E i \in DOMAIN history : history[i] = j

\* Only finish() lists a job.
ListedHasFinished ==
  \A i \in DOMAIN history : pc[history[i]] \in {"saving", "ending", "done"}

HistoryComplete ==
  \A j \in JobId : pc[j] # "new" => Live(j) \/ Listed(j) \/ Len(history) = HistoryLimit

\* Until the history is full no id of a job is forgotten.
THEOREM HistoryCorrect == Spec => []JobResolvable
<1> DEFINE I == ListedHasFinished /\ HistoryComplete
<1>1. Init => I
  <2> SUFFICES ASSUME Init PROVE ListedHasFinished /\ HistoryComplete
    OBVIOUS
  <2>1. DOMAIN history = {}
    <3>1. DOMAIN <<>> = {}  OBVIOUS
    <3> QED  BY <3>1 DEF Init
  <2>2. \A j \in JobId : pc[j] = "new"
    BY DEF Init
  <2> QED  BY <2>1, <2>2 DEF ListedHasFinished, HistoryComplete
<1>2. Typed /\ IInv /\ I /\ [Next]_vars => I'
  <2> SUFFICES ASSUME TypeOK, HistoryBounded, TableMatchesPc, I, [Next]_vars
               PROVE  I'
    BY DEF Typed, IInv
  <2>0. /\ pc \in [JobId -> PC] /\ history \in Seq(JobId) /\ jobs \subseteq JobId
        /\ Len(history) <= HistoryLimit /\ HistoryLimit \in Nat /\ HistoryLimit >= 1
        /\ \A i \in DOMAIN history : history[i] \in JobId
    BY JobManagerAssumption DEF TypeOK, HistoryBounded
  <2>1. CASE \E j \in JobId : Finish(j)
    <3>1. PICK j \in JobId : Finish(j)
      BY <2>1
    <3>2. /\ pc[j] = "finishing" /\ jobs' = jobs \ {j} /\ pc' = [pc EXCEPT ![j] = "saving"]
          /\ history' = Trim(Prepend(j, history))
      BY <3>1 DEF Finish
    <3>3. /\ history' \in Seq(JobId) /\ Len(history') <= HistoryLimit
          /\ Len(history) = HistoryLimit => Len(history') = HistoryLimit
          /\ Len(history) < HistoryLimit => history' = Prepend(j, history)
          /\ history'[1] = j
          /\ \A i \in 2 .. Len(history') : history'[i] = history[i - 1]
      <4> DEFINE h == Trim(Prepend(j, history))
      <4>1. history \in Seq(JobId) /\ Len(history) <= HistoryLimit
        BY <2>0
      <4>2. /\ h \in Seq(JobId) /\ Len(h) <= HistoryLimit
            /\ Len(history) = HistoryLimit => Len(h) = HistoryLimit
            /\ Len(history) < HistoryLimit => h = Prepend(j, history)
            /\ h[1] = j
            /\ \A i \in 2 .. Len(h) : h[i] = history[i - 1]
        <5>1. h \in Seq(JobId) /\ Len(h) <= HistoryLimit
          BY <4>1, TrimPrepend
        <5>2. /\ Len(history) = HistoryLimit => Len(h) = HistoryLimit
              /\ Len(history) < HistoryLimit => h = Prepend(j, history)
          BY <4>1, TrimPrepend
        <5>3. h[1] = j
          BY <4>1, TrimPrepend
        <5>4. \A i \in 2 .. Len(h) : h[i] = history[i - 1]
          BY <4>1, TrimPrepend
        <5> QED  BY <5>1, <5>2, <5>3, <5>4
      <4>3. history' = h
        BY <3>2
      <4> HIDE DEF h
      <4> QED  BY <4>2, <4>3
    <3>4. Len(history') >= 1 /\ Len(history') <= Len(history) + 1
      <4>1. Len(Prepend(j, history)) = Len(history) + 1
        BY <2>0 DEF Prepend
      <4> QED  BY <2>0, <3>3, <4>1
    <3>5. ListedHasFinished'
      <4> SUFFICES ASSUME NEW i \in DOMAIN history'
                   PROVE  pc'[history'[i]] \in {"saving", "ending", "done"}
        BY DEF ListedHasFinished
      <4>1. CASE i = 1
        BY <2>0, <3>2, <3>3, <4>1
      <4>2. CASE i # 1
        <5>1. i \in 2 .. Len(history') /\ i - 1 \in DOMAIN history
          BY <2>0, <3>3, <3>4, <4>2
        <5>2. history'[i] = history[i - 1] /\ history[i - 1] \in JobId
          BY <2>0, <3>3, <5>1
        <5>3. pc[history[i - 1]] \in {"saving", "ending", "done"}
          BY <5>1 DEF ListedHasFinished
        <5> QED  BY <2>0, <3>2, <5>2, <5>3
      <4> QED  BY <4>1, <4>2
    <3>6. HistoryComplete'
      <4> SUFFICES ASSUME NEW k \in JobId, pc'[k] # "new", Len(history') # HistoryLimit,
                          k \notin jobs'
                   PROVE  \E i \in DOMAIN history' : history'[i] = k
        BY DEF HistoryComplete, Listed, Live
      <4>1. CASE k = j
        BY <3>3, <3>4, <4>1
      <4>2. CASE k # j
        <5>1. pc[k] # "new" /\ k \notin jobs
          BY <2>0, <3>2, <4>2
        <5>2. Len(history) # HistoryLimit /\ history' = <<j>> \o history
          BY <2>0, <3>3 DEF Prepend
        <5>3. PICK i \in DOMAIN history : history[i] = k
          BY <5>1, <5>2 DEF HistoryComplete, Listed, Live
        <5>4. i + 1 \in DOMAIN history' /\ history'[i + 1] = k
          BY <2>0, <5>2, <5>3
        <5> QED  BY <5>4
      <4> QED  BY <4>1, <4>2
    <3> QED  BY <3>5, <3>6
  <2>2. CASE /\ history' = history
             /\ \A k \in JobId : pc[k] \in {"saving", "ending", "done"}
                                   => pc'[k] \in {"saving", "ending", "done"}
             /\ \A k \in JobId : (pc'[k] # "new" => pc[k] # "new" \/ k \in jobs')
             /\ jobs \subseteq jobs'
    BY <2>0, <2>2 DEF ListedHasFinished, HistoryComplete, Listed, Live
  <2>3. CASE UNCHANGED vars \/ (\E j \in JobId : Cancel(j)) \/ Shutdown
    BY <2>2, <2>3 DEF vars, Cancel, Shutdown, ShutdownBegin, ShutdownCancel, ShutdownDrained, tables
  <2>4. CASE \E j \in JobId, o \in Options :
               Start(j, o) \/ \E s \in Schedule : StartForSchedule(j, o, s)
    BY <2>0, <2>2, <2>4, StartRegisters DEF Register
  <2>5. CASE \E j \in JobId : SaveSummary(j) \/ MarkTerminal(j)
    BY <2>0, <2>2, <2>5 DEF SaveSummary, MarkTerminal, tables
  <2>6. CASE \E j \in JobId : MarkQueued(j) \/ SetRunning(j) \/ MarkRunning(j) \/ SeeCancelled(j)
    BY <2>0, <2>2, <2>6 DEF MarkQueued, SetRunning, MarkRunning, SeeCancelled, FinishWith, tables
  <2>7. CASE \E j \in JobId : BeginAttempt(j) \/ LaunchFails(j) \/ \E a \in Attempt : EndAttempt(j, a)
    BY <2>0, <2>2, <2>7 DEF BeginAttempt, LaunchFails, EndAttempt, FinishWith, tables
  <2>8. CASE \E j \in JobId : Conclude(j) \/ RetryProbe(j) \/ ContinueKeepalive(j) \/ WaitOver(j)
    BY <2>0, <2>2, <2>8 DEF Conclude, RetryProbe, ContinueKeepalive, WaitOver, FinishWith, tables
  <2> QED  BY <2>1, <2>3, <2>4, <2>5, <2>6, <2>7, <2>8 DEF Next, JobStep
<1>3. Typed /\ IInv /\ I => JobResolvable
  BY DEF JobResolvable, Listed, ListedHasFinished, HistoryComplete, IInv, TableMatchesPc,
         TypeOK, Live
<1> QED  BY <1>1, <1>2, <1>3, Inductive, PTL DEF Spec

-----------------------------------------------------------------------------
(***************************************************************************)
(* The job table implements the leases of TargetLease.                     *)
(***************************************************************************)
\* Both modules count the same way.
LEMMA LeaseCardinality == ASSUME NEW S PROVE Lease!Cardinality(S) = Cardinality(S)
  BY DEF Lease!Cardinality, Cardinality

\* The holders of leases are the unfinished jobs.
LEMMA HoldersAreJobs == IInv => Lease!Holders = jobs
  BY DEF IInv, TypeOK, LocksMatchJobs, FreshIsClean, TableMatchesPc, JobOptions, Lease!Holders, Live

\* Steps that a lease does not notice.
LEMMA LeaseStutter ==
  ASSUME TypeOK, UNCHANGED <<jobs, locks, cancelled, shutdown>>,
         \A j \in JobId : pc'[j] \in {"saving", "ending", "done"} <=>
                          pc[j] \in {"saving", "ending", "done"}
  PROVE  UNCHANGED Lease!leaseVars
BY DEF Lease!leaseVars, closing

\* Every step of the job table is a step of the leases or none.
LEMMA LeaseStep == IInv /\ [Next]_vars => [Lease!LeaseNext]_(Lease!leaseVars)
<1> SUFFICES ASSUME IInv, [Next]_vars PROVE Lease!LeaseNext \/ UNCHANGED Lease!leaseVars
  OBVIOUS
<1> DEFINE ended == {"saving", "ending", "done"}
           retired == {j \in JobId : pc[j] \in ended}
           revoked == {j \in jobs : cancelled[j]}
<1>0. /\ TypeOK /\ TableMatchesPc /\ FreshIsClean /\ LocksMatchJobs
      /\ jobs \subseteq JobId /\ pc \in [JobId -> PC] /\ cancelled \in [JobId -> BOOLEAN]
      /\ locks \in [Target -> JobId \cup {NoJob}]
      /\ Lease!Holders = jobs
  BY HoldersAreJobs DEF IInv, TypeOK
<1>1. CASE \E j \in JobId, o \in Options :
             Start(j, o) \/ \E s \in Schedule : StartForSchedule(j, o, s)
  <2>1. PICK j \in JobId, o \in Options, s \in Schedule \cup {NoSchedule}, occurrence \in Occurrence :
          CanStart(o) /\ Register(j, o, s, occurrence)
    BY <1>1, StartRegisters
  <2>2. o.target \in Target
    BY JobManagerAssumption
  <2>3. /\ pc[j] = "new" /\ jobs' = jobs \cup {j} /\ cancelled' = cancelled /\ ~cancelled[j]
        /\ pc' = [pc EXCEPT ![j] = IF s = NoSchedule THEN "spawned" ELSE "marking"]
        /\ j \notin jobs /\ j \notin retired
    BY <1>0, <2>1 DEF Register, FreshIsClean, TableMatchesPc
  <2>4. retired' = retired /\ revoked' = revoked
    BY <1>0, <2>3
  <2>5. Lease!Acquire(j, o.target)
    <3>1. /\ ~closing /\ Cardinality(jobs) < MaxActiveJobs /\ locks[o.target] = NoJob
          /\ locks' = [locks EXCEPT ![o.target] = j] /\ shutdown' = shutdown
      BY <2>1 DEF CanStart, Register
    <3>2. Cardinality(Lease!Holders) < MaxActiveJobs /\ j \notin Lease!Holders \cup retired
      BY <1>0, <2>3, <3>1
    <3>3. Lease!Cardinality(Lease!Holders) < MaxActiveJobs
      BY <3>2, LeaseCardinality
    <3> QED  BY <2>4, <3>1, <3>2, <3>3 DEF Lease!Acquire, closing
  <2> QED  BY <2>2, <2>5 DEF Lease!LeaseNext
<1>2. CASE \E j \in JobId : Finish(j)
  <2>1. PICK j \in JobId : Finish(j)
    BY <1>2
  <2>2. /\ pc[j] = "finishing" /\ j \in jobs /\ jobs' = jobs \ {j}
        /\ pc' = [pc EXCEPT ![j] = "saving"] /\ cancelled' = [cancelled EXCEPT ![j] = TRUE]
        /\ opts[j].target \in Target /\ locks[opts[j].target] = j
    BY <1>0, <2>1 DEF Finish, TableMatchesPc, FreshIsClean, JobOptions, LocksMatchJobs, Live
  <2>3. retired' = retired \cup {j} /\ revoked' = revoked \ {j}
    BY <1>0, <2>2
  <2>4. PICK t \in Target : t = opts[j].target
    BY <2>2
  <2>5. Lease!Release(j, t)
    BY <2>1, <2>2, <2>3, <2>4 DEF Lease!Release, Finish, closing
  <2> QED  BY <2>5 DEF Lease!LeaseNext
<1>3. CASE \E j \in JobId : Cancel(j)
  <2>1. PICK j \in JobId : Cancel(j)
    BY <1>3
  <2>2. j \in jobs /\ revoked' = revoked \cup {j} /\ retired' = retired
    BY <1>0, <2>1 DEF Cancel, Live, tables
  <2>3. Lease!Revoke({j})
    BY <1>0, <2>1, <2>2 DEF Lease!Revoke, Cancel, tables, closing
  <2>4. \E S \in SUBSET JobId : Lease!Revoke(S)
    <3> WITNESS {j} \in SUBSET JobId
    <3> QED  BY <2>3
  <2> QED  BY <2>4 DEF Lease!LeaseNext
<1>4. CASE ShutdownCancel
  <2>1. revoked' = revoked \cup jobs /\ retired' = retired
    BY <1>0, <1>4 DEF ShutdownCancel, Live, tables
  <2>2. PICK S \in SUBSET JobId : S = jobs
    BY <1>0
  <2>3. Lease!Revoke(S)
    BY <1>0, <1>4, <2>1, <2>2 DEF Lease!Revoke, ShutdownCancel, tables, closing
  <2> QED  BY <2>3 DEF Lease!LeaseNext
<1>5. CASE ShutdownBegin
  <2>1. Lease!Close
    BY <1>0, <1>5 DEF Lease!Close, ShutdownBegin, tables, closing
  <2> QED  BY <2>1 DEF Lease!LeaseNext
<1>6. CASE ShutdownDrained
  BY <1>0, <1>6 DEF ShutdownDrained, Lease!leaseVars, closing, tables
<1>7. CASE UNCHANGED vars
  BY <1>0, <1>7, LeaseStutter DEF vars
<1>8. CASE \E j \in JobId : JobStep(j) /\ ~Finish(j)
  <2>1. PICK j \in JobId : JobStep(j) /\ ~Finish(j)
    BY <1>8
  <2>2. UNCHANGED <<jobs, locks, cancelled, shutdown>>
    BY <2>1 DEF JobStep, MarkQueued, SetRunning, MarkRunning, SeeCancelled, BeginAttempt,
                LaunchFails, EndAttempt, Conclude, RetryProbe, ContinueKeepalive, WaitOver,
                SaveSummary, MarkTerminal, tables
  <2>3. PICK c \in PC : pc' = [pc EXCEPT ![j] = c] /\ (c \in ended <=> pc[j] \in ended)
    <3>1. CASE MarkQueued(j) \/ SetRunning(j) \/ MarkRunning(j) \/ SeeCancelled(j)
      BY <3>1 DEF MarkQueued, SetRunning, MarkRunning, SeeCancelled, FinishWith, PC
    <3>2. CASE BeginAttempt(j) \/ LaunchFails(j) \/ \E a \in Attempt : EndAttempt(j, a)
      BY <3>2 DEF BeginAttempt, LaunchFails, EndAttempt, FinishWith, PC
    <3>3. CASE Conclude(j) \/ RetryProbe(j) \/ ContinueKeepalive(j) \/ WaitOver(j)
      BY <3>3 DEF Conclude, RetryProbe, ContinueKeepalive, WaitOver, FinishWith, PC
    <3>4. CASE SaveSummary(j) \/ MarkTerminal(j)
      BY <3>4 DEF SaveSummary, MarkTerminal, PC
    <3> QED  BY <2>1, <3>1, <3>2, <3>3, <3>4 DEF JobStep
  <2> QED  BY <1>0, <2>2, <2>3, LeaseStutter
<1> QED  BY <1>1, <1>2, <1>3, <1>4, <1>5, <1>6, <1>7, <1>8 DEF Next, Shutdown

\* Whatever the manager does to its tables is a step of a lease: it grants a
\* free target to a fresh job below the limit, revokes, or takes back.
THEOREM LeaseImplemented == Spec => Lease!LeaseSafety
<1>1. Init => Lease!LeaseInit
  BY DEF Init, Lease!LeaseInit, closing
<1> QED  BY <1>1, LeaseStep, Inductive, PTL DEF Spec, Lease!LeaseSafety
=============================================================================
