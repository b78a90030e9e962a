------------------------------ MODULE Failover ------------------------------
(***************************************************************************)
(* One provider group of internal/jobs/failover.go and                     *)
(* internal/api/provider_groups.go.  Plans bound to the group run on its   *)
(* active provider.  The end of a request on the primary starts an         *)
(* evaluation: enough failures in a row make it try the backups and open   *)
(* an advice for the first that passes, which is a switch in automatic     *)
(* mode and waits for a user in advisory mode.  A user may have the first  *)
(* backup validated, and the reconciler probes the primary to return.      *)
(*                                                                         *)
(* The group is one row of the store.  Everybody reads the whole row,      *)
(* waits (for a job, for a flush of the event queue, for a user) and       *)
(* writes the whole row back.  failoverRunning excludes some of them from  *)
(* each other, groupMutationMu others.                                     *)
(*                                                                         *)
(* Left out: the times of probes and switches, edits of the members,       *)
(* deletion of the group, store errors, the restart of the plans' jobs     *)
(* after a switch (Scheduler).  Waiting for a cooldown or a probe interval *)
(* is a free choice; a maintenance window is open from the write that sets *)
(* it to the write that removes it.                                        *)
(***************************************************************************)
EXTENDS Naturals, Sequences, FiniteSets, SequencesExt

CONSTANTS
  Primary,            \* PrimaryProviderID
  BackupProviderIDs,  \* the backups by priority
  Evaluation,         \* ends of requests on the primary that are evaluated
  Handler,            \* validations users start by hand
  Recovery,           \* the goroutine of the recovery probe
  Client,             \* a user who changes the group or applies its advice
  Nobody,             \* no actor
  NoAdvice,           \* Advice == nil
  InitialSettings,    \* [enabled, automatic, maintenance] the group may have at first
  Settings,           \* what users may change it to
  FailureThreshold, RecoveryThreshold,
  MaxRequests         \* bound of the model on what Client does

Actor  == Evaluation \cup Handler \cup {Recovery, Client}
Backup == ToSet(BackupProviderIDs)

ASSUME FailoverAssumption ==
  /\ BackupProviderIDs \in Seq(Backup) /\ BackupProviderIDs # <<>> /\ Primary \notin Backup
  /\ Evaluation \cap Handler = {} /\ Recovery # Client
  /\ {Recovery, Client} \cap (Evaluation \cup Handler) = {}
  /\ Nobody \notin Actor
  /\ Settings \subseteq [enabled : BOOLEAN, automatic : BOOLEAN, maintenance : BOOLEAN]
  /\ InitialSettings \subseteq Settings
  /\ FailureThreshold \in Nat \ {0} /\ RecoveryThreshold \in Nat \ {0}
  /\ MaxRequests \in Nat

VARIABLES
  row,       \* store: [settings, active, advice]
  streak,    \* ledger: how the last requests on the primary ended, [ok, n]
  passed,    \* store: <<backup, actor>> for validation jobs that succeeded
  holder,    \* failoverRunning
  mutation,  \* who holds groupMutationMu
  ctxDone,   \* the manager is shutting down
  requests,  \* what Client has done so far
  pc,        \* where an actor stands
  local,     \* the copy of the row it works on
  ok,        \* how the request or job it works on ended
  next       \* the backup an evaluation tries next

locks == <<holder, mutation>>
own   == <<pc, local, ok, next>>
vars  == <<row, streak, passed, locks, ctxDone, requests, own>>

Status == {"validating", "open", "validation_failed", "applied", "recovered"}

\* Advice.UpdatedAt is not kept: an advice is opened once per job, and whoever
\* compares the times may as well compare status and job.
Advice == [status : Status, suggested : Backup \cup {Primary}, job : Actor]
Row    == [settings : Settings, active : Backup \cup {Primary}, advice : Advice \cup {NoAdvice}]

\* What stands for "no advice" is none.
ASSUME NoAdviceAssumption == NoAdvice \notin Advice

Suspended(r) == ~r.settings.enabled \/ r.settings.maintenance

NewAdvice(status, provider, actor) ==
  [status |-> status, suggested |-> provider, job |-> actor]

AdviceIs(r, statuses) == r.advice # NoAdvice /\ r.advice.status \in statuses

\* Wrong: the status of the job is taken for that of the advice.
AdviceStatusRaw(success) == IF success THEN "success" ELSE "failed"

AdviceStatus(success) == IF success THEN "open" ELSE "validation_failed"

\* consecutiveProviderFailures, consecutiveProviderSuccesses.
Failures  == IF streak.ok THEN 0 ELSE streak.n
Successes == IF streak.ok THEN streak.n ELSE 0

\* A request on the primary ends: the ledger, counted up to the thresholds.
Longest == IF FailureThreshold > RecoveryThreshold THEN FailureThreshold ELSE RecoveryThreshold
Extended(success) ==
  IF streak.ok # success THEN [ok |-> success, n |-> 1]
  ELSE [streak EXCEPT !.n = IF @ < Longest THEN @ + 1 ELSE @]

\* UpsertProviderGroup: the whole row; without an advice the old one stays.
UpsertProviderGroup(r) ==
  row' = IF r.advice = NoAdvice THEN [r EXCEPT !.advice = row.advice] ELSE r

\* reconcileProviderGroupRecovery watches a switched group in these states.
NeedsRecovery(r) ==
  /\ r.active # Primary
  /\ \/ r.settings.automatic /\ AdviceIs(r, {"open"})
     \/ AdviceIs(r, {"applied"})

Goto(a, place)      == pc' = [pc EXCEPT ![a] = place]
Copy(a, r)          == local' = [local EXCEPT ![a] = r]

\* A goroutine returns: its copy and its result are no longer looked at.
Blank == [settings |-> CHOOSE s \in Settings : TRUE, active |-> Primary, advice |-> NoAdvice]
Return(a, place) ==
  /\ Goto(a, place)
  /\ Copy(a, Blank)
  /\ ok' = [ok EXCEPT ![a] = FALSE]

acquireFailover(a)  == holder = Nobody /\ holder' = a /\ UNCHANGED mutation
releaseFailover(a)  == holder = a /\ holder' = Nobody /\ UNCHANGED mutation

-----------------------------------------------------------------------------
Init ==
  /\ row \in [settings : InitialSettings, active : {Primary}, advice : {NoAdvice}]
  /\ streak = [ok |-> TRUE, n |-> 0]
  /\ passed = {}
  /\ holder = Nobody /\ mutation = Nobody
  /\ ctxDone = FALSE
  /\ requests = 0
  /\ pc = [a \in Actor |-> "idle"]
  /\ local = [a \in Actor |-> Blank]
  /\ ok = [a \in Actor |-> FALSE]
  /\ next = [e \in Evaluation |-> 1]

-----------------------------------------------------------------------------
(***************************************************************************)
(* evaluateFailover                                                        *)
(***************************************************************************)
\* queueFailoverEvaluation: a request on the primary is over.
RequestEnds(e) ==
  /\ pc[e] = "idle"
  /\ ~ctxDone
  /\ \E success \in BOOLEAN :
       /\ streak' = Extended(success)
       /\ ok' = [ok EXCEPT ![e] = success]
  /\ Goto(e, "list")
  /\ UNCHANGED <<row, passed, locks, ctxDone, requests, local, next>>

\* ListProviderGroups; whatever is decided from now on is decided on this copy.
ListProviderGroups(e) ==
  /\ pc[e] = "list"
  /\ \/ Suspended(row) /\ Return(e, "done")
     \* An open advice, or the cooldown after another one.
     \/ ~ok[e] /\ row.advice # NoAdvice /\ Return(e, "done")
     \/ /\ ~Suspended(row)
        /\ \/ ok[e] /\ Goto(e, "recover")
           \/ ~ok[e] /\ ~AdviceIs(row, {"open"}) /\ Goto(e, "count")
        /\ Copy(e, row)
        /\ UNCHANGED ok
  /\ UNCHANGED <<row, streak, passed, locks, ctxDone, requests, next>>

CountFailures(e) ==
  /\ pc[e] = "count"
  /\ \/ Failures < FailureThreshold /\ Return(e, "done")
     \/ Failures >= FailureThreshold /\ Goto(e, "acquire") /\ UNCHANGED <<local, ok>>
  /\ UNCHANGED <<row, streak, passed, locks, ctxDone, requests, next>>

Acquire(e) ==
  /\ pc[e] = "acquire"
  /\ \/ acquireFailover(e) /\ Goto(e, "validate") /\ UNCHANGED <<local, ok>>
     \/ holder # Nobody /\ Return(e, "refused") /\ UNCHANGED locks
  /\ UNCHANGED <<row, streak, passed, ctxDone, requests, next>>

BackupsLeft(e) == next[e] <= Len(BackupProviderIDs)

\* Wrong: a job that has ended counts, however it ended.
TryBackupAny(e) ==
  /\ pc[e] = "validate" /\ BackupsLeft(e) /\ ~ctxDone
  /\ \/ next' = [next EXCEPT ![e] = @ + 1] /\ UNCHANGED <<passed, pc>>
     \/ Goto(e, "open") /\ UNCHANGED <<passed, next>>
  /\ UNCHANGED <<row, streak, locks, ctxDone, requests, local, ok>>

\* One backup: its job cannot be started, does not succeed, or succeeds.
TryBackup(e) ==
  /\ pc[e] = "validate" /\ BackupsLeft(e) /\ ~ctxDone
  /\ \/ next' = [next EXCEPT ![e] = @ + 1] /\ UNCHANGED <<passed, pc>>
     \/ /\ passed' = passed \cup {<<BackupProviderIDs[next[e]], e>>}
        /\ Goto(e, "open")
        /\ UNCHANGED next
  /\ UNCHANGED <<row, streak, locks, ctxDone, requests, local, ok>>

\* Wrong: the early return forgets failoverRunning.
AbandonKeepsLock(e) ==
  /\ pc[e] = "validate" /\ BackupsLeft(e) /\ ctxDone
  /\ Return(e, "done")
  /\ UNCHANGED <<row, streak, passed, locks, ctxDone, requests, next>>

\* The context is looked at before every backup.
Abandon(e) ==
  /\ pc[e] = "validate" /\ BackupsLeft(e) /\ ctxDone
  /\ releaseFailover(e)
  /\ Return(e, "done")
  /\ UNCHANGED <<row, streak, passed, ctxDone, requests, next>>

\* After requestIDForJob, which waits: the copy with its advice.
OpenAdvice(e) ==
  /\ pc[e] = "open"
  /\ LET r == [local[e] EXCEPT !.advice = NewAdvice("open", BackupProviderIDs[next[e]], e)]
     IN  UpsertProviderGroup(r) /\ Copy(e, r)
  /\ Goto(e, "activate")
  /\ UNCHANGED <<streak, passed, locks, ctxDone, requests, ok, next>>

\* Wrong: a validation without result is only logged.
NoBackupPassedIsLogged(e) ==
  /\ pc[e] = "validate" /\ ~BackupsLeft(e)
  /\ releaseFailover(e)
  /\ Return(e, "answered")
  /\ UNCHANGED <<row, streak, passed, ctxDone, requests, next>>

\* No backup passed, and the upsert and the release: the primary stands for
\* an empty SuggestedProviderID.
NoBackupPassed(e) ==
  /\ pc[e] = "validate" /\ ~BackupsLeft(e)
  /\ UpsertProviderGroup([local[e] EXCEPT !.advice = NewAdvice("validation_failed", Primary, e)])
  /\ releaseFailover(e)
  /\ Return(e, "answered")
  /\ UNCHANGED <<streak, passed, ctxDone, requests, next>>

\* activateAutomaticProviderGroup, for an evaluation and for a handler.
Activate(a) ==
  /\ pc[a] = "activate"
  /\ LET to == local[a].advice.suggested
     IN  IF local[a].settings.automatic /\ ~local[a].settings.maintenance /\ local[a].active # to
         THEN UpsertProviderGroup([local[a] EXCEPT !.active = to])
         ELSE UNCHANGED row
  /\ IF a \in Evaluation THEN releaseFailover(a) ELSE UNCHANGED locks
  /\ Return(a, "answered")
  /\ UNCHANGED <<streak, passed, ctxDone, requests, next>>

-----------------------------------------------------------------------------
(***************************************************************************)
(* recoverFailoverAdvice, after a success on the primary: for an           *)
(* evaluation, and for the recovery probe.                                 *)
(***************************************************************************)
ReadLatest(a) ==
  /\ pc[a] = "recover"
  /\ mutation = Nobody /\ mutation' = a
  /\ Copy(a, row)
  /\ Goto(a, "recovering")
  /\ UNCHANGED <<row, streak, passed, holder, ctxDone, requests, ok, next>>

\* After consecutiveProviderSuccesses, which waits for a flush.
Recovered(r) ==
  [r EXCEPT !.advice.status = "recovered",
            !.active = IF r.settings.automatic \/ AdviceIs(r, {"applied"}) THEN Primary ELSE @]

RecoverAdvice(a) ==
  /\ pc[a] = "recovering"
  /\ UpsertProviderGroup(IF AdviceIs(local[a], {"open", "applied"}) /\ Successes >= RecoveryThreshold
                         THEN Recovered(local[a]) ELSE local[a])
  /\ mutation' = Nobody
  /\ IF a = Recovery THEN holder' = Nobody ELSE UNCHANGED holder
  /\ Return(a, IF a = Recovery THEN "idle" ELSE "done")
  /\ UNCHANGED <<streak, passed, ctxDone, requests, next>>

-----------------------------------------------------------------------------
(***************************************************************************)
(* reconcileProviderGroupRecovery and completeProviderGroupRecoveryProbe   *)
(***************************************************************************)
\* The interval since the last probe is over.
RecoveryDue ==
  /\ pc[Recovery] = "idle" /\ ~ctxDone
  /\ ~Suspended(row) /\ NeedsRecovery(row)
  /\ Copy(Recovery, row)
  /\ Goto(Recovery, "acquire")
  /\ UNCHANGED <<row, streak, passed, locks, ctxDone, requests, ok, next>>

\* LastRecoveryProbeStatus "running" is written with the whole row.
RecoveryAcquire ==
  /\ pc[Recovery] = "acquire"
  /\ \/ /\ acquireFailover(Recovery)
        /\ UpsertProviderGroup(local[Recovery])
        /\ Goto(Recovery, "probe") /\ Copy(Recovery, Blank) /\ UNCHANGED ok
     \/ /\ holder # Nobody
        /\ Return(Recovery, "idle")
        /\ UNCHANGED <<row, locks>>
  /\ UNCHANGED <<streak, passed, ctxDone, requests, next>>

\* The probe of the primary ends.  Its request is in the ledger, but starts no
\* evaluation (triggerSource failover_recovery).
RecoveryProbe ==
  /\ pc[Recovery] = "probe" /\ ~ctxDone
  /\ \E success \in BOOLEAN :
       /\ streak' = Extended(success)
       /\ ok' = [ok EXCEPT ![Recovery] = success]
  /\ Goto(Recovery, "reload")
  /\ UNCHANGED <<row, passed, locks, ctxDone, requests, local, next>>

\* The job is not seen to end (shutdown, or a timeout).
RecoveryProbeLost ==
  /\ pc[Recovery] = "probe"
  /\ ok' = [ok EXCEPT ![Recovery] = FALSE]
  /\ Goto(Recovery, "reload")
  /\ UNCHANGED <<row, streak, passed, locks, ctxDone, requests, local, next>>

\* Start refused the job: the group is read and marked "deferred".
RecoveryDeferred ==
  /\ pc[Recovery] = "probe"
  /\ Copy(Recovery, row)
  /\ ok' = [ok EXCEPT ![Recovery] = FALSE]
  /\ Goto(Recovery, "settle")
  /\ UNCHANGED <<row, streak, passed, locks, ctxDone, requests, next>>

RecoveryReload ==
  /\ pc[Recovery] = "reload"
  /\ IF NeedsRecovery(row)
     THEN Goto(Recovery, "settle") /\ Copy(Recovery, row) /\ UNCHANGED <<locks, ok>>
     ELSE Return(Recovery, "idle") /\ releaseFailover(Recovery)
  /\ UNCHANGED <<row, streak, passed, ctxDone, requests, next>>

\* After requestIDForJob: the mark of the probe, with the whole row.
RecoverySettle ==
  /\ pc[Recovery] = "settle"
  /\ UpsertProviderGroup(local[Recovery])
  /\ IF ok[Recovery] THEN Goto(Recovery, "recover") /\ UNCHANGED <<locks, local, ok>>
     ELSE Return(Recovery, "idle") /\ releaseFailover(Recovery)
  /\ UNCHANGED <<streak, passed, ctxDone, requests, next>>

RecoveryStep ==
  \/ RecoveryDue \/ RecoveryAcquire \/ RecoveryProbe \/ RecoveryProbeLost
  \/ RecoveryDeferred \/ RecoveryReload \/ RecoverySettle
  \/ ReadLatest(Recovery) \/ RecoverAdvice(Recovery)

-----------------------------------------------------------------------------
(***************************************************************************)
(* evaluateProviderGroup, startProviderGroupEvaluation and                 *)
(* CompleteProviderGroupEvaluation, which take no lock.                    *)
(***************************************************************************)
EvaluateGroup(u) ==
  /\ pc[u] = "idle"
  /\ IF Suspended(row) THEN Return(u, "done")
     ELSE Goto(u, "start") /\ Copy(u, row) /\ UNCHANGED ok
  /\ UNCHANGED <<row, streak, passed, locks, ctxDone, requests, next>>

\* Start of the job of the first backup, refused or followed by the upsert.
StartEvaluation(u) ==
  /\ pc[u] = "start"
  /\ \/ /\ ~ctxDone
        /\ UpsertProviderGroup([local[u] EXCEPT
             !.advice = NewAdvice("validating", BackupProviderIDs[1], u)])
        /\ Goto(u, "wait") /\ Copy(u, Blank) /\ UNCHANGED ok
     \/ Return(u, "done") /\ UNCHANGED row
  /\ UNCHANGED <<streak, passed, locks, ctxDone, requests, next>>

\* The job ends, or is not seen to end.
EvaluationEnds(u) ==
  /\ pc[u] = "wait"
  /\ \/ ok' = [ok EXCEPT ![u] = FALSE] /\ UNCHANGED passed
     \/ /\ ~ctxDone
        /\ ok' = [ok EXCEPT ![u] = TRUE]
        /\ passed' = passed \cup {<<BackupProviderIDs[1], u>>}
  /\ Goto(u, "reload")
  /\ UNCHANGED <<row, streak, locks, ctxDone, requests, local, next>>

ReloadGroup(u) ==
  /\ pc[u] = "reload"
  /\ IF AdviceIs(row, {"validating"}) /\ row.advice.job = u
     THEN Goto(u, "complete") /\ Copy(u, row) /\ UNCHANGED ok
     ELSE Return(u, "done")
  /\ UNCHANGED <<row, streak, passed, locks, ctxDone, requests, next>>

\* After requestIDForJob, which waits.
CompleteEvaluation(u) ==
  /\ pc[u] = "complete"
  /\ LET r == [local[u] EXCEPT !.advice.status = AdviceStatus(ok[u])]
     IN  /\ UpsertProviderGroup(r)
         /\ IF ok[u] THEN Goto(u, "activate") /\ Copy(u, r) /\ UNCHANGED ok
            ELSE Return(u, "answered")
  /\ UNCHANGED <<streak, passed, locks, ctxDone, requests, next>>

-----------------------------------------------------------------------------
(***************************************************************************)
(* Users                                                                   *)
(***************************************************************************)
\* The page of the group, or the row a maintenance request reads first.
ReadGroup ==
  /\ pc[Client] = "idle" /\ requests < MaxRequests
  /\ Copy(Client, row)
  /\ requests' = requests + 1
  /\ Goto(Client, "page")
  /\ UNCHANGED <<row, streak, passed, locks, ctxDone, ok, next>>

\* upsertProviderGroup: the page, with other settings, and without an advice.
EditGroup ==
  /\ pc[Client] = "page"
  /\ \E s \in Settings :
       UpsertProviderGroup([local[Client] EXCEPT !.settings = s, !.advice = NoAdvice])
  /\ Return(Client, "idle")
  /\ UNCHANGED <<streak, passed, locks, ctxDone, requests, next>>

\* maintenanceWindowRoute: start or end of a window.
ChangeMaintenance ==
  /\ pc[Client] = "page"
  /\ LET s == [local[Client].settings EXCEPT !.maintenance = ~@]
     IN  s \in Settings /\ UpsertProviderGroup([local[Client] EXCEPT !.settings = s])
  /\ Return(Client, "idle")
  /\ UNCHANGED <<streak, passed, locks, ctxDone, requests, next>>

\* ApplyProviderGroupAdvice of what the page shows.
ApplyAcquire ==
  /\ pc[Client] = "page" /\ AdviceIs(local[Client], {"open"})
  /\ \/ acquireFailover(Client) /\ Goto(Client, "apply") /\ UNCHANGED <<local, ok>>
     \/ holder # Nobody /\ Return(Client, "idle") /\ UNCHANGED locks
  /\ UNCHANGED <<row, streak, passed, ctxDone, requests, next>>

Applicable ==
  /\ ~Suspended(row) /\ ~row.settings.automatic
  /\ row.advice = local[Client].advice

ApplyRead ==
  /\ pc[Client] = "apply"
  /\ IF Applicable
     THEN Goto(Client, "switch") /\ Copy(Client, row) /\ UNCHANGED <<locks, ok>>
     ELSE Return(Client, "idle") /\ releaseFailover(Client)
  /\ UNCHANGED <<row, streak, passed, ctxDone, requests, next>>

ApplySwitch ==
  /\ pc[Client] = "switch"
  /\ UpsertProviderGroup([local[Client] EXCEPT !.active = local[Client].advice.suggested,
                                               !.advice.status = "applied"])
  /\ releaseFailover(Client)
  /\ Return(Client, "idle")
  /\ UNCHANGED <<streak, passed, ctxDone, requests, next>>

ClientStep == ReadGroup \/ EditGroup \/ ChangeMaintenance \/ ApplyAcquire \/ ApplyRead \/ ApplySwitch

Shutdown ==
  /\ ~ctxDone /\ ctxDone' = TRUE
  /\ UNCHANGED <<row, streak, passed, locks, requests, own>>

-----------------------------------------------------------------------------
EvaluationGoesOn(e) ==
  \/ ListProviderGroups(e) \/ CountFailures(e) \/ Acquire(e) \/ TryBackup(e) \/ Abandon(e)
  \/ OpenAdvice(e) \/ NoBackupPassed(e) \/ Activate(e) \/ ReadLatest(e) \/ RecoverAdvice(e)

HandlerGoesOn(u) ==
  \/ StartEvaluation(u) \/ EvaluationEnds(u) \/ ReloadGroup(u)
  \/ CompleteEvaluation(u) \/ Activate(u)

Next ==
  \/ \E e \in Evaluation : RequestEnds(e) \/ EvaluationGoesOn(e)
  \/ \E u \in Handler : EvaluateGroup(u) \/ HandlerGoesOn(u)
  \/ RecoveryStep \/ ClientStep \/ Shutdown

(***************************************************************************)
(* Fairness: goroutines go on and their waits end (a timer bounds every    *)
(* wait for a job), the reconciler's ticker fires, and groupMutationMu     *)
(* goes to everybody who waits for it.  Requests and users need not come.  *)
(***************************************************************************)
Fairness ==
  /\ \A e \in Evaluation : WF_vars(EvaluationGoesOn(e)) /\ SF_vars(ReadLatest(e))
  /\ \A u \in Handler : WF_vars(HandlerGoesOn(u))
  /\ WF_vars(RecoveryStep) /\ SF_vars(ReadLatest(Recovery))
  /\ WF_vars(ApplyRead \/ ApplySwitch)

Spec     == Init /\ [][Next]_vars
FairSpec == Spec /\ Fairness

-----------------------------------------------------------------------------
PC == {"idle", "list", "count", "acquire", "refused", "validate", "open", "activate",
       "recover", "recovering", "answered", "done", "probe", "reload", "settle",
       "start", "wait", "complete", "page", "apply", "switch"}

\* Every variable has its type.
TypeOK ==
  /\ row \in Row
  /\ streak \in [ok : BOOLEAN, n : 0 .. Longest]
  /\ passed \subseteq Backup \X Actor
  /\ {holder, mutation} \subseteq Actor \cup {Nobody}
  /\ ctxDone \in BOOLEAN
  /\ requests \in 0 .. MaxRequests
  /\ pc \in [Actor -> PC]
  /\ local \in [Actor -> Row]
  /\ ok \in [Actor -> BOOLEAN]
  /\ next \in [Evaluation -> 1 .. Len(BackupProviderIDs) + 1]

\* An advice to switch, and the active provider when it is a backup, always go
\* back to a validation job of that very backup that succeeded, whichever old
\* rows evaluations, handlers, probes and users write over each other.
OnlyValidatedBackups ==
  /\ AdviceIs(row, {"open", "applied", "recovered"}) => <<row.advice.suggested, row.advice.job>> \in passed
  /\ row.active # Primary => \E a \in Actor : <<row.active, a>> \in passed

\* An evaluation that saw the threshold reached does not end without a trace:
\* there is an advice, or whoever turned it away still works on one, or the
\* service goes down.
ThresholdIsAnswered ==
  \A e \in Evaluation :
    pc[e] \in {"refused", "answered"} => row.advice # NoAdvice \/ holder # Nobody \/ ctxDone

\* failoverRunning belongs to exactly who validates, probes the primary or
\* applies an advice: two of them never work on one group, and no early return
\* bars the group from all three for good.
Places(a) ==
  IF a \in Evaluation THEN {"validate", "open", "activate"}
  ELSE {"probe", "reload", "settle", "recover", "recovering", "apply", "switch"}

ValidationIsExclusive ==
  \A a \in Evaluation \cup {Recovery, Client} : holder = a <=> pc[a] \in Places(a)

\* "Once switched to the backup, the group itself probes the primary": a group
\* on a backup comes back, or is probed again, until the service goes down or
\* users suspend it.
BackupIsWatched ==
  row.active # Primary ~>
    \/ row.active = Primary \/ pc[Recovery] = "probe" \/ ctxDone
    \/ Suspended(row)
=============================================================================
