------------------------------ MODULE Notices ------------------------------
(***************************************************************************)
(* Messages about jobs: the keepalive summary, the progress of probes and  *)
(* the merged recoveries.  The goroutines of the jobs add to one set of    *)
(* counters under Manager.mu; a summary that is due, or the recovery       *)
(* timer, empties a counter and hands a message over, which takes one of   *)
(* the few sending slots or is dropped.  A summary that is due is what the *)
(* next step would leave in its counter.                                   *)
(*                                                                         *)
(* A key stands for a target and its one job; that time is due is a        *)
(* choice.  SetSettings and the webhook change at any time.                *)
(***************************************************************************)
EXTENDS Integers, Sequences, FiniteSets, SequencesExt, FiniteSetsExt

CONSTANTS Key,          \* notificationTargetKey
          NoticeLimit,  \* maxNotificationTargets: 200
          SummaryAt,    \* KeepaliveSummarySuccesses
          MaxNotes,     \* bound: successes and failures recorded
          MaxToggles    \* bound: changes of settings

ASSUME NoticeAssumption == IsFiniteSet(Key)

VARIABLES watch,         \* the job of a key, and where queueRecovery stands
          clearing,      \* ended probes whose progress is still to be cleared
          keepalives,    \* notifications.keepalive*
          progress,      \* notifications.probe*
          recoveries,    \* notifications.recovery*
          timer,         \* recoveryTimer
          handing,       \* merged recoveries not handed over yet
          options,       \* settings, and whether there is a webhook
          quitting,      \* closing
          owed,          \* history: recoveries neither told nor lost, by key
          left,          \* history: keys whose progress no one clears
          steps          \* bound: results recorded and changes so far

noticeVars == <<watch, clearing, keepalives, progress, recoveries, timer, handing,
                options, quitting, owed, left, steps>>

Nothing == [targets |-> [k \in Key |-> 0], count |-> 0, dropped |-> 0]
Switches == {"summary", "progress", "merge", "webhook"}

NoticeInit ==
  /\ watch = [k \in Key |-> "none"]
  /\ clearing = {}
  /\ keepalives = Nothing /\ progress = Nothing /\ recoveries = Nothing
  /\ timer = FALSE
  /\ handing = <<>>
  /\ options = Switches
  /\ quitting = FALSE
  /\ owed = [k \in Key |-> 0]
  /\ left = {}
  /\ steps = [notes |-> 0, toggles |-> 0]

Noting == steps.notes < MaxNotes /\ steps' = [steps EXCEPT !.notes = @ + 1]

Named(sum) == {k \in Key : sum.targets[k] > 0}

\* The sum of a function's values: x occurs f[x] times among its copies.
Copies(f) == UNION {{x} \X (1..f[x]) : x \in DOMAIN f}
SumOf(f) == Cardinality(Copies(f))

Total(sum) == SumOf(sum.targets)

\* A bug: a target beyond the limit leaves before it is counted.
AddedWrong(sum, k) ==
  IF sum.targets[k] = 0 /\ Cardinality(Named(sum)) >= NoticeLimit
  THEN [sum EXCEPT !.dropped = @ + 1]
  ELSE [sum EXCEPT !.count = @ + 1, !.targets[k] = @ + 1]

\* addNotificationTarget: beyond the limit new targets are only counted.
Added(sum, k) ==
  IF sum.targets[k] = 0 /\ Cardinality(Named(sum)) >= NoticeLimit
  THEN [sum EXCEPT !.count = @ + 1, !.dropped = @ + 1]
  ELSE [sum EXCEPT !.count = @ + 1, !.targets[k] = @ + 1]

\* clearProbeProgressLocked.
Cleared(sum, k) ==
  LET rest == [sum EXCEPT !.targets[k] = 0, !.count = Max({0, @ - sum.targets[k]})] IN
  IF Named(rest) = {} THEN Nothing ELSE rest

(***************************************************************************)
(* Keepalive jobs.                                                         *)
(***************************************************************************)
StartsJob(k, mode) ==
  /\ watch[k] = "none" /\ ~quitting
  /\ watch' = [watch EXCEPT ![k] = mode]
  /\ UNCHANGED <<clearing, keepalives, progress, recoveries, timer, handing, options,
                 quitting, owed, left, steps>>

\* recordKeepaliveSuccess.
KeepaliveSuccess(k, due) ==
  /\ watch[k] = "keepalive"
  /\ Noting
  /\ LET sum == Added(keepalives, k) IN
     IF "summary" \notin options
     THEN keepalives' = Nothing
     ELSE keepalives' = IF due \/ sum.count >= SummaryAt THEN Nothing ELSE sum
  /\ UNCHANGED <<watch, clearing, progress, recoveries, timer, handing, options, quitting, owed, left>>

\* recordProbeProgress.
RecordProgress(k, due) ==
  LET sum == Added(progress, k) IN
  progress' = IF "progress" \notin options THEN Cleared(progress, k)
              ELSE IF due THEN Nothing ELSE sum

\* A probe that is to be retried, a keepalive that is to recover.
AttemptFails(k, due) ==
  /\ watch[k] \in {"probe", "keepalive", "recovering"}
  /\ Noting
  /\ watch' = [watch EXCEPT ![k] = IF @ = "probe" THEN @ ELSE "recovering"]
  /\ RecordProgress(k, due)
  /\ left' = left \ {k}
  /\ UNCHANGED <<clearing, keepalives, recoveries, timer, handing, options, quitting, owed>>

\* finish removes the job first; only that of a probe clears its progress.
Ends(k) ==
  /\ watch[k] \in {"probe", "keepalive", "recovering"}
  /\ watch' = [watch EXCEPT ![k] = "none"]
  /\ clearing' = IF watch[k] = "probe" THEN clearing \cup {k} ELSE clearing
  /\ left' = IF watch[k] = "recovering" THEN left \cup {k} ELSE left
  /\ UNCHANGED <<keepalives, progress, recoveries, timer, handing, options, quitting,
                 owed, steps>>

ClearProgress(k) ==
  /\ k \in clearing
  /\ clearing' = clearing \ {k}
  /\ progress' = Cleared(progress, k)
  /\ UNCHANGED <<watch, keepalives, recoveries, timer, handing, options, quitting,
                 owed, left, steps>>

(***************************************************************************)
(* queueRecovery: the settings, the webhook and the lock one by one.       *)
(***************************************************************************)
Recovers(k) ==
  /\ watch[k] = "recovering"
  /\ watch' = [watch EXCEPT ![k] = IF "merge" \in options THEN "merging" ELSE "clear"]
  /\ owed' = [owed EXCEPT ![k] = @ + 1]
  /\ UNCHANGED <<clearing, keepalives, progress, recoveries, timer, handing, options,
                 quitting, left, steps>>

ClearThenNotify(k) ==
  /\ watch[k] = "clear"
  /\ watch' = [watch EXCEPT ![k] = "notify"]
  /\ progress' = Cleared(progress, k)
  /\ UNCHANGED <<clearing, keepalives, recoveries, timer, handing, options, quitting,
                 owed, left, steps>>

FindNotifier(k) ==
  /\ watch[k] = "merging"
  /\ watch' = [watch EXCEPT ![k] = IF "webhook" \in options THEN "merge" ELSE "notify"]
  /\ left' = IF "webhook" \in options THEN left ELSE left \cup {k}
  /\ UNCHANGED <<clearing, keepalives, progress, recoveries, timer, handing, options,
                 quitting, owed, steps>>

MergeRecovery(k) ==
  /\ watch[k] = "merge"
  /\ watch' = [watch EXCEPT ![k] = "keepalive"]
  /\ recoveries' = Added(recoveries, k)
  /\ progress' = Cleared(progress, k)
  /\ timer' = TRUE
  /\ owed' = IF recoveries'.targets[k] > recoveries.targets[k] THEN owed
             ELSE [owed EXCEPT ![k] = @ - 1]
  /\ UNCHANGED <<clearing, keepalives, handing, options, quitting, left, steps>>

\* notify: one message about one job.  It is sent if there is a webhook, a free
\* slot and no shutdown, and dropped otherwise; the recovery is settled.
Notify(k) ==
  /\ watch[k] = "notify"
  /\ watch' = [watch EXCEPT ![k] = "keepalive"]
  /\ owed' = [owed EXCEPT ![k] = @ - 1]
  /\ UNCHANGED <<clearing, keepalives, progress, recoveries, timer, handing, options, quitting,
                 left, steps>>

(***************************************************************************)
(* flushRecoveryNotifications; sendMessageAsync, which sends or drops.     *)
(***************************************************************************)
TimerFires ==
  /\ timer
  /\ timer' = FALSE
  /\ recoveries' = Nothing
  /\ handing' = IF quitting \/ Named(recoveries) = {} THEN handing
                ELSE Append(handing, recoveries)
  /\ owed' = IF quitting THEN [k \in Key |-> owed[k] - recoveries.targets[k]] ELSE owed
  /\ UNCHANGED <<watch, clearing, keepalives, progress, options, quitting, left, steps>>

HandOver(i) ==
  /\ handing' = RemoveAt(handing, i)
  /\ owed' = [k \in Key |-> owed[k] - handing[i].targets[k]]
  /\ UNCHANGED <<watch, clearing, keepalives, progress, recoveries, timer, options, quitting,
                 left, steps>>

Toggle(switch) ==
  /\ steps.toggles < MaxToggles
  /\ steps' = [steps EXCEPT !.toggles = @ + 1]
  /\ options' = IF switch \in options THEN options \ {switch} ELSE options \cup {switch}
  /\ UNCHANGED <<watch, clearing, keepalives, progress, recoveries, timer, handing,
                 quitting, owed, left>>

\* Shutdown: the notifications are dropped; the jobs end later.
Quit ==
  /\ ~quitting
  /\ quitting' = TRUE
  /\ timer' = FALSE
  /\ keepalives' = Nothing /\ progress' = Nothing /\ recoveries' = Nothing
  /\ owed' = [k \in Key |-> owed[k] - recoveries.targets[k]]
  /\ UNCHANGED <<watch, clearing, handing, options, left, steps>>

NoticeNext ==
  \/ \E k \in Key : \/ \E mode \in {"probe", "keepalive"} : StartsJob(k, mode)
                    \/ \E due \in BOOLEAN : KeepaliveSuccess(k, due) \/ AttemptFails(k, due)
                    \/ Ends(k) \/ ClearProgress(k)
                    \/ Recovers(k) \/ ClearThenNotify(k) \/ FindNotifier(k)
                    \/ MergeRecovery(k) \/ Notify(k)
  \/ \E i \in 1..Len(handing) : HandOver(i)
  \/ TimerFires \/ Quit
  \/ \E switch \in Switches : Toggle(switch)

NoticeSpec == NoticeInit /\ [][NoticeNext]_noticeVars

Sums == [targets : [Key -> Nat], count : Nat, dropped : Nat]

NoticeTypeOK ==
  /\ watch \in [Key -> {"none", "probe", "keepalive", "recovering", "merging", "clear", "merge", "notify"}]
  /\ clearing \subseteq Key /\ left \subseteq Key
  /\ keepalives \in Sums /\ progress \in Sums /\ recoveries \in Sums
  /\ timer \in BOOLEAN /\ quitting \in BOOLEAN
  /\ handing \in Seq(Sums)
  /\ options \subseteq Switches
  /\ owed \in [Key -> Nat]

(***************************************************************************)
(* What the messages say and whether they go out:                          *)
(*   - every total is the sum of what is listed and what was only counted; *)
(*   - a recovery that waits has its timer until the shutdown, and every   *)
(*     recovery is told once, waits, or was lost to a full list, full      *)
(*     slots, a webhook taken away or the shutdown;                        *)
(*   - the progress lists running probes only, but for keepalives that     *)
(*     ended while they recovered or recovered without a webhook.          *)
(***************************************************************************)
AddsUp(sum) == sum.count = Total(sum) + sum.dropped

InHand(k) == SumOf([i \in 1..Len(handing) |-> handing[i].targets[k]])

Underway(k) == IF watch[k] \in {"merging", "clear", "merge", "notify"} THEN 1 ELSE 0

TotalsAddUp ==
  \A sum \in {keepalives, progress, recoveries} \cup ToSet(handing) : AddsUp(sum)

RecoveryIsTimed == ~quitting /\ recoveries # Nothing => timer

EachToldOnce ==
  \A k \in Key : owed[k] = recoveries.targets[k] + InHand(k) + Underway(k)

ProgressIsRunning ==
  \A k \in Named(progress) : watch[k] \notin {"none", "keepalive"} \/ k \in clearing \cup left

NoticesAddUp == TotalsAddUp /\ RecoveryIsTimed /\ EachToldOnce /\ ProgressIsRunning
=============================================================================
