------------------------------- MODULE Alerts -------------------------------
(***************************************************************************)
(* Reliability alerts about one provider.  After a request_end is stored   *)
(* a goroutine may evaluate it (slots are shared, and without one the      *)
(* evaluation is left out), under reliabilityAlertMu: it computes the      *)
(* metrics of the 24 hours up to the event, compares them with the state   *)
(* of the provider, sends a message, stores an event about it and only     *)
(* then the new state.  A restart reads the state back from those events.  *)
(*                                                                         *)
(* Rates stand for both auxiliary conditions; settings do not change.      *)
(***************************************************************************)
EXTENDS Integers, Sequences, FiniteSets, SequencesExt

CONSTANTS MaxRequests,      \* bound: request_end events of a behaviour
          Interval,         \* ReliabilityAlertConsecutiveFailures
          MinSamples,       \* ReliabilityAlertMinSamples
          RatePercent,      \* ReliabilityAlertSuccessRate
          AlertSuccesses,   \* ReliabilityAlertRecoverySuccesses
          MaxQueued,        \* slots that evaluations can take
          MaxUpsets         \* bound: restarts, missing slots, moves of the window

ASSUME AlertAssumption ==
  /\ MaxRequests \in Nat /\ MinSamples \in Nat /\ RatePercent \in Nat
  /\ MaxQueued \in Nat /\ MaxUpsets \in Nat
  /\ Interval \in Nat \ {0} /\ AlertSuccesses \in Nat \ {0}

VARIABLES ended,      \* request_end events: result, and where their window begins
          queued,     \* evaluations waiting for the mutex
          eval,       \* the evaluation that holds it
          alert,      \* reliabilityAlertState
          alertLog,   \* stored alert events
          sent,       \* history: messages, in order
          restarts,   \* history: how many requests had ended at each restart
          trouble     \* history: evaluations out of order or missing, failed calls

alertVars == <<ended, queued, eval, alert, alertLog, sent, restarts, trouble>>

Kinds == {"alert", "recovery"}
Results == {"success", "failure", "stopped"}
Unloaded == [loaded |-> FALSE, alerted |-> FALSE, last |-> 0, successes |-> 0]
NoEval == [at |-> "idle", e |-> 0, state |-> Unloaded]

AlertInit ==
  /\ ended = <<>>
  /\ queued = {}
  /\ eval = NoEval
  /\ alert = Unloaded
  /\ alertLog = {}
  /\ sent = <<>>
  /\ restarts = <<>>
  /\ trouble = [latest |-> 0, disorder |-> FALSE, missed |-> FALSE, fault |-> FALSE]

(***************************************************************************)
(* finishMetrics of the samples from the begin of a window to an event.    *)
(***************************************************************************)
Window(e) == ended[e].from .. e
Of(e, result) == {i \in Window(e) : ended[i].result = result}
CompletedIn(e) == Cardinality(Of(e, "success") \cup Of(e, "failure"))

\* Stopped requests neither add to a streak nor end it.
ConsecutiveFailures(e) ==
  Cardinality({i \in Of(e, "failure") : \A k \in i..e : ended[k].result # "success"})

\* reliabilityAuxiliaryAlertReasons.
Auxiliary(e) ==
  /\ CompletedIn(e) >= MinSamples
  /\ 100 * Cardinality(Of(e, "success")) < RatePercent * CompletedIn(e)

\* reliabilityAlertReasons.
Active(e) == ConsecutiveFailures(e) >= Interval /\ Auxiliary(e)

\* reliabilityAlertTriggerReasons.
Trigger(e, last) ==
  /\ Active(e)
  /\ ConsecutiveFailures(e) % Interval = 0
  /\ ConsecutiveFailures(e) > last

(***************************************************************************)
(* The state is read back from the latest of the stored events.            *)
(***************************************************************************)
Reloaded(log) ==
  IF log = {} THEN [Unloaded EXCEPT !.loaded = TRUE]
  ELSE LET newest == CHOOSE x \in log : \A y \in log : y.e <= x.e IN
       [loaded |-> TRUE, alerted |-> newest.kind = "alert",
        last |-> IF newest.kind = "alert" THEN newest.count ELSE 0, successes |-> 0]

\* A query that fails is passed over, here for the events of one kind.
Readable(kinds) == {x \in alertLog : x.kind \in kinds}

LoadState(kinds) == IF alert.loaded THEN alert ELSE Reloaded(Readable(kinds))

\* A bug: the count of the last alert survives the end of its streak.
CurrentWrong(e, state) == state

\* A new streak begins to count again.
Current(e, state) ==
  IF ConsecutiveFailures(e) < state.last THEN [state EXCEPT !.last = 0] ELSE state

(***************************************************************************)
(* Requests end, and are evaluated.                                        *)
(***************************************************************************)
LastFrom == IF ended = <<>> THEN 1 ELSE Last(ended).from

Upsets == Len(restarts) + (LastFrom - 1) + (IF trouble.missed THEN 1 ELSE 0)

RequestEnds(result, from, slot) ==
  /\ Len(ended) < MaxRequests
  /\ slot => Cardinality(queued) < MaxQueued
  /\ (slot /\ from = LastFrom) \/ Upsets < MaxUpsets
  /\ from \in LastFrom .. LastFrom + 1
  /\ from <= Len(ended) + 1
  /\ ended' = Append(ended, [result |-> result, from |-> from])
  /\ queued' = IF slot THEN queued \cup {Len(ended) + 1} ELSE queued
  /\ trouble' = [trouble EXCEPT !.missed = @ \/ ~slot]
  /\ UNCHANGED <<eval, alert, alertLog, sent, restarts>>

\* The next state when nothing is to be sent.
Uneventful(e, state) ==
  IF Active(e) THEN [state EXCEPT !.successes = 0]
  ELSE IF ~state.alerted THEN state
  ELSE CASE ended[e].result = "success" -> [state EXCEPT !.successes = @ + 1]
         [] ended[e].result = "failure" -> [state EXCEPT !.successes = 0]
         [] ended[e].result = "stopped" -> state

Evaluate(e, kinds) ==
  /\ eval = NoEval
  /\ e \in queued
  /\ alert.loaded => kinds = Kinds
  /\ queued' = queued \ {e}
  /\ LET state   == Current(e, LoadState(kinds))
         counted == Uneventful(e, state)
         to      == IF Trigger(e, state.last) THEN "alert"
                    ELSE IF ~Active(e) /\ state.alerted /\ counted.successes >= AlertSuccesses
                    THEN "recovery" ELSE "idle" IN
     IF to = "idle"
     THEN alert' = counted /\ UNCHANGED eval
     ELSE eval' = [at |-> to, e |-> e, state |-> counted] /\ alert' = LoadState(kinds)
  /\ trouble' = [trouble EXCEPT !.disorder = @ \/ e < trouble.latest,
                   !.latest = IF e > @ THEN e ELSE @,
                   !.fault = @ \/ (~alert.loaded /\ Readable(kinds) # alertLog)]
  /\ UNCHANGED <<ended, alertLog, sent, restarts>>

\* The message goes out, or its delivery fails: both are an attempt.
Send ==
  /\ eval.at \in {"alert", "recovery"}
  /\ sent' = Append(sent, [kind |-> eval.at, e |-> eval.e])
  /\ eval' = [eval EXCEPT !.at = IF @ = "alert" THEN "saveAlert" ELSE "saveRecovery"]
  /\ UNCHANGED <<ended, queued, alert, alertLog, restarts, trouble>>

SaveAlert(ok) ==
  /\ eval.at = "saveAlert"
  /\ alertLog' = IF ok THEN alertLog \cup {[kind |-> "alert", e |-> eval.e,
                                             count |-> ConsecutiveFailures(eval.e)]}
                 ELSE alertLog
  /\ alert' = [eval.state EXCEPT !.alerted = TRUE, !.last = ConsecutiveFailures(eval.e)]
  /\ eval' = NoEval
  /\ trouble' = [trouble EXCEPT !.fault = @ \/ ~ok]
  /\ UNCHANGED <<ended, queued, sent, restarts>>

SaveRecovery(ok) ==
  /\ eval.at = "saveRecovery"
  /\ alertLog' = IF ok THEN alertLog \cup {[kind |-> "recovery", e |-> eval.e, count |-> 0]}
                 ELSE alertLog
  /\ alert' = [Unloaded EXCEPT !.loaded = TRUE]
  /\ eval' = NoEval
  /\ trouble' = [trouble EXCEPT !.fault = @ \/ ~ok]
  /\ UNCHANGED <<ended, queued, sent, restarts>>

\* The process ends, in order or not, and starts again: evaluations that wait
\* are lost, and so is one that is under way.
StartAgain ==
  /\ Upsets < MaxUpsets
  /\ restarts' = Append(restarts, Len(ended))
  /\ queued' = {}
  /\ eval' = NoEval
  /\ alert' = Unloaded
  /\ trouble' = [trouble EXCEPT !.missed = @ \/ queued # {}, !.fault = @ \/ eval # NoEval]
  /\ UNCHANGED <<ended, alertLog, sent>>

AlertNext ==
  \/ \E result \in Results, from \in 1..MaxRequests, slot \in BOOLEAN : RequestEnds(result, from, slot)
  \/ \E e \in queued, kinds \in SUBSET Kinds : Evaluate(e, kinds)
  \/ Send
  \/ \E ok \in BOOLEAN : SaveAlert(ok) \/ SaveRecovery(ok)
  \/ StartAgain

AlertSpec == AlertInit /\ [][AlertNext]_alertVars

States == [loaded : BOOLEAN, alerted : BOOLEAN, last : 0..MaxRequests,
           successes : 0..MaxRequests]

AlertTypeOK ==
  /\ ended \in Seq([result : Results, from : 1..MaxRequests]) /\ Len(ended) <= MaxRequests
  /\ queued \subseteq 1..Len(ended)
  /\ eval \in [at : {"idle", "alert", "recovery", "saveAlert", "saveRecovery"},
               e : 0..Len(ended), state : States]
  /\ alert \in States
  /\ alertLog \subseteq [kind : Kinds, e : 1..Len(ended), count : 0..MaxRequests]
  /\ sent \in Seq([kind : Kinds, e : 1..Len(ended)])
  /\ restarts \in Seq(0..Len(ended)) /\ Len(restarts) <= MaxUpsets
  /\ trouble \in [latest : 0..Len(ended), disorder : BOOLEAN, missed : BOOLEAN, fault : BOOLEAN]

(***************************************************************************)
(* The messages about an outage.  When evaluations come in order and no    *)
(* call fails, across restarts:                                            *)
(*   - one boundary of a streak is announced once, though stopped requests *)
(*     repeat its count, as long as nothing ages out of the 24 hours in    *)
(*     between (provider-reliability-alerts-design.md:65);                 *)
(*   - between two recoveries there is an alert, and one before the first; *)
(*   - and if no evaluation is left out, every failure that completes an   *)
(*     interval under a low rate is announced, unless the window moved or  *)
(*     the process restarted during the streak, and a recovery only after  *)
(*     the configured number of successes in a row.                        *)
(***************************************************************************)
\* The last success before an event tells the streaks apart.
Streak(e) == {i \in 1..e : ended[i].result = "success"}

Orderly == ~trouble.disorder /\ ~trouble.fault

AnnouncedOnce ==
  \A i, j \in 1..Len(sent) :
    (i < j /\ sent[i].kind = "alert" /\ sent[j].kind = "alert") =>
      LET a == sent[i].e
          b == sent[j].e IN
      ~(/\ Streak(a) = Streak(b) /\ ended[a].from = ended[b].from
        /\ ConsecutiveFailures(a) = ConsecutiveFailures(b))

Alternating ==
  \A j \in 1..Len(sent) :
    sent[j].kind = "recovery" => j > 1 /\ sent[j - 1].kind = "alert"

\* A restart within a streak reads back the count of the streak before it.
Unbroken(e) ==
  /\ \A k \in 1..e : Streak(k) = Streak(e) => ended[k].from = ended[e].from
  /\ \A r \in ToSet(restarts) : r < e /\ r > 0 => Streak(r) # Streak(e)

Announced ==
  \A e \in 1..Len(ended) :
    (ended[e].result = "failure" /\ Trigger(e, 0) /\ Unbroken(e))
    => \E i \in 1..Len(sent) : sent[i] = [kind |-> "alert", e |-> e]

\* The latest results that count before a recovery.
RecoveredBy(e) ==
  Cardinality({i \in Streak(e) : \A k \in i..e : ended[k].result # "failure"}) >= AlertSuccesses

AlertsFollowTheStreak ==
  Orderly =>
    /\ AnnouncedOnce
    /\ Alternating
    /\ (~trouble.missed /\ queued = {} /\ eval = NoEval) =>
         /\ Announced
         /\ \A m \in ToSet(sent) : m.kind = "recovery" => RecoveredBy(m.e)
=============================================================================
