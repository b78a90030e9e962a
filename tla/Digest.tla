------------------------------- MODULE Digest -------------------------------
(***************************************************************************)
(* The daily reliability digest.  A loop of one goroutine looks every 30   *)
(* seconds whether the digest of the day was sent: in memory, then among   *)
(* the stored events.  It sends the digest, remembers the day and records  *)
(* an event, which another goroutine stores later.  A user may send the    *)
(* digest by hand at any time.                                             *)
(*                                                                         *)
(* A day is a number; the hour is past the configured one.  A day may      *)
(* return: settings may change the timezone.                               *)
(***************************************************************************)
EXTENDS Integers, Sequences, SequencesExt

CONSTANTS MaxDay,           \* bound: days of a behaviour
          MaxManual,        \* bound: digests sent by hand
          MaxDigestFaults,  \* bound: failed calls, restarts, cleared ledgers, days that return
          DigestLimit       \* events digestAlreadySent looks at: 100

VARIABLES today,         \* the date in the timezone of the settings
          digest,        \* runReliabilityDigest: where it is, its date
          sentDate,      \* digestSentDate, 0 when there is none
          toSave,        \* eventQueue: events to be stored, in order
          saveFailed,    \* persistenceErr
          digestLog,     \* stored reliability_digest_sent events
          ending,        \* closing
          delivered,     \* history: scheduled digests delivered, by day
          manual,        \* bound: digests sent by hand so far
          digestFaults,  \* bound: faults so far
          forgotten      \* history: days whose event was lost or not seen

digestVars == <<today, digest, sentDate, toSave, saveFailed, digestLog, ending,
                delivered, manual, digestFaults, forgotten>>

\* What the bounds are.
ASSUME DigestAssumption ==
  /\ MaxDay \in Nat \ {0}
  /\ MaxManual \in Nat /\ MaxDigestFaults \in Nat /\ DigestLimit \in Nat

Day == 1..MaxDay
Scheduled(day) == [source |-> "scheduled", date |-> day]
ByHand == [source |-> "manual", date |-> 0]
Failed == [source |-> "failed", date |-> 0]   \* a reliability_digest_failed event
Events == {Scheduled(day) : day \in Day} \cup {ByHand, Failed}

Idle == [at |-> "idle", date |-> 0]

DigestInit ==
  /\ today = 1 /\ digest = Idle /\ sentDate = 0
  /\ toSave = <<>> /\ saveFailed = FALSE /\ digestLog = <<>> /\ ending = FALSE
  /\ delivered = [day \in Day |-> 0]
  /\ manual = 0 /\ digestFaults = 0 /\ forgotten = {}

Fault(bad) ==
  IF bad THEN digestFaults < MaxDigestFaults /\ digestFaults' = digestFaults + 1
  ELSE UNCHANGED digestFaults

\* recordOperationalEvent: nothing is recorded once the manager is closing.
Recorded(event) == IF ending THEN toSave ELSE Append(toSave, event)

\* ListEvents: the latest first.
Listed ==
  {digestLog[i] : i \in {j \in 1..Len(digestLog) : j > Len(digestLog) - DigestLimit}}

\* A bug: only the latest event is looked at.
AlreadySentWrong(date) == Listed # {} /\ Last(digestLog) = Scheduled(date)

AlreadySent(date) == Scheduled(date) \in Listed

(***************************************************************************)
(* runReliabilityDigest.                                                   *)
(***************************************************************************)
Tick ==
  /\ digest = Idle
  /\ sentDate # today
  /\ digest' = [at |-> "check", date |-> today]
  /\ UNCHANGED <<today, sentDate, toSave, saveFailed, digestLog, ending, delivered,
                 manual, digestFaults, forgotten>>

\* A query that fails counts as "not sent".
CheckLedger(ok) ==
  /\ digest.at = "check"
  /\ Fault(~ok)
  /\ IF ok /\ AlreadySent(digest.date)
     THEN sentDate' = digest.date /\ digest' = Idle /\ UNCHANGED forgotten
     ELSE /\ digest' = [digest EXCEPT !.at = "build"]
          /\ forgotten' = IF \/ ~ok
                             \/ Scheduled(digest.date)
                                  \in (ToSet(digestLog) \ Listed) \cup ToSet(toSave)
                          THEN forgotten \cup {digest.date} ELSE forgotten
          /\ UNCHANGED sentDate
  /\ UNCHANGED <<today, toSave, saveFailed, digestLog, ending, delivered, manual>>

\* FlushEvents waits for the queue unless the manager is closing, and reports
\* the latest error of the event store.
Flushed == ending \/ toSave = <<>>

BuildDigest(ok) ==
  /\ digest.at = "build"
  /\ Flushed
  /\ saveFailed => ~ok
  /\ Fault(~ok /\ ~saveFailed)
  /\ IF ok
     THEN digest' = [digest EXCEPT !.at = "send"] /\ UNCHANGED toSave
     ELSE digest' = Idle /\ toSave' = Recorded(Failed)
  /\ UNCHANGED <<today, sentDate, saveFailed, digestLog, ending, delivered, manual, forgotten>>

\* The message is delivered, or not, or delivered though the call fails; the
\* context of the call ends with the manager.
SendDigest(arrives, ok) ==
  /\ digest.at = "send"
  /\ ok => arrives
  /\ Fault(~ok)
  /\ delivered' = IF arrives THEN [delivered EXCEPT ![digest.date] = @ + 1] ELSE delivered
  /\ forgotten' = IF arrives /\ ~ok THEN forgotten \cup {digest.date} ELSE forgotten
  /\ IF ok
     THEN digest' = [digest EXCEPT !.at = "remember"] /\ UNCHANGED toSave
     ELSE digest' = Idle /\ toSave' = Recorded(Failed)
  /\ UNCHANGED <<today, sentDate, saveFailed, digestLog, ending, manual>>

Remember ==
  /\ digest.at = "remember"
  /\ sentDate' = digest.date
  /\ digest' = [digest EXCEPT !.at = "record"]
  /\ UNCHANGED <<today, toSave, saveFailed, digestLog, ending, delivered, manual,
                 digestFaults, forgotten>>

Record ==
  /\ digest.at = "record"
  /\ digest' = Idle
  /\ toSave' = Recorded(Scheduled(digest.date))
  /\ forgotten' = IF ending THEN forgotten \cup {digest.date} ELSE forgotten
  /\ UNCHANGED <<today, sentDate, saveFailed, digestLog, ending, delivered, manual, digestFaults>>

(***************************************************************************)
(* SendReliabilityDigest, when it succeeds; the event store.               *)
(***************************************************************************)
SendByHand ==
  /\ manual < MaxManual
  /\ Flushed /\ ~saveFailed
  /\ manual' = manual + 1
  /\ toSave' = Recorded(ByHand)
  /\ UNCHANGED <<today, digest, sentDate, saveFailed, digestLog, ending, delivered,
                 digestFaults, forgotten>>

Dates(events) == {e.date : e \in ToSet(events)} \cap Day

SaveNext(ok) ==
  /\ toSave # <<>>
  /\ Fault(~ok)
  /\ toSave' = Tail(toSave)
  /\ saveFailed' = ~ok
  /\ digestLog' = IF ok /\ Head(toSave) # Failed THEN Append(digestLog, Head(toSave)) ELSE digestLog
  /\ forgotten' = IF ok THEN forgotten ELSE forgotten \cup Dates(<<Head(toSave)>>)
  /\ UNCHANGED <<today, digest, sentDate, ending, delivered, manual>>

\* A user clears the events, or retention does.
Clear ==
  /\ digestLog # <<>>
  /\ Fault(TRUE)
  /\ digestLog' = <<>>
  /\ forgotten' = forgotten \cup Dates(digestLog)
  /\ UNCHANGED <<today, digest, sentDate, toSave, saveFailed, ending, delivered, manual>>

DayPasses ==
  /\ today' \in Day \ {today}
  /\ Fault(today' < today)
  /\ UNCHANGED <<digest, sentDate, toSave, saveFailed, digestLog, ending, delivered,
                 manual, forgotten>>

(***************************************************************************)
(* Shutdown lets the loop and the queue end; a crash does not.             *)
(***************************************************************************)
Close ==
  /\ ~ending
  /\ Fault(TRUE)
  /\ ending' = TRUE
  /\ UNCHANGED <<today, digest, sentDate, toSave, saveFailed, digestLog, delivered,
                 manual, forgotten>>

Started == digest' = Idle /\ sentDate' = 0 /\ toSave' = <<>> /\ saveFailed' = FALSE /\ ending' = FALSE

Reopen ==
  /\ ending /\ digest = Idle /\ toSave = <<>>
  /\ Started
  /\ UNCHANGED <<today, digestLog, delivered, manual, digestFaults, forgotten>>

CrashDigest ==
  /\ Fault(TRUE)
  /\ Started
  /\ forgotten' = forgotten \cup Dates(toSave)
                  \cup (IF digest.at \in {"remember", "record"} THEN {digest.date} ELSE {})
  /\ UNCHANGED <<today, digestLog, delivered, manual>>

DigestNext ==
  \/ Tick \/ Remember \/ Record
  \/ \E ok \in BOOLEAN : CheckLedger(ok) \/ BuildDigest(ok) \/ SaveNext(ok)
  \/ \E arrives, ok \in BOOLEAN : SendDigest(arrives, ok)
  \/ SendByHand \/ Clear \/ DayPasses
  \/ Close \/ Reopen \/ CrashDigest

DigestSpec == DigestInit /\ [][DigestNext]_digestVars

DigestTypeOK ==
  /\ today \in Day
  /\ digest \in [at : {"idle", "check", "build", "send", "remember", "record"}, date : 0..MaxDay]
  /\ sentDate \in 0..MaxDay
  /\ toSave \in Seq(Events) /\ digestLog \in Seq(Events \ {Failed})
  /\ saveFailed \in BOOLEAN /\ ending \in BOOLEAN
  /\ delivered \in [Day -> Nat]
  /\ manual \in 0..MaxManual /\ digestFaults \in 0..MaxDigestFaults
  /\ forgotten \subseteq Day

(***************************************************************************)
(* One scheduled digest a day, across restarts, retries, digests sent by   *)
(* hand and a day that returns (reliability-digest-design.md): a second    *)
(* one goes out only when the answer to the first was lost, or its event   *)
(* was: the process ended first, the save failed, the ledger could not be  *)
(* read or was cleared, or the event was too late or too old to be listed. *)
(* And neither memory nor the ledger claims a day whose digest was not     *)
(* delivered, whatever fails: such a day is tried again.                   *)
(***************************************************************************)
OneDigestPerDay ==
  /\ \A day \in Day \ forgotten : delivered[day] <= 1
  /\ \A day \in Dates(digestLog) \cup Dates(toSave) \cup ({sentDate} \cap Day) : delivered[day] >= 1
=============================================================================
