----------------------------- MODULE Incidents -----------------------------
(***************************************************************************)
(* The incidents of one subject (a provider, or the group it is primary    *)
(* of).  Every request_end is evaluated by a goroutine of its own, under   *)
(* incidentMu, so evaluations do not overlap but come in any order.  An    *)
(* evaluation and the handlers of the API read a row and write it back     *)
(* whole; only the evaluations hold the mutex.                             *)
(*                                                                         *)
(* A publisher sends an event to the writer and queues its evaluation in   *)
(* one critical section, and an evaluation flushes the queue before it     *)
(* reads the ledger: `ledger' is what a flush brings to light.             *)
(***************************************************************************)
EXTENDS Naturals, Sequences, FiniteSets, SequencesExt

CONSTANTS MaxEvents,          \* bound: request_end events of a behaviour
          MaxEdits,           \* bound: requests of clients
          Client,             \* concurrent requests
          RecoverySuccesses,  \* ReliabilityAlertRecoverySuccesses
          Threshold,          \* failures that make an incident critical
          RequestCap          \* request ids kept in a row (100)

ASSUME IncidentAssumption ==
  /\ MaxEvents \in Nat /\ MaxEdits \in Nat /\ RequestCap \in Nat /\ Threshold \in Nat
  /\ RecoverySuccesses \in Nat \ {0}

VARIABLES ledger,    \* stored request_end events, oldest first: their results
          pending,   \* events whose evaluation has not taken the mutex yet
          agg,       \* the holder of incidentMu: its place and its copy of a row
          rows,      \* the incidents, in the order of their creation
          order,     \* their ids, the last updated first
          client,    \* requests between GetIncident and UpsertIncident
          edits,     \* requests so far
          faulty,    \* history: the store refused a read or a write
          lastIn,    \* history: the incident the latest failure was added to
          dismissed  \* history: incidents a request wrote as resolved

incVars == <<ledger, pending, agg, rows, order, client, edits, faulty, lastIn, dismissed>>

IncidentStatus == {"open", "acknowledged", "muted", "resolved"}
Row == [status : IncidentStatus, requests : SUBSET (1..MaxEvents), count : 0..MaxEvents,
        critical : BOOLEAN, opened : BOOLEAN, recovered : BOOLEAN]
NewRow == [status |-> "open", requests |-> {}, count |-> 0,
           critical |-> FALSE, opened |-> FALSE, recovered |-> FALSE]

NoEvaluation == [at |-> "idle", ev |-> 0, id |-> 0, row |-> NewRow]
Quiescent == [op |-> "none", id |-> 0, row |-> NewRow]
EditOps == {"acknowledge", "note", "mute", "close", "reopen", "maintain"}

IsOpen(id) == rows[id].status # "resolved"

\* The open incident that was updated last, or 0.
FindOpenIncident ==
  LET open == {i \in 1..Len(order) : IsOpen(order[i])} IN
  IF open = {} THEN 0 ELSE order[CHOOSE i \in open : \A k \in open : i <= k]

\* The row as it is read; the empty row stands for an incident to be opened.
ReadRow(id) == IF id = 0 THEN NewRow ELSE rows[id]

\* A bug: the row is put in front but not taken from its old place.
PutWrong(id, row) ==
  LET at == IF id = 0 THEN Len(rows) + 1 ELSE id IN
  /\ rows' = IF id = 0 THEN Append(rows, row) ELSE [rows EXCEPT ![id] = row]
  /\ order' = <<at>> \o order

\* UpsertIncident: the whole row, under its id or a new one.
Put(id, row) ==
  IF id = 0
  THEN rows' = Append(rows, row) /\ order' = <<Len(rows) + 1>> \o order
  ELSE /\ rows' = [rows EXCEPT ![id] = row]
       /\ order' = <<id>> \o RemoveAt(order, CHOOSE i \in 1..Len(order) : order[i] = id)

\* A bug: successes anywhere in the ledger count, not only the latest.
SuccessesWrong ==
  Cardinality({i \in 1..Len(ledger) : ledger[i] = "success"})

\* consecutiveIncidentSuccesses: the latest results, passing over stopped ones.
ConsecutiveSuccesses ==
  Cardinality({i \in 1..Len(ledger) :
     ledger[i] = "success" /\ \A k \in i..Len(ledger) : ledger[k] # "failure"})

IncInit ==
  /\ ledger = <<>> /\ pending = {} /\ agg = NoEvaluation
  /\ rows = <<>> /\ order = <<>>
  /\ client = [c \in Client |-> Quiescent] /\ edits = 0
  /\ faulty = FALSE /\ lastIn = 0 /\ dismissed = {}

(***************************************************************************)
(* Requests end.                                                           *)
(***************************************************************************)
Publish(result) ==
  /\ Len(ledger) < MaxEvents
  /\ ledger' = Append(ledger, result)
  /\ pending' = pending \cup {Len(ledger) + 1}
  /\ UNCHANGED <<agg, rows, order, client, edits, faulty, lastIn, dismissed>>

(***************************************************************************)
(* aggregateIncident, from the moment it has the mutex.                    *)
(***************************************************************************)
Release == agg' = NoEvaluation

FindIncident(e) ==
  /\ agg = NoEvaluation
  /\ e \in pending
  /\ pending' = pending \ {e}
  /\ LET id == FindOpenIncident IN
     IF ledger[e] = "stopped" \/ (ledger[e] = "success" /\ id = 0)
     THEN UNCHANGED agg
     ELSE agg' = [at |-> IF ledger[e] = "success" THEN "count" ELSE "fail",
                  ev |-> e, id |-> id, row |-> ReadRow(id)]
  /\ UNCHANGED <<ledger, rows, order, client, edits, faulty, lastIn, dismissed>>

CountSuccesses ==
  /\ agg.at = "count"
  /\ IF ConsecutiveSuccesses < RecoverySuccesses
     THEN Release
     ELSE agg' = [agg EXCEPT !.at = "resolve", !.row.status = "resolved"]
  /\ UNCHANGED <<ledger, pending, rows, order, client, edits, faulty, lastIn, dismissed>>

SaveResolved ==
  /\ agg.at = "resolve"
  /\ Put(agg.id, agg.row)
  /\ IF agg.row.recovered THEN Release ELSE agg' = [agg EXCEPT !.at = "notify"]
  /\ UNCHANGED <<ledger, pending, client, edits, faulty, lastIn, dismissed>>

\* A failure is added to the copy, once per request, unless its list is full.
WithFailure(row, e) ==
  [row EXCEPT !.count = @ + 1, !.critical = @ \/ row.count + 1 >= Threshold,
              !.requests = IF Cardinality(@) < RequestCap THEN @ \cup {e} ELSE @]

SaveFailure ==
  /\ agg.at = "fail"
  /\ IF agg.ev \in agg.row.requests
     THEN Release /\ UNCHANGED <<rows, order, lastIn, dismissed>>
     ELSE LET row == WithFailure(agg.row, agg.ev)
              id == IF agg.id = 0 THEN Len(rows) + 1 ELSE agg.id IN
          /\ Put(agg.id, row)
          /\ lastIn' = id
          /\ dismissed' = dismissed \ {id}
          /\ IF agg.id = 0
             THEN agg' = [agg EXCEPT !.at = "notify", !.id = id, !.row = row]
             ELSE Release
  /\ UNCHANGED <<ledger, pending, client, edits, faulty>>

\* The message was delivered: the copy goes back a second time, with its mark.
SaveNotified ==
  /\ agg.at = "notify"
  /\ Put(agg.id, IF agg.row.status = "resolved" THEN [agg.row EXCEPT !.recovered = TRUE]
                                                ELSE [agg.row EXCEPT !.opened = TRUE])
  /\ Release
  /\ UNCHANGED <<ledger, pending, client, edits, faulty, lastIn, dismissed>>

\* Muted, in maintenance, or not delivered.
NotNotified ==
  /\ agg.at = "notify"
  /\ Release
  /\ UNCHANGED <<ledger, pending, rows, order, client, edits, faulty, lastIn, dismissed>>

StoreFails ==
  /\ agg.at \in {"count", "resolve", "fail", "timeline"}
  /\ Release
  /\ faulty' = TRUE
  /\ UNCHANGED <<ledger, pending, rows, order, client, edits, lastIn, dismissed>>

\* appendGroupIncidentEvent: an entry in the timeline of the open incident.
TimelineRead ==
  /\ agg = NoEvaluation
  /\ FindOpenIncident # 0
  /\ edits < MaxEdits
  /\ edits' = edits + 1
  /\ agg' = [at |-> "timeline", ev |-> 0,
             id |-> FindOpenIncident, row |-> ReadRow(FindOpenIncident)]
  /\ UNCHANGED <<ledger, pending, rows, order, client, faulty, lastIn, dismissed>>

TimelineWrite ==
  /\ agg.at = "timeline"
  /\ Put(agg.id, agg.row)
  /\ Release
  /\ UNCHANGED <<ledger, pending, client, edits, faulty, lastIn, dismissed>>

(***************************************************************************)
(* incidentRoute and syncIncidentMaintenance, without the mutex.           *)
(***************************************************************************)
BeginEdit(c, op, id) ==
  /\ client[c] = Quiescent
  /\ edits < MaxEdits
  /\ op = "maintain" => id = FindOpenIncident
  /\ edits' = edits + 1
  /\ client' = [client EXCEPT ![c] = [op |-> op, id |-> id, row |-> rows[id]]]
  /\ UNCHANGED <<ledger, pending, agg, rows, order, faulty, lastIn, dismissed>>

\* What the operation makes of the status; a note and a window leave it alone.
Edited(op, status) ==
  CASE op = "acknowledge" -> "acknowledged"
    [] op = "mute"        -> "muted"
    [] op = "close"       -> "resolved"
    [] op = "reopen"      -> "open"
    [] OTHER              -> status

SaveEdit(c) ==
  /\ client[c] # Quiescent
  /\ LET id  == client[c].id
         row == [client[c].row EXCEPT !.status = Edited(client[c].op, @)] IN
     /\ Put(id, row)
     /\ dismissed' = IF row.status = "resolved" THEN dismissed \cup {id} ELSE dismissed
  /\ client' = [client EXCEPT ![c] = Quiescent]
  /\ UNCHANGED <<ledger, pending, agg, edits, faulty, lastIn>>

IncNext ==
  \/ \E result \in {"success", "failure", "stopped"} : Publish(result)
  \/ \E e \in pending : FindIncident(e)
  \/ CountSuccesses \/ SaveResolved \/ SaveFailure
  \/ SaveNotified \/ NotNotified \/ StoreFails
  \/ TimelineRead \/ TimelineWrite
  \/ \E c \in Client, op \in EditOps, id \in 1..Len(rows) : BeginEdit(c, op, id)
  \/ \E c \in Client : SaveEdit(c)

IncSpec == IncInit /\ [][IncNext]_incVars

IncTypeOK ==
  /\ ledger \in Seq({"success", "failure", "stopped"}) /\ Len(ledger) <= MaxEvents
  /\ pending \subseteq 1..Len(ledger)
  /\ agg \in [at : {"idle", "count", "resolve", "fail", "notify", "timeline"},
              ev : 0..MaxEvents, id : 0..Len(rows), row : Row]
  /\ rows \in Seq(Row)
  /\ order \in Seq(Nat) /\ ToSet(order) = 1..Len(rows) /\ IsInjective(order)
  /\ client \in [Client -> [op : EditOps \cup {"none"}, id : 0..Len(rows), row : Row]]
  /\ edits \in 0..MaxEdits
  /\ faulty \in BOOLEAN /\ lastIn \in 0..Len(rows) /\ dismissed \subseteq 1..Len(rows)

(***************************************************************************)
(* A provider that is down has an incident: when every result has been     *)
(* evaluated and the latest one is a failure, the incident a failure was   *)
(* last added to is not resolved, unless a client resolved it.             *)
(* Evaluations come in any order, and rows are overwritten by copies from  *)
(* before the failure; what keeps this true is that a recovery counts the  *)
(* results anew, under the mutex and after a flush (incidents.go:61).      *)
(***************************************************************************)
LastIsFailure ==
  \E i \in 1..Len(ledger) :
    ledger[i] = "failure" /\ \A k \in 1..Len(ledger) : k > i => ledger[k] = "stopped"

FailureIsVisible ==
  (/\ pending = {} /\ agg = NoEvaluation
   /\ LastIsFailure /\ ~faulty)
  => lastIn # 0 /\ (lastIn \in dismissed \/ IsOpen(lastIn))
=============================================================================
