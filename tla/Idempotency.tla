---------------------------- MODULE Idempotency ----------------------------
(***************************************************************************)
(* The filter in front of every mutating request: requests that carry the  *)
(* same Idempotency-Key and the same fingerprint are executed once and     *)
(* answered alike.  One key is modelled; keys share nothing.               *)
(***************************************************************************)
EXTENDS Naturals, Sequences, FiniteSets

CONSTANTS Request,      \* requests with the key
          Fingerprint,  \* hashes of method, path and body
          HashOf,       \* HashOf[r]: the fingerprint of request r
          NoRecord

VARIABLES record,     \* what the store has under the key
          request,    \* request[r]: place and answer
          executed,   \* the executions of the handler, in order
          fault,      \* history: a call of the store failed
          expired     \* history: the record outlived its TTL

idemVars == <<record, request, executed, fault, expired>>

\* Every request has a fingerprint; no request is called like an answer, and no
\* record like its absence.
ASSUME IdempotencyAssumption ==
  /\ HashOf \in [Request -> Fingerprint]
  /\ {"none", "failed", "conflict", "in_progress"} \cap Request = {}
  /\ NoRecord \notin [fingerprint : Fingerprint, pending : BOOLEAN,
                      result : Request \cup {"none", "failed"}]

\* A result names the request that produced it; "failed" is the stored 500.
Records == [fingerprint : Fingerprint, pending : BOOLEAN,
            result : Request \cup {"none", "failed"}]
Answers == Request \cup {"none", "failed", "conflict", "in_progress"}
Places == {"new", "get", "wait", "own", "bare", "ran", "answered", "gone"}

Pending(f) == [fingerprint |-> f, pending |-> TRUE, result |-> "none"]
Completed(f, v) == [fingerprint |-> f, pending |-> FALSE, result |-> v]

IdemInit ==
  /\ record = NoRecord
  /\ request = [r \in Request |-> [at |-> "new", answer |-> "none"]]
  /\ executed = <<>>
  /\ fault = FALSE
  /\ expired = FALSE

Go(r, place) == request' = [request EXCEPT ![r].at = place]
Answer(r, v) == request' = [request EXCEPT ![r].at = "answered", ![r].answer = v]
Same(r) == record.fingerprint = HashOf[r]

(***************************************************************************)
(* ClaimIdempotency: SETNX, and GET when the key is taken.                 *)
(***************************************************************************)
\* A bug: SET instead of SETNX.
SetNXWrong(r) ==
  /\ request[r].at = "new"
  /\ record' = Pending(HashOf[r])
  /\ Go(r, "own")
  /\ UNCHANGED <<executed, fault, expired>>

SetNX(r) ==
  /\ request[r].at = "new"
  /\ IF record = NoRecord
     THEN record' = Pending(HashOf[r]) /\ Go(r, "own")
     ELSE UNCHANGED record /\ Go(r, "get")
  /\ UNCHANGED <<executed, fault, expired>>

\* Stored, but the client repeated the command because the reply was lost.
SetNXTwice(r) ==
  /\ request[r].at = "new"
  /\ record = NoRecord
  /\ record' = Pending(HashOf[r])
  /\ Go(r, "get")
  /\ fault' = TRUE
  /\ UNCHANGED <<executed, expired>>

\* The answer to a duplicate: wait, replay, or refuse.
GetRecord(r) ==
  /\ request[r].at = "get"
  /\ IF record = NoRecord THEN Go(r, "bare")
     ELSE IF ~Same(r) THEN Answer(r, "conflict")
     ELSE IF record.pending THEN Go(r, "wait")
     ELSE Answer(r, record.result)
  /\ UNCHANGED <<record, executed, fault, expired>>

\* The claim returns an error, whether or not the key was set: the request
\* is passed on unprotected.
ClaimFails(r) ==
  /\ request[r].at \in {"new", "get"}
  /\ Go(r, "bare")
  /\ record' \in {record} \cup (IF record = NoRecord /\ request[r].at = "new"
                                THEN {Pending(HashOf[r])} ELSE {})
  /\ fault' = TRUE
  /\ UNCHANGED <<executed, expired>>

(***************************************************************************)
(* The wait: a read every 25 ms, for 30 seconds.  The fingerprint is not   *)
(* compared again, and the error of a read is dropped: the empty record    *)
(* is neither pending nor a result, and the request is executed.           *)
(***************************************************************************)
Poll(r) ==
  /\ request[r].at = "wait"
  /\ ~(record # NoRecord /\ record.pending)
  /\ IF record = NoRecord THEN Go(r, "own") ELSE Answer(r, record.result)
  /\ UNCHANGED <<record, executed, fault, expired>>

PollFails(r) ==
  /\ request[r].at = "wait"
  /\ Go(r, "own")
  /\ fault' = TRUE
  /\ UNCHANGED <<record, executed, expired>>

Deadline(r) ==
  /\ request[r].at = "wait"
  /\ record # NoRecord /\ record.pending
  /\ Answer(r, "in_progress")
  /\ UNCHANGED <<record, executed, fault, expired>>

(***************************************************************************)
(* The execution and its record.                                           *)
(***************************************************************************)
Execute(r) ==
  /\ request[r].at \in {"own", "bare"}
  /\ executed' = Append(executed, r)
  /\ IF request[r].at = "own" THEN Go(r, "ran") ELSE Answer(r, r)
  /\ UNCHANGED <<record, fault, expired>>

\* The handler panics: a 500 is recorded, and the connection is dropped.
Panic(r) ==
  /\ request[r].at = "own"
  /\ executed' = Append(executed, r)
  /\ record' = Completed(HashOf[r], "failed")
  /\ Answer(r, "failed")
  /\ UNCHANGED <<fault, expired>>

Complete(r) ==
  /\ request[r].at = "ran"
  /\ record' = Completed(HashOf[r], r)
  /\ Answer(r, r)
  /\ UNCHANGED <<executed, fault, expired>>

\* The error of the write is dropped.
CompleteFails(r) ==
  /\ request[r].at = "ran"
  /\ Answer(r, r)
  /\ fault' = TRUE
  /\ UNCHANGED <<record, executed, expired>>

(***************************************************************************)
(* Time and crashes.                                                       *)
(***************************************************************************)
Expire ==
  /\ record # NoRecord
  /\ record' = NoRecord
  /\ expired' = TRUE
  /\ UNCHANGED <<request, executed, fault>>

Crash ==
  /\ \E r \in Request : request[r].at \in {"get", "wait", "own", "bare", "ran"}
  /\ request' = [r \in Request |->
       IF request[r].at \in {"new", "answered", "gone"} THEN request[r]
       ELSE [request[r] EXCEPT !.at = "gone"]]
  /\ UNCHANGED <<record, executed, fault, expired>>

IdemNext ==
  \/ \E r \in Request :
       \/ SetNX(r) \/ SetNXTwice(r) \/ GetRecord(r) \/ ClaimFails(r)
       \/ Poll(r) \/ PollFails(r) \/ Deadline(r)
       \/ Execute(r) \/ Panic(r) \/ Complete(r) \/ CompleteFails(r)
  \/ Expire \/ Crash

IdemSpec == IdemInit /\ [][IdemNext]_idemVars

IdemTypeOK ==
  /\ record \in Records \cup {NoRecord}
  /\ request \in [Request -> [at : Places, answer : Answers]]
  /\ executed \in Seq(Request)
  /\ fault \in BOOLEAN /\ expired \in BOOLEAN

(***************************************************************************)
(* While the store answers and the record lives, and although the process  *)
(* may die at any step: the handler runs at most once for the key,         *)
(* everybody with that fingerprint is given its result or told to wait,    *)
(* everybody else is refused, and a pending record has an owner that will  *)
(* complete it, or lost its owner to a crash after which nobody takes the  *)
(* key over.  Whatever the store does, as long as the record lives, a      *)
(* result is given only to requests with its fingerprint                   *)
(* (global-idempotency-design.md:6).                                       *)
(***************************************************************************)
Result(r) == request[r].answer \notin {"none", "conflict", "in_progress"}

OneExecution ==
  /\ ~fault /\ ~expired =>
       /\ Len(executed) <= 1
       /\ \A r, q \in Request : Result(r) /\ Result(q) => request[r].answer = request[q].answer
       /\ \A r \in Request :
            request[r].answer = "conflict" =>
              \E q \in Request : HashOf[q] # HashOf[r]
                                 /\ request[q].at \in {"own", "ran", "answered", "gone"}
       /\ record # NoRecord /\ record.pending =>
            \E r \in Request :
              /\ Same(r) /\ request[r].at \in {"own", "ran", "gone"}
              /\ request[r].at = "gone" => \A q \in Request : request[q].at # "own"
  /\ ~expired =>
       \A r, q \in Request :
         request[r].answer = q => HashOf[q] = HashOf[r]
=============================================================================
