----------------------------- MODULE RequestProofs -----------------------------
(***************************************************************************)
(* Theorems about two protocols behind a mutating request: the idempotency *)
(* filter every one of them passes (Idempotency), and the change of the    *)
(* proxy configuration (ProxyConfig).  They share no state.                *)
(***************************************************************************)
EXTENDS Idempotency, ProxyConfig, TLAPS

(***************************************************************************)
(* The idempotency filter is proved for any number of requests and         *)
(* fingerprints.  OneExecution is not inductive: one has to know that the  *)
(* record says who owns the execution, and that nobody past the claim has  *)
(* another fingerprint than the record's.                                  *)
(***************************************************************************)
RequestState == [at : Places, answer : Answers]

\* What the actions store under the key is a record.
LEMMA RecordsAreTyped ==
  ASSUME NEW r \in Request
  PROVE  /\ HashOf[r] \in Fingerprint
         /\ Pending(HashOf[r]) \in Records
         /\ Completed(HashOf[r], r) \in Records
         /\ Completed(HashOf[r], "failed") \in Records
         /\ NoRecord \notin Records
BY IdempotencyAssumption DEF Pending, Completed, Records

\* Going to a place keeps the answer; other requests stay as they are.
LEMMA GoMoves ==
  ASSUME request \in [Request -> RequestState],
         NEW r \in Request, NEW place \in Places, Go(r, place)
  PROVE  /\ request' \in [Request -> RequestState]
         /\ request'[r] = [at |-> place, answer |-> request[r].answer]
         /\ \A q \in Request : q # r => request'[q] = request[q]
BY DEF Go, RequestState

\* An answer ends the request; other requests stay as they are.
LEMMA AnswerEnds ==
  ASSUME request \in [Request -> RequestState],
         NEW r \in Request, NEW v \in Answers, Answer(r, v)
  PROVE  /\ request' \in [Request -> RequestState]
         /\ request'[r] = [at |-> "answered", answer |-> v]
         /\ \A q \in Request : q # r => request'[q] = request[q]
BY DEF Answer, RequestState, Places

-----------------------------------------------------------------------------
(***************************************************************************)
(* Types.                                                                  *)
(***************************************************************************)
IdemTyped ==
  /\ record \in Records \cup {NoRecord}
  /\ request \in [Request -> RequestState]
  /\ executed \in Seq(Request)
  /\ fault \in BOOLEAN /\ expired \in BOOLEAN

\* Every step keeps the types.
LEMMA TypesKept ==
  ASSUME IdemTyped, [IdemNext]_idemVars
  PROVE  IdemTyped'
<1> USE DEF IdemTyped
<1>1. record # NoRecord => record.result \in Answers
  BY DEF Records, Answers
<1>0. \A r \in Request : Append(executed, r) \in Seq(Request)
  OBVIOUS
<1>2. ASSUME NEW r \in Request, SetNX(r) PROVE IdemTyped'
  BY <1>1, <1>2, RecordsAreTyped, GoMoves, AnswerEnds DEF SetNX, Places
<1>3. ASSUME NEW r \in Request, SetNXTwice(r) PROVE IdemTyped'
  BY <1>1, <1>3, RecordsAreTyped, GoMoves, AnswerEnds DEF SetNXTwice, Places
<1>4. ASSUME NEW r \in Request, GetRecord(r) PROVE IdemTyped'
  BY <1>1, <1>4, RecordsAreTyped, GoMoves, AnswerEnds DEF GetRecord, Places, Answers
<1>5. ASSUME NEW r \in Request, ClaimFails(r) PROVE IdemTyped'
  BY <1>1, <1>5, RecordsAreTyped, GoMoves, AnswerEnds DEF ClaimFails, Places
<1>6. ASSUME NEW r \in Request, Poll(r) PROVE IdemTyped'
  BY <1>1, <1>6, RecordsAreTyped, GoMoves, AnswerEnds DEF Poll, Places
<1>7. ASSUME NEW r \in Request, PollFails(r) PROVE IdemTyped'
  BY <1>1, <1>7, RecordsAreTyped, GoMoves, AnswerEnds DEF PollFails, Places
<1>8. ASSUME NEW r \in Request, Deadline(r) PROVE IdemTyped'
  BY <1>1, <1>8, RecordsAreTyped, GoMoves, AnswerEnds DEF Deadline, Answers
<1>9. ASSUME NEW r \in Request, Execute(r) PROVE IdemTyped'
  BY <1>0, <1>9, RecordsAreTyped, GoMoves, AnswerEnds DEF Execute, Places, Answers
<1>10. ASSUME NEW r \in Request, Panic(r) PROVE IdemTyped'
  BY <1>0, <1>10, RecordsAreTyped, GoMoves, AnswerEnds DEF Panic, Answers
<1>11. ASSUME NEW r \in Request, Complete(r) PROVE IdemTyped'
  BY <1>1, <1>11, RecordsAreTyped, GoMoves, AnswerEnds DEF Complete, Answers
<1>12. ASSUME NEW r \in Request, CompleteFails(r) PROVE IdemTyped'
  BY <1>1, <1>12, RecordsAreTyped, GoMoves, AnswerEnds DEF CompleteFails, Answers
<1>13. CASE Expire
  BY <1>13 DEF Expire
<1>14. CASE Crash
  BY <1>14 DEF Crash, RequestState, Places
<1>15. CASE UNCHANGED idemVars
  BY <1>15 DEF idemVars
<1>16. QED
  BY <1>2, <1>3, <1>4, <1>5, <1>6, <1>7, <1>8, <1>9, <1>10, <1>11, <1>12, <1>13, <1>14, <1>15
     DEF IdemNext

\* No request has begun at first.
LEMMA TypesInitially == IdemInit => IdemTyped
<1>1. [at |-> "new", answer |-> "none"] \in RequestState
  BY DEF RequestState, Places, Answers
<1>2. IdemInit => request \in [Request -> RequestState]
  BY <1>1, Zenon DEF IdemInit
<1>3. <<>> \in Seq(Request)
  OBVIOUS
<1>4. QED
  BY <1>2, <1>3 DEF IdemInit, IdemTyped

\* Record and requests keep their types, whatever the store does (ClaimIdempotency,
\* CompleteIdempotency, idempotencyMiddleware).
THEOREM IdempotencyTypes ==
  IdemSpec => []IdemTypeOK
<1>1. IdemInit => IdemTyped
  BY TypesInitially
<1>2. IdemTyped /\ [IdemNext]_idemVars => IdemTyped'
  BY TypesKept
<1>3. IdemTyped => IdemTypeOK
  BY DEF IdemTyped, IdemTypeOK, RequestState
<1>4. QED
  BY <1>1, <1>2, <1>3, PTL DEF IdemSpec

-----------------------------------------------------------------------------
(***************************************************************************)
(* While the record lives: everybody who was past the claim finds it with  *)
(* the own fingerprint, and results are those of that fingerprint.         *)
(***************************************************************************)
SameBehindClaim ==
  ~expired =>
    /\ \A r \in Request :
         /\ request[r].at \in {"get", "wait", "own", "ran"} => record # NoRecord
         /\ request[r].at \in {"wait", "own", "ran"} => Same(r)
         /\ request[r].answer \in Request => HashOf[request[r].answer] = HashOf[r]
    /\ record # NoRecord /\ record.result \in Request =>
         HashOf[record.result] = record.fingerprint

(***************************************************************************)
(* While the store answers, too: a pending record has one owner, who has   *)
(* run the handler once or not yet, or who is gone, and nobody owns it     *)
(* then; a completed one has had its owner.                                *)
(***************************************************************************)
Owner(r) == request[r].at \in {"own", "ran"}
OwnerOrGone(r) ==
  Same(r) /\ (Owner(r) \/ (request[r].at = "gone" /\ \A q \in Request : ~Owner(q)))

OneOwner ==
  ~fault /\ ~expired =>
    /\ \A r \in Request : request[r].at # "bare"
    /\ record = NoRecord =>
         executed = <<>> /\ \A r \in Request : request[r].at = "new" /\ request[r].answer = "none"
    /\ Len(executed) <= 1
    /\ \A r, q \in Request : Owner(r) /\ Owner(q) => r = q
    /\ \A r \in Request : Owner(r) => record.pending
    /\ \A r \in Request : request[r].at = "own" => executed = <<>>
    /\ record # NoRecord /\ record.pending => \E r \in Request : OwnerOrGone(r)
    /\ record # NoRecord =>
         \E r \in Request : record.fingerprint = HashOf[r]
                             /\ request[r].at \in {"own", "ran", "answered", "gone"}
    /\ \A r \in Request :
         /\ request[r].answer = "conflict" => record # NoRecord /\ ~Same(r)
         /\ Result(r) => ~record.pending /\ request[r].answer = record.result

IdemIInv == IdemTyped /\ SameBehindClaim /\ OneOwner

\* Nobody gets past the claim with another fingerprint than the record's.
LEMMA SameKept ==
  ASSUME IdemTyped, IdemTyped', SameBehindClaim, [IdemNext]_idemVars
  PROVE  SameBehindClaim'
<1> USE DEF IdemTyped, SameBehindClaim, Same
<1>1. /\ \A r \in Request : HashOf[r] \in Fingerprint
      /\ {"none", "failed", "conflict", "in_progress"} \cap Request = {}
      /\ NoRecord \notin Records
  BY RecordsAreTyped, IdempotencyAssumption DEF Records
<1>2. record # NoRecord => record.result \in Answers
  BY DEF Records, Answers
<1>3. ASSUME NEW r \in Request, SetNX(r) PROVE SameBehindClaim'
  BY <1>1, <1>2, <1>3, RecordsAreTyped, GoMoves, AnswerEnds DEF SetNX, Pending, Places
<1>4. ASSUME NEW r \in Request, SetNXTwice(r) PROVE SameBehindClaim'
  BY <1>1, <1>2, <1>4, RecordsAreTyped, GoMoves, AnswerEnds DEF SetNXTwice, Pending, Places
<1>5. ASSUME NEW r \in Request, GetRecord(r) PROVE SameBehindClaim'
  BY <1>1, <1>2, <1>5, RecordsAreTyped, GoMoves, AnswerEnds DEF GetRecord, Places, Answers
<1>6. ASSUME NEW r \in Request, ClaimFails(r) PROVE SameBehindClaim'
  BY <1>1, <1>2, <1>6, RecordsAreTyped, GoMoves, AnswerEnds DEF ClaimFails, Pending, Places
<1>7. ASSUME NEW r \in Request, Poll(r) PROVE SameBehindClaim'
  BY <1>1, <1>2, <1>7, RecordsAreTyped, GoMoves, AnswerEnds DEF Poll, Places
<1>8. ASSUME NEW r \in Request, PollFails(r) PROVE SameBehindClaim'
  BY <1>1, <1>2, <1>8, RecordsAreTyped, GoMoves, AnswerEnds DEF PollFails, Places
<1>9. ASSUME NEW r \in Request, Deadline(r) PROVE SameBehindClaim'
  BY <1>1, <1>2, <1>9, RecordsAreTyped, GoMoves, AnswerEnds DEF Deadline, Answers
<1>10. ASSUME NEW r \in Request, Execute(r) PROVE SameBehindClaim'
  BY <1>1, <1>2, <1>10, RecordsAreTyped, GoMoves, AnswerEnds DEF Execute, Places, Answers
<1>11. ASSUME NEW r \in Request, Panic(r) PROVE SameBehindClaim'
  <2>1. /\ record' # NoRecord /\ record'.fingerprint = HashOf[r] /\ record'.result = "failed"
        /\ expired' = expired
    BY <1>1, <1>11, RecordsAreTyped DEF Panic, Completed
  <2>2. /\ request'[r] = [at |-> "answered", answer |-> "failed"]
        /\ \A q \in Request : q # r => request'[q] = request[q]
    BY <1>11, AnswerEnds DEF Panic, Answers
  <2>3. ~expired => record.fingerprint = HashOf[r]
    BY <1>11 DEF Panic
  <2>4. QED
    BY <1>1, <2>1, <2>2, <2>3
<1>12. ASSUME NEW r \in Request, Complete(r) PROVE SameBehindClaim'
  <2>1. /\ record' # NoRecord /\ record'.fingerprint = HashOf[r] /\ record'.result = r
        /\ expired' = expired
    BY <1>1, <1>12, RecordsAreTyped DEF Complete, Completed
  <2>2. /\ request'[r] = [at |-> "answered", answer |-> r]
        /\ \A q \in Request : q # r => request'[q] = request[q]
    BY <1>12, AnswerEnds DEF Complete, Answers
  <2>3. ~expired => record.fingerprint = HashOf[r]
    BY <1>12 DEF Complete
  <2>4. QED
    BY <1>1, <2>1, <2>2, <2>3
<1>13. ASSUME NEW r \in Request, CompleteFails(r) PROVE SameBehindClaim'
  BY <1>1, <1>2, <1>13, RecordsAreTyped, GoMoves, AnswerEnds DEF CompleteFails, Answers
<1>14. CASE Expire
  BY <1>14 DEF Expire
<1>15. CASE Crash
  BY <1>15 DEF Crash
<1>16. CASE UNCHANGED idemVars
  BY <1>16 DEF idemVars
<1>17. QED
  BY <1>3, <1>4, <1>5, <1>6, <1>7, <1>8, <1>9, <1>10, <1>11, <1>12, <1>13, <1>14, <1>15, <1>16
     DEF IdemNext

\* The record goes on saying who owns the execution, and what came of it.
LEMMA OwnerKept ==
  ASSUME IdemTyped, IdemTyped', SameBehindClaim, OneOwner, [IdemNext]_idemVars
  PROVE  OneOwner'
<1> USE DEF IdemTyped, OneOwner, Owner, OwnerOrGone, Same, Result
<1>1. /\ \A r \in Request : HashOf[r] \in Fingerprint
      /\ {"none", "failed", "conflict", "in_progress"} \cap Request = {}
      /\ NoRecord \notin Records
  BY RecordsAreTyped, IdempotencyAssumption DEF Records
<1>2. record # NoRecord => record.result \in Request \cup {"none", "failed"}
  BY DEF Records
<1>3. ASSUME NEW r \in Request, SetNX(r) PROVE OneOwner'
  BY <1>1, <1>2, <1>3, RecordsAreTyped, GoMoves, AnswerEnds DEF SetNX, Pending, Places
<1>4. ASSUME NEW r \in Request, SetNXTwice(r) PROVE OneOwner'
  BY <1>4 DEF SetNXTwice
<1>5. ASSUME NEW r \in Request, GetRecord(r) PROVE OneOwner'
  BY <1>1, <1>2, <1>5, RecordsAreTyped, GoMoves, AnswerEnds DEF GetRecord, Places, Answers
<1>6. ASSUME NEW r \in Request, ClaimFails(r) PROVE OneOwner'
  BY <1>6 DEF ClaimFails
<1>7. ASSUME NEW r \in Request, Poll(r) PROVE OneOwner'
  <2> SUFFICES ASSUME ~fault, ~expired PROVE OneOwner'
    BY <1>7 DEF Poll
  <2>1. /\ record # NoRecord /\ ~record.pending /\ Answer(r, record.result)
        /\ UNCHANGED <<record, executed, fault, expired>>
    BY <1>7 DEF Poll, SameBehindClaim
  <2>2. /\ request'[r] = [at |-> "answered", answer |-> record.result]
        /\ \A q \in Request : q # r => request'[q] = request[q]
    BY <1>2, <2>1, AnswerEnds DEF Answers
  <2>3. PICK o \in Request : record.fingerprint = HashOf[o]
          /\ request[o].at \in {"own", "ran", "answered", "gone"}
    BY <2>1
  <2>4. \A q \in Request : ~Owner(q) /\ ~Owner(q)'
    BY <2>1, <2>2
  <2>5. request'[o].at \in {"own", "ran", "answered", "gone"}
    BY <2>2, <2>3
  <2>6. QED
    BY <1>1, <1>2, <2>1, <2>2, <2>3, <2>4, <2>5
<1>8. ASSUME NEW r \in Request, PollFails(r) PROVE OneOwner'
  BY <1>8 DEF PollFails
<1>9. ASSUME NEW r \in Request, Deadline(r) PROVE OneOwner'
  BY <1>1, <1>2, <1>9, RecordsAreTyped, GoMoves, AnswerEnds DEF Deadline, Answers
<1>10. ASSUME NEW r \in Request, Execute(r) PROVE OneOwner'
  BY <1>1, <1>2, <1>10, RecordsAreTyped, GoMoves, AnswerEnds DEF Execute, Places, Answers
<1>11. ASSUME NEW r \in Request, Panic(r) PROVE OneOwner'
  <2> SUFFICES ASSUME ~fault, ~expired PROVE OneOwner'
    BY <1>11 DEF Panic
  <2>1. /\ record' # NoRecord /\ ~record'.pending
        /\ record'.fingerprint = HashOf[r] /\ record'.result = "failed"
    BY <1>1, <1>11, RecordsAreTyped DEF Panic, Completed
  <2>2. /\ request'[r] = [at |-> "answered", answer |-> "failed"]
        /\ \A q \in Request : q # r => request'[q] = request[q]
    BY <1>11, AnswerEnds DEF Panic, Answers
  <2>3. /\ record # NoRecord /\ record.pending /\ record.fingerprint = HashOf[r]
        /\ request[r].at = "own" => executed = <<>>
        /\ \A q \in Request : Owner(q) => q = r
        /\ \A q \in Request : ~Result(q)
    BY <1>11 DEF Panic, SameBehindClaim
  <2>4. \A q \in Request : q # r => ~Result(q)'
                                        /\ ~Owner(q)' /\ request'[q].at # "bare"
    BY <2>2, <2>3
  <2>5. Len(executed') = 1
    BY <2>3, <1>11 DEF Panic
  <2>6. ~Owner(r)' /\ (Result(r)' => request'[r].answer = record'.result)
    BY <2>1, <2>2
  <2>7. \A q \in Request : request'[q].answer = "conflict" => ~Same(q)'
    BY <1>1, <2>1, <2>2, <2>3
  <2>8. QED
    BY <2>1, <2>2, <2>4, <2>5, <2>6, <2>7
<1>12. ASSUME NEW r \in Request, Complete(r) PROVE OneOwner'
  <2> SUFFICES ASSUME ~fault, ~expired PROVE OneOwner'
    BY <1>12 DEF Complete
  <2>1. /\ record' # NoRecord /\ ~record'.pending
        /\ record'.fingerprint = HashOf[r] /\ record'.result = r
    BY <1>1, <1>12, RecordsAreTyped DEF Complete, Completed
  <2>2. /\ request'[r] = [at |-> "answered", answer |-> r]
        /\ \A q \in Request : q # r => request'[q] = request[q]
    BY <1>12, AnswerEnds DEF Complete, Answers
  <2>3. /\ record # NoRecord /\ record.pending /\ record.fingerprint = HashOf[r]
        /\ request[r].at = "own" => executed = <<>>
        /\ \A q \in Request : Owner(q) => q = r
        /\ \A q \in Request : ~Result(q)
    BY <1>12 DEF Complete, SameBehindClaim
  <2>4. \A q \in Request : q # r => ~Result(q)'
                                        /\ ~Owner(q)' /\ request'[q].at # "bare"
    BY <2>2, <2>3
  <2>5. Len(executed') <= 1
    BY <1>12 DEF Complete
  <2>6. ~Owner(r)' /\ (Result(r)' => request'[r].answer = record'.result)
    BY <2>1, <2>2
  <2>7. \A q \in Request : request'[q].answer = "conflict" => ~Same(q)'
    BY <1>1, <2>1, <2>2, <2>3
  <2>8. QED
    BY <2>1, <2>2, <2>4, <2>5, <2>6, <2>7
<1>13. ASSUME NEW r \in Request, CompleteFails(r) PROVE OneOwner'
  BY <1>13 DEF CompleteFails
<1>14. CASE Expire
  BY <1>14 DEF Expire
<1>15. CASE Crash
  <2> SUFFICES ASSUME ~fault, ~expired PROVE OneOwner'
    BY <1>15 DEF Crash
  <2>1. UNCHANGED <<record, executed, fault, expired>>
    BY <1>15 DEF Crash
  <2>2. /\ \A q \in Request : request'[q].answer = request[q].answer
        /\ \A q \in Request : request'[q].at =
             IF request[q].at \in {"new", "answered", "gone"} THEN request[q].at ELSE "gone"
    BY <1>15 DEF Crash, RequestState
  <2>3. record # NoRecord
    BY <1>15 DEF Crash
  <2>4. \A q \in Request : ~Owner(q)' /\ request'[q].at # "bare"
    BY <2>2
  <2>5. record.pending => \E r \in Request : OwnerOrGone(r)'
    BY <2>1, <2>2, <2>3, <2>4
  <2>6. \E r \in Request : record.fingerprint = HashOf[r]
                            /\ request'[r].at \in {"own", "ran", "answered", "gone"}
    BY <2>2, <2>3
  <2>7. QED
    BY <2>1, <2>2, <2>3, <2>4, <2>5, <2>6
<1>16. CASE UNCHANGED idemVars
  BY <1>16 DEF idemVars
<1>17. QED
  BY <1>3, <1>4, <1>5, <1>6, <1>7, <1>8, <1>9, <1>10, <1>11, <1>12, <1>13, <1>14, <1>15, <1>16
     DEF IdemNext

\* One key executes once: as long as the store answers and the record lives, and
\* although the process may die at any step, the handler runs at most once, all
\* results agree, only other bodies are refused, and a pending record has an owner
\* or lost it to a crash, after which nobody owns it (idempotencyMiddleware).
THEOREM OneExecutionCorrect ==
  IdemSpec => []OneExecution
<1>1. IdemInit => IdemIInv
  <2>1. IdemInit => IdemTyped
    BY TypesInitially
  <2>2. IdemInit => SameBehindClaim /\ OneOwner
    BY IdempotencyAssumption DEF IdemInit, SameBehindClaim, OneOwner, Owner, Result
  <2>3. QED
    BY <2>1, <2>2 DEF IdemIInv
<1>2. IdemIInv /\ [IdemNext]_idemVars => IdemIInv'
  BY TypesKept, SameKept, OwnerKept DEF IdemIInv
<1>3. IdemIInv => OneExecution
  <2> SUFFICES ASSUME IdemIInv PROVE OneExecution
    OBVIOUS
  <2> USE DEF IdemIInv
  <2>1. ASSUME ~fault, ~expired
        PROVE  /\ Len(executed) <= 1
               /\ \A r, q \in Request : Result(r) /\ Result(q)
                       => request[r].answer = request[q].answer
               /\ record # NoRecord /\ record.pending =>
                    \E r \in Request :
                      /\ Same(r) /\ request[r].at \in {"own", "ran", "gone"}
                      /\ request[r].at = "gone" => \A q \in Request : request[q].at # "own"
    BY <2>1 DEF OneOwner, SameBehindClaim, Owner, OwnerOrGone
  <2>2. ASSUME ~fault, ~expired, NEW r \in Request, request[r].answer = "conflict"
        PROVE  \E q \in Request : HashOf[q] # HashOf[r]
                /\ request[q].at \in {"own", "ran", "answered", "gone"}
    BY <2>2 DEF OneOwner, Same
  <2>3. ASSUME ~expired, NEW r \in Request, NEW q \in Request, request[r].answer = q
        PROVE  HashOf[q] = HashOf[r]
    BY <2>3 DEF SameBehindClaim
  <2>4. QED
    BY <2>1, <2>2, <2>3 DEF OneExecution
<1>4. QED
  BY <1>1, <1>2, <1>3, PTL DEF IdemSpec
-----------------------------------------------------------------------------
(***************************************************************************)
(* Theorems about ProxyConfig, for any number of subscriptions.            *)
(*                                                                         *)
(* That Mihomo runs the stored subscription after a failed change rests on *)
(* what the operation noted before its first step: the stored record and   *)
(* the file (Noted), and on the file, which between two operations belongs *)
(* to the stored subscription or is not there (Familiar).  Without that    *)
(* the rollback would write back and load a file of somebody else.         *)
(***************************************************************************)
Place == {"idle", "load", "write", "reload", "group", "test", "save", "base", "remove",
          "delete", "undoFile", "undoReload"}
PlacesOf(op) ==
  CASE op = "none"    -> {"idle"}
    [] op = "apply"   -> {"load", "write", "reload", "group", "test", "save", "undoFile",
                          "undoReload"}
    [] op = "clear"   -> {"load", "base", "remove", "delete", "undoFile", "undoReload"}
    [] op = "restore" -> {"load", "write", "reload", "group", "test", "undoFile", "undoReload"}

CallTyped ==
  /\ call \in [op : {"none", "apply", "clear", "restore"}, at : Place, url : Config,
               prev : Config, prevFile : Config, stage : Stages, cancelled : BOOLEAN]
  /\ call.at \in PlacesOf(call.op)
  /\ call.op = "apply" => call.url \in Url
  /\ call.at = "idle" => call = NoCall

ProxyTyped == ProxyTypeOK /\ CallTyped

\* Mihomo runs what is stored, or the base after a start that failed.
InStep         == live = stored \/ (fallback /\ live = NoUrl)
Familiar(file) == stored = NoUrl \/ file \in {NoUrl, stored}

\* Before the first change.
Untouched ==
  /\ call.at \in {"idle", "load", "write", "reload", "base"} => doubt \/ InStep
  /\ call.at \in {"idle", "load"} => doubt \/ Familiar(runtime)

\* What was noted is what is stored, until a write of the store is in doubt.
Noted ==
  /\ call.at \notin {"idle", "load"} => doubt \/ (stored = call.prev /\ Familiar(call.prevFile))
  /\ call.at \in {"write", "base", "remove"} => runtime = call.prevFile

\* How far the change has come.
Changed ==
  /\ call.at \in {"reload", "group", "test", "save"} => runtime = call.url
  /\ call.at \in {"group", "test", "save"} => live = call.url
  /\ call.at = "save" => call.url \in validated
  /\ call.at \in {"remove", "delete"} => live = NoUrl
  /\ call.at = "delete" => runtime = NoUrl

\* The start-up changes no record; what it undoes is its own file.
Restored ==
  call.op = "restore" /\ call.at # "load" =>
    /\ stored = call.prev /\ call.url = call.prev /\ stored # NoUrl
    /\ call.at \in {"undoFile", "undoReload"} => runtime \in {NoUrl, stored}

\* The file is back before the second reload.
Undone ==
  call.at = "undoReload" /\ call.op # "restore" =>
    doubt \/ call.prev = NoUrl \/ runtime = call.prev

StoredIsValidated == stored # NoUrl => stored \in validated

ProxyIInv == ProxyTyped /\ Untouched /\ Noted /\ Changed /\ Restored /\ Undone /\ StoredIsValidated
-----------------------------------------------------------------------------
(***************************************************************************)
(* The call that holds operationMu.                                        *)
(***************************************************************************)
\* It goes on to a place of its operation, perhaps with an error to report.
LEMMA CallMoves ==
  ASSUME CallTyped, NEW p \in PlacesOf(call.op), p # "idle", NEW s \in Stages,
         call' = [call EXCEPT !.at = p] \/ call' = [call EXCEPT !.at = p, !.stage = s]
  PROVE  /\ CallTyped'
         /\ call'.at = p /\ call'.op = call.op /\ call'.url = call.url
         /\ call'.prev = call.prev /\ call'.prevFile = call.prevFile
<1>1. call \in [op : {"none", "apply", "clear", "restore"}, at : Place, url : Config,
                prev : Config, prevFile : Config, stage : Stages, cancelled : BOOLEAN]
  BY DEF CallTyped
<1>2. p \in Place
  BY <1>1 DEF PlacesOf, Place
<1>3. /\ call'.at = p /\ call'.op = call.op /\ call'.url = call.url
      /\ call'.prev = call.prev /\ call'.prevFile = call.prevFile
  BY <1>1
<1>4. call' \in [op : {"none", "apply", "clear", "restore"}, at : Place, url : Config,
                 prev : Config, prevFile : Config, stage : Stages, cancelled : BOOLEAN]
  BY <1>1, <1>2
<1> QED
  BY <1>3, <1>4 DEF CallTyped

\* The operation is over.
LEMMA CallEnds ==
  ASSUME call' = NoCall
  PROVE  CallTyped' /\ call'.at = "idle" /\ call'.op = "none"
BY DEF CallTyped, NoCall, Config, Stages, Place, PlacesOf

\* The places of an operation, one by one.
LEMMA CallPlaces ==
  ASSUME CallTyped
  PROVE  /\ call.at \in Place /\ call.url \in Config /\ call.prev \in Config
         /\ call.prevFile \in Config /\ call.stage \in Stages /\ call.at \in PlacesOf(call.op)
         /\ call.op \in {"none", "apply", "clear", "restore"}
BY DEF CallTyped

\* The status that an operation leaves.
LEMMA StatusIsTyped ==
  ASSUME NEW asked, NEW s \in Stages, Finish(asked, s)
  PROVE  /\ last' \in [configured : BOOLEAN, stage : Stages] /\ serving' \in BOOLEAN
         /\ call' = NoCall
BY DEF Finish

\* Between two operations the invariant is what the record, the file and Mihomo
\* show.
LEMMA EndKeeps ==
  ASSUME ProxyTyped, call' = NoCall, ProxyTypeOK', (doubt \/ (InStep /\ Familiar(runtime)))',
         StoredIsValidated'
  PROVE  ProxyIInv'
BY CallEnds DEF ProxyIInv, ProxyTyped, Untouched, Noted, Changed, Restored, Undone

\* Whatever was changed, a step to the rollback needs no more than the notes.
LEMMA UndoKeeps ==
  ASSUME ProxyIInv, NEW s \in Stages, Undo(s), "undoFile" \in PlacesOf(call.op), ProxyTypeOK',
         \/ doubt' /\ call.op # "restore"
         \/ doubt' = doubt /\ stored' = stored /\ call.at \notin {"idle", "load"},
         call.op = "restore" => runtime' \in {NoUrl, stored} /\ call.at # "load",
         StoredIsValidated'
  PROVE  ProxyIInv'
<1>1. /\ CallTyped' /\ call'.at = "undoFile" /\ call'.op = call.op /\ call'.url = call.url
      /\ call'.prev = call.prev /\ call'.prevFile = call.prevFile
  BY CallMoves DEF ProxyIInv, ProxyTyped, Undo
<1> QED
  BY <1>1 DEF ProxyIInv, ProxyTyped, Untouched, Noted, Changed, Restored, Undone, Familiar
-----------------------------------------------------------------------------
(***************************************************************************)
(* A request begins and reads what is stored.                              *)
(***************************************************************************)
\* The mutex is taken, or nothing but the status changes.
LEMMA BeginKeeps ==
  ASSUME ProxyIInv,
         \/ \E url \in Url : BeginCall("apply", url)
         \/ BeginCall("clear", NoUrl) \/ BeginCall("restore", NoUrl)
  PROVE  ProxyIInv'
<1>1. PICK op \in {"apply", "clear", "restore"}, url \in Config :
        /\ call = NoCall /\ call' = [NoCall EXCEPT !.op = op, !.at = "load", !.url = url]
        /\ op = "apply" => url \in Url
        /\ UNCHANGED <<stored, runtime, live, last, serving, validated, fallback, doubt>>
  BY DEF BeginCall, Config
<1>2. /\ call' = [op |-> op, at |-> "load", url |-> url, prev |-> NoUrl, prevFile |-> NoUrl,
                  stage |-> "none", cancelled |-> FALSE]
      /\ call.at = "idle"
  BY <1>1 DEF NoCall
<1>3. CallTyped'
  <2>1. /\ call'.op = op /\ call'.at = "load" /\ call'.url = url /\ call'.prev = NoUrl
        /\ call'.prevFile = NoUrl /\ call'.stage = "none" /\ call'.cancelled = FALSE
    BY <1>2
  <2>2. /\ "load" \in Place /\ "none" \in Stages /\ NoUrl \in Config /\ url \in Config
        /\ op \in {"none", "apply", "clear", "restore"} /\ FALSE \in BOOLEAN
    BY <1>1 DEF Place, Stages, Config
  <2>3. call' \in [op : {"none", "apply", "clear", "restore"}, at : Place, url : Config,
                   prev : Config, prevFile : Config, stage : Stages, cancelled : BOOLEAN]
    BY <1>2, <2>2
  <2>4. call'.at \in PlacesOf(call'.op)
    BY <1>1, <2>1 DEF PlacesOf
  <2> QED
    BY <1>1, <2>1, <2>3, <2>4 DEF CallTyped
<1> QED
  BY <1>1, <1>2, <1>3
     DEF ProxyIInv, ProxyTyped, ProxyTypeOK, Untouched, Noted, Changed, Restored, Undone,
         StoredIsValidated, InStep, Familiar

\* What the rollback needs is noted before the first change.
LEMMA LoadKeeps ==
  ASSUME ProxyIInv, Load \/ LoadFails \/ InvalidUrl
  PROVE  ProxyIInv'
<1>1. /\ call.at = "load"
      /\ UNCHANGED <<stored, runtime, live, validated, fallback, doubt>>
      /\ serving' \in BOOLEAN /\ last' \in [configured : BOOLEAN, stage : Stages]
  <2>1. CASE Load
    BY <2>1 DEF ProxyIInv, ProxyTyped, ProxyTypeOK, Load
  <2>2. CASE LoadFails
    BY <2>2, StatusIsTyped DEF ProxyIInv, ProxyTyped, ProxyTypeOK, LoadFails, Stages
  <2>3. CASE InvalidUrl
    BY <2>3, StatusIsTyped DEF InvalidUrl, Stages
  <2> QED
    BY <2>1, <2>2, <2>3
<1>2. StoredIsValidated' /\ (doubt \/ (InStep /\ Familiar(runtime)))
  BY <1>1 DEF ProxyIInv, StoredIsValidated, Untouched
<1>3. CASE call' = NoCall
  <2>1. ProxyTypeOK'
    BY <1>1, <1>3, CallEnds, CallPlaces DEF ProxyIInv, ProxyTyped, ProxyTypeOK, NoCall, Config
  <2> QED
    BY <1>1, <1>2, <1>3, <2>1, EndKeeps DEF ProxyIInv, InStep, Familiar
<1>4. CASE call' # NoCall
  <2>1. /\ ~(call.op = "restore" /\ stored = NoUrl)
        /\ call' = [call EXCEPT !.prev = stored, !.prevFile = runtime,
                      !.url = IF call.op = "restore" THEN stored ELSE @,
                      !.at = IF call.op = "clear" THEN "base" ELSE "write"]
    BY <1>4 DEF Load, LoadFails, InvalidUrl, Finish
  <2>2. /\ call'.op = call.op /\ call'.prev = stored /\ call'.prevFile = runtime
        /\ call'.url = (IF call.op = "restore" THEN stored ELSE call.url)
        /\ call'.at = (IF call.op = "clear" THEN "base" ELSE "write")
    BY <2>1 DEF ProxyIInv, ProxyTyped, CallTyped
  <2>3. CallTyped'
    <3>1. call.op \in {"apply", "clear", "restore"}
      BY <1>1 DEF ProxyIInv, ProxyTyped, CallTyped, PlacesOf
    <3>2. call'.at \in PlacesOf(call.op) /\ call'.at \in Place /\ call'.at # "idle"
      BY <2>2, <3>1 DEF PlacesOf, Place
    <3>3. stored \in Config /\ runtime \in Config /\ call'.url \in Config
      BY <2>2, CallPlaces DEF ProxyIInv, ProxyTyped, ProxyTypeOK
    <3>4. call' \in [op : {"none", "apply", "clear", "restore"}, at : Place, url : Config,
                     prev : Config, prevFile : Config, stage : Stages, cancelled : BOOLEAN]
      BY <2>1, <2>2, <3>2, <3>3 DEF ProxyIInv, ProxyTyped, CallTyped
    <3> QED
      BY <2>2, <3>2, <3>4 DEF ProxyIInv, ProxyTyped, CallTyped
  <2>4. ProxyTypeOK'
    BY <1>1, <2>2, CallPlaces DEF ProxyIInv, ProxyTyped, ProxyTypeOK
  <2>5. Untouched' /\ Noted'
    BY <1>1, <1>2, <2>2 DEF Untouched, Noted, InStep, Familiar
  <2>6. Changed' /\ Restored' /\ Undone'
    BY <1>1, <2>1, <2>2 DEF Changed, Restored, Undone
  <2> QED
    BY <1>2, <2>3, <2>4, <2>5, <2>6 DEF ProxyIInv, ProxyTyped
<1> QED
  BY <1>3, <1>4
-----------------------------------------------------------------------------
(***************************************************************************)
(* Apply and the start-up.                                                 *)
(***************************************************************************)
\* The file is written before Mihomo is told, or nothing is.
LEMMA WriteKeeps ==
  ASSUME ProxyIInv, WriteRuntime \/ WriteFails
  PROVE  ProxyIInv'
<1>1. /\ call.at = "write" /\ call.op \in {"apply", "restore"}
      /\ UNCHANGED <<stored, live, validated, fallback, doubt>>
  BY CallPlaces DEF ProxyIInv, ProxyTyped, PlacesOf, WriteRuntime, WriteFails
<1>2. CASE WriteRuntime
  <2>1. /\ CallTyped' /\ call'.at = "reload" /\ call'.op = call.op /\ call'.url = call.url
        /\ call'.prev = call.prev /\ call'.prevFile = call.prevFile
    <3>1. "reload" \in PlacesOf(call.op)
      BY <1>1 DEF PlacesOf
    <3> QED
      BY <1>2, <3>1, CallMoves, CallPlaces DEF ProxyIInv, ProxyTyped, WriteRuntime, GoOn
  <2>2. ProxyTypeOK' /\ runtime' = call.url
    BY <1>2, <2>1, CallPlaces DEF ProxyIInv, ProxyTyped, ProxyTypeOK, WriteRuntime
  <2> QED
    BY <1>1, <2>1, <2>2
       DEF ProxyIInv, ProxyTyped, Untouched, Noted, Changed, Restored, Undone, StoredIsValidated,
           InStep, Familiar
<1>3. CASE WriteFails
  <2>1. call' = NoCall /\ runtime' = runtime
    BY <1>3 DEF WriteFails, Finish
  <2>2. last' \in [configured : BOOLEAN, stage : Stages] /\ serving' \in BOOLEAN
    BY <1>3 DEF WriteFails, Finish, Stages
  <2>3. ProxyTypeOK'
    BY <1>1, <2>1, <2>2, CallPlaces DEF ProxyIInv, ProxyTyped, ProxyTypeOK, NoCall, Config
  <2>4. (doubt \/ (InStep /\ Familiar(runtime)))' /\ StoredIsValidated'
    BY <1>1, <2>1 DEF ProxyIInv, Untouched, Noted, InStep, Familiar, StoredIsValidated
  <2> QED
    BY <2>1, <2>3, <2>4, EndKeeps DEF ProxyIInv
<1> QED
  BY <1>2, <1>3

\* Mihomo has the file of this call, or has been told something and is rolled back.
LEMMA ReloadKeeps ==
  ASSUME ProxyIInv, NEW outcome \in Outcomes, ReloadRuntime(outcome)
  PROVE  ProxyIInv'
<1>1. /\ call.at = "reload" /\ call.op \in {"apply", "restore"}
      /\ runtime = call.url /\ live' \in {live, runtime}
      /\ UNCHANGED <<stored, runtime, validated, fallback, doubt>>
  BY CallPlaces DEF ProxyIInv, ProxyTyped, PlacesOf, Changed, ReloadRuntime, Reload
<1>2. CASE outcome = "done"
  <2>1. /\ CallTyped' /\ call'.at = "group" /\ call'.op = call.op /\ call'.url = call.url
        /\ call'.prev = call.prev /\ call'.prevFile = call.prevFile
    <3>1. "group" \in PlacesOf(call.op)
      BY <1>1 DEF PlacesOf
    <3> QED
      BY <1>2, <3>1, CallMoves, CallPlaces DEF ProxyIInv, ProxyTyped, ReloadRuntime, GoOn
  <2>2. ProxyTypeOK' /\ live' = call.url
    BY <1>1, <1>2, <2>1, CallPlaces DEF ProxyIInv, ProxyTyped, ProxyTypeOK, ReloadRuntime, Reload
  <2> QED
    BY <1>1, <2>1, <2>2
       DEF ProxyIInv, ProxyTyped, Untouched, Noted, Changed, Restored, Undone,
           StoredIsValidated, Familiar
<1>3. CASE outcome # "done"
  <2>1. Undo("reload") /\ "reload" \in Stages /\ "undoFile" \in PlacesOf(call.op)
    BY <1>1, <1>3 DEF ReloadRuntime, Stages, PlacesOf
  <2>2. ProxyTypeOK'
    BY <1>1, <2>1, CallMoves, CallPlaces DEF ProxyIInv, ProxyTyped, ProxyTypeOK, Undo
  <2> QED
    BY <1>1, <2>1, <2>2, UndoKeeps DEF ProxyIInv, Restored, StoredIsValidated
<1> QED
  BY <1>2, <1>3

\* Nodes, then connectivity: only then is the subscription a validated one.
LEMMA TestKeeps ==
  ASSUME ProxyIInv, NEW ok \in BOOLEAN, WaitForGroup(ok) \/ TestConnectivity(ok)
  PROVE  ProxyIInv'
<1>1. /\ call.at \in {"group", "test"} /\ call.op \in {"apply", "restore"}
      /\ runtime = call.url /\ live = call.url
      /\ UNCHANGED <<stored, runtime, live>>
  BY CallPlaces DEF ProxyIInv, ProxyTyped, PlacesOf, Changed, WaitForGroup, TestConnectivity
<1>2. call.url \in Url
  <2>1. CASE call.op = "restore"
    BY <1>1, <2>1 DEF ProxyIInv, ProxyTyped, ProxyTypeOK, Restored, Config
  <2> QED
    BY <1>1, <2>1 DEF ProxyIInv, ProxyTyped, CallTyped
<1>3. CASE ~ok
  <2>1. PICK s \in Stages : Undo(s)
    BY <1>3 DEF WaitForGroup, TestConnectivity, Stages
  <2>2. "undoFile" \in PlacesOf(call.op) /\ UNCHANGED <<validated, fallback, doubt>>
    BY <1>1, <1>3 DEF PlacesOf, WaitForGroup, TestConnectivity
  <2>3. ProxyTypeOK'
    BY <1>1, <2>1, <2>2, CallMoves, CallPlaces DEF ProxyIInv, ProxyTyped, ProxyTypeOK, Undo
  <2> QED
    BY <1>1, <2>1, <2>2, <2>3, UndoKeeps DEF ProxyIInv, Restored, StoredIsValidated
<1>4. CASE ok /\ call' # NoCall
  <2>1. PICK p \in {"test", "save"} :
          /\ GoOn(p) /\ p \in PlacesOf(call.op)
          /\ p = "save" => call.op = "apply" /\ validated' = validated \cup {call.url}
    BY <1>1, <1>4 DEF WaitForGroup, TestConnectivity, Finish, PlacesOf
  <2>2. /\ CallTyped' /\ call'.at = p /\ call'.op = call.op /\ call'.url = call.url
        /\ call'.prev = call.prev /\ call'.prevFile = call.prevFile
    BY <2>1, CallMoves, CallPlaces DEF ProxyIInv, ProxyTyped, GoOn
  <2>3. /\ UNCHANGED <<last, serving, fallback, doubt>>
        /\ validated' \in {validated, validated \cup {call.url}}
    BY <1>1, <1>4 DEF WaitForGroup, TestConnectivity, Finish
  <2>4. ProxyTypeOK'
    BY <1>1, <1>2, <2>2, <2>3, CallPlaces DEF ProxyIInv, ProxyTyped, ProxyTypeOK
  <2> QED
    BY <1>1, <2>1, <2>2, <2>3, <2>4
       DEF ProxyIInv, ProxyTyped, Untouched, Noted, Changed, Restored, Undone,
           StoredIsValidated, Familiar
<1>5. CASE ok /\ call' = NoCall
  <2>1. call.op = "restore" /\ fallback' = FALSE /\ doubt' = FALSE
        /\ validated' = validated \cup {call.url} /\ Finish(call.prev, "none")
    BY <1>1, <1>5 DEF WaitForGroup, TestConnectivity, GoOn, NoCall
  <2>2. stored = call.url
    BY <1>1, <2>1 DEF ProxyIInv, Restored
  <2>3. last' \in [configured : BOOLEAN, stage : Stages] /\ serving' \in BOOLEAN
    BY <2>1 DEF Finish, Stages
  <2>4. ProxyTypeOK'
    BY <1>1, <1>2, <1>5, <2>1, <2>3, CallPlaces
       DEF ProxyIInv, ProxyTyped, ProxyTypeOK, NoCall, Config
  <2>5. (doubt \/ (InStep /\ Familiar(runtime)))' /\ StoredIsValidated'
    BY <1>1, <2>1, <2>2 DEF InStep, Familiar, StoredIsValidated
  <2> QED
    BY <1>5, <2>4, <2>5, EndKeeps DEF ProxyIInv
<1> QED
  BY <1>3, <1>4, <1>5

\* The record is the last thing an Apply writes.
LEMMA SaveKeeps ==
  ASSUME ProxyIInv, Save \/ \E effect \in BOOLEAN : SaveFails(effect)
  PROVE  ProxyIInv'
<1>1. /\ call.at = "save" /\ call.op = "apply" /\ call.url \in Url /\ call.url \in validated
      /\ runtime = call.url /\ live = call.url
      /\ UNCHANGED <<runtime, live, validated>>
      /\ stored' \in {stored, call.url}
  BY CallPlaces DEF ProxyIInv, ProxyTyped, CallTyped, PlacesOf, Changed, Save, SaveFails
<1>2. StoredIsValidated' /\ stored' \in Config
  BY <1>1 DEF ProxyIInv, ProxyTyped, ProxyTypeOK, StoredIsValidated, Config
<1>3. CASE Save
  <2>1. stored' = call.url /\ Finish(call.url, "none") /\ fallback' = FALSE /\ doubt' = FALSE
    BY <1>3 DEF Save
  <2>2. /\ last' \in [configured : BOOLEAN, stage : Stages] /\ serving' \in BOOLEAN
        /\ call' = NoCall
    BY <2>1, StatusIsTyped DEF Stages
  <2>3. ProxyTypeOK'
    BY <1>1, <1>2, <2>1, <2>2 DEF ProxyIInv, ProxyTyped, ProxyTypeOK, NoCall, Config
  <2>4. (doubt \/ (InStep /\ Familiar(runtime)))'
    BY <1>1, <2>1 DEF InStep, Familiar
  <2> QED
    BY <1>2, <2>2, <2>3, <2>4, EndKeeps DEF ProxyIInv
<1>4. ASSUME NEW effect \in BOOLEAN, SaveFails(effect)
      PROVE  ProxyIInv'
  <2>1. /\ Undo("storage") /\ doubt' = (doubt \/ effect) /\ fallback' = fallback
        /\ "storage" \in Stages /\ "undoFile" \in PlacesOf(call.op)
        /\ effect \/ stored' = stored
    BY <1>1, <1>4 DEF SaveFails, Stages, PlacesOf
  <2>2. ProxyTypeOK'
    BY <1>1, <1>2, <2>1, CallMoves, CallPlaces DEF ProxyIInv, ProxyTyped, ProxyTypeOK, Undo
  <2>3. \/ doubt' /\ call.op # "restore"
        \/ doubt' = doubt /\ stored' = stored /\ call.at \notin {"idle", "load"}
    BY <1>1, <2>1 DEF ProxyIInv, ProxyTyped, ProxyTypeOK
  <2> QED
    BY <1>1, <1>2, <2>1, <2>2, <2>3, UndoKeeps
<1> QED
  BY <1>3, <1>4
-----------------------------------------------------------------------------
(***************************************************************************)
(* Clear.                                                                  *)
(***************************************************************************)
\* Nothing is undone when the base configuration is refused; when the answer is
\* lost it may be running.
LEMMA ReloadBaseKeeps ==
  ASSUME ProxyIInv, NEW outcome \in Outcomes, ReloadBase(outcome)
  PROVE  ProxyIInv'
<1>1. /\ call.at = "base" /\ call.op = "clear"
      /\ live' = (IF outcome = "refused" THEN live ELSE NoUrl)
      /\ doubt' = (doubt \/ outcome = "lost")
      /\ UNCHANGED <<stored, runtime, validated, fallback>>
  BY CallPlaces DEF ProxyIInv, ProxyTyped, PlacesOf, ReloadBase, Reload
<1>2. StoredIsValidated' /\ live' \in Config
  BY <1>1 DEF ProxyIInv, ProxyTyped, ProxyTypeOK, StoredIsValidated, Config
<1>3. CASE outcome = "done"
  <2>1. /\ GoOn("remove") /\ UNCHANGED <<last, serving>> /\ "remove" \in PlacesOf(call.op)
    BY <1>1, <1>3 DEF ReloadBase, PlacesOf
  <2>2. /\ CallTyped' /\ call'.at = "remove" /\ call'.op = call.op /\ call'.url = call.url
        /\ call'.prev = call.prev /\ call'.prevFile = call.prevFile
    BY <2>1, CallMoves, CallPlaces DEF ProxyIInv, ProxyTyped, GoOn
  <2>3. ProxyTypeOK' /\ live' = NoUrl
    BY <1>1, <1>2, <1>3, <2>1, <2>2, CallPlaces DEF ProxyIInv, ProxyTyped, ProxyTypeOK
  <2> QED
    BY <1>1, <1>2, <2>2, <2>3
       DEF ProxyIInv, ProxyTyped, Untouched, Noted, Changed, Restored, Undone, Familiar
<1>4. CASE outcome # "done"
  <2>1. Finish(call.prev, "reload")
    BY <1>4 DEF ReloadBase
  <2>2. /\ last' \in [configured : BOOLEAN, stage : Stages] /\ serving' \in BOOLEAN
        /\ call' = NoCall
    BY <2>1, StatusIsTyped DEF Stages
  <2>3. ProxyTypeOK'
    BY <1>1, <1>2, <2>2 DEF ProxyIInv, ProxyTyped, ProxyTypeOK, NoCall, Config
  <2>4. (doubt \/ (InStep /\ Familiar(runtime)))'
    <3>1. doubt \/ (InStep /\ runtime = call.prevFile /\ Familiar(call.prevFile))
      BY <1>1 DEF ProxyIInv, Untouched, Noted
    <3>2. doubt' \/ live' = live
      BY <1>1, <1>4 DEF Outcomes
    <3> QED
      BY <1>1, <3>1, <3>2 DEF InStep, Familiar
  <2> QED
    BY <1>2, <2>2, <2>3, <2>4, EndKeeps DEF ProxyIInv
<1> QED
  BY <1>3, <1>4

\* Then the file.
LEMMA RemoveKeeps ==
  ASSUME ProxyIInv, NEW ok \in BOOLEAN, RemoveRuntime(ok)
  PROVE  ProxyIInv'
<1>1. /\ call.at = "remove" /\ call.op = "clear" /\ live = NoUrl
      /\ runtime' = (IF ok THEN NoUrl ELSE runtime)
      /\ UNCHANGED <<stored, live, validated, fallback, doubt>>
  BY CallPlaces DEF ProxyIInv, ProxyTyped, PlacesOf, Changed, RemoveRuntime
<1>2. StoredIsValidated' /\ runtime' \in Config
  BY <1>1 DEF ProxyIInv, ProxyTyped, ProxyTypeOK, StoredIsValidated, Config
<1>3. CASE ok
  <2>1. /\ GoOn("delete") /\ UNCHANGED <<last, serving>> /\ "delete" \in PlacesOf(call.op)
    BY <1>1, <1>3 DEF RemoveRuntime, PlacesOf
  <2>2. /\ CallTyped' /\ call'.at = "delete" /\ call'.op = call.op /\ call'.url = call.url
        /\ call'.prev = call.prev /\ call'.prevFile = call.prevFile
    BY <2>1, CallMoves, CallPlaces DEF ProxyIInv, ProxyTyped, GoOn
  <2>3. ProxyTypeOK'
    BY <1>1, <1>2, <2>1, <2>2, CallPlaces DEF ProxyIInv, ProxyTyped, ProxyTypeOK
  <2> QED
    BY <1>1, <1>2, <1>3, <2>2, <2>3
       DEF ProxyIInv, ProxyTyped, Untouched, Noted, Changed, Restored, Undone, Familiar
<1>4. CASE ~ok
  <2>1. Undo("write") /\ "write" \in Stages /\ "undoFile" \in PlacesOf(call.op)
    BY <1>1, <1>4 DEF RemoveRuntime, Stages, PlacesOf
  <2>2. ProxyTypeOK'
    BY <1>1, <1>2, <2>1, CallMoves, CallPlaces DEF ProxyIInv, ProxyTyped, ProxyTypeOK, Undo
  <2> QED
    BY <1>1, <1>2, <2>1, <2>2, UndoKeeps
<1> QED
  BY <1>3, <1>4

\* And the record.
LEMMA DeleteKeeps ==
  ASSUME ProxyIInv, Delete \/ \E effect \in BOOLEAN : DeleteFails(effect)
  PROVE  ProxyIInv'
<1>1. /\ call.at = "delete" /\ call.op = "clear" /\ runtime = NoUrl /\ live = NoUrl
      /\ UNCHANGED <<runtime, live, validated>>
      /\ stored' \in {stored, NoUrl}
  BY CallPlaces DEF ProxyIInv, ProxyTyped, PlacesOf, Changed, Delete, DeleteFails
<1>2. StoredIsValidated' /\ stored' \in Config
  BY <1>1 DEF ProxyIInv, ProxyTyped, ProxyTypeOK, StoredIsValidated, Config
<1>3. CASE Delete
  <2>1. stored' = NoUrl /\ Finish(NoUrl, "none") /\ fallback' = FALSE /\ doubt' = FALSE
    BY <1>3 DEF Delete
  <2>2. /\ last' \in [configured : BOOLEAN, stage : Stages] /\ serving' \in BOOLEAN
        /\ call' = NoCall
    BY <2>1, StatusIsTyped DEF Stages
  <2>3. ProxyTypeOK'
    BY <1>1, <1>2, <2>1, <2>2 DEF ProxyIInv, ProxyTyped, ProxyTypeOK, NoCall, Config
  <2>4. (doubt \/ (InStep /\ Familiar(runtime)))'
    BY <1>1, <2>1 DEF InStep, Familiar
  <2> QED
    BY <1>2, <2>2, <2>3, <2>4, EndKeeps DEF ProxyIInv
<1>4. ASSUME NEW effect \in BOOLEAN, DeleteFails(effect)
      PROVE  ProxyIInv'
  <2>1. /\ Undo("storage") /\ doubt' = (doubt \/ effect) /\ fallback' = fallback
        /\ "storage" \in Stages /\ "undoFile" \in PlacesOf(call.op)
        /\ effect \/ stored' = stored
    BY <1>1, <1>4 DEF DeleteFails, Stages, PlacesOf
  <2>2. ProxyTypeOK'
    BY <1>1, <1>2, <2>1, CallMoves, CallPlaces DEF ProxyIInv, ProxyTyped, ProxyTypeOK, Undo
  <2>3. \/ doubt' /\ call.op # "restore"
        \/ doubt' = doubt /\ stored' = stored /\ call.at \notin {"idle", "load"}
    BY <1>1, <2>1 DEF ProxyIInv, ProxyTyped, ProxyTypeOK
  <2> QED
    BY <1>1, <1>2, <2>1, <2>2, <2>3, UndoKeeps
<1> QED
  BY <1>3, <1>4
-----------------------------------------------------------------------------
(***************************************************************************)
(* The rollback.                                                           *)
(***************************************************************************)
\* The file that is put back belongs to the record that was noted.
LEMMA UndoFileKeeps ==
  ASSUME ProxyIInv, NEW ok \in BOOLEAN, UndoFile(ok)
  PROVE  ProxyIInv'
<1>1. /\ call.at = "undoFile" /\ call.op \in {"apply", "clear", "restore"}
      /\ runtime' = (IF ok THEN UndoneFile ELSE runtime)
      /\ UNCHANGED <<stored, live, validated, fallback>>
  BY CallPlaces DEF ProxyIInv, ProxyTyped, PlacesOf, UndoFile
<1>2. StoredIsValidated' /\ runtime' \in Config
  BY <1>1, CallPlaces
     DEF ProxyIInv, ProxyTyped, ProxyTypeOK, StoredIsValidated, UndoneFile, Previous, Config
<1>3. CASE ok \/ Previous = NoUrl
  <2>1. /\ GoOn("undoReload") /\ UNCHANGED <<last, serving, doubt>>
        /\ "undoReload" \in PlacesOf(call.op)
    BY <1>1, <1>3 DEF UndoFile, PlacesOf
  <2>2. /\ CallTyped' /\ call'.at = "undoReload" /\ call'.op = call.op /\ call'.url = call.url
        /\ call'.prev = call.prev /\ call'.prevFile = call.prevFile
    BY <2>1, CallMoves, CallPlaces DEF ProxyIInv, ProxyTyped, GoOn
  <2>3. ProxyTypeOK'
    BY <1>1, <1>2, <2>1, <2>2, CallPlaces DEF ProxyIInv, ProxyTyped, ProxyTypeOK
  <2>4. Untouched' /\ Noted' /\ Changed'
    BY <1>1, <2>1, <2>2 DEF ProxyIInv, Untouched, Noted, Changed, Familiar
  <2>5. Restored'
    BY <1>1, <2>2 DEF ProxyIInv, Restored, UndoneFile, Previous
  <2>6. Undone'
    <3>1. call.op # "restore" => doubt \/ call.prev = NoUrl \/ (ok /\ UndoneFile = call.prev)
      BY <1>1, <1>3 DEF ProxyIInv, Noted, Familiar, UndoneFile, Previous
    <3> QED
      BY <1>1, <2>1, <2>2, <3>1 DEF Undone
  <2> QED
    BY <1>2, <2>2, <2>3, <2>4, <2>5, <2>6 DEF ProxyIInv, ProxyTyped
<1>4. CASE ~(ok \/ Previous = NoUrl)
  <2>1. Finish(call.prev, "rollback") /\ doubt' = TRUE
    BY <1>4 DEF UndoFile
  <2>2. /\ last' \in [configured : BOOLEAN, stage : Stages] /\ serving' \in BOOLEAN
        /\ call' = NoCall
    BY <2>1, StatusIsTyped DEF Stages
  <2>3. ProxyTypeOK'
    BY <1>1, <1>2, <2>1, <2>2 DEF ProxyIInv, ProxyTyped, ProxyTypeOK, NoCall, Config
  <2> QED
    BY <1>2, <2>1, <2>2, <2>3, EndKeeps DEF ProxyIInv
<1> QED
  BY <1>3, <1>4

\* Mihomo is told: what was stored again, or the base configuration.
LEMMA UndoReloadKeeps ==
  ASSUME ProxyIInv, NEW outcome \in Outcomes, UndoReload(outcome)
  PROVE  ProxyIInv'
<1>1. /\ call.at = "undoReload" /\ call.op \in {"apply", "clear", "restore"}
      /\ live' = (IF outcome = "refused" THEN live
                  ELSE IF Previous = NoUrl THEN NoUrl ELSE runtime)
      /\ Finish(call.prev, IF outcome = "done" THEN call.stage ELSE "rollback")
      /\ UNCHANGED <<stored, runtime, validated>>
  BY CallPlaces DEF ProxyIInv, ProxyTyped, PlacesOf, UndoReload, Reload
<1>2. StoredIsValidated' /\ live' \in Config
  BY <1>1 DEF ProxyIInv, ProxyTyped, ProxyTypeOK, StoredIsValidated, Config
<1>3. /\ last' \in [configured : BOOLEAN, stage : Stages] /\ serving' \in BOOLEAN
      /\ call' = NoCall
  <2>1. (IF outcome = "done" THEN call.stage ELSE "rollback") \in Stages
    BY CallPlaces DEF ProxyIInv, ProxyTyped, Stages
  <2> QED
    BY <1>1, <2>1, StatusIsTyped
<1>4. fallback' \in BOOLEAN /\ doubt' \in BOOLEAN
  BY DEF ProxyIInv, ProxyTyped, ProxyTypeOK, UndoReload
<1>5. ProxyTypeOK'
  BY <1>1, <1>2, <1>3, <1>4 DEF ProxyIInv, ProxyTyped, ProxyTypeOK, NoCall, Config
<1>6. CASE call.op = "restore" /\ outcome = "done"
  <2>1. fallback' = TRUE /\ live' = NoUrl
    BY <1>1, <1>6 DEF UndoReload, Previous
  <2>2. runtime \in {NoUrl, stored}
    BY <1>1, <1>6 DEF ProxyIInv, Restored
  <2>3. (doubt \/ (InStep /\ Familiar(runtime)))'
    BY <1>1, <2>1, <2>2 DEF InStep, Familiar
  <2> QED
    BY <1>2, <1>3, <1>5, <2>3, EndKeeps DEF ProxyIInv
<1>7. CASE ~(call.op = "restore" /\ outcome = "done")
  <2>1. doubt' = (doubt \/ outcome # "done") /\ fallback' = fallback
    BY <1>7 DEF UndoReload
  <2>2. outcome = "done" => doubt \/ (stored = call.prev /\ Previous = call.prev)
    BY <1>1, <1>7 DEF ProxyIInv, Noted, Previous
  <2>3. outcome = "done" => doubt \/ call.prev = NoUrl \/ runtime = call.prev
    BY <1>1, <1>7 DEF ProxyIInv, Undone
  <2>4. (doubt \/ (InStep /\ Familiar(runtime)))'
    BY <1>1, <2>1, <2>2, <2>3 DEF InStep, Familiar
  <2> QED
    BY <1>2, <1>3, <1>5, <2>4, EndKeeps DEF ProxyIInv
<1> QED
  BY <1>6, <1>7
-----------------------------------------------------------------------------
(***************************************************************************)
(* What is not an operation's own step.                                    *)
(***************************************************************************)
\* A look changes the kept status only.
LEMMA LooksKeep ==
  ASSUME ProxyIInv, \/ \E stage \in Looks : Status(stage)
               \/ \E stage \in Looks \cup {"connectivity"} : Test(stage)
  PROVE  ProxyIInv'
<1>1. UNCHANGED <<stored, runtime, live, call, serving, validated, fallback, doubt>>
  BY DEF Status, Test
<1>2. last' \in [configured : BOOLEAN, stage : Stages]
  <2>1. PICK stage \in Looks \cup {"connectivity"}, c \in BOOLEAN :
          last' = [configured |-> c, stage |-> stage]
    <3>1. CASE \E stage \in Looks : Status(stage)
      <4>1. PICK stage \in Looks : last' = [configured |-> stage # "storage", stage |-> stage]
        BY <3>1 DEF Status
      <4>2. (stage # "storage") \in BOOLEAN
        OBVIOUS
      <4> QED
        BY <4>1, <4>2
    <3>2. CASE \E stage \in Looks \cup {"connectivity"} : Test(stage)
      <4>1. PICK stage \in Looks \cup {"connectivity"} :
              last' = [configured |-> stage # "storage" /\ stored # NoUrl, stage |-> stage]
        BY <3>2 DEF Test
      <4>2. (stage # "storage" /\ stored # NoUrl) \in BOOLEAN
        OBVIOUS
      <4> QED
        BY <4>1, <4>2
    <3> QED
      BY <3>1, <3>2
  <2>2. stage \in Stages
    BY DEF Looks, Stages
  <2> QED
    BY <2>1, <2>2
<1> QED
  BY <1>1, <1>2 DEF ProxyIInv, ProxyTyped, ProxyTypeOK, CallTyped, Untouched, Noted, Changed,
                    Restored, Undone, StoredIsValidated, InStep, Familiar

\* The client goes away: the call stays where it is.
LEMMA CancelKeeps ==
  ASSUME ProxyIInv, CancelContext
  PROVE  ProxyIInv'
<1>1. /\ call' = [call EXCEPT !.cancelled = TRUE] /\ call # NoCall
      /\ UNCHANGED <<stored, runtime, live, last, serving, validated, fallback, doubt>>
  BY DEF CancelContext
<1>2. /\ call'.at = call.at /\ call'.op = call.op /\ call'.url = call.url
      /\ call'.prev = call.prev /\ call'.prevFile = call.prevFile
      /\ call' \in [op : {"none", "apply", "clear", "restore"}, at : Place, url : Config,
                    prev : Config, prevFile : Config, stage : Stages, cancelled : BOOLEAN]
  BY <1>1 DEF ProxyIInv, ProxyTyped, CallTyped
<1>3. CallTyped'
  BY <1>1, <1>2 DEF ProxyIInv, ProxyTyped, CallTyped
<1> QED
  BY <1>1, <1>2, <1>3
     DEF ProxyIInv, ProxyTyped, ProxyTypeOK, Untouched, Noted, Changed, Restored, Undone,
         StoredIsValidated, InStep, Familiar

\* A death in an operation that has begun to change things leaves them in doubt.
LEMMA DeathKeeps ==
  ASSUME ProxyIInv, ProcessDies
  PROVE  ProxyIInv'
<1>1. /\ call' = NoCall /\ last' = [configured |-> FALSE, stage |-> "none"]
      /\ serving' = FALSE /\ doubt' = (doubt \/ call.at \notin {"idle", "load"})
      /\ UNCHANGED <<stored, runtime, live, validated, fallback>>
  BY DEF ProcessDies
<1>2. ProxyTypeOK'
  BY <1>1 DEF ProxyIInv, ProxyTyped, ProxyTypeOK, NoCall, Config, Stages
<1>3. (doubt \/ (InStep /\ Familiar(runtime)))' /\ StoredIsValidated'
  BY <1>1 DEF ProxyIInv, Untouched, InStep, Familiar, StoredIsValidated
<1> QED
  BY <1>1, <1>2, <1>3, EndKeeps DEF ProxyIInv

\* Nothing stored, nothing running, nobody in.
LEMMA InitIInv ==
  ASSUME ProxyInit
  PROVE  ProxyIInv
BY DEF ProxyInit, NoCall, ProxyIInv, ProxyTyped, ProxyTypeOK, CallTyped, Config, Stages, Place,
       PlacesOf, Untouched, Noted, Changed, Restored, Undone, StoredIsValidated, InStep, Familiar

\* Every step keeps the invariant.
LEMMA NextIInv ==
  ASSUME ProxyIInv, [ProxyNext]_proxyVars
  PROVE  ProxyIInv'
<1>1. CASE UNCHANGED proxyVars
  BY <1>1 DEF proxyVars, ProxyIInv, ProxyTyped, ProxyTypeOK, CallTyped, Untouched, Noted, Changed,
              Restored, Undone, StoredIsValidated, InStep, Familiar
<1>2. CASE \/ \E url \in Url : BeginCall("apply", url)
           \/ BeginCall("clear", NoUrl) \/ BeginCall("restore", NoUrl)
  BY <1>2, BeginKeeps
<1>3. CASE InvalidUrl \/ Load \/ LoadFails
  BY <1>3, LoadKeeps
<1>4. CASE WriteRuntime \/ WriteFails
  BY <1>4, WriteKeeps
<1>5. CASE \E outcome \in Outcomes : ReloadRuntime(outcome)
  BY <1>5, ReloadKeeps
<1>6. CASE \E ok \in BOOLEAN : WaitForGroup(ok) \/ TestConnectivity(ok)
  BY <1>6, TestKeeps
<1>7. CASE Save \/ \E ok \in BOOLEAN : SaveFails(ok)
  BY <1>7, SaveKeeps
<1>8. CASE \E outcome \in Outcomes : ReloadBase(outcome)
  BY <1>8, ReloadBaseKeeps
<1>9. CASE \E ok \in BOOLEAN : RemoveRuntime(ok)
  BY <1>9, RemoveKeeps
<1>10. CASE Delete \/ \E ok \in BOOLEAN : DeleteFails(ok)
  BY <1>10, DeleteKeeps
<1>11. CASE \E ok \in BOOLEAN : UndoFile(ok)
  BY <1>11, UndoFileKeeps
<1>12. CASE \E outcome \in Outcomes : UndoReload(outcome)
  BY <1>12, UndoReloadKeeps
<1>13. CASE \/ \E stage \in Looks : Status(stage)
            \/ \E stage \in Looks \cup {"connectivity"} : Test(stage)
  BY <1>13, LooksKeep
<1>14. CASE CancelContext
  BY <1>14, CancelKeeps
<1>15. CASE ProcessDies
  BY <1>15, DeathKeeps
<1> QED
  BY <1>1, <1>2, <1>3, <1>4, <1>5, <1>6, <1>7, <1>8, <1>9, <1>10, <1>11, <1>12, <1>13, <1>14,
     <1>15 DEF ProxyNext

\* The invariant of the specification.
LEMMA Inductive == ProxySpec => []ProxyIInv
<1>1. ProxyInit => ProxyIInv
  BY InitIInv
<1>2. ProxyIInv /\ [ProxyNext]_proxyVars => ProxyIInv'
  BY NextIInv
<1> QED
  BY <1>1, <1>2, PTL DEF ProxySpec
-----------------------------------------------------------------------------
(***************************************************************************)
(* What the service promises.                                              *)
(***************************************************************************)
\* The variables have their types, the kept status its configured flag and its
\* error stage: an operation leaves no other (status.go and service.go).
THEOREM ProxyTypes == ProxySpec => []ProxyTypeOK
<1>1. ProxyIInv => ProxyTypeOK
  BY DEF ProxyIInv, ProxyTyped
<1> QED
  BY <1>1, Inductive, PTL

\* Between two operations Mihomo runs the stored subscription -- or the base
\* configuration, when nothing is stored or the start-up could not restore it --
\* unless a rollback failed, an effect was not answered or the process died; and no
\* subscription is stored that did not pass the test (Apply, Clear, Restore and
\* restorePrevious of service.go).
THEOREM LiveCorrect == ProxySpec => []LiveMatchesStored
<1>1. ProxyIInv => LiveMatchesStored
  <2>1. SUFFICES ASSUME ProxyIInv
                 PROVE  LiveMatchesStored
    OBVIOUS
  <2>2. call = NoCall /\ ~doubt => InStep
    BY <2>1 DEF ProxyIInv, Untouched, NoCall
  <2> QED
    BY <2>1, <2>2 DEF ProxyIInv, StoredIsValidated, InStep, LiveMatchesStored
<1> QED
  BY <1>1, Inductive, PTL
=============================================================================
