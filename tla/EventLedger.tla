----------------------------- MODULE EventLedger -----------------------------
(***************************************************************************)
(* The event ledger in Redis: rows, their sizes, an index by time, and the *)
(* sum of the sizes, changed together by scripts that insert an event and  *)
(* trim the oldest.  ListEvents and CountEvents read it in batches, newest *)
(* first, by an offset into the index, while events come and go: a batch   *)
(* is two commands, ids and then rows.                                     *)
(*                                                                         *)
(* The scheduler and the digest loop run before the start-up has removed   *)
(* the events of a retired type and applied retention: jobs save and       *)
(* digests list while it does, and it takes several commands.              *)
(*                                                                         *)
(* Statistics, incidents and failover count what ListEvents returns.       *)
(***************************************************************************)
EXTENDS Integers, Sequences, FiniteSets, SequencesExt

CONSTANTS MaxId,      \* bound: events ever saved
          MaxRows,    \* EventRetentionRows
          MaxBytes,   \* EventRetentionBytes
          BatchSize,  \* 256 and 512
          Limit       \* limit of a listing

ASSUME LedgerAssumption ==
  /\ MaxId \in Nat /\ MaxId >= 2 /\ MaxRows \in Nat \ {0} /\ MaxBytes \in Nat \ {0}
  /\ BatchSize \in Nat \ {0} /\ Limit \in Nat \ {0}

VARIABLES seq,    \* events:seq, the last id
          index,  \* events:index with data and size, oldest first
          bytes,  \* events:bytes
          cleanup, \* how far the start-up has come, and what it read
          scan    \* a listing of the "end" events

ledgerVars == <<seq, index, bytes, cleanup, scan>>

EventKinds == {"log", "end", "other"}
Size(kind) == IF kind = "end" THEN 1 ELSE 2
Event == [id : 1..MaxId, kind : EventKinds]

\* The sum of the sizes of some rows: a row stands for as many bytes as its size.
Bytes(rows) == Cardinality(UNION {{e} \X (1..Size(e.kind)) : e \in rows})

\* The elements of s that are in T, in their order: the n-th is the one with n at or
\* before it.
Kept(s, T) ==
  LET at      == {i \in DOMAIN s : s[i] \in T}
      Rank(i) == Cardinality({j \in at : j <= i}) IN
  [n \in 1..Cardinality(at) |-> s[CHOOSE i \in at : Rank(i) = n]]

NoScan == [at |-> "idle", offset |-> 0, ids |-> <<>>, result |-> <<>>, must |-> {}]

\* `short' and `misread' are history: by how much the sum is less than the sizes of the
\* rows, and whether the read of a size failed.
NoCleanup == [at |-> "rows", ids |-> {}, sizes |-> 0, short |-> 0, misread |-> FALSE]

\* A ledger of an earlier version, with a request log in it.
Legacy == <<[id |-> 1, kind |-> "end"], [id |-> 2, kind |-> "log"]>>

LedgerInit ==
  /\ seq = Len(Legacy)
  /\ index = Legacy
  /\ bytes = Bytes(ToSet(Legacy))
  /\ cleanup = NoCleanup
  /\ scan = NoScan

(***************************************************************************)
(* Retention: by age, by rows, by bytes, the oldest first.                 *)
(***************************************************************************)
Drop(s, n) == SubSeq(s, n + 1, Len(s))

\* What is left of a sum of sizes when n of the oldest go.
Left(s, n, total) == total - (Bytes(ToSet(s)) - Bytes(ToSet(Drop(s, n))))

\* The fewest of the oldest that have to go for the rest to fit, or all.
Excess(s, total) ==
  CHOOSE n \in 0..Len(s) :
    /\ Len(s) - n <= MaxRows /\ (Left(s, n, total) <= MaxBytes \/ n = Len(s))
    /\ \A k \in 0..(n - 1) : Len(s) - k > MaxRows \/ Left(s, k, total) > MaxBytes

\* First the rows older than the cutoff, then what does not fit.
Retained(s, aged, total) ==
  LET young == Drop(s, aged) IN Drop(young, Excess(young, Left(s, aged, total)))

\* What a listing in progress still owes: rows that were there all the time.
Owes(s) == [scan EXCEPT !.must = @ \cap {e.id : e \in ToSet(s)}]

\* saveEventScript; `aged' is the number of rows older than the cutoff.  Events
\* are indexed by their own time and may arrive a little late.
InsertEvent(kind, late, aged) ==
  /\ seq < MaxId
  /\ aged <= Len(index)
  /\ seq' = seq + 1
  /\ LET at  == IF late /\ index # <<>> THEN Len(index) ELSE Len(index) + 1
         all == InsertAt(index, at, [id |-> seq + 1, kind |-> kind]) IN
     /\ index' = Retained(all, IF at > aged THEN aged ELSE at - 1, bytes + Size(kind))
     /\ bytes' = bytes + Size(kind) - (Bytes(ToSet(all)) - Bytes(ToSet(index')))
     /\ scan' = Owes(index')
  /\ UNCHANGED cleanup

\* clearEventScript, from the page of events: everything but the sequence, so that ids
\* are not reused.
ClearEvents ==
  /\ cleanup.at = "serving"
  /\ index # <<>>
  /\ index' = <<>>
  /\ bytes' = 0
  /\ cleanup' = [cleanup EXCEPT !.short = 0, !.misread = FALSE]
  /\ scan' = Owes(<<>>)
  /\ UNCHANGED seq

(***************************************************************************)
(* The start-up: DeleteEventsByType in its commands, then RetainEvents,    *)
(* then the server.  All the while events are saved and listed.            *)
(***************************************************************************)
ReadRetired(kind) ==
  /\ cleanup.at = "rows"
  /\ LET ids == {e.id : e \in {row \in ToSet(index) : row.kind = kind}} IN
     cleanup' = [cleanup EXCEPT !.ids = ids, !.at = IF ids = {} THEN "retain" ELSE "sizes"]
  /\ UNCHANGED <<seq, index, bytes, scan>>

RowsOf(ids) == {e \in ToSet(index) : e.id \in ids}

\* One HGET for each row, whose error is dropped.
ReadSizes ==
  /\ cleanup.at = "sizes"
  /\ \E unread \in SUBSET RowsOf(cleanup.ids) :
       cleanup' = [cleanup EXCEPT !.at = "delete", !.sizes = Bytes(RowsOf(cleanup.ids) \ unread),
                     !.misread = @ \/ unread # {}]
  /\ UNCHANGED <<seq, index, bytes, scan>>

\* A row that an insert has trimmed since is taken off a second time.  Rows go from the
\* middle: a listing in progress is promised nothing more.
DeleteRetired ==
  /\ cleanup.at = "delete"
  /\ index' = Kept(index, ToSet(index) \ RowsOf(cleanup.ids))
  /\ bytes' = bytes - cleanup.sizes
  /\ cleanup' = [NoCleanup EXCEPT !.at = "check", !.misread = cleanup.misread,
                   !.short = cleanup.short + cleanup.sizes - Bytes(RowsOf(cleanup.ids))]
  /\ scan' = IF index' = index THEN scan ELSE [scan EXCEPT !.must = {}]
  /\ UNCHANGED seq

\* A sum below zero is set to zero, in two commands.  If one of them fails, it stays.
CheckBytes ==
  /\ cleanup.at = "check"
  /\ \E at \in IF bytes < 0 THEN {"reset", "retain"} ELSE {"retain"} :
       cleanup' = [cleanup EXCEPT !.at = at]
  /\ UNCHANGED <<seq, index, bytes, scan>>

ResetBytes ==
  /\ cleanup.at = "reset"
  /\ bytes' = 0
  /\ cleanup' = [cleanup EXCEPT !.at = "retain", !.short = Bytes(ToSet(index)),
                             !.misread = FALSE]
  /\ UNCHANGED <<seq, index, scan>>

\* retainEventScript.
RetainEvents(aged) ==
  /\ cleanup.at = "retain"
  /\ index' = Retained(index, aged, bytes)
  /\ bytes' = bytes - (Bytes(ToSet(index)) - Bytes(ToSet(index')))
  /\ cleanup' = [cleanup EXCEPT !.at = "serving"]
  /\ scan' = Owes(index')
  /\ UNCHANGED seq

\* The process ends at any point, and starts again.
LedgerRestart ==
  /\ cleanup.at # "rows"
  /\ cleanup' = [NoCleanup EXCEPT !.short = cleanup.short, !.misread = cleanup.misread]
  /\ scan' = NoScan
  /\ UNCHANGED <<seq, index, bytes>>

(***************************************************************************)
(* ListEvents.                                                             *)
(***************************************************************************)
Ids(s) == [i \in 1..Len(s) |-> s[i].id]

BeginScan ==
  /\ scan.at = "idle"
  /\ scan' = [NoScan EXCEPT !.at = "ids", !.must = {e.id : e \in ToSet(index)}]
  /\ UNCHANGED <<seq, index, bytes, cleanup>>

\* ZREVRANGEBYSCORE with offset and count.
ReadIds ==
  /\ scan.at = "ids"
  /\ LET newest == Reverse(Ids(index)) IN
     scan' = [scan EXCEPT !.at = "rows",
                !.ids = SubSeq(newest, scan.offset + 1,
                               IF Len(newest) < scan.offset + BatchSize
                               THEN Len(newest) ELSE scan.offset + BatchSize)]
  /\ UNCHANGED <<seq, index, bytes, cleanup>>

\* A bug: the bounds of the next batch are taken as inclusive at both ends.
NextOffsetWrong(found, matching) == scan.offset + Len(found) + 1

NextOffset(found, matching) == scan.offset + Len(found)

\* HMGET: rows that went in between are passed over and end the listing, like
\* a batch that is not full.
ReadRows ==
  /\ scan.at = "rows"
  /\ LET found    == Kept(scan.ids, {e.id : e \in ToSet(index)})
         matching == Kept(found, {e.id : e \in {row \in ToSet(index) : row.kind = "end"}})
         all      == scan.result \o matching
         result   == SubSeq(all, 1, IF Len(all) < Limit THEN Len(all) ELSE Limit) IN
     scan' = [scan EXCEPT !.result = result,
                !.offset = NextOffset(found, matching), !.ids = <<>>,
                !.at = IF Len(found) < BatchSize \/ Len(result) = Limit THEN "done" ELSE "ids"]
  /\ UNCHANGED <<seq, index, bytes, cleanup>>

EndScan ==
  /\ scan.at = "done"
  /\ scan' = NoScan
  /\ UNCHANGED <<seq, index, bytes, cleanup>>

LedgerNext ==
  \/ \E kind \in {"end", "other"}, late \in BOOLEAN, aged \in 0..2 : InsertEvent(kind, late, aged)
  \/ ClearEvents
  \/ ReadRetired("log") \/ ReadSizes \/ DeleteRetired \/ CheckBytes \/ ResetBytes
  \/ \E aged \in 0..Len(index) : RetainEvents(aged)
  \/ LedgerRestart
  \/ BeginScan \/ ReadIds \/ ReadRows \/ EndScan

LedgerSpec == LedgerInit /\ [][LedgerNext]_ledgerVars

LedgerTypeOK ==
  /\ seq \in 0..MaxId
  /\ index \in Seq(Event) /\ IsInjective(Ids(index))
  /\ bytes \in Int
  /\ cleanup \in [at : {"rows", "sizes", "delete", "check", "reset", "retain", "serving"},
                 ids : SUBSET (1..MaxId), sizes : Nat, short : Int, misread : BOOLEAN]
  /\ scan \in [at : {"idle", "ids", "rows", "done"}, offset : Nat, ids : Seq(1..MaxId),
              result : Seq(1..MaxId), must : SUBSET (1..MaxId)]

(***************************************************************************)
(* A finished listing misses nothing: a matching event that was stored     *)
(* from its begin to its end is in the result, unless the limit was        *)
(* reached, and then it is older than everything in the result.  Inserts   *)
(* and trimming move the offsets between two batches, so an event may be   *)
(* listed twice, but is not passed over.  And the sum that retention       *)
(* compares with its limit never exceeds the bytes of the rows, so that    *)
(* nothing goes that could stay, unless a size could not be read, and is   *)
(* their sum as long as the start-up took every row off once.              *)
(***************************************************************************)
Position(id) == CHOOSE i \in 1..Len(index) : index[i].id = id

ListingIsComplete ==
  /\ ~cleanup.misread => bytes <= Bytes(ToSet(index))
  /\ cleanup.short = 0 => bytes = Bytes(ToSet(index))
  /\ scan.at = "done" =>
       \A e \in ToSet(index) :
         (e.kind = "end" /\ e.id \in scan.must /\ e.id \notin ToSet(scan.result)) =>
           /\ Len(scan.result) = Limit
           /\ \A id \in ToSet(scan.result) \cap scan.must : Position(e.id) < Position(id)
=============================================================================
