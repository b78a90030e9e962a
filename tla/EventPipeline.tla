---------------------------- MODULE EventPipeline ----------------------------
(***************************************************************************)
(* The operational event stream of internal/jobs/manager.go.  Job          *)
(* goroutines publish under Manager.mu (publishLocked), one goroutine      *)
(* writes to the store (persistEvents), FlushEvents waits for a barrier in *)
(* the queue, recordOperationalEvent adds events without the lock, and     *)
(* Shutdown closes the queue when it believes nobody sends any more.       *)
(*                                                                         *)
(* The queue is a bounded Go channel: a send blocks while it is full, and  *)
(* panics once it is closed.  Manager.mu is a sync.RWMutex: a writer       *)
(* excludes everybody, and a writer that waits keeps new readers out.      *)
(*                                                                         *)
(* Left out: the payload of events and the job event cache, which is       *)
(* written by the same goroutine at the same place as the event.           *)
(***************************************************************************)
EXTENDS Naturals, Sequences, FiniteSets, SequencesExt

CONSTANTS
  Publisher,   \* job goroutines, counted in Manager.wg
  ApiCaller,   \* goroutines of request handlers, counted nowhere
  Kinds,       \* kinds of events published: "state", "request_end"
  Capacity,    \* capacity of eventQueue
  Slots,       \* capacity of notificationSlots
  MaxEvents,   \* bound of the model on the events of one publisher
  Nobody,      \* no goroutine
  Closer       \* the goroutine that runs Shutdown

ASSUME EventPipelineAssumption ==
  /\ Kinds \subseteq {"state", "request_end"}
  /\ Capacity \in Nat \ {0}
  /\ Slots \in Nat \ {0}
  /\ MaxEvents \in Nat
  /\ Nobody \notin Publisher \cup {Closer}
  /\ Closer \notin Publisher

\* A request_end makes its publisher start one failover evaluation, counted
\* in notificationWG; it is named by the event.
Evaluation == Publisher \X (1 .. MaxEvents)
Caller     == Evaluation \cup ApiCaller

\* A goroutine is one of them.
ASSUME GoroutineAssumption == Publisher \cap Caller = {} /\ Evaluation \cap ApiCaller = {}

VARIABLES
  writer,     \* holder of the write lock of mu
  pending,    \* goroutine that waits for the write lock and bars readers
  readers,    \* callers that hold the read lock
  queue,      \* eventQueue
  closed,     \* close(eventQueue) happened
  closing,    \* Manager.closing
  ctxDone,    \* Manager.ctx is cancelled
  published,  \* number of events each publisher has sent
  exited,     \* publishers whose goroutine returned
  callerPc,   \* where a caller stands
  covers,     \* events that were in the stream when a caller began to flush
  persister,  \* where persistEvents stands
  item,       \* what persistEvents works on
  saved,      \* store: events in the order they were saved
  lost,       \* events the store refused
  alerts,     \* running reliability evaluations, counted in notificationWG
  shutdown    \* where Shutdown stands

muVars     == <<writer, pending, readers>>
sendVars   == <<published, exited>>
callerVars == <<callerPc, covers>>
persistVars == <<persister, item, saved, lost, alerts>>
stopVars   == <<closed, closing, ctxDone, shutdown>>
vars == <<writer, pending, readers, queue, closed, closing, ctxDone, published, exited,
          callerPc, covers, persister, item, saved, lost, alerts, shutdown>>

Event(owner, n, kind) == [barrier |-> FALSE, owner |-> owner, n |-> n, kind |-> kind]
Barrier(c)            == [barrier |-> TRUE, owner |-> c, n |-> 0, kind |-> "state"]
IdOf(e)               == <<e.owner, e.n>>

\* Wrong: one event too many.
HasRoomTooMuch == Len(queue) <= Capacity

HasRoom == Len(queue) < Capacity

\* Lock() by g can return; RLock() can return.
CanLock(g) == writer = Nobody /\ readers = {} /\ pending \in {Nobody, g}
CanRLock   == writer = Nobody /\ pending = Nobody

\* Events whose publisher has sent them.
Sent == UNION {{<<p, n>> : n \in 1 .. published[p]} : p \in Publisher}

Crashed == \E c \in Caller : callerPc[c] = "panicked"

-----------------------------------------------------------------------------
Init ==
  /\ writer = Nobody /\ pending = Nobody /\ readers = {}
  /\ queue = <<>>
  /\ closed = FALSE /\ closing = FALSE /\ ctxDone = FALSE
  /\ published = [p \in Publisher |-> 0]
  /\ exited = {}
  /\ callerPc = [c \in Caller |-> "idle"]
  /\ covers = [c \in Caller |-> {}]
  /\ persister = "receive"
  /\ item = Barrier(Nobody)
  /\ saved = <<>>
  /\ lost = {}
  /\ alerts = 0
  /\ shutdown = "up"

\* Lock() waits behind a reader and from then on bars new ones.
WaitForLock(g) ==
  /\ writer = Nobody /\ pending = Nobody /\ readers # {}
  /\ pending' = g
  /\ UNCHANGED <<writer, readers>>

TakeLock(g) ==
  /\ CanLock(g)
  /\ writer' = g
  /\ pending' = Nobody
  /\ UNCHANGED readers

MayPublish(p) == p \notin exited /\ writer # p /\ published[p] < MaxEvents

PublishLock(p) ==
  /\ MayPublish(p)
  /\ WaitForLock(p) \/ TakeLock(p)
  /\ UNCHANGED <<queue, sendVars, callerVars, persistVars, stopVars>>

\* Wrong: a full queue drops the event.
PublishOrDrop(p, kind) ==
  /\ writer = p
  /\ LET n == published[p] + 1
     IN  /\ queue' = IF HasRoom THEN Append(queue, Event(p, n, kind)) ELSE queue
         /\ published' = [published EXCEPT ![p] = n]
         /\ callerPc' = IF kind = "request_end" /\ ~closing
                        THEN [callerPc EXCEPT ![<<p, n>>] = "flush"] ELSE callerPc
  /\ writer' = Nobody
  /\ UNCHANGED <<pending, readers, exited, covers, persistVars, stopVars>>

(***************************************************************************)
(* publishLocked, then m.mu.Unlock.  The send blocks with the lock held.   *)
(* A request_end starts its evaluation unless the manager is closing.      *)
(***************************************************************************)
PublishSend(p, kind) ==
  /\ writer = p
  /\ HasRoom
  /\ LET n == published[p] + 1
     IN  /\ queue' = Append(queue, Event(p, n, kind))
         /\ published' = [published EXCEPT ![p] = n]
         /\ callerPc' = IF kind = "request_end" /\ ~closing
                        THEN [callerPc EXCEPT ![<<p, n>>] = "flush"] ELSE callerPc
  /\ writer' = Nobody
  /\ UNCHANGED <<pending, readers, exited, covers, persistVars, stopVars>>

PublisherExit(p) ==
  /\ p \notin exited /\ writer # p /\ pending # p
  /\ exited' = exited \cup {p}
  /\ UNCHANGED <<muVars, queue, published, callerVars, persistVars, stopVars>>

-----------------------------------------------------------------------------
\* A request handler, or the goroutine it leaves behind for a standby validation
\* (CompleteProviderGroupEvaluation), flushes, or only records an event.
ApiBegin(c) ==
  /\ callerPc[c] = "idle"
  /\ \E at \in {"flush", "record"} : callerPc' = [callerPc EXCEPT ![c] = at]
  /\ UNCHANGED <<muVars, queue, sendVars, covers, persistVars, stopVars>>

\* flushEventWrites: RLock; a closing manager returns without a flush.
FlushBegin(c) ==
  /\ callerPc[c] = "flush"
  /\ CanRLock
  /\ IF closing
     THEN /\ callerPc' = [callerPc EXCEPT ![c] = "record"]
          /\ UNCHANGED <<readers, covers>>
     ELSE /\ callerPc' = [callerPc EXCEPT ![c] = "barrier"]
          /\ readers' = readers \cup {c}
          /\ covers' = [covers EXCEPT ![c] = Sent]
  /\ UNCHANGED <<writer, pending, queue, sendVars, persistVars, stopVars>>

\* Wrong: the barrier overtakes the events.
FlushJumpsQueue(c) ==
  /\ callerPc[c] = "barrier"
  /\ HasRoom
  /\ queue' = <<Barrier(c)>> \o queue
  /\ readers' = readers \ {c}
  /\ callerPc' = [callerPc EXCEPT ![c] = "await"]
  /\ UNCHANGED <<writer, pending, sendVars, covers, persistVars, stopVars>>

\* The barrier is sent with the read lock held, then RUnlock.
FlushSend(c) ==
  /\ callerPc[c] = "barrier"
  /\ HasRoom
  /\ queue' = Append(queue, Barrier(c))
  /\ readers' = readers \ {c}
  /\ callerPc' = [callerPc EXCEPT ![c] = "await"]
  /\ UNCHANGED <<writer, pending, sendVars, covers, persistVars, stopVars>>

\* recordOperationalEvent: closing is read under the read lock, which is
\* released before the send.
RecordBegin(c) ==
  /\ callerPc[c] \in {"flushed", "record"}
  /\ CanRLock
  /\ callerPc' = [callerPc EXCEPT ![c] = IF closing THEN "done" ELSE "recording"]
  /\ UNCHANGED <<muVars, queue, sendVars, covers, persistVars, stopVars>>

\* The select of recordOperationalEvent; a send on a closed channel panics.
RecordSend(c) ==
  /\ callerPc[c] = "recording"
  /\ \/ /\ ~closed /\ HasRoom
        /\ queue' = Append(queue, Event(c, 1, "state"))
        /\ callerPc' = [callerPc EXCEPT ![c] = "done"]
     \/ /\ closed
        /\ callerPc' = [callerPc EXCEPT ![c] = "panicked"]
        /\ UNCHANGED queue
     \/ /\ ctxDone
        /\ callerPc' = [callerPc EXCEPT ![c] = "done"]
        /\ UNCHANGED queue
  /\ UNCHANGED <<muVars, sendVars, covers, persistVars, stopVars>>

\* The caller has nothing to record after its flush.
CallerReturn(c) ==
  /\ callerPc[c] \in {"flushed", "record"}
  /\ callerPc' = [callerPc EXCEPT ![c] = "done"]
  /\ UNCHANGED <<muVars, queue, sendVars, covers, persistVars, stopVars>>

-----------------------------------------------------------------------------
\* for item := range m.eventQueue: a barrier releases its caller at once.
Receive ==
  /\ persister = "receive"
  /\ queue # <<>>
  /\ queue' = Tail(queue)
  /\ IF Head(queue).barrier
     THEN /\ callerPc' = [callerPc EXCEPT ![Head(queue).owner] = "flushed"]
          /\ UNCHANGED <<persister, item>>
     ELSE /\ item' = Head(queue)
          /\ persister' = "save"
          /\ UNCHANGED callerPc
  /\ UNCHANGED <<muVars, sendVars, covers, saved, lost, alerts, stopVars>>

\* SaveEvent; a saved request_end goes on to queueReliabilityEvaluation.
SaveEvent ==
  /\ persister = "save"
  /\ \/ /\ saved' = Append(saved, IdOf(item))
        /\ persister' = IF item.kind = "request_end" THEN "evaluate" ELSE "receive"
        /\ UNCHANGED lost
     \/ /\ lost' = lost \cup {IdOf(item)}
        /\ persister' = "receive"
        /\ UNCHANGED saved
  /\ UNCHANGED <<muVars, queue, sendVars, callerVars, item, alerts, stopVars>>

\* queueReliabilityEvaluation reads closing and whether alerts are enabled, which
\* a request may change at any time, under RLock ...
EvaluateCheck ==
  /\ persister = "evaluate"
  /\ CanRLock
  /\ persister' \in IF closing THEN {"receive"} ELSE {"receive", "spawn"}
  /\ UNCHANGED <<muVars, queue, sendVars, callerVars, item, saved, lost, alerts, stopVars>>

\* ... and starts the evaluation after the unlock, if a slot is free.
EvaluateSpawn ==
  /\ persister = "spawn"
  /\ alerts' = IF alerts < Slots THEN alerts + 1 ELSE alerts
  /\ persister' = "receive"
  /\ UNCHANGED <<muVars, queue, sendVars, callerVars, item, saved, lost, stopVars>>

\* evaluateReliabilityAlert reads the settings under RLock and returns.
AlertEnds ==
  /\ alerts > 0
  /\ CanRLock
  /\ alerts' = alerts - 1
  /\ UNCHANGED <<muVars, queue, sendVars, callerVars, persister, item, saved, lost, stopVars>>

\* Wrong: what is still queued at the close is left there.
PersisterExitsEarly ==
  /\ persister = "receive" /\ closed
  /\ persister' = "exited"
  /\ UNCHANGED <<muVars, queue, sendVars, callerVars, item, saved, lost, alerts, stopVars>>

PersisterExit ==
  /\ persister = "receive" /\ closed /\ queue = <<>>
  /\ persister' = "exited"
  /\ UNCHANGED <<muVars, queue, sendVars, callerVars, item, saved, lost, alerts, stopVars>>

Persister == Receive \/ SaveEvent \/ EvaluateCheck \/ EvaluateSpawn \/ PersisterExit

-----------------------------------------------------------------------------
Advance(from, to) == shutdown = from /\ shutdown' = to

\* m.mu.Lock; m.closing = true; m.mu.Unlock.
SetClosing ==
  /\ shutdown = "up"
  /\ \/ /\ WaitForLock(Closer)
        /\ UNCHANGED <<closing, shutdown>>
     \/ /\ CanLock(Closer)
        /\ pending' = Nobody
        /\ closing' = TRUE
        /\ Advance("up", "closing")
        /\ UNCHANGED <<writer, readers>>
  /\ UNCHANGED <<queue, sendVars, callerVars, persistVars, closed, ctxDone>>

CancelContext ==
  /\ Advance("closing", "waitJobs")
  /\ ctxDone' = TRUE
  /\ UNCHANGED <<muVars, queue, sendVars, callerVars, persistVars, closed, closing>>

\* m.wg.Wait()
JobsDone ==
  /\ Advance("waitJobs", "waitEvaluations")
  /\ exited = Publisher
  /\ UNCHANGED <<muVars, queue, sendVars, callerVars, persistVars, closed, closing, ctxDone>>

\* Wrong: the evaluations are not waited for.
EvaluationsIgnored ==
  /\ Advance("waitEvaluations", "closeQueue")
  /\ UNCHANGED <<muVars, queue, sendVars, callerVars, persistVars, closed, closing, ctxDone>>

\* m.notificationWG.Wait()
EvaluationsDone ==
  /\ Advance("waitEvaluations", "closeQueue")
  /\ \A e \in Evaluation : callerPc[e] \in {"idle", "done"}
  /\ alerts = 0
  /\ UNCHANGED <<muVars, queue, sendVars, callerVars, persistVars, closed, closing, ctxDone>>

CloseQueue ==
  /\ Advance("closeQueue", "waitPersister")
  /\ closed' = TRUE
  /\ UNCHANGED <<muVars, queue, sendVars, callerVars, persistVars, closing, ctxDone>>

\* m.eventWG.Wait(); Shutdown returns and main() closes the store.
ShutdownReturns ==
  /\ Advance("waitPersister", "down")
  /\ persister = "exited"
  /\ UNCHANGED <<muVars, queue, sendVars, callerVars, persistVars, closed, closing, ctxDone>>

Shutdown == CancelContext \/ JobsDone \/ EvaluationsDone \/ CloseQueue \/ ShutdownReturns

-----------------------------------------------------------------------------
PublisherStep(p) == PublishLock(p) \/ \E k \in Kinds : PublishSend(p, k)
CallerStep(c)    == FlushBegin(c) \/ FlushSend(c) \/ RecordBegin(c) \/ RecordSend(c) \/ CallerReturn(c)

\* Nothing is modelled after a panic.
Next ==
  /\ ~Crashed
  /\ \/ \E p \in Publisher : PublisherStep(p) \/ PublisherExit(p)
     \/ \E c \in ApiCaller : ApiBegin(c)
     \/ \E c \in Caller : CallerStep(c)
     \/ Persister \/ AlertEnds
     \/ SetClosing \/ Shutdown

(***************************************************************************)
(* Fairness: every goroutine that can go on does.  A publisher that waits  *)
(* for the lock gets it if it is free again and again (sync.RWMutex hands  *)
(* the lock to waiting writers), so its steps are strongly fair, as are    *)
(* read locks.  Requests and Shutdown need not come.                       *)
(***************************************************************************)
Fairness ==
  /\ \A p \in Publisher : SF_vars(PublishLock(p)) /\ WF_vars(PublisherStep(p))
  /\ \A c \in Caller : SF_vars(CallerStep(c))
  /\ SF_vars(Persister)
  /\ SF_vars(AlertEnds)
  /\ WF_vars(Shutdown)

Spec     == Init /\ [][Next]_vars
FairSpec == Spec /\ Fairness

-----------------------------------------------------------------------------
\* Every variable has its type.
TypeOK ==
  /\ writer \in Publisher \cup {Nobody}
  /\ pending \in Publisher \cup {Nobody, Closer}
  /\ readers \subseteq Caller
  /\ Len(queue) <= Capacity
  /\ {closed, closing, ctxDone} \subseteq BOOLEAN
  /\ published \in [Publisher -> 0 .. MaxEvents]
  /\ exited \subseteq Publisher
  /\ callerPc \in [Caller -> {"idle", "flush", "barrier", "await", "flushed", "record",
                              "recording", "done", "panicked"}]
  /\ covers \in [Caller -> SUBSET (Publisher \X (1 .. MaxEvents))]
  /\ persister \in {"receive", "save", "evaluate", "spawn", "exited"}
  /\ alerts \in 0 .. Slots
  /\ shutdown \in {"up", "closing", "waitJobs", "waitEvaluations", "closeQueue",
                   "waitPersister", "down"}

Handled == ToSet(saved) \cup lost

\* What was sent is in the queue, in the hands of the writer, saved, or was
\* refused by the store: nothing is dropped and nothing duplicated.
AccountedFor(id) ==
  LET queued == {i \in DOMAIN queue : ~queue[i].barrier /\ IdOf(queue[i]) = id}
      held   == IF persister = "save" /\ IdOf(item) = id THEN 1 ELSE 0
      stored == {i \in DOMAIN saved : saved[i] = id}
  IN  Cardinality(queued) + held + Cardinality(stored)
        + (IF id \in lost THEN 1 ELSE 0) = 1

\* The queue drops nothing and duplicates nothing, and the ledger keeps the
\* order in which a job published its events (publishLocked, persistEvents).
LedgerIsFaithful ==
  /\ \A id \in Sent : AccountedFor(id)
  /\ \A i, j \in DOMAIN saved :
       i < j /\ saved[i][1] = saved[j][1] => saved[i][2] < saved[j][2]

\* When FlushEvents has waited for its barrier, every event published before
\* the flush began is saved or was refused: the statistics that callers build
\* next do not miss the request that caused them.
FlushCoversEarlierEvents ==
  \A c \in Caller : callerPc[c] = "flushed" => covers[c] \subseteq Handled

\* Once the queue is closed no goroutine that Shutdown waits for is still about
\* to send: neither a job nor an evaluation can hit the closed channel.
TrackedSendersAreGone ==
  closed => /\ writer = Nobody /\ exited = Publisher
            /\ \A e \in Evaluation : callerPc[e] \in {"idle", "done"}

\* When Shutdown returns, everything published before it is out of memory.
ShutdownLosesNothing == shutdown = "down" => Sent \subseteq Handled

\* A full queue slows publishers down and drops nothing: whoever holds mu to
\* send gets its event into the queue (TestEventQueueAppliesBackpressure-
\* WithoutDropping).
BackpressureEnds == \A p \in Publisher : writer = p ~> writer # p
=============================================================================
