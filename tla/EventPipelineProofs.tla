------------------------- MODULE EventPipelineProofs -------------------------
(***************************************************************************)
(* Theorems about EventPipeline, for any number of jobs, callers and       *)
(* events and any capacity of the queue.                                   *)
(*                                                                         *)
(* What becomes of an event is a matter of order: the events of one owner  *)
(* carry rising numbers, and at any time the handled ones come before the  *)
(* one in the hands of the writer, which comes before those in the queue   *)
(* (InOrder).  A barrier in the queue stands behind everything its caller  *)
(* wants to see saved (BarriersCover).  That nobody is left to send when   *)
(* the queue is closed is a matter of who holds which lock when closing is *)
(* set, and of what Shutdown waited for (Stopping).                        *)
(***************************************************************************)
EXTENDS EventPipeline, FiniteSetTheorems, TLAPS

Owner == Publisher \cup Caller
Item  == [barrier : BOOLEAN, owner : Owner, n : Nat, kind : {"state", "request_end"}]

Typed ==
  /\ TypeOK
  /\ queue \in Seq(Item)
  /\ persister = "save" => item \in Item /\ ~item.barrier
  /\ saved \in Seq(Owner \X Nat) /\ lost \subseteq Owner \X Nat

\* The number of the last event an owner may have sent: a caller sends one.
LastOf(o) ==
  IF o \in Publisher THEN published[o] ELSE IF callerPc[o] = "done" THEN 1 ELSE 0

Held(id)      == persister = "save" /\ IdOf(item) = id
QueuedAt(i, id) == i \in DOMAIN queue /\ ~queue[i].barrier /\ IdOf(queue[i]) = id

\* The events of one owner: handled, then held, then queued.
InOrder ==
  /\ \A i \in DOMAIN queue : ~queue[i].barrier => queue[i].n \in 1 .. LastOf(queue[i].owner)
  /\ \A i, j \in DOMAIN queue :
       i < j /\ ~queue[i].barrier /\ ~queue[j].barrier /\ queue[i].owner = queue[j].owner
         => queue[i].n < queue[j].n
  /\ persister = "save" =>
       /\ item.n \in 1 .. LastOf(item.owner)
       /\ \A i \in DOMAIN queue :
            ~queue[i].barrier /\ queue[i].owner = item.owner => item.n < queue[i].n
  /\ \A id \in Handled :
       /\ id[2] \in 1 .. LastOf(id[1])
       /\ persister = "save" /\ item.owner = id[1] => id[2] < item.n
       /\ \A i \in DOMAIN queue :
            ~queue[i].barrier /\ queue[i].owner = id[1] => id[2] < queue[i].n
  /\ ToSet(saved) \cap lost = {}
  /\ \A i, j \in DOMAIN saved : i < j /\ saved[i][1] = saved[j][1] => saved[i][2] < saved[j][2]

\* Nothing that was sent is forgotten.
NothingForgotten ==
  \A id \in Sent : id \in Handled \/ Held(id) \/ \E i \in DOMAIN queue : QueuedAt(i, id)

\* A barrier stands behind what its caller waits for.
BarriersCover ==
  /\ \A i \in DOMAIN queue : queue[i].barrier =>
       /\ queue[i].owner \in Caller /\ callerPc[queue[i].owner] = "await"
       /\ \A id \in covers[queue[i].owner] :
            id \in Handled \/ Held(id) \/ \E j \in 1 .. i - 1 : QueuedAt(j, id)
       /\ \A j \in DOMAIN queue : j # i /\ queue[j].barrier => queue[j].owner # queue[i].owner
  /\ \A c \in Caller : covers[c] \subseteq Sent
  /\ FlushCoversEarlierEvents

\* A send on the closed queue panics: whom Shutdown waits for never does it.
TrackedNeverPanic == \A e \in Evaluation : callerPc[e] # "panicked"

\* Who is gone, and who may not come any more, at which point of Shutdown.
Stopping ==
  /\ TrackedNeverPanic
  /\ \A p \in Publisher : writer = p => p \notin exited /\ published[p] < MaxEvents
  /\ \A p \in Publisher : \A n \in 1 .. MaxEvents : callerPc[<<p, n>>] # "idle" => n <= published[p]
  /\ \A c \in Caller : callerPc[c] = "barrier" => c \in readers
  /\ closing => readers = {}
  /\ closing <=> shutdown # "up"
  /\ closed <=> shutdown \in {"waitPersister", "down"}
  /\ shutdown \in {"waitEvaluations", "closeQueue", "waitPersister", "down"} => exited = Publisher
  /\ shutdown \in {"closeQueue", "waitPersister", "down"} =>
       \A e \in Evaluation : callerPc[e] \in {"idle", "done"}
  /\ persister = "exited" => closed /\ queue = <<>>
  /\ shutdown = "down" => persister = "exited"

Stream == InOrder /\ NothingForgotten /\ BarriersCover
IInv   == Typed /\ Stream /\ Stopping

-----------------------------------------------------------------------------
(***************************************************************************)
(* Queues and goroutines                                                   *)
(***************************************************************************)
LEMMA AppendFacts ==
  ASSUME NEW S, NEW s \in Seq(S), NEW x \in S
  PROVE  /\ Append(s, x) \in Seq(S) /\ Len(Append(s, x)) = Len(s) + 1
         /\ DOMAIN s = 1 .. Len(s) /\ DOMAIN Append(s, x) = 1 .. Len(s) + 1 /\ Len(s) \in Nat
         /\ \A i \in 1 .. Len(s) : Append(s, x)[i] = s[i]
         /\ Append(s, x)[Len(s) + 1] = x
OBVIOUS

\* A receive takes the first element away and moves the others up.
LEMMA TailFacts ==
  ASSUME NEW S, NEW s \in Seq(S), s # <<>>
  PROVE  /\ Tail(s) \in Seq(S) /\ Len(Tail(s)) = Len(s) - 1
         /\ DOMAIN s = 1 .. Len(s) /\ DOMAIN Tail(s) = 1 .. Len(s) - 1
         /\ Len(s) \in Nat /\ Len(s) >= 1 /\ Head(s) = s[1] /\ Head(s) \in S
         /\ \A i \in 1 .. Len(s) - 1 : Tail(s)[i] = s[i + 1]
OBVIOUS

\* What is saved next is added to what was saved.
LEMMA ToSetAppend ==
  ASSUME NEW S, NEW s \in Seq(S), NEW x \in S
  PROVE  ToSet(Append(s, x)) = ToSet(s) \cup {x}
<1>1. ASSUME NEW y \in ToSet(s) PROVE y \in ToSet(Append(s, x))
  <2>1. PICK i \in 1 .. Len(s) : s[i] = y
    BY <1>1 DEF ToSet
  <2> QED
    BY <2>1, AppendFacts DEF ToSet
<1>2. x \in ToSet(Append(s, x))
  BY AppendFacts DEF ToSet
<1>3. ASSUME NEW y \in ToSet(Append(s, x)) PROVE y \in ToSet(s) \cup {x}
  <2>1. PICK i \in 1 .. Len(s) + 1 : Append(s, x)[i] = y
    BY <1>3, AppendFacts DEF ToSet
  <2> QED
    BY <2>1, AppendFacts DEF ToSet
<1> QED
  BY <1>1, <1>2, <1>3

\* Whose name is whose.
LEMMA Goroutines ==
  /\ Nobody \notin Publisher /\ Closer \notin Publisher /\ Publisher \cap Caller = {}
  /\ \A e \in Evaluation : e \in Caller /\ e \notin ApiCaller
  /\ \A c \in ApiCaller : c \in Caller
BY EventPipelineAssumption, GoroutineAssumption DEF Caller

-----------------------------------------------------------------------------
(***************************************************************************)
(* What the steps do to the stream                                         *)
(***************************************************************************)
\* Steps that touch neither queue nor store.
LEMMA StreamStays ==
  ASSUME Typed, Stream, UNCHANGED <<queue, saved, lost, published>>,
         persister' = "save" <=> persister = "save", persister = "save" => item' = item,
         \A c \in Caller :
           /\ callerPc[c] = "done" => callerPc'[c] = "done"
           /\ callerPc[c] = "await" => callerPc'[c] = "await"
           /\ callerPc'[c] = "flushed" => callerPc[c] = "flushed"
           /\ \/ covers'[c] = covers[c]
              \/ callerPc[c] = "flush" /\ callerPc'[c] = "barrier" /\ covers'[c] = Sent
  PROVE  Stream'
<1>1. Handled' = Handled /\ Sent' = Sent
  BY DEF Handled, Sent
<1>2. \A o \in Owner : LastOf(o) \in Nat /\ LastOf(o)' \in Nat /\ LastOf(o) <= LastOf(o)'
  BY DEF Owner, LastOf, Typed, TypeOK
<1>3. \A id : Held(id)' <=> Held(id)
  BY DEF Held, IdOf
<1>4. \A i, id : QueuedAt(i, id)' <=> QueuedAt(i, id)
  BY DEF QueuedAt, IdOf
<1>5. \A i \in DOMAIN queue : queue[i] \in Item
  BY DEF Typed
<1>6. \A id \in Handled : id[1] \in Owner /\ id[2] \in Nat
  BY DEF Typed, Handled, ToSet
<1>7. InOrder'
  BY <1>1, <1>2, <1>5, <1>6 DEF InOrder, Stream, Item, Typed
<1>8. NothingForgotten'
  BY <1>1, <1>3, <1>4 DEF NothingForgotten, Stream
<1>9. BarriersCover'
  BY <1>1, <1>3, <1>4 DEF BarriersCover, FlushCoversEarlierEvents, Stream
<1> QED
  BY <1>7, <1>8, <1>9 DEF Stream

\* What the proofs of the other four need to know of the types.
LEMMA StreamTypes ==
  ASSUME Typed
  PROVE  /\ \A i \in DOMAIN queue : queue[i] \in Item
         /\ \A id \in Handled : id \in Owner \X Nat
         /\ \A o \in Owner : LastOf(o) \in Nat
         /\ DOMAIN queue = 1 .. Len(queue) /\ Len(queue) \in Nat
<1>1. \A o \in Owner : LastOf(o) \in Nat
  BY DEF Owner, LastOf, Typed, TypeOK
<1>2. \A id \in Handled : id \in Owner \X Nat
  BY DEF Typed, Handled, ToSet
<1>3. queue \in Seq(Item)
  BY DEF Typed
<1> QED
  BY <1>1, <1>2, <1>3

\* An owner sends its next event.
LEMMA EventIsSent ==
  ASSUME Typed, Stream, NEW o \in Owner, NEW n \in Nat, NEW k \in {"state", "request_end"},
         queue' = Append(queue, Event(o, n, k)),
         n = LastOf(o) + 1, LastOf(o)' = n, \A q \in Owner \ {o} : LastOf(q)' = LastOf(q),
         Sent \subseteq Sent', Sent' \subseteq Sent \cup {<<o, n>>},
         UNCHANGED <<saved, lost, persister, item, covers>>,
         \A c \in Caller :
           /\ callerPc[c] = "await" => callerPc'[c] = "await"
           /\ callerPc'[c] = "flushed" => callerPc[c] = "flushed"
  PROVE  Stream'
<1>0. PICK last \in Nat : last = Len(queue) + 1
  BY DEF Typed
<1>1. Event(o, n, k) \in Item /\ ~Event(o, n, k).barrier /\ IdOf(Event(o, n, k)) = <<o, n>>
      /\ Event(o, n, k).owner = o /\ Event(o, n, k).n = n
  BY DEF Event, Item, IdOf
<1>2. /\ DOMAIN queue = 1 .. Len(queue) /\ Len(queue) \in Nat /\ DOMAIN queue' = 1 .. last
      /\ \A i \in 1 .. Len(queue) : queue'[i] = queue[i]
      /\ queue'[last] = Event(o, n, k)
  BY <1>0, <1>1, AppendFacts DEF Typed
<1>3. /\ \A i \in 1 .. Len(queue) : queue[i] \in Item
      /\ \A id \in Handled : id \in Owner \X Nat
      /\ \A q \in Owner : LastOf(q) \in Nat
  BY <1>0, <1>2, StreamTypes
<1>4. Handled' = Handled /\ \A id : Held(id)' <=> Held(id)
  BY DEF Handled, Held, IdOf
<1>5. \A i \in 1 .. Len(queue) : \A id : QueuedAt(i, id)' <=> QueuedAt(i, id)
  BY <1>0, <1>2 DEF QueuedAt, IdOf
<1>6. \A q \in Owner : LastOf(q)' \in Nat /\ LastOf(q) <= LastOf(q)'
  BY <1>3
<1>7. InOrder'
  <2>1. \A i \in 1 .. last : ~queue'[i].barrier => queue'[i].n \in 1 .. LastOf(queue[i].owner)'
    <3> SUFFICES ASSUME NEW i \in 1 .. last, ~queue'[i].barrier
                 PROVE  queue'[i].n \in 1 .. LastOf(queue[i].owner)'
      OBVIOUS
    <3>1. CASE i = last
      BY <1>0, <1>1, <1>2, <1>3, <3>1
    <3>2. CASE i # last
      BY <1>0, <1>2, <1>3, <1>6, <3>2 DEF Stream, InOrder, Item
    <3> QED
      BY <3>1, <3>2
  <2>2. ASSUME NEW i \in 1 .. last, NEW j \in 1 .. last,
               i < j, ~queue'[i].barrier, ~queue'[j].barrier, queue'[i].owner = queue'[j].owner
        PROVE  queue'[i].n < queue'[j].n
    <3>1. i \in 1 .. Len(queue) /\ queue'[i] = queue[i] /\ queue[i] \in Item
      BY <1>0, <1>2, <1>3, <2>2
    <3>2. CASE j = last
      BY <1>0, <1>1, <1>2, <1>3, <2>2, <3>1, <3>2 DEF Stream, InOrder, Item
    <3>3. CASE j # last
      BY <1>0, <1>2, <2>2, <3>1, <3>3 DEF Stream, InOrder
    <3> QED
      BY <3>2, <3>3
  <2>3. ASSUME persister = "save"
        PROVE  /\ item.n \in 1 .. LastOf(item.owner)'
               /\ \A i \in 1 .. last :
                    ~queue'[i].barrier /\ queue'[i].owner = item.owner => item.n < queue'[i].n
    <3>1. item \in Item /\ item.n \in 1 .. LastOf(item.owner) /\ item' = item
      BY <2>3 DEF Stream, InOrder, Typed
    <3>2. item.owner \in Owner /\ item.n \in Nat /\ item.n \in 1 .. LastOf(item.owner)'
      BY <1>3, <1>6, <3>1 DEF Item
    <3>3. ASSUME NEW i \in 1 .. last, ~queue'[i].barrier, queue'[i].owner = item.owner
          PROVE  item.n < queue'[i].n
      <4>1. CASE i = last
        BY <1>1, <1>2, <1>3, <3>1, <3>2, <3>3, <4>1
      <4>2. CASE i # last
        BY <1>0, <1>2, <2>3, <3>3, <4>2 DEF Stream, InOrder
      <4> QED
        BY <4>1, <4>2
    <3> QED
      BY <3>2, <3>3
  <2>4. ASSUME NEW id \in Handled
        PROVE  /\ id[2] \in 1 .. LastOf(id[1])'
               /\ persister = "save" /\ item.owner = id[1] => id[2] < item.n
               /\ \A i \in 1 .. last :
                    ~queue'[i].barrier /\ queue'[i].owner = id[1] => id[2] < queue'[i].n
    BY <1>0, <1>1, <1>2, <1>3, <1>6, <2>4 DEF Stream, InOrder
  <2> QED
    BY <1>0, <1>2, <1>4, <2>1, <2>2, <2>3, <2>4 DEF Stream, InOrder
<1>8. NothingForgotten'
  <2>1. QueuedAt(last, <<o, n>>)'
    BY <1>0, <1>1, <1>2 DEF QueuedAt, IdOf
  <2> QED
    BY <1>0, <1>2, <1>4, <1>5, <2>1 DEF Stream, NothingForgotten
<1>9. BarriersCover'
  <2>1. \A c \in Caller : covers'[c] \subseteq Sent'
    BY DEF Stream, BarriersCover
  <2>2. FlushCoversEarlierEvents'
    BY <1>4 DEF Stream, BarriersCover, FlushCoversEarlierEvents
  <2>3. ASSUME NEW i \in 1 .. last, queue'[i].barrier
        PROVE  /\ queue'[i].owner \in Caller /\ callerPc'[queue'[i].owner] = "await"
               /\ \A id \in covers'[queue'[i].owner] :
                    id \in Handled' \/ Held(id)' \/ \E j \in 1 .. i - 1 : QueuedAt(j, id)'
               /\ \A j \in 1 .. last : j # i /\ queue'[j].barrier => queue'[j].owner # queue'[i].owner
    <3>1. i \in 1 .. Len(queue) /\ queue'[i] = queue[i]
      BY <1>0, <1>1, <1>2, <2>3
    <3> QED
      BY <1>0, <1>1, <1>2, <1>4, <1>5, <2>3, <3>1 DEF Stream, BarriersCover
  <2> QED
    BY <1>0, <1>2, <2>1, <2>2, <2>3 DEF BarriersCover
<1> QED
  BY <1>7, <1>8, <1>9 DEF Stream

\* A caller sends its barrier.
LEMMA BarrierIsSent ==
  ASSUME Typed, Stream, NEW c \in Caller, callerPc[c] = "barrier",
         queue' = Append(queue, Barrier(c)), callerPc' = [callerPc EXCEPT ![c] = "await"],
         UNCHANGED <<saved, lost, persister, item, covers, published>>
  PROVE  Stream'
<1>0. PICK last \in Nat : last = Len(queue) + 1
  BY DEF Typed
<1>1. Barrier(c) \in Item /\ Barrier(c).barrier /\ Barrier(c).owner = c
  BY DEF Barrier, Item, Owner
<1>2. /\ DOMAIN queue = 1 .. Len(queue) /\ Len(queue) \in Nat /\ DOMAIN queue' = 1 .. last
      /\ \A i \in 1 .. Len(queue) : queue'[i] = queue[i]
      /\ queue'[last] = Barrier(c)
  BY <1>0, <1>1, AppendFacts DEF Typed
<1>3. Handled' = Handled /\ Sent' = Sent /\ \A id : Held(id)' <=> Held(id)
  BY DEF Handled, Sent, Held, IdOf
<1>4. /\ \A i \in 1 .. Len(queue) : \A id : QueuedAt(i, id)' <=> QueuedAt(i, id)
      /\ \A i, id : QueuedAt(i, id) => i \in 1 .. Len(queue)
  BY <1>0, <1>2 DEF QueuedAt, IdOf
<1>5. \A o \in Owner : LastOf(o)' = LastOf(o)
  BY DEF LastOf, Owner, Typed, TypeOK
<1>6. /\ \A i \in 1 .. Len(queue) : queue[i] \in Item
      /\ \A id \in Handled : id \in Owner \X Nat
  BY <1>0, <1>2, StreamTypes
<1>7. InOrder'
  BY <1>0, <1>1, <1>2, <1>3, <1>5, <1>6 DEF Stream, InOrder, Item, Typed
<1>8. NothingForgotten'
  BY <1>0, <1>2, <1>3, <1>4 DEF Stream, NothingForgotten
<1>9. BarriersCover'
  <2>1. \A b \in Caller \ {c} : callerPc'[b] = callerPc[b]
    BY DEF Typed, TypeOK
  <2>2. callerPc'[c] = "await"
    BY DEF Typed, TypeOK
  <2>3. FlushCoversEarlierEvents' /\ \A b \in Caller : covers'[b] \subseteq Sent'
    BY <1>3, <2>1, <2>2 DEF Stream, BarriersCover, FlushCoversEarlierEvents
  <2>4. ASSUME NEW i \in 1 .. last, queue'[i].barrier
        PROVE  /\ queue'[i].owner \in Caller /\ callerPc'[queue'[i].owner] = "await"
               /\ \A id \in covers'[queue'[i].owner] :
                    id \in Handled' \/ Held(id)' \/ \E j \in 1 .. i - 1 : QueuedAt(j, id)'
               /\ \A j \in 1 .. last : j # i /\ queue'[j].barrier => queue'[j].owner # queue'[i].owner
    <3>1. ASSUME NEW j \in 1 .. Len(queue), queue[j].barrier PROVE queue[j].owner # c
      BY <1>0, <1>2, <3>1 DEF Stream, BarriersCover
    <3>2. CASE i = last
      <4>1. covers'[c] \subseteq Sent
        BY <1>3, <2>3
      <4>2. \A id \in covers'[c] : id \in Handled' \/ Held(id)' \/ \E j \in 1 .. i - 1 : QueuedAt(j, id)'
        BY <1>0, <1>2, <1>3, <1>4, <3>2, <4>1 DEF Stream, NothingForgotten
      <4> QED
        BY <1>0, <1>1, <1>2, <2>2, <3>1, <3>2, <4>2
    <3>3. CASE i # last
      <4>1. i \in 1 .. Len(queue) /\ queue'[i] = queue[i] /\ queue[i].barrier
        BY <1>0, <1>2, <2>4, <3>3
      <4>2. queue[i].owner \in Caller \ {c} /\ callerPc[queue[i].owner] = "await"
        BY <1>0, <1>2, <3>1, <4>1 DEF Stream, BarriersCover
      <4>3. \A id \in covers[queue[i].owner] :
              id \in Handled \/ Held(id) \/ \E j \in 1 .. i - 1 : QueuedAt(j, id)
        BY <1>0, <1>2, <4>1 DEF Stream, BarriersCover
      <4>4. \A j \in 1 .. Len(queue) : j # i /\ queue[j].barrier => queue[j].owner # queue[i].owner
        BY <1>0, <1>2, <4>1 DEF Stream, BarriersCover
      <4> QED
        BY <1>0, <1>1, <1>2, <1>3, <1>4, <2>1, <4>1, <4>2, <4>3, <4>4
    <3> QED
      BY <3>2, <3>3
  <2> QED
    BY <1>0, <1>2, <2>3, <2>4 DEF BarriersCover
<1> QED
  BY <1>7, <1>8, <1>9 DEF Stream

\* persistEvents takes a barrier from the queue.
LEMMA BarrierIsReceived ==
  ASSUME Typed, Stream, queue # <<>>, persister = "receive", Head(queue).barrier,
         queue' = Tail(queue),
         callerPc' = [callerPc EXCEPT ![Head(queue).owner] = "flushed"],
         UNCHANGED <<saved, lost, persister, item, covers, published>>
  PROVE  Stream'
<1>0. PICK m \in Nat : m = Len(queue) - 1
  <2>1. Len(queue) \in Nat /\ Len(queue) >= 1
    BY TailFacts DEF Typed
  <2> QED
    BY <2>1
<1>1. /\ DOMAIN queue = 1 .. m + 1 /\ DOMAIN queue' = 1 .. m /\ Head(queue) = queue[1]
      /\ \A i \in 1 .. m : queue'[i] = queue[i + 1]
  BY <1>0, TailFacts DEF Typed
<1>2. /\ \A i \in 1 .. m + 1 : queue[i] \in Item
      /\ \A id \in Handled : id \in Owner \X Nat
  BY <1>1, StreamTypes
<1>3. PICK c \in Caller : c = Head(queue).owner /\ callerPc[c] = "await"
  BY <1>0, <1>1 DEF Stream, BarriersCover
<1>4. callerPc'[c] = "flushed" /\ \A b \in Caller \ {c} : callerPc'[b] = callerPc[b]
  BY <1>3 DEF Typed, TypeOK
<1>5. Handled' = Handled /\ Sent' = Sent /\ \A id : ~Held(id) /\ ~Held(id)'
  BY DEF Handled, Sent, Held
<1>6. \A i \in 1 .. m : \A id : QueuedAt(i, id)' <=> QueuedAt(i + 1, id)
  BY <1>1 DEF QueuedAt, IdOf
<1>7. \A o \in Owner : LastOf(o)' = LastOf(o)
  BY <1>3, <1>4 DEF LastOf, Owner
<1>8. InOrder'
  <2>1. ASSUME NEW i \in 1 .. m, ~queue'[i].barrier
        PROVE  queue'[i].n \in 1 .. LastOf(queue[i].owner)'
    <3>1. PICK x \in Item : x = queue[i + 1] /\ queue'[i] = x
      BY <1>0, <1>1, <1>2
    <3>2. x.owner \in Owner /\ x.n \in 1 .. LastOf(x.owner)
      BY <1>0, <1>1, <2>1, <3>1 DEF Stream, InOrder, Item
    <3>3. x.n \in 1 .. LastOf(x.owner)'
      BY <1>7, <3>2
    <3> QED
      BY <3>1, <3>3
  <2>2. \A i, j \in 1 .. m :
          i < j /\ ~queue'[i].barrier /\ ~queue'[j].barrier /\ queue'[i].owner = queue'[j].owner
            => queue'[i].n < queue'[j].n
    BY <1>0, <1>1 DEF Stream, InOrder
  <2>3. ASSUME NEW id \in Handled
        PROVE  /\ id[2] \in 1 .. LastOf(id[1])'
               /\ \A i \in 1 .. m :
                    ~queue'[i].barrier /\ queue'[i].owner = id[1] => id[2] < queue'[i].n
    BY <1>0, <1>1, <1>2, <1>7, <2>3 DEF Stream, InOrder
  <2> QED
    BY <1>1, <1>5, <2>1, <2>2, <2>3 DEF Stream, InOrder
<1>9. NothingForgotten'
  <2> SUFFICES ASSUME NEW id \in Sent, id \notin Handled
               PROVE  \E i \in DOMAIN queue' : QueuedAt(i, id)'
    BY <1>5 DEF NothingForgotten
  <2>1. PICK i \in 1 .. m + 1 : QueuedAt(i, id)
    BY <1>1, <1>5 DEF Stream, NothingForgotten
  <2>2. i # 1
    BY <1>1, <2>1 DEF QueuedAt
  <2>3. i - 1 \in 1 .. m /\ (i - 1) + 1 = i
    BY <1>0, <2>1, <2>2
  <2>4. QueuedAt(i - 1, id)'
    BY <1>6, <2>1, <2>3
  <2> QED
    BY <1>1, <2>3, <2>4
<1>10. BarriersCover'
  <2>1. covers[c] \subseteq Handled
    BY <1>0, <1>1, <1>3, <1>5 DEF Stream, BarriersCover
  <2>2. FlushCoversEarlierEvents' /\ \A b \in Caller : covers'[b] \subseteq Sent'
    BY <1>4, <1>5, <2>1 DEF Stream, BarriersCover, FlushCoversEarlierEvents
  <2>3. ASSUME NEW i \in 1 .. m, queue'[i].barrier
        PROVE  /\ queue'[i].owner \in Caller /\ callerPc'[queue'[i].owner] = "await"
               /\ \A id \in covers'[queue'[i].owner] :
                    id \in Handled' \/ Held(id)' \/ \E j \in 1 .. i - 1 : QueuedAt(j, id)'
               /\ \A j \in 1 .. m : j # i /\ queue'[j].barrier => queue'[j].owner # queue'[i].owner
    <3>1. i + 1 \in 1 .. m + 1 /\ i + 1 # 1 /\ queue'[i] = queue[i + 1]
      BY <1>0, <1>1, <2>3
    <3>2. queue[i + 1].owner \in Caller \ {c} /\ callerPc[queue[i + 1].owner] = "await"
      BY <1>0, <1>1, <1>3, <2>3, <3>1 DEF Stream, BarriersCover
    <3>3. ASSUME NEW id \in covers[queue[i + 1].owner], id \notin Handled
          PROVE  \E j \in 1 .. i - 1 : QueuedAt(j, id)'
      <4>1. PICK j \in 1 .. (i + 1) - 1 : QueuedAt(j, id)
        BY <1>1, <1>5, <2>3, <3>1, <3>3 DEF Stream, BarriersCover
      <4>2. j # 1
        BY <1>1, <4>1 DEF QueuedAt
      <4>3. j - 1 \in 1 .. i - 1 /\ j - 1 \in 1 .. m /\ (j - 1) + 1 = j
        BY <1>0, <4>1, <4>2
      <4> QED
        BY <1>6, <4>1, <4>3
    <3>4. ASSUME NEW j \in 1 .. m, j # i, queue'[j].barrier
          PROVE  queue'[j].owner # queue'[i].owner
      <4>1. j + 1 \in 1 .. m + 1 /\ j + 1 # i + 1 /\ queue[j + 1].barrier
        BY <1>0, <1>1, <3>4
      <4> QED
        BY <1>1, <2>3, <3>1, <3>4, <4>1 DEF Stream, BarriersCover
    <3> QED
      BY <1>4, <1>5, <3>1, <3>2, <3>3, <3>4
  <2> QED
    BY <1>1, <2>2, <2>3 DEF BarriersCover
<1> QED
  BY <1>8, <1>9, <1>10 DEF Stream

\* persistEvents takes an event from the queue.
LEMMA EventIsReceived ==
  ASSUME Typed, Stream, queue # <<>>, persister = "receive", ~Head(queue).barrier,
         queue' = Tail(queue), item' = Head(queue), persister' = "save",
         UNCHANGED <<saved, lost, callerPc, covers, published>>
  PROVE  Stream'
<1>0. PICK m \in Nat : m = Len(queue) - 1
  <2>1. Len(queue) \in Nat /\ Len(queue) >= 1
    BY TailFacts DEF Typed
  <2> QED
    BY <2>1
<1>1. /\ DOMAIN queue = 1 .. m + 1 /\ DOMAIN queue' = 1 .. m /\ item' = queue[1]
      /\ \A i \in 1 .. m : queue'[i] = queue[i + 1]
  BY <1>0, TailFacts DEF Typed
<1>2. /\ \A i \in 1 .. m + 1 : queue[i] \in Item
      /\ \A id \in Handled : id \in Owner \X Nat
  BY <1>1, StreamTypes
<1>3. /\ Handled' = Handled /\ Sent' = Sent
      /\ \A id : ~Held(id) /\ (Held(id)' <=> QueuedAt(1, id))
  BY <1>0, <1>1 DEF Handled, Sent, Held, QueuedAt, IdOf
<1>4. \A i \in 1 .. m : \A id : QueuedAt(i, id)' <=> QueuedAt(i + 1, id)
  BY <1>1 DEF QueuedAt, IdOf
<1>5. \A o \in Owner : LastOf(o)' = LastOf(o)
  BY DEF LastOf
<1>6. InOrder'
  <2>1. ASSUME NEW i \in 1 .. m, ~queue'[i].barrier
        PROVE  queue'[i].n \in 1 .. LastOf(queue[i].owner)'
    <3>1. PICK x \in Item : x = queue[i + 1] /\ queue'[i] = x
      BY <1>0, <1>1, <1>2
    <3>2. x.owner \in Owner /\ x.n \in 1 .. LastOf(x.owner)
      BY <1>0, <1>1, <2>1, <3>1 DEF Stream, InOrder, Item
    <3>3. x.n \in 1 .. LastOf(x.owner)'
      BY <1>5, <3>2
    <3> QED
      BY <3>1, <3>3
  <2>2. \A i, j \in 1 .. m :
          i < j /\ ~queue'[i].barrier /\ ~queue'[j].barrier /\ queue'[i].owner = queue'[j].owner
            => queue'[i].n < queue'[j].n
    BY <1>0, <1>1 DEF Stream, InOrder
  <2>3. /\ item'.n \in 1 .. LastOf(item.owner)'
        /\ \A i \in 1 .. m :
             ~queue'[i].barrier /\ queue'[i].owner = item'.owner => item'.n < queue'[i].n
    <3>1. PICK x \in Item : x = queue[1] /\ item' = x /\ ~x.barrier
      BY <1>0, <1>1, <1>2
    <3>2. x.owner \in Owner /\ x.n \in 1 .. LastOf(x.owner)
      BY <1>0, <1>1, <3>1 DEF Stream, InOrder, Item
    <3>3. x.n \in 1 .. LastOf(x.owner)'
      BY <1>5, <3>2
    <3>4. \A i \in 1 .. m :
            ~queue'[i].barrier /\ queue'[i].owner = x.owner => x.n < queue'[i].n
      BY <1>0, <1>1, <3>1 DEF Stream, InOrder
    <3> QED
      BY <3>1, <3>3, <3>4
  <2>4. ASSUME NEW id \in Handled
        PROVE  /\ id[2] \in 1 .. LastOf(id[1])'
               /\ item'.owner = id[1] => id[2] < item'.n
               /\ \A i \in 1 .. m :
                    ~queue'[i].barrier /\ queue'[i].owner = id[1] => id[2] < queue'[i].n
    BY <1>0, <1>1, <1>2, <1>5, <2>4 DEF Stream, InOrder
  <2> QED
    BY <1>1, <1>3, <2>1, <2>2, <2>3, <2>4 DEF Stream, InOrder
<1>7. NothingForgotten'
  <2> SUFFICES ASSUME NEW id \in Sent, id \notin Handled, ~Held(id)'
               PROVE  \E i \in DOMAIN queue' : QueuedAt(i, id)'
    BY <1>3 DEF NothingForgotten
  <2>1. PICK i \in 1 .. m + 1 : QueuedAt(i, id)
    BY <1>1, <1>3 DEF Stream, NothingForgotten
  <2>2. i - 1 \in 1 .. m /\ (i - 1) + 1 = i
    BY <1>0, <1>3, <2>1
  <2> QED
    BY <1>1, <1>4, <2>1, <2>2
<1>8. BarriersCover'
  <2>1. FlushCoversEarlierEvents' /\ \A b \in Caller : covers'[b] \subseteq Sent'
    BY <1>3 DEF Stream, BarriersCover, FlushCoversEarlierEvents
  <2>2. ASSUME NEW i \in 1 .. m, queue'[i].barrier
        PROVE  /\ queue'[i].owner \in Caller /\ callerPc'[queue'[i].owner] = "await"
               /\ \A id \in covers'[queue'[i].owner] :
                    id \in Handled' \/ Held(id)' \/ \E j \in 1 .. i - 1 : QueuedAt(j, id)'
               /\ \A j \in 1 .. m : j # i /\ queue'[j].barrier => queue'[j].owner # queue'[i].owner
    <3>1. i + 1 \in 1 .. m + 1 /\ queue'[i] = queue[i + 1]
      BY <1>0, <1>1, <2>2
    <3>2. queue[i + 1].owner \in Caller /\ callerPc[queue[i + 1].owner] = "await"
      BY <1>1, <2>2, <3>1 DEF Stream, BarriersCover
    <3>3. ASSUME NEW id \in covers[queue[i + 1].owner], id \notin Handled, ~Held(id)'
          PROVE  \E j \in 1 .. i - 1 : QueuedAt(j, id)'
      <4>1. PICK j \in 1 .. (i + 1) - 1 : QueuedAt(j, id)
        BY <1>1, <1>3, <2>2, <3>1, <3>3 DEF Stream, BarriersCover
      <4>2. j - 1 \in 1 .. i - 1 /\ j - 1 \in 1 .. m /\ (j - 1) + 1 = j
        BY <1>0, <1>3, <3>3, <4>1
      <4> QED
        BY <1>4, <4>1, <4>2
    <3>4. ASSUME NEW j \in 1 .. m, j # i, queue'[j].barrier
          PROVE  queue'[j].owner # queue'[i].owner
      <4>1. j + 1 \in 1 .. m + 1 /\ j + 1 # i + 1 /\ queue[j + 1].barrier
        BY <1>0, <1>1, <3>4
      <4> QED
        BY <1>1, <2>2, <3>1, <3>4, <4>1 DEF Stream, BarriersCover
    <3> QED
      BY <1>3, <3>1, <3>2, <3>3, <3>4
  <2> QED
    BY <1>1, <2>1, <2>2 DEF BarriersCover
<1> QED
  BY <1>6, <1>7, <1>8 DEF Stream

\* SaveEvent stores the event, or the store refuses it.
LEMMA EventIsHandled ==
  ASSUME Typed, Stream, persister = "save", persister' # "save",
         \/ saved' = Append(saved, IdOf(item)) /\ lost' = lost
         \/ saved' = saved /\ lost' = lost \cup {IdOf(item)},
         UNCHANGED <<queue, callerPc, covers, published>>
  PROVE  Stream'
<1>1. /\ item \in Item /\ IdOf(item) \in Owner \X Nat
      /\ IdOf(item)[1] = item.owner /\ IdOf(item)[2] = item.n
  BY DEF Typed, IdOf, Item
<1>2. \/ ToSet(saved)' = ToSet(saved) \cup {IdOf(item)} /\ lost' = lost
      \/ ToSet(saved)' = ToSet(saved) /\ lost' = lost \cup {IdOf(item)}
  <2>1. saved \in Seq(Owner \X Nat)
    BY DEF Typed
  <2>2. ToSet(Append(saved, IdOf(item))) = ToSet(saved) \cup {IdOf(item)}
    BY <1>1, <2>1, ToSetAppend
  <2>3. CASE saved' = Append(saved, IdOf(item)) /\ lost' = lost
    <3>1. ToSet(saved)' = ToSet(Append(saved, IdOf(item)))
      BY <2>3
    <3> QED
      BY <2>2, <2>3, <3>1
  <2>4. CASE saved' = saved /\ lost' = lost \cup {IdOf(item)}
    BY <2>4
  <2> QED
    BY <2>3, <2>4
<1>3. Handled' = Handled \cup {IdOf(item)}
  BY <1>2 DEF Handled
<1>4. IdOf(item) \notin Handled
  BY <1>1 DEF Stream, InOrder
<1>5. /\ \A id : Held(id) <=> id = IdOf(item)
      /\ \A id : ~Held(id)'
      /\ \A i, id : QueuedAt(i, id)' <=> QueuedAt(i, id)
      /\ Sent' = Sent
  BY DEF Held, QueuedAt, Sent
<1>6. \A o \in Owner : LastOf(o)' = LastOf(o)
  BY DEF LastOf
<1>7. \A i \in DOMAIN queue : queue[i] \in Item
  BY StreamTypes
<1>8. \A id \in Handled : id \in Owner \X Nat
  BY StreamTypes
<1>9. InOrder'
  <2>1. \A i \in DOMAIN queue : ~queue[i].barrier => queue[i].n \in 1 .. LastOf(queue[i].owner)'
    BY <1>6, <1>7 DEF Stream, InOrder, Item
  <2>2. ASSUME NEW id \in Handled'
        PROVE  /\ id[2] \in 1 .. LastOf(id[1])'
               /\ \A i \in DOMAIN queue :
                    ~queue[i].barrier /\ queue[i].owner = id[1] => id[2] < queue[i].n
    BY <1>1, <1>3, <1>6, <1>8, <2>2 DEF Stream, InOrder, Item
  <2>3. ToSet(saved)' \cap lost' = {}
    BY <1>2, <1>4 DEF Stream, InOrder, Handled
  <2>4. \A i, j \in DOMAIN saved' :
          i < j /\ saved'[i][1] = saved'[j][1] => saved'[i][2] < saved'[j][2]
    <3>1. CASE saved' = saved
      BY <3>1 DEF Stream, InOrder
    <3>2. CASE saved' = Append(saved, IdOf(item))
      <4>1. /\ DOMAIN saved = 1 .. Len(saved) /\ DOMAIN saved' = 1 .. Len(saved) + 1
            /\ Len(saved) \in Nat
            /\ \A i \in 1 .. Len(saved) : saved'[i] = saved[i]
            /\ saved'[Len(saved) + 1] = IdOf(item)
        BY <1>1, <3>2, AppendFacts DEF Typed
      <4>2. \A i \in 1 .. Len(saved) : saved[i] \in Handled
        BY <4>1 DEF Handled, ToSet
      <4>3. ASSUME NEW i \in 1 .. Len(saved), saved[i][1] = item.owner
            PROVE  saved[i][2] < item.n
        BY <4>2, <4>3 DEF Stream, InOrder
      <4> QED
        BY <1>1, <4>1, <4>3 DEF Stream, InOrder
    <3> QED
      BY <3>1, <3>2
  <2> QED
    BY <2>1, <2>2, <2>3, <2>4 DEF Stream, InOrder
<1>10. NothingForgotten'
  BY <1>3, <1>5 DEF Stream, NothingForgotten
<1>11. BarriersCover'
  BY <1>3, <1>5 DEF Stream, BarriersCover, FlushCoversEarlierEvents
<1> QED
  BY <1>9, <1>10, <1>11 DEF Stream

-----------------------------------------------------------------------------
(***************************************************************************)
(* The steps of a publisher                                                *)
(***************************************************************************)
\* Waiting for the lock or taking it.
LEMMA LockKeeps ==
  ASSUME IInv, NEW p \in Publisher, PublishLock(p) \/ PublisherExit(p)
  PROVE  IInv'
<1>1. UNCHANGED <<queue, published, callerVars, persistVars, stopVars>>
  BY DEF PublishLock, PublisherExit, sendVars
<1>2. Typed'
  BY <1>1
     DEF IInv, Typed, TypeOK, PublishLock, PublisherExit, WaitForLock, TakeLock, MayPublish,
         muVars, sendVars, callerVars, persistVars, stopVars
<1>3. Stream'
  BY <1>1, StreamStays DEF IInv, callerVars, persistVars
<1>4. Stopping'
  BY <1>1, Goroutines
     DEF IInv, Stopping, TrackedNeverPanic, PublishLock, PublisherExit, WaitForLock,
         TakeLock, CanLock, MayPublish, muVars, sendVars, callerVars, persistVars, stopVars
<1> QED
  BY <1>2, <1>3, <1>4 DEF IInv

\* The send under the lock.
LEMMA PublishSendKeeps ==
  ASSUME IInv, NEW p \in Publisher, NEW k \in Kinds, PublishSend(p, k)
  PROVE  IInv'
<1>1. PICK n \in 1 .. MaxEvents : n = published[p] + 1
  BY EventPipelineAssumption DEF IInv, Typed, TypeOK, Stopping, TrackedNeverPanic, PublishSend
<1>2. /\ published \in [Publisher -> 0 .. MaxEvents] /\ published' = [published EXCEPT ![p] = n]
      /\ queue' = Append(queue, Event(p, n, k)) /\ k \in {"state", "request_end"}
      /\ \/ callerPc' = callerPc
         \/ callerPc' = [callerPc EXCEPT ![<<p, n>>] = "flush"] /\ ~closing
      /\ UNCHANGED <<saved, lost, persister, item, covers>>
  BY <1>1, EventPipelineAssumption DEF IInv, Typed, TypeOK, PublishSend, persistVars
<1>3. /\ <<p, n>> \in Caller /\ callerPc[<<p, n>>] = "idle"
      /\ \A c \in Caller : callerPc'[c] = callerPc[c] \/ (c = <<p, n>> /\ callerPc'[c] = "flush")
  <2>1. <<p, n>> \in Evaluation
    BY DEF Evaluation
  <2>2. callerPc[<<p, n>>] = "idle"
    BY <1>1, <1>2 DEF IInv, Stopping
  <2>3. PICK e \in Caller : e = <<p, n>>
    BY <2>1, Goroutines
  <2>4. callerPc' = callerPc \/ callerPc' = [callerPc EXCEPT ![e] = "flush"]
    BY <1>2, <2>3
  <2>5. ASSUME NEW c \in Caller PROVE callerPc'[c] = callerPc[c] \/ (c = e /\ callerPc'[c] = "flush")
    BY <2>4 DEF IInv, Typed, TypeOK
  <2> QED
    BY <2>2, <2>3, <2>5
<1>4. Typed'
  <2>1. Event(p, n, k) \in Item
    BY <1>2 DEF Event, Item, Owner
  <2>2. queue' \in Seq(Item) /\ Len(queue') <= Capacity
    BY <1>2, <2>1, AppendFacts, EventPipelineAssumption DEF IInv, Typed, PublishSend, HasRoom
  <2>3. published' \in [Publisher -> 0 .. MaxEvents]
    BY <1>1, <1>2
  <2>4. callerPc' \in [Caller -> {"idle", "flush", "barrier", "await", "flushed", "record",
                                  "recording", "done", "panicked"}]
    BY <1>2 DEF IInv, Typed, TypeOK
  <2> QED
    BY <2>2, <2>3, <2>4 DEF IInv, Typed, TypeOK, PublishSend, persistVars, stopVars
<1>5. Stream'
  <2>1. \A q \in Owner \ {p} : LastOf(q)' = LastOf(q)
    BY <1>2, <1>3 DEF LastOf, Owner
  <2>2. LastOf(p) = published[p] /\ LastOf(p)' = n
    BY <1>2 DEF LastOf
  <2>3. Sent \subseteq Sent' /\ Sent' \subseteq Sent \cup {<<p, n>>}
    <3>1. \A q \in Publisher : published'[q] = IF q = p THEN published[p] + 1 ELSE published[q]
      BY <1>1, <1>2
    <3>2. \A q \in Publisher : published[q] \in Nat
      BY <1>2
    <3> QED
      BY <1>1, <3>1, <3>2 DEF Sent
  <2>4. p \in Owner /\ n \in Nat
    BY DEF Owner
  <2> QED
    BY <1>1, <1>2, <1>3, <2>1, <2>2, <2>3, <2>4, EventIsSent DEF IInv
<1>6. Stopping'
  <2>1. writer = p /\ p \notin exited /\ writer' = Nobody
        /\ UNCHANGED <<pending, readers, exited, stopVars>>
    BY DEF IInv, Stopping, PublishSend
  <2>2. /\ \A q \in Publisher : \A m \in 1 .. MaxEvents : callerPc'[<<q, m>>] # "idle" => m <= published'[q]
    <3> SUFFICES ASSUME NEW q \in Publisher, NEW m \in 1 .. MaxEvents, callerPc'[<<q, m>>] # "idle"
                 PROVE  m <= published'[q]
      OBVIOUS
    <3>1. <<q, m>> \in Caller
      BY Goroutines DEF Evaluation
    <3>2. published[q] <= published'[q] /\ published[q] \in Nat /\ published'[q] \in Nat
      BY <1>1, <1>2
    <3>3. CASE callerPc'[<<q, m>>] = callerPc[<<q, m>>]
      BY <3>2, <3>3 DEF IInv, Stopping
    <3>4. CASE <<q, m>> = <<p, n>>
      BY <1>1, <1>2, <3>4
    <3> QED
      BY <1>3, <3>1, <3>3, <3>4
  <2>3. shutdown \notin {"waitEvaluations", "closeQueue", "waitPersister", "down"} /\ ~closed
        /\ persister # "exited"
    BY <2>1 DEF IInv, Stopping
  <2> QED
    BY <1>2, <1>3, <2>1, <2>2, <2>3, Goroutines DEF IInv, Stopping, TrackedNeverPanic, stopVars
<1> QED
  BY <1>4, <1>5, <1>6 DEF IInv

-----------------------------------------------------------------------------
(***************************************************************************)
(* The steps of a caller                                                   *)
(***************************************************************************)
LEMMA ApiBeginKeeps ==
  ASSUME IInv, NEW c \in ApiCaller, ApiBegin(c)
  PROVE  IInv'
<1>1. /\ c \in Caller /\ c \notin Evaluation /\ callerPc[c] = "idle"
      /\ callerPc'[c] \in {"flush", "record"} /\ \A b \in Caller \ {c} : callerPc'[b] = callerPc[b]
      /\ UNCHANGED <<muVars, queue, sendVars, covers, persistVars, stopVars>>
  BY Goroutines DEF IInv, Typed, TypeOK, ApiBegin
<1>2. Typed'
  BY <1>1 DEF IInv, Typed, TypeOK, ApiBegin, muVars, sendVars, persistVars, stopVars
<1>3. Stream'
  BY <1>1, StreamStays DEF IInv, sendVars, persistVars
<1>4. Stopping'
  BY <1>1, Goroutines
     DEF IInv, Stopping, TrackedNeverPanic, Evaluation, muVars, sendVars, persistVars,
         stopVars
<1> QED
  BY <1>2, <1>3, <1>4 DEF IInv

\* A caller that is not idle: Shutdown has not waited for it yet, and the event
\* that started it is sent.
LEMMA CallerAtWork ==
  ASSUME IInv, NEW c \in Caller, callerPc[c] \notin {"idle", "done"}
  PROVE  /\ c \in Evaluation => shutdown \notin {"closeQueue", "waitPersister", "down"}
         /\ \A p \in Publisher : \A n \in 1 .. MaxEvents : c = <<p, n>> => n <= published[p]
BY DEF IInv, Stopping

\* FlushEvents notes what was sent before it.
LEMMA FlushBeginKeeps ==
  ASSUME IInv, NEW c \in Caller, FlushBegin(c)
  PROVE  IInv'
<1>1. /\ callerPc[c] = "flush" /\ callerPc'[c] \in {"record", "barrier"}
      /\ \A b \in Caller \ {c} : callerPc'[b] = callerPc[b] /\ covers'[b] = covers[b]
      /\ \/ closing /\ callerPc'[c] = "record" /\ covers'[c] = covers[c] /\ readers' = readers
         \/ ~closing /\ callerPc'[c] = "barrier" /\ covers'[c] = Sent /\ readers' = readers \cup {c}
      /\ UNCHANGED <<writer, pending, queue, sendVars, persistVars, stopVars>>
  BY DEF IInv, Typed, TypeOK, FlushBegin
<1>2. Typed'
  <2>1. Sent \subseteq Publisher \X (1 .. MaxEvents)
    BY EventPipelineAssumption DEF IInv, Typed, TypeOK, Sent
  <2>2. covers' \in [Caller -> SUBSET (Publisher \X (1 .. MaxEvents))]
    BY <2>1 DEF IInv, Typed, TypeOK, FlushBegin
  <2>3. callerPc' \in [Caller -> {"idle", "flush", "barrier", "await", "flushed", "record",
                                  "recording", "done", "panicked"}]
    BY DEF IInv, Typed, TypeOK, FlushBegin
  <2> QED
    BY <1>1, <2>2, <2>3 DEF IInv, Typed, TypeOK, sendVars, persistVars, stopVars
<1>3. Stream'
  BY <1>1, StreamStays DEF IInv, sendVars, persistVars
<1>4. Stopping'
  BY <1>1, CallerAtWork, Goroutines
     DEF IInv, Stopping, TrackedNeverPanic, Evaluation, sendVars, persistVars, stopVars
<1> QED
  BY <1>2, <1>3, <1>4 DEF IInv

\* The barrier goes into the queue or waits for room.
LEMMA FlushSendKeeps ==
  ASSUME IInv, NEW c \in Caller, FlushSend(c)
  PROVE  IInv'
<1>1. /\ callerPc[c] = "barrier" /\ callerPc'[c] = "await"
      /\ \A b \in Caller \ {c} : callerPc'[b] = callerPc[b]
      /\ queue' = Append(queue, Barrier(c)) /\ readers' = readers \ {c}
      /\ callerPc' = [callerPc EXCEPT ![c] = "await"]
      /\ UNCHANGED <<writer, pending, sendVars, covers, persistVars, stopVars>>
  BY DEF IInv, Typed, TypeOK, FlushSend
<1>2. Typed'
  <2>1. Barrier(c) \in Item
    BY DEF Barrier, Item, Owner
  <2>2. queue' \in Seq(Item) /\ Len(queue') <= Capacity
    BY <2>1, AppendFacts, EventPipelineAssumption DEF IInv, Typed, FlushSend, HasRoom
  <2> QED
    BY <1>1, <2>2 DEF IInv, Typed, TypeOK, sendVars, persistVars, stopVars
<1>3. Stream'
  BY <1>1, BarrierIsSent DEF IInv, sendVars, persistVars
<1>4. ~closing
  BY <1>1 DEF IInv, Stopping
<1>5. Stopping'
  BY <1>1, <1>4, CallerAtWork, Goroutines
     DEF IInv, Stopping, TrackedNeverPanic, Evaluation, sendVars, persistVars, stopVars
<1> QED
  BY <1>2, <1>3, <1>5 DEF IInv

\* The first half of RecordEvent, and a caller that returns.
LEMMA RecordKeeps ==
  ASSUME IInv, NEW c \in Caller, RecordBegin(c) \/ CallerReturn(c)
  PROVE  IInv'
<1>1. /\ callerPc[c] \in {"flushed", "record"} /\ callerPc'[c] \in {"recording", "done"}
      /\ \A b \in Caller \ {c} : callerPc'[b] = callerPc[b]
      /\ UNCHANGED <<muVars, queue, sendVars, covers, persistVars, stopVars>>
  BY DEF IInv, Typed, TypeOK, RecordBegin, CallerReturn
<1>2. Typed'
  BY <1>1
     DEF IInv, Typed, TypeOK, RecordBegin, CallerReturn, muVars, sendVars, persistVars,
         stopVars
<1>3. Stream'
  BY <1>1, StreamStays DEF IInv, sendVars, persistVars
<1>4. Stopping'
  BY <1>1, CallerAtWork, Goroutines
     DEF IInv, Stopping, TrackedNeverPanic, Evaluation, muVars, sendVars, persistVars,
         stopVars
<1> QED
  BY <1>2, <1>3, <1>4 DEF IInv

\* The second half: the event goes into the queue or waits for room.
LEMMA RecordSendKeeps ==
  ASSUME IInv, NEW c \in Caller, RecordSend(c)
  PROVE  IInv'
<1>1. /\ callerPc[c] = "recording" /\ callerPc'[c] \in {"done", "panicked"}
      /\ \A b \in Caller \ {c} : callerPc'[b] = callerPc[b]
      /\ \/ queue' = queue
         \/ queue' = Append(queue, Event(c, 1, "state")) /\ ~closed /\ HasRoom /\ callerPc'[c] = "done"
      /\ callerPc'[c] = "panicked" => closed
      /\ UNCHANGED <<muVars, sendVars, covers, persistVars, stopVars>>
  BY DEF IInv, Typed, TypeOK, RecordSend
<1>2. Typed'
  <2>1. Event(c, 1, "state") \in Item
    BY DEF Event, Item, Owner
  <2>2. queue' \in Seq(Item) /\ Len(queue') <= Capacity
    <3>1. CASE queue' = queue
      BY <3>1 DEF IInv, Typed, TypeOK
    <3>2. CASE queue' = Append(queue, Event(c, 1, "state")) /\ HasRoom
      BY <2>1, <3>2, AppendFacts, EventPipelineAssumption DEF IInv, Typed, HasRoom
    <3> QED
      BY <1>1, <3>1, <3>2
  <2>3. callerPc' \in [Caller -> {"idle", "flush", "barrier", "await", "flushed", "record",
                                  "recording", "done", "panicked"}]
    BY DEF IInv, Typed, TypeOK, RecordSend
  <2> QED
    BY <1>1, <2>2, <2>3 DEF IInv, Typed, TypeOK, muVars, sendVars, persistVars, stopVars
<1>3. Stream'
  <2>1. CASE queue' = queue
    BY <1>1, <2>1, StreamStays DEF IInv, sendVars, persistVars
  <2>2. CASE queue' = Append(queue, Event(c, 1, "state")) /\ callerPc'[c] = "done"
    <3>1. c \in Owner /\ c \notin Publisher
      BY Goroutines DEF Owner
    <3>2. LastOf(c) = 0 /\ LastOf(c)' = 1 /\ \A q \in Owner \ {c} : LastOf(q)' = LastOf(q)
      BY <1>1, <2>2, <3>1 DEF LastOf, Owner, sendVars
    <3>3. Sent' = Sent
      BY <1>1 DEF Sent, sendVars
    <3> QED
      BY <1>1, <2>2, <3>1, <3>2, <3>3, EventIsSent DEF IInv, persistVars
  <2> QED
    BY <1>1, <2>1, <2>2
<1>4. Stopping'
  <2>1. persister = "exited" => queue' = queue
    BY <1>1 DEF IInv, Stopping
  <2> QED
    BY <1>1, <2>1, CallerAtWork, Goroutines
       DEF IInv, Stopping, TrackedNeverPanic, Evaluation, muVars, sendVars, persistVars,
           stopVars
<1> QED
  BY <1>2, <1>3, <1>4 DEF IInv

-----------------------------------------------------------------------------
(***************************************************************************)
(* The steps of persistEvents and of the reliability evaluations           *)
(***************************************************************************)
LEMMA ReceiveKeeps ==
  ASSUME IInv, Receive
  PROVE  IInv'
<1>1. /\ persister = "receive" /\ queue # <<>> /\ queue' = Tail(queue)
      /\ queue' \in Seq(Item) /\ Len(queue') <= Capacity
      /\ Head(queue) \in Item /\ Head(queue) = queue[1] /\ 1 \in DOMAIN queue
      /\ UNCHANGED <<muVars, sendVars, covers, saved, lost, alerts, stopVars>>
  BY TailFacts, EventPipelineAssumption DEF IInv, Typed, TypeOK, Receive
<1>2. CASE Head(queue).barrier
  <2>1. PICK c \in Caller : c = Head(queue).owner /\ callerPc[c] = "await"
    BY <1>1, <1>2 DEF IInv, Stream, BarriersCover
  <2>2. /\ callerPc' = [callerPc EXCEPT ![c] = "flushed"] /\ UNCHANGED <<persister, item>>
        /\ callerPc'[c] = "flushed" /\ \A b \in Caller \ {c} : callerPc'[b] = callerPc[b]
    BY <1>2, <2>1 DEF IInv, Typed, TypeOK, Receive
  <2>3. Typed'
    BY <1>1, <2>2 DEF IInv, Typed, TypeOK, muVars, sendVars, stopVars
  <2>4. Stream'
    BY <1>1, <1>2, <2>1, <2>2, BarrierIsReceived DEF IInv, sendVars
  <2>5. Stopping'
    BY <1>1, <2>1, <2>2, CallerAtWork, Goroutines
       DEF IInv, Stopping, TrackedNeverPanic, Evaluation, muVars, sendVars, stopVars
  <2> QED
    BY <2>3, <2>4, <2>5 DEF IInv
<1>3. CASE ~Head(queue).barrier
  <2>1. item' = Head(queue) /\ persister' = "save" /\ UNCHANGED callerPc
    BY <1>3 DEF Receive
  <2>2. Typed'
    BY <1>1, <1>3, <2>1 DEF IInv, Typed, TypeOK, muVars, sendVars, stopVars
  <2>3. Stream'
    BY <1>1, <1>3, <2>1, EventIsReceived DEF IInv, sendVars
  <2>4. Stopping'
    BY <1>1, <2>1 DEF IInv, Stopping, TrackedNeverPanic, muVars, sendVars, stopVars
  <2> QED
    BY <2>2, <2>3, <2>4 DEF IInv
<1> QED
  BY <1>2, <1>3

\* The writer saves an event, or its store refuses it.
LEMMA SaveEventKeeps ==
  ASSUME IInv, SaveEvent
  PROVE  IInv'
<1>1. /\ persister = "save" /\ persister' \in {"evaluate", "receive"}
      /\ \/ saved' = Append(saved, IdOf(item)) /\ lost' = lost
         \/ saved' = saved /\ lost' = lost \cup {IdOf(item)}
      /\ UNCHANGED <<muVars, queue, sendVars, callerVars, item, alerts, stopVars>>
  BY DEF SaveEvent
<1>2. Typed'
  <2>1. IdOf(item) \in Owner \X Nat
    BY <1>1 DEF IInv, Typed, IdOf, Item
  <2>2. saved \in Seq(Owner \X Nat) /\ lost \subseteq Owner \X Nat
    BY DEF IInv, Typed
  <2>3. Append(saved, IdOf(item)) \in Seq(Owner \X Nat)
    BY <2>1, <2>2, AppendFacts
  <2>4. saved' \in Seq(Owner \X Nat) /\ lost' \subseteq Owner \X Nat
    BY <1>1, <2>1, <2>2, <2>3
  <2> QED
    BY <1>1, <2>4 DEF IInv, Typed, TypeOK, muVars, sendVars, callerVars, stopVars
<1>3. Stream'
  BY <1>1, EventIsHandled DEF IInv, sendVars, callerVars
<1>4. Stopping'
  BY <1>1 DEF IInv, Stopping, TrackedNeverPanic, muVars, sendVars, callerVars, stopVars
<1> QED
  BY <1>2, <1>3, <1>4 DEF IInv

\* A request_end starts an evaluation of alerts, and one ends.
LEMMA EvaluateKeeps ==
  ASSUME IInv, EvaluateCheck \/ EvaluateSpawn \/ AlertEnds
  PROVE  IInv'
<1>1. /\ \/ persister # "exited" /\ persister' \in {"receive", "spawn"}
         \/ persister' = persister
      /\ persister' = "save" <=> persister = "save"
      /\ UNCHANGED <<muVars, queue, sendVars, callerVars, item, saved, lost, stopVars>>
  BY DEF EvaluateCheck, EvaluateSpawn, AlertEnds
<1>2. alerts' \in 0 .. Slots
  BY EventPipelineAssumption DEF IInv, Typed, TypeOK, EvaluateCheck, EvaluateSpawn, AlertEnds
<1>3. Typed'
  BY <1>1, <1>2 DEF IInv, Typed, TypeOK, muVars, sendVars, callerVars, stopVars
<1>4. Stream'
  BY <1>1, StreamStays DEF IInv, sendVars, callerVars
<1>5. Stopping'
  BY <1>1 DEF IInv, Stopping, TrackedNeverPanic, muVars, sendVars, callerVars, stopVars
<1> QED
  BY <1>3, <1>4, <1>5 DEF IInv

\* The writer finds the queue closed and empty.
LEMMA PersisterExitKeeps ==
  ASSUME IInv, PersisterExit
  PROVE  IInv'
<1>1. /\ persister = "receive" /\ persister' = "exited" /\ closed /\ queue = <<>>
      /\ UNCHANGED <<muVars, queue, sendVars, callerVars, item, saved, lost, alerts, stopVars>>
  BY DEF PersisterExit
<1>2. Typed'
  BY <1>1 DEF IInv, Typed, TypeOK, muVars, sendVars, callerVars, stopVars
<1>3. Stream'
  BY <1>1, StreamStays DEF IInv, sendVars, callerVars
<1>4. Stopping'
  BY <1>1 DEF IInv, Stopping, TrackedNeverPanic, muVars, sendVars, callerVars, stopVars
<1> QED
  BY <1>2, <1>3, <1>4 DEF IInv

-----------------------------------------------------------------------------
(***************************************************************************)
(* The steps of Shutdown                                                   *)
(***************************************************************************)
LEMMA ShutdownKeeps ==
  ASSUME IInv, SetClosing \/ Shutdown
  PROVE  IInv'
<1>1. /\ UNCHANGED <<queue, sendVars, callerVars, persistVars, writer, readers>>
      /\ pending' \in {pending, Nobody, Closer}
  BY
     DEF SetClosing, WaitForLock, CanLock, Shutdown, CancelContext, JobsDone,
         EvaluationsDone, CloseQueue, ShutdownReturns, muVars
<1>2. Typed'
  BY <1>1
     DEF IInv, Typed, TypeOK, sendVars, callerVars, persistVars, SetClosing, Shutdown,
         CancelContext, JobsDone, EvaluationsDone, CloseQueue, ShutdownReturns, Advance
<1>3. Stream'
  BY <1>1, StreamStays DEF IInv, sendVars, callerVars, persistVars
<1>4. CASE SetClosing
  BY <1>1, <1>2, <1>3, <1>4
     DEF IInv, Stopping, TrackedNeverPanic, SetClosing, CanLock, Advance, sendVars,
         callerVars, persistVars
<1>5. CASE CancelContext
  BY <1>1, <1>2, <1>3, <1>5
     DEF IInv, Stopping, TrackedNeverPanic, CancelContext, Advance, sendVars, callerVars,
         persistVars
<1>6. CASE JobsDone
  BY <1>1, <1>2, <1>3, <1>6
     DEF IInv, Stopping, TrackedNeverPanic, JobsDone, Advance, sendVars, callerVars,
         persistVars
<1>7. CASE EvaluationsDone
  BY <1>1, <1>2, <1>3, <1>7
     DEF IInv, Stopping, TrackedNeverPanic, EvaluationsDone, Advance, sendVars, callerVars,
         persistVars
<1>8. CASE CloseQueue
  BY <1>1, <1>2, <1>3, <1>8
     DEF IInv, Stopping, TrackedNeverPanic, CloseQueue, Advance, sendVars, callerVars,
         persistVars
<1>9. CASE ShutdownReturns
  BY <1>1, <1>2, <1>3, <1>9
     DEF IInv, Stopping, TrackedNeverPanic, ShutdownReturns, Advance, sendVars, callerVars,
         persistVars
<1> QED
  BY <1>4, <1>5, <1>6, <1>7, <1>8, <1>9 DEF Shutdown

-----------------------------------------------------------------------------
(***************************************************************************)
(* The theorems                                                            *)
(***************************************************************************)
LEMMA InitIInv == Init => IInv
<1> SUFFICES ASSUME Init PROVE IInv
  OBVIOUS
<1>1. queue = <<>> /\ queue \in Seq(Item) /\ Len(queue) = 0 /\ DOMAIN queue = {}
  BY DEF Init
<1>2. saved = <<>> /\ saved \in Seq(Owner \X Nat) /\ DOMAIN saved = {} /\ ToSet(saved) = {}
  BY DEF Init, ToSet
<1>3. Sent = {}
  BY DEF Init, Sent
<1>4. Typed
  <2>1. /\ published \in [Publisher -> 0 .. MaxEvents]
        /\ covers \in [Caller -> SUBSET (Publisher \X (1 .. MaxEvents))]
    BY EventPipelineAssumption DEF Init
  <2>2. callerPc \in [Caller -> {"idle", "flush", "barrier", "await", "flushed", "record",
                                 "recording", "done", "panicked"}]
    BY DEF Init
  <2>3. Len(queue) <= Capacity /\ alerts \in 0 .. Slots
    BY <1>1, EventPipelineAssumption DEF Init
  <2>4. TypeOK
    BY <2>1, <2>2, <2>3 DEF Init, TypeOK
  <2> QED
    BY <1>1, <1>2, <2>4 DEF Init, Typed
<1>5. Stream
  BY <1>1, <1>2, <1>3
     DEF Init, Stream, InOrder, NothingForgotten, BarriersCover, FlushCoversEarlierEvents,
         Handled
<1>6. Stopping
  BY Goroutines DEF Init, Stopping, TrackedNeverPanic, Evaluation
<1> QED
  BY <1>4, <1>5, <1>6 DEF IInv

\* Every step keeps the inductive invariant.
LEMMA NextIInv == IInv /\ [Next]_vars => IInv'
<1> SUFFICES ASSUME IInv, [Next]_vars PROVE IInv'
  OBVIOUS
<1>1. ASSUME NEW p \in Publisher, PublisherStep(p) \/ PublisherExit(p)
      PROVE  IInv'
  BY <1>1, LockKeeps, PublishSendKeeps DEF PublisherStep
<1>2. ASSUME NEW c \in ApiCaller, ApiBegin(c)
      PROVE  IInv'
  BY <1>2, ApiBeginKeeps
<1>3. ASSUME NEW c \in Caller, CallerStep(c)
      PROVE  IInv'
  BY <1>3, FlushBeginKeeps, FlushSendKeeps, RecordKeeps, RecordSendKeeps DEF CallerStep
<1>4. CASE Persister \/ AlertEnds
  BY <1>4, ReceiveKeeps, SaveEventKeeps, EvaluateKeeps, PersisterExitKeeps DEF Persister
<1>5. CASE SetClosing \/ Shutdown
  BY <1>5, ShutdownKeeps
<1>6. CASE UNCHANGED vars
  <2>1. Typed' /\ Stopping'
    BY <1>6 DEF vars, IInv, Typed, TypeOK, Stopping, TrackedNeverPanic
  <2>2. Stream'
    BY <1>6, StreamStays DEF vars, IInv
  <2> QED
    BY <2>1, <2>2 DEF IInv
<1> QED
  BY <1>1, <1>2, <1>3, <1>4, <1>5, <1>6 DEF Next

\* An event that was sent is at exactly one place.
LEMMA EventsAreAccountedFor ==
  ASSUME IInv, NEW id \in Sent
  PROVE  AccountedFor(id)
<1> DEFINE queued == {i \in DOMAIN queue : ~queue[i].barrier /\ IdOf(queue[i]) = id}
           stored == {i \in DOMAIN saved : saved[i] = id}
<1>1. /\ \A i \in DOMAIN queue : queue[i] \in Item /\ i \in Nat
      /\ \A i \in DOMAIN saved : saved[i] \in Owner \X Nat /\ i \in Nat
      /\ persister = "save" => item \in Item
  BY DEF IInv, Typed
<1>2. ASSUME NEW i \in queued, NEW j \in queued PROVE i = j
  <2>1. queue[i].owner = queue[j].owner /\ queue[i].n = queue[j].n /\ queue[i].n \in Nat
    BY <1>1 DEF IdOf, Item
  <2>2. ~(i < j) /\ ~(j < i)
    BY <2>1 DEF IInv, Stream, InOrder
  <2> QED
    BY <1>1, <2>2
<1>3. ASSUME NEW i \in stored, NEW j \in stored PROVE i = j
  <2>1. saved[i][1] = saved[j][1] /\ saved[i][2] = saved[j][2] /\ saved[i][2] \in Nat
    BY <1>1
  <2>2. ~(i < j) /\ ~(j < i)
    BY <2>1 DEF IInv, Stream, InOrder
  <2> QED
    BY <1>1, <2>2
<1>4. stored = {} <=> id \notin ToSet(saved)
  BY DEF ToSet
<1>5. id \in Handled => queued = {} /\ ~Held(id)
  <2>1. SUFFICES ASSUME id \in Handled PROVE queued = {} /\ ~Held(id)
    OBVIOUS
  <2>2. ASSUME NEW i \in queued PROVE FALSE
    <3>1. queue[i].owner = id[1] /\ queue[i].n = id[2] /\ queue[i].n \in Nat
      BY <1>1 DEF IdOf, Item
    <3> QED
      BY <2>1, <3>1 DEF IInv, Stream, InOrder
  <2>3. ~Held(id)
    BY <1>1, <2>1 DEF Held, IdOf, Item, IInv, Stream, InOrder
  <2> QED
    BY <2>2, <2>3
<1>6. Held(id) => queued = {}
  <2>1. SUFFICES ASSUME Held(id), NEW i \in queued PROVE FALSE
    OBVIOUS
  <2>2. queue[i].owner = item.owner /\ queue[i].n = item.n /\ queue[i].n \in Nat
    BY <1>1, <2>1 DEF Held, IdOf, Item
  <2> QED
    BY <2>1, <2>2 DEF Held, IInv, Stream, InOrder
<1>7. id \in Handled \/ Held(id) \/ queued # {}
  BY DEF IInv, Stream, NothingForgotten, QueuedAt
<1>8. ~(id \in ToSet(saved) /\ id \in lost)
  BY DEF IInv, Stream, InOrder
<1>9. Cardinality(queued) = IF queued = {} THEN 0 ELSE 1
  <2> HIDE DEF queued
  <2>1. CASE queued = {}
    BY <2>1, FS_EmptySet
  <2>2. CASE queued # {}
    <3>1. PICK i : i \in queued
      BY <2>2
    <3>2. queued = {i}
      BY <1>2, <3>1
    <3> QED
      BY <2>2, <3>2, FS_Singleton
  <2> QED
    BY <2>1, <2>2
<1>10. Cardinality(stored) = IF stored = {} THEN 0 ELSE 1
  <2> HIDE DEF stored
  <2>1. CASE stored = {}
    BY <2>1, FS_EmptySet
  <2>2. CASE stored # {}
    <3>1. PICK i : i \in stored
      BY <2>2
    <3>2. stored = {i}
      BY <1>3, <3>1
    <3> QED
      BY <2>2, <3>2, FS_Singleton
  <2> QED
    BY <2>1, <2>2
<1>11. AccountedFor(id) <=>
         Cardinality(queued) + (IF Held(id) THEN 1 ELSE 0) + Cardinality(stored)
           + (IF id \in lost THEN 1 ELSE 0) = 1
  BY DEF AccountedFor, Held
<1> HIDE DEF queued, stored
<1> QED
  BY <1>4, <1>5, <1>6, <1>7, <1>8, <1>9, <1>10, <1>11 DEF Handled

\* Queue, locks and goroutines keep their types.
THEOREM TypeCorrect == Spec => []TypeOK
<1>1. IInv => TypeOK
  BY DEF IInv, Typed
<1> QED
  BY <1>1, InitIInv, NextIInv, PTL DEF Spec

\* However many jobs publish while callers flush and record, the queue drops
\* and duplicates nothing, and the store sees the events of a job in order.
THEOREM LedgerCorrect == Spec => []LedgerIsFaithful
<1>1. IInv => LedgerIsFaithful
  BY EventsAreAccountedFor DEF LedgerIsFaithful, IInv, Stream, InOrder
<1> QED
  BY <1>1, InitIInv, NextIInv, PTL DEF Spec

\* A flush returns only when all that was published before it began is saved
\* or was refused, whatever else is in the queue.
THEOREM FlushCorrect == Spec => []FlushCoversEarlierEvents
<1>1. IInv => FlushCoversEarlierEvents
  BY DEF IInv, Stream, BarriersCover
<1> QED
  BY <1>1, InitIInv, NextIInv, PTL DEF Spec

\* No job and no evaluation is left to send when Shutdown closes the queue.
THEOREM CloseCorrect == Spec => []TrackedSendersAreGone
<1>1. IInv => TrackedSendersAreGone
  BY DEF IInv, Typed, TypeOK, Stopping, TrackedNeverPanic, TrackedSendersAreGone
<1> QED
  BY <1>1, InitIInv, NextIInv, PTL DEF Spec

\* When Shutdown returns, every published event is saved or was refused.
THEOREM ShutdownCorrect == Spec => []ShutdownLosesNothing
<1>1. IInv => ShutdownLosesNothing
  BY DEF IInv, Stopping, TrackedNeverPanic, Stream, NothingForgotten, Held, ShutdownLosesNothing
<1> QED
  BY <1>1, InitIInv, NextIInv, PTL DEF Spec

\* No evaluation that Shutdown waits for ever sends on the closed queue: only
\* a request handler, which it does not wait for, can (recordOperationalEvent).
THEOREM TrackedCorrect == Spec => []TrackedNeverPanic
<1>1. IInv => TrackedNeverPanic
  BY DEF IInv, Stopping
<1> QED
  BY <1>1, InitIInv, NextIInv, PTL DEF Spec
=============================================================================
