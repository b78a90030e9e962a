--------------------------- MODULE FailoverProofs ---------------------------
(***************************************************************************)
(* Theorems about Failover, for any number of backups, evaluations and     *)
(* validations.  Whole rows overwrite each other, so what is said of the   *)
(* row of the store has to be said of every copy an actor may still write  *)
(* (Sound), and of what the actor knows at its place (Place).              *)
(***************************************************************************)
EXTENDS Failover, TLAPS

(***************************************************************************)
(* A row may be written: its advice and its active provider go back to     *)
(* validations that succeeded.                                             *)
(***************************************************************************)
Sound(r) ==
  /\ AdviceIs(r, {"open", "applied", "recovered"}) => <<r.advice.suggested, r.advice.job>> \in passed
  /\ AdviceIs(r, {"validating"}) => r.advice.suggested = BackupProviderIDs[1]
  /\ r.active # Primary => \E b \in Actor : <<r.active, b>> \in passed

\* What an actor may rely on where it stands.
Place(a) ==
  /\ Sound(local[a])
  /\ local[a].advice # NoAdvice => row.advice # NoAdvice
  /\ pc[a] = "activate" => AdviceIs(local[a], {"open"})
  /\ a \in Evaluation /\ pc[a] = "open" =>
       next[a] <= Len(BackupProviderIDs) /\ <<BackupProviderIDs[next[a]], a>> \in passed
  /\ a \in Handler /\ pc[a] \in {"reload", "complete"} /\ ok[a] =>
       <<BackupProviderIDs[1], a>> \in passed
  /\ a \in Handler /\ pc[a] = "complete" =>
       AdviceIs(local[a], {"validating"}) /\ local[a].advice.job = a
  /\ a = Recovery /\ pc[a] # "idle" => row.advice # NoAdvice
  /\ a = Client /\ pc[a] \in {"apply", "switch"} => AdviceIs(local[a], {"open"})

IInv ==
  /\ TypeOK
  /\ Sound(row)
  /\ \A a \in Actor : Place(a)
  /\ ValidationIsExclusive
  /\ ThresholdIsAnswered

-----------------------------------------------------------------------------
(***************************************************************************)
(* What a step of one actor has to do for the rest to stand.               *)
(***************************************************************************)
\* Nobody else moves, and what was said stays true.
Frame(a) ==
  /\ passed \subseteq passed'
  /\ row.advice # NoAdvice => row'.advice # NoAdvice
  /\ ctxDone => ctxDone'
  /\ \A b \in Actor \ {a} : pc'[b] = pc[b] /\ local'[b] = local[b] /\ ok'[b] = ok[b]
  /\ \A b \in Evaluation \ {a} : next'[b] = next[b]

\* failoverRunning is left alone, taken or given back as the place demands.
LockStep(a) ==
  \/ holder' = holder /\ (a \in Handler \/ (pc[a] \in Places(a) <=> pc'[a] \in Places(a)))
  \/ holder = Nobody /\ holder' = a /\ a \notin Handler /\ pc'[a] \in Places(a)
  \/ holder = a /\ holder' = Nobody /\ a \notin Handler /\ pc'[a] \notin Places(a)

Answered == row.advice # NoAdvice \/ holder # Nobody \/ ctxDone

\* Who gives failoverRunning back leaves an advice behind.
AnswerStep(a) ==
  /\ holder # Nobody => Answered'
  /\ a \in Evaluation /\ pc'[a] \in {"refused", "answered"} => Answered'

\* The four kinds of actors are told apart.
LEMMA Actors ==
  /\ Nobody \notin Actor /\ Primary \notin Backup /\ Recovery \in Actor /\ Client \in Actor
  /\ \A e \in Evaluation : e \in Actor /\ e \notin Handler /\ e # Recovery /\ e # Client
  /\ \A u \in Handler : u \in Actor /\ u \notin Evaluation /\ u # Recovery /\ u # Client
  /\ Recovery \notin Evaluation \cup Handler /\ Client \notin Evaluation \cup Handler
  /\ Recovery # Client
BY FailoverAssumption DEF Actor

\* The backups by priority.
LEMMA Backups ==
  /\ Len(BackupProviderIDs) \in Nat \ {0}
  /\ \A i \in 1 .. Len(BackupProviderIDs) : BackupProviderIDs[i] \in Backup
<1>1. BackupProviderIDs \in Seq(Backup) /\ BackupProviderIDs # <<>>
  BY FailoverAssumption
<1>2. Len(BackupProviderIDs) \in Nat /\ Len(BackupProviderIDs) # 0
  BY <1>1
<1> QED
  BY <1>1, <1>2

\* A goroutine that has returned keeps nothing.
LEMMA BlankIsSound ==
  ASSUME TypeOK
  PROVE  Blank \in Row /\ Blank.advice = NoAdvice /\ Sound(Blank)
<1>1. row.settings \in Settings
  BY DEF TypeOK, Row
<1>2. (CHOOSE s \in Settings : TRUE) \in Settings
  BY <1>1
<1>3. Blank \in Row /\ Blank.advice = NoAdvice /\ Blank.active = Primary
  BY <1>2 DEF Blank, Row
<1> QED
  BY <1>3 DEF Sound, AdviceIs

\* A sound copy may be written over any sound row.
LEMMA UpsertKeeps ==
  ASSUME row \in Row, Sound(row), NEW r \in Row, Sound(r), UpsertProviderGroup(r),
         passed \subseteq passed'
  PROVE  /\ row' \in Row /\ Sound(row)'
         /\ row.advice # NoAdvice => row'.advice # NoAdvice
         /\ r.advice # NoAdvice => row'.advice # NoAdvice
<1>1. CASE r.advice = NoAdvice
  <2>1. row' = [r EXCEPT !.advice = row.advice]
    BY <1>1 DEF UpsertProviderGroup
  <2>2. row' \in Row /\ row'.active = r.active /\ row'.advice = row.advice
    BY <2>1 DEF Row
  <2> QED
    BY <1>1, <2>2 DEF Sound, AdviceIs
<1>2. CASE r.advice # NoAdvice
  BY <1>2 DEF UpsertProviderGroup, Sound, AdviceIs
<1> QED
  BY <1>1, <1>2

\* An actor that does not move keeps what it knows.
LEMMA OthersKeep ==
  ASSUME NEW a \in Actor, NEW c \in Actor \ {a}, Frame(a), Place(c)
  PROVE  Place(c)'
<1>1. /\ pc'[c] = pc[c] /\ local'[c] = local[c] /\ ok'[c] = ok[c]
      /\ c \in Evaluation => next'[c] = next[c]
      /\ passed \subseteq passed'
      /\ row.advice # NoAdvice => row'.advice # NoAdvice
  BY DEF Frame
<1>2. Sound(local[c])
  BY DEF Place
<1>3. Sound(local[c])'
  BY <1>1, <1>2 DEF Sound, AdviceIs
<1> QED
  BY <1>1, <1>3 DEF Place, AdviceIs

\* What is left to show of a step of one actor.
LEMMA StepKeeps ==
  ASSUME IInv, NEW a \in Actor, TypeOK', Sound(row)', Frame(a), Place(a)',
         LockStep(a), AnswerStep(a)
  PROVE  IInv'
<1>1. \A b \in Actor : Place(b)'
  BY OthersKeep DEF IInv
<1>2. ValidationIsExclusive'
  <2> SUFFICES ASSUME NEW b \in Evaluation \cup {Recovery, Client}
               PROVE  holder' = b <=> pc'[b] \in Places(b)
    BY DEF ValidationIsExclusive, Places
  <2>1. b \in Actor /\ b \notin Handler /\ (holder = b <=> pc[b] \in Places(b))
    BY Actors DEF IInv, ValidationIsExclusive
  <2>2. CASE b = a
    BY <2>1, <2>2, Actors DEF LockStep
  <2>3. CASE b # a
    <3>1. pc'[b] = pc[b]
      BY <2>1, <2>3 DEF Frame
    <3>2. (a \in Evaluation \cup {Recovery, Client} /\ (holder = a <=> pc[a] \in Places(a))) \/ a \in Handler
      BY DEF Actor, IInv, ValidationIsExclusive
    <3> QED
      BY <2>1, <2>3, <3>1, <3>2, Actors DEF LockStep
  <2> QED
    BY <2>2, <2>3
<1>3. ThresholdIsAnswered'
  <2> SUFFICES ASSUME NEW e \in Evaluation, pc'[e] \in {"refused", "answered"}
               PROVE  Answered'
    BY DEF ThresholdIsAnswered, Answered
  <2>1. CASE e = a
    BY <2>1 DEF AnswerStep
  <2>2. CASE e # a
    <3>1. pc'[e] = pc[e]
      BY <2>2, Actors DEF Frame
    <3>2. Answered
      BY <3>1 DEF IInv, ThresholdIsAnswered, Answered
    <3> QED
      BY <3>2 DEF Frame, Answered, AnswerStep
  <2> QED
    BY <2>1, <2>2
<1> QED
  BY <1>1, <1>2, <1>3 DEF IInv

\* What a proof of a step of an actor starts from.
Base(a) ==
  /\ a \in Actor /\ TypeOK /\ Sound(row) /\ Place(a)
  /\ row \in Row /\ local[a] \in Row /\ Sound(local[a])
  /\ local[a].advice # NoAdvice => row.advice # NoAdvice
  /\ Blank \in Row /\ Blank.advice = NoAdvice /\ Sound(Blank)
  /\ a \notin Handler => (holder = a <=> pc[a] \in Places(a))

LEMMA Known ==
  ASSUME IInv, NEW a \in Actor
  PROVE  Base(a)
<1>1. TypeOK /\ Sound(row) /\ Place(a)
  BY DEF IInv
<1>2. row \in Row /\ local[a] \in Row
  BY <1>1 DEF TypeOK
<1>3. a \notin Handler => (holder = a <=> pc[a] \in Places(a))
  BY DEF IInv, ValidationIsExclusive, Actor
<1> QED
  BY <1>1, <1>2, <1>3, BlankIsSound DEF Place, Base

\* Going on, with or without a new copy and result, keeps the types.
OwnTyped == pc \in [Actor -> PC] /\ local \in [Actor -> Row] /\ ok \in [Actor -> BOOLEAN]

LEMMA ReturnTyped ==
  ASSUME NEW a, Base(a), NEW place \in PC, Return(a, place)
  PROVE  OwnTyped'
BY DEF Base, TypeOK, OwnTyped, Return, Goto, Copy

LEMMA MoveTyped ==
  ASSUME NEW a, Base(a), NEW place \in PC, Goto(a, place),
         NEW r \in Row, Copy(a, r) \/ UNCHANGED local,
         NEW b \in BOOLEAN, ok' = [ok EXCEPT ![a] = b] \/ UNCHANGED ok
  PROVE  OwnTyped'
BY DEF Base, TypeOK, OwnTyped, Goto, Copy

\* At most places the copy is sound, and nothing else is known.
LEMMA PlainPlace ==
  ASSUME NEW a \in Actor, NEW r, local'[a] = r, Sound(r), passed \subseteq passed',
         r.advice # NoAdvice => row'.advice # NoAdvice,
         pc'[a] \notin {"activate", "open", "reload", "complete", "apply", "switch"},
         a = Recovery => pc'[a] = "idle" \/ row'.advice # NoAdvice
  PROVE  Place(a)'
<1>1. Sound(local[a])'
  BY DEF Sound, AdviceIs
<1> QED
  BY <1>1 DEF Place

\* The ledger counts up to the larger threshold.
LEMMA ExtendedTyped ==
  ASSUME TypeOK, NEW success \in BOOLEAN
  PROVE  Extended(success) \in [ok : BOOLEAN, n : 0 .. Longest]
<1>1. Longest \in Nat \ {0}
  BY FailoverAssumption DEF Longest
<1>2. streak \in [ok : BOOLEAN, n : 0 .. Longest]
  BY DEF TypeOK
<1> QED
  BY <1>1, <1>2 DEF Extended

-----------------------------------------------------------------------------
(***************************************************************************)
(* The steps of an evaluation                                              *)
(***************************************************************************)

\* A request on the primary ends.
LEMMA RequestEndsKeeps ==
  ASSUME IInv, NEW e \in Evaluation, RequestEnds(e)
  PROVE  IInv'
<1>0. Base(e)
  BY Actors, Known
<1>1. /\ row' = row /\ passed' = passed /\ ctxDone' = ctxDone
      /\ holder' = holder /\ pc[e] = "idle" /\ pc'[e] = "list" /\ local'[e] = local[e]
  BY <1>0, Actors DEF Base, RequestEnds, TypeOK, Goto, locks
<1>2. row' \in Row /\ Sound(row)' /\ (row.advice # NoAdvice => row'.advice # NoAdvice)
  BY <1>0, <1>1 DEF Base, Sound, AdviceIs
<1>3. TypeOK'
  BY <1>0, <1>1, <1>2, Actors, ExtendedTyped DEF Base, RequestEnds, TypeOK, PC, Goto, locks
<1>4. Frame(e)
  BY <1>0, <1>1, <1>2 DEF Base, RequestEnds, TypeOK, Frame, Goto, locks
<1>5. Place(e)'
  BY <1>0, <1>1, <1>2, Actors, PlainPlace DEF Base
<1>6. LockStep(e) /\ AnswerStep(e)
  BY <1>0, <1>1, <1>2, Actors DEF Base, LockStep, AnswerStep, Answered, Places, Place
<1> QED
  BY <1>0, <1>2, <1>3, <1>4, <1>5, <1>6, StepKeeps DEF Base

\* The evaluation reads the row.
LEMMA ListProviderGroupsKeeps ==
  ASSUME IInv, NEW e \in Evaluation, ListProviderGroups(e)
  PROVE  IInv'
<1>0. Base(e)
  BY Actors, Known
<1>1. /\ row' = row /\ passed' = passed /\ ctxDone' = ctxDone
      /\ holder' = holder /\ pc[e] = "list"
      /\ \/ pc'[e] = "done" /\ local'[e] = Blank
         \/ pc'[e] \in {"recover", "count"} /\ local'[e] = row
  BY <1>0, Actors DEF Base, ListProviderGroups, TypeOK, Return, Goto, Copy, locks
<1>2. row' \in Row /\ Sound(row)' /\ (row.advice # NoAdvice => row'.advice # NoAdvice)
  BY <1>0, <1>1 DEF Base, Sound, AdviceIs
<1>3. TypeOK'
  BY <1>0, <1>1, <1>2, Actors, ReturnTyped, MoveTyped
     DEF Base, ListProviderGroups, TypeOK, PC, OwnTyped, locks
<1>4. Frame(e)
  BY <1>0, <1>1, <1>2 DEF Base, ListProviderGroups, TypeOK, Frame, Return, Goto, Copy, locks
<1>5. Place(e)'
  BY <1>0, <1>1, <1>2, Actors, PlainPlace DEF Base
<1>6. LockStep(e) /\ AnswerStep(e)
  BY <1>0, <1>1, <1>2, Actors DEF Base, LockStep, AnswerStep, Answered, Places, Place
<1> QED
  BY <1>0, <1>2, <1>3, <1>4, <1>5, <1>6, StepKeeps DEF Base

\* The ledger is counted.
LEMMA CountFailuresKeeps ==
  ASSUME IInv, NEW e \in Evaluation, CountFailures(e)
  PROVE  IInv'
<1>0. Base(e)
  BY Actors, Known
<1>1. /\ row' = row /\ passed' = passed /\ ctxDone' = ctxDone
      /\ holder' = holder /\ pc[e] = "count"
      /\ \/ pc'[e] = "done" /\ local'[e] = Blank
         \/ pc'[e] = "acquire" /\ local'[e] = local[e]
  BY <1>0, Actors DEF Base, CountFailures, TypeOK, Return, Goto, Copy, locks
<1>2. row' \in Row /\ Sound(row)' /\ (row.advice # NoAdvice => row'.advice # NoAdvice)
  BY <1>0, <1>1 DEF Base, Sound, AdviceIs
<1>3. TypeOK'
  BY <1>0, <1>1, <1>2, Actors, ReturnTyped, MoveTyped
     DEF Base, CountFailures, TypeOK, PC, OwnTyped, locks
<1>4. Frame(e)
  BY <1>0, <1>1, <1>2 DEF Base, CountFailures, TypeOK, Frame, Return, Goto, Copy, locks
<1>5. Place(e)'
  BY <1>0, <1>1, <1>2, Actors, PlainPlace DEF Base
<1>6. LockStep(e) /\ AnswerStep(e)
  BY <1>0, <1>1, <1>2, Actors DEF Base, LockStep, AnswerStep, Answered, Places, Place
<1> QED
  BY <1>0, <1>2, <1>3, <1>4, <1>5, <1>6, StepKeeps DEF Base

\* failoverRunning is taken, or the evaluation is turned away.
LEMMA AcquireKeeps ==
  ASSUME IInv, NEW e \in Evaluation, Acquire(e)
  PROVE  IInv'
<1>0. Base(e)
  BY Actors, Known
<1>1. /\ row' = row /\ passed' = passed /\ ctxDone' = ctxDone
      /\ pc[e] = "acquire"
      /\ \/ holder = Nobody /\ holder' = e /\ pc'[e] = "validate" /\ local'[e] = local[e]
         \/ holder # Nobody /\ holder' = holder /\ pc'[e] = "refused" /\ local'[e] = Blank
  BY <1>0, Actors DEF Base, Acquire, TypeOK, Return, Goto, Copy, locks, acquireFailover
<1>2. row' \in Row /\ Sound(row)' /\ (row.advice # NoAdvice => row'.advice # NoAdvice)
  BY <1>0, <1>1 DEF Base, Sound, AdviceIs
<1>3. TypeOK'
  BY <1>0, <1>1, <1>2, Actors, ReturnTyped, MoveTyped
     DEF Base, Acquire, TypeOK, PC, OwnTyped, locks, acquireFailover
<1>4. Frame(e)
  BY <1>0, <1>1, <1>2 DEF Base, Acquire, TypeOK, Frame, Return, Goto, Copy, locks, acquireFailover
<1>5. Place(e)'
  BY <1>0, <1>1, <1>2, Actors, PlainPlace DEF Base
<1>6. LockStep(e) /\ AnswerStep(e)
  BY <1>0, <1>1, <1>2, Actors DEF Base, LockStep, AnswerStep, Answered, Places, Place
<1> QED
  BY <1>0, <1>2, <1>3, <1>4, <1>5, <1>6, StepKeeps DEF Base

\* A backup is validated.
LEMMA TryBackupKeeps ==
  ASSUME IInv, NEW e \in Evaluation, TryBackup(e)
  PROVE  IInv'
<1>0. Base(e)
  BY Actors, Known
<1>1. /\ row' = row /\ passed \subseteq passed' /\ ctxDone' = ctxDone
      /\ holder' = holder /\ pc[e] = "validate" /\ local'[e] = local[e]
      /\ \/ pc'[e] = "validate"
         \/ pc'[e] = "open" /\ next'[e] <= Len(BackupProviderIDs) /\ <<BackupProviderIDs[next'[e]], e>> \in passed'
  BY <1>0, Actors DEF Base, TryBackup, TypeOK, Goto, locks, BackupsLeft
<1>2. row' \in Row /\ Sound(row)' /\ (row.advice # NoAdvice => row'.advice # NoAdvice)
  BY <1>0, <1>1 DEF Base, Sound, AdviceIs
<1>3. TypeOK'
  <2>1. next[e] \in 1 .. Len(BackupProviderIDs)
    BY <1>0, Backups DEF Base, TypeOK, TryBackup, BackupsLeft
  <2>2. passed' \subseteq Backup \X Actor
    BY <1>0, <2>1, Backups DEF Base, TypeOK, TryBackup
  <2>3. next' \in [Evaluation -> 1 .. Len(BackupProviderIDs) + 1]
    BY <1>0, <2>1, Backups DEF Base, TypeOK, TryBackup
  <2> QED
    BY <1>0, <1>2, <2>2, <2>3 DEF Base, TryBackup, TypeOK, PC, Goto, locks
<1>4. Frame(e)
  BY <1>0, <1>1, <1>2 DEF Base, TryBackup, TypeOK, Frame, Goto, locks, BackupsLeft
<1>5. Place(e)'
  BY <1>0, <1>1, <1>2, Actors DEF Base, Place, Sound, AdviceIs
<1>6. LockStep(e) /\ AnswerStep(e)
  BY <1>0, <1>1, <1>2, Actors DEF Base, LockStep, AnswerStep, Answered, Places, Place
<1> QED
  BY <1>0, <1>2, <1>3, <1>4, <1>5, <1>6, StepKeeps DEF Base

\* The service goes down between two backups.
LEMMA AbandonKeeps ==
  ASSUME IInv, NEW e \in Evaluation, Abandon(e)
  PROVE  IInv'
<1>0. Base(e)
  BY Actors, Known
<1>1. /\ row' = row /\ passed' = passed /\ ctxDone /\ ctxDone'
      /\ holder = e /\ holder' = Nobody /\ pc'[e] = "done" /\ local'[e] = Blank
  BY <1>0, Actors DEF Base, Abandon, TypeOK, Return, Goto, Copy, releaseFailover
<1>2. row' \in Row /\ Sound(row)' /\ (row.advice # NoAdvice => row'.advice # NoAdvice)
  BY <1>0, <1>1 DEF Base, Sound, AdviceIs
<1>3. TypeOK'
  BY <1>0, <1>1, <1>2, Actors, ReturnTyped, MoveTyped
     DEF Base, Abandon, TypeOK, PC, OwnTyped, releaseFailover
<1>4. Frame(e)
  BY <1>0, <1>1, <1>2 DEF Base, Abandon, TypeOK, Frame, Return, Goto, Copy, releaseFailover
<1>5. Place(e)'
  BY <1>0, <1>1, <1>2, Actors, PlainPlace DEF Base
<1>6. LockStep(e) /\ AnswerStep(e)
  BY <1>0, <1>1, <1>2, Actors DEF Base, LockStep, AnswerStep, Answered, Places, Place
<1> QED
  BY <1>0, <1>2, <1>3, <1>4, <1>5, <1>6, StepKeeps DEF Base

\* The copy is written with its advice.
LEMMA OpenAdviceKeeps ==
  ASSUME IInv, NEW e \in Evaluation, OpenAdvice(e)
  PROVE  IInv'
<1> DEFINE r == [local[e] EXCEPT !.advice = NewAdvice("open", BackupProviderIDs[next[e]], e)]
<1>0. Base(e)
  BY Actors, Known
<1>1. /\ passed' = passed /\ ctxDone' = ctxDone
      /\ holder' = holder /\ pc[e] = "open" /\ pc'[e] = "activate" /\ local'[e] = r
      /\ UpsertProviderGroup(r) /\ Copy(e, r)
      /\ next[e] \in 1 .. Len(BackupProviderIDs) /\ <<BackupProviderIDs[next[e]], e>> \in passed
  BY <1>0, Actors DEF Base, OpenAdvice, TypeOK, Goto, Copy, locks, Place
<1>r. r \in Row /\ Sound(r) /\ AdviceIs(r, {"open"})
  <2>1. NewAdvice("open", BackupProviderIDs[next[e]], e) \in Advice
    BY <1>0, <1>1, Backups DEF Base, NewAdvice, Advice, Status
  <2> QED
    BY <1>0, <1>1, <2>1, NoAdviceAssumption DEF Base, Sound, AdviceIs, Row, NewAdvice
<1> HIDE DEF r
<1>2. /\ row' \in Row /\ Sound(row)' /\ (row.advice # NoAdvice => row'.advice # NoAdvice)
      /\ r.advice # NoAdvice => row'.advice # NoAdvice
  BY <1>0, <1>1, <1>r, UpsertKeeps DEF Base
<1>3. TypeOK'
  <2>1. local' \in [Actor -> Row]
    BY <1>0, <1>1, <1>r DEF Base, TypeOK, Copy
  <2> QED
    BY <1>0, <1>2, <2>1 DEF Base, OpenAdvice, TypeOK, PC, Goto, locks
<1>4. Frame(e)
  BY <1>0, <1>1, <1>2 DEF Base, OpenAdvice, TypeOK, Frame, Goto, Copy, locks, Place
<1>5. Place(e)'
  BY <1>0, <1>1, <1>r, <1>2, Actors DEF Base, Place, Sound, AdviceIs
<1>6. LockStep(e) /\ AnswerStep(e)
  BY <1>0, <1>1, <1>r, <1>2, Actors DEF Base, LockStep, AnswerStep, Answered, Places, Place
<1> QED
  BY <1>0, <1>2, <1>3, <1>4, <1>5, <1>6, StepKeeps DEF Base

\* No backup passed: the advice says so.
LEMMA NoBackupPassedKeeps ==
  ASSUME IInv, NEW e \in Evaluation, NoBackupPassed(e)
  PROVE  IInv'
<1> DEFINE r == [local[e] EXCEPT !.advice = NewAdvice("validation_failed", Primary, e)]
<1>0. Base(e)
  BY Actors, Known
<1>1. /\ passed' = passed /\ ctxDone' = ctxDone
      /\ holder = e /\ holder' = Nobody /\ pc'[e] = "answered" /\ local'[e] = Blank
      /\ UpsertProviderGroup(r)
  BY <1>0, Actors DEF Base, NoBackupPassed, TypeOK, Return, Goto, Copy, releaseFailover
<1>r. r \in Row /\ Sound(r) /\ r.advice # NoAdvice
  BY <1>0, <1>1, Actors, NoAdviceAssumption
     DEF Base, Sound, AdviceIs, Row, Advice, Status, NewAdvice
<1> HIDE DEF r
<1>2. /\ row' \in Row /\ Sound(row)' /\ (row.advice # NoAdvice => row'.advice # NoAdvice)
      /\ r.advice # NoAdvice => row'.advice # NoAdvice
  BY <1>0, <1>1, <1>r, UpsertKeeps DEF Base
<1>3. TypeOK'
  BY <1>0, <1>1, <1>r, <1>2, Actors, ReturnTyped, MoveTyped
     DEF Base, NoBackupPassed, TypeOK, PC, OwnTyped, releaseFailover
<1>4. Frame(e)
  BY <1>0, <1>1, <1>2 DEF Base, NoBackupPassed, TypeOK, Frame, Return, Goto, Copy, releaseFailover
<1>5. Place(e)'
  BY <1>0, <1>1, <1>r, <1>2, Actors, PlainPlace DEF Base
<1>6. LockStep(e) /\ AnswerStep(e)
  BY <1>0, <1>1, <1>r, <1>2, Actors DEF Base, LockStep, AnswerStep, Answered, Places, Place
<1> QED
  BY <1>0, <1>2, <1>3, <1>4, <1>5, <1>6, StepKeeps DEF Base

\* The switch of an evaluation or of a handler.
LEMMA ActivateKeeps ==
  ASSUME IInv, NEW a \in Evaluation \cup Handler, Activate(a)
  PROVE  IInv'
<1> DEFINE r == [local[a] EXCEPT !.active = local[a].advice.suggested]
<1>0. Base(a)
  BY Actors, Known
<1>1. /\ passed' = passed /\ ctxDone' = ctxDone
      /\ pc'[a] = "answered" /\ local'[a] = Blank
      /\ UpsertProviderGroup(r) \/ row' = row
      /\ AdviceIs(local[a], {"open"}) /\ row.advice # NoAdvice
      /\ \/ a \in Evaluation /\ holder = a /\ holder' = Nobody
         \/ a \in Handler /\ holder' = holder
  BY <1>0, Actors
     DEF Base, Activate, TypeOK, Return, Goto, Copy, locks, releaseFailover, Place, AdviceIs
<1>r. r \in Row /\ Sound(r)
  BY <1>0, <1>1, Actors, NoAdviceAssumption DEF Base, Sound, AdviceIs, Row, Advice, Status
<1> HIDE DEF r
<1>2. /\ row' \in Row /\ Sound(row)' /\ (row.advice # NoAdvice => row'.advice # NoAdvice)
      /\ r.advice # NoAdvice => row'.advice # NoAdvice
  <2>1. CASE UpsertProviderGroup(r)
    BY <1>0, <1>1, <1>r, <2>1, UpsertKeeps DEF Base
  <2>2. CASE row' = row
    BY <1>0, <1>1, <1>r, <2>2 DEF Base, Sound, AdviceIs
  <2> QED
    BY <1>1, <2>1, <2>2
<1>3. TypeOK'
  BY <1>0, <1>1, <1>r, <1>2, Actors, ReturnTyped, MoveTyped
     DEF Base, Activate, TypeOK, PC, OwnTyped, locks, releaseFailover, Place, AdviceIs
<1>4. Frame(a)
  BY <1>0, <1>1, <1>2
     DEF Base, Activate, TypeOK, Frame, Return, Goto, Copy, locks, releaseFailover, Place,
     AdviceIs
<1>5. Place(a)'
  BY <1>0, <1>1, <1>r, <1>2, Actors, PlainPlace DEF Base
<1>6. LockStep(a) /\ AnswerStep(a)
  BY <1>0, <1>1, <1>r, <1>2, Actors DEF Base, LockStep, AnswerStep, Answered, Places, Place
<1> QED
  BY <1>0, <1>2, <1>3, <1>4, <1>5, <1>6, StepKeeps DEF Base

\* recoverFailoverAdvice reads the row.
LEMMA ReadLatestKeeps ==
  ASSUME IInv, NEW a \in Evaluation \cup {Recovery}, ReadLatest(a)
  PROVE  IInv'
<1>0. Base(a)
  BY Actors, Known
<1>1. /\ row' = row /\ passed' = passed /\ ctxDone' = ctxDone
      /\ holder' = holder /\ pc[a] = "recover" /\ pc'[a] = "recovering" /\ local'[a] = row
  BY <1>0, Actors DEF Base, ReadLatest, TypeOK, Goto, Copy
<1>2. row' \in Row /\ Sound(row)' /\ (row.advice # NoAdvice => row'.advice # NoAdvice)
  BY <1>0, <1>1 DEF Base, Sound, AdviceIs
<1>3. TypeOK'
  BY <1>0, <1>1, <1>2, Actors, ReturnTyped, MoveTyped DEF Base, ReadLatest, TypeOK, PC, OwnTyped
<1>4. Frame(a)
  BY <1>0, <1>1, <1>2 DEF Base, ReadLatest, TypeOK, Frame, Goto, Copy
<1>5. Place(a)'
  BY <1>0, <1>1, <1>2, Actors, PlainPlace DEF Base, Place
<1>6. LockStep(a) /\ AnswerStep(a)
  BY <1>0, <1>1, <1>2, Actors DEF Base, LockStep, AnswerStep, Answered, Places, Place
<1> QED
  BY <1>0, <1>2, <1>3, <1>4, <1>5, <1>6, StepKeeps DEF Base

\* recoverFailoverAdvice writes the row.
LEMMA RecoverAdviceKeeps ==
  ASSUME IInv, NEW a \in Evaluation \cup {Recovery}, RecoverAdvice(a)
  PROVE  IInv'
<1> DEFINE r == IF AdviceIs(local[a], {"open", "applied"}) /\ Successes >= RecoveryThreshold
              THEN Recovered(local[a]) ELSE local[a]
<1>0. Base(a)
  BY Actors, Known
<1>1. /\ passed' = passed /\ ctxDone' = ctxDone
      /\ UpsertProviderGroup(r) /\ pc[a] = "recovering" /\ local'[a] = Blank
      /\ \/ a = Recovery /\ holder' = Nobody /\ pc'[a] = "idle" /\ row.advice # NoAdvice
         \/ a \in Evaluation /\ holder' = holder /\ pc'[a] = "done"
  BY <1>0, Actors DEF Base, RecoverAdvice, TypeOK, Return, Goto, Copy, Place
<1>r. r \in Row /\ Sound(r)
  BY <1>0, <1>1, Actors, NoAdviceAssumption
     DEF Base, Sound, AdviceIs, Row, Advice, Status, Recovered
<1> HIDE DEF r
<1>2. /\ row' \in Row /\ Sound(row)' /\ (row.advice # NoAdvice => row'.advice # NoAdvice)
      /\ r.advice # NoAdvice => row'.advice # NoAdvice
  BY <1>0, <1>1, <1>r, UpsertKeeps DEF Base
<1>3. TypeOK'
  BY <1>0, <1>1, <1>r, <1>2, Actors, ReturnTyped, MoveTyped
     DEF Base, RecoverAdvice, TypeOK, PC, OwnTyped, Place
<1>4. Frame(a)
  BY <1>0, <1>1, <1>2 DEF Base, RecoverAdvice, TypeOK, Frame, Return, Goto, Copy, Place
<1>5. Place(a)'
  BY <1>0, <1>1, <1>r, <1>2, Actors, PlainPlace DEF Base
<1>6. LockStep(a) /\ AnswerStep(a)
  BY <1>0, <1>1, <1>r, <1>2, Actors DEF Base, LockStep, AnswerStep, Answered, Places, Place
<1> QED
  BY <1>0, <1>2, <1>3, <1>4, <1>5, <1>6, StepKeeps DEF Base

-----------------------------------------------------------------------------
(***************************************************************************)
(* The steps of the recovery probe                                         *)
(***************************************************************************)

\* The probe is due.
LEMMA RecoveryDueKeeps ==
  ASSUME IInv, RecoveryDue
  PROVE  IInv'
<1>0. Base(Recovery)
  BY Actors, Known
<1>1. /\ row' = row /\ passed' = passed /\ ctxDone' = ctxDone
      /\ pc[Recovery] = "idle" /\ pc'[Recovery] = "acquire"
      /\ holder' = holder /\ local'[Recovery] = row /\ row.advice # NoAdvice
  BY <1>0, Actors DEF Base, RecoveryDue, TypeOK, Goto, Copy, locks, NeedsRecovery, AdviceIs
<1>2. row' \in Row /\ Sound(row)' /\ (row.advice # NoAdvice => row'.advice # NoAdvice)
  BY <1>0, <1>1 DEF Base, Sound, AdviceIs
<1>3. TypeOK'
  BY <1>0, <1>1, <1>2, Actors, ReturnTyped, MoveTyped
     DEF Base, RecoveryDue, TypeOK, PC, OwnTyped, locks, NeedsRecovery, AdviceIs
<1>4. Frame(Recovery)
  BY <1>0, <1>1, <1>2
     DEF Base, RecoveryDue, TypeOK, Frame, Goto, Copy, locks, NeedsRecovery, AdviceIs
<1>5. Place(Recovery)'
  BY <1>0, <1>1, <1>2, Actors, PlainPlace DEF Base
<1>6. LockStep(Recovery) /\ AnswerStep(Recovery)
  BY <1>0, <1>1, <1>2, Actors DEF Base, LockStep, AnswerStep, Answered, Places, Place
<1> QED
  BY <1>0, <1>2, <1>3, <1>4, <1>5, <1>6, StepKeeps DEF Base

\* failoverRunning is taken for the probe, or the probe is put off.
LEMMA RecoveryAcquireKeeps ==
  ASSUME IInv, RecoveryAcquire
  PROVE  IInv'
<1> DEFINE r == local[Recovery]
<1>0. Base(Recovery)
  BY Actors, Known
<1>1. /\ passed' = passed /\ ctxDone' = ctxDone
      /\ pc[Recovery] = "acquire" /\ local'[Recovery] = Blank /\ row.advice # NoAdvice
      /\ \/ UpsertProviderGroup(r) /\ holder = Nobody /\ holder' = Recovery /\ pc'[Recovery] = "probe"
         \/ row' = row /\ holder' = holder /\ pc'[Recovery] = "idle"
  BY <1>0, Actors
     DEF Base, RecoveryAcquire, TypeOK, Return, Goto, Copy, locks, acquireFailover, Place
<1>r. r \in Row /\ Sound(r)
  BY <1>0, <1>1, Actors, NoAdviceAssumption DEF Base, Sound, AdviceIs, Row, Advice, Status
<1> HIDE DEF r
<1>2. /\ row' \in Row /\ Sound(row)' /\ (row.advice # NoAdvice => row'.advice # NoAdvice)
      /\ r.advice # NoAdvice => row'.advice # NoAdvice
  <2>1. CASE UpsertProviderGroup(r)
    BY <1>0, <1>1, <1>r, <2>1, UpsertKeeps DEF Base
  <2>2. CASE row' = row
    BY <1>0, <1>1, <1>r, <2>2 DEF Base, Sound, AdviceIs
  <2> QED
    BY <1>1, <2>1, <2>2
<1>3. TypeOK'
  BY <1>0, <1>1, <1>r, <1>2, Actors, ReturnTyped, MoveTyped
     DEF Base, RecoveryAcquire, TypeOK, PC, OwnTyped, locks, acquireFailover, Place
<1>4. Frame(Recovery)
  BY <1>0, <1>1, <1>2
     DEF Base, RecoveryAcquire, TypeOK, Frame, Return, Goto, Copy, locks, acquireFailover,
     Place
<1>5. Place(Recovery)'
  BY <1>0, <1>1, <1>r, <1>2, Actors, PlainPlace DEF Base
<1>6. LockStep(Recovery) /\ AnswerStep(Recovery)
  BY <1>0, <1>1, <1>r, <1>2, Actors DEF Base, LockStep, AnswerStep, Answered, Places, Place
<1> QED
  BY <1>0, <1>2, <1>3, <1>4, <1>5, <1>6, StepKeeps DEF Base

\* The probe ends.
LEMMA RecoveryProbeKeeps ==
  ASSUME IInv, RecoveryProbe
  PROVE  IInv'
<1>0. Base(Recovery)
  BY Actors, Known
<1>1. /\ row' = row /\ passed' = passed /\ ctxDone' = ctxDone
      /\ pc[Recovery] = "probe" /\ pc'[Recovery] = "reload"
      /\ holder' = holder /\ local'[Recovery] = local[Recovery]
  BY <1>0, Actors DEF Base, RecoveryProbe, TypeOK, Goto, locks
<1>2. row' \in Row /\ Sound(row)' /\ (row.advice # NoAdvice => row'.advice # NoAdvice)
  BY <1>0, <1>1 DEF Base, Sound, AdviceIs
<1>3. TypeOK'
  BY <1>0, <1>1, <1>2, Actors, ExtendedTyped DEF Base, RecoveryProbe, TypeOK, PC, Goto, locks
<1>4. Frame(Recovery)
  BY <1>0, <1>1, <1>2 DEF Base, RecoveryProbe, TypeOK, Frame, Goto, locks
<1>5. Place(Recovery)'
  BY <1>0, <1>1, <1>2, Actors DEF Base, Place, Sound, AdviceIs
<1>6. LockStep(Recovery) /\ AnswerStep(Recovery)
  BY <1>0, <1>1, <1>2, Actors DEF Base, LockStep, AnswerStep, Answered, Places, Place
<1> QED
  BY <1>0, <1>2, <1>3, <1>4, <1>5, <1>6, StepKeeps DEF Base

\* The probe is not seen to end.
LEMMA RecoveryProbeLostKeeps ==
  ASSUME IInv, RecoveryProbeLost
  PROVE  IInv'
<1>0. Base(Recovery)
  BY Actors, Known
<1>1. /\ row' = row /\ passed' = passed /\ ctxDone' = ctxDone
      /\ pc[Recovery] = "probe" /\ pc'[Recovery] = "reload"
      /\ holder' = holder /\ local'[Recovery] = local[Recovery]
  BY <1>0, Actors DEF Base, RecoveryProbeLost, TypeOK, Goto, locks
<1>2. row' \in Row /\ Sound(row)' /\ (row.advice # NoAdvice => row'.advice # NoAdvice)
  BY <1>0, <1>1 DEF Base, Sound, AdviceIs
<1>3. TypeOK'
  BY <1>0, <1>1, <1>2, Actors DEF Base, RecoveryProbeLost, TypeOK, PC, Goto, locks
<1>4. Frame(Recovery)
  BY <1>0, <1>1, <1>2 DEF Base, RecoveryProbeLost, TypeOK, Frame, Goto, locks
<1>5. Place(Recovery)'
  BY <1>0, <1>1, <1>2, Actors DEF Base, Place, Sound, AdviceIs
<1>6. LockStep(Recovery) /\ AnswerStep(Recovery)
  BY <1>0, <1>1, <1>2, Actors DEF Base, LockStep, AnswerStep, Answered, Places, Place
<1> QED
  BY <1>0, <1>2, <1>3, <1>4, <1>5, <1>6, StepKeeps DEF Base

\* The probe is refused.
LEMMA RecoveryDeferredKeeps ==
  ASSUME IInv, RecoveryDeferred
  PROVE  IInv'
<1>0. Base(Recovery)
  BY Actors, Known
<1>1. /\ row' = row /\ passed' = passed /\ ctxDone' = ctxDone
      /\ pc[Recovery] = "probe" /\ pc'[Recovery] = "settle"
      /\ holder' = holder /\ local'[Recovery] = row
  BY <1>0, Actors DEF Base, RecoveryDeferred, TypeOK, Goto, Copy, locks
<1>2. row' \in Row /\ Sound(row)' /\ (row.advice # NoAdvice => row'.advice # NoAdvice)
  BY <1>0, <1>1 DEF Base, Sound, AdviceIs
<1>3. TypeOK'
  BY <1>0, <1>1, <1>2, Actors, ReturnTyped, MoveTyped
     DEF Base, RecoveryDeferred, TypeOK, PC, OwnTyped, locks
<1>4. Frame(Recovery)
  BY <1>0, <1>1, <1>2 DEF Base, RecoveryDeferred, TypeOK, Frame, Goto, Copy, locks
<1>5. Place(Recovery)'
  BY <1>0, <1>1, <1>2, Actors, PlainPlace DEF Base, Place
<1>6. LockStep(Recovery) /\ AnswerStep(Recovery)
  BY <1>0, <1>1, <1>2, Actors DEF Base, LockStep, AnswerStep, Answered, Places, Place
<1> QED
  BY <1>0, <1>2, <1>3, <1>4, <1>5, <1>6, StepKeeps DEF Base

\* The group is read again.
LEMMA RecoveryReloadKeeps ==
  ASSUME IInv, RecoveryReload
  PROVE  IInv'
<1>0. Base(Recovery)
  BY Actors, Known
<1>1. /\ row' = row /\ passed' = passed /\ ctxDone' = ctxDone
      /\ pc[Recovery] = "reload" /\ row.advice # NoAdvice
      /\ \/ pc'[Recovery] = "settle" /\ local'[Recovery] = row /\ holder' = holder
         \/ pc'[Recovery] = "idle" /\ local'[Recovery] = Blank /\ holder = Recovery /\ holder' = Nobody
  BY <1>0, Actors
     DEF Base, RecoveryReload, TypeOK, Return, Goto, Copy, locks, releaseFailover, Place
<1>2. row' \in Row /\ Sound(row)' /\ (row.advice # NoAdvice => row'.advice # NoAdvice)
  BY <1>0, <1>1 DEF Base, Sound, AdviceIs
<1>3. TypeOK'
  BY <1>0, <1>1, <1>2, Actors, ReturnTyped, MoveTyped
     DEF Base, RecoveryReload, TypeOK, PC, OwnTyped, locks, releaseFailover, Place
<1>4. Frame(Recovery)
  BY <1>0, <1>1, <1>2
     DEF Base, RecoveryReload, TypeOK, Frame, Return, Goto, Copy, locks, releaseFailover, Place
<1>5. Place(Recovery)'
  BY <1>0, <1>1, <1>2, Actors, PlainPlace DEF Base
<1>6. LockStep(Recovery) /\ AnswerStep(Recovery)
  BY <1>0, <1>1, <1>2, Actors DEF Base, LockStep, AnswerStep, Answered, Places, Place
<1> QED
  BY <1>0, <1>2, <1>3, <1>4, <1>5, <1>6, StepKeeps DEF Base

\* The mark of the probe is written.
LEMMA RecoverySettleKeeps ==
  ASSUME IInv, RecoverySettle
  PROVE  IInv'
<1> DEFINE r == local[Recovery]
<1>0. Base(Recovery)
  BY Actors, Known
<1>1. /\ passed' = passed /\ ctxDone' = ctxDone
      /\ UpsertProviderGroup(r) /\ pc[Recovery] = "settle" /\ row.advice # NoAdvice
      /\ \/ pc'[Recovery] = "recover" /\ local'[Recovery] = local[Recovery] /\ holder' = holder
         \/ pc'[Recovery] = "idle" /\ local'[Recovery] = Blank /\ holder = Recovery /\ holder' = Nobody
  BY <1>0, Actors
     DEF Base, RecoverySettle, TypeOK, Return, Goto, Copy, locks, releaseFailover, Place
<1>r. r \in Row /\ Sound(r)
  BY <1>0, <1>1, Actors, NoAdviceAssumption DEF Base, Sound, AdviceIs, Row, Advice, Status
<1> HIDE DEF r
<1>2. /\ row' \in Row /\ Sound(row)' /\ (row.advice # NoAdvice => row'.advice # NoAdvice)
      /\ r.advice # NoAdvice => row'.advice # NoAdvice
  BY <1>0, <1>1, <1>r, UpsertKeeps DEF Base
<1>3. TypeOK'
  BY <1>0, <1>1, <1>r, <1>2, Actors, ReturnTyped, MoveTyped
     DEF Base, RecoverySettle, TypeOK, PC, OwnTyped, locks, releaseFailover, Place
<1>4. Frame(Recovery)
  BY <1>0, <1>1, <1>2
     DEF Base, RecoverySettle, TypeOK, Frame, Return, Goto, Copy, locks, releaseFailover, Place
<1>5. Place(Recovery)'
  BY <1>0, <1>1, <1>r, <1>2, Actors, PlainPlace DEF Base
<1>6. LockStep(Recovery) /\ AnswerStep(Recovery)
  BY <1>0, <1>1, <1>r, <1>2, Actors DEF Base, LockStep, AnswerStep, Answered, Places, Place
<1> QED
  BY <1>0, <1>2, <1>3, <1>4, <1>5, <1>6, StepKeeps DEF Base

-----------------------------------------------------------------------------
(***************************************************************************)
(* The steps of a validation a user started                                *)
(***************************************************************************)

\* The handler reads the row.
LEMMA EvaluateGroupKeeps ==
  ASSUME IInv, NEW u \in Handler, EvaluateGroup(u)
  PROVE  IInv'
<1>0. Base(u)
  BY Actors, Known
<1>1. /\ row' = row /\ passed' = passed /\ ctxDone' = ctxDone
      /\ holder' = holder
      /\ \/ pc'[u] = "done" /\ local'[u] = Blank
         \/ pc'[u] = "start" /\ local'[u] = row
  BY <1>0, Actors DEF Base, EvaluateGroup, TypeOK, Return, Goto, Copy, locks
<1>2. row' \in Row /\ Sound(row)' /\ (row.advice # NoAdvice => row'.advice # NoAdvice)
  BY <1>0, <1>1 DEF Base, Sound, AdviceIs
<1>3. TypeOK'
  BY <1>0, <1>1, <1>2, Actors, ReturnTyped, MoveTyped
     DEF Base, EvaluateGroup, TypeOK, PC, OwnTyped, locks
<1>4. Frame(u)
  BY <1>0, <1>1, <1>2 DEF Base, EvaluateGroup, TypeOK, Frame, Return, Goto, Copy, locks
<1>5. Place(u)'
  BY <1>0, <1>1, <1>2, Actors, PlainPlace DEF Base
<1>6. LockStep(u) /\ AnswerStep(u)
  BY <1>0, <1>1, <1>2, Actors DEF Base, LockStep, AnswerStep, Answered, Places, Place
<1> QED
  BY <1>0, <1>2, <1>3, <1>4, <1>5, <1>6, StepKeeps DEF Base

\* The job of the first backup is started, or refused.
LEMMA StartEvaluationKeeps ==
  ASSUME IInv, NEW u \in Handler, StartEvaluation(u)
  PROVE  IInv'
<1> DEFINE r == [local[u] EXCEPT !.advice = NewAdvice("validating", BackupProviderIDs[1], u)]
<1>0. Base(u)
  BY Actors, Known
<1>1. /\ passed' = passed /\ ctxDone' = ctxDone
      /\ holder' = holder /\ local'[u] = Blank /\ pc'[u] \in {"wait", "done"}
      /\ UpsertProviderGroup(r) \/ row' = row
  BY <1>0, Actors DEF Base, StartEvaluation, TypeOK, Return, Goto, Copy, locks
<1>r. r \in Row /\ Sound(r)
  BY <1>0, <1>1, Actors, NoAdviceAssumption, Backups
     DEF Base, Sound, AdviceIs, Row, Advice, Status, NewAdvice
<1> HIDE DEF r
<1>2. row' \in Row /\ Sound(row)' /\ (row.advice # NoAdvice => row'.advice # NoAdvice)
  <2>1. CASE UpsertProviderGroup(r)
    BY <1>0, <1>1, <1>r, <2>1, UpsertKeeps DEF Base
  <2>2. CASE row' = row
    BY <1>0, <1>1, <1>r, <2>2 DEF Base, Sound, AdviceIs
  <2> QED
    BY <1>1, <2>1, <2>2
<1>3. TypeOK'
  BY <1>0, <1>1, <1>r, <1>2, Actors, ReturnTyped, MoveTyped
     DEF Base, StartEvaluation, TypeOK, PC, OwnTyped, locks
<1>4. Frame(u)
  BY <1>0, <1>1, <1>2 DEF Base, StartEvaluation, TypeOK, Frame, Return, Goto, Copy, locks
<1>5. Place(u)'
  BY <1>0, <1>1, <1>r, <1>2, Actors, PlainPlace DEF Base
<1>6. LockStep(u) /\ AnswerStep(u)
  BY <1>0, <1>1, <1>r, <1>2, Actors DEF Base, LockStep, AnswerStep, Answered, Places, Place
<1> QED
  BY <1>0, <1>2, <1>3, <1>4, <1>5, <1>6, StepKeeps DEF Base

\* The job of the first backup ends.
LEMMA EvaluationEndsKeeps ==
  ASSUME IInv, NEW u \in Handler, EvaluationEnds(u)
  PROVE  IInv'
<1>0. Base(u)
  BY Actors, Known
<1>1. /\ row' = row /\ passed \subseteq passed' /\ ctxDone' = ctxDone
      /\ holder' = holder /\ pc'[u] = "reload" /\ local'[u] = local[u]
      /\ ok'[u] => <<BackupProviderIDs[1], u>> \in passed'
  BY <1>0, Actors DEF Base, EvaluationEnds, TypeOK, Goto, locks
<1>2. row' \in Row /\ Sound(row)' /\ (row.advice # NoAdvice => row'.advice # NoAdvice)
  BY <1>0, <1>1 DEF Base, Sound, AdviceIs
<1>3. TypeOK'
  <2>1. passed' \subseteq Backup \X Actor
    BY <1>0, Backups DEF Base, TypeOK, EvaluationEnds
  <2>2. ok' \in [Actor -> BOOLEAN]
    BY <1>0 DEF Base, TypeOK, EvaluationEnds
  <2> QED
    BY <1>0, <1>2, <2>1, <2>2 DEF Base, EvaluationEnds, TypeOK, PC, Goto, locks
<1>4. Frame(u)
  BY <1>0, <1>1, <1>2 DEF Base, EvaluationEnds, TypeOK, Frame, Goto, locks
<1>5. Place(u)'
  BY <1>0, <1>1, <1>2, Actors DEF Base, Place, Sound, AdviceIs
<1>6. LockStep(u) /\ AnswerStep(u)
  BY <1>0, <1>1, <1>2, Actors DEF Base, LockStep, AnswerStep, Answered, Places, Place
<1> QED
  BY <1>0, <1>2, <1>3, <1>4, <1>5, <1>6, StepKeeps DEF Base

\* The handler reads the group again.
LEMMA ReloadGroupKeeps ==
  ASSUME IInv, NEW u \in Handler, ReloadGroup(u)
  PROVE  IInv'
<1>0. Base(u)
  BY Actors, Known
<1>1. /\ row' = row /\ passed' = passed /\ ctxDone' = ctxDone
      /\ holder' = holder /\ pc[u] = "reload"
      /\ \/ pc'[u] = "done" /\ local'[u] = Blank
         \/ pc'[u] = "complete" /\ local'[u] = row /\ ok'[u] = ok[u] /\ AdviceIs(row, {"validating"}) /\ row.advice.job = u
  BY <1>0, Actors DEF Base, ReloadGroup, TypeOK, Return, Goto, Copy, locks
<1>2. row' \in Row /\ Sound(row)' /\ (row.advice # NoAdvice => row'.advice # NoAdvice)
  BY <1>0, <1>1 DEF Base, Sound, AdviceIs
<1>3. TypeOK'
  BY <1>0, <1>1, <1>2, Actors, ReturnTyped, MoveTyped
     DEF Base, ReloadGroup, TypeOK, PC, OwnTyped, locks
<1>4. Frame(u)
  BY <1>0, <1>1, <1>2 DEF Base, ReloadGroup, TypeOK, Frame, Return, Goto, Copy, locks
<1>5. Place(u)'
  BY <1>0, <1>1, <1>2, Actors DEF Base, Place, Sound, AdviceIs
<1>6. LockStep(u) /\ AnswerStep(u)
  BY <1>0, <1>1, <1>2, Actors DEF Base, LockStep, AnswerStep, Answered, Places, Place
<1> QED
  BY <1>0, <1>2, <1>3, <1>4, <1>5, <1>6, StepKeeps DEF Base

\* The result becomes the status of the advice.
LEMMA CompleteEvaluationKeeps ==
  ASSUME IInv, NEW u \in Handler, CompleteEvaluation(u)
  PROVE  IInv'
<1> DEFINE r == [local[u] EXCEPT !.advice.status = AdviceStatus(ok[u])]
<1>0. Base(u)
  BY Actors, Known
<1>1. /\ passed' = passed /\ ctxDone' = ctxDone
      /\ UpsertProviderGroup(r) /\ holder' = holder
      /\ AdviceIs(local[u], {"validating"}) /\ local[u].advice.job = u
      /\ ok[u] => <<BackupProviderIDs[1], u>> \in passed
      /\ \/ ~ok[u] /\ pc'[u] = "answered" /\ local'[u] = Blank
         \/ ok[u] /\ pc'[u] = "activate" /\ local'[u] = r /\ Copy(u, r)
  BY <1>0, Actors DEF Base, CompleteEvaluation, TypeOK, Return, Goto, Copy, locks, Place
<1>r. r \in Row /\ Sound(r) /\ r.advice # NoAdvice /\ (ok[u] => AdviceIs(r, {"open"}))
  BY <1>0, <1>1, Actors, NoAdviceAssumption
     DEF Base, Sound, AdviceIs, Row, Advice, Status, AdviceStatus
<1> HIDE DEF r
<1>2. /\ row' \in Row /\ Sound(row)' /\ (row.advice # NoAdvice => row'.advice # NoAdvice)
      /\ r.advice # NoAdvice => row'.advice # NoAdvice
  BY <1>0, <1>1, <1>r, UpsertKeeps DEF Base
<1>3. TypeOK'
  <2>1. local' \in [Actor -> Row]
    BY <1>0, <1>1, <1>r DEF Base, CompleteEvaluation, TypeOK, Return, Copy
  <2>2. pc' \in [Actor -> PC] /\ ok' \in [Actor -> BOOLEAN]
    BY <1>0 DEF Base, CompleteEvaluation, TypeOK, PC, Return, Goto
  <2> QED
    BY <1>0, <1>2, <2>1, <2>2 DEF Base, CompleteEvaluation, TypeOK, locks
<1>4. Frame(u)
  BY <1>0, <1>1, <1>2 DEF Base, CompleteEvaluation, TypeOK, Frame, Return, Goto, Copy, locks, Place
<1>5. Place(u)'
  BY <1>0, <1>1, <1>r, <1>2, Actors DEF Base, Place, Sound, AdviceIs
<1>6. LockStep(u) /\ AnswerStep(u)
  BY <1>0, <1>1, <1>r, <1>2, Actors DEF Base, LockStep, AnswerStep, Answered, Places, Place
<1> QED
  BY <1>0, <1>2, <1>3, <1>4, <1>5, <1>6, StepKeeps DEF Base

-----------------------------------------------------------------------------
(***************************************************************************)
(* The steps of a user                                                     *)
(***************************************************************************)

\* The page of the group is read.
LEMMA ReadGroupKeeps ==
  ASSUME IInv, ReadGroup
  PROVE  IInv'
<1>0. Base(Client)
  BY Actors, Known
<1>1. /\ row' = row /\ passed' = passed /\ ctxDone' = ctxDone
      /\ pc[Client] = "idle" /\ pc'[Client] = "page"
      /\ holder' = holder /\ local'[Client] = row
  BY <1>0, Actors DEF Base, ReadGroup, TypeOK, Goto, Copy, locks
<1>2. row' \in Row /\ Sound(row)' /\ (row.advice # NoAdvice => row'.advice # NoAdvice)
  BY <1>0, <1>1 DEF Base, Sound, AdviceIs
<1>3. TypeOK'
  BY <1>0, <1>1, <1>2, Actors, FailoverAssumption, MoveTyped
     DEF Base, ReadGroup, TypeOK, PC, OwnTyped, locks
<1>4. Frame(Client)
  BY <1>0, <1>1, <1>2 DEF Base, ReadGroup, TypeOK, Frame, Goto, Copy, locks
<1>5. Place(Client)'
  BY <1>0, <1>1, <1>2, Actors, PlainPlace DEF Base
<1>6. LockStep(Client) /\ AnswerStep(Client)
  BY <1>0, <1>1, <1>2, Actors DEF Base, LockStep, AnswerStep, Answered, Places, Place
<1> QED
  BY <1>0, <1>2, <1>3, <1>4, <1>5, <1>6, StepKeeps DEF Base

\* The page is written back with other settings, with its advice or without.
LEMMA SettingsKeep ==
  ASSUME IInv, EditGroup \/ ChangeMaintenance
  PROVE  IInv'
<1>0. Base(Client)
  BY Actors, Known
<1>1. /\ passed' = passed /\ ctxDone' = ctxDone /\ holder' = holder
      /\ pc[Client] = "page" /\ pc'[Client] = "idle" /\ local'[Client] = Blank
  BY <1>0 DEF Base, EditGroup, ChangeMaintenance, TypeOK, Return, Goto, Copy, locks
<1>2. PICK r \in Row : Sound(r) /\ UpsertProviderGroup(r)
  <2>1. CASE EditGroup
    <3>1. PICK s \in Settings :
            UpsertProviderGroup([local[Client] EXCEPT !.settings = s, !.advice = NoAdvice])
      BY <2>1 DEF EditGroup
    <3>2. /\ [local[Client] EXCEPT !.settings = s, !.advice = NoAdvice] \in Row
          /\ Sound([local[Client] EXCEPT !.settings = s, !.advice = NoAdvice])
      BY <1>0, <3>1 DEF Base, Row, Sound, AdviceIs
    <3> QED
      BY <3>1, <3>2
  <2>2. CASE ChangeMaintenance
    <3> DEFINE s == [local[Client].settings EXCEPT !.maintenance = ~@]
    <3>1. s \in Settings /\ UpsertProviderGroup([local[Client] EXCEPT !.settings = s])
      BY <2>2 DEF ChangeMaintenance
    <3> HIDE DEF s
    <3>2. [local[Client] EXCEPT !.settings = s] \in Row /\ Sound([local[Client] EXCEPT !.settings = s])
      BY <1>0, <3>1 DEF Base, Row, Sound, AdviceIs
    <3> QED
      BY <3>1, <3>2
  <2> QED
    BY <2>1, <2>2
<1>3. row' \in Row /\ Sound(row)' /\ (row.advice # NoAdvice => row'.advice # NoAdvice)
  BY <1>0, <1>1, <1>2, UpsertKeeps DEF Base
<1>4. TypeOK'
  BY <1>0, <1>3, ReturnTyped DEF Base, EditGroup, ChangeMaintenance, TypeOK, PC, OwnTyped, locks
<1>5. Frame(Client)
  BY <1>0, <1>1, <1>3 DEF Base, EditGroup, ChangeMaintenance, TypeOK, Frame, Return, Goto, Copy
<1>6. Place(Client)'
  BY <1>0, <1>1, <1>3, Actors, PlainPlace DEF Base
<1>7. LockStep(Client) /\ AnswerStep(Client)
  BY <1>0, <1>1, <1>3, Actors DEF Base, LockStep, AnswerStep, Answered, Places
<1> QED
  BY <1>0, <1>3, <1>4, <1>5, <1>6, <1>7, StepKeeps DEF Base

\* failoverRunning is taken for the advice on the page, or not.
LEMMA ApplyAcquireKeeps ==
  ASSUME IInv, ApplyAcquire
  PROVE  IInv'
<1>0. Base(Client)
  BY Actors, Known
<1>1. /\ row' = row /\ passed' = passed /\ ctxDone' = ctxDone
      /\ pc[Client] = "page" /\ AdviceIs(local[Client], {"open"})
      /\ \/ holder = Nobody /\ holder' = Client /\ pc'[Client] = "apply" /\ local'[Client] = local[Client]
         \/ holder' = holder /\ pc'[Client] = "idle" /\ local'[Client] = Blank
  BY <1>0, Actors DEF Base, ApplyAcquire, TypeOK, Return, Goto, Copy, locks, acquireFailover
<1>2. row' \in Row /\ Sound(row)' /\ (row.advice # NoAdvice => row'.advice # NoAdvice)
  BY <1>0, <1>1 DEF Base, Sound, AdviceIs
<1>3. TypeOK'
  BY <1>0, <1>1, <1>2, Actors, ReturnTyped, MoveTyped
     DEF Base, ApplyAcquire, TypeOK, PC, OwnTyped, locks, acquireFailover
<1>4. Frame(Client)
  BY <1>0, <1>1, <1>2
     DEF Base, ApplyAcquire, TypeOK, Frame, Return, Goto, Copy, locks, acquireFailover
<1>5. Place(Client)'
  BY <1>0, <1>1, <1>2, Actors DEF Base, Place, Sound, AdviceIs
<1>6. LockStep(Client) /\ AnswerStep(Client)
  BY <1>0, <1>1, <1>2, Actors DEF Base, LockStep, AnswerStep, Answered, Places, Place
<1> QED
  BY <1>0, <1>2, <1>3, <1>4, <1>5, <1>6, StepKeeps DEF Base

\* The group is read again before the switch.
LEMMA ApplyReadKeeps ==
  ASSUME IInv, ApplyRead
  PROVE  IInv'
<1>0. Base(Client)
  BY Actors, Known
<1>1. /\ row' = row /\ passed' = passed /\ ctxDone' = ctxDone
      /\ pc[Client] = "apply" /\ row.advice # NoAdvice
      /\ \/ holder' = holder /\ pc'[Client] = "switch" /\ local'[Client] = row /\ AdviceIs(row, {"open"})
         \/ holder = Client /\ holder' = Nobody /\ pc'[Client] = "idle" /\ local'[Client] = Blank
  BY <1>0, Actors
     DEF Base, ApplyRead, TypeOK, Return, Goto, Copy, locks, releaseFailover, Place,
     Applicable, AdviceIs
<1>2. row' \in Row /\ Sound(row)' /\ (row.advice # NoAdvice => row'.advice # NoAdvice)
  BY <1>0, <1>1 DEF Base, Sound, AdviceIs
<1>3. TypeOK'
  BY <1>0, <1>1, <1>2, Actors, ReturnTyped, MoveTyped
     DEF Base, ApplyRead, TypeOK, PC, OwnTyped, locks, releaseFailover, Place, Applicable,
     AdviceIs
<1>4. Frame(Client)
  BY <1>0, <1>1, <1>2
     DEF Base, ApplyRead, TypeOK, Frame, Return, Goto, Copy, locks, releaseFailover, Place,
     Applicable, AdviceIs
<1>5. Place(Client)'
  BY <1>0, <1>1, <1>2, Actors DEF Base, Place, Sound, AdviceIs
<1>6. LockStep(Client) /\ AnswerStep(Client)
  BY <1>0, <1>1, <1>2, Actors DEF Base, LockStep, AnswerStep, Answered, Places, Place
<1> QED
  BY <1>0, <1>2, <1>3, <1>4, <1>5, <1>6, StepKeeps DEF Base

\* The advice is applied.
LEMMA ApplySwitchKeeps ==
  ASSUME IInv, ApplySwitch
  PROVE  IInv'
<1> DEFINE r == [local[Client] EXCEPT !.active = local[Client].advice.suggested,
                               !.advice.status = "applied"]
<1>0. Base(Client)
  BY Actors, Known
<1>1. /\ passed' = passed /\ ctxDone' = ctxDone
      /\ UpsertProviderGroup(r) /\ AdviceIs(local[Client], {"open"})
      /\ holder = Client /\ holder' = Nobody /\ pc'[Client] = "idle" /\ local'[Client] = Blank
  BY <1>0, Actors DEF Base, ApplySwitch, TypeOK, Return, Goto, Copy, releaseFailover, Place
<1>r. r \in Row /\ Sound(r) /\ r.advice # NoAdvice
  <2>1. local[Client].advice \in Advice
    BY <1>0, <1>1 DEF Base, AdviceIs, Row
  <2>2. r \in Row /\ r.advice \in Advice /\ r.advice.status = "applied"
        /\ r.advice.suggested = local[Client].advice.suggested /\ r.advice.job = local[Client].advice.job
        /\ r.active = local[Client].advice.suggested
    BY <1>0, <2>1 DEF Base, Row, Advice, Status
  <2>3. local[Client].advice.job \in Actor
        /\ <<local[Client].advice.suggested, local[Client].advice.job>> \in passed
    BY <1>0, <1>1, <2>1 DEF Base, Sound, AdviceIs, Advice
  <2> QED
    BY <2>2, <2>3, NoAdviceAssumption DEF Sound, AdviceIs
<1> HIDE DEF r
<1>2. /\ row' \in Row /\ Sound(row)' /\ (row.advice # NoAdvice => row'.advice # NoAdvice)
      /\ r.advice # NoAdvice => row'.advice # NoAdvice
  BY <1>0, <1>1, <1>r, UpsertKeeps DEF Base
<1>3. TypeOK'
  BY <1>0, <1>1, <1>r, <1>2, Actors, ReturnTyped, MoveTyped
     DEF Base, ApplySwitch, TypeOK, PC, OwnTyped, releaseFailover, Place
<1>4. Frame(Client)
  BY <1>0, <1>1, <1>2
     DEF Base, ApplySwitch, TypeOK, Frame, Return, Goto, Copy, releaseFailover, Place
<1>5. Place(Client)'
  BY <1>0, <1>1, <1>r, <1>2, Actors, PlainPlace DEF Base
<1>6. LockStep(Client) /\ AnswerStep(Client)
  BY <1>0, <1>1, <1>r, <1>2, Actors DEF Base, LockStep, AnswerStep, Answered, Places, Place
<1> QED
  BY <1>0, <1>2, <1>3, <1>4, <1>5, <1>6, StepKeeps DEF Base

-----------------------------------------------------------------------------
(***************************************************************************)
(* The theorems                                                            *)
(***************************************************************************)
LEMMA InitIInv == Init => IInv
<1> SUFFICES ASSUME Init PROVE IInv
  OBVIOUS
<1>1. row \in Row /\ row.advice = NoAdvice /\ row.active = Primary
  BY FailoverAssumption DEF Init, Row
<1>2. row.settings \in Settings
  BY <1>1 DEF Row
<1>3. (CHOOSE s \in Settings : TRUE) \in Settings
  BY <1>2
<1>4. Blank \in Row /\ Blank.advice = NoAdvice /\ Blank.active = Primary
  BY <1>3 DEF Blank, Row
<1>5. TypeOK
  <2>1. Longest \in Nat
    BY FailoverAssumption DEF Longest
  <2>2. local \in [Actor -> Row] /\ pc \in [Actor -> PC] /\ ok \in [Actor -> BOOLEAN]
    BY <1>4 DEF Init, PC
  <2>3. next \in [Evaluation -> 1 .. Len(BackupProviderIDs) + 1]
    BY Backups DEF Init
  <2>4. streak \in [ok : BOOLEAN, n : 0 .. Longest] /\ requests \in 0 .. MaxRequests
    BY <2>1, FailoverAssumption DEF Init
  <2> QED
    BY <1>1, <2>2, <2>3, <2>4 DEF Init, TypeOK
<1>6. Sound(row)
  BY <1>1 DEF Sound, AdviceIs
<1>7. ASSUME NEW a \in Actor PROVE Place(a)
  BY <1>4 DEF Init, Place, Sound, AdviceIs
<1>8. ValidationIsExclusive
  BY Actors DEF Init, ValidationIsExclusive, Places
<1>9. ThresholdIsAnswered
  BY Actors DEF Init, ThresholdIsAnswered
<1> QED
  BY <1>5, <1>6, <1>7, <1>8, <1>9 DEF IInv

LEMMA NextIInv == IInv /\ [Next]_vars => IInv'
<1> SUFFICES ASSUME IInv, [Next]_vars PROVE IInv'
  OBVIOUS
<1>1. ASSUME NEW e \in Evaluation, RequestEnds(e) \/ EvaluationGoesOn(e)
      PROVE  IInv'
  BY <1>1, RequestEndsKeeps, ListProviderGroupsKeeps, CountFailuresKeeps, AcquireKeeps,
     TryBackupKeeps, AbandonKeeps, OpenAdviceKeeps, NoBackupPassedKeeps, ActivateKeeps,
     ReadLatestKeeps, RecoverAdviceKeeps
     DEF EvaluationGoesOn
<1>2. ASSUME NEW u \in Handler, EvaluateGroup(u) \/ HandlerGoesOn(u)
      PROVE  IInv'
  BY <1>2, EvaluateGroupKeeps, StartEvaluationKeeps, EvaluationEndsKeeps, ReloadGroupKeeps,
     CompleteEvaluationKeeps, ActivateKeeps
     DEF HandlerGoesOn
<1>3. CASE RecoveryStep
  BY <1>3, RecoveryDueKeeps, RecoveryAcquireKeeps, RecoveryProbeKeeps, RecoveryProbeLostKeeps,
     RecoveryDeferredKeeps, RecoveryReloadKeeps, RecoverySettleKeeps, ReadLatestKeeps,
     RecoverAdviceKeeps
     DEF RecoveryStep
<1>4. CASE ClientStep
  BY <1>4, ReadGroupKeeps, SettingsKeep, ApplyAcquireKeeps, ApplyReadKeeps, ApplySwitchKeeps
     DEF ClientStep
<1>5. CASE Shutdown \/ UNCHANGED vars
  <2>1. UNCHANGED <<row, streak, passed, locks, requests, own>> /\ (ctxDone => ctxDone') /\ ctxDone' \in BOOLEAN
    BY <1>5 DEF Shutdown, vars, IInv, TypeOK
  <2>2. TypeOK'
    BY <2>1 DEF IInv, TypeOK, locks, own
  <2>3. Sound(row)' /\ Frame(Client) /\ Place(Client)'
    BY <2>1, Actors DEF IInv, Sound, AdviceIs, Frame, Place, own
  <2>4. LockStep(Client) /\ AnswerStep(Client)
    BY <2>1, Actors DEF LockStep, Places, AnswerStep, Answered, locks, own
  <2> QED
    BY <2>2, <2>3, <2>4, Actors, StepKeeps
<1> QED
  BY <1>1, <1>2, <1>3, <1>4, <1>5 DEF Next

\* Whoever writes an old row over a new one, every variable keeps its type.
THEOREM TypeCorrect == Spec => []TypeOK
<1>1. IInv => TypeOK
  BY DEF IInv
<1> QED
  BY <1>1, InitIInv, NextIInv, PTL DEF Spec

\* Any number of evaluations, handlers, probes and users that write rows they
\* read long ago never put the group on a backup, or an advice for one, that
\* no validation of that very backup stands behind.
THEOREM BackupsAreValidated == Spec => []OnlyValidatedBackups
<1>1. IInv => OnlyValidatedBackups
  BY DEF IInv, Sound, OnlyValidatedBackups
<1> QED
  BY <1>1, InitIInv, NextIInv, PTL DEF Spec

\* failoverRunning excludes evaluations, probes and applies from each other,
\* and every path through them gives it back.
THEOREM FailoverRunsAlone == Spec => []ValidationIsExclusive
<1>1. IInv => ValidationIsExclusive
  BY DEF IInv
<1> QED
  BY <1>1, InitIInv, NextIInv, PTL DEF Spec

\* An evaluation that ends after it has seen the threshold reached leaves an
\* advice, somebody at work on one, or a service on its way down.
THEOREM EveryThresholdIsAnswered == Spec => []ThresholdIsAnswered
<1>1. IInv => ThresholdIsAnswered
  BY DEF IInv
<1> QED
  BY <1>1, InitIInv, NextIInv, PTL DEF Spec
=============================================================================
