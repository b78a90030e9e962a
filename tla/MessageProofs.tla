---------------------------- MODULE MessageProofs ----------------------------
(***************************************************************************)
(* Theorems about the messages of the service: the daily digest, which is  *)
(* to go out once, the delivery of a message along its route, and the      *)
(* summaries, the progress and the merged recoveries of jobs.              *)
(*                                                                         *)
(* The digest, for any number of days, digests by hand and faults.         *)
(* OneDigestPerDay is not inductive: one has to know where a digest that   *)
(* was delivered is remembered (Remembered), and that the loop builds one  *)
(* only for a day that is not (Unsent).                                    *)
(*                                                                         *)
(* The delivery, for any channels, kinds, addresses and requests.          *)
(* RoutedOrDefault speaks of a delivery that is over; on the way there one *)
(* has to know that the configuration of every moment was seen             *)
(* (Witnessed), which of it the message carries (BaseKnown, RouteKnown),   *)
(* and what its next address will be (Tried).                              *)
(*                                                                         *)
(* The messages about jobs, for any keys and any limit of targets.         *)
(* NoticesAddUp lacks only why the progress of a job that is about to be   *)
(* told of by itself is settled (SettledOrLeft).                           *)
(***************************************************************************)
EXTENDS Digest, Routing, Notices, TLAPS, FiniteSetTheorems, SequenceTheorems

(***************************************************************************)
(* What the queue and the ledger contain.                                  *)
(***************************************************************************)
LEMMA AppendAdds ==
  ASSUME NEW S, NEW s \in Seq(S), NEW e \in S
  PROVE  Append(s, e) \in Seq(S) /\ ToSet(Append(s, e)) = ToSet(s) \cup {e}
<1>1. /\ Append(s, e) \in Seq(S) /\ DOMAIN Append(s, e) = 1..(Len(s) + 1) /\ DOMAIN s = 1..Len(s)
      /\ Len(s) \in Nat
      /\ \A i \in 1..Len(s) : Append(s, e)[i] = s[i]
      /\ Append(s, e)[Len(s) + 1] = e
  OBVIOUS
<1>2. QED
  BY <1>1 DEF ToSet

LEMMA TailDrops ==
  ASSUME NEW S, NEW s \in Seq(S), s # <<>>
  PROVE  /\ Tail(s) \in Seq(S) /\ Head(s) \in S /\ Head(s) \in ToSet(s)
         /\ ToSet(s) = ToSet(Tail(s)) \cup {Head(s)}
<1>1. /\ Tail(s) \in Seq(S) /\ Head(s) = s[1] /\ Len(s) \in Nat /\ Len(s) >= 1
      /\ DOMAIN s = 1..Len(s) /\ DOMAIN Tail(s) = 1..(Len(s) - 1)
      /\ \A i \in 1..(Len(s) - 1) : Tail(s)[i] = s[i + 1]
      /\ s[1] \in S
  OBVIOUS
<1>2. \A i \in 2..Len(s) : i - 1 \in 1..(Len(s) - 1) /\ s[i] = Tail(s)[i - 1]
  BY <1>1
<1>3. ASSUME NEW x \in ToSet(s) PROVE x \in ToSet(Tail(s)) \cup {Head(s)}
  <2>1. PICK i \in 1..Len(s) : x = s[i]
    BY <1>1, <1>3 DEF ToSet
  <2>2. CASE i = 1
    BY <1>1, <2>1, <2>2
  <2>3. CASE i # 1
    <3>1. i - 1 \in DOMAIN Tail(s) /\ x = Tail(s)[i - 1]
      BY <1>1, <1>2, <2>1, <2>3
    <3>2. QED
      BY <3>1 DEF ToSet
  <2>4. QED
    BY <2>2, <2>3
<1>4. ASSUME NEW x \in ToSet(Tail(s)) PROVE x \in ToSet(s)
  <2>1. PICK i \in 1..(Len(s) - 1) : x = s[i + 1]
    BY <1>1, <1>4 DEF ToSet
  <2>2. i + 1 \in 1..Len(s)
    BY <1>1
  <2>3. QED
    BY <1>1, <2>1, <2>2 DEF ToSet
<1>5. Head(s) \in ToSet(s)
  BY <1>1 DEF ToSet
<1>6. QED
  BY <1>1, <1>3, <1>4, <1>5

-----------------------------------------------------------------------------
(***************************************************************************)
(* Types.                                                                  *)
(***************************************************************************)
Stages == {"idle", "check", "build", "send", "remember", "record"}

Typed ==
  /\ today \in Day
  /\ digest \in [at : Stages, date : 0..MaxDay]
  /\ digest.at # "idle" => digest.date \in Day
  /\ sentDate \in 0..MaxDay
  /\ toSave \in Seq(Events) /\ digestLog \in Seq(Events \ {Failed})
  /\ saveFailed \in BOOLEAN /\ ending \in BOOLEAN
  /\ delivered \in [Day -> Nat]
  /\ manual \in 0..MaxManual /\ digestFaults \in 0..MaxDigestFaults
  /\ forgotten \subseteq Day

LEMMA TypesInitially ==
  ASSUME DigestInit
  PROVE  Typed
<1>1. 1 \in Day /\ 0 \in 0..MaxDay /\ 0 \in 0..MaxManual /\ 0 \in 0..MaxDigestFaults
  BY SMT, DigestAssumption DEF Day
<1>2. today \in Day /\ sentDate \in 0..MaxDay /\ manual \in 0..MaxManual
      /\ digestFaults \in 0..MaxDigestFaults
  BY <1>1, Zenon DEF DigestInit
<1>3. \A S : <<>> \in Seq(S)
  OBVIOUS
<1>4. toSave \in Seq(Events) /\ digestLog \in Seq(Events \ {Failed})
  BY <1>3, Zenon DEF DigestInit
<1>5. saveFailed \in BOOLEAN /\ ending \in BOOLEAN /\ forgotten \subseteq Day
  BY Zenon DEF DigestInit
<1>6. digest \in [at : Stages, date : 0..MaxDay] /\ digest.at = "idle"
  BY <1>1 DEF DigestInit, Idle, Stages
<1>7. delivered \in [Day -> Nat]
  BY SMT DEF DigestInit
<1>8. QED
  BY <1>2, <1>4, <1>5, <1>6, <1>7, Zenon DEF Typed

LEMMA RecordedIsTyped ==
  ASSUME toSave \in Seq(Events), NEW e \in Events
  PROVE  Recorded(e) \in Seq(Events)
BY AppendAdds DEF Recorded

LEMMA EventsKnown ==
  /\ Failed \in Events /\ ByHand \in Events
  /\ \A day \in Day : Scheduled(day) \in Events
  /\ \A S : Dates(S) \subseteq Day
BY DEF Events, Dates

LEMMA TypesKept ==
  ASSUME Typed, [DigestNext]_digestVars
  PROVE  Typed'
<1> USE DEF Typed, Stages, Idle
<1>1. /\ Day \subseteq 0..MaxDay /\ 0 \in 0..MaxDay
      /\ <<>> \in Seq(Events) /\ <<>> \in Seq(Events \ {Failed})
  BY DigestAssumption DEF Day
<1>2. \A bad : Fault(bad) => digestFaults' \in 0..MaxDigestFaults
  BY DigestAssumption DEF Fault
<1>3. CASE Tick
  BY <1>1, <1>3 DEF Tick
<1>4. CASE Remember
  BY <1>1, <1>4 DEF Remember
<1>5. CASE Record
  BY <1>1, EventsKnown, RecordedIsTyped, <1>5 DEF Record
<1>6. ASSUME NEW ok \in BOOLEAN, CheckLedger(ok) PROVE Typed'
  BY <1>1, <1>2, <1>6 DEF CheckLedger
<1>7. ASSUME NEW ok \in BOOLEAN, BuildDigest(ok) PROVE Typed'
  <2>1. /\ digest' \in [at : Stages, date : 0..MaxDay]
        /\ digest'.at # "idle" => digest'.date \in Day
    BY <1>1, <1>7 DEF BuildDigest
  <2>2. toSave' \in Seq(Events)
    BY <1>7, EventsKnown, RecordedIsTyped DEF BuildDigest
  <2>3. digestFaults' \in 0..MaxDigestFaults
    BY <1>2, <1>7 DEF BuildDigest
  <2>4. QED
    BY <1>7, <2>1, <2>2, <2>3 DEF BuildDigest
<1>8. ASSUME NEW ok \in BOOLEAN, SaveNext(ok) PROVE Typed'
  BY <1>1, <1>2, EventsKnown, AppendAdds, TailDrops, <1>8 DEF SaveNext
<1>9. ASSUME NEW arrives \in BOOLEAN, NEW ok \in BOOLEAN, SendDigest(arrives, ok) PROVE Typed'
  <2>1. /\ digest' \in [at : Stages, date : 0..MaxDay]
        /\ digest'.at # "idle" => digest'.date \in Day
    <3>1. digest' = [digest EXCEPT !.at = "remember"] \/ digest' = [at |-> "idle", date |-> 0]
      BY <1>9 DEF SendDigest
    <3>2. digest.date \in Day
      BY <1>9 DEF SendDigest
    <3>3. QED
      BY <1>1, <3>1, <3>2
  <2>2. toSave' \in Seq(Events)
    <3>1. toSave' = toSave \/ toSave' = Recorded(Failed)
      BY <1>9 DEF SendDigest
    <3>2. QED
      BY <3>1, EventsKnown, RecordedIsTyped
  <2>3. digest.date \in Day
    BY <1>9 DEF SendDigest
  <2>4. delivered' \in [Day -> Nat]
    <3>1. [delivered EXCEPT ![digest.date] = @ + 1] \in [Day -> Nat]
      BY <2>3
    <3>2. QED
      BY <3>1, <1>9 DEF SendDigest
  <2>5. forgotten' \subseteq Day
    BY <2>3, <1>9 DEF SendDigest
  <2>6. digestFaults' \in 0..MaxDigestFaults
    BY <1>2, <1>9 DEF SendDigest
  <2>7. QED
    BY <1>9, <2>1, <2>2, <2>4, <2>5, <2>6 DEF SendDigest
<1>10. CASE SendByHand
  BY EventsKnown, RecordedIsTyped, <1>10, DigestAssumption DEF SendByHand
<1>11. CASE Clear
  BY <1>1, <1>2, EventsKnown, <1>11 DEF Clear
<1>12. CASE DayPasses
  BY <1>2, <1>12 DEF DayPasses
<1>13. CASE Close
  BY <1>2, <1>13 DEF Close
<1>14. CASE Reopen
  BY <1>1, <1>14 DEF Reopen, Started
<1>15. CASE CrashDigest
  BY <1>1, <1>2, EventsKnown, <1>15 DEF CrashDigest, Started
<1>16. CASE UNCHANGED digestVars
  BY <1>16 DEF digestVars
<1>17. QED
  BY <1>3, <1>4, <1>5, <1>6, <1>7, <1>8, <1>9, <1>10, <1>11, <1>12, <1>13, <1>14, <1>15, <1>16 DEF DigestNext

-----------------------------------------------------------------------------
(***************************************************************************)
(* Where a delivered digest is remembered, and which ones are not sent.    *)
(***************************************************************************)
Kept == ToSet(digestLog) \cup ToSet(toSave)

\* A digest that went out is about to be recorded, or has its event.
Remembered ==
  \A day \in Day \ forgotten :
    /\ delivered[day] <= 1
    /\ delivered[day] = 1 =>
         \/ digest.at \in {"remember", "record"} /\ digest.date = day
         \/ Scheduled(day) \in Kept

\* What the loop builds and sends has no event.
Unsent ==
  digest.at \in {"build", "send"} /\ digest.date \notin forgotten => Scheduled(digest.date) \notin Kept

\* What is remembered went out.
Claimed ==
  /\ \A day \in Day : Scheduled(day) \in Kept \/ sentDate = day => delivered[day] >= 1
  /\ digest.at \in {"remember", "record"} => delivered[digest.date] >= 1

IInv == Typed /\ Remembered /\ Unsent /\ Claimed

LEMMA ScheduledIsDistinct ==
  /\ \A day, other \in Day : Scheduled(day) = Scheduled(other) => day = other
  /\ \A day \in Day : Scheduled(day) # ByHand /\ Scheduled(day) # Failed
BY DEF Scheduled, ByHand, Failed

LEMMA DatesAreScheduled ==
  ASSUME NEW s \in Seq(Events), NEW day \in Day
  PROVE  day \in Dates(s) <=> Scheduled(day) \in ToSet(s)
<1>1. \A e \in ToSet(s) : e \in Events
  BY DEF ToSet
<1>2. \A e \in Events : e.date = day => e = Scheduled(day)
  BY DEF Events, Scheduled, ByHand, Failed, Day
<1>3. Scheduled(day).date = day
  BY DEF Scheduled
<1>4. QED
  BY <1>1, <1>2, <1>3 DEF Dates

\* What the queue contains after an event was recorded.
LEMMA RecordedAdds ==
  ASSUME toSave \in Seq(Events), NEW e \in Events
  PROVE  /\ ending => Recorded(e) = toSave
         /\ ~ending => ToSet(Recorded(e)) = ToSet(toSave) \cup {e}
<1>1. ToSet(Append(toSave, e)) = ToSet(toSave) \cup {e}
  BY AppendAdds
<1>2. QED
  BY <1>1 DEF Recorded

LEMMA ListedIsLogged ==
  ASSUME digestLog \in Seq(Events \ {Failed}), NEW e \in Listed
  PROVE  e \in ToSet(digestLog)
<1>1. PICK i \in {j \in 1..Len(digestLog) : j > Len(digestLog) - DigestLimit} : e = digestLog[i]
  BY DEF Listed
<1>2. i \in DOMAIN digestLog
  BY <1>1
<1>3. QED
  BY <1>1, <1>2 DEF ToSet

\* Other events leave the scheduled digests of queue and ledger alone.
LEMMA OtherEvents ==
  ASSUME toSave \in Seq(Events), NEW e \in {ByHand, Failed}, toSave' = Recorded(e),
         UNCHANGED digestLog
  PROVE  \A day \in Day : Scheduled(day) \in Kept' <=> Scheduled(day) \in Kept
<1>1. e \in Events /\ \A day \in Day : Scheduled(day) # e
  BY EventsKnown, ScheduledIsDistinct
<1>2. ToSet(toSave') = ToSet(toSave) \/ ToSet(toSave') = ToSet(toSave) \cup {e}
  BY <1>1, RecordedAdds
<1>3. QED
  BY <1>1, <1>2 DEF Kept

LEMMA InvKept ==
  ASSUME IInv, [DigestNext]_digestVars
  PROVE  (Remembered /\ Unsent /\ Claimed)'
<1> DEFINE Same == \A day \in Day : Scheduled(day) \in Kept' <=> Scheduled(day) \in Kept
<1> USE DEF IInv, Typed, Remembered, Unsent, Claimed, Idle
<1>1. Typed'
  BY TypesKept
<1>2. CASE Tick
  BY <1>2 DEF Tick, Kept
<1>3. ASSUME NEW ok \in BOOLEAN, CheckLedger(ok) PROVE (Remembered /\ Unsent /\ Claimed)'
  <2>1. UNCHANGED <<toSave, digestLog, delivered>> /\ Kept' = Kept /\ digest.date \in Day
    BY <1>3 DEF CheckLedger, Kept
  <2>2. CASE ok /\ AlreadySent(digest.date)
    <3>1. Scheduled(digest.date) \in Kept
      BY <2>2, ListedIsLogged DEF AlreadySent, Kept
    <3>2. sentDate' = digest.date /\ digest' = [at |-> "idle", date |-> 0] /\ UNCHANGED forgotten
      BY <1>3, <2>2 DEF CheckLedger
    <3>3. QED
      BY <1>3, <2>1, <3>1, <3>2 DEF CheckLedger
  <2>3. CASE ~(ok /\ AlreadySent(digest.date))
    <3>1. /\ digest' = [digest EXCEPT !.at = "build"] /\ UNCHANGED sentDate
          /\ forgotten' = IF \/ ~ok
                             \/ Scheduled(digest.date) \in Kept
                          THEN forgotten \cup {digest.date} ELSE forgotten
      <4>1. ok => Scheduled(digest.date) \notin Listed
        BY <2>3 DEF AlreadySent
      <4>2. ok => (Scheduled(digest.date) \in (ToSet(digestLog) \ Listed) \cup ToSet(toSave)
                     <=> Scheduled(digest.date) \in Kept)
        BY <4>1 DEF Kept
      <4> QED
        BY <1>3, <2>3, <4>2 DEF CheckLedger
    <3>2. digest'.at = "build" /\ digest'.date = digest.date /\ digest.at = "check"
      BY <1>3, <3>1 DEF CheckLedger
    <3>3. QED
      BY <2>1, <3>1, <3>2
  <2>4. QED
    BY <2>2, <2>3
<1>4. ASSUME NEW ok \in BOOLEAN, BuildDigest(ok) PROVE (Remembered /\ Unsent /\ Claimed)'
  <2>1. UNCHANGED <<sentDate, delivered, forgotten, digestLog>> /\ digest.at = "build"
    BY <1>4 DEF BuildDigest
  <2>2. \/ digest' = [digest EXCEPT !.at = "send"] /\ UNCHANGED toSave
        \/ digest' = [at |-> "idle", date |-> 0] /\ toSave' = Recorded(Failed)
    BY <1>4 DEF BuildDigest
  <2>3. Same
    BY <2>1, <2>2, OtherEvents DEF Kept
  <2>4. \/ digest'.at = "send" /\ digest'.date = digest.date
        \/ digest'.at = "idle"
    BY <2>2
  <2>5. digest.date \in Day
    BY <2>1
  <2>6. QED
    BY <2>1, <2>3, <2>4, <2>5
<1>5. ASSUME NEW arrives \in BOOLEAN, NEW ok \in BOOLEAN, SendDigest(arrives, ok)
      PROVE (Remembered /\ Unsent /\ Claimed)'
  <2>1. UNCHANGED <<sentDate, digestLog>> /\ digest.at = "send" /\ (ok => arrives) /\ digest.date \in Day
    BY <1>5 DEF SendDigest
  <2>2. \/ ok /\ digest' = [digest EXCEPT !.at = "remember"] /\ UNCHANGED toSave
        \/ ~ok /\ digest' = [at |-> "idle", date |-> 0] /\ toSave' = Recorded(Failed)
    BY <1>5 DEF SendDigest
  <2>3. Same
    BY <2>1, <2>2, OtherEvents DEF Kept
  <2>4. \/ ok /\ digest'.at = "remember" /\ digest'.date = digest.date
        \/ ~ok /\ digest'.at = "idle"
    BY <2>2
  <2>5. /\ \A day \in Day : day # digest.date => delivered'[day] = delivered[day]
        /\ delivered'[digest.date] = IF arrives THEN delivered[digest.date] + 1 ELSE delivered[digest.date]
        /\ forgotten' = IF arrives /\ ~ok THEN forgotten \cup {digest.date} ELSE forgotten
    BY <1>5, <2>1 DEF SendDigest
  <2>6. digest.date \notin forgotten => delivered[digest.date] = 0
    BY <2>1
  <2>7. \A day \in Day : delivered[day] \in Nat
    OBVIOUS
  <2>8. QED
    BY <2>1, <2>3, <2>4, <2>5, <2>6, <2>7
<1>6. CASE Remember
  <2>1. /\ UNCHANGED <<toSave, digestLog, delivered, forgotten>> /\ Kept' = Kept /\ digest.at = "remember"
        /\ sentDate' = digest.date /\ digest' = [digest EXCEPT !.at = "record"]
    BY <1>6 DEF Remember, Kept
  <2>2. digest'.at = "record" /\ digest'.date = digest.date
    BY <2>1
  <2>3. QED
    BY <2>1, <2>2
<1>7. CASE Record
  <2>1. /\ UNCHANGED <<sentDate, digestLog, delivered>> /\ digest.at = "record"
        /\ digest' = [at |-> "idle", date |-> 0] /\ toSave' = Recorded(Scheduled(digest.date))
        /\ forgotten' = IF ending THEN forgotten \cup {digest.date} ELSE forgotten
        /\ digest.date \in Day
    BY <1>7 DEF Record
  <2>2. /\ ending => Kept' = Kept
        /\ ~ending => Kept' = Kept \cup {Scheduled(digest.date)}
    BY <2>1, EventsKnown, RecordedAdds DEF Kept
  <2>3. QED
    BY <2>1, <2>2, ScheduledIsDistinct
<1>8. ASSUME NEW ok \in BOOLEAN, SaveNext(ok) PROVE (Remembered /\ Unsent /\ Claimed)'
  <2>1. /\ toSave # <<>> /\ toSave' = Tail(toSave) /\ UNCHANGED <<digest, sentDate, delivered>>
        /\ digestLog' = IF ok /\ Head(toSave) # Failed THEN Append(digestLog, Head(toSave)) ELSE digestLog
        /\ forgotten' = IF ok THEN forgotten ELSE forgotten \cup Dates(<<Head(toSave)>>)
    BY <1>8 DEF SaveNext
  <2>2. /\ ToSet(toSave) = ToSet(toSave') \cup {Head(toSave)} /\ Head(toSave) \in Events
    BY <2>1, TailDrops
  <2>3. CASE ok /\ Head(toSave) # Failed
    <3>1. ToSet(digestLog') = ToSet(digestLog) \cup {Head(toSave)}
      BY <2>1, <2>2, <2>3, AppendAdds
    <3>2. QED
      BY <2>1, <2>2, <2>3, <3>1 DEF Kept
  <2>4. CASE ok /\ Head(toSave) = Failed
    <3>1. Same
      BY <2>1, <2>2, <2>4, ScheduledIsDistinct DEF Kept
    <3>2. QED
      BY <2>1, <2>4, <3>1
  <2>5. CASE ~ok
    <3>1. Kept = Kept' \cup {Head(toSave)}
      BY <2>1, <2>2, <2>5 DEF Kept
    <3>2. \A day \in Day : Scheduled(day) = Head(toSave) => day \in forgotten'
      <4>1. <<Head(toSave)>> \in Seq(Events) /\ ToSet(<<Head(toSave)>>) = {Head(toSave)}
        BY <2>2 DEF ToSet
      <4>2. QED
        BY <2>1, <2>5, <4>1, DatesAreScheduled
    <3>3. forgotten \subseteq forgotten'
      BY <2>1
    <3>4. QED
      BY <2>1, <3>1, <3>2, <3>3
  <2>6. QED
    BY <2>3, <2>4, <2>5
<1>9. CASE SendByHand
  <2>1. Same
    BY <1>9, OtherEvents DEF SendByHand
  <2>2. QED
    BY <1>9, <2>1 DEF SendByHand
<1>10. CASE Clear
  <2>1. /\ digestLog' = <<>> /\ forgotten' = forgotten \cup Dates(digestLog)
        /\ UNCHANGED <<digest, sentDate, toSave, delivered>>
    BY <1>10 DEF Clear
  <2>2. digestLog \in Seq(Events)
    OBVIOUS
  <2>3. Kept' \subseteq Kept /\ \A day \in Day : Scheduled(day) \in Kept /\ Scheduled(day) \notin Kept' => day \in forgotten'
    BY <2>1, <2>2, DatesAreScheduled DEF Kept, ToSet
  <2>4. QED
    BY <2>1, <2>3
<1>11. CASE DayPasses \/ Close
  BY <1>11 DEF DayPasses, Close, Kept
<1>12. CASE Reopen
  <2>1. Kept' = Kept
    BY <1>12 DEF Reopen, Started, Kept
  <2>2. digest.at = "idle"
    BY <1>12 DEF Reopen
  <2>3. QED
    BY <1>12, <2>1, <2>2 DEF Reopen, Started, Day
<1>13. CASE CrashDigest
  <2>1. /\ digest' = [at |-> "idle", date |-> 0] /\ sentDate' = 0 /\ toSave' = <<>>
        /\ UNCHANGED <<digestLog, delivered>>
        /\ forgotten' = forgotten \cup Dates(toSave)
                         \cup (IF digest.at \in {"remember", "record"} THEN {digest.date} ELSE {})
    BY <1>13 DEF CrashDigest, Started
  <2>2. /\ Kept' \subseteq Kept
        /\ \A day \in Day : Scheduled(day) \in Kept /\ Scheduled(day) \notin Kept' => day \in forgotten'
    BY <2>1, DatesAreScheduled DEF Kept, ToSet
  <2>3. QED
    BY <2>1, <2>2 DEF Day
<1>14. CASE UNCHANGED digestVars
  BY <1>14 DEF digestVars, Kept
<1>15. QED
  BY <1>2, <1>3, <1>4, <1>5, <1>6, <1>7, <1>8, <1>9, <1>10, <1>11, <1>12, <1>13, <1>14 DEF DigestNext

\* Days, queue, ledger and counters keep their types (reliability_digest.go).
THEOREM DigestTypes ==
  DigestSpec => []DigestTypeOK
<1>1. DigestInit => Typed
  BY TypesInitially
<1>2. Typed /\ [DigestNext]_digestVars => Typed'
  BY TypesKept
<1>3. Typed => DigestTypeOK
  BY DEF Typed, DigestTypeOK, Stages
<1>4. QED
  BY <1>1, <1>2, <1>3, PTL DEF DigestSpec

\* A day whose event was neither lost nor overlooked gets one scheduled digest,
\* and nothing claims a day whose digest did not go out (runReliabilityDigest).
THEOREM OneDigestCorrect ==
  DigestSpec => []OneDigestPerDay
<1>1. DigestInit => IInv
  <2>1. DigestInit => Typed
    BY TypesInitially
  <2>2. DigestInit => Remembered /\ Unsent /\ Claimed
    BY DEF DigestInit, Remembered, Unsent, Claimed, Kept, ToSet, Idle, Day
  <2>3. QED
    BY <2>1, <2>2 DEF IInv
<1>2. IInv /\ [DigestNext]_digestVars => IInv'
  BY TypesKept, InvKept DEF IInv
<1>3. IInv => OneDigestPerDay
  <2> SUFFICES ASSUME IInv PROVE OneDigestPerDay
    OBVIOUS
  <2>1. \A day \in Day \ forgotten : delivered[day] <= 1
    BY DEF IInv, Remembered
  <2>2. toSave \in Seq(Events) /\ digestLog \in Seq(Events)
    BY DEF IInv, Typed
  <2>3. ASSUME NEW day \in Day, day \in Dates(digestLog) \cup Dates(toSave) \cup {sentDate}
        PROVE  delivered[day] >= 1
    BY <2>2, <2>3, DatesAreScheduled DEF IInv, Claimed, Kept
  <2>4. QED
    BY <2>1, <2>3, EventsKnown DEF OneDigestPerDay
<1>4. QED
  BY <1>1, <1>2, <1>3, PTL DEF DigestSpec

-----------------------------------------------------------------------------
(***************************************************************************)
(* The delivery of a message.                                              *)
(***************************************************************************)
\* A finished delivery was made at some time; what was configured meanwhile is in seen.
Hooks    == Webhook \cup {NoHook}
SeenType == [route : SUBSET Target, target : SUBSET Hooks, default : SUBSET Hooks]
MsgPlace == {"idle", "route", "default", "stored", "channel", "send", "fallback", "end"}

RouteTyped ==
  /\ RouteTypeOK
  /\ editor \in [Editor -> [op : {"none", "channel", "delete", "routes"},
                            at : {"idle", "save", "load"}, c : Target, row : ChannelRow,
                            copy : [Kind -> Target]]]
  /\ \A e \in Editor : editor[e].op \in {"channel", "delete"} => editor[e].c \in Channel
  /\ msg \in [kind : Kind \cup {"none"}, at : MsgPlace, c : Target, base : Hooks,
              tries : Seq(Webhook), accepted : BOOLEAN, fault : BOOLEAN, noDefault : BOOLEAN]
  /\ msg.at # "idle" => msg.kind \in Kind
  /\ seen \in SeenType /\ \A f \in DOMAIN seen : IsFiniteSet(seen[f])

Delivering == msg.at \notin {"idle", "end"}

\* What is configured now has been seen.
Witnessed ==
  Delivering => /\ routes[msg.kind] \in seen.route
                /\ RoutedHook(msg.kind) \in seen.target
                /\ default \in seen.default

\* The default that was read is one that was seen; none, if it was cleared between
\* the two reads or one of them failed.
BaseKnown ==
  /\ msg.at = "stored" => \E d \in seen.default : d # NoHook
  /\ msg.at \in {"channel", "send", "fallback", "end"} =>
       \/ \E d \in seen.default : msg.base = EffectiveDefault(d)
       \/ msg.base = NoHook /\ \E d1, d2 \in seen.default : d1 # d2
       \/ msg.base = NoHook /\ msg.noDefault
  /\ msg.at \in {"route", "default", "stored"} => msg.base = NoHook

\* So is the route, unless the read failed.
RouteKnown ==
  msg.at \in {"default", "stored", "channel"} =>
    msg.c \in seen.route \/ (msg.fault /\ msg.c = NoChannel)

Single(S) == \A x, y \in S : x = y

\* Addresses are tried one after the other: the channel's, then the default.
TriesOf(w) == \/ msg.at \in {"send", "end"} /\ msg.tries = <<w>>
              \/ msg.at = "fallback" /\ msg.tries = <<w>> /\ msg.base # w
              \/ msg.at = "end" /\ msg.tries = <<w, msg.base>> /\ msg.base # w

Tried ==
  /\ msg.at \in {"idle", "route", "default", "stored", "channel"} => msg.tries = <<>>
  /\ msg.at \in {"send", "fallback", "end"} =>
       \/ \E w \in Webhook : TriesOf(w) /\ (Single(seen.route) => w \in seen.target)
       \/ /\ msg.at # "send"
          /\ msg.tries = <<>> \/ (msg.at = "end" /\ msg.tries = <<msg.base>>)
          /\ msg.fault \/ ~Single(seen.route) \/ NoHook \in seen.target

\* The default comes last.
DefaultTried ==
  /\ msg.accepted => msg.at = "end" /\ msg.tries # <<>>
  /\ msg.at = "end" => msg.accepted \/ msg.base = NoHook \/ msg.base \in ToSet(msg.tries)


RouteIInv == RouteTyped /\ Witnessed /\ BaseKnown /\ RouteKnown /\ Tried /\ DefaultTried
-----------------------------------------------------------------------------
\* While a delivery goes on, what is configured then is added to what was seen.
LEMMA SeenGrows ==
  ASSUME RouteTyped, Seen, Delivering',
         channels' \in [Channel -> ChannelRow], routes' \in [Kind -> Target],
         default' \in Hooks, msg'.kind \in Kind
  PROVE  /\ seen' = [route   |-> seen.route \cup {routes'[msg'.kind]},
                     target  |-> seen.target \cup {RoutedHook(msg.kind)'},
                     default |-> seen.default \cup {default'}]
         /\ seen' \in SeenType /\ \A f \in DOMAIN seen' : IsFiniteSet(seen'[f])
<1>1. seen \in SeenType /\ DOMAIN seen = {"route", "target", "default"}
  BY DEF RouteTyped, SeenType
<1>2. seen' = [f \in DOMAIN seen |-> seen[f] \cup Now'[f]]
  BY DEF Seen, Delivering
<1>3. Now' = [route |-> {routes'[msg'.kind]}, target |-> {RoutedHook(msg.kind)'},
              default |-> {default'}]
  BY DEF Now, Delivering
<1>4. seen' = [route   |-> seen.route \cup {routes'[msg'.kind]},
               target  |-> seen.target \cup {RoutedHook(msg.kind)'},
               default |-> seen.default \cup {default'}]
  BY <1>1, <1>2, <1>3
<1>5. routes'[msg'.kind] \in Target /\ RoutedHook(msg.kind)' \in Hooks
  <2>1. routes'[msg'.kind] \in Target
    OBVIOUS
  <2>2. CASE routes'[msg'.kind] = NoChannel
    BY <2>1, <2>2 DEF RoutedHook, Hooks
  <2>3. CASE routes'[msg'.kind] # NoChannel
    <3>1. channels'[routes'[msg'.kind]] \in ChannelRow
      BY <2>1, <2>3 DEF Target
    <3>2. channels'[routes'[msg'.kind]].webhook \in Hooks
      BY <3>1 DEF ChannelRow, Absent, Hooks
    <3> QED
      BY <2>1, <3>2 DEF RoutedHook, Hooks
  <2> QED
    BY <2>2, <2>3
<1>6. seen' \in SeenType
  BY <1>1, <1>4, <1>5 DEF SeenType
<1>7. IsFiniteSet(seen.route) /\ IsFiniteSet(seen.target) /\ IsFiniteSet(seen.default)
  BY <1>1 DEF RouteTyped
<1>8. IsFiniteSet(seen'.route) /\ IsFiniteSet(seen'.target) /\ IsFiniteSet(seen'.default)
  BY <1>4, <1>7, FS_AddElement
<1> QED
  BY <1>4, <1>6, <1>8 DEF SeenType

\* A change of the configuration: what was said of the delivery stays true.
LEMMA Watched ==
  ASSUME RouteIInv, Seen, msg' = msg, RouteTypeOK',
         editor' \in [Editor -> [op : {"none", "channel", "delete", "routes"},
                                 at : {"idle", "save", "load"}, c : Target, row : ChannelRow,
                                 copy : [Kind -> Target]]],
         \A e \in Editor : editor'[e].op \in {"channel", "delete"} => editor'[e].c \in Channel
  PROVE  RouteIInv'
<1>1. CASE ~Delivering
  <2>1. seen' = seen
    BY <1>1 DEF Seen, Delivering
  <2> QED
    BY <1>1, <2>1
       DEF RouteIInv, RouteTyped, Witnessed, Delivering, BaseKnown, RouteKnown, Tried, TriesOf,
           DefaultTried
<1>2. CASE Delivering
  <2>1. /\ msg'.kind \in Kind /\ Delivering'
        /\ channels' \in [Channel -> ChannelRow] /\ routes' \in [Kind -> Target]
        /\ default' \in Hooks
    BY <1>2 DEF RouteIInv, RouteTyped, RouteTypeOK, Delivering, Hooks
  <2>2. /\ seen' = [route   |-> seen.route \cup {routes'[msg'.kind]},
                    target  |-> seen.target \cup {RoutedHook(msg.kind)'},
                    default |-> seen.default \cup {default'}]
        /\ seen' \in SeenType /\ \A f \in DOMAIN seen' : IsFiniteSet(seen'[f])
    BY <2>1, SeenGrows DEF RouteIInv
  <2>3. RouteTyped'
    BY <2>2 DEF RouteIInv, RouteTyped
  <2>4. Witnessed'
    BY <2>2 DEF Witnessed
  <2>5. BaseKnown' /\ RouteKnown'
    BY <2>2 DEF RouteIInv, BaseKnown, RouteKnown
  <2>6. Tried' /\ DefaultTried'
    BY <2>2 DEF RouteIInv, Tried, TriesOf, Single, DefaultTried
  <2> QED
    BY <2>3, <2>4, <2>5, <2>6 DEF RouteIInv
<1> QED
  BY <1>1, <1>2

\* A step of the delivery: nothing new is seen.
LEMMA Moved ==
  ASSUME RouteIInv, Delivering, NEW m, Move(m), m.kind = msg.kind
  PROVE  /\ msg' = m /\ seen' = seen
         /\ UNCHANGED <<channels, routes, default, editor, changes>>
<1>1. msg' = m /\ UNCHANGED <<channels, routes, default, editor, changes>> /\ Seen
  BY DEF Move
<1>2. CASE Delivering'
  <2>1. /\ msg'.kind \in Kind
        /\ channels' \in [Channel -> ChannelRow] /\ routes' \in [Kind -> Target]
        /\ default' \in Hooks
    BY <1>1 DEF RouteIInv, RouteTyped, RouteTypeOK, Delivering, Hooks
  <2>2. seen' = [route   |-> seen.route \cup {routes'[msg'.kind]},
                 target  |-> seen.target \cup {RoutedHook(msg.kind)'},
                 default |-> seen.default \cup {default'}]
    BY <1>1, <1>2, <2>1, SeenGrows DEF RouteIInv
  <2>3. RoutedHook(msg.kind)' = RoutedHook(msg.kind)
    BY <1>1 DEF RoutedHook
  <2>4. seen' = [route |-> seen.route, target |-> seen.target, default |-> seen.default]
    BY <1>1, <2>2, <2>3 DEF RouteIInv, Witnessed
  <2> QED
    BY <1>1, <2>4 DEF RouteIInv, RouteTyped, SeenType
<1>3. CASE ~Delivering'
  BY <1>1, <1>3 DEF Seen, Delivering
<1> QED
  BY <1>1, <1>2, <1>3

\* The types after such a step.
LEMMA MovedIsTyped ==
  ASSUME RouteIInv, seen' = seen, UNCHANGED <<channels, routes, default, editor, changes>>,
         msg' \in [kind : Kind, at : MsgPlace, c : Target, base : Hooks,
                   tries : Seq(Webhook), accepted : BOOLEAN, fault : BOOLEAN, noDefault : BOOLEAN]
  PROVE  RouteTyped'
<1>1. RouteTypeOK'
  BY DEF RouteIInv, RouteTyped, RouteTypeOK, Hooks
<1> QED
  BY <1>1 DEF RouteIInv, RouteTyped

-----------------------------------------------------------------------------
(***************************************************************************)
(* Requests of clients.                                                    *)
(***************************************************************************)
\* A request begins, ends, or goes on; nothing is configured yet.
LEMMA EditorsKeep ==
  ASSUME RouteIInv, UNCHANGED <<channels, routes, default, msg, seen>>,
         changes' \in 0..MaxChanges, NEW e \in Editor,
         NEW x \in [op : {"none", "channel", "delete", "routes"}, at : {"idle", "save", "load"},
                    c : Target, row : ChannelRow, copy : [Kind -> Target]],
         x.op \in {"channel", "delete"} => x.c \in Channel,
         editor' = [editor EXCEPT ![e] = x]
  PROVE  RouteIInv'
<1>1. /\ editor' \in [Editor -> [op : {"none", "channel", "delete", "routes"},
                                 at : {"idle", "save", "load"}, c : Target, row : ChannelRow,
                                 copy : [Kind -> Target]]]
      /\ \A d \in Editor : editor'[d].op \in {"channel", "delete"} => editor'[d].c \in Channel
  BY DEF RouteIInv, RouteTyped
<1>2. RouteTypeOK'
  BY <1>1 DEF RouteIInv, RouteTyped, RouteTypeOK
<1>3. RouteTyped'
  BY <1>1, <1>2 DEF RouteIInv, RouteTyped
<1> QED
  BY <1>3
     DEF RouteIInv, Witnessed, Delivering, RoutedHook, BaseKnown, RouteKnown, Tried, TriesOf,
         DefaultTried

\* The record of no request has the types of one.
LEMMA NoEditIsTyped ==
  NoEdit \in [op : {"none", "channel", "delete", "routes"}, at : {"idle", "save", "load"},
              c : Target, row : ChannelRow, copy : [Kind -> Target]]
BY DEF NoEdit, Target, ChannelRow, NoRoutes

\* A channel is read before it is changed, and what the request leaves out is kept.
LEMMA BeginSaveKeeps ==
  ASSUME RouteIInv, NEW e \in Editor, NEW c \in Channel,
         NEW row \in [webhook : Webhook \cup {NoHook}, enabled : BOOLEAN], BeginSave(e, c, row)
  PROVE  RouteIInv'
<1> DEFINE kept == [row EXCEPT !.webhook = IF @ = NoHook THEN channels[c].webhook ELSE @]
           x    == [NoEdit EXCEPT !.op = "channel", !.at = "save", !.c = c, !.row = kept]
<1>1. channels[c] \in ChannelRow /\ e = changes + 1 /\ changes' = changes + 1
  BY DEF RouteIInv, RouteTyped, RouteTypeOK, BeginSave
<1>2. kept \in ChannelRow
  <2>1. kept = [webhook |-> IF row.webhook = NoHook THEN channels[c].webhook ELSE row.webhook,
                enabled |-> row.enabled]
    OBVIOUS
  <2>2. (IF row.webhook = NoHook THEN channels[c].webhook ELSE row.webhook) \in Webhook
    BY <1>1 DEF BeginSave, ChannelRow
  <2> QED
    BY <2>1, <2>2 DEF ChannelRow
<1>3. x \in [op : {"none", "channel", "delete", "routes"}, at : {"idle", "save", "load"},
             c : Target, row : ChannelRow, copy : [Kind -> Target]]
  BY <1>2, NoEditIsTyped DEF Target
<1>4. x.op = "channel" /\ x.c = c
  BY DEF NoEdit
<1>5. changes' \in 0..MaxChanges
  BY <1>1, RoutingAssumption DEF Editor
<1>6. editor' = [editor EXCEPT ![e] = x]
  BY DEF BeginSave
<1>7. UNCHANGED <<channels, routes, default, msg, seen>>
  BY DEF BeginSave
<1> HIDE DEF x
<1> QED
  BY <1>3, <1>4, <1>5, <1>6, <1>7, EditorsKeep

\* Routes are checked and saved later.
LEMMA BeginRoutesKeeps ==
  ASSUME RouteIInv, NEW e \in Editor, NEW wanted \in [Kind -> Target], BeginRoutes(e, wanted)
  PROVE  RouteIInv'
<1> DEFINE x == [NoEdit EXCEPT !.op = "routes", !.at = "save", !.copy = wanted]
<1>1. x \in [op : {"none", "channel", "delete", "routes"}, at : {"idle", "save", "load"},
             c : Target, row : ChannelRow, copy : [Kind -> Target]]
  BY NoEditIsTyped
<1>2. x.op = "routes"
  BY DEF NoEdit
<1>3. changes' \in 0..MaxChanges
  BY RoutingAssumption DEF BeginRoutes, Editor
<1>4. editor' = [editor EXCEPT ![e] = x] /\ UNCHANGED <<channels, routes, default, msg, seen>>
  BY DEF BeginRoutes
<1> HIDE DEF x
<1> QED
  BY <1>1, <1>2, <1>3, <1>4, EditorsKeep

\* The deletion reads the routes.
LEMMA LoadRoutesKeeps ==
  ASSUME RouteIInv, NEW e \in Editor, LoadRoutes(e)
  PROVE  RouteIInv'
<1> DEFINE T == [op : {"none", "channel", "delete", "routes"}, at : {"idle", "save", "load"},
                 c : Target, row : ChannelRow, copy : [Kind -> Target]]
<1>1. /\ UNCHANGED <<channels, routes, default, msg, seen>> /\ changes' = changes
      /\ changes' \in 0..MaxChanges /\ routes \in [Kind -> Target]
      /\ editor[e] \in T /\ editor \in [Editor -> T]
      /\ editor[e].op = "delete" /\ editor[e].c \in Channel
  BY DEF LoadRoutes, RouteIInv, RouteTyped, RouteTypeOK
<1>2. CASE editor' = [editor EXCEPT ![e] = NoEdit]
  <2>1. NoEdit.op = "none"
    BY DEF NoEdit
  <2> QED
    BY <1>1, <1>2, <2>1, NoEditIsTyped, EditorsKeep
<1>3. CASE editor' # [editor EXCEPT ![e] = NoEdit]
  <2> DEFINE copy == [k \in Kind |-> IF routes[k] = editor[e].c THEN NoChannel ELSE routes[k]]
             x    == [editor[e] EXCEPT !.at = "save", !.copy = copy]
  <2>1. editor' = [editor EXCEPT ![e].at = "save", ![e].copy = copy]
    BY <1>3 DEF LoadRoutes, Done
  <2>2. editor' = [editor EXCEPT ![e] = x]
    BY <1>1, <2>1
  <2>3. copy \in [Kind -> Target]
    BY <1>1 DEF Target
  <2>4. x \in T /\ x.op = "delete" /\ x.c \in Channel
    BY <1>1, <2>3
  <2> HIDE DEF x
  <2> QED
    BY <1>1, <2>2, <2>4, EditorsKeep
<1> QED
  BY <1>2, <1>3

\* A command fails.
LEMMA EditFailsKeeps ==
  ASSUME RouteIInv, NEW e \in Editor, EditFails(e)
  PROVE  RouteIInv'
<1>1. /\ UNCHANGED <<channels, routes, default, msg, seen>> /\ changes' \in 0..MaxChanges
      /\ editor' = [editor EXCEPT ![e] = NoEdit] /\ NoEdit.op = "none"
  BY DEF EditFails, Done, NoEdit, RouteIInv, RouteTyped, RouteTypeOK
<1> QED
  BY <1>1, NoEditIsTyped, EditorsKeep

\* What is written is of the types of what is stored.
LEMMA WritesKeep ==
  ASSUME RouteIInv,
         \/ \E e \in Editor : SaveChannel(e) \/ SaveRoutes(e)
         \/ \E e \in Editor, c \in Channel, answered \in BOOLEAN : DeleteChannel(e, c, answered)
         \/ \E hook \in Webhook \cup {NoHook} : SaveDefault(hook)
  PROVE  RouteIInv'
<1> DEFINE T == [op : {"none", "channel", "delete", "routes"}, at : {"idle", "save", "load"},
                 c : Target, row : ChannelRow, copy : [Kind -> Target]]
<1>1. /\ editor \in [Editor -> T] /\ channels \in [Channel -> ChannelRow]
      /\ routes \in [Kind -> Target] /\ default \in Webhook \cup {NoHook}
      /\ changes \in 0..MaxChanges
      /\ \A e \in Editor : editor[e].op \in {"channel", "delete"} => editor[e].c \in Channel
      /\ msg.tries \in Seq(Webhook) /\ msg.base \in Webhook \cup {NoHook}
  BY DEF RouteIInv, RouteTyped, RouteTypeOK
<1>2. Seen /\ msg' = msg
  BY DEF SaveChannel, SaveRoutes, DeleteChannel, SaveDefault
<1>3. NoEdit \in T /\ NoEdit.op = "none"
  BY NoEditIsTyped DEF NoEdit
<1>4. CASE \E e \in Editor : SaveChannel(e)
  <2>1. PICK e \in Editor : SaveChannel(e)
    BY <1>4
  <2>2. /\ channels' \in [Channel -> ChannelRow] /\ UNCHANGED <<routes, default, changes>>
        /\ editor' = [editor EXCEPT ![e] = NoEdit]
    BY <1>1, <2>1 DEF SaveChannel, Done
  <2>3. /\ editor' \in [Editor -> T]
        /\ \A d \in Editor : editor'[d].op \in {"channel", "delete"} => editor'[d].c \in Channel
    BY <1>1, <1>3, <2>2
  <2>4. RouteTypeOK'
    BY <1>1, <1>2, <2>2, <2>3 DEF RouteTypeOK
  <2> QED
    BY <1>2, <2>3, <2>4, Watched
<1>5. CASE \E e \in Editor : SaveRoutes(e)
  <2>1. PICK e \in Editor : SaveRoutes(e)
    BY <1>5
  <2>2. /\ routes' \in [Kind -> Target] /\ UNCHANGED <<channels, default, changes>>
        /\ editor' = [editor EXCEPT ![e] = NoEdit]
    BY <1>1, <2>1 DEF SaveRoutes, Done
  <2>3. /\ editor' \in [Editor -> T]
        /\ \A d \in Editor : editor'[d].op \in {"channel", "delete"} => editor'[d].c \in Channel
    BY <1>1, <1>3, <2>2
  <2>4. RouteTypeOK'
    BY <1>1, <1>2, <2>2, <2>3 DEF RouteTypeOK
  <2> QED
    BY <1>2, <2>3, <2>4, Watched
<1>6. CASE \E e \in Editor, c \in Channel, answered \in BOOLEAN : DeleteChannel(e, c, answered)
  <2>1. PICK e \in Editor, c \in Channel, answered \in BOOLEAN : DeleteChannel(e, c, answered)
    BY <1>6
  <2> DEFINE x == IF ~answered THEN NoEdit
                  ELSE [NoEdit EXCEPT !.op = "delete", !.at = "load", !.c = c]
  <2>2. x \in T /\ (x.op \in {"channel", "delete"} => x.c \in Channel)
    BY <1>3 DEF Target
  <2>3. /\ channels' = [channels EXCEPT ![c] = Absent] /\ UNCHANGED <<routes, default>>
        /\ editor' = [editor EXCEPT ![e] = x] /\ e = changes + 1 /\ changes' = changes + 1
    BY <2>1 DEF DeleteChannel
  <2> HIDE DEF x
  <2>4. /\ editor' \in [Editor -> T]
        /\ \A d \in Editor : editor'[d].op \in {"channel", "delete"} => editor'[d].c \in Channel
    BY <1>1, <2>2, <2>3
  <2>5. channels' \in [Channel -> ChannelRow]
    BY <1>1, <2>3 DEF ChannelRow
  <2>6. changes' \in 0..MaxChanges
    BY <1>1, <2>3, RoutingAssumption DEF Editor
  <2>7. RouteTypeOK'
    BY <1>1, <1>2, <2>3, <2>4, <2>5, <2>6 DEF RouteTypeOK
  <2> QED
    BY <1>2, <2>4, <2>7, Watched
<1>7. CASE \E hook \in Webhook \cup {NoHook} : SaveDefault(hook)
  <2>1. PICK hook \in Webhook \cup {NoHook} : SaveDefault(hook)
    BY <1>7
  <2>2. /\ default' = hook /\ changes' = changes + 1 /\ changes < MaxChanges
        /\ UNCHANGED <<channels, routes, editor>>
    BY <2>1 DEF SaveDefault
  <2>3. changes' \in 0..MaxChanges
    BY <1>1, <2>2, RoutingAssumption
  <2>4. RouteTypeOK'
    BY <1>1, <1>2, <2>2, <2>3 DEF RouteTypeOK
  <2> QED
    BY <1>1, <1>2, <2>2, <2>4, Watched
<1> QED
  BY <1>4, <1>5, <1>6, <1>7
-----------------------------------------------------------------------------
(***************************************************************************)
(* A delivery.                                                             *)
(***************************************************************************)
\* A route leads to an address or to none.
LEMMA HookIsTyped ==
  ASSUME channels \in [Channel -> ChannelRow], routes \in [Kind -> Target], NEW k \in Kind
  PROVE  RoutedHook(k) \in Hooks /\ routes[k] \in Target
<1>1. routes[k] \in Target
  OBVIOUS
<1>2. CASE routes[k] = NoChannel
  BY <1>2, <1>1 DEF RoutedHook, Hooks
<1>3. CASE routes[k] # NoChannel
  <2>1. channels[routes[k]] \in ChannelRow
    BY <1>1, <1>3 DEF Target
  <2>2. channels[routes[k]].webhook \in Hooks
    BY <2>1 DEF ChannelRow, Absent, Hooks
  <2> QED
    BY <1>1, <2>2 DEF RoutedHook, Hooks
<1> QED
  BY <1>2, <1>3

\* It begins with what is configured.
LEMMA SendKeeps ==
  ASSUME RouteIInv, NEW k \in Kind, SendRouted(k)
  PROVE  RouteIInv'
<1>1. /\ msg' = [kind |-> k, at |-> "route", c |-> NoChannel, base |-> NoHook, tries |-> <<>>,
                 accepted |-> FALSE, fault |-> FALSE, noDefault |-> FALSE]
      /\ UNCHANGED <<channels, routes, default, editor, changes>> /\ seen' = Now'
  BY DEF SendRouted, NoMessage
<1>2. msg' \in [kind : Kind, at : MsgPlace, c : Target, base : Hooks, tries : Seq(Webhook),
                accepted : BOOLEAN, fault : BOOLEAN, noDefault : BOOLEAN]
  BY <1>1 DEF MsgPlace, Target, Hooks
<1>3. seen' = [route |-> {routes[k]}, target |-> {RoutedHook(k)}, default |-> {default}]
  <2>1. RoutedHook(msg.kind)' = RoutedHook(k)
    BY <1>1 DEF RoutedHook
  <2> QED
    BY <1>1, <2>1 DEF Now
<1>4. routes[k] \in Target /\ RoutedHook(k) \in Hooks /\ default \in Hooks
  BY HookIsTyped DEF RouteIInv, RouteTyped, RouteTypeOK, Hooks
<1>5. seen' \in SeenType /\ \A f \in DOMAIN seen' : IsFiniteSet(seen'[f])
  <2>1. seen' \in SeenType
    BY <1>3, <1>4 DEF SeenType
  <2>2. \A x : IsFiniteSet({x})
    BY FS_Singleton
  <2>3. IsFiniteSet(seen'.route) /\ IsFiniteSet(seen'.target) /\ IsFiniteSet(seen'.default)
    BY <1>3, <2>2
  <2> QED
    BY <1>3, <2>1, <2>3
<1>6. RouteTyped'
  <2>1. RouteTypeOK'
    BY <1>1, <1>2 DEF RouteIInv, RouteTyped, RouteTypeOK, Hooks
  <2> QED
    BY <1>1, <1>2, <1>5, <2>1 DEF RouteIInv, RouteTyped
<1>7. Witnessed'
  <2>1. RoutedHook(msg.kind)' = RoutedHook(k)
    BY <1>1 DEF RoutedHook
  <2> QED
    BY <1>1, <1>3, <2>1 DEF Witnessed
<1> QED
  BY <1>1, <1>6, <1>7 DEF RouteIInv, BaseKnown, RouteKnown, Tried, DefaultTried

\* The message that is delivered has the types of one.
LEMMA MessageIsTyped ==
  ASSUME RouteIInv, Delivering
  PROVE  /\ msg \in [kind : Kind, at : MsgPlace, c : Target, base : Hooks, tries : Seq(Webhook),
                     accepted : BOOLEAN, fault : BOOLEAN, noDefault : BOOLEAN]
         /\ msg.accepted = FALSE /\ default \in Hooks /\ routes[msg.kind] \in Target
         /\ channels \in [Channel -> ChannelRow]
BY DEF RouteIInv, RouteTyped, RouteTypeOK, Delivering, Hooks, DefaultTried

\* What is configured is what it was.
LEMMA StillWitnessed ==
  ASSUME RouteIInv, Delivering, msg'.kind = msg.kind, seen' = seen,
         UNCHANGED <<channels, routes, default, editor, changes>>
  PROVE  Witnessed'
<1>1. RoutedHook(msg.kind)' = RoutedHook(msg.kind)
  BY DEF RoutedHook
<1> QED
  BY <1>1 DEF RouteIInv, Witnessed

\* The route, or none.
LEMMA ReadRouteKeeps ==
  ASSUME RouteIInv, NEW ok \in BOOLEAN, ReadRoute(ok)
  PROVE  RouteIInv'
<1> DEFINE m == [msg EXCEPT !.at = "default", !.c = IF ok THEN routes[msg.kind] ELSE NoChannel,
                            !.fault = @ \/ ~ok]
<1>1. msg.at = "route" /\ Delivering /\ Move(m)
  BY DEF ReadRoute, Delivering
<1>2. /\ m \in [kind : Kind, at : MsgPlace, c : Target, base : Hooks, tries : Seq(Webhook),
                accepted : BOOLEAN, fault : BOOLEAN, noDefault : BOOLEAN]
      /\ m.kind = msg.kind /\ m.at = "default" /\ m.tries = msg.tries /\ m.base = msg.base
      /\ m.accepted = msg.accepted
      /\ ok => m.c = routes[msg.kind]
      /\ ~ok => m.c = NoChannel /\ m.fault
  BY <1>1, MessageIsTyped DEF MsgPlace, Target
<1> HIDE DEF m
<1>3. /\ msg' = m /\ seen' = seen
      /\ UNCHANGED <<channels, routes, default, editor, changes>>
  BY <1>1, <1>2, Moved
<1>4. RouteTyped' /\ Witnessed'
  BY <1>1, <1>2, <1>3, MovedIsTyped, StillWitnessed
<1>5. RouteKnown'
  BY <1>1, <1>2, <1>3 DEF RouteIInv, Witnessed, RouteKnown
<1> QED
  BY <1>1, <1>2, <1>3, <1>4, <1>5 DEF RouteIInv, BaseKnown, Tried, DefaultTried

\* The default, in two reads.
LEMMA ReadDefaultKeeps ==
  ASSUME RouteIInv, NEW ok \in BOOLEAN, FindDefault(ok) \/ ReadDefault(ok)
  PROVE  RouteIInv'
<1>1. Delivering /\ msg.at \in {"default", "stored"}
  BY DEF FindDefault, ReadDefault, Delivering
<1>2. PICK m : /\ Move(m)
               /\ \/ /\ msg.at = "default" /\ default # NoHook
                     /\ m = [msg EXCEPT !.at = "stored"]
                  \/ /\ msg.at = "default" /\ default = NoHook
                     /\ m = [msg EXCEPT !.at = "channel", !.base = EnvHook]
                  \/ /\ msg.at = "stored"
                     /\ m = [msg EXCEPT !.at = "channel", !.base = default]
                  \/ m = [msg EXCEPT !.at = "channel", !.noDefault = TRUE]
  BY DEF FindDefault, ReadDefault, Unreadable
<1>3. /\ m \in [kind : Kind, at : MsgPlace, c : Target, base : Hooks, tries : Seq(Webhook),
                accepted : BOOLEAN, fault : BOOLEAN, noDefault : BOOLEAN]
      /\ m.kind = msg.kind /\ m.c = msg.c /\ m.tries = msg.tries /\ m.fault = msg.fault
      /\ m.accepted = msg.accepted
      /\ m.at = "stored" => default # NoHook
      /\ m.at = "channel" => \/ default = NoHook /\ m.base = EnvHook
                             \/ msg.at = "stored" /\ m.base = default
                             \/ m.noDefault /\ m.base = NoHook
      /\ m.at = "stored" => m.base = NoHook
      /\ m.at \in {"stored", "channel"}
  <2>1. msg.base = NoHook
    BY <1>1 DEF RouteIInv, BaseKnown
  <2> QED
    BY <1>1, <1>2, <2>1, MessageIsTyped, RoutingAssumption DEF MsgPlace, Hooks
<1>4. /\ msg' = m /\ seen' = seen
      /\ UNCHANGED <<channels, routes, default, editor, changes>>
  BY <1>1, <1>2, <1>3, Moved
<1>5. RouteTyped' /\ Witnessed'
  BY <1>1, <1>3, <1>4, MovedIsTyped, StillWitnessed
<1>6. default \in seen.default
  BY <1>1 DEF RouteIInv, Witnessed
<1>7. BaseKnown'
  <2>1. CASE m.at = "stored"
    BY <1>3, <1>4, <1>6, <2>1 DEF BaseKnown
  <2>2. CASE m.at = "channel" /\ default = NoHook /\ m.base = EnvHook
    BY <1>4, <1>6, <2>2 DEF BaseKnown, EffectiveDefault
  <2>3. CASE m.at = "channel" /\ msg.at = "stored" /\ m.base = default
    <3>1. PICK d \in seen.default : d # NoHook
      BY <2>3 DEF RouteIInv, BaseKnown
    <3>2. CASE default # NoHook
      BY <1>4, <1>6, <2>3, <3>2 DEF BaseKnown, EffectiveDefault
    <3>3. CASE default = NoHook
      BY <1>4, <1>6, <2>3, <3>1, <3>3 DEF BaseKnown
    <3> QED
      BY <3>2, <3>3
  <2>4. CASE m.at = "channel" /\ m.noDefault /\ m.base = NoHook
    BY <1>4, <2>4 DEF BaseKnown
  <2> QED
    BY <1>3, <2>1, <2>2, <2>3, <2>4
<1>8. RouteKnown'
  BY <1>1, <1>3, <1>4 DEF RouteIInv, RouteKnown
<1>9. Tried' /\ DefaultTried'
  BY <1>1, <1>3, <1>4 DEF RouteIInv, Tried, DefaultTried
<1> QED
  BY <1>5, <1>7, <1>8, <1>9 DEF RouteIInv

\* The channel, if it can be used.
LEMMA ReadChannelKeeps ==
  ASSUME RouteIInv, NEW ok \in BOOLEAN, ReadChannel(ok)
  PROVE  RouteIInv'
<1>1. msg.at = "channel" /\ Delivering /\ msg.tries = <<>>
  BY DEF ReadChannel, Delivering, RouteIInv, Tried
<1> DEFINE usable == ok /\ msg.c # NoChannel /\ channels[msg.c] # Absent /\ channels[msg.c].enabled
           hook   == channels[msg.c].webhook
           m      == IF usable THEN [msg EXCEPT !.at = "send", !.tries = <<hook>>]
                     ELSE [msg EXCEPT !.at = "fallback", !.fault = @ \/ ~ok]
<1>2. Move(m)
  BY DEF ReadChannel
<1>3. usable => hook \in Webhook /\ msg.c \in Channel
  BY <1>1, MessageIsTyped DEF Target, ChannelRow
<1>4. /\ m \in [kind : Kind, at : MsgPlace, c : Target, base : Hooks, tries : Seq(Webhook),
                accepted : BOOLEAN, fault : BOOLEAN, noDefault : BOOLEAN]
      /\ m.kind = msg.kind /\ m.base = msg.base /\ m.noDefault = msg.noDefault
      /\ m.accepted = msg.accepted
      /\ usable => m.at = "send" /\ m.tries = <<hook>>
      /\ ~usable => m.at = "fallback" /\ m.tries = <<>> /\ (ok \/ m.fault)
      /\ msg.fault => m.fault
  <2>1. msg \in [kind : Kind, at : MsgPlace, c : Target, base : Hooks, tries : Seq(Webhook),
                 accepted : BOOLEAN, fault : BOOLEAN, noDefault : BOOLEAN]
    BY <1>1, MessageIsTyped
  <2>2. CASE usable
    <3>1. <<hook>> \in Seq(Webhook)
      BY <1>3, <2>2
    <3> QED
      BY <2>1, <2>2, <3>1 DEF MsgPlace
  <2>3. CASE ~usable
    BY <1>1, <2>1, <2>3 DEF MsgPlace
  <2> QED
    BY <2>2, <2>3
<1>5. /\ Single(seen.route) /\ usable => hook \in seen.target
      /\ ~usable => ~ok \/ msg.fault \/ ~Single(seen.route) \/ NoHook \in seen.target
  <2>1. routes[msg.kind] \in seen.route /\ RoutedHook(msg.kind) \in seen.target
    BY <1>1 DEF RouteIInv, Witnessed
  <2>2. msg.c \in seen.route \/ (msg.fault /\ msg.c = NoChannel)
    BY <1>1 DEF RouteIInv, RouteKnown
  <2>3. CASE Single(seen.route) /\ msg.c \in seen.route
    <3>1. routes[msg.kind] = msg.c
      BY <2>1, <2>3 DEF Single
    <3>2. usable => RoutedHook(msg.kind) = hook
      BY <3>1 DEF RoutedHook
    <3>3. ~usable /\ ok => RoutedHook(msg.kind) = NoHook
      BY <3>1 DEF RoutedHook, Absent
    <3> QED
      BY <2>1, <3>2, <3>3
  <2> QED
    BY <2>2, <2>3
<1> HIDE DEF m, usable, hook
<1>6. /\ msg' = m /\ seen' = seen
      /\ UNCHANGED <<channels, routes, default, editor, changes>>
  BY <1>1, <1>2, <1>4, Moved
<1>7. RouteTyped' /\ Witnessed'
  BY <1>1, <1>4, <1>6, MovedIsTyped, StillWitnessed
<1>8. Tried'
  <2>1. CASE usable
    BY <1>3, <1>4, <1>5, <1>6, <2>1 DEF Tried, TriesOf
  <2>2. CASE ~usable
    BY <1>4, <1>5, <1>6, <2>2 DEF Tried
  <2> QED
    BY <2>1, <2>2
<1>9. m.at \in {"send", "fallback"} /\ m.accepted = FALSE
  BY <1>1, <1>4, MessageIsTyped
<1>10. BaseKnown' /\ RouteKnown' /\ DefaultTried'
  BY <1>1, <1>4, <1>6, <1>9 DEF RouteIInv, BaseKnown, RouteKnown, DefaultTried
<1> QED
  BY <1>7, <1>8, <1>10 DEF RouteIInv

\* The channel's answer: the default follows only at another address.
LEMMA SendToChannelKeeps ==
  ASSUME RouteIInv, NEW ok \in BOOLEAN, SendToChannel(ok)
  PROVE  RouteIInv'
<1>1. msg.at = "send" /\ Delivering
  BY DEF SendToChannel, Delivering
<1>2. PICK w \in Webhook : msg.tries = <<w>> /\ (Single(seen.route) => w \in seen.target)
  BY <1>1 DEF RouteIInv, Tried, TriesOf
<1>3. FallsBack <=> msg.base # w
  BY <1>2 DEF FallsBack, Last
<1> DEFINE m == [msg EXCEPT !.at = IF ok \/ ~FallsBack THEN "end" ELSE "fallback", !.accepted = ok]
<1>4. Move(m)
  BY DEF SendToChannel
<1>5. /\ m \in [kind : Kind, at : MsgPlace, c : Target, base : Hooks, tries : Seq(Webhook),
                accepted : BOOLEAN, fault : BOOLEAN, noDefault : BOOLEAN]
      /\ m.kind = msg.kind /\ m.base = msg.base /\ m.noDefault = msg.noDefault
      /\ m.tries = <<w>> /\ m.accepted = ok
      /\ \/ m.at = "end" /\ (ok \/ msg.base = w)
         \/ m.at = "fallback" /\ ~ok /\ msg.base # w
  BY <1>1, <1>2, <1>3, MessageIsTyped DEF MsgPlace
<1> HIDE DEF m
<1>6. /\ msg' = m /\ seen' = seen
      /\ UNCHANGED <<channels, routes, default, editor, changes>>
  BY <1>1, <1>4, <1>5, Moved
<1>7. RouteTyped' /\ Witnessed'
  BY <1>1, <1>5, <1>6, MovedIsTyped, StillWitnessed
<1>8. Tried'
  BY <1>2, <1>5, <1>6 DEF Tried, TriesOf
<1>9. BaseKnown' /\ RouteKnown'
  BY <1>1, <1>5, <1>6 DEF RouteIInv, BaseKnown, RouteKnown
<1>10. DefaultTried'
  <2>1. m.tries # <<>> /\ w \in ToSet(m.tries)
    BY <1>5 DEF ToSet
  <2> QED
    BY <1>5, <1>6, <2>1 DEF DefaultTried
<1> QED
  BY <1>7, <1>8, <1>9, <1>10 DEF RouteIInv

\* A second address.
LEMMA AppendToOne ==
  ASSUME NEW v \in Webhook, NEW w \in Webhook
  PROVE  Append(<<v>>, w) = <<v, w>>
<1>1. <<v>> \in Seq(Webhook) /\ Len(<<v>>) = 1
  OBVIOUS
<1>2. /\ Append(<<v>>, w) \in Seq(Webhook) /\ Len(Append(<<v>>, w)) = 2
      /\ Append(<<v>>, w)[1] = v /\ Append(<<v>>, w)[2] = w
  BY <1>1
<1>3. <<v, w>> \in Seq(Webhook) /\ Len(<<v, w>>) = 2 /\ <<v, w>>[1] = v /\ <<v, w>>[2] = w
  OBVIOUS
<1>4. \A i \in 1..2 : Append(<<v>>, w)[i] = <<v, w>>[i]
  BY <1>2, <1>3
<1> QED
  BY <1>2, <1>3, <1>4, SeqEqual

\* The default's answer ends the delivery.
LEMMA SendToDefaultKeeps ==
  ASSUME RouteIInv, NEW ok \in BOOLEAN, SendToDefault(ok)
  PROVE  RouteIInv'
<1>1. msg.at = "fallback" /\ Delivering
  BY DEF SendToDefault, Delivering
<1>2. \/ \E w \in Webhook : msg.tries = <<w>> /\ msg.base # w
                            /\ (Single(seen.route) => w \in seen.target)
      \/ msg.tries = <<>> /\ (msg.fault \/ ~Single(seen.route) \/ NoHook \in seen.target)
  BY <1>1 DEF RouteIInv, Tried, TriesOf
<1>3. PICK m : /\ Move(m)
               /\ \/ msg.base = NoHook /\ m = [msg EXCEPT !.at = "end"]
                  \/ /\ msg.base # NoHook
                     /\ m = [msg EXCEPT !.at = "end", !.tries = Append(@, msg.base),
                                        !.accepted = ok]
  BY DEF SendToDefault
<1>4. /\ m \in [kind : Kind, at : MsgPlace, c : Target, base : Hooks, tries : Seq(Webhook),
                accepted : BOOLEAN, fault : BOOLEAN, noDefault : BOOLEAN]
      /\ m.kind = msg.kind /\ m.base = msg.base /\ m.noDefault = msg.noDefault
      /\ m.at = "end" /\ m.fault = msg.fault
      /\ \/ msg.base = NoHook /\ m.tries = msg.tries /\ m.accepted = FALSE
         \/ msg.base # NoHook /\ m.tries = Append(msg.tries, msg.base)
  <2>1. /\ msg \in [kind : Kind, at : MsgPlace, c : Target, base : Hooks, tries : Seq(Webhook),
                    accepted : BOOLEAN, fault : BOOLEAN, noDefault : BOOLEAN]
        /\ msg.accepted = FALSE
    BY <1>1, MessageIsTyped
  <2>2. CASE msg.base = NoHook
    BY <1>3, <2>1, <2>2 DEF MsgPlace
  <2>3. CASE msg.base # NoHook
    <3>1. Append(msg.tries, msg.base) \in Seq(Webhook)
      BY <2>1, <2>3 DEF Hooks
    <3> QED
      BY <1>3, <2>1, <2>3, <3>1 DEF MsgPlace
  <2> QED
    BY <2>2, <2>3
<1>5. /\ msg' = m /\ seen' = seen
      /\ UNCHANGED <<channels, routes, default, editor, changes>>
  BY <1>1, <1>3, <1>4, Moved
<1>6. RouteTyped' /\ Witnessed'
  BY <1>1, <1>4, <1>5, MovedIsTyped, StillWitnessed
<1>7. Tried'
  <2>1. CASE msg.base = NoHook
    BY <1>2, <1>4, <1>5, <2>1 DEF Tried, TriesOf
  <2>2. CASE msg.base # NoHook
    <3>1. \A w \in Webhook : Append(<<w>>, msg.base) = <<w, msg.base>>
      BY <1>1, <2>2, AppendToOne, MessageIsTyped DEF Hooks
    <3>2. Append(<<>>, msg.base) = <<msg.base>>
      OBVIOUS
    <3> QED
      BY <1>2, <1>4, <1>5, <2>2, <3>1, <3>2 DEF Tried, TriesOf
  <2> QED
    BY <2>1, <2>2
<1>8. BaseKnown' /\ RouteKnown'
  BY <1>1, <1>4, <1>5 DEF RouteIInv, BaseKnown, RouteKnown
<1>9. DefaultTried'
  <2>1. CASE msg.base = NoHook
    BY <1>4, <1>5, <2>1 DEF DefaultTried
  <2>2. CASE msg.base # NoHook
    <3>1. m.tries = <<msg.base>> \/ \E w \in Webhook : m.tries = <<w, msg.base>>
      <4>1. msg.base \in Webhook
        BY <1>1, <2>2, MessageIsTyped DEF Hooks
      <4> QED
        BY <1>2, <1>4, <2>2, <4>1, AppendToOne
    <3>2. m.tries # <<>> /\ \E i \in DOMAIN m.tries : m.tries[i] = msg.base
      <4>1. CASE m.tries = <<msg.base>>
        BY <4>1
      <4>2. ASSUME NEW w \in Webhook, m.tries = <<w, msg.base>>
            PROVE  m.tries # <<>> /\ 2 \in DOMAIN m.tries /\ m.tries[2] = msg.base
        BY <4>2
      <4> QED
        BY <3>1, <4>1, <4>2
    <3> QED
      BY <1>4, <1>5, <3>2 DEF DefaultTried, ToSet
  <2> QED
    BY <2>1, <2>2
<1> QED
  BY <1>6, <1>7, <1>8, <1>9 DEF RouteIInv

-----------------------------------------------------------------------------
\* Whatever is configured, nothing is being delivered.
LEMMA RouteInitIInv ==
  ASSUME RouteInit
  PROVE  RouteIInv
<1> DEFINE T == [op : {"none", "channel", "delete", "routes"}, at : {"idle", "save", "load"},
                 c : Target, row : ChannelRow, copy : [Kind -> Target]]
<1>1. /\ msg = [kind |-> "none", at |-> "idle", c |-> NoChannel, base |-> NoHook, tries |-> <<>>,
                accepted |-> FALSE, fault |-> FALSE, noDefault |-> FALSE]
      /\ seen = [route |-> {}, target |-> {}, default |-> {}]
      /\ editor = [e \in Editor |-> NoEdit] /\ changes = 0
  BY DEF RouteInit, NoMessage, NothingSeen
<1>2. NoEdit \in T /\ NoEdit.op = "none"
  BY NoEditIsTyped DEF NoEdit
<1>3. editor \in [Editor -> T] /\ \A e \in Editor : editor[e].op = "none"
  BY <1>1, <1>2
<1>4. RouteTypeOK
  BY <1>1, <1>3, RoutingAssumption DEF RouteInit, RouteTypeOK
<1>5. msg \in [kind : Kind \cup {"none"}, at : MsgPlace, c : Target, base : Hooks,
               tries : Seq(Webhook), accepted : BOOLEAN, fault : BOOLEAN, noDefault : BOOLEAN]
  BY <1>1 DEF MsgPlace, Target, Hooks
<1>6. seen \in SeenType /\ \A f \in DOMAIN seen : IsFiniteSet(seen[f])
  <2>1. seen \in SeenType
    BY <1>1 DEF SeenType
  <2>2. \A f \in DOMAIN seen : seen[f] = {}
    BY <1>1
  <2>3. IsFiniteSet({})
    BY FS_EmptySet
  <2> QED
    BY <2>1, <2>2, <2>3
<1>7. RouteTyped
  BY <1>1, <1>3, <1>4, <1>5, <1>6 DEF RouteTyped
<1> QED
  BY <1>1, <1>7
     DEF RouteIInv, Witnessed, Delivering, BaseKnown, RouteKnown, Tried, DefaultTried

\* Every step keeps the invariant.
LEMMA RouteNextIInv ==
  ASSUME RouteIInv, [RouteNext]_routeVars
  PROVE  RouteIInv'
<1>1. CASE UNCHANGED routeVars
  BY <1>1
     DEF routeVars, RouteIInv, RouteTyped, RouteTypeOK, Witnessed, Delivering, RoutedHook,
         BaseKnown, RouteKnown, Tried, TriesOf, DefaultTried
<1>2. CASE \E e \in Editor, c \in Channel :
             \E row \in [webhook : Webhook \cup {NoHook}, enabled : BOOLEAN] : BeginSave(e, c, row)
  BY <1>2, BeginSaveKeeps
<1>3. CASE \/ \E e \in Editor : SaveChannel(e) \/ SaveRoutes(e)
           \/ \E e \in Editor, c \in Channel, answered \in BOOLEAN : DeleteChannel(e, c, answered)
           \/ \E hook \in Webhook \cup {NoHook} : SaveDefault(hook)
  BY <1>3, WritesKeep
<1>4. CASE \E e \in Editor : LoadRoutes(e)
  BY <1>4, LoadRoutesKeeps
<1>5. CASE \E e \in Editor : EditFails(e)
  BY <1>5, EditFailsKeeps
<1>6. CASE \E e \in Editor : \E wanted \in [Kind -> Target] : BeginRoutes(e, wanted)
  BY <1>6, BeginRoutesKeeps
<1>7. CASE \E k \in Kind : SendRouted(k)
  BY <1>7, SendKeeps
<1>8. CASE \E ok \in BOOLEAN :
             \/ ReadRoute(ok) \/ FindDefault(ok) \/ ReadDefault(ok) \/ ReadChannel(ok)
             \/ SendToChannel(ok) \/ SendToDefault(ok)
  BY <1>8, ReadRouteKeeps, ReadDefaultKeeps, ReadChannelKeeps, SendToChannelKeeps,
     SendToDefaultKeeps
<1> QED
  BY <1>1, <1>2, <1>3, <1>4, <1>5, <1>6, <1>7, <1>8 DEF RouteNext

\* The invariant of the specification.
LEMMA RouteInductive == RouteSpec => []RouteIInv
<1>1. RouteInit => RouteIInv
  BY RouteInitIInv
<1>2. RouteIInv /\ [RouteNext]_routeVars => RouteIInv'
  BY RouteNextIInv
<1> QED
  BY <1>1, <1>2, PTL DEF RouteSpec

\* What is said of a delivery that is over.
LEMMA RoutedAtEnd ==
  ASSUME RouteIInv, msg.at = "end"
  PROVE  RoutedOrDefault
<1>1. /\ msg.tries \in Seq(Webhook) /\ msg.base \in Hooks
      /\ IsFiniteSet(seen.route) /\ IsFiniteSet(seen.target)
  BY DEF RouteIInv, RouteTyped, SeenType
<1>2. /\ \/ \E w \in Webhook :
              /\ msg.tries = <<w>> \/ (msg.tries = <<w, msg.base>> /\ msg.base # w)
              /\ Single(seen.route) => w \in seen.target
         \/ /\ msg.tries = <<>> \/ msg.tries = <<msg.base>>
            /\ msg.fault \/ ~Single(seen.route) \/ NoHook \in seen.target
      /\ \/ \E d \in seen.default : msg.base = EffectiveDefault(d)
         \/ msg.base = NoHook /\ \E d1, d2 \in seen.default : d1 # d2
         \/ msg.base = NoHook /\ msg.noDefault
      /\ msg.accepted \/ msg.base = NoHook \/ msg.base \in ToSet(msg.tries)
      /\ msg.accepted => msg.tries # <<>>
  BY DEF RouteIInv, Tried, TriesOf, BaseKnown, DefaultTried
<1>3. IsInjective(msg.tries)
  BY <1>2 DEF IsInjective
<1>4. ASSUME NEW d \in seen.default, seen.default = {d}, EffectiveDefault(d) # NoHook,
             ~msg.accepted, ~msg.noDefault
      PROVE  EffectiveDefault(d) \in ToSet(msg.tries)
  BY <1>2, <1>4
<1>5. \A S : IsFiniteSet(S) /\ Cardinality(S) = 1 => Single(S)
  BY FS_Singleton DEF Single
<1>6. ASSUME Cardinality(seen.route) = 1, NoHook \notin seen.target, ~msg.fault
      PROVE  msg.tries # <<>> /\ msg.tries[1] \in seen.target
  BY <1>1, <1>2, <1>5, <1>6
<1>7. ASSUME Cardinality(seen.route) = 1
      PROVE  ToSet(msg.tries) \subseteq
               seen.target \cup {EffectiveDefault(d) : d \in seen.default}
  <2>1. Single(seen.route)
    BY <1>1, <1>5, <1>7
  <2>2. ASSUME NEW x \in ToSet(msg.tries)
        PROVE  x \in seen.target \/ x = msg.base
    <3>1. PICK i \in DOMAIN msg.tries : x = msg.tries[i]
      BY <2>2 DEF ToSet
    <3> QED
      BY <1>2, <2>1, <3>1
  <2>3. \A x \in ToSet(msg.tries) : x # NoHook
    BY <1>1, RoutingAssumption DEF ToSet
  <2> QED
    BY <1>2, <2>2, <2>3
<1> QED
  BY <1>2, <1>3, <1>4, <1>6, <1>7 DEF RoutedOrDefault

\* Whatever is changed meanwhile and however routes dangle, a delivery that is over has
\* tried no address twice, a default that nobody touched unless the channel took the
\* message or the default could not be read, first of all a channel that could be used all the time, and nobody else
\* while the route stayed (deliverRouted of secureconfig/service.go).
THEOREM RoutedCorrect == RouteSpec => []RoutedOrDefault
<1>1. RouteIInv => RoutedOrDefault
  BY RoutedAtEnd DEF RoutedOrDefault
<1> QED
  BY <1>1, RouteInductive, PTL

\* Whoever edits channels, routes and the default during a delivery, and whatever fails,
\* rows, requests and the message keep their types (secureconfig/service.go).
THEOREM RouteTypes == RouteSpec => []RouteTypeOK
<1>1. RouteIInv => RouteTypeOK
  BY DEF RouteIInv, RouteTyped
<1> QED
  BY <1>1, RouteInductive, PTL

-----------------------------------------------------------------------------
(***************************************************************************)
(* Messages about jobs.                                                    *)
(*                                                                         *)
(* A sum is the number of its copies, so that sums are compared as sets    *)
(* are: by what is added, taken away or moved.                             *)
(***************************************************************************)
\* A sum over finitely many numbers is a number.
LEMMA SumIsNat ==
  ASSUME NEW S, IsFiniteSet(S), NEW f \in [S -> Nat]
  PROVE  IsFiniteSet(Copies(f)) /\ SumOf(f) \in Nat
<1> DEFINE T == {{x} \X (1..f[x]) : x \in S}
           g == [x \in S |-> {x} \X (1..f[x])]
<1>1. IsFiniteSet(T)
  <2>1. g \in Surjection(S, T)
    BY DEF Surjection
  <2> QED
    BY <2>1, FS_Surjection
<1>2. ASSUME NEW x \in S PROVE IsFiniteSet({x} \X (1..f[x]))
  <2>1. IsFiniteSet({x})
    BY FS_Singleton
  <2>2. 1 \in Int /\ f[x] \in Int
    OBVIOUS
  <2>3. IsFiniteSet(1..f[x])
    BY <2>2, FS_Interval
  <2> QED
    BY <2>1, <2>3, FS_Product
<1>3. \A U \in T : IsFiniteSet(U)
  BY <1>2
<1>4. DOMAIN f = S
  OBVIOUS
<1>5. IsFiniteSet(Copies(f))
  BY <1>1, <1>3, <1>4, FS_UNION DEF Copies
<1> QED
  BY <1>5, FS_CardinalityType DEF SumOf

\* The copies of a function, one by one.
LEMMA CopiesOf ==
  ASSUME NEW f, NEW c
  PROVE  c \in Copies(f) <=> \E x \in DOMAIN f : \E m \in 1..f[x] : c = <<x, m>>
  BY DEF Copies

\* One argument's value is its share of the sum.
LEMMA SumSplits ==
  ASSUME NEW S, IsFiniteSet(S), NEW f \in [S -> Nat], NEW x \in S
  PROVE  SumOf(f) = SumOf([f EXCEPT ![x] = 0]) + f[x]
<1> DEFINE g == [f EXCEPT ![x] = 0]
           O == {x} \X (1..f[x])
<1>1. g \in [S -> Nat] /\ g[x] = 0 /\ \A y \in S \ {x} : g[y] = f[y]
  OBVIOUS
<1>2. IsFiniteSet(Copies(g)) /\ SumOf(g) \in Nat
  BY <1>1, SumIsNat
<1>3. IsFiniteSet(O) /\ Cardinality(O) = f[x]
  <2>1. IsFiniteSet({x}) /\ Cardinality({x}) = 1
    BY FS_Singleton
  <2>2. f[x] \in Nat
    OBVIOUS
  <2>3. IsFiniteSet(1..f[x]) /\ Cardinality(1..f[x]) = f[x]
    BY <2>2, FS_Interval
  <2>4. IsFiniteSet({x} \X (1..f[x]))
        /\ Cardinality({x} \X (1..f[x])) = Cardinality({x}) * Cardinality(1..f[x])
    BY <2>1, <2>3, FS_Product, Zenon
  <2>5. 1 * f[x] = f[x]
    BY <2>2
  <2> QED
    BY <2>1, <2>3, <2>4, <2>5, Zenon
<1>4. \A c : c \in Copies(f) <=> \E y \in S : \E n \in 1..f[y] : c = <<y, n>>
  BY CopiesOf
<1>5. \A c : c \in Copies(g) <=> \E y \in S : \E n \in 1..g[y] : c = <<y, n>>
  BY <1>1, CopiesOf
<1>6. Copies(g) \cap O = {}
  <2>1. SUFFICES ASSUME NEW c, c \in Copies(g), c \in O PROVE FALSE
    OBVIOUS
  <2>2. PICK y \in S : \E n \in 1..g[y] : c = <<y, n>>
    BY <1>5, <2>1
  <2>3. y = x
    BY <2>1, <2>2
  <2> QED
    BY <1>1, <2>2, <2>3
<1>7. Copies(f) = Copies(g) \cup O
  <2>1. ASSUME NEW c, c \in Copies(f) PROVE c \in Copies(g) \cup O
    <3>0. PICK y \in S : \E n \in 1..f[y] : c = <<y, n>>
      BY <1>4, <2>1
    <3>1. PICK n \in 1..f[y] : c = <<y, n>>
      BY <3>0
    <3>2. CASE y = x
      BY <3>1, <3>2
    <3>3. CASE y # x
      BY <1>1, <1>5, <3>1, <3>3
    <3> QED
      BY <3>2, <3>3
  <2>2. ASSUME NEW c, c \in Copies(g) PROVE c \in Copies(f)
    <3>0. PICK y \in S : \E n \in 1..g[y] : c = <<y, n>>
      BY <1>5, <2>2
    <3>1. PICK n \in 1..g[y] : c = <<y, n>>
      BY <3>0
    <3>2. y # x
      BY <1>1, <3>1
    <3> QED
      BY <1>1, <1>4, <3>1, <3>2
  <2>3. ASSUME NEW c, c \in O PROVE c \in Copies(f)
    BY <1>4, <2>3
  <2> QED
    BY <2>1, <2>2, <2>3
<1>8. Cardinality(Copies(f)) = Cardinality(Copies(g)) + Cardinality(O) - 0
  <2>1. Cardinality(Copies(g) \cup O)
          = Cardinality(Copies(g)) + Cardinality(O) - Cardinality(Copies(g) \cap O)
    BY <1>2, <1>3, FS_Union
  <2> QED
    BY <1>6, <1>7, <2>1, FS_EmptySet
<1> QED
  BY <1>2, <1>3, <1>8 DEF SumOf

\* A sum of nothing.
LEMMA SumOfZeros ==
  ASSUME NEW S, NEW f \in [S -> Nat], \A x \in S : f[x] = 0
  PROVE  SumOf(f) = 0
<1>1. \A c : c \notin Copies(f)
  BY CopiesOf
<1>2. Copies(f) = {}
  BY <1>1
<1> QED
  BY <1>2, FS_EmptySet DEF SumOf

\* One more argument.
LEMMA SumAppends ==
  ASSUME NEW n \in Nat, NEW f \in [1..n -> Nat], NEW g \in [1..n + 1 -> Nat],
         \A i \in 1..n : g[i] = f[i]
  PROVE  SumOf(g) = SumOf(f) + g[n + 1]
<1> DEFINE h == [g EXCEPT ![n + 1] = 0]
<1>1. IsFiniteSet(1..n + 1) /\ n + 1 \in 1..n + 1
  BY FS_Interval
<1>2. SumOf(g) = SumOf(h) + g[n + 1]
  BY <1>1, SumSplits
<1>3. /\ h \in [1..n + 1 -> Nat] /\ h[n + 1] = 0
      /\ \A i \in 1..n : h[i] = f[i]
      /\ \A i \in 1..n + 1 : i = n + 1 \/ i \in 1..n
      /\ \A i \in 1..n : i \in 1..n + 1
  OBVIOUS
<1>3a. DOMAIN h = 1..n + 1 /\ DOMAIN f = 1..n
  OBVIOUS
<1> HIDE DEF h
<1>4. ASSUME NEW c PROVE c \in Copies(h) <=> c \in Copies(f)
  <2>1. c \in Copies(h) <=> \E x \in 1..n + 1 : \E m \in 1..h[x] : c = <<x, m>>
    <3>1. c \in Copies(h) <=> \E x \in DOMAIN h : \E m \in 1..h[x] : c = <<x, m>>
      BY SMTT(30) DEF Copies
    <3> QED
      BY <1>3a, <3>1, Zenon
  <2>2. c \in Copies(f) <=> \E x \in 1..n : \E m \in 1..f[x] : c = <<x, m>>
    <3>1. c \in Copies(f) <=> \E x \in DOMAIN f : \E m \in 1..f[x] : c = <<x, m>>
      BY SMTT(30) DEF Copies
    <3> QED
      BY <1>3a, <3>1, Zenon
  <2>3. ASSUME NEW x \in 1..n + 1, NEW m \in 1..h[x] PROVE x \in 1..n /\ m \in 1..f[x]
    BY <1>3
  <2> QED
    BY <1>3, <2>1, <2>2, <2>3
<1>5. Copies(h) = Copies(f)
  BY <1>4
<1> QED
  BY <1>2, <1>5 DEF SumOf

\* One argument less; those behind it move up.
LEMMA SumRemoves ==
  ASSUME NEW n \in Nat, NEW p \in 1..n, NEW f \in [1..n -> Nat], NEW g \in [1..n - 1 -> Nat],
         \A i \in 1..n - 1 : g[i] = IF i < p THEN f[i] ELSE f[i + 1]
  PROVE  SumOf(g) = SumOf(f) - f[p]
<1> DEFINE h == [f EXCEPT ![p] = 0]
           M == [c \in Copies(g) |-> <<IF c[1] < p THEN c[1] ELSE c[1] + 1, c[2]>>]
<1>1. IsFiniteSet(1..n) /\ IsFiniteSet(1..n - 1)
  BY FS_Interval
<1>2. SumOf(f) = SumOf(h) + f[p]
  BY <1>1, SumSplits
<1>3. /\ h \in [1..n -> Nat] /\ h[p] = 0
      /\ \A i \in 1..n : i # p => h[i] = f[i]
  OBVIOUS
<1>3a. DOMAIN h = 1..n /\ DOMAIN g = 1..n - 1
  OBVIOUS
<1>4. \A c : c \in Copies(h) <=> \E x \in 1..n : \E m \in 1..h[x] : c = <<x, m>>
  BY <1>3a, CopiesOf
<1>5. \A c : c \in Copies(g) <=> \E x \in 1..n - 1 : \E m \in 1..g[x] : c = <<x, m>>
  <2>1. \A c : c \in Copies(g) <=> \E x \in DOMAIN g : \E m \in 1..g[x] : c = <<x, m>>
    BY CopiesOf
  <2> QED
    BY <1>3a, <2>1, Zenon
<1>6. ASSUME NEW c \in Copies(g)
      PROVE  /\ c[1] \in 1..n - 1 /\ c[2] \in 1..g[c[1]] /\ c = <<c[1], c[2]>>
             /\ M[c] = <<IF c[1] < p THEN c[1] ELSE c[1] + 1, c[2]>>
  <2>0. PICK x \in 1..n - 1 : \E m \in 1..g[x] : c = <<x, m>>
    BY <1>5, <1>6
  <2>1. PICK m \in 1..g[x] : c = <<x, m>>
    BY <2>0
  <2> QED
    BY <2>1
<1>7. ASSUME NEW c \in Copies(g) PROVE M[c] \in Copies(h)
  <2>0. PICK x \in 1..n - 1 : \E m \in 1..g[x] : c = <<x, m>>
    BY <1>5, <1>7
  <2>1. PICK m \in 1..g[x] : c = <<x, m>>
    BY <2>0
  <2>2. CASE x < p
    <3>1. M[c] = <<x, m>> /\ x \in 1..n /\ h[x] = f[x] /\ g[x] = f[x]
      BY <1>3, <1>7, <2>1, <2>2
    <3> QED
      BY <1>4, <3>1
  <2>3. CASE ~(x < p)
    <3>1. M[c] = <<x + 1, m>> /\ x + 1 \in 1..n /\ h[x + 1] = f[x + 1] /\ g[x] = f[x + 1]
      BY <1>3, <1>7, <2>1, <2>3
    <3> QED
      BY <1>4, <3>1
  <2> QED
    BY <2>2, <2>3
<1>8. ASSUME NEW c \in Copies(h) PROVE \E d \in Copies(g) : M[d] = c
  <2>0. PICK x \in 1..n : \E m \in 1..h[x] : c = <<x, m>>
    BY <1>4, <1>8
  <2>1. PICK m \in 1..h[x] : c = <<x, m>>
    BY <2>0
  <2>2. x # p
    BY <1>3, <2>1
  <2>3. CASE x < p
    <3>1. x \in 1..n - 1 /\ g[x] = f[x] /\ h[x] = f[x]
      BY <1>3, <2>1, <2>3
    <3>2. <<x, m>> \in Copies(g)
      BY <1>5, <3>1
    <3>3. M[<<x, m>>] = <<x, m>>
      BY <2>3, <3>2
    <3> QED
      BY <2>1, <3>2, <3>3
  <2>4. CASE x > p
    <3>1. x - 1 \in 1..n - 1 /\ g[x - 1] = f[x] /\ h[x] = f[x] /\ ~(x - 1 < p) /\ x - 1 + 1 = x
      BY <1>3, <2>1, <2>4
    <3>2. <<x - 1, m>> \in Copies(g)
      BY <1>5, <3>1
    <3>3. M[<<x - 1, m>>] = <<x, m>>
      BY <3>1, <3>2
    <3> QED
      BY <2>1, <3>2, <3>3
  <2> QED
    BY <2>2, <2>3, <2>4
<1>9. ASSUME NEW c \in Copies(g), NEW d \in Copies(g), M[c] = M[d] PROVE c = d
  <2>1. /\ c[1] \in 1..n - 1 /\ c = <<c[1], c[2]>> /\ d[1] \in 1..n - 1 /\ d = <<d[1], d[2]>>
        /\ (IF c[1] < p THEN c[1] ELSE c[1] + 1) = (IF d[1] < p THEN d[1] ELSE d[1] + 1)
        /\ c[2] = d[2]
    BY <1>6, <1>9
  <2>2. c[1] = d[1]
    BY <2>1
  <2> QED
    BY <2>1, <2>2
<1>10. M \in Bijection(Copies(g), Copies(h))
  <2> HIDE DEF M, h
  <2>1. M \in [Copies(g) -> Copies(h)]
    BY <1>7 DEF M
  <2>2. M \in Injection(Copies(g), Copies(h))
    BY <1>9, <2>1 DEF Injection, IsInjective
  <2>3. M \in Surjection(Copies(g), Copies(h))
    BY <1>8, <2>1 DEF Surjection
  <2> QED
    BY <2>2, <2>3 DEF Bijection
<1>11. SumOf(h) = SumOf(g)
  <2>1. IsFiniteSet(Copies(g))
    BY <1>1, SumIsNat
  <2> QED
    BY <1>10, <2>1, FS_Bijection DEF SumOf, ExistsBijection
<1>12. SumOf(h) \in Nat /\ f[p] \in Nat
  BY <1>1, <1>3, SumIsNat
<1> QED
  BY <1>2, <1>11, <1>12

-----------------------------------------------------------------------------
\* An emptied counter adds up, and lists nobody.
LEMMA NothingAdds == Nothing \in Sums /\ AddsUp(Nothing) /\ Named(Nothing) = {}
<1>1. /\ Nothing.targets \in [Key -> Nat] /\ \A k \in Key : Nothing.targets[k] = 0
      /\ Nothing.count = 0 /\ Nothing.dropped = 0 /\ Nothing \in Sums
  BY DEF Nothing, Sums
<1>2. SumOf(Nothing.targets) = 0
  BY <1>1, SumOfZeros
<1> QED
  BY <1>1, <1>2 DEF AddsUp, Total, Named

\* A value that changes moves the sum by as much.
LEMMA SumMoves ==
  ASSUME NEW S, IsFiniteSet(S), NEW f \in [S -> Nat], NEW x \in S, NEW v \in Nat
  PROVE  SumOf([f EXCEPT ![x] = v]) = SumOf(f) - f[x] + v
<1> DEFINE g == [f EXCEPT ![x] = v]
           h == [f EXCEPT ![x] = 0]
<1>1. g \in [S -> Nat] /\ h \in [S -> Nat] /\ [g EXCEPT ![x] = 0] = h /\ g[x] = v
  OBVIOUS
<1>2. SumOf(f) = SumOf(h) + f[x]
  BY SumSplits
<1>3. SumOf(g) = SumOf(h) + v
  <2> HIDE DEF g, h
  <2> QED
    BY <1>1, SumSplits
<1>4. SumOf(h) \in Nat /\ f[x] \in Nat
  BY <1>1, SumIsNat
<1> QED
  BY <1>2, <1>3, <1>4

\* A recorded target is counted once, by name or without (addNotificationTarget).
LEMMA AddedAdds ==
  ASSUME NEW sum \in Sums, NEW k \in Key
  PROVE  /\ Added(sum, k) \in Sums
         /\ AddsUp(sum) => AddsUp(Added(sum, k))
         /\ \A j \in Key \ {k} : Added(sum, k).targets[j] = sum.targets[j]
         /\ \/ Added(sum, k).targets[k] = sum.targets[k]
            \/ Added(sum, k).targets[k] = sum.targets[k] + 1
<1>1. sum.targets \in [Key -> Nat] /\ sum.count \in Nat /\ sum.dropped \in Nat
  BY DEF Sums
<1>2. SumOf(sum.targets) \in Nat
  BY <1>1, SumIsNat, NoticeAssumption
<1> DEFINE a == Added(sum, k)
<1>3. CASE a = [sum EXCEPT !.count = @ + 1, !.dropped = @ + 1]
  <2>1. /\ a \in Sums /\ a.targets = sum.targets
        /\ a.count = sum.count + 1 /\ a.dropped = sum.dropped + 1
    <3> HIDE DEF a
    <3>1. a = [targets |-> sum.targets, count |-> sum.count + 1, dropped |-> sum.dropped + 1]
      BY <1>3 DEF Sums
    <3> QED
      BY <1>1, <3>1 DEF Sums
  <2> QED
    BY <1>1, <1>2, <2>1 DEF AddsUp, Total
<1>4. CASE a = [sum EXCEPT !.count = @ + 1, !.targets[k] = @ + 1]
  <2>1. /\ a \in Sums
        /\ a.targets = [sum.targets EXCEPT ![k] = sum.targets[k] + 1]
        /\ a.count = sum.count + 1 /\ a.dropped = sum.dropped
    <3> HIDE DEF a
    <3>1. a = [targets |-> [sum.targets EXCEPT ![k] = sum.targets[k] + 1],
               count |-> sum.count + 1, dropped |-> sum.dropped]
      BY <1>4 DEF Sums
    <3> QED
      BY <1>1, <3>1 DEF Sums
  <2>2. sum.targets[k] + 1 \in Nat
    BY <1>1
  <2>3. SumOf([sum.targets EXCEPT ![k] = sum.targets[k] + 1])
          = SumOf(sum.targets) - sum.targets[k] + (sum.targets[k] + 1)
    BY <1>1, <2>2, SumMoves, NoticeAssumption
  <2>4. AddsUp(sum) => AddsUp(Added(sum, k))
    BY <1>1, <1>2, <2>1, <2>3 DEF AddsUp, Total
  <2> QED
    BY <1>1, <2>1, <2>4
<1> QED
  BY <1>3, <1>4 DEF Added

\* What is cleared is no longer listed, and no longer counted (clearProbeProgressLocked).
LEMMA ClearedAdds ==
  ASSUME NEW sum \in Sums, NEW k \in Key
  PROVE  /\ Cleared(sum, k) \in Sums
         /\ AddsUp(sum) => AddsUp(Cleared(sum, k))
         /\ Named(Cleared(sum, k)) \subseteq Named(sum) \ {k}
<1> DEFINE rest == [sum EXCEPT !.targets[k] = 0, !.count = Max({0, @ - sum.targets[k]})]
<1>1. sum.targets \in [Key -> Nat] /\ sum.count \in Nat /\ sum.dropped \in Nat
  BY DEF Sums
<1>2. \A n \in Int : Max({0, n}) \in Nat /\ (n >= 0 => Max({0, n}) = n)
  <2>1. SUFFICES ASSUME NEW n \in Int
                 PROVE  Max({0, n}) \in Nat /\ (n >= 0 => Max({0, n}) = n)
    OBVIOUS
  <2>2. \E x \in {0, n} : \A y \in {0, n} : x >= y
    OBVIOUS
  <2>3. Max({0, n}) \in {0, n} /\ \A y \in {0, n} : Max({0, n}) >= y
    BY <2>2 DEF Max
  <2> QED
    BY <2>3
<1>3. SumOf(sum.targets) \in Nat
  BY <1>1, SumIsNat, NoticeAssumption
<1>4. sum.count - sum.targets[k] \in Int
  BY <1>1
<1>5. /\ rest \in Sums /\ rest.targets = [sum.targets EXCEPT ![k] = 0]
      /\ rest.count = Max({0, sum.count - sum.targets[k]}) /\ rest.dropped = sum.dropped
  BY <1>1, <1>2, <1>4 DEF Sums
<1>6. Named(rest) \subseteq Named(sum) \ {k}
  BY <1>1, <1>5 DEF Named
<1>7. AddsUp(sum) => AddsUp(rest)
  <2>1. /\ [sum.targets EXCEPT ![k] = 0] \in [Key -> Nat]
        /\ SumOf([sum.targets EXCEPT ![k] = 0]) \in Nat
    BY <1>1, SumIsNat, NoticeAssumption
  <2>2. SumOf(sum.targets) = SumOf([sum.targets EXCEPT ![k] = 0]) + sum.targets[k]
    BY <1>1, SumSplits, NoticeAssumption
  <2>3. ASSUME AddsUp(sum) PROVE AddsUp(rest)
    <3>1. /\ sum.count - sum.targets[k] = SumOf([sum.targets EXCEPT ![k] = 0]) + sum.dropped
          /\ sum.count - sum.targets[k] >= 0
      BY <1>1, <2>1, <2>2, <2>3 DEF AddsUp, Total
    <3>2. rest.count = sum.count - sum.targets[k]
      BY <1>2, <1>4, <1>5, <3>1
    <3> HIDE DEF rest
    <3> QED
      BY <1>5, <3>1, <3>2 DEF AddsUp, Total
  <2> QED
    BY <2>3
<1>8. Cleared(sum, k) = IF Named(rest) = {} THEN Nothing ELSE rest
  BY DEF Cleared
<1> HIDE DEF rest
<1> QED
  BY <1>5, <1>6, <1>7, <1>8, NothingAdds

-----------------------------------------------------------------------------
\* What is listed for a job that is about to be told of by itself is settled, or left.
SettledOrLeft ==
  \A k \in Key : watch[k] = "notify" /\ k \in Named(progress) => k \in clearing \cup left

NoticeIInv == NoticeTypeOK /\ NoticesAddUp /\ SettledOrLeft

\* At the start nothing is counted.
LEMMA NoticesStart == NoticeInit => NoticeIInv
<1> SUFFICES ASSUME NoticeInit PROVE NoticeIInv
  OBVIOUS
<1>1. /\ keepalives = Nothing /\ progress = Nothing /\ recoveries = Nothing /\ handing = <<>>
      /\ watch = [k \in Key |-> "none"] /\ owed = [k \in Key |-> 0]
      /\ clearing = {} /\ left = {} /\ timer = FALSE /\ quitting = FALSE /\ options = Switches
  BY DEF NoticeInit
<1>2. NoticeTypeOK
  <2>0. <<>> \in Seq(Sums)
    OBVIOUS
  <2>1. handing \in Seq(Sums) /\ owed \in [Key -> Nat] /\ timer \in BOOLEAN /\ quitting \in BOOLEAN
    BY <1>1, <2>0
  <2>2. watch \in [Key -> {"none", "probe", "keepalive", "recovering", "merging", "clear", "merge",
                           "notify"}]
    BY <1>1
  <2> QED
    BY <1>1, <2>1, <2>2, NothingAdds DEF NoticeTypeOK
<1>3. ToSet(handing) = {}
  BY <1>1 DEF ToSet
<1>4. TotalsAddUp
  BY <1>1, <1>3, NothingAdds DEF TotalsAddUp
<1>5. RecoveryIsTimed
  BY <1>1 DEF RecoveryIsTimed
<1>6. ProgressIsRunning /\ SettledOrLeft
  BY <1>1, NothingAdds DEF ProgressIsRunning, SettledOrLeft
<1>7. EachToldOnce
  <2>1. SUFFICES ASSUME NEW k \in Key
                 PROVE  owed[k] = recoveries.targets[k] + InHand(k) + Underway(k)
    BY DEF EachToldOnce
  <2>2. InHand(k) = 0
    <3> DEFINE f == [i \in 1..Len(handing) |-> handing[i].targets[k]]
    <3>1. 1..Len(handing) = {}
      BY <1>1
    <3>2. f \in [1..Len(handing) -> Nat] /\ \A x \in 1..Len(handing) : f[x] = 0
      BY <3>1
    <3> HIDE DEF f
    <3>3. SumOf(f) = 0
      BY <3>2, SumOfZeros
    <3> QED
      BY <3>3 DEF InHand, f
  <2> QED
    BY <1>1, <2>1, <2>2 DEF Underway, Nothing
<1> QED
  BY <1>2, <1>4, <1>5, <1>6, <1>7 DEF NoticeIInv, NoticesAddUp

\* What is left of a sequence without one of its elements.
LEMMA RemovedOne ==
  ASSUME NEW S, NEW s \in Seq(S), NEW p \in 1..Len(s)
  PROVE  /\ RemoveAt(s, p) \in Seq(S) /\ Len(RemoveAt(s, p)) = Len(s) - 1
         /\ \A i \in 1..Len(s) - 1 : RemoveAt(s, p)[i] = IF i < p THEN s[i] ELSE s[i + 1]
<1> DEFINE before == SubSeq(s, 1, p - 1)
           after  == SubSeq(s, p + 1, Len(s))
           r      == RemoveAt(s, p)
<1>1. p \in Nat /\ 1 <= p /\ p <= Len(s)
  OBVIOUS
<1>2. Len(s) \in Nat /\ \A i \in 1..Len(s) : s[i] \in S
  OBVIOUS
<1>3. /\ before \in Seq(S) /\ Len(before) = p - 1
      /\ \A i \in 1..p - 1 : before[i] = s[i]
  <2>1. 1 \in Int /\ p - 1 \in Int /\ \A i \in 1..p - 1 : s[i] \in S
    BY <1>1, <1>2
  <2>2. /\ before \in Seq(S) /\ Len(before) = IF 1 <= p - 1 THEN p - 1 - 1 + 1 ELSE 0
        /\ \A i \in 1..p - 1 - 1 + 1 : before[i] = s[1 + i - 1]
    BY <2>1, SubSeqProperties
  <2> QED
    BY <1>1, <1>2, <2>2
<1>4. /\ after \in Seq(S) /\ Len(after) = Len(s) - p
      /\ \A i \in 1..Len(s) - p : after[i] = s[p + i]
  <2>1. p + 1 \in Int /\ Len(s) \in Int /\ \A i \in p + 1..Len(s) : s[i] \in S
    BY <1>1, <1>2
  <2>2. /\ after \in Seq(S)
        /\ Len(after) = IF p + 1 <= Len(s) THEN Len(s) - (p + 1) + 1 ELSE 0
        /\ \A i \in 1..Len(s) - (p + 1) + 1 : after[i] = s[p + 1 + i - 1]
    BY <2>1, SubSeqProperties
  <2> QED
    BY <1>1, <1>2, <2>2
<1>5. r = before \o after
  BY DEF RemoveAt
<1> HIDE DEF before, after, r
<1>6. /\ r \in Seq(S) /\ Len(r) = Len(before) + Len(after)
      /\ \A i \in 1..Len(before) + Len(after) :
           r[i] = IF i <= Len(before) THEN before[i] ELSE after[i - Len(before)]
  BY <1>3, <1>4, <1>5, ConcatProperties
<1>7. Len(r) = Len(s) - 1
  BY <1>1, <1>2, <1>3, <1>4, <1>6
<1>8. ASSUME NEW i \in 1..Len(s) - 1, i >= p PROVE r[i] = s[i + 1]
  <2>1. i - (p - 1) \in 1..Len(s) - p /\ p + (i - (p - 1)) = i + 1 /\ ~(i <= p - 1)
    BY <1>1, <1>2, <1>8
  <2>2. i \in 1..Len(before) + Len(after)
    BY <1>1, <1>2, <1>3, <1>4
  <2>3. r[i] = after[i - (p - 1)]
    BY <1>3, <1>6, <2>1, <2>2
  <2>4. after[i - (p - 1)] = s[p + (i - (p - 1))]
    BY <1>4, <2>1
  <2> QED
    BY <2>1, <2>3, <2>4
<1>9. ASSUME NEW i \in 1..Len(s) - 1, i < p PROVE r[i] = s[i]
  <2>1. i \in 1..p - 1 /\ i <= p - 1 /\ i \in 1..Len(before) + Len(after)
    BY <1>1, <1>2, <1>3, <1>4, <1>9
  <2> QED
    BY <1>3, <1>6, <2>1
<1>10. ASSUME NEW i \in 1..Len(s) - 1 PROVE r[i] = IF i < p THEN s[i] ELSE s[i + 1]
  <2>1. i < p \/ i >= p
    BY <1>1, <1>2
  <2> QED
    BY <1>1, <1>8, <1>9, <2>1
<1> QED
  BY <1>6, <1>7, <1>10 DEF r

\* The recoveries of a key in a sequence of messages.
LEMMA InHandOf ==
  ASSUME NEW s \in Seq(Sums), NEW k \in Key
  PROVE  /\ [i \in 1..Len(s) |-> s[i].targets[k]] \in [1..Len(s) -> Nat]
         /\ SumOf([i \in 1..Len(s) |-> s[i].targets[k]]) \in Nat
<1>1. Len(s) \in Nat /\ \A i \in 1..Len(s) : s[i] \in Sums
  OBVIOUS
<1>2. [i \in 1..Len(s) |-> s[i].targets[k]] \in [1..Len(s) -> Nat]
  BY <1>1 DEF Sums
<1>3. IsFiniteSet(1..Len(s))
  BY <1>1, FS_Interval
<1> QED
  BY <1>2, <1>3, SumIsNat

\* A message more, and its recoveries.
LEMMA InHandGrows ==
  ASSUME NEW s \in Seq(Sums), NEW sum \in Sums, NEW k \in Key
  PROVE  SumOf([i \in 1..Len(Append(s, sum)) |-> Append(s, sum)[i].targets[k]])
           = SumOf([i \in 1..Len(s) |-> s[i].targets[k]]) + sum.targets[k]
<1> DEFINE t == Append(s, sum)
           f == [i \in 1..Len(s) |-> s[i].targets[k]]
           g == [i \in 1..Len(t) |-> t[i].targets[k]]
<1>1. /\ Len(s) \in Nat /\ t \in Seq(Sums) /\ Len(t) = Len(s) + 1
      /\ \A i \in 1..Len(s) : t[i] = s[i] /\ i \in 1..Len(s) + 1
      /\ t[Len(s) + 1] = sum /\ Len(s) + 1 \in 1..Len(s) + 1
  OBVIOUS
<1> HIDE DEF t
<1>2. f \in [1..Len(s) -> Nat] /\ g \in [1..Len(t) -> Nat]
  BY <1>1, InHandOf
<1>3. g \in [1..Len(s) + 1 -> Nat] /\ g[Len(s) + 1] = sum.targets[k]
  BY <1>1, <1>2
<1>4. \A i \in 1..Len(s) : g[i] = f[i]
  BY <1>1
<1> HIDE DEF f, g
<1>5. SumOf(g) = SumOf(f) + g[Len(s) + 1]
  BY <1>1, <1>2, <1>3, <1>4, SumAppends
<1> QED
  BY <1>3, <1>5 DEF f, g, t

\* A message less, and its recoveries.
LEMMA InHandShrinks ==
  ASSUME NEW s \in Seq(Sums), NEW p \in 1..Len(s), NEW k \in Key
  PROVE  SumOf([i \in 1..Len(RemoveAt(s, p)) |-> RemoveAt(s, p)[i].targets[k]])
           = SumOf([i \in 1..Len(s) |-> s[i].targets[k]]) - s[p].targets[k]
<1> DEFINE t == RemoveAt(s, p)
           f == [i \in 1..Len(s) |-> s[i].targets[k]]
           g == [i \in 1..Len(t) |-> t[i].targets[k]]
<1>1. /\ t \in Seq(Sums) /\ Len(t) = Len(s) - 1
      /\ \A i \in 1..Len(s) - 1 : t[i] = IF i < p THEN s[i] ELSE s[i + 1]
  BY RemovedOne
<1>2. /\ Len(s) \in Nat /\ p \in Nat
      /\ \A i \in 1..Len(s) - 1 : i \in 1..Len(s) /\ i + 1 \in 1..Len(s)
  OBVIOUS
<1> HIDE DEF t
<1>3. f \in [1..Len(s) -> Nat] /\ g \in [1..Len(t) -> Nat]
  BY <1>1, InHandOf
<1>4. g \in [1..Len(s) - 1 -> Nat] /\ f[p] = s[p].targets[k]
  BY <1>1, <1>3
<1>5. \A i \in 1..Len(s) - 1 : g[i] = IF i < p THEN f[i] ELSE f[i + 1]
  BY <1>1, <1>2
<1> HIDE DEF f, g
<1>6. SumOf(g) = SumOf(f) - f[p]
  BY <1>2, <1>3, <1>4, <1>5, SumRemoves
<1> QED
  BY <1>4, <1>6 DEF f, g, t

\* The recoveries of a key that are being handed over.
LEMMA InHandIsNat ==
  ASSUME NoticeTypeOK, NEW k \in Key
  PROVE  InHand(k) \in Nat
<1>1. handing \in Seq(Sums)
  BY DEF NoticeTypeOK
<1> QED
  BY <1>1, InHandOf DEF InHand

\* Whatever is told or lost was owed.
LEMMA OwedIsThere ==
  ASSUME NoticeTypeOK, EachToldOnce, NEW k \in Key
  PROVE  /\ owed[k] - recoveries.targets[k] \in Nat
         /\ Underway(k) = 1 => owed[k] - 1 \in Nat
         /\ \A i \in 1..Len(handing) : owed[k] - handing[i].targets[k] \in Nat
<1>1. /\ owed[k] \in Nat /\ recoveries.targets[k] \in Nat /\ Underway(k) \in {0, 1}
      /\ handing \in Seq(Sums)
  BY DEF NoticeTypeOK, Sums, Underway
<1>2. owed[k] = recoveries.targets[k] + InHand(k) + Underway(k)
  BY DEF EachToldOnce
<1>3. InHand(k) \in Nat
  BY InHandIsNat
<1>4. ASSUME NEW i \in 1..Len(handing) PROVE owed[k] - handing[i].targets[k] \in Nat
  <2>1. Len(handing) \in Nat /\ handing[i] \in Sums
    BY <1>1
  <2> DEFINE f == [j \in 1..Len(handing) |-> handing[j].targets[k]]
             h == [f EXCEPT ![i] = 0]
  <2>2. f \in [1..Len(handing) -> Nat] /\ InHand(k) = SumOf(f)
    BY <1>1, InHandOf DEF InHand
  <2>3. h \in [1..Len(handing) -> Nat] /\ f[i] = handing[i].targets[k] /\ f[i] \in Nat
    BY <2>2
  <2>4. IsFiniteSet(1..Len(handing))
    BY <2>1, FS_Interval
  <2> HIDE DEF f
  <2>5. SumOf(f) = SumOf(h) + f[i]
    BY <2>2, <2>4, SumSplits
  <2> HIDE DEF h
  <2>6. SumOf(h) \in Nat
    BY <2>3, <2>4, SumIsNat
  <2>7. InHand(k) = SumOf(h) + f[i]
    BY <2>2, <2>5
  <2>8. owed[k] - f[i] = recoveries.targets[k] + SumOf(h) + Underway(k)
    <3>1. owed[k] \in Int /\ recoveries.targets[k] \in Int /\ Underway(k) \in Int
      BY <1>1
    <3>2. owed[k] = recoveries.targets[k] + (SumOf(h) + f[i]) + Underway(k)
      BY <1>2, <2>7
    <3>3. PICK a : a = SumOf(h)
      OBVIOUS
    <3>4. PICK b : b = f[i]
      OBVIOUS
    <3>5. a \in Int /\ b \in Int
      BY <2>3, <2>6, <3>3, <3>4
    <3>6. owed[k] = recoveries.targets[k] + (a + b) + Underway(k)
      BY <3>2, <3>3, <3>4
    <3>7. owed[k] - b = recoveries.targets[k] + a + Underway(k)
      BY <3>1, <3>5, <3>6
    <3> QED
      BY <3>3, <3>4, <3>7
  <2>9. recoveries.targets[k] + SumOf(h) + Underway(k) \in Nat
    BY <1>1, <2>6
  <2> QED
    BY <2>3, <2>8, <2>9
<1>5. PICK o, r, h, u : o = owed[k] /\ r = recoveries.targets[k] /\ h = InHand(k) /\ u = Underway(k)
  OBVIOUS
<1>6. o \in Nat /\ r \in Nat /\ h \in Nat /\ u \in Nat /\ o = r + h + u
  BY <1>1, <1>2, <1>3, <1>5
<1>7. o - r \in Nat /\ (u = 1 => o - 1 \in Nat)
  BY <1>6
<1> QED
  BY <1>4, <1>5, <1>7, Zenon

-----------------------------------------------------------------------------
\* The types are kept.
LEMMA NoticeTypesKept ==
  ASSUME NoticeIInv, [NoticeNext]_noticeVars
  PROVE  NoticeTypeOK'
<1> DEFINE Modes == {"none", "probe", "keepalive", "recovering", "merging", "clear", "merge",
                     "notify"}
<1>1. /\ watch \in [Key -> Modes] /\ clearing \subseteq Key /\ left \subseteq Key
      /\ keepalives \in Sums /\ progress \in Sums /\ recoveries \in Sums
      /\ timer \in BOOLEAN /\ quitting \in BOOLEAN /\ handing \in Seq(Sums)
      /\ options \subseteq Switches /\ owed \in [Key -> Nat]
      /\ NoticeTypeOK /\ EachToldOnce
  BY DEF NoticeIInv, NoticeTypeOK, NoticesAddUp
<1>2. Nothing \in Sums
  BY NothingAdds
<1>3. \A k \in Key : /\ owed[k] - recoveries.targets[k] \in Nat
                     /\ Underway(k) = 1 => owed[k] - 1 \in Nat
                     /\ \A i \in 1..Len(handing) : owed[k] - handing[i].targets[k] \in Nat
  BY <1>1, OwedIsThere
<1>4. \A k \in Key : /\ Added(keepalives, k) \in Sums /\ Added(progress, k) \in Sums
                     /\ Added(recoveries, k) \in Sums /\ Cleared(progress, k) \in Sums
  BY <1>1, AddedAdds, ClearedAdds
<1> USE DEF noticeVars
<1>5. ASSUME NEW k \in Key, NEW mode \in {"probe", "keepalive"}, StartsJob(k, mode)
      PROVE  NoticeTypeOK'
  BY <1>1, <1>5 DEF StartsJob, NoticeTypeOK
<1>6. ASSUME NEW k \in Key, NEW due \in BOOLEAN, KeepaliveSuccess(k, due) PROVE NoticeTypeOK'
  BY <1>1, <1>2, <1>4, <1>6 DEF KeepaliveSuccess, NoticeTypeOK
<1>7. ASSUME NEW k \in Key, NEW due \in BOOLEAN, AttemptFails(k, due) PROVE NoticeTypeOK'
  <2>1. progress' \in Sums
    BY <1>2, <1>4, <1>7 DEF AttemptFails, RecordProgress
  <2> QED
    BY <1>1, <1>7, <2>1 DEF AttemptFails, NoticeTypeOK
<1>8. ASSUME NEW k \in Key, Ends(k) PROVE NoticeTypeOK'
  BY <1>1, <1>8 DEF Ends, NoticeTypeOK
<1>9. ASSUME NEW k \in Key, ClearProgress(k) PROVE NoticeTypeOK'
  BY <1>1, <1>4, <1>9 DEF ClearProgress, NoticeTypeOK
<1>10. ASSUME NEW k \in Key, Recovers(k) PROVE NoticeTypeOK'
  BY <1>1, <1>10 DEF Recovers, NoticeTypeOK
<1>11. ASSUME NEW k \in Key, ClearThenNotify(k) PROVE NoticeTypeOK'
  BY <1>1, <1>4, <1>11 DEF ClearThenNotify, NoticeTypeOK
<1>12. ASSUME NEW k \in Key, FindNotifier(k) PROVE NoticeTypeOK'
  BY <1>1, <1>12 DEF FindNotifier, NoticeTypeOK
<1>13. ASSUME NEW k \in Key, MergeRecovery(k) PROVE NoticeTypeOK'
  <2>1. Underway(k) = 1
    BY <1>13 DEF MergeRecovery, Underway
  <2>2. [owed EXCEPT ![k] = @ - 1] \in [Key -> Nat]
    BY <1>1, <1>3, <2>1
  <2>3. owed' \in [Key -> Nat]
    BY <1>1, <1>13, <2>2 DEF MergeRecovery
  <2> QED
    BY <1>1, <1>4, <1>13, <2>3 DEF MergeRecovery, NoticeTypeOK
<1>14. ASSUME NEW k \in Key, Notify(k) PROVE NoticeTypeOK'
  <2>1. Underway(k) = 1
    BY <1>14 DEF Notify, Underway
  <2>2. [owed EXCEPT ![k] = @ - 1] \in [Key -> Nat]
    BY <1>1, <1>3, <2>1
  <2> QED
    BY <1>1, <1>14, <2>2 DEF Notify, NoticeTypeOK
<1>15. ASSUME NEW i \in 1..Len(handing), HandOver(i) PROVE NoticeTypeOK'
  <2>1. RemoveAt(handing, i) \in Seq(Sums)
    BY <1>1, RemovedOne
  <2>2. [k \in Key |-> owed[k] - handing[i].targets[k]] \in [Key -> Nat]
    BY <1>3
  <2> QED
    BY <1>1, <1>15, <2>1, <2>2 DEF HandOver, NoticeTypeOK
<1>16. ASSUME TimerFires PROVE NoticeTypeOK'
  <2>1. [k \in Key |-> owed[k] - recoveries.targets[k]] \in [Key -> Nat]
    BY <1>3
  <2>2. Append(handing, recoveries) \in Seq(Sums)
    BY <1>1
  <2> QED
    BY <1>1, <1>2, <1>16, <2>1, <2>2 DEF TimerFires, NoticeTypeOK
<1>17. ASSUME Quit PROVE NoticeTypeOK'
  <2>1. [k \in Key |-> owed[k] - recoveries.targets[k]] \in [Key -> Nat]
    BY <1>3
  <2> QED
    BY <1>1, <1>2, <1>17, <2>1 DEF Quit, NoticeTypeOK
<1>18. ASSUME NEW switch \in Switches, Toggle(switch) PROVE NoticeTypeOK'
  BY <1>1, <1>18 DEF Toggle, NoticeTypeOK
<1>19. ASSUME UNCHANGED noticeVars PROVE NoticeTypeOK'
  BY <1>1, <1>19 DEF NoticeTypeOK
<1> QED
  BY <1>5, <1>6, <1>7, <1>8, <1>9, <1>10, <1>11, <1>12, <1>13, <1>14, <1>15, <1>16, <1>17,
     <1>18, <1>19 DEF NoticeNext

\* Every total stays the sum of what is listed and what was only counted.
LEMMA TotalsKept ==
  ASSUME NoticeIInv, [NoticeNext]_noticeVars
  PROVE  TotalsAddUp'
<1>1. /\ keepalives \in Sums /\ progress \in Sums /\ recoveries \in Sums /\ handing \in Seq(Sums)
      /\ AddsUp(keepalives) /\ AddsUp(progress) /\ AddsUp(recoveries)
      /\ \A sum \in ToSet(handing) : AddsUp(sum)
  BY DEF NoticeIInv, NoticeTypeOK, NoticesAddUp, TotalsAddUp
<1>2. AddsUp(Nothing)
  BY NothingAdds
<1>3. \A k \in Key : /\ AddsUp(Added(keepalives, k)) /\ AddsUp(Added(progress, k))
                     /\ AddsUp(Added(recoveries, k)) /\ AddsUp(Cleared(progress, k))
  BY <1>1, AddedAdds, ClearedAdds
<1>4. ASSUME NEW a, NEW b, NEW c, NEW t, AddsUp(a), AddsUp(b), AddsUp(c),
             \A sum \in ToSet(t) : AddsUp(sum),
             keepalives' = a, progress' = b, recoveries' = c, handing' = t
      PROVE  TotalsAddUp'
  <2>1. \A sum \in {a, b, c} \cup ToSet(t) : AddsUp(sum)
    BY <1>4
  <2> QED
    BY <1>4, <2>1 DEF TotalsAddUp, ToSet, AddsUp, Total
<1> USE DEF noticeVars
<1>5. ASSUME UNCHANGED <<keepalives, progress, recoveries, handing>> PROVE TotalsAddUp'
  BY <1>1, <1>4, <1>5
<1>6. ASSUME NEW k \in Key, NEW due \in BOOLEAN, KeepaliveSuccess(k, due) PROVE TotalsAddUp'
  <2>1. /\ keepalives' \in {Nothing, Added(keepalives, k)}
        /\ progress' = progress /\ recoveries' = recoveries /\ handing' = handing
    BY <1>6 DEF KeepaliveSuccess
  <2> QED
    BY <1>1, <1>2, <1>3, <1>4, <2>1
<1>7. ASSUME NEW p \in {Nothing} \cup {Added(progress, k) : k \in Key}
                         \cup {Cleared(progress, k) : k \in Key},
             progress' = p, UNCHANGED <<keepalives, recoveries, handing>>
      PROVE  TotalsAddUp'
  <2>1. AddsUp(p)
    BY <1>2, <1>3
  <2> QED
    BY <1>1, <1>4, <1>7, <2>1
<1>8. ASSUME NEW k \in Key, MergeRecovery(k) PROVE TotalsAddUp'
  <2>1. /\ recoveries' = Added(recoveries, k) /\ progress' = Cleared(progress, k)
        /\ keepalives' = keepalives /\ handing' = handing
    BY <1>8 DEF MergeRecovery
  <2> QED
    BY <1>1, <1>3, <1>4, <2>1
<1>9. ASSUME NEW i \in 1..Len(handing), HandOver(i) PROVE TotalsAddUp'
  <2> DEFINE t == RemoveAt(handing, i)
  <2>1. /\ t \in Seq(Sums) /\ Len(t) = Len(handing) - 1
        /\ \A j \in 1..Len(handing) - 1 : t[j] = IF j < i THEN handing[j] ELSE handing[j + 1]
    BY <1>1, RemovedOne
  <2>2. /\ DOMAIN t = 1..Len(handing) - 1 /\ DOMAIN handing = 1..Len(handing)
        /\ \A j \in 1..Len(handing) - 1 : j \in 1..Len(handing) /\ j + 1 \in 1..Len(handing)
    <3> HIDE DEF t
    <3> QED
      BY <1>1, <2>1
  <2>3. ToSet(t) \subseteq ToSet(handing)
    <3> HIDE DEF t
    <3> QED
      BY <2>1, <2>2 DEF ToSet
  <2>4. handing' = t /\ keepalives' = keepalives /\ progress' = progress
        /\ recoveries' = recoveries
    BY <1>9 DEF HandOver
  <2> QED
    BY <1>1, <1>4, <2>3, <2>4
<1>10. ASSUME TimerFires PROVE TotalsAddUp'
  <2>1. ToSet(Append(handing, recoveries)) = ToSet(handing) \cup {recoveries}
    BY <1>1, AppendAdds
  <2>2. /\ recoveries' = Nothing /\ keepalives' = keepalives /\ progress' = progress
        /\ handing' = handing \/ handing' = Append(handing, recoveries)
    BY <1>10 DEF TimerFires
  <2>3. CASE handing' = handing
    BY <1>1, <1>2, <1>4, <2>2, <2>3
  <2>4. CASE handing' = Append(handing, recoveries)
    <3>1. \A sum \in ToSet(Append(handing, recoveries)) : AddsUp(sum)
      BY <1>1, <2>1
    <3> QED
      BY <1>1, <1>2, <1>4, <2>2, <2>4, <3>1
  <2> QED
    BY <2>2, <2>3, <2>4
<1>11. ASSUME Quit PROVE TotalsAddUp'
  BY <1>1, <1>2, <1>4, <1>11 DEF Quit
<1>12. ASSUME NEW k \in Key, NEW due \in BOOLEAN, AttemptFails(k, due) PROVE TotalsAddUp'
  BY <1>7, <1>12 DEF AttemptFails, RecordProgress
<1>13. ASSUME NEW k \in Key, ClearProgress(k) \/ ClearThenNotify(k) PROVE TotalsAddUp'
  BY <1>7, <1>13 DEF ClearProgress, ClearThenNotify
<1>14. ASSUME NEW k \in Key,
              \/ \E mode \in {"probe", "keepalive"} : StartsJob(k, mode)
              \/ Ends(k) \/ Recovers(k) \/ FindNotifier(k) \/ Notify(k)
       PROVE  TotalsAddUp'
  BY <1>5, <1>14 DEF StartsJob, Ends, Recovers, FindNotifier, Notify
<1>15. ASSUME NEW switch \in Switches, Toggle(switch) PROVE TotalsAddUp'
  BY <1>5, <1>15 DEF Toggle
<1> QED
  BY <1>5, <1>6, <1>8, <1>9, <1>10, <1>11, <1>12, <1>13, <1>14, <1>15 DEF NoticeNext

\* A recovery that waits keeps its timer until the shutdown.
LEMMA TimerKept ==
  ASSUME NoticeIInv, [NoticeNext]_noticeVars
  PROVE  RecoveryIsTimed'
<1>1. RecoveryIsTimed /\ timer \in BOOLEAN /\ quitting \in BOOLEAN
  BY DEF NoticeIInv, NoticeTypeOK, NoticesAddUp
<1>2. CASE UNCHANGED <<recoveries, timer, quitting>>
  BY <1>1, <1>2 DEF RecoveryIsTimed
<1>3. ASSUME NEW k \in Key, MergeRecovery(k) PROVE RecoveryIsTimed'
  BY <1>3 DEF MergeRecovery, RecoveryIsTimed
<1>4. CASE TimerFires \/ Quit
  BY <1>4 DEF TimerFires, Quit, RecoveryIsTimed
<1>5. CASE UNCHANGED noticeVars
  BY <1>2, <1>5 DEF noticeVars
<1> QED
  BY <1>2, <1>3, <1>4, <1>5 DEF NoticeNext, StartsJob, KeepaliveSuccess, AttemptFails, Ends,
     ClearProgress, Recovers, ClearThenNotify, FindNotifier, Notify, HandOver, Toggle

\* The progress keeps to the keys of running probes, or of those that are settled or left.
LEMMA ProgressKept ==
  ASSUME NoticeIInv, [NoticeNext]_noticeVars
  PROVE  ProgressIsRunning' /\ SettledOrLeft'
<1> DEFINE Fine(k) == /\ watch[k] \in {"none", "keepalive", "notify"} => k \in clearing \cup left
<1>1. /\ progress \in Sums /\ watch \in [Key -> {"none", "probe", "keepalive", "recovering",
                                                "merging", "clear", "merge", "notify"}]
      /\ clearing \subseteq Key /\ left \subseteq Key
  BY DEF NoticeIInv, NoticeTypeOK
<1>2. \A k \in Named(progress) : k \in Key /\ Fine(k)
  BY DEF NoticeIInv, NoticesAddUp, ProgressIsRunning, SettledOrLeft, Named
<1>3. SUFFICES ASSUME NEW j \in Key, progress'.targets[j] > 0
               PROVE  watch'[j] \in {"none", "keepalive", "notify"} => j \in clearing' \cup left'
  BY DEF ProgressIsRunning, SettledOrLeft, Named
<1>4. ASSUME progress' = progress PROVE j \in Named(progress) /\ Fine(j)
  BY <1>2, <1>3, <1>4 DEF Named
<1>5. ASSUME NEW k \in Key, progress' = Cleared(progress, k)
      PROVE  j # k /\ j \in Named(progress) /\ Fine(j)
  <2>1. j \in Named(Cleared(progress, k))
    BY <1>3, <1>5 DEF Named
  <2> QED
    BY <1>1, <1>2, <2>1, ClearedAdds
<1>6. ASSUME NEW k \in Key, progress' = Added(progress, k), j # k
      PROVE  j \in Named(progress) /\ Fine(j)
  <2>1. Added(progress, k).targets[j] = progress.targets[j]
    BY <1>1, <1>6, AddedAdds
  <2> QED
    BY <1>2, <1>3, <1>6, <2>1 DEF Named
<1>7. progress' # Nothing
  BY <1>3 DEF Nothing
<1> DEFINE Goal == watch'[j] \in {"none", "keepalive", "notify"} => j \in clearing' \cup left'
<1>8. ASSUME NEW k \in Key, NEW mode \in {"probe", "keepalive"}, StartsJob(k, mode) PROVE Goal
  BY <1>1, <1>4, <1>8 DEF StartsJob
<1>9. ASSUME NEW k \in Key, NEW due \in BOOLEAN, AttemptFails(k, due) PROVE Goal
  <2>1. \/ progress' = Cleared(progress, k) \/ progress' = Added(progress, k)
    BY <1>7, <1>9 DEF AttemptFails, RecordProgress
  <2>2. CASE j = k
    BY <1>1, <1>9, <2>2 DEF AttemptFails
  <2>3. CASE j # k
    <3>1. Fine(j)
      BY <1>5, <1>6, <2>1, <2>3
    <3> QED
      BY <1>1, <1>9, <2>3, <3>1 DEF AttemptFails
  <2> QED
    BY <2>2, <2>3
<1>10. ASSUME NEW k \in Key, Ends(k) PROVE Goal
  BY <1>1, <1>4, <1>10 DEF Ends
<1>11. ASSUME NEW k \in Key, ClearProgress(k) PROVE Goal
  <2>1. j # k /\ Fine(j)
    BY <1>5, <1>11 DEF ClearProgress
  <2> QED
    BY <1>1, <1>11, <2>1 DEF ClearProgress
<1>12. ASSUME NEW k \in Key, ClearThenNotify(k) PROVE Goal
  <2>1. j # k /\ Fine(j)
    BY <1>5, <1>12 DEF ClearThenNotify
  <2> QED
    BY <1>1, <1>12, <2>1 DEF ClearThenNotify
<1>13. ASSUME NEW k \in Key, MergeRecovery(k) PROVE Goal
  <2>1. j # k /\ Fine(j)
    BY <1>5, <1>13 DEF MergeRecovery
  <2> QED
    BY <1>1, <1>13, <2>1 DEF MergeRecovery
<1>14. ASSUME NEW k \in Key, Recovers(k) \/ FindNotifier(k) \/ Notify(k) PROVE Goal
  BY <1>1, <1>4, <1>14 DEF Recovers, FindNotifier, Notify
<1>15. ASSUME Quit PROVE Goal
  BY <1>7, <1>15 DEF Quit
<1>16. CASE UNCHANGED <<watch, clearing, progress, left>>
  BY <1>4, <1>16
<1>17. ASSUME UNCHANGED noticeVars PROVE Goal
  BY <1>16, <1>17 DEF noticeVars
<1>18. ASSUME NEW k \in Key, NEW due \in BOOLEAN, KeepaliveSuccess(k, due) PROVE Goal
  BY <1>16, <1>18 DEF KeepaliveSuccess
<1>19. ASSUME NEW i \in 1..Len(handing), HandOver(i) PROVE Goal
  BY <1>16, <1>19 DEF HandOver
<1>20. ASSUME TimerFires PROVE Goal
  BY <1>16, <1>20 DEF TimerFires
<1>21. ASSUME NEW switch \in Switches, Toggle(switch) PROVE Goal
  BY <1>16, <1>21 DEF Toggle
<1>22. Goal
  <2> HIDE DEF Goal
  <2> QED
    BY <1>8, <1>9, <1>10, <1>11, <1>12, <1>13, <1>14, <1>15, <1>17, <1>18, <1>19, <1>20, <1>21
       DEF NoticeNext
<1> QED
  BY <1>22

\* Every recovery stays told once, waiting, on its way or lost: the account of its key
\* moves with the counter, with what is handed over and with the job of the key.
LEMMA AccountsKept ==
  ASSUME NoticeIInv, [NoticeNext]_noticeVars
  PROVE  EachToldOnce'
<1>1. /\ watch \in [Key -> {"none", "probe", "keepalive", "recovering", "merging", "clear",
                           "merge", "notify"}]
      /\ recoveries \in Sums /\ handing \in Seq(Sums) /\ owed \in [Key -> Nat]
      /\ NoticeTypeOK /\ EachToldOnce
  BY DEF NoticeIInv, NoticeTypeOK, NoticesAddUp
<1>2. SUFFICES ASSUME NEW j \in Key
               PROVE  owed'[j] = recoveries'.targets[j] + InHand(j)' + Underway(j)'
  BY DEF EachToldOnce
<1> DEFINE Goal == owed'[j] = recoveries'.targets[j] + InHand(j)' + Underway(j)'
<1>3. /\ owed[j] \in Nat /\ recoveries.targets[j] \in Nat /\ InHand(j) \in Nat
      /\ Underway(j) \in {0, 1}
      /\ owed[j] = recoveries.targets[j] + InHand(j) + Underway(j)
  <2>1. InHand(j) \in Nat
    BY <1>1, InHandIsNat
  <2> QED
    BY <1>1, <2>1 DEF Sums, Underway, EachToldOnce
<1>4. /\ watch[j] \in {"merging", "clear", "merge", "notify"} => Underway(j) = 1
      /\ watch[j] \notin {"merging", "clear", "merge", "notify"} => Underway(j) = 0
      /\ watch'[j] \in {"merging", "clear", "merge", "notify"} => Underway(j)' = 1
      /\ watch'[j] \notin {"merging", "clear", "merge", "notify"} => Underway(j)' = 0
  BY DEF Underway
<1>5. handing' = handing => InHand(j)' = InHand(j)
  BY DEF InHand
<1>6. CASE UNCHANGED <<recoveries, handing, owed>> /\ Underway(j)' = Underway(j)
  BY <1>3, <1>5, <1>6
<1>7. Nothing.targets[j] = 0
  BY DEF Nothing
<1>8. ASSUME NEW k \in Key,
             \/ \E mode \in {"probe", "keepalive"} : StartsJob(k, mode)
             \/ \E due \in BOOLEAN : AttemptFails(k, due)
             \/ Ends(k) \/ ClearThenNotify(k) \/ FindNotifier(k)
      PROVE  Goal
  <2>1. /\ UNCHANGED <<recoveries, handing, owed>>
        /\ \A i \in Key \ {k} : watch'[i] = watch[i]
        /\ watch[k] \in {"merging", "clear", "merge", "notify"}
             <=> watch'[k] \in {"merging", "clear", "merge", "notify"}
    BY <1>1, <1>8 DEF StartsJob, AttemptFails, Ends, ClearThenNotify, FindNotifier
  <2>2. Underway(j)' = Underway(j)
    BY <1>4, <2>1
  <2> QED
    BY <1>6, <2>1, <2>2
<1>9. ASSUME UNCHANGED <<watch, recoveries, handing, owed>> PROVE Goal
  BY <1>4, <1>6, <1>9
<1>10. ASSUME NEW k \in Key, Recovers(k) PROVE Goal
  <2>1. /\ UNCHANGED <<recoveries, handing>>
        /\ watch[k] = "recovering" /\ watch'[k] \in {"merging", "clear"} /\ owed'[k] = owed[k] + 1
        /\ \A i \in Key \ {k} : watch'[i] = watch[i] /\ owed'[i] = owed[i]
    BY <1>1, <1>10 DEF Recovers
  <2>2. CASE j = k
    <3>1. Underway(j) = 0 /\ Underway(j)' = 1
      BY <1>4, <2>1, <2>2
    <3> QED
      BY <1>3, <1>5, <2>1, <2>2, <3>1
  <2>3. CASE j # k
    <3>1. Underway(j)' = Underway(j)
      BY <1>4, <2>1, <2>3
    <3> QED
      BY <1>3, <1>5, <2>1, <2>3, <3>1
  <2> QED
    BY <2>2, <2>3
<1>11. ASSUME NEW k \in Key, Notify(k) PROVE Goal
  <2>1. /\ UNCHANGED <<recoveries, handing>>
        /\ watch[k] = "notify" /\ watch'[k] = "keepalive" /\ owed'[k] = owed[k] - 1
        /\ \A i \in Key \ {k} : watch'[i] = watch[i] /\ owed'[i] = owed[i]
    BY <1>1, <1>11 DEF Notify
  <2>2. CASE j = k
    <3>1. Underway(j) = 1 /\ Underway(j)' = 0
      BY <1>4, <2>1, <2>2
    <3> QED
      BY <1>3, <1>5, <2>1, <2>2, <3>1
  <2>3. CASE j # k
    <3>1. Underway(j)' = Underway(j)
      BY <1>4, <2>1, <2>3
    <3> QED
      BY <1>3, <1>5, <2>1, <2>3, <3>1
  <2> QED
    BY <2>2, <2>3
<1>12. ASSUME NEW k \in Key, MergeRecovery(k) PROVE Goal
  <2>1. PICK r : r = Added(recoveries, k)
    OBVIOUS
  <2>2. /\ \A i \in Key \ {k} : r.targets[i] = recoveries.targets[i]
        /\ r.targets[k] = recoveries.targets[k] \/ r.targets[k] = recoveries.targets[k] + 1
    BY <1>1, <2>1, AddedAdds
  <2>3. /\ recoveries' = r /\ handing' = handing
        /\ watch[k] = "merge" /\ watch'[k] = "keepalive"
        /\ \A i \in Key \ {k} : watch'[i] = watch[i] /\ owed'[i] = owed[i]
        /\ owed'[k] = IF r.targets[k] > recoveries.targets[k] THEN owed[k] ELSE owed[k] - 1
    BY <1>1, <1>12, <2>1 DEF MergeRecovery
  <2>4. CASE j = k
    <3>1. Underway(j) = 1 /\ Underway(j)' = 0
      BY <1>4, <2>3, <2>4
    <3> QED
      BY <1>3, <1>5, <2>2, <2>3, <2>4, <3>1
  <2>5. CASE j # k
    <3>1. Underway(j)' = Underway(j)
      BY <1>4, <2>3, <2>5
    <3> QED
      BY <1>3, <1>5, <2>2, <2>3, <2>5, <3>1
  <2> QED
    BY <2>4, <2>5
<1>13. ASSUME NEW i \in 1..Len(handing), HandOver(i) PROVE Goal
  <2>1. PICK s : s = handing
    OBVIOUS
  <2>2. PICK t : t = RemoveAt(handing, i)
    OBVIOUS
  <2>3. InHand(j) = SumOf([n \in 1..Len(s) |-> s[n].targets[j]])
    BY <2>1 DEF InHand
  <2>4. InHand(j)' = SumOf([n \in 1..Len(t) |-> t[n].targets[j]])
    BY <1>13, <2>2 DEF InHand, HandOver
  <2>5. InHand(j)' = InHand(j) - handing[i].targets[j]
    BY <1>1, <2>1, <2>2, <2>3, <2>4, InHandShrinks
  <2>6. handing[i] \in Sums
    BY <1>1
  <2>7. handing[i].targets[j] \in Nat
    BY <2>6 DEF Sums
  <2>8. /\ owed'[j] = owed[j] - handing[i].targets[j]
        /\ recoveries' = recoveries /\ watch' = watch
    BY <1>13 DEF HandOver
  <2>9. Underway(j)' = Underway(j)
    BY <1>4, <2>8
  <2>10. PICK n : n = handing[i].targets[j]
    OBVIOUS
  <2>11. n \in Nat /\ owed'[j] = owed[j] - n /\ InHand(j)' = InHand(j) - n
    BY <2>5, <2>7, <2>8, <2>10
  <2> QED
    BY <1>3, <2>8, <2>9, <2>11
<1>14. ASSUME TimerFires PROVE Goal
  <2>1. recoveries' = Nothing /\ watch' = watch
    BY <1>14 DEF TimerFires
  <2>2. Underway(j)' = Underway(j)
    BY <1>4, <2>1
  <2>3. CASE quitting
    <3>1. owed'[j] = owed[j] - recoveries.targets[j] /\ handing' = handing
      BY <1>14, <2>3 DEF TimerFires
    <3> QED
      BY <1>3, <1>5, <1>7, <2>1, <2>2, <3>1
  <2>4. CASE ~quitting /\ Named(recoveries) = {}
    <3>1. owed' = owed /\ handing' = handing
      BY <1>14, <2>4 DEF TimerFires
    <3>2. recoveries.targets[j] = 0
      BY <1>3, <2>4 DEF Named
    <3> QED
      BY <1>3, <1>5, <1>7, <2>1, <2>2, <3>1, <3>2
  <2>5. CASE ~quitting /\ Named(recoveries) # {}
    <3>1. owed' = owed /\ handing' = Append(handing, recoveries)
      BY <1>14, <2>5 DEF TimerFires
    <3>2. PICK s : s = handing
      OBVIOUS
    <3>3. PICK t : t = Append(handing, recoveries)
      OBVIOUS
    <3>4. InHand(j) = SumOf([n \in 1..Len(s) |-> s[n].targets[j]])
      BY <3>2 DEF InHand
    <3>5. InHand(j)' = SumOf([n \in 1..Len(t) |-> t[n].targets[j]])
      BY <3>1, <3>3 DEF InHand
    <3>6. PICK r : r = recoveries
      OBVIOUS
    <3>7. s \in Seq(Sums) /\ r \in Sums /\ t = Append(s, r)
      BY <1>1, <3>2, <3>3, <3>6
    <3>8. SumOf([n \in 1..Len(t) |-> t[n].targets[j]])
            = SumOf([n \in 1..Len(s) |-> s[n].targets[j]]) + r.targets[j]
      BY <3>7, InHandGrows
    <3>9. InHand(j)' = InHand(j) + recoveries.targets[j]
      BY <3>4, <3>5, <3>6, <3>8
    <3> QED
      BY <1>3, <1>7, <2>1, <2>2, <3>1, <3>9
  <2> QED
    BY <2>3, <2>4, <2>5
<1>15. ASSUME Quit PROVE Goal
  <2>1. /\ recoveries' = Nothing /\ handing' = handing /\ watch' = watch
        /\ owed'[j] = owed[j] - recoveries.targets[j]
    BY <1>15 DEF Quit
  <2>2. Underway(j)' = Underway(j)
    BY <1>4, <2>1
  <2> QED
    BY <1>3, <1>5, <1>7, <2>1, <2>2
<1>16. ASSUME NEW k \in Key,
              ClearProgress(k) \/ \E due \in BOOLEAN : KeepaliveSuccess(k, due)
       PROVE  Goal
  BY <1>9, <1>16 DEF ClearProgress, KeepaliveSuccess
<1>17. ASSUME NEW switch \in Switches, Toggle(switch) PROVE Goal
  BY <1>9, <1>17 DEF Toggle
<1>18. ASSUME UNCHANGED noticeVars PROVE Goal
  BY <1>9, <1>18 DEF noticeVars
<1>19. Goal
  <2> HIDE DEF Goal
  <2> QED
    BY <1>8, <1>10, <1>11, <1>12, <1>13, <1>14, <1>15, <1>16, <1>17, <1>18 DEF NoticeNext
<1> QED
  BY <1>19

\* Every step keeps the invariant.
LEMMA NoticesKept == NoticeIInv /\ [NoticeNext]_noticeVars => NoticeIInv'
  BY NoticeTypesKept, TotalsKept, TimerKept, ProgressKept, AccountsKept
     DEF NoticeIInv, NoticesAddUp

\* It holds all the time.
LEMMA NoticesInductive == NoticeSpec => []NoticeIInv
<1>1. NoticeInit => NoticeIInv
  BY NoticesStart
<1>2. NoticeIInv /\ [NoticeNext]_noticeVars => NoticeIInv'
  BY NoticesKept
<1> QED
  BY <1>1, <1>2, PTL DEF NoticeSpec

\* Whoever records, clears, merges, flushes or shuts down meanwhile, the counters, the
\* messages and the jobs keep their types (jobs/notifications.go).
THEOREM NoticeTypes == NoticeSpec => []NoticeTypeOK
<1>1. NoticeIInv => NoticeTypeOK
  BY DEF NoticeIInv
<1> QED
  BY <1>1, NoticesInductive, PTL

\* For any jobs and any limit of targets, every total is the sum of what is listed and what
\* was only counted; a recovery that waits has its timer, and is told once or lost once; the
\* progress lists running probes, or what a keepalive left (jobs/notifications.go).
THEOREM NoticesCorrect == NoticeSpec => []NoticesAddUp
<1>1. NoticeIInv => NoticesAddUp
  BY DEF NoticeIInv
<1> QED
  BY <1>1, NoticesInductive, PTL
=============================================================================
