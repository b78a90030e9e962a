----------------------------- MODULE StoreProofs -----------------------------
(***************************************************************************)
(* Theorems about the Redis store: the copies of its tables (RedisCache),  *)
(* its start (StoreOpen) and the event ledger (EventLedger), the last two  *)
(* below.  They share no state.                                            *)
(*                                                                         *)
(* The copies, for any number of writes and any limit of the summaries.    *)
(* That the copy agrees with Redis between two writes is not inductive: a  *)
(* write is between two writes only at its ends.  What carries it is that  *)
(* the copy of every other table agrees meanwhile (Others), that nothing   *)
(* is changed before Redis answers (Sent), and that what the writer is     *)
(* about to put into the copy is what Redis holds (Trimming, Copying) --   *)
(* for a row whatever the copy was before, for the list of summaries only  *)
(* if the copy was right.  A command on a row that is not there writes     *)
(* nothing because such a row is blank (AbsentIsBlank), and a row that is  *)
(* there is told from it by its number (Numbered).                         *)
(***************************************************************************)
EXTENDS RedisCache, StoreOpen, EventLedger, FiniteSetTheorems, SequenceTheorems,
        NaturalsInduction, WellFoundedInduction, TLAPS

\* A record of the tables, whatever they hold.
Shaped(x) == x = [t \in Tables |-> x[t]]

WriterTyped ==
  /\ writer = [op |-> writer.op, at |-> writer.at, value |-> writer.value]
  /\ writer.at = "idle" => writer = NoWrite
  /\ writer.at # "idle" => writer.op \in Ops
  /\ writer.at = "trim" => writer.op = "SaveSummary"
  /\ writer.at \in {"idle", "redis", "trim", "cache"}

Agrees(t) == t \in unsure \/ cache[t] = db[t]

\* The tables nobody writes, and the written one until Redis has answered.
Others == \A t \in Tables : writer.at \in {"idle", "redis"} \/ t # TableOf(writer.op) => Agrees(t)

\* The list in Redis is the one of the copy with the summary in front of it.
Trimming ==
  writer.at = "trim" =>
    \/ "summaries" \in unsure
    \/ db.summaries = Newest(cache.summaries, [id |-> writer.value, v |-> writes])

\* What the copy is about to be given.
Copying ==
  writer.at = "cache" =>
    LET t == TableOf(writer.op) IN
      \/ t = "summaries" /\ t \in unsure
      \/ db[t] = Cached(writer.op, writes, writer.value, cache[t])

Agreement ==
  /\ Shaped(db) /\ Shaped(cache) /\ WriterTyped
  /\ Others /\ Trimming /\ Copying

\* A row that is not there has no mark and no key left, so that deleting it again
\* changes nothing; a row that is there has a number.
AbsentIsBlank ==
  /\ db.schedule = [rule |-> db.schedule.rule, mark |-> db.schedule.mark]
  /\ db.schedule.rule = 0 => db.schedule.mark = 0
  /\ db.manual = [row |-> db.manual.row, key |-> db.manual.key]
  /\ db.manual.row = 0 => db.manual.key = 0

Numbered ==
  /\ writes \in Nat
  /\ writer.at # "idle" => writes # 0
  /\ writer.op = "UpsertManualProvider" =>
       writer.value = [row |-> writes, key |-> writer.value.key]

CacheIInv == Agreement /\ AbsentIsBlank /\ Numbered
-----------------------------------------------------------------------------
\* Every operation writes one of the tables.
LEMMA TableOfOps ==
  ASSUME NEW op \in Ops
  PROVE  /\ TableOf(op) \in Tables
         /\ TableOf(op) = "summaries" <=> op = "SaveSummary"
BY DEF Ops, TableOf, Tables

\* One table is written, the others are left.
LEMMA Replaced ==
  ASSUME NEW x, Shaped(x), NEW t \in Tables, NEW v, NEW y, y = [x EXCEPT ![t] = v]
  PROVE  Shaped(y) /\ y[t] = v /\ \A u \in Tables \ {t} : y[u] = x[u]
BY DEF Shaped

\* What a writer other than of a script or of the list knows does not depend on
\* what was there before.
LEMMA WrittenIsKnown ==
  ASSUME NEW op \in Ops \ {"SaveSummary", "UpsertSchedule", "MarkScheduleRun"},
         NEW n, NEW value, NEW a, NEW b
  PROVE  Written(op, n, value, a) = Written(op, n, value, b)
BY DEF Ops, Written

\* writeMu is taken.
LEMMA BeginKeeps ==
  ASSUME CacheIInv, NEW op \in Ops, NEW values, BeginWrite(op, values)
  PROVE  Agreement'
<1>1. PICK value \in values : writer' = [op |-> op, at |-> "redis", value |-> value]
  BY DEF BeginWrite
<1>2. writer = NoWrite /\ UNCHANGED <<db, cache, unsure>>
  BY DEF BeginWrite
<1>3. WriterTyped'
  BY <1>1 DEF WriterTyped
<1>4. Others'
  BY <1>1, <1>2 DEF CacheIInv, Agreement, Others, Agrees, NoWrite
<1> QED
  BY <1>1, <1>2, <1>3, <1>4 DEF CacheIInv, Agreement, Shaped, Trimming, Copying

\* Redis answers: the list is trimmed next, or the copy is brought up to date.
LEMMA CommitKeeps ==
  ASSUME CacheIInv, Commit
  PROVE  Agreement'
<1> DEFINE t == TableOf(writer.op)
<1>1. /\ writer.at = "redis" /\ writer.op \in Ops /\ t \in Tables
      /\ db' = [db EXCEPT ![t] = After] /\ UNCHANGED <<cache, writes, unsure>>
  BY TableOfOps DEF Commit, CacheIInv, Agreement, WriterTyped
<1>2. Shaped(db') /\ db'[t] = After /\ \A u \in Tables \ {t} : db'[u] = db[u]
  BY <1>1 DEF CacheIInv, Agreement, Shaped
<1>3. \A u \in Tables : Agrees(u)
  BY <1>1 DEF CacheIInv, Agreement, Others
<1>4. CASE NoSuchRow(writer.op)
  <2>1. writer' = NoWrite
    BY <1>4 DEF Commit
  <2>2. After = db[t]
    <3>1. CASE writer.op = "MarkScheduleRun"
      <4>1. t = "schedule" /\ db.schedule.rule = 0
        BY <1>4, <3>1 DEF NoSuchRow, TableOf
      <4> QED
        BY <3>1, <4>1 DEF After, Written, MarkedSchedule
    <3>2. CASE writer.op = "DeleteSchedule"
      <4>1. t = "schedule" /\ db.schedule.rule = 0
        BY <1>4, <3>2 DEF NoSuchRow, TableOf
      <4> QED
        BY <3>2, <4>1 DEF After, Written, CacheIInv, AbsentIsBlank
    <3>3. CASE writer.op = "DeleteManualProvider"
      <4>1. t = "manual" /\ db.manual.row = 0
        BY <1>4, <3>3 DEF NoSuchRow, TableOf
      <4> QED
        BY <3>3, <4>1 DEF After, Written, CacheIInv, AbsentIsBlank
    <3> QED
      BY <1>4, <3>1, <3>2, <3>3 DEF NoSuchRow
  <2> QED
    BY <1>1, <1>2, <1>3, <2>1, <2>2
       DEF CacheIInv, Agreement, Shaped, WriterTyped, NoWrite, Others, Agrees, Trimming, Copying
<1>5. CASE ~NoSuchRow(writer.op)
  <2>1. /\ writer' = [writer EXCEPT !.at = IF writer.op = "SaveSummary" THEN "trim" ELSE "cache"]
        /\ writer'.op = writer.op /\ writer'.value = writer.value
        /\ writer'.at = (IF writer.op = "SaveSummary" THEN "trim" ELSE "cache")
    BY <1>5 DEF Commit, CacheIInv, Agreement, WriterTyped
  <2>2. WriterTyped'
    BY <1>1, <2>1 DEF CacheIInv, Agreement, WriterTyped
  <2>3. Others'
    BY <1>1, <1>2, <1>3, <2>1 DEF Others, Agrees
  <2>4. Trimming'
    <3>1. CASE writer.op = "SaveSummary"
      <4>1. t = "summaries" /\ "summaries" \in Tables
        BY <3>1 DEF TableOf, Tables
      <4>2. db'.summaries = Newest(db.summaries, [id |-> writer.value, v |-> writes])
        BY <1>2, <3>1, <4>1 DEF After, Written
      <4> QED
        BY <1>1, <1>3, <2>1, <4>1, <4>2 DEF Trimming, Agrees
    <3> QED
      BY <2>1, <3>1 DEF Trimming
  <2>5. Copying'
    <3>1. CASE writer.op \in {"UpsertSchedule", "MarkScheduleRun"}
      <4>1. TableOf(writer'.op) = "schedule" /\ t = "schedule"
        BY <2>1, <3>1 DEF TableOf
      <4> QED
        BY <2>1, <3>1, <4>1 DEF Copying, Cached
    <3>2. CASE writer.op \in Ops \ {"SaveSummary", "UpsertSchedule", "MarkScheduleRun"}
      <4>1. db'[t] = Written(writer.op, writes, writer.value, cache[t])
        BY <1>2, <3>2, WrittenIsKnown DEF After
      <4>2. Cached(writer.op, writes, writer.value, cache[t])'
              = Written(writer.op, writes, writer.value, cache[t])
        BY <1>1, <2>1, <3>2 DEF Cached, Written
      <4> QED
        BY <1>1, <2>1, <4>1, <4>2 DEF Copying
    <3> QED
      BY <1>1, <2>1, <3>1, <3>2 DEF Copying
  <2> QED
    BY <1>1, <1>2, <2>2, <2>3, <2>4, <2>5 DEF CacheIInv, Agreement, Shaped
<1> QED
  BY <1>4, <1>5

\* Nothing was done.
LEMMA RefusedKeeps ==
  ASSUME CacheIInv, Refused
  PROVE  Agreement'
BY DEF Refused, CacheIInv, Agreement, Shaped, WriterTyped, NoWrite, Others, Agrees, Trimming,
       Copying

\* The table is written and the copy is not: from here on it is unsure.
LEMMA LostKeeps ==
  ASSUME CacheIInv, AnswerLost
  PROVE  Agreement'
<1> DEFINE t == TableOf(writer.op)
<1>1. /\ writer.at = "redis" /\ writer.op \in Ops /\ t \in Tables /\ writer' = NoWrite
      /\ db' = [db EXCEPT ![t] = After] /\ UNCHANGED <<cache, writes>>
      /\ unsure' = unsure \cup {t}
  BY TableOfOps DEF AnswerLost, CacheIInv, Agreement, WriterTyped
<1>2. Shaped(db') /\ \A u \in Tables \ {t} : db'[u] = db[u]
  BY <1>1 DEF CacheIInv, Agreement, Shaped
<1>3. Others'
  BY <1>1, <1>2 DEF CacheIInv, Agreement, Others, Agrees
<1> QED
  BY <1>1, <1>2, <1>3 DEF CacheIInv, Agreement, Shaped, WriterTyped, NoWrite, Trimming, Copying

\* The list is cut where the copy will be cut.
LEMMA TrimKeeps ==
  ASSUME CacheIInv, TrimSummaries
  PROVE  Agreement'
<1>1. /\ writer.at = "trim" /\ writer.op = "SaveSummary"
      /\ db' = [db EXCEPT !["summaries"] = Take(db.summaries, SummaryLimit)]
      /\ writer' = [writer EXCEPT !.at = "cache"] /\ UNCHANGED <<cache, writes, unsure>>
  BY DEF TrimSummaries, CacheIInv, Agreement, WriterTyped
<1>2. /\ Shaped(db') /\ db'.summaries = Take(db.summaries, SummaryLimit)
      /\ \A u \in Tables \ {"summaries"} : db'[u] = db[u]
  BY <1>1 DEF CacheIInv, Agreement, Shaped, Tables
<1>3. writer'.op = writer.op /\ writer'.value = writer.value /\ writer'.at = "cache"
  BY <1>1 DEF CacheIInv, Agreement, WriterTyped
<1>4. WriterTyped'
  BY <1>1, <1>3 DEF CacheIInv, Agreement, WriterTyped, Ops
<1>5. Others'
  BY <1>1, <1>2, <1>3 DEF CacheIInv, Agreement, Others, Agrees, TableOf
<1>6. Copying'
  BY <1>1, <1>2, <1>3 DEF CacheIInv, Agreement, Trimming, Copying, Cached, TableOf
<1> QED
  BY <1>1, <1>2, <1>3, <1>4, <1>5, <1>6 DEF CacheIInv, Agreement, Shaped, Trimming

\* A summary that is reported as not saved is one the copy may lack.
LEMMA TrimFailsKeeps ==
  ASSUME CacheIInv, TrimFails
  PROVE  Agreement'
<1>1. /\ writer.at = "trim" /\ writer.op = "SaveSummary" /\ writer' = NoWrite
      /\ \/ db' = db
         \/ db' = [db EXCEPT !["summaries"] = Take(db.summaries, SummaryLimit)]
      /\ unsure' = unsure \cup {"summaries"} /\ UNCHANGED <<cache, writes>>
  BY DEF TrimFails, CacheIInv, Agreement, WriterTyped
<1>2. Shaped(db') /\ \A u \in Tables \ {"summaries"} : db'[u] = db[u]
  BY <1>1 DEF CacheIInv, Agreement, Shaped, Tables
<1>3. Others'
  BY <1>1, <1>2 DEF CacheIInv, Agreement, Others, Agrees, TableOf
<1> QED
  BY <1>1, <1>2, <1>3 DEF CacheIInv, Agreement, Shaped, WriterTyped, NoWrite, Trimming, Copying

\* A row is right again; a list that was right stays right.
LEMMA UpdateKeeps ==
  ASSUME CacheIInv, UpdateCache
  PROVE  Agreement'
<1> DEFINE t == TableOf(writer.op)
<1>1. /\ writer.at = "cache" /\ writer.op \in Ops /\ t \in Tables /\ writer' = NoWrite
      /\ cache' = [cache EXCEPT ![t] = Cached(writer.op, writes, writer.value, cache[t])]
      /\ unsure' = (IF t = "summaries" THEN unsure ELSE unsure \ {t})
      /\ UNCHANGED <<db, writes>>
  BY TableOfOps DEF UpdateCache, CacheIInv, Agreement, WriterTyped
<1>2. /\ Shaped(cache') /\ \A u \in Tables \ {t} : cache'[u] = cache[u]
      /\ cache'[t] = Cached(writer.op, writes, writer.value, cache[t])
  BY <1>1 DEF CacheIInv, Agreement, Shaped
<1>3. Others'
  <2>1. ASSUME NEW u \in Tables
        PROVE  Agrees(u)'
    <3>1. CASE u = t
      BY <1>1, <1>2, <3>1 DEF CacheIInv, Agreement, Copying, Agrees
    <3>2. CASE u # t
      BY <1>1, <1>2, <3>2 DEF CacheIInv, Agreement, Others, Agrees
    <3> QED
      BY <3>1, <3>2
  <2> QED
    BY <2>1 DEF Others
<1> QED
  BY <1>1, <1>2, <1>3 DEF CacheIInv, Agreement, Shaped, WriterTyped, NoWrite, Trimming, Copying

\* Opening the store loads everything.
LEMMA RestartKeeps ==
  ASSUME CacheIInv, Restart
  PROVE  Agreement'
BY DEF Restart, CacheIInv, Agreement, Shaped, WriterTyped, NoWrite, Others, Agrees, Trimming,
       Copying

\* What a command makes of a row that is not there, or of one that is.
LEMMA AbsentStaysBlank ==
  ASSUME CacheIInv, [CacheNext]_cacheVars
  PROVE  AbsentIsBlank'
<1>1. CASE db' = db
  BY <1>1 DEF CacheIInv, AbsentIsBlank
<1>2. CASE db' # db
  <2>1. CASE Commit \/ AnswerLost
    <3>1. /\ writer.op \in Ops /\ db' = [db EXCEPT ![TableOf(writer.op)] = After]
          /\ TableOf(writer.op) \in Tables /\ writes # 0
      BY <2>1, TableOfOps DEF Commit, AnswerLost, CacheIInv, Agreement, WriterTyped, Numbered
    <3>2. /\ "schedule" \in DOMAIN db /\ "manual" \in DOMAIN db
          /\ DOMAIN db = Tables
      BY DEF CacheIInv, Agreement, Shaped, Tables
    <3>3. /\ db'.schedule = [rule |-> db'.schedule.rule, mark |-> db'.schedule.mark]
          /\ db'.schedule.rule = 0 => db'.schedule.mark = 0
      <4>1. CASE TableOf(writer.op) # "schedule"
        BY <3>1, <3>2, <4>1 DEF CacheIInv, AbsentIsBlank
      <4>2. CASE TableOf(writer.op) = "schedule"
        <5>1. writer.op \in {"UpsertSchedule", "MarkScheduleRun", "DeleteSchedule"}
          BY <3>1, <4>2 DEF Ops, TableOf
        <5>2. db'.schedule \in {SavedSchedule(db.schedule, writes),
                                MarkedSchedule(db.schedule, writes), [rule |-> 0, mark |-> 0]}
          BY <3>1, <3>2, <4>2, <5>1 DEF After, Written
        <5> QED
          BY <3>1, <5>2 DEF CacheIInv, AbsentIsBlank, SavedSchedule, MarkedSchedule
      <4> QED
        BY <4>1, <4>2
    <3>4. /\ db'.manual = [row |-> db'.manual.row, key |-> db'.manual.key]
          /\ db'.manual.row = 0 => db'.manual.key = 0
      <4>1. CASE TableOf(writer.op) # "manual"
        BY <3>1, <3>2, <4>1 DEF CacheIInv, AbsentIsBlank
      <4>2. CASE TableOf(writer.op) = "manual"
        <5>1. writer.op \in {"UpsertManualProvider", "DeleteManualProvider"}
          BY <3>1, <4>2 DEF Ops, TableOf
        <5>2. \/ db'.manual = writer.value /\ writer.op = "UpsertManualProvider"
              \/ db'.manual = [row |-> 0, key |-> 0]
          BY <3>1, <3>2, <4>2, <5>1 DEF After, Written
        <5> QED
          BY <3>1, <5>2 DEF CacheIInv, Numbered
      <4> QED
        BY <4>1, <4>2
    <3> QED
      BY <3>3, <3>4 DEF AbsentIsBlank
  <2>2. CASE TrimSummaries \/ TrimFails
    BY <2>2 DEF TrimSummaries, TrimFails, CacheIInv, Agreement, Shaped, Tables, AbsentIsBlank
  <2> QED
    BY <1>2, <2>1, <2>2
       DEF CacheNext, cacheVars, BeginWrite, UpsertSchedule, MarkScheduleRun, DeleteSchedule,
           SaveSummary, SaveSettings, UpsertManualProvider, DeleteManualProvider,
           ReplaceCCSwitchProviders, SaveDingTalkConfig, ClearDingTalkConfig, Refused,
           UpdateCache, Restart
<1> QED
  BY <1>1, <1>2

\* Writes are numbered from 1, and a provider's row carries the number.
LEMMA NumbersKeep ==
  ASSUME CacheIInv, [CacheNext]_cacheVars
  PROVE  Numbered'
<1>1. CASE \E op \in Ops \ {"UpsertManualProvider"}, values \in {{0}, SummaryId} :
             BeginWrite(op, values)
  <2>1. PICK op \in Ops \ {"UpsertManualProvider"} :
          \E value : /\ writer' = [op |-> op, at |-> "redis", value |-> value]
                     /\ writes' = writes + 1
    BY <1>1 DEF BeginWrite
  <2> QED
    BY <2>1 DEF CacheIInv, Numbered
<1>2. CASE UpsertManualProvider
  <2>1. PICK value \in UpsertValues :
          /\ writer' = [op |-> "UpsertManualProvider", at |-> "redis", value |-> value]
          /\ writes' = writes + 1
    BY <1>2 DEF UpsertManualProvider, BeginWrite
  <2>2. value = [row |-> writes + 1, key |-> value.key]
    BY DEF UpsertValues
  <2> QED
    BY <2>1, <2>2 DEF CacheIInv, Numbered
<1>3. CASE /\ writes' = writes
           /\ \/ writer' = writer \/ writer' = NoWrite
              \/ writer.at # "idle" /\ \E at : writer' = [writer EXCEPT !.at = at]
  BY <1>3 DEF CacheIInv, Agreement, WriterTyped, Numbered, NoWrite
<1>4. CASE \/ UpsertSchedule \/ MarkScheduleRun \/ DeleteSchedule \/ SaveSummary
           \/ SaveSettings \/ DeleteManualProvider
           \/ ReplaceCCSwitchProviders \/ SaveDingTalkConfig \/ ClearDingTalkConfig
  BY <1>1, <1>4 DEF Ops, UpsertSchedule, MarkScheduleRun, DeleteSchedule, SaveSummary,
                    SaveSettings, DeleteManualProvider, ReplaceCCSwitchProviders,
                    SaveDingTalkConfig, ClearDingTalkConfig
<1>5. CASE Commit \/ Refused \/ AnswerLost \/ TrimSummaries \/ TrimFails \/ UpdateCache \/ Restart
  BY <1>3, <1>5 DEF Commit, Refused, AnswerLost, TrimSummaries, TrimFails, UpdateCache, Restart
<1> QED
  BY <1>2, <1>3, <1>4, <1>5 DEF CacheNext, cacheVars

\* An empty database and an empty copy.
LEMMA CacheInitIInv ==
  ASSUME CacheInit
  PROVE  CacheIInv
<1>1. db = Empty /\ cache = Empty /\ writer = NoWrite /\ unsure = {} /\ writes = 0
  BY DEF CacheInit
<1>2. Shaped(Empty)
  BY DEF Shaped, Empty, Tables
<1> QED
  BY <1>1, <1>2 DEF CacheIInv, Agreement, AbsentIsBlank, Numbered, Empty, WriterTyped, NoWrite,
                    Others, Agrees, Trimming, Copying

\* Every step keeps the invariant.
LEMMA CacheNextIInv ==
  ASSUME CacheIInv, [CacheNext]_cacheVars
  PROVE  CacheIInv'
<1> SUFFICES Agreement'
  BY AbsentStaysBlank, NumbersKeep DEF CacheIInv
<1>1. CASE UNCHANGED cacheVars
  BY <1>1 DEF cacheVars, CacheIInv, Agreement, Shaped, WriterTyped, Others, Agrees, Trimming,
              Copying, After, Cached
<1>2. CASE \/ UpsertSchedule \/ MarkScheduleRun \/ DeleteSchedule \/ SaveSummary
           \/ SaveSettings \/ UpsertManualProvider \/ DeleteManualProvider
           \/ ReplaceCCSwitchProviders \/ SaveDingTalkConfig \/ ClearDingTalkConfig
  <2>1. PICK op \in Ops, values \in {{0}, SummaryId, UpsertValues} : BeginWrite(op, values)
    BY <1>2 DEF Ops, UpsertSchedule, MarkScheduleRun, DeleteSchedule, SaveSummary, SaveSettings,
                UpsertManualProvider, DeleteManualProvider, ReplaceCCSwitchProviders,
                SaveDingTalkConfig, ClearDingTalkConfig
  <2> QED
    BY <2>1, BeginKeeps
<1>3. CASE Commit
  BY <1>3, CommitKeeps
<1>4. CASE Refused
  BY <1>4, RefusedKeeps
<1>5. CASE AnswerLost
  BY <1>5, LostKeeps
<1>6. CASE TrimSummaries
  BY <1>6, TrimKeeps
<1>7. CASE TrimFails
  BY <1>7, TrimFailsKeeps
<1>8. CASE UpdateCache
  BY <1>8, UpdateKeeps
<1>9. CASE Restart
  BY <1>9, RestartKeeps
<1> QED
  BY <1>1, <1>2, <1>3, <1>4, <1>5, <1>6, <1>7, <1>8, <1>9 DEF CacheNext

\* The invariant of the specification.
LEMMA CacheInductive == CacheSpec => []CacheIInv
<1>1. CacheInit => CacheIInv
  BY CacheInitIInv
<1>2. CacheIInv /\ [CacheNext]_cacheVars => CacheIInv'
  BY CacheNextIInv
<1> QED
  BY <1>1, <1>2, PTL DEF CacheSpec

\* Between two writes readers are given what Redis holds, table by table, unless
\* the last effective write of the table was not answered (UpsertSchedule,
\* SaveSummary and the other writers of redis.go, which change the copy after the
\* answer).
THEOREM CacheCorrect == CacheSpec => []CacheFollowsRedis
<1>1. CacheIInv => CacheFollowsRedis
  BY DEF CacheIInv, Agreement, Others, Agrees, NoWrite, CacheFollowsRedis
<1> QED
  BY <1>1, CacheInductive, PTL

(***************************************************************************)
(* The types of the copies.                                                *)
(***************************************************************************)
\* What a table holds.
TableType(t) ==
  CASE t = "summaries" -> {s \in Summaries : EachOnce(s)}
    [] t = "schedule"  -> [rule : Stamp, mark : Stamp]
    [] t = "manual"    -> [row : Stamp, key : Stamp]
    [] OTHER           -> Stamp

\* What a request says.
ValueTyped ==
  /\ writer.at # "idle" /\ writer.op = "SaveSummary" => writer.value \in SummaryId
  /\ writer.at # "idle" /\ writer.op = "UpsertManualProvider" =>
       writer.value \in TableType("manual")

CacheTyped == CacheTypeOK /\ ValueTyped

\* The types, table by table.
LEMMA TypedTables ==
  ASSUME NEW x
  PROVE  x \in Contents /\ EachOnce(x.summaries)
           <=> Shaped(x) /\ \A t \in Tables : x[t] \in TableType(t)
<1>1. ASSUME x \in Contents, EachOnce(x.summaries)
      PROVE  Shaped(x) /\ \A t \in Tables : x[t] \in TableType(t)
  BY <1>1 DEF Contents, Shaped, Tables, TableType
<1>2. ASSUME Shaped(x), \A t \in Tables : x[t] \in TableType(t)
      PROVE  x \in Contents /\ EachOnce(x.summaries)
  <2>1. /\ x = [settings |-> x.settings, ccSwitch |-> x.ccSwitch, dingTalk |-> x.dingTalk,
                schedule |-> x.schedule, manual |-> x.manual, summaries |-> x.summaries]
        /\ x.settings \in TableType("settings") /\ x.ccSwitch \in TableType("ccSwitch")
        /\ x.dingTalk \in TableType("dingTalk") /\ x.schedule \in TableType("schedule")
        /\ x.manual \in TableType("manual") /\ x.summaries \in TableType("summaries")
    BY <1>2 DEF Shaped, Tables
  <2> QED
    BY <2>1 DEF Contents, TableType
<1> QED
  BY <1>1, <1>2

\* A row that goes to the front is there once.
LEMMA NewestTyped ==
  ASSUME NEW s, s \in Summaries, EachOnce(s), NEW e, e \in [id : SummaryId, v : Stamp],
         NEW r, r = Newest(s, e)
  PROVE  r \in Summaries /\ EachOnce(r)
<1> PICK V : V = [id : SummaryId, v : Stamp]
  OBVIOUS
<1>1. s \in Seq(V) /\ e \in V /\ Len(s) \in Nat /\ DOMAIN s = 1..Len(s)
  BY DEF Summaries
<1>2. SUFFICES ASSUME NEW t, t \in Seq(V), r = <<e>> \o t, EachOnce(t),
                      \A k \in 1..Len(t) : t[k].id # e.id
               PROVE  r \in Summaries /\ EachOnce(r)
  <2>1. CASE \E i \in DOMAIN s : s[i].id = e.id
    <3>1. PICK i : i = CHOOSE n \in DOMAIN s : s[n].id = e.id
      OBVIOUS
    <3>2. i \in 1..Len(s) /\ s[i].id = e.id
      BY <1>1, <2>1, <3>1
    <3>3. PICK t : t = RemoveAt(s, i)
      OBVIOUS
    <3>4. /\ t \in Seq(V) /\ Len(t) = Len(s) - 1
          /\ \A k \in 1..Len(t) : t[k] = IF k < i THEN s[k] ELSE s[k + 1]
      <4>1. t = SubSeq(s, 1, i - 1) \o SubSeq(s, i + 1, Len(s))
        BY <3>3 DEF RemoveAt
      <4>2. PICK a, b : a = SubSeq(s, 1, i - 1) /\ b = SubSeq(s, i + 1, Len(s))
        OBVIOUS
      <4>3. /\ a \in Seq(V) /\ Len(a) = i - 1 /\ \A k \in 1..(i - 1) : a[k] = s[k]
            /\ b \in Seq(V) /\ Len(b) = Len(s) - i /\ \A k \in 1..(Len(s) - i) : b[k] = s[i + k]
        <5>1. /\ 1 \in Int /\ i - 1 \in Int /\ i + 1 \in Int /\ Len(s) \in Int
              /\ i \in Int /\ 1 <= i /\ i <= Len(s)
          BY <1>1, <3>2
        <5>2. /\ \A k \in 1..(i - 1) : s[k] \in V
              /\ \A k \in (i + 1)..Len(s) : s[k] \in V
          <6>1. \A k \in 1..Len(s) : s[k] \in V
            BY <1>1, ElementOfSeq
          <6> QED
            BY <5>1, <6>1
        <5>3. /\ a \in Seq(V)
              /\ Len(a) = IF 1 <= i - 1 THEN i - 1 - 1 + 1 ELSE 0
              /\ \A k \in 1..(i - 1 - 1 + 1) : a[k] = s[1 + k - 1]
          BY <4>2, <5>1, <5>2, SubSeqProperties
        <5>4. /\ b \in Seq(V)
              /\ Len(b) = IF i + 1 <= Len(s) THEN Len(s) - (i + 1) + 1 ELSE 0
              /\ \A k \in 1..(Len(s) - (i + 1) + 1) : b[k] = s[i + 1 + k - 1]
          BY <4>2, <5>1, <5>2, SubSeqProperties
        <5> QED
          BY <5>1, <5>3, <5>4
      <4>4. /\ t \in Seq(V) /\ Len(t) = Len(a) + Len(b)
            /\ \A k \in 1..Len(t) : t[k] = IF k <= Len(a) THEN a[k] ELSE b[k - Len(a)]
        BY <4>1, <4>2, <4>3
      <4>5. Len(t) = Len(s) - 1
        BY <1>1, <3>2, <4>3, <4>4
      <4>6. ASSUME NEW k \in 1..Len(t)
            PROVE  t[k] = IF k < i THEN s[k] ELSE s[k + 1]
        <5>1. CASE k < i
          BY <1>1, <3>2, <4>3, <4>4, <5>1
        <5>2. CASE ~(k < i)
          <6>1. t[k] = b[k - (i - 1)] /\ k - (i - 1) \in 1..(Len(s) - i)
            BY <1>1, <3>2, <4>3, <4>4, <4>5, <5>2
          <6>2. i + (k - (i - 1)) = k + 1
            BY <3>2
          <6> QED
            BY <4>3, <5>2, <6>1, <6>2
        <5> QED
          BY <5>1, <5>2
      <4> QED
        BY <4>4, <4>5, <4>6
    <3>5. ASSUME NEW k \in 1..Len(t)
          PROVE  t[k].id # e.id
      <4>1. PICK n : n = (IF k < i THEN k ELSE k + 1)
        OBVIOUS
      <4>2. n \in 1..Len(s) /\ n # i /\ t[k] = s[n]
        BY <1>1, <3>2, <3>4, <4>1
      <4> QED
        BY <1>1, <3>2, <4>2 DEF EachOnce
    <3>6. EachOnce(t)
      <4>1. SUFFICES ASSUME NEW k \in 1..Len(t), NEW l \in 1..Len(t), t[k].id = t[l].id
                     PROVE  k = l
        BY <3>4 DEF EachOnce
      <4>2. PICK n, m : n = (IF k < i THEN k ELSE k + 1) /\ m = (IF l < i THEN l ELSE l + 1)
        OBVIOUS
      <4>3. n \in 1..Len(s) /\ m \in 1..Len(s) /\ t[k] = s[n] /\ t[l] = s[m]
        BY <1>1, <3>2, <3>4, <4>2
      <4>4. n = m
        BY <1>1, <4>1, <4>3 DEF EachOnce
      <4> QED
        BY <3>2, <4>2, <4>4
    <3>7. r = <<e>> \o t
      BY <2>1, <3>1, <3>3 DEF Newest
    <3> QED
      BY <1>2, <3>4, <3>5, <3>6, <3>7
  <2>2. CASE ~\E i \in DOMAIN s : s[i].id = e.id
    <3>1. r = <<e>> \o s
      BY <2>2 DEF Newest
    <3> QED
      BY <1>1, <1>2, <2>2, <3>1
  <2> QED
    BY <2>1, <2>2
<1>3. /\ r \in Seq(V) /\ Len(r) = Len(t) + 1 /\ r[1] = e /\ Len(t) \in Nat
      /\ \A k \in 2..Len(r) : r[k] = t[k - 1]
  BY <1>1, <1>2
<1>4. EachOnce(r)
  <2>1. SUFFICES ASSUME NEW k \in 1..Len(r), NEW l \in 1..Len(r), r[k].id = r[l].id
                 PROVE  k = l
    BY <1>3 DEF EachOnce
  <2>2. CASE k = 1 \/ l = 1
    BY <1>2, <1>3, <2>1, <2>2
  <2>3. CASE k # 1 /\ l # 1
    <3>1. /\ k - 1 \in 1..Len(t) /\ l - 1 \in 1..Len(t)
          /\ t[k - 1].id = t[l - 1].id
      BY <1>3, <2>1, <2>3
    <3>2. k - 1 = l - 1
      BY <1>2, <3>1 DEF EachOnce
    <3> QED
      BY <3>2
  <2> QED
    BY <2>2, <2>3
<1> QED
  BY <1>3, <1>4 DEF Summaries

\* A list that is cut has its rows once.
LEMMA TakeTyped ==
  ASSUME NEW s, s \in Summaries, EachOnce(s), NEW r, r = Take(s, SummaryLimit)
  PROVE  r \in Summaries /\ EachOnce(r)
<1> PICK V : V = [id : SummaryId, v : Stamp]
  OBVIOUS
<1>1. s \in Seq(V) /\ Len(s) \in Nat /\ DOMAIN s = 1..Len(s) /\ SummaryLimit \in Nat
  BY CacheAssumption DEF Summaries
<1>2. PICK n : n = IF Len(s) < SummaryLimit THEN Len(s) ELSE SummaryLimit
  OBVIOUS
<1>3. n \in 0..Len(s) /\ r = SubSeq(s, 1, n)
  BY <1>1, <1>2 DEF Take
<1>4. r \in Seq(V) /\ DOMAIN r = 1..n /\ \A k \in 1..n : r[k] = s[k]
  <2>1. 1 \in Int /\ n \in Int /\ n \in Nat /\ \A k \in 1..n : s[k] \in V
    <3>1. \A k \in 1..Len(s) : s[k] \in V
      BY <1>1, ElementOfSeq
    <3> QED
      BY <1>1, <1>3, <3>1
  <2>2. /\ r \in Seq(V)
        /\ Len(r) = IF 1 <= n THEN n - 1 + 1 ELSE 0
        /\ \A k \in 1..(n - 1 + 1) : r[k] = s[1 + k - 1]
    BY <1>3, <2>1, SubSeqProperties
  <2>3. Len(r) = n
    BY <2>1, <2>2
  <2> QED
    BY <2>1, <2>2, <2>3
<1>5. EachOnce(r)
  BY <1>1, <1>3, <1>4 DEF EachOnce
<1> QED
  BY <1>4, <1>5 DEF Summaries

\* What a command makes of its table has the table's type.
LEMMA WrittenTyped ==
  ASSUME NEW op \in Ops, NEW n \in Stamp, NEW value, NEW old \in TableType(TableOf(op)),
         op = "SaveSummary" => value \in SummaryId,
         op = "UpsertManualProvider" => value \in TableType("manual")
  PROVE  Written(op, n, value, old) \in TableType(TableOf(op))
<1>1. 0 \in Stamp
  BY CacheAssumption DEF Stamp
<1>2. CASE op = "SaveSummary"
  <2>1. old \in Summaries /\ EachOnce(old) /\ TableOf(op) = "summaries"
    BY <1>2 DEF TableOf, TableType
  <2>2. PICK e : e = [id |-> value, v |-> n]
    OBVIOUS
  <2>3. e \in [id : SummaryId, v : Stamp]
    BY <1>2, <2>2
  <2>4. Written(op, n, value, old) = Newest(old, e)
    BY <1>2, <2>2 DEF Written
  <2> QED
    BY <2>1, <2>3, <2>4, NewestTyped DEF TableType
<1>3. CASE op \in {"UpsertSchedule", "MarkScheduleRun", "DeleteSchedule"}
  BY <1>1, <1>3 DEF TableOf, TableType, Written, SavedSchedule, MarkedSchedule
<1>4. CASE op \in {"UpsertManualProvider", "DeleteManualProvider"}
  BY <1>1, <1>4 DEF TableOf, TableType, Written
<1>5. CASE op \in {"SaveDingTalkConfig", "ClearDingTalkConfig", "SaveSettings",
                   "ReplaceCCSwitchProviders"}
  BY <1>1, <1>5 DEF TableOf, TableType, Written
<1> QED
  BY <1>2, <1>3, <1>4, <1>5 DEF Ops

\* One table is written with something of its type.
LEMMA TableWritten ==
  ASSUME NEW x, x \in Contents, EachOnce(x.summaries), NEW t \in Tables, NEW v \in TableType(t),
         NEW y, y = [x EXCEPT ![t] = v]
  PROVE  y \in Contents /\ EachOnce(y.summaries)
<1>1. Shaped(x) /\ \A u \in Tables : x[u] \in TableType(u)
  BY TypedTables
<1>2. Shaped(y) /\ y[t] = v /\ \A u \in Tables \ {t} : y[u] = x[u]
  BY <1>1 DEF Shaped
<1>3. \A u \in Tables : y[u] \in TableType(u)
  BY <1>1, <1>2
<1> QED
  BY <1>2, <1>3, TypedTables

\* The command of a write that is on its way leaves what the table may hold.
LEMMA AfterTyped ==
  ASSUME CacheIInv, CacheTyped, writer.at = "redis"
  PROVE  /\ TableOf(writer.op) \in Tables
         /\ After \in TableType(TableOf(writer.op))
<1>1. writer.op \in Ops /\ writes \in Stamp
  BY DEF CacheIInv, Agreement, WriterTyped, CacheTyped, CacheTypeOK, Stamp
<1>2. TableOf(writer.op) \in Tables
  BY <1>1, TableOfOps
<1>3. db[TableOf(writer.op)] \in TableType(TableOf(writer.op))
  BY <1>2, TypedTables DEF CacheTyped, CacheTypeOK
<1> QED
  BY <1>1, <1>2, <1>3, WrittenTyped DEF After, CacheTyped, ValueTyped

\* What the copy is given has the table's type.
LEMMA CachedTyped ==
  ASSUME CacheIInv, CacheTyped, writer.at = "cache"
  PROVE  /\ TableOf(writer.op) \in Tables
         /\ Cached(writer.op, writes, writer.value, cache[TableOf(writer.op)])
              \in TableType(TableOf(writer.op))
<1> DEFINE t == TableOf(writer.op)
           w == Written(writer.op, writes, writer.value, cache[t])
<1>1. writer.op \in Ops /\ writes \in Stamp
  BY DEF CacheIInv, Agreement, WriterTyped, CacheTyped, CacheTypeOK, Stamp
<1>2. t \in Tables
  BY <1>1, TableOfOps
<1>3. \A u \in Tables : cache[u] \in TableType(u) /\ db[u] \in TableType(u)
  BY TypedTables DEF CacheTyped, CacheTypeOK
<1>4. w \in TableType(t)
  BY <1>1, <1>2, <1>3, WrittenTyped DEF CacheTyped, ValueTyped
<1>5. CASE writer.op = "SaveSummary"
  <2>1. t = "summaries"
    BY <1>5 DEF TableOf
  <2>2. w \in Summaries /\ EachOnce(w)
    BY <1>4, <2>1 DEF TableType
  <2>3. Cached(writer.op, writes, writer.value, cache[t]) = Take(w, SummaryLimit)
    BY <1>5 DEF Cached, Written
  <2> QED
    BY <1>2, <2>1, <2>2, <2>3, TakeTyped DEF TableType
<1>6. CASE writer.op \in {"UpsertSchedule", "MarkScheduleRun"}
  <2>1. t = "schedule"
    BY <1>6 DEF TableOf
  <2>2. Cached(writer.op, writes, writer.value, cache[t]) = db.schedule
    BY <1>6 DEF Cached
  <2> QED
    BY <1>2, <1>3, <2>1, <2>2
<1>7. CASE writer.op \in Ops \ {"SaveSummary", "UpsertSchedule", "MarkScheduleRun"}
  <2>1. Cached(writer.op, writes, writer.value, cache[t]) = w
    BY <1>7 DEF Cached
  <2> QED
    BY <1>2, <1>4, <2>1
<1> QED
  BY <1>1, <1>5, <1>6, <1>7

\* The list of Redis, cut or not.
LEMMA TrimmedTyped ==
  ASSUME CacheTyped, db' \in {db, [db EXCEPT !.summaries = Take(@, SummaryLimit)]}
  PROVE  db' \in Contents /\ EachOnce(db'.summaries)
<1>1. db \in Contents /\ EachOnce(db.summaries) /\ db.summaries \in Summaries
  BY DEF CacheTyped, CacheTypeOK, Contents
<1>2. CASE db' = db
  BY <1>1, <1>2
<1>3. CASE db' = [db EXCEPT !["summaries"] = Take(db.summaries, SummaryLimit)]
  <2>1. Take(db.summaries, SummaryLimit) \in TableType("summaries")
    BY <1>1, TakeTyped DEF TableType
  <2> QED
    BY <1>1, <1>3, <2>1, TableWritten DEF Tables
<1> QED
  BY <1>2, <1>3

\* A request says a summary's job, a provider's row, or nothing.
LEMMA BeginTyped ==
  ASSUME CacheIInv, CacheTyped, NEW op \in Ops, NEW values, BeginWrite(op, values),
         op = "SaveSummary" => values = SummaryId,
         op = "UpsertManualProvider" => values = UpsertValues
  PROVE  CacheTyped'
<1>1. PICK value \in values : writer' = [op |-> op, at |-> "redis", value |-> value]
  BY DEF BeginWrite
<1>2. /\ UNCHANGED <<db, cache, unsure>>
      /\ writes < MaxWrites /\ writes' = writes + 1 /\ writes \in 0..MaxWrites
  BY DEF BeginWrite, CacheTyped, CacheTypeOK
<1>3. writes' \in 0..MaxWrites /\ writes' \in Stamp /\ 0 \in Stamp
  BY <1>2, CacheAssumption DEF Stamp
<1>4. CacheTypeOK'
  BY <1>1, <1>2, <1>3 DEF CacheTyped, CacheTypeOK
<1>5. ASSUME op = "UpsertManualProvider"
      PROVE  value \in TableType("manual")
  <2>1. cache.manual.key \in Stamp
    BY DEF CacheTyped, CacheTypeOK, Contents
  <2>2. PICK k : k \in Stamp /\ value = [row |-> writes', key |-> k]
    BY <1>1, <1>2, <1>3, <1>5, <2>1 DEF UpsertValues
  <2> QED
    BY <1>3, <2>2 DEF TableType
<1>6. ValueTyped'
  BY <1>1, <1>5 DEF ValueTyped, TableType, Stamp
<1> QED
  BY <1>4, <1>6 DEF CacheTyped

\* An empty store has its types.
LEMMA CacheInitTyped ==
  ASSUME CacheInit
  PROVE  CacheTyped
<1>1. 0 \in Stamp /\ 0 \in 0..MaxWrites
  BY CacheAssumption DEF Stamp
<1>2. Empty \in Contents /\ EachOnce(Empty.summaries)
  <2>1. <<>> \in Summaries /\ EachOnce(<<>>)
    BY DEF Summaries, EachOnce
  <2> QED
    BY <1>1, <2>1 DEF Empty, Contents
<1> QED
  BY <1>1, <1>2 DEF CacheInit, CacheTyped, CacheTypeOK, ValueTyped, NoWrite

\* Every step keeps the types.
LEMMA CacheNextTyped ==
  ASSUME CacheIInv, CacheTyped, [CacheNext]_cacheVars
  PROVE  CacheTyped'
<1>1. CASE UNCHANGED cacheVars
  BY <1>1 DEF cacheVars, CacheTyped, CacheTypeOK, ValueTyped, TableType, Stamp
<1>2. CASE \/ UpsertSchedule \/ MarkScheduleRun \/ DeleteSchedule \/ SaveSummary
           \/ SaveSettings \/ UpsertManualProvider \/ DeleteManualProvider
           \/ ReplaceCCSwitchProviders \/ SaveDingTalkConfig \/ ClearDingTalkConfig
  <2>1. PICK op \in Ops, values \in {{0}, SummaryId, UpsertValues} :
          /\ BeginWrite(op, values)
          /\ op = "SaveSummary" => values = SummaryId
          /\ op = "UpsertManualProvider" => values = UpsertValues
    BY <1>2 DEF Ops, UpsertSchedule, MarkScheduleRun, DeleteSchedule, SaveSummary, SaveSettings,
                UpsertManualProvider, DeleteManualProvider, ReplaceCCSwitchProviders,
                SaveDingTalkConfig, ClearDingTalkConfig
  <2> QED
    BY <2>1, BeginTyped
<1>3. ASSUME db' \in Contents, EachOnce(db'.summaries), UNCHANGED <<cache, writes>>,
             \/ writer' = NoWrite
             \/ writer.at # "idle" /\ \E at \in {"trim", "cache"} : writer' = [writer EXCEPT !.at = at],
             unsure' \subseteq Tables
      PROVE  CacheTyped'
  BY <1>3 DEF CacheTyped, CacheTypeOK, ValueTyped, TableType, Stamp, NoWrite, CacheIInv, Agreement,
              WriterTyped
<1>4. CASE Commit
  <2>1. db' \in Contents /\ EachOnce(db'.summaries)
    BY <1>4, AfterTyped, TableWritten DEF Commit, CacheTyped, CacheTypeOK
  <2> QED
    BY <1>3, <1>4, <2>1 DEF Commit, CacheTyped, CacheTypeOK
<1>5. CASE Refused
  BY <1>3, <1>5 DEF Refused, CacheTyped, CacheTypeOK
<1>6. CASE AnswerLost
  <2>1. db' \in Contents /\ EachOnce(db'.summaries)
    BY <1>6, AfterTyped, TableWritten DEF AnswerLost, CacheTyped, CacheTypeOK
  <2>2. unsure' \subseteq Tables
    BY <1>6, AfterTyped DEF AnswerLost, CacheTyped, CacheTypeOK
  <2> QED
    BY <1>3, <1>6, <2>1, <2>2 DEF AnswerLost
<1>7. CASE TrimSummaries
  BY <1>3, <1>7, TrimmedTyped DEF TrimSummaries, CacheTyped, CacheTypeOK
<1>8. CASE TrimFails
  BY <1>3, <1>8, TrimmedTyped DEF TrimFails, CacheTyped, CacheTypeOK, Tables
<1>9. CASE UpdateCache
  <2>1. cache' \in Contents /\ EachOnce(cache'.summaries)
    BY <1>9, CachedTyped, TableWritten DEF UpdateCache, CacheTyped, CacheTypeOK
  <2>2. UNCHANGED <<db, writes>> /\ writer' = NoWrite /\ unsure' \subseteq unsure
    BY <1>9 DEF UpdateCache
  <2> QED
    BY <2>1, <2>2 DEF CacheTyped, CacheTypeOK, ValueTyped, NoWrite
<1>10. CASE Restart
  BY <1>10 DEF Restart, CacheTyped, CacheTypeOK, ValueTyped, NoWrite
<1> QED
  BY <1>1, <1>2, <1>4, <1>5, <1>6, <1>7, <1>8, <1>9, <1>10 DEF CacheNext

\* Whatever is written, refused, lost or trimmed, the tables and their copies keep their
\* types, and both lists of summaries have one row of a job (redis.go, SaveSummary).
THEOREM CacheTypes == CacheSpec => []CacheTypeOK
<1>1. CacheInit => CacheTyped
  BY CacheInitTyped
<1>2. CacheIInv /\ CacheTyped /\ [CacheNext]_cacheVars => CacheTyped'
  BY CacheNextTyped
<1>3. CacheTyped => CacheTypeOK
  BY DEF CacheTyped
<1> QED
  BY <1>1, <1>2, <1>3, CacheInductive, PTL DEF CacheSpec
-----------------------------------------------------------------------------
(***************************************************************************)
(* Opening the store, for any source and any number of starts.             *)
(*                                                                         *)
(* What is there under the marker (ImportedOnce) is there because each     *)
(* step leaves its rows copied up to the one it has reached, whatever an   *)
(* attempt before has copied (SchedulesCopied, SummariesCopied,            *)
(* EventsCopied), and no step goes on before the last row; that nothing is *)
(* lost of what users do is because nothing is imported under the marker   *)
(* and nobody comes to work without it (InOrder).  Until then the events   *)
(* of Redis are the source's, so their highest number is its last.         *)
(***************************************************************************)
Importing == {"source", "settings", "schedules", "summarySeq", "summaryRow", "events", "sums",
              "finish"}
Imported == {"retired", "seed", "prewarm", "open"}

OpenTyped ==
  /\ redis = [schema |-> redis.schema, marker |-> redis.marker, settings |-> redis.settings,
              schedules |-> redis.schedules, summarySeq |-> redis.summarySeq,
              summaries |-> redis.summaries, events |-> redis.events, seq |-> redis.seq,
              bytes |-> redis.bytes, examples |-> redis.examples]
  /\ redis.schema \in {0, 1} /\ redis.marker \in BOOLEAN /\ redis.examples \in BOOLEAN
  /\ redis.settings \in {"none", "default", "source", "user"}
  /\ redis.schedules \subseteq ToSet(SourceSchedules)
  /\ redis.summarySeq \in Nat
  /\ redis.summaries \in [DOMAIN redis.summaries -> Nat]
  /\ DOMAIN redis.summaries \subseteq ToSet(SourceSummaries)
  /\ redis.events \in [DOMAIN redis.events -> {"old", "new"}]
  /\ DOMAIN redis.events \subseteq 1..MaxEvent
  /\ redis.seq \in 0..MaxEvent /\ redis.bytes \in Nat
  /\ pc \in [at : OpenPlaces, n : Nat, maxId : Nat, total : Nat]
  /\ starts \in 0..MaxStarts /\ saved \in BOOLEAN /\ misread \in BOOLEAN

\* The order of the steps: nothing is imported under the marker, and nothing
\* comes after the import without it.
InOrder ==
  /\ pc.at \in Importing => ~redis.marker
  /\ pc.at \in Imported => redis.marker
  /\ pc.at \notin {"down", "ping", "schema"} => redis.schema = 1
  /\ pc.at \in {"seed", "prewarm", "open"} => ~redis.examples
  /\ saved => redis.settings = "user" /\ redis.marker

\* The first n rows are copied.
SchedulesTo(n) == \A i \in 1..n : SourceSchedules[i] \in redis.schedules

SchedulesCopied ==
  /\ pc.at = "schedules" => pc.n <= Len(SourceSchedules) /\ SchedulesTo(pc.n)
  /\ redis.marker \/ pc.at \in {"summarySeq", "summaryRow", "events", "sums", "finish"}
       => SchedulesTo(Len(SourceSchedules))

\* The n oldest summaries are copied, in their order.
Oldest(i) == Reverse(SourceSummaries)[i]

SummariesTo(n) ==
  /\ \A i \in 1..n : Oldest(i) \in DOMAIN redis.summaries
  /\ \A i, j \in 1..n : i < j => redis.summaries[Oldest(i)] < redis.summaries[Oldest(j)]

SummariesCopied ==
  /\ ~redis.marker => \A x \in DOMAIN redis.summaries :
       /\ redis.summaries[x] <= redis.summarySeq
       /\ pc.at = "summaryRow" => redis.summaries[x] < redis.summarySeq
  /\ pc.at \in {"summarySeq", "summaryRow"} =>
       pc.n <= Len(SourceSummaries) /\ SummariesTo(pc.n)
  /\ pc.at = "summaryRow" => pc.n < Len(SourceSummaries)
  /\ redis.marker \/ pc.at \in {"events", "sums", "finish"}
       => SummariesTo(Len(SourceSummaries))

EventsCopied ==
  /\ ~redis.marker => /\ DOMAIN redis.events \subseteq 1..SourceEvents
                      /\ \A id \in DOMAIN redis.events : redis.events[id] = "old"
  /\ pc.at = "events" =>
       /\ pc.n <= SourceEvents
       /\ \A id \in 1..SourceEvents : id > SourceEvents - pc.n => id \in DOMAIN redis.events
  /\ redis.marker \/ pc.at \in {"sums", "finish"} => 1..SourceEvents \subseteq DOMAIN redis.events
  /\ pc.at = "finish" =>
       /\ pc.maxId <= SourceEvents
       /\ misread \/ (pc.maxId = SourceEvents /\ pc.total = SourceEvents)
  /\ redis.marker /\ ~misread =>
       /\ DOMAIN redis.events = 1..redis.seq /\ SourceEvents <= redis.seq
       /\ redis.bytes = redis.seq
       /\ \A id \in 1..SourceEvents : redis.events[id] = "old"

OpenIInv == OpenTyped /\ InOrder /\ SchedulesCopied /\ SummariesCopied /\ EventsCopied

-----------------------------------------------------------------------------
\* A new step of the start-up has its place and nothing behind it.
LEMMA Starts ==
  ASSUME NEW p \in OpenPlaces, pc' = Start(p)
  PROVE  /\ pc' \in [at : OpenPlaces, n : Nat, maxId : Nat, total : Nat]
         /\ pc'.at = p /\ pc'.n = 0 /\ pc'.maxId = 0 /\ pc'.total = 0
BY DEF Start

\* Nothing is imported or opened yet, or nothing more: Redis stays as it is.
LEMMA MovesKeep ==
  ASSUME OpenIInv, redis' = redis, misread' = misread, saved' = saved,
         starts' \in 0..MaxStarts, NEW p \in OpenPlaces, pc' = Start(p),
         \/ p = "down" \/ p = "ping" \/ p = "schema"
         \/ /\ redis.schema = 1
            /\ \/ p = "marker"
               \/ p \in {"source", "settings"} /\ ~redis.marker
               \/ p = "retired" /\ redis.marker
               \/ p = "open" /\ redis.marker /\ ~redis.examples
  PROVE  OpenIInv'
<1>1. /\ pc' \in [at : OpenPlaces, n : Nat, maxId : Nat, total : Nat]
      /\ pc'.at = p /\ pc'.n = 0
  BY Starts
<1>2. OpenTyped'
  BY <1>1 DEF OpenIInv, OpenTyped
<1>3. InOrder'
  BY <1>1 DEF OpenIInv, InOrder, Importing, Imported
<1>4. SchedulesCopied'
  BY <1>1 DEF OpenIInv, SchedulesCopied, SchedulesTo
<1>5. SummariesCopied'
  BY <1>1 DEF OpenIInv, SummariesCopied, SummariesTo
<1>6. EventsCopied'
  BY <1>1 DEF OpenIInv, EventsCopied
<1> QED
  BY <1>2, <1>3, <1>4, <1>5, <1>6 DEF OpenIInv

\* The schema is written once more.
LEMMA InitializeSchemaKeeps ==
  ASSUME OpenIInv, InitializeSchema
  PROVE  OpenIInv'
<1>1. /\ redis' = [redis EXCEPT !.schema = 1] /\ pc' = Start("marker")
      /\ UNCHANGED <<starts, saved, misread>>
  BY DEF InitializeSchema, Then, SameHistory
<1>2. /\ redis' = [schema |-> 1, marker |-> redis.marker, settings |-> redis.settings,
                   schedules |-> redis.schedules, summarySeq |-> redis.summarySeq,
                   summaries |-> redis.summaries, events |-> redis.events, seq |-> redis.seq,
                   bytes |-> redis.bytes, examples |-> redis.examples]
  BY <1>1 DEF OpenIInv, OpenTyped
<1>3. /\ pc' \in [at : OpenPlaces, n : Nat, maxId : Nat, total : Nat]
      /\ pc'.at = "marker"
  BY <1>1, Starts DEF OpenPlaces
<1>4. OpenTyped'
  BY <1>1, <1>2, <1>3 DEF OpenIInv, OpenTyped
<1> QED
  BY <1>1, <1>2, <1>3, <1>4
     DEF OpenIInv, InOrder, Importing, Imported, SchedulesCopied, SchedulesTo,
         SummariesCopied, SummariesTo, EventsCopied

\* The settings of the source are copied: nobody has saved any.
LEMMA CopySettingsKeeps ==
  ASSUME OpenIInv, CopySettings
  PROVE  OpenIInv'
<1>1. /\ redis' = [redis EXCEPT !.settings = "source"] /\ pc' = Start("schedules")
      /\ UNCHANGED <<starts, saved, misread>> /\ ~redis.marker /\ redis.schema = 1
  BY DEF CopySettings, Then, SameHistory, OpenIInv, InOrder, Importing
<1>2. /\ redis' = [schema |-> redis.schema, marker |-> redis.marker, settings |-> "source",
                   schedules |-> redis.schedules, summarySeq |-> redis.summarySeq,
                   summaries |-> redis.summaries, events |-> redis.events, seq |-> redis.seq,
                   bytes |-> redis.bytes, examples |-> redis.examples]
  BY <1>1 DEF OpenIInv, OpenTyped
<1>3. /\ pc' \in [at : OpenPlaces, n : Nat, maxId : Nat, total : Nat]
      /\ pc'.at = "schedules" /\ pc'.n = 0
  BY <1>1, Starts DEF OpenPlaces
<1>4. OpenTyped'
  BY <1>1, <1>2, <1>3 DEF OpenIInv, OpenTyped
<1>5. SchedulesCopied'
  BY <1>1, <1>2, <1>3, ImportAssumption DEF SchedulesCopied, SchedulesTo
<1> QED
  BY <1>1, <1>2, <1>3, <1>4, <1>5
     DEF OpenIInv, InOrder, Importing, Imported, SummariesCopied, EventsCopied

\* One more schedule, or all of them are there.
LEMMA CopyScheduleKeeps ==
  ASSUME OpenIInv, CopySchedule
  PROVE  OpenIInv'
<1>1. /\ pc.at = "schedules" /\ UNCHANGED <<starts, saved, misread>>
      /\ ~redis.marker /\ redis.schema = 1 /\ ~saved
      /\ pc.n \in Nat /\ pc.n <= Len(SourceSchedules) /\ SchedulesTo(pc.n)
      /\ Len(SourceSchedules) \in Nat
      /\ \A i \in 1..Len(SourceSchedules) : SourceSchedules[i] \in ToSet(SourceSchedules)
  <2>1. pc.n \in Nat
    BY DEF OpenIInv, OpenTyped
  <2>2. Len(SourceSchedules) \in Nat
        /\ \A i \in 1..Len(SourceSchedules) : SourceSchedules[i] \in ToSet(SourceSchedules)
    BY ImportAssumption
  <2> QED
    BY <2>1, <2>2 DEF CopySchedule, SameHistory, OpenIInv, InOrder, Importing, SchedulesCopied
<1>2. CASE pc.n = Len(SourceSchedules) /\ redis' = redis /\ pc' = Start("summarySeq")
  <2>1. /\ pc' \in [at : OpenPlaces, n : Nat, maxId : Nat, total : Nat]
        /\ pc'.at = "summarySeq" /\ pc'.n = 0
    BY <1>2, Starts DEF OpenPlaces
  <2>2. OpenTyped'
    BY <1>1, <1>2, <2>1 DEF OpenIInv, OpenTyped
  <2>3. SchedulesCopied'
    BY <1>1, <1>2, <2>1 DEF SchedulesCopied, SchedulesTo
  <2>4. SummariesCopied'
    <3>1. Len(SourceSummaries) \in Nat
      BY ImportAssumption
    <3> QED
      BY <1>1, <1>2, <2>1, <3>1 DEF OpenIInv, SummariesCopied, SummariesTo
  <2> QED
    BY <1>1, <1>2, <2>1, <2>2, <2>3, <2>4 DEF OpenIInv, InOrder, Importing, Imported, EventsCopied
<1>3. CASE /\ pc.n # Len(SourceSchedules)
           /\ redis' = [redis EXCEPT !.schedules = @ \cup {SourceSchedules[pc.n + 1]}]
           /\ pc' = [pc EXCEPT !.n = @ + 1]
  <2>1. /\ redis' = [schema |-> redis.schema, marker |-> redis.marker,
                     settings |-> redis.settings,
                     schedules |-> redis.schedules \cup {SourceSchedules[pc.n + 1]},
                     summarySeq |-> redis.summarySeq,
                     summaries |-> redis.summaries, events |-> redis.events, seq |-> redis.seq,
                     bytes |-> redis.bytes, examples |-> redis.examples]
    BY <1>3 DEF OpenIInv, OpenTyped
  <2>2. /\ pc' \in [at : OpenPlaces, n : Nat, maxId : Nat, total : Nat]
        /\ pc'.at = "schedules" /\ pc'.n = pc.n + 1
    BY <1>1, <1>3 DEF OpenIInv, OpenTyped
  <2>3. pc.n + 1 \in 1..Len(SourceSchedules)
    BY <1>1, <1>3
  <2>4. OpenTyped'
    BY <1>1, <2>1, <2>2, <2>3 DEF OpenIInv, OpenTyped
  <2>5. SchedulesCopied'
    BY <1>1, <2>1, <2>2, <2>3 DEF SchedulesCopied, SchedulesTo
  <2> QED
    BY <1>1, <2>1, <2>2, <2>4, <2>5
       DEF OpenIInv, InOrder, Importing, Imported, SummariesCopied, EventsCopied
<1> QED
  BY <1>2, <1>3 DEF CopySchedule, Then, NextRow

-----------------------------------------------------------------------------
\* The oldest summary is the last of the source.
LEMMA OldestRows ==
  /\ Len(SourceSummaries) \in Nat
  /\ \A i \in 1..Len(SourceSummaries) :
       /\ Oldest(i) = SourceSummaries[Len(SourceSummaries) - i + 1]
       /\ Oldest(i) \in ToSet(SourceSummaries)
  /\ \A i, j \in 1..Len(SourceSummaries) : Oldest(i) = Oldest(j) => i = j
<1>1. /\ Len(SourceSummaries) \in Nat
      /\ DOMAIN SourceSummaries = 1..Len(SourceSummaries)
      /\ \A i \in 1..Len(SourceSummaries) : SourceSummaries[i] \in ToSet(SourceSummaries)
      /\ \A i, j \in 1..Len(SourceSummaries) : SourceSummaries[i] = SourceSummaries[j] => i = j
  BY ImportAssumption DEF IsInjective
<1>2. ASSUME NEW i \in 1..Len(SourceSummaries)
      PROVE  /\ Oldest(i) = SourceSummaries[Len(SourceSummaries) - i + 1]
             /\ Len(SourceSummaries) - i + 1 \in 1..Len(SourceSummaries)
  BY <1>1 DEF Oldest, Reverse
<1>3. ASSUME NEW i \in 1..Len(SourceSummaries), NEW j \in 1..Len(SourceSummaries),
             Oldest(i) = Oldest(j)
      PROVE  i = j
  <2>1. Len(SourceSummaries) - i + 1 = Len(SourceSummaries) - j + 1
    BY <1>1, <1>2, <1>3
  <2> QED
    BY <1>1, <2>1
<1> QED
  BY <1>1, <1>2, <1>3

\* A number above all that were given, also in an earlier attempt.
LEMMA TakeSummaryNumberKeeps ==
  ASSUME OpenIInv, TakeSummaryNumber
  PROVE  OpenIInv'
<1>1. /\ pc.at = "summarySeq" /\ UNCHANGED <<starts, saved, misread>>
      /\ ~redis.marker /\ redis.schema = 1 /\ ~saved
      /\ pc.n \in Nat /\ pc.n <= Len(SourceSummaries) /\ SummariesTo(pc.n)
      /\ Len(SourceSummaries) \in Nat /\ redis.summarySeq \in Nat
      /\ SchedulesTo(Len(SourceSchedules))
  <2>1. pc.n \in Nat /\ redis.summarySeq \in Nat
    BY DEF OpenIInv, OpenTyped
  <2> QED
    BY <2>1, OldestRows
       DEF TakeSummaryNumber, SameHistory, OpenIInv, InOrder, Importing, SummariesCopied,
           SchedulesCopied
<1>2. CASE pc.n = Len(SourceSummaries) /\ redis' = redis /\ pc' = Start("events")
  <2>1. /\ pc' \in [at : OpenPlaces, n : Nat, maxId : Nat, total : Nat]
        /\ pc'.at = "events" /\ pc'.n = 0
    BY <1>2, Starts DEF OpenPlaces
  <2>2. OpenTyped'
    BY <1>1, <1>2, <2>1 DEF OpenIInv, OpenTyped
  <2>3. SchedulesCopied'
    BY <1>1, <1>2, <2>1 DEF SchedulesCopied, SchedulesTo
  <2>4. SummariesCopied'
    BY <1>1, <1>2, <2>1 DEF OpenIInv, SummariesCopied, SummariesTo
  <2>5. EventsCopied'
    <3>1. SourceEvents - 0 = SourceEvents /\ \A id \in 1..SourceEvents : ~(id > SourceEvents)
      BY ImportAssumption
    <3> QED
      BY <1>1, <1>2, <2>1, <3>1, ImportAssumption DEF OpenIInv, EventsCopied
  <2> QED
    BY <1>1, <1>2, <2>1, <2>2, <2>3, <2>4, <2>5 DEF OpenIInv, InOrder, Importing, Imported
<1>3. CASE /\ pc.n # Len(SourceSummaries)
           /\ redis' = [redis EXCEPT !.summarySeq = @ + 1]
           /\ pc' = [pc EXCEPT !.at = "summaryRow"]
  <2>1. /\ redis' = [schema |-> redis.schema, marker |-> redis.marker,
                     settings |-> redis.settings, schedules |-> redis.schedules,
                     summarySeq |-> redis.summarySeq + 1,
                     summaries |-> redis.summaries, events |-> redis.events, seq |-> redis.seq,
                     bytes |-> redis.bytes, examples |-> redis.examples]
    BY <1>3 DEF OpenIInv, OpenTyped
  <2>2. /\ pc' \in [at : OpenPlaces, n : Nat, maxId : Nat, total : Nat]
        /\ pc'.at = "summaryRow" /\ pc'.n = pc.n
    BY <1>1, <1>3 DEF OpenIInv, OpenTyped, OpenPlaces
  <2>3. OpenTyped'
    BY <1>1, <2>1, <2>2 DEF OpenIInv, OpenTyped
  <2>4. SummariesCopied'
    <3>1. \A x \in DOMAIN redis.summaries :
             redis.summaries[x] \in Nat /\ redis.summaries[x] <= redis.summarySeq
      BY <1>1 DEF OpenIInv, OpenTyped, SummariesCopied
    <3>2. \A x \in DOMAIN redis.summaries : redis.summaries[x] < redis.summarySeq + 1
      BY <1>1, <3>1
    <3>3. \A x \in DOMAIN redis.summaries : redis.summaries[x] <= redis.summarySeq + 1
      BY <1>1, <3>1
    <3> QED
      BY <1>1, <1>3, <2>1, <2>2, <3>2, <3>3 DEF SummariesCopied, SummariesTo
  <2>5. SchedulesCopied'
    BY <1>1, <2>1, <2>2 DEF SchedulesCopied, SchedulesTo
  <2> QED
    BY <1>1, <2>1, <2>2, <2>3, <2>4, <2>5
       DEF OpenIInv, InOrder, Importing, Imported, EventsCopied
<1> QED
  BY <1>2, <1>3 DEF TakeSummaryNumber, Then

\* The values keep their type.
LEMMA FieldIsTyped ==
  ASSUME NEW f, NEW x, NEW V, NEW v \in V, f \in [DOMAIN f -> V]
  PROVE  HSet(f, x, v) \in [DOMAIN HSet(f, x, v) -> V]
BY DEF HSet

\* The summary moves behind those already copied.
LEMMA CopySummaryKeeps ==
  ASSUME OpenIInv, CopySummary
  PROVE  OpenIInv'
<1> DEFINE row == Oldest(pc.n + 1)
           new == HSet(redis.summaries, row, redis.summarySeq)
<1>1. /\ pc.at = "summaryRow" /\ UNCHANGED <<starts, saved, misread>>
      /\ ~redis.marker /\ redis.schema = 1 /\ ~saved
      /\ pc.n \in Nat /\ pc.n < Len(SourceSummaries) /\ SummariesTo(pc.n)
      /\ Len(SourceSummaries) \in Nat /\ redis.summarySeq \in Nat
      /\ SchedulesTo(Len(SourceSchedules))
  <2>1. pc.n \in Nat /\ redis.summarySeq \in Nat
    BY DEF OpenIInv, OpenTyped
  <2> QED
    BY <2>1, OldestRows
       DEF CopySummary, SameHistory, OpenIInv, InOrder, Importing, SummariesCopied,
           SchedulesCopied
<1>2. /\ redis' = [schema |-> redis.schema, marker |-> redis.marker,
                   settings |-> redis.settings, schedules |-> redis.schedules,
                   summarySeq |-> redis.summarySeq,
                   summaries |-> new, events |-> redis.events, seq |-> redis.seq,
                   bytes |-> redis.bytes, examples |-> redis.examples]
  BY DEF OpenIInv, OpenTyped, CopySummary, Oldest
<1>3. /\ pc' \in [at : OpenPlaces, n : Nat, maxId : Nat, total : Nat]
      /\ pc'.at = "summarySeq" /\ pc'.n = pc.n + 1
  <2>1. pc \in [at : OpenPlaces, n : Nat, maxId : Nat, total : Nat]
    BY DEF OpenIInv, OpenTyped
  <2>2. pc' = [pc EXCEPT !.at = "summarySeq", !.n = @ + 1]
    BY DEF CopySummary
  <2>3. pc' = [at |-> "summarySeq", n |-> pc.n + 1, maxId |-> pc.maxId, total |-> pc.total]
    BY <2>1, <2>2
  <2> QED
    BY <1>1, <2>1, <2>3 DEF OpenPlaces
<1>4. /\ pc.n + 1 \in 1..Len(SourceSummaries) /\ row \in ToSet(SourceSummaries)
      /\ \A i \in 1..pc.n : i \in 1..Len(SourceSummaries) /\ Oldest(i) # row
  <2>1. pc.n + 1 \in 1..Len(SourceSummaries)
    BY <1>1
  <2>2. \A i \in 1..pc.n : i \in 1..Len(SourceSummaries) /\ i # pc.n + 1
    BY <1>1
  <2> QED
    BY <2>1, <2>2, OldestRows
<1>5. /\ redis.summaries \in [DOMAIN redis.summaries -> Nat]
      /\ DOMAIN redis.summaries \subseteq ToSet(SourceSummaries)
  BY DEF OpenIInv, OpenTyped
<1> HIDE DEF row
<1>6. /\ DOMAIN new = {row} \cup DOMAIN redis.summaries /\ new[row] = redis.summarySeq
      /\ \A y \in DOMAIN redis.summaries : y # row => new[y] = redis.summaries[y]
  BY DEF HSet
<1>7. new \in [DOMAIN new -> Nat]
  BY <1>1, <1>5, FieldIsTyped
<1> HIDE DEF new
<1>8. OpenTyped'
  <2>1. DOMAIN new \subseteq ToSet(SourceSummaries)
    BY <1>4, <1>5, <1>6
  <2> QED
    BY <1>1, <1>2, <1>3, <1>7, <2>1 DEF OpenIInv, OpenTyped
<1>9. \A x \in DOMAIN redis.summaries :
        redis.summaries[x] \in Nat /\ redis.summaries[x] < redis.summarySeq
  BY <1>1, <1>5 DEF OpenIInv, SummariesCopied
<1>10. SummariesCopied'
  <2>1. \A x \in DOMAIN new : new[x] <= redis.summarySeq
    BY <1>1, <1>6, <1>9
  <2>2. \A i \in 1..pc.n : Oldest(i) \in DOMAIN redis.summaries
    BY <1>1 DEF SummariesTo
  <2>3. \A i \in 1..pc.n : Oldest(i) \in DOMAIN new /\ new[Oldest(i)] = redis.summaries[Oldest(i)]
    BY <1>4, <1>6, <2>2
  <2>4. \A i \in 1..pc.n + 1 : i \in 1..pc.n \/ i = pc.n + 1
    BY <1>1
  <2>5. \A i \in 1..pc.n + 1 : Oldest(i) \in DOMAIN new
    BY <1>6, <2>3, <2>4 DEF row
  <2>6. ASSUME NEW i \in 1..pc.n + 1, NEW j \in 1..pc.n + 1, i < j
        PROVE  new[Oldest(i)] < new[Oldest(j)]
    <3>1. i \in 1..pc.n
      BY <1>1, <2>6
    <3>2. CASE j \in 1..pc.n
      BY <1>1, <2>3, <2>6, <3>1, <3>2 DEF SummariesTo
    <3>3. CASE j = pc.n + 1
      BY <1>6, <1>9, <2>2, <2>3, <3>1, <3>3 DEF row
    <3> QED
      BY <2>4, <3>2, <3>3
  <2>7. pc.n + 1 <= Len(SourceSummaries)
    BY <1>1
  <2> QED
    BY <1>1, <1>2, <1>3, <2>1, <2>5, <2>6, <2>7 DEF SummariesCopied, SummariesTo, Oldest
<1>11. SchedulesCopied'
  BY <1>1, <1>2, <1>3 DEF SchedulesCopied, SchedulesTo
<1> QED
  BY <1>1, <1>2, <1>3, <1>8, <1>10, <1>11
     DEF OpenIInv, InOrder, Importing, Imported, EventsCopied

-----------------------------------------------------------------------------
(***************************************************************************)
(* Events, their sums and the marker.                                      *)
(***************************************************************************)
\* One more event, or all of them are there.
LEMMA CopyEventKeeps ==
  ASSUME OpenIInv, CopyEvent
  PROVE  OpenIInv'
<1> DEFINE id == SourceEvents - pc.n
           new == HSet(redis.events, id, "old")
<1>1. /\ pc.at = "events" /\ UNCHANGED <<starts, saved, misread>>
      /\ ~redis.marker /\ redis.schema = 1 /\ ~saved
      /\ pc \in [at : OpenPlaces, n : Nat, maxId : Nat, total : Nat]
      /\ pc.n \in Nat /\ pc.n <= SourceEvents /\ SourceEvents \in Nat
      /\ MaxEvent \in Nat /\ SourceEvents <= MaxEvent
      /\ \A e \in 1..SourceEvents : e > SourceEvents - pc.n => e \in DOMAIN redis.events
      /\ DOMAIN redis.events \subseteq 1..SourceEvents
      /\ \A e \in DOMAIN redis.events : redis.events[e] = "old"
      /\ redis.events \in [DOMAIN redis.events -> {"old", "new"}]
  <2>1. /\ pc.n \in Nat /\ redis.events \in [DOMAIN redis.events -> {"old", "new"}]
        /\ pc \in [at : OpenPlaces, n : Nat, maxId : Nat, total : Nat]
    BY DEF OpenIInv, OpenTyped
  <2> QED
    BY <2>1, ImportAssumption
       DEF CopyEvent, SameHistory, OpenIInv, InOrder, Importing, EventsCopied
<1>2. CASE pc.n = SourceEvents /\ redis' = redis /\ pc' = Start("sums")
  <2>1. /\ pc' \in [at : OpenPlaces, n : Nat, maxId : Nat, total : Nat]
        /\ pc'.at = "sums" /\ pc'.n = 0
    BY <1>2, Starts DEF OpenPlaces
  <2>2. OpenTyped'
    BY <1>1, <1>2, <2>1 DEF OpenIInv, OpenTyped
  <2>3. \A e \in 1..SourceEvents : e \in DOMAIN redis.events
    BY <1>1, <1>2
  <2>4. EventsCopied'
    BY <1>1, <1>2, <2>1, <2>3 DEF EventsCopied
  <2> QED
    BY <1>1, <1>2, <2>1, <2>2, <2>4
       DEF OpenIInv, InOrder, Importing, Imported, SchedulesCopied, SchedulesTo,
           SummariesCopied, SummariesTo
<1>3. CASE /\ pc.n # SourceEvents
           /\ redis' = [redis EXCEPT !.events = HSet(@, SourceEvents - pc.n, "old")]
           /\ pc' = [pc EXCEPT !.n = @ + 1]
  <2>1. /\ redis' = [schema |-> redis.schema, marker |-> redis.marker,
                     settings |-> redis.settings, schedules |-> redis.schedules,
                     summarySeq |-> redis.summarySeq,
                     summaries |-> redis.summaries, events |-> new, seq |-> redis.seq,
                     bytes |-> redis.bytes, examples |-> redis.examples]
    BY <1>3 DEF OpenIInv, OpenTyped
  <2>2. /\ pc' \in [at : OpenPlaces, n : Nat, maxId : Nat, total : Nat]
        /\ pc'.at = "events" /\ pc'.n = pc.n + 1
    BY <1>1, <1>3
  <2>3. id \in 1..SourceEvents /\ id \in 1..MaxEvent
    BY <1>1, <1>3
  <2>4. /\ DOMAIN new = {id} \cup DOMAIN redis.events
        /\ \A e \in DOMAIN new : new[e] = "old"
    BY <1>1 DEF HSet
  <2>5. new \in [DOMAIN new -> {"old", "new"}]
    BY <1>1, FieldIsTyped
  <2> HIDE DEF new
  <2>6. DOMAIN new \subseteq 1..SourceEvents /\ DOMAIN new \subseteq 1..MaxEvent
    BY <1>1, <2>3, <2>4
  <2>7. OpenTyped'
    BY <1>1, <2>1, <2>2, <2>5, <2>6 DEF OpenIInv, OpenTyped
  <2>8. \A e \in 1..SourceEvents : e > SourceEvents - (pc.n + 1) => e \in DOMAIN new
    <3>1. \A e \in 1..SourceEvents :
             e > SourceEvents - (pc.n + 1) => e = id \/ e > SourceEvents - pc.n
      BY <1>1
    <3> QED
      BY <1>1, <2>4, <3>1
  <2>9. pc.n + 1 <= SourceEvents
    BY <1>1, <1>3
  <2>10. EventsCopied'
    BY <1>1, <2>1, <2>2, <2>4, <2>6, <2>8, <2>9 DEF EventsCopied
  <2> QED
    BY <1>1, <2>1, <2>2, <2>7, <2>10
       DEF OpenIInv, InOrder, Importing, Imported, SchedulesCopied, SchedulesTo,
           SummariesCopied, SummariesTo
<1> QED
  BY <1>2, <1>3 DEF CopyEvent, Then, NextRow

\* The highest of the first numbers is their number.
LEMMA HighestOfAll ==
  ASSUME NEW n \in Nat
  PROVE  Highest(1..n) = n /\ Cardinality(1..n) = n
<1>1. Cardinality(1..n) = n
  BY FS_Interval
<1>2. CASE n = 0
  <2>1. 1..n = {}
    BY <1>2
  <2> QED
    BY <1>1, <1>2, <2>1 DEF Highest
<1>3. CASE n # 0
  <2>1. n \in 1..n /\ \A y \in 1..n : y <= n
    BY <1>3
  <2>2. \A x \in 1..n : (\A y \in 1..n : y <= x) => x = n
    BY <2>1
  <2>3. (CHOOSE x \in 1..n : \A y \in 1..n : y <= x) = n
    BY <2>1, <2>2
  <2> QED
    BY <1>1, <2>1, <2>3 DEF Highest
<1> QED
  BY <1>1, <1>2, <1>3

\* The sums are those of the source, or were misread.
LEMMA SumSizesKeeps ==
  ASSUME OpenIInv, SumSizes
  PROVE  OpenIInv'
<1>1. /\ pc.at = "sums" /\ UNCHANGED <<redis, starts, saved>>
      /\ ~redis.marker /\ redis.schema = 1 /\ ~saved
      /\ SourceEvents \in Nat /\ DOMAIN redis.events = 1..SourceEvents
  BY ImportAssumption DEF SumSizes, OpenIInv, InOrder, Importing, EventsCopied
<1>2. Highest(DOMAIN redis.events) = SourceEvents
      /\ Cardinality(DOMAIN redis.events) = SourceEvents
  BY <1>1, HighestOfAll
<1>3. /\ pc' \in [at : OpenPlaces, n : Nat, maxId : Nat, total : Nat]
      /\ pc'.at = "finish" /\ pc'.n = 0 /\ pc'.maxId <= SourceEvents /\ misread' \in BOOLEAN
      /\ misread' \/ (pc'.maxId = SourceEvents /\ pc'.total = SourceEvents)
  <2>1. CASE /\ pc' = [at |-> "finish", n |-> 0, maxId |-> Highest(DOMAIN redis.events),
                       total |-> Cardinality(DOMAIN redis.events)]
             /\ UNCHANGED misread
    BY <1>1, <1>2, <2>1 DEF OpenPlaces, OpenIInv, OpenTyped
  <2>2. CASE pc' = Start("finish") /\ misread' = TRUE
    BY <1>1, <2>2, Starts DEF OpenPlaces
  <2> QED
    BY <2>1, <2>2 DEF SumSizes, Then
<1>4. OpenTyped'
  BY <1>1, <1>3 DEF OpenIInv, OpenTyped
<1>5. EventsCopied'
  BY <1>1, <1>3 DEF OpenIInv, EventsCopied
<1> QED
  BY <1>1, <1>3, <1>4, <1>5
     DEF OpenIInv, InOrder, Importing, Imported, SchedulesCopied, SchedulesTo,
         SummariesCopied, SummariesTo

\* The marker is set when everything is there, whether the answer arrives or not.
LEMMA FinishMigrationKeeps ==
  ASSUME OpenIInv, FinishMigration
  PROVE  OpenIInv'
<1>1. /\ pc.at = "finish" /\ UNCHANGED <<starts, saved, misread>>
      /\ ~redis.marker /\ redis.schema = 1 /\ ~saved
      /\ SourceEvents \in Nat /\ MaxEvent \in Nat /\ SourceEvents <= MaxEvent
      /\ pc.maxId \in Nat /\ pc.total \in Nat
  <2>1. pc.maxId \in Nat /\ pc.total \in Nat
    BY DEF OpenIInv, OpenTyped
  <2> QED
    BY <2>1, ImportAssumption DEF FinishMigration, SameHistory, OpenIInv, InOrder, Importing
<1>2. redis' = [schema |-> redis.schema, marker |-> TRUE,
                settings |-> redis.settings, schedules |-> redis.schedules,
                summarySeq |-> redis.summarySeq,
                summaries |-> redis.summaries, events |-> redis.events, seq |-> pc.maxId,
                bytes |-> pc.total, examples |-> redis.examples]
  <2>1. redis' = [redis EXCEPT !.marker = TRUE, !.bytes = pc.total, !.seq = pc.maxId]
    BY DEF FinishMigration
  <2> QED
    BY <2>1 DEF OpenIInv, OpenTyped
<1>3. /\ pc' \in [at : OpenPlaces, n : Nat, maxId : Nat, total : Nat]
      /\ pc'.at \in {"retired", "down"}
  <2>1. pc' = Start("retired") \/ pc' = Start("down")
    BY DEF FinishMigration, Then
  <2> QED
    BY <2>1, Starts DEF OpenPlaces
<1>4. /\ DOMAIN redis.events = 1..SourceEvents
      /\ \A id \in DOMAIN redis.events : redis.events[id] = "old"
      /\ pc.maxId <= SourceEvents
      /\ misread \/ (pc.maxId = SourceEvents /\ pc.total = SourceEvents)
  BY <1>1 DEF OpenIInv, EventsCopied
<1>5. pc.maxId \in 0..MaxEvent
  BY <1>1, <1>4
<1>6. OpenTyped'
  BY <1>1, <1>2, <1>3, <1>5 DEF OpenIInv, OpenTyped
<1>7. EventsCopied'
  BY <1>1, <1>2, <1>3, <1>4 DEF EventsCopied
<1> QED
  BY <1>1, <1>2, <1>3, <1>6, <1>7
     DEF OpenIInv, InOrder, Importing, Imported, SchedulesCopied, SchedulesTo,
         SummariesCopied, SummariesTo

-----------------------------------------------------------------------------
(***************************************************************************)
(* The rest of open, and the service at work.                              *)
(***************************************************************************)
\* The examples go.
LEMMA RemoveRetiredKeeps ==
  ASSUME OpenIInv, RemoveRetired
  PROVE  OpenIInv'
<1>1. /\ pc.at = "retired" /\ UNCHANGED <<starts, saved, misread>>
      /\ redis.marker /\ redis.schema = 1
  BY DEF RemoveRetired, SameHistory, OpenIInv, InOrder, Imported
<1>2. redis' = [schema |-> redis.schema, marker |-> redis.marker,
                settings |-> redis.settings, schedules |-> redis.schedules,
                summarySeq |-> redis.summarySeq,
                summaries |-> redis.summaries, events |-> redis.events, seq |-> redis.seq,
                bytes |-> redis.bytes, examples |-> FALSE]
  BY DEF RemoveRetired, OpenIInv, OpenTyped
<1>3. /\ pc' \in [at : OpenPlaces, n : Nat, maxId : Nat, total : Nat] /\ pc'.at = "seed"
  BY Starts DEF RemoveRetired, Then, OpenPlaces
<1>4. OpenTyped'
  BY <1>1, <1>2, <1>3 DEF OpenIInv, OpenTyped
<1> QED
  BY <1>1, <1>2, <1>3, <1>4
     DEF OpenIInv, InOrder, Importing, Imported, SchedulesCopied, SchedulesTo,
         SummariesCopied, SummariesTo, EventsCopied

\* Defaults only where there are no settings.
LEMMA SeedDefaultsKeeps ==
  ASSUME OpenIInv, SeedDefaults
  PROVE  OpenIInv'
<1> DEFINE settings == IF redis.settings = "none" THEN "default" ELSE redis.settings
<1>1. /\ pc.at = "seed" /\ UNCHANGED <<starts, saved, misread>>
      /\ redis.marker /\ redis.schema = 1 /\ ~redis.examples
  BY DEF SeedDefaults, SameHistory, OpenIInv, InOrder, Imported
<1>2. redis' = [schema |-> redis.schema, marker |-> redis.marker,
                settings |-> settings, schedules |-> redis.schedules,
                summarySeq |-> redis.summarySeq,
                summaries |-> redis.summaries, events |-> redis.events, seq |-> redis.seq,
                bytes |-> redis.bytes, examples |-> redis.examples]
  BY DEF SeedDefaults, OpenIInv, OpenTyped
<1>3. /\ pc' \in [at : OpenPlaces, n : Nat, maxId : Nat, total : Nat] /\ pc'.at = "prewarm"
  BY Starts DEF SeedDefaults, Then, OpenPlaces
<1>4. /\ settings \in {"none", "default", "source", "user"}
      /\ saved => settings = "user"
  BY DEF OpenIInv, OpenTyped, InOrder
<1> HIDE DEF settings
<1>5. OpenTyped'
  BY <1>1, <1>2, <1>3, <1>4 DEF OpenIInv, OpenTyped
<1> QED
  BY <1>1, <1>2, <1>3, <1>4, <1>5
     DEF OpenIInv, InOrder, Importing, Imported, SchedulesCopied, SchedulesTo,
         SummariesCopied, SummariesTo, EventsCopied

\* A user saves settings.
LEMMA UserSavesKeeps ==
  ASSUME OpenIInv, UserSaves
  PROVE  OpenIInv'
<1>1. /\ pc.at = "open" /\ UNCHANGED <<pc, starts, misread>> /\ saved' = TRUE
      /\ redis.marker /\ redis.schema = 1 /\ ~redis.examples
  BY DEF UserSaves, OpenIInv, InOrder, Imported
<1>2. redis' = [schema |-> redis.schema, marker |-> redis.marker,
                settings |-> "user", schedules |-> redis.schedules,
                summarySeq |-> redis.summarySeq,
                summaries |-> redis.summaries, events |-> redis.events, seq |-> redis.seq,
                bytes |-> redis.bytes, examples |-> redis.examples]
  BY DEF UserSaves, OpenIInv, OpenTyped
<1>3. OpenTyped'
  BY <1>1, <1>2 DEF OpenIInv, OpenTyped
<1> QED
  BY <1>1, <1>2, <1>3
     DEF OpenIInv, InOrder, Importing, Imported, SchedulesCopied, SchedulesTo,
         SummariesCopied, SummariesTo, EventsCopied

\* A new event takes a number no other has, unless the sums were misread.
LEMMA SaveEventKeeps ==
  ASSUME OpenIInv, SaveEvent
  PROVE  OpenIInv'
<1> DEFINE id == redis.seq + 1
           new == HSet(redis.events, id, "new")
<1>1. /\ pc.at = "open" /\ UNCHANGED <<pc, starts, saved, misread>>
      /\ redis.marker /\ redis.schema = 1 /\ ~redis.examples
      /\ redis.seq \in 0..MaxEvent /\ redis.seq < MaxEvent /\ redis.bytes \in Nat
      /\ DOMAIN redis.events \subseteq 1..MaxEvent
      /\ redis.events \in [DOMAIN redis.events -> {"old", "new"}]
      /\ SourceEvents \in Nat /\ MaxEvent \in Nat
  BY ImportAssumption DEF SaveEvent, OpenIInv, OpenTyped, InOrder, Imported
<1>2. redis' = [schema |-> redis.schema, marker |-> redis.marker,
                settings |-> redis.settings, schedules |-> redis.schedules,
                summarySeq |-> redis.summarySeq,
                summaries |-> redis.summaries, events |-> new, seq |-> id,
                bytes |-> redis.bytes + 1, examples |-> redis.examples]
  BY DEF SaveEvent, OpenIInv, OpenTyped
<1>3. id \in 1..MaxEvent /\ id \in 0..MaxEvent /\ id \notin 1..redis.seq
  BY <1>1
<1>4. /\ DOMAIN new = {id} \cup DOMAIN redis.events
      /\ \A e \in DOMAIN redis.events : e # id => new[e] = redis.events[e]
  BY DEF HSet
<1>5. new \in [DOMAIN new -> {"old", "new"}]
  BY <1>1, FieldIsTyped
<1> HIDE DEF new
<1>6. OpenTyped'
  <2>1. DOMAIN new \subseteq 1..MaxEvent /\ redis.bytes + 1 \in Nat
    BY <1>1, <1>3, <1>4
  <2> QED
    BY <1>1, <1>2, <1>3, <1>5, <2>1 DEF OpenIInv, OpenTyped
<1>7. EventsCopied'
  <2>1. 1..SourceEvents \subseteq DOMAIN redis.events
    BY <1>1 DEF OpenIInv, EventsCopied
  <2>2. 1..SourceEvents \subseteq DOMAIN new
    BY <1>4, <2>1
  <2>3. ASSUME ~misread
        PROVE  /\ DOMAIN new = 1..id /\ SourceEvents <= id /\ redis.bytes + 1 = id
               /\ \A e \in 1..SourceEvents : new[e] = "old"
    <3>1. /\ DOMAIN redis.events = 1..redis.seq /\ SourceEvents <= redis.seq
          /\ redis.bytes = redis.seq /\ \A e \in 1..SourceEvents : redis.events[e] = "old"
      BY <1>1, <2>3 DEF OpenIInv, EventsCopied
    <3>2. 1..id = {id} \cup 1..redis.seq /\ SourceEvents <= id
      BY <1>1, <3>1
    <3>3. \A e \in 1..SourceEvents : e # id
      BY <1>1, <3>1
    <3> QED
      BY <1>4, <2>1, <3>1, <3>2, <3>3
  <2> QED
    BY <1>1, <1>2, <2>2, <2>3 DEF EventsCopied
<1> QED
  BY <1>1, <1>2, <1>6, <1>7
     DEF OpenIInv, InOrder, Importing, Imported, SchedulesCopied, SchedulesTo,
         SummariesCopied, SummariesTo

-----------------------------------------------------------------------------
\* The invariant holds before the first start.
LEMMA OpenStarts == OpenInit => OpenIInv
<1> SUFFICES ASSUME OpenInit
             PROVE  OpenIInv
  OBVIOUS
<1>1. /\ pc \in [at : OpenPlaces, n : Nat, maxId : Nat, total : Nat]
      /\ pc.at = "down"
  BY DEF OpenInit, Start, OpenPlaces
<1>2. /\ redis.summaries \in [DOMAIN redis.summaries -> Nat]
      /\ redis.events \in [DOMAIN redis.events -> {"old", "new"}]
      /\ DOMAIN redis.summaries = {} /\ DOMAIN redis.events = {}
  BY DEF OpenInit
<1>3. OpenTyped
  <2>1. redis = [schema |-> redis.schema, marker |-> redis.marker, settings |-> redis.settings,
                 schedules |-> redis.schedules, summarySeq |-> redis.summarySeq,
                 summaries |-> redis.summaries, events |-> redis.events, seq |-> redis.seq,
                 bytes |-> redis.bytes, examples |-> redis.examples]
    BY DEF OpenInit
  <2>2. /\ redis.schema \in {0, 1} /\ redis.marker \in BOOLEAN /\ redis.examples \in BOOLEAN
        /\ redis.settings \in {"none", "default", "source", "user"}
        /\ redis.schedules \subseteq ToSet(SourceSchedules)
        /\ redis.summarySeq \in Nat /\ redis.seq \in 0..MaxEvent /\ redis.bytes \in Nat
    BY ImportAssumption DEF OpenInit
  <2>3. starts \in 0..MaxStarts
    BY ImportAssumption DEF OpenInit
  <2>4. saved \in BOOLEAN /\ misread \in BOOLEAN
    BY DEF OpenInit
  <2> QED
    BY <1>1, <1>2, <2>1, <2>2, <2>3, <2>4 DEF OpenTyped
<1> QED
  BY <1>1, <1>2, <1>3
     DEF OpenInit, OpenIInv, InOrder, Importing, Imported, SchedulesCopied, SummariesCopied,
         EventsCopied

\* Every step keeps the invariant, the failures among them.
LEMMA OpenKept == OpenIInv /\ [OpenNext]_openVars => OpenIInv'
<1> SUFFICES ASSUME OpenIInv, [OpenNext]_openVars
             PROVE  OpenIInv'
  OBVIOUS
<1>1. CASE StartProcess
  <2>1. starts' \in 0..MaxStarts
    BY <1>1, ImportAssumption DEF StartProcess, OpenIInv, OpenTyped
  <2> QED
    BY <1>1, <2>1, MovesKeep DEF StartProcess, Then, OpenPlaces
<1>2. CASE Fails
  BY <1>2, MovesKeep DEF Fails, Then, OpenPlaces, OpenIInv, OpenTyped
<1>3. CASE VerifyReadWrite
  BY <1>3, MovesKeep DEF VerifyReadWrite, Then, SameHistory, OpenPlaces, OpenIInv, OpenTyped
<1>4. CASE CheckMarker
  <2>1. redis.schema = 1
    BY <1>4 DEF CheckMarker, OpenIInv, InOrder
  <2>2. CASE redis.marker
    BY <1>4, <2>1, <2>2, MovesKeep
       DEF CheckMarker, Then, SameHistory, OpenPlaces, OpenIInv, OpenTyped
  <2>3. CASE ~redis.marker
    BY <1>4, <2>1, <2>3, MovesKeep
       DEF CheckMarker, Then, SameHistory, OpenPlaces, OpenIInv, OpenTyped
  <2> QED
    BY <2>2, <2>3
<1>5. CASE SnapshotSource
  <2>1. redis.schema = 1 /\ ~redis.marker
    BY <1>5 DEF SnapshotSource, OpenIInv, InOrder, Importing
  <2> QED
    BY <1>5, <2>1, MovesKeep
       DEF SnapshotSource, Then, SameHistory, OpenPlaces, OpenIInv, OpenTyped
<1>6. CASE Prewarm
  <2>1. redis.schema = 1 /\ redis.marker /\ ~redis.examples
    BY <1>6 DEF Prewarm, OpenIInv, InOrder, Imported
  <2> QED
    BY <1>6, <2>1, MovesKeep DEF Prewarm, Then, SameHistory, OpenPlaces, OpenIInv, OpenTyped
<1>7. CASE UNCHANGED openVars
  BY <1>7
     DEF openVars, OpenIInv, OpenTyped, InOrder, Importing, Imported, SchedulesCopied,
         SchedulesTo, SummariesCopied, SummariesTo, EventsCopied
<1> QED
  BY <1>1, <1>2, <1>3, <1>4, <1>5, <1>6, <1>7, InitializeSchemaKeeps, CopySettingsKeeps,
     CopyScheduleKeeps, TakeSummaryNumberKeeps, CopySummaryKeeps, CopyEventKeeps,
     SumSizesKeeps, FinishMigrationKeeps, RemoveRetiredKeeps, SeedDefaultsKeeps,
     UserSavesKeeps, SaveEventKeeps
     DEF OpenNext

\* Whatever fails and however often the process starts, the variables keep their
\* types (Redis.open).
THEOREM OpenTypes == OpenSpec => []OpenTypeOK
<1>1. OpenIInv => OpenTypeOK
  BY DEF OpenIInv, OpenTyped, OpenTypeOK
<1> QED
  BY <1>1, OpenStarts, OpenKept, PTL DEF OpenSpec

\* The import is done once and completely: under the marker everything of the source
\* is there, in its order, no later event takes the number of an imported one, the
\* store opens with the marker only, and saved settings stay (migrateSQLite and
\* Redis.open).
THEOREM ImportCorrect == OpenSpec => []ImportedOnce
<1>1. OpenIInv => ImportedOnce
  <2> SUFFICES ASSUME OpenIInv
               PROVE  ImportedOnce
    OBVIOUS
  <2>1. pc.at = "open" => redis.marker /\ redis.schema = 1 /\ ~redis.examples
    BY DEF OpenIInv, InOrder, Imported
  <2>2. saved => redis.settings = "user"
    BY DEF OpenIInv, InOrder
  <2>3. ASSUME redis.marker
        PROVE  /\ redis.schedules = ToSet(SourceSchedules)
               /\ DOMAIN redis.summaries = ToSet(SourceSummaries)
    <3>1. \A x \in ToSet(SourceSchedules) :
             \E i \in 1..Len(SourceSchedules) : x = SourceSchedules[i]
      BY ImportAssumption DEF ToSet
    <3>2. \A x \in ToSet(SourceSchedules) : x \in redis.schedules
      BY <2>3, <3>1 DEF OpenIInv, SchedulesCopied, SchedulesTo
    <3>3. \A x \in ToSet(SourceSummaries) :
             \E i \in 1..Len(SourceSummaries) : x = SourceSummaries[i]
      BY ImportAssumption DEF ToSet
    <3>4. \A i \in 1..Len(SourceSummaries) :
             \E k \in 1..Len(SourceSummaries) : SourceSummaries[i] = Oldest(k)
      <4>1. TAKE i \in 1..Len(SourceSummaries)
      <4>2. Len(SourceSummaries) - i + 1 \in 1..Len(SourceSummaries)
            /\ Len(SourceSummaries) - (Len(SourceSummaries) - i + 1) + 1 = i
        BY OldestRows
      <4>3. SourceSummaries[i] = Oldest(Len(SourceSummaries) - i + 1)
        BY <4>2, OldestRows
      <4> QED
        BY <4>2, <4>3
    <3>5. \A x \in ToSet(SourceSummaries) : x \in DOMAIN redis.summaries
      BY <2>3, <3>3, <3>4 DEF OpenIInv, SummariesCopied, SummariesTo
    <3> QED
      BY <3>2, <3>5 DEF OpenIInv, OpenTyped
  <2>4. ASSUME redis.marker, NEW i \in 1..Len(SourceSummaries),
               NEW j \in 1..Len(SourceSummaries), i < j
        PROVE  redis.summaries[SourceSummaries[i]] > redis.summaries[SourceSummaries[j]]
    <3> DEFINE a == Len(SourceSummaries) - i + 1
               b == Len(SourceSummaries) - j + 1
    <3>1. /\ a \in 1..Len(SourceSummaries) /\ b \in 1..Len(SourceSummaries) /\ b < a
          /\ Len(SourceSummaries) - a + 1 = i /\ Len(SourceSummaries) - b + 1 = j
      BY <2>4, OldestRows
    <3> HIDE DEF a, b
    <3>2. SourceSummaries[i] = Oldest(a) /\ SourceSummaries[j] = Oldest(b)
      BY <3>1, OldestRows
    <3>3. redis.summaries[Oldest(b)] < redis.summaries[Oldest(a)]
      BY <2>4, <3>1 DEF OpenIInv, SummariesCopied, SummariesTo
    <3>4. /\ Oldest(a) \in DOMAIN redis.summaries /\ Oldest(b) \in DOMAIN redis.summaries
      BY <2>4, <3>1 DEF OpenIInv, SummariesCopied, SummariesTo
    <3>5. redis.summaries[Oldest(a)] \in Nat /\ redis.summaries[Oldest(b)] \in Nat
      BY <3>4 DEF OpenIInv, OpenTyped
    <3> QED
      BY <3>2, <3>3, <3>5
  <2>5. ASSUME redis.marker
        PROVE  /\ 1..SourceEvents \subseteq DOMAIN redis.events
               /\ ~misread => /\ \A id \in 1..SourceEvents : redis.events[id] = "old"
                              /\ redis.bytes = Cardinality(DOMAIN redis.events)
    <3>1. redis.seq \in Nat
      BY ImportAssumption DEF OpenIInv, OpenTyped
    <3>2. Cardinality(1..redis.seq) = redis.seq
      BY <3>1, HighestOfAll
    <3> QED
      BY <2>5, <3>2 DEF OpenIInv, EventsCopied
  <2> QED
    BY <2>1, <2>2, <2>3, <2>4, <2>5 DEF ImportedOnce
<1> QED
  BY <1>1, OpenStarts, OpenKept, PTL DEF OpenSpec

(***************************************************************************)
(* The event ledger, for any limits, sizes of a batch and numbers of       *)
(* events.  A listing reads by offsets from the newest end, while rows     *)
(* come in and go.  What carries it: of a row that was there all the time  *)
(* and is not listed, all that was listed is newer, and the row lies       *)
(* beyond the offset, or in the batch of ids that was read, or behind the  *)
(* whole of it -- and then the batch is full and all of it still there,    *)
(* because trimming takes the oldest first (Owed).  The rows of a batch    *)
(* stay in the order of the index (NewestFirst), ids are given once        *)
(* (Distinct), and every change of the index keeps the rows' order and     *)
(* their places from the newest end (Carried).                             *)
(***************************************************************************)

\* What is kept of a sequence: its elements in T, all of them, in their order.
LEMMA KeptOf ==
  ASSUME NEW S, NEW s \in Seq(S), NEW T, NEW r, r = Kept(s, T)
  PROVE  /\ r \in Seq(S) /\ Len(r) \in Nat /\ Len(r) <= Len(s)
         /\ (\A i \in 1..Len(s) : s[i] \in T) => Len(r) = Len(s)
         /\ \E m \in [1..Len(r) -> 1..Len(s)] :
              /\ \A n \in 1..Len(r) : r[n] = s[m[n]] /\ s[m[n]] \in T
              /\ \A n, k \in 1..Len(r) : n < k => m[n] < m[k]
              /\ \A i \in 1..Len(s) : s[i] \in T => \E n \in 1..Len(r) : m[n] = i
<1> DEFINE at == {i \in 1..Len(s) : s[i] \in T}
           C  == Cardinality(at)
           To(i) == {j \in at : j <= i}
           R  == [i \in at |-> Cardinality(To(i))]
           m  == [n \in 1..C |-> CHOOSE i \in at : R[i] = n]
<1>1. Len(s) \in Nat /\ DOMAIN s = 1..Len(s) /\ \A i \in 1..Len(s) : s[i] \in S
  OBVIOUS
<1>2. IsFiniteSet(1..Len(s)) /\ Cardinality(1..Len(s)) = Len(s)
  <2>1. 1 \in Int /\ Len(s) \in Int /\ Len(s) >= 0
    BY <1>1
  <2>2. IsFiniteSet(1..Len(s)) /\ Cardinality(1..Len(s)) = IF 1 > Len(s) THEN 0 ELSE Len(s) - 1 + 1
    BY <2>1, FS_Interval
  <2> QED
    BY <2>1, <2>2
<1>3. IsFiniteSet(at) /\ C \in Nat /\ C <= Len(s)
  <2>1. at \in SUBSET (1..Len(s))
    OBVIOUS
  <2> QED
    BY <1>2, <2>1, FS_Subset, FS_CardinalityType
<1>4. ASSUME NEW i \in at
      PROVE  /\ IsFiniteSet(To(i)) /\ Cardinality(To(i)) \in 1..C
             /\ \A k \in at : k < i => Cardinality(To(k)) < Cardinality(To(i))
  <2>1. To(i) \in SUBSET at /\ i \in To(i)
    <3>1. i \in Nat
      BY <1>1
    <3> QED
      BY <3>1
  <2>2. IsFiniteSet(To(i)) /\ Cardinality(To(i)) \in Nat /\ Cardinality(To(i)) <= C
    BY <1>3, <2>1, FS_Subset, FS_CardinalityType
  <2>3. IsFiniteSet(To(i) \ {i}) /\ Cardinality(To(i) \ {i}) = Cardinality(To(i)) - 1
    BY <2>1, <2>2, FS_RemoveElement
  <2>4. Cardinality(To(i) \ {i}) \in Nat
    BY <2>3, FS_CardinalityType
  <2>5. ASSUME NEW k \in at, k < i PROVE Cardinality(To(k)) < Cardinality(To(i))
    <3>1. To(k) \in SUBSET (To(i) \ {i})
      BY <1>1, <2>5
    <3>2. IsFiniteSet(To(k)) /\ Cardinality(To(k)) <= Cardinality(To(i)) - 1
      BY <2>3, <3>1, FS_Subset
    <3>3. Cardinality(To(k)) \in Nat
      BY <3>2, FS_CardinalityType
    <3> HIDE DEF To
    <3> QED
      BY <2>2, <3>2, <3>3
  <2>6. Cardinality(To(i)) \in 1..C
    <3> HIDE DEF To, C
    <3> QED
      BY <1>3, <2>2, <2>3, <2>4
  <2> QED
    BY <2>2, <2>5, <2>6
<1> HIDE DEF To, C
<1>5. R \in [at -> 1..C] /\ \A i \in at : R[i] = Cardinality(To(i))
  BY <1>4
<1>6. \A i, k \in at : k < i => R[k] < R[i]
  BY <1>4, <1>5
<1>7. \A i \in at : i \in Nat
  BY <1>1
<1> HIDE DEF R
<1>8. \A i, k \in at : R[i] = R[k] => i = k
  <2>1. \A i, k \in at : R[i] \in Nat /\ R[k] \in Nat /\ i \in Nat /\ k \in Nat
    BY <1>3, <1>5, <1>7
  <2> QED
    BY <1>6, <2>1
<1>9. \A n \in 1..C : \E i \in at : R[i] = n
  <2>1. R \in Injection(at, 1..C)
    BY <1>5, <1>8 DEF Injection, IsInjective
  <2>2. IsFiniteSet(1..C) /\ Cardinality(1..C) = C
    BY <1>3, FS_Interval
  <2>3. Cardinality(at) = Cardinality(1..C)
    BY <2>2 DEF C
  <2>4. R \in Surjection(at, 1..C)
    BY <2>1, <2>2, <2>3, FS_Injection
  <2> QED
    BY <2>4 DEF Surjection
<1>10. \A n \in 1..C : m[n] \in at /\ R[m[n]] = n
  BY <1>9
<1>11. m \in [1..C -> 1..Len(s)] /\ \A n \in 1..C : s[m[n]] \in T
  BY <1>10
<1>12. r = [n \in 1..C |-> s[m[n]]]
  <2>1. r = [n \in 1..C |-> s[CHOOSE i \in at : Cardinality(To(i)) = n]]
    BY <1>1 DEF Kept, C, To
  <2>2. \A n \in 1..C : (CHOOSE i \in at : Cardinality(To(i)) = n) = m[n]
    BY DEF R
  <2> QED
    BY <2>1, <2>2
<1> HIDE DEF m
<1>13. /\ r \in Seq(S) /\ Len(r) = C
       /\ \A n \in 1..C : r[n] = s[m[n]]
  BY <1>1, <1>3, <1>11, <1>12
<1>14. \A n, k \in 1..C : n < k => m[n] < m[k]
  <2>1. SUFFICES ASSUME NEW n \in 1..C, NEW k \in 1..C, n < k PROVE m[n] < m[k]
    OBVIOUS
  <2>2. m[n] \in at /\ m[k] \in at /\ R[m[n]] = n /\ R[m[k]] = k /\ m[n] \in Nat /\ m[k] \in Nat
    BY <1>7, <1>10
  <2>3. n \in Nat /\ k \in Nat
    BY <1>3
  <2>4. m[n] # m[k] /\ ~(m[k] < m[n])
    BY <1>6, <2>1, <2>2, <2>3
  <2> QED
    BY <2>2, <2>4
<1>15. \A i \in 1..Len(s) : s[i] \in T => \E n \in 1..C : m[n] = i
  <2>1. SUFFICES ASSUME NEW i \in 1..Len(s), s[i] \in T PROVE \E n \in 1..C : m[n] = i
    OBVIOUS
  <2>2. i \in at /\ R[i] \in 1..C
    BY <1>5, <2>1
  <2>3. m[R[i]] \in at /\ R[m[R[i]]] = R[i]
    BY <1>10, <2>2
  <2> QED
    BY <1>8, <2>2, <2>3
<1>16. (\A i \in 1..Len(s) : s[i] \in T) => C = Len(s)
  <2>1. SUFFICES ASSUME \A i \in 1..Len(s) : s[i] \in T PROVE C = Len(s)
    OBVIOUS
  <2>2. at = 1..Len(s)
    BY <2>1
  <2> QED
    BY <1>2, <2>2 DEF C
<1> QED
  BY <1>3, <1>11, <1>13, <1>14, <1>15, <1>16

\* An index with a row more.
LEMMA InsertedAt ==
  ASSUME NEW s, NEW e, NEW p, NEW r,
         s \in Seq(Event), e \in Event, p \in 1..Len(s) + 1, r = InsertAt(s, p, e)
  PROVE  /\ r \in Seq(Event) /\ Len(r) = Len(s) + 1
         /\ \A i \in 1..Len(s) + 1 : r[i] = IF i < p THEN s[i] ELSE IF i = p THEN e ELSE s[i - 1]
<1> DEFINE before == SubSeq(s, 1, p - 1)
           after  == SubSeq(s, p, Len(s))
<1>1. PICK S : S = Event /\ s \in Seq(S) /\ e \in S
  OBVIOUS
<1>2. p \in Nat /\ 1 <= p /\ p <= Len(s) + 1
  OBVIOUS
<1>3. Len(s) \in Nat /\ \A i \in 1..Len(s) : s[i] \in S
  BY <1>1
<1>4. /\ before \in Seq(S) /\ Len(before) = p - 1
      /\ \A i \in 1..p - 1 : before[i] = s[i]
  <2>1. 1 \in Int /\ p - 1 \in Int /\ \A i \in 1..p - 1 : s[i] \in S
    BY <1>2, <1>3
  <2>2. /\ before \in Seq(S) /\ Len(before) = IF 1 <= p - 1 THEN p - 1 - 1 + 1 ELSE 0
        /\ \A i \in 1..p - 1 - 1 + 1 : before[i] = s[1 + i - 1]
    BY <2>1, SubSeqProperties
  <2> QED
    BY <1>2, <1>3, <2>2
<1>5. /\ after \in Seq(S) /\ Len(after) = Len(s) - p + 1
      /\ \A i \in 1..Len(s) - p + 1 : after[i] = s[p + i - 1]
  <2>1. p \in Int /\ Len(s) \in Int /\ \A i \in p..Len(s) : s[i] \in S
    BY <1>2, <1>3
  <2>2. /\ after \in Seq(S)
        /\ Len(after) = IF p <= Len(s) THEN Len(s) - p + 1 ELSE 0
        /\ \A i \in 1..Len(s) - p + 1 : after[i] = s[p + i - 1]
    BY <2>1, SubSeqProperties
  <2> QED
    BY <1>2, <1>3, <2>2
<1>6. r = before \o <<e>> \o after
  BY DEF InsertAt
<1> DEFINE front == before \o <<e>>
<1> HIDE DEF before, after
<1>7. <<e>> \in Seq(S) /\ Len(<<e>>) = 1 /\ <<e>>[1] = e
  BY <1>1
<1>8. /\ front \in Seq(S) /\ Len(front) = p
      /\ \A i \in 1..p : front[i] = IF i < p THEN s[i] ELSE e
  <2>1. /\ front \in Seq(S) /\ Len(front) = Len(before) + Len(<<e>>)
        /\ \A i \in 1..Len(before) + Len(<<e>>) :
             front[i] = IF i <= Len(before) THEN before[i] ELSE <<e>>[i - Len(before)]
    BY <1>4, <1>7, ConcatProperties
  <2>2. Len(before) = p - 1 /\ Len(<<e>>) = 1 /\ p - 1 + 1 = p
    BY <1>2, <1>4
  <2>3. /\ Len(front) = p
        /\ \A i \in 1..p : front[i] = IF i <= p - 1 THEN before[i] ELSE <<e>>[i - (p - 1)]
    BY <2>1, <2>2
  <2>4. ASSUME NEW i \in 1..p PROVE front[i] = IF i < p THEN s[i] ELSE e
    <3>1. CASE i < p
      <4>1. i <= p - 1 /\ i \in 1..p - 1
        BY <1>2, <3>1
      <4> QED
        BY <1>4, <2>3, <3>1, <4>1
    <3>2. CASE i = p
      <4>1. ~(i <= p - 1) /\ i - (p - 1) = 1
        BY <1>2, <3>2
      <4> QED
        BY <1>7, <2>3, <3>2, <4>1
    <3>3. i < p \/ i = p
      BY <1>2
    <3> QED
      BY <3>1, <3>2, <3>3
  <2> QED
    BY <2>1, <2>3, <2>4
<1>9. r = front \o after
  BY <1>6
<1> HIDE DEF front
<1>10. /\ r \in Seq(S) /\ Len(r) = Len(front) + Len(after)
      /\ \A i \in 1..Len(front) + Len(after) :
           r[i] = IF i <= Len(front) THEN front[i] ELSE after[i - Len(front)]
  BY <1>5, <1>8, <1>9, ConcatProperties
<1>11. Len(front) = p /\ Len(front) + Len(after) = Len(s) + 1
  BY <1>2, <1>3, <1>5, <1>8
<1>12. /\ Len(r) = Len(s) + 1
       /\ \A i \in 1..Len(s) + 1 : r[i] = IF i <= p THEN front[i] ELSE after[i - p]
  BY <1>10, <1>11
<1>13. ASSUME NEW i \in 1..Len(s) + 1
       PROVE  r[i] = IF i < p THEN s[i] ELSE IF i = p THEN e ELSE s[i - 1]
  <2>1. CASE i <= p
    <3>1. i \in 1..p
      BY <1>2, <2>1
    <3> QED
      BY <1>2, <1>8, <1>12, <2>1, <3>1
  <2>2. CASE i > p
    <3>1. i - p \in 1..Len(s) - p + 1 /\ p + (i - p) - 1 = i - 1 /\ ~(i <= p) /\ ~(i < p) /\ i # p
      BY <1>2, <1>3, <2>2
    <3>2. r[i] = after[i - p]
      BY <1>12, <3>1
    <3>3. after[i - p] = s[p + (i - p) - 1]
      BY <1>5, <3>1
    <3> QED
      BY <3>1, <3>2, <3>3
  <2> QED
    BY <1>2, <1>3, <2>1, <2>2
<1> QED
  BY <1>1, <1>10, <1>12, <1>13

\* A sequence without its first elements.
LEMMA DroppedFrom ==
  ASSUME NEW S, NEW s \in Seq(S), NEW d \in 0..Len(s)
  PROVE  /\ Drop(s, d) \in Seq(S) /\ Len(Drop(s, d)) = Len(s) - d
         /\ \A i \in 1..Len(s) - d : Drop(s, d)[i] = s[i + d]
<1>1. d \in Nat /\ d <= Len(s) /\ Len(s) \in Nat /\ \A i \in 1..Len(s) : s[i] \in S
  OBVIOUS
<1>2. d + 1 \in Int /\ Len(s) \in Int /\ \A i \in d + 1..Len(s) : s[i] \in S
  BY <1>1
<1>3. /\ Drop(s, d) \in Seq(S)
      /\ Len(Drop(s, d)) = IF d + 1 <= Len(s) THEN Len(s) - (d + 1) + 1 ELSE 0
      /\ \A i \in 1..Len(s) - (d + 1) + 1 : Drop(s, d)[i] = s[d + 1 + i - 1]
  BY <1>2, SubSeqProperties DEF Drop
<1> QED
  BY <1>1, <1>3

\* The rows of a sequence are finitely many.
LEMMA RowsAreFinite ==
  ASSUME NEW S, NEW s \in Seq(S)
  PROVE  IsFiniteSet(ToSet(s)) /\ \A x : x \in ToSet(s) <=> \E i \in 1..Len(s) : s[i] = x
<1>1. Len(s) \in Nat /\ DOMAIN s = 1..Len(s)
  OBVIOUS
<1>2. \A x : x \in ToSet(s) <=> \E i \in 1..Len(s) : s[i] = x
  BY <1>1 DEF ToSet
<1> DEFINE f == [i \in 1..Len(s) |-> s[i]]
<1>3. f \in Surjection(1..Len(s), ToSet(s))
  BY <1>2 DEF Surjection
<1>4. IsFiniteSet(1..Len(s))
  BY <1>1, FS_Interval
<1> QED
  BY <1>2, <1>3, <1>4, FS_Surjection

\* One thing, a number of times.
LEMMA TimesOne ==
  ASSUME NEW x, NEW n \in Nat
  PROVE  IsFiniteSet({x} \X (1..n)) /\ Cardinality({x} \X (1..n)) = n
<1>1. IsFiniteSet({x}) /\ Cardinality({x}) = 1
  BY FS_Singleton
<1>2. 1 \in Int /\ n \in Int
  OBVIOUS
<1>3. IsFiniteSet(1..n) /\ Cardinality(1..n) = n
  BY <1>2, FS_Interval
<1> DEFINE S == {x}
           T == 1..n
<1>4. S = {x} /\ T = 1..n
  OBVIOUS
<1> HIDE DEF S, T
<1>5. IsFiniteSet(S) /\ IsFiniteSet(T) /\ Cardinality(S) = 1 /\ Cardinality(T) = n
  BY <1>1, <1>3, <1>4
<1>6. IsFiniteSet(S \X T) /\ Cardinality(S \X T) = Cardinality(S) * Cardinality(T)
  BY <1>5, FS_Product
<1>7. Cardinality(S) * Cardinality(T) = n
  BY <1>5
<1>8. IsFiniteSet(S \X T) /\ Cardinality(S \X T) = n
  BY <1>6, <1>7
<1> QED
  BY <1>4, <1>8

\* The bytes some rows stand for.
Held(rows) == UNION {{e} \X (1..Size(e.kind)) : e \in rows}

\* Each byte is one of a row's own.
LEMMA HeldIs ==
  ASSUME NEW rows, NEW c
  PROVE  c \in Held(rows) <=> \E x \in rows : c \in {x} \X (1..Size(x.kind))
BY DEF Held

\* The bytes of finitely many rows are finitely many.
LEMMA HeldIsFinite ==
  ASSUME NEW rows, IsFiniteSet(rows)
  PROVE  IsFiniteSet(Held(rows)) /\ Bytes(rows) \in Nat
<1> DEFINE T == {{x} \X (1..Size(x.kind)) : x \in rows}
           f == [x \in rows |-> {x} \X (1..Size(x.kind))]
<1>1. f \in Surjection(rows, T)
  BY DEF Surjection
<1>2. IsFiniteSet(T)
  BY <1>1, FS_Surjection
<1>3. ASSUME NEW U \in T PROVE IsFiniteSet(U)
  <2>1. PICK x \in rows : U = {x} \X (1..Size(x.kind))
    OBVIOUS
  <2>2. PICK n \in Nat : n = Size(x.kind)
    BY DEF Size
  <2>3. U = {x} \X (1..n)
    BY <2>1, <2>2
  <2> HIDE DEF T
  <2> QED
    BY <2>3, TimesOne
<1>4. Held(rows) = UNION T /\ Bytes(rows) = Cardinality(Held(rows))
  BY DEF Held, Bytes
<1> HIDE DEF T
<1>5. IsFiniteSet(Held(rows))
  BY <1>2, <1>3, <1>4, FS_UNION
<1> QED
  BY <1>4, <1>5, FS_CardinalityType

\* The bytes of some rows, and of one more.
LEMMA BytesOf ==
  ASSUME NEW rows, IsFiniteSet(rows), NEW e, e \notin rows
  PROVE  Bytes(rows \cup {e}) = Bytes(rows) + Size(e.kind)
<1>1. PICK n \in Nat : n = Size(e.kind)
  BY DEF Size
<1> DEFINE a == Held(rows)
           b == {e} \X (1..n)
           both == Held(rows \cup {e})
<1>2. \A c : c \in both <=> \E x \in rows \cup {e} : c \in {x} \X (1..Size(x.kind))
  BY HeldIs
<1>3. \A c : c \in a <=> \E x \in rows : c \in {x} \X (1..Size(x.kind))
  BY HeldIs
<1>4. \A c : c \in b <=> c \in {e} \X (1..Size(e.kind))
  BY <1>1
<1>5. \A x, c : c \in {x} \X (1..Size(x.kind)) => c[1] = x
  OBVIOUS
<1>6. Bytes(rows) = Cardinality(a) /\ Bytes(rows \cup {e}) = Cardinality(both)
  BY DEF Bytes, Held
<1>7. IsFiniteSet(a)
  BY HeldIsFinite
<1>8. IsFiniteSet(b) /\ Cardinality(b) = n
  BY TimesOne
<1> HIDE DEF a, b, both
<1>9. ASSUME NEW c PROVE c \in both <=> c \in a \/ c \in b
  <2>1. (\E x \in rows \cup {e} : c \in {x} \X (1..Size(x.kind)))
        <=> (\E x \in rows : c \in {x} \X (1..Size(x.kind))) \/ c \in {e} \X (1..Size(e.kind))
    OBVIOUS
  <2>2. c \in both <=> \E x \in rows \cup {e} : c \in {x} \X (1..Size(x.kind))
    BY <1>2, Zenon
  <2>3. c \in a <=> \E x \in rows : c \in {x} \X (1..Size(x.kind))
    BY <1>3, Zenon
  <2>4. c \in b <=> c \in {e} \X (1..Size(e.kind))
    BY <1>4, Zenon
  <2> QED
    BY <2>1, <2>2, <2>3, <2>4, Zenon
<1>10. both = a \cup b
  BY <1>9
<1>11. ASSUME NEW c \in a, c \in b PROVE FALSE
  <2>1. PICK x \in rows : c \in {x} \X (1..Size(x.kind))
    BY <1>3, <1>11, Zenon
  <2>2. c \in {e} \X (1..Size(e.kind))
    BY <1>4, <1>11, Zenon
  <2>3. c[1] = x
    BY <2>1
  <2>4. c[1] = e
    BY <2>2
  <2> QED
    BY <2>3, <2>4
<1>12. a \cap b = {}
  BY <1>11
<1>13. Cardinality(a \cup b) = Cardinality(a) + Cardinality(b) - Cardinality(a \cap b)
  BY <1>7, <1>8, FS_Union
<1>14. Cardinality(a) \in Nat /\ Cardinality(b) \in Nat /\ Cardinality(a \cap b) = 0
  BY <1>7, <1>8, <1>12, FS_CardinalityType, FS_EmptySet
<1>15. Cardinality(both) = Cardinality(a) + n
  BY <1>8, <1>10, <1>13, <1>14
<1> QED
  BY <1>1, <1>6, <1>15

\* The bytes of some rows, and of others.
LEMMA BytesSplit ==
  ASSUME NEW A, IsFiniteSet(A), NEW B, IsFiniteSet(B), \A x \in A : x \notin B
  PROVE  Bytes(A \cup B) = Bytes(A) + Bytes(B)
<1> DEFINE a == Held(A)
           b == Held(B)
           both == Held(A \cup B)
<1>1. /\ \A c : c \in both <=> \E x \in A \cup B : c \in {x} \X (1..Size(x.kind))
      /\ \A c : c \in a <=> \E x \in A : c \in {x} \X (1..Size(x.kind))
      /\ \A c : c \in b <=> \E x \in B : c \in {x} \X (1..Size(x.kind))
  BY HeldIs
<1>2. Bytes(A) = Cardinality(a) /\ Bytes(B) = Cardinality(b) /\ Bytes(A \cup B) = Cardinality(both)
  BY DEF Bytes, Held
<1>3. IsFiniteSet(a) /\ IsFiniteSet(b)
  BY HeldIsFinite
<1>4. \A x, c : c \in {x} \X (1..Size(x.kind)) => c[1] = x
  OBVIOUS
<1> HIDE DEF a, b, both
<1>5. both = a \cup b
  <2>1. ASSUME NEW c PROVE c \in both <=> c \in a \/ c \in b
    <3>1. (\E x \in A \cup B : c \in {x} \X (1..Size(x.kind)))
          <=> \/ \E x \in A : c \in {x} \X (1..Size(x.kind))
              \/ \E x \in B : c \in {x} \X (1..Size(x.kind))
      OBVIOUS
    <3> QED
      BY <1>1, <3>1, Zenon
  <2> QED
    BY <2>1
<1>6. a \cap b = {}
  <2>1. ASSUME NEW c \in a, c \in b PROVE FALSE
    <3>1. PICK x \in A : c \in {x} \X (1..Size(x.kind))
      BY <1>1, <2>1, Zenon
    <3>2. PICK y \in B : c \in {y} \X (1..Size(y.kind))
      BY <1>1, <2>1, Zenon
    <3>3. c[1] = x /\ c[1] = y
      BY <1>4, <3>1, <3>2, Zenon
    <3> QED
      BY <3>3
  <2> QED
    BY <2>1
<1>7. Cardinality(a \cup b) = Cardinality(a) + Cardinality(b) - Cardinality(a \cap b)
  BY <1>3, FS_Union
<1>8. Cardinality(a) \in Nat /\ Cardinality(b) \in Nat /\ Cardinality(a \cap b) = 0
  BY <1>3, <1>6, FS_CardinalityType, FS_EmptySet
<1> QED
  BY <1>2, <1>5, <1>7, <1>8

\* Fewer rows are no more bytes.
LEMMA BytesLess ==
  ASSUME NEW A, IsFiniteSet(A), NEW B, \A x \in B : x \in A
  PROVE  /\ Bytes(A) \in Nat /\ Bytes(B) \in Nat /\ Bytes(B) <= Bytes(A)
         /\ Bytes(A \ B) = Bytes(A) - Bytes(B)
<1>1. IsFiniteSet(B) /\ IsFiniteSet(A \ B)
  <2>1. B \subseteq A /\ A \ B \subseteq A
    OBVIOUS
  <2> QED
    BY <2>1, FS_Subset
<1>2. Bytes(A) \in Nat /\ Bytes(B) \in Nat /\ Bytes(A \ B) \in Nat
  BY <1>1, HeldIsFinite
<1>3. Bytes(B \cup (A \ B)) = Bytes(B) + Bytes(A \ B)
  BY <1>1, BytesSplit
<1>4. B \cup (A \ B) = A
  OBVIOUS
<1>5. Bytes(A) = Bytes(B) + Bytes(A \ B)
  BY <1>3, <1>4
<1> QED
  BY <1>2, <1>5

\* A set of numbers has a least one.
LEMMA LeastOf ==
  ASSUME NEW T \in SUBSET Nat, T # {}
  PROVE  \E x \in T : \A y \in T : x <= y
<1> DEFINE R == {pair \in Nat \X Nat : pair[1] < pair[2]}
<1>1. IsWellFoundedOn(R, Nat)
  BY NatLessThanWellFounded DEF OpToRel
<1>2. PICK x \in T : \A y \in T : <<y, x>> \notin R
  BY <1>1, WFMin
<1>3. \A y \in T : ~(y < x)
  BY <1>2
<1> QED
  BY <1>3

\* The sum of the sizes of what is left.
LEMMA LeftIs ==
  ASSUME NEW s \in Seq(Event), NEW n \in 0..Len(s), NEW total \in Int
  PROVE  Left(s, n, total) \in Int
<1>1. Drop(s, n) \in Seq(Event)
  BY DroppedFrom
<1>2. IsFiniteSet(ToSet(s)) /\ IsFiniteSet(ToSet(Drop(s, n)))
  BY <1>1, RowsAreFinite
<1>3. PICK a \in Nat, b \in Nat : a = Bytes(ToSet(s)) /\ b = Bytes(ToSet(Drop(s, n)))
  BY <1>2, HeldIsFinite
<1>4. Left(s, n, total) = total - (a - b)
  BY <1>3 DEF Left
<1> QED
  BY <1>4

\* What retention drops is some of the oldest rows: without all of them there is nothing left.
LEMMA ExcessIs ==
  ASSUME NEW s \in Seq(Event), NEW total \in Int
  PROVE  Excess(s, total) \in 0..Len(s)
<1> DEFINE Fits(n) == Len(s) - n <= MaxRows /\ (Left(s, n, total) <= MaxBytes \/ n = Len(s))
           Over(n) == Len(s) - n > MaxRows \/ Left(s, n, total) > MaxBytes
           T == {n \in 0..Len(s) : Fits(n)}
<1>1. PICK len \in Nat : len = Len(s)
  OBVIOUS
<1>2. ASSUME NEW n \in 0..Len(s), ~Fits(n) PROVE Over(n)
  <2>1. PICK b \in Int : b = Left(s, n, total)
    BY LeftIs
  <2>2. MaxRows \in Nat /\ MaxBytes \in Nat /\ n \in Nat
    BY LedgerAssumption
  <2> QED
    BY <1>1, <1>2, <2>1, <2>2
<1>3. Fits(len)
  <2>1. MaxRows \in Nat /\ Len(s) - len = 0
    BY <1>1, LedgerAssumption
  <2> QED
    BY <1>1, <2>1
<1>4. \E n \in 0..Len(s) : Fits(n) /\ \A k \in 0..(n - 1) : Over(k)
  <2>1. T \in SUBSET Nat /\ len \in T
    BY <1>1, <1>3
  <2>2. PICK n \in T : \A m \in T : n <= m
    BY <2>1, LeastOf
  <2>3. n \in Nat /\ n <= len
    BY <1>1, <2>2
  <2>4. ASSUME NEW k \in 0..(n - 1) PROVE Over(k)
    <3>1. k \in 0..Len(s) /\ ~(n <= k)
      BY <1>1, <2>3
    <3>2. k \notin T
      BY <2>2, <3>1
    <3>3. ~Fits(k)
      BY <3>1, <3>2
    <3> QED
      BY <1>2, <3>1, <3>3
  <2> QED
    BY <2>2, <2>4
<1>5. Excess(s, total) = CHOOSE n \in 0..Len(s) : Fits(n) /\ \A k \in 0..(n - 1) : Over(k)
  BY DEF Excess
<1> HIDE DEF Fits, Over
<1> QED
  BY <1>4, <1>5

\* The oldest of some rows are gone.
Trimmed(s, t) ==
  /\ t \in Seq(Event)
  /\ \E h \in 0..Len(s) : Len(t) = Len(s) - h /\ \A i \in 1..Len(s) - h : t[i] = s[i + h]

\* What retention leaves are the newest rows.
LEMMA RetainedIs ==
  ASSUME NEW s, NEW a, NEW total, NEW t,
         s \in Seq(Event), a \in 0..Len(s), total \in Int, t = Retained(s, a, total)
  PROVE  Trimmed(s, t)
<1> DEFINE young == Drop(s, a)
           x == Excess(young, Left(s, a, total))
<1>1. PICK ls \in Nat : ls = Len(s) /\ a \in Nat /\ a <= ls
  OBVIOUS
<1>2. /\ young \in Seq(Event) /\ Len(young) = ls - a
      /\ \A i \in 1..ls - a : young[i] = s[i + a]
  BY <1>1, DroppedFrom
<1>3. x \in 0..Len(young)
  BY <1>2, LeftIs, ExcessIs
<1>4. t = Drop(young, x)
  BY DEF Retained
<1> HIDE DEF young, x
<1>5. x \in Nat /\ x <= ls - a
  BY <1>1, <1>2, <1>3
<1>6. /\ t \in Seq(Event) /\ Len(t) = Len(young) - x
      /\ \A i \in 1..Len(young) - x : t[i] = young[i + x]
  BY <1>2, <1>3, <1>4, DroppedFrom
<1>7. a + x \in 0..ls /\ Len(t) = ls - (a + x)
  BY <1>1, <1>2, <1>5, <1>6
<1>8. ASSUME NEW i \in 1..ls - (a + x) PROVE t[i] = s[i + (a + x)]
  <2>1. i \in 1..Len(young) - x /\ i + x \in 1..ls - a /\ i + x + a = i + (a + x)
    BY <1>1, <1>2, <1>5
  <2>2. t[i] = young[i + x] /\ young[i + x] = s[i + x + a]
    BY <1>2, <1>6, <2>1
  <2> QED
    BY <2>1, <2>2
<1> QED
  BY <1>1, <1>6, <1>7, <1>8 DEF Trimmed

Scans == [at : {"idle", "ids", "rows", "done"}, offset : Nat, ids : Seq(1..MaxId),
          result : Seq(1..MaxId), must : SUBSET (1..MaxId)]

\* A row that was there all the time and is not listed.
Missing(s, c, i) ==
  s[i].kind = "end" /\ s[i].id \in c.must /\ s[i].id \notin ToSet(c.result)

\* A row older than the whole of a full batch, which is still there.
Behind(s, c, i) ==
  /\ Len(s) - i >= c.offset + BatchSize /\ Len(c.ids) = BatchSize
  /\ \A k \in 1..Len(c.ids) : \E j \in 1..Len(s) : i < j /\ s[j].id = c.ids[k]

\* What a listing owes it still reaches: it lies beyond the offset, in the batch that was
\* read or behind it, or the limit ended the listing; and all that was listed is newer.
Reached(s, c, i) ==
  /\ \A j \in 1..Len(s) : s[j].id \in ToSet(c.result) /\ s[j].id \in c.must => i < j
  /\ c.at = "ids" => i + c.offset <= Len(s)
  /\ c.at = "rows" => s[i].id \in ToSet(c.ids) \/ Behind(s, c, i)
  /\ c.at = "done" => Len(c.result) = Limit

Owed(s, c) == \A i \in 1..Len(s) : Missing(s, c, i) => Reached(s, c, i)

\* The rows of a batch that are still there are in the order of the index, newest first.
NewestFirst(s, c) ==
  \A m, n \in 1..Len(c.ids) : \A i, j \in 1..Len(s) :
    m < n /\ s[i].id = c.ids[m] /\ s[j].id = c.ids[n] => j < i

Cleanups == [at : {"rows", "sizes", "delete", "check", "reset", "retain", "serving"},
             ids : SUBSET (1..MaxId), sizes : Nat, short : Int, misread : BOOLEAN]

\* The rows the start-up wants to remove.
Retired(s, u) == {e \in ToSet(s) : e.id \in u.ids}

\* What the start-up is going to take off is no less than what is still there, if it could
\* read the sizes, and so the sum is no more than the rows.
Counted(s, u, top) ==
  /\ \A id \in u.ids : id <= top
  /\ u.at = "delete" /\ ~u.misread => Bytes(Retired(s, u)) <= u.sizes
  /\ ~u.misread => u.short \in Nat

\* Ids are given once.
Distinct(s, top) ==
  /\ \A i, j \in 1..Len(s) : s[i].id = s[j].id => i = j
  /\ \A i \in 1..Len(s) : s[i].id <= top

\* A listing speaks of rows that exist or existed.
Known(s, c, top) ==
  /\ \A id \in c.must : \E i \in 1..Len(s) : s[i].id = id
  /\ \A k \in 1..Len(c.ids) : c.ids[k] <= top
  /\ c.at \in {"ids", "rows"} => Len(c.result) < Limit

Sound(s, c, top) ==
  /\ Distinct(s, top) /\ Known(s, c, top) /\ Owed(s, c) /\ NewestFirst(s, c)

\* The rows of t are rows of s in their order, each at least as far from the newest end and
\* with all that are newer, and perhaps a row with the next id.
Carried(s, t, m, top, next) ==
  /\ m \in [1..Len(t) -> 0..Len(s)]
  /\ \A j \in 1..Len(t) : m[j] = 0 => t[j].id = top + 1 /\ next = top + 1
  /\ \A j \in 1..Len(t) : m[j] # 0 => t[j] = s[m[j]] /\ Len(t) - j >= Len(s) - m[j]
  /\ \A j, k \in 1..Len(t) : m[j] = m[k] => j = k
  /\ \A j, k \in 1..Len(t) : j < k /\ m[j] # 0 /\ m[k] # 0 => m[j] < m[k]
  /\ \A j \in 1..Len(t), i \in 1..Len(s) :
       m[j] # 0 /\ m[j] < i => \E k \in 1..Len(t) : j < k /\ m[k] = i

\* The index moves under a listing, which owes no more than what stays.
LEMMA SoundCarried ==
  ASSUME NEW s \in Seq(Event), NEW t \in Seq(Event), NEW c \in Scans, NEW d \in Scans,
         NEW m, NEW top \in Nat, NEW next \in {top, top + 1},
         Carried(s, t, m, top, next), Sound(s, c, top),
         d.at = c.at, d.offset = c.offset, d.ids = c.ids, d.result = c.result,
         d.must = c.must \cap {e.id : e \in ToSet(t)}
  PROVE  Sound(t, d, next)
<1>1. /\ Len(s) \in Nat /\ Len(t) \in Nat /\ \A i \in 1..Len(s) : s[i] \in Event /\ s[i].id \in Nat
      /\ \A j \in 1..Len(t) : t[j] \in Event /\ t[j].id \in Nat
  <2>1. \A e \in Event : e.id \in Nat
    BY DEF Event
  <2> QED
    BY <2>1
<1>2. /\ m \in [1..Len(t) -> 0..Len(s)]
      /\ \A j \in 1..Len(t) : m[j] \in Nat /\ m[j] <= Len(s) /\ (m[j] # 0 => m[j] \in 1..Len(s))
      /\ \A j \in 1..Len(t) : m[j] = 0 => t[j].id = top + 1 /\ next = top + 1
      /\ \A j \in 1..Len(t) : m[j] # 0 => t[j] = s[m[j]] /\ Len(t) - j >= Len(s) - m[j]
      /\ \A j, k \in 1..Len(t) : m[j] = m[k] => j = k
      /\ \A j, k \in 1..Len(t) : j < k /\ m[j] # 0 /\ m[k] # 0 => m[j] < m[k]
      /\ \A j \in 1..Len(t), i \in 1..Len(s) :
           m[j] # 0 /\ m[j] < i => \E k \in 1..Len(t) : j < k /\ m[k] = i
  <2>1. m \in [1..Len(t) -> 0..Len(s)]
    BY DEF Carried
  <2>2. \A j \in 1..Len(t) : m[j] \in Nat /\ m[j] <= Len(s) /\ (m[j] # 0 => m[j] \in 1..Len(s))
    BY <1>1, <2>1
  <2> QED
    BY <2>1, <2>2 DEF Carried
<1>3. \A j, k \in 1..Len(t) : m[j] # 0 /\ m[k] # 0 /\ m[j] < m[k] => j < k
  <2>1. SUFFICES ASSUME NEW j \in 1..Len(t), NEW k \in 1..Len(t), m[j] # 0, m[k] # 0, m[j] < m[k]
                 PROVE  j < k
    OBVIOUS
  <2>2. j \in Nat /\ k \in Nat /\ m[j] \in Nat /\ m[k] \in Nat
    BY <1>1, <1>2
  <2>3. j # k /\ ~(k < j)
    BY <1>2, <2>1, <2>2
  <2> QED
    BY <2>2, <2>3
<1>4. /\ Distinct(s, top) /\ Known(s, c, top) /\ Owed(s, c) /\ NewestFirst(s, c)
  BY DEF Sound
<1>5. \A i, j \in 1..Len(s) : s[i].id = s[j].id => i = j
  BY <1>4 DEF Distinct
<1>6. \A i \in 1..Len(s) : s[i].id <= top
  BY <1>4 DEF Distinct
<1>7. \A j \in 1..Len(t) : t[j].id <= top => m[j] # 0
  BY <1>1, <1>2
<1>8. Distinct(t, next)
  <2>1. ASSUME NEW i \in 1..Len(t), NEW j \in 1..Len(t), t[i].id = t[j].id PROVE i = j
    <3>1. CASE m[i] # 0 /\ m[j] # 0
      <4>1. s[m[i]].id = s[m[j]].id /\ m[i] \in 1..Len(s) /\ m[j] \in 1..Len(s)
        BY <1>2, <2>1, <3>1
      <4>2. m[i] = m[j]
        BY <1>5, <4>1
      <4> QED
        BY <1>2, <4>2
    <3>2. CASE m[i] = 0 /\ m[j] = 0
      BY <1>2, <3>2
    <3>3. CASE m[i] = 0 /\ m[j] # 0
      <4>1. t[i].id = top + 1
        BY <1>2, <3>3
      <4>2. m[j] \in 1..Len(s) /\ t[j] = s[m[j]]
        BY <1>2, <3>3
      <4>3. t[j].id <= top
        BY <1>6, <4>2
      <4> QED
        BY <1>1, <2>1, <4>1, <4>3
    <3>4. CASE m[i] # 0 /\ m[j] = 0
      <4>1. t[i].id <= top /\ t[j].id = top + 1
        BY <1>2, <1>6, <3>4
      <4> QED
        BY <1>1, <2>1, <4>1
    <3> QED
      BY <3>1, <3>2, <3>3, <3>4
  <2>2. ASSUME NEW j \in 1..Len(t) PROVE t[j].id <= next
    <3>1. CASE m[j] = 0
      BY <1>1, <1>2, <3>1
    <3>2. CASE m[j] # 0
      <4>1. t[j].id <= top
        BY <1>2, <1>6, <3>2
      <4> QED
        BY <1>1, <4>1
    <3> QED
      BY <3>1, <3>2
  <2> QED
    BY <2>1, <2>2 DEF Distinct
<1>9. \A x : x \in ToSet(t) <=> \E j \in 1..Len(t) : t[j] = x
  BY RowsAreFinite
<1>10. \A id \in d.must : id \in c.must /\ \E j \in 1..Len(t) : t[j].id = id
  BY <1>9
<1>11. \A id \in c.must : id <= top
  BY <1>4, <1>6 DEF Known
<1>12. c.ids \in Seq(1..MaxId) /\ Len(c.ids) \in Nat /\ c.offset \in Nat
  BY DEF Scans
<1>13. \A k \in 1..Len(c.ids) : c.ids[k] <= top /\ c.ids[k] \in Nat
  BY <1>4, <1>12, LedgerAssumption DEF Known
<1>14. Known(t, d, next)
  <2>1. \A k \in 1..Len(d.ids) : d.ids[k] <= next
    BY <1>13
  <2>2. d.at \in {"ids", "rows"} => Len(d.result) < Limit
    BY <1>4 DEF Known
  <2> QED
    BY <1>10, <2>1, <2>2 DEF Known
<1>15. NewestFirst(t, d)
  <2>1. SUFFICES ASSUME NEW a \in 1..Len(c.ids), NEW b \in 1..Len(c.ids),
                        NEW i \in 1..Len(t), NEW j \in 1..Len(t),
                        a < b, t[i].id = c.ids[a], t[j].id = c.ids[b]
                 PROVE  j < i
    BY DEF NewestFirst
  <2>2. m[i] # 0 /\ m[j] # 0
    BY <1>7, <1>13, <2>1
  <2>3. m[i] \in 1..Len(s) /\ m[j] \in 1..Len(s) /\ s[m[i]].id = c.ids[a] /\ s[m[j]].id = c.ids[b]
    BY <1>2, <2>1, <2>2
  <2>4. m[j] < m[i]
    BY <1>4, <2>1, <2>3 DEF NewestFirst
  <2> QED
    BY <1>3, <2>2, <2>4
<1>16. Owed(t, d)
  <2>1. SUFFICES ASSUME NEW j \in 1..Len(t), Missing(t, d, j) PROVE Reached(t, d, j)
    BY DEF Owed
  <2>2. t[j].kind = "end" /\ t[j].id \in d.must /\ t[j].id \notin ToSet(c.result)
    BY <2>1 DEF Missing
  <2>3. t[j].id \in c.must /\ m[j] # 0
    BY <1>7, <1>10, <1>11, <2>2
  <2>4. PICK i \in 1..Len(s) : i = m[j] /\ t[j] = s[i] /\ Len(t) - j >= Len(s) - i
    BY <1>2, <2>3
  <2>5. Missing(s, c, i)
    BY <2>2, <2>3, <2>4 DEF Missing
  <2>6. Reached(s, c, i)
    BY <1>4, <2>5 DEF Owed
  <2>7. \A h \in 1..Len(s) : s[h].id \in ToSet(c.result) /\ s[h].id \in c.must => i < h
    BY <2>6 DEF Reached
  <2>8. ASSUME NEW k \in 1..Len(t), t[k].id \in ToSet(d.result), t[k].id \in d.must
        PROVE  j < k
    <3>1. t[k].id \in c.must /\ m[k] # 0 /\ t[k].id \in ToSet(c.result)
      BY <1>7, <1>10, <1>11, <2>8
    <3>2. m[k] \in 1..Len(s) /\ s[m[k]].id = t[k].id
      BY <1>2, <3>1
    <3>3. m[j] < m[k]
      BY <2>4, <2>7, <3>1, <3>2
    <3> QED
      BY <1>3, <2>3, <3>1, <3>3
  <2>9. ASSUME d.at = "ids" PROVE j + d.offset <= Len(t)
    <3>1. i + c.offset <= Len(s)
      BY <2>6, <2>9 DEF Reached
    <3> QED
      BY <1>1, <1>12, <2>4, <3>1
  <2>10. ASSUME d.at = "rows" PROVE t[j].id \in ToSet(d.ids) \/ Behind(t, d, j)
    <3>1. s[i].id \in ToSet(c.ids) \/ Behind(s, c, i)
      BY <2>6, <2>10 DEF Reached
    <3>2. ASSUME Behind(s, c, i) PROVE Behind(t, d, j)
      <4>1. /\ Len(s) - i >= c.offset + BatchSize /\ Len(c.ids) = BatchSize
            /\ \A k \in 1..Len(c.ids) : \E h \in 1..Len(s) : i < h /\ s[h].id = c.ids[k]
        BY <3>2 DEF Behind
      <4>2. Len(t) - j >= d.offset + BatchSize
        <5>1. BatchSize \in Nat
          BY LedgerAssumption
        <5> QED
          BY <1>1, <1>12, <2>4, <4>1, <5>1
      <4>3. ASSUME NEW k \in 1..Len(d.ids)
            PROVE  \E h \in 1..Len(t) : j < h /\ t[h].id = d.ids[k]
        <5>1. PICK h \in 1..Len(s) : i < h /\ s[h].id = c.ids[k]
          BY <4>1
        <5>2. PICK g \in 1..Len(t) : j < g /\ m[g] = h
          BY <1>2, <2>3, <2>4, <5>1
        <5>3. m[g] # 0
          BY <1>1, <5>2
        <5>4. t[g] = s[h]
          BY <1>2, <5>2, <5>3
        <5> QED
          BY <5>1, <5>2, <5>4
      <4> QED
        BY <4>1, <4>2, <4>3 DEF Behind
    <3> QED
      BY <2>4, <3>1, <3>2
  <2>11. d.at = "done" => Len(d.result) = Limit
    BY <2>6 DEF Reached
  <2> QED
    BY <2>8, <2>9, <2>10, <2>11 DEF Reached
<1> QED
  BY <1>8, <1>14, <1>15, <1>16 DEF Sound

\* Retention drops the oldest: what stays has its place from the newest end.
LEMMA DropCarries ==
  ASSUME NEW s \in Seq(Event), NEW t \in Seq(Event), NEW d \in 0..Len(s),
         Len(t) = Len(s) - d, \A i \in 1..Len(s) - d : t[i] = s[i + d],
         NEW top \in Nat, NEW next
  PROVE  \E m : Carried(s, t, m, top, next)
<1> DEFINE m == [j \in 1..Len(t) |-> j + d]
<1>1. PICK ls \in Nat, lt \in Nat : ls = Len(s) /\ lt = Len(t) /\ lt = ls - d /\ d \in Nat
  OBVIOUS
<1>2. \A j \in 1..lt : m[j] = j + d /\ m[j] \in 1..ls
  BY <1>1
<1>3. m \in [1..lt -> 0..ls]
  BY <1>1
<1>4. \A j \in 1..lt : m[j] # 0 /\ t[j] = s[m[j]] /\ lt - j >= ls - m[j]
  BY <1>1, <1>2
<1> HIDE DEF m
<1>a. ASSUME NEW j \in 1..lt, NEW k \in 1..lt
      PROVE  (m[j] = m[k] => j = k) /\ (j < k => m[j] < m[k])
  <2>1. m[j] = j + d /\ m[k] = k + d
    BY <1>2
  <2>2. d \in Nat /\ j \in Nat /\ k \in Nat
    BY <1>1
  <2>3. (j + d = k + d => j = k) /\ (j < k => j + d < k + d)
    BY <2>2
  <2> QED
    BY <2>1, <2>3
<1>5. \A j, k \in 1..lt : m[j] = m[k] => j = k
  BY <1>a, Zenon
<1>6. \A j, k \in 1..lt : j < k => m[j] < m[k]
  BY <1>a, Zenon
<1>7. ASSUME NEW j \in 1..lt, NEW i \in 1..ls, m[j] < i
      PROVE  \E k \in 1..lt : j < k /\ m[k] = i
  <2>1. i - d \in 1..lt /\ j < i - d
    BY <1>1, <1>2, <1>7
  <2>2. m[i - d] = i
    BY <1>1, <1>2, <2>1
  <2> QED
    BY <2>1, <2>2
<1>8. Carried(s, t, m, top, next)
  BY <1>1, <1>3, <1>4, <1>5, <1>6, <1>7 DEF Carried
<1> QED
  BY <1>8

\* So does a row that comes in between.
LEMMA InsertCarries ==
  ASSUME NEW s \in Seq(Event), NEW t \in Seq(Event), NEW e \in Event, NEW p \in 1..Len(s) + 1,
         NEW all, NEW d \in 0..Len(s) + 1,
         \A i \in 1..Len(s) + 1 : all[i] = IF i < p THEN s[i] ELSE IF i = p THEN e ELSE s[i - 1],
         Len(t) = Len(s) + 1 - d, \A i \in 1..Len(s) + 1 - d : t[i] = all[i + d],
         NEW top \in Nat, e.id = top + 1
  PROVE  \E m : Carried(s, t, m, top, top + 1)
<1> DEFINE m == [j \in 1..Len(t) |->
                   IF j + d < p THEN j + d ELSE IF j + d = p THEN 0 ELSE j + d - 1]
<1>1. PICK ls \in Nat, lt \in Nat :
        /\ ls = Len(s) /\ lt = Len(t) /\ lt = ls + 1 - d
        /\ d \in Nat /\ p \in Nat /\ 1 <= p /\ p <= ls + 1
  OBVIOUS
<1>2. \A j \in 1..lt :
        m[j] = IF j + d < p THEN j + d ELSE IF j + d = p THEN 0 ELSE j + d - 1
  BY <1>1
<1>3. \A j \in 1..lt : m[j] \in 0..ls
  BY <1>1, <1>2
<1>4. m \in [1..lt -> 0..ls]
  BY <1>1, <1>3
<1> HIDE DEF m
<1>5. \A j \in 1..lt :
        t[j] = IF j + d < p THEN s[j + d] ELSE IF j + d = p THEN e ELSE s[j + d - 1]
  <2>1. ASSUME NEW j \in 1..lt
        PROVE  t[j] = IF j + d < p THEN s[j + d] ELSE IF j + d = p THEN e ELSE s[j + d - 1]
    <3>1. j + d \in 1..Len(s) + 1 /\ j \in 1..Len(s) + 1 - d
      BY <1>1
    <3>2. t[j] = all[j + d]
      BY <3>1
    <3>3. all[j + d] = IF j + d < p THEN s[j + d] ELSE IF j + d = p THEN e ELSE s[j + d - 1]
      BY <3>1
    <3> QED
      BY <3>2, <3>3
  <2> QED
    BY <2>1
<1>6. ASSUME NEW j \in 1..lt, m[j] = 0 PROVE t[j].id = top + 1
  <2>1. j + d = p
    BY <1>1, <1>2, <1>6
  <2>2. t[j] = e
    BY <1>1, <1>5, <2>1
  <2> QED
    BY <2>2
<1>7. ASSUME NEW j \in 1..lt, m[j] # 0 PROVE t[j] = s[m[j]] /\ lt - j >= ls - m[j]
  BY <1>1, <1>2, <1>5, <1>7
<1>8. ASSUME NEW j \in 1..lt, NEW k \in 1..lt, m[j] = m[k] PROVE j = k
  <2>1. j \in Nat /\ k \in Nat /\ j >= 1 /\ k >= 1
    BY <1>1
  <2>2. CASE j + d < p
    <3>1. m[j] = j + d
      BY <1>2, <2>2
    <3>2. m[k] = IF k + d < p THEN k + d ELSE IF k + d = p THEN 0 ELSE k + d - 1
      BY <1>2
    <3>3. k + d < p
      <4>1. m[k] = j + d
        BY <1>8, <3>1
      <4>2. 0 < j + d
        BY <1>1, <2>1
      <4> QED
        BY <1>1, <2>1, <2>2, <3>2, <4>1, <4>2
    <3>4. k + d = j + d
      BY <1>8, <3>1, <3>2, <3>3
    <3> QED
      BY <1>1, <2>1, <3>4
  <2>3. CASE j + d = p
    BY <1>1, <1>2, <1>8, <2>1, <2>3
  <2>4. CASE j + d > p
    BY <1>1, <1>2, <1>8, <2>1, <2>4
  <2>5. j + d < p \/ j + d = p \/ j + d > p
    BY <1>1, <2>1
  <2> QED
    BY <2>2, <2>3, <2>4, <2>5
<1>9. \A j, k \in 1..lt : j < k /\ m[j] # 0 /\ m[k] # 0 => m[j] < m[k]
  BY <1>1, <1>2
<1>10. ASSUME NEW j \in 1..lt, NEW i \in 1..ls, m[j] # 0, m[j] < i
      PROVE  \E k \in 1..lt : j < k /\ m[k] = i
  <2>1. CASE i < p
    <3>1. m[j] = j + d
      BY <1>1, <1>2, <1>10, <2>1
    <3>2. i - d \in 1..lt /\ j < i - d /\ i - d + d = i
      BY <1>1, <1>10, <2>1, <3>1
    <3>3. m[i - d] = i
      BY <1>2, <2>1, <3>2
    <3> QED
      BY <3>2, <3>3
  <2>2. CASE i >= p
    <3>1. j + d <= i
      BY <1>1, <1>2, <1>10, <2>2
    <3>2. /\ i + 1 - d \in 1..lt /\ j < i + 1 - d /\ i + 1 - d + d = i + 1
          /\ ~(i + 1 < p) /\ i + 1 # p /\ i + 1 - 1 = i
      BY <1>1, <1>10, <2>2, <3>1
    <3>3. m[i + 1 - d] = i
      BY <1>2, <3>2
    <3> QED
      BY <3>2, <3>3
  <2> QED
    BY <1>1, <2>1, <2>2
<1>11. Carried(s, t, m, top, top + 1)
  BY <1>1, <1>4, <1>6, <1>7, <1>8, <1>9, <1>10 DEF Carried
<1> QED
  BY <1>11

\* Saves and trimming bring back nothing that the start-up wants to remove.
LEMMA CountedCarried ==
  ASSUME NEW s \in Seq(Event), NEW t \in Seq(Event), NEW u \in Cleanups, NEW v \in Cleanups,
         NEW m, NEW top \in Nat, NEW next \in {top, top + 1},
         Carried(s, t, m, top, next), Counted(s, u, top), v.ids = u.ids, v.sizes = u.sizes,
         v.at = "delete" /\ ~v.misread => u.at = "delete" /\ ~u.misread,
         ~v.misread => v.short \in Nat
  PROVE  Counted(t, v, next)
<1>1. \A id \in u.ids : id \in Nat /\ id <= top
  <2>1. u.ids \subseteq 1..MaxId
    BY DEF Cleanups
  <2> QED
    BY <2>1 DEF Counted
<1>2. /\ \A j \in 1..Len(t) : m[j] = 0 => t[j].id = top + 1
      /\ \A j \in 1..Len(t) : m[j] # 0 => t[j] = s[m[j]] /\ m[j] \in 1..Len(s)
  <2>1. /\ m \in [1..Len(t) -> 0..Len(s)]
        /\ \A j \in 1..Len(t) : m[j] = 0 => t[j].id = top + 1 /\ next = top + 1
        /\ \A j \in 1..Len(t) : m[j] # 0 => t[j] = s[m[j]] /\ Len(t) - j >= Len(s) - m[j]
    BY DEF Carried
  <2>2. \A j \in 1..Len(t) : m[j] # 0 => m[j] \in 1..Len(s)
    <3>1. \A j \in 1..Len(t) : m[j] \in 0..Len(s)
      BY <2>1
    <3> QED
      BY <3>1
  <2> QED
    BY <2>1, <2>2
<1>3. /\ \A x : x \in ToSet(s) <=> \E i \in 1..Len(s) : s[i] = x
      /\ \A x : x \in ToSet(t) <=> \E i \in 1..Len(t) : t[i] = x
      /\ IsFiniteSet(ToSet(s))
  BY RowsAreFinite
<1>4. ASSUME NEW x \in Retired(t, v) PROVE x \in Retired(s, u)
  <2>1. x \in ToSet(t) /\ x.id \in u.ids
    BY DEF Retired
  <2>2. PICK j \in 1..Len(t) : t[j] = x
    BY <1>3, <2>1
  <2>3. m[j] # 0
    BY <1>1, <1>2, <2>1, <2>2
  <2>4. x \in ToSet(s)
    BY <1>2, <1>3, <2>2, <2>3
  <2> QED
    BY <2>1, <2>4 DEF Retired
<1>5. IsFiniteSet(Retired(s, u))
  BY <1>3, FS_Subset DEF Retired
<1>6. PICK a \in Nat, b \in Nat : a = Bytes(Retired(s, u)) /\ b = Bytes(Retired(t, v)) /\ b <= a
  BY <1>4, <1>5, BytesLess
<1>7. u.at = "delete" /\ ~u.misread => a <= u.sizes /\ u.sizes \in Nat
  BY <1>6 DEF Counted, Cleanups
<1>8. v.at = "delete" /\ ~v.misread => b <= v.sizes
  BY <1>6, <1>7
<1> QED
  BY <1>1, <1>6, <1>8 DEF Counted

(***************************************************************************)
(* The inductive invariant.                                                *)
(***************************************************************************)
ListingInv ==
  /\ seq \in 0..MaxId /\ index \in Seq(Event) /\ bytes \in Int /\ cleanup \in Cleanups
  /\ scan \in Scans
  /\ bytes = Bytes(ToSet(index)) - cleanup.short
  /\ Sound(index, scan, seq)
  /\ Counted(index, cleanup, seq)
  /\ scan.at = "idle" => scan = NoScan

\* What a listing owes when the index is t.
LEMMA OwesIs ==
  ASSUME scan \in Scans, NEW t, NEW d, d = Owes(t)
  PROVE  /\ d \in Scans
         /\ d.at = scan.at /\ d.offset = scan.offset /\ d.ids = scan.ids /\ d.result = scan.result
         /\ d.must = scan.must \cap {e.id : e \in ToSet(t)}
         /\ scan = NoScan => d = NoScan
<1>1. PICK g : g = {e.id : e \in ToSet(t)}
  OBVIOUS
<1>2. d = [at |-> scan.at, offset |-> scan.offset, ids |-> scan.ids, result |-> scan.result,
           must |-> scan.must \cap g]
  BY <1>1 DEF Owes, Scans
<1>3. d \in Scans
  BY <1>2 DEF Scans
<1>4. ASSUME scan = NoScan PROVE d = NoScan
  <2>1. scan.must \cap g = {}
    BY <1>4 DEF NoScan
  <2> QED
    BY <1>2, <1>4, <2>1 DEF NoScan
<1> QED
  BY <1>1, <1>2, <1>3, <1>4

\* The rows of a longer index: the inserted one, which is new, and the others.
LEMMA BytesInserted ==
  ASSUME NEW s \in Seq(Event), NEW e \in Event, NEW p \in 1..Len(s) + 1,
         \A i \in 1..Len(s) : s[i] # e
  PROVE  Bytes(ToSet(InsertAt(s, p, e))) = Bytes(ToSet(s)) + Size(e.kind)
<1>1. PICK r \in Seq(Event) :
        /\ r = InsertAt(s, p, e) /\ Len(r) = Len(s) + 1
        /\ \A i \in 1..Len(s) + 1 : r[i] = IF i < p THEN s[i] ELSE IF i = p THEN e ELSE s[i - 1]
  <2>1. PICK r : r = InsertAt(s, p, e)
    OBVIOUS
  <2> QED
    BY <2>1, InsertedAt
<1>2. \A x : x \in ToSet(r) <=> \E i \in 1..Len(r) : r[i] = x
  BY RowsAreFinite
<1>3. IsFiniteSet(ToSet(s)) /\ \A x : x \in ToSet(s) <=> \E i \in 1..Len(s) : s[i] = x
  BY RowsAreFinite
<1>4. Len(s) \in Nat /\ p \in Nat /\ 1 <= p /\ p <= Len(s) + 1
  OBVIOUS
<1>5. ASSUME NEW x \in ToSet(r) PROVE x \in ToSet(s) \cup {e}
  <2>1. PICK i \in 1..Len(s) + 1 : r[i] = x
    BY <1>1, <1>2
  <2>2. CASE i < p
    BY <1>1, <1>3, <1>4, <2>1, <2>2
  <2>3. CASE i = p
    BY <1>1, <1>4, <2>1, <2>3
  <2>4. CASE i > p
    <3>1. i - 1 \in 1..Len(s) /\ ~(i < p) /\ i # p
      BY <1>4, <2>4
    <3>2. s[i - 1] = x
      BY <1>1, <2>1, <3>1
    <3> QED
      BY <1>3, <3>1, <3>2
  <2> QED
    BY <1>4, <2>2, <2>3, <2>4
<1>6. ASSUME NEW x \in ToSet(s) PROVE x \in ToSet(r)
  <2>1. PICK i \in 1..Len(s) : s[i] = x
    BY <1>3
  <2>2. CASE i < p
    <3>1. i \in 1..Len(s) + 1
      BY <1>4
    <3> QED
      BY <1>1, <1>2, <2>1, <2>2, <3>1
  <2>3. CASE ~(i < p)
    <3>1. i + 1 \in 1..Len(s) + 1 /\ ~(i + 1 < p) /\ i + 1 # p /\ i + 1 - 1 = i
      BY <1>4, <2>3
    <3>2. r[i + 1] = s[i]
      BY <1>1, <3>1
    <3> QED
      BY <1>1, <1>2, <2>1, <3>1, <3>2
  <2> QED
    BY <2>2, <2>3
<1>7. e \in ToSet(r)
  <2>1. r[p] = e
    BY <1>1, <1>4
  <2> QED
    BY <1>1, <1>2, <2>1
<1>8. ToSet(r) = ToSet(s) \cup {e}
  BY <1>5, <1>6, <1>7
<1>9. e \notin ToSet(s)
  BY <1>3
<1>10. Bytes(ToSet(s) \cup {e}) = Bytes(ToSet(s)) + Size(e.kind)
  BY <1>3, <1>9, BytesOf
<1> QED
  BY <1>1, <1>8, <1>10

\* The invariant of a next state, in names of its own.
LEMMA ListingInvNext ==
  ASSUME NEW q, NEW t, NEW b, NEW u, NEW d,
         q = seq', t = index', b = bytes', u = cleanup', d = scan',
         q \in 0..MaxId, t \in Seq(Event), b \in Int, u \in Cleanups, d \in Scans,
         b = Bytes(ToSet(t)) - u.short, Sound(t, d, q), Counted(t, u, q),
         d.at = "idle" => d = NoScan
  PROVE  ListingInv'
<1>1. Sound(index, scan, seq)'
  BY DEF Sound, Distinct, Known, Owed, Missing, Reached, Behind, NewestFirst
<1>2. (bytes = Bytes(ToSet(index)) - cleanup.short)'
  BY DEF Bytes, ToSet
<1>3. /\ (seq \in 0..MaxId)' /\ (index \in Seq(Event))' /\ (bytes \in Int)'
      /\ (cleanup \in Cleanups)' /\ (scan \in Scans)'
      /\ (scan.at = "idle" => scan = NoScan)'
  BY DEF Scans, NoScan, Event, Cleanups
<1>4. Counted(index, cleanup, seq)'
  BY DEF Counted, Retired, Bytes, ToSet
<1> QED
  BY <1>1, <1>2, <1>3, <1>4 DEF ListingInv

\* The idle listing owes nothing.
LEMMA IdleIsSound ==
  ASSUME NEW t \in Seq(Event), NEW top \in Nat, Distinct(t, top)
  PROVE  NoScan \in Scans /\ Sound(t, NoScan, top)
<1>1. NoScan = [at |-> "idle", offset |-> 0, ids |-> <<>>, result |-> <<>>, must |-> {}]
  BY DEF NoScan
<1>2. <<>> \in Seq(1..MaxId)
  OBVIOUS
<1>3. NoScan \in Scans
  BY <1>1, <1>2 DEF Scans
<1>4. Len(NoScan.ids) = 0 /\ NoScan.must = {} /\ NoScan.at = "idle"
  BY <1>1
<1>5. Known(t, NoScan, top) /\ NewestFirst(t, NoScan) /\ Owed(t, NoScan)
  BY <1>4 DEF Known, NewestFirst, Owed, Missing
<1> QED
  BY <1>3, <1>5 DEF Sound

\* At the start: the rows of an earlier version, and no listing.
LEMMA InitListing ==
  LedgerInit => ListingInv
<1> SUFFICES ASSUME LedgerInit PROVE ListingInv
  OBVIOUS
<1>1. PICK t : t = Legacy
  OBVIOUS
<1>2. MaxId \in Nat /\ 2 <= MaxId
  BY LedgerAssumption
<1>3. t \in Seq(Event) /\ Len(t) = 2 /\ t[1].id = 1 /\ t[2].id = 2
  <2>1. [id |-> 1, kind |-> "end"] \in Event /\ [id |-> 2, kind |-> "log"] \in Event
    BY <1>2 DEF Event, EventKinds
  <2> QED
    BY <1>1, <2>1 DEF Legacy
<1>4. seq = 2 /\ index = t /\ bytes = Bytes(ToSet(t)) /\ cleanup = NoCleanup /\ scan = NoScan
  BY <1>1, <1>3 DEF LedgerInit
<1>5. Distinct(t, 2)
  <2>1. \A i \in 1..2 : t[i].id = i
    BY <1>3
  <2> QED
    BY <1>3, <2>1 DEF Distinct
<1>6. NoScan \in Scans /\ Sound(t, NoScan, 2)
  BY <1>3, <1>5, IdleIsSound
<1>7. IsFiniteSet(ToSet(t))
  BY <1>3, RowsAreFinite
<1>8. Bytes(ToSet(t)) \in Nat
  BY <1>7, HeldIsFinite
<1>9. Sound(index, scan, seq) /\ 2 \in 0..MaxId
  BY <1>2, <1>4, <1>6
<1>10. NoCleanup = [at |-> "rows", ids |-> {}, sizes |-> 0, short |-> 0, misread |-> FALSE]
  BY DEF NoCleanup
<1>11. cleanup \in Cleanups /\ cleanup.short = 0 /\ cleanup.at = "rows" /\ cleanup.ids = {}
  BY <1>4, <1>10 DEF Cleanups
<1>12. Counted(index, cleanup, seq)
  BY <1>11 DEF Counted
<1>13. bytes = Bytes(ToSet(index)) - cleanup.short /\ bytes \in Int
  BY <1>4, <1>8, <1>11
<1> QED
  BY <1>3, <1>4, <1>6, <1>9, <1>11, <1>12, <1>13 DEF ListingInv

\* An event is stored and the oldest are trimmed.
LEMMA InsertListing ==
  ASSUME ListingInv, NEW kind \in EventKinds, NEW late \in BOOLEAN, NEW aged \in Nat,
         InsertEvent(kind, late, aged)
  PROVE  ListingInv'
<1>1. PICK q, s, b, c, u : q = seq /\ s = index /\ b = bytes /\ c = scan /\ u = cleanup
  OBVIOUS
<1>2. PICK r, t, f, d : r = seq' /\ t = index' /\ f = bytes' /\ d = scan'
  OBVIOUS
<1>3. /\ q \in 0..MaxId /\ s \in Seq(Event) /\ b \in Int /\ c \in Scans /\ u \in Cleanups
      /\ b = Bytes(ToSet(s)) - u.short /\ Sound(s, c, q) /\ Counted(s, u, q)
      /\ (c.at = "idle" => c = NoScan)
  BY <1>1 DEF ListingInv
<1> DEFINE p   == IF late /\ s # <<>> THEN Len(s) ELSE Len(s) + 1
           e   == [id |-> q + 1, kind |-> kind]
           all == InsertAt(s, p, e)
           a   == IF p > aged THEN aged ELSE p - 1
<1>4. /\ q < MaxId /\ aged <= Len(s) /\ r = q + 1 /\ t = Retained(all, a, b + Size(kind))
      /\ f = b + Size(kind) - (Bytes(ToSet(all)) - Bytes(ToSet(t)))
      /\ d = Owes(t) /\ u = cleanup'
  BY <1>1, <1>2 DEF InsertEvent
<1>5. p \in 1..Len(s) + 1
  <2>1. Len(s) \in Nat /\ (s # <<>> => Len(s) # 0)
    BY <1>3
  <2> QED
    BY <2>1
<1>6. MaxId \in Nat /\ q \in Nat /\ e \in Event /\ e.id = q + 1 /\ e.kind = kind
  <2>1. MaxId \in Nat /\ q \in Nat
    BY <1>3, LedgerAssumption
  <2> QED
    BY <1>4, <2>1 DEF Event
<1> HIDE DEF p, e
<1>7. /\ all \in Seq(Event) /\ Len(all) = Len(s) + 1
      /\ \A i \in 1..Len(s) + 1 : all[i] = IF i < p THEN s[i] ELSE IF i = p THEN e ELSE s[i - 1]
  <2>1. s \in Seq(Event) /\ e \in Event /\ p \in 1..Len(s) + 1
    BY <1>3, <1>5, <1>6
  <2>2. all = InsertAt(s, p, e)
    OBVIOUS
  <2> HIDE DEF all
  <2> QED
    BY <2>1, <2>2, InsertedAt
<1>8. a \in 0..Len(all)
  BY <1>3, <1>4, <1>5, <1>7
<1>9. Bytes(ToSet(all)) = Bytes(ToSet(s)) + Size(kind)
  <2>1. \A i \in 1..Len(s) : s[i] # e
    <3>1. \A i \in 1..Len(s) : s[i].id <= q
      BY <1>3 DEF Sound, Distinct
    <3> QED
      BY <1>3, <1>6, <3>1
  <2> QED
    BY <1>3, <1>5, <1>6, <2>1, BytesInserted
<1> HIDE DEF all, a
<1>10. b + Size(kind) \in Int
  <2>1. Size(kind) \in Nat
    BY DEF Size
  <2> QED
    BY <1>3, <2>1
<1>11. Trimmed(all, t)
  <2>1. PICK z : z = b + Size(kind)
    OBVIOUS
  <2>2. all \in Seq(Event) /\ a \in 0..Len(all) /\ z \in Int /\ t = Retained(all, a, z)
    BY <1>4, <1>7, <1>8, <1>10, <2>1
  <2> QED
    BY <2>2, RetainedIs
<1>12. t \in Seq(Event)
  BY <1>11 DEF Trimmed
<1>13. PICK h \in 0..Len(s) + 1 : /\ Len(t) = Len(s) + 1 - h
                                  /\ \A i \in 1..Len(s) + 1 - h : t[i] = all[i + h]
  BY <1>7, <1>11 DEF Trimmed
<1>14. PICK m : Carried(s, t, m, q, q + 1)
  <2>1. PICK y, g, z : y = p /\ g = e /\ z = all
    OBVIOUS
  <2>2. y \in 1..Len(s) + 1 /\ g \in Event /\ g.id = q + 1
    BY <1>5, <1>6, <2>1
  <2>3. \A i \in 1..Len(s) + 1 : z[i] = IF i < y THEN s[i] ELSE IF i = y THEN g ELSE s[i - 1]
    BY <1>7, <2>1
  <2>4. \A i \in 1..Len(s) + 1 - h : t[i] = z[i + h]
    BY <1>13, <2>1
  <2>5. \E m : Carried(s, t, m, q, q + 1)
    <3>1. s \in Seq(Event) /\ t \in Seq(Event) /\ q \in Nat /\ h \in 0..Len(s) + 1
      BY <1>3, <1>6, <1>12, <1>13
    <3>2. Len(t) = Len(s) + 1 - h
      BY <1>13
    <3> QED
      BY <2>2, <2>3, <2>4, <3>1, <3>2, InsertCarries, ZenonT(90)
  <2> QED
    BY <2>5
<1>15. /\ d \in Scans /\ d.at = c.at /\ d.offset = c.offset /\ d.ids = c.ids /\ d.result = c.result
       /\ d.must = c.must \cap {g.id : g \in ToSet(t)} /\ (c = NoScan => d = NoScan)
  BY <1>1, <1>3, <1>4, OwesIs
<1>16. Sound(t, d, r)
  <2>1. /\ s \in Seq(Event) /\ t \in Seq(Event) /\ c \in Scans /\ q \in Nat /\ r \in {q, q + 1}
        /\ Sound(s, c, q) /\ Carried(s, t, m, q, r)
    BY <1>3, <1>4, <1>6, <1>12, <1>14
  <2> QED
    BY <1>15, <2>1, SoundCarried
<1>17. IsFiniteSet(ToSet(t))
  BY <1>12, RowsAreFinite
<1>18. Bytes(ToSet(t)) \in Nat
  BY <1>17, HeldIsFinite
<1>19. f = Bytes(ToSet(t)) - u.short /\ f \in Int
  <2>1. PICK n \in Nat : n = Size(kind)
    BY DEF Size
  <2>2. PICK y \in Nat : y = Bytes(ToSet(t))
    BY <1>18
  <2>3. PICK z \in Nat : z = Bytes(ToSet(s))
    <3>1. IsFiniteSet(ToSet(s))
      BY <1>3, RowsAreFinite
    <3> QED
      BY <3>1, HeldIsFinite
  <2>4. PICK k \in Int : k = u.short
    BY <1>3 DEF Cleanups
  <2>5. f = b + n - (z + n - y) /\ b = z - k
    BY <1>3, <1>4, <1>9, <2>1, <2>2, <2>3, <2>4
  <2>6. f = y - k
    BY <2>5
  <2> QED
    BY <2>2, <2>4, <2>6
<1>20. r \in 0..MaxId
  BY <1>4, <1>6
<1>21. Counted(t, u, r)
  <2>1. ~u.misread => u.short \in Nat
    BY <1>3 DEF Counted
  <2> QED
    BY <1>3, <1>4, <1>6, <1>12, <1>14, <2>1, CountedCarried, ZenonT(90)
<1>22. d.at = "idle" => d = NoScan
  BY <1>3, <1>15
<1> QED
  BY <1>2, <1>3, <1>4, <1>12, <1>15, <1>16, <1>19, <1>20, <1>21, <1>22, ListingInvNext

\* The oldest are trimmed, or everything is; `k' is what the sum falls short by then.
LEMMA TrimListing ==
  ASSUME ListingInv, NEW t \in Seq(Event), NEW h \in 0..Len(index), NEW k \in Int, NEW u \in Cleanups,
         Len(t) = Len(index) - h, \A i \in 1..Len(index) - h : t[i] = index[i + h],
         t = index', bytes' = Bytes(ToSet(t)) - k, scan' = Owes(t), seq' = seq,
         u = cleanup', u.short = k, u.ids = cleanup.ids, u.sizes = cleanup.sizes,
         u.at = "delete" /\ ~u.misread => cleanup.at = "delete" /\ ~cleanup.misread,
         ~u.misread => k \in Nat
  PROVE  ListingInv'
<1>1. PICK q, s, c, w : q = seq /\ s = index /\ c = scan /\ w = cleanup
  OBVIOUS
<1>2. PICK f, d : f = bytes' /\ d = scan'
  OBVIOUS
<1>3. /\ q \in 0..MaxId /\ s \in Seq(Event) /\ c \in Scans /\ w \in Cleanups
      /\ Sound(s, c, q) /\ Counted(s, w, q) /\ (c.at = "idle" => c = NoScan)
  BY <1>1 DEF ListingInv
<1>4. q \in Nat /\ h \in 0..Len(s)
  BY <1>1, <1>3, LedgerAssumption
<1>5. PICK m : Carried(s, t, m, q, q)
  <2>1. Len(t) = Len(s) - h /\ \A i \in 1..Len(s) - h : t[i] = s[i + h]
    BY <1>1
  <2> QED
    BY <1>3, <1>4, <2>1, DropCarries
<1>6. /\ d \in Scans /\ d.at = c.at /\ d.offset = c.offset /\ d.ids = c.ids /\ d.result = c.result
      /\ d.must = c.must \cap {g.id : g \in ToSet(t)} /\ (c = NoScan => d = NoScan)
  BY <1>1, <1>2, <1>3, OwesIs
<1>7. Sound(t, d, q)
  BY <1>3, <1>4, <1>5, <1>6, SoundCarried
<1>8. IsFiniteSet(ToSet(t))
  BY RowsAreFinite
<1>9. Bytes(ToSet(t)) \in Nat
  BY <1>8, HeldIsFinite
<1>10. f = Bytes(ToSet(t)) - u.short /\ f \in Int
  BY <1>2, <1>9
<1>11. Counted(t, u, q)
  <2>1. /\ u.ids = w.ids /\ u.sizes = w.sizes
        /\ u.at = "delete" /\ ~u.misread => w.at = "delete" /\ ~w.misread
        /\ ~u.misread => u.short \in Nat
    BY <1>1
  <2> QED
    BY <1>3, <1>4, <1>5, <2>1, CountedCarried
<1>12. d.at = "idle" => d = NoScan
  BY <1>3, <1>6
<1> QED
  BY <1>1, <1>2, <1>3, <1>6, <1>7, <1>10, <1>11, <1>12, ListingInvNext

\* The start-up applies the retention.
LEMMA RetainListing ==
  ASSUME ListingInv, NEW aged, aged \in 0..Len(index), RetainEvents(aged)
  PROVE  ListingInv'
<1>1. PICK s, b, w : s = index /\ b = bytes /\ w = cleanup
  OBVIOUS
<1>2. PICK t, u : t = index' /\ u = cleanup'
  OBVIOUS
<1>3. s \in Seq(Event) /\ b \in Int /\ w \in Cleanups /\ b = Bytes(ToSet(s)) - w.short
  BY <1>1 DEF ListingInv
<1>4. /\ t = Retained(s, aged, b) /\ bytes' = b - (Bytes(ToSet(s)) - Bytes(ToSet(t)))
      /\ u = [w EXCEPT !.at = "serving"] /\ scan' = Owes(t) /\ seq' = seq
  BY <1>1, <1>2 DEF RetainEvents
<1>5. t \in Seq(Event) /\ Trimmed(s, t)
  <2>1. s \in Seq(Event) /\ aged \in 0..Len(s) /\ b \in Int /\ t = Retained(s, aged, b)
    BY <1>1, <1>3, <1>4
  <2> QED
    BY <2>1, RetainedIs DEF Trimmed
<1>6. PICK h \in 0..Len(index) :
        Len(t) = Len(index) - h /\ \A i \in 1..Len(index) - h : t[i] = index[i + h]
  BY <1>1, <1>5 DEF Trimmed
<1>7. IsFiniteSet(ToSet(s)) /\ IsFiniteSet(ToSet(t))
  BY <1>3, <1>5, RowsAreFinite
<1>8. PICK k \in Int, x \in Nat, y \in Nat : k = w.short /\ x = Bytes(ToSet(s)) /\ y = Bytes(ToSet(t))
  BY <1>3, <1>7, HeldIsFinite DEF Cleanups
<1>9. bytes' = Bytes(ToSet(t)) - k
  <2>1. bytes' = b - (x - y) /\ b = x - k
    BY <1>3, <1>4, <1>8
  <2>2. PICK f : f = bytes'
    OBVIOUS
  <2>3. f = b - (x - y) /\ b = x - k
    BY <2>1, <2>2
  <2>4. f = y - k
    BY <2>3
  <2> QED
    BY <1>8, <2>2, <2>4
<1>10. u \in Cleanups /\ u.short = k /\ u.ids = cleanup.ids /\ u.sizes = cleanup.sizes
       /\ u.at = "serving" /\ u.misread = w.misread
  BY <1>1, <1>3, <1>4, <1>8 DEF Cleanups
<1>11. ~u.misread => k \in Nat
  BY <1>1, <1>8, <1>10 DEF ListingInv, Counted
<1> QED
  BY <1>2, <1>4, <1>5, <1>6, <1>9, <1>10, <1>11, TrimListing

\* The clearing trims everything.
LEMMA ClearListing ==
  ASSUME ListingInv, ClearEvents
  PROVE  ListingInv'
<1>1. PICK s, w, t : s = index /\ w = cleanup /\ t = index'
  OBVIOUS
<1>2. PICK u : u = cleanup'
  OBVIOUS
<1>3. s \in Seq(Event) /\ w \in Cleanups
  BY <1>1 DEF ListingInv
<1>4. /\ w.at = "serving" /\ t = <<>> /\ bytes' = 0 /\ scan' = Owes(t) /\ seq' = seq
      /\ u = [w EXCEPT !.short = 0, !.misread = FALSE]
  BY <1>1, <1>2 DEF ClearEvents
<1>5. PICK h \in Nat : h = Len(index) /\ h = Len(s)
  BY <1>1, <1>3
<1>6. t \in Seq(Event) /\ Len(t) = 0
  BY <1>4
<1>7. Len(t) = Len(index) - h /\ \A i \in 1..Len(index) - h : t[i] = index[i + h]
  BY <1>5, <1>6
<1>8. Bytes(ToSet(t)) = 0
  <2>1. \A x : x \in ToSet(t) <=> \E i \in 1..Len(t) : t[i] = x
    BY <1>6, RowsAreFinite
  <2>2. ToSet(t) = {}
    BY <1>6, <2>1
  <2>3. Held({}) = {} /\ Bytes({}) = Cardinality(Held({}))
    BY DEF Held, Bytes
  <2> QED
    BY <2>2, <2>3, FS_EmptySet
<1>9. u \in Cleanups /\ u.short = 0 /\ u.ids = cleanup.ids /\ u.sizes = cleanup.sizes
      /\ u.at = "serving"
  <2>1. u = [at |-> w.at, ids |-> w.ids, sizes |-> w.sizes, short |-> 0, misread |-> FALSE]
    BY <1>3, <1>4 DEF Cleanups
  <2>2. w.at \in {"serving"} /\ w.ids \in SUBSET (1..MaxId) /\ w.sizes \in Nat
    BY <1>3, <1>4 DEF Cleanups
  <2>3. u \in Cleanups
    BY <2>1, <2>2 DEF Cleanups
  <2> QED
    BY <1>1, <2>1, <2>2, <2>3
<1>10. bytes' = Bytes(ToSet(t)) - 0 /\ h \in 0..Len(index) /\ 0 \in Int /\ 0 \in Nat
  BY <1>4, <1>5, <1>8
<1> QED
  BY <1>1, <1>2, <1>4, <1>6, <1>7, <1>9, <1>10, TrimListing

\* The commands of the start-up that change nothing but what it has read.
LEMMA CleanupListing ==
  ASSUME ListingInv, NEW u \in Cleanups, u = cleanup', Counted(index, u, seq),
         u.short = cleanup.short, UNCHANGED <<seq, index, bytes, scan>>
  PROVE  ListingInv'
<1>1. PICK q, s, b, c : q = seq /\ s = index /\ b = bytes /\ c = scan
  OBVIOUS
<1>2. /\ q \in 0..MaxId /\ s \in Seq(Event) /\ b \in Int /\ c \in Scans
      /\ b = Bytes(ToSet(s)) - u.short /\ Sound(s, c, q) /\ Counted(s, u, q)
      /\ (c.at = "idle" => c = NoScan)
  BY <1>1 DEF ListingInv
<1>3. q = seq' /\ s = index' /\ b = bytes' /\ c = scan'
  BY <1>1
<1> QED
  BY <1>2, <1>3, ListingInvNext

\* The start-up reads the rows.
LEMMA ReadRetiredListing ==
  ASSUME ListingInv, NEW kind, ReadRetired(kind)
  PROVE  ListingInv'
<1>1. PICK s, q, w, u : s = index /\ q = seq /\ w = cleanup /\ u = cleanup'
  OBVIOUS
<1>2. PICK ids : ids = {e.id : e \in {row \in ToSet(s) : row.kind = kind}}
  OBVIOUS
<1>3. /\ u = [w EXCEPT !.ids = ids, !.at = IF ids = {} THEN "retain" ELSE "sizes"]
      /\ UNCHANGED <<seq, index, bytes, scan>>
  BY <1>1, <1>2 DEF ReadRetired
<1>4. s \in Seq(Event) /\ w \in Cleanups /\ \A i \in 1..Len(s) : s[i].id <= q
  BY <1>1 DEF ListingInv, Sound, Distinct
<1>5. \A x : x \in ToSet(s) <=> \E i \in 1..Len(s) : s[i] = x
  BY <1>4, RowsAreFinite
<1>6. ASSUME NEW id \in ids PROVE id \in 1..MaxId /\ id <= q
  <2>1. PICK e \in ToSet(s) : id = e.id
    BY <1>2
  <2>2. PICK i \in 1..Len(s) : s[i] = e
    BY <1>5
  <2>3. e \in Event
    BY <1>4, <2>2
  <2> QED
    BY <1>4, <2>1, <2>2, <2>3 DEF Event
<1>7. ids \in SUBSET (1..MaxId)
  BY <1>6
<1>8. u \in Cleanups /\ u.short = w.short /\ u.ids = ids /\ u.at # "delete"
      /\ u.misread = w.misread
  BY <1>3, <1>4, <1>7 DEF Cleanups
<1>9. Counted(index, u, seq)
  BY <1>1, <1>6, <1>8 DEF Counted, ListingInv
<1> QED
  BY <1>1, <1>3, <1>8, <1>9, CleanupListing

\* And their sizes.
LEMMA ReadSizesListing ==
  ASSUME ListingInv, ReadSizes
  PROVE  ListingInv'
<1>1. PICK s, q, w, u : s = index /\ q = seq /\ w = cleanup /\ u = cleanup'
  OBVIOUS
<1>2. s \in Seq(Event) /\ w \in Cleanups /\ Counted(s, w, q)
  BY <1>1 DEF ListingInv
<1>3. IsFiniteSet(ToSet(s))
  BY <1>2, RowsAreFinite
<1>4. IsFiniteSet(Retired(s, w))
  BY <1>3, FS_Subset DEF Retired
<1>5. PICK unread \in SUBSET Retired(s, w) :
        /\ u = [w EXCEPT !.at = "delete", !.sizes = Bytes(Retired(s, w) \ unread),
                         !.misread = w.misread \/ unread # {}]
        /\ UNCHANGED <<seq, index, bytes, scan>>
  BY <1>1 DEF ReadSizes, RowsOf, Retired
<1>6. PICK n \in Nat : n = Bytes(Retired(s, w) \ unread)
  <2>1. IsFiniteSet(Retired(s, w) \ unread)
    BY <1>4, FS_Difference
  <2> QED
    BY <2>1, HeldIsFinite
<1>7. u \in Cleanups /\ u.short = w.short /\ u.ids = w.ids /\ u.sizes = n
      /\ (~u.misread => unread = {} /\ ~w.misread)
  BY <1>2, <1>5, <1>6 DEF Cleanups
<1>8. Retired(s, u) = Retired(s, w)
  BY <1>7 DEF Retired
<1>9. Counted(index, u, seq)
  <2>1. ~u.misread => Bytes(Retired(s, u)) = n
    <3>1. Retired(s, w) \ {} = Retired(s, w)
      OBVIOUS
    <3> QED
      BY <1>6, <1>7, <1>8, <3>1
  <2>2. \A id \in u.ids : id <= q
    BY <1>2, <1>7 DEF Counted
  <2>3. ~u.misread => u.short \in Nat
    BY <1>2, <1>7 DEF Counted
  <2>4. ~u.misread => Bytes(Retired(s, u)) <= u.sizes
    BY <1>7, <2>1
  <2> QED
    BY <1>1, <2>2, <2>3, <2>4 DEF Counted
<1> QED
  BY <1>1, <1>5, <1>7, <1>9, CleanupListing

\* The rows that are left, by their places before.
LEMMA KeptRows ==
  ASSUME NEW s, s \in Seq(Event), NEW T, NEW t, t = Kept(s, T)
  PROVE  \E m \in [1..Len(t) -> 1..Len(s)] :
           /\ \A i \in 1..Len(t) : t[i] = s[m[i]] /\ s[m[i]] \in T
           /\ \A i, j \in 1..Len(t) : i < j => m[i] < m[j]
           /\ \A i \in 1..Len(s) : s[i] \in T => \E j \in 1..Len(t) : m[j] = i
<1>1. PICK V : V = Event
  OBVIOUS
<1>2. s \in Seq(V)
  BY <1>1
<1> QED
  BY <1>2, KeptOf

\* It takes the rows out of the middle: what the sum loses is at least what they hold, and
\* a listing in progress is promised nothing more.
LEMMA DeleteListing ==
  ASSUME ListingInv, DeleteRetired
  PROVE  ListingInv'
<1>1. PICK q, s, b, c, w : q = seq /\ s = index /\ b = bytes /\ c = scan /\ w = cleanup
  OBVIOUS
<1>2. PICK t, f, d, u : t = index' /\ f = bytes' /\ d = scan' /\ u = cleanup'
  OBVIOUS
<1>3. PICK A, B : A = ToSet(s) /\ B = Retired(s, w)
  OBVIOUS
<1>4. /\ q \in 0..MaxId /\ s \in Seq(Event) /\ b \in Int /\ c \in Scans /\ w \in Cleanups
      /\ b = Bytes(A) - w.short /\ Sound(s, c, q) /\ Counted(s, w, q)
      /\ (c.at = "idle" => c = NoScan)
  BY <1>1, <1>3 DEF ListingInv
<1>5. /\ w.at = "delete" /\ t = Kept(s, A \ B) /\ f = b - w.sizes
      /\ u = [NoCleanup EXCEPT !.at = "check", !.misread = w.misread,
                               !.short = w.short + w.sizes - Bytes(B)]
      /\ d = IF t = s THEN c ELSE [c EXCEPT !.must = {}]
      /\ seq' = q
  BY <1>1, <1>2, <1>3 DEF DeleteRetired, RowsOf, Retired
<1>6. /\ IsFiniteSet(A) /\ \A x : x \in A <=> \E i \in 1..Len(s) : s[i] = x
      /\ \A x \in B : x \in A
  BY <1>3, <1>4, RowsAreFinite DEF Retired
<1>7. PICK x, y : /\ x \in Nat /\ y \in Nat
                  /\ x = Bytes(A) /\ y = Bytes(B) /\ Bytes(A \ B) = x - y
  BY <1>6, BytesLess
<1>8. PICK k, n : /\ k \in Int /\ n \in Nat /\ k = w.short /\ n = w.sizes
                  /\ ~w.misread => y <= n /\ k \in Nat
  BY <1>3, <1>4, <1>5, <1>7 DEF Cleanups, Counted
<1>9. t \in Seq(Event) /\ Len(t) \in Nat
  BY <1>4, <1>5, KeptOf
<1>10. PICK m \in [1..Len(t) -> 1..Len(s)] :
        /\ \A i \in 1..Len(t) : t[i] = s[m[i]] /\ s[m[i]] \in A \ B
        /\ \A i, j \in 1..Len(t) : i < j => m[i] < m[j]
        /\ \A i \in 1..Len(s) : s[i] \in A \ B => \E j \in 1..Len(t) : m[j] = i
  <2>1. PICK T : T = A \ B
    OBVIOUS
  <2>2. s \in Seq(Event) /\ t = Kept(s, T)
    BY <1>4, <1>5, <2>1
  <2>3. \E m \in [1..Len(t) -> 1..Len(s)] :
          /\ \A i \in 1..Len(t) : t[i] = s[m[i]] /\ s[m[i]] \in T
          /\ \A i, j \in 1..Len(t) : i < j => m[i] < m[j]
          /\ \A i \in 1..Len(s) : s[i] \in T => \E j \in 1..Len(t) : m[j] = i
    BY <2>2, KeptRows
  <2> QED
    BY <2>1, <2>3
<1>11. \A i \in 1..Len(t) : m[i] \in 1..Len(s) /\ m[i] \in Nat
  BY <1>4
<1>12. ToSet(t) = A \ B
  <2>1. \A z : z \in ToSet(t) <=> \E i \in 1..Len(t) : t[i] = z
    BY <1>9, RowsAreFinite
  <2>2. ASSUME NEW z \in ToSet(t) PROVE z \in A \ B
    BY <1>10, <2>1
  <2>3. ASSUME NEW z \in A \ B PROVE z \in ToSet(t)
    <3>1. PICK i \in 1..Len(s) : s[i] = z
      BY <1>6
    <3>2. PICK j \in 1..Len(t) : m[j] = i
      BY <1>10, <3>1
    <3> QED
      BY <1>10, <2>1, <3>1, <3>2
  <2> QED
    BY <2>2, <2>3
<1>13. u = [at |-> "check", ids |-> {}, sizes |-> 0, short |-> k + n - y,
            misread |-> w.misread]
  BY <1>5, <1>7, <1>8 DEF NoCleanup
<1>14. u \in Cleanups /\ Counted(t, u, q)
  <2>1. PICK z : z = k + n - y
    OBVIOUS
  <2>2. ASSUME ~w.misread PROVE z \in Nat
    <3>1. y <= n /\ k \in Nat /\ n \in Nat /\ y \in Nat
      BY <1>7, <1>8, <2>2
    <3> QED
      BY <2>1, <3>1
  <2>3. z \in Int
    <3>1. k \in Int /\ n \in Nat /\ y \in Nat
      BY <1>7, <1>8
    <3> QED
      BY <2>1, <3>1
  <2>4. w.misread \in BOOLEAN
    BY <1>4 DEF Cleanups
  <2> QED
    BY <1>13, <2>1, <2>2, <2>3, <2>4 DEF Cleanups, Counted
<1>15. f = Bytes(ToSet(t)) - u.short /\ f \in Int
  <2>1. f = (x - k) - n /\ u.short = k + n - y /\ Bytes(ToSet(t)) = x - y
    BY <1>4, <1>5, <1>7, <1>8, <1>12, <1>13
  <2>2. x \in Nat /\ y \in Nat /\ k \in Int /\ n \in Nat
    BY <1>7, <1>8
  <2>3. f = (x - y) - (k + n - y) /\ f \in Int
    BY <2>1, <2>2
  <2> QED
    BY <2>1, <2>3
<1>16. CASE t = s
  <2>1. d = c /\ d = scan' /\ t = index'
    BY <1>2, <1>5, <1>16
  <2> QED
    BY <1>2, <1>4, <1>5, <1>9, <1>14, <1>15, <1>16, <2>1, ListingInvNext, ZenonT(90)
<1>17. CASE t # s
  <2>1. d = [at |-> c.at, offset |-> c.offset, ids |-> c.ids, result |-> c.result, must |-> {}]
    BY <1>4, <1>5, <1>17 DEF Scans
  <2>2. d \in Scans
    BY <1>4, <2>1 DEF Scans
  <2>3. Distinct(t, q)
    <3>1. /\ \A i, j \in 1..Len(s) : s[i].id = s[j].id => i = j
          /\ \A i \in 1..Len(s) : s[i].id <= q
      BY <1>4 DEF Sound, Distinct
    <3>2. ASSUME NEW i \in 1..Len(t), NEW j \in 1..Len(t), t[i].id = t[j].id PROVE i = j
      <4>1. m[i] = m[j]
        BY <1>10, <1>11, <3>1, <3>2
      <4>2. ~(i < j) /\ ~(j < i)
        BY <1>10, <1>11, <4>1
      <4> QED
        BY <1>9, <4>2
    <3>3. ASSUME NEW i \in 1..Len(t) PROVE t[i].id <= q
      BY <1>10, <1>11, <3>1
    <3> QED
      BY <3>2, <3>3 DEF Distinct
  <2>4. Known(t, d, q)
    BY <1>4, <2>1 DEF Sound, Known
  <2>5. Owed(t, d)
    BY <2>1 DEF Owed, Missing
  <2>6. NewestFirst(t, d)
    <3>1. SUFFICES ASSUME NEW g \in 1..Len(d.ids), NEW h \in 1..Len(d.ids),
                          NEW i \in 1..Len(t), NEW j \in 1..Len(t),
                          g < h, t[i].id = d.ids[g], t[j].id = d.ids[h]
                   PROVE  j < i
      BY DEF NewestFirst
    <3>2. m[j] < m[i]
      <4>1. s[m[i]].id = c.ids[g] /\ s[m[j]].id = c.ids[h] /\ g \in 1..Len(c.ids) /\ h \in 1..Len(c.ids)
        BY <1>10, <2>1, <3>1
      <4> QED
        BY <1>4, <1>11, <3>1, <4>1 DEF Sound, NewestFirst
    <3>3. ~(i < j) /\ i # j
      BY <1>10, <1>11, <3>2
    <3> QED
      BY <1>9, <3>3
  <2>7. Sound(t, d, q)
    BY <2>3, <2>4, <2>5, <2>6 DEF Sound
  <2>8. d.at = "idle" => d = NoScan
    <3>1. NoScan = [at |-> "idle", offset |-> 0, ids |-> <<>>, result |-> <<>>, must |-> {}]
      BY DEF NoScan
    <3>2. ASSUME c.at = "idle" PROVE d = NoScan
      <4>1. c = NoScan
        BY <1>4, <3>2
      <4>2. c.at = NoScan.at /\ c.offset = NoScan.offset /\ c.ids = NoScan.ids
            /\ c.result = NoScan.result
        BY <4>1
      <4>3. c.at = "idle" /\ c.offset = 0 /\ c.ids = <<>> /\ c.result = <<>>
        BY <3>1, <4>2
      <4> QED
        BY <2>1, <3>1, <4>3
    <3> QED
      BY <2>1, <3>2
  <2> QED
    BY <1>2, <1>4, <1>5, <1>9, <1>14, <1>15, <2>2, <2>7, <2>8, ListingInvNext
<1> QED
  BY <1>16, <1>17

\* The start-up looks whether the sum is below zero.
LEMMA CheckListing ==
  ASSUME ListingInv, CheckBytes
  PROVE  ListingInv'
<1>1. PICK s, q, w, u : s = index /\ q = seq /\ w = cleanup /\ u = cleanup'
  OBVIOUS
<1>2. w \in Cleanups /\ Counted(s, w, q)
  BY <1>1 DEF ListingInv
<1>3. PICK at \in {"reset", "retain"} : u = [w EXCEPT !.at = at]
  BY <1>1 DEF CheckBytes
<1>4. UNCHANGED <<seq, index, bytes, scan>>
  BY DEF CheckBytes
<1>5. /\ u \in Cleanups /\ u.short = w.short /\ u.ids = w.ids /\ u.at # "delete"
      /\ u.misread = w.misread
  BY <1>2, <1>3 DEF Cleanups
<1>6. Counted(index, u, seq)
  BY <1>1, <1>2, <1>5 DEF Counted
<1> QED
  BY <1>1, <1>4, <1>5, <1>6, CleanupListing

\* And sets it to zero, which the bytes of the rows are not below.
LEMMA ResetListing ==
  ASSUME ListingInv, ResetBytes
  PROVE  ListingInv'
<1>1. PICK q, s, c, w, u : q = seq /\ s = index /\ c = scan /\ w = cleanup /\ u = cleanup'
  OBVIOUS
<1>2. /\ q \in 0..MaxId /\ s \in Seq(Event) /\ c \in Scans /\ w \in Cleanups
      /\ Sound(s, c, q) /\ Counted(s, w, q) /\ (c.at = "idle" => c = NoScan)
  BY <1>1 DEF ListingInv
<1>3. IsFiniteSet(ToSet(s))
  BY <1>2, RowsAreFinite
<1>4. PICK n \in Nat : n = Bytes(ToSet(s))
  BY <1>3, HeldIsFinite
<1>5. /\ u = [w EXCEPT !.at = "retain", !.short = n, !.misread = FALSE] /\ bytes' = 0
      /\ q = seq' /\ s = index' /\ c = scan'
  BY <1>1, <1>4 DEF ResetBytes
<1>6. u \in Cleanups /\ u.short = n /\ u.ids = w.ids /\ u.at # "delete"
  <2>1. u = [at |-> "retain", ids |-> w.ids, sizes |-> w.sizes, short |-> n, misread |-> FALSE]
    BY <1>2, <1>5 DEF Cleanups
  <2> QED
    BY <1>2, <1>4, <2>1 DEF Cleanups
<1>7. Counted(s, u, q)
  BY <1>2, <1>4, <1>6 DEF Counted
<1>8. PICK f : f = bytes' /\ f \in Int /\ f = Bytes(ToSet(s)) - u.short
  BY <1>4, <1>5, <1>6
<1> QED
  BY <1>1, <1>2, <1>5, <1>6, <1>7, <1>8, ListingInvNext

\* The process ends and starts again.
LEMMA RestartListing ==
  ASSUME ListingInv, LedgerRestart
  PROVE  ListingInv'
<1>1. PICK q, s, b, w : q = seq /\ s = index /\ b = bytes /\ w = cleanup
  OBVIOUS
<1>2. PICK u, d : u = cleanup' /\ d = scan'
  OBVIOUS
<1>3. /\ q \in 0..MaxId /\ s \in Seq(Event) /\ b \in Int /\ w \in Cleanups
      /\ b = Bytes(ToSet(s)) - w.short /\ Distinct(s, q)
      /\ (~w.misread => w.short \in Nat)
  BY <1>1 DEF ListingInv, Sound, Counted
<1>4. /\ u = [at |-> "rows", ids |-> {}, sizes |-> 0, short |-> w.short, misread |-> w.misread]
      /\ d = NoScan /\ q = seq' /\ s = index' /\ b = bytes'
  BY <1>1, <1>2 DEF LedgerRestart, NoCleanup
<1>5. u \in Cleanups /\ u.short = w.short /\ Counted(s, u, q)
  BY <1>3, <1>4 DEF Cleanups, Counted
<1>6. q \in Nat
  BY <1>3, LedgerAssumption
<1>7. d \in Scans /\ Sound(s, d, q)
  BY <1>3, <1>4, <1>6, IdleIsSound
<1> QED
  BY <1>2, <1>3, <1>4, <1>5, <1>7, ListingInvNext

\* The steps of a listing change nothing else.
LEMMA ScanListing ==
  ASSUME ListingInv, NEW d \in Scans, d = scan', Sound(index, d, seq), d.at = "idle" => d = NoScan,
         UNCHANGED <<seq, index, bytes, cleanup>>
  PROVE  ListingInv'
<1>1. PICK q, s, b, u : q = seq /\ s = index /\ b = bytes /\ u = cleanup
  OBVIOUS
<1>2. /\ q \in 0..MaxId /\ s \in Seq(Event) /\ b \in Int /\ u \in Cleanups
      /\ b = Bytes(ToSet(s)) - u.short /\ Sound(s, d, q) /\ Counted(s, u, q)
  BY <1>1 DEF ListingInv
<1>3. q = seq' /\ s = index' /\ b = bytes' /\ u = cleanup'
  BY <1>1
<1> QED
  BY <1>2, <1>3, ListingInvNext

\* A listing begins: it owes every row, and all lie beyond the offset.
LEMMA BeginListing ==
  ASSUME ListingInv, BeginScan
  PROVE  ListingInv'
<1>1. PICK q, s : q = seq /\ s = index
  OBVIOUS
<1>2. PICK d : d = scan'
  OBVIOUS
<1>3. q \in 0..MaxId /\ s \in Seq(Event) /\ Distinct(s, q)
  BY <1>1 DEF ListingInv, Sound
<1>4. PICK g : g = {e.id : e \in ToSet(s)}
  OBVIOUS
<1>5. /\ d = [at |-> "ids", offset |-> 0, ids |-> <<>>, result |-> <<>>, must |-> g]
      /\ UNCHANGED <<seq, index, bytes, cleanup>>
  BY <1>1, <1>2, <1>4 DEF BeginScan, NoScan, ListingInv
<1>6. \A x : x \in ToSet(s) <=> \E i \in 1..Len(s) : s[i] = x
  BY <1>3, RowsAreFinite
<1>7. \A id \in g : id \in 1..MaxId /\ \E i \in 1..Len(s) : s[i].id = id
  <2>1. \A e \in Event : e.id \in 1..MaxId
    BY DEF Event
  <2>2. \A i \in 1..Len(s) : s[i] \in Event
    BY <1>3
  <2> QED
    BY <1>4, <1>6, <2>1, <2>2
<1>8. <<>> \in Seq(1..MaxId)
  OBVIOUS
<1>9. d \in Scans
  BY <1>5, <1>7, <1>8 DEF Scans
<1>10. Limit \in Nat \ {0} /\ Len(d.ids) = 0 /\ Len(d.result) = 0 /\ d.offset = 0 /\ d.at = "ids"
  BY <1>5, LedgerAssumption
<1>11. Known(s, d, q)
  BY <1>5, <1>7, <1>10 DEF Known
<1>12. NewestFirst(s, d)
  BY <1>10 DEF NewestFirst
<1>13. Owed(s, d)
  <2>1. \A x : x \notin ToSet(d.result)
    <3>1. PICK z \in Seq(1..MaxId) : z = d.result /\ Len(z) = 0
      BY <1>5, <1>8
    <3>2. \A x : x \in ToSet(z) <=> \E i \in 1..Len(z) : z[i] = x
      BY RowsAreFinite
    <3> QED
      BY <3>1, <3>2
  <2>2. \A i \in 1..Len(s) : i + d.offset <= Len(s)
    BY <1>3, <1>10
  <2> QED
    BY <1>10, <2>1, <2>2 DEF Owed, Reached
<1>14. Sound(s, d, q)
  BY <1>3, <1>11, <1>12, <1>13 DEF Sound
<1> QED
  BY <1>1, <1>2, <1>3, <1>5, <1>9, <1>10, <1>14, ScanListing

\* A batch of ids: those at the offset, from the newest.
LEMMA BatchIs ==
  ASSUME NEW s \in Seq(Event), NEW off \in Nat, NEW b,
         b = SubSeq(Reverse(Ids(s)), off + 1,
                    IF Len(Reverse(Ids(s))) < off + BatchSize
                    THEN Len(Reverse(Ids(s))) ELSE off + BatchSize)
  PROVE  /\ b \in Seq(1..MaxId)
         /\ Len(b) = IF Len(s) <= off THEN 0
                     ELSE IF Len(s) - off < BatchSize THEN Len(s) - off ELSE BatchSize
         /\ \A k \in 1..Len(b) :
              Len(s) + 1 - off - k \in 1..Len(s) /\ b[k] = s[Len(s) + 1 - off - k].id
<1>1. PICK ls \in Nat : ls = Len(s)
  OBVIOUS
<1>2. \A i \in 1..ls : s[i].id \in 1..MaxId
  <2>1. \A i \in 1..ls : s[i] \in Event
    BY <1>1
  <2> QED
    BY <2>1 DEF Event
<1>3. PICK ids : ids = Ids(s)
  OBVIOUS
<1>4. ids \in Seq(1..MaxId) /\ Len(ids) = ls /\ \A i \in 1..ls : ids[i] = s[i].id
  <2>1. ids = [i \in 1..ls |-> s[i].id]
    BY <1>1, <1>3 DEF Ids
  <2> QED
    BY <1>2, <2>1
<1>5. PICK nw : nw = Reverse(ids)
  OBVIOUS
<1>6. nw \in Seq(1..MaxId) /\ Len(nw) = ls /\ \A i \in 1..ls : nw[i] = ids[ls - i + 1]
  <2>1. nw = [i \in 1..ls |-> ids[ls - i + 1]]
    BY <1>4, <1>5 DEF Reverse
  <2>2. ASSUME NEW i \in 1..ls PROVE ids[ls - i + 1] \in 1..MaxId
    <3>1. ls - i + 1 \in 1..ls
      OBVIOUS
    <3> QED
      BY <1>2, <1>4, <3>1
  <2>3. nw \in Seq(1..MaxId) /\ Len(nw) = ls
    BY <2>1, <2>2
  <2> QED
    BY <2>1, <2>3
<1>7. PICK hi \in Nat : /\ hi = IF ls < off + BatchSize THEN ls ELSE off + BatchSize
                        /\ BatchSize \in Nat /\ BatchSize # 0
  BY LedgerAssumption
<1>8. b = SubSeq(nw, off + 1, hi)
  BY <1>3, <1>5, <1>6, <1>7
<1>9. /\ b \in Seq(1..MaxId) /\ Len(b) = IF off + 1 <= hi THEN hi - (off + 1) + 1 ELSE 0
      /\ \A k \in 1..hi - (off + 1) + 1 : b[k] = nw[off + 1 + k - 1]
  <2>1. off + 1 \in Int /\ hi \in Int
    OBVIOUS
  <2>2. ASSUME NEW i \in off + 1..hi PROVE nw[i] \in 1..MaxId
    <3>1. i \in 1..ls
      BY <1>7
    <3>2. ls - i + 1 \in 1..ls
      BY <3>1
    <3>3. nw[i] = s[ls - i + 1].id
      BY <1>4, <1>6, <3>1, <3>2
    <3> QED
      BY <1>2, <3>2, <3>3
  <2>3. nw \in Seq(1..MaxId)
    BY <1>6
  <2>4. /\ SubSeq(nw, off + 1, hi) \in Seq(1..MaxId)
        /\ Len(SubSeq(nw, off + 1, hi)) = IF off + 1 <= hi THEN hi - (off + 1) + 1 ELSE 0
        /\ \A k \in 1..hi - (off + 1) + 1 : SubSeq(nw, off + 1, hi)[k] = nw[off + 1 + k - 1]
    BY <2>1, <2>2, <2>3, SubSeqProperties
  <2> QED
    BY <1>8, <2>4
<1>10. Len(b) = IF ls <= off THEN 0 ELSE IF ls - off < BatchSize THEN ls - off ELSE BatchSize
  BY <1>7, <1>9
<1>11. ASSUME NEW k \in 1..Len(b)
       PROVE  ls + 1 - off - k \in 1..ls /\ b[k] = s[ls + 1 - off - k].id
  <2>1. /\ k \in Nat /\ k \in 1..hi - (off + 1) + 1 /\ off + 1 + k - 1 = off + k
        /\ off + k \in 1..ls /\ ls - (off + k) + 1 = ls + 1 - off - k
        /\ ls + 1 - off - k \in 1..ls
    BY <1>7, <1>9, <1>10
  <2>2. b[k] = nw[off + k]
    BY <1>9, <2>1
  <2>3. nw[off + k] = ids[ls + 1 - off - k]
    BY <1>6, <2>1
  <2> QED
    BY <1>4, <2>1, <2>2, <2>3
<1> QED
  BY <1>1, <1>9, <1>10, <1>11

\* A row that is owed is in the batch that is read, or behind all of it.
LEMMA ReadIdsListing ==
  ASSUME ListingInv, ReadIds
  PROVE  ListingInv'
<1>1. PICK q, s, c : q = seq /\ s = index /\ c = scan
  OBVIOUS
<1>2. PICK d : d = scan'
  OBVIOUS
<1>3. /\ q \in 0..MaxId /\ s \in Seq(Event) /\ c \in Scans
      /\ Sound(s, c, q) /\ c.at = "ids"
  BY <1>1 DEF ListingInv, ReadIds, NoScan
<1>4. PICK w : w = SubSeq(Reverse(Ids(s)), c.offset + 1,
                    IF Len(Reverse(Ids(s))) < c.offset + BatchSize
                    THEN Len(Reverse(Ids(s))) ELSE c.offset + BatchSize)
  OBVIOUS
<1>5. /\ d = [at |-> "rows", offset |-> c.offset, ids |-> w, result |-> c.result, must |-> c.must]
      /\ UNCHANGED <<seq, index, bytes, cleanup>>
  BY <1>1, <1>2, <1>3, <1>4 DEF ReadIds, Scans
<1>6. PICK off \in Nat : off = c.offset
  BY <1>3 DEF Scans
<1>7. PICK ls \in Nat : ls = Len(s)
  BY <1>3
<1>8. /\ w \in Seq(1..MaxId)
      /\ Len(w) = IF ls <= off THEN 0 ELSE IF ls - off < BatchSize THEN ls - off ELSE BatchSize
      /\ \A k \in 1..Len(w) : ls + 1 - off - k \in 1..ls /\ w[k] = s[ls + 1 - off - k].id
  <2>1. w = SubSeq(Reverse(Ids(s)), off + 1,
                    IF Len(Reverse(Ids(s))) < off + BatchSize
                    THEN Len(Reverse(Ids(s))) ELSE off + BatchSize)
    BY <1>4, <1>6
  <2>2. /\ w \in Seq(1..MaxId)
        /\ Len(w) = IF Len(s) <= off THEN 0
                    ELSE IF Len(s) - off < BatchSize THEN Len(s) - off ELSE BatchSize
        /\ \A k \in 1..Len(w) :
             Len(s) + 1 - off - k \in 1..Len(s) /\ w[k] = s[Len(s) + 1 - off - k].id
    <3>1. s \in Seq(Event) /\ off \in Nat
      BY <1>3
    <3> QED
      BY <2>1, <3>1, BatchIs, ZenonT(90)
  <2> QED
    BY <1>7, <2>2
<1>9. d \in Scans
  BY <1>3, <1>5, <1>8 DEF Scans
<1>10. /\ Distinct(s, q) /\ Known(s, c, q) /\ Owed(s, c)
  BY <1>3 DEF Sound
<1>11. /\ \A i, j \in 1..ls : s[i].id = s[j].id => i = j
       /\ \A i \in 1..ls : s[i].id <= q
  BY <1>7, <1>10 DEF Distinct
<1>12. Known(s, d, q)
  <2>1. \A k \in 1..Len(w) : w[k] <= q
    BY <1>8, <1>11
  <2> QED
    BY <1>3, <1>5, <1>10, <2>1 DEF Known
<1>13. NewestFirst(s, d)
  <2>1. SUFFICES ASSUME NEW m \in 1..Len(w), NEW n \in 1..Len(w), NEW i \in 1..ls, NEW j \in 1..ls,
                        m < n, s[i].id = w[m], s[j].id = w[n]
                 PROVE  j < i
    BY <1>5, <1>7 DEF NewestFirst
  <2>2. i = ls + 1 - off - m
    BY <1>8, <1>11, <2>1
  <2>3. j = ls + 1 - off - n
    BY <1>8, <1>11, <2>1
  <2>4. m \in Nat /\ n \in Nat
    BY <1>8
  <2> QED
    BY <2>1, <2>2, <2>3, <2>4
<1>14. Owed(s, d)
  <2>1. SUFFICES ASSUME NEW i \in 1..ls, Missing(s, d, i) PROVE Reached(s, d, i)
    BY <1>7 DEF Owed
  <2>2. Reached(s, c, i)
    <3>1. Missing(s, c, i)
      BY <1>5, <2>1 DEF Missing
    <3> QED
      BY <1>7, <1>10, <3>1 DEF Owed
  <2>3. i + off <= ls
    BY <1>3, <1>6, <1>7, <2>2 DEF Reached
  <2>4. PICK k \in Nat : k = ls + 1 - off - i /\ 1 <= k /\ ls + 1 - off - k = i
    BY <2>3
  <2>5. CASE k <= Len(w)
    <3>1. k \in 1..Len(w)
      <4>1. Len(w) \in Nat
        BY <1>8
      <4> QED
        BY <2>4, <2>5, <4>1
    <3>2. w[k] = s[i].id
      BY <1>8, <2>4, <3>1
    <3>3. s[i].id \in ToSet(w)
      BY <1>8, <3>1, <3>2, RowsAreFinite
    <3> QED
      BY <1>5, <2>2, <3>3 DEF Reached
  <2>6. CASE ~(k <= Len(w))
    <3>1. BatchSize \in Nat /\ Len(w) = BatchSize /\ BatchSize < k
      BY <1>8, <2>3, <2>4, <2>6, LedgerAssumption
    <3>2. ls - i >= off + BatchSize
      BY <2>4, <3>1
    <3>3. ASSUME NEW n \in 1..Len(w) PROVE \E j \in 1..ls : i < j /\ s[j].id = w[n]
      <4>1. i < ls + 1 - off - n
        BY <2>4, <3>1
      <4> QED
        BY <1>8, <4>1
    <3>4. Behind(s, d, i)
      BY <1>5, <1>6, <1>7, <3>1, <3>2, <3>3 DEF Behind
    <3> QED
      BY <1>5, <2>2, <3>4 DEF Reached
  <2> QED
    BY <2>5, <2>6
<1>15. Sound(s, d, q)
  BY <1>10, <1>12, <1>13, <1>14 DEF Sound
<1>16. d.at # "idle"
  BY <1>5
<1> QED
  BY <1>1, <1>2, <1>3, <1>5, <1>9, <1>15, <1>16, ScanListing

\* A result with what was found, up to the limit.
Extend(a, b) ==
  SubSeq(a \o b, 1, IF Len(a \o b) < Limit THEN Len(a \o b) ELSE Limit)

\* It begins with the result, and goes on with what was found as far as there is room.
LEMMA Extended ==
  ASSUME NEW S, NEW a \in Seq(S), NEW b \in Seq(S), NEW r, Len(a) < Limit, r = Extend(a, b)
  PROVE  /\ r \in Seq(S)
         /\ Len(r) = IF Len(a) + Len(b) < Limit THEN Len(a) + Len(b) ELSE Limit
         /\ \A i \in 1..Len(a) : i \in 1..Len(r) /\ r[i] = a[i]
         /\ \A i \in 1..Len(r) : Len(a) < i => i - Len(a) \in 1..Len(b) /\ r[i] = b[i - Len(a)]
         /\ \A n \in 1..Len(b) : Len(a) + n <= Len(r) => r[Len(a) + n] = b[n]
<1>1. PICK la \in Nat, lb \in Nat, lim \in Nat :
        la = Len(a) /\ lb = Len(b) /\ lim = Limit /\ la < lim
  BY LedgerAssumption
<1>2. PICK z \in Seq(S) : /\ z = a \o b /\ Len(z) = la + lb
                          /\ \A i \in 1..la + lb : z[i] = IF i <= la THEN a[i] ELSE b[i - la]
  <2>1. /\ a \o b \in Seq(S) /\ Len(a \o b) = Len(a) + Len(b)
        /\ \A i \in 1..Len(a) + Len(b) : (a \o b)[i] = IF i <= Len(a) THEN a[i] ELSE b[i - Len(a)]
    BY ConcatProperties
  <2> QED
    BY <1>1, <2>1
<1>3. PICK hi \in Nat : hi = (IF la + lb < lim THEN la + lb ELSE lim) /\ la <= hi /\ hi <= la + lb
  BY <1>1
<1>4. r = SubSeq(z, 1, hi)
  BY <1>1, <1>2, <1>3 DEF Extend
<1>5. /\ r \in Seq(S) /\ Len(r) = hi /\ \A i \in 1..hi : r[i] = z[i]
  <2>1. 1 \in Int /\ hi \in Int
    BY <1>3
  <2>2. ASSUME NEW i \in 1..hi PROVE z[i] \in S
    <3>1. i \in 1..Len(z) /\ z \in Seq(S)
      BY <1>2, <1>3
    <3> QED
      BY <3>1
  <2>3. /\ SubSeq(z, 1, hi) \in Seq(S) /\ Len(SubSeq(z, 1, hi)) = IF 1 <= hi THEN hi - 1 + 1 ELSE 0
        /\ \A i \in 1..hi - 1 + 1 : SubSeq(z, 1, hi)[i] = z[1 + i - 1]
    BY <2>1, <2>2, SubSeqProperties
  <2>4. /\ hi - 1 + 1 = hi /\ (IF 1 <= hi THEN hi - 1 + 1 ELSE 0) = hi
        /\ \A i \in 1..hi : 1 + i - 1 = i
    BY <1>3
  <2> QED
    BY <1>4, <2>3, <2>4
<1>6. ASSUME NEW i \in 1..la PROVE i \in 1..hi /\ r[i] = a[i]
  BY <1>2, <1>3, <1>5
<1>7. ASSUME NEW i \in 1..hi, la < i PROVE i - la \in 1..lb /\ r[i] = b[i - la]
  <2>1. i \in 1..la + lb /\ ~(i <= la) /\ i - la \in 1..lb
    BY <1>3, <1>7
  <2> QED
    BY <1>2, <1>5, <2>1
<1>8. ASSUME NEW n \in 1..lb, la + n <= hi PROVE r[la + n] = b[n]
  <2>1. la + n \in 1..hi /\ la < la + n /\ la + n - la = n
    BY <1>8
  <2>2. PICK k \in 1..hi : k = la + n /\ la < k
    BY <2>1
  <2>3. r[k] = b[k - la]
    BY <1>7, <2>2
  <2>4. k - la = n
    BY <2>1, <2>2
  <2> QED
    BY <2>2, <2>3, <2>4
<1> QED
  BY <1>1, <1>3, <1>5, <1>6, <1>7, <1>8

\* The rows of a batch: what is missing of them was cut off by the limit, after newer rows;
\* when a row lies behind the batch, the batch is still full.
LEMMA ReadRowsListing ==
  ASSUME ListingInv, ReadRows
  PROVE  ListingInv'
<1>1. PICK q, s, c : q = seq /\ s = index /\ c = scan
  OBVIOUS
<1>2. PICK d : d = scan'
  OBVIOUS
<1>3. PICK P, E : /\ P = {e.id : e \in ToSet(s)}
                  /\ E = {e.id : e \in {row \in ToSet(s) : row.kind = "end"}}
  OBVIOUS
<1>4. PICK found : found = Kept(c.ids, P)
  OBVIOUS
<1>5. PICK hits : hits = Kept(found, E)
  OBVIOUS
<1>6. PICK res : res = SubSeq(c.result \o hits, 1,
                    IF Len(c.result \o hits) < Limit THEN Len(c.result \o hits) ELSE Limit)
  OBVIOUS
<1>7. /\ q \in 0..MaxId /\ s \in Seq(Event) /\ c \in Scans
      /\ Sound(s, c, q) /\ c.at = "rows"
  BY <1>1 DEF ListingInv, ReadRows, NoScan
<1>8. /\ d = [at |-> IF Len(found) < BatchSize \/ Len(res) = Limit THEN "done" ELSE "ids",
              offset |-> c.offset + Len(found), ids |-> <<>>, result |-> res, must |-> c.must]
      /\ UNCHANGED <<seq, index, bytes, cleanup>>
  BY <1>1, <1>2, <1>3, <1>4, <1>5, <1>6, <1>7 DEF ReadRows, NextOffset, Scans
<1>9. PICK w, old, off :
        /\ w \in Seq(1..MaxId) /\ old \in Seq(1..MaxId) /\ off \in Nat
        /\ w = c.ids /\ old = c.result /\ off = c.offset
  BY <1>7 DEF Scans
<1>10. PICK ls \in Nat, lw \in Nat, lo \in Nat : ls = Len(s) /\ lw = Len(w) /\ lo = Len(old)
  BY <1>7, <1>9
<1>11. found = Kept(w, P)
  BY <1>4, <1>9
<1>12. /\ found \in Seq(1..MaxId) /\ Len(found) \in Nat
       /\ (\A k \in 1..Len(w) : w[k] \in P) => Len(found) = Len(w)
  <2>1. w \in Seq(1..MaxId)
    BY <1>9
  <2> QED
    BY <1>11, <2>1, KeptOf
<1>13. PICK f :
            /\ f \in [1..Len(found) -> 1..Len(w)]
            /\ \A n \in 1..Len(found) : found[n] = w[f[n]]
            /\ \A n, k \in 1..Len(found) : n < k => f[n] < f[k]
            /\ \A i \in 1..Len(w) : w[i] \in P => \E n \in 1..Len(found) : f[n] = i
  <2>1. w \in Seq(1..MaxId)
    BY <1>9
  <2> QED
    BY <1>11, <2>1, KeptOf
<1>14. hits \in Seq(1..MaxId) /\ Len(hits) \in Nat
  BY <1>5, <1>12, KeptOf
<1>15. PICK g :
            /\ g \in [1..Len(hits) -> 1..Len(found)]
            /\ \A n \in 1..Len(hits) : hits[n] = found[g[n]]
            /\ \A n, k \in 1..Len(hits) : n < k => g[n] < g[k]
            /\ \A i \in 1..Len(found) : found[i] \in E => \E n \in 1..Len(hits) : g[n] = i
  <2>1. PICK Id : Id = 1..MaxId
    OBVIOUS
  <2>2. found \in Seq(Id)
    BY <1>12, <2>1
  <2>3. \E m \in [1..Len(hits) -> 1..Len(found)] :
              /\ \A n \in 1..Len(hits) : hits[n] = found[m[n]] /\ found[m[n]] \in E
              /\ \A n, k \in 1..Len(hits) : n < k => m[n] < m[k]
              /\ \A i \in 1..Len(found) : found[i] \in E => \E n \in 1..Len(hits) : m[n] = i
    BY <1>5, <2>2, KeptOf
  <2> QED
    BY <2>3
<1>16. PICK lf \in Nat, lm \in Nat : lf = Len(found) /\ lm = Len(hits)
  BY <1>12, <1>14
<1>17. \A n \in 1..lm : g[n] \in 1..lf /\ f[g[n]] \in 1..lw /\ hits[n] = w[f[g[n]]]
  BY <1>10, <1>13, <1>15, <1>16
<1>18. \A n, k \in 1..lm : n < k => f[g[n]] < f[g[k]]
  BY <1>13, <1>15, <1>16
<1>19. ASSUME NEW k \in 1..lw, w[k] \in P, w[k] \in E
       PROVE  \E n \in 1..lm : f[g[n]] = k
  <2>1. PICK h \in 1..lf : f[h] = k
    BY <1>10, <1>13, <1>16, <1>19
  <2>2. found[h] \in E
    BY <1>13, <1>16, <1>19, <2>1
  <2>3. PICK n \in 1..lm : g[n] = h
    BY <1>15, <1>16, <2>2
  <2> QED
    BY <2>1, <2>3
<1>20. Distinct(s, q) /\ Known(s, c, q) /\ Owed(s, c) /\ NewestFirst(s, c)
  BY <1>7 DEF Sound
<1>21. lo < Limit
  BY <1>7, <1>9, <1>10, <1>20 DEF Known
<1>22. /\ res \in Seq(1..MaxId)
       /\ Len(res) = IF lo + lm < Limit THEN lo + lm ELSE Limit
       /\ \A i \in 1..lo : i \in 1..Len(res) /\ res[i] = old[i]
       /\ \A i \in 1..Len(res) : lo < i => i - lo \in 1..lm /\ res[i] = hits[i - lo]
       /\ \A n \in 1..lm : lo + n <= Len(res) => res[lo + n] = hits[n]
  <2>0. PICK Id : Id = 1..MaxId
    OBVIOUS
  <2>1. old \in Seq(Id) /\ hits \in Seq(Id) /\ Len(old) < Limit
    BY <1>9, <1>10, <1>14, <1>21, <2>0
  <2>2. res = Extend(old, hits)
    BY <1>6, <1>9 DEF Extend
  <2>3. /\ res \in Seq(Id)
        /\ Len(res) = IF Len(old) + Len(hits) < Limit THEN Len(old) + Len(hits) ELSE Limit
        /\ \A i \in 1..Len(old) : i \in 1..Len(res) /\ res[i] = old[i]
        /\ \A i \in 1..Len(res) :
             Len(old) < i => i - Len(old) \in 1..Len(hits) /\ res[i] = hits[i - Len(old)]
        /\ \A n \in 1..Len(hits) : Len(old) + n <= Len(res) => res[Len(old) + n] = hits[n]
    BY <2>1, <2>2, Extended
  <2> QED
    BY <1>10, <1>16, <2>0, <2>3
<1>23. \A x : x \in ToSet(s) <=> \E i \in 1..ls : s[i] = x
  BY <1>7, <1>10, RowsAreFinite
<1>24. /\ \A x : x \in ToSet(old) <=> \E i \in 1..lo : old[i] = x
       /\ \A x : x \in ToSet(w) <=> \E i \in 1..lw : w[i] = x
       /\ \A x : x \in ToSet(res) <=> \E i \in 1..Len(res) : res[i] = x
  <2>1. \A x : x \in ToSet(old) <=> \E i \in 1..Len(old) : old[i] = x
    BY <1>9, RowsAreFinite
  <2>2. \A x : x \in ToSet(w) <=> \E i \in 1..Len(w) : w[i] = x
    BY <1>9, RowsAreFinite
  <2>3. \A x : x \in ToSet(res) <=> \E i \in 1..Len(res) : res[i] = x
    <3>1. res \in Seq(1..MaxId)
      BY <1>22
    <3> QED
      BY <3>1, RowsAreFinite
  <2> QED
    BY <1>10, <2>1, <2>2, <2>3
<1>25. \A x : x \in ToSet(old) => x \in ToSet(res)
  BY <1>22, <1>24
<1>26. \A i, j \in 1..ls : s[i].id = s[j].id => i = j
  BY <1>10, <1>20 DEF Distinct
<1>27. /\ \A i \in 1..ls : s[i].id \in P
       /\ \A i \in 1..ls : s[i].kind = "end" => s[i].id \in E
       /\ \A x \in P : \E i \in 1..ls : s[i].id = x
  BY <1>3, <1>23
<1>28. Limit \in Nat /\ Limit # 0 /\ BatchSize \in Nat
  BY LedgerAssumption
<1>29. d \in Scans
  <2>1. <<>> \in Seq(1..MaxId)
    OBVIOUS
  <2>2. c.must \in SUBSET (1..MaxId) /\ c.offset + Len(found) \in Nat
    BY <1>7, <1>9, <1>12 DEF Scans
  <2> QED
    BY <1>8, <1>22, <2>1, <2>2 DEF Scans
<1>30. d.at # "idle" /\ d.at # "rows" /\ Len(d.ids) = 0
  BY <1>8
<1>31. Known(s, d, q)
  <2>1. d.at = "ids" => Len(res) < Limit
    BY <1>8, <1>10, <1>16, <1>22, <1>28
  <2> QED
    BY <1>8, <1>20, <1>30, <2>1 DEF Known
<1>32. NewestFirst(s, d)
  BY <1>30 DEF NewestFirst
<1>33. Owed(s, d)
  <2>1. SUFFICES ASSUME NEW i \in 1..ls, Missing(s, d, i) PROVE Reached(s, d, i)
    BY <1>10 DEF Owed
  <2>2. s[i].kind = "end" /\ s[i].id \in c.must /\ s[i].id \notin ToSet(res)
    BY <1>8, <2>1 DEF Missing
  <2>3. Missing(s, c, i)
    BY <1>9, <1>25, <2>2 DEF Missing
  <2>4. Reached(s, c, i)
    BY <1>10, <1>20, <2>3 DEF Owed
  <2>5. \A j \in 1..ls : s[j].id \in ToSet(old) /\ s[j].id \in c.must => i < j
    BY <1>9, <1>10, <2>4 DEF Reached
  <2>6. s[i].id \in ToSet(w) \/ Behind(s, c, i)
    BY <1>7, <1>9, <2>4 DEF Reached
  <2>7. ASSUME NEW j \in 1..ls, s[j].id \in ToSet(res), s[j].id \notin ToSet(old)
        PROVE  \E n \in 1..lm : lo + n <= Len(res) /\ hits[n] = s[j].id
    <3>1. PICK k \in 1..Len(res) : res[k] = s[j].id
      BY <1>24, <2>7
    <3>2. ~(k <= lo)
      <4>1. ASSUME k <= lo PROVE FALSE
        <5>1. k \in 1..lo
          BY <1>22, <4>1
        <5>2. old[k] = s[j].id
          BY <1>22, <3>1, <5>1
        <5> QED
          BY <1>24, <2>7, <5>1, <5>2
      <4> QED
        BY <4>1
    <3>3. lo < k /\ k \in Nat /\ k <= Len(res)
      BY <1>22, <3>2
    <3>4. k - lo \in 1..lm /\ hits[k - lo] = s[j].id
      BY <1>22, <3>1, <3>3
    <3>5. lo + (k - lo) <= Len(res)
      BY <3>3
    <3> QED
      BY <3>4, <3>5
  <2>8. CASE Behind(s, c, i)
    <3>1. /\ ls - i >= off + BatchSize /\ lw = BatchSize
          /\ \A k \in 1..lw : \E j \in 1..ls : i < j /\ s[j].id = w[k]
      BY <1>9, <1>10, <2>8 DEF Behind
    <3>2. lf = BatchSize
      <4>1. \A k \in 1..lw : w[k] \in P
        BY <1>27, <3>1
      <4> QED
        BY <1>10, <1>12, <1>16, <3>1, <4>1
    <3>3. ASSUME NEW j \in 1..ls, s[j].id \in ToSet(res), s[j].id \in c.must PROVE i < j
      <4>1. CASE s[j].id \in ToSet(old)
        BY <2>5, <3>3, <4>1
      <4>2. CASE s[j].id \notin ToSet(old)
        <5>1. PICK n \in 1..lm : hits[n] = s[j].id
          BY <2>7, <3>3, <4>2
        <5>2. PICK h \in 1..ls : i < h /\ s[h].id = w[f[g[n]]]
          BY <1>17, <3>1
        <5>3. h = j
          BY <1>17, <1>26, <5>1, <5>2
        <5> QED
          BY <5>2, <5>3
      <4> QED
        BY <4>1, <4>2
    <3>4. i + (off + lf) <= ls
      BY <1>9, <1>28, <3>1, <3>2
    <3>5. d.at = "done" => Len(res) = Limit
      BY <1>8, <1>16, <1>28, <3>2
    <3> QED
      BY <1>8, <1>9, <1>10, <1>16, <1>30, <3>3, <3>4, <3>5 DEF Reached
  <2>9. CASE s[i].id \in ToSet(w)
    <3>1. PICK k \in 1..lw : w[k] = s[i].id
      BY <1>24, <2>9
    <3>2. PICK n \in 1..lm : f[g[n]] = k
      BY <1>19, <1>27, <2>2, <3>1
    <3>3. hits[n] = s[i].id
      BY <1>17, <3>1, <3>2
    <3>4. lo + n > Len(res)
      <4>1. ASSUME lo + n <= Len(res) PROVE FALSE
        <5>1. res[lo + n] = s[i].id /\ lo + n \in 1..Len(res)
          <6>1. Len(res) \in Nat
            BY <1>22
          <6>2. res[lo + n] = hits[n]
            BY <1>22, <4>1
          <6> QED
            BY <3>3, <4>1, <6>1, <6>2
        <5> QED
          BY <1>24, <2>2, <5>1
      <4>2. Len(res) \in Nat /\ n \in Nat
        BY <1>22
      <4> QED
        BY <4>1, <4>2
    <3>5. Len(res) = Limit
      BY <1>22, <1>28, <3>4
    <3>6. d.at = "done"
      BY <1>8, <3>5
    <3>7. ASSUME NEW j \in 1..ls, s[j].id \in ToSet(res), s[j].id \in c.must PROVE i < j
      <4>1. CASE s[j].id \in ToSet(old)
        BY <2>5, <3>7, <4>1
      <4>2. CASE s[j].id \notin ToSet(old)
        <5>1. PICK h \in 1..lm : lo + h <= Len(res) /\ hits[h] = s[j].id
          BY <2>7, <3>7, <4>2
        <5>2. h < n
          BY <1>22, <1>28, <3>4, <3>5, <5>1
        <5>3. f[g[h]] < f[g[n]]
          BY <1>18, <5>2
        <5>4. /\ f[g[h]] \in 1..lw /\ f[g[n]] \in 1..lw
              /\ s[j].id = w[f[g[h]]] /\ s[i].id = w[f[g[n]]]
          BY <1>17, <3>3, <5>1
        <5>5. \A m, o \in 1..lw : \A x, y \in 1..ls :
                m < o /\ s[x].id = w[m] /\ s[y].id = w[o] => y < x
          BY <1>9, <1>10, <1>20 DEF NewestFirst
        <5> QED
          BY <5>3, <5>4, <5>5
      <4> QED
        BY <4>1, <4>2
    <3> QED
      BY <1>8, <1>10, <3>5, <3>6, <3>7 DEF Reached
  <2> QED
    BY <2>6, <2>8, <2>9
<1>34. Sound(s, d, q)
  BY <1>20, <1>31, <1>32, <1>33 DEF Sound
<1> QED
  BY <1>1, <1>2, <1>7, <1>8, <1>29, <1>30, <1>34, ScanListing

\* A listing ends.
LEMMA EndListing ==
  ASSUME ListingInv, EndScan
  PROVE  ListingInv'
<1>1. PICK q, s : q = seq /\ s = index
  OBVIOUS
<1>2. PICK d : d = scan'
  OBVIOUS
<1>3. q \in 0..MaxId /\ s \in Seq(Event) /\ Distinct(s, q)
  BY <1>1 DEF ListingInv, Sound
<1>4. d = NoScan /\ UNCHANGED <<seq, index, bytes, cleanup>>
  BY <1>1, <1>2 DEF EndScan
<1>5. q \in Nat
  BY <1>3, LedgerAssumption
<1>6. d \in Scans /\ Sound(s, d, q)
  BY <1>3, <1>4, <1>5, IdleIsSound
<1> QED
  BY <1>1, <1>2, <1>4, <1>6, ScanListing

\* Nothing happens.
LEMMA SameListing ==
  ASSUME ListingInv, UNCHANGED ledgerVars
  PROVE  ListingInv'
<1>1. PICK q, s, b, u, c : q = seq /\ s = index /\ b = bytes /\ u = cleanup /\ c = scan
  OBVIOUS
<1>2. q = seq' /\ s = index' /\ b = bytes' /\ u = cleanup' /\ c = scan'
  BY <1>1 DEF ledgerVars
<1>3. /\ q \in 0..MaxId /\ s \in Seq(Event) /\ b \in Int /\ u \in Cleanups /\ c \in Scans
      /\ b = Bytes(ToSet(s)) - u.short /\ Sound(s, c, q) /\ Counted(s, u, q)
      /\ (c.at = "idle" => c = NoScan)
  BY <1>1 DEF ListingInv
<1> QED
  BY <1>2, <1>3, ListingInvNext

\* The invariant is inductive.
LEMMA ListingNext ==
  ListingInv /\ [LedgerNext]_ledgerVars => ListingInv'
<1> SUFFICES ASSUME ListingInv, [LedgerNext]_ledgerVars PROVE ListingInv'
  OBVIOUS
<1>1. CASE UNCHANGED ledgerVars
  BY <1>1, SameListing
<1>2. ASSUME NEW kind \in {"end", "other"}, NEW late \in BOOLEAN, NEW aged \in 0..2,
             InsertEvent(kind, late, aged)
      PROVE  ListingInv'
  <2>1. kind \in EventKinds /\ aged \in Nat
    BY DEF EventKinds
  <2> QED
    BY <1>2, <2>1, InsertListing
<1>3. CASE ClearEvents
  BY <1>3, ClearListing
<1>4. CASE ReadRetired("log")
  BY <1>4, ReadRetiredListing
<1>5. CASE ReadSizes
  BY <1>5, ReadSizesListing
<1>6. CASE DeleteRetired
  BY <1>6, DeleteListing
<1>7. CASE CheckBytes
  BY <1>7, CheckListing
<1>8. CASE ResetBytes
  BY <1>8, ResetListing
<1>9. ASSUME NEW aged \in 0..Len(index), RetainEvents(aged) PROVE ListingInv'
  BY <1>9, RetainListing
<1>10. CASE LedgerRestart
  BY <1>10, RestartListing
<1>11. CASE BeginScan
  BY <1>11, BeginListing
<1>12. CASE ReadIds
  BY <1>12, ReadIdsListing
<1>13. CASE ReadRows
  BY <1>13, ReadRowsListing
<1>14. CASE EndScan
  BY <1>14, EndListing
<1> QED
  BY <1>1, <1>2, <1>3, <1>4, <1>5, <1>6, <1>7, <1>8, <1>9, <1>10, <1>11, <1>12, <1>13, <1>14
  DEF LedgerNext

\* What the invariant says of the types.
LEMMA ListingTypes ==
  ListingInv => LedgerTypeOK
<1> SUFFICES ASSUME ListingInv PROVE LedgerTypeOK
  OBVIOUS
<1>1. /\ seq \in 0..MaxId /\ index \in Seq(Event) /\ bytes \in Int /\ cleanup \in Cleanups
      /\ scan \in Scans /\ \A i, j \in 1..Len(index) : index[i].id = index[j].id => i = j
  BY DEF ListingInv, Sound, Distinct
<1>2. IsInjective(Ids(index))
  <2>1. PICK f : f = Ids(index)
    OBVIOUS
  <2>2. DOMAIN f = 1..Len(index) /\ \A i \in 1..Len(index) : f[i] = index[i].id
    BY <2>1 DEF Ids
  <2>3. \A i, j \in DOMAIN f : f[i] = f[j] => i = j
    BY <1>1, <2>2
  <2> QED
    BY <2>1, <2>3 DEF IsInjective
<1> QED
  BY <1>1, <1>2 DEF LedgerTypeOK, Scans, Cleanups

\* And of a listing that is done.
LEMMA ListingIsDone ==
  ListingInv => ListingIsComplete
<1> SUFFICES ASSUME ListingInv PROVE ListingIsComplete
  OBVIOUS
<1>1. PICK s, c : s = index /\ c = scan
  OBVIOUS
<1>2. s \in Seq(Event) /\ Sound(s, c, seq)
  BY <1>1 DEF ListingInv
<1>3. /\ \A i, j \in 1..Len(s) : s[i].id = s[j].id => i = j
      /\ \A id \in c.must : \E i \in 1..Len(s) : s[i].id = id
      /\ \A i \in 1..Len(s) : Missing(s, c, i) => Reached(s, c, i)
  BY <1>2 DEF Sound, Distinct, Known, Owed
<1>4. \A x : x \in ToSet(s) <=> \E i \in 1..Len(s) : s[i] = x
  BY <1>2, RowsAreFinite
<1>5. ASSUME NEW i \in 1..Len(s) PROVE Position(s[i].id) = i
  <2>1. \A j \in 1..Len(s) : s[j].id = s[i].id <=> j = i
    BY <1>3
  <2> QED
    BY <1>1, <2>1 DEF Position
<1>6. ASSUME c.at = "done", NEW e \in ToSet(s), e.kind = "end", e.id \in c.must,
             e.id \notin ToSet(c.result)
      PROVE  /\ Len(c.result) = Limit
             /\ \A id \in ToSet(c.result) \cap c.must : Position(e.id) < Position(id)
  <2>1. PICK i \in 1..Len(s) : s[i] = e
    BY <1>4
  <2>2. Reached(s, c, i)
    BY <1>3, <1>6, <2>1 DEF Missing
  <2>3. Len(c.result) = Limit
    BY <1>6, <2>2 DEF Reached
  <2>4. ASSUME NEW id \in ToSet(c.result) \cap c.must PROVE Position(e.id) < Position(id)
    <3>1. PICK j \in 1..Len(s) : s[j].id = id
      BY <1>3
    <3>2. i < j
      BY <2>2, <3>1 DEF Reached
    <3>3. Position(e.id) = i /\ Position(id) = j
      BY <1>5, <2>1, <3>1
    <3> QED
      BY <3>2, <3>3
  <2> QED
    BY <2>3, <2>4
<1>7. /\ ~cleanup.misread => bytes <= Bytes(ToSet(index))
      /\ cleanup.short = 0 => bytes = Bytes(ToSet(index))
  <2>1. IsFiniteSet(ToSet(index))
    BY <1>1, <1>2, RowsAreFinite
  <2>2. PICK n \in Nat, k \in Int : /\ n = Bytes(ToSet(index)) /\ k = cleanup.short
                                    /\ ~cleanup.misread => k \in Nat
    BY <2>1, HeldIsFinite DEF ListingInv, Cleanups, Counted
  <2>3. bytes = n - k
    BY <2>2 DEF ListingInv
  <2> QED
    BY <2>2, <2>3
<1> QED
  BY <1>1, <1>6, <1>7 DEF ListingIsComplete

\* The state of the ledger keeps its types.
THEOREM LedgerTypes == LedgerSpec => []LedgerTypeOK
<1>1. ListingInv => LedgerTypeOK
  BY ListingTypes
<1> QED
  BY <1>1, InitListing, ListingNext, PTL DEF LedgerSpec

\* A listing misses nothing.
THEOREM ListingCorrect == LedgerSpec => []ListingIsComplete
<1>1. ListingInv => ListingIsComplete
  BY ListingIsDone
<1> QED
  BY <1>1, InitListing, ListingNext, PTL DEF LedgerSpec
=============================================================================
