----------------------------- MODULE RedisCache -----------------------------
(***************************************************************************)
(* The Redis store and the copy it keeps in memory.  Every writer holds    *)
(* writeMu, writes Redis first and its own copy after the answer; readers  *)
(* (the scheduler among them) are given the copy.  Only opening the store  *)
(* loads the copy from Redis.                                              *)
(*                                                                         *)
(* One schedule, one manual provider and a few summaries stand for the     *)
(* tables.  Every write stores its own number, so that values are told     *)
(* apart; 0 is an absent row.  Encryption and encoding are left out.       *)
(***************************************************************************)
EXTENDS Naturals, Sequences, FiniteSets, SequencesExt

CONSTANTS SummaryId,     \* jobs whose summary is saved
          SummaryLimit,  \* limit passed to SaveSummary
          MaxWrites      \* bound: writes of a behaviour

ASSUME CacheAssumption == SummaryLimit \in Nat \ {0} /\ MaxWrites \in Nat

VARIABLES db,       \* what Redis holds
          cache,    \* settings, summaries, schedules, manual, ccSwitch, dingTalk of Redis
          writer,   \* the holder of writeMu
          writes,   \* number of writes begun
          unsure    \* history: tables whose last effective write was not acknowledged

cacheVars == <<db, cache, writer, writes, unsure>>

Tables == {"settings", "schedule", "summaries", "manual", "ccSwitch", "dingTalk"}

\* The table an operation writes.
TableOf(op) ==
  CASE op \in {"UpsertSchedule", "MarkScheduleRun", "DeleteSchedule"} -> "schedule"
    [] op \in {"UpsertManualProvider", "DeleteManualProvider"}        -> "manual"
    [] op \in {"SaveDingTalkConfig", "ClearDingTalkConfig"}           -> "dingTalk"
    [] op = "SaveSummary"                                             -> "summaries"
    [] op = "SaveSettings"                                            -> "settings"
    [] op = "ReplaceCCSwitchProviders"                                -> "ccSwitch"

Ops == {"UpsertSchedule", "MarkScheduleRun", "DeleteSchedule", "UpsertManualProvider",
        "DeleteManualProvider", "SaveDingTalkConfig", "ClearDingTalkConfig",
        "SaveSummary", "SaveSettings", "ReplaceCCSwitchProviders"}

Stamp == 0..MaxWrites
Summaries == Seq([id : SummaryId, v : Stamp])
Contents == [settings : Stamp, ccSwitch : Stamp, dingTalk : Stamp,
             schedule : [rule : Stamp, mark : Stamp],
             manual : [row : Stamp, key : Stamp],
             summaries : Summaries]
Empty == [settings |-> 0, ccSwitch |-> 0, dingTalk |-> 0,
          schedule |-> [rule |-> 0, mark |-> 0], manual |-> [row |-> 0, key |-> 0],
          summaries |-> <<>>]
NoWrite == [op |-> "none", at |-> "idle", value |-> 0]

CacheInit ==
  /\ db = Empty
  /\ cache = Empty
  /\ writer = NoWrite
  /\ writes = 0
  /\ unsure = {}

(***************************************************************************)
(* What a command makes of its table.                                      *)
(***************************************************************************)
Take(s, n) == SubSeq(s, 1, IF Len(s) < n THEN Len(s) ELSE n)

\* A list has one row of a job.
EachOnce(s) == \A i, j \in DOMAIN s : s[i].id = s[j].id => i = j

\* The row goes to the front, whether it was there or not.
Newest(s, e) ==
  <<e>> \o IF \E i \in DOMAIN s : s[i].id = e.id
           THEN RemoveAt(s, CHOOSE i \in DOMAIN s : s[i].id = e.id)
           ELSE s

\* upsertScheduleScript keeps the marks of an existing row.
SavedSchedule(old, n) == [rule |-> n, mark |-> IF old.rule = 0 THEN 0 ELSE old.mark]

\* markScheduleRunScript does not bring a row back.
MarkedSchedule(old, n) == IF old.rule = 0 THEN old ELSE [old EXCEPT !.mark = n]

Written(op, n, value, old) ==
  CASE op = "UpsertSchedule"       -> SavedSchedule(old, n)
    [] op = "MarkScheduleRun"      -> MarkedSchedule(old, n)
    [] op = "DeleteSchedule"       -> [rule |-> 0, mark |-> 0]
    [] op = "UpsertManualProvider" -> value
    [] op = "DeleteManualProvider" -> [row |-> 0, key |-> 0]
    [] op = "ClearDingTalkConfig"  -> 0
    [] op = "SaveSummary"          -> Newest(old, [id |-> value, v |-> n])
    [] OTHER                       -> n

\* A command on a row that is not there: HDEL returns 0, the mark script false.
NoSuchRow(op) ==
  \/ op \in {"MarkScheduleRun", "DeleteSchedule"} /\ db.schedule.rule = 0
  \/ op = "DeleteManualProvider" /\ db.manual.row = 0

(***************************************************************************)
(* A write, from writeMu.Lock to Unlock.                                   *)
(***************************************************************************)
\* The key of a provider is kept, replaced or cleared; it is kept from the copy.
UpsertValues ==
  {[row |-> writes + 1, key |-> k] :
     k \in {0, writes + 1, IF cache.manual.row = 0 THEN 0 ELSE cache.manual.key}}

\* Validation passed and writeMu is held; the command is on its way.
BeginWrite(op, values) ==
  /\ writer = NoWrite
  /\ writes < MaxWrites
  /\ writes' = writes + 1
  /\ \E value \in values : writer' = [op |-> op, at |-> "redis", value |-> value]
  /\ UNCHANGED <<db, cache, unsure>>

UpsertSchedule == BeginWrite("UpsertSchedule", {0})
MarkScheduleRun == BeginWrite("MarkScheduleRun", {0})
DeleteSchedule == BeginWrite("DeleteSchedule", {0})
SaveSummary == BeginWrite("SaveSummary", SummaryId)
SaveSettings == BeginWrite("SaveSettings", {0})
UpsertManualProvider == BeginWrite("UpsertManualProvider", UpsertValues)
DeleteManualProvider == BeginWrite("DeleteManualProvider", {0})
ReplaceCCSwitchProviders == BeginWrite("ReplaceCCSwitchProviders", {0})
SaveDingTalkConfig == BeginWrite("SaveDingTalkConfig", {0})
ClearDingTalkConfig == BeginWrite("ClearDingTalkConfig", {0})

After == Written(writer.op, writes, writer.value, db[TableOf(writer.op)])

\* Redis answered.
Commit ==
  /\ writer.at = "redis"
  /\ db' = [db EXCEPT ![TableOf(writer.op)] = After]
  /\ writer' = IF NoSuchRow(writer.op) THEN NoWrite
               ELSE [writer EXCEPT !.at = IF writer.op = "SaveSummary" THEN "trim" ELSE "cache"]
  /\ UNCHANGED <<cache, writes, unsure>>

\* Refused without effect: also a snapshot whose temporary key was not written.
Refused ==
  /\ writer.at = "redis"
  /\ writer' = NoWrite
  /\ UNCHANGED <<db, cache, writes, unsure>>

\* Carried out, but the answer was lost.  A deletion that the client repeats
\* finds nothing to delete, which is no error and leaves the copy as well.
AnswerLost ==
  /\ writer.at = "redis"
  /\ ~NoSuchRow(writer.op)
  /\ db' = [db EXCEPT ![TableOf(writer.op)] = After]
  /\ unsure' = unsure \cup {TableOf(writer.op)}
  /\ writer' = NoWrite
  /\ UNCHANGED <<cache, writes>>

TrimSummaries ==
  /\ writer.at = "trim"
  /\ db' = [db EXCEPT !.summaries = Take(@, SummaryLimit)]
  /\ writer' = [writer EXCEPT !.at = "cache"]
  /\ UNCHANGED <<cache, writes, unsure>>

\* Counting or trimming failed: the summary is saved and reported as an error.
TrimFails ==
  /\ writer.at = "trim"
  /\ db' \in {db, [db EXCEPT !.summaries = Take(@, SummaryLimit)]}
  /\ unsure' = unsure \cup {"summaries"}
  /\ writer' = NoWrite
  /\ UNCHANGED <<cache, writes>>

\* A bug: the copy is given what the request said, not what Redis merged.
CachedWrong(op, n, value, old) ==
  CASE op = "SaveSummary"                            -> Take(Newest(old, [id |-> value, v |-> n]), SummaryLimit)
    [] op = "UpsertSchedule"                         -> [rule |-> n, mark |-> 0]
    [] OTHER                                         -> db[TableOf(op)]

\* Scripts return the row they merged; the other writers know what they wrote.
Cached(op, n, value, old) ==
  CASE op = "SaveSummary"                            -> Take(Newest(old, [id |-> value, v |-> n]), SummaryLimit)
    [] op \in {"UpsertSchedule", "MarkScheduleRun"} -> db.schedule
    [] OTHER                                         -> Written(op, n, value, old)

\* A row written and answered is right again; a list keeps what it missed.
UpdateCache ==
  /\ writer.at = "cache"
  /\ LET t == TableOf(writer.op) IN
     /\ cache' = [cache EXCEPT ![t] = Cached(writer.op, writes, writer.value, @)]
     /\ unsure' = IF t = "summaries" THEN unsure ELSE unsure \ {t}
  /\ writer' = NoWrite
  /\ UNCHANGED <<db, writes>>

\* The process dies and opens the store again: Prewarm.
Restart ==
  /\ cache' = db
  /\ writer' = NoWrite
  /\ unsure' = {}
  /\ UNCHANGED <<db, writes>>

CacheNext ==
  \/ UpsertSchedule \/ MarkScheduleRun \/ DeleteSchedule
  \/ SaveSummary
  \/ SaveSettings
  \/ UpsertManualProvider \/ DeleteManualProvider \/ ReplaceCCSwitchProviders
  \/ SaveDingTalkConfig \/ ClearDingTalkConfig
  \/ Commit \/ Refused \/ AnswerLost
  \/ TrimSummaries \/ TrimFails
  \/ UpdateCache
  \/ Restart

CacheSpec == CacheInit /\ [][CacheNext]_cacheVars

CacheTypeOK ==
  /\ db \in Contents /\ EachOnce(db.summaries)
  /\ cache \in Contents /\ EachOnce(cache.summaries)
  /\ writer.op \in Ops \cup {"none"} /\ writer.at \in {"idle", "redis", "trim", "cache"}
  /\ writes \in 0..MaxWrites
  /\ unsure \subseteq Tables

(***************************************************************************)
(* What readers are given is what Redis holds: between two writes, every   *)
(* table of the copy whose last effective write was answered agrees with   *)
(* Redis, with the marks, keys and order that Redis or an earlier row      *)
(* supplied, also after lists were trimmed, writes failed half way and the *)
(* store was opened again.                                                 *)
(***************************************************************************)
CacheFollowsRedis ==
  writer = NoWrite => \A t \in Tables \ unsure : cache[t] = db[t]
=============================================================================
