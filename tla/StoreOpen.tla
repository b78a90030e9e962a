----------------------------- MODULE StoreOpen -----------------------------
(***************************************************************************)
(* Opening the Redis store: check the connection and the schema, import    *)
(* the SQLite database of an earlier version once, seed the settings, and  *)
(* load the copy.  Everything has to be done within five seconds; a step   *)
(* that fails leaves the store unusable until the process is started       *)
(* again, which begins anew with what Redis holds by then.                 *)
(***************************************************************************)
EXTENDS Naturals, Sequences, FiniteSets, SequencesExt

CONSTANTS SourceSchedules,  \* rows of the SQLite database
          SourceSummaries,  \* its summaries, newest first
          SourceEvents,     \* its events: 1..SourceEvents
          MaxEvent,         \* bound: highest event id
          MaxStarts         \* bound: starts of the process

\* Rows of one table of SQLite have different keys.
ASSUME ImportAssumption ==
  /\ SourceSchedules \in Seq(ToSet(SourceSchedules))
  /\ SourceSummaries \in Seq(ToSet(SourceSummaries)) /\ IsInjective(SourceSummaries)
  /\ SourceEvents \in Nat /\ MaxEvent \in Nat /\ SourceEvents <= MaxEvent
  /\ MaxStarts \in Nat

VARIABLES redis,     \* what Redis holds
          pc,        \* the start-up: its place and the row it has reached
          starts,    \* starts so far
          saved,     \* history: users saved settings
          misread    \* history: the sum of the sizes was read with an error

openVars == <<redis, pc, starts, saved, misread>>

OpenPlaces == {"down", "ping", "schema", "marker", "source", "settings", "schedules", "summarySeq",
           "summaryRow", "events", "sums", "finish", "retired", "seed", "prewarm", "open"}
Start(place) == [at |-> place, n |-> 0, maxId |-> 0, total |-> 0]

OpenInit ==
  /\ redis = [schema |-> 0, marker |-> FALSE, settings |-> "none", schedules |-> {},
              summarySeq |-> 0, summaries |-> [i \in {} |-> 0],
              events |-> [i \in {} |-> "old"], seq |-> 0, bytes |-> 0, examples |-> TRUE]
  /\ pc = Start("down")
  /\ starts = 0
  /\ saved = FALSE
  /\ misread = FALSE

\* HSET.
HSet(hash, field, value) ==
  [x \in {field} \cup DOMAIN hash |-> IF x = field THEN value ELSE hash[x]]

\* The step is done, and the next one is at the given place.
Then(place) == pc' = Start(place)
NextRow == pc' = [pc EXCEPT !.n = @ + 1]
SameHistory == UNCHANGED <<starts, saved, misread>>

StartProcess ==
  /\ pc.at = "down"
  /\ starts < MaxStarts
  /\ starts' = starts + 1
  /\ Then("ping")
  /\ UNCHANGED <<redis, saved, misread>>

\* The deadline, an error of Redis or SQLite, or the end of the process; a
\* command of the step may have been carried out (see the steps that write).
Fails ==
  /\ pc.at # "down"
  /\ Then("down")
  /\ UNCHANGED <<redis, starts, saved, misread>>

\* Ping and the probe that is written, read and deleted.
VerifyReadWrite ==
  /\ pc.at = "ping"
  /\ Then("schema")
  /\ UNCHANGED redis /\ SameHistory

InitializeSchema ==
  /\ pc.at = "schema"
  /\ redis' = [redis EXCEPT !.schema = 1]
  /\ Then("marker")
  /\ SameHistory

(***************************************************************************)
(* migrateSQLite.                                                          *)
(***************************************************************************)
\* A bug: a Redis that is not empty is taken for an imported one.
CheckMarkerWrong ==
  /\ pc.at = "marker"
  /\ Then(IF redis.marker \/ redis.settings # "none" THEN "retired" ELSE "source")
  /\ UNCHANGED redis /\ SameHistory

CheckMarker ==
  /\ pc.at = "marker"
  /\ Then(IF redis.marker THEN "retired" ELSE "source")
  /\ UNCHANGED redis /\ SameHistory

\* The database and its journals are copied, and the copy is opened.
SnapshotSource ==
  /\ pc.at = "source"
  /\ Then("settings")
  /\ UNCHANGED redis /\ SameHistory

CopySettings ==
  /\ pc.at = "settings"
  /\ redis' = [redis EXCEPT !.settings = "source"]
  /\ Then("schedules")
  /\ SameHistory

CopySchedule ==
  /\ pc.at = "schedules"
  /\ IF pc.n = Len(SourceSchedules)
     THEN UNCHANGED redis /\ Then("summarySeq")
     ELSE redis' = [redis EXCEPT !.schedules = @ \cup {SourceSchedules[pc.n + 1]}] /\ NextRow
  /\ SameHistory

\* Oldest first, each under the next number: the order of reading is kept.
TakeSummaryNumber ==
  /\ pc.at = "summarySeq"
  /\ IF pc.n = Len(SourceSummaries)
     THEN UNCHANGED redis /\ Then("events")
     ELSE redis' = [redis EXCEPT !.summarySeq = @ + 1] /\ pc' = [pc EXCEPT !.at = "summaryRow"]
  /\ SameHistory

CopySummary ==
  /\ pc.at = "summaryRow"
  /\ redis' = [redis EXCEPT !.summaries =
       HSet(@, Reverse(SourceSummaries)[pc.n + 1], redis.summarySeq)]
  /\ pc' = [pc EXCEPT !.at = "summarySeq", !.n = @ + 1]
  /\ SameHistory

\* Newest first, under their own ids.
CopyEvent ==
  /\ pc.at = "events"
  /\ IF pc.n = SourceEvents
     THEN UNCHANGED redis /\ Then("sums")
     ELSE redis' = [redis EXCEPT !.events = HSet(@, SourceEvents - pc.n, "old")] /\ NextRow
  /\ SameHistory

Highest(S) == IF S = {} THEN 0 ELSE CHOOSE x \in S : \A y \in S : y <= x

\* HKEYS and HMGET of the sizes; the errors of both are dropped, and then both
\* sums are zero.
SumSizes ==
  /\ pc.at = "sums"
  /\ \/ /\ pc' = [at |-> "finish", n |-> 0, maxId |-> Highest(DOMAIN redis.events),
                  total |-> Cardinality(DOMAIN redis.events)]
        /\ UNCHANGED misread
     \/ /\ Then("finish")
        /\ misread' = TRUE
  /\ UNCHANGED <<redis, starts, saved>>

\* One transaction; its answer may be lost.
FinishMigration ==
  /\ pc.at = "finish"
  /\ redis' = [redis EXCEPT !.marker = TRUE, !.bytes = pc.total, !.seq = pc.maxId]
  /\ Then("retired") \/ Then("down")
  /\ SameHistory

(***************************************************************************)
(* The rest of open.                                                       *)
(***************************************************************************)
RemoveRetired ==
  /\ pc.at = "retired"
  /\ redis' = [redis EXCEPT !.examples = FALSE]
  /\ Then("seed")
  /\ SameHistory

SeedDefaults ==
  /\ pc.at = "seed"
  /\ redis' = [redis EXCEPT !.settings = IF @ = "none" THEN "default" ELSE @]
  /\ Then("prewarm")
  /\ SameHistory

Prewarm ==
  /\ pc.at = "prewarm"
  /\ Then("open")
  /\ UNCHANGED redis /\ SameHistory

(***************************************************************************)
(* The service at work: what the next start-up finds.                      *)
(***************************************************************************)
UserSaves ==
  /\ pc.at = "open"
  /\ redis' = [redis EXCEPT !.settings = "user"]
  /\ saved' = TRUE
  /\ UNCHANGED <<pc, starts, misread>>

\* saveEventScript takes the next number, whatever is stored under it.
SaveEvent ==
  /\ pc.at = "open"
  /\ redis.seq < MaxEvent
  /\ redis' = [redis EXCEPT !.seq = @ + 1, !.bytes = @ + 1,
                            !.events = HSet(@, redis.seq + 1, "new")]
  /\ UNCHANGED <<pc, starts, saved, misread>>

OpenNext ==
  \/ StartProcess \/ Fails
  \/ VerifyReadWrite \/ InitializeSchema
  \/ CheckMarker \/ SnapshotSource \/ CopySettings \/ CopySchedule
  \/ TakeSummaryNumber \/ CopySummary \/ CopyEvent \/ SumSizes \/ FinishMigration
  \/ RemoveRetired \/ SeedDefaults \/ Prewarm
  \/ UserSaves \/ SaveEvent

OpenSpec == OpenInit /\ [][OpenNext]_openVars

OpenTypeOK ==
  /\ pc.at \in OpenPlaces /\ starts \in 0..MaxStarts
  /\ redis.settings \in {"none", "default", "source", "user"}
  /\ redis.schedules \subseteq ToSet(SourceSchedules)
  /\ DOMAIN redis.summaries \subseteq ToSet(SourceSummaries)
  /\ DOMAIN redis.events \subseteq 1..MaxEvent
  /\ saved \in BOOLEAN /\ misread \in BOOLEAN

(***************************************************************************)
(* The import is complete, and is done once.  Whatever steps failed and    *)
(* however often the process was started: once the marker is set, every    *)
(* schedule, summary and event of the source is there, the summaries in    *)
(* their order, no later event has taken the id of an imported one, and    *)
(* the bytes are those of the events (unless the sums were misread); the   *)
(* store is not opened before; and settings saved by a user are neither    *)
(* imported over nor reset.                                                *)
(***************************************************************************)
ImportedOnce ==
  /\ pc.at = "open" => redis.marker /\ redis.schema = 1 /\ ~redis.examples
  /\ redis.marker =>
       /\ redis.schedules = ToSet(SourceSchedules)
       /\ DOMAIN redis.summaries = ToSet(SourceSummaries)
       /\ \A i, j \in 1..Len(SourceSummaries) :
            i < j => redis.summaries[SourceSummaries[i]] > redis.summaries[SourceSummaries[j]]
       /\ 1..SourceEvents \subseteq DOMAIN redis.events
       /\ ~misread => /\ \A id \in 1..SourceEvents : redis.events[id] = "old"
                      /\ redis.bytes = Cardinality(DOMAIN redis.events)
  /\ saved => redis.settings = "user"
=============================================================================
