---------------------------- MODULE ProxyConfig ----------------------------
(***************************************************************************)
(* The Mihomo subscription: the encrypted URL in the store, the runtime    *)
(* configuration in a file shared with Mihomo, and the configuration       *)
(* Mihomo runs.  Apply, Clear and the Restore of the start-up change the   *)
(* three one after the other under operationMu, and undo what they did     *)
(* when a later step fails.  A command may be refused, or carried out      *)
(* without an answer; the client may go away, which cancels the context of *)
(* everything its request still has to do; the process may die anywhere.   *)
(***************************************************************************)
EXTENDS Naturals

CONSTANTS Url,    \* subscriptions
          NoUrl   \* none stored, no file; the base configuration

VARIABLES stored,     \* the subscription in the store
          runtime,    \* the subscription runtime.yaml was generated for
          live,       \* the subscription Mihomo runs
          call,       \* the holder of operationMu
          last,       \* lastStatus: configured and errorStage
          serving,    \* the start-up is over
          validated,  \* history: subscriptions that passed the connectivity test
          fallback,   \* history: the latest restore ended with the base configuration
          doubt       \* history: an effect without answer, a failed rollback or a crash

proxyVars == <<stored, runtime, live, call, last, serving, validated, fallback, doubt>>

Config == Url \cup {NoUrl}
Stages == {"none", "validation", "storage", "write", "reload", "subscription",
           "connectivity", "controller", "rollback"}
NoCall == [op |-> "none", at |-> "idle", url |-> NoUrl, prev |-> NoUrl,
           prevFile |-> NoUrl, stage |-> "none", cancelled |-> FALSE]

ProxyInit ==
  /\ stored = NoUrl /\ runtime = NoUrl /\ live = NoUrl
  /\ call = NoCall
  /\ last = [configured |-> FALSE, stage |-> "none"]
  /\ serving = FALSE
  /\ validated = {}
  /\ fallback = FALSE
  /\ doubt = FALSE

GoOn(place) == call' = [call EXCEPT !.at = place]

\* The operation is over and its status is kept for the next look.
Finish(record, stage) ==
  /\ call' = NoCall
  /\ last' = [configured |-> record # NoUrl, stage |-> stage]
  /\ serving' = TRUE

\* To restorePrevious, with the error to be reported after it.
Undo(stage) ==
  /\ call' = [call EXCEPT !.at = "undoFile", !.stage = stage]
  /\ UNCHANGED <<last, serving>>

(***************************************************************************)
(* The calls of Mihomo.  A cancelled context refuses every further one.    *)
(***************************************************************************)
\* Reload: carried out and answered, carried out without answer, or refused.
Reload(config, outcome) ==
  /\ call.cancelled => outcome = "refused"
  /\ live' = IF outcome = "refused" THEN live ELSE config

\* GroupStatus, repeated until there are nodes, and the connectivity test.
TestAnswers(ok) == ok => ~call.cancelled

(***************************************************************************)
(* A request, or the start-up, takes the mutex and reads what is stored.   *)
(***************************************************************************)
BeginCall(op, url) ==
  /\ call = NoCall
  /\ serving = (op # "restore")
  /\ call' = [NoCall EXCEPT !.op = op, !.at = "load", !.url = url]
  /\ UNCHANGED <<stored, runtime, live, last, serving, validated, fallback, doubt>>

InvalidUrl ==
  /\ call.at = "load" /\ call.op = "apply"
  /\ Finish(NoUrl, "validation")
  /\ UNCHANGED <<stored, runtime, live, validated, fallback, doubt>>

Load ==
  /\ call.at = "load"
  /\ IF call.op = "restore" /\ stored = NoUrl
     THEN call' = NoCall /\ serving' = TRUE
     ELSE /\ call' = [call EXCEPT !.prev = stored, !.prevFile = runtime,
                        !.url = IF call.op = "restore" THEN stored ELSE @,
                        !.at = IF call.op = "clear" THEN "base" ELSE "write"]
          /\ UNCHANGED serving
  /\ UNCHANGED <<stored, runtime, live, last, validated, fallback, doubt>>

\* The restore of the start-up does not keep the error in the status.
LoadFails ==
  /\ call.at = "load"
  /\ IF call.op = "restore"
     THEN call' = NoCall /\ serving' = TRUE /\ UNCHANGED last
     ELSE Finish(NoUrl, "storage")
  /\ UNCHANGED <<stored, runtime, live, validated, fallback, doubt>>

(***************************************************************************)
(* Apply, and Restore up to the test.                                      *)
(***************************************************************************)
\* writeAtomic: a temporary file and a rename.
WriteRuntime ==
  /\ call.at = "write"
  /\ runtime' = call.url
  /\ GoOn("reload")
  /\ UNCHANGED <<stored, live, last, serving, validated, fallback, doubt>>

WriteFails ==
  /\ call.at = "write"
  /\ Finish(call.prev, "write")
  /\ UNCHANGED <<stored, runtime, live, validated, fallback, doubt>>

\* A bug: a reload that failed is taken for one that changed nothing.
ReloadRuntimeWrong(outcome) ==
  /\ call.at = "reload"
  /\ Reload(runtime, outcome)
  /\ IF outcome = "done" THEN GoOn("group") /\ UNCHANGED <<last, serving>>
                         ELSE Finish(call.prev, "reload")
  /\ UNCHANGED <<stored, runtime, validated, fallback, doubt>>

ReloadRuntime(outcome) ==
  /\ call.at = "reload"
  /\ Reload(runtime, outcome)
  /\ IF outcome = "done" THEN GoOn("group") /\ UNCHANGED <<last, serving>> ELSE Undo("reload")
  /\ UNCHANGED <<stored, runtime, validated, fallback, doubt>>

WaitForGroup(ok) ==
  /\ call.at = "group"
  /\ TestAnswers(ok)
  /\ IF ok THEN GoOn("test") /\ UNCHANGED <<last, serving>> ELSE Undo("subscription")
  /\ UNCHANGED <<stored, runtime, live, validated, fallback, doubt>>

TestConnectivity(ok) ==
  /\ call.at = "test"
  /\ TestAnswers(ok)
  /\ IF ~ok
     THEN Undo("connectivity") /\ UNCHANGED <<validated, fallback, doubt>>
     ELSE /\ validated' = validated \cup {call.url}
          /\ IF call.op = "apply"
             THEN GoOn("save") /\ UNCHANGED <<last, serving, fallback, doubt>>
             ELSE Finish(call.prev, "none") /\ fallback' = FALSE /\ doubt' = FALSE
  /\ UNCHANGED <<stored, runtime, live>>

Save ==
  /\ call.at = "save"
  /\ stored' = call.url
  /\ Finish(call.url, "none")
  /\ fallback' = FALSE /\ doubt' = FALSE
  /\ UNCHANGED <<runtime, live, validated>>

SaveFails(effect) ==
  /\ call.at = "save"
  /\ stored' = IF effect THEN call.url ELSE stored
  /\ doubt' = (doubt \/ effect)
  /\ Undo("storage")
  /\ UNCHANGED <<runtime, live, validated, fallback>>

(***************************************************************************)
(* Clear: the base configuration first; that step is not undone.           *)
(***************************************************************************)
ReloadBase(outcome) ==
  /\ call.at = "base"
  /\ Reload(NoUrl, outcome)
  /\ IF outcome = "done" THEN GoOn("remove") /\ UNCHANGED <<last, serving>>
                         ELSE Finish(call.prev, "reload")
  /\ doubt' = (doubt \/ outcome = "lost")
  /\ UNCHANGED <<stored, runtime, validated, fallback>>

RemoveRuntime(ok) ==
  /\ call.at = "remove"
  /\ runtime' = IF ok THEN NoUrl ELSE runtime
  /\ IF ok THEN GoOn("delete") /\ UNCHANGED <<last, serving>> ELSE Undo("write")
  /\ UNCHANGED <<stored, live, validated, fallback, doubt>>

Delete ==
  /\ call.at = "delete"
  /\ stored' = NoUrl
  /\ Finish(NoUrl, "none")
  /\ fallback' = FALSE /\ doubt' = FALSE
  /\ UNCHANGED <<runtime, live, validated>>

DeleteFails(effect) ==
  /\ call.at = "delete"
  /\ stored' = IF effect THEN NoUrl ELSE stored
  /\ doubt' = (doubt \/ effect)
  /\ Undo("storage")
  /\ UNCHANGED <<runtime, live, validated, fallback>>

(***************************************************************************)
(* restorePrevious, with the context of the failed call.                   *)
(***************************************************************************)
\* The start-up goes back to the base configuration.
Previous == IF call.op = "restore" THEN NoUrl ELSE call.prev

\* The file as it was, or one generated anew when there was none.
UndoneFile ==
  IF Previous # NoUrl /\ call.prevFile # NoUrl THEN call.prevFile ELSE Previous

\* The error of removing the file is dropped, that of writing it is not.
UndoFile(ok) ==
  /\ call.at = "undoFile"
  /\ runtime' = IF ok THEN UndoneFile ELSE runtime
  /\ IF ok \/ Previous = NoUrl
     THEN GoOn("undoReload") /\ UNCHANGED <<last, serving, doubt>>
     ELSE Finish(call.prev, "rollback") /\ doubt' = TRUE
  /\ UNCHANGED <<stored, live, validated, fallback>>

UndoReload(outcome) ==
  /\ call.at = "undoReload"
  /\ Reload(IF Previous = NoUrl THEN NoUrl ELSE runtime, outcome)
  /\ Finish(call.prev, IF outcome = "done" THEN call.stage ELSE "rollback")
  /\ IF call.op = "restore" /\ outcome = "done"
     THEN fallback' = TRUE /\ doubt' = FALSE
     ELSE doubt' = (doubt \/ outcome # "done") /\ UNCHANGED fallback
  /\ UNCHANGED <<stored, runtime, validated>>

(***************************************************************************)
(* Status and Test change nothing but the kept status; Status with nothing *)
(* stored shows the kept one when it is of that kind too.                  *)
(***************************************************************************)
Status(stage) ==
  /\ call = NoCall /\ serving
  /\ stage = "storage" \/ stored # NoUrl
  /\ last' = [configured |-> stage # "storage", stage |-> stage]
  /\ UNCHANGED <<stored, runtime, live, call, serving, validated, fallback, doubt>>

Test(stage) ==
  /\ call = NoCall /\ serving
  /\ stage = "subscription" => stored # NoUrl
  /\ last' = [configured |-> stage # "storage" /\ stored # NoUrl, stage |-> stage]
  /\ UNCHANGED <<stored, runtime, live, call, serving, validated, fallback, doubt>>

(***************************************************************************)
(* The client goes away, the start-up has taken 15 seconds, the process    *)
(* dies.                                                                   *)
(***************************************************************************)
CancelContext ==
  /\ call # NoCall /\ ~call.cancelled
  /\ call' = [call EXCEPT !.cancelled = TRUE]
  /\ UNCHANGED <<stored, runtime, live, last, serving, validated, fallback, doubt>>

ProcessDies ==
  /\ serving \/ call # NoCall
  /\ call' = NoCall
  /\ last' = [configured |-> FALSE, stage |-> "none"]
  /\ serving' = FALSE
  /\ doubt' = (doubt \/ call.at \notin {"idle", "load"})
  /\ UNCHANGED <<stored, runtime, live, validated, fallback>>

Outcomes == {"done", "lost", "refused"}
Looks == {"none", "storage", "controller", "subscription"}

ProxyNext ==
  \/ \E url \in Url : BeginCall("apply", url)
  \/ BeginCall("clear", NoUrl) \/ BeginCall("restore", NoUrl)
  \/ InvalidUrl \/ Load \/ LoadFails
  \/ WriteRuntime \/ WriteFails
  \/ \E outcome \in Outcomes :
       ReloadRuntime(outcome) \/ ReloadBase(outcome) \/ UndoReload(outcome)
  \/ \E ok \in BOOLEAN :
       \/ WaitForGroup(ok) \/ TestConnectivity(ok) \/ RemoveRuntime(ok) \/ UndoFile(ok)
       \/ SaveFails(ok) \/ DeleteFails(ok)
  \/ Save \/ Delete
  \/ \E stage \in Looks : Status(stage)
  \/ \E stage \in Looks \cup {"connectivity"} : Test(stage)
  \/ CancelContext \/ ProcessDies

ProxySpec == ProxyInit /\ [][ProxyNext]_proxyVars

ProxyTypeOK ==
  /\ stored \in Config /\ runtime \in Config /\ live \in Config
  /\ call.url \in Config /\ call.prev \in Config /\ call.prevFile \in Config
  /\ last \in [configured : BOOLEAN, stage : Stages]
  /\ validated \subseteq Url
  /\ serving \in BOOLEAN /\ fallback \in BOOLEAN /\ doubt \in BOOLEAN

(***************************************************************************)
(* A failed change leaves things as they were: between two operations      *)
(* Mihomo runs the stored subscription, or the base configuration when     *)
(* nothing is stored or the start-up could not restore it -- unless the    *)
(* rollback failed, a write of the store or the reload of Clear was        *)
(* carried out without answer, or the process died in between.  And no     *)
(* subscription is ever stored before nodes and connectivity were found    *)
(* (cc-switch-provider-proxy-override-design.md:15).                       *)
(***************************************************************************)
LiveMatchesStored ==
  /\ (call = NoCall /\ ~doubt) => live = stored \/ (fallback /\ live = NoUrl)
  /\ stored # NoUrl => stored \in validated
=============================================================================
