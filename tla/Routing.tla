------------------------------ MODULE Routing ------------------------------
(***************************************************************************)
(* Notification routing: a message of some kind goes to the channel its    *)
(* route names and, when that cannot be used, to the default webhook.      *)
(* Routes, channels and the default are kept in separate keys of the store *)
(* and read one after the other while clients change them; deleting a      *)
(* channel and saving routes are several commands themselves.              *)
(***************************************************************************)
EXTENDS Naturals, Sequences, FiniteSets, SequencesExt

CONSTANTS Channel,   \* ids of channels
          Kind,      \* kinds of messages
          Webhook,   \* addresses
          EnvHook,   \* the webhook of the environment, or NoHook
          NoHook,    \* no webhook
          NoChannel, \* the empty route
          MaxChanges \* bound: requests of clients in a behaviour

ASSUME RoutingAssumption ==
  /\ NoChannel \notin Channel /\ NoHook \notin Webhook
  /\ EnvHook \in Webhook \cup {NoHook}
  /\ MaxChanges \in Nat

VARIABLES channels,  \* channels[c]: webhook (NoHook: no such channel) and enabled
          routes,    \* routes[k]: a channel or NoChannel
          default,   \* the stored default webhook
          editor,    \* requests in progress, numbered as they come
          changes,   \* requests begun
          msg,       \* a delivery in progress, or the latest one
          seen       \* history: what was configured since the delivery began

routeVars == <<channels, routes, default, editor, changes, msg, seen>>

Absent == [webhook |-> NoHook, enabled |-> FALSE]
Editor == 1..MaxChanges
ChannelRow == {Absent} \cup [webhook : Webhook, enabled : BOOLEAN]
Target == Channel \cup {NoChannel}
NoRoutes == [k \in Kind |-> NoChannel]
NoEdit == [op |-> "none", at |-> "idle", c |-> NoChannel, row |-> Absent, copy |-> NoRoutes]
NoMessage == [kind |-> "none", at |-> "idle", c |-> NoChannel, base |-> NoHook,
              tries |-> <<>>, accepted |-> FALSE, fault |-> FALSE, noDefault |-> FALSE]

\* EffectiveDingTalkConfig: the stored webhook wins over the environment.
EffectiveDefault(stored) == IF stored # NoHook THEN stored ELSE EnvHook

\* The webhook a route leads to, if its channel can be used.
RoutedHook(k) ==
  IF routes[k] = NoChannel \/ ~channels[routes[k]].enabled THEN NoHook
  ELSE channels[routes[k]].webhook

Now == [route   |-> IF msg.at \in {"idle", "end"} THEN {} ELSE {routes[msg.kind]},
        target  |-> IF msg.at \in {"idle", "end"} THEN {} ELSE {RoutedHook(msg.kind)},
        default |-> {default}]
NothingSeen == [route |-> {}, target |-> {}, default |-> {}]

\* What a delivery in progress has seen, after a change of the configuration.
Seen == seen' = IF msg'.at \in {"idle", "end"} THEN seen
                ELSE [f \in DOMAIN seen |-> seen[f] \cup Now'[f]]

RouteInit ==
  /\ channels \in [Channel -> ChannelRow]
  /\ routes \in [Kind -> Target]
  /\ default \in Webhook \cup {NoHook}
  /\ editor = [e \in Editor |-> NoEdit]
  /\ changes = 0
  /\ msg = NoMessage
  /\ seen = NothingSeen

(***************************************************************************)
(* Requests of clients.                                                    *)
(***************************************************************************)
Step(e, place) == editor' = [editor EXCEPT ![e].at = place]
Done(e) == editor' = [editor EXCEPT ![e] = NoEdit]

\* SaveNotificationChannel reads the row it changes: what the request leaves
\* out (here: the webhook) is kept from it.
BeginSave(e, c, row) ==
  /\ e = changes + 1
  /\ channels[c] = Absent => row.webhook # NoHook
  /\ editor' = [editor EXCEPT ![e] =
       [NoEdit EXCEPT !.op = "channel", !.at = "save", !.c = c,
          !.row = [row EXCEPT !.webhook = IF @ = NoHook THEN channels[c].webhook ELSE @]]]
  /\ changes' = changes + 1
  /\ UNCHANGED <<channels, routes, default, msg, seen>>

\* UpsertNotificationChannel.
SaveChannel(e) ==
  /\ editor[e].op = "channel"
  /\ channels' = [channels EXCEPT ![editor[e].c] = editor[e].row]
  /\ Done(e)
  /\ UNCHANGED <<routes, default, changes, msg>>
  /\ Seen

\* DeleteNotificationChannel: the channel, then the routes that name it.  When
\* the answer of HDEL is lost and the command repeated, the routes stay.
DeleteChannel(e, c, answered) ==
  /\ e = changes + 1
  /\ channels[c] # Absent
  /\ channels' = [channels EXCEPT ![c] = Absent]
  /\ editor' = [editor EXCEPT ![e] = IF ~answered THEN NoEdit
                  ELSE [NoEdit EXCEPT !.op = "delete", !.at = "load", !.c = c]]
  /\ changes' = changes + 1
  /\ UNCHANGED <<routes, default, msg>>
  /\ Seen

LoadRoutes(e) ==
  /\ editor[e].op = "delete" /\ editor[e].at = "load"
  /\ LET c == editor[e].c IN
     IF \E k \in Kind : routes[k] = c
     THEN editor' = [editor EXCEPT ![e].at = "save",
            ![e].copy = [k \in Kind |-> IF routes[k] = c THEN NoChannel ELSE routes[k]]]
     ELSE Done(e)
  /\ UNCHANGED <<channels, routes, default, changes, msg, seen>>

\* SaveNotificationRoutes checks each channel of the request, and saves.
BeginRoutes(e, wanted) ==
  /\ e = changes + 1
  /\ \A k \in Kind : wanted[k] # NoChannel => channels[wanted[k]] # Absent
  /\ editor' = [editor EXCEPT ![e] = [NoEdit EXCEPT !.op = "routes", !.at = "save", !.copy = wanted]]
  /\ changes' = changes + 1
  /\ UNCHANGED <<channels, routes, default, msg, seen>>

SaveRoutes(e) ==
  /\ editor[e].op \in {"delete", "routes"} /\ editor[e].at = "save"
  /\ routes' = editor[e].copy
  /\ Done(e)
  /\ UNCHANGED <<channels, default, changes, msg>>
  /\ Seen

\* A command of the request fails, or the process dies with it.
EditFails(e) ==
  /\ editor[e] # NoEdit
  /\ Done(e)
  /\ UNCHANGED <<channels, routes, default, changes, msg, seen>>

\* SaveDingTalkConfig and ClearDingTalkConfig.
SaveDefault(hook) ==
  /\ changes < MaxChanges
  /\ hook # default
  /\ default' = hook
  /\ changes' = changes + 1
  /\ UNCHANGED <<channels, routes, editor, msg>>
  /\ Seen

(***************************************************************************)
(* A delivery.                                                             *)
(***************************************************************************)
Move(m) == msg' = m /\ UNCHANGED <<channels, routes, default, editor, changes>> /\ Seen

\* Configured: some webhook could be used.  If it cannot be read nothing is sent.
Configured ==
  \/ EffectiveDefault(default) # NoHook
  \/ \E c \in Channel : channels[c].enabled

SendRouted(k) ==
  /\ msg.at \in {"idle", "end"}
  /\ Configured
  /\ msg' = [NoMessage EXCEPT !.kind = k, !.at = "route"]
  /\ UNCHANGED <<channels, routes, default, editor, changes>>
  /\ seen' = Now'

\* The error of reading the routes is dropped: no route.
ReadRoute(ok) ==
  /\ msg.at = "route"
  /\ Move([msg EXCEPT !.at = "default", !.c = IF ok THEN routes[msg.kind] ELSE NoChannel,
                      !.fault = @ \/ ~ok])

\* effectiveWebhook looks twice: whether there is a stored webhook, and at it.
\* When either read fails there is no default, not the environment's either,
\* and the channel is still tried.
Unreadable == [msg EXCEPT !.at = "channel", !.noDefault = TRUE]

FindDefault(ok) ==
  /\ msg.at = "default"
  /\ Move(IF ~ok THEN Unreadable
          ELSE IF default # NoHook THEN [msg EXCEPT !.at = "stored"]
          ELSE [msg EXCEPT !.at = "channel", !.base = EnvHook])

ReadDefault(ok) ==
  /\ msg.at = "stored"
  /\ Move(IF ok THEN [msg EXCEPT !.at = "channel", !.base = default] ELSE Unreadable)

\* A channel that is gone, disabled or unreadable is passed over.
ReadChannel(ok) ==
  /\ msg.at = "channel"
  /\ Move(IF ok /\ msg.c # NoChannel /\ channels[msg.c] # Absent /\ channels[msg.c].enabled
          THEN [msg EXCEPT !.at = "send", !.tries = <<channels[msg.c].webhook>>]
          ELSE [msg EXCEPT !.at = "fallback", !.fault = @ \/ ~ok])

\* A bug: a failed channel is tried again as the default.
FallsBackWrong == TRUE

\* The same address is not tried twice.
FallsBack == msg.base # Last(msg.tries)

\* The answer of DingTalk is an error although it may have taken the message.
SendToChannel(ok) ==
  /\ msg.at = "send"
  /\ Move([msg EXCEPT !.at = IF ok \/ ~FallsBack THEN "end" ELSE "fallback", !.accepted = ok])

SendToDefault(ok) ==
  /\ msg.at = "fallback"
  /\ IF msg.base = NoHook
     THEN ~ok /\ Move([msg EXCEPT !.at = "end"])
     ELSE Move([msg EXCEPT !.at = "end", !.tries = Append(@, msg.base), !.accepted = ok])

RouteNext ==
  \/ \E e \in Editor, c \in Channel :
       \/ \E row \in [webhook : Webhook \cup {NoHook}, enabled : BOOLEAN] : BeginSave(e, c, row)
       \/ \E answered \in BOOLEAN : DeleteChannel(e, c, answered)
  \/ \E e \in Editor :
       \/ SaveChannel(e) \/ LoadRoutes(e) \/ SaveRoutes(e) \/ EditFails(e)
       \/ \E wanted \in [Kind -> Target] : BeginRoutes(e, wanted)
  \/ \E hook \in Webhook \cup {NoHook} : SaveDefault(hook)
  \/ \E k \in Kind : SendRouted(k)
  \/ \E ok \in BOOLEAN :
       \/ ReadRoute(ok) \/ FindDefault(ok) \/ ReadDefault(ok) \/ ReadChannel(ok)
       \/ SendToChannel(ok) \/ SendToDefault(ok)

RouteSpec == RouteInit /\ [][RouteNext]_routeVars

RouteTypeOK ==
  /\ channels \in [Channel -> ChannelRow]
  /\ routes \in [Kind -> Target]
  /\ default \in Webhook \cup {NoHook}
  /\ \A e \in Editor : editor[e].row \in ChannelRow /\ editor[e].copy \in [Kind -> Target]
  /\ changes \in 0..MaxChanges
  /\ msg.tries \in Seq(Webhook) /\ msg.base \in Webhook \cup {NoHook}

(***************************************************************************)
(* Whatever clients change meanwhile, and however routes dangle, when a    *)
(* delivery is over: success is reported for the address that took the     *)
(* message; no address was tried twice; a default that nobody touched was  *)
(* tried unless the channel took the message or the default could not be   *)
(* read; a channel that could be used all the time was tried first, unless *)
(* route or channel could not be read; and while the route stayed, nobody  *)
(* else was given the message                                              *)
(* (notification-routing-center-design.md:26-29).  While the stored        *)
(* default is cleared a message may find neither it nor the environment's. *)
(***************************************************************************)
RoutedOrDefault ==
  msg.at = "end" =>
    /\ msg.accepted => msg.tries # <<>>
    /\ IsInjective(msg.tries)
    /\ \A d \in seen.default :
         seen.default = {d} /\ EffectiveDefault(d) # NoHook
         /\ ~msg.accepted /\ ~msg.noDefault =>
           EffectiveDefault(d) \in ToSet(msg.tries)
    /\ Cardinality(seen.target) = 1 /\ Cardinality(seen.route) = 1 /\ NoHook \notin seen.target
       /\ ~msg.fault => msg.tries # <<>> /\ msg.tries[1] \in seen.target
    /\ Cardinality(seen.route) = 1 =>
         ToSet(msg.tries) \subseteq seen.target \cup {EffectiveDefault(d) : d \in seen.default}
=============================================================================
