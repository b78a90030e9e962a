----------------------------- MODULE MCServices -----------------------------
(***************************************************************************)
(* The parts of the service around the job table that have no step and no  *)
(* variable in common: a behaviour is one of one part, on a small          *)
(* instance, and leaves the variables of the others alone.                 *)
(***************************************************************************)
EXTENDS Incidents, Idempotency, RedisCache, StoreOpen, ProxyConfig, Routing,
        Alerts, Digest, Notices, EventLedger

VARIABLE part      \* the part whose behaviour this is

Parts == {"incidents", "idempotency", "cache", "ledger", "open", "proxy",
          "routing", "alerts", "digest", "notices"}

-----------------------------------------------------------------------------
(***************************************************************************)
(* Constants that are no model values.                                     *)
(***************************************************************************)
MCRequest == {"r1", "r2", "r3"}
MCHashOf  == [r \in MCRequest |-> IF r = "r3" THEN "f2" ELSE "f1"]
MCSourceSchedules == <<"s1">>
MCSourceSummaries == <<"u2", "u1">>

FirstChannel == CHOOSE c \in Channel : TRUE
OtherHook == CHOOSE w \in Webhook \ {EnvHook} : TRUE

-----------------------------------------------------------------------------
\* Routes to a channel that may be gone, another channel that can be used, and
\* a stored default or none; no configuration in the other parts.
RoutingStart ==
  IF part = "routing"
  THEN /\ channels[FirstChannel] \in {Absent} \cup [webhook : Webhook, enabled : {TRUE}]
       /\ \A c \in Channel \ {FirstChannel} :
            channels[c] = [webhook |-> OtherHook, enabled |-> TRUE]
       /\ routes = [k \in Kind |-> FirstChannel]
       /\ default \in {OtherHook, NoHook}
  ELSE channels = [c \in Channel |-> Absent] /\ routes = NoRoutes /\ default = NoHook

Init ==
  /\ part \in Parts
  /\ IncInit
  /\ IdemInit
  /\ CacheInit
  /\ LedgerInit
  /\ OpenInit
  /\ ProxyInit
  /\ RouteInit
  /\ AlertInit
  /\ DigestInit
  /\ NoticeInit
  /\ RoutingStart

\* The variables of the other parts.
Others(p) ==
  /\ UNCHANGED part
  /\ IF p = "incidents" THEN TRUE ELSE UNCHANGED incVars
  /\ IF p = "idempotency" THEN TRUE ELSE UNCHANGED idemVars
  /\ IF p = "cache" THEN TRUE ELSE UNCHANGED cacheVars
  /\ IF p = "ledger" THEN TRUE ELSE UNCHANGED ledgerVars
  /\ IF p = "open" THEN TRUE ELSE UNCHANGED openVars
  /\ IF p = "proxy" THEN TRUE ELSE UNCHANGED proxyVars
  /\ IF p = "routing" THEN TRUE ELSE UNCHANGED routeVars
  /\ IF p = "alerts" THEN TRUE ELSE UNCHANGED alertVars
  /\ IF p = "digest" THEN TRUE ELSE UNCHANGED digestVars
  /\ IF p = "notices" THEN TRUE ELSE UNCHANGED noticeVars

Next ==
  \/ part = "incidents" /\ IncNext /\ Others("incidents")
  \/ part = "idempotency" /\ IdemNext /\ Others("idempotency")
  \/ part = "cache" /\ CacheNext /\ Others("cache")
  \/ part = "ledger" /\ LedgerNext /\ Others("ledger")
  \/ part = "open" /\ OpenNext /\ Others("open")
  \/ part = "proxy" /\ ProxyNext /\ Others("proxy")
  \/ part = "routing" /\ RouteNext /\ Others("routing")
  \/ part = "alerts" /\ AlertNext /\ Others("alerts")
  \/ part = "digest" /\ DigestNext /\ Others("digest")
  \/ part = "notices" /\ NoticeNext /\ Others("notices")

-----------------------------------------------------------------------------
\* The part has the types its module states.
TypeOK ==
  /\ part \in Parts
  /\ part = "incidents" => IncTypeOK
  /\ part = "idempotency" => IdemTypeOK
  /\ part = "cache" => CacheTypeOK
  /\ part = "ledger" => LedgerTypeOK
  /\ part = "open" => OpenTypeOK
  /\ part = "proxy" => ProxyTypeOK
  /\ part = "routing" => RouteTypeOK
  /\ part = "alerts" => AlertTypeOK
  /\ part = "digest" => DigestTypeOK
  /\ part = "notices" => NoticeTypeOK
=============================================================================
