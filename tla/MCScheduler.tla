----------------------------- MODULE MCScheduler -----------------------------
(* Instances of Scheduler for TLC. *)
EXTENDS Scheduler, TLC

CONSTANTS j1, j2, s1, s2, t1, t2

Opt(m, o, t) == [mode |-> m, runOnce |-> o, target |-> t]

Keepalive == Opt("keepalive", FALSE, t1)
Probes    == {Opt("probe", TRUE, t1), Opt("probe", TRUE, t2)}

\* A row for a keepalive and a row for a probe want the same target.
Rivals     == {Keepalive, Opt("probe", TRUE, t1)}
RivalRules == [s \in Schedule |-> IF s = s1 THEN {Keepalive} ELSE Rivals \ {Keepalive}]

\* Probes that an edit can move to another target.
ProbeRules == [s \in Schedule |-> Probes]

ProbeOnly      == {Opt("probe", TRUE, t1)}
ProbeOnlyRules == [s \in Schedule |-> ProbeOnly]

KeepaliveOnly  == {Keepalive}
KeepaliveRules == [s \in Schedule |-> KeepaliveOnly]
KeepaliveNow   == {[schedule |-> s1, opts |-> Keepalive]}

NoOptions == {}

Ids           == Permutations(JobId)
IdsAndTargets == Permutations(JobId) \cup Permutations(Target)
=============================================================================
