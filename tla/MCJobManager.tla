---------------------------- MODULE MCJobManager ----------------------------
(* Instances of JobManager for TLC. *)
EXTENDS JobManager, TLC

CONSTANTS j1, j2, t1, t2

Opt(m, o, t) == [mode |-> m, runOnce |-> o, target |-> t]

\* Every way a job can run, on two targets.
MixedOptions == {Opt("keepalive", FALSE, t1), Opt("probe", FALSE, t1),
                 Opt("keepalive", TRUE, t2), Opt("probe", TRUE, t2)}

\* Two targets, one lease to give.
LeaseOptions == {Opt("keepalive", FALSE, t1), Opt("probe", FALSE, t2)}

Ids == Permutations(JobId)
=============================================================================
