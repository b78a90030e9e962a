---------------------------- MODULE TargetLease ----------------------------
(***************************************************************************)
(* What the job manager promises about a target (CLI, base URL and lock    *)
(* identity): it is leased to at most one job, a job leases at most one    *)
(* target and only once in its life, the number of leases is limited,      *)
(* nothing is leased after the service closes, and a lease whose job was   *)
(* told to stop is eventually given back.  How jobs run is left out.       *)
(***************************************************************************)
EXTENDS Naturals, FiniteSets

CONSTANTS Job,      \* identifiers a job can have
          Target,   \* leasable targets
          NoJob,    \* "not leased"
          Limit     \* how many leases may be out at once

VARIABLES holder,   \* holder[t]: the job target t is leased to, or NoJob
          retired,  \* jobs that had a lease and gave it back
          revoked,  \* leaseholders that were told to stop
          open      \* leases are still granted

leaseVars == <<holder, retired, revoked, open>>

Holders == {j \in Job : \E t \in Target : holder[t] = j}

LeaseInit ==
  /\ holder = [t \in Target |-> NoJob]
  /\ retired = {}
  /\ revoked = {}
  /\ open = TRUE

Acquire(j, t) ==
  /\ open
  /\ holder[t] = NoJob
  /\ j \notin Holders \cup retired
  /\ Cardinality(Holders) < Limit
  /\ holder' = [holder EXCEPT ![t] = j]
  /\ UNCHANGED <<retired, revoked, open>>

Release(j, t) ==
  /\ holder[t] = j
  /\ holder' = [holder EXCEPT ![t] = NoJob]
  /\ retired' = retired \cup {j}
  /\ revoked' = revoked \ {j}
  /\ UNCHANGED open

Revoke(S) ==
  /\ S \subseteq Holders
  /\ revoked' = revoked \cup S
  /\ UNCHANGED <<holder, retired, open>>

Close ==
  /\ open' = FALSE
  /\ UNCHANGED <<holder, retired, revoked>>

LeaseNext ==
  \/ \E j \in Job, t \in Target : Acquire(j, t) \/ Release(j, t)
  \/ \E S \in SUBSET Job : Revoke(S)
  \/ Close

LeaseSafety == LeaseInit /\ [][LeaseNext]_leaseVars

GiveBack(j) == j \in revoked /\ \E t \in Target : Release(j, t)

LeaseSpec == LeaseSafety /\ \A j \in Job : WF_leaseVars(GiveBack(j))
=============================================================================
