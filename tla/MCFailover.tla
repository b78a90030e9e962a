----------------------------- MODULE MCFailover -----------------------------
(* Instances of Failover for TLC. *)
EXTENDS Failover, TLC

CONSTANTS b1, b2, e1, e2, u1

OneBackup  == <<b1>>
TwoBackups == <<b1, b2>>

Setting(automatic, maintenance) ==
  [enabled |-> TRUE, automatic |-> automatic, maintenance |-> maintenance]

Automatic == Setting(TRUE, FALSE)
Advisory  == Setting(FALSE, FALSE)

AlwaysAutomatic == {Automatic}
EitherMode      == {Automatic, Advisory}
AllSettings     == EitherMode \cup {Setting(TRUE, TRUE), [Automatic EXCEPT !.enabled = FALSE]}

Evaluations == Permutations(Evaluation)
=============================================================================
