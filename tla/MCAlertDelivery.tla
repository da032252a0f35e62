--------------------------- MODULE MCAlertDelivery ---------------------------
(***************************************************************************)
(* Instances of AlertDelivery for TLC.  e1 and e2 are two matches of the   *)
(* same rule and news item (the raw news message was processed twice), e3  *)
(* is another news item of the same rule.                                  *)
(***************************************************************************)
EXTENDS AlertDelivery, TLC

CONSTANTS w1, w2, c1, c2, r1, n1, n2, e1, e2, e3

TwoEventsRule == [e \in {e1, e2} |-> r1]
TwoEventsNews == [e \in {e1, e2} |-> n1]
DistinctNews  == [e \in {e1, e3} |-> IF e = e1 THEN n1 ELSE n2]
DistinctRule  == [e \in {e1, e3} |-> r1]
CooldownTwo   == [r \in {r1} |-> 2]

ProcessSymmetry == Permutations({w1, w2}) \cup Permutations({c1, c2})
FaultSymmetry   == ProcessSymmetry \cup Permutations({e1, e2})
=============================================================================
