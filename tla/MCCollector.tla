----------------------------- MODULE MCCollector -----------------------------
(***************************************************************************)
(* Instances of Collector for TLC.                                         *)
(***************************************************************************)
EXTENDS Collector, TLC

CONSTANTS r1, r2, s1, s2, u1, u2

FeedsShareUrl == [s \in Sources |-> {u1}]
OneHasNews    == [s \in Sources |-> IF s = s1 THEN {u1} ELSE {}]

RoundSymmetry == Permutations({r1, r2})
SourceSymmetry == RoundSymmetry \cup Permutations({s1, s2})
=============================================================================
