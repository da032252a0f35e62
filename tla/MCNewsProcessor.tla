--------------------------- MODULE MCNewsProcessor ---------------------------
(***************************************************************************)
(* Instances of NewsProcessor for TLC.  i1 and i2 carry the same URL.      *)
(***************************************************************************)
EXTENDS NewsProcessor, TLC

CONSTANTS i1, i2, i3, w1, w2, r1

SharedUrl == [i \in Items |-> IF i = i3 THEN "u2" ELSE "u1"]
MatchOne  == {<<i1, r1>>}

WorkerSymmetry == Permutations({w1, w2})
=============================================================================
