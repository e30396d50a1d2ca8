---------------------------- MODULE MCCompanionJob ----------------------------
(* Instances of CompanionJob for TLC.                                        *)
EXTENDS CompanionJob

CONSTANTS r1, r2, p1, p2, q1, q2, f1, f2

OneRun  == {r1}
TwoRuns == {r1, r2}
OneCompanion  == {p1}
TwoRequests   == {q1, q2}
OnePrint  == {f1}
TwoPrints == {f1, f2}

\* The first result has two items, the second none.
TwoThenNone == [f \in Prints |-> IF f = f1 THEN 2 ELSE 0]
LastPartial == Prints \ {f1}
=============================================================================
