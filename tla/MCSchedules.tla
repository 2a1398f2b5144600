----------------------------- MODULE MCSchedules -----------------------------
(* A risk row, a maintenance row and a factory row of small intervals.        *)
EXTENDS Schedules, TLC

CONSTANTS r1, p1, f1

Never == MaxTime + 1

\* A row of interval 1 has a second occurrence in the run, the others have one.
Cadence   == [s \in Rows |-> IF s \in Factory THEN 1 ELSE 2]
RiskOften == [s \in Rows |-> IF s \in Risk THEN 1 ELSE 2]
PlainEnds == [s \in Rows |-> IF s \in Plain THEN 1 ELSE Never]
=============================================================================
