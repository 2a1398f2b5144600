------------------------------ MODULE MCLiveBook ------------------------------
(* An entry of the leg and one of a probe, on one symbol.                     *)
EXTENDS LiveBook, TLC

CONSTANTS leg, probe, emer, e1, e2, x

OneSymbol == [e \in Entries |-> x]
Openers   == [e \in Entries |-> IF e = e2 THEN probe ELSE leg]

\* A bound of the search: a halt is set in the first minute, beside one entry at most.
HaltEarly ==
  halted => now = 0 /\ Cardinality({e \in Entries : order[e] # "none"}) <= 1
=============================================================================
