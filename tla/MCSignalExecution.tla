------------------------- MODULE MCSignalExecution -------------------------
(* SignalExecution on small instances: two signals of different cost, one  *)
(* bound by the settled-cash rule, that together need more cash than there *)
(* is.                                                                     *)
EXTENDS SignalExecution, TLC

CONSTANTS s1, s2

MCSignals == {s1, s2}
MCOneSignal == {s1}
MCCollateral == [s \in Signals |-> IF s = s1 THEN 2 ELSE 1]
MCCeiling == [s \in Signals |-> IF s = s1 THEN 2 ELSE 1]
MCCashBound == {s1}

Symmetry == Permutations(Submitters)
=============================================================================
