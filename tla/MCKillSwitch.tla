---------------------------- MODULE MCKillSwitch ----------------------------
(* KillSwitch with one signal that needs all the cash, at Schwab. *)
EXTENDS KillSwitch

CONSTANT s1

MCOneSignal == {s1}
MCCollateral == [s \in Signals |-> 1]
MCCeiling == [s \in Signals |-> 1]
=============================================================================
