---------------------------- MODULE MCPortfolio ----------------------------
(* Model values for TLC: an account the bot trades and one it only sees,   *)
(* a spread whose short leg Schwab values below zero, and the long leg on  *)
(* its own, near enough and too far out.                                   *)
EXTENDS Portfolio, TLC

CONSTANTS a1, a2, long, short, s1, s2, u

MCAccounts == <<a1, a2>>
MCOneAccount == <<a1>>
MCSymbols == {long, short}
MCUnderlying == [leg \in MCSymbols |-> u]
MCMarketValue == (long :> 2) @@ (short :> -1)
MCQuotes == [leg \in MCSymbols |-> [bid |-> 8, ask |-> 10, openInterest |-> 10]]

MCSignal(strategy, dte, collateral, legs) ==
  [strategy |-> strategy, dte |-> dte, priced |-> TRUE, loss |-> 3,
   collateral |-> collateral, legs |-> legs, underlying |-> u]

(* s2 is a day too far out; of the two of MCNearSignals both are allowed. *)
MCSignals ==
  (s1 :> MCSignal("VERTICAL_SPREAD", 14, 3, {long, short})) @@
  (s2 :> MCSignal("VERTICAL_SPREAD", 61, 3, {long}))
MCNearSignals ==
  (s1 :> MCSignal("VERTICAL_SPREAD", 14, 3, {long, short})) @@
  (s2 :> MCSignal("DEFINED_RISK_DIRECTIONAL", 60, 2, {long}))

(* config.py's defaults but for an allocation of 25, on an account of 60:  *)
(* five contracts that lose 3 each are exactly the hard cap of 15 and the  *)
(* allocation, six are over both, and five beside the long leg are over    *)
(* the allocation only.                                                    *)
MCPolicy ==
  [hard |-> 25, preferred |-> 5, daily |-> 5, weekly |-> 10, allocation |-> 25,
   maxPositions |-> 3, minDte |-> 14, maxDte |-> 60, naked |-> FALSE, tier |-> 2]
=============================================================================
