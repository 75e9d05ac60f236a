---------------------------- MODULE BracketOrders ----------------------------
(***************************************************************************)
(* BracketOrderBuilder.build: an entry price, a volatility and a share of  *)
(* the equity give the stop, the target and the quantity of a bracket.     *)
(*                                                                         *)
(* Prices and the equity are in cents, the average true range and the risk *)
(* budget in hundredths of a cent (the budget is rounded to those), the    *)
(* share in basis points and both multipliers in hundredths.               *)
(***************************************************************************)
EXTENDS Integers

CONSTANTS StopMult, RiskReward    \* atr_stop_mult, risk_reward

ASSUME BuilderAssumption == {StopMult, RiskReward} \subseteq Nat

Directions == {"LONG", "SHORT"}

BracketArgs == [direction : Directions, entry : Int, atr : Int, equity : Int, pct : Int]

(* quantize(..., ROUND_HALF_UP) of n / d, for n >= 0 *)
RoundHalfUp(n, d) == (2 * n + d) \div (2 * d)

StopOffset(a) == RoundHalfUp(a.atr * StopMult, 10000)
TargetOffset(a) == RoundHalfUp(StopOffset(a) * RiskReward, 100)

Stop(a) ==
  IF a.direction = "LONG" THEN a.entry - StopOffset(a) ELSE a.entry + StopOffset(a)

Target(a) ==
  IF a.direction = "LONG" THEN a.entry + TargetOffset(a) ELSE a.entry - TargetOffset(a)

Budget(a) == RoundHalfUp(a.equity * a.pct, 100)

(* Mutant of Quantity: the quotient is rounded to the nearest. *)
QuantityNearest(a) == RoundHalfUp(Budget(a), 100 * StopOffset(a))

Quantity(a) == Budget(a) \div (100 * StopOffset(a))

(* None of the ValueErrors of build. *)
Buildable(a) ==
  /\ a.entry > 0 /\ a.atr > 0 /\ a.equity > 0 /\ a.pct > 0
  /\ StopOffset(a) > 0
  /\ Stop(a) > 0 /\ Target(a) > 0
  /\ Quantity(a) > 0

(* The bracket, or no quantity where build raises. *)
Build(a) ==
  IF Buildable(a)
  THEN [quantity |-> Quantity(a), entry |-> a.entry, stop |-> Stop(a), target |-> Target(a)]
  ELSE [quantity |-> 0, entry |-> 0, stop |-> 0, target |-> 0]

-----------------------------------------------------------------------------
(* What the answer to a must be. *)

(* Both legs are on their side of the entry, and no price is zero or less. *)
WellOrdered(a, bracket) ==
  /\ bracket.stop > 0 /\ bracket.target > 0
  /\ a.direction = "LONG" => bracket.stop < a.entry /\ a.entry <= bracket.target
  /\ a.direction = "SHORT" => bracket.target <= a.entry /\ a.entry < bracket.stop

(* Being stopped out costs the share of the equity at most, but for the    *)
(* rounding of the budget (half of a hundredth of a cent), and one more    *)
(* contract would cost more than it allows.                                *)
WellSized(a, bracket) ==
  LET perUnit == IF bracket.stop < a.entry THEN a.entry - bracket.stop
                                           ELSE bracket.stop - a.entry
      share == a.equity * a.pct
  IN /\ 2 * (10000 * perUnit * bracket.quantity) <= 2 * share + 100
     /\ 2 * (10000 * perUnit * (bracket.quantity + 1)) > 2 * share - 100
=============================================================================
