------------------------------ MODULE RiskEngine ------------------------------
(***************************************************************************)
(* The deterministic risk engine (risk/engine.py, rules.py, sizing.py) as  *)
(* operators: a signal, a context and a quantity give a verdict, which is  *)
(* "APPROVED" or the reason code of the first rule that does not pass.     *)
(*                                                                         *)
(* Money is in whole cents and a percentage in parts of Whole; the code    *)
(* computes with exact decimals, and products here are compared instead of *)
(* quotients, so nothing is rounded but what sizing.py floors.             *)
(***************************************************************************)
EXTENDS Integers, Sequences, FiniteSets, FiniteSetsExt

CONSTANT Whole    \* the percentage that is all of it

ASSUME WholeAssumption == Whole \in Nat \ {0}

-----------------------------------------------------------------------------
(* Data. *)

Naked == {"NAKED_PUT", "NAKED_CALL"}
DefinedRisk == {"VERTICAL_SPREAD", "IRON_CONDOR", "DEFINED_RISK_DIRECTIONAL",
                "CASH_SECURED_PUT", "COVERED_CALL", "CALENDAR_SPREAD"}
Directional == {"LONG_EQUITY", "SHORT_EQUITY", "LONG_FUTURE", "SHORT_FUTURE"}
StrategyTypes == Naked \cup DefinedRisk \cup Directional
CashBound == {"CASH_SECURED_PUT", "COVERED_CALL", "CALENDAR_SPREAD",
              "DEFINED_RISK_DIRECTIONAL"}
AccountTypes == {"CASH", "MARGIN", "PORTFOLIO_MARGIN"}

(* Percentages, counts and days of an EffectivePolicy, as config.py bounds  *)
(* them: no percentage is negative.                                        *)
Policies == [hard : Nat, preferred : Nat, daily : Nat, weekly : Nat,
             allocation : Nat, maxPositions : Nat, minDte : Nat, maxDte : Nat,
             naked : BOOLEAN, tier : Nat]

Quotes == [bid : Int, ask : Int, openInterest : Nat]

(* What the rules look at in a StrategySignal.  "priced" says that the     *)
(* payload gives a loss per contract, itself or through suggested_max_loss. *)
IsSignal(s) ==
  /\ s.strategy \in StrategyTypes
  /\ s.dte \in Int
  /\ s.priced \in BOOLEAN
  /\ s.loss \in Int
  /\ s.collateral \in Int

(* A RiskContext; exposure and openPositions, which are sums over rows,    *)
(* and the quotes are left open.                                           *)
IsContext(c) ==
  /\ c.policy \in Policies
  /\ c.state \in {"ACTIVE", "HALTED"}
  /\ c.accountType \in AccountTypes
  /\ c.tier \in Nat
  /\ c.nlv \in Int
  /\ c.dayPnl \in Int
  /\ c.weekPnl \in Int
  /\ c.settled \in Int

-----------------------------------------------------------------------------
(* sizing.py *)

(* Mutant of QuantityCeiling: the loss must stay below the budget.         *)
QuantityCeilingBelow(loss, nlv, pct) == (pct * nlv - 1) \div (Whole * loss)

(* compute_quantity_ceilings: how many contracts the budget buys.          *)
QuantityCeiling(loss, nlv, pct) == (pct * nlv) \div (Whole * loss)

(* What check_defined_risk_math and the two ValueErrors let through. *)
Sizable(s, c) == s.priced /\ s.loss > 0 /\ c.nlv > 0

-----------------------------------------------------------------------------
(* rules.py *)

Whitelisted(s, c) ==
  s.strategy \in DefinedRisk \cup (IF c.policy.naked THEN Naked ELSE {})

NakedGate(s, c) == s.strategy \in Naked => c.policy.naked

(* Mutant of DteBounds: only the near bound. *)
DteBoundsNear(s, c) == s.dte >= c.policy.minDte

DteBounds(s, c) == s.dte \in c.policy.minDte .. c.policy.maxDte

AccountCompatible(s, c) ==
  ~ (c.accountType = "CASH" /\ s.strategy = "NAKED_CALL")

TierSuffices(s, c) ==
  LET required == IF s.strategy = "IRON_CONDOR" THEN 3 ELSE 2
  IN  c.tier >= required /\ c.policy.tier >= required

(* Both per-trade caps; going over the preferred one is only a warning.    *)
WithinCap(amount, pct, nlv) == amount * Whole <= pct * nlv

PositionsCap(c) == c.openPositions < c.policy.maxPositions

DrawdownQuiet(c) ==
  /\ c.dayPnl * Whole > - (c.policy.daily * c.nlv)
  /\ c.weekPnl * Whole > - (c.policy.weekly * c.nlv)

SettledCash(s, c, q) == s.strategy \in CashBound => s.collateral * q <= c.settled

(* A two-sided quote no wider than a quarter of its mid, with 10 open      *)
(* contracts.                                                              *)
Fair(quote) ==
  /\ quote.bid >= 0
  /\ quote.ask > 0
  /\ quote.ask >= quote.bid
  /\ 8 * (quote.ask - quote.bid) <= quote.ask + quote.bid
  /\ quote.openInterest >= 10

(* check_liquidity; its five reason codes are one here.                    *)
Liquid(s, c) == \A leg \in s.legs : leg \in DOMAIN c.quotes /\ Fair(c.quotes[leg])

-----------------------------------------------------------------------------
(* engine.py *)

(* The rules in the order evaluate applies them.  The first is its own     *)
(* guard on the quantity; NLV_NOT_POSITIVE stands for the ValueError of    *)
(* compute_quantity_ceilings, which leaves without a decision.             *)
Rules(s, c, q) == <<
  [code |-> "INVALID_QUANTITY",          passed |-> q > 0],
  [code |-> "BOT_HALTED",                passed |-> c.state # "HALTED"],
  [code |-> "STRATEGY_NOT_ALLOWED",      passed |-> Whitelisted(s, c)],
  [code |-> "NAKED_DISABLED",            passed |-> NakedGate(s, c)],
  [code |-> "DTE_OUT_OF_BOUNDS",         passed |-> DteBounds(s, c)],
  [code |-> "ACCOUNT_TYPE_INCOMPATIBLE", passed |-> AccountCompatible(s, c)],
  [code |-> "INSUFFICIENT_OPTIONS_TIER", passed |-> TierSuffices(s, c)],
  [code |-> "MISSING_RISK_MATH",         passed |-> s.priced],
  [code |-> "INVALID_MAX_LOSS",          passed |-> s.priced => s.loss > 0],
  [code |-> "NLV_NOT_POSITIVE",          passed |-> c.nlv > 0],
  [code |-> "OVERRIDE_EXCEEDS_CEILING",  passed |-> Sizable(s, c) =>
      q <= QuantityCeiling(s.loss, c.nlv, c.policy.hard)],
  [code |-> "HARD_RISK_CEILING_EXCEEDED",
      passed |-> WithinCap(s.loss * q, c.policy.hard, c.nlv)],
  [code |-> "UNDERLYING_CONCENTRATION_EXCEEDED",
      passed |-> WithinCap(c.exposure + s.loss * q, c.policy.allocation, c.nlv)],
  [code |-> "MAX_POSITIONS_EXCEEDED",    passed |-> PositionsCap(c)],
  [code |-> "DRAWDOWN_BREAKER_ACTIVE",   passed |-> DrawdownQuiet(c)],
  [code |-> "INSUFFICIENT_SETTLED_CASH", passed |-> SettledCash(s, c, q)],
  [code |-> "ILLIQUID",                  passed |-> Liquid(s, c)] >>

(* What evaluate may answer. *)
Verdicts == {"APPROVED", "INVALID_QUANTITY", "BOT_HALTED", "STRATEGY_NOT_ALLOWED",
             "NAKED_DISABLED", "DTE_OUT_OF_BOUNDS", "ACCOUNT_TYPE_INCOMPATIBLE",
             "INSUFFICIENT_OPTIONS_TIER", "MISSING_RISK_MATH", "INVALID_MAX_LOSS",
             "NLV_NOT_POSITIVE", "OVERRIDE_EXCEEDS_CEILING",
             "HARD_RISK_CEILING_EXCEEDED", "UNDERLYING_CONCENTRATION_EXCEEDED",
             "MAX_POSITIONS_EXCEEDED", "DRAWDOWN_BREAKER_ACTIVE",
             "INSUFFICIENT_SETTLED_CASH", "ILLIQUID"}

Failed(s, c, q) == {i \in 1 .. 17 : ~ Rules(s, c, q)[i].passed}

(* RiskEngine.evaluate *)
Verdict(s, c, q) ==
  IF Failed(s, c, q) = {} THEN "APPROVED"
  ELSE Rules(s, c, q)[Min(Failed(s, c, q))].code

-----------------------------------------------------------------------------
(* What an approval must mean, in the words of the plan's list of rules    *)
(* (docs/plan/darth-schwader-phase-1-v2.md, risk engine), with no order    *)
(* and no ceiling quantity.                                                *)
Approvable(s, c, q) ==
  /\ q > 0 /\ s.priced /\ s.loss > 0 /\ c.nlv > 0
  /\ c.state = "ACTIVE"
  /\ s.strategy \in DefinedRisk \/ (s.strategy \in Naked /\ c.policy.naked)
  /\ ~ (s.strategy = "NAKED_CALL" /\ c.accountType = "CASH")
  /\ c.policy.minDte <= s.dte /\ s.dte <= c.policy.maxDte
  /\ c.tier >= 2 /\ c.policy.tier >= 2
  /\ s.strategy = "IRON_CONDOR" => c.tier >= 3 /\ c.policy.tier >= 3
  /\ s.loss * q * Whole <= c.policy.hard * c.nlv
  /\ (c.exposure + s.loss * q) * Whole <= c.policy.allocation * c.nlv
  /\ c.openPositions < c.policy.maxPositions
  /\ c.dayPnl * Whole + c.policy.daily * c.nlv > 0
  /\ c.weekPnl * Whole + c.policy.weekly * c.nlv > 0
  /\ s.strategy \in CashBound => s.collateral * q <= c.settled
  /\ \A leg \in s.legs : leg \in DOMAIN c.quotes /\ Fair(c.quotes[leg])
=============================================================================
