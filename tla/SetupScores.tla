---------------------------- MODULE SetupScores -----------------------------
(***************************************************************************)
(* SetupDetector.score: how well a set of indicators fits each of three    *)
(* setups.  Indicators and scores are in parts of Unit, as in Indicators;  *)
(* a quotient is rounded down.                                             *)
(***************************************************************************)
EXTENDS Indicators

CONSTANT MinScore    \* min_score, 60 in the code

ASSUME ScoreAssumption == MinScore \in Nat

Setups == <<"BULL_PULLBACK", "BEAR_BREAKDOWN", "IV_CONTRACTION">>

(* Mutant of Ramp: not clamped above. *)
RampUnclamped(x, low, high) ==
  IF high <= low \/ x <= low THEN 0 ELSE (Unit * (x - low)) \div (high - low)

Ramp(x, low, high) ==
  CASE high <= low \/ x <= low -> 0
    [] high > low /\ x >= high -> Unit
    [] OTHER -> (Unit * (x - low)) \div (high - low)

(* A share of one in thousandths, in parts of Unit. *)
Milli(n) == (n * Unit) \div 1000

Trend(ind, sign) ==
  IF ind.close = 0 THEN 0
  ELSE Ramp((Unit * sign * (ind.fast - ind.slow)) \div ind.close, 0, Milli(20))

(* _score_bull_pullback: trend, pulled-back RSI, ADX, nearness to VWAP.    *)
BullParts(ind) ==
  << Trend(ind, 1), Ramp(55 * Unit - ind.rsi, 0, 15 * Unit),
     Ramp(ind.adx, 20 * Unit, 30 * Unit),
     Ramp(Milli(20) - Abs(ind.distance), 0, Milli(15)) >>

(* _score_bear_breakdown: downtrend, high RSI, wide bands. *)
BearParts(ind) ==
  << Trend(ind, -1), Ramp(ind.rsi - 45 * Unit, 0, 15 * Unit),
     Ramp(ind.width, Milli(500), Milli(900)) >>

(* _score_iv_contraction: the lowest 30th percentile. *)
ContractionParts(ind) == << Ramp(Milli(300) - ind.width, 0, Milli(300)) >>

(* The three scores, out of 100 * Unit. *)
Scores(ind) ==
  << (100 * SumOf(BullParts(ind))) \div 4, (100 * SumOf(BearParts(ind))) \div 3,
     100 * SumOf(ContractionParts(ind)) >>

(* max of the scores, the first of equals. *)
BestOf(scores) ==
  CHOOSE i \in 1 .. 3 :
    /\ \A j \in 1 .. 3 : scores[j] <= scores[i]
    /\ \A j \in 1 .. i - 1 : scores[j] < scores[i]

(* SetupDetector.score; "none" is best_setup None. *)
Score(ind) ==
  LET scores == Scores(ind)
      best == BestOf(scores)
  IN [scores |-> scores, score |-> scores[best],
      setup |-> IF scores[best] >= MinScore * Unit THEN Setups[best] ELSE "none"]

-----------------------------------------------------------------------------
(* What the scores must be. *)

(* All three are percentages.  Above three quarters, a pullback needs a    *)
(* trend that is up, and above two thirds, a breakdown one that is down    *)
(* and wide bands, which then cannot be narrow ones.                       *)
Consistent(ind, answer) ==
  /\ \A i \in 1 .. 3 : answer.scores[i] \in 0 .. 100 * Unit
  /\ answer.scores[1] > 75 * Unit => ind.fast > ind.slow
  /\ 3 * answer.scores[2] > 200 * Unit => ind.fast < ind.slow /\ ind.width > Milli(500)
  /\ answer.scores[3] > 0 => 3 * answer.scores[2] <= 200 * Unit
  /\ answer.setup # "none" => answer.score >= MinScore * Unit
=============================================================================
