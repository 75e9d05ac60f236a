----------------------------- MODULE Indicators -----------------------------
(***************************************************************************)
(* IndicatorEngine.compute over daily bars.  A decimal is an integer here, *)
(* in parts of Unit, and a quotient is rounded down where the code rounds  *)
(* it to 28 digits.  The periods are parameters: 14, 8, 21 and 20 in the   *)
(* code.                                                                   *)
(***************************************************************************)
EXTENDS Integers, Sequences, FiniteSets, SequencesExt, Folding

CONSTANTS
  Unit,               \* parts of one
  Period,             \* of RSI, ATR and ADX
  Fast, Slow,         \* of the two EMAs
  Window, Lookback,   \* of the Bollinger bands and of their percentile
  MinBars             \* MIN_BARS

ASSUME IndicatorAssumption ==
  {Unit, Period, Fast, Slow, Window, Lookback, MinBars} \subseteq Nat \ {0}

(* A well-formed bar: the low and the high enclose the close. *)
Bar == {b \in [low : Nat, close : Nat, high : Nat, volume : Nat] :
          b.low <= b.close /\ b.close <= b.high}

-----------------------------------------------------------------------------
(* Helpers. *)

Values(bars, Field(_)) == [i \in DOMAIN bars |-> Unit * Field(bars[i])]
Closes(bars) == Values(bars, LAMBDA b : b.close)

Mean(s) == SumOf(s) \div Len(s)
First(s, n) == SubSeq(s, 1, n)
After(s, n) == SubSeq(s, n + 1, Len(s))
Abs(x) == IF x < 0 THEN - x ELSE x
Positive(x) == Max({x, 0})

(* f of each pair of neighbours. *)
Pairwise(s, f(_, _)) == [i \in 1 .. Len(s) - 1 |-> f(s[i], s[i + 1])]

(* A mean of the first n values, moved on by each that follows. *)
Moved(n) == [p \in Int \X Int |-> (p[1] * (n - 1) + p[2]) \div n]
Wilder(s, n) == Folded(Moved(n), Mean(First(s, n)), After(s, n))

-----------------------------------------------------------------------------
(* The indicators. *)

(* _ema: seeded with the mean of the first n. *)
Smoothed(n) == [p \in Int \X Int |-> (2 * p[2] + (n - 1) * p[1]) \div (n + 1)]
Ema(s, n) == Folded(Smoothed(n), Mean(First(s, n)), After(s, n))

(* _rsi: 100 - 100 / (1 + gain / loss), or 50 of a flat series. *)
Rsi(closes) ==
  LET gain == Wilder(Pairwise(closes, LAMBDA a, b : Positive(b - a)), Period)
      loss == Wilder(Pairwise(closes, LAMBDA a, b : Positive(a - b)), Period)
  IN IF gain + loss = 0 THEN 50 * Unit ELSE (100 * Unit * gain) \div (gain + loss)

TrueRange(a, b) == Max({b.high - b.low, Abs(b.high - a.close), Abs(b.low - a.close)})
TrueRanges(bars) == Pairwise(bars, LAMBDA a, b : Unit * TrueRange(a, b))

Atr(bars) == Wilder(TrueRanges(bars), Period)

(* _wilder_smooth: the sums, each after its predecessor lost its n-th.     *)
Decayed(n) ==
  [p \in Seq(Nat) \X Nat |-> Append(p[1], p[1][Len(p[1])] - p[1][Len(p[1])] \div n + p[2])]
Smooth(s, n) == Folded(Decayed(n), <<SumOf(First(s, n))>>, After(s, n))

(* The two directional movements of a pair of bars. *)
PlusMove(a, b) ==
  LET up == b.high - a.high
      down == a.low - b.low
  IN IF up > down /\ up > 0 THEN Unit * up ELSE 0
MinusMove(a, b) ==
  LET up == b.high - a.high
      down == a.low - b.low
  IN IF down > up /\ down > 0 THEN Unit * down ELSE 0

(* Mutant of Dx: without the absolute value. *)
DxSigned(plus, minus, range) ==
  IF range = 0 \/ plus + minus = 0 THEN 0
  ELSE (100 * Unit * (plus - minus)) \div (plus + minus)

(* The true range cancels out of the quotient of the two indices. *)
Dx(plus, minus, range) ==
  IF range = 0 \/ plus + minus = 0 THEN 0
  ELSE (100 * Unit * Abs(plus - minus)) \div (plus + minus)

Adx(bars) ==
  LET plus == Smooth(Pairwise(bars, PlusMove), Period)
      minus == Smooth(Pairwise(bars, MinusMove), Period)
      range == Smooth(TrueRanges(bars), Period)
  IN Wilder([i \in DOMAIN plus |-> Dx(plus[i], minus[i], range[i])], Period)

(* _bb_width, squared and over 16: the variance over the square of the     *)
(* mean.  Only the order of the widths is used below.  As a fraction.      *)
WidthOf(s) ==
  LET n == Len(s)
      sum == SumOf(s)
      square == SumOf([i \in DOMAIN s |-> s[i] * s[i]])
  IN IF sum = 0 THEN <<0, 1>> ELSE <<n * square - sum * sum, sum * sum>>

Narrower(v, w) == v[1] * w[2] <= w[1] * v[2]

(* The widths of the last Lookback windows of plain prices. *)
Widths(prices) ==
  LET n == Len(prices)
  IN [i \in 1 .. Lookback |->
        WidthOf(SubSeq(prices, n - Lookback + i - Window + 1, n - Lookback + i))]

(* bb_width_pct: how many of them are no wider than the last. *)
WidthPercentile(prices) ==
  LET widths == Widths(prices)
  IN (Unit * Cardinality({i \in 1 .. Lookback : Narrower(widths[i], widths[Lookback])}))
       \div Lookback

(* _vwap: the mean of the closes when nothing was traded. *)
Vwap(bars) ==
  LET volume == SumOf([i \in DOMAIN bars |-> bars[i].volume])
      traded == SumOf([i \in DOMAIN bars |->
                  Unit * (bars[i].high + bars[i].low + bars[i].close) * bars[i].volume])
  IN IF volume = 0 THEN Mean(Closes(bars)) ELSE traded \div (3 * volume)

(* The lengths _ema, _rsi, _atr, _adx and _bb_width_percentile ask for.    *)
Enough(bars) ==
  /\ Len(bars) >= Max({Fast, Slow})
  /\ Len(bars) >= 2 * Period + 1
  /\ Len(bars) >= Window + Lookback - 1

(* IndicatorEngine.compute, where it does not raise. *)
Compute(bars) ==
  LET closes == Closes(bars)
      close == closes[Len(bars)]
      vwap == Vwap(bars)
  IN [close |-> close,
      rsi |-> Rsi(closes), atr |-> Atr(bars), adx |-> Adx(bars),
      fast |-> Ema(closes, Fast), slow |-> Ema(closes, Slow),
      width |-> WidthPercentile([i \in DOMAIN bars |-> bars[i].close]),
      vwap |-> vwap,
      distance |-> IF vwap = 0 THEN 0 ELSE (Unit * (close - vwap)) \div vwap]

-----------------------------------------------------------------------------
(* What the indicators of well-formed bars must be. *)

Between(x, s) == Min(Range(s)) <= x /\ x <= Max(Range(s))

InRange(bars, ind) ==
  /\ ind.rsi \in 0 .. 100 * Unit
  /\ ind.adx \in 0 .. 100 * Unit
  /\ Between(ind.atr, TrueRanges(bars))
  /\ Between(ind.fast, Closes(bars))
  /\ Between(ind.slow, Closes(bars))
  /\ ind.width \in Unit \div Lookback .. Unit
  /\ Min(Range(Values(bars, LAMBDA b : b.low))) <= ind.vwap
  /\ ind.vwap <= Max(Range(Values(bars, LAMBDA b : b.high)))
=============================================================================
