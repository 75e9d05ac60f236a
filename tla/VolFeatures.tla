---------------------------- MODULE VolFeatures -----------------------------
(***************************************************************************)
(* quant/features.py, iv_metrics.py and regime.py: the features of an      *)
(* underlying from its chain rows and its daily closes.                    *)
(*                                                                         *)
(* A chain row has its quote time, its expiration, its volatility and the  *)
(* two of the 25-delta options (0 stands for a missing one: both raise).   *)
(* Fractions are numerator and denominator.                                *)
(***************************************************************************)
EXTENDS Integers, Sequences, FiniteSets, SequencesExt

CONSTANTS
  LongWindow,     \* closes of the realized volatility, 20
  ShortWindow     \* closes of the short momentum, 5

ASSUME WindowAssumption == {LongWindow, ShortWindow} \subseteq Nat \ {0}

Regimes == {"LOW", "NORMAL", "ELEVATED", "EXTREME"}

ChainRow == [time : Nat, expiry : Nat, iv : Int, call : Int, put : Int]

(* sorted(chain, key=str(quote_time)): i comes before j, equal ones in      *)
(* their order.  A time is the place of its text in the order of texts,    *)
(* which for stamps of one format and offset is the order of time.         *)
Before(rows, i, j) ==
  rows[i].time < rows[j].time \/ (rows[i].time = rows[j].time /\ i < j)
FirstOf(rows, I) == rows[CHOOSE i \in I : \A j \in I \ {i} : Before(rows, i, j)]
LastOf(rows, I) == rows[CHOOSE i \in I : \A j \in I \ {i} : Before(rows, j, i)]

Vols(rows) == {rows[i].iv : i \in DOMAIN rows}

(* Mutant of LatestOf: of the rows as they came. *)
LatestUnsorted(rows) == rows[1]

LatestOf(rows) == LastOf(rows, DOMAIN rows)

(* iv_rank of the latest volatility, in percent of the spread. *)
RankOf(rows) ==
  LET low == Min(Vols(rows))
      high == Max(Vols(rows))
  IN <<100 * (LatestOf(rows).iv - low), high - low>>

(* iv_percentile *)
PercentileOf(rows) ==
  <<100 * Cardinality({i \in DOMAIN rows : rows[i].iv <= LatestOf(rows).iv}), Len(rows)>>

(* classify_regime *)
RegimeOf(rank) ==
  CASE rank[1] < 20 * rank[2] -> "LOW"
    [] 20 * rank[2] <= rank[1] /\ rank[1] < 50 * rank[2] -> "NORMAL"
    [] 50 * rank[2] <= rank[1] /\ rank[1] < 80 * rank[2] -> "ELEVATED"
    [] OTHER -> "EXTREME"

(* The first row, in time, of the latest's expiration and of another.      *)
FrontRows(rows) == {i \in DOMAIN rows : rows[i].expiry = LatestOf(rows).expiry}
FrontRow(rows) == FirstOf(rows, FrontRows(rows))
BackRow(rows) ==
  IF FrontRows(rows) = DOMAIN rows THEN LatestOf(rows)
  ELSE FirstOf(rows, DOMAIN rows \ FrontRows(rows))

Momentum(closes, window) ==
  LET start == closes[Len(closes) - window]
  IN <<closes[Len(closes)] - start, start>>

(* The closes of the realized volatility; it is zero when every return is  *)
(* the same.                                                               *)
Steady(closes) ==
  LET n == Len(closes)
      from == n - LongWindow
  IN \A i, j \in from .. n - 1 :
       closes[i + 1] * closes[j] = closes[j + 1] * closes[i]

(* None of the ValueErrors of compute. *)
Computable(rows, closes) ==
  /\ rows # <<>>
  /\ Len(closes) > LongWindow
  /\ \A i \in Len(closes) - LongWindow .. Len(closes) - 1 : closes[i] # 0
  /\ Min(Vols(rows)) >= 0
  /\ Max(Vols(rows)) > Min(Vols(rows))
  /\ LatestOf(rows).iv > 0
  /\ FrontRow(rows).call > 0 /\ FrontRow(rows).put > 0
  /\ ~ Steady(closes)

(* compute, where it does not raise; rv_iv_spread is left out. *)
FeaturesOf(rows, closes) ==
  [rank |-> RankOf(rows), percentile |-> PercentileOf(rows),
   slope |-> <<BackRow(rows).iv - LatestOf(rows).iv, LatestOf(rows).iv>>,
   skew |-> FrontRow(rows).put - FrontRow(rows).call,
   regime |-> RegimeOf(RankOf(rows)),
   short |-> Momentum(closes, ShortWindow), long |-> Momentum(closes, LongWindow)]

-----------------------------------------------------------------------------
(* What features must be. *)

(* The regime is that of the newest quote: extreme when no volatility of   *)
(* the series is higher, low when none is lower, and the rank agrees with  *)
(* the percentile at both ends.                                            *)
TellsTheNewest(rows, f) ==
  LET newest == {i \in DOMAIN rows : \A j \in DOMAIN rows : rows[j].time <= rows[i].time}
  IN /\ f.rank[1] \in 0 .. 100 * f.rank[2]
     /\ (\A i \in newest : rows[i].iv = Max(Vols(rows))) =>
          f.regime = "EXTREME" /\ f.percentile[1] = 100 * f.percentile[2]
     /\ (\A i \in newest : rows[i].iv = Min(Vols(rows))) => f.regime = "LOW"
     /\ f.rank[1] = 100 * f.rank[2] <=> f.percentile[1] = 100 * f.percentile[2]
=============================================================================
