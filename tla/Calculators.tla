----------------------------- MODULE Calculators -----------------------------
(***************************************************************************)
(* The parts of the program that only compute: bracket sizing, the futures *)
(* checks, the readings of the cash ledger, a batch of signals, the        *)
(* indicators with their setup scores and the volatility features.  One    *)
(* call at a time: call is what was asked, reply what came back.           *)
(***************************************************************************)
EXTENDS BracketOrders, FuturesMargin, CashViews, SignalBatch, SetupScores, VolFeatures

CONSTANTS               \* the arguments that are tried
  Brackets,             \* of build
  Instants, Cutoffs,    \* of check_session_cutoff
  Headrooms,            \* of check_margin_headroom
  Ledgers,              \* of the cash readings, with a day
  Batches,              \* answers of the model, nlv, policy and taken ids
  BarSeries,            \* of the indicators
  ChainSeries           \* chain rows and closes of the features

ASSUME ArgumentAssumption ==
  /\ Brackets \subseteq BracketArgs
  /\ Instants \subseteq 0 .. WeekSeconds - 1
  /\ Cutoffs \subseteq Int
  /\ Headrooms \subseteq Int \X Int \X Int
  /\ \A l \in Ledgers : l.today \in Nat /\ IsLedger(l.rows, l.today)
  /\ \A b \in Batches : /\ b.answers \in Seq(Answer)
                        /\ b.nlv \in Int /\ b.policy \in Policies
  /\ BarSeries \subseteq Seq(Bar)
  /\ \A c \in ChainSeries : c.rows \in Seq(ChainRow) /\ c.closes \in Seq(Nat)

VARIABLES call, reply

calcVars == <<call, reply>>

NoCall == [of |-> "none", args |-> <<>>]

CalcInit == call = NoCall /\ reply = <<>>

Asked(of, args, result) ==
  /\ call' = [of |-> of, args |-> args]
  /\ reply' = result

BuildBracket == \E a \in Brackets : Asked("bracket", a, Build(a))

CheckCutoff ==
  \E t \in Instants, cutoff \in Cutoffs :
    Asked("cutoff", <<t, cutoff>>, CutoffVerdict(t, cutoff))

CheckHeadroom ==
  \E h \in Headrooms : Asked("headroom", h, HeadroomVerdict(h[1], h[2], h[3]))

CheckLimit ==
  \E current, additional, most \in -1 .. 2 :
    Asked("limit", <<current, additional, most>>, LimitVerdict(current, additional, most))

ReadLedger ==
  \E l \in Ledgers :
    Asked("ledger", l, PageAvailable(l.rows, l.today))

GenerateBatch ==
  \E b \in Batches :
    Asked("batch", b, Generate(b.answers, b.nlv, b.policy, b.taken))

ComputeIndicators ==
  \E bars \in BarSeries :
    /\ Len(bars) >= MinBars /\ Enough(bars)
    /\ Asked("indicators", bars, Compute(bars))

(* The detector scores what the engine computed. *)
ScoreSetups ==
  /\ call.of = "indicators"
  /\ call' = [of |-> "setups", args |-> reply]
  /\ reply' = Score(reply)

ComputeFeatures ==
  \E c \in ChainSeries :
    /\ Computable(c.rows, c.closes)
    /\ Asked("features", c, FeaturesOf(c.rows, c.closes))

(* What was computed is shown; the next call may come. *)
Return ==
  /\ call # NoCall
  /\ call' = NoCall
  /\ reply' = <<>>

Ask ==
  \/ BuildBracket
  \/ CheckCutoff
  \/ CheckHeadroom
  \/ CheckLimit
  \/ ReadLedger
  \/ GenerateBatch
  \/ ComputeIndicators
  \/ ComputeFeatures

CalcNext ==
  \/ call = NoCall /\ Ask
  \/ ScoreSetups
  \/ Return

CalcSpec == CalcInit /\ [][CalcNext]_calcVars

-----------------------------------------------------------------------------
(* Properties                                                              *)

(* Every bracket has its legs on their sides of the entry, costs at most   *)
(* the allowed share when stopped out, to the rounding of the budget, and  *)
(* could not be one contract larger.                                       *)
BracketsAreSized ==
  call.of = "bracket" /\ reply.quantity > 0 =>
    WellOrdered(call.args, reply) /\ WellSized(call.args, reply)

(* A session that is judged open stays open for longer than the cut-off,   *)
(* and one that is cut off does halt in the minute after it at the latest; *)
(* one that is closed is in a halt.  A margin that passes leaves the       *)
(* buffer of the excess, and any smaller margin would have passed.         *)
FuturesChecksAreSafe ==
  /\ call.of = "cutoff" => CutoffIsSafe(call.args[1], call.args[2], reply)
  /\ call.of = "headroom" =>
       HeadroomIsSafe(call.args[1], call.args[2], call.args[3], reply)

(* The guard that locks collateral, the engine's context and the page of   *)
(* the cash ledger give the same answers whether or not there is money on  *)
(* its way: proceeds that settle tomorrow back no order today, in any mix  *)
(* of deposits, fills, locks and releases.                                 *)
UnsettledIsUnusable ==
  call.of = "ledger" => IgnoresUnsettled(call.args.rows, call.args.today)

(* What the page /cash-ledger shows as available is what the guard would   *)
(* lock: a lock and its release cancel out in both.                        *)
PageMatchesGuard ==
  call.of = "ledger" => reply = SettledAsOf(call.args.rows, call.args.today)

(* Every candidate the validators keep has its row or no candidate has.    *)
(* Each is sized to the preferred cap, but never below one contract; the   *)
(* engine judges it by the stated loss, so that a row with two different   *)
(* losses may be over the cap it was sized to, and no other of more than   *)
(* one contract is; a row without a positive loss is one it refuses.       *)
BatchesAreSized ==
  call.of = "batch" /\ reply # <<>> =>
    LET kept == Kept(call.args.answers)
    IN /\ Len(reply) = Len(kept)
       /\ \A i \in DOMAIN kept :
            /\ LargestWithinPreferred(kept[i], reply[i], call.args.nlv, call.args.policy)
            /\ JudgedByStated(kept[i], reply[i], call.args.nlv, call.args.policy)
            /\ UnpricedIsRefused(kept[i], reply[i])

(* Whatever the market did, the indicators stay within their ranges: the   *)
(* smoothed sums never turn negative and no quotient leaves 0 to 100.      *)
IndicatorsAreBounded ==
  call.of = "indicators" => InRange(call.args, reply)

(* The three scores are percentages, and a high one needs the trend and    *)
(* the volatility its setup is named for.                                  *)
ScoresAreConsistent ==
  call.of = "setups" => Consistent(call.args, reply)

(* The features follow the newest quote of the chain.                      *)
FeaturesTellTheNewest ==
  call.of = "features" => TellsTheNewest(call.args.rows, reply)
=============================================================================
