----------------------------- MODULE SignalBatch -----------------------------
(***************************************************************************)
(* One run of the signal generator: the answers of the model for each      *)
(* underlying become candidates, the validators drop some, the rest are    *)
(* sized and inserted in one commit.                                       *)
(*                                                                         *)
(* A candidate is a StrategySignal: loss is its suggested_max_loss, stated *)
(* the per_contract_max_loss of its features_snapshot; either may be       *)
(* Absent.                                                                 *)
(* The run that meets an exception inserts nothing at all.                 *)
(***************************************************************************)
EXTENDS RiskEngine, SequencesExt, Folding

CONSTANT Absent

ASSUME AbsentAssumption == Absent \notin Int

LegLists == Seq([type : {"CALL", "PUT"}, side : {"LONG", "SHORT"}, strike : Nat, expiry : Nat])

Amounts == Int \cup {Absent}
Candidate == [id : Nat, strategy : StrategyTypes, legs : LegLists,
              loss : Amounts, stated : Amounts]
Answer == [failed : BOOLEAN, candidates : Seq(Candidate)]

(* Dollar, which sizes a candidate that states no positive loss. *)
OneDollar == 100

-----------------------------------------------------------------------------
(* ai/strategies *)

ShortLeg(legs, type) ==
  Len(legs) = 1 /\ legs[1].type = type /\ legs[1].side = "SHORT"

(* STRATEGY_VALIDATORS, a KeyError for the other types. *)
Validated == DefinedRisk

(* validate returns no error. *)
Valid(c) ==
  CASE c.strategy = "VERTICAL_SPREAD" ->
         Len(c.legs) = 2 /\ c.legs[1].type = c.legs[2].type
    [] c.strategy = "IRON_CONDOR" -> Len(c.legs) = 4
    [] c.strategy = "DEFINED_RISK_DIRECTIONAL" -> Len(c.legs) = 2
    [] c.strategy = "CASH_SECURED_PUT" -> ShortLeg(c.legs, "PUT")
    [] c.strategy = "COVERED_CALL" -> ShortLeg(c.legs, "CALL")
    [] c.strategy = "CALENDAR_SPREAD" ->
         /\ Len(c.legs) = 2
         /\ c.legs[1].strike = c.legs[2].strike
         /\ c.legs[1].expiry # c.legs[2].expiry
    [] OTHER -> FALSE

-----------------------------------------------------------------------------
(* ai/service.py *)

Truthy(x) == x # Absent /\ x # 0

(* suggested_max_loss or, when that is Absent or zero, the other.    *)
BatchLoss(c) ==
  CASE Truthy(c.loss) -> c.loss
    [] ~ Truthy(c.loss) /\ c.stated # Absent -> c.stated
    [] OTHER -> 0

SizedBy(c) == IF BatchLoss(c) > 0 THEN BatchLoss(c) ELSE OneDollar

Preferred(c, nlv, p) == QuantityCeiling(SizedBy(c), nlv, p.preferred)
Ceiling(c, nlv, p) == QuantityCeiling(SizedBy(c), nlv, p.hard)

(* Mutant of StoredLoss: of one contract. *)
StoredLossOfOne(c, quantity) == IF BatchLoss(c) = 0 THEN Absent ELSE BatchLoss(c)

(* suggested_max_loss of the row: of the whole quantity. *)
StoredLoss(c, quantity) == IF BatchLoss(c) = 0 THEN Absent ELSE BatchLoss(c) * quantity

Row(c, nlv, p) ==
  LET quantity == Max({1, Preferred(c, nlv, p)})
  IN [id |-> c.id, strategy |-> c.strategy, quantity |-> quantity,
      loss |-> StoredLoss(c, quantity), stated |-> c.stated,
      preferred |-> Preferred(c, nlv, p), ceiling |-> Ceiling(c, nlv, p),
      status |-> "APPROVED_AWAITING_HITL"]

(* An answer of the selector: failed, or its candidates in order.  The     *)
(* call itself, what it answered and each item may be what fails.          *)
Candidates(answers) == FlattenSeq([i \in DOMAIN answers |-> answers[i].candidates])
KeptAfter == [p \in Seq(Candidate) \X Candidate |->
                IF Valid(p[2]) THEN Append(p[1], p[2]) ELSE p[1]]
Kept(answers) == Folded(KeptAfter, <<>>, Candidates(answers))

(* What keeps the whole run from committing: a selection that failed, a    *)
(* strategy without validator, no net liquidation value to size by, and an *)
(* id that is taken.                                                       *)
Aborts(answers, nlv, taken) ==
  LET all == Candidates(answers)
      kept == Kept(answers)
  IN \/ \E i \in DOMAIN answers : answers[i].failed
     \/ \E i \in DOMAIN all : all[i].strategy \notin Validated
     \/ kept # <<>> /\ nlv <= 0
     \/ \E i \in DOMAIN kept : kept[i].id \in taken
     \/ \E i, j \in DOMAIN kept : i # j /\ kept[i].id = kept[j].id

(* The rows of SignalGenerator.run, in order. *)
Generate(answers, nlv, p, taken) ==
  IF Aborts(answers, nlv, taken) THEN <<>>
  ELSE LET kept == Kept(answers) IN [i \in DOMAIN kept |-> Row(kept[i], nlv, p)]

-----------------------------------------------------------------------------
(* risk/rules.py, on a row of the batch *)

(* The loss per contract check_defined_risk_math computes from a row when  *)
(* it is submitted, or Absent (MISSING_RISK_MATH).                         *)
EngineLoss(row) ==
  CASE row.stated # Absent -> row.stated
    [] row.stated = Absent /\ Truthy(row.loss) -> row.loss \div row.quantity
    [] OTHER -> Absent

-----------------------------------------------------------------------------
(* What a batch must be. *)

(* The quantity is the largest within the preferred cap by the loss the    *)
(* candidate is sized by, but one where that is none: no candidate is      *)
(* dropped because one contract is over a cap, the hard one included.      *)
LargestWithinPreferred(c, row, nlv, p) ==
  /\ row.quantity = 1 \/ WithinCap(SizedBy(c) * row.quantity, p.preferred, nlv)
  /\ ~ WithinCap(SizedBy(c) * (row.quantity + 1), p.preferred, nlv)

(* The engine computes with the stated loss whenever there is one, else    *)
(* with the suggested one, which comes back whole from the product with    *)
(* the quantity.  So a row is over the preferred cap in the engine's eyes  *)
(* only where one contract is, or where the candidate states a larger loss *)
(* than the one it was sized by, and both are stored as if they agreed.    *)
JudgedByStated(c, row, nlv, p) ==
  LET judged == EngineLoss(row)
  IN /\ c.stated = Absent /\ BatchLoss(c) # 0 => judged = BatchLoss(c)
     /\ judged # Absent /\ judged > 0
        /\ ~ WithinCap(judged * row.quantity, p.preferred, nlv) =>
          \/ row.quantity = 1
          \/ Truthy(c.loss) /\ c.stated # Absent /\ c.stated > c.loss

(* A candidate that states no positive loss is sized as if it could lose a *)
(* dollar, and the engine then refuses it in any quantity.                 *)
UnpricedIsRefused(c, row) ==
  BatchLoss(c) <= 0 /\ ~ (c.stated # Absent /\ c.stated > 0) =>
    EngineLoss(row) = Absent \/ EngineLoss(row) <= 0
=============================================================================
