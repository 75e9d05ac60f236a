---------------------------- MODULE MCDecisions ----------------------------
(* The model values of the three parts. *)
EXTENDS Decisions, MCPortfolio, MCCalculators, MCSettingsUpdate
=============================================================================
