------------------------------ MODULE Decisions ------------------------------
(***************************************************************************)
(* What the bot decides by: the portfolio with the engine's verdicts, what *)
(* is only computed, and the updates of the settings, beside one another.  *)
(* The three share no variable, so the order of their steps makes no       *)
(* difference; here one of them moves while the other two have not begun,  *)
(* and their states add up instead of multiplying.                         *)
(***************************************************************************)
EXTENDS Portfolio, Calculators, SettingsUpdate

DecisionInit == Init /\ CalcInit /\ SettingsInit

PortfolioMoves(A) == CalcInit /\ SettingsInit /\ A /\ UNCHANGED <<calcVars, settingsVars>>
CalculatorsMove == Init /\ SettingsInit /\ CalcNext /\ UNCHANGED <<vars, settingsVars>>
SettingsMove == Init /\ CalcInit /\ SettingsNext /\ UNCHANGED <<vars, calcVars>>

DecisionNext == PortfolioMoves(Next) \/ CalculatorsMove \/ SettingsMove

DecisionSpec == DecisionInit /\ [][DecisionNext]_<<vars, calcVars, settingsVars>>

(* The fairness of the scheduler's jobs is that of Portfolio. *)
FairDecisionSpec == DecisionSpec /\ \A j \in Jobs : WF_vars(PortfolioMoves(SyncStep(j)))
=============================================================================
