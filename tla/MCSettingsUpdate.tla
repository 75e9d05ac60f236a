-------------------------- MODULE MCSettingsUpdate --------------------------
(* SettingsUpdate from an environment within the live ceiling: requests    *)
(* to go live, with and without the confirmation, to stay or go back to    *)
(* paper, to raise either cap, and on the keys with rules of their own.    *)
EXTENDS SettingsUpdate, TLC

H == "max_risk_per_trade_pct"
P == "preferred_max_risk_per_trade_pct"

MCEnvironment ==
  "paper_trading" :> 1 @@ "allow_naked" :> 0 @@ H :> 2 @@ P :> 1
  @@ "auto_execute_consent_live" :> 0

R(body, confirm, live) == [body |-> body, confirm |-> confirm, live |-> live]
MCRequests == {
  R("paper_trading" :> 0, "SWITCH_MODE", TRUE),
  R("paper_trading" :> 0, "SWITCH_MODE", FALSE),
  R("paper_trading" :> 0 @@ H :> 5, "SWITCH_MODE", TRUE),
  R("paper_trading" :> 1, "", FALSE),
  R("allow_naked" :> 1 @@ H :> 5, "CONFIRM", FALSE),
  R("auto_execute_consent_live" :> 1 @@ P :> 3, "", FALSE)}
=============================================================================
