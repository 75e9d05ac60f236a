------------------------ MODULE SettingsUpdateProofs ------------------------
(***************************************************************************)
(* Proofs about SettingsUpdate, for any requests, environment and limits:  *)
(* the type invariant; that a process goes live only on a confirmed and    *)
(* checked request; and that requests one at a time keep the settings in   *)
(* force and the stored ones valid and in agreement.                       *)
(***************************************************************************)
EXTENDS SettingsUpdate, TLAPS

LEMMA BodyType ==
  ASSUME NEW body \in Bodies
  PROVE  /\ DOMAIN body \subseteq Keys
         /\ \A k \in DOMAIN body : body[k] \in Nat
BY SettingsAssumption DEF Bodies

LEMMA IdleType == Idle \in Local
BY DEF Idle, Local, Confirmations, NothingStored, Checks

LEMMA ValidatedType ==
  ASSUME SettingsTypeOK, NEW u \in Updates, pc[u] # "idle"
  PROVE  Proposed(u) \in Settings
<1>1. local[u].body \in Bodies /\ local[u].settings \in Settings
  BY DEF SettingsTypeOK
<1> QED
  BY <1>1, BodyType DEF Proposed, Settings

LEMMA StoredType ==
  ASSUME SettingsTypeOK
  PROVE  Stored \in Settings
BY SettingsAssumption DEF SettingsTypeOK, Stored, Settings

LEMMA HotUpdateType ==
  ASSUME SettingsTypeOK, NEW u \in Updates, pc[u] # "idle", runtime # NoValue, HotUpdate(u)
  PROVE  /\ runtime' \in Settings
         /\ \A k \in Keys : runtime'[k] =
              IF k \in DOMAIN local[u].body \cap RuntimeUpdatable
              THEN local[u].body[k] ELSE runtime[k]
<1>1. local[u].body \in Bodies /\ runtime \in Settings
  BY DEF SettingsTypeOK
<1> QED
  BY <1>1, BodyType DEF HotUpdate, Settings

(* While a request is under way the process is up: pc # "idle" implies a   *)
(* runtime, which the type invariant needs for HotUpdate.                  *)
Up == \A u \in Updates : pc[u] # "idle" => runtime # NoValue

LEMMA TypeStep ==
  ASSUME SettingsTypeOK, Up, [SettingsNext]_settingsVars
  PROVE  SettingsTypeOK' /\ Up'
<1>t. local \in [Updates -> Local]
  BY DEF SettingsTypeOK
<1>1. CASE UNCHANGED settingsVars
  BY <1>1 DEF settingsVars, SettingsTypeOK, Up
<1>2. CASE SettingsRestart
  BY <1>2, IdleType, StoredType DEF SettingsRestart, SettingsTypeOK, Up
<1>3. ASSUME NEW u \in Updates, Update(u)
      PROVE  SettingsTypeOK' /\ Up'
  <2>1. ASSUME NEW request \in Requests, Load(u, request)
        PROVE  SettingsTypeOK' /\ Up'
    <3>1. /\ request.body \in Bodies
          /\ request.confirm \in Confirmations /\ request.live \in BOOLEAN
      BY SettingsAssumption DEF Bodies
    <3>2. runtime \in Settings
      BY <2>1 DEF Load, SettingsTypeOK
    <3> DEFINE l == [Idle EXCEPT !.body = request.body, !.confirm = request.confirm,
                                 !.live = request.live, !.settings = runtime]
    <3>3. l \in Local /\ l.body \in Bodies /\ l.settings \in Settings
      BY <3>1, <3>2 DEF Idle, Local, NothingStored, Checks
    <3>4. local' = [local EXCEPT ![u] = l]
      BY <2>1 DEF Load
    <3> HIDE DEF l
    <3> QED
      BY <2>1, <3>3, <3>4, <1>t DEF Load, SettingsTypeOK, Up
  <2>2. CASE Refuse(u) \/ NotReady(u) \/ StoreFails(u)
    <3>1. Done(u) /\ torn' \in BOOLEAN /\ UNCHANGED <<runtime, overrides, flip>>
      BY <2>2 DEF Refuse, NotReady, StoreFails, SettingsTypeOK
    <3> QED
      BY <3>1, IdleType DEF Done, SettingsTypeOK, Up
  <2>3. CASE Accept(u) \/ Ready(u)
    <3>1. pc[u] # "idle" /\ HotUpdate(u) /\ UNCHANGED <<overrides, local, flip, torn>>
      BY <2>3 DEF Accept, Ready
    <3>2. runtime' \in Settings
      BY <3>1, HotUpdateType DEF Up
    <3> QED
      BY <3>1, <3>2, SettingsAssumption DEF HotUpdate, SettingsTypeOK, Up
  <2>4. CASE Gate(u)
    <3> DEFINE l == [local[u] EXCEPT !.asked = {"risk_caps"},
                       !.passed = IF RiskCapsPass(u) THEN {"risk_caps"} ELSE {}]
    <3>1. l \in Local /\ l.body = local[u].body /\ l.settings = local[u].settings
      BY <1>t DEF Local, Checks
    <3>2. local' = [local EXCEPT ![u] = l]
      BY <2>4, <1>t DEF Gate
    <3>3. /\ pc' \in [Updates -> {"idle", "validate", "checks", "rows"}]
          /\ \A v \in Updates : pc'[v] # "idle" => pc[v] # "idle"
          /\ UNCHANGED <<runtime, overrides, flip, torn>>
      BY <2>4 DEF Gate, SettingsTypeOK
    <3> HIDE DEF l
    <3> QED
      BY <3>1, <3>2, <3>3 DEF SettingsTypeOK, Up
  <2>5. ASSUME NEW fact \in Facts, NEW holds \in BOOLEAN, Check(u, fact, holds)
        PROVE  SettingsTypeOK' /\ Up'
    <3> DEFINE asked == local[u].asked \cup {fact}
               passed == IF holds THEN local[u].passed \cup {fact} ELSE local[u].passed
               l == [local[u] EXCEPT !.asked = asked, !.passed = passed]
    <3>1. asked \in SUBSET Checks /\ passed \in SUBSET Checks
      BY <1>t DEF Local, Checks
    <3>2. local' = [local EXCEPT ![u] = l]
      BY <2>5, <1>t DEF Check
    <3> HIDE DEF asked, passed
    <3>3. l \in Local /\ l.body = local[u].body /\ l.settings = local[u].settings
      BY <3>1, <1>t DEF Local
    <3>4. UNCHANGED <<runtime, overrides, pc, flip, torn>>
      BY <2>5 DEF Check
    <3> HIDE DEF l
    <3> QED
      BY <3>2, <3>3, <3>4 DEF SettingsTypeOK, Up
  <2>6. ASSUME NEW k \in Keys, FindRow(u, k)
        PROVE  SettingsTypeOK' /\ Up'
    <3> DEFINE looked == local[u].looked \cup {k}
               found == [local[u].found EXCEPT ![k] = overrides[k]]
               l == [local[u] EXCEPT !.looked = looked, !.found = found]
    <3>1. looked \in SUBSET Keys /\ found \in [Keys -> Nat \cup {NoValue}]
      BY <1>t DEF Local, SettingsTypeOK
    <3>2. local' = [local EXCEPT ![u] = l]
      BY <2>6, <1>t DEF FindRow
    <3>3. UNCHANGED <<runtime, overrides, pc, flip, torn>>
      BY <2>6 DEF FindRow
    <3> HIDE DEF looked, found
    <3>4. l \in Local /\ l.body = local[u].body /\ l.settings = local[u].settings
      BY <3>1, <1>t DEF Local
    <3> HIDE DEF l
    <3> QED
      BY <3>2, <3>3, <3>4 DEF SettingsTypeOK, Up
  <2>7. CASE Store(u)
    <3>1. local[u].body \in Bodies /\ pc[u] # "idle"
      BY <2>7 DEF Store, Found, SettingsTypeOK
    <3>2. overrides' \in [Keys -> Nat \cup {NoValue}]
      BY <2>7, <3>1, BodyType DEF Store, Written, SettingsTypeOK
    <3>3. Proposed(u)["max_risk_per_trade_pct"] \in Nat
      BY <3>1, ValidatedType DEF Settings, Keys
    <3>4. flip' \in Flip
      BY <2>7, <3>3, <1>t DEF Store, Flip, Local, SettingsTypeOK
    <3> QED
      BY <2>7, <3>2, <3>4, IdleType DEF Store, Done, SettingsTypeOK, Up
  <2> QED
    BY <1>3, <2>1, <2>2, <2>3, <2>4, <2>5, <2>6, <2>7 DEF Update
<1> QED
  BY <1>1, <1>2, <1>3 DEF SettingsNext

LEMMA TypeInit == SettingsInit => SettingsTypeOK /\ Up
<1>1. NothingStored \in [Keys -> Nat \cup {NoValue}]
  BY DEF NothingStored
<1>2. NoFlip \in Flip
  BY DEF NoFlip, Flip, Confirmations
<1>3. Environment \in Settings
  BY SettingsAssumption
<1> QED
  BY <1>1, <1>2, <1>3, IdleType DEF SettingsInit, SettingsTypeOK, Up

(* The type invariant of the settings update. *)
THEOREM TypeCorrect == SettingsSpec => []SettingsTypeOK
<1>1. SettingsTypeOK /\ Up /\ [SettingsNext]_settingsVars => (SettingsTypeOK /\ Up)'
  BY TypeStep
<1> QED
  BY <1>1, TypeInit, PTL DEF SettingsSpec

-----------------------------------------------------------------------------
(* Going live                                                              *)

Checked(f) ==
  /\ f.confirm = "SWITCH_MODE" /\ f.live
  /\ f.passed = Checks
  /\ f.ceiling <= LiveCeiling

Paper == runtime["paper_trading"] # 0

Gated(u) ==
  pc[u] \in {"checks", "rows"} /\ Paper /\ Changes(u, "paper_trading", 0) =>
    /\ local[u].confirm = "SWITCH_MODE" /\ local[u].live
    /\ "risk_caps" \in local[u].asked
    /\ "risk_caps" \in local[u].passed => RiskCapsPass(u)
    /\ pc[u] = "rows" => local[u].passed = Checks

(* The mode a request compares with is that of the process, which changes  *)
(* by a restart only; so a request that asks a paper process to go live    *)
(* has been through the gate, and so has whatever paper_trading = 0 that   *)
(* awaits the next start.                                                  *)
FlipInv ==
  /\ \A u \in Updates : pc[u] # "idle" =>
       local[u].settings["paper_trading"] = runtime["paper_trading"]
  /\ \A u \in Updates : Gated(u)
  /\ runtime # NoValue /\ Paper /\ Stored["paper_trading"] = 0 => Checked(flip)

LEMMA KeysFacts ==
  /\ "paper_trading" \in Keys /\ "max_risk_per_trade_pct" \in Keys
  /\ "preferred_max_risk_per_trade_pct" \in Keys
  /\ "paper_trading" \notin RuntimeUpdatable /\ "paper_trading" \in Overridable
  /\ RuntimeUpdatable \subseteq Keys /\ Overridable \subseteq Keys
BY DEF Keys, RuntimeUpdatable, Overridable

LEMMA FlipStep ==
  ASSUME SettingsTypeOK, Up, FlipInv, [SettingsNext]_settingsVars
  PROVE  FlipInv'
<1>t. local \in [Updates -> Local] /\ pc \in [Updates -> {"idle", "validate", "checks", "rows"}]
  BY DEF SettingsTypeOK
<1>1. CASE UNCHANGED settingsVars
  BY <1>1 DEF settingsVars, FlipInv, Gated, Paper, Changes, RiskCapsPass, Proposed, Stored
<1>2. CASE SettingsRestart
  <2>1. \A u \in Updates : pc'[u] = "idle"
    BY <1>2 DEF SettingsRestart
  <2>2. Stored' = Stored
    BY <1>2 DEF SettingsRestart, Stored
  <2>3. runtime' # NoValue => runtime' = Stored
    BY <1>2 DEF SettingsRestart
  <2> QED
    BY <2>1, <2>2, <2>3 DEF FlipInv, Gated, Paper
<1>3. ASSUME NEW u \in Updates, Update(u)
      PROVE  FlipInv'
  <2>1. ASSUME NEW request \in Requests, Load(u, request)
        PROVE  FlipInv'
    <3>1. /\ UNCHANGED <<runtime, overrides, flip>> /\ Stored' = Stored
          /\ pc'[u] = "validate" /\ local'[u].settings = runtime
          /\ \A v \in Updates \ {u} : pc'[v] = pc[v] /\ local'[v] = local[v]
      BY <2>1, <1>t DEF Load, Stored, Idle
    <3> QED
      BY <3>1 DEF FlipInv, Gated, Paper, Changes, RiskCapsPass, Proposed
  <2>2. CASE Refuse(u) \/ NotReady(u) \/ StoreFails(u)
    <3>1. /\ UNCHANGED <<runtime, overrides, flip>> /\ pc'[u] = "idle"
          /\ \A v \in Updates \ {u} : pc'[v] = pc[v] /\ local'[v] = local[v]
      BY <2>2, <1>t DEF Refuse, NotReady, StoreFails, Done
    <3>2. Stored' = Stored
      BY <3>1 DEF Stored
    <3> QED
      BY <3>1, <3>2 DEF FlipInv, Gated, Paper, Changes, RiskCapsPass, Proposed
  <2>3. CASE Accept(u) \/ Ready(u)
    <3>1. /\ pc[u] # "idle" /\ HotUpdate(u) /\ UNCHANGED <<overrides, local, flip>>
          /\ pc'[u] = "rows"
          /\ \A v \in Updates \ {u} : pc'[v] = pc[v]
      BY <2>3, <1>t DEF Accept, Ready, HotUpdate
    <3>2. runtime'["paper_trading"] = runtime["paper_trading"] /\ runtime # NoValue
      BY <3>1, HotUpdateType, KeysFacts DEF Up
    <3>3. Stored' = Stored
      BY <3>1 DEF Stored
    <3>4. ASSUME Paper, Changes(u, "paper_trading", 0)
          PROVE  /\ local[u].confirm = "SWITCH_MODE" /\ local[u].live
                 /\ RiskCapsPass(u) /\ local[u].passed = Checks
                 /\ "risk_caps" \in local[u].asked
      <4>1. local[u].settings["paper_trading"] = runtime["paper_trading"]
        BY <3>1 DEF FlipInv
      <4>2. GoingLive(u)
        BY <4>1, <3>4 DEF GoingLive, ModeChange, Changes, Paper
      <4>3. Ready(u)
        BY <4>2, <2>3 DEF Accept
      <4>4. local[u].passed = local[u].asked /\ Facts \subseteq local[u].asked /\ pc[u] = "checks"
        BY <4>3 DEF Ready
      <4>5. "risk_caps" \in local[u].asked /\ local[u].asked \subseteq Checks
        BY <4>4, <3>4, <1>t DEF FlipInv, Gated, Local
      <4> QED
        BY <4>4, <4>5, <3>4 DEF FlipInv, Gated, Checks
    <3>5. /\ Changes(u, "paper_trading", 0)' => Changes(u, "paper_trading", 0)
          /\ RiskCapsPass(u) => RiskCapsPass(u)'
      BY <3>1 DEF Changes, RiskCapsPass, Proposed
    <3>6. Checks = Facts \cup {"risk_caps"}
      BY DEF Checks
    <3>7. Gated(u)'
      <4>1. Paper' => Paper
        BY <3>2 DEF Paper
      <4>2. local' = local
        BY <3>1
      <4> QED
        BY <4>1, <4>2, <3>4, <3>5 DEF Gated
    <3>8. \A v \in Updates \ {u} : Gated(v)'
      BY <3>1, <3>2 DEF FlipInv, Gated, Paper, Changes, RiskCapsPass, Proposed
    <3> QED
      BY <3>1, <3>2, <3>3, <3>7, <3>8 DEF FlipInv, Paper
  <2>4. CASE Gate(u)
    <3>1. /\ UNCHANGED <<runtime, overrides, flip>> /\ Stored' = Stored
          /\ pc[u] = "validate" /\ pc'[u] = "checks"
          /\ local'[u] = [local[u] EXCEPT !.asked = {"risk_caps"},
                             !.passed = IF RiskCapsPass(u) THEN {"risk_caps"} ELSE {}]
          /\ \A v \in Updates \ {u} : pc'[v] = pc[v] /\ local'[v] = local[v]
      BY <2>4, <1>t DEF Gate, Stored
    <3>2. local[u].confirm = "SWITCH_MODE" /\ local[u].live
      BY <2>4 DEF Gate, Confirmed, GoingLive
    <3>3. /\ local'[u].confirm = local[u].confirm /\ local'[u].live = local[u].live
          /\ local'[u].settings = local[u].settings /\ local'[u].body = local[u].body
          /\ local'[u].asked = {"risk_caps"}
          /\ local'[u].passed = IF RiskCapsPass(u) THEN {"risk_caps"} ELSE {}
      BY <3>1, <1>t DEF Local
    <3>4. RiskCapsPass(u)' = RiskCapsPass(u)
      BY <3>3 DEF RiskCapsPass, Proposed
    <3>5. Gated(u)'
      BY <3>1, <3>2, <3>3, <3>4 DEF Gated, GoingLive
    <3>6. \A v \in Updates \ {u} : Gated(v)'
      BY <3>1 DEF FlipInv, Gated, Paper, Changes, RiskCapsPass, Proposed
    <3>7. \A v \in Updates : Gated(v)'
      BY <3>5, <3>6
    <3>8. \A v \in Updates :
            /\ local'[v].settings = local[v].settings
            /\ pc'[v] # "idle" => pc[v] # "idle"
      BY <3>1, <3>3
    <3> QED
      BY <3>1, <3>7, <3>8 DEF FlipInv, Paper
  <2>5. ASSUME NEW fact \in Facts, NEW holds \in BOOLEAN, Check(u, fact, holds)
        PROVE  FlipInv'
    <3>1. /\ UNCHANGED <<runtime, overrides, pc, flip>> /\ Stored' = Stored /\ pc[u] = "checks"
          /\ local' = [local EXCEPT ![u] = [local[u] EXCEPT !.asked = @ \cup {fact},
                             !.passed = IF holds THEN @ \cup {fact} ELSE @]]
      BY <2>5, <1>t DEF Check, Stored
    <3>2. /\ local'[u].confirm = local[u].confirm /\ local'[u].live = local[u].live
          /\ local'[u].settings = local[u].settings /\ local'[u].body = local[u].body
          /\ local'[u].asked = local[u].asked \cup {fact}
          /\ local'[u].passed \subseteq local[u].passed \cup {fact}
          /\ \A v \in Updates \ {u} : local'[v] = local[v]
      BY <3>1, <1>t DEF Local
    <3>3. RiskCapsPass(u)' = RiskCapsPass(u) /\ "risk_caps" # fact
      BY <3>2 DEF RiskCapsPass, Proposed, Facts
    <3>4. Changes(u, "paper_trading", 0)' = Changes(u, "paper_trading", 0)
      BY <3>2 DEF Changes
    <3>5. Gated(u)'
      BY <3>1, <3>2, <3>3, <3>4 DEF FlipInv, Gated, Paper
    <3>6. \A v \in Updates \ {u} : Gated(v)'
      BY <3>1, <3>2 DEF FlipInv, Gated, Paper, Changes, RiskCapsPass, Proposed
    <3> QED
      BY <3>1, <3>2, <3>5, <3>6 DEF FlipInv, Paper
  <2>6. ASSUME NEW k \in Keys, FindRow(u, k)
        PROVE  FlipInv'
    <3>1. UNCHANGED <<runtime, overrides, pc, flip>> /\ Stored' = Stored
      BY <2>6 DEF FindRow, Stored
    <3>l. local' = [local EXCEPT ![u] = [local[u] EXCEPT !.looked = @ \cup {k}, !.found[k] = overrides[k]]]
      BY <2>6, <1>t DEF FindRow
    <3>2. \A v \in Updates :
            /\ local'[v].confirm = local[v].confirm /\ local'[v].live = local[v].live
            /\ local'[v].settings = local[v].settings /\ local'[v].body = local[v].body
            /\ local'[v].asked = local[v].asked /\ local'[v].passed = local[v].passed
      BY <3>l, <1>t DEF Local
    <3> QED
      BY <3>1, <3>2 DEF FlipInv, Gated, Paper, Changes, RiskCapsPass, Proposed
  <2>7. CASE Store(u)
    <3>1. /\ runtime' = runtime /\ pc[u] = "rows" /\ pc'[u] = "idle"
          /\ \A v \in Updates \ {u} : pc'[v] = pc[v] /\ local'[v] = local[v]
      BY <2>7, <1>t DEF Store, Found, Done
    <3>2. ASSUME runtime # NoValue, Paper, Stored'["paper_trading"] = 0
          PROVE  Checked(flip')
      <4>1. CASE "paper_trading" \in Written(u)
        <5>1. /\ "paper_trading" \in DOMAIN local[u].body
              /\ overrides'["paper_trading"] = local[u].body["paper_trading"]
          BY <4>1, <2>7, KeysFacts DEF Store, Written
        <5>2. local[u].body["paper_trading"] \in Nat
          BY <5>1, <3>1, BodyType DEF SettingsTypeOK
        <5>3. local[u].body["paper_trading"] = 0
          BY <5>1, <5>2, <3>2, KeysFacts, SettingsAssumption DEF Stored
        <5>4. /\ local[u].confirm = "SWITCH_MODE" /\ local[u].live
              /\ local[u].passed = Checks /\ RiskCapsPass(u)
          BY <5>1, <5>3, <3>1, <3>2 DEF FlipInv, Gated, Changes, Checks
        <5> QED
          BY <5>3, <5>4, <4>1, <2>7 DEF Store, Checked, RiskCapsPass
      <4>2. CASE "paper_trading" \notin Written(u)
        <5>1. overrides'["paper_trading"] = overrides["paper_trading"] /\ flip' = flip
          BY <4>2, <2>7, KeysFacts DEF Store
        <5>2. Stored["paper_trading"] = 0
          BY <5>1, <3>2, KeysFacts DEF Stored
        <5> QED
          BY <5>1, <5>2, <3>2 DEF FlipInv
      <4> QED
        BY <4>1, <4>2
    <3> QED
      BY <3>1, <3>2 DEF FlipInv, Gated, Paper, Changes, RiskCapsPass, Proposed
  <2> QED
    BY <1>3, <2>1, <2>2, <2>3, <2>4, <2>5, <2>6, <2>7 DEF Update
<1> QED
  BY <1>1, <1>2, <1>3 DEF SettingsNext

LEMMA FlipInit == SettingsInit => FlipInv
<1>1. ASSUME SettingsInit PROVE Stored = [k \in Keys |-> Environment[k]]
  BY <1>1 DEF SettingsInit, Stored, NothingStored
<1>2. ASSUME SettingsInit PROVE FlipInv
  BY <1>1, <1>2, KeysFacts DEF SettingsInit, FlipInv, Gated, Paper
<1> QED
  BY <1>2

(* A process goes from paper to live only on a stored request that carried *)
(* both confirmations and passed every readiness check.                    *)
THEOREM LiveIsConfirmed == SettingsSpec => FlipsAreConfirmed
<1>1. SettingsTypeOK /\ Up /\ FlipInv /\ [SettingsNext]_settingsVars => (SettingsTypeOK /\ Up /\ FlipInv)'
  BY TypeStep, FlipStep
<1>2. ASSUME SettingsTypeOK, Up, FlipInv, [SettingsNext]_settingsVars, runtime # NoValue, runtime' # NoValue,
             runtime["paper_trading"] # 0, runtime'["paper_trading"] = 0
      PROVE  Checked(flip)
  <2>1. CASE SettingsRestart
    <3>1. runtime' = Stored
      BY <1>2, <2>1 DEF SettingsRestart
    <3> QED
      BY <1>2, <3>1 DEF FlipInv, Paper
  <2>2. CASE UNCHANGED settingsVars
    BY <1>2, <2>2 DEF settingsVars
  <2>3. ASSUME NEW u \in Updates, Update(u) PROVE FALSE
    <3>1. runtime' = runtime \/ (pc[u] # "idle" /\ HotUpdate(u))
      BY <2>3 DEF Update, Load, Refuse, Accept, Gate, Check, NotReady, Ready, FindRow,
                  Store, StoreFails
    <3>2. runtime'["paper_trading"] = runtime["paper_trading"]
      BY <3>1, <1>2, HotUpdateType, KeysFacts
    <3> QED
      BY <3>2, <1>2
  <2> QED
    BY <1>2, <2>1, <2>2, <2>3 DEF SettingsNext
<1>3. SettingsTypeOK /\ Up /\ FlipInv /\ [SettingsNext]_settingsVars =>
        [ runtime # NoValue /\ runtime' # NoValue
          /\ runtime["paper_trading"] # 0 /\ runtime'["paper_trading"] = 0 =>
            /\ flip.confirm = "SWITCH_MODE" /\ flip.live
            /\ flip.passed = Checks
            /\ flip.ceiling <= LiveCeiling ]_settingsVars
  BY <1>2 DEF Checked
<1> QED
  BY <1>1, <1>3, TypeInit, FlipInit, PTL DEF SettingsSpec, FlipsAreConfirmed

(* The settings agree when requests come one at a time: each is validated  *)
(* against the settings in force, and the rows it looked up stay as they   *)
(* were until it writes them.                                              *)
Agreeing == Overridable \cap RuntimeUpdatable
OneAtATime ==
  /\ \A u, v \in Updates : pc[u] # "idle" /\ pc[v] # "idle" => u = v
  /\ \A u \in Updates : pc[u] \in {"validate", "checks"} =>
       local[u].settings = runtime /\ local[u].looked = {}
  /\ \A u \in Updates : pc[u] = "checks" => ValidCaps(Proposed(u))
  /\ \A u \in Updates : pc[u] = "rows" =>
       /\ \A k \in Agreeing : runtime[k] = IF k \in DOMAIN local[u].body
                                          THEN local[u].body[k] ELSE Stored[k]
       /\ \A k \in local[u].looked : local[u].found[k] = overrides[k]
SequentialInv == ~ torn => OneAtATime /\ SequentialUpdatesAgree

LEMMA AgreeingFacts ==
  /\ "max_risk_per_trade_pct" \in Agreeing
  /\ "preferred_max_risk_per_trade_pct" \in Agreeing
  /\ Agreeing \subseteq Keys
  /\ Agreeing \subseteq RuntimeUpdatable /\ Agreeing \subseteq Overridable
BY DEF Agreeing, Overridable, RuntimeUpdatable, Keys

LEMMA ValidWhenAgreeing ==
  ASSUME NEW s, NEW t, ValidCaps(s), \A k \in Agreeing : t[k] = s[k]
  PROVE  ValidCaps(t)
BY AgreeingFacts DEF ValidCaps

LEMMA SequentialStep ==
  ASSUME SettingsTypeOK, Up, SequentialInv, [SettingsNext]_settingsVars
  PROVE  SequentialInv'
<1>t. local \in [Updates -> Local] /\ pc \in [Updates -> {"idle", "validate", "checks", "rows"}]
  BY DEF SettingsTypeOK
<1>0. SUFFICES ASSUME ~ torn'
               PROVE  OneAtATime' /\ SequentialUpdatesAgree'
  BY DEF SequentialInv
<1> DEFINE Agree == \A k \in Agreeing : runtime[k] = Stored[k]
<1>1. CASE UNCHANGED settingsVars
  <2>1. OneAtATime /\ SequentialUpdatesAgree
    BY <1>0, <1>1 DEF settingsVars, SequentialInv
  <2> QED
    BY <1>1, <2>1 DEF settingsVars, OneAtATime, SequentialUpdatesAgree, Proposed, Stored
<1>2. CASE SettingsRestart
  <2>1. OneAtATime /\ SequentialUpdatesAgree /\ ~ torn
    BY <1>0, <1>2 DEF SettingsRestart, SequentialInv
  <2>2. Stored' = Stored /\ ValidCaps(Stored) /\ Stored # NoValue
    BY <1>2, <2>1, StoredType, SettingsAssumption DEF SettingsRestart, Stored, SequentialUpdatesAgree
  <2>3. runtime' = Stored /\ \A u \in Updates : pc'[u] = "idle"
    BY <1>2, <2>2 DEF SettingsRestart
  <2> QED
    BY <2>2, <2>3 DEF OneAtATime, SequentialUpdatesAgree
<1>3. ASSUME NEW u \in Updates, Update(u)
      PROVE  OneAtATime' /\ SequentialUpdatesAgree'
  <2>t. ~ torn
    BY <1>0, <1>3 DEF Update, Load, Refuse, Accept, Gate, Check, NotReady, Ready, FindRow,
                      Store, StoreFails
  <2>i. /\ OneAtATime
        /\ runtime # NoValue /\ ValidCaps(runtime) /\ ValidCaps(Stored)
        /\ (\A v \in Updates : pc[v] # "rows") => Agree
    BY <2>t DEF SequentialInv, SequentialUpdatesAgree, Agreeing
  <2>o. pc[u] # "idle" => \A v \in Updates \ {u} : pc[v] = "idle"
    BY <2>i DEF OneAtATime
  <2>1. ASSUME NEW request \in Requests, Load(u, request)
        PROVE  OneAtATime' /\ SequentialUpdatesAgree'
    <3>1. \A v \in Updates : pc[v] = "idle"
      BY <2>1, <1>0 DEF Load
    <3>2. /\ UNCHANGED <<runtime, overrides>> /\ pc'[u] = "validate"
          /\ local'[u].settings = runtime /\ local'[u].looked = {}
          /\ \A v \in Updates \ {u} : pc'[v] = "idle"
      BY <2>1, <3>1, <1>t DEF Load, Idle
    <3>3. Stored' = Stored
      BY <3>2 DEF Stored
    <3> QED
      BY <2>i, <3>1, <3>2, <3>3 DEF OneAtATime, SequentialUpdatesAgree, Agreeing
  <2>2. CASE Refuse(u) \/ NotReady(u)
    <3>1. UNCHANGED <<runtime, overrides>> /\ pc[u] # "rows" /\ pc[u] # "idle" /\ pc'[u] = "idle"
          /\ \A v \in Updates \ {u} : pc'[v] = pc[v]
      BY <2>2, <1>t DEF Refuse, NotReady, Done
    <3>2. Stored' = Stored
      BY <3>1 DEF Stored
    <3>3. \A v \in Updates : pc'[v] = "idle" /\ pc[v] # "rows"
      BY <3>1, <2>o
    <3> QED
      BY <2>i, <3>1, <3>2, <3>3 DEF OneAtATime, SequentialUpdatesAgree, Agreeing
  <2>3. CASE Accept(u) \/ Ready(u)
    <3>1. /\ pc[u] \in {"validate", "checks"} /\ HotUpdate(u) /\ UNCHANGED <<overrides, local>>
          /\ pc'[u] = "rows" /\ ValidCaps(Proposed(u))
      BY <2>3, <2>i, <1>t DEF Accept, Ready, HotUpdate, OneAtATime
    <3>2. /\ local[u].settings = runtime /\ local[u].looked = {}
          /\ \A v \in Updates \ {u} : pc[v] = "idle" /\ pc'[v] = "idle"
      BY <3>1, <2>i, <2>o, <1>t DEF OneAtATime, HotUpdate
    <3>3. Agree
      BY <2>i, <3>1, <3>2
    <3>4. /\ runtime' \in Settings
          /\ \A k \in Agreeing : runtime'[k] = IF k \in DOMAIN local[u].body
                                               THEN local[u].body[k] ELSE runtime[k]
      BY <3>1, <2>i, HotUpdateType, AgreeingFacts
    <3>5. \A k \in Agreeing : Proposed(u)[k] = runtime'[k]
      BY <3>2, <3>4, AgreeingFacts DEF Proposed
    <3>6. ValidCaps(runtime') /\ runtime' # NoValue
      BY <3>1, <3>4, <3>5, ValidWhenAgreeing, SettingsAssumption
    <3>7. Stored' = Stored
      BY <3>1 DEF Stored
    <3>8. \A k \in Agreeing : runtime'[k] = IF k \in DOMAIN local'[u].body
                                            THEN local'[u].body[k] ELSE Stored'[k]
      BY <3>1, <3>3, <3>4, <3>7
    <3>9. OneAtATime'
      BY <3>1, <3>2, <3>8 DEF OneAtATime
    <3> QED
      BY <2>i, <3>1, <3>6, <3>7, <3>9 DEF SequentialUpdatesAgree
  <2>4. CASE Gate(u) \/ \E fact \in Facts, holds \in BOOLEAN : Check(u, fact, holds)
    <3>1. /\ UNCHANGED <<runtime, overrides>> /\ pc[u] \in {"validate", "checks"}
          /\ pc'[u] = "checks" /\ ValidCaps(Proposed(u))
          /\ \A v \in Updates \ {u} : pc'[v] = pc[v]
      BY <2>4, <2>i, <1>t DEF Gate, Check, OneAtATime
    <3>2. /\ local'[u].settings = local[u].settings /\ local'[u].body = local[u].body
          /\ local'[u].looked = local[u].looked
      <4>1. CASE Gate(u)
        BY <4>1, <1>t DEF Gate, Local
      <4>2. ASSUME NEW fact \in Facts, NEW holds \in BOOLEAN, Check(u, fact, holds)
            PROVE  /\ local'[u].settings = local[u].settings
                   /\ local'[u].body = local[u].body /\ local'[u].looked = local[u].looked
        BY <4>2, <1>t DEF Check, Local
      <4> QED
        BY <2>4, <4>1, <4>2
    <3>3. Stored' = Stored /\ Proposed(u)' = Proposed(u)
      BY <3>1, <3>2 DEF Stored, Proposed
    <3>4. \A v \in Updates \ {u} : pc[v] = "idle" /\ pc'[v] = "idle"
      BY <3>1, <2>o
    <3>5. local'[u].settings = runtime' /\ local'[u].looked = {} /\ Agree
      BY <3>1, <3>2, <3>4, <2>i DEF OneAtATime
    <3>6. OneAtATime'
      BY <3>1, <3>3, <3>4, <3>5 DEF OneAtATime, Proposed
    <3> QED
      BY <2>i, <3>1, <3>3, <3>5, <3>6 DEF SequentialUpdatesAgree, Agreeing
  <2>5. ASSUME NEW k \in Keys, FindRow(u, k)
        PROVE  OneAtATime' /\ SequentialUpdatesAgree'
    <3>1. UNCHANGED <<runtime, overrides, pc>> /\ pc[u] = "rows"
      BY <2>5 DEF FindRow
    <3>2. local' = [local EXCEPT ![u] = [local[u] EXCEPT !.looked = @ \cup {k}, !.found[k] = overrides[k]]]
      BY <2>5, <1>t DEF FindRow
    <3>3. /\ local'[u].body = local[u].body /\ local'[u].looked = local[u].looked \cup {k}
          /\ local'[u].found = [local[u].found EXCEPT ![k] = overrides[k]]
          /\ local[u].found \in [Keys -> Nat \cup {NoValue}]
      BY <3>2, <1>t DEF Local
    <3>4. \A j \in local'[u].looked : local'[u].found[j] = overrides'[j]
      BY <3>1, <3>3, <2>i, <1>t DEF OneAtATime, Local
    <3>5. Stored' = Stored /\ \A v \in Updates \ {u} : pc'[v] = "idle"
      BY <3>1, <2>o DEF Stored
    <3>6. \A j \in Agreeing : runtime'[j] = IF j \in DOMAIN local'[u].body
                                            THEN local'[u].body[j] ELSE Stored'[j]
      BY <3>1, <3>3, <3>5, <2>i DEF OneAtATime
    <3>7. OneAtATime'
      BY <3>1, <3>4, <3>5, <3>6 DEF OneAtATime
    <3> QED
      BY <2>i, <3>1, <3>5, <3>7 DEF SequentialUpdatesAgree
  <2>6. CASE Store(u)
    <3>1. /\ runtime' = runtime /\ pc[u] = "rows" /\ local[u].looked = DOMAIN local[u].body
          /\ \A v \in Updates : pc'[v] = "idle"
      BY <2>6, <2>o, <1>t DEF Store, Found, Done
    <3>2. local[u].body \in Bodies
      BY <3>1 DEF SettingsTypeOK
    <3>3. ASSUME NEW k \in Agreeing
          PROVE  runtime[k] = Stored'[k]
      <4>1. k \in Keys /\ k \in Overridable
        BY AgreeingFacts
      <4>2. runtime[k] = IF k \in DOMAIN local[u].body THEN local[u].body[k] ELSE Stored[k]
        BY <3>1, <2>i DEF OneAtATime
      <4>3. CASE k \in DOMAIN local[u].body
        <5>1. local[u].body[k] \in Nat
          BY <4>3, <3>2, BodyType
        <5>2. overrides'[k] = local[u].body[k]
          BY <4>1, <4>3, <2>6, <3>1, <2>i DEF Store, Written, OneAtATime
        <5> QED
          BY <4>1, <4>2, <4>3, <5>1, <5>2, SettingsAssumption DEF Stored
      <4>4. CASE k \notin DOMAIN local[u].body
        <5>1. overrides'[k] = overrides[k]
          BY <4>1, <4>4, <2>6 DEF Store, Written
        <5> QED
          BY <4>1, <4>2, <4>4, <5>1 DEF Stored
      <4> QED
        BY <4>3, <4>4
    <3>4. ValidCaps(Stored')
      BY <3>3, <2>i, ValidWhenAgreeing
    <3> QED
      BY <2>i, <3>1, <3>3, <3>4 DEF OneAtATime, SequentialUpdatesAgree, Agreeing
  <2>7. CASE StoreFails(u)
    BY <2>7, <1>0 DEF StoreFails
  <2> QED
    BY <1>3, <2>1, <2>2, <2>3, <2>4, <2>5, <2>6, <2>7 DEF Update
<1> QED
  BY <1>1, <1>2, <1>3 DEF SettingsNext

LEMMA SequentialInit == SettingsInit => SequentialInv
<1>1. ASSUME SettingsInit
      PROVE  /\ \A k \in Keys : Stored[k] = Environment[k]
             /\ runtime = Environment /\ \A u \in Updates : pc[u] = "idle"
  BY <1>1 DEF SettingsInit, Stored, NothingStored
<1>2. ASSUME SettingsInit PROVE ValidCaps(Stored) /\ ValidCaps(runtime) /\ runtime # NoValue
  BY <1>1, <1>2, AgreeingFacts, ValidWhenAgreeing, SettingsAssumption
<1>3. ASSUME SettingsInit PROVE SequentialInv
  BY <1>1, <1>2, <1>3, AgreeingFacts DEF SequentialInv, OneAtATime, SequentialUpdatesAgree, Agreeing
<1> QED
  BY <1>3

(* Requests that come one at a time and commit keep the settings in force  *)
(* and the stored ones valid, startable and in agreement.                  *)
THEOREM SequentialIsConsistent == SettingsSpec => []SequentialUpdatesAgree
<1>1. SettingsTypeOK /\ Up /\ SequentialInv /\ [SettingsNext]_settingsVars => (SettingsTypeOK /\ Up /\ SequentialInv)'
  BY TypeStep, SequentialStep
<1>2. SequentialInv => SequentialUpdatesAgree
  BY DEF SequentialInv, SequentialUpdatesAgree
<1> QED
  BY <1>1, <1>2, TypeInit, SequentialInit, PTL DEF SettingsSpec
=============================================================================
