--------------------------- MODULE SettingsUpdate ---------------------------
(***************************************************************************)
(* PUT /settings (api/routers/settings.py), the live-readiness gate it     *)
(* passes (services/readiness.py) and the start of the process, which      *)
(* applies what was stored (lifespan.py).  The settings of the process,    *)
(* app.state.settings, change at once; the rows of risk_policy_overrides   *)
(* are read key by key and written by the commit at the end.  Sessions are *)
(* built with autoflush off, so nothing is written before that commit.     *)
(*                                                                         *)
(* A setting is a number: a percentage, or 0 and 1 for the switches.       *)
(***************************************************************************)
EXTENDS Naturals, FiniteSets

CONSTANTS
  Updates,       \* concurrent requests
  Requests,      \* what they may send: settings to change and confirmations
  Environment,   \* the settings of the process environment
  LiveCeiling,   \* READINESS_MAX_RISK_PER_TRADE_HARD_CAP
  HardLimit,     \* the 0.50 of the validator
  NoValue

Keys == {"paper_trading", "allow_naked", "max_risk_per_trade_pct",
         "preferred_max_risk_per_trade_pct", "auto_execute_consent_live"}

(* _RUNTIME_UPDATABLE_KEYS, and _RUNTIME_OVERRIDE_KEYS of the start. *)
RuntimeUpdatable == Keys \ {"paper_trading"}
OverridableNoCeiling ==     \* mutant of Overridable: a key is forgotten
  Keys \ {"auto_execute_consent_live", "max_risk_per_trade_pct"}
Overridable == Keys \ {"auto_execute_consent_live"}

Settings == [Keys -> Nat]

(* Settings._validate_risk_caps. *)
ValidCaps(s) ==
  /\ 0 < s["preferred_max_risk_per_trade_pct"]
  /\ s["preferred_max_risk_per_trade_pct"] <= s["max_risk_per_trade_pct"]
  /\ s["max_risk_per_trade_pct"] <= HardLimit

Confirmations == {"", "CONFIRM", "SWITCH_MODE"}

ASSUME SettingsAssumption ==
  /\ \A request \in Requests :
       /\ DOMAIN request.body \subseteq Keys
       /\ \A k \in DOMAIN request.body : request.body[k] \in Nat
       /\ request.confirm \in Confirmations
       /\ request.live \in BOOLEAN
  /\ Environment \in Settings /\ ValidCaps(Environment)
  /\ LiveCeiling \in Nat /\ HardLimit \in Nat
  /\ NoValue \notin Nat
  /\ NoValue \notin Settings

(* What readiness asks of the database, one query each. The answers are    *)
(* the work of other parts of the system and may change at any time.       *)
Facts == {"schwab_token", "watchlist_capabilities", "paper_smoke"}
Checks == Facts \cup {"risk_caps"}

VARIABLES
  runtime,       \* app.state.settings, NoValue when the start has failed
  overrides,     \* risk_policy_overrides: value of each key, or NoValue
  pc,
  local,         \* locals of each request
  flip,          \* auxiliary: the request that last stored paper_trading = 0
  torn           \* auxiliary: requests overlapped, or a commit failed

settingsVars == <<runtime, overrides, pc, local, flip, torn>>

-----------------------------------------------------------------------------

Bodies == {request.body : request \in Requests}
NothingStored == [k \in Keys |-> NoValue]
Idle == [body |-> <<>>, confirm |-> "", live |-> FALSE, settings |-> NoValue,
         passed |-> {}, asked |-> {}, found |-> NothingStored, looked |-> {}]
NoFlip == [confirm |-> "", live |-> FALSE, passed |-> {}, ceiling |-> 0]

Local ==
  [body : Bodies \cup {<<>>}, confirm : Confirmations, live : BOOLEAN,
   settings : Settings \cup {NoValue}, passed : SUBSET Checks, asked : SUBSET Checks,
   found : [Keys -> Nat \cup {NoValue}], looked : SUBSET Keys]
Flip == [confirm : Confirmations, live : BOOLEAN, passed : SUBSET Checks, ceiling : Nat]

SettingsTypeOK ==
  /\ runtime \in Settings \cup {NoValue}
  /\ overrides \in [Keys -> Nat \cup {NoValue}]
  /\ pc \in [Updates -> {"idle", "validate", "checks", "rows"}]
  /\ local \in [Updates -> Local]
  /\ \A u \in Updates : pc[u] # "idle" =>
       /\ local[u].body \in Bodies
       /\ local[u].settings \in Settings
  /\ flip \in Flip
  /\ torn \in BOOLEAN

SettingsInit ==
  /\ runtime = Environment
  /\ overrides = NothingStored
  /\ pc = [u \in Updates |-> "idle"]
  /\ local = [u \in Updates |-> Idle]
  /\ flip = NoFlip
  /\ torn = FALSE

-----------------------------------------------------------------------------
(* PUT /settings                                                           *)

Done(u) ==
  /\ pc' = [pc EXCEPT ![u] = "idle"]
  /\ local' = [local EXCEPT ![u] = Idle]

(* A request comes, and its settings are fetched by a dependency that runs *)
(* in a worker thread: other requests go on before the handler starts.     *)
Load(u, request) ==
  /\ pc[u] = "idle"
  /\ runtime # NoValue
  /\ pc' = [pc EXCEPT ![u] = "validate"]
  /\ local' = [local EXCEPT ![u] = [Idle EXCEPT !.body = request.body, !.confirm = request.confirm,
                                                !.live = request.live, !.settings = runtime]]
  /\ torn' = (torn \/ \E v \in Updates : pc[v] # "idle")
  /\ UNCHANGED <<runtime, overrides, flip>>

Changes(u, k, value) == k \in DOMAIN local[u].body /\ local[u].body[k] = value
ModeChange(u) ==
  /\ "paper_trading" \in DOMAIN local[u].body
  /\ local[u].body["paper_trading"] # local[u].settings["paper_trading"]
GoingLive(u) == ModeChange(u) /\ Changes(u, "paper_trading", 0)

Confirmed(u) ==
  /\ Changes(u, "allow_naked", 1) => local[u].confirm = "CONFIRM"
  /\ ModeChange(u) => local[u].confirm = "SWITCH_MODE"
  /\ GoingLive(u) => local[u].live

Proposed(u) ==
  [k \in Keys |-> IF k \in DOMAIN local[u].body THEN local[u].body[k]
                  ELSE local[u].settings[k]]

(* The settings of the process are copied with the changes, as they are at *)
(* this moment and not as they were validated against.                     *)
HotUpdate(u) ==
  /\ runtime' = [k \in Keys |->
       IF k \in DOMAIN local[u].body \cap RuntimeUpdatable
       THEN local[u].body[k] ELSE runtime[k]]
  /\ pc' = [pc EXCEPT ![u] = "rows"]

(* 400 without the confirmation, 422 when the whole would not be valid. *)
Refuse(u) ==
  /\ pc[u] = "validate"
  /\ ~ (Confirmed(u) /\ ValidCaps(Proposed(u)))
  /\ Done(u)
  /\ UNCHANGED <<runtime, overrides, flip, torn>>

Accept(u) ==
  /\ pc[u] = "validate"
  /\ Confirmed(u) /\ ValidCaps(Proposed(u))
  /\ ~ GoingLive(u)
  /\ HotUpdate(u)
  /\ UNCHANGED <<overrides, local, flip, torn>>

(* Mutant of RiskCapsPass: the settings in force are checked. *)
RiskCapsPassOld(u) == local[u].settings["max_risk_per_trade_pct"] <= LiveCeiling
RiskCapsPass(u) == Proposed(u)["max_risk_per_trade_pct"] <= LiveCeiling

Gate(u) ==
  /\ pc[u] = "validate"
  /\ Confirmed(u) /\ ValidCaps(Proposed(u))
  /\ GoingLive(u)
  /\ pc' = [pc EXCEPT ![u] = "checks"]
  /\ local' = [local EXCEPT ![u].asked = {"risk_caps"},
                            ![u].passed = IF RiskCapsPass(u) THEN {"risk_caps"} ELSE {}]
  /\ UNCHANGED <<runtime, overrides, flip, torn>>

(* The queries of evaluate_live_readiness, in their order. *)
Check(u, fact, holds) ==
  /\ pc[u] = "checks"
  /\ fact = IF "schwab_token" \notin local[u].asked THEN "schwab_token"
            ELSE IF "watchlist_capabilities" \notin local[u].asked
            THEN "watchlist_capabilities" ELSE "paper_smoke"
  /\ fact \notin local[u].asked
  /\ local' = [local EXCEPT ![u].asked = @ \cup {fact},
                            ![u].passed = IF holds THEN @ \cup {fact} ELSE @]
  /\ UNCHANGED <<runtime, overrides, pc, flip, torn>>

NotReady(u) ==
  /\ pc[u] = "checks"
  /\ Facts \subseteq local[u].asked
  /\ local[u].passed # local[u].asked
  /\ Done(u)
  /\ UNCHANGED <<runtime, overrides, flip, torn>>

Ready(u) ==
  /\ pc[u] = "checks"
  /\ Facts \subseteq local[u].asked
  /\ local[u].passed = local[u].asked
  /\ HotUpdate(u)
  /\ UNCHANGED <<overrides, local, flip, torn>>

FindRow(u, k) ==
  /\ pc[u] = "rows"
  /\ k \in DOMAIN local[u].body \ local[u].looked
  /\ local' = [local EXCEPT ![u].looked = @ \cup {k}, ![u].found[k] = overrides[k]]
  /\ UNCHANGED <<runtime, overrides, pc, flip, torn>>

Found(u) == pc[u] = "rows" /\ local[u].looked = DOMAIN local[u].body

(* An inserted key that exists by now breaks the unique constraint. *)
Collides(u) == \E k \in DOMAIN local[u].body : local[u].found[k] = NoValue /\ overrides[k] # NoValue

(* Rows whose value does not change are not written. *)
Written(u) == {k \in DOMAIN local[u].body : local[u].found[k] # local[u].body[k]}

Store(u) ==
  /\ Found(u)
  /\ ~ Collides(u)
  /\ overrides' = [k \in Keys |-> IF k \in Written(u) THEN local[u].body[k] ELSE overrides[k]]
  /\ flip' = IF "paper_trading" \in Written(u) /\ local[u].body["paper_trading"] = 0
             THEN [confirm |-> local[u].confirm, live |-> local[u].live,
                   passed |-> local[u].passed,
                   ceiling |-> Proposed(u)["max_risk_per_trade_pct"]]
             ELSE flip
  /\ Done(u)
  /\ UNCHANGED <<runtime, torn>>

(* The database is busy, or the unique constraint is broken: 500, and the  *)
(* settings of the process stay changed.                                   *)
StoreFails(u) ==
  /\ Found(u)
  /\ Done(u)
  /\ torn' = TRUE
  /\ UNCHANGED <<runtime, overrides, flip>>

-----------------------------------------------------------------------------
(* Start of the process                                                    *)

Stored ==
  [k \in Keys |-> IF k \in Overridable /\ overrides[k] # NoValue THEN overrides[k] ELSE Environment[k]]

(* _apply_runtime_overrides validates the whole; app_lifespan fails with it. *)
SettingsRestart ==
  /\ runtime' = IF ValidCaps(Stored) THEN Stored ELSE NoValue
  /\ pc' = [u \in Updates |-> "idle"]
  /\ local' = [u \in Updates |-> Idle]
  /\ UNCHANGED <<overrides, flip, torn>>

Update(u) ==
  \/ \E request \in Requests : Load(u, request)
  \/ Refuse(u)
  \/ Accept(u)
  \/ Gate(u)
  \/ \E fact \in Facts, holds \in BOOLEAN : Check(u, fact, holds)
  \/ NotReady(u)
  \/ Ready(u)
  \/ \E k \in Keys : FindRow(u, k)
  \/ Store(u)
  \/ StoreFails(u)

SettingsNext == SettingsRestart \/ \E u \in Updates : Update(u)

SettingsSpec == SettingsInit /\ [][SettingsNext]_settingsVars

-----------------------------------------------------------------------------
(* Properties                                                              *)

(* The process goes from paper to live only through a restart, and on a    *)
(* stored request that carried both confirmations, whose risk caps were    *)
(* within the live ceiling and that saw every readiness check pass.        *)
FlipsAreConfirmed ==
  [][ runtime # NoValue /\ runtime' # NoValue
      /\ runtime["paper_trading"] # 0 /\ runtime'["paper_trading"] = 0 =>
        /\ flip.confirm = "SWITCH_MODE" /\ flip.live
        /\ flip.passed = Checks
        /\ flip.ceiling <= LiveCeiling ]_settingsVars

(* Requests that come one at a time and whose commits succeed leave valid  *)
(* settings, a database the process can start from, and agreement between  *)
(* the two on everything but the mode, which waits for the restart, and    *)
(* the consent to execute live, which no restart reads.                    *)
SequentialUpdatesAgree ==
  ~ torn =>
    /\ runtime # NoValue /\ ValidCaps(runtime)
    /\ ValidCaps(Stored)
    /\ (\A u \in Updates : pc[u] # "rows") =>
         \A k \in Overridable \cap RuntimeUpdatable : runtime[k] = Stored[k]
=============================================================================
