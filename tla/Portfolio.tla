------------------------------ MODULE Portfolio ------------------------------
(***************************************************************************)
(* How the bot knows what it owns, and what it decides on it: the account  *)
(* sync (services/account_sync.py) that two scheduler jobs run, the rows   *)
(* of accounts and positions it writes, the risk context that a submission *)
(* reads from them (risk/context.py), and the decision of RiskEngine.      *)
(*                                                                         *)
(* The jobs account_snapshot and position_sync call the same run() and are *)
(* due together at every half hour, so two runs overlap: max_instances=1   *)
(* only keeps a job from overlapping itself.  As in SignalExecution a      *)
(* SELECT sees the committed rows, and the first written row takes         *)
(* SQLite's write lock until the commit or the end of the session.         *)
(***************************************************************************)
EXTENDS RiskEngine, Folding

CONSTANTS
  AccountSeq,     \* the broker's accounts, in the order it lists them
  Jobs,           \* scheduler jobs that run the account sync
  Submitters,     \* concurrent submit requests
  SignalOf,       \* the StrategySignal of each signals row
  Quantities,     \* quantities the human may accept or type
  Legs,           \* symbols of positions
  Underlying,     \* underlying of a symbol
  MarketValue,    \* external: value Schwab reports for a position in it
  Paper,          \* TRUE: PaperBrokerClient, FALSE: SchwabApiClient
  Policy,         \* the EffectivePolicy
  AccountType, Tier, Nlv,   \* of the first account, at the broker
  Settled,        \* settled cash of the context
  LegQuotes,      \* latest chain snapshot of the legs that have one
  MaxTrades,      \* bound of the model on trades the owner makes elsewhere
  MaxFailures,    \* bound on broker errors, foreign writers and restarts
  None

Accounts == {AccountSeq[i] : i \in DOMAIN AccountSeq}
Signals == DOMAIN SignalOf

ASSUME AccountsAssumption ==
  /\ AccountSeq \in Seq(Accounts)
  /\ AccountSeq # <<>>
  /\ IsFiniteSet(Accounts)
ASSUME ProcessAssumption ==
  /\ None \notin Jobs \cup Signals
  /\ MaxTrades \in Nat /\ MaxFailures \in Nat
ASSUME PortfolioAssumption ==
  /\ IsFiniteSet(Legs)
  /\ \A s \in Signals : IsSignal(SignalOf[s]) /\ SignalOf[s].legs \subseteq Legs
  /\ Quantities \subseteq Int
  /\ MarketValue \in [Legs -> Int]
  /\ Paper \in BOOLEAN
  /\ Policy \in Policies
  /\ AccountType \in AccountTypes /\ Tier \in Nat /\ Nlv \in Int /\ Settled \in Int
  /\ \A leg \in DOMAIN LegQuotes : LegQuotes[leg] \in Quotes

VARIABLES
  \* the broker
  held,       \* the symbols each account has a position in
  placed,     \* orders it took and filled: pairs of a signal and a quantity
  \* committed rows
  known,      \* accounts with a row, hence with a snapshot
  rows,       \* how many OPEN positions rows an account has for a symbol
  \* the process
  holder,     \* session with the write lock, or None
  sync,       \* where each job's run is, and its locals
  req,        \* the same of each submit request
  trades, failures    \* counters of the model

vars == <<held, placed, known, rows, holder, sync, req, trades, failures>>

NoRows == [leg \in Legs |-> 0]

Run == [step : {"idle", "select", "insert", "positions", "delete", "commit"},
        at : 1 .. Len(AccountSeq), new : SUBSET Accounts,
        gone : [Accounts -> [Legs -> Nat]], read : [Accounts -> SUBSET Legs]]
NoRun == [step |-> "idle", at |-> 1, new |-> {},
          gone |-> [a \in Accounts |-> NoRows],
          read |-> [a \in Accounts |-> {}]]

Request == [step : {"idle", "account", "counted", "context", "decided"},
            signal : Signals \cup {None}, quantity : Int,
            state : {"ACTIVE", "HALTED"}, count : Nat, exposure : Int,
            verdict : Verdicts \cup {""}]
NoRequest == [step |-> "idle", signal |-> None, quantity |-> 0,
              state |-> "ACTIVE", count |-> 0, exposure |-> 0, verdict |-> ""]

TypeOK ==
  /\ held \in [Accounts -> SUBSET Legs]
  /\ placed \subseteq Signals \X Int
  /\ known \subseteq Accounts
  /\ rows \in [Accounts -> [Legs -> Nat]]
  /\ holder \in Jobs \cup {None}
  /\ sync \in [Jobs -> Run]
  /\ req \in [Submitters -> Request]
  /\ trades \in 0 .. MaxTrades
  /\ failures \in 0 .. MaxFailures

Init ==
  /\ held \in [Accounts -> {{}}]
  /\ placed = {}
  /\ known = {}
  /\ rows = [a \in Accounts |-> NoRows]
  /\ holder = None
  /\ sync = [j \in Jobs |-> NoRun]
  /\ req = [r \in Submitters |-> NoRequest]
  /\ trades = 0
  /\ failures = 0

-----------------------------------------------------------------------------
(* AccountSyncService.run                                                  *)

Account(j) == AccountSeq[sync[j].at]

(* The session is closed: what it did not commit is rolled back. *)
Close(j) ==
  /\ sync' = [sync EXCEPT ![j] = NoRun]
  /\ holder' = IF holder = j THEN None ELSE holder

Goto(j, step) == sync' = [sync EXCEPT ![j].step = step]

(* A trigger fires; get_accounts answers, and a session is opened.  When    *)
(* it raises nothing has happened yet.                                     *)
SyncStart(j) ==
  /\ sync[j].step = "idle"
  /\ Goto(j, "select")
  /\ UNCHANGED <<held, placed, known, rows, holder, req, trades, failures>>

(* The row of the account is looked for.  If it is there its new values    *)
(* wait in the session, which does not flush before the commit.            *)
SyncSelect(j) ==
  /\ sync[j].step = "select"
  /\ Goto(j, IF Account(j) \in known THEN "positions" ELSE "insert")
  /\ UNCHANGED <<held, placed, known, rows, holder, req, trades, failures>>

(* A new account is flushed at once, for its primary key. *)
SyncInsert(j) ==
  /\ sync[j].step = "insert"
  /\ holder \in {None, j}
  /\ Account(j) \notin known
  /\ holder' = j
  /\ sync' = [sync EXCEPT ![j].step = "positions", ![j].new = @ \cup {Account(j)}]
  /\ UNCHANGED <<held, placed, known, rows, req, trades, failures>>

(* uq_accounts_broker_account_id: the other job was first. *)
SyncCollides(j) ==
  /\ sync[j].step = "insert"
  /\ holder \in {None, j}
  /\ Account(j) \in known
  /\ Close(j)
  /\ UNCHANGED <<held, placed, known, rows, req, trades, failures>>

(* get_positions, with the write lock held or not. *)
SyncPositions(j) ==
  /\ sync[j].step = "positions"
  /\ sync' = [sync EXCEPT ![j].step = "delete",
                          ![j].read[Account(j)] = held[Account(j)]]
  /\ UNCHANGED <<held, placed, known, rows, holder, req, trades, failures>>

(* Mutant of SyncDelete: the rows are deleted without the write lock. *)
SyncDeleteUnlocked(j) ==
  /\ sync[j].step = "delete"
  /\ UNCHANGED holder
  /\ sync' = [sync EXCEPT ![j].step = IF sync[j].at = Len(AccountSeq)
                                      THEN "commit" ELSE "select",
                          ![j].at = IF @ = Len(AccountSeq) THEN @ ELSE @ + 1,
                          ![j].gone[Account(j)] = rows[Account(j)]]
  /\ UNCHANGED <<held, placed, known, rows, req, trades, failures>>
(* The account's rows are deleted, which takes the write lock if the run   *)
(* has not got it; the new ones wait for the commit, and the next account  *)
(* is fetched with the lock held.                                          *)
SyncDelete(j) ==
  /\ sync[j].step = "delete"
  /\ holder \in {None, j}
  /\ holder' = j
  /\ LET run == sync[j]
         last == run.at = Len(AccountSeq)
     IN sync' = [sync EXCEPT ![j] =
                   [run EXCEPT !.step = IF last THEN "commit" ELSE "select",
                               !.at = IF last THEN run.at ELSE run.at + 1,
                               !.gone = [run.gone EXCEPT ![Account(j)] = rows[Account(j)]]]]
  /\ UNCHANGED <<held, placed, known, rows, req, trades, failures>>

(* The flush or the delete outlasts the busy timeout behind the other run. *)
SyncBusy(j) ==
  /\ sync[j].step \in {"insert", "delete"}
  /\ holder \notin {None, j}
  /\ Close(j)
  /\ UNCHANGED <<held, placed, known, rows, req, trades, failures>>

(* max_loss of the row of a position: the paper broker says zero, Schwab's *)
(* mapper takes the market value.                                          *)
MaxLoss(leg) == IF Paper THEN 0 ELSE MarketValue[leg]

(* ck_positions_max_loss_nonnegative on the rows to insert. *)
Storable(j) ==
  \A a \in Accounts : \A leg \in sync[j].read[a] : MaxLoss(leg) >= 0

Inserted(legs) == [leg \in Legs |-> IF leg \in legs THEN 1 ELSE 0]

(* Mutant of SyncCommit: only the positions of new accounts are stored.    *)
SyncCommitNew(j) ==
  /\ sync[j].step = "commit"
  /\ Storable(j)
  /\ rows' = [a \in Accounts |-> IF a \in sync[j].new
                                 THEN Inserted(sync[j].read[a]) ELSE rows[a]]
  /\ known' = known \cup sync[j].new
  /\ Close(j)
  /\ UNCHANGED <<held, placed, req, trades, failures>>

(* The accounts, the snapshots and the positions are one commit. *)
SyncCommit(j) ==
  /\ sync[j].step = "commit"
  /\ Storable(j)
  /\ rows' = [a \in Accounts |-> [leg \in Legs |->
                rows[a][leg] - sync[j].gone[a][leg]
                  + Inserted(sync[j].read[a])[leg]]]
  /\ known' = known \cup sync[j].new
  /\ Close(j)
  /\ UNCHANGED <<held, placed, req, trades, failures>>

(* The CHECK refuses a row and with it the whole run. *)
SyncRefused(j) ==
  /\ sync[j].step = "commit"
  /\ ~ Storable(j)
  /\ Close(j)
  /\ UNCHANGED <<held, placed, known, rows, req, trades, failures>>

(* A call to the broker raises, or a writer outside this module keeps the  *)
(* database busy; the scheduler logs it and forgets it.                    *)
SyncFails(j) ==
  /\ sync[j].step \in {"insert", "positions", "delete"}
  /\ failures < MaxFailures
  /\ failures' = failures + 1
  /\ Close(j)
  /\ UNCHANGED <<held, placed, known, rows, req, trades>>

SyncStep(j) ==
  \/ SyncStart(j) \/ SyncSelect(j)
  \/ SyncInsert(j) \/ SyncCollides(j)
  \/ SyncPositions(j) \/ SyncDelete(j) \/ SyncBusy(j)
  \/ SyncCommit(j) \/ SyncRefused(j) \/ SyncFails(j)

-----------------------------------------------------------------------------
(* POST /signals/{id}/submit: build_risk_context and evaluate.  The locks, *)
(* the orders rows and the answers of the broker are SignalExecution's.    *)

(* The bot state is captured and an account looked up; without one         *)
(* build_risk_context raises.  A signal is ordered once, and one request   *)
(* at a time is followed for it (OneOrderPerSignal of SignalExecution).    *)
ReadAccount(r, s, q, state) ==
  /\ req[r].step = "idle"
  /\ known # {}
  /\ \A other \in Submitters : req[other].signal # s
  /\ \A o \in placed : o[1] # s
  /\ req' = [req EXCEPT ![r] = [NoRequest EXCEPT !.step = "account", !.signal = s,
                                                 !.quantity = q, !.state = state]]
  /\ UNCHANGED <<held, placed, known, rows, holder, sync, trades, failures>>

(* Every account and symbol that may have positions rows. *)
Held == Accounts \X Legs

(* The OPEN positions of every account are counted. *)
ReadCount(r) ==
  /\ req[r].step = "account"
  /\ req' = [req EXCEPT ![r].step = "counted",
               ![r].count = SumOver(Held, [p \in Held |-> rows[p[1]][p[2]]])]
  /\ UNCHANGED <<held, placed, known, rows, holder, sync, trades, failures>>

(* Their max_loss is summed over the signal's underlying. *)
ReadExposure(r) ==
  /\ req[r].step = "counted"
  /\ LET exposed == {p \in Held : Underlying[p[2]] = SignalOf[req[r].signal].underlying}
     IN req' = [req EXCEPT ![r].step = "context",
                  ![r].exposure = SumOver(exposed, [p \in exposed |->
                                            rows[p[1]][p[2]] * MaxLoss(p[2])])]
  /\ UNCHANGED <<held, placed, known, rows, holder, sync, trades, failures>>

(* The RiskContext.  day_pnl and week_pnl are what the sync stores: zero.  *)
Context(r) ==
  [policy |-> Policy, state |-> req[r].state, accountType |-> AccountType,
   tier |-> Tier, nlv |-> Nlv, exposure |-> req[r].exposure,
   openPositions |-> req[r].count, dayPnl |-> 0, weekPnl |-> 0,
   settled |-> Settled, quotes |-> LegQuotes]

Decide(r) ==
  /\ req[r].step = "context"
  /\ req' = [req EXCEPT ![r].step = "decided",
               ![r].verdict = Verdict(SignalOf[req[r].signal], Context(r),
                                      req[r].quantity)]
  /\ UNCHANGED <<held, placed, known, rows, holder, sync, trades, failures>>

(* The order reaches the broker and is filled.  Every leg opens a position.*)
Place(r) ==
  /\ req[r].step = "decided"
  /\ req[r].verdict = "APPROVED"
  /\ placed' = placed \cup {<<req[r].signal, req[r].quantity>>}
  /\ held' = [held EXCEPT ![AccountSeq[1]] = @ \cup SignalOf[req[r].signal].legs]
  /\ req' = [req EXCEPT ![r] = NoRequest]
  /\ UNCHANGED <<known, rows, holder, sync, trades, failures>>

(* The engine said no, or the order was not placed. *)
Drop(r) ==
  /\ req[r].step = "decided"
  /\ req' = [req EXCEPT ![r] = NoRequest]
  /\ UNCHANGED <<held, placed, known, rows, holder, sync, trades, failures>>

-----------------------------------------------------------------------------
(* The account is its owner's: with Schwab positions come and go without   *)
(* the bot.                                                                *)
OwnerTrades(a, leg) ==
  /\ ~ Paper
  /\ trades < MaxTrades
  /\ trades' = trades + 1
  /\ held' = [held EXCEPT ![a] = IF leg \in @ THEN @ \ {leg} ELSE @ \cup {leg}]
  /\ UNCHANGED <<placed, known, rows, holder, sync, req, failures>>

(* The process dies and starts again.  The paper broker starts empty.      *)
Restart ==
  /\ failures < MaxFailures
  /\ failures' = failures + 1
  /\ holder' = None
  /\ sync' = [j \in Jobs |-> NoRun]
  /\ req' = [r \in Submitters |-> NoRequest]
  /\ held' = IF Paper THEN [a \in Accounts |-> {}] ELSE held
  /\ UNCHANGED <<placed, known, rows, trades>>

Submit(r) ==
  \/ \E s \in Signals, q \in Quantities, state \in {"ACTIVE", "HALTED"} :
       ReadAccount(r, s, q, state)
  \/ ReadCount(r) \/ ReadExposure(r) \/ Decide(r) \/ Place(r) \/ Drop(r)

Next ==
  \/ \E j \in Jobs : SyncStep(j)
  \/ \E r \in Submitters : Submit(r)
  \/ \E a \in Accounts, leg \in Legs : OwnerTrades(a, leg)
  \/ Restart

Spec == Init /\ [][Next]_vars

(* The scheduler keeps firing the jobs and the event loop runs them on. *)
FairSpec == Spec /\ \A j \in Jobs : WF_vars(SyncStep(j))

-----------------------------------------------------------------------------
(* Properties                                                              *)

(* However runs overlap, fail and die, an account never has two rows for   *)
(* one position, nor does a run delete what it did not see.                *)
PositionsAreNotDoubled ==
  \A a \in Accounts, leg \in Legs : rows[a][leg] <= 1

Decided(r) == req[r].step = "decided"

(* The engine's ordered, partly redundant pipeline, stopped at its first   *)
(* failure, approves exactly the orders that the plan's rules allow on the *)
(* context the request read.                                               *)
ApprovalsAreSound ==
  \A r \in Submitters : Decided(r) =>
    (req[r].verdict = "APPROVED"
       <=> Approvable(SignalOf[req[r].signal], Context(r), req[r].quantity))

(* What is answered of a request that passed the ceiling. *)
PastTheCeiling ==
  {"HARD_RISK_CEILING_EXCEEDED", "UNDERLYING_CONCENTRATION_EXCEEDED",
   "MAX_POSITIONS_EXCEEDED", "DRAWDOWN_BREAKER_ACTIVE", "INSUFFICIENT_SETTLED_CASH",
   "ILLIQUID", "APPROVED"}

(* The ceiling quantity, a quotient that is floored, is exactly the hard   *)
(* cap, a product: no quantity is refused for the ceiling that the cap     *)
(* would allow, and none passes that the cap would not.  (It leaves the    *)
(* rule of the cap, and the code the plan gives it, nothing to refuse.)    *)
CeilingIsExact ==
  \A r \in Submitters : Decided(r) =>
    LET within == WithinCap(SignalOf[req[r].signal].loss * req[r].quantity, Policy.hard, Nlv)
    IN /\ req[r].verdict = "OVERRIDE_EXCEEDS_CEILING" => ~ within
       /\ req[r].verdict \in PastTheCeiling => within

(* The rows show one account or all of it exactly as the broker has it. *)
RowsMatch == \A a \in Accounts : rows[a] = Inserted(held[a])

ShortHeld == \E a \in Accounts : \E leg \in held[a] : MaxLoss(leg) < 0

(* Once trading and failures are over, two jobs that overwrite each other's *)
(* readings still settle on what the broker holds, unless a position has a *)
(* negative value, which no run can store.                                 *)
RowsFollowBroker == <>[] ~ ShortHeld => <>[] RowsMatch
=============================================================================
