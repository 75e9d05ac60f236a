# Verification of darth-schwader

darth-schwader is a personal options-trading bot. A scheduler collects data, an AI layer
proposes signals, a human submits them, a deterministic risk engine decides, and an order goes
to Schwab or to a simulated broker. Everything runs in one asyncio event loop over one SQLite
file. This directory holds TLA+ models of the program, TLC runs that check them on small
instances, and TLAPS proofs that hold for all values of the constants.

Source paths below are relative to `src/darth_schwader/`, documents to the repository root;
`v2.md` stands for `docs/plan/darth-schwader-phase-1-v2.md`, `v3.md` and `phase-1.md` for its
neighbours `darth-schwader-phase-1-v3.md` and `darth-schwader-phase-1.md`.

## 1. Inventory

| Component | State it keeps | Operations | What makes it correct |
|---|---|---|---|
| Signal execution: `api/routers/signals.py`, `services/order_service.py`, `api/deps.py` | `signals`, `orders`, `risk_events` rows; objects loaded by a session | submit, reject | a signal is ordered once, on an approval of that quantity; what was ordered is closed and nothing goes back to the queue; every request ends |
| Collateral guard and ledger: `broker/cash_account.py`, `db/repositories/cash_ledger.py` | `cash_ledger` rows | can_lock, lock, release, four readings | locks never exceed settled cash and match the orders; no reading counts money that is on its way, and the page shows what the guard would lock (it does not, section 5) |
| Reconciliation: `services/reconciliation.py` | signal status, audit rows | expire PENDING, review cancelled | never undoes a submission |
| Signal generation: `ai/service.py`, `services/signal_runner.py`, `ai/strategies/` | `signals` rows | one batch commit | all or none of the batch; each row sized to the preferred cap by one loss, and judged by the same one unless the candidate states two |
| Kill switch: `api/routers/admin.py` | `app.state.bot_state`, `config` row, order status | halt, resume, panic | a halt takes hold; a CANCELLED mark is what the broker confirmed |
| Risk engine: `risk/engine.py`, `rules.py`, `sizing.py`, `policies.py`, `context.py` | none | build context, evaluate | approves exactly what the plan's rules allow |
| Account sync: `services/account_sync.py` | `accounts`, `account_snapshots`, `positions` rows | run, from two jobs | rows neither doubled nor lost, and settle on the broker's |
| Schwab client: `broker/schwab/client.py`, `mappers.py` | order at Schwab | submit, cancel, get positions, with retries | recorded ids name real orders |
| Schwab tokens: `broker/schwab/oauth.py`, `db/repositories/tokens.py`, `services/token_watchdog.py` | `broker_tokens` row, refresh lock | refresh on 401, watchdog, login | a used refresh token is not presented again; the stored pair advances |
| Paper broker: `broker/paper/client.py`, `fills.py` | cash, positions, P&L, order counter in memory | submit_order | books equal fills; nothing is half applied |
| Settings: `api/routers/settings.py`, `services/readiness.py`, `lifespan.py`, `config.py` | `app.state.settings`, `risk_policy_overrides` rows | PUT /settings, readiness checks, overrides at start | live only when confirmed and ready; settings stay valid |
| Option chains and Polygon data: `market/chain_service.py`, `data_sources/polygon/`, `db/repositories/chains.py`, `scripts/polygon_backfill.py` | `chain_snapshots` rows | pull, nightly and scripted backfill | an answer is stored whole, history is kept, every backfill ends |
| IV watcher: `market/iv_watcher.py` | `iv_spike_events` rows | scan | one rise is one event |
| Watchlist: `api/routers/watchlist.py`, `db/repositories/watchlist.py` | `watchlist` rows | POST, PATCH, DELETE | one page per symbol; an edit changes what it names |
| Heatmap and indicators: `services/setup_heatmap.py`, `market/indicator_engine.py` | none | GET /setup-heatmap, indicators, scores | an answer per listed entry; values within their ranges |
| Bracket orders: `services/bracket_orders.py` | none | build | stop, target and quantity within the budget |
| Futures margin: `risk/futures.py` | none | headroom, contract limit, session cut-off | nothing passes near or after a close |
| Quant features: `quant/` | none | rank, percentile, slope, skew, regime, momentum | features speak of the newest rows |
| Scheduler: `services/scheduler.py` | job table | fires the jobs | a job does not overlap itself, two jobs do |
| Pages, read-only routes, logging | none | | not modelled, section 7 |

How they interact. A submit request builds a risk context from the rows that account sync writes,
captures `bot_state`, calls the engine, takes SQLite's write lock with the flush of the risk
event, locks collateral, calls the broker **inside that transaction**, and commits at the end.
Panic reads the orders that submissions wrote and marks them in its own commit. The broker call
may refresh tokens, which commits in a second session and so needs the same write lock.
The settings endpoint changes what the engine's policy is loaded from, and decides which broker
the next start creates. Pulls, the nightly backfill and a script in another process write the
chain rows that the IV watcher reads. The watchlist's entries are what the heatmap asks Polygon
for; they are not what the jobs pull, which is `settings.watchlist`.

What is hard. Every `await` is a point where another handler runs. ORM objects keep loaded values
(`expire_on_commit=False`), sessions do not autoflush, UPDATEs go by primary key without a
version, SQLite serialises writers and times them out ("database is locked"), broker calls can be
lost or repeated, and the process can die between any two steps while Schwab remembers. In the
parts that only compute, it is the rounding at a half, the floors at a boundary, the order rows
come in, and series that are flat, short or zero. PROJECT.json lists each hazard at its line.

## 2. Modules

| Module | Models | Extends / instantiates |
|---|---|---|
| `HitlDesk` | abstract: queue, booked orders, available cash; every order atomic | |
| `SignalExecution` | submit, reject, reconciliation, generation, broker, restart | extends `Folding`, instantiates `HitlDesk` |
| `KillSwitch` | halt, resume, panic, composed with the pipeline | extends `SignalExecution` |
| `SchwabTokens` | 401 refresh, rotation, upsert, watchdog, login, expiry | |
| `Folding` | sums over sets and folds over sequences, of functions | |
| `PaperBroker` | submit_order leg by leg, fills, positions, cash, P&L | extends `Folding` |
| `SettingsUpdate` | PUT /settings, readiness gate, overrides at start | |
| `RiskEngine` | the rules, sizing and the ordered verdict, as operators | |
| `Portfolio` | account sync by two jobs, risk context, decision | extends `RiskEngine`, `Folding` |
| `OptionChains` | chain pulls, two backfills, the IV watcher, a moving clock | |
| `WatchBook` | abstract: a book with one page per symbol, edited atomically | |
| `Watchlist` | POST, PATCH, DELETE at their awaits, the heatmap request | instantiates `WatchBook` |
| `BracketOrders`, `FuturesMargin`, `CashViews`, `VolFeatures` | pure: brackets, futures checks, ledger readings, volatility features | |
| `SignalBatch` | pure: one run of the generator | extends `RiskEngine`, `Folding` |
| `Indicators`, `SetupScores` | pure: indicators over bars, setup scores over indicators | `Indicators` extends `Folding`, `SetupScores` extends `Indicators` |
| `Calculators` | a call with its reply, for each of the pure modules | extends all of them |
| `Decisions` | portfolio, calculators and settings beside one another | extends the three |
| `MC...` | model values and arguments for TLC | extend their module |
| `EngineProofs` | theorems about what the bot decides by | extends `Decisions` |
| `...Proofs` | theorems about the module of that name | extend their module |

### Correspondence with the code

*The database.* A variable per table column that matters (`signal`, `orders`, `events`,
`settled`, `locked`, `rows`, `overrides`, ...) holds **committed** values. An uncommitted write lives in the
request's record (`req[r].delta`, `approved`) until its commit action. `holder` / `writer` is
SQLite's single write lock: taken by the first flush, released by commit or end of session. A
SELECT is a step that copies committed values into the request. A busy timeout is an action of
its own (`...Busy`), enabled while someone else holds the lock. In `OptionChains` no writer waits
between its flush and its commit, so a commit is one step that may fail.

*Handlers.* `pc` (or a `step` field) names the await a coroutine is at; one action runs from that
await to the next. `submit_signal` is `SubmitRead`, `SubmitContext`, `SubmitEvaluate`,
`SubmitPersist`, the broker attempts, the flush of the order and the commit. The error paths are
actions beside them.

*Restart* drops every handler and lock, sets the bot ACTIVE (`lifespan.py:156`), empties the paper
broker, and keeps the database and Schwab. The backfill script is a process of its own and
survives it.

*Schwab and Polygon* are external: an order works, fills or is cancelled; a POST may have been
taken although the answer was lost; a Polygon request answers, fails or says 429. What is known of
them is how the clients use them.

*Identity.* A watchlist row gets the highest id in use plus one, since the table has no
AUTOINCREMENT: the id of a deleted entry may come back while a request still holds it.

*Data.* Signals, accounts, contracts and legs are model values. Money is a small integer;
percentages are integers over a whole (`Whole`, basis points). The engine compares products, so it
rounds only where `sizing.py` floors. The paper broker keeps the quantum of `avg_cost` (a hundredth
of a cent) and rounds as the code does: fill prices half up, average costs half to even (the
default of `Decimal.quantize`). `BracketOrders` has prices in cents and budgets in hundredths of
them, rounded half up where the code quantizes. A decimal of the indicators is an integer in parts
of `Unit`, rounded down where the code keeps 28 digits; the volatility features are fractions,
compared by products.

*Calculators* has no state of its own: `call` is what was asked, `reply` what came back, and each
property relates the two by a definition that is independent of the code's.

*Decisions* adds nothing to the model. Portfolio, calculators and settings share no variable, so no
order of their steps matters to any property; the module lets one of them move while the other two
have not begun, and one run checks them all in a sum of their state spaces instead of a product.
`SideBySide` (section 4) says that its behaviours are behaviours of each.

*In `KillSwitch`* the actions `SetBot` and `MarkCancelled`, by which `SignalExecution` stands in
for the switch, are replaced by the real handlers. `ImplementsPipeline` checks that those do
nothing that the stand-ins do not allow, so what is proved about `SignalExecution` applies.

*Comments that start with "Mutant of"* mark operators that are no part of a model: each is a
plausible bug, and the property named with it in PROJECT.json fails when it is put in place.

## 3. Runs

State counts are of the full runs, on two workers.

| Run | Module, configuration | Instance | Result |
|---|---|---|---|
| desk | `SignalExecution_desk` | 2 signals, 2 submissions, 1 reject, 1 reconciliation, quantities 1..2, cash for one of them, paper broker, restarts | passes, 681k states |
| live | `SignalExecution_live` | 1 signal, 2 submissions, 1 reconciliation, Schwab with 2 tries, fairness | passes, 44k states |
| switch | `KillSwitch_switch` | 1 signal, 1 submission, 2 operators, Schwab, fairness | passes, 140k states |
| tokens | `SchwabTokens_refresh` | 3 calls of which 1 in a write transaction, watchdog, 3 token pairs, fairness | passes, 82k states |
| paper | `PaperBroker_books` | 2 clients, an option and a stock, 8 kinds of order, 3 fills | passes, 379k states |
| decisions | `Decisions` | of the portfolio 2 jobs, 2 accounts, 2 legs, 1 submission, 1 outside trade, 1 failure, fairness of the jobs; of the settings 2 updates, 6 kinds of request, restarts; of the calculators the arguments of "Bounds" | passes, 533k states |
| chains | `OptionChains_history` | 2 underlyings (one watched), 1 contract, 1 pull, a nightly backfill of 2 days and a script of 1, the watcher, clock to 2, restarts | passes, 958k states |
| watchlist | `Watchlist_edits` | 2 symbols (one seeded), 2 editors, 1 heatmap request, fairness | passes, 371k states |
| idempotent | `SignalExecution_idempotent` | 1 signal, 1 submission, Schwab with 2 tries | violated: two broker orders for one client_order_id |
| strict | `SignalExecution_strict` | 1 signal, 1 submission, 1 reject, paper broker | violated: a rejected signal becomes EXECUTED |
| page | `Calculators_page` | the ledgers of "Bounds" | violated: the page shows more than the guard would lock after a release |
| spike | `OptionChains_spike` | as chains, the volatility falls after the first tick | violated: an event for a rise that is over |

### What the passing runs show

- **desk.** `NoOverdraft`: `can_lock` is check-then-act over awaits, and the reason it is safe is
  that the risk event has been flushed before it, which holds the write lock. `OneOrderPerSignal`
  and `OrdersAreApproved` relate orders to approvals computed several awaits earlier.
  `LocksBackOrders`: the ledger equals the orders, whatever failed in between, although the except
  branch writes a release for a lock that was never committed. `OrderedSignalsAreClosed`,
  `NoResurrection`: stale writes of reject and reconciliation bring nothing back into the queue.
  `HaltTakesHold`: once the submissions that captured ACTIVE are over, nothing reaches the broker;
  one that captured it before the halt still orders.
  `ImplementsDesk`: all of it refines the atomic desk, under
  `status <- signal, booked <- {(signal, quantity)}, available <- settled`. The desk lets a rejected
  signal be executed and an executed one be rejected, because the code does; the desk of the plan,
  out of the queue only, is what the run `strict` refutes.
- **live.** `RecordedOrdersExist`: an id in the orders table is an order Schwab has, with retries,
  lost answers and empty bodies. `RequestsAreAnswered`: everybody waits for one write lock that is
  held across HTTP calls, and everybody ends.
- **switch.** `MarksAreConfirmed`, `OperatorsAreAnswered`, `ImplementsPipeline`.
- **tokens.** `RefreshesStoredToken`, `TokensOnlyAdvance`, `RetriesWithNewerToken`: the refresh
  lock and the second read under it do their work. `CallsAreAnswered`: a call that waits for its
  own write lock ends by the busy timeout, and so does everybody behind it.
- **paper.** `BooksMatchFills`: cash and each position are what replaying the fills gives.
  `PnlBalances`: cash, open cost and realized profit add up, up to half a quantum of rounding
  per contract each time. `CashNonNegative`, `ShortsAreOpened`.
- **decisions, settings.** `FlipsAreConfirmed`: the process becomes live only at a restart, on a
  stored request that carried both confirmations and passed the four readiness checks.
  `SequentialUpdatesAgree`: without overlap and lost commits the settings in force and the rows
  are valid and agree, but for the mode, which only a start reads, and the consent to
  auto-execution, which none does.
- **decisions, portfolio.** `PositionsAreNotDoubled` and `RowsFollowBroker` for overlapping syncs,
  with roll-backs of a sync that a short position makes fail. `ApprovalsAreSound`: the ordered rules
  approve what the plan's list allows, on the context as it was read, torn by a sync or not.
  `CeilingIsExact`: the ceiling refuses exactly what is over the hard cap.
- **chains.** `AnswersAreStored`: a backfill checks an answer quote by quote, in separate
  awaits, while another process and a pull write the same table; what it commits is there whole.
  `HistoryIsKept`: a pull deletes and inserts, but never a row that a backfill has stored.
  `EventsAreSpaced`: `exists_recent` and `insert` are two sessions with a clock and restarts
  between them. `BackfillsAdvance`: every step of a backfill, retries and failures included, leaves
  it less to do.
- **watchlist.** `ImplementsBook`: edits that look an entry up in one session and commit in
  another, with ids that come back, are the atomic edits of a book. `HeatmapIsAnswered`: a request
  ends whatever becomes of its entries and of Polygon.
- **decisions, calculators.** `BracketsAreSized`: stop and target lie on their sides of the entry,
  the loss at the stop is the allowed share at most, to the rounding of the budget, and one contract
  more is not. `FuturesChecksAreSafe`: a session that is judged open stays open for longer than the
  cut-off, against a definition of the trading week; a margin passes exactly down to the buffer. (The
  contract limit is modelled without a property: any would repeat its one comparison.)
  `UnsettledIsUnusable`: guard, engine and page answer alike whether or not money is on its way, in
  any mix of deposits, fills, locks and releases.
  `BatchesAreSized`: each row has the largest quantity within the preferred cap by the loss it was
  sized by, or one contract; the engine, which judges by the stated loss, finds a row over that cap
  only where one contract is or where the candidate stated a larger loss than it was sized by; and
  it refuses what had no positive loss.
  `IndicatorsAreBounded`, `ScoresAreConsistent`: ranges and order relations for any series of bars,
  flat and volumeless ones included. `FeaturesTellTheNewest`: rank, percentile and regime are of
  the newest row whatever order the rows come in.

### Bounds, and why they are enough

Two concurrent requests of a kind are the smallest number that races; the handlers treat each
other symmetrically and share nothing but rows, flag and lock, so a third adds only repetitions.
Two signals with cash for one make the locks compete; quantities 1 and 2 with ceilings 2 and 1
cover below, at and above the ceiling. `MaxAttempts` is 3 in the code; 2 tries already have a
repeated POST, and the proofs are for any number. `MaxBrokerOrders`, `MaxOrders`, `MaxIssued`,
`MaxTrades` and `MaxFailures` bound histories that would grow for ever; each leaves room for the
interesting case (a repeated order after a restart; open, add and close; a refresh after a
refresh; a trade between two readings). Deadlock is checked in every run: requests may always
arrive, so none of the systems stops.

*chains.* One contract of volatility 2 or 4 that falls after the first tick; `Limit` 2 (252 in the
code) keeps a series of old and new; `Window` 1 and `MaxTime` 2 hold a second event inside and
outside the window; a day is one tick. The nightly job and the script share a day and an
underlying. `Tries` is 2 (3 in the code). The proofs are for any of these.

*watchlist.* Two symbols and `MaxId` 2 make an id come back for another symbol. Each PATCH names
one column, so that two of them on one entry must not undo each other.

*decisions.* An account of 60 with a hard cap of 25 % has its ceiling at exactly five contracts that
lose 3 each; 5 and 6 are submitted. Beside an open position five are over the allocation only, so
the refusals of the ceiling and of the allocation are reached, and the approval just below them.

*Calculators.* Brackets: offsets and budgets that round up, down and at the half, stops at and
below zero, no equity. Futures: the seconds around every full hour of the week and around every
tenth minute of the last hour before a close, with cut-offs from -1 to a day less a minute.
Ledgers: up to three rows of deposits, fills, locks and releases, settling before, on and after the
day, with releases that no lock backs. Batches: up to two candidates and one failing answer, with
losses suggested, stated, both and different, none, and too large for one contract under either cap.
Series: all series of five bars over six kinds of bar, with periods of a few bars in place of 8, 14,
20 and 21. Chains of up to three rows.

Symmetry is used only in runs without liveness: submissions in `desk`, clients in `paper`.

### Fairness

Weak fairness of each handler's steps: the event loop resumes a coroutine whose await is over,
HTTP calls time out after 30 s, a locked flush after the driver's busy timeout. Waiters of the
refresh lock get strong fairness because `asyncio.Lock` serves them in order. In `KillSwitch` only
the operators are fair. In `Portfolio` (and so in `Decisions`) the jobs' steps are weakly fair since
the scheduler fires them again and again. In `Watchlist` the steps of the heatmap request are: the
client times out after 30 s and its sleeps are bounded. `OptionChains` needs none, its progress is a measure that
every step decreases. Requests, operators, the owner's trades, expiry, failures and restarts are
never forced. Restarts may happen for ever; a request then ends by the restart.

## 4. Proofs

`tlapm` proves these for every value of the constants that satisfies the named ASSUMEs: any sets
of requests, signals, jobs, accounts and contracts, any amounts.

**SignalExecutionProofs.** None of the safety properties is inductive. What makes them so is what
a request *carries*: between its first flush and its end it is the holder of the lock
(`WriterInv`); what it approved is still an approval for an ACTIVE bot and a quantity within the
ceiling (`RequestInv`); its uncommitted lock is covered by cash that nobody else can have spent
since (`OverlayInv`); the order it flushed has no sibling (`FlushedInv`); and a loaded status may
be out of date, but only in three ways (`StaleInv`). `IInv` is these with `TypeOK` and the properties.
The proof has a lemma per part (`OverlayStep`, `FlushedStep`, `LoadedStep`, ...), each split by
action. From `IInv` follow `TypeCorrect`, `Solvent`, `NoDoubleOrder`, `OrdersStandOnApprovals`,
`NoReopening`, the action properties `QueueOnlyAdvances` and `HaltHolds`, and
`PipelineImplementsDesk`: every step of the pipeline is a step of `HitlDesk` or a stutter.
`LedgerBacksOrders`, the locked cash is the sum over the orders on record, is a part of `IInv`: a
commit adds one order and its cost (`SumAdd`), and nothing else touches either.

The same module has the switch: `SwitchImplementsPipeline`: every step of the composed system is a step of
`SignalExecution` or a stutter, so each theorem above holds with the real switch. `RecordsNameOrders`
needs `BooksInv`: an answer that a request carries to its flush names the order the broker placed
for it, and an order is FILLED at once exactly in the paper broker. `MarksConfirmed` needs
`MarksInv`: a mark that an operator carries to its commit was confirmed, or had no id to cancel by.

**SettingsUpdateProofs.** `TypeCorrect`. `LiveIsConfirmed` needs `FlipInv`: an update still has
the mode of the running process (a live flag needs a restart, which ends all updates), whatever
is about to store the live mode has been checked, and a stored live mode in a paper process was.
`SequentialIsConsistent` needs `SequentialInv`: unless updates overlapped or a commit failed
(`torn`), there is one update, what it looked at is still so, and the settings in force differ
from the rows exactly by its body.

**EngineProofs.** Of the engine, for any signal, context and quantity: `CeilingIsTheCap` (the
floored quantity is the largest within the hard cap), `CeilingDrawsTheCap` (the ceiling refuses only
what is over it, and what passes the ceiling is within), `VerdictIsSound` (the ordered pipeline that
stops at the first failure approves what the plan's unordered rules allow), `GatesAgree` (two rules
never speak: the hard cap after the ceiling, whose reason code `v3.md:275` expects, and the naked
gate after the whitelist), `SmallerIsApproved` (quantities below an approved one are approved). Of
the system, from `PortfolioInv`: `NotDoubled`, where a run that has deleted an account's rows holds
the lock and inserts into nothing (`SyncInv`); `PortfolioTyped`, where that also keeps the number of
rows from turning negative; and `ApprovedAsPlanned` and `CeilingHolds`, where a verdict is the
engine's on the context the request still has (`RequestInv`). `SideBySide` carries these, those about
the calculators and those of `SettingsUpdateProofs` over to the module that the run checks.

Of the calculators, every property of a passing run, for all arguments that the assumptions of the
modules allow. `CalcInv`, an answer is the one of its definition, is inductive (`CalcInductive`);
the rest is about the definitions:

- `BracketsFit`: half-up rounding is within half of its divisor (`HalfUpBounds`), a floored
  quotient is the largest that fits (`LargestWithin`).
- `FuturesAreSafe`: a second of the week is one of an hour of a day (`TimeOfWeek`), `Closed` is a
  halt (`ClosedInHalts`), and where it is not, the next close is where the next halt begins
  (`CloseIsNext`).
- `ReadingsFit`: a sum over rows does not change when rows outside it are brought to nothing, and
  what settles later is outside each of the readings. Assumed of a ledger (`IsLedger`) is what its
  writers see to: locks are not positive, releases are not negative, and both settle on the day they
  are made. That a release had a lock is not assumed.
- `BatchesFit`: a floored quotient is the largest quantity within a cap (`CeilingIsTheCap`), and the
  loss of a row divided by its quantity is the loss it was sized by (`RowSized`); of two stated
  losses, what is over the cap by the one and within by the other is so because the one is larger
  (`SmallerIsWithin`).
- `FeaturesFit`: of finitely many rows one is last (`SomeLast`).
- `IndicatorsFit`, for series of any length and periods of any size: a mean lies between bounds
  of its terms (`MeanBetween`), so does each weighted step of Wilder's and the exponential average
  and hence the fold of them (`WeightedBetween`, `MovingBetween`); Wilder's sums are never negative
  (`SmoothSums`), so a directional index is a percentage (`DxBounds`). The VWAP is a quotient of
  sums that are bounded term by term (`SumScale`, `SumMonotonic`).
- `ScoresFit`: a ramp is a share (`RampBounds`) and each score a mean of a few of them.

**SchwabTokensProofs.** `TokenInv` is the types, what the row and the issuer agree on (`RowInv`),
and what a call carries (`CallInv`): whoever is inside the refresh lock has first the stored
refresh token, then a newer pair that nobody else can store, then the stored version. From it
`StoredTokenIsUsed`, and the action properties `PairsOnlyAdvance` and `SecondTriesAreNewer`.

**PaperBrokerProofs.** `PaperInv` adds to the types, to cash that is not negative and to shorts
that were opened what an order carries on its working copy (`WorkInv`): whoever is short there was
short before, by an order on record, or has been sold to open by a leg of this order. The types
rest on the arithmetic of rounding half up and half to even. `TypeCorrect`, `CashIsNeverOwed`,
`ShortsWereSold`.

The books are folds over the fills, and sums over the keys. `BooksInv` says of the account's book,
and of the one an order keeps under the lock, that it is `Kept`: cash and positions are what its
fills give (`Matches`) and it balances (`Balanced`). `FillKept` is the heart: a fill appended to a
kept book keeps it. For `Matches` it is `FoldedAppend` with `AlikeApplied`, a position of no
quantity may be forgotten because the next fill that is allowed opens it anew. For `Balanced`,
`FillMoves`: closing moves cash and realized P&L by the same amount, opening is off by the rounding
of one average (`Rounding`: half of the divisor at most), and by induction a book of `n` fills and
volume `v` is off by `v n` halves (`SlackGrows`). `TidiedKept` drops what was closed, and
`FlattenAppend` turns an order's fills into the record's. `BooksAreTheFills`, `NoMoneyIsLost`. The
proofs assume that there are finitely many keys.

**FoldingProofs.** What the above cites: sums over finite sets (`SumAdd`, `SumRemove`, `SumChange`,
`SumScale`, `SumSplit`, `SumMonotonic`, `SumImage`, `SumBounds`), folds over sequences (`FoldedType`,
`FoldedAppend`, `FoldedConcat`, `FlattenAppend`), division. The induction theorems of the library take a predicate as an
operator; here induction is over a *set* of the good numbers or the good subsets (`SetInduction`,
`FiniteInduction`), and a recursion is the existence of its graph (`Recursion`). `Folding` therefore has the sum and the fold of *functions*.

**OptionChainsProofs.** `ChainInv` is the types; `FillInv`, each quote of the answer a backfill
works on is still to be checked, kept for the commit, or already stored; and `ScanInv`, a watcher
that is about to insert has all earlier events behind its window. From it `OneRiseOneEvent`,
`HistoryStays` and `AnswersStay`. `BackfillsEnd`: `Remaining`, which counts underlyings, days,
tries and quotes left, is a natural number that each step decreases.

**WatchlistProofs.** `EditorInv` is the types with the uniqueness of symbols. A new id is in use
by nobody (`NextIdIsFresh`, over finite sets of ids). `EntriesStayUnique`, and
`RacesImplementBook`: under the map from rows to pages each commit is one edit of `WatchBook`, and
every other step a stutter.

Checked by TLC only: all liveness (`RequestsAreAnswered`, `OperatorsAreAnswered`,
`CallsAreAnswered`, `HeatmapIsAnswered`, `RowsFollowBroker`), which the prover cannot do under
fairness; the heatmap's part of the types of `Watchlist`; the four refuted claims. Every invariant
and every action property of a passing run has its theorem.

## 5. Where documents and code disagree

With a run that shows it (PROJECT.json, "findings"):

- `idempotent`: one client_order_id, two orders at the broker (`v2.md:48`).
- `spike`: the oldest volatility of the series passes for the current one (`v2.md:41`).
- `strict`: a signal that is rejected while its submission awaits the broker becomes EXECUTED
  (`services/order_service.py:136`), where `v2.md:584` makes the queue its only predecessor.
- `page`: after a lock and its release the page shows more than there is
  (`api/routers/cash_ledger.py:56`), where `docs/cash-account-rules.md:37` has it return to what it was.

Met while modelling, in the models as the code has them, without a run:

*Orders and signals*
- `v2.md:424` ends the lifecycle at EXECUTED or REJECTED; `reject_signal`
  (`api/routers/signals.py:91`) has no status guard, and turns EXECUTED into REJECTED.
- `v2.md:396` persists the rule results of every evaluation; a rejection raises and rolls its own
  risk event back (`order_service.py:69`).
- A signal that states `suggested_max_loss` but no `per_contract_max_loss` is priced for the engine
  (`risk/rules.py:96`), and its order request is a KeyError (`services/order_service.py:183`): it can
  be approved and never ordered.
- The paper broker numbers orders from 1 at each start (`broker/paper/client.py:231`) against a
  unique `broker_order_id` that remembers; later submissions fail until the numbers are used up.
- `docs/cash-account-rules.md:37` releases the lock of a cancelled order; reconciliation only
  writes an audit row (`services/reconciliation.py:34`).
- `v3.md:130` and `:272` reject a signal whose single contract is over the hard cap with
  MIN_QUANTITY_EXCEEDS_CEILING, a code that is nowhere in the program: `max(1, preferred)`
  (`ai/service.py:71`) puts it into the queue with one contract, for the engine to refuse at the submit.
- A candidate may state two losses: the batch sizes by `suggested_max_loss` (`ai/service.py:63`), the
  engine judges by `per_contract_max_loss`. With 70 and 130 a row is sized to the preferred cap by
  the one and may be far over it by the other, which is only a warning to the engine.
- One bad item of an answer loses the whole batch of signals; a candidate without a positive loss
  is sized as if it lost a dollar; `int(features.regime)` fails on "NEUTRAL".
- `v2.md:570` rejects invalid leg combinations; the validators let a vertical spread of two short
  legs through, and nakedness is judged by the strategy's name only (`v2.md:46`).

*Kill switch*
- The dialog says panic cancels every working order
  (`ui/templates/partials/_kill_switch.html:32`). An order with a NULL broker id is marked
  CANCELLED without a word to the broker (`api/routers/admin.py:133`), and a submission in flight
  places its order after panic has listed them.
- A submission that captured ACTIVE before a halt orders after it (`api/routers/signals.py:73`).
- Halt stores `bot_state` (`api/routers/admin.py:79`), but a start never reads it (`lifespan.py:156`).

*Schwab*
- `phase-1.md:570` has a 401 refreshed and retried once. A call inside a write transaction blocks
  its own refresh, whose commit in a second session waits for the caller's lock
  (`broker/schwab/client.py:136`), and fails.
- `v2.md:364` refreshes proactively; the watchdog compares SQLite's naive time with an aware one
  (`services/token_watchdog.py:13`) and ends in a TypeError, which `readiness.py:239` avoids.
- A Schwab short position has a negative market value, which is stored as `max_loss`
  (`broker/schwab/mappers.py:95`) and refused by the table's check: the sync of all accounts fails
  until it is closed. `RowsFollowBroker` excludes it by name.

*Risk and settings*
- `v3.md:275` (and the rule at `v3.md:82`) rejects a loss over the hard cap with
  HARD_RISK_CEILING_EXCEEDED. The code has that rule, but the ceiling before it
  (`risk/engine.py:72`) refuses the same quantities as OVERRIDE_EXCEEDS_CEILING, so it never speaks
  (`GatesAgree`). The decision is the plan's, the reason code is not.
- `v2.md:390` counts existing exposure; positions of the paper broker have a `max_loss` of 0
  (`broker/paper/client.py:151`), so a second order on an underlying is judged as the first.
- `v3.md:29` keeps `0 < preferred <= hard`; two overlapping updates, each valid against what it
  loaded, leave a pair that is not (`api/routers/settings.py:173`).
- After the live mode is stored, the still-paper process accepts a higher risk cap without the
  readiness checks; the restart applies both.
- `auto_execute` settings are stored but not applied at start (`lifespan.py:71-85`).
- The settings in force change before the commit that may fail (`api/routers/settings.py:174`, `:206`).
- `v2.md:392` halts on a drawdown; account sync stores day and week P&L as 0
  (`services/account_sync.py:48`), so the breaker cannot fire.
- Settled cash in the context counts release rows but not lock rows (`risk/context.py:61-68`): a
  release makes it larger than the cash there is, a lock no smaller.

*Market data*
- `v2.md:366` pulls the chains of the full watchlist. A Schwab answer with a contract always fails: its
  `expiration_date` is a string, which SQLite's Date type refuses, and `pull_watchlist` stops at
  the first underlying that fails.
- `v2.md:370` triggers a signal run on a spike; `on_spike` is None (`lifespan.py:148`).
- `docs/polygon-data-plan.md:14` plans daily snapshots of the past; a backfill asks for the
  snapshot of today, its first 250 contracts, and stores it under each past day.
- Of two equal POSTs to the watchlist the second may get a 500 from the unique constraint where
  409 is meant; a PATCH of a row that has gone ends in a 500; a DELETE of one answers 204. An id
  that came back lets a slow PATCH change another entry than its caller saw: `ImplementsBook`
  allows it, since it is an edit of the entry it finds.
- The heatmap may show entries that were removed meanwhile.

*Parts that nothing calls.* `FuturesMarginCalc`, `BracketOrderBuilder` and the quant features are
used by tests only. `compute_required_collateral` of the iron condor raises an IndexError for
four legs of one type, which its validator lets through. `BULL_PULLBACK` can be the best setup with
the short average below the long one.

## 6. Limits of the models

- Requests are finite in number at a time, and each identifier is reused after it ends.
- In the pipeline settlement dates and manual ledger entries are one constant, `SeedCash` /
  `Settled`; `CashViews` has them.
- The policy, quotes and net liquidation value of `Portfolio` do not change during a run.
- In `SignalExecution` the risk rules that `RiskEngine` models are a free choice, on top of the
  halt gate, the ceiling and the settled-cash rule.
- A login over an existing row is modelled with nothing in flight, as the documents describe it
  ("if the bot has been off", `v2.md:572`). The callback route and `scripts/schwab_oauth_login.py` may
  come during a refresh; then whichever of the two upserts (`db/repositories/tokens.py:95`) commits
  last stays, be it the older pair, and `TokensOnlyAdvance` says nothing of it.
- The order of quotes in `VolFeatures` is that of the texts of their times (`quant/features.py:72`),
  taken for the order of time: stamps of one format and offset. With mixed ones, or None among
  them, the last of the sorted rows need not be the newest.
- A missing key of a signal's payload is one of the ways in which an approved submission ends before
  the lock (`SubmitRejected`).
- Cron expressions are left out: a job may fire at any time. `FuturesMargin` starts
  from the wall clock in New York, to which the code converts first.
- Decimals of the indicators have fewer digits in the model, so a quotient is coarser; `Unit` is a
  parameter.
- The prices of one market history are fixed per instance of `OptionChains`.

## 7. Not modelled, and why

Read-only routes, pages and logging: they change no state the properties speak of. The audit log
and indexes: written, never read by a decision. Prompts, HTTP and the parsing of the LLM's JSON: an
answer lists candidates or fails, and may put any signal in the queue. Realized volatility (a
square root, and `rv_iv_spread` with it): TLC has no reals. The direction model: it always
answers neutral. Encryption of tokens, which decryption undoes, and the PKCE exchange of a login: HTTP only.
The keys of the settings that neither the engine nor the live gate reads. The rate limiter of
run-ai-now. `get_order_status`, which has no caller.

## 8. Plan

Done: `SignalExecution` with `HitlDesk`, `KillSwitch`, `SchwabTokens`, `PaperBroker`,
`SettingsUpdate`, `RiskEngine` and `Portfolio`, `OptionChains`, `Watchlist` with `WatchBook`, the
calculators, and `Decisions`.

Proved: every safety property the passing runs check, and the three refinements.

Left, in order of importance:

1. A measure of the work a heatmap request has left, as `Remaining` is one for a backfill: that each
   of its steps decreases it is the half of `HeatmapIsAnswered` that can be proved.
2. A login that overlaps refreshes, with the pair that stays last.
3. The rate limiter of run-ai-now, and the remaining keys of the settings with their validators.
