--------------------------- MODULE SignalExecution ---------------------------
(***************************************************************************)
(* The human-in-the-loop pipeline that turns an AI signal into an order:   *)
(* POST /signals/{id}/submit and /reject (api/routers/signals.py), the     *)
(* OrderService behind the first, the collateral guard and the cash ledger *)
(* it writes, end-of-day reconciliation, the signal generator that fills   *)
(* the queue, and the process itself, which can die and be restarted.      *)
(*                                                                         *)
(* Every handler is a coroutine of one event loop; it is split here at its *)
(* awaits.  All of them share one SQLite file through the sessions of      *)
(* db/session.py: a SELECT sees the latest committed rows and opens no     *)
(* transaction, the first flushed write takes the single write lock and    *)
(* holds it until the session commits or is closed, and a second writer    *)
(* waits for it until the driver's busy timeout raises.  ORM objects keep  *)
(* the values they were loaded with (expire_on_commit=False), and UPDATEs  *)
(* are by primary key with no version check.                               *)
(***************************************************************************)
EXTENDS Integers, Sequences, FiniteSets, Folding

CONSTANTS
  Signals,          \* signals.signal_id; client_order_id is a hash of it
  Submitters,       \* concurrent submit requests
  Rejecters,        \* concurrent reject requests
  Reconcilers,      \* reconciliation runs: the cron job, POST /admin/reconcile
  Quantities,       \* quantities the human may type or accept
  Collateral,       \* collateral per contract of a signal
  Ceiling,          \* its ceiling quantity under the hard per-trade cap
  CashBound,        \* signals whose strategy the settled-cash rule applies to
  SeedCash,         \* settled cash the operator booked in the ledger
  Paper,            \* TRUE: PaperBrokerClient, FALSE: SchwabApiClient
  MaxAttempts,      \* tries of one Schwab request (_request's max_attempts)
  MaxBrokerOrders,  \* bound of the model on orders the broker holds
  None

Awaiting == "APPROVED_AWAITING_HITL"
Statuses == {"PENDING", Awaiting, "REJECTED", "EXPIRED", "EXECUTED"}
BotStates == {"ACTIVE", "HALTED"}
Cancellable == {"SUBMITTED"}
OrderStatuses == {"SUBMITTED", "FILLED", "CANCELLED"}
NoBrokerId == 0     \* broker_order_id is NULL

Procs == Submitters \cup Rejecters \cup Reconcilers

ASSUME SetsAssumption ==
  /\ None \notin Procs \cup Signals
  /\ Submitters \cap Rejecters = {}
  /\ Submitters \cap Reconcilers = {}
  /\ Rejecters \cap Reconcilers = {}
ASSUME DataAssumption ==
  /\ Quantities \subseteq Int
  /\ Collateral \in [Signals -> Nat]
  /\ Ceiling \in [Signals -> Nat]
  /\ CashBound \subseteq Signals
  /\ SeedCash \in Nat
  /\ Paper \in BOOLEAN
  /\ MaxAttempts \in Nat \ {0}
  /\ MaxBrokerOrders \in Nat

VARIABLES
  \* committed rows
  signal,           \* status of each signals row, "ABSENT" before it exists
  orders,           \* orders rows
  events,           \* risk_events rows
  settled,          \* sum of all settled cash_ledger deltas
  locked,           \* minus the sum of the COLLATERAL_LOCK deltas
  \* the process
  holder,           \* session that holds SQLite's write lock, or None
  bot,              \* app.state.bot_state
  pc,               \* where each handler is suspended
  req,              \* locals and uncommitted rows of a submit request
  seen,             \* what a reject request loaded
  stale,            \* PENDING signals a reconciliation run loaded
  \* the broker
  broker            \* orders the broker took, oldest first

db == <<signal, orders, events, settled, locked>>
vars == <<signal, orders, events, settled, locked,
          holder, bot, pc, req, seen, stale, broker>>

-----------------------------------------------------------------------------
(* Types. *)

Answer == [id : 0 .. MaxBrokerOrders, status : OrderStatuses]
NoAnswer == [id |-> NoBrokerId, status |-> "SUBMITTED"]

Request == [signal : Signals \cup {None}, quantity : Int,
            seen : Statuses \cup {"ABSENT"}, bot : BotStates,
            approved : BOOLEAN, tries : Nat, delta : Int, answer : Answer]
NoRequest == [signal |-> None, quantity |-> 0, seen |-> "ABSENT",
              bot |-> "ACTIVE", approved |-> FALSE, tries |-> 0,
              delta |-> 0, answer |-> NoAnswer]

OrderRow == [signal : Signals, quantity : Int,
             brokerId : 0 .. MaxBrokerOrders, status : OrderStatuses]
EventRow == [signal : Signals, quantity : Int, decision : {"APPROVE", "REJECT"}]
BrokerOrder == [signal : Signals, quantity : Int,
                state : {"WORKING", "FILLED", "CANCELLED"}]
Loaded == [signal : Signals \cup {None}, status : Statuses \cup {"ABSENT"}]
NothingLoaded == [signal |-> None, status |-> "ABSENT"]

Labels == {"idle", "read", "context", "decided", "persisted", "calling",
           "answered", "flushed", "failed"}

TypeOK ==
  /\ signal \in [Signals -> Statuses \cup {"ABSENT"}]
  /\ orders \subseteq OrderRow
  /\ events \subseteq EventRow
  /\ settled \in Int
  /\ locked \in Int
  /\ holder \in Submitters \cup {None}
  /\ bot \in BotStates
  /\ pc \in [Procs -> Labels]
  /\ req \in [Submitters -> Request]
  /\ seen \in [Rejecters -> Loaded]
  /\ stale \in [Reconcilers -> SUBSET Signals]
  /\ broker \in Seq(BrokerOrder)
  /\ Len(broker) <= MaxBrokerOrders

-----------------------------------------------------------------------------
(* PENDING rows come from outside src/ (an operator or a fixture); the     *)
(* generator below adds the rest.                                          *)
Init ==
  /\ signal \in [Signals -> {"ABSENT", "PENDING", Awaiting}]
  /\ orders = {}
  /\ events = {}
  /\ settled = SeedCash
  /\ locked = 0
  /\ holder = None
  /\ bot = "ACTIVE"
  /\ pc = [p \in Procs |-> "idle"]
  /\ req = [r \in Submitters |-> NoRequest]
  /\ seen = [j \in Rejecters |-> NothingLoaded]
  /\ stale = [c \in Reconcilers |-> {}]
  /\ broker = <<>>

Goto(p, label) == pc' = [pc EXCEPT ![p] = label]

(* The request is answered and its session closed: what it did not commit  *)
(* is rolled back and the write lock, if it was taken, is free again.      *)
Finish(r) ==
  /\ Goto(r, "idle")
  /\ req' = [req EXCEPT ![r] = NoRequest]
  /\ holder' = IF holder = r THEN None ELSE holder

-----------------------------------------------------------------------------
(* POST /signals/{id}/submit                                               *)

(* required_collateral of an order of q contracts. *)
Cost(s, q) == Collateral[s] * q

(* Mutants of Approves: without the ceiling, without the halt gate. *)
ApprovesAnySize(s, q, botState, contextCash) ==
  /\ botState # "HALTED"
  /\ q > 0
  /\ s \in CashBound => Cost(s, q) <= contextCash
ApprovesHalted(s, q, botState, contextCash) ==
  /\ q \in 1 .. Ceiling[s]
  /\ s \in CashBound => Cost(s, q) <= contextCash

(* RiskEngine.evaluate.  The halt gate, the ceiling and the settled-cash   *)
(* rule are kept, in that order; the rules on data this module does not    *)
(* have (whitelist, DTE, tier, exposure, drawdown, quotes) are the caller's *)
(* otherRules.                                                             *)
Approves(s, q, botState, contextCash) ==
  /\ botState # "HALTED"
  /\ q > 0
  /\ q <= Ceiling[s]
  /\ s \in CashBound => Cost(s, q) <= contextCash

(* session.get(Signal): the status the guard will see, however long the    *)
(* awaits that follow take.                                                *)
SubmitRead(r, s, q) ==
  /\ pc[r] = "idle"
  /\ signal[s] # "ABSENT"
  /\ Goto(r, "read")
  /\ req' = [req EXCEPT ![r] = [NoRequest EXCEPT !.signal = s,
                                                 !.quantity = q,
                                                 !.seen = signal[s]]]
  /\ UNCHANGED <<db, holder, bot, seen, stale, broker>>

(* Leg quotes are loaded, then app.state.bot_state is captured for the     *)
(* context, before the queries of build_risk_context run.                  *)
SubmitContext(r) ==
  /\ pc[r] = "read"
  /\ Goto(r, "context")
  /\ req' = [req EXCEPT ![r].bot = bot]
  /\ UNCHANGED <<db, holder, bot, seen, stale, broker>>

(* OrderService: the guard on the status loaded by SubmitRead. *)
SubmitNotAwaiting(r) ==
  /\ pc[r] = "context"
  /\ req[r].seen # Awaiting
  /\ Finish(r)
  /\ UNCHANGED <<db, bot, seen, stale, broker>>

(* The engine decides on the context's settled cash: every settled row but *)
(* the locks.  It is read a few awaits before, which makes no difference:  *)
(* locks do not change settled + locked, and no release is ever committed. *)
SubmitEvaluate(r, otherRules) ==
  /\ pc[r] = "context"
  /\ req[r].seen = Awaiting
  /\ Goto(r, "decided")
  /\ req' = [req EXCEPT ![r].approved =
               /\ otherRules
               /\ Approves(req[r].signal, req[r].quantity, req[r].bot,
                           settled + locked)]
  /\ UNCHANGED <<db, holder, bot, seen, stale, broker>>

(* Mutant of SubmitPersist: the risk event is added but not flushed. *)
SubmitPersistUnflushed(r) ==
  /\ pc[r] = "decided"
  /\ Goto(r, "persisted")
  /\ UNCHANGED <<db, holder, bot, req, seen, stale, broker>>

(* persist_decision flushes the risk_events row, approved or not: from     *)
(* here to the end of the request this session is the only writer.         *)
SubmitPersist(r) ==
  /\ pc[r] = "decided"
  /\ holder = None
  /\ holder' = r
  /\ Goto(r, "persisted")
  /\ UNCHANGED <<db, bot, req, seen, stale, broker>>

(* The flush outlasted the busy timeout: "database is locked". *)
SubmitBusy(r) ==
  /\ pc[r] = "decided"
  /\ holder # None
  /\ Finish(r)
  /\ UNCHANGED <<db, bot, seen, stale, broker>>

(* Mutant of SubmitRejected: a rejected decision is asked for again. *)
SubmitRejectedRetries(r) ==
  /\ pc[r] = "persisted"
  /\ ~ req[r].approved
  /\ Goto(r, "context")
  /\ holder' = None
  /\ UNCHANGED <<db, bot, req, seen, stale, broker>>

(* decision.decision != "APPROVE", or the order request cannot be built:   *)
(* the payload lacks a key the engine did not need.  The exception leaves  *)
(* before the try, and get_session closes the session without a commit.    *)
SubmitRejected(r) ==
  /\ pc[r] = "persisted"
  /\ Finish(r)
  /\ UNCHANGED <<db, bot, seen, stale, broker>>

(* lock_for_order: can_lock compares with the sum of all settled rows.     *)
SubmitLock(r) ==
  /\ pc[r] = "persisted"
  /\ req[r].approved
  /\ Cost(req[r].signal, req[r].quantity) <= settled
  /\ Goto(r, "calling")
  /\ req' = [req EXCEPT ![r].delta = - Cost(req[r].signal, req[r].quantity)]
  /\ UNCHANGED <<db, holder, bot, seen, stale, broker>>

(* The except branch of submit_signal: a release row is added, whether or  *)
(* not a lock row was, with a REJECTED order; the exception is re-raised.  *)
Fail(r) ==
  /\ Goto(r, "failed")
  /\ req' = [req EXCEPT ![r].delta =
               @ + Cost(req[r].signal, req[r].quantity)]

SubmitShort(r) ==
  /\ pc[r] = "persisted"
  /\ req[r].approved
  /\ Cost(req[r].signal, req[r].quantity) > settled
  /\ Fail(r)
  /\ UNCHANGED <<db, holder, bot, seen, stale, broker>>

(* The broker takes the order.  Paper fills it at once; Schwab works it.   *)
Placed(r) ==
  /\ Len(broker) < MaxBrokerOrders
  /\ broker' = Append(broker,
                 [signal |-> req[r].signal, quantity |-> req[r].quantity,
                  state |-> IF Paper THEN "FILLED" ELSE "WORKING"])

(* Mutant of BrokerAnswers: the id is that of the attempt. *)
BrokerAnswersAttempt(r) ==
  /\ pc[r] = "calling"
  /\ Placed(r)
  /\ req' = [req EXCEPT ![r].answer = [id |-> req[r].tries + 1,
                                     status |-> "SUBMITTED"]]
  /\ Goto(r, "answered")
  /\ UNCHANGED <<db, holder, bot, seen, stale>>

(* A good answer.  Schwab's may have an empty body, which maps to an       *)
(* OrderResponse with no broker_order_id.                                  *)
BrokerAnswers(r) ==
  /\ pc[r] = "calling"
  /\ Placed(r)
  /\ \E id \in {Len(broker) + 1} \cup (IF Paper THEN {} ELSE {NoBrokerId}) :
       req' = [req EXCEPT ![r].answer =
                 [id |-> id, status |-> IF Paper THEN "FILLED" ELSE "SUBMITTED"]]
  /\ Goto(r, "answered")
  /\ UNCHANGED <<db, holder, bot, seen, stale>>

(* A 5xx answer to an order that may have been taken; _request sends the   *)
(* same POST again while it has attempts left.                             *)
BrokerRetry(r) ==
  /\ pc[r] = "calling"
  /\ ~ Paper
  /\ req[r].tries + 1 < MaxAttempts
  /\ req' = [req EXCEPT ![r].tries = @ + 1]
  /\ Placed(r) \/ UNCHANGED broker
  /\ UNCHANGED <<db, holder, bot, pc, seen, stale>>

(* submit_order raises: the broker refused the order, or, with Schwab, it  *)
(* took it and the answer was lost.                                        *)
BrokerRaises(r) ==
  /\ pc[r] = "calling"
  /\ UNCHANGED broker \/ (~ Paper /\ Placed(r))
  /\ Fail(r)
  /\ UNCHANGED <<db, holder, bot, seen, stale>>

(* Mutant of Conflicts: no unique constraint on client_order_id. *)
ConflictsOfBrokerId(s, id) ==
  \E o \in orders : id # NoBrokerId /\ o.brokerId = id

(* uq_orders_client_order_id and uq_orders_broker_order_id. *)
Conflicts(s, id) ==
  \E o \in orders : o.signal = s \/ (id # NoBrokerId /\ o.brokerId = id)

(* The flush of the orders row, the EXECUTED status and the audit row. *)
SubmitFlush(r) ==
  /\ pc[r] = "answered"
  /\ ~ Conflicts(req[r].signal, req[r].answer.id)
  /\ Goto(r, "flushed")
  /\ UNCHANGED <<db, holder, bot, req, seen, stale, broker>>

(* IntegrityError, outside the try: the broker keeps the order.            *)
SubmitConflict(r) ==
  /\ pc[r] = "answered"
  /\ Conflicts(req[r].signal, req[r].answer.id)
  /\ Finish(r)
  /\ UNCHANGED <<db, bot, seen, stale, broker>>

(* What a commit writes besides the signal. *)
CommitRows(r) ==
  /\ orders' = orders \cup
       {[signal |-> req[r].signal, quantity |-> req[r].quantity,
         brokerId |-> req[r].answer.id, status |-> req[r].answer.status]}
  /\ events' = events \cup
       {[signal |-> req[r].signal, quantity |-> req[r].quantity,
         decision |-> "APPROVE"]}
  /\ settled' = settled + req[r].delta
  /\ locked' = locked - req[r].delta
  /\ UNCHANGED <<bot, seen, stale, broker>>

(* Mutant of SubmitCommit: the signal keeps its status. *)
SubmitCommitUnmarked(r) ==
  /\ pc[r] = "flushed"
  /\ CommitRows(r)
  /\ UNCHANGED signal
  /\ Finish(r)

(* session.commit() of the endpoint. *)
SubmitCommit(r) ==
  /\ pc[r] = "flushed"
  /\ CommitRows(r)
  /\ signal' = [signal EXCEPT ![req[r].signal] = "EXECUTED"]
  /\ Finish(r)

(* Mutant of SubmitRollback: the endpoint commits what the branch added. *)
SubmitRollbackCommits(r) ==
  /\ pc[r] = "failed"
  /\ settled' = settled + req[r].delta
  /\ locked' = locked - req[r].delta
  /\ Finish(r)
  /\ UNCHANGED <<signal, orders, events, bot, seen, stale, broker>>

(* The exception leaves the endpoint; nothing of the branch is committed. *)
SubmitRollback(r) ==
  /\ pc[r] = "failed"
  /\ Finish(r)
  /\ UNCHANGED <<db, bot, seen, stale, broker>>

SubmitStep(r) ==
  \/ SubmitContext(r)
  \/ SubmitNotAwaiting(r)
  \/ \E otherRules \in BOOLEAN : SubmitEvaluate(r, otherRules)
  \/ SubmitPersist(r)
  \/ SubmitBusy(r)
  \/ SubmitRejected(r)
  \/ SubmitLock(r)
  \/ SubmitShort(r)
  \/ BrokerAnswers(r)
  \/ BrokerRetry(r)
  \/ BrokerRaises(r)
  \/ SubmitFlush(r)
  \/ SubmitConflict(r)
  \/ SubmitCommit(r)
  \/ SubmitRollback(r)

-----------------------------------------------------------------------------
(* POST /signals/{id}/reject                                               *)

RejectRead(j, s) ==
  /\ pc[j] = "idle"
  /\ signal[s] # "ABSENT"
  /\ Goto(j, "read")
  /\ seen' = [seen EXCEPT ![j] = [signal |-> s, status |-> signal[s]]]
  /\ UNCHANGED <<db, holder, bot, req, stale, broker>>

RejectEnd(j) ==
  /\ pc[j] = "read"
  /\ Goto(j, "idle")
  /\ seen' = [seen EXCEPT ![j] = NothingLoaded]
  /\ UNCHANGED <<orders, events, settled, locked, holder, bot, req, stale, broker>>

(* One transaction, whatever the status is by now; the UPDATE is left out  *)
(* only when the loaded object was REJECTED already.                       *)
RejectCommit(j) ==
  /\ RejectEnd(j)
  /\ holder = None
  /\ signal' = IF seen[j].status = "REJECTED" THEN signal
               ELSE [signal EXCEPT ![seen[j].signal] = "REJECTED"]

RejectBusy(j) ==
  /\ RejectEnd(j)
  /\ holder # None
  /\ UNCHANGED signal

RejectStep(j) == RejectCommit(j) \/ RejectBusy(j)

-----------------------------------------------------------------------------
(* reconcile_end_of_day                                                    *)

(* Mutant of ReconcileRead: signals in the queue count as stale too. *)
ReconcileReadAwaiting(c) ==
  /\ pc[c] = "idle"
  /\ Goto(c, "read")
  /\ stale' = [stale EXCEPT ![c] =
                 {s \in Signals : signal[s] \in {"PENDING", Awaiting}}]
  /\ UNCHANGED <<db, holder, bot, req, seen, broker>>

ReconcileRead(c) ==
  /\ pc[c] = "idle"
  /\ Goto(c, "read")
  /\ stale' = [stale EXCEPT ![c] = {s \in Signals : signal[s] = "PENDING"}]
  /\ UNCHANGED <<db, holder, bot, req, seen, broker>>

ReconcileEnd(c) ==
  /\ pc[c] = "read"
  /\ Goto(c, "idle")
  /\ stale' = [stale EXCEPT ![c] = {}]
  /\ UNCHANGED <<orders, events, settled, locked, holder, bot, req, seen, broker>>

(* Does the run have rows to write?  A cancelled order only gets an audit  *)
(* row (COLLATERAL_REVIEWED); the ledger is not touched.                   *)
ReconcileWrites(c) ==
  stale[c] # {} \/ \E o \in orders : o.status = "CANCELLED"

ReconcileCommit(c) ==
  /\ ReconcileEnd(c)
  /\ ReconcileWrites(c) => holder = None
  /\ signal' = [s \in Signals |-> IF s \in stale[c] THEN "EXPIRED" ELSE signal[s]]

ReconcileBusy(c) ==
  /\ ReconcileEnd(c)
  /\ ReconcileWrites(c) /\ holder # None
  /\ UNCHANGED signal

ReconcileStep(c) == ReconcileCommit(c) \/ ReconcileBusy(c)

-----------------------------------------------------------------------------
(* The rest of the system, as the pipeline sees it                         *)

(* SignalGenerator.run commits a batch of new signals, ready to submit. *)
GenerateSignals(S) ==
  /\ holder = None
  /\ \A s \in S : signal[s] = "ABSENT"
  /\ signal' = [s \in Signals |-> IF s \in S THEN Awaiting ELSE signal[s]]
  /\ UNCHANGED <<orders, events, settled, locked,
                 holder, bot, pc, req, seen, stale, broker>>

(* halt, resume and panic write app.state.bot_state (KillSwitch). *)
SetBot(state) ==
  /\ bot' = state
  /\ UNCHANGED <<db, holder, pc, req, seen, stale, broker>>

(* The order rows after panic marked those of O. *)
Marked(O) == {IF o \in O THEN [o EXCEPT !.status = "CANCELLED"] ELSE o :
                o \in orders}

(* panic commits the CANCELLED status of some orders (KillSwitch). *)
MarkCancelled(O) ==
  /\ holder = None
  /\ \A o \in O : o.status \in Cancellable
  /\ orders' = Marked(O)
  /\ UNCHANGED <<signal, events, settled, locked,
                 holder, bot, pc, req, seen, stale, broker>>

(* At Schwab a working order fills, or is cancelled. *)
BrokerMoves(i) ==
  /\ broker[i].state = "WORKING"
  /\ \E state \in {"FILLED", "CANCELLED"} :
       broker' = [broker EXCEPT ![i].state = state]
  /\ UNCHANGED <<db, holder, bot, pc, req, seen, stale>>

(* The process dies and app_lifespan runs again: handlers and open         *)
(* transactions are gone, bot_state starts ACTIVE, and the paper broker,   *)
(* which lives in memory, is empty and numbers its orders from one again.  *)
Restart ==
  /\ holder' = None
  /\ bot' = "ACTIVE"
  /\ pc' = [p \in Procs |-> "idle"]
  /\ req' = [r \in Submitters |-> NoRequest]
  /\ seen' = [j \in Rejecters |-> NothingLoaded]
  /\ stale' = [c \in Reconcilers |-> {}]
  /\ broker' = IF Paper THEN <<>> ELSE broker
  /\ UNCHANGED db

Environment ==
  \/ \E S \in (SUBSET Signals) \ {{}} : GenerateSignals(S)
  \/ \E state \in BotStates : SetBot(state)
  \/ \E O \in (SUBSET orders) \ {{}} : MarkCancelled(O)
  \/ \E i \in DOMAIN broker : BrokerMoves(i)
  \/ Restart

Next ==
  \/ \E r \in Submitters :
       \/ \E s \in Signals, q \in Quantities : SubmitRead(r, s, q)
       \/ SubmitStep(r)
  \/ \E j \in Rejecters : (\E s \in Signals : RejectRead(j, s)) \/ RejectStep(j)
  \/ \E c \in Reconcilers : ReconcileRead(c) \/ ReconcileStep(c)
  \/ Environment

Spec == Init /\ [][Next]_vars

(* A request that was accepted runs on: the event loop resumes a coroutine *)
(* whose await is over, HTTP calls time out after 30 s and a locked flush  *)
(* after the driver's busy timeout.  Nobody is obliged to send a request,  *)
(* and nothing outside the process is fair.                                *)
Fairness ==
  /\ \A r \in Submitters : WF_vars(SubmitStep(r))
  /\ \A j \in Rejecters : WF_vars(RejectStep(j))
  /\ \A c \in Reconcilers : WF_vars(ReconcileStep(c))

FairSpec == Spec /\ Fairness
-----------------------------------------------------------------------------
(* Properties                                                              *)

(* Concurrent submissions never lock more than the settled cash: can_lock  *)
(* is check-then-act over awaits, and only the write lock taken by the     *)
(* earlier flush of the risk event keeps two of them apart.                *)
NoOverdraft == settled >= 0

(* The ledger and the orders table agree whatever failed half-way: each    *)
(* order has its lock, there is no lock without an order, and no release   *)
(* of a lock that was never committed.                                     *)
LocksBackOrders ==
  /\ locked = SumOver(orders, [o \in orders |-> Cost(o.signal, o.quantity)])
  /\ settled = SeedCash - locked

(* A signal has at most one orders row, whoever submits it and how often.  *)
OneOrderPerSignal ==
  \A o1, o2 \in orders : o1.signal = o2.signal => o1 = o2

(* Every order row stands on a committed approval of the same quantity, of *)
(* at most the ceiling, although the approval was computed from data read  *)
(* several awaits earlier.                                                 *)
OrdersAreApproved ==
  \A o \in orders :
    /\ [signal |-> o.signal, quantity |-> o.quantity,
        decision |-> "APPROVE"] \in events
    /\ o.quantity \in 1 .. Ceiling[o.signal]

(* A signal with an order can never be submitted again, and EXECUTED is    *)
(* only ever said of a signal with an order: stale writes of reject,       *)
(* reconciliation and racing submissions included.                         *)
OrderedSignalsAreClosed ==
  /\ \A o \in orders : signal[o.signal] \in {"EXECUTED", "REJECTED"}
  /\ \A s \in Signals :
       signal[s] = "EXECUTED" => \E o \in orders : o.signal = s

(* An orders row with a broker id is an order of that signal and quantity  *)
(* that the broker really holds, under that id (Schwab).                   *)
RecordedOrdersExist ==
  \A o \in orders : o.brokerId # NoBrokerId =>
    /\ o.brokerId \in DOMAIN broker
    /\ broker[o.brokerId].signal = o.signal
    /\ broker[o.brokerId].quantity = o.quantity

(* Signals executed or expired by one handler are not resurrected by the   *)
(* stale write of another: nothing goes back to the queue, and only a      *)
(* human's reject follows EXECUTED.                                        *)
NoResurrection ==
  [][\A s \in Signals : signal[s] # "ABSENT" =>
       /\ signal'[s] \in {"PENDING", Awaiting} => signal'[s] = signal[s]
       /\ signal[s] = "EXECUTED" => signal'[s] \in {"EXECUTED", "REJECTED"}]_vars

(* Once HALTED is set, and the requests that captured ACTIVE before it are *)
(* over, no order reaches the broker until the bot is resumed: the flag is *)
(* read several awaits before the order it has to stop.                    *)
HaltTakesHold ==
  [][/\ bot = "HALTED"
     /\ \A r \in Submitters :
          pc[r] \notin {"idle", "read"} => req[r].bot = "HALTED"
     => Len(broker') <= Len(broker)]_vars

(* The pipeline implements the atomic desk: the split handlers, with their *)
(* stale reads, lost answers and crashes, are seen in the database only as *)
(* single Offer, Execute, Reject and Expire steps.                         *)
Desk == INSTANCE HitlDesk WITH
  status <- signal,
  booked <- {<<o.signal, o.quantity>> : o \in orders},
  available <- settled
ImplementsDesk == Desk!Spec

(* Every request is answered, approved or not, broker up or not.           *)
RequestsAreAnswered ==
  \A p \in Procs : pc[p] # "idle" ~> pc[p] = "idle"

-----------------------------------------------------------------------------
(* The inductive invariant behind the proofs (SignalExecutionProofs). *)

Writing == {"persisted", "calling", "answered", "flushed", "failed"}

(* The write lock is held by the one request between its first flush and   *)
(* its end.                                                                *)
WriterInv ==
  \A r \in Submitters : pc[r] \in Writing <=> holder = r

(* What a request carries from step to step. *)
RequestInv ==
  \A r \in Submitters : pc[r] # "idle" =>
    /\ req[r].signal \in Signals
    /\ req[r].quantity \in Quantities
    /\ pc[r] \notin {"read", "context"} => req[r].seen = Awaiting
    /\ pc[r] \in {"calling", "answered", "flushed"} => req[r].approved
    /\ req[r].approved => /\ pc[r] \notin {"read", "context"}
                          /\ req[r].quantity \in 1 .. Ceiling[req[r].signal]
                          /\ req[r].bot = "ACTIVE"

(* An uncommitted lock is of the order's cost, and covered: the sum it was *)
(* compared with is still the committed one.                               *)
OverlayInv ==
  \A r \in Submitters : pc[r] \in {"calling", "answered", "flushed"} =>
    /\ req[r].delta = - Cost(req[r].signal, req[r].quantity)
    /\ settled + req[r].delta >= 0

(* A flushed order passed the unique constraints, and still does. *)
FlushedInv ==
  \A r \in Submitters : pc[r] = "flushed" =>
    \A o \in orders : o.signal # req[r].signal

(* Loaded statuses age, but only in these ways. *)
StaleInv ==
  /\ \A r \in Submitters : pc[r] # "idle" /\ req[r].seen = Awaiting =>
       /\ signal[req[r].signal] \in {Awaiting, "REJECTED", "EXECUTED"}
       /\ \A c \in Reconcilers : req[r].signal \notin stale[c]
  /\ \A j \in Rejecters : pc[j] = "read" =>
       seen[j].signal \in Signals /\ signal[seen[j].signal] # "ABSENT"
  /\ \A c \in Reconcilers : \A s \in stale[c] :
       /\ signal[s] \in {"PENDING", "REJECTED", "EXPIRED"}
       /\ \A o \in orders : o.signal # s

IInv ==
  /\ TypeOK
  /\ WriterInv
  /\ RequestInv
  /\ OverlayInv
  /\ FlushedInv
  /\ StaleInv
  /\ NoOverdraft
  /\ OneOrderPerSignal
  /\ OrdersAreApproved
  /\ OrderedSignalsAreClosed
  /\ IsFiniteSet(orders)
  /\ LocksBackOrders

-----------------------------------------------------------------------------
(* Claims of the repository's documents that the code does not keep.       *)

(* "APPROVED_AWAITING_HITL is the only legal predecessor to EXECUTED": a   *)
(* signal that a human rejected while its submission was under way is not  *)
(* executed all the same.                                                  *)
ExecutedFromTheQueue ==
  [][\A s \in Signals :
       signal[s] # "EXECUTED" /\ signal'[s] = "EXECUTED" => signal[s] = Awaiting]_vars

(* "Idempotent submission via deterministic client_order_id": the broker   *)
(* holds at most one order per client_order_id.                            *)
IdempotentSubmission ==
  \A i, j \in DOMAIN broker : broker[i].signal = broker[j].signal => i = j
=============================================================================
