------------------------ MODULE SignalExecutionProofs ------------------------
(***************************************************************************)
(* Theorems about SignalExecution and KillSwitch, for any signals, costs,  *)
(* ceilings, cash, number of concurrent requests, and for either broker.   *)
(* First the database under the pipeline alone, then its orders at the     *)
(* broker, then the pipeline with the switch in use.                       *)
(***************************************************************************)
EXTENDS KillSwitch, FoldingProofs

LEMMA CostIsNat ==
  ASSUME NEW s \in Signals, NEW q \in Nat
  PROVE  Cost(s, q) \in Nat
<1>1. Collateral[s] \in Nat
  BY DataAssumption
<1>2. QED
  BY <1>1 DEF Cost

LEMMA CostIsInt ==
  ASSUME NEW s \in Signals, NEW q \in Int
  PROVE  Cost(s, q) \in Int
<1>1. Collateral[s] \in Nat
  BY DataAssumption
<1>2. QED
  BY <1>1 DEF Cost

LEMMA NoRequestIsRequest == NoRequest \in Request
BY DataAssumption DEF NoRequest, Request, NoAnswer, Answer, NoBrokerId,
   BotStates, OrderStatuses, Statuses

(* The variables the type invariant of a step is about, one lemma per      *)
(* group of actions.                                                       *)

LEMMA InitType == Init => TypeOK
BY SetsAssumption, DataAssumption, NoRequestIsRequest
DEF Init, TypeOK, Statuses, Awaiting, BotStates, Labels, Loaded, NothingLoaded,
    OrderRow, EventRow

LEMMA FinishType ==
  ASSUME TypeOK, NEW r \in Submitters, Finish(r)
  PROVE  /\ pc' \in [Procs -> Labels]
         /\ req' \in [Submitters -> Request]
         /\ holder' \in Submitters \cup {None}
BY NoRequestIsRequest DEF TypeOK, Finish, Goto, Labels, Procs

LEMMA FailType ==
  ASSUME TypeOK, NEW r \in Submitters, Fail(r),
         req[r].signal \in Signals
  PROVE  /\ pc' \in [Procs -> Labels]
         /\ req' \in [Submitters -> Request]
<1> DEFINE c == Cost(req[r].signal, req[r].quantity)
           after == [req[r] EXCEPT !.delta = @ + c]
<1>1. req[r] \in Request
  BY DEF TypeOK
<1>2. c \in Int
  BY <1>1, CostIsInt DEF Request
<1>3. req' = [req EXCEPT ![r] = after]
  BY DEF TypeOK, Fail
<1> HIDE DEF c
<1>4. after \in Request
  BY <1>1, <1>2 DEF Request
<1> HIDE DEF after
<1>5. req' \in [Submitters -> Request]
  BY <1>3, <1>4 DEF TypeOK
<1>6. pc' \in [Procs -> Labels]
  BY DEF TypeOK, Fail, Goto, Labels, Procs
<1>7. QED
  BY <1>5, <1>6

LEMMA PlacedType ==
  ASSUME TypeOK, NEW r \in Submitters, Placed(r), req[r].signal \in Signals
  PROVE  /\ broker' \in Seq(BrokerOrder)
         /\ Len(broker') <= MaxBrokerOrders
         /\ Len(broker') = Len(broker) + 1
<1> DEFINE b == [signal |-> req[r].signal, quantity |-> req[r].quantity,
                 state |-> IF Paper THEN "FILLED" ELSE "WORKING"]
<1>1. b \in BrokerOrder
  BY DEF TypeOK, Request, BrokerOrder
<1>2. broker' = Append(broker, b)
  BY DEF Placed
<1>3. broker \in Seq(BrokerOrder) /\ Len(broker) < MaxBrokerOrders
  BY DEF TypeOK, Placed
<1> HIDE DEF b
<1>4. QED
  BY <1>1, <1>2, <1>3, DataAssumption

(* Every step keeps the variables in their types. *)
LEMMA TypeStep == TypeOK /\ RequestInv /\ [Next]_vars => TypeOK'
<1> SUFFICES ASSUME TypeOK, RequestInv, [Next]_vars
             PROVE  TypeOK'
  OBVIOUS
<1> USE DEF TypeOK, db, vars
<1>1. ASSUME NEW r \in Submitters, NEW s \in Signals, NEW q \in Quantities,
             SubmitRead(r, s, q)
      PROVE  TypeOK'
  BY <1>1, DataAssumption, NoRequestIsRequest
  DEF SubmitRead, Goto, Labels, Procs, Request
<1>2. ASSUME NEW r \in Submitters, SubmitContext(r)
      PROVE  TypeOK'
  <2> DEFINE after == [req[r] EXCEPT !.bot = bot]
  <2>1. req[r] \in Request
    OBVIOUS
  <2>2. after \in Request
    BY <2>1 DEF Request
  <2>3. req' = [req EXCEPT ![r] = after]
    BY <1>2 DEF SubmitContext
  <2>4. /\ pc' \in [Procs -> Labels]
        /\ UNCHANGED <<db, holder, bot, seen, stale, broker>>
    BY <1>2 DEF SubmitContext, Goto, Labels, Procs
  <2> HIDE DEF after
  <2>5. QED
    BY <2>2, <2>3, <2>4
<1>3. ASSUME NEW r \in Submitters,
             SubmitNotAwaiting(r) \/ SubmitBusy(r) \/ SubmitRejected(r)
             \/ SubmitConflict(r) \/ SubmitRollback(r)
      PROVE  TypeOK'
  BY <1>3, FinishType DEF SubmitNotAwaiting, SubmitBusy, SubmitRejected,
     SubmitConflict, SubmitRollback
<1>4. ASSUME NEW r \in Submitters, NEW b \in BOOLEAN, SubmitEvaluate(r, b)
      PROVE  TypeOK'
  <2> DEFINE a == b /\ Approves(req[r].signal, req[r].quantity, req[r].bot,
                                settled + locked)
             after == [req[r] EXCEPT !.approved = a]
  <2>1. req[r] \in Request /\ a \in BOOLEAN
    OBVIOUS
  <2>2. req' = [req EXCEPT ![r] = after]
    BY <1>4 DEF SubmitEvaluate
  <2> HIDE DEF a
  <2>3. after \in Request
    BY <2>1 DEF Request
  <2> HIDE DEF after
  <2>4. /\ pc' \in [Procs -> Labels]
        /\ UNCHANGED <<db, holder, bot, seen, stale, broker>>
    BY <1>4 DEF SubmitEvaluate, Goto, Labels, Procs
  <2>5. QED
    BY <2>2, <2>3, <2>4
<1>5. ASSUME NEW r \in Submitters, SubmitPersist(r) \/ SubmitFlush(r)
      PROVE  TypeOK'
  BY <1>5 DEF SubmitPersist, SubmitFlush, Goto, Labels, Procs
<1>6. ASSUME NEW r \in Submitters, SubmitLock(r)
      PROVE  TypeOK'
  <2>1. Cost(req[r].signal, req[r].quantity) \in Int
    BY <1>6, CostIsInt DEF SubmitLock, Request, RequestInv
  <2> DEFINE d == - Cost(req[r].signal, req[r].quantity)
             after == [req[r] EXCEPT !.delta = d]
  <2>2. req' = [req EXCEPT ![r] = after]
    BY <1>6 DEF SubmitLock
  <2>3. d \in Int /\ req[r] \in Request
    BY <2>1
  <2> HIDE DEF d
  <2>4. after \in Request
    BY <2>3 DEF Request
  <2> HIDE DEF after
  <2>5. QED
    BY <1>6, <2>2, <2>4 DEF SubmitLock, Goto, Labels, Procs
<1>7. ASSUME NEW r \in Submitters, SubmitShort(r)
      PROVE  TypeOK'
  BY <1>7, FailType DEF SubmitShort, RequestInv
<1>8. ASSUME NEW r \in Submitters, BrokerAnswers(r)
      PROVE  TypeOK'
  <2>1. /\ broker' \in Seq(BrokerOrder)
        /\ Len(broker') <= MaxBrokerOrders
    BY <1>8, PlacedType DEF BrokerAnswers, RequestInv
  <2>2. PICK id \in {Len(broker) + 1} \cup (IF Paper THEN {} ELSE {NoBrokerId}) :
          req' = [req EXCEPT ![r].answer =
                   [id |-> id, status |-> IF Paper THEN "FILLED" ELSE "SUBMITTED"]]
    BY <1>8 DEF BrokerAnswers
  <2> DEFINE a == [id |-> id, status |-> IF Paper THEN "FILLED" ELSE "SUBMITTED"]
             after == [req[r] EXCEPT !.answer = a]
  <2>3. id \in 0 .. MaxBrokerOrders
    BY <1>8, DataAssumption DEF BrokerAnswers, Placed, NoBrokerId
  <2>4. a \in Answer
    BY <2>3 DEF Answer, OrderStatuses
  <2>5. req' = [req EXCEPT ![r] = after]
    BY <2>2
  <2> HIDE DEF a
  <2>6. req[r] \in Request
    OBVIOUS
  <2>7. after \in Request
    BY <2>4, <2>6 DEF Request
  <2> HIDE DEF after
  <2>8. QED
    BY <1>8, <2>1, <2>5, <2>7 DEF BrokerAnswers, Goto, Labels, Procs
<1>9. ASSUME NEW r \in Submitters, BrokerRetry(r)
      PROVE  TypeOK'
  <2>1. /\ broker' \in Seq(BrokerOrder)
        /\ Len(broker') <= MaxBrokerOrders
    BY <1>9, PlacedType DEF BrokerRetry, RequestInv
  <2> DEFINE t == req[r].tries + 1
             after == [req[r] EXCEPT !.tries = t]
  <2>2. req' = [req EXCEPT ![r] = after]
    BY <1>9 DEF BrokerRetry
  <2>3. t \in Nat /\ req[r] \in Request
    BY DEF Request
  <2> HIDE DEF t
  <2>4. after \in Request
    BY <2>3 DEF Request
  <2> HIDE DEF after
  <2>5. QED
    BY <1>9, <2>1, <2>2, <2>4 DEF BrokerRetry
<1>10. ASSUME NEW r \in Submitters, BrokerRaises(r)
      PROVE  TypeOK'
  <2>1. /\ broker' \in Seq(BrokerOrder)
        /\ Len(broker') <= MaxBrokerOrders
    BY <1>10, PlacedType DEF BrokerRaises, RequestInv
  <2>2. QED
    BY <1>10, <2>1, FailType DEF BrokerRaises, RequestInv
<1>11. ASSUME NEW r \in Submitters, SubmitCommit(r)
      PROVE  TypeOK'
  <2>1. req[r] \in Request /\ req[r].signal \in Signals
    BY <1>11 DEF SubmitCommit, CommitRows, RequestInv
  <2>2. orders' \subseteq OrderRow /\ events' \subseteq EventRow
    BY <1>11, <2>1 DEF SubmitCommit, CommitRows, Request, Answer, OrderRow, EventRow
  <2>3. settled' \in Int /\ locked' \in Int
    BY <1>11, <2>1 DEF SubmitCommit, CommitRows, Request
  <2>4. QED
    BY <1>11, <2>2, <2>3, FinishType DEF SubmitCommit, CommitRows, Statuses
<1>12. ASSUME NEW j \in Rejecters, NEW s \in Signals, RejectRead(j, s)
      PROVE  TypeOK'
  BY <1>12 DEF RejectRead, Goto, Labels, Procs, Loaded
<1>13. ASSUME NEW j \in Rejecters, RejectStep(j)
      PROVE  TypeOK'
  <2>1. signal' \in [Signals -> Statuses \cup {"ABSENT"}]
    BY <1>13 DEF RejectStep, RejectCommit, RejectBusy, Statuses
  <2>2. RejectEnd(j)
    BY <1>13 DEF RejectStep, RejectCommit, RejectBusy
  <2>3. NothingLoaded \in Loaded
    BY DEF Loaded, NothingLoaded
  <2>4. QED
    BY <2>1, <2>2, <2>3 DEF RejectEnd, Goto, Labels, Procs
<1>14. ASSUME NEW c \in Reconcilers, ReconcileRead(c) \/ ReconcileStep(c)
      PROVE  TypeOK'
  BY <1>14 DEF ReconcileRead, ReconcileStep, ReconcileCommit, ReconcileBusy,
     ReconcileEnd, Goto, Labels, Procs, Statuses
<1>15. ASSUME NEW S \in SUBSET Signals, GenerateSignals(S)
      PROVE  TypeOK'
  BY <1>15 DEF GenerateSignals, Statuses
<1>16. ASSUME NEW state \in BotStates, SetBot(state)
      PROVE  TypeOK'
  BY <1>16 DEF SetBot
<1>17. ASSUME NEW O \in SUBSET orders, MarkCancelled(O)
      PROVE  TypeOK'
  <2>1. \A o \in orders : [o EXCEPT !.status = "CANCELLED"] \in OrderRow
    BY DEF OrderRow, OrderStatuses
  <2>2. Marked(O) \subseteq OrderRow
    BY <2>1 DEF Marked
  <2>3. QED
    BY <1>17, <2>2 DEF MarkCancelled
<1>18. ASSUME NEW i \in DOMAIN broker, BrokerMoves(i)
      PROVE  TypeOK'
  <2>1. PICK state \in {"FILLED", "CANCELLED"} :
          broker' = [broker EXCEPT ![i] = [broker[i] EXCEPT !.state = state]]
    BY <1>18 DEF BrokerMoves
  <2>2. i \in 1 .. Len(broker) /\ broker[i] \in BrokerOrder
    OBVIOUS
  <2>3. [broker[i] EXCEPT !.state = state] \in BrokerOrder
    BY <2>2 DEF BrokerOrder
  <2>4. broker' \in Seq(BrokerOrder) /\ Len(broker') = Len(broker)
    BY <2>1, <2>2, <2>3
  <2>5. QED
    BY <1>18, <2>4 DEF BrokerMoves
<1>19. ASSUME Restart
      PROVE  TypeOK'
  BY <1>19, NoRequestIsRequest, DataAssumption
  DEF Restart, BotStates, Labels, Procs, Loaded, NothingLoaded
<1>20. CASE UNCHANGED vars
  BY <1>20
<1>21. QED
  BY <1>1, <1>2, <1>3, <1>4, <1>5, <1>6, <1>7, <1>8, <1>9, <1>10, <1>11,
     <1>12, <1>13, <1>14, <1>15, <1>16, <1>17, <1>18, <1>19, <1>20
  DEF Next, SubmitStep, Environment

(* The steps fall in three groups: one submit request moves, the process   *)
(* dies (Restart), or something else happens that no submit request sees.  *)
OneSubmits(r) ==
  \/ \E s \in Signals, q \in Quantities : SubmitRead(r, s, q)
  \/ SubmitStep(r)

(* A submit request's step touches no other handler's locals. *)
LEMMA OneAtATime ==
  ASSUME TypeOK, NEW r \in Submitters, OneSubmits(r)
  PROVE  /\ \A t \in Procs \ {r} : pc'[t] = pc[t]
         /\ \A t \in Submitters \ {r} : req'[t] = req[t]
         /\ UNCHANGED <<seen, stale, bot>>
<1> USE DEF TypeOK, db, Goto, Finish, Fail
<1>1. ASSUME NEW s \in Signals, NEW q \in Quantities, SubmitRead(r, s, q)
      PROVE  pc' = [pc EXCEPT ![r] = pc'[r]] /\ req' = [req EXCEPT ![r] = req'[r]]
             /\ UNCHANGED <<seen, stale, bot>>
  BY <1>1 DEF SubmitRead, Procs
<1>2. ASSUME SubmitStep(r)
      PROVE  pc' = [pc EXCEPT ![r] = pc'[r]] /\ req' = [req EXCEPT ![r] = req'[r]]
             /\ UNCHANGED <<seen, stale, bot>>
  BY <1>2 DEF Procs, SubmitStep, SubmitContext, SubmitNotAwaiting,
     SubmitEvaluate, SubmitPersist, SubmitBusy, SubmitRejected, SubmitLock,
     SubmitShort, BrokerAnswers, BrokerRetry, BrokerRaises, SubmitFlush,
     SubmitConflict, SubmitCommit, CommitRows, SubmitRollback
<1>3. QED
  BY <1>1, <1>2 DEF OneSubmits

OthersStep ==
  \/ \E j \in Rejecters : (\E s \in Signals : RejectRead(j, s)) \/ RejectStep(j)
  \/ \E c \in Reconcilers : ReconcileRead(c) \/ ReconcileStep(c)
  \/ \E S \in SUBSET Signals : GenerateSignals(S)
  \/ \E state \in BotStates : SetBot(state)
  \/ \E O \in SUBSET orders : MarkCancelled(O)
  \/ \E i \in DOMAIN broker : BrokerMoves(i)
  \/ UNCHANGED vars

(* The other handlers leave submit requests, the write lock and the        *)
(* ledger alone; panic may change an order's status only.                  *)
LEMMA OthersLeaveRequests ==
  ASSUME TypeOK, OthersStep
  PROVE  /\ \A r \in Submitters : pc'[r] = pc[r]
         /\ UNCHANGED <<req, holder, events, settled, locked>>
         /\ \A o \in orders' : \E p \in orders :
              o.signal = p.signal /\ o.quantity = p.quantity
<1> USE DEF TypeOK, db, vars, Goto
<1>1. ASSUME NEW j \in Rejecters, (\E s \in Signals : RejectRead(j, s)) \/ RejectStep(j)
      PROVE  pc' = [pc EXCEPT ![j] = pc'[j]] /\ UNCHANGED <<req, holder, orders, events, settled, locked>>
  BY <1>1 DEF RejectRead, RejectStep, RejectCommit, RejectBusy, RejectEnd, Procs
<1>2. ASSUME NEW c \in Reconcilers, ReconcileRead(c) \/ ReconcileStep(c)
      PROVE  pc' = [pc EXCEPT ![c] = pc'[c]] /\ UNCHANGED <<req, holder, orders, events, settled, locked>>
  BY <1>2 DEF ReconcileRead, ReconcileStep, ReconcileCommit, ReconcileBusy, ReconcileEnd, Procs
<1>3. ASSUME NEW O \in SUBSET orders, MarkCancelled(O)
      PROVE  /\ UNCHANGED <<pc, req, holder, events, settled, locked>>
             /\ \A o \in orders' : \E p \in orders :
              o.signal = p.signal /\ o.quantity = p.quantity
  BY <1>3 DEF MarkCancelled, Marked, OrderRow
<1>4. CASE \/ \E S \in SUBSET Signals : GenerateSignals(S)
           \/ \E state \in BotStates : SetBot(state)
           \/ \E i \in DOMAIN broker : BrokerMoves(i)
           \/ UNCHANGED vars
  <2>1. UNCHANGED <<pc, req, holder, orders, events, settled, locked>>
    BY <1>4 DEF GenerateSignals, SetBot, BrokerMoves
  <2>2. QED
    BY <2>1
<1>5. QED
  BY <1>1, <1>2, <1>3, <1>4, SetsAssumption DEF OthersStep, Procs

(* The write lock is taken by SubmitPersist alone, when free. *)
LEMMA WriterStep == TypeOK /\ WriterInv /\ [Next]_vars => WriterInv'
<1> SUFFICES ASSUME TypeOK, WriterInv, [Next]_vars
             PROVE  WriterInv'
  OBVIOUS
<1>1. ASSUME NEW r \in Submitters, OneSubmits(r)
      PROVE  WriterInv'
  <2>1. /\ pc'[r] \in Writing <=> holder' = r
        /\ holder' # holder => {holder, holder'} = {r, None}
    <3> USE SetsAssumption DEF TypeOK, WriterInv, Writing, Goto, Finish, Fail, Procs, db
    <3>1. CASE \E s \in Signals, q \in Quantities : SubmitRead(r, s, q)
      BY <3>1 DEF SubmitRead
    <3>2. CASE SubmitStep(r)
      BY <3>2 DEF SubmitStep, SubmitContext, SubmitNotAwaiting,
         SubmitEvaluate, SubmitPersist, SubmitBusy, SubmitRejected, SubmitLock,
         SubmitShort, BrokerAnswers, BrokerRetry, BrokerRaises, SubmitFlush,
         SubmitConflict, SubmitCommit, CommitRows, SubmitRollback
    <3>3. QED
      BY <1>1, <3>1, <3>2 DEF OneSubmits
  <2>2. \A t \in Submitters \ {r} : pc'[t] = pc[t] /\ (pc[t] \in Writing <=> holder = t)
    BY <1>1, OneAtATime DEF WriterInv, Procs
  <2>3. \A t \in Submitters \ {r} : holder' = t <=> holder = t
    BY <2>1, SetsAssumption DEF Procs
  <2>4. QED
    BY <2>1, <2>2, <2>3 DEF WriterInv
<1>2. CASE OthersStep
  BY <1>2, OthersLeaveRequests DEF WriterInv
<1>3. CASE Restart
  BY <1>3, SetsAssumption DEF Restart, WriterInv, Writing, Procs
<1>4. QED
  BY <1>1, <1>2, <1>3 DEF Next, Environment, OneSubmits, OthersStep

(* What a request carries is set by SubmitRead and judged by               *)
(* SubmitEvaluate only.                                                    *)
LEMMA RequestStep == TypeOK /\ RequestInv /\ [Next]_vars => RequestInv'
<1> SUFFICES ASSUME TypeOK, RequestInv, [Next]_vars
             PROVE  RequestInv'
  OBVIOUS
<1>1. ASSUME NEW r \in Submitters, OneSubmits(r)
      PROVE  RequestInv'
  <2> DEFINE Good(x, p) ==
        p # "idle" =>
          /\ x.signal \in Signals
          /\ x.quantity \in Quantities
          /\ p \notin {"read", "context"} => x.seen = Awaiting
          /\ p \in {"calling", "answered", "flushed"} => x.approved
          /\ x.approved => /\ p \notin {"read", "context"}
                           /\ x.quantity \in 1 .. Ceiling[x.signal]
                           /\ x.bot = "ACTIVE"
  <2>1. Good(req'[r], pc'[r])
    <3> USE DEF TypeOK, Goto, Finish, Fail, Procs
    <3>1. ASSUME NEW s \in Signals, NEW q \in Quantities, SubmitRead(r, s, q)
          PROVE  Good(req'[r], pc'[r])
      BY <3>1 DEF SubmitRead, NoRequest
    <3>2. ASSUME NEW b \in BOOLEAN, SubmitEvaluate(r, b)
          PROVE  Good(req'[r], pc'[r])
      <4>1. req[r] \in Request /\ Good(req[r], pc[r]) /\ pc[r] = "context"
        BY <3>2 DEF SubmitEvaluate, RequestInv
      <4>2. Ceiling[req[r].signal] \in Nat /\ req[r].quantity \in Int
        BY <4>1, DataAssumption
      <4> DEFINE a == b /\ Approves(req[r].signal, req[r].quantity,
                                    req[r].bot, settled + locked)
      <4>3. a => /\ req[r].quantity \in 1 .. Ceiling[req[r].signal]
                 /\ req[r].bot = "ACTIVE"
        BY <4>1, <4>2 DEF Approves, Request, BotStates
      <4>4. req' = [req EXCEPT ![r] = [req[r] EXCEPT !.approved = a]]
            /\ pc'[r] = "decided" /\ req[r].seen = Awaiting
        BY <3>2 DEF SubmitEvaluate
      <4> HIDE DEF a
      <4>5. QED
        BY <4>1, <4>3, <4>4 DEF Request
    <3>3. ASSUME SubmitContext(r) \/ SubmitPersist(r) \/ SubmitLock(r)
                 \/ SubmitShort(r) \/ BrokerAnswers(r) \/ BrokerRetry(r)
                 \/ BrokerRaises(r) \/ SubmitFlush(r)
          PROVE  Good(req'[r], pc'[r])
      <4>1. req[r] \in Request /\ Good(req[r], pc[r])
        BY DEF RequestInv
      <4>2. /\ UNCHANGED <<req[r].signal, req[r].quantity, req[r].seen,
                            req[r].approved>>
            /\ pc[r] # "read" => UNCHANGED req[r].bot
        BY <3>3, <4>1 DEF SubmitContext, SubmitPersist, SubmitLock,
           SubmitShort, BrokerAnswers, BrokerRetry, BrokerRaises, SubmitFlush, Request
      <4>3. /\ pc[r] # "idle"
            /\ pc'[r] \in {"read", "context"} <=> pc[r] \in {"read", "context"}
            /\ pc'[r] \in {"calling", "answered", "flushed"} => req[r].approved
        BY <3>3, <4>1 DEF SubmitContext, SubmitPersist, SubmitLock,
           SubmitShort, BrokerAnswers, BrokerRetry, BrokerRaises, SubmitFlush,
           Fail, Goto
      <4>4. QED
        BY <4>1, <4>2, <4>3
    <3>4. ASSUME SubmitNotAwaiting(r) \/ SubmitBusy(r) \/ SubmitRejected(r)
                 \/ SubmitConflict(r) \/ SubmitCommit(r) \/ SubmitRollback(r)
          PROVE  Good(req'[r], pc'[r])
      BY <3>4 DEF SubmitNotAwaiting, SubmitBusy, SubmitRejected,
         SubmitConflict, SubmitCommit, SubmitRollback
    <3>5. QED
      BY <1>1, <3>1, <3>2, <3>3, <3>4 DEF OneSubmits, SubmitStep
  <2>2. QED
    BY <1>1, <2>1, OneAtATime DEF RequestInv, Procs
<1>2. CASE OthersStep
  BY <1>2, OthersLeaveRequests DEF RequestInv
<1>3. CASE Restart
  BY <1>3 DEF Restart, RequestInv, Procs
<1>4. QED
  BY <1>1, <1>2, <1>3 DEF Next, Environment, OneSubmits, OthersStep

(* A lock stays covered while it is uncommitted, because no other request  *)
(* can commit one: a commit leaves no writer at all.                       *)
LEMMA OverlayStep ==
  TypeOK /\ WriterInv /\ RequestInv /\ OverlayInv /\ [Next]_vars => OverlayInv'
<1> SUFFICES ASSUME TypeOK, WriterInv, RequestInv, OverlayInv, [Next]_vars
             PROVE  OverlayInv'
  OBVIOUS
<1>1. ASSUME NEW r \in Submitters, SubmitCommit(r)
      PROVE  OverlayInv'
  <2>1. \A t \in Submitters : pc'[t] \notin Writing
    BY <1>1, SetsAssumption
    DEF SubmitCommit, CommitRows, Finish, Goto, WriterInv, TypeOK, Procs, Writing
  <2>2. QED
    BY <2>1 DEF OverlayInv, Writing
<1>2. ASSUME NEW r \in Submitters, OneSubmits(r), ~ SubmitCommit(r)
      PROVE  OverlayInv'
  <2> DEFINE Good(x, p, s) ==
        p \in {"calling", "answered", "flushed"} =>
          x.delta = - Cost(x.signal, x.quantity) /\ s + x.delta >= 0
  <2>1. settled' = settled
    BY <1>2 DEF OneSubmits, SubmitStep, db, SubmitRead, SubmitContext, SubmitNotAwaiting,
         SubmitEvaluate, SubmitPersist, SubmitBusy, SubmitRejected, SubmitLock,
         SubmitShort, BrokerAnswers, BrokerRetry, BrokerRaises, SubmitFlush,
         SubmitConflict, SubmitRollback
  <2>2. req[r] \in Request /\ settled \in Int /\ Good(req[r], pc[r], settled)
    BY DEF TypeOK, OverlayInv
  <2>3. Good(req'[r], pc'[r], settled)
    <3>1. CASE SubmitLock(r)
      <4> DEFINE c == Cost(req[r].signal, req[r].quantity)
      <4>1. c \in Int /\ c <= settled
        BY <3>1, <2>2, CostIsInt DEF SubmitLock, RequestInv, Request
      <4>2. req' = [req EXCEPT ![r] = [req[r] EXCEPT !.delta = - c]]
        BY <3>1 DEF SubmitLock
      <4>3. /\ req'[r].delta = - c
            /\ req'[r].signal = req[r].signal
            /\ req'[r].quantity = req[r].quantity
        BY <2>2, <4>2 DEF TypeOK, Request
      <4>4. - c = - Cost(req'[r].signal, req'[r].quantity)
        BY <4>3
      <4> HIDE DEF c
      <4>5. QED
        BY <4>1, <4>3, <4>4, <2>2
    <3>2. CASE BrokerAnswers(r) \/ BrokerRetry(r) \/ SubmitFlush(r)
      <4>1. UNCHANGED <<req[r].signal, req[r].quantity, req[r].delta>>
        BY <3>2, <2>2 DEF BrokerAnswers, BrokerRetry, SubmitFlush, TypeOK, Request
      <4>2. pc[r] \in {"calling", "answered"}
        BY <3>2 DEF BrokerAnswers, BrokerRetry, SubmitFlush
      <4>3. QED
        BY <4>1, <4>2, <2>2
    <3>3. CASE ~ (SubmitLock(r) \/ BrokerAnswers(r) \/ BrokerRetry(r) \/ SubmitFlush(r))
      <4>1. pc'[r] \notin {"calling", "answered", "flushed"}
        BY <3>3, <1>2 DEF OneSubmits, SubmitStep, SubmitRead, SubmitContext, SubmitNotAwaiting,
         SubmitEvaluate, SubmitPersist, SubmitBusy, SubmitRejected,
         SubmitShort, BrokerRaises, SubmitConflict, SubmitRollback,
         Finish, Fail, Goto, TypeOK, Procs
      <4>2. QED
        BY <4>1
    <3>4. QED
      BY <3>1, <3>2, <3>3
  <2>4. \A t \in Submitters \ {r} : pc'[t] = pc[t] /\ req'[t] = req[t]
    BY <1>2, OneAtATime DEF Procs
  <2>5. QED
    BY <2>1, <2>3, <2>4 DEF OverlayInv
<1>3. CASE OthersStep
  BY <1>3, OthersLeaveRequests DEF OverlayInv
<1>4. CASE Restart
  BY <1>4 DEF Restart, OverlayInv, Procs
<1>5. QED
  BY <1>1, <1>2, <1>3, <1>4 DEF Next, Environment, OneSubmits, OthersStep

(* The committed tables change in one request's commit, or in panic's marks. *)
LEMMA TablesStep ==
  ASSUME TypeOK, [Next]_vars
  PROVE  \/ \E r \in Submitters : SubmitCommit(r)
         \/ /\ UNCHANGED <<events, settled, locked>>
            /\ \A o \in orders' : \E p \in orders :
                 o.signal = p.signal /\ o.quantity = p.quantity
            /\ \A p \in orders : \E o \in orders' :
                 o.signal = p.signal /\ o.quantity = p.quantity
            /\ UNCHANGED orders \/ \E O \in SUBSET orders : MarkCancelled(O)
<1> USE DEF db, vars
<1>1. ASSUME NEW r \in Submitters, OneSubmits(r), ~ SubmitCommit(r)
      PROVE  UNCHANGED <<orders, events, settled, locked>>
  BY <1>1 DEF OneSubmits, SubmitStep, SubmitRead, SubmitContext, SubmitNotAwaiting,
         SubmitEvaluate, SubmitPersist, SubmitBusy, SubmitRejected, SubmitLock,
         SubmitShort, BrokerAnswers, BrokerRetry, BrokerRaises, SubmitFlush,
         SubmitConflict, SubmitRollback
<1>2. ASSUME NEW O \in SUBSET orders, MarkCancelled(O)
      PROVE  /\ \A o \in orders' : \E p \in orders :
                  o.signal = p.signal /\ o.quantity = p.quantity
             /\ \A p \in orders : \E o \in orders' :
                  o.signal = p.signal /\ o.quantity = p.quantity
             /\ UNCHANGED <<events, settled, locked>>
  <2> DEFINE mark(o) == IF o \in O THEN [o EXCEPT !.status = "CANCELLED"] ELSE o
  <2>1. \A o \in orders : mark(o).signal = o.signal /\ mark(o).quantity = o.quantity
    BY DEF TypeOK, OrderRow
  <2>2. orders' = {mark(o) : o \in orders}
    BY <1>2 DEF MarkCancelled, Marked
  <2> HIDE DEF mark
  <2>3. QED
    BY <1>2, <2>1, <2>2 DEF MarkCancelled
<1>3. ASSUME OthersStep, ~ \E O \in SUBSET orders : MarkCancelled(O)
      PROVE  UNCHANGED <<orders, events, settled, locked>>
  BY <1>3 DEF OthersStep, RejectRead, RejectStep, RejectCommit, RejectBusy, RejectEnd,
     ReconcileRead, ReconcileStep, ReconcileCommit, ReconcileBusy, ReconcileEnd,
     GenerateSignals, SetBot, BrokerMoves
<1>4. CASE Restart
  BY <1>4 DEF Restart
<1>5. QED
  BY <1>1, <1>2, <1>3, <1>4 DEF Next, Environment, OneSubmits, OthersStep

(* The ledger moves only in a commit, whose lock is covered. *)
LEMMA OverdraftStep ==
  TypeOK /\ OverlayInv /\ NoOverdraft /\ [Next]_vars => NoOverdraft'
<1> SUFFICES ASSUME TypeOK, OverlayInv, NoOverdraft, [Next]_vars
             PROVE  NoOverdraft'
  OBVIOUS
<1>1. ASSUME NEW r \in Submitters, SubmitCommit(r)
      PROVE  NoOverdraft'
  BY <1>1 DEF SubmitCommit, CommitRows, OverlayInv, NoOverdraft
<1>2. QED
  BY <1>1, TablesStep DEF NoOverdraft

(* An order is committed together with the approval it stands on. *)
LEMMA ApprovedStep ==
  TypeOK /\ RequestInv /\ OrdersAreApproved /\ [Next]_vars => OrdersAreApproved'
<1> SUFFICES ASSUME TypeOK, RequestInv, OrdersAreApproved, [Next]_vars
             PROVE  OrdersAreApproved'
  OBVIOUS
<1>1. ASSUME NEW r \in Submitters, SubmitCommit(r)
      PROVE  OrdersAreApproved'
  <2>1. req[r].quantity \in 1 .. Ceiling[req[r].signal]
    BY <1>1 DEF SubmitCommit, CommitRows, RequestInv
  <2> DEFINE row == [signal |-> req[r].signal, quantity |-> req[r].quantity,
                     brokerId |-> req[r].answer.id, status |-> req[r].answer.status]
             approval == [signal |-> req[r].signal, quantity |-> req[r].quantity,
                          decision |-> "APPROVE"]
  <2>2. orders' = orders \cup {row} /\ events' = events \cup {approval}
    BY <1>1 DEF SubmitCommit, CommitRows
  <2>3. /\ [signal |-> row.signal, quantity |-> row.quantity,
            decision |-> "APPROVE"] = approval
        /\ row.quantity \in 1 .. Ceiling[row.signal]
    BY <2>1
  <2> HIDE DEF row, approval
  <2>4. QED
    BY <2>2, <2>3 DEF OrdersAreApproved
<1>2. QED
  BY <1>1, TablesStep DEF OrdersAreApproved

(* A committed order was the first of its signal when it was flushed, and  *)
(* panic only rewrites rows.                                               *)
LEMMA OneOrderStep ==
  TypeOK /\ FlushedInv /\ OneOrderPerSignal /\ [Next]_vars => OneOrderPerSignal'
<1> SUFFICES ASSUME TypeOK, FlushedInv, OneOrderPerSignal, [Next]_vars
             PROVE  OneOrderPerSignal'
  OBVIOUS
<1>1. ASSUME NEW r \in Submitters, SubmitCommit(r)
      PROVE  OneOrderPerSignal'
  BY <1>1 DEF SubmitCommit, CommitRows, FlushedInv, OneOrderPerSignal
<1>2. ASSUME NEW O \in SUBSET orders, MarkCancelled(O)
      PROVE  OneOrderPerSignal'
  <2> DEFINE mark(o) == IF o \in O THEN [o EXCEPT !.status = "CANCELLED"] ELSE o
  <2>1. \A o \in orders : mark(o).signal = o.signal
    BY DEF TypeOK, OrderRow
  <2>2. orders' = {mark(o) : o \in orders}
    BY <1>2 DEF MarkCancelled, Marked
  <2> HIDE DEF mark
  <2>3. QED
    BY <2>1, <2>2 DEF OneOrderPerSignal
<1>3. QED
  BY <1>1, <1>2, TablesStep DEF OneOrderPerSignal

(* A commit books the order together with its lock; panic rewrites orders  *)
(* without touching what they cost.                                        *)
LEMMA LocksStep ==
  ASSUME TypeOK, RequestInv, OverlayInv, FlushedInv, OneOrderPerSignal,
         IsFiniteSet(orders), LocksBackOrders, [Next]_vars
  PROVE  IsFiniteSet(orders') /\ LocksBackOrders'
<1> DEFINE costs == [o \in orders |-> Cost(o.signal, o.quantity)]
           after == [o \in orders' |-> Cost(o.signal, o.quantity)]
<1>1. orders \subseteq OrderRow /\ settled \in Int /\ locked \in Int
  BY DEF TypeOK
<1>2. \A o \in orders : costs[o] = Cost(o.signal, o.quantity) /\ costs[o] \in Int
  BY <1>1, CostIsInt DEF OrderRow
<1>3. locked = SumOver(orders, costs) /\ settled = SeedCash - locked
  BY DEF LocksBackOrders
<1>4. ASSUME NEW r \in Submitters, SubmitCommit(r)
      PROVE  IsFiniteSet(orders') /\ LocksBackOrders'
  <2>1. PICK row : row = [signal |-> req[r].signal, quantity |-> req[r].quantity,
                          brokerId |-> req[r].answer.id, status |-> req[r].answer.status]
    OBVIOUS
  <2>2. PICK c : c = Cost(req[r].signal, req[r].quantity)
    OBVIOUS
  <2>3. /\ orders' = orders \cup {row}
        /\ settled' = settled + req[r].delta
        /\ locked' = locked - req[r].delta
    BY <1>4, <2>1 DEF SubmitCommit, CommitRows
  <2>4. req[r].delta = - c /\ row \notin orders
    BY <1>4, <2>1, <2>2 DEF SubmitCommit, OverlayInv, FlushedInv
  <2>5. req[r].delta \in Int
    BY DEF TypeOK, Request
  <2>6. after[row] = c
    BY <2>1, <2>2, <2>3
  <2>7. c \in Int
    <3>1. req[r].quantity \in Int /\ req[r].signal \in Signals
      BY <1>4 DEF SubmitCommit, TypeOK, Request, RequestInv
    <3> QED
      BY <2>2, <3>1, CostIsInt
  <2>8. \A o \in orders : after[o] = costs[o]
    BY <2>3
  <2>9. \A o \in orders \cup {row} : after[o] \in Int
    BY <1>2, <2>6, <2>7, <2>8
  <2> HIDE DEF costs, after
  <2>10. SumOver(orders \cup {row}, after) = SumOver(orders, after) + after[row]
    BY ONLY IsFiniteSet(orders), <2>4, <2>9, SumAdd
  <2>11. SumOver(orders, costs) = SumOver(orders, after)
    BY ONLY IsFiniteSet(orders), <1>2, <2>8, SumSame
  <2>12. locked' = SumOver(orders', after)
    BY ONLY <1>1, <1>3, <2>3, <2>4, <2>6, <2>7, <2>10, <2>11
  <2>13. SeedCash \in Int
    BY DataAssumption
  <2>14. settled' = SeedCash - locked'
    BY ONLY <1>1, <1>3, <2>3, <2>5, <2>13
  <2>15. IsFiniteSet(orders')
    BY <2>3, FS_AddElement
  <2> QED
    BY <2>12, <2>14, <2>15 DEF LocksBackOrders, after
<1>5. ASSUME NEW O \in SUBSET orders, MarkCancelled(O), UNCHANGED <<settled, locked>>
      PROVE  IsFiniteSet(orders') /\ LocksBackOrders'
  <2>1. PICK mark : mark = [o \in orders |->
                             IF o \in O THEN [o EXCEPT !.status = "CANCELLED"] ELSE o]
    OBVIOUS
  <2>2. orders' = {mark[o] : o \in orders}
    BY <1>5, <2>1 DEF MarkCancelled, Marked
  <2>3. \A o \in orders : mark[o].signal = o.signal /\ mark[o].quantity = o.quantity
    BY <1>1, <2>1 DEF OrderRow
  <2>4. \A o, p \in orders : mark[o] = mark[p] => o = p
    BY <2>3 DEF OneOrderPerSignal
  <2>5. mark \in [orders -> orders']
    BY <2>1, <2>2
  <2>6. \A o \in orders : costs[o] \in Int /\ after[mark[o]] = costs[o]
    BY <1>2, <2>2, <2>3
  <2> HIDE DEF costs, after
  <2>7. IsFiniteSet(orders') /\ SumOver(orders', after) = SumOver(orders, costs)
    BY ONLY IsFiniteSet(orders), <2>2, <2>4, <2>5, <2>6, SumImage
  <2> QED
    BY <1>3, <1>5, <2>7 DEF LocksBackOrders, after
<1>6. CASE UNCHANGED <<orders, settled, locked>>
  BY <1>6 DEF LocksBackOrders
<1> HIDE DEF costs, after
<1> QED
  BY <1>4, <1>5, <1>6, TablesStep

(* Between a flush and its commit nobody else commits an order. *)
LEMMA FlushedStep ==
  TypeOK /\ WriterInv /\ FlushedInv /\ [Next]_vars => FlushedInv'
<1> SUFFICES ASSUME TypeOK, WriterInv, FlushedInv, [Next]_vars
             PROVE  FlushedInv'
  OBVIOUS
<1>1. ASSUME NEW r \in Submitters, SubmitCommit(r)
      PROVE  FlushedInv'
  <2>1. \A t \in Submitters : pc'[t] \notin Writing
    BY <1>1, SetsAssumption
    DEF SubmitCommit, CommitRows, Finish, Goto, WriterInv, TypeOK, Procs, Writing
  <2>2. QED
    BY <2>1 DEF FlushedInv, Writing
<1>2. ASSUME NEW r \in Submitters, OneSubmits(r), ~ SubmitCommit(r)
      PROVE  FlushedInv'
  <2>1. \A t \in Submitters \ {r} : pc'[t] = pc[t] /\ req'[t] = req[t]
    BY <1>2, OneAtATime DEF Procs
  <2>2. pc'[r] = "flushed" => \A o \in orders : o.signal # req'[r].signal
    BY <1>2 DEF OneSubmits, SubmitStep, SubmitRead, SubmitContext, SubmitNotAwaiting,
         SubmitEvaluate, SubmitPersist, SubmitBusy, SubmitRejected, SubmitLock,
         SubmitShort, BrokerAnswers, BrokerRetry, BrokerRaises, SubmitFlush,
         SubmitConflict, SubmitRollback, Finish, Fail, Goto, TypeOK, Procs, Conflicts
  <2>3. UNCHANGED orders
    BY <1>2 DEF db, OneSubmits, SubmitStep, SubmitRead, SubmitContext, SubmitNotAwaiting,
         SubmitEvaluate, SubmitPersist, SubmitBusy, SubmitRejected, SubmitLock,
         SubmitShort, BrokerAnswers, BrokerRetry, BrokerRaises, SubmitFlush,
         SubmitConflict, SubmitRollback
  <2>4. QED
    BY <2>1, <2>2, <2>3 DEF FlushedInv
<1>3. CASE OthersStep
  BY <1>3, OthersLeaveRequests DEF FlushedInv
<1>4. CASE Restart
  BY <1>4 DEF Restart, FlushedInv, Procs
<1>5. QED
  BY <1>1, <1>2, <1>3, <1>4 DEF Next, Environment, OneSubmits, OthersStep

(* All the ways a status changes. *)
LEMMA SignalStep ==
  ASSUME TypeOK, RequestInv, StaleInv, [Next]_vars, NEW s \in Signals
  PROVE  \/ signal'[s] = signal[s]
         \/ signal[s] = "ABSENT" /\ signal'[s] = Awaiting
         \/ signal[s] # "ABSENT" /\ signal'[s] = "REJECTED"
         \/ signal'[s] = "EXPIRED" /\ \E c \in Reconcilers : s \in stale[c]
         \/ /\ signal'[s] = "EXECUTED"
            /\ \E r \in Submitters : SubmitCommit(r) /\ req[r].signal = s
<1> USE DEF TypeOK, db, vars
<1>1. ASSUME NEW r \in Submitters, SubmitCommit(r)
      PROVE  signal'[s] = signal[s] \/ (signal'[s] = "EXECUTED" /\ req[r].signal = s)
  BY <1>1 DEF SubmitCommit
<1>2. ASSUME NEW r \in Submitters, OneSubmits(r), ~ SubmitCommit(r)
      PROVE  UNCHANGED signal
  BY <1>2 DEF OneSubmits, SubmitStep, SubmitRead, SubmitContext, SubmitNotAwaiting,
         SubmitEvaluate, SubmitPersist, SubmitBusy, SubmitRejected, SubmitLock,
         SubmitShort, BrokerAnswers, BrokerRetry, BrokerRaises, SubmitFlush,
         SubmitConflict, SubmitRollback
<1>3. ASSUME NEW j \in Rejecters, RejectStep(j)
      PROVE  signal'[s] = signal[s] \/ (signal[s] # "ABSENT" /\ signal'[s] = "REJECTED")
  BY <1>3 DEF RejectStep, RejectCommit, RejectBusy, RejectEnd, StaleInv
<1>4. ASSUME NEW c \in Reconcilers, ReconcileStep(c)
      PROVE  signal'[s] = signal[s] \/ (signal'[s] = "EXPIRED" /\ s \in stale[c])
  BY <1>4 DEF ReconcileStep, ReconcileCommit, ReconcileBusy
<1>5. ASSUME NEW S \in SUBSET Signals, GenerateSignals(S)
      PROVE  signal'[s] = signal[s] \/ (signal[s] = "ABSENT" /\ signal'[s] = Awaiting)
  BY <1>5 DEF GenerateSignals
<1>6. ASSUME OthersStep, ~ \E S \in SUBSET Signals : GenerateSignals(S),
             ~ \E j \in Rejecters : RejectStep(j),
             ~ \E c \in Reconcilers : ReconcileStep(c)
      PROVE  UNCHANGED signal
  BY <1>6 DEF OthersStep, RejectRead, ReconcileRead, SetBot, BrokerMoves, MarkCancelled
<1>7. CASE Restart
  BY <1>7 DEF Restart
<1>8. QED
  BY <1>1, <1>2, <1>3, <1>4, <1>5, <1>6, <1>7 DEF Next, Environment, OneSubmits, OthersStep

(* A request works on the signal and the status it loaded first. *)
LEMMA CarriedOrRead ==
  ASSUME TypeOK, [Next]_vars, NEW r \in Submitters, pc'[r] # "idle"
  PROVE  \/ /\ pc[r] # "idle"
            /\ req'[r].signal = req[r].signal
            /\ req'[r].seen = req[r].seen
         \/ \E s \in Signals, q \in Quantities : SubmitRead(r, s, q)
<1>1. CASE SubmitStep(r)
  <2>1. req[r] \in Request
    BY DEF TypeOK
  <2>2. pc[r] # "idle"
    BY <1>1 DEF SubmitStep, SubmitContext, SubmitNotAwaiting, SubmitEvaluate,
       SubmitPersist, SubmitBusy, SubmitRejected, SubmitLock, SubmitShort,
       BrokerAnswers, BrokerRetry, BrokerRaises, SubmitFlush, SubmitConflict,
       SubmitCommit, CommitRows, SubmitRollback
  <2>3. req'[r].signal = req[r].signal /\ req'[r].seen = req[r].seen
    BY <1>1, <2>1 DEF TypeOK, Request, Finish, Fail, Goto, Procs, SubmitStep, SubmitContext, SubmitNotAwaiting, SubmitEvaluate,
       SubmitPersist, SubmitBusy, SubmitRejected, SubmitLock, SubmitShort,
       BrokerAnswers, BrokerRetry, BrokerRaises, SubmitFlush, SubmitConflict,
       SubmitCommit, CommitRows, SubmitRollback
  <2>4. QED
    BY <2>2, <2>3
<1>2. ASSUME NEW t \in Submitters \ {r}, OneSubmits(t)
      PROVE  pc'[r] = pc[r] /\ req'[r] = req[r]
  BY <1>2, OneAtATime DEF Procs
<1>3. CASE OthersStep
  BY <1>3, OthersLeaveRequests
<1>4. CASE Restart
  BY <1>4 DEF Restart, Procs
<1>5. QED
  BY <1>1, <1>2, <1>3, <1>4 DEF Next, Environment, OneSubmits, OthersStep

(* What reject requests and reconciliation runs loaded. *)
LEMMA LoadedStep ==
  ASSUME TypeOK, [Next]_vars
  PROVE  /\ \A j \in Rejecters : pc'[j] = "read" =>
              \/ pc[j] = "read" /\ seen'[j] = seen[j]
              \/ \E s \in Signals : RejectRead(j, s)
         /\ \A c \in Reconcilers :
              stale'[c] \subseteq stale[c] \/ ReconcileRead(c)
<1> USE SetsAssumption DEF TypeOK, db, vars, Goto, Procs
<1>1. ASSUME NEW r \in Submitters, OneSubmits(r)
      PROVE  /\ UNCHANGED <<seen, stale>>
             /\ \A j \in Rejecters : pc'[j] = pc[j]
  BY <1>1, OneAtATime
<1>2. ASSUME NEW j \in Rejecters, RejectStep(j)
      PROVE  /\ UNCHANGED stale
             /\ pc'[j] # "read"
             /\ \A i \in Rejecters \ {j} : pc'[i] = pc[i] /\ seen'[i] = seen[i]
  BY <1>2 DEF RejectStep, RejectCommit, RejectBusy, RejectEnd
<1>3. ASSUME NEW j \in Rejecters, NEW s \in Signals, RejectRead(j, s)
      PROVE  /\ UNCHANGED stale
             /\ \A i \in Rejecters \ {j} : pc'[i] = pc[i] /\ seen'[i] = seen[i]
  BY <1>3 DEF RejectRead
<1>4. ASSUME NEW c \in Reconcilers, ReconcileRead(c) \/ ReconcileStep(c)
      PROVE  /\ UNCHANGED seen
             /\ \A j \in Rejecters : pc'[j] = pc[j]
             /\ stale'[c] \subseteq stale[c] \/ ReconcileRead(c)
             /\ \A d \in Reconcilers \ {c} : stale'[d] = stale[d]
  BY <1>4 DEF ReconcileRead, ReconcileStep, ReconcileCommit, ReconcileBusy, ReconcileEnd
<1>5. CASE \/ \E S \in SUBSET Signals : GenerateSignals(S)
           \/ \E state \in BotStates : SetBot(state)
           \/ \E O \in SUBSET orders : MarkCancelled(O)
  <2>1. UNCHANGED <<pc, seen, stale>>
    BY <1>5 DEF GenerateSignals, SetBot, MarkCancelled
  <2>2. QED
    BY <2>1
<1>6. CASE \E i \in DOMAIN broker : BrokerMoves(i)
  <2>1. UNCHANGED <<pc, seen, stale>>
    BY <1>6 DEF BrokerMoves
  <2>2. QED
    BY <2>1
<1>7. CASE Restart
  BY <1>7 DEF Restart
<1>8. CASE UNCHANGED vars
  BY <1>8
<1> HIDE DEF TypeOK, db, vars
<1>9. CASE \E j \in Rejecters : (\E s \in Signals : RejectRead(j, s)) \/ RejectStep(j)
  BY <1>2, <1>3, <1>9
<1>10. CASE \E c \in Reconcilers : ReconcileRead(c) \/ ReconcileStep(c)
  BY <1>4, <1>10
<1>11. CASE \E r \in Submitters : OneSubmits(r)
  BY <1>1, <1>11
<1>12. QED
  BY <1>5, <1>6, <1>7, <1>8, <1>9, <1>10, <1>11 DEF Next, Environment, OneSubmits

(* No step takes the order out of an EXECUTED signal or reopens one. *)
LEMMA ClosedStep ==
  TypeOK /\ RequestInv /\ StaleInv /\ OrderedSignalsAreClosed /\ [Next]_vars
    => OrderedSignalsAreClosed'
<1> SUFFICES ASSUME TypeOK, RequestInv, StaleInv, OrderedSignalsAreClosed, [Next]_vars
             PROVE  OrderedSignalsAreClosed'
  OBVIOUS
<1>1. ASSUME NEW r \in Submitters, SubmitCommit(r)
      PROVE  OrderedSignalsAreClosed'
  <2> DEFINE row == [signal |-> req[r].signal, quantity |-> req[r].quantity,
                     brokerId |-> req[r].answer.id, status |-> req[r].answer.status]
             s == req[r].signal
  <2>1. orders' = orders \cup {row} /\ row.signal = s
    BY <1>1 DEF SubmitCommit, CommitRows
  <2>2. signal' = [signal EXCEPT ![s] = "EXECUTED"] /\ s \in Signals
    BY <1>1 DEF SubmitCommit, CommitRows, RequestInv
  <2> HIDE DEF row, s
  <2>3. QED
    BY <2>1, <2>2 DEF OrderedSignalsAreClosed, TypeOK, OrderRow
<1>2. ASSUME ~ \E r \in Submitters : SubmitCommit(r)
      PROVE  OrderedSignalsAreClosed'
  <2>1. /\ \A o \in orders' : \E p \in orders : o.signal = p.signal
        /\ \A p \in orders : \E o \in orders' :
             o.signal = p.signal /\ o.quantity = p.quantity
    BY <1>2, TablesStep
  <2>2. \A o \in orders : o.signal \in Signals
    BY DEF TypeOK, OrderRow
  <2>3. \A o \in orders : signal'[o.signal] \in {"EXECUTED", "REJECTED"}
    BY <1>2, <2>2, SignalStep DEF OrderedSignalsAreClosed, StaleInv
  <2>4. \A s \in Signals : signal'[s] = "EXECUTED" => signal[s] = "EXECUTED"
    BY <1>2, SignalStep DEF Awaiting
  <2>5. QED
    BY <2>1, <2>2, <2>3, <2>4 DEF OrderedSignalsAreClosed
<1>3. QED
  BY <1>1, <1>2

(* A status loaded by one handler is aged by the others in known ways      *)
(* only.                                                                   *)
LEMMA StaleStep ==
  TypeOK /\ RequestInv /\ StaleInv /\ OrderedSignalsAreClosed /\ [Next]_vars
    => StaleInv'
<1> SUFFICES ASSUME TypeOK, RequestInv, StaleInv, OrderedSignalsAreClosed, [Next]_vars
             PROVE  StaleInv'
  OBVIOUS
<1>1. ASSUME NEW c \in Reconcilers, NEW s \in stale'[c]
      PROVE  \/ s \in stale[c]
             \/ s \in Signals /\ signal[s] = "PENDING" /\ UNCHANGED <<signal, orders, req>>
  BY LoadedStep DEF ReconcileRead, TypeOK, db
<1>2. ASSUME NEW r \in Submitters, pc'[r] # "idle", req'[r].seen = Awaiting
      PROVE  /\ signal'[req'[r].signal] \in {Awaiting, "REJECTED", "EXECUTED"}
             /\ \A c \in Reconcilers : req'[r].signal \notin stale'[c]
  <2>1. CASE \E s \in Signals, q \in Quantities : SubmitRead(r, s, q)
    <3>1. PICK s \in Signals, q \in Quantities : SubmitRead(r, s, q)
      BY <2>1
    <3>2. /\ UNCHANGED <<signal, stale>>
          /\ req'[r].signal = s
          /\ req'[r].seen = signal[s]
      BY <3>1 DEF SubmitRead, TypeOK, NoRequest, db
    <3>3. QED
      BY <1>2, <3>2 DEF StaleInv, Awaiting
  <2>2. CASE /\ pc[r] # "idle"
             /\ req'[r].signal = req[r].signal
             /\ req'[r].seen = req[r].seen
    <3> DEFINE s == req[r].signal
    <3>1. /\ s \in Signals
          /\ signal[s] \in {Awaiting, "REJECTED", "EXECUTED"}
          /\ \A c \in Reconcilers : s \notin stale[c]
      BY <1>2, <2>2 DEF StaleInv, RequestInv
    <3> HIDE DEF s
    <3>2. signal'[s] \in {Awaiting, "REJECTED", "EXECUTED"}
      BY <3>1, SignalStep
    <3>3. \A c \in Reconcilers : s \notin stale'[c]
      BY <1>1, <3>1 DEF Awaiting
    <3>4. QED
      BY <2>2, <3>2, <3>3 DEF s
  <2>3. QED
    BY <1>2, <2>1, <2>2, CarriedOrRead
<1>3. ASSUME NEW j \in Rejecters, pc'[j] = "read"
      PROVE  seen'[j].signal \in Signals /\ signal'[seen'[j].signal] # "ABSENT"
  <2>1. CASE pc[j] = "read" /\ seen'[j] = seen[j]
    BY <2>1, SignalStep DEF StaleInv, Awaiting
  <2>2. CASE \E s \in Signals : RejectRead(j, s)
    BY <2>2 DEF RejectRead, TypeOK, db
  <2>3. QED
    BY <1>3, <2>1, <2>2, LoadedStep
<1>4. ASSUME NEW c \in Reconcilers, NEW s \in stale'[c]
      PROVE  /\ signal'[s] \in {"PENDING", "REJECTED", "EXPIRED"}
             /\ \A o \in orders' : o.signal # s
  <2>1. CASE s \in stale[c]
    <3>1. /\ s \in Signals
          /\ signal[s] \in {"PENDING", "REJECTED", "EXPIRED"}
          /\ \A o \in orders : o.signal # s
      BY <2>1 DEF StaleInv, TypeOK
    <3>2. ASSUME NEW r \in Submitters, SubmitCommit(r)
          PROVE  req[r].signal # s
      BY <2>1, <3>2 DEF SubmitCommit, CommitRows, StaleInv, RequestInv
    <3>3. signal'[s] \in {"PENDING", "REJECTED", "EXPIRED"}
      BY <3>1, <3>2, SignalStep
    <3>4. \A o \in orders' : o.signal # s
      BY <3>1, <3>2, TablesStep DEF SubmitCommit, CommitRows
    <3>5. QED
      BY <3>3, <3>4
  <2>2. CASE s \in Signals /\ signal[s] = "PENDING" /\ UNCHANGED <<signal, orders>>
    BY <2>2 DEF OrderedSignalsAreClosed
  <2>3. QED
    BY <1>1, <1>4, <2>1, <2>2
<1>5. QED
  BY <1>2, <1>3, <1>4 DEF StaleInv

(* The inductive invariant holds at start-up. *)
LEMMA InitInv == Init => IInv
<1> SUFFICES ASSUME Init
             PROVE  IInv
  OBVIOUS
<1>1. TypeOK
  BY InitType
<1>2. WriterInv /\ RequestInv /\ OverlayInv /\ FlushedInv /\ StaleInv
  BY SetsAssumption DEF Init, Procs, WriterInv, RequestInv, OverlayInv,
     FlushedInv, StaleInv, Writing
<1>3. NoOverdraft /\ OneOrderPerSignal /\ OrdersAreApproved
  BY DataAssumption DEF Init, NoOverdraft, OneOrderPerSignal, OrdersAreApproved
<1>4. OrderedSignalsAreClosed
  BY DEF Init, OrderedSignalsAreClosed, Awaiting
<1>5. IsFiniteSet(orders) /\ LocksBackOrders
  <2>1. PICK costs : costs = [o \in orders |-> Cost(o.signal, o.quantity)]
    OBVIOUS
  <2>2. orders = {} /\ locked = 0 /\ settled = SeedCash /\ SeedCash \in Int
    BY DataAssumption DEF Init
  <2>3. SumOver(orders, costs) = 0
    BY <2>2, SumEmpty
  <2>4. settled = SeedCash - locked
    BY <2>2
  <2> QED
    BY <2>1, <2>2, <2>3, <2>4, FS_EmptySet DEF LocksBackOrders
<1>6. QED
  BY <1>1, <1>2, <1>3, <1>4, <1>5 DEF IInv

(* Every step preserves the inductive invariant. *)
LEMMA StepInv == IInv /\ [Next]_vars => IInv'
BY TypeStep, WriterStep, RequestStep, OverlayStep, FlushedStep, StaleStep,
   OverdraftStep, OneOrderStep, ApprovedStep, ClosedStep, LocksStep DEF IInv

(* IInv, of which the theorems below are conjuncts, is an invariant of the *)
(* pipeline: what a handler loaded, locked or flushed stays valid through  *)
(* every interleaving and crash, until the handler uses it.                *)
THEOREM Inductive == Spec => []IInv
BY InitInv, StepInv, PTL DEF Spec

(* Every variable keeps its type; MaxBrokerOrders bounds the broker. *)
THEOREM TypeCorrect == Spec => []TypeOK
<1>1. IInv => TypeOK
  BY DEF IInv
<1>2. QED
  BY <1>1, Inductive, PTL

(* can_lock and lock_for_order never commit more collateral than there is  *)
(* settled cash, for any number of concurrent submissions.                 *)
THEOREM Solvent == Spec => []NoOverdraft
<1>1. IInv => NoOverdraft
  BY DEF IInv
<1>2. QED
  BY <1>1, Inductive, PTL

(* Collateral is locked for the booked orders and for nothing else: no     *)
(* failure, retry, crash or panic leaves a lock without its order or an    *)
(* order without its lock, and what is not locked is still there.          *)
THEOREM LedgerBacksOrders == Spec => []LocksBackOrders
<1>1. IInv => LocksBackOrders
  BY DEF IInv
<1>2. QED
  BY <1>1, Inductive, PTL

(* No signal gets two orders rows, however many requests submit it.        *)
THEOREM NoDoubleOrder == Spec => []OneOrderPerSignal
<1>1. IInv => OneOrderPerSignal
  BY DEF IInv
<1>2. QED
  BY <1>1, Inductive, PTL

(* Every orders row has the committed approval of its quantity next to it, *)
(* and is within the ceiling the engine computed.                          *)
THEOREM OrdersStandOnApprovals == Spec => []OrdersAreApproved
<1>1. IInv => OrdersAreApproved
  BY DEF IInv
<1>2. QED
  BY <1>1, Inductive, PTL

(* A signal with an order is EXECUTED or REJECTED, and one that is EXECUTED *)
(* has an order, whatever stale status the handlers write.                 *)
THEOREM NoReopening == Spec => []OrderedSignalsAreClosed
<1>1. IInv => OrderedSignalsAreClosed
  BY DEF IInv
<1>2. QED
  BY <1>1, Inductive, PTL

(* The step form of NoResurrection. *)
LEMMA StepDoesNotResurrect ==
  ASSUME IInv, [Next]_vars, NEW s \in Signals, signal[s] # "ABSENT"
  PROVE  /\ signal'[s] \in {"PENDING", Awaiting} => signal'[s] = signal[s]
         /\ signal[s] = "EXECUTED" => signal'[s] \in {"EXECUTED", "REJECTED"}
BY SignalStep DEF IInv, StaleInv, Awaiting

(* A status never goes back to the queue by a stale write, and EXECUTED is *)
(* followed by a human's REJECTED at most.                                 *)
THEOREM QueueOnlyAdvances == Spec => NoResurrection
<1> DEFINE A ==
      \A s \in Signals : signal[s] # "ABSENT" =>
       /\ signal'[s] \in {"PENDING", Awaiting} => signal'[s] = signal[s]
       /\ signal[s] = "EXECUTED" => signal'[s] \in {"EXECUTED", "REJECTED"}
<1>1. IInv /\ [Next]_vars => A
  BY StepDoesNotResurrect
<1>2. NoResurrection <=> [][A]_vars
  BY PTL DEF NoResurrection
<1> HIDE DEF A
<1>3. QED
  BY <1>1, <1>2, Inductive, PTL DEF Spec

(* A step that adds an order at the broker is a request's whose context    *)
(* said ACTIVE.                                                            *)
LEMMA OnlyActivePlaces ==
  ASSUME IInv, [Next]_vars, bot = "HALTED",
         \A r \in Submitters : pc[r] \notin {"idle", "read"} => req[r].bot = "HALTED"
  PROVE  Len(broker') <= Len(broker)
<1>1. Len(broker) \in Nat
  BY DEF IInv, TypeOK
<1>2. ASSUME NEW r \in Submitters, OneSubmits(r)
      PROVE  UNCHANGED broker
  <2>1. pc[r] # "calling"
    BY DEF IInv, RequestInv
  <2>2. QED
    BY <1>2, <2>1 DEF OneSubmits, SubmitStep, SubmitRead, SubmitContext,
       SubmitNotAwaiting, SubmitEvaluate, SubmitPersist, SubmitBusy,
       SubmitRejected, SubmitLock, SubmitShort, BrokerAnswers, BrokerRetry,
       BrokerRaises, SubmitFlush, SubmitConflict, SubmitCommit, CommitRows,
       SubmitRollback
<1>3. ASSUME NEW i \in DOMAIN broker, BrokerMoves(i)
      PROVE  Len(broker') = Len(broker)
  <2>1. broker \in Seq(BrokerOrder)
    BY DEF IInv, TypeOK
  <2>2. \E b : broker' = [broker EXCEPT ![i] = b]
    BY <1>3 DEF BrokerMoves
  <2>3. QED
    BY <2>1, <2>2
<1>4. CASE /\ OthersStep
           /\ ~ \E i \in DOMAIN broker : BrokerMoves(i)
  BY <1>4 DEF OthersStep, RejectRead, RejectStep, RejectCommit, RejectBusy,
     RejectEnd, ReconcileRead, ReconcileStep, ReconcileCommit, ReconcileBusy,
     ReconcileEnd, GenerateSignals, SetBot, MarkCancelled, vars
<1>5. CASE Restart
  BY <1>1, <1>5 DEF Restart
<1>6. QED
  BY <1>1, <1>2, <1>3, <1>4, <1>5 DEF Next, Environment, OneSubmits, OthersStep

(* HALTED keeps orders from the broker as soon as the requests that saw    *)
(* ACTIVE are over.                                                        *)
THEOREM HaltHolds == Spec => HaltTakesHold
<1> DEFINE A ==
      /\ bot = "HALTED"
      /\ \A r \in Submitters :
           pc[r] \notin {"idle", "read"} => req[r].bot = "HALTED"
      => Len(broker') <= Len(broker)
<1>1. IInv /\ [Next]_vars => A
  BY OnlyActivePlaces
<1>2. HaltTakesHold <=> [][A]_vars
  BY PTL DEF HaltTakesHold
<1> HIDE DEF A
<1>3. QED
  BY <1>1, <1>2, Inductive, PTL DEF Spec

(* The initial database is the desk's. *)
LEMMA InitDesk == Init => Desk!Init
BY DEF Init, Desk!Init, Desk!Queue, Awaiting

(* The commit of a submission is the desk's Execute. *)
LEMMA CommitExecutes ==
  ASSUME IInv, NEW r \in Submitters, SubmitCommit(r)
  PROVE  Desk!Next
<1>1. PICK s \in Signals, q \in Quantities :
        s = req[r].signal /\ q = req[r].quantity
  BY DEF SubmitCommit, IInv, RequestInv
<1>2. /\ q \in 1 .. Ceiling[s]
      /\ signal[s] \in {Awaiting, "REJECTED", "EXECUTED"}
      /\ req[r].delta = - Cost(s, q)
      /\ settled + req[r].delta >= 0
      /\ \A o \in orders : o.signal # s
  BY <1>1 DEF SubmitCommit, IInv, RequestInv, StaleInv, OverlayInv, FlushedInv
<1>3. signal[s] # "EXECUTED"
  BY <1>1, <1>2 DEF IInv, OrderedSignalsAreClosed
<1>4. settled \in Int /\ Cost(s, q) \in Int
  BY <1>1, CostIsInt, DataAssumption DEF IInv, TypeOK
<1>5. Cost(s, q) <= settled /\ settled' = settled - Cost(s, q)
  BY <1>2, <1>4 DEF SubmitCommit, CommitRows
<1>6. {<<o.signal, o.quantity>> : o \in orders'}
        = {<<o.signal, o.quantity>> : o \in orders} \cup {<<s, q>>}
  <2> DEFINE row == [signal |-> s, quantity |-> q,
                     brokerId |-> req[r].answer.id, status |-> req[r].answer.status]
  <2>1. orders' = orders \cup {row}
    BY <1>1 DEF SubmitCommit, CommitRows
  <2>2. row.signal = s /\ row.quantity = q
    OBVIOUS
  <2> HIDE DEF row
  <2>3. QED
    BY <2>1, <2>2
<1>7. signal' = [signal EXCEPT ![s] = "EXECUTED"]
  BY <1>1 DEF SubmitCommit
<1>8. Desk!Execute(s, q)
  BY <1>2, <1>3, <1>5, <1>6, <1>7 DEF Desk!Execute, Desk!Queue, Awaiting, Cost
<1>9. QED
  BY <1>2, <1>8 DEF Desk!Next

(* Every step of the pipeline is a step of the desk, or is not seen there. *)
LEMMA StepDesk == IInv /\ [Next]_vars => [Desk!Next]_(Desk!vars)
<1> SUFFICES ASSUME IInv, [Next]_vars
             PROVE  [Desk!Next]_(Desk!vars)
  OBVIOUS
<1> DEFINE booked == {<<o.signal, o.quantity>> : o \in orders}
<1>1. CASE \E r \in Submitters : SubmitCommit(r)
  BY <1>1, CommitExecutes
<1>2. ASSUME ~ \E r \in Submitters : SubmitCommit(r)
      PROVE  booked' = booked /\ settled' = settled
  BY <1>2, TablesStep DEF IInv
<1>3. ASSUME NEW j \in Rejecters, RejectStep(j), booked' = booked, settled' = settled
      PROVE  [Desk!Next]_(Desk!vars)
  <2>1. CASE signal' = signal
    BY <1>3, <2>1 DEF Desk!vars
  <2>2. CASE signal' # signal
    <3> DEFINE s == seen[j].signal
    <3>1. s \in Signals /\ signal[s] # "ABSENT"
      BY <1>3 DEF RejectStep, RejectCommit, RejectBusy, RejectEnd, IInv, StaleInv
    <3>2. signal' = [signal EXCEPT ![s] = "REJECTED"]
      BY <1>3, <2>2 DEF RejectStep, RejectCommit, RejectBusy
    <3> HIDE DEF s
    <3>3. Desk!Reject(s)
      BY <1>3, <3>1, <3>2 DEF Desk!Reject
    <3>4. QED
      BY <3>1, <3>3 DEF Desk!Next
  <2>3. QED
    BY <2>1, <2>2
<1>4. ASSUME NEW c \in Reconcilers, ReconcileStep(c), booked' = booked, settled' = settled
      PROVE  [Desk!Next]_(Desk!vars)
  <2>1. CASE signal' = signal
    BY <1>4, <2>1 DEF Desk!vars
  <2>2. CASE signal' # signal
    <3>1. /\ stale[c] \in SUBSET Signals
          /\ \A s \in stale[c] : /\ signal[s] \in {"PENDING", "REJECTED", "EXPIRED"}
                                 /\ \A o \in orders : o.signal # s
      BY DEF IInv, TypeOK, StaleInv
    <3>2. signal' = [s \in Signals |-> IF s \in stale[c] THEN "EXPIRED" ELSE signal[s]]
      BY <1>4, <2>2 DEF ReconcileStep, ReconcileCommit, ReconcileBusy
    <3>3. Desk!Expire(stale[c])
      BY <1>4, <3>1, <3>2 DEF Desk!Expire
    <3>4. QED
      BY <3>1, <3>3 DEF Desk!Next
  <2>3. QED
    BY <2>1, <2>2
<1>5. ASSUME NEW S \in SUBSET Signals, GenerateSignals(S), booked' = booked, settled' = settled
      PROVE  [Desk!Next]_(Desk!vars)
  <2>1. Desk!Offer(S)
    BY <1>5 DEF GenerateSignals, Desk!Offer, Desk!Queue, Awaiting
  <2>2. QED
    BY <2>1 DEF Desk!Next
<1>6. ASSUME NEW r \in Submitters, OneSubmits(r), ~ SubmitCommit(r)
      PROVE  UNCHANGED signal
  BY <1>6 DEF OneSubmits, SubmitStep, SubmitRead, SubmitContext, SubmitNotAwaiting,
     SubmitEvaluate, SubmitPersist, SubmitBusy, SubmitRejected, SubmitLock,
     SubmitShort, BrokerAnswers, BrokerRetry, BrokerRaises, SubmitFlush,
     SubmitConflict, SubmitRollback, db
<1>7. ASSUME OthersStep, ~ \E S \in SUBSET Signals : GenerateSignals(S),
             ~ \E j \in Rejecters : RejectStep(j),
             ~ \E c \in Reconcilers : ReconcileStep(c)
      PROVE  UNCHANGED signal
  BY <1>7 DEF OthersStep, RejectRead, ReconcileRead, SetBot, BrokerMoves,
     MarkCancelled, db, vars
<1>8. ASSUME Restart
      PROVE  UNCHANGED signal
  BY <1>8 DEF Restart, db
<1>9. ASSUME UNCHANGED signal, booked' = booked, settled' = settled
      PROVE  [Desk!Next]_(Desk!vars)
  BY <1>9 DEF Desk!vars
<1> HIDE DEF booked
<1>10. QED
  BY <1>1, <1>2, <1>3, <1>4, <1>5, <1>6, <1>7, <1>8, <1>9
  DEF Next, Environment, OneSubmits, OthersStep

(* The interleaved, failing pipeline is the atomic desk to whoever reads   *)
(* the signals, the orders and the ledger.                                 *)
THEOREM PipelineImplementsDesk == Spec => ImplementsDesk
BY InitDesk, StepDesk, Inductive, PTL DEF Spec, ImplementsDesk, Desk!Spec

-----------------------------------------------------------------------------
(* The orders at the broker: a row with a broker id names the order it was *)
(* placed as.  With the switch in use the pipeline takes no other steps    *)
(* than its own, and what panic marked is cancelled at the broker.         *)


(* The broker holds, under the id, an order of the signal and quantity. *)
Holds(i, s, q) ==
  /\ i \in DOMAIN broker
  /\ broker[i].signal = s
  /\ broker[i].quantity = q

(* What a request was answered. *)
AnswersInv ==
  \A r \in Submitters : pc[r] \in {"answered", "flushed"} =>
    /\ req[r].answer.status = IF Paper THEN "FILLED" ELSE "SUBMITTED"
    /\ ~ Paper /\ req[r].answer.id # NoBrokerId =>
         Holds(req[r].answer.id, req[r].signal, req[r].quantity)

(* The paper broker fills at once, Schwab never within a submission. *)
RowsInv == \A o \in orders : o.status = "FILLED" <=> Paper

BooksInv == /\ AnswersInv
            /\ RowsInv
            /\ ~ Paper => RecordedOrdersExist

-----------------------------------------------------------------------------
(* The broker's list only grows, but for restarts of the paper broker *)

LEMMA PlacedGrows ==
  ASSUME TypeOK, NEW r \in Submitters, Placed(r)
  PROVE  /\ DOMAIN broker' = 1 .. Len(broker) + 1
         /\ DOMAIN broker = 1 .. Len(broker)
         /\ Len(broker) \in Nat
         /\ \A i \in DOMAIN broker : broker'[i] = broker[i]
         /\ broker'[Len(broker) + 1].signal = req[r].signal
         /\ broker'[Len(broker) + 1].quantity = req[r].quantity
<1> DEFINE b == [signal |-> req[r].signal, quantity |-> req[r].quantity,
                 state |-> IF Paper THEN "FILLED" ELSE "WORKING"]
<1>1. broker' = Append(broker, b) /\ broker \in Seq(BrokerOrder)
  BY DEF Placed, TypeOK
<1>2. b.signal = req[r].signal /\ b.quantity = req[r].quantity
  OBVIOUS
<1> HIDE DEF b
<1>3. QED
  BY <1>1, <1>2

LEMMA BrokerGrows ==
  ASSUME TypeOK, ~ Paper, [Next]_vars, NEW i \in DOMAIN broker
  PROVE  /\ i \in DOMAIN broker'
         /\ broker'[i].signal = broker[i].signal
         /\ broker'[i].quantity = broker[i].quantity
         /\ broker[i].state = "CANCELLED" => broker'[i].state = "CANCELLED"
<1>1. ASSUME NEW r \in Submitters, Placed(r)
      PROVE  i \in DOMAIN broker' /\ broker'[i] = broker[i]
  BY <1>1, PlacedGrows
<1>2. ASSUME NEW r \in Submitters, OneSubmits(r), ~ Placed(r)
      PROVE  UNCHANGED broker
  BY <1>2 DEF OneSubmits, SubmitStep, SubmitRead, SubmitContext,
     SubmitNotAwaiting, SubmitEvaluate, SubmitPersist, SubmitBusy,
     SubmitRejected, SubmitLock, SubmitShort, BrokerAnswers, BrokerRetry,
     BrokerRaises, SubmitFlush, SubmitConflict, SubmitCommit, CommitRows,
     SubmitRollback
<1>3. ASSUME NEW j \in DOMAIN broker, BrokerMoves(j)
      PROVE  /\ i \in DOMAIN broker'
             /\ broker'[i].signal = broker[i].signal
             /\ broker'[i].quantity = broker[i].quantity
             /\ broker[i].state = "CANCELLED" => broker'[i].state = "CANCELLED"
  <2>1. PICK state \in {"FILLED", "CANCELLED"} :
          broker' = [broker EXCEPT ![j].state = state]
    BY <1>3 DEF BrokerMoves
  <2>2. broker[j].state = "WORKING"
    BY <1>3 DEF BrokerMoves
  <2>3. broker[j] \in BrokerOrder
    BY DEF TypeOK
  <2>4. CASE i = j
    BY <2>1, <2>2, <2>3, <2>4 DEF BrokerOrder
  <2>5. CASE i # j
    BY <2>1, <2>5
  <2>6. QED
    BY <2>4, <2>5
<1>4. CASE /\ OthersStep
           /\ ~ \E j \in DOMAIN broker : BrokerMoves(j)
  <2>1. UNCHANGED broker
    BY <1>4 DEF OthersStep, RejectRead, RejectStep, RejectCommit, RejectBusy,
       RejectEnd, ReconcileRead, ReconcileStep, ReconcileCommit, ReconcileBusy,
       ReconcileEnd, GenerateSignals, SetBot, MarkCancelled, vars
  <2>2. QED
    BY <2>1
<1>5. CASE Restart
  BY <1>5 DEF Restart
<1>6. QED
  BY <1>1, <1>2, <1>3, <1>4, <1>5 DEF Next, Environment, OneSubmits, OthersStep

(* So what it holds it goes on to hold. *)
LEMMA HoldsStep ==
  ASSUME TypeOK, ~ Paper, [Next]_vars, NEW i, NEW s, NEW q, Holds(i, s, q)
  PROVE  Holds(i, s, q)'
BY BrokerGrows DEF Holds

-----------------------------------------------------------------------------
(* Answers and rows *)

(* A request past its answer has it still, or gets it now. *)
LEMMA AnswerKept ==
  ASSUME TypeOK, [Next]_vars, NEW r \in Submitters,
         pc'[r] \in {"answered", "flushed"}
  PROVE  \/ /\ pc[r] \in {"answered", "flushed"}
            /\ req'[r] = req[r]
         \/ BrokerAnswers(r)
<1>1. CASE OneSubmits(r)
  <2> USE DEF TypeOK, Goto, Finish, Fail, Procs
  <2>1. CASE \E s \in Signals, q \in Quantities : SubmitRead(r, s, q)
    BY <2>1 DEF SubmitRead
  <2>2. CASE SubmitStep(r)
    BY <2>2 DEF SubmitStep, SubmitContext, SubmitNotAwaiting,
       SubmitEvaluate, SubmitPersist, SubmitBusy, SubmitRejected, SubmitLock,
       SubmitShort, BrokerRetry, BrokerRaises, SubmitFlush,
       SubmitConflict, SubmitCommit, CommitRows, SubmitRollback
  <2>3. QED
    BY <1>1, <2>1, <2>2 DEF OneSubmits
<1>2. ASSUME NEW t \in Submitters \ {r}, OneSubmits(t)
      PROVE  pc'[r] = pc[r] /\ req'[r] = req[r]
  BY <1>2, OneAtATime DEF Procs
<1>3. CASE OthersStep
  BY <1>3, OthersLeaveRequests
<1>4. CASE Restart
  BY <1>4 DEF Restart, Procs
<1>5. QED
  BY <1>1, <1>2, <1>3, <1>4 DEF Next, Environment, OneSubmits, OthersStep

LEMMA AnswersStep ==
  ASSUME TypeOK, AnswersInv, [Next]_vars
  PROVE  AnswersInv'
<1> SUFFICES ASSUME NEW r \in Submitters, pc'[r] \in {"answered", "flushed"}
             PROVE  /\ req'[r].answer.status = IF Paper THEN "FILLED" ELSE "SUBMITTED"
                    /\ ~ Paper /\ req'[r].answer.id # NoBrokerId =>
                         Holds(req[r].answer.id, req[r].signal, req[r].quantity)'
  BY DEF AnswersInv
<1>1. CASE pc[r] \in {"answered", "flushed"} /\ req'[r] = req[r]
  <2>1. ASSUME ~ Paper, req'[r].answer.id # NoBrokerId
        PROVE  Holds(req[r].answer.id, req[r].signal, req[r].quantity)'
    <3>1. PICK i, s, q : i = req[r].answer.id /\ s = req[r].signal /\ q = req[r].quantity
      OBVIOUS
    <3>2. Holds(i, s, q)
      BY <1>1, <2>1, <3>1 DEF AnswersInv
    <3>3. Holds(i, s, q)'
      BY <2>1, <3>2, HoldsStep
    <3>4. QED
      BY <1>1, <3>1, <3>3 DEF Holds
  <2>2. QED
    BY <1>1, <2>1 DEF AnswersInv
<1>2. CASE BrokerAnswers(r)
  <2>1. PICK id \in {Len(broker) + 1} \cup (IF Paper THEN {} ELSE {NoBrokerId}) :
          req' = [req EXCEPT ![r].answer =
                   [id |-> id, status |-> IF Paper THEN "FILLED" ELSE "SUBMITTED"]]
    BY <1>2 DEF BrokerAnswers
  <2>2. req[r] \in Request
    BY DEF TypeOK
  <2>3. /\ req'[r].answer.id = id
        /\ req'[r].answer.status = IF Paper THEN "FILLED" ELSE "SUBMITTED"
        /\ req'[r].signal = req[r].signal
        /\ req'[r].quantity = req[r].quantity
    BY <2>1, <2>2 DEF TypeOK, Request
  <2>4. Placed(r)
    BY <1>2 DEF BrokerAnswers
  <2>5. id = Len(broker) + 1 \/ id = NoBrokerId
    OBVIOUS
  <2>6. QED
    BY <2>3, <2>4, <2>5, PlacedGrows DEF Holds
<1>3. QED
  BY <1>1, <1>2, AnswerKept

(* The rows after marking: every one is an old one, but for the status. *)
LEMMA MarkedRows ==
  ASSUME TypeOK, NEW O \in SUBSET orders, \A o \in O : o.status \in Cancellable,
         orders' = Marked(O), NEW o \in orders'
  PROVE  \E p \in orders :
           /\ o.signal = p.signal /\ o.quantity = p.quantity
           /\ o.brokerId = p.brokerId
           /\ \/ o.status = p.status
              \/ p.status = "SUBMITTED" /\ o.status = "CANCELLED"
BY DEF Marked, TypeOK, OrderRow, Cancellable

(* Where the rows after a step come from. *)
LEMMA RowsStep ==
  ASSUME TypeOK, [Next]_vars, NEW o \in orders'
  PROVE  \/ \E p \in orders :
              /\ o.signal = p.signal /\ o.quantity = p.quantity
              /\ o.brokerId = p.brokerId
              /\ \/ o.status = p.status
                 \/ p.status = "SUBMITTED" /\ o.status = "CANCELLED"
         \/ \E r \in Submitters :
              /\ pc[r] = "flushed"
              /\ o = [signal |-> req[r].signal, quantity |-> req[r].quantity,
                      brokerId |-> req[r].answer.id, status |-> req[r].answer.status]
<1>1. CASE \E r \in Submitters : SubmitCommit(r)
  BY <1>1 DEF SubmitCommit, CommitRows
<1>2. CASE UNCHANGED orders
  BY <1>2
<1>3. ASSUME NEW O \in SUBSET orders, MarkCancelled(O)
      PROVE  \E p \in orders :
              /\ o.signal = p.signal /\ o.quantity = p.quantity
              /\ o.brokerId = p.brokerId
              /\ \/ o.status = p.status
                 \/ p.status = "SUBMITTED" /\ o.status = "CANCELLED"
  BY <1>3, MarkedRows DEF MarkCancelled
<1>4. QED
  BY <1>1, <1>2, <1>3, TablesStep

LEMMA BooksStep ==
  ASSUME IInv, BooksInv, [Next]_vars
  PROVE  BooksInv'
<1>t. TypeOK
  BY DEF IInv
<1>1. AnswersInv'
  BY <1>t, AnswersStep DEF BooksInv
<1>2. ASSUME NEW o \in orders'
      PROVE  o.status = "FILLED" <=> Paper
  <2>1. ASSUME NEW p \in orders, o.status = p.status
        PROVE  o.status = "FILLED" <=> Paper
    BY <2>1 DEF BooksInv, RowsInv
  <2>2. ASSUME NEW p \in orders, p.status = "SUBMITTED", o.status = "CANCELLED"
        PROVE  o.status = "FILLED" <=> Paper
    BY <2>2 DEF BooksInv, RowsInv
  <2>3. ASSUME NEW r \in Submitters, pc[r] = "flushed",
               o.status = req[r].answer.status
        PROVE  o.status = "FILLED" <=> Paper
    BY <2>3 DEF BooksInv, AnswersInv
  <2>4. QED
    BY <1>t, <2>1, <2>2, <2>3, RowsStep
<1>3. ASSUME ~ Paper, NEW o \in orders', o.brokerId # NoBrokerId
      PROVE  Holds(o.brokerId, o.signal, o.quantity)'
  <2>1. ASSUME NEW p \in orders, o.signal = p.signal, o.quantity = p.quantity,
               o.brokerId = p.brokerId
        PROVE  Holds(o.brokerId, o.signal, o.quantity)
    BY <1>3, <2>1 DEF BooksInv, RecordedOrdersExist, Holds
  <2>2. ASSUME NEW r \in Submitters, pc[r] = "flushed",
               o = [signal |-> req[r].signal, quantity |-> req[r].quantity,
                    brokerId |-> req[r].answer.id, status |-> req[r].answer.status]
        PROVE  Holds(o.brokerId, o.signal, o.quantity)
    BY <1>3, <2>2 DEF BooksInv, AnswersInv
  <2>3. Holds(o.brokerId, o.signal, o.quantity)
    BY <1>t, <2>1, <2>2, RowsStep
  <2>4. QED
    BY <1>3, <1>t, <2>3, HoldsStep
<1>4. RowsInv' /\ (~ Paper => RecordedOrdersExist')
  BY <1>2, <1>3 DEF RowsInv, RecordedOrdersExist, Holds
<1>5. QED
  BY <1>1, <1>4 DEF BooksInv

LEMMA BooksInit == Init => BooksInv
BY SetsAssumption DEF Init, BooksInv, AnswersInv, RowsInv, RecordedOrdersExist, Procs

(* At Schwab an orders row with a broker id is an order of that signal and *)
(* quantity that the broker holds under that id: retries, lost answers and *)
(* other requests never mix ids up.                                        *)
THEOREM RecordsNameOrders ==
  ASSUME ~ Paper
  PROVE  Spec => []RecordedOrdersExist
<1>1. IInv /\ BooksInv /\ [Next]_vars => BooksInv'
  BY BooksStep
<1>2. BooksInv => RecordedOrdersExist
  BY DEF BooksInv
<1>3. QED
  BY <1>1, <1>2, BooksInit, Inductive, PTL DEF Spec

-----------------------------------------------------------------------------
(* The switch *)

(* What a panic has on its list, or has dealt with, are orders that were   *)
(* not filled at once; what it has marked is cancelled at the broker, if   *)
(* the broker's id of it is known.                                         *)
MarksInv ==
  \A k \in Operators :
    /\ op[k].step \in {"accounts", "cancelling"} => op[k].kind = "panic"
    /\ op[k].kind # "panic" => op[k].todo \cup op[k].marks = {}
    /\ \A s \in op[k].todo \cup op[k].marks :
         \E o \in orders : o.signal = s /\ o.status # "FILLED"
    /\ \A o \in orders : o.signal \in op[k].marks /\ o.brokerId # NoBrokerId =>
         broker[o.brokerId].state = "CANCELLED"

SwitchInv ==
  /\ IInv
  /\ BooksInv
  /\ SwitchTypeOK
  /\ MarksInv
  /\ MarksAreConfirmed

(* No order that panic marks was filled by the paper broker. *)
LEMMA MarkedAreOpen ==
  ASSUME SwitchInv, NEW k \in Operators, NEW o \in orders,
         o.signal \in op[k].todo \cup op[k].marks
  PROVE  ~ Paper /\ o.status \in {"SUBMITTED", "CANCELLED"}
<1>1. PICK p \in orders : p.signal = o.signal /\ p.status # "FILLED"
  BY DEF SwitchInv, MarksInv
<1>2. p = o
  BY <1>1 DEF SwitchInv, IInv, OneOrderPerSignal
<1>3. o.status \in OrderStatuses
  BY DEF SwitchInv, IInv, TypeOK, OrderRow
<1>4. QED
  BY <1>1, <1>2, <1>3 DEF SwitchInv, BooksInv, RowsInv, OrderStatuses

(* The marks of a panic are marks the pipeline allows for. *)
LEMMA CommitMarks ==
  ASSUME SwitchInv, NEW k \in Operators, OperatorCommit(k)
  PROVE  UNCHANGED vars \/ \E O \in SUBSET orders : MarkCancelled(O)
<1>1. CASE op[k].kind = "panic"
  <2> DEFINE O == {o \in orders : o.signal \in op[k].marks /\ o.status = "SUBMITTED"}
  <2>1. holder = None
    BY <1>1 DEF OperatorCommit, Writes
  <2>2. ASSUME NEW o \in orders, o.signal \in op[k].marks, o.status # "SUBMITTED"
        PROVE  [o EXCEPT !.status = "CANCELLED"] = o
    <3>1. o.status = "CANCELLED"
      BY <2>2, MarkedAreOpen
    <3>2. o \in OrderRow
      BY DEF SwitchInv, IInv, TypeOK
    <3>3. QED
      BY <3>1, <3>2 DEF OrderRow
  <2>3. \A o \in orders :
          (IF o.signal \in op[k].marks THEN [o EXCEPT !.status = "CANCELLED"] ELSE o)
          = (IF o \in O THEN [o EXCEPT !.status = "CANCELLED"] ELSE o)
    BY <2>2
  <2> HIDE DEF O
  <2>4. MarkedBy(k) = Marked(O)
    BY <2>3 DEF MarkedBy, Marked
  <2>5. O \in SUBSET orders /\ \A o \in O : o.status \in Cancellable
    BY DEF O, Cancellable
  <2>6. PICK P \in SUBSET orders : P = O
    BY <2>5
  <2>7. MarkCancelled(P)
    BY <2>1, <2>4, <2>5, <2>6 DEF OperatorCommit, MarkCancelled, db
  <2>8. QED
    BY <2>7
<1>2. CASE op[k].kind # "panic"
  <2>1. op[k].marks = {}
    BY <1>2 DEF SwitchInv, MarksInv
  <2>2. MarkedBy(k) = orders
    BY <2>1 DEF MarkedBy
  <2>3. QED
    BY <2>2 DEF OperatorCommit, vars
<1>3. QED
  BY <1>1, <1>2

(* Seen from the pipeline every step is its own, or none. *)
LEMMA SwitchRefines ==
  ASSUME SwitchInv, [SwitchNext]_allVars
  PROVE  [Next]_vars
<1>1. CASE UNCHANGED allVars
  BY <1>1 DEF allVars
<1>2. CASE PipelineStep
  BY <1>2 DEF PipelineStep, Next, Environment
<1>3. CASE ProcessRestart
  BY <1>3 DEF ProcessRestart, Next, Environment
<1>4. ASSUME NEW k \in Operators, NEW kind \in Kinds, OperatorRead(k, kind)
      PROVE  [Next]_vars
  BY <1>4 DEF OperatorRead
<1>5. ASSUME NEW k \in Operators, OperatorStep(k)
      PROVE  [Next]_vars
  <2>1. CASE OperatorSet(k)
    <3>1. PICK state \in BotStates : state = Target(op[k].kind)
      BY DEF Target, BotStates
    <3>2. SetBot(state)
      BY <2>1, <3>1 DEF OperatorSet, SetBot
    <3>3. QED
      BY <3>2 DEF Next, Environment
  <2>2. CASE PanicSelect(k) \/ OperatorFails(k) \/ \E o \in orders : PanicUnsent(k, o)
    BY <2>2 DEF PanicSelect, OperatorFails, PanicUnsent
  <2>3. ASSUME NEW o \in orders, PanicCancel(k, o) \/ PanicCancelFails(k, o)
        PROVE  [Next]_vars
    <3>1. CASE UNCHANGED broker
      BY <2>3, <3>1 DEF PanicCancel, PanicCancelFails, vars, db
    <3>2. CASE BrokerCancels(o.brokerId)
      <4>1. PICK i \in DOMAIN broker : i = o.brokerId
        BY <3>2 DEF BrokerCancels
      <4>2. BrokerMoves(i)
        BY <2>3, <3>2, <4>1 DEF PanicCancel, PanicCancelFails, BrokerCancels, BrokerMoves
      <4>3. QED
        BY <4>2 DEF Next, Environment
    <3>3. QED
      BY <2>3, <3>1, <3>2 DEF PanicCancel, PanicCancelFails
  <2>4. CASE OperatorCommit(k)
    <3>1. CASE UNCHANGED vars
      BY <3>1
    <3>2. ASSUME NEW O \in SUBSET orders, MarkCancelled(O)
          PROVE  [Next]_vars
      <4>1. CASE O = {}
        BY <3>2, <4>1 DEF MarkCancelled, Marked, vars
      <4>2. CASE O # {}
        <5>1. O \in (SUBSET orders) \ {{}}
          BY <4>2
        <5>2. Environment
          BY <3>2, <5>1 DEF Environment
        <5>3. QED
          BY <5>2 DEF Next
      <4>3. QED
        BY <4>1, <4>2
    <3>3. QED
      BY <2>4, <3>1, <3>2, CommitMarks
  <2>5. QED
    BY <1>5, <2>1, <2>2, <2>3, <2>4 DEF OperatorStep
<1>6. QED
  BY <1>1, <1>2, <1>3, <1>4, <1>5 DEF SwitchNext

(* Only a submission and an operator write rows. *)
LEMMA WhoWrites ==
  ASSUME [SwitchNext]_allVars
  PROVE  \/ UNCHANGED orders
         \/ \E r \in Submitters : SubmitCommit(r)
         \/ \E k \in Operators : OperatorCommit(k)
<1>1. ASSUME NEW r \in Submitters, OneSubmits(r), ~ SubmitCommit(r)
      PROVE  UNCHANGED orders
  BY <1>1 DEF OneSubmits, SubmitStep, SubmitRead, SubmitContext, SubmitNotAwaiting,
         SubmitEvaluate, SubmitPersist, SubmitBusy, SubmitRejected, SubmitLock,
         SubmitShort, BrokerAnswers, BrokerRetry, BrokerRaises, SubmitFlush,
         SubmitConflict, SubmitRollback, db
<1>2. CASE \/ \E j \in Rejecters : (\E s \in Signals : RejectRead(j, s)) \/ RejectStep(j)
           \/ \E c \in Reconcilers : ReconcileRead(c) \/ ReconcileStep(c)
           \/ \E S \in (SUBSET Signals) \ {{}} : GenerateSignals(S)
           \/ \E i \in DOMAIN broker : BrokerMoves(i)
  BY <1>2 DEF RejectRead, RejectStep, RejectCommit, RejectBusy, RejectEnd,
     ReconcileRead, ReconcileStep, ReconcileCommit, ReconcileBusy, ReconcileEnd,
     GenerateSignals, BrokerMoves, db
<1>3. CASE PipelineStep
  BY <1>1, <1>2, <1>3 DEF PipelineStep, OneSubmits
<1>4. CASE ProcessRestart \/ UNCHANGED allVars
  BY <1>4 DEF ProcessRestart, Restart, db, allVars, vars
<1>5. ASSUME NEW k \in Operators, NEW kind \in Kinds, OperatorRead(k, kind)
      PROVE  UNCHANGED orders
  BY <1>5 DEF OperatorRead, vars
<1>6. ASSUME NEW k \in Operators, OperatorStep(k), ~ OperatorCommit(k)
      PROVE  UNCHANGED orders
  BY <1>6 DEF OperatorStep, OperatorSet, PanicSelect, PanicUnsent, PanicCancel,
     PanicCancelFails, OperatorFails, db, vars
<1>7. QED
  BY <1>3, <1>4, <1>5, <1>6 DEF SwitchNext

(* An order that is not filled stays one that is not. *)
LEMMA OpenStaysOpen ==
  ASSUME SwitchInv, [Next]_vars, NEW s,
         \E o \in orders : o.signal = s /\ o.status # "FILLED"
  PROVE  \E o \in orders' : o.signal = s /\ o.status # "FILLED"
<1>1. ~ Paper
  BY DEF SwitchInv, BooksInv, RowsInv
<1>2. \A o \in orders' : o.status # "FILLED"
  BY <1>1, BooksStep DEF SwitchInv, BooksInv, RowsInv
<1>3. \E o \in orders' : o.signal = s
  <2>1. CASE \E r \in Submitters : SubmitCommit(r)
    BY <2>1 DEF SubmitCommit, CommitRows
  <2>2. CASE \A p \in orders : \E o \in orders' :
                 o.signal = p.signal /\ o.quantity = p.quantity
    BY <2>2
  <2>3. QED
    BY <2>1, <2>2, TablesStep DEF SwitchInv, IInv
<1>4. QED
  BY <1>2, <1>3

(* An order cancelled at the broker stays cancelled there. *)
LEMMA CancelledStays ==
  ASSUME SwitchInv, [Next]_vars, ~ Paper, NEW o \in orders,
         o.brokerId # NoBrokerId, broker[o.brokerId].state = "CANCELLED"
  PROVE  broker'[o.brokerId].state = "CANCELLED"
<1>1. o.brokerId \in DOMAIN broker
  BY DEF SwitchInv, BooksInv, RecordedOrdersExist
<1>2. QED
  BY <1>1, BrokerGrows DEF SwitchInv, IInv

(* What was marked stays confirmed. *)
LEMMA MarkStays ==
  ASSUME SwitchInv, [Next]_vars, NEW k \in Operators, NEW o \in orders',
         o.signal \in op[k].marks, o.brokerId # NoBrokerId
  PROVE  broker'[o.brokerId].state = "CANCELLED"
<1>1. ASSUME NEW p \in orders, o.signal = p.signal, o.brokerId = p.brokerId
      PROVE  broker'[o.brokerId].state = "CANCELLED"
  <2>1. broker[p.brokerId].state = "CANCELLED"
    BY <1>1 DEF SwitchInv, MarksInv
  <2>2. ~ Paper
    BY <1>1, MarkedAreOpen
  <2>3. QED
    BY <1>1, <2>1, <2>2, CancelledStays
<1>2. ASSUME NEW r \in Submitters, pc[r] = "flushed", o.signal = req[r].signal
      PROVE  FALSE
  <2>1. \E p \in orders : p.signal = o.signal
    BY DEF SwitchInv, MarksInv
  <2>2. QED
    BY <1>2, <2>1 DEF SwitchInv, IInv, FlushedInv
<1>3. QED
  BY <1>1, <1>2, RowsStep DEF SwitchInv, IInv

LEMMA ConfirmedStep ==
  ASSUME SwitchInv, [SwitchNext]_allVars
  PROVE  MarksAreConfirmed'
<1>n. [Next]_vars
  BY SwitchRefines
<1> SUFFICES ASSUME NEW o \in orders', o.status = "CANCELLED", o.brokerId # NoBrokerId
             PROVE  broker'[o.brokerId].state = "CANCELLED"
  BY DEF MarksAreConfirmed
<1>1. ASSUME o \in orders
      PROVE  broker'[o.brokerId].state = "CANCELLED"
  <2>1. broker[o.brokerId].state = "CANCELLED"
    BY <1>1 DEF SwitchInv, MarksAreConfirmed
  <2>2. ~ Paper
    BY <1>1 DEF SwitchInv, BooksInv, RowsInv
  <2>3. QED
    BY <1>n, <1>1, <2>1, <2>2, CancelledStays
<1>2. ASSUME NEW r \in Submitters, SubmitCommit(r), o \notin orders
      PROVE  FALSE
  <2>1. pc[r] = "flushed" /\ o.status = req[r].answer.status
    BY <1>2 DEF SubmitCommit, CommitRows
  <2>2. QED
    BY <2>1 DEF SwitchInv, BooksInv, AnswersInv
<1>3. ASSUME NEW k \in Operators, OperatorCommit(k), o \notin orders
      PROVE  broker'[o.brokerId].state = "CANCELLED"
  <2>1. PICK p \in orders :
          o = IF p.signal \in op[k].marks THEN [p EXCEPT !.status = "CANCELLED"] ELSE p
    BY <1>3 DEF OperatorCommit, MarkedBy
  <2>2. p.signal \in op[k].marks /\ o = [p EXCEPT !.status = "CANCELLED"]
    BY <1>3, <2>1
  <2>3. o.signal = p.signal
    BY <2>2 DEF SwitchInv, IInv, TypeOK, OrderRow
  <2>4. QED
    BY <1>n, <2>2, <2>3, MarkStays
<1>4. QED
  BY <1>1, <1>2, <1>3, WhoWrites

(* What the list and the marks of an operator must be like. *)
MarksOf(k) ==
  /\ op[k].step \in {"accounts", "cancelling"} => op[k].kind = "panic"
  /\ op[k].kind # "panic" => op[k].todo \cup op[k].marks = {}
  /\ \A s \in op[k].todo \cup op[k].marks :
       \E o \in orders : o.signal = s /\ o.status # "FILLED"
  /\ \A o \in orders : o.signal \in op[k].marks /\ o.brokerId # NoBrokerId =>
       broker[o.brokerId].state = "CANCELLED"

(* A step that adds nothing to them keeps them so. *)
LEMMA MarksKept ==
  ASSUME SwitchInv, [Next]_vars, NEW k \in Operators,
         op'[k].step \in {"accounts", "cancelling"} => op'[k].kind = "panic",
         op'[k].kind # "panic" => op'[k].todo \cup op'[k].marks = {},
         op'[k].todo \subseteq op[k].todo,
         op'[k].marks \subseteq op[k].marks
  PROVE  MarksOf(k)'
<1>1. ASSUME NEW s \in op'[k].todo \cup op'[k].marks
      PROVE  \E o \in orders' : o.signal = s /\ o.status # "FILLED"
  <2>1. \E o \in orders : o.signal = s /\ o.status # "FILLED"
    BY DEF SwitchInv, MarksInv
  <2>2. QED
    BY <2>1, OpenStaysOpen
<1>2. ASSUME NEW o \in orders', o.signal \in op'[k].marks, o.brokerId # NoBrokerId
      PROVE  broker'[o.brokerId].state = "CANCELLED"
  BY <1>2, MarkStays
<1>3. QED
  BY <1>1, <1>2 DEF MarksOf

(* The operator it is about moves; the others are as they were. *)
OpIs(k, x) == op' = [op EXCEPT ![k] = x]

(* One order of the list is dealt with. *)
LEMMA MarksDone ==
  ASSUME SwitchInv, [Next]_vars, NEW k \in Operators, NEW o \in orders,
         op[k].step = "cancelling", o.signal \in op[k].todo,
         NEW marked \in BOOLEAN, UNCHANGED orders,
         OpIs(k, [op[k] EXCEPT !.todo = op[k].todo \ {o.signal},
                   !.marks = IF marked THEN op[k].marks \cup {o.signal}
                             ELSE op[k].marks]),
         marked /\ o.brokerId # NoBrokerId => broker'[o.brokerId].state = "CANCELLED"
  PROVE  MarksOf(k)' /\ op' \in [Operators -> OpState]
<1> DEFINE x == [op[k] EXCEPT !.todo = op[k].todo \ {o.signal},
                   !.marks = IF marked THEN op[k].marks \cup {o.signal}
                             ELSE op[k].marks]
<1>1. op[k] \in OpState /\ op \in [Operators -> OpState]
  BY DEF SwitchInv, SwitchTypeOK
<1>2. o.signal \in Signals
  BY DEF SwitchInv, IInv, TypeOK, OrderRow
<1>3. /\ x.step = op[k].step /\ x.kind = op[k].kind
      /\ x.todo = op[k].todo \ {o.signal}
      /\ x.marks = IF marked THEN op[k].marks \cup {o.signal} ELSE op[k].marks
      /\ x \in OpState
  BY <1>1, <1>2 DEF OpState
<1>4. op' = [op EXCEPT ![k] = x]
  BY DEF OpIs
<1> HIDE DEF x
<1>5. op'[k] = x /\ op' \in [Operators -> OpState]
  BY <1>1, <1>3, <1>4
<1>6. op[k].kind = "panic"
  BY DEF SwitchInv, MarksInv
<1>7. ASSUME NEW s \in op'[k].todo \cup op'[k].marks
      PROVE  \E p \in orders' : p.signal = s /\ p.status # "FILLED"
  <2>1. s \in op[k].todo \cup op[k].marks
    BY <1>3, <1>5
  <2>2. QED
    BY <2>1 DEF SwitchInv, MarksInv
<1>8. ASSUME NEW p \in orders', p.signal \in op'[k].marks, p.brokerId # NoBrokerId
      PROVE  broker'[p.brokerId].state = "CANCELLED"
  <2>1. CASE p.signal \in op[k].marks
    BY <1>8, <2>1, MarkStays
  <2>2. CASE p.signal \notin op[k].marks
    <3>1. marked /\ p.signal = o.signal
      BY <1>3, <1>5, <1>8, <2>2
    <3>2. p = o
      BY <3>1 DEF SwitchInv, IInv, OneOrderPerSignal
    <3>3. QED
      BY <1>8, <3>1, <3>2
  <2>3. QED
    BY <2>1, <2>2
<1>9. QED
  BY <1>3, <1>5, <1>6, <1>7, <1>8 DEF MarksOf

(* An operator's step, seen at the operator itself. *)
LEMMA OwnMarks ==
  ASSUME SwitchInv, [Next]_vars, NEW k \in Operators,
         (\E kind \in Kinds : OperatorRead(k, kind)) \/ OperatorStep(k)
  PROVE  /\ MarksOf(k)'
         /\ op' \in [Operators -> OpState]
         /\ \A j \in Operators \ {k} : op'[j] = op[j]
<1>t. /\ op \in [Operators -> OpState] /\ op[k] \in OpState
      /\ config \in BotStates \cup {"ABSENT"}
  BY DEF SwitchInv, SwitchTypeOK
<1>m. /\ op[k].step \in {"accounts", "cancelling"} => op[k].kind = "panic"
      /\ op[k].kind # "panic" => op[k].todo \cup op[k].marks = {}
  BY DEF SwitchInv, MarksInv
<1>1. ASSUME NEW kind \in Kinds, OperatorRead(k, kind)
      PROVE  /\ MarksOf(k)'
             /\ op' \in [Operators -> OpState]
             /\ \A j \in Operators \ {k} : op'[j] = op[j]
  <2> DEFINE x == [NoOp EXCEPT !.step = "loaded", !.kind = kind, !.row = config]
  <2>1. x.step = "loaded" /\ x.todo = {} /\ x.marks = {}
    BY DEF NoOp
  <2>c. x \in OpState
    BY <1>t DEF NoOp, OpState
  <2>2. op' = [op EXCEPT ![k] = x]
    BY <1>1 DEF OperatorRead
  <2> HIDE DEF x
  <2>3. op'[k] = x
    BY <1>t, <2>2
  <2>4. MarksOf(k)'
    BY <2>1, <2>3, MarksKept
  <2>5. QED
    BY <1>t, <2>c, <2>2, <2>4
<1>2. ASSUME OperatorSet(k)
      PROVE  /\ MarksOf(k)'
             /\ op' \in [Operators -> OpState]
             /\ \A j \in Operators \ {k} : op'[j] = op[j]
  <2> DEFINE x == [op[k] EXCEPT !.step =
                    IF op[k].kind = "panic" THEN "accounts" ELSE "saving"]
  <2>1. /\ x.todo = op[k].todo /\ x.marks = op[k].marks /\ x.kind = op[k].kind
        /\ x.step \in {"accounts", "cancelling"} => x.kind = "panic"
        /\ x \in OpState
    BY <1>t DEF OpState
  <2>2. op' = [op EXCEPT ![k] = x]
    BY <1>2 DEF OperatorSet
  <2> HIDE DEF x
  <2>3. op'[k] = x
    BY <1>t, <2>2
  <2>4. MarksOf(k)'
    BY <1>m, <2>1, <2>3, MarksKept
  <2>5. QED
    BY <1>t, <2>1, <2>2, <2>4
<1>3. ASSUME PanicSelect(k)
      PROVE  /\ MarksOf(k)'
             /\ op' \in [Operators -> OpState]
             /\ \A j \in Operators \ {k} : op'[j] = op[j]
  <2> DEFINE T == {o.signal : o \in {p \in orders : p.status \in Cancellable}}
             x == [op[k] EXCEPT !.step = "cancelling", !.todo = T]
  <2>0. T \subseteq Signals
    BY DEF SwitchInv, IInv, TypeOK, OrderRow
  <2>t. \A s \in T : \E o \in orders : o.signal = s /\ o.status # "FILLED"
    BY DEF Cancellable
  <2>2. op' = [op EXCEPT ![k] = x] /\ UNCHANGED orders /\ UNCHANGED broker
    BY <1>3 DEF PanicSelect, vars
  <2> HIDE DEF T
  <2>1. /\ x.todo = T /\ x.marks = op[k].marks /\ x.kind = op[k].kind
        /\ x.step = "cancelling" /\ x \in OpState
    BY <1>t, <2>0 DEF OpState
  <2> HIDE DEF x
  <2>3. op'[k] = x
    BY <1>t, <2>2
  <2>4. op[k].kind = "panic"
    BY <1>3, <1>m DEF PanicSelect
  <2>5. MarksOf(k)'
    BY <2>1, <2>2, <2>3, <2>4, <2>t DEF MarksOf, SwitchInv, MarksInv
  <2>6. QED
    BY <1>t, <2>1, <2>2, <2>5
<1>4. ASSUME NEW o \in orders,
             PanicUnsent(k, o) \/ PanicCancel(k, o) \/ PanicCancelFails(k, o)
      PROVE  /\ MarksOf(k)'
             /\ op' \in [Operators -> OpState]
             /\ \A j \in Operators \ {k} : op'[j] = op[j]
  <2>1. /\ op[k].step = "cancelling" /\ o.signal \in op[k].todo
        /\ UNCHANGED orders
    BY <1>4 DEF PanicUnsent, PanicCancel, PanicCancelFails, Cancelling, vars, db
  <2>2. PICK marked \in BOOLEAN :
          /\ Done(k, o, marked)
          /\ marked /\ o.brokerId # NoBrokerId => BrokerCancels(o.brokerId)
    BY <1>4 DEF PanicUnsent, PanicCancel, PanicCancelFails
  <2>3. OpIs(k, [op[k] EXCEPT !.todo = op[k].todo \ {o.signal},
                   !.marks = IF marked THEN op[k].marks \cup {o.signal}
                             ELSE op[k].marks])
    BY <1>t, <2>2 DEF Done, OpIs
  <2>4. ASSUME marked, o.brokerId # NoBrokerId
        PROVE  broker'[o.brokerId].state = "CANCELLED"
    <3>1. /\ o.brokerId \in DOMAIN broker
          /\ broker' = [broker EXCEPT ![o.brokerId].state = "CANCELLED"]
      BY <2>2, <2>4 DEF BrokerCancels
    <3>2. broker \in Seq(BrokerOrder)
      BY DEF SwitchInv, IInv, TypeOK
    <3>3. broker[o.brokerId] \in BrokerOrder
      BY <3>1, <3>2
    <3>4. broker'[o.brokerId] = [broker[o.brokerId] EXCEPT !.state = "CANCELLED"]
      BY <3>1
    <3>5. QED
      BY <3>3, <3>4 DEF BrokerOrder
  <2>5. MarksOf(k)' /\ op' \in [Operators -> OpState]
    BY <2>1, <2>3, <2>4, MarksDone
  <2>6. QED
    BY <1>t, <2>3, <2>5 DEF OpIs
<1>5. ASSUME OperatorCommit(k) \/ OperatorFails(k)
      PROVE  /\ MarksOf(k)'
             /\ op' \in [Operators -> OpState]
             /\ \A j \in Operators \ {k} : op'[j] = op[j]
  <2>1. op' = [op EXCEPT ![k] = NoOp]
    BY <1>5 DEF OperatorCommit, OperatorFails, End
  <2>2. /\ NoOp \in OpState /\ NoOp.todo = {} /\ NoOp.marks = {}
        /\ NoOp.step = "idle"
    BY DEF NoOp, OpState, Kinds
  <2>3. op'[k] = NoOp
    BY <1>t, <2>1
  <2>4. MarksOf(k)'
    BY <2>2, <2>3, MarksKept
  <2>5. QED
    BY <1>t, <2>1, <2>2, <2>4
<1>6. QED
  BY <1>1, <1>2, <1>3, <1>4, <1>5 DEF OperatorStep

LEMMA ConfigStep ==
  ASSUME SwitchInv, [SwitchNext]_allVars
  PROVE  config' \in BotStates \cup {"ABSENT"}
<1>1. config \in BotStates \cup {"ABSENT"}
  BY DEF SwitchInv, SwitchTypeOK
<1>2. ASSUME NEW k \in Operators, OperatorCommit(k)
      PROVE  config' \in BotStates \cup {"ABSENT"}
  BY <1>1, <1>2 DEF OperatorCommit, Target, BotStates
<1>3. ASSUME NEW k \in Operators, OperatorStep(k), ~ OperatorCommit(k)
      PROVE  UNCHANGED config
  BY <1>3 DEF OperatorStep, OperatorSet, PanicSelect, PanicUnsent, PanicCancel,
     PanicCancelFails, OperatorFails
<1>4. CASE UNCHANGED allVars \/ PipelineStep \/ ProcessRestart
           \/ \E k \in Operators : \E kind \in Kinds : OperatorRead(k, kind)
  BY <1>1, <1>4 DEF allVars, PipelineStep, switch, ProcessRestart, OperatorRead
<1>5. QED
  BY <1>1, <1>2, <1>3, <1>4 DEF SwitchNext

LEMMA SwitchStep ==
  ASSUME SwitchInv, [SwitchNext]_allVars
  PROVE  SwitchInv'
<1>n. [Next]_vars
  BY SwitchRefines
<1>1. IInv' /\ BooksInv'
  BY <1>n, StepInv, BooksStep DEF SwitchInv
<1>m. ASSUME NEW k \in Operators
      PROVE  /\ op[k].step \in {"accounts", "cancelling"} => op[k].kind = "panic"
             /\ op[k].kind # "panic" => op[k].todo \cup op[k].marks = {}
  BY DEF SwitchInv, MarksInv
<1>2. op' \in [Operators -> OpState] /\ \A k \in Operators : MarksOf(k)'
  <2>1. CASE UNCHANGED allVars \/ PipelineStep
    <3>1. op' = op
      BY <2>1 DEF allVars, PipelineStep, switch
    <3>2. \A k \in Operators : MarksOf(k)'
      BY <1>n, <1>m, <3>1, MarksKept
    <3>3. QED
      BY <3>1, <3>2 DEF SwitchInv, SwitchTypeOK
  <2>2. CASE ProcessRestart
    <3>1. op' = [k \in Operators |-> NoOp]
      BY <2>2 DEF ProcessRestart
    <3>2. /\ NoOp \in OpState /\ NoOp.todo = {} /\ NoOp.marks = {}
          /\ NoOp.step = "idle"
      BY DEF NoOp, OpState, Kinds
    <3>3. \A k \in Operators : MarksOf(k)'
      BY <1>n, <3>1, <3>2, MarksKept
    <3>4. QED
      BY <3>1, <3>2, <3>3
  <2>3. ASSUME NEW k \in Operators,
               (\E kind \in Kinds : OperatorRead(k, kind)) \/ OperatorStep(k)
        PROVE  op' \in [Operators -> OpState] /\ \A j \in Operators : MarksOf(j)'
    <3>1. /\ MarksOf(k)'
          /\ op' \in [Operators -> OpState]
          /\ \A j \in Operators \ {k} : op'[j] = op[j]
      BY <1>n, <2>3, OwnMarks
    <3>2. ASSUME NEW j \in Operators \ {k}
          PROVE  MarksOf(j)'
      BY <1>n, <1>m, <3>1, <3>2, MarksKept
    <3>3. QED
      BY <3>1, <3>2
  <2>4. QED
    BY <2>1, <2>2, <2>3 DEF SwitchNext
<1>3. MarksInv'
  BY <1>2 DEF MarksOf, MarksInv
<1>4. QED
  BY <1>1, <1>2, <1>3, ConfirmedStep, ConfigStep DEF SwitchInv, SwitchTypeOK

LEMMA SwitchStart == SwitchInit => SwitchInv
<1> SUFFICES ASSUME SwitchInit PROVE SwitchInv
  OBVIOUS
<1>1. IInv /\ BooksInv
  BY InitInv, BooksInit DEF SwitchInit
<1>2. NoOp \in OpState /\ NoOp.todo = {} /\ NoOp.marks = {} /\ NoOp.step = "idle"
  BY DEF NoOp, OpState, Kinds
<1>3. SwitchTypeOK /\ MarksInv /\ MarksAreConfirmed
  BY <1>2 DEF SwitchInit, Init, SwitchTypeOK, MarksInv, MarksAreConfirmed
<1>4. QED
  BY <1>1, <1>3 DEF SwitchInv

(* A row that panic marked, and that names an order of the broker, is      *)
(* cancelled there, whatever crashes, races or outruns the cancellation.   *)
THEOREM MarksConfirmed == SwitchSpec => []MarksAreConfirmed
<1>1. SwitchInv => MarksAreConfirmed
  BY DEF SwitchInv
<1>2. QED
  BY <1>1, SwitchStart, SwitchStep, PTL DEF SwitchSpec

(* With halt, resume and panic in use the pipeline takes no step that it   *)
(* could not take alone, so that its theorems hold of the whole.           *)
THEOREM SwitchImplementsPipeline == SwitchSpec => ImplementsPipeline
<1>1. SwitchInit => Init
  BY DEF SwitchInit
<1>2. SwitchInv /\ [SwitchNext]_allVars => [Next]_vars
  BY SwitchRefines
<1>3. QED
  BY <1>1, <1>2, SwitchStart, SwitchStep, PTL DEF SwitchSpec, ImplementsPipeline, Spec
=============================================================================
