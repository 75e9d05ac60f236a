----------------------------- MODULE KillSwitch -----------------------------
(***************************************************************************)
(* POST /admin/halt, /admin/resume and /admin/panic (api/routers/admin.py) *)
(* against the running pipeline of SignalExecution.  The handlers share    *)
(* app.state.bot_state, the orders rows and SQLite's write lock with it,   *)
(* and the bot_state row of the config table with each other.              *)
(*                                                                         *)
(* Each handler loads its row, sets the flag in memory at once, and only   *)
(* then awaits: panic talks to the broker about every order it loaded,     *)
(* and its marks, its audit row and the config row are one commit at the   *)
(* end, which a busy database or a racing first insert makes it lose.      *)
(***************************************************************************)
EXTENDS SignalExecution

CONSTANT Operators  \* concurrent halt, resume and panic requests

ASSUME OperatorsAssumption == Operators \cap Signals = {}

VARIABLES
  config,           \* value of the config row "bot_state", or "ABSENT"
  op                \* what each operator request has loaded and done

switch == <<config, op>>
allVars == <<vars, config, op>>

Kinds == {"halt", "resume", "panic"}
NoOp == [step |-> "idle", kind |-> "halt", row |-> "ABSENT",
         todo |-> {}, marks |-> {}]
OpState == [step : {"idle", "loaded", "accounts", "cancelling", "saving"},
            kind : Kinds, row : BotStates \cup {"ABSENT"},
            todo : SUBSET Signals, marks : SUBSET Signals]

SwitchTypeOK ==
  /\ config \in BotStates \cup {"ABSENT"}
  /\ op \in [Operators -> OpState]

SwitchInit ==
  /\ Init
  /\ config = "ABSENT"
  /\ op = [k \in Operators |-> NoOp]

Target(kind) == IF kind = "resume" THEN "ACTIVE" ELSE "HALTED"

-----------------------------------------------------------------------------

(* session.get(ConfigRef, "bot_state") *)
OperatorRead(k, kind) ==
  /\ op[k].step = "idle"
  /\ op' = [op EXCEPT ![k] = [NoOp EXCEPT !.step = "loaded", !.kind = kind,
                                          !.row = config]]
  /\ UNCHANGED <<vars, config>>

(* app.state.bot_state is set before anything is committed. *)
OperatorSet(k) ==
  /\ op[k].step = "loaded"
  /\ bot' = Target(op[k].kind)
  /\ op' = [op EXCEPT ![k].step =
              IF op[k].kind = "panic" THEN "accounts" ELSE "saving"]
  /\ UNCHANGED <<db, holder, pc, req, seen, stale, broker, config>>

(* After get_accounts, or the accounts row if the broker is down, the      *)
(* cancellable orders are loaded.  An order implies an accounts row, so    *)
(* there is an account id whenever there is something to cancel.           *)
PanicSelect(k) ==
  /\ op[k].step = "accounts"
  /\ op' = [op EXCEPT ![k].step = "cancelling",
                      ![k].todo = {o.signal : o \in
                                     {p \in orders : p.status \in Cancellable}}]
  /\ UNCHANGED <<vars, config>>

(* Order o of the list is dealt with. *)
Done(k, o, marked) ==
  op' = [op EXCEPT ![k].todo = op[k].todo \ {o.signal},
                   ![k].marks = IF marked THEN op[k].marks \cup {o.signal}
                                ELSE op[k].marks]

Cancelling(k, o) ==
  /\ op[k].step = "cancelling"
  /\ o.signal \in op[k].todo

(* broker_order_id is NULL: marked without a word to the broker. *)
PanicUnsent(k, o) ==
  /\ Cancelling(k, o)
  /\ o.brokerId = NoBrokerId
  /\ Done(k, o, TRUE)
  /\ UNCHANGED <<vars, config>>

BrokerCancels(i) ==
  /\ i \in DOMAIN broker
  /\ broker[i].state = "WORKING"
  /\ broker' = [broker EXCEPT ![i].state = "CANCELLED"]

(* Mutant of PanicCancel: a refused cancellation is marked too. *)
PanicCancelRefused(k, o) ==
  /\ Cancelling(k, o)
  /\ o.brokerId # NoBrokerId
  /\ BrokerCancels(o.brokerId) \/ UNCHANGED broker
  /\ Done(k, o, TRUE)
  /\ UNCHANGED <<db, holder, bot, pc, req, seen, stale, config>>

(* cancel_order returned. *)
PanicCancel(k, o) ==
  /\ Cancelling(k, o)
  /\ o.brokerId # NoBrokerId
  /\ BrokerCancels(o.brokerId)
  /\ Done(k, o, TRUE)
  /\ UNCHANGED <<db, holder, bot, pc, req, seen, stale, config>>

(* cancel_order raised: the order was not working, the broker was down, or *)
(* it cancelled and the answer was lost.  The row is left as it is.        *)
PanicCancelFails(k, o) ==
  /\ Cancelling(k, o)
  /\ o.brokerId # NoBrokerId
  /\ BrokerCancels(o.brokerId) \/ UNCHANGED broker
  /\ Done(k, o, FALSE)
  /\ UNCHANGED <<db, holder, bot, pc, req, seen, stale, config>>

-----------------------------------------------------------------------------
(* session.commit() of the three handlers.                                 *)

Ready(k) ==
  \/ op[k].step = "saving"
  \/ op[k].step = "cancelling" /\ op[k].todo = {}

(* A loaded row that already has the target value is not written; panic    *)
(* always has its audit row.                                               *)
Writes(k) ==
  op[k].kind = "panic" \/ op[k].row # Target(op[k].kind)

(* Two requests found no row, and both insert it: IntegrityError. *)
Inserts(k) == op[k].row = "ABSENT"
InsertConflict(k) == Inserts(k) /\ config # "ABSENT"

End(k) == op' = [op EXCEPT ![k] = NoOp]

(* Mutant of MarkedBy: the broker's id is cleared with the status. *)
MarkedByForgets(k) ==
  {IF o.signal \in op[k].marks
     THEN [o EXCEPT !.status = "CANCELLED", !.brokerId = NoBrokerId] ELSE o :
     o \in orders}

MarkedBy(k) ==
  {IF o.signal \in op[k].marks THEN [o EXCEPT !.status = "CANCELLED"] ELSE o :
     o \in orders}

OperatorCommit(k) ==
  /\ Ready(k)
  /\ Writes(k) => holder = None
  /\ ~ InsertConflict(k)
  /\ config' = IF op[k].row = Target(op[k].kind) THEN config
               ELSE Target(op[k].kind)
  /\ orders' = MarkedBy(k)
  /\ End(k)
  /\ UNCHANGED <<signal, events, settled, locked,
                 holder, bot, pc, req, seen, stale, broker>>

(* Mutant of OperatorFails: no busy timeout. *)
OperatorFailsLate(k) ==
  /\ Ready(k)
  /\ InsertConflict(k) /\ holder = None
  /\ End(k)
  /\ UNCHANGED <<vars, config>>

(* "database is locked" after the busy timeout, or the insert conflict:    *)
(* the marks are gone, what was done at the broker and in memory stays.    *)
OperatorFails(k) ==
  /\ Ready(k)
  /\ (Writes(k) /\ holder # None) \/ InsertConflict(k)
  /\ End(k)
  /\ UNCHANGED <<vars, config>>

OperatorStep(k) ==
  \/ OperatorSet(k)
  \/ PanicSelect(k)
  \/ \E o \in orders : PanicUnsent(k, o) \/ PanicCancel(k, o)
                       \/ PanicCancelFails(k, o)
  \/ OperatorCommit(k)
  \/ OperatorFails(k)

-----------------------------------------------------------------------------

(* The pipeline without its stand-ins for this module. *)
PipelineStep ==
  /\ \/ \E r \in Submitters :
          \/ \E s \in Signals, q \in Quantities : SubmitRead(r, s, q)
          \/ SubmitStep(r)
     \/ \E j \in Rejecters : (\E s \in Signals : RejectRead(j, s)) \/ RejectStep(j)
     \/ \E c \in Reconcilers : ReconcileRead(c) \/ ReconcileStep(c)
     \/ \E S \in (SUBSET Signals) \ {{}} : GenerateSignals(S)
     \/ \E i \in DOMAIN broker : BrokerMoves(i)
  /\ UNCHANGED switch

(* bot_state is ACTIVE again; the config row is not looked at. *)
ProcessRestart ==
  /\ Restart
  /\ op' = [k \in Operators |-> NoOp]
  /\ UNCHANGED config

SwitchNext ==
  \/ PipelineStep
  \/ ProcessRestart
  \/ \E k \in Operators : (\E kind \in Kinds : OperatorRead(k, kind))
                          \/ OperatorStep(k)

SwitchSpec == SwitchInit /\ [][SwitchNext]_allVars

(* An operator request runs on as a submission does (see Fairness). *)
SwitchFairSpec ==
  /\ SwitchSpec
  /\ \A k \in Operators : WF_allVars(OperatorStep(k))

-----------------------------------------------------------------------------
(* Properties                                                              *)

(* Seen from the pipeline the switch only flips the flag, cancels orders   *)
(* at the broker and marks cancellable rows while nobody holds the lock:   *)
(* all that is proved of SignalExecution holds with the switch in use.     *)
ImplementsPipeline == Spec

(* A row panic marked CANCELLED, and that names an order of the broker, is *)
(* cancelled there: through concurrent panics, fills that outrun the       *)
(* cancellation, lost answers and crashes between the call and the commit. *)
MarksAreConfirmed ==
  \A o \in orders : o.status = "CANCELLED" /\ o.brokerId # NoBrokerId =>
    broker[o.brokerId].state = "CANCELLED"

(* Every halt, resume and panic is answered, whoever holds the database. *)
OperatorsAreAnswered ==
  \A k \in Operators : op[k].step # "idle" ~> op[k].step = "idle"
=============================================================================
