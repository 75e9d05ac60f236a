------------------------------- MODULE HitlDesk -------------------------------
(***************************************************************************)
(* What the human-in-the-loop pipeline promises, without requests, awaits, *)
(* sessions, locks, a broker or crashes: a queue of signals, and orders    *)
(* that are booked, paid from settled cash and closed in one step.         *)
(* SignalExecution implements it.  The desk is as lenient as the code: the *)
(* plan's, which executes out of the queue only, is not implemented        *)
(* (ExecutedFromTheQueue of SignalExecution).                              *)
(***************************************************************************)
EXTENDS Integers

CONSTANTS
  Signals,          \* signals.signal_id
  Collateral,       \* collateral per contract of a signal
  Ceiling,          \* its ceiling quantity
  SeedCash          \* settled cash to start with

VARIABLES
  status,           \* of each signal, "ABSENT" before it exists
  booked,           \* pairs of a signal and the quantity it was executed with
  available         \* settled cash not locked by an order

vars == <<status, booked, available>>

Queue == "APPROVED_AWAITING_HITL"

Init ==
  /\ status \in [Signals -> {"ABSENT", "PENDING", Queue}]
  /\ booked = {}
  /\ available = SeedCash

(* New signals enter the queue. *)
Offer(S) ==
  /\ \A s \in S : status[s] = "ABSENT"
  /\ status' = [s \in Signals |-> IF s \in S THEN Queue ELSE status[s]]
  /\ UNCHANGED <<booked, available>>

(* The order, its lock and its status, all or nothing, once per signal.  A *)
(* rejection that raced the submission is overwritten.                     *)
Execute(s, q) ==
  /\ status[s] \in {Queue, "REJECTED"}
  /\ \A b \in booked : b[1] # s
  /\ q \in 1 .. Ceiling[s]
  /\ Collateral[s] * q <= available
  /\ status' = [status EXCEPT ![s] = "EXECUTED"]
  /\ booked' = booked \cup {<<s, q>>}
  /\ available' = available - Collateral[s] * q

(* A human may reject anything, an executed signal included. *)
Reject(s) ==
  /\ status[s] # "ABSENT"
  /\ status' = [status EXCEPT ![s] = "REJECTED"]
  /\ UNCHANGED <<booked, available>>

(* Only what never reached the queue expires. *)
Expire(S) ==
  /\ \A s \in S : /\ status[s] \in {"PENDING", "REJECTED", "EXPIRED"}
                  /\ \A b \in booked : b[1] # s
  /\ status' = [s \in Signals |-> IF s \in S THEN "EXPIRED" ELSE status[s]]
  /\ UNCHANGED <<booked, available>>

Next ==
  \/ \E S \in SUBSET Signals : Offer(S) \/ Expire(S)
  \/ \E s \in Signals : Reject(s) \/ \E q \in 1 .. Ceiling[s] : Execute(s, q)

Spec == Init /\ [][Next]_vars
=============================================================================
