------------------------------ MODULE CashViews ------------------------------
(***************************************************************************)
(* The four readings of one cash ledger: what the guard can lock, what the *)
(* repository calls running cash, what the page /cash-ledger shows and     *)
(* what the risk context takes for settled.  A ledger is a sequence of     *)
(* rows of one account, an amount in cents each with the day it settles.   *)
(***************************************************************************)
EXTENDS Integers, Sequences, FiniteSetsExt, Folding

Reasons == {"DEPOSIT", "FILL", "COLLATERAL_LOCK", "COLLATERAL_RELEASE"}
LedgerRow == [delta : Int, settles : Nat, reason : Reasons]

(* coalesce(sum(delta_amount), 0) of the rows of I. *)
Total(ledger, I) == SumOver(I, [i \in I |-> ledger[i].delta])

(* Mutant of SettledRows: what settles tomorrow counts today. *)
SettledRowsEarly(ledger, today) == {i \in DOMAIN ledger : ledger[i].settles <= today + 1}

SettledRows(ledger, today) == {i \in DOMAIN ledger : ledger[i].settles <= today}
RowsFor(ledger, reasons) == {i \in DOMAIN ledger : ledger[i].reason \in reasons}
Locks(ledger) == RowsFor(ledger, {"COLLATERAL_LOCK"})
Releases(ledger) == RowsFor(ledger, {"COLLATERAL_RELEASE"})

(* settled_cash_as_of and available_settled: can_lock lets an order take    *)
(* up to this.                                                             *)
SettledAsOf(ledger, today) == Total(ledger, SettledRows(ledger, today))

(* unsettled_cash_as_of *)
UnsettledAsOf(ledger, today) ==
  Total(ledger, DOMAIN ledger \ SettledRows(ledger, today))

(* running_available_cash *)
Running(ledger, today) == SettledAsOf(ledger, today) + Min({UnsettledAsOf(ledger, today), 0})

(* build_risk_context: settled_cash leaves the lock rows out. *)
ContextSettled(ledger, today) ==
  Total(ledger, SettledRows(ledger, today) \ Locks(ledger))

(* The page's locked: what was locked and is not released. *)
PageLocked(ledger) == Max({0, - Total(ledger, Locks(ledger) \cup Releases(ledger))})

(* GET /cash-ledger *)
PageAvailable(ledger, today) == ContextSettled(ledger, today) - PageLocked(ledger)

(* The ledgers of one account as the code writes them: lock_collateral and *)
(* release_collateral refuse negative amounts, and their callers date a    *)
(* row on the day it is made.  Nothing asks that a release had a lock.     *)
IsLedger(ledger, today) ==
  /\ ledger \in Seq(LedgerRow)
  /\ \A i \in Locks(ledger) : ledger[i].delta <= 0
  /\ \A i \in Releases(ledger) : ledger[i].delta >= 0
  /\ Locks(ledger) \cup Releases(ledger) \subseteq SettledRows(ledger, today)

-----------------------------------------------------------------------------
(* How the readings must relate. *)

(* Money on its way is nobody's: with the rows that settle later brought   *)
(* to nothing, the guard, the engine and the page read what they read      *)
(* before, and running cash is never above the guard's.                    *)
IgnoresUnsettled(ledger, today) ==
  LET Without == [i \in DOMAIN ledger |->
                    IF ledger[i].settles <= today THEN ledger[i]
                    ELSE [ledger[i] EXCEPT !.delta = 0]]
  IN /\ SettledAsOf(Without, today) = SettledAsOf(ledger, today)
     /\ ContextSettled(Without, today) = ContextSettled(ledger, today)
     /\ PageAvailable(Without, today) = PageAvailable(ledger, today)
     /\ Running(ledger, today) <= SettledAsOf(ledger, today)
=============================================================================
