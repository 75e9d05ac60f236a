---------------------------- MODULE PaperBroker -----------------------------
(***************************************************************************)
(* PaperBrokerClient (broker/paper/client.py) and its FillSimulator: an    *)
(* account in memory, filled order by order.  submit_order prices the legs *)
(* of an order one by one, awaiting a mark for each, on a working copy of  *)
(* the positions, and applies the whole order or nothing; the asyncio lock *)
(* keeps the orders apart.                                                 *)
(*                                                                         *)
(* Prices and cash are in cents, average costs and realized P&L in         *)
(* hundredths of a cent, the quantum of avg_cost.                          *)
(***************************************************************************)
EXTENDS Integers, Sequences, FiniteSets, Folding

CONSTANTS
  Clients,        \* concurrent submit_order calls
  Keys,           \* (symbol, asset type) pairs
  AssetType,      \* the asset type of each key
  Requests,       \* orders a client may send: sequences of legs
  Marks,          \* marks of each key the price source may answer
  StartingCash,
  SlippageBps,
  PenaltyBps,     \* added outside the regular session
  MaxOrders,      \* bound of the model on the orders filled
  None

OpenLong == {"BUY", "BUY_TO_OPEN"}
OpenShort == {"SELL_TO_OPEN"}
CloseLong == {"SELL", "SELL_TO_CLOSE"}
CloseShort == {"BUY_TO_CLOSE"}
Buying == OpenLong \cup CloseShort
Leg == [key : Keys, instruction : Buying \cup OpenShort \cup CloseLong,
        quantity : Nat \ {0}]
Fill == [key : Keys, instruction : Buying \cup OpenShort \cup CloseLong,
         quantity : Nat \ {0}, price : Int]

ASSUME PaperAssumption ==
  /\ None \notin Clients
  /\ IsFiniteSet(Keys)
  /\ AssetType \in [Keys -> {"OPTION", "EQUITY", "FUTURE"}]
  /\ Requests \subseteq Seq(Leg)
  /\ Marks \in [Keys -> SUBSET Nat]
  /\ StartingCash \in Nat
  /\ SlippageBps \in Nat
  /\ PenaltyBps \in Nat
  /\ SlippageBps + PenaltyBps <= 10000     \* prices are not negative
  /\ MaxOrders \in Nat

VARIABLES
  cash,
  positions,      \* of each key; quantity 0 when there is none
  closed,         \* realized P&L of positions closed for good, per key
  orders,         \* fills of each order, the n-th under id PAPER-n
  lock,           \* holder of the client's lock, or None
  pc,
  work            \* locals of the orders under way

vars == <<cash, positions, closed, orders, lock, pc, work>>

-----------------------------------------------------------------------------

Quantum == 100     \* avg_cost quanta per cent

NoPosition == [quantity |-> 0, avg |-> 0, realized |-> 0]
NoWork == [legs |-> <<>>, bps |-> 0, fills |-> <<>>, cash |-> 0,
           positions |-> [k \in Keys |-> NoPosition],
           closing |-> [k \in Keys |-> 0]]

Position == [quantity : Int, avg : Int, realized : Int]
TypeOK ==
  /\ cash \in Int
  /\ positions \in [Keys -> Position]
  /\ closed \in [Keys -> Int]
  /\ orders \in Seq(Seq(Fill))
  /\ lock \in Clients \cup {None}
  /\ pc \in [Clients -> {"idle", "waiting", "filling"}]
  /\ \A c \in Clients : lock = c <=> pc[c] = "filling"
  /\ work \in [Clients -> [legs : Seq(Leg), bps : Nat, fills : Seq(Fill),
                           cash : Int, positions : [Keys -> Position],
                           closing : [Keys -> Int]]]

Init ==
  /\ cash = StartingCash
  /\ positions = [k \in Keys |-> NoPosition]
  /\ closed = [k \in Keys |-> 0]
  /\ orders = <<>>
  /\ lock = None
  /\ pc = [c \in Clients |-> "idle"]
  /\ work = [c \in Clients |-> NoWork]

-----------------------------------------------------------------------------
(* Arithmetic                                                              *)

Multiplier(k) == IF AssetType[k] = "OPTION" THEN 100 ELSE 1

(* n / d to the nearest integer, n >= 0: ROUND_HALF_UP for prices, the     *)
(* default ROUND_HALF_EVEN for average costs.                              *)
HalfUp(n, d) == (2 * n + d) \div (2 * d)
HalfEven(n, d) ==
  IF 2 * (n % d) = d /\ (n \div d) % 2 = 0 THEN n \div d ELSE HalfUp(n, d)

(* FillSimulator.simulate: slippage against the trader, in whole cents. *)
FillPrice(instruction, mark, bps) ==
  HalfUp(mark * (10000 + (IF instruction \in Buying THEN bps ELSE - bps)), 10000)

(* _cash_effect. *)
CashEffect(fill) ==
  LET gross == fill.quantity * Multiplier(fill.key) * fill.price
  IN IF fill.instruction \in Buying THEN - gross ELSE gross

Signed(fill) ==
  IF fill.instruction \in Buying THEN fill.quantity ELSE - fill.quantity

(* Mutant of Allowed: closing more than there is. *)
AllowedAnySize(leg, q) ==
  /\ leg.instruction \in OpenLong => q >= 0
  /\ leg.instruction \in OpenShort => q <= 0
  /\ leg.instruction \in CloseLong => q > 0
  /\ leg.instruction \in CloseShort => q < 0

(* _validate_position_intent against a position of quantity q. *)
Allowed(leg, q) ==
  /\ leg.instruction \in OpenLong => q >= 0
  /\ leg.instruction \in OpenShort => q <= 0
  /\ leg.instruction \in CloseLong => q > 0 /\ leg.quantity <= q
  /\ leg.instruction \in CloseShort => q < 0 /\ leg.quantity <= - q

Size(position) ==
  IF position.quantity < 0 THEN - position.quantity ELSE position.quantity

(* _apply_fill_to_position: opening averages the cost, closing realizes    *)
(* the difference.                                                         *)
Opened(position, fill) ==
  LET size == Size(position) + fill.quantity
  IN [quantity |-> position.quantity + Signed(fill),
      avg |-> HalfEven(Size(position) * position.avg
                       + fill.quantity * fill.price * Quantum, size),
      realized |-> IF position.quantity = 0 THEN 0 ELSE position.realized]
Closed(position, fill) ==
  LET gain == IF fill.instruction \in CloseLong
              THEN fill.price * Quantum - position.avg
              ELSE position.avg - fill.price * Quantum
  IN [quantity |-> position.quantity + Signed(fill),
      avg |-> position.avg,
      realized |-> position.realized
                   + gain * fill.quantity * Multiplier(fill.key)]
Applied(position, fill) ==
  IF fill.instruction \in OpenLong \cup OpenShort
  THEN Opened(position, fill) ELSE Closed(position, fill)

-----------------------------------------------------------------------------
(* submit_order                                                            *)

(* The market session is looked up before the lock is waited for. *)
Submit(c, request, regular) ==
  /\ pc[c] = "idle"
  /\ request # <<>>
  /\ pc' = [pc EXCEPT ![c] = "waiting"]
  /\ work' = [work EXCEPT ![c] =
       [NoWork EXCEPT !.legs = request,
                      !.bps = SlippageBps + IF regular THEN 0 ELSE PenaltyBps]]
  /\ UNCHANGED <<cash, positions, closed, orders, lock>>

(* Mutant of Enter: no lock. *)
EnterUnlocked(c) ==
  /\ pc[c] = "waiting"
  /\ pc' = [pc EXCEPT ![c] = "filling"]
  /\ work' = [work EXCEPT ![c].positions = positions]
  /\ UNCHANGED <<cash, positions, closed, orders, lock>>

Enter(c) ==
  /\ pc[c] = "waiting"
  /\ lock = None
  /\ lock' = c
  /\ pc' = [pc EXCEPT ![c] = "filling"]
  /\ work' = [work EXCEPT ![c].positions = positions]
  /\ UNCHANGED <<cash, positions, closed, orders>>

Leave(c) ==
  /\ pc' = [pc EXCEPT ![c] = "idle"]
  /\ work' = [work EXCEPT ![c] = NoWork]
  /\ lock' = IF lock = c THEN None ELSE lock

(* The next leg is validated, priced and filled on the working copy. *)
FillLeg(c, mark) ==
  LET leg == Head(work[c].legs)
      fill == [key |-> leg.key, instruction |-> leg.instruction,
               quantity |-> leg.quantity,
               price |-> FillPrice(leg.instruction, mark, work[c].bps)]
      before == work[c].positions[leg.key]
      after == Applied(before, fill)
  IN /\ pc[c] = "filling"
     /\ work[c].legs # <<>>
     /\ mark \in Marks[leg.key]
     /\ Allowed(leg, before.quantity)
     /\ work' = [work EXCEPT ![c] =
          [legs |-> Tail(work[c].legs), bps |-> work[c].bps,
           fills |-> Append(work[c].fills, fill),
           cash |-> work[c].cash + CashEffect(fill),
           positions |-> [work[c].positions EXCEPT ![leg.key] = after],
           closing |-> [work[c].closing EXCEPT ![leg.key] = work[c].closing[leg.key]
                          + IF after.quantity = 0 THEN after.realized ELSE 0]]]
     /\ UNCHANGED <<cash, positions, closed, orders, lock, pc>>

(* A leg is not allowed, or has no price: nothing was applied. *)
RejectLeg(c) ==
  /\ pc[c] = "filling"
  /\ work[c].legs # <<>>
  /\ Leave(c)
  /\ UNCHANGED <<cash, positions, closed, orders>>

Short(c) ==
  /\ pc[c] = "filling"
  /\ work[c].legs = <<>>
  /\ cash + work[c].cash < 0
  /\ Leave(c)
  /\ UNCHANGED <<cash, positions, closed, orders>>

(* Mutant of Apply: the P&L of a closed position goes with it. *)
ApplyForgets(c) ==
  /\ pc[c] = "filling"
  /\ work[c].legs = <<>>
  /\ cash + work[c].cash >= 0
  /\ cash' = cash + work[c].cash
  /\ positions' = [k \in Keys |->
       IF work[c].positions[k].quantity = 0 THEN NoPosition
       ELSE work[c].positions[k]]
  /\ orders' = Append(orders, work[c].fills)
  /\ Leave(c)
  /\ UNCHANGED closed

(* Mutant of Apply: the cash is not checked. *)
ApplyOverdrawn(c) ==
  /\ pc[c] = "filling"
  /\ work[c].legs = <<>>
  /\ cash' = cash + work[c].cash
  /\ positions' = [k \in Keys |->
       IF work[c].positions[k].quantity = 0 THEN NoPosition
       ELSE work[c].positions[k]]
  /\ closed' = [k \in Keys |-> closed[k] + work[c].closing[k]]
  /\ orders' = Append(orders, work[c].fills)
  /\ Leave(c)

(* Cash, positions and the order record change without an await between.  *)
Apply(c) ==
  /\ pc[c] = "filling"
  /\ work[c].legs = <<>>
  /\ cash + work[c].cash >= 0
  /\ cash' = cash + work[c].cash
  /\ positions' = [k \in Keys |->
       IF work[c].positions[k].quantity = 0 THEN NoPosition
       ELSE work[c].positions[k]]
  /\ closed' = [k \in Keys |-> closed[k] + work[c].closing[k]]
  /\ orders' = Append(orders, work[c].fills)
  /\ Leave(c)

Step(c) ==
  \/ Enter(c)
  \/ \E mark \in UNION {Marks[k] : k \in Keys} : FillLeg(c, mark)
  \/ RejectLeg(c)
  \/ Short(c)
  \/ Apply(c)

(* The account lives in memory. *)
Restart ==
  /\ cash' = StartingCash
  /\ positions' = [k \in Keys |-> NoPosition]
  /\ closed' = [k \in Keys |-> 0]
  /\ orders' = <<>>
  /\ lock' = None
  /\ pc' = [c \in Clients |-> "idle"]
  /\ work' = [c \in Clients |-> NoWork]

Next ==
  \/ \E c \in Clients :
       \/ /\ Len(orders) < MaxOrders
          /\ \E request \in Requests, regular \in BOOLEAN : Submit(c, request, regular)
       \/ Step(c)
  \/ Restart

Spec == Init /\ [][Next]_vars

-----------------------------------------------------------------------------
(* Properties                                                              *)

Fills == FlattenSeq(orders)

(* The account never owes cash, whatever several orders of several legs    *)
(* do at once.                                                             *)
CashNonNegative == cash >= 0

(* Orders are applied whole or not at all, and none overwrites another:    *)
(* cash and every position, its average cost and P&L included, are what    *)
(* the recorded fills give when they are applied again one by one.         *)
CashAfter == [p \in Int \X Fill |-> p[1] + CashEffect(p[2])]
PositionAfter(k) ==
  [p \in Position \X Fill |-> IF p[2].key = k THEN Applied(p[1], p[2]) ELSE p[1]]
Replayed(k, fills) == Folded(PositionAfter(k), NoPosition, fills)
BooksMatchFills ==
  /\ cash = Folded(CashAfter, StartingCash, Fills)
  /\ \A k \in Keys : positions[k] = IF Replayed(k, Fills).quantity = 0
                                    THEN NoPosition ELSE Replayed(k, Fills)

(* No money appears or is lost between cash, open cost and realized P&L,   *)
(* but for the rounding of average costs: half a quantum per contract each *)
(* time a position is opened or added to.                                  *)
VolumeAfter == [p \in Nat \X Fill |-> p[1] + p[2].quantity * Multiplier(p[2].key)]
Volume(fills) == Folded(VolumeAfter, 0, fills)
OpenCost(k, position) == position.quantity * position.avg * Multiplier(k)
PnlBalances ==
  LET surplus == Quantum * (cash - StartingCash)
                 + SumOver(Keys, [k \in Keys |-> OpenCost(k, positions[k])
                                                 - positions[k].realized - closed[k]])
      slack == Volume(Fills) * Len(Fills)
  IN 2 * surplus \in - slack .. slack

(* A position is short only if somebody sold to open: closing orders, of   *)
(* any number of legs on the same symbol, never turn a position over.      *)
SoldToOpen(fills, k) ==
  \E i \in DOMAIN fills : fills[i].key = k /\ fills[i].instruction \in OpenShort
ShortsAreOpened ==
  \A k \in Keys : positions[k].quantity < 0 =>
    \E n \in DOMAIN orders : SoldToOpen(orders[n], k)
=============================================================================
