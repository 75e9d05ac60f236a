------------------------- MODULE PaperBrokerProofs --------------------------
(***************************************************************************)
(* Proofs about PaperBroker, for any clients, keys, requests, marks and    *)
(* cash: types, cash that is never owed, shorts that somebody opened, and  *)
(* books that hold what the fills give and balance.                        *)
(***************************************************************************)
EXTENDS PaperBroker, FoldingProofs

Work == [legs : Seq(Leg), bps : Nat, fills : Seq(Fill), cash : Int,
         positions : [Keys -> Position], closing : [Keys -> Int]]

(* What an order carries: whoever is short on its working copy was short   *)
(* before, by an order on record, or has been sold to open by a leg of it. *)
WorkInv(c) ==
  pc[c] = "filling" =>
    \A k \in Keys : work[c].positions[k].quantity < 0 =>
      \/ SoldToOpen(work[c].fills, k)
      \/ \E n \in DOMAIN orders : SoldToOpen(orders[n], k)

PaperInv ==
  /\ TypeOK
  /\ CashNonNegative
  /\ ShortsAreOpened
  /\ \A c \in Clients : WorkInv(c)

-----------------------------------------------------------------------------
(* Arithmetic *)

LEMMA HalfEvenType ==
  ASSUME NEW n \in Int, NEW d \in Nat \ {0}
  PROVE  HalfEven(n, d) \in Int /\ HalfUp(n, d) \in Int
<1>1. 2 * d \in Nat \ {0} /\ 2 * n + d \in Int
  OBVIOUS
<1>2. HalfUp(n, d) \in Int
  BY <1>1 DEF HalfUp
<1>3. n \div d \in Int
  OBVIOUS
<1> QED
  BY <1>2, <1>3 DEF HalfEven

LEMMA PriceType ==
  ASSUME NEW instruction, NEW mark \in Nat, NEW bps \in Nat
  PROVE  FillPrice(instruction, mark, bps) \in Int
<1>1. PICK rate \in Int : rate = 10000 + (IF instruction \in Buying THEN bps ELSE - bps)
  OBVIOUS
<1>2. mark * rate \in Int
  OBVIOUS
<1>3. HalfUp(mark * rate, 10000) \in Int
  BY <1>2, HalfEvenType
<1> QED
  BY <1>1, <1>3 DEF FillPrice

(* The effect of a fill on cash and position. *)
LEMMA EffectType ==
  ASSUME NEW fill \in Fill
  PROVE  CashEffect(fill) \in Int
<1>1. /\ fill.quantity \in Int /\ fill.price \in Int
      /\ Multiplier(fill.key) \in Int
  BY DEF Fill, Multiplier
<1>2. PICK q \in Int, p \in Int, m \in Int :
        q = fill.quantity /\ p = fill.price /\ m = Multiplier(fill.key)
  BY <1>1
<1>3. q * m * p \in Int /\ - (q * m * p) \in Int
  OBVIOUS
<1> QED
  BY <1>2, <1>3 DEF CashEffect

LEMMA AppliedType ==
  ASSUME NEW position \in Position, NEW fill \in Fill
  PROVE  /\ Applied(position, fill) \in Position
         /\ Applied(position, fill).quantity = position.quantity + Signed(fill)
<1>1. PICK q \in Int, a \in Int, r \in Int :
        position = [quantity |-> q, avg |-> a, realized |-> r]
  BY DEF Position
<1>2. PICK n \in Nat \ {0}, p \in Int, m \in Int :
        n = fill.quantity /\ p = fill.price /\ m = Multiplier(fill.key)
  BY DEF Fill, Multiplier
<1>3. PICK s \in Int : s = Signed(fill)
  BY <1>2 DEF Signed
<1>4. PICK size \in Nat : size = Size(position)
  BY <1>1 DEF Size
<1>5. CASE fill.instruction \in OpenLong \cup OpenShort
  <2>1. size * a + n * p * Quantum \in Int
    BY DEF Quantum
  <2>2. size + n \in Nat \ {0}
    OBVIOUS
  <2>3. PICK avg \in Int : avg = HalfEven(size * a + n * p * Quantum, size + n)
    BY <2>1, <2>2, HalfEvenType
  <2>4. Opened(position, fill) =
          [quantity |-> q + s, avg |-> avg, realized |-> IF q = 0 THEN 0 ELSE r]
    BY <1>1, <1>2, <1>3, <1>4, <2>3 DEF Opened
  <2>5. q + s \in Int /\ (IF q = 0 THEN 0 ELSE r) \in Int
    OBVIOUS
  <2> QED
    BY <1>1, <1>3, <1>5, <2>4, <2>5 DEF Applied, Position
<1>6. CASE ~ (fill.instruction \in OpenLong \cup OpenShort)
  <2>1. PICK gain \in Int :
          gain = IF fill.instruction \in CloseLong
                 THEN p * Quantum - a ELSE a - p * Quantum
    <3>1. p * Quantum - a \in Int /\ a - p * Quantum \in Int
      BY DEF Quantum
    <3> QED
      BY <3>1
  <2>2. Closed(position, fill) =
          [quantity |-> q + s, avg |-> a, realized |-> r + gain * n * m]
    BY <1>1, <1>2, <1>3, <2>1 DEF Closed
  <2>3. q + s \in Int /\ r + gain * n * m \in Int
    OBVIOUS
  <2> QED
    BY <1>1, <1>3, <1>6, <2>2, <2>3 DEF Applied, Position
<1> QED
  BY <1>5, <1>6

(* A fill that was allowed makes a position short only if it was short, or *)
(* sells to open.                                                          *)
LEMMA AllowedShort ==
  ASSUME NEW leg \in Leg, NEW q \in Int, Allowed(leg, q),
         NEW fill \in Fill, fill.instruction = leg.instruction,
         fill.quantity = leg.quantity, q + Signed(fill) < 0
  PROVE  q < 0 \/ fill.instruction \in OpenShort
<1>1. /\ leg.quantity \in Nat \ {0}
      /\ leg.instruction \in OpenLong \cup CloseShort \cup OpenShort \cup CloseLong
  BY DEF Leg, Buying
<1>2. CASE leg.instruction \in OpenLong
  BY <1>1, <1>2 DEF Allowed, Signed, Buying
<1>3. CASE leg.instruction \in CloseShort
  BY <1>3 DEF Allowed
<1>4. CASE leg.instruction \in CloseLong
  BY <1>1, <1>4 DEF Allowed, Signed, Buying, OpenLong, CloseShort, CloseLong
<1> QED
  BY <1>1, <1>2, <1>3, <1>4

(* Rounding is off by half at most. *)
LEMMA Rounding ==
  ASSUME NEW n \in Int, NEW d \in Nat \ {0}
  PROVE  /\ HalfEven(n, d) \in Int
         /\ 2 * (HalfEven(n, d) * d - n) \in - d .. d
<1>1. PICK e \in Int : e = 2 * d /\ e > 0 /\ d \in Int /\ d > 0
  OBVIOUS
<1>2. PICK h \in Int : h = (2 * n + d) \div e
  BY <1>1, DivisionBounds
<1>3. h * e <= 2 * n + d /\ 2 * n + d < h * e + e
  <2>1. 2 * n + d \in Int
    OBVIOUS
  <2> QED
    BY <1>1, <1>2, <2>1, DivisionBounds
<1>4. 2 * (h * d - n) \in - d .. d
  <2>1. h * e = 2 * (h * d)
    BY <1>1
  <2> QED
    BY <1>1, <1>3, <2>1
<1>5. PICK q \in Int : q = n \div d
  BY <1>1, DivisionBounds
<1>6. n % d = n - q * d
  BY <1>1, <1>5, DivisionRest
<1>7. CASE 2 * (n % d) = d /\ q % 2 = 0
  <2>1. 2 * (q * d - n) = - d
    BY <1>6, <1>7
  <2>2. HalfEven(n, d) = q
    BY <1>5, <1>7 DEF HalfEven
  <2> QED
    BY <1>1, <2>1, <2>2
<1>8. CASE ~ (2 * (n % d) = d /\ q % 2 = 0)
  <2>1. HalfEven(n, d) = h
    BY <1>1, <1>2, <1>5, <1>8 DEF HalfEven, HalfUp
  <2> QED
    BY <1>4, <2>1
<1> QED
  BY <1>7, <1>8

(* Averaging moves what a book is worth by half a quantum per contract.    *)
LEMMA AveragingMoves ==
  ASSUME NEW u \in Nat, NEW a \in Int, NEW n \in Nat \ {0}, NEW y \in Int, NEW m \in Nat,
         NEW h \in Int, h = HalfEven(u * a + n * y, u + n)
  PROVE  LET move == m * ((u + n) * h - u * a - n * y)
         IN  2 * move \in - (m * (u + n)) .. m * (u + n)
<1>1. PICK t \in Int, d \in Nat \ {0} : t = u * a + n * y /\ d = u + n
  OBVIOUS
<1>2. PICK e \in Int : e = h * d - t /\ 2 * e <= d /\ - d <= 2 * e
  <2>1. 2 * (h * d - t) \in - d .. d
    BY <1>1, Rounding
  <2> QED
    BY <1>1, <2>1
<1>3. 2 * (m * e) <= m * d /\ - (m * d) <= 2 * (m * e)
  <2>1. (2 * e) * m <= d * m /\ (- d) * m <= (2 * e) * m
    BY <1>2, ProductGrows
  <2> QED
    BY <2>1
<1>4. (u + n) * h - u * a - n * y = e
  BY <1>1, <1>2
<1>5. m * e \in Int /\ m * d \in Int
  OBVIOUS
<1> QED
  BY <1>1, <1>3, <1>4, <1>5

-----------------------------------------------------------------------------
(* Types of what orders carry *)

LEMMA NothingType ==
  /\ NoPosition \in Position
  /\ NoWork \in Work
BY EmptySeq DEF NoPosition, NoWork, Position, Work

LEMMA WorkType ==
  ASSUME TypeOK, NEW c \in Clients
  PROVE  /\ work \in [Clients -> Work]
         /\ work[c] \in Work
         /\ work[c].legs \in Seq(Leg) /\ work[c].bps \in Nat
         /\ work[c].fills \in Seq(Fill) /\ work[c].cash \in Int
         /\ work[c].positions \in [Keys -> Position]
         /\ work[c].closing \in [Keys -> Int]
<1>1. work \in [Clients -> Work]
  BY DEF TypeOK, Work
<1>2. work[c] \in Work
  BY <1>1
<1> QED
  BY <1>1, <1>2 DEF Work

(* What filling a leg does to an order. *)
Retired(position) == IF position.quantity = 0 THEN position.realized ELSE 0
LegTaken(c, leg, fill) ==
  LET before == work[c].positions[fill.key]
      after == Applied(before, fill)
  IN /\ fill.instruction = leg.instruction /\ fill.quantity = leg.quantity
     /\ Allowed(leg, before.quantity)
     /\ work' \in [Clients -> Work]
     /\ \A o \in Clients : o # c => work'[o] = work[o]
     /\ work'[c].fills = Append(work[c].fills, fill)
     /\ work'[c].cash = work[c].cash + CashEffect(fill)
     /\ work'[c].positions = [work[c].positions EXCEPT ![fill.key] = after]
     /\ work'[c].closing = [work[c].closing EXCEPT
                              ![fill.key] = work[c].closing[fill.key] + Retired(after)]

LEMMA LegFilled ==
  ASSUME TypeOK, NEW c \in Clients, NEW mark, FillLeg(c, mark)
  PROVE  \E leg \in Leg : \E fill \in Fill : LegTaken(c, leg, fill)
<1>1. PICK leg : leg = Head(work[c].legs)
  OBVIOUS
<1>2. leg \in Leg /\ Tail(work[c].legs) \in Seq(Leg) /\ work[c].legs # <<>>
  <2>1. PICK legs : legs = work[c].legs
    OBVIOUS
  <2>2. legs \in Seq(Leg) /\ legs # <<>>
    BY <2>1, WorkType DEF FillLeg
  <2>3. Head(legs) \in Leg /\ Tail(legs) \in Seq(Leg)
    BY <2>2, HeadTailProperties
  <2> QED
    BY <1>1, <2>1, <2>2, <2>3
<1>3. leg.key \in Keys /\ leg.quantity \in Nat \ {0}
      /\ leg.instruction \in Buying \cup OpenShort \cup CloseLong
  BY <1>2 DEF Leg
<1>4. PICK fill : fill = [key |-> leg.key, instruction |-> leg.instruction,
                          quantity |-> leg.quantity,
                          price |-> FillPrice(leg.instruction, mark, work[c].bps)]
  OBVIOUS
<1>5. fill \in Fill
  <2>1. mark \in Nat
    <3>1. mark \in Marks[leg.key]
      BY <1>1 DEF FillLeg
    <3> QED
      BY <1>3, <3>1, PaperAssumption
  <2>2. FillPrice(leg.instruction, mark, work[c].bps) \in Int
    <3>1. PICK bps \in Nat : bps = work[c].bps
      BY WorkType
    <3> QED
      BY <2>1, <3>1, PriceType
  <2> QED
    BY <1>3, <1>4, <2>2 DEF Fill
<1>6. PICK before : before = work[c].positions[leg.key]
  OBVIOUS
<1>7. before \in Position
  BY <1>3, <1>6, WorkType
<1>8. PICK after : after = Applied(before, fill)
  OBVIOUS
<1>9. after \in Position /\ after.quantity = before.quantity + Signed(fill)
  BY <1>5, <1>7, <1>8, AppliedType
<1>10. Allowed(leg, before.quantity)
  BY <1>1, <1>6 DEF FillLeg
<1>11. PICK cost : cost = work[c].closing[leg.key]
                          + Retired(after)
  OBVIOUS
<1>12. PICK w : w = [legs |-> Tail(work[c].legs), bps |-> work[c].bps,
                     fills |-> Append(work[c].fills, fill),
                     cash |-> work[c].cash + CashEffect(fill),
                     positions |-> [work[c].positions EXCEPT ![leg.key] = after],
                     closing |-> [work[c].closing EXCEPT ![leg.key] = cost]]
  OBVIOUS
<1>13. w \in Work
  <2>1. work[c].cash + CashEffect(fill) \in Int
    BY <1>5, EffectType, WorkType
  <2>2. [work[c].positions EXCEPT ![leg.key] = after] \in [Keys -> Position]
    BY <1>9, WorkType
  <2>3. Append(work[c].fills, fill) \in Seq(Fill)
    BY <1>5, WorkType, AppendProperties
  <2>4. [work[c].closing EXCEPT ![leg.key] = cost] \in [Keys -> Int]
    <3>1. Retired(after) \in Int
      BY <1>9 DEF Position, Retired
    <3>2. work[c].closing \in [Keys -> Int]
      BY WorkType
    <3>3. cost \in Int
      BY <1>3, <1>11, <3>1, <3>2
    <3> QED
      BY <3>2, <3>3
  <2> QED
    BY <1>2, <1>12, <2>1, <2>2, <2>3, <2>4, WorkType DEF Work
<1>14. work' = [work EXCEPT ![c] = w]
  BY <1>1, <1>4, <1>6, <1>8, <1>11, <1>12 DEF FillLeg, Retired
<1>15. /\ work' \in [Clients -> Work]
       /\ work'[c] = w
       /\ \A o \in Clients : o # c => work'[o] = work[o]
  BY <1>13, <1>14, WorkType
<1>16. fill.key = leg.key
  BY <1>4
<1>17. LegTaken(c, leg, fill)
  <2>1. fill.instruction = leg.instruction /\ fill.quantity = leg.quantity
    BY <1>4
  <2>2. /\ w.fills = Append(work[c].fills, fill)
        /\ w.cash = work[c].cash + CashEffect(fill)
        /\ w.positions = [work[c].positions EXCEPT ![leg.key] = after]
        /\ w.closing = [work[c].closing EXCEPT
                          ![leg.key] = work[c].closing[leg.key] + Retired(after)]
    BY <1>11, <1>12
  <2> QED
    BY <1>6, <1>8, <1>10, <1>15, <1>16, <2>1, <2>2 DEF LegTaken
<1> QED
  BY <1>2, <1>5, <1>17

(* Who is short after a leg was short before, or the leg sold to open. *)
LEMMA LegShort ==
  ASSUME TypeOK, NEW c \in Clients, NEW leg \in Leg, NEW fill \in Fill,
         LegTaken(c, leg, fill), NEW k \in Keys, work'[c].positions[k].quantity < 0
  PROVE  \/ work[c].positions[k].quantity < 0
         \/ fill.key = k /\ fill.instruction \in OpenShort
<1>1. PICK before, after : /\ before = work[c].positions[fill.key]
                           /\ after = Applied(before, fill)
  OBVIOUS
<1>2. fill.key \in Keys /\ before \in Position
  BY <1>1, WorkType DEF Fill
<1>3. after.quantity = before.quantity + Signed(fill) /\ before.quantity \in Int
  BY <1>1, <1>2, AppliedType DEF Position
<1>4. work'[c].positions = [work[c].positions EXCEPT ![fill.key] = after]
  BY <1>1 DEF LegTaken
<1>5. CASE k = fill.key
  <2>1. before.quantity + Signed(fill) < 0
    BY <1>2, <1>3, <1>4, <1>5, WorkType
  <2>2. before.quantity < 0 \/ fill.instruction \in OpenShort
    BY <1>1, <1>3, <2>1, AllowedShort DEF LegTaken
  <2> QED
    BY <1>1, <1>5, <2>2
<1>6. CASE k # fill.key
  BY <1>4, <1>6, WorkType
<1> QED
  BY <1>5, <1>6

-----------------------------------------------------------------------------
(* The inductive invariant *)

LEMMA PaperInit ==
  ASSUME Init
  PROVE  PaperInv
<1>1. TypeOK
  BY PaperAssumption, NothingType, EmptySeq DEF Init, TypeOK, Work
<1>2. ShortsAreOpened
  BY DEF Init, ShortsAreOpened, NoPosition
<1> QED
  BY <1>1, <1>2, PaperAssumption DEF Init, PaperInv, CashNonNegative, WorkInv

(* A client that leaves has nothing left to be wrong about. *)
LEMMA LeaveType ==
  ASSUME TypeOK, NEW c \in Clients, Leave(c), pc[c] = "filling"
  PROVE  /\ work' \in [Clients -> Work]
         /\ pc' \in [Clients -> {"idle", "waiting", "filling"}]
         /\ lock' = None /\ pc'[c] = "idle"
         /\ \A o \in Clients : o # c => pc'[o] = pc[o] /\ work'[o] = work[o]
         /\ \A o \in Clients : pc'[o] # "filling"
<1>1. lock = c /\ None # c /\ \A o \in Clients : pc[o] = "filling" => o = c
  BY PaperAssumption DEF TypeOK
<1>2. /\ work' \in [Clients -> Work]
      /\ \A o \in Clients : o # c => work'[o] = work[o]
  BY WorkType, NothingType DEF Leave
<1>3. /\ pc' \in [Clients -> {"idle", "waiting", "filling"}]
      /\ pc'[c] = "idle"
      /\ \A o \in Clients : o # c => pc'[o] = pc[o]
  BY DEF Leave, TypeOK
<1> QED
  BY <1>1, <1>2, <1>3 DEF Leave

LEMMA PaperStep ==
  ASSUME PaperInv, [Next]_vars
  PROVE  PaperInv'
<1>1. /\ TypeOK /\ CashNonNegative /\ ShortsAreOpened
      /\ \A c \in Clients : WorkInv(c)
      /\ work \in [Clients -> Work]
  BY DEF PaperInv, TypeOK, Work
<1>2. ASSUME NEW c \in Clients, NEW request \in Requests, NEW regular \in BOOLEAN,
             Submit(c, request, regular)
      PROVE  PaperInv'
  <2>1. PICK bps \in Nat : bps = SlippageBps + IF regular THEN 0 ELSE PenaltyBps
    <3>1. SlippageBps + 0 \in Nat /\ SlippageBps + PenaltyBps \in Nat
      BY PaperAssumption
    <3> QED
      BY <3>1
  <2>2. [NoWork EXCEPT !.legs = request, !.bps = bps] \in Work
    <3>1. request \in Seq(Leg)
      BY PaperAssumption
    <3> QED
      BY <3>1, NothingType DEF Work
  <2>3. work' = [work EXCEPT ![c] = [NoWork EXCEPT !.legs = request, !.bps = bps]]
    BY <1>2, <2>1 DEF Submit
  <2>4. /\ work' \in [Clients -> Work]
        /\ \A o \in Clients : o # c => work'[o] = work[o]
    BY <1>1, <2>2, <2>3
  <2>5. /\ pc' \in [Clients -> {"idle", "waiting", "filling"}]
        /\ pc[c] = "idle" /\ pc'[c] = "waiting"
        /\ \A o \in Clients : o # c => pc'[o] = pc[o]
        /\ UNCHANGED <<cash, positions, closed, orders, lock>>
    BY <1>1, <1>2 DEF Submit, TypeOK
  <2>6. TypeOK'
    BY <1>1, <2>4, <2>5 DEF TypeOK, Work
  <2>7. \A o \in Clients : WorkInv(o)'
    BY <1>1, <2>4, <2>5 DEF WorkInv
  <2> QED
    BY <1>1, <2>5, <2>6, <2>7 DEF PaperInv, CashNonNegative, ShortsAreOpened
<1>3. ASSUME NEW c \in Clients, Enter(c)
      PROVE  PaperInv'
  <2>1. [work[c] EXCEPT !.positions = positions] \in Work
    BY <1>1, WorkType DEF Work, TypeOK
  <2>2. work' = [work EXCEPT ![c] = [work[c] EXCEPT !.positions = positions]]
    BY <1>1, <1>3 DEF Enter
  <2>3. /\ work' \in [Clients -> Work]
        /\ work'[c].positions = positions
        /\ \A o \in Clients : o # c => work'[o] = work[o]
    BY <1>1, <2>1, <2>2, WorkType DEF Work
  <2>4. /\ pc' \in [Clients -> {"idle", "waiting", "filling"}]
        /\ pc'[c] = "filling" /\ lock' = c /\ lock = None
        /\ \A o \in Clients : o # c => pc'[o] = pc[o]
        /\ UNCHANGED <<cash, positions, closed, orders>>
    BY <1>1, <1>3 DEF Enter, TypeOK
  <2>5. \A o \in Clients : pc[o] # "filling"
    BY <1>1, <2>4, PaperAssumption DEF TypeOK
  <2>6. \A o \in Clients : lock' = o <=> pc'[o] = "filling"
    BY <2>4, <2>5
  <2>7. TypeOK'
    BY <1>1, <2>3, <2>4, <2>6 DEF TypeOK, Work
  <2>8. \A o \in Clients : WorkInv(o)'
    BY <1>1, <2>3, <2>4 DEF WorkInv, ShortsAreOpened
  <2> QED
    BY <1>1, <2>4, <2>7, <2>8 DEF PaperInv, CashNonNegative, ShortsAreOpened
<1>4. ASSUME NEW c \in Clients, NEW mark, FillLeg(c, mark)
      PROVE  PaperInv'
  <2>9. PICK leg \in Leg : \E fill \in Fill : LegTaken(c, leg, fill)
    BY <1>1, <1>4, LegFilled
  <2>10. PICK fill \in Fill : LegTaken(c, leg, fill)
    BY <2>9
  <2>1. /\ work' \in [Clients -> Work]
        /\ \A o \in Clients : o # c => work'[o] = work[o]
        /\ work'[c].fills = Append(work[c].fills, fill)
        /\ \A k \in Keys : work'[c].positions[k].quantity < 0 =>
             \/ work[c].positions[k].quantity < 0
             \/ fill.key = k /\ fill.instruction \in OpenShort
    BY <1>1, <2>10, LegShort DEF LegTaken
  <2>2. UNCHANGED <<cash, positions, closed, orders, lock, pc>> /\ pc[c] = "filling"
    BY <1>4 DEF FillLeg
  <2>3. TypeOK'
    BY <1>1, <2>1, <2>2 DEF TypeOK, Work
  <2>4. PICK fills \in Seq(Fill) : fills = work[c].fills
    BY <1>1, WorkType
  <2>5. /\ Len(fills) + 1 \in DOMAIN Append(fills, fill)
        /\ Append(fills, fill)[Len(fills) + 1] = fill
        /\ \A i \in DOMAIN fills : i \in DOMAIN Append(fills, fill)
                                   /\ Append(fills, fill)[i] = fills[i]
    OBVIOUS
  <2>6. ASSUME NEW k \in Keys,
               SoldToOpen(fills, k) \/ (fill.key = k /\ fill.instruction \in OpenShort)
        PROVE  SoldToOpen(Append(fills, fill), k)
    BY <2>5, <2>6 DEF SoldToOpen
  <2>7. WorkInv(c)'
    <3>1. ASSUME NEW k \in Keys, work'[c].positions[k].quantity < 0
          PROVE  SoldToOpen(work'[c].fills, k) \/ \E n \in DOMAIN orders : SoldToOpen(orders[n], k)
      BY <1>1, <2>1, <2>2, <2>4, <2>6, <3>1 DEF WorkInv
    <3> QED
      BY <2>2, <3>1 DEF WorkInv
  <2>8. \A o \in Clients : WorkInv(o)'
    BY <1>1, <2>1, <2>2, <2>7 DEF WorkInv
  <2> QED
    BY <1>1, <2>2, <2>3, <2>8 DEF PaperInv, CashNonNegative, ShortsAreOpened
<1>5. ASSUME NEW c \in Clients, RejectLeg(c) \/ Short(c)
      PROVE  PaperInv'
  <2>1. /\ Leave(c) /\ pc[c] = "filling"
        /\ UNCHANGED <<cash, positions, closed, orders>>
    BY <1>5 DEF RejectLeg, Short
  <2>2. /\ work' \in [Clients -> Work]
        /\ pc' \in [Clients -> {"idle", "waiting", "filling"}]
        /\ lock' = None
        /\ \A o \in Clients : pc'[o] # "filling"
    BY <1>1, <2>1, LeaveType
  <2>3. TypeOK'
    <3>1. \A o \in Clients : lock' = o <=> pc'[o] = "filling"
      BY <2>2, PaperAssumption
    <3>2. /\ cash' \in Int /\ positions' \in [Keys -> Position]
          /\ closed' \in [Keys -> Int] /\ orders' \in Seq(Seq(Fill))
      BY <1>1, <2>1 DEF TypeOK
    <3> QED
      BY <2>2, <3>1, <3>2 DEF TypeOK, Work
  <2> QED
    BY <1>1, <2>1, <2>2, <2>3 DEF PaperInv, CashNonNegative, ShortsAreOpened, WorkInv
<1>6. ASSUME NEW c \in Clients, Apply(c)
      PROVE  PaperInv'
  <2>1. Leave(c) /\ pc[c] = "filling"
    BY <1>6 DEF Apply
  <2>2. /\ work' \in [Clients -> Work]
        /\ pc' \in [Clients -> {"idle", "waiting", "filling"}]
        /\ lock' = None
        /\ \A o \in Clients : pc'[o] # "filling"
    BY <1>1, <2>1, LeaveType
  <2>3. cash' \in Int /\ cash' >= 0
    BY <1>1, <1>6, WorkType DEF Apply, TypeOK
  <2>4. /\ positions' \in [Keys -> Position]
        /\ \A k \in Keys : positions'[k].quantity < 0 =>
             work[c].positions[k].quantity < 0
    <3>1. positions' = [k \in Keys |->
            IF work[c].positions[k].quantity = 0 THEN NoPosition ELSE work[c].positions[k]]
      BY <1>6 DEF Apply
    <3>2. work[c].positions \in [Keys -> Position]
      BY <1>1, WorkType
    <3>3. NoPosition \in Position /\ ~ (NoPosition.quantity < 0)
      BY NothingType DEF NoPosition
    <3> QED
      BY <3>1, <3>2, <3>3
  <2>5. closed' \in [Keys -> Int]
    BY <1>1, <1>6, WorkType DEF Apply, TypeOK
  <2>6. PICK fills \in Seq(Fill) : fills = work[c].fills
    BY <1>1, WorkType
  <2>7. orders' = Append(orders, fills) /\ orders \in Seq(Seq(Fill))
    BY <1>1, <1>6, <2>6 DEF Apply, TypeOK
  <2>8. /\ orders' \in Seq(Seq(Fill))
        /\ Len(orders) + 1 \in DOMAIN orders' /\ orders'[Len(orders) + 1] = fills
        /\ \A n \in DOMAIN orders : n \in DOMAIN orders' /\ orders'[n] = orders[n]
    BY <2>6, <2>7, AppendProperties
  <2>9. TypeOK'
    <3>1. \A o \in Clients : lock' = o <=> pc'[o] = "filling"
      BY <2>2, PaperAssumption
    <3> QED
      BY <2>2, <2>3, <2>4, <2>5, <2>8, <3>1 DEF TypeOK, Work
  <2>10. ShortsAreOpened'
    <3>1. ASSUME NEW k \in Keys, positions'[k].quantity < 0
          PROVE  \E n \in DOMAIN orders' : SoldToOpen(orders'[n], k)
      <4>1. SoldToOpen(fills, k) \/ \E n \in DOMAIN orders : SoldToOpen(orders[n], k)
        BY <1>1, <2>1, <2>4, <2>6, <3>1 DEF WorkInv
      <4> QED
        BY <2>8, <4>1
    <3> QED
      BY <3>1 DEF ShortsAreOpened
  <2> QED
    BY <2>2, <2>3, <2>9, <2>10 DEF PaperInv, CashNonNegative, WorkInv
<1>7. CASE Restart
  <2>1. /\ cash' = StartingCash
        /\ positions' = [k \in Keys |-> NoPosition]
        /\ closed' = [k \in Keys |-> 0]
        /\ orders' = <<>>
        /\ lock' = None
        /\ pc' = [c \in Clients |-> "idle"]
        /\ work' = [c \in Clients |-> NoWork]
    BY <1>7 DEF Restart
  <2>2. TypeOK'
    BY <2>1, PaperAssumption, NothingType, EmptySeq DEF TypeOK, Work
  <2>3. ShortsAreOpened'
    BY <2>1 DEF ShortsAreOpened, NoPosition
  <2> QED
    BY <2>1, <2>2, <2>3, PaperAssumption DEF PaperInv, CashNonNegative, WorkInv
<1>8. CASE UNCHANGED vars
  BY <1>1, <1>8 DEF vars, PaperInv, TypeOK, CashNonNegative, ShortsAreOpened, WorkInv, Work
<1> QED
  BY <1>2, <1>3, <1>4, <1>5, <1>6, <1>7, <1>8 DEF Next, Step

-----------------------------------------------------------------------------
(* The books.  A book of fills f is its cash c, its positions p and its    *)
(* closed P&L z: the committed one, or that of the order under way.        *)

Book(c, p, z, f) ==
  c \in Int /\ p \in [Keys -> Position] /\ z \in [Keys -> Int] /\ f \in Seq(Fill)

(* Nothing but the quantity of a position that is closed counts.           *)
Alike(p, q) == p = q \/ (p.quantity = 0 /\ q.quantity = 0)

Matches(c, p, f) ==
  /\ c = Folded(CashAfter, StartingCash, f)
  /\ \A k \in Keys : Alike(p[k], Replayed(k, f))

LEMMA BookFolds ==
  /\ Steps(CashAfter, Int, Fill)
  /\ Steps(VolumeAfter, Nat, Fill)
  /\ \A k \in Keys : Steps(PositionAfter(k), Position, Fill)
  /\ StartingCash \in Int /\ 0 \in Nat /\ NoPosition \in Position
<1>1. ASSUME NEW a \in Int, NEW fill \in Fill
      PROVE  CashAfter[<<a, fill>>] \in Int
  <2>1. CashEffect(fill) \in Int
    BY EffectType
  <2> QED
    BY <2>1 DEF CashAfter
<1>2. ASSUME NEW a \in Nat, NEW fill \in Fill
      PROVE  VolumeAfter[<<a, fill>>] \in Nat
  <2>1. PICK n \in Nat, m \in Nat : n = fill.quantity /\ m = Multiplier(fill.key)
    BY DEF Fill, Multiplier
  <2>2. a + n * m \in Nat
    OBVIOUS
  <2> QED
    BY <2>1, <2>2 DEF VolumeAfter
<1>3. ASSUME NEW k \in Keys, NEW a \in Position, NEW fill \in Fill
      PROVE  PositionAfter(k)[<<a, fill>>] \in Position
  BY AppliedType DEF PositionAfter
<1> QED
  BY <1>1, <1>2, <1>3, PaperAssumption, NothingType DEF Steps

(* A fill that is allowed leaves alike positions equal. *)
LEMMA AlikeApplied ==
  ASSUME NEW p \in Position, NEW q \in Position, Alike(p, q),
         NEW leg \in Leg, Allowed(leg, p.quantity), NEW fill \in Fill,
         fill.instruction = leg.instruction
  PROVE  Applied(p, fill) = Applied(q, fill)
<1>1. CASE p = q
  BY <1>1
<1>2. CASE p.quantity = 0 /\ q.quantity = 0
  <2>1. fill.instruction \in OpenLong \cup OpenShort
    BY <1>2 DEF Allowed, Leg, Buying
  <2>2. PICK a \in Int, b \in Int, n \in Int, s \in Int, x \in Int :
          a = p.avg /\ b = q.avg /\ n = fill.quantity /\ s = Signed(fill)
          /\ x = fill.price
    BY DEF Position, Fill, Signed
  <2>3. Size(p) = 0 /\ Size(q) = 0
    BY <1>2 DEF Size
  <2>4. 0 * a + n * x * Quantum = 0 * b + n * x * Quantum
    BY DEF Quantum
  <2>5. Opened(p, fill) = Opened(q, fill)
    BY <1>2, <2>2, <2>3, <2>4 DEF Opened
  <2> QED
    BY <2>1, <2>5 DEF Applied
<1> QED
  BY <1>1, <1>2 DEF Alike

LEMMA FillMatches ==
  ASSUME NEW c, NEW p, NEW z, NEW f, Book(c, p, z, f), Matches(c, p, f),
         NEW leg \in Leg, NEW fill \in Fill, fill.instruction = leg.instruction,
         Allowed(leg, p[fill.key].quantity)
  PROVE  Matches(c + CashEffect(fill),
                 [p EXCEPT ![fill.key] = Applied(p[fill.key], fill)], Append(f, fill))
<1>1. fill.key \in Keys /\ p \in [Keys -> Position] /\ f \in Seq(Fill) /\ c \in Int
  BY DEF Fill, Book
<1>2. PICK g : g = Append(f, fill)
  OBVIOUS
<1>3. Folded(CashAfter, StartingCash, g) = c + CashEffect(fill)
  <2>1. Folded(CashAfter, StartingCash, g)
          = CashAfter[<<Folded(CashAfter, StartingCash, f), fill>>]
    <3>1. PICK A : A = Int
      OBVIOUS
    <3>2. Steps(CashAfter, A, Fill) /\ StartingCash \in A
      BY ONLY <3>1, BookFolds
    <3>3. Folded(CashAfter, StartingCash, Append(f, fill))
            = CashAfter[<<Folded(CashAfter, StartingCash, f), fill>>]
      BY ONLY <1>1, <3>2, fill \in Fill, FoldedAppend
    <3> QED
      BY <1>2, <3>3
  <2>2. CashAfter[<<c, fill>>] = c + CashEffect(fill)
    BY <1>1 DEF CashAfter
  <2> QED
    BY <2>1, <2>2 DEF Matches
<1>4. ASSUME NEW k \in Keys
      PROVE  Alike([p EXCEPT ![fill.key] = Applied(p[fill.key], fill)][k], Replayed(k, g))
  <2>1. PICK before : before = Replayed(k, f)
    OBVIOUS
  <2>2. Steps(PositionAfter(k), Position, Fill) /\ NoPosition \in Position
    BY BookFolds
  <2>3. before \in Position
    BY <1>1, <2>1, <2>2, FoldedType DEF Replayed
  <2>4. Replayed(k, g) = PositionAfter(k)[<<before, fill>>]
    <3>1. Folded(PositionAfter(k), NoPosition, Append(f, fill))
            = PositionAfter(k)[<<Folded(PositionAfter(k), NoPosition, f), fill>>]
      BY ONLY <1>1, <2>2, fill \in Fill, FoldedAppend
    <3> QED
      BY <1>2, <2>1, <3>1 DEF Replayed
  <2>5. Replayed(k, g) = IF fill.key = k THEN Applied(before, fill) ELSE before
    BY <2>3, <2>4 DEF PositionAfter
  <2>6. Alike(p[k], before) /\ p[k] \in Position
    BY <1>1, <2>1 DEF Matches
  <2>7. CASE fill.key = k
    <3>1. Applied(p[k], fill) = Applied(before, fill)
      BY <2>3, <2>6, <2>7, AlikeApplied
    <3> QED
      BY <1>1, <2>5, <2>7, <3>1 DEF Alike
  <2>8. CASE fill.key # k
    BY <1>1, <2>5, <2>6, <2>8
  <2> QED
    BY <2>7, <2>8
<1> QED
  BY <1>2, <1>3, <1>4 DEF Matches

(* What a position adds to the surplus, with the closed P&L of its key. *)
Live(position) == IF position.quantity = 0 THEN 0 ELSE position.realized
Worth(k, position, z) == OpenCost(k, position) - Live(position) - z

(* A fill moves cash and the worth of its position together, but for the   *)
(* rounding of an average.                                                 *)
LEMMA FillMoves ==
  ASSUME NEW p \in Position, NEW z \in Int,
         NEW leg \in Leg, Allowed(leg, p.quantity), NEW fill \in Fill,
         fill.instruction = leg.instruction, fill.quantity = leg.quantity,
         NEW after, after = Applied(p, fill)
  PROVE  LET m == Multiplier(fill.key)
             move == Quantum * CashEffect(fill)
                     + Worth(fill.key, after, z + Retired(after))
                     - Worth(fill.key, p, z)
         IN  /\ 2 * move \in - (m * Size(after)) .. m * Size(after)
             /\ Size(after) \in Nat
             /\ Size(after) <= Size(p) + fill.quantity
<1>1. PICK q \in Int, a \in Int, r \in Int :
        p = [quantity |-> q, avg |-> a, realized |-> r]
  BY DEF Position
<1>2. PICK n \in Nat \ {0}, x \in Int, m \in Nat :
        n = fill.quantity /\ x = fill.price /\ m = Multiplier(fill.key)
  BY DEF Fill, Multiplier
<1>3. fill.instruction \in OpenLong \cup OpenShort \cup CloseLong \cup CloseShort
  BY DEF Fill, Buying
<1>4. PICK y \in Int : y = x * Quantum /\ y = x * 100
  BY DEF Quantum
<1>5. PICK l \in Int : l = Live(p) /\ l = IF q = 0 THEN 0 ELSE r
  BY <1>1 DEF Live
<1>6. Worth(fill.key, p, z) = q * a * m - l - z
  BY <1>1, <1>2, <1>5 DEF Worth, OpenCost
<1>7. ASSUME NEW s \in Int, NEW b \in Int, NEW t \in Int,
             after = [quantity |-> s, avg |-> b, realized |-> t]
      PROVE  Worth(fill.key, after, z + Retired(after)) = s * b * m - t - z
  <2>1. Live(after) + Retired(after) = t /\ Live(after) \in Int /\ Retired(after) \in Int
    BY <1>7 DEF Live, Retired
  <2>2. OpenCost(fill.key, after) = s * b * m /\ s * b * m \in Int
    BY <1>2, <1>7 DEF OpenCost
  <2>3. PICK v \in Int, w \in Int, o \in Int :
          v = Live(after) /\ w = Retired(after) /\ o = s * b * m
    BY <2>1, <2>2
  <2>4. o - v - (z + w) = o - (v + w) - z
    OBVIOUS
  <2> QED
    BY <2>1, <2>2, <2>3, <2>4 DEF Worth
<1>8. Quantum * CashEffect(fill) = IF fill.instruction \in Buying
                                   THEN - (n * m * y) ELSE n * m * y
  <2>1. Quantum * (- (n * m * x)) = - (n * m * y) /\ Quantum * (n * m * x) = n * m * y
    BY <1>4 DEF Quantum
  <2> QED
    BY <1>2, <2>1 DEF CashEffect
<1>9. CASE fill.instruction \in OpenLong \cup OpenShort
  <2>1. PICK u \in Nat : u = Size(p) /\ u = IF q < 0 THEN - q ELSE q
    BY <1>1 DEF Size
  <2>2. PICK h \in Int : h = HalfEven(u * a + n * y, u + n)
    <3>1. u * a + n * y \in Int /\ u + n \in Nat \ {0}
      OBVIOUS
    <3> QED
      BY <3>1, Rounding
  <2>3. u * a + n * y = u * a + n * x * Quantum
    BY <1>4 DEF Quantum
  <2>4. PICK s \in Int : s = q + Signed(fill)
                         /\ s = IF fill.instruction \in Buying THEN q + n ELSE q - n
    BY <1>2 DEF Signed
  <2>5. after = [quantity |-> s, avg |-> h, realized |-> l]
    BY <1>1, <1>2, <1>5, <1>9, <2>1, <2>2, <2>3, <2>4 DEF Applied, Opened
  <2>6. Worth(fill.key, after, z + Retired(after)) = s * h * m - l - z
    BY <1>7, <2>5
  <2>7. PICK e \in Int : /\ e = m * ((u + n) * h - u * a - n * y)
                         /\ 2 * e \in - (m * (u + n)) .. m * (u + n)
    <3>1. m * ((u + n) * h - u * a - n * y) \in Int
      OBVIOUS
    <3> QED
      BY <2>2, <3>1, AveragingMoves
  <2>8. CASE fill.instruction \in OpenLong
    <3>1. q >= 0 /\ fill.instruction \in Buying
      BY <1>1, <2>8 DEF Allowed, Buying
    <3>2. u = q /\ s = q + n
      BY <2>1, <2>4, <3>1
    <3>3. Size(after) = u + n
      BY <2>5, <3>1, <3>2 DEF Size
    <3>4. - (n * m * y) + (s * h * m - l - z) - (q * a * m - l - z) = e
      BY ONLY <2>7, <3>2, q \in Int, s \in Int, h \in Int, m \in Nat, l \in Int,
              z \in Int, y \in Int, n \in Nat, a \in Int
    <3> QED
      BY <1>2, <1>6, <1>8, <2>1, <2>6, <2>7, <3>1, <3>3, <3>4
  <2>9. CASE fill.instruction \in OpenShort
    <3>1. q <= 0 /\ fill.instruction \notin Buying
      BY <1>1, <2>9 DEF Allowed, Buying, OpenShort, OpenLong, CloseShort
    <3>2. u = - q /\ s = q - n
      BY <2>1, <2>4, <3>1
    <3>3. Size(after) = u + n
      BY <2>5, <3>1, <3>2 DEF Size
    <3>4. n * m * y + (s * h * m - l - z) - (q * a * m - l - z) = - e
      BY ONLY <2>7, <3>2, q \in Int, s \in Int, h \in Int, m \in Nat, l \in Int,
              z \in Int, y \in Int, n \in Nat, a \in Int
    <3>5. 2 * (- e) \in - (m * (u + n)) .. m * (u + n)
      BY <2>7
    <3> QED
      BY <1>2, <1>6, <1>8, <2>1, <2>6, <3>1, <3>3, <3>4, <3>5
  <2> QED
    BY <1>9, <2>8, <2>9
<1>10. ASSUME NEW g \in Int, NEW s \in Int,
              after = [quantity |-> s, avg |-> a, realized |-> r + g * n * m],
              q # 0, Size(after) \in Nat, Size(after) <= Size(p) + n,
              Quantum * CashEffect(fill) + s * a * m - q * a * m = g * n * m
       PROVE  LET move == Quantum * CashEffect(fill)
                          + Worth(fill.key, after, z + Retired(after))
                          - Worth(fill.key, p, z)
              IN  /\ 2 * move \in - (m * Size(after)) .. m * Size(after)
                  /\ Size(after) \in Nat
                  /\ Size(after) <= Size(p) + fill.quantity
  <2>1. PICK t \in Int : t = r + g * n * m
    OBVIOUS
  <2>2. Worth(fill.key, after, z + Retired(after)) = s * a * m - t - z
    BY <1>7, <1>10, <2>1
  <2>3. PICK c \in Int : c = Quantum * CashEffect(fill)
    <3>1. n * m * y \in Int /\ - (n * m * y) \in Int
      OBVIOUS
    <3> QED
      BY <1>8, <3>1
  <2>4. PICK v \in Int, w \in Int, d \in Int : v = s * a * m /\ w = q * a * m /\ d = g * n * m
    OBVIOUS
  <2>5. l = r
    BY <1>5, <1>10
  <2>6. c + (v - t - z) - (w - l - z) = 0
    BY <1>10, <2>1, <2>3, <2>4, <2>5
  <2>7. 0 \in - (m * Size(after)) .. m * Size(after)
    <3>1. PICK u \in Nat : u = Size(after)
      BY <1>10
    <3>2. m * u >= 0 /\ m * u \in Int
      OBVIOUS
    <3> QED
      BY <3>1, <3>2
  <2> QED
    BY <1>2, <1>6, <1>10, <2>2, <2>3, <2>4, <2>6, <2>7
<1>11. CASE fill.instruction \in CloseLong
  <2>1. /\ q > 0 /\ n <= q /\ fill.instruction \notin Buying
        /\ fill.instruction \notin OpenLong \cup OpenShort
    BY <1>1, <1>2, <1>11 DEF Allowed, Buying, OpenLong, OpenShort, CloseLong, CloseShort
  <2>2. PICK g \in Int, s \in Int : g = y - a /\ s = q - n /\ s = q + Signed(fill)
    BY <1>2, <2>1 DEF Signed
  <2>3. after = [quantity |-> s, avg |-> a, realized |-> r + g * n * m]
    BY <1>1, <1>2, <1>4, <1>11, <2>1, <2>2 DEF Applied, Closed
  <2>4. Size(after) \in Nat /\ Size(after) <= Size(p) + n
    BY <1>1, <2>1, <2>2, <2>3 DEF Size
  <2>5. n * m * y + s * a * m - q * a * m = g * n * m
    BY ONLY <2>2, q \in Int, m \in Nat, y \in Int, n \in Nat, a \in Int
  <2> QED
    BY <1>2, <1>8, <1>10, <2>1, <2>3, <2>4, <2>5
<1>12. CASE fill.instruction \in CloseShort
  <2>1. /\ q < 0 /\ n <= - q /\ fill.instruction \in Buying
        /\ fill.instruction \notin OpenLong \cup OpenShort
        /\ fill.instruction \notin CloseLong
    BY <1>1, <1>2, <1>12 DEF Allowed, Buying, OpenLong, OpenShort, CloseLong, CloseShort
  <2>2. PICK g \in Int, s \in Int : g = a - y /\ s = q + n /\ s = q + Signed(fill)
    BY <1>2, <2>1 DEF Signed
  <2>3. after = [quantity |-> s, avg |-> a, realized |-> r + g * n * m]
    BY <1>1, <1>2, <1>4, <1>12, <2>1, <2>2 DEF Applied, Closed
  <2>4. Size(after) \in Nat /\ Size(after) <= Size(p) + n
    BY <1>1, <2>1, <2>2, <2>3 DEF Size
  <2>5. - (n * m * y) + s * a * m - q * a * m = g * n * m
    BY ONLY <2>2, q \in Int, m \in Nat, y \in Int, n \in Nat, a \in Int
  <2> QED
    BY <1>2, <1>8, <1>10, <2>1, <2>3, <2>4, <2>5
<1> QED
  BY <1>3, <1>9, <1>11, <1>12

Surplus(c, p, z) ==
  Quantum * (c - StartingCash) + SumOver(Keys, [k \in Keys |-> Worth(k, p[k], z[k])])

Balanced(c, p, z, f) ==
  /\ \A k \in Keys : Size(p[k]) * Multiplier(k) <= Volume(f)
  /\ 2 * Surplus(c, p, z) \in - (Volume(f) * Len(f)) .. Volume(f) * Len(f)

LEMMA WorthType ==
  ASSUME NEW k, NEW p \in Position, NEW z \in Int
  PROVE  Worth(k, p, z) \in Int /\ Size(p) \in Nat /\ Multiplier(k) \in Nat
<1>1. PICK q \in Int, a \in Int, r \in Int :
        q = p.quantity /\ a = p.avg /\ r = p.realized
  BY DEF Position
<1>2. PICK m \in Nat : m = Multiplier(k)
  BY DEF Multiplier
<1>3. q * a * m \in Int
  OBVIOUS
<1>4. OpenCost(k, p) \in Int /\ Live(p) \in Int
  BY <1>1, <1>2, <1>3 DEF OpenCost, Live
<1> QED
  BY <1>1, <1>2, <1>4 DEF Worth, Size

LEMMA SurplusType ==
  ASSUME NEW c, NEW p, NEW z, NEW f, Book(c, p, z, f)
  PROVE  /\ Surplus(c, p, z) \in Int
         /\ SumOver(Keys, [k \in Keys |-> Worth(k, p[k], z[k])]) \in Int
         /\ c \in Int /\ StartingCash \in Int
         /\ Volume(f) \in Nat /\ Len(f) \in Nat
<1>1. PICK w : w = [k \in Keys |-> Worth(k, p[k], z[k])]
  OBVIOUS
<1>2. \A k \in Keys : w[k] \in Int
  BY <1>1, WorthType DEF Book
<1>3. PICK t \in Int : t = SumOver(Keys, w)
  <2>1. IsFiniteSet(Keys)
    BY PaperAssumption
  <2>2. SumOver(Keys, w) \in Int
    BY ONLY <1>2, <2>1, SumType
  <2> QED
    BY <2>2
<1>4. PICK s \in Int, x \in Int : s = StartingCash /\ x = c
  BY PaperAssumption DEF Book
<1>5. Quantum * (x - s) + t \in Int
  BY DEF Quantum
<1>6. Volume(f) \in Nat
  <2>1. f \in Seq(Fill)
    BY DEF Book
  <2>2. PICK A : A = Nat
    OBVIOUS
  <2>3. Steps(VolumeAfter, A, Fill) /\ 0 \in A
    BY ONLY <2>2, BookFolds
  <2>4. Folded(VolumeAfter, 0, f) \in A
    BY ONLY <2>1, <2>3, FoldedType
  <2> QED
    BY <2>2, <2>4 DEF Volume
<1>7. Len(f) \in Nat
  BY LenProperties DEF Book
<1> QED
  BY <1>1, <1>3, <1>4, <1>5, <1>6, <1>7 DEF Surplus

LEMMA VolumeAppend ==
  ASSUME NEW f \in Seq(Fill), NEW fill \in Fill
  PROVE  Volume(Append(f, fill)) = Volume(f) + fill.quantity * Multiplier(fill.key)
<1>1. PICK A : A = Nat
  OBVIOUS
<1>2. Steps(VolumeAfter, A, Fill) /\ 0 \in A
  BY ONLY <1>1, BookFolds
<1>3. Folded(VolumeAfter, 0, Append(f, fill))
        = VolumeAfter[<<Folded(VolumeAfter, 0, f), fill>>]
  BY ONLY <1>2, FoldedAppend, f \in Seq(Fill), fill \in Fill
<1>4. PICK v : v = Folded(VolumeAfter, 0, f)
  OBVIOUS
<1>5. v \in Nat
  BY ONLY <1>1, <1>2, <1>4, FoldedType, f \in Seq(Fill)
<1>6. VolumeAfter[<<v, fill>>] = v + fill.quantity * Multiplier(fill.key)
  BY <1>5 DEF VolumeAfter
<1> QED
  BY <1>3, <1>4, <1>6 DEF Volume

(* What a book may be off by grows by the volume of its fills. *)
LEMMA SlackGrows ==
  ASSUME NEW v \in Nat, NEW w \in Nat, v <= w, NEW n \in Nat,
         NEW s \in Int, 2 * s \in - (v * n) .. v * n,
         NEW e \in Int, 2 * e \in - w .. w
  PROVE  2 * (s + e) \in - (w * (n + 1)) .. w * (n + 1)
<1>1. v * n <= w * n
  BY ProductGrows
<1>2. PICK a \in Int, b \in Int : a = v * n /\ b = w * n
  OBVIOUS
<1>3. w * (n + 1) = b + w
  BY <1>2
<1> QED
  BY <1>1, <1>2, <1>3

LEMMA FillBalanced ==
  ASSUME NEW c, NEW p, NEW z, NEW f, Book(c, p, z, f), Balanced(c, p, z, f),
         NEW leg \in Leg, NEW fill \in Fill, fill.instruction = leg.instruction,
         fill.quantity = leg.quantity, Allowed(leg, p[fill.key].quantity),
         NEW after, after = Applied(p[fill.key], fill)
  PROVE  Balanced(c + CashEffect(fill), [p EXCEPT ![fill.key] = after],
                  [z EXCEPT ![fill.key] = z[fill.key] + Retired(after)],
                  Append(f, fill))
<1>1. PICK k : k = fill.key
  OBVIOUS
<1>2. /\ k \in Keys /\ p \in [Keys -> Position] /\ z \in [Keys -> Int]
      /\ f \in Seq(Fill) /\ c \in Int /\ p[k] \in Position /\ z[k] \in Int
  BY <1>1 DEF Fill, Book
<1>3. PICK pp, zz, g : /\ pp = [p EXCEPT ![k] = after]
                       /\ zz = [z EXCEPT ![k] = z[k] + Retired(after)]
                       /\ g = Append(f, fill)
  OBVIOUS
<1>4. after \in Position /\ Retired(after) \in Int
  <2>1. after \in Position
    BY <1>1, <1>2, AppliedType
  <2> QED
    BY <2>1 DEF Retired, Position
<1>5. PICK n \in Nat, m \in Nat : n = fill.quantity /\ m = Multiplier(k)
  BY DEF Fill, Multiplier
<1>6. PICK e \in Int : e = CashEffect(fill)
  BY EffectType
<1>7. PICK old \in Int, new \in Int :
        old = Worth(k, p[k], z[k]) /\ new = Worth(k, after, z[k] + Retired(after))
  <2>1. z[k] + Retired(after) \in Int
    BY <1>2, <1>4
  <2> QED
    BY <1>2, <1>4, <2>1, WorthType
<1>8. PICK u \in Nat, x \in Nat : u = Size(p[k]) /\ x = Size(after)
  BY <1>2, <1>4, WorthType
<1>9. 2 * (Quantum * e + new - old) \in - (m * x) .. m * x /\ x <= u + n
  BY <1>1, <1>2, <1>5, <1>6, <1>7, <1>8, FillMoves
<1>10. PICK v \in Nat, w \in Nat : v = Volume(f) /\ w = Volume(g) /\ w = v + n * m
  <2>1. Volume(g) = Volume(f) + n * m
    BY <1>1, <1>2, <1>3, <1>5, VolumeAppend
  <2>2. PICK v \in Nat : v = Volume(f)
    BY SurplusType
  <2>3. v + n * m \in Nat
    OBVIOUS
  <2> QED
    BY <2>1, <2>2, <2>3
<1>11. v <= w /\ x * m <= w
  <2>1. u * m <= v
    BY <1>2, <1>5, <1>8, <1>10 DEF Balanced
  <2>2. x * m <= (u + n) * m
    BY <1>9, ProductGrows
  <2>3. PICK d \in Nat : d = n * m
    OBVIOUS
  <2> QED
    BY <1>10, <2>1, <2>2, <2>3
<1>12. \A j \in Keys : Size(pp[j]) * Multiplier(j) <= Volume(g)
  <2>1. ASSUME NEW j \in Keys
        PROVE  Size(pp[j]) * Multiplier(j) <= w
    <3>1. CASE j = k
      BY <1>2, <1>3, <1>5, <1>8, <1>11, <3>1
    <3>2. CASE j # k
      <4>1. pp[j] = p[j]
        BY <1>2, <1>3, <3>2
      <4>2. Size(p[j]) * Multiplier(j) <= v
        BY <1>10 DEF Balanced
      <4>3. PICK a \in Nat, b \in Nat : a = Size(p[j]) /\ b = Multiplier(j)
        BY <1>2, WorthType
      <4>4. a * b \in Int
        OBVIOUS
      <4> QED
        BY <1>11, <4>1, <4>2, <4>3, <4>4
    <3> QED
      BY <3>1, <3>2
  <2> QED
    BY <1>10, <2>1
<1>13. PICK s \in Int : s = Surplus(c, p, z)
  BY SurplusType
<1>14. Surplus(c + e, pp, zz) = s + (Quantum * e + new - old)
  <2>1. PICK F, G : /\ F = [j \in Keys |-> Worth(j, p[j], z[j])]
                    /\ G = [j \in Keys |-> Worth(j, pp[j], zz[j])]
    OBVIOUS
  <2>2. pp \in [Keys -> Position] /\ zz \in [Keys -> Int]
    <3>1. z[k] + Retired(after) \in Int
      BY <1>2, <1>4
    <3> QED
      BY <1>2, <1>3, <1>4, <3>1
  <2>3. \A j \in Keys : F[j] \in Int /\ G[j] \in Int
    BY <1>2, <2>1, <2>2, WorthType
  <2>4. \A j \in Keys \ {k} : G[j] = F[j]
    BY <1>2, <1>3, <2>1
  <2>5. F[k] = old /\ G[k] = new
    BY <1>2, <1>3, <1>7, <2>1
  <2>6. SumOver(Keys, G) = SumOver(Keys, F) - F[k] + G[k]
    <3>1. IsFiniteSet(Keys) /\ k \in Keys
      BY <1>2, PaperAssumption
    <3> QED
      BY ONLY <2>3, <2>4, <3>1, SumChange
  <2>7. PICK t \in Int : t = SumOver(Keys, F)
    <3>1. IsFiniteSet(Keys) /\ \A j \in Keys : F[j] \in Int
      BY <2>3, PaperAssumption
    <3>2. SumOver(Keys, F) \in Int
      BY ONLY <3>1, SumType
    <3> QED
      BY <3>2
  <2>8. PICK b \in Int : b = StartingCash
    BY PaperAssumption
  <2>9. Quantum * ((c + e) - b) + (t - old + new)
          = Quantum * (c - b) + t + (Quantum * e + new - old)
    BY <1>2 DEF Quantum
  <2> QED
    BY <1>13, <2>1, <2>5, <2>6, <2>7, <2>8, <2>9 DEF Surplus
<1>15. PICK l \in Nat : l = Len(f) /\ l + 1 = Len(g)
  BY <1>2, <1>3, AppendProperties, LenProperties
<1>16. 2 * s \in - (v * l) .. v * l
  BY <1>10, <1>13, <1>15 DEF Balanced
<1>17. PICK d \in Int : d = Quantum * e + new - old /\ 2 * d \in - w .. w
  <2>1. PICK d \in Int : d = Quantum * e + new - old
    BY DEF Quantum
  <2>2. PICK h \in Int : h = x * m
    OBVIOUS
  <2> QED
    BY <1>9, <1>11, <2>1, <2>2
<1>18. 2 * (s + d) \in - (w * (l + 1)) .. w * (l + 1)
  BY <1>11, <1>16, <1>17, SlackGrows
<1> QED
  BY <1>1, <1>3, <1>6, <1>10, <1>12, <1>14, <1>15, <1>17, <1>18 DEF Balanced

(* A book that balances and holds what its fills give. *)
Kept(c, p, z, f) == Matches(c, p, f) /\ Balanced(c, p, z, f)

Tidied(p) == [k \in Keys |-> IF p[k].quantity = 0 THEN NoPosition ELSE p[k]]

(* Positions of no quantity may be dropped from a book. *)
LEMMA TidiedKept ==
  ASSUME NEW c, NEW p, NEW z, NEW f, Book(c, p, z, f), Kept(c, p, z, f)
  PROVE  Kept(c, Tidied(p), z, f)
<1>1. PICK t : t = Tidied(p)
  OBVIOUS
<1>2. p \in [Keys -> Position] /\ z \in [Keys -> Int] /\ f \in Seq(Fill)
  BY DEF Book
<1>3. ASSUME NEW k \in Keys
      PROVE  /\ Alike(t[k], Replayed(k, f))
             /\ Size(t[k]) = Size(p[k])
             /\ Worth(k, t[k], z[k]) = Worth(k, p[k], z[k])
  <2>1. p[k] \in Position /\ z[k] \in Int /\ Alike(p[k], Replayed(k, f))
    BY <1>2 DEF Kept, Matches
  <2>2. t[k] = IF p[k].quantity = 0 THEN NoPosition ELSE p[k]
    BY <1>1 DEF Tidied
  <2>3. CASE p[k].quantity = 0
    <3>1. t[k].quantity = 0 /\ t[k].avg = 0
      BY <2>2, <2>3 DEF NoPosition
    <3>2. Replayed(k, f).quantity = 0
      BY <2>1, <2>3 DEF Alike
    <3>3. Live(t[k]) = Live(p[k]) /\ Size(t[k]) = Size(p[k])
      BY <2>3, <3>1 DEF Live, Size
    <3>4. OpenCost(k, t[k]) = OpenCost(k, p[k])
      <4>1. PICK a \in Int, m \in Int : a = p[k].avg /\ m = Multiplier(k)
        BY <2>1 DEF Position, Multiplier
      <4>2. 0 * a * m = 0 * 0 * m
        OBVIOUS
      <4> QED
        BY <2>3, <3>1, <4>1, <4>2 DEF OpenCost
    <3> QED
      BY <3>1, <3>2, <3>3, <3>4 DEF Alike, Worth
  <2>4. CASE p[k].quantity # 0
    BY <2>1, <2>2, <2>4
  <2> QED
    BY <2>3, <2>4
<1>4. Matches(c, t, f)
  BY <1>3 DEF Kept, Matches
<1>5. [k \in Keys |-> Worth(k, t[k], z[k])] = [k \in Keys |-> Worth(k, p[k], z[k])]
  BY <1>3
<1>6. Surplus(c, t, z) = Surplus(c, p, z)
  BY <1>5 DEF Surplus
<1>7. Balanced(c, t, z, f)
  BY <1>3, <1>6 DEF Kept, Balanced
<1> QED
  BY <1>1, <1>4, <1>7 DEF Kept

(* Before the first fill. *)
LEMMA NothingKept ==
  /\ Kept(StartingCash, [k \in Keys |-> NoPosition], [k \in Keys |-> 0], <<>>)
  /\ Book(StartingCash, [k \in Keys |-> NoPosition], [k \in Keys |-> 0], <<>>)
<1>1. PICK p, z : p = [k \in Keys |-> NoPosition] /\ z = [k \in Keys |-> 0]
  OBVIOUS
<1>2. Book(StartingCash, p, z, <<>>)
  BY <1>1, PaperAssumption, NothingType, EmptySeq DEF Book
<1>3. Matches(StartingCash, p, <<>>)
  BY <1>1, FoldedEmpty DEF Matches, Replayed, Alike
<1>4. Volume(<<>>) = 0 /\ Len(<<>>) = 0
  BY FoldedEmpty DEF Volume
<1>5. ASSUME NEW k \in Keys
      PROVE  Worth(k, p[k], z[k]) = 0 /\ Size(p[k]) * Multiplier(k) = 0
  <2>1. PICK m \in Int : m = Multiplier(k)
    BY DEF Multiplier
  <2>2. 0 * 0 * m = 0 /\ 0 * m = 0
    OBVIOUS
  <2> QED
    BY <1>1, <2>1, <2>2 DEF Worth, OpenCost, Live, Size, NoPosition
<1>6. SumOver(Keys, [k \in Keys |-> Worth(k, p[k], z[k])]) = 0
  <2>1. PICK w : w = [k \in Keys |-> Worth(k, p[k], z[k])]
    OBVIOUS
  <2>2. \A k \in Keys : w[k] \in 0 .. 0
    BY <1>5, <2>1
  <2>3. PICK n \in Nat : n = Cardinality(Keys)
    BY PaperAssumption, FS_CardinalityType
  <2>4. 0 * n <= SumOver(Keys, w) /\ SumOver(Keys, w) <= 0 * n
    <3>1. IsFiniteSet(Keys) /\ 0 \in Int
      BY PaperAssumption
    <3> QED
      BY ONLY <2>2, <2>3, <3>1, SumBounds
  <2>5. SumOver(Keys, w) \in Int
    <3>1. IsFiniteSet(Keys) /\ \A k \in Keys : w[k] \in Int
      BY <2>2, PaperAssumption
    <3> QED
      BY ONLY <3>1, SumType
  <2> QED
    BY <2>1, <2>4, <2>5
<1>7. Surplus(StartingCash, p, z) = 0
  <2>1. PICK s \in Int : s = StartingCash
    BY PaperAssumption
  <2>2. Quantum * (s - s) + 0 = 0
    BY DEF Quantum
  <2> QED
    BY <1>6, <2>1, <2>2 DEF Surplus
<1>8. Balanced(StartingCash, p, z, <<>>)
  BY <1>4, <1>5, <1>7 DEF Balanced
<1> QED
  BY <1>1, <1>2, <1>3, <1>8 DEF Kept

LEMMA FillKept ==
  ASSUME NEW c, NEW p, NEW z, NEW f, Book(c, p, z, f), Kept(c, p, z, f),
         NEW leg \in Leg, NEW fill \in Fill, fill.instruction = leg.instruction,
         fill.quantity = leg.quantity, Allowed(leg, p[fill.key].quantity),
         NEW after, after = Applied(p[fill.key], fill)
  PROVE  Kept(c + CashEffect(fill), [p EXCEPT ![fill.key] = after],
              [z EXCEPT ![fill.key] = z[fill.key] + Retired(after)], Append(f, fill))
BY FillMatches, FillBalanced DEF Kept

-----------------------------------------------------------------------------
(* The books of the account and of the order under way *)

(* The P&L of closed positions when the order is applied. *)
Closing(c) == [k \in Keys |-> closed[k] + work[c].closing[k]]

(* An order starts from the account's books and keeps its own. *)
OrderBooks(c) ==
  /\ pc[c] = "waiting" => /\ work[c].cash = 0
                          /\ work[c].fills = <<>>
                          /\ work[c].closing = [k \in Keys |-> 0]
  /\ pc[c] = "filling" => Kept(cash + work[c].cash, work[c].positions,
                               Closing(c), Fills \o work[c].fills)

BooksInv ==
  /\ Kept(cash, positions, closed, Fills)
  /\ \A k \in Keys : positions[k].quantity = 0 => positions[k] = NoPosition
  /\ \A c \in Clients : OrderBooks(c)

LEMMA BooksType ==
  ASSUME TypeOK
  PROVE  /\ Fills \in Seq(Fill)
         /\ Book(cash, positions, closed, Fills)
         /\ \A c \in Clients :
              Book(cash + work[c].cash, work[c].positions, Closing(c), Fills \o work[c].fills)
<1>1. Fills \in Seq(Fill)
  <2>1. orders \in Seq(Seq(Fill)) /\ <<>> \in Seq(Fill)
    BY EmptySeq DEF TypeOK
  <2> QED
    BY <2>1, FlattenAppend DEF Fills
<1>2. ASSUME NEW c \in Clients
      PROVE  Book(cash + work[c].cash, work[c].positions, Closing(c), Fills \o work[c].fills)
  <2>1. work[c].cash \in Int /\ cash \in Int /\ work[c].fills \in Seq(Fill)
        /\ work[c].closing \in [Keys -> Int] /\ closed \in [Keys -> Int]
        /\ work[c].positions \in [Keys -> Position]
    BY WorkType DEF TypeOK
  <2>2. Closing(c) \in [Keys -> Int]
    BY <2>1 DEF Closing
  <2>3. Fills \o work[c].fills \in Seq(Fill)
    BY <1>1, <2>1, ConcatProperties
  <2> QED
    BY <2>1, <2>2, <2>3 DEF Book
<1> QED
  BY <1>1, <1>2 DEF Book, TypeOK

LEMMA BooksInit ==
  ASSUME Init
  PROVE  BooksInv
<1>1. Fills = <<>>
  BY FlattenEmpty DEF Init, Fills
<1>2. Kept(cash, positions, closed, Fills)
  BY <1>1, NothingKept DEF Init
<1>3. \A c \in Clients : OrderBooks(c)
  BY DEF Init, OrderBooks, NoWork
<1> QED
  BY <1>2, <1>3 DEF Init, BooksInv

(* Nothing but the orders under way changed. *)
LEMMA BooksSame ==
  ASSUME BooksInv, UNCHANGED <<cash, positions, closed, orders>>,
         \A c \in Clients : OrderBooks(c)'
  PROVE  BooksInv'
BY DEF BooksInv, Fills

LEMMA OrderSame ==
  ASSUME BooksInv, UNCHANGED <<cash, closed, orders>>, NEW c \in Clients,
         pc'[c] = pc[c], work'[c] = work[c]
  PROVE  OrderBooks(c)'
BY DEF BooksInv, OrderBooks, Closing, Fills

LEMMA BooksEnter ==
  ASSUME TypeOK, BooksInv, NEW c \in Clients, Enter(c)
  PROVE  BooksInv'
<1>1. /\ pc[c] = "waiting" /\ pc'[c] = "filling"
      /\ \A o \in Clients : o # c => pc'[o] = pc[o]
      /\ UNCHANGED <<cash, positions, closed, orders>>
  BY DEF Enter, TypeOK
<1>2. /\ work'[c].cash = work[c].cash /\ work'[c].fills = work[c].fills
      /\ work'[c].closing = work[c].closing /\ work'[c].positions = positions
      /\ \A o \in Clients : o # c => work'[o] = work[o]
  <2>1. work' = [work EXCEPT ![c] = [work[c] EXCEPT !.positions = positions]]
    BY WorkType DEF Enter
  <2>2. work \in [Clients -> Work] /\ work[c] \in Work
    BY WorkType
  <2> QED
    BY <2>1, <2>2 DEF Work
<1>3. OrderBooks(c)'
  <2>1. /\ work[c].cash = 0 /\ work[c].fills = <<>>
        /\ work[c].closing = [k \in Keys |-> 0]
    BY <1>1 DEF BooksInv, OrderBooks
  <2>2. Closing(c)' = closed
    <3>1. closed \in [Keys -> Int]
      BY DEF TypeOK
    <3>2. \A k \in Keys : closed[k] + 0 = closed[k]
      BY <3>1
    <3>3. Closing(c)' = [k \in Keys |-> closed[k]]
      BY <1>1, <1>2, <2>1, <3>2 DEF Closing
    <3> QED
      BY <3>1, <3>3
  <2>3. cash' + work'[c].cash = cash /\ Fills' \o work'[c].fills = Fills
    <3>1. cash + 0 = cash
      BY DEF TypeOK
    <3>2. Fills \o <<>> = Fills
      BY BooksType, ConcatEmptySeq
    <3> QED
      BY <1>1, <1>2, <2>1, <3>1, <3>2 DEF Fills
  <2>4. Kept(cash, positions, closed, Fills)
    BY DEF BooksInv
  <2> QED
    BY <1>1, <1>2, <2>2, <2>3, <2>4 DEF OrderBooks
<1>4. \A o \in Clients : OrderBooks(o)'
  <2>1. ASSUME NEW o \in Clients, o # c
        PROVE  OrderBooks(o)'
    BY <1>1, <1>2, <2>1, OrderSame
  <2> QED
    BY <1>3, <2>1
<1> QED
  BY <1>1, <1>4, BooksSame

LEMMA BooksFill ==
  ASSUME TypeOK, BooksInv, NEW c \in Clients, NEW mark, FillLeg(c, mark)
  PROVE  BooksInv'
<1>1. PICK leg \in Leg : \E fill \in Fill : LegTaken(c, leg, fill)
  BY LegFilled
<1>2. PICK fill \in Fill : LegTaken(c, leg, fill)
  BY <1>1
<1>3. PICK p, z, f, k, after :
        /\ p = work[c].positions /\ z = Closing(c) /\ f = Fills \o work[c].fills
        /\ k = fill.key /\ after = Applied(p[k], fill)
  OBVIOUS
<1>4. /\ UNCHANGED <<cash, positions, closed, orders, pc>> /\ pc[c] = "filling"
      /\ Fills' = Fills
  BY DEF FillLeg, Fills
<1>5. Book(cash + work[c].cash, p, z, f) /\ Kept(cash + work[c].cash, p, z, f)
  BY <1>3, <1>4, BooksType DEF BooksInv, OrderBooks
<1>6. Kept(cash + work[c].cash + CashEffect(fill), [p EXCEPT ![k] = after],
           [z EXCEPT ![k] = z[k] + Retired(after)], Append(f, fill))
  BY <1>2, <1>3, <1>5, FillKept DEF LegTaken
<1>7. cash' + work'[c].cash = cash + work[c].cash + CashEffect(fill)
  <2>1. PICK a \in Int, b \in Int, e \in Int :
          a = cash /\ b = work[c].cash /\ e = CashEffect(fill)
    BY WorkType, EffectType DEF TypeOK
  <2>2. a + (b + e) = a + b + e
    OBVIOUS
  <2> QED
    BY <1>2, <1>4, <2>1, <2>2 DEF LegTaken
<1>8. Closing(c)' = [z EXCEPT ![k] = z[k] + Retired(after)]
  <2>1. work[c].closing \in [Keys -> Int] /\ closed \in [Keys -> Int] /\ k \in Keys
    BY <1>3, WorkType DEF TypeOK, Fill
  <2>2. PICK r \in Int : r = Retired(after)
    <3>1. p[k] \in Position
      BY <1>3, <2>1, WorkType
    <3>2. after \in Position
      BY <1>3, <3>1, AppliedType
    <3> QED
      BY <3>2 DEF Retired, Position
  <2>3. work'[c].closing = [work[c].closing EXCEPT ![k] = work[c].closing[k] + r]
    BY <1>2, <1>3, <2>2 DEF LegTaken
  <2>4. Closing(c)' = [j \in Keys |-> closed[j] + work'[c].closing[j]]
    BY <1>4 DEF Closing
  <2>5. z = [j \in Keys |-> closed[j] + work[c].closing[j]]
    BY <1>3 DEF Closing
  <2>6. \A j \in Keys : closed[j] + work'[c].closing[j]
                          = IF j = k THEN z[k] + r ELSE z[j]
    BY <2>1, <2>2, <2>3, <2>5
  <2>7. [z EXCEPT ![k] = z[k] + r] = [j \in Keys |-> IF j = k THEN z[k] + r ELSE z[j]]
    BY <2>5
  <2> QED
    BY <2>2, <2>4, <2>6, <2>7
<1>9. Fills' \o work'[c].fills = Append(f, fill)
  <2>1. PICK a \in Seq(Fill), b \in Seq(Fill) : a = Fills /\ b = work[c].fills
    BY BooksType, WorkType
  <2>2. <<fill>> \in Seq(Fill) /\ a \o b \in Seq(Fill)
    BY ConcatProperties
  <2>3. (a \o b) \o <<fill>> = a \o (b \o <<fill>>)
    BY <2>2, ConcatAssociative
  <2>4. Append(b, fill) = b \o <<fill>> /\ Append(a \o b, fill) = (a \o b) \o <<fill>>
    BY <2>2, AppendIsConcat
  <2> QED
    BY <1>2, <1>3, <1>4, <2>1, <2>3, <2>4 DEF LegTaken
<1>10. work'[c].positions = [p EXCEPT ![k] = after] /\ pc'[c] = "filling"
  BY <1>2, <1>3, <1>4 DEF LegTaken
<1>11. OrderBooks(c)'
  BY <1>6, <1>7, <1>8, <1>9, <1>10 DEF OrderBooks
<1>12. \A o \in Clients : OrderBooks(o)'
  <2>1. ASSUME NEW o \in Clients, o # c
        PROVE  OrderBooks(o)'
    BY <1>2, <1>4, <2>1, OrderSame DEF LegTaken
  <2> QED
    BY <1>11, <2>1
<1> QED
  BY <1>4, <1>12, BooksSame

(* Nobody else is filling, and whoever waits has nothing on its books. *)
LEMMA OthersWait ==
  ASSUME TypeOK, BooksInv, NEW c \in Clients, Leave(c), pc[c] = "filling"
  PROVE  \A o \in Clients : OrderBooks(o)'
<1>1. /\ pc'[c] = "idle"
      /\ \A o \in Clients : o # c => pc'[o] = pc[o] /\ work'[o] = work[o]
      /\ \A o \in Clients : pc'[o] # "filling"
  BY LeaveType
<1>2. ASSUME NEW o \in Clients
      PROVE  OrderBooks(o)'
  BY <1>1 DEF OrderBooks, BooksInv
<1> QED
  BY <1>2

LEMMA BooksApply ==
  ASSUME TypeOK, BooksInv, NEW c \in Clients, Apply(c)
  PROVE  BooksInv'
<1>1. Leave(c) /\ pc[c] = "filling"
  BY DEF Apply
<1>2. PICK p, z, f : p = work[c].positions /\ z = Closing(c) /\ f = Fills \o work[c].fills
  OBVIOUS
<1>3. Book(cash + work[c].cash, p, z, f) /\ Kept(cash + work[c].cash, p, z, f)
  BY <1>1, <1>2, BooksType DEF BooksInv, OrderBooks
<1>4. Kept(cash + work[c].cash, Tidied(p), z, f)
  BY <1>3, TidiedKept
<1>5. /\ cash' = cash + work[c].cash /\ positions' = Tidied(p) /\ closed' = z
      /\ orders' = Append(orders, work[c].fills)
  BY <1>2 DEF Apply, Tidied, Closing
<1>6. Fills' = f
  <2>1. orders \in Seq(Seq(Fill)) /\ work[c].fills \in Seq(Fill)
    BY WorkType DEF TypeOK
  <2>2. FlattenSeq(Append(orders, work[c].fills)) = FlattenSeq(orders) \o work[c].fills
    BY ONLY <2>1, FlattenAppend
  <2> QED
    BY <1>2, <1>5, <2>2 DEF Fills
<1>7. Kept(cash, positions, closed, Fills)'
  BY <1>4, <1>5, <1>6
<1>8. \A k \in Keys : positions'[k].quantity = 0 => positions'[k] = NoPosition
  BY <1>5 DEF Tidied
<1> QED
  BY <1>1, <1>7, <1>8, OthersWait DEF BooksInv

LEMMA BooksStep ==
  ASSUME TypeOK, BooksInv, [Next]_vars
  PROVE  BooksInv'
<1>1. ASSUME NEW c \in Clients, NEW request \in Requests, NEW regular \in BOOLEAN,
             Submit(c, request, regular)
      PROVE  BooksInv'
  <2>1. /\ pc'[c] = "waiting" /\ \A o \in Clients : o # c => pc'[o] = pc[o]
        /\ UNCHANGED <<cash, positions, closed, orders>>
    BY <1>1 DEF Submit, TypeOK
  <2>2. /\ work'[c].cash = 0 /\ work'[c].fills = <<>>
        /\ work'[c].closing = [k \in Keys |-> 0]
        /\ \A o \in Clients : o # c => work'[o] = work[o]
    BY <1>1, WorkType DEF Submit, NoWork
  <2>3. OrderBooks(c)'
    BY <2>1, <2>2 DEF OrderBooks
  <2>4. ASSUME NEW o \in Clients, o # c
        PROVE  OrderBooks(o)'
    BY <2>1, <2>2, <2>4, OrderSame
  <2> QED
    BY <2>1, <2>3, <2>4, BooksSame
<1>2. ASSUME NEW c \in Clients, RejectLeg(c) \/ Short(c)
      PROVE  BooksInv'
  <2>1. Leave(c) /\ pc[c] = "filling" /\ UNCHANGED <<cash, positions, closed, orders>>
    BY <1>2 DEF RejectLeg, Short
  <2> QED
    BY <2>1, OthersWait, BooksSame
<1>3. CASE Restart
  <2>1. Fills' = <<>>
    BY <1>3, FlattenEmpty DEF Restart, Fills
  <2>2. Kept(cash, positions, closed, Fills)'
    BY <1>3, <2>1, NothingKept DEF Restart
  <2>3. \A c \in Clients : OrderBooks(c)'
    BY <1>3 DEF Restart, OrderBooks
  <2> QED
    BY <1>3, <2>2, <2>3 DEF Restart, BooksInv
<1>4. CASE UNCHANGED vars
  BY <1>4 DEF vars, BooksInv, Fills, OrderBooks, Closing
<1> QED
  BY <1>1, <1>2, <1>3, <1>4, BooksEnter, BooksFill, BooksApply DEF Next, Step

-----------------------------------------------------------------------------
(* Theorems *)

(* The inductive invariant of the paper broker. *)
THEOREM Inductive == Spec => []PaperInv
BY PaperInit, PaperStep, PTL DEF Spec

(* The books of the account, and those of an order under way, are what     *)
(* their fills give, and balance.                                          *)
THEOREM BooksInductive == Spec => []BooksInv
<1>1. Init => BooksInv
  BY BooksInit
<1>2. PaperInv /\ BooksInv /\ [Next]_vars => BooksInv'
  BY BooksStep DEF PaperInv
<1> QED
  BY <1>1, <1>2, Inductive, PTL DEF Spec

(* The type invariant: costs and P&L stay whole quanta under any prices,   *)
(* and the lock is held by exactly the order being filled.                 *)
THEOREM TypeCorrect == Spec => []TypeOK
<1>1. PaperInv => TypeOK
  BY DEF PaperInv
<1> QED
  BY <1>1, Inductive, PTL

(* However many orders of however many legs come at once, the account      *)
(* never owes cash.                                                        *)
THEOREM CashIsNeverOwed == Spec => []CashNonNegative
<1>1. PaperInv => CashNonNegative
  BY DEF PaperInv
<1> QED
  BY <1>1, Inductive, PTL

(* No sequence of closing legs turns a position over: who is short sold    *)
(* to open in an order on record.                                          *)
THEOREM ShortsWereSold == Spec => []ShortsAreOpened
<1>1. PaperInv => ShortsAreOpened
  BY DEF PaperInv
<1> QED
  BY <1>1, Inductive, PTL

(* Cash and positions are what the recorded fills give when they are       *)
(* applied again: an order is on the books whole or not at all, and none   *)
(* overwrites what another one did.                                        *)
THEOREM BooksAreTheFills == Spec => []BooksMatchFills
<1>1. BooksInv => BooksMatchFills
  <2>1. SUFFICES ASSUME BooksInv
                 PROVE  \A k \in Keys : positions[k] = IF Replayed(k, Fills).quantity = 0
                                                       THEN NoPosition ELSE Replayed(k, Fills)
    BY DEF BooksInv, BooksMatchFills, Kept, Matches
  <2>2. ASSUME NEW k \in Keys
        PROVE  positions[k] = IF Replayed(k, Fills).quantity = 0
                              THEN NoPosition ELSE Replayed(k, Fills)
    <3>1. Alike(positions[k], Replayed(k, Fills))
      BY <2>1 DEF BooksInv, Kept, Matches
    <3>2. positions[k].quantity = 0 => positions[k] = NoPosition
      BY <2>1 DEF BooksInv
    <3> QED
      BY <3>1, <3>2 DEF Alike
  <2> QED
    BY <2>2
<1> QED
  BY <1>1, BooksInductive, PTL

(* Cash, open cost and realized P&L balance, but for half a quantum of     *)
(* rounding per contract each time a position is opened or added to.       *)
THEOREM NoMoneyIsLost == Spec => []PnlBalances
<1>1. BooksInv => PnlBalances
  <2>1. SUFFICES ASSUME BooksInv
                 PROVE  PnlBalances
    OBVIOUS
  <2>2. ASSUME NEW k \in Keys
        PROVE  Worth(k, positions[k], closed[k])
                 = OpenCost(k, positions[k]) - positions[k].realized - closed[k]
    <3>1. positions[k].quantity = 0 => positions[k].realized = 0
      BY <2>1 DEF BooksInv, NoPosition
    <3> QED
      BY <3>1 DEF Worth, Live
  <2>3. [k \in Keys |-> Worth(k, positions[k], closed[k])]
          = [k \in Keys |-> OpenCost(k, positions[k]) - positions[k].realized - closed[k]]
    BY <2>2
  <2> QED
    BY <2>1, <2>3 DEF BooksInv, Kept, Balanced, Surplus, PnlBalances
<1> QED
  BY <1>1, BooksInductive, PTL
=============================================================================
