---------------------------- MODULE EngineProofs ----------------------------
(***************************************************************************)
(* Proofs about the numbers the bot decides by, for every signal, context, *)
(* quantity and reading: the risk engine and the account sync that feeds   *)
(* it (Portfolio), then the calculators beside it: brackets, the checks of *)
(* futures, the cash ledger, batches of signals, indicators, setup scores  *)
(* and the features of volatility (Calculators).                           *)
(***************************************************************************)
EXTENDS Decisions, FoldingProofs

-----------------------------------------------------------------------------
(* The engine. *)

(* What dividing and flooring means, for a positive divisor. *)
LEMMA Floored ==
  ASSUME NEW n \in Int, NEW d \in Int, d > 0, NEW q \in Int
  PROVE  q <= n \div d <=> q * d <= n
  OBVIOUS

(* The ceiling quantity of sizing.py is the largest one within the cap.    *)
THEOREM CeilingIsTheCap ==
  ASSUME NEW loss \in Int, loss > 0, NEW nlv \in Int, NEW pct \in Nat,
         NEW q \in Int
  PROVE  q <= QuantityCeiling(loss, nlv, pct) <=> WithinCap(loss * q, pct, nlv)
  BY Floored, WholeAssumption DEF QuantityCeiling, WithinCap

(* Numbers have a least element. *)
LEMMA LeastOne ==
  ASSUME NEW S \in SUBSET Nat, S # {}
  PROVE  Min(S) \in S /\ \A n \in S : Min(S) <= n
<1> DEFINE Below == {p \in Nat \X Nat : p[1] < p[2]}
<1>1. IsWellFoundedOn(Below, Nat)
  BY NatLessThanWellFounded DEF OpToRel
<1>2. S \subseteq Nat
  OBVIOUS
<1>3. \E m \in S : \A n \in S : ~ (<<n, m>> \in Below)
  <2> HIDE DEF Below
  <2> QED  BY <1>1, <1>2, WFMin
<1>4. PICK m \in S : \A n \in S : ~ (<<n, m>> \in Below)
  BY <1>3
<1>5. \A n \in S : m <= n
  <2> TAKE n \in S
  <2>1. <<n, m>> \in Nat \X Nat /\ ~ (<<n, m>>[1] < <<n, m>>[2])
    BY <1>2, <1>4
  <2> QED  BY <1>2, <2>1
<1> QED
  BY <1>5 DEF Min

(* A verdict of APPROVED means that no rule failed: no reason code reads   *)
(* "APPROVED".                                                             *)
LEMMA ApprovedMeansAllPass ==
  ASSUME NEW s, NEW c, NEW q
  PROVE  Verdict(s, c, q) = "APPROVED" <=> \A i \in 1 .. 17 : Rules(s, c, q)[i].passed
<1>1. \A i \in 1 .. 17 : Rules(s, c, q)[i].code # "APPROVED"
  BY DEF Rules
<1>2. Failed(s, c, q) # {} => Min(Failed(s, c, q)) \in Failed(s, c, q)
  BY LeastOne DEF Failed
<1> QED
  BY <1>1, <1>2 DEF Verdict, Failed

(* The engine approves exactly the orders that the plan's rules allow, for *)
(* every signal, context and quantity.                                     *)
THEOREM VerdictIsSound ==
  ASSUME NEW s, NEW c, NEW q \in Int, IsSignal(s), IsContext(c)
  PROVE  Verdict(s, c, q) = "APPROVED" <=> Approvable(s, c, q)
<1> DEFINE pass(i) == Rules(s, c, q)[i].passed
<1>1. /\ pass(1) <=> q > 0
      /\ pass(2) <=> c.state # "HALTED"
      /\ pass(3) <=> Whitelisted(s, c)
      /\ pass(4) <=> NakedGate(s, c)
      /\ pass(5) <=> DteBounds(s, c)
      /\ pass(6) <=> AccountCompatible(s, c)
      /\ pass(7) <=> TierSuffices(s, c)
      /\ pass(8) <=> s.priced
      /\ pass(9) <=> (s.priced => s.loss > 0)
  BY DEF Rules
<1>2. /\ pass(10) <=> c.nlv > 0
      /\ pass(11) <=> (Sizable(s, c) =>
                        q <= QuantityCeiling(s.loss, c.nlv, c.policy.hard))
      /\ pass(12) <=> WithinCap(s.loss * q, c.policy.hard, c.nlv)
      /\ pass(13) <=> WithinCap(c.exposure + s.loss * q, c.policy.allocation, c.nlv)
      /\ pass(14) <=> PositionsCap(c)
      /\ pass(15) <=> DrawdownQuiet(c)
      /\ pass(16) <=> SettledCash(s, c, q)
      /\ pass(17) <=> Liquid(s, c)
  BY DEF Rules
<1>3. Verdict(s, c, q) = "APPROVED" <=> \A i \in 1 .. 17 : pass(i)
  BY ApprovedMeansAllPass
<1> HIDE DEF pass
<1>4. (\A i \in 1 .. 17 : pass(i)) <=>
        /\ pass(1) /\ pass(2) /\ pass(3) /\ pass(4) /\ pass(5) /\ pass(6)
        /\ pass(7) /\ pass(8) /\ pass(9) /\ pass(10) /\ pass(11) /\ pass(12)
        /\ pass(13) /\ pass(14) /\ pass(15) /\ pass(16) /\ pass(17)
  OBVIOUS
<1>5. s.priced /\ s.loss > 0 =>
        (q <= QuantityCeiling(s.loss, c.nlv, c.policy.hard)
           <=> WithinCap(s.loss * q, c.policy.hard, c.nlv))
  BY CeilingIsTheCap DEF IsSignal, IsContext, Policies
<1>6. Whitelisted(s, c) /\ NakedGate(s, c) <=>
        s.strategy \in DefinedRisk \/ (s.strategy \in Naked /\ c.policy.naked)
  BY DEF Whitelisted, NakedGate, DefinedRisk, Naked
<1>7. DteBounds(s, c) <=> c.policy.minDte <= s.dte /\ s.dte <= c.policy.maxDte
  BY DEF DteBounds, IsSignal, IsContext, Policies
<1>8. TierSuffices(s, c) <=>
        /\ c.tier >= 2 /\ c.policy.tier >= 2
        /\ s.strategy = "IRON_CONDOR" => c.tier >= 3 /\ c.policy.tier >= 3
  BY DEF TierSuffices, IsContext, Policies
<1>9. DrawdownQuiet(c) <=>
        /\ c.dayPnl * Whole + c.policy.daily * c.nlv > 0
        /\ c.weekPnl * Whole + c.policy.weekly * c.nlv > 0
  BY WholeAssumption DEF DrawdownQuiet, IsContext, Policies
<1>10. c.state # "HALTED" <=> c.state = "ACTIVE"
  BY DEF IsContext
<1> QED
  BY <1>1, <1>2, <1>3, <1>4, <1>5, <1>6, <1>7, <1>8, <1>9, <1>10, Zenon
     DEF Approvable, Sizable, WithinCap, PositionsCap, SettledCash, Liquid,
         AccountCompatible

(* Two rules can never speak: the hard cap, whose reason code the plan asks *)
(* for, has nothing left to refuse after the ceiling, nor has the naked    *)
(* gate after the whitelist.                                               *)
THEOREM GatesAgree ==
  ASSUME NEW s, NEW c, NEW q \in Int, IsSignal(s), IsContext(c)
  PROVE  Verdict(s, c, q) \notin {"HARD_RISK_CEILING_EXCEEDED", "NAKED_DISABLED"}
<1> DEFINE first == Min(Failed(s, c, q))
<1> DEFINE code(i) == Rules(s, c, q)[i].code
<1> DEFINE pass(i) == Rules(s, c, q)[i].passed
<1>1. Failed(s, c, q) # {} =>
        first \in Failed(s, c, q) /\ \A i \in Failed(s, c, q) : first <= i
  BY LeastOne DEF Failed
<1>2. \A i \in 1 .. 17 :
        code(i) \in {"HARD_RISK_CEILING_EXCEEDED", "NAKED_DISABLED"} => i \in {4, 12}
  BY DEF Rules
<1>3. /\ pass(3) <=> Whitelisted(s, c)
      /\ pass(4) <=> NakedGate(s, c)
      /\ pass(8) <=> s.priced
      /\ pass(9) <=> (s.priced => s.loss > 0)
      /\ pass(10) <=> c.nlv > 0
  BY DEF Rules
<1>4. /\ pass(11) <=> (Sizable(s, c) =>
                        q <= QuantityCeiling(s.loss, c.nlv, c.policy.hard))
      /\ pass(12) <=> WithinCap(s.loss * q, c.policy.hard, c.nlv)
  BY DEF Rules
<1>5. \A i \in 1 .. 17 : i \in Failed(s, c, q) <=> ~ pass(i)
  BY DEF Failed
<1>6. Failed(s, c, q) \subseteq 1 .. 17
  BY DEF Failed
<1>7. Verdict(s, c, q) = IF Failed(s, c, q) = {} THEN "APPROVED" ELSE code(first)
  BY DEF Verdict
<1> HIDE DEF first, code, pass
<1>8. 4 \in Failed(s, c, q) => 3 \in Failed(s, c, q)
  <2>1. ~ NakedGate(s, c) => ~ Whitelisted(s, c)
    BY DEF Whitelisted, NakedGate, DefinedRisk, Naked
  <2> QED  BY <1>3, <1>5, <2>1
<1>9. 12 \in Failed(s, c, q) => \E i \in {8, 9, 10, 11} : i \in Failed(s, c, q)
  <2>1. s.priced /\ s.loss > 0 =>
          (q <= QuantityCeiling(s.loss, c.nlv, c.policy.hard)
             <=> WithinCap(s.loss * q, c.policy.hard, c.nlv))
    BY CeilingIsTheCap DEF IsSignal, IsContext, Policies
  <2>2. pass(8) /\ pass(9) /\ pass(10) /\ pass(11) => pass(12)
    BY <1>3, <1>4, <2>1, Zenon DEF Sizable
  <2> QED  BY <1>5, <2>2
<1>10. Failed(s, c, q) # {} => first # 4 /\ first # 12
  BY <1>1, <1>6, <1>8, <1>9
<1>11. Failed(s, c, q) # {} => first \in 1 .. 17
  BY <1>1, <1>6
<1> QED
  BY <1>2, <1>7, <1>10, <1>11

(* The ceiling refuses only what is over the hard cap, and what passed it  *)
(* is within: the floored quotient and the product draw the same line.     *)
THEOREM CeilingDrawsTheCap ==
  ASSUME NEW s, NEW c, NEW q \in Int, IsSignal(s), IsContext(c)
  PROVE  /\ Verdict(s, c, q) = "OVERRIDE_EXCEEDS_CEILING"
              => ~ WithinCap(s.loss * q, c.policy.hard, c.nlv)
         /\ Verdict(s, c, q) \in PastTheCeiling
              => WithinCap(s.loss * q, c.policy.hard, c.nlv)
<1> DEFINE first == Min(Failed(s, c, q))
<1> DEFINE code(i) == Rules(s, c, q)[i].code
<1> DEFINE pass(i) == Rules(s, c, q)[i].passed
<1>1. Failed(s, c, q) # {} =>
        first \in Failed(s, c, q) /\ \A i \in Failed(s, c, q) : first <= i
  BY LeastOne DEF Failed
<1>2. \A i \in 1 .. 17 : /\ code(i) = "OVERRIDE_EXCEEDS_CEILING" => i = 11
                         /\ code(i) \in PastTheCeiling => i >= 12
  BY DEF Rules, PastTheCeiling
<1>3. /\ pass(8) <=> s.priced
      /\ pass(9) <=> (s.priced => s.loss > 0)
      /\ pass(10) <=> c.nlv > 0
      /\ pass(11) <=> (Sizable(s, c) =>
                        q <= QuantityCeiling(s.loss, c.nlv, c.policy.hard))
  BY DEF Rules
<1>4. Failed(s, c, q) \subseteq 1 .. 17
      /\ \A i \in 1 .. 17 : i \in Failed(s, c, q) <=> ~ pass(i)
  BY DEF Failed
<1>5. Verdict(s, c, q) = IF Failed(s, c, q) = {} THEN "APPROVED" ELSE code(first)
  BY DEF Verdict
<1> HIDE DEF first, code, pass
<1>6. s.loss > 0 => (q <= QuantityCeiling(s.loss, c.nlv, c.policy.hard)
                       <=> WithinCap(s.loss * q, c.policy.hard, c.nlv))
  BY CeilingIsTheCap DEF IsSignal, IsContext, Policies
<1>7. ASSUME Verdict(s, c, q) = "OVERRIDE_EXCEEDS_CEILING"
      PROVE  ~ WithinCap(s.loss * q, c.policy.hard, c.nlv)
  <2>1. Failed(s, c, q) # {} /\ code(first) = "OVERRIDE_EXCEEDS_CEILING"
    BY <1>5, <1>7
  <2>2. first = 11 /\ 11 \in Failed(s, c, q)
    BY <1>1, <1>2, <1>4, <2>1
  <2>3. ~ pass(11)
    BY <1>4, <2>2
  <2> QED  BY <1>3, <1>6, <2>3, Zenon DEF Sizable
<1>8. ASSUME Verdict(s, c, q) \in PastTheCeiling
      PROVE  WithinCap(s.loss * q, c.policy.hard, c.nlv)
  <2>1. Failed(s, c, q) # {} => first >= 12 /\ first \in 1 .. 17
    BY <1>1, <1>2, <1>4, <1>5, <1>8
  <2>2. \A i \in {8, 9, 10, 11} : i \notin Failed(s, c, q)
    BY <1>1, <2>1
  <2>3. pass(8) /\ pass(9) /\ pass(10) /\ pass(11)
    BY <1>4, <2>2
  <2> QED  BY <1>3, <1>6, <2>3, Zenon DEF Sizable
<1> QED
  BY <1>7, <1>8

(* The human may type a smaller quantity than an approved one: it would be *)
(* approved too, in the same context.                                      *)
THEOREM SmallerIsApproved ==
  ASSUME NEW s, NEW c, NEW q \in Int, NEW p \in 1 .. q,
         IsSignal(s), IsContext(c), s.collateral >= 0, c.exposure \in Int,
         Verdict(s, c, q) = "APPROVED"
  PROVE  Verdict(s, c, p) = "APPROVED"
<1>1. Approvable(s, c, q)
  BY VerdictIsSound
<1>2. s.loss \in Int /\ s.collateral \in Int /\ c.settled \in Int /\ s.loss > 0
  BY <1>1 DEF Approvable, IsSignal, IsContext
<1>3. s.loss * p <= s.loss * q /\ s.collateral * p <= s.collateral * q
  BY <1>2
<1>4. \A x, y, z \in Int : x <= y /\ y * Whole <= z => x * Whole <= z
  BY WholeAssumption
<1>5. Approvable(s, c, p)
  <2>1. s.loss * p \in Int /\ s.loss * q \in Int /\ c.policy.hard * c.nlv \in Int
          /\ c.policy.allocation * c.nlv \in Int
    BY <1>2 DEF IsContext, Policies
  <2>2. s.loss * p * Whole <= c.policy.hard * c.nlv
    BY <1>1, <1>3, <1>4, <2>1 DEF Approvable
  <2>3. (c.exposure + s.loss * p) * Whole <= c.policy.allocation * c.nlv
    <3>1. c.exposure + s.loss * p <= c.exposure + s.loss * q
      BY <1>3, <2>1
    <3> QED  BY <1>1, <1>4, <2>1, <3>1 DEF Approvable
  <2>4. s.strategy \in CashBound => s.collateral * p <= c.settled
    BY <1>1, <1>2, <1>3 DEF Approvable
  <2> QED
    BY <1>1, <2>2, <2>3, <2>4 DEF Approvable
<1> QED
  BY <1>5, VerdictIsSound

-----------------------------------------------------------------------------
(* The account sync and the submissions. *)

(* Types of what the sync works on; rows already without doubles. *)
SyncTyped ==
  /\ held \in [Accounts -> SUBSET Legs]
  /\ known \subseteq Accounts
  /\ rows \in [Accounts -> [Legs -> {0, 1}]]
  /\ holder \in Jobs \cup {None}
  /\ sync \in [Jobs -> Run]

(* A run has deleted nothing, or what it deleted is what is there, because *)
(* it holds the write lock; past the first account it holds it; when it    *)
(* commits it has deleted every account's rows.                            *)
RunSound(j) ==
  /\ \A a \in Accounts : \/ sync[j].gone[a] = NoRows
                         \/ holder = j /\ sync[j].gone[a] = rows[a]
  /\ sync[j].at > 1 => holder = j
  /\ \A i \in DOMAIN AccountSeq : i < sync[j].at =>
       sync[j].gone[AccountSeq[i]] = rows[AccountSeq[i]]
  /\ sync[j].step = "commit" =>
       holder = j /\ \A a \in Accounts : sync[j].gone[a] = rows[a]

SyncInv == SyncTyped /\ \A j \in Jobs : RunSound(j)

(* A request under way has a signal, and a verdict once it is decided: the *)
(* engine's, on the context it still has.                                  *)
RequestSound(r) ==
  /\ req[r].step # "idle" => req[r].signal \in Signals
  /\ req[r].step # "decided" => req[r].verdict = ""
  /\ req[r].step = "decided" =>
       req[r].verdict = Verdict(SignalOf[req[r].signal], Context(r), req[r].quantity)

RequestInv ==
  /\ req \in [Submitters -> Request]
  /\ \A r \in Submitters : RequestSound(r)

(* Orders are of signals, and the bounds of the model are kept. *)
OrdersTyped ==
  /\ placed \subseteq Signals \X Int
  /\ trades \in 0 .. MaxTrades
  /\ failures \in 0 .. MaxFailures

PortfolioInv == SyncInv /\ RequestInv /\ OrdersTyped

(* The accounts, as the sync walks through them. *)
LEMMA AccountFacts ==
  /\ \A i \in 1 .. Len(AccountSeq) : AccountSeq[i] \in Accounts
  /\ Len(AccountSeq) \in Nat \ {0}
  /\ DOMAIN AccountSeq = 1 .. Len(AccountSeq)
  /\ \A a \in Accounts : \E i \in 1 .. Len(AccountSeq) : a = AccountSeq[i]
<1>1. AccountSeq \in Seq(Accounts) /\ AccountSeq # <<>>
  BY AccountsAssumption
<1>2. DOMAIN AccountSeq = 1 .. Len(AccountSeq) /\ Len(AccountSeq) \in Nat
  BY <1>1
<1>3. Len(AccountSeq) # 0
  BY <1>1
<1> QED
  BY <1>2, <1>3 DEF Accounts

(* A request that is over. *)
LEMMA NoRequestFacts ==
  NoRequest \in Request /\ NoRequest.step = "idle" /\ NoRequest.verdict = ""
BY DEF NoRequest, Request

(* The engine answers with one of the codes of its rules. *)
LEMMA VerdictType ==
  ASSUME NEW s, NEW c, NEW q
  PROVE  Verdict(s, c, q) \in Verdicts
<1>1. "APPROVED" \in Verdicts
  BY DEF Verdicts
<1>2. \A i \in 1 .. 17 : Rules(s, c, q)[i].code \in Verdicts
  BY DEF Rules, Verdicts
<1>3. ASSUME Failed(s, c, q) # {}
      PROVE  Min(Failed(s, c, q)) \in 1 .. 17
  <2>1. Failed(s, c, q) \in SUBSET Nat /\ Failed(s, c, q) \subseteq 1 .. 17
    BY DEF Failed
  <2> QED
    BY <1>3, <2>1, LeastOne
<1>4. CASE Failed(s, c, q) = {}
  BY <1>1, <1>4 DEF Verdict
<1>5. CASE Failed(s, c, q) # {}
  BY <1>2, <1>3, <1>5 DEF Verdict
<1> QED
  BY <1>4, <1>5

(* The invariant holds at the start. *)
LEMMA InitInv == Init => PortfolioInv
<1> SUFFICES ASSUME Init PROVE PortfolioInv
  OBVIOUS
<1>1. NoRun \in Run
  BY AccountFacts DEF NoRun, Run, NoRows
<1>2. SyncTyped
  BY <1>1 DEF Init, SyncTyped, NoRows
<1>3. ASSUME NEW j \in Jobs PROVE RunSound(j)
  BY AccountFacts DEF Init, RunSound, NoRun
<1>4. RequestInv
  <2>1. \A r \in Submitters : req[r] = NoRequest
    BY DEF Init
  <2>2. \A r \in Submitters : RequestSound(r)
    BY <2>1, NoRequestFacts DEF RequestSound
  <2>3. req \in [Submitters -> Request]
    BY NoRequestFacts DEF Init
  <2> QED  BY <2>2, <2>3 DEF RequestInv
<1>5. OrdersTyped
  BY ProcessAssumption DEF Init, OrdersTyped
<1> QED
  BY <1>2, <1>3, <1>4, <1>5 DEF PortfolioInv, SyncInv

(* What a step of one run that stores nothing has to show: its own record, *)
(* and that it takes the write lock from nobody else.                      *)
LEMMA OwnStep ==
  ASSUME SyncInv, NEW j \in Jobs, NEW l \in Run,
         sync' = [sync EXCEPT ![j] = l],
         holder' \in Jobs \cup {None},
         \A k \in Jobs \ {j} : holder = k => holder' = k,
         UNCHANGED <<held, known, rows>>,
         \A a \in Accounts : \/ l.gone[a] = NoRows
                             \/ holder' = j /\ l.gone[a] = rows[a],
         l.at > 1 => holder' = j,
         \A i \in DOMAIN AccountSeq : i < l.at =>
           l.gone[AccountSeq[i]] = rows[AccountSeq[i]],
         l.step = "commit" =>
           holder' = j /\ \A a \in Accounts : l.gone[a] = rows[a]
  PROVE  SyncInv'
<1>1. sync'[j] = l /\ \A k \in Jobs \ {j} : sync'[k] = sync[k]
  BY DEF SyncInv, SyncTyped
<1>2. SyncTyped'
  BY DEF SyncInv, SyncTyped
<1>3. RunSound(j)'
  BY <1>1 DEF RunSound
<1>4. ASSUME NEW k \in Jobs \ {j} PROVE RunSound(k)'
  BY <1>1 DEF SyncInv, RunSound
<1> QED
  BY <1>2, <1>3, <1>4 DEF SyncInv

(* A session that is closed has nothing, and not the lock. *)
LEMMA CloseKeeps ==
  ASSUME SyncInv, NEW j \in Jobs, Close(j), UNCHANGED <<held, known, rows>>
  PROVE  SyncInv'
<1>1. NoRun \in Run
  BY AccountFacts DEF NoRun, Run, NoRows
<1>2. /\ NoRun.step = "idle" /\ NoRun.at = 1
      /\ \A a \in Accounts : NoRun.gone[a] = NoRows
  BY DEF NoRun
<1>3. sync' = [sync EXCEPT ![j] = NoRun] /\ holder' \in Jobs \cup {None}
  BY DEF Close, SyncInv, SyncTyped
<1>4. \A k \in Jobs \ {j} : holder = k => holder' = k
  BY DEF Close
<1>5. \A i \in DOMAIN AccountSeq : ~ (i < NoRun.at)
  BY <1>2, AccountFacts
<1>6. ~ (NoRun.at > 1) /\ NoRun.step # "commit"
  BY <1>2
<1> QED
  BY <1>1, <1>2, <1>3, <1>4, <1>5, <1>6, OwnStep, Zenon

(* A run goes to a step other than the commit. *)
LEMMA GotoKeeps ==
  ASSUME SyncInv, NEW j \in Jobs, NEW step \in {"select", "insert", "positions"},
         Goto(j, step), UNCHANGED <<held, known, rows, holder>>
  PROVE  SyncInv'
<1> DEFINE l == [sync[j] EXCEPT !.step = step]
<1>1. l \in Run /\ l.gone = sync[j].gone /\ l.at = sync[j].at /\ l.step # "commit"
  BY DEF SyncInv, SyncTyped, Run
<1>2. sync' = [sync EXCEPT ![j] = l]
  BY DEF Goto
<1> HIDE DEF l
<1>3. RunSound(j) /\ holder \in Jobs \cup {None}
  BY DEF SyncInv, SyncTyped
<1> QED
  BY <1>1, <1>2, <1>3, OwnStep DEF RunSound

(* A new account is inserted with the write lock, and nothing is deleted. *)
LEMMA InsertKeeps ==
  ASSUME SyncInv, NEW j \in Jobs, SyncInsert(j)
  PROVE  SyncInv'
<1> DEFINE l == [sync[j] EXCEPT !.step = "positions", !.new = @ \cup {Account(j)}]
<1>1. sync[j] \in Run /\ Account(j) \in Accounts
  BY AccountFacts DEF SyncInv, SyncTyped, Run, Account
<1>2. l \in Run /\ l.gone = sync[j].gone /\ l.at = sync[j].at /\ l.step # "commit"
  BY <1>1 DEF Run
<1>3. sync' = [sync EXCEPT ![j] = l]
  BY DEF SyncInsert
<1> HIDE DEF l
<1>4. RunSound(j) /\ holder' = j /\ holder \in {None, j}
  BY DEF SyncInv, SyncInsert
<1>5. UNCHANGED <<held, known, rows>>
  BY DEF SyncInsert
<1>6. \A k \in Jobs \ {j} : holder = k => holder' = k
  BY <1>4, ProcessAssumption
<1>7. holder' \in Jobs \cup {None}
  BY <1>4
<1>8. \A a \in Accounts : l.gone[a] = NoRows \/ (holder' = j /\ l.gone[a] = rows[a])
  BY <1>2, <1>4 DEF RunSound
<1>9. \A i \in DOMAIN AccountSeq : i < l.at => l.gone[AccountSeq[i]] = rows[AccountSeq[i]]
  BY <1>2, <1>4 DEF RunSound
<1> QED
  BY <1>2, <1>3, <1>4, <1>5, <1>6, <1>7, <1>8, <1>9, OwnStep

(* What the broker answers leaves the rows as they are. *)
LEMMA PositionsKeeps ==
  ASSUME SyncInv, NEW j \in Jobs, SyncPositions(j)
  PROVE  SyncInv'
<1> DEFINE l == [sync[j] EXCEPT !.step = "delete", !.read[Account(j)] = held[Account(j)]]
<1>1. sync[j] \in Run /\ Account(j) \in Accounts /\ held[Account(j)] \in SUBSET Legs
  BY AccountFacts DEF SyncInv, SyncTyped, Run, Account
<1>2. l \in Run /\ l.gone = sync[j].gone /\ l.at = sync[j].at /\ l.step # "commit"
  BY <1>1 DEF Run
<1>3. sync' = [sync EXCEPT ![j] = l]
  BY DEF SyncPositions
<1> HIDE DEF l
<1>4. RunSound(j) /\ holder' = holder /\ holder \in Jobs \cup {None}
  BY DEF SyncInv, SyncTyped, SyncPositions
<1>5. UNCHANGED <<held, known, rows>>
  BY DEF SyncPositions
<1> QED
  BY <1>2, <1>3, <1>4, <1>5, OwnStep DEF RunSound

(* The rows of one more account are gone; after the last one, of all. *)
LEMMA DeleteKeeps ==
  ASSUME SyncInv, NEW j \in Jobs, SyncDelete(j)
  PROVE  SyncInv'
<1> DEFINE step == IF sync[j].at = Len(AccountSeq) THEN "commit" ELSE "select"
<1> DEFINE at == IF sync[j].at = Len(AccountSeq) THEN sync[j].at ELSE sync[j].at + 1
<1> DEFINE gone == [sync[j].gone EXCEPT ![Account(j)] = rows[Account(j)]]
<1> DEFINE l == [sync[j] EXCEPT !.step = step, !.at = at, !.gone = gone]
<1>1. /\ sync[j] \in Run /\ Account(j) \in Accounts
      /\ sync[j].at \in 1 .. Len(AccountSeq) /\ RunSound(j)
      /\ sync[j].gone \in [Accounts -> [Legs -> Nat]]
  BY AccountFacts DEF SyncInv, SyncTyped, Run, Account
<1>2. rows[Account(j)] \in [Legs -> Nat]
  BY <1>1 DEF SyncInv, SyncTyped
<1>3. gone \in [Accounts -> [Legs -> Nat]] /\ gone[Account(j)] = rows[Account(j)]
        /\ \A a \in Accounts : a # Account(j) => gone[a] = sync[j].gone[a]
  BY <1>1, <1>2
<1>4. at \in 1 .. Len(AccountSeq) /\ step \in {"commit", "select"}
  BY <1>1, AccountFacts
<1>5. sync' = [sync EXCEPT ![j] = l]
  BY DEF SyncDelete
<1>6. \A i \in DOMAIN AccountSeq : i < at => i < sync[j].at \/ i = sync[j].at
  BY <1>1, AccountFacts
<1>7. step = "commit" => \A a \in Accounts : \E i \in DOMAIN AccountSeq :
                           a = AccountSeq[i] /\ (i < sync[j].at \/ i = sync[j].at)
  <2>1. step = "commit" => sync[j].at = Len(AccountSeq)
    OBVIOUS
  <2>2. Len(AccountSeq) \in Nat
    BY AccountFacts
  <2>3. \A i \in 1 .. Len(AccountSeq) : i < Len(AccountSeq) \/ i = Len(AccountSeq)
    BY <2>2
  <2>4. DOMAIN AccountSeq = 1 .. Len(AccountSeq)
    BY AccountFacts
  <2>5. \A a \in Accounts : \E i \in DOMAIN AccountSeq : a = AccountSeq[i]
    BY AccountFacts
  <2>6. ASSUME step = "commit", NEW a \in Accounts
        PROVE  \E i \in DOMAIN AccountSeq :
                 a = AccountSeq[i] /\ (i < sync[j].at \/ i = sync[j].at)
    <3>1. PICK i \in DOMAIN AccountSeq : a = AccountSeq[i]
      BY <2>5
    <3>2. i < sync[j].at \/ i = sync[j].at
      BY <2>1, <2>3, <2>4, <2>6
    <3> QED  BY <3>1, <3>2
  <2> QED  BY <2>6
<1> HIDE DEF step, at, gone
<1>8. l \in Run /\ l.step = step /\ l.at = at /\ l.gone = gone
  BY <1>1, <1>3, <1>4 DEF Run
<1> HIDE DEF l
<1>9. holder' = j /\ holder \in {None, j} /\ UNCHANGED <<held, known, rows>>
  BY DEF SyncDelete
<1>10. \A k \in Jobs \ {j} : holder = k => holder' = k
  BY <1>9, ProcessAssumption
<1>11. \A i \in DOMAIN AccountSeq : i < sync[j].at \/ i = sync[j].at =>
         gone[AccountSeq[i]] = rows[AccountSeq[i]]
  <2> TAKE i \in DOMAIN AccountSeq
  <2>1. AccountSeq[i] \in Accounts
    BY AccountFacts
  <2>2. i < sync[j].at => sync[j].gone[AccountSeq[i]] = rows[AccountSeq[i]]
    BY <1>1 DEF RunSound
  <2>3. i = sync[j].at => AccountSeq[i] = Account(j)
    BY DEF Account
  <2> QED  BY <1>3, <2>1, <2>2, <2>3
<1>12. step = "commit" => \A a \in Accounts : gone[a] = rows[a]
  BY <1>7, <1>11
<1>13. \A a \in Accounts : gone[a] = NoRows \/ (holder' = j /\ gone[a] = rows[a])
  <2> TAKE a \in Accounts
  <2>1. sync[j].gone[a] = NoRows \/ sync[j].gone[a] = rows[a]
    BY <1>1 DEF RunSound
  <2>2. CASE a = Account(j)
    BY <1>3, <1>9, <2>2
  <2>3. CASE a # Account(j)
    <3>1. gone[a] = sync[j].gone[a] /\ holder' = j
      BY <1>3, <1>9, <2>3
    <3> QED  BY <2>1, <3>1
  <2> QED  BY <2>2, <2>3
<1>14. \A i \in DOMAIN AccountSeq : i < at => gone[AccountSeq[i]] = rows[AccountSeq[i]]
  BY <1>6, <1>11
<1>15. holder' \in Jobs \cup {None}
  BY <1>9
<1> QED
  BY <1>5, <1>8, <1>9, <1>10, <1>12, <1>13, <1>14, <1>15, OwnStep

(* What is committed was the whole truth a moment ago, whoever else has    *)
(* been writing: nobody has.                                               *)
LEMMA CommitKeeps ==
  ASSUME SyncInv, NEW j \in Jobs, SyncCommit(j)
  PROVE  SyncInv'
<1>1. /\ holder = j /\ \A a \in Accounts : sync[j].gone[a] = rows[a]
      /\ sync[j] \in Run
  BY DEF SyncInv, SyncTyped, RunSound, SyncCommit
<1>2. ASSUME NEW a \in Accounts, NEW leg \in Legs
      PROVE  rows[a][leg] - sync[j].gone[a][leg] + Inserted(sync[j].read[a])[leg] \in {0, 1}
  <2>1. rows[a][leg] \in {0, 1} /\ sync[j].gone[a][leg] = rows[a][leg]
    BY <1>1 DEF SyncInv, SyncTyped
  <2>2. Inserted(sync[j].read[a])[leg] \in {0, 1}
    BY DEF Inserted
  <2> QED  BY <2>1, <2>2
<1>3. rows' \in [Accounts -> [Legs -> {0, 1}]]
  BY <1>2 DEF SyncCommit
<1>4. sync' = [sync EXCEPT ![j] = NoRun] /\ holder' = None
  BY <1>1 DEF SyncCommit, Close
<1>5. NoRun \in Run
  BY AccountFacts DEF NoRun, Run, NoRows
<1>6. known' \subseteq Accounts
  BY <1>1 DEF SyncCommit, SyncInv, SyncTyped, Run
<1>7. SyncTyped'
  BY <1>3, <1>4, <1>5, <1>6 DEF SyncCommit, SyncInv, SyncTyped
<1>8. RunSound(j)'
  <2>1. sync'[j] = NoRun
    BY <1>4 DEF SyncInv, SyncTyped
  <2>2. NoRun.step = "idle" /\ NoRun.at = 1 /\ \A a \in Accounts : NoRun.gone[a] = NoRows
    BY DEF NoRun
  <2>3. \A i \in DOMAIN AccountSeq : ~ (i < 1)
    BY AccountFacts
  <2> QED  BY <2>1, <2>2, <2>3 DEF RunSound
<1>9. ASSUME NEW k \in Jobs \ {j} PROVE RunSound(k)'
  <2>1. RunSound(k) /\ sync'[k] = sync[k] /\ holder # k /\ sync[k] \in Run
    BY <1>1, <1>4 DEF SyncInv, SyncTyped
  <2>2. sync[k].at \in Nat /\ ~ (sync[k].at > 1)
    BY <2>1, AccountFacts DEF RunSound, Run
  <2>3. \A i \in DOMAIN AccountSeq : ~ (i < sync[k].at)
    BY <2>2, AccountFacts
  <2> QED  BY <2>1, <2>2, <2>3 DEF RunSound
<1> QED
  BY <1>7, <1>8, <1>9 DEF SyncInv

(* Every step of a run keeps the invariant. *)
LEMMA SyncStepKeeps ==
  ASSUME SyncInv, NEW j \in Jobs, SyncStep(j)
  PROVE  SyncInv'
<1>1. CASE SyncStart(j)
  BY <1>1, GotoKeeps DEF SyncStart
<1>2. CASE SyncSelect(j)
  <2>1. PICK step \in {"select", "insert", "positions"} :
          Goto(j, step) /\ UNCHANGED <<held, known, rows, holder>>
    BY <1>2 DEF SyncSelect
  <2> QED  BY <2>1, GotoKeeps
<1>3. CASE SyncInsert(j)
  BY <1>3, InsertKeeps
<1>4. CASE SyncCollides(j)
  BY <1>4, CloseKeeps DEF SyncCollides
<1>5. CASE SyncPositions(j)
  BY <1>5, PositionsKeeps
<1>6. CASE SyncDelete(j)
  BY <1>6, DeleteKeeps
<1>7. CASE SyncBusy(j)
  BY <1>7, CloseKeeps DEF SyncBusy
<1>8. CASE SyncCommit(j)
  BY <1>8, CommitKeeps
<1>9. CASE SyncRefused(j)
  BY <1>9, CloseKeeps DEF SyncRefused
<1>10. CASE SyncFails(j)
  BY <1>10, CloseKeeps DEF SyncFails
<1> QED
  BY <1>1, <1>2, <1>3, <1>4, <1>5, <1>6, <1>7, <1>8, <1>9, <1>10 DEF SyncStep

(* The sync does not touch a request, nor the owner, nor the other way. *)
LEMMA RequestsUntouched ==
  ASSUME RequestInv, UNCHANGED req
  PROVE  RequestInv'
BY DEF RequestInv, RequestSound, Context

(* What only moves positions at the broker leaves the sync sound. *)
LEMMA SyncUntouched ==
  ASSUME SyncInv, held' \in [Accounts -> SUBSET Legs],
         UNCHANGED <<known, rows, holder, sync>>
  PROVE  SyncInv'
BY DEF SyncInv, SyncTyped, RunSound

(* One request gets a new record; it is for its own step to show it sound. *)
LEMMA OneRequest ==
  ASSUME RequestInv, NEW r \in Submitters, NEW x \in Request,
         req' = [req EXCEPT ![r] = x], RequestSound(r)'
  PROVE  RequestInv' /\ req'[r] = x
<1>1. req'[r] = x /\ \A k \in Submitters \ {r} : req'[k] = req[k]
  BY DEF RequestInv
<1>2. req' \in [Submitters -> Request]
  BY DEF RequestInv
<1>3. ASSUME NEW k \in Submitters \ {r} PROVE RequestSound(k)'
  BY <1>1 DEF RequestInv, RequestSound, Context
<1> QED
  BY <1>1, <1>2, <1>3 DEF RequestInv

(* A request begins with its signal, and without a verdict. *)
LEMMA ReadAccountKeeps ==
  ASSUME RequestInv, NEW r \in Submitters, NEW s \in Signals, NEW q \in Quantities,
         NEW state \in {"ACTIVE", "HALTED"}, ReadAccount(r, s, q, state)
  PROVE  RequestInv'
<1> DEFINE x == [NoRequest EXCEPT !.step = "account", !.signal = s,
                                  !.quantity = q, !.state = state]
<1>1. x.step = "account" /\ x.signal = s /\ x.verdict = "" /\ x \in Request
  <2>1. q \in Int /\ s \in Signals \cup {None} /\ NoRequest \in Request
    BY PortfolioAssumption, NoRequestFacts
  <2>2. x \in Request
    BY <2>1 DEF Request
  <2> QED
    BY <2>2 DEF NoRequest
<1>2. req' = [req EXCEPT ![r] = x]
  BY DEF ReadAccount
<1> HIDE DEF x
<1>3. req'[r] = x
  BY <1>2 DEF RequestInv
<1>4. RequestSound(r)'
  BY <1>1, <1>3 DEF RequestSound
<1> QED
  BY <1>1, <1>2, <1>4, OneRequest

(* What the rows of positions add up to, counted or by their max_loss. *)
LEMMA RowSums ==
  ASSUME SyncTyped
  PROVE  /\ SumOver(Held, [p \in Held |-> rows[p[1]][p[2]]]) \in Nat
         /\ \A T \in SUBSET Held :
              SumOver(T, [p \in T |-> rows[p[1]][p[2]] * MaxLoss(p[2])]) \in Int
<1>1. \A p \in Held : rows[p[1]][p[2]] \in 0 .. 1 /\ MaxLoss(p[2]) \in Int
  BY PortfolioAssumption DEF SyncTyped, Held, MaxLoss
<1>2. IsFiniteSet(Held)
  BY FS_Product, AccountsAssumption, PortfolioAssumption DEF Held
<1>3. SumOver(Held, [p \in Held |-> rows[p[1]][p[2]]]) \in Nat
  <2>1. PICK n : n = [p \in Held |-> rows[p[1]][p[2]]]
    OBVIOUS
  <2>2. \A p \in Held : n[p] \in Int
    BY <1>1, <2>1
  <2>3. \A p \in Held : n[p] \in 0 .. 1
    BY <1>1, <2>1
  <2>4. SumOver(Held, n) \in Int
    BY ONLY <1>2, <2>2, SumType
  <2>5. 0 * Cardinality(Held) <= SumOver(Held, n)
    <3>1. 0 \in Int /\ 1 \in Int
      OBVIOUS
    <3> QED
      BY ONLY <1>2, <2>3, <3>1, SumBounds
  <2>6. Cardinality(Held) \in Nat
    BY <1>2, FS_CardinalityType
  <2> QED
    BY <2>1, <2>4, <2>5, <2>6
<1>4. ASSUME NEW T \in SUBSET Held
      PROVE  SumOver(T, [p \in T |-> rows[p[1]][p[2]] * MaxLoss(p[2])]) \in Int
  <2>1. PICK e : e = [p \in T |-> rows[p[1]][p[2]] * MaxLoss(p[2])]
    OBVIOUS
  <2>2. \A p \in T : e[p] \in Int
    BY <1>1, <2>1
  <2>3. IsFiniteSet(T)
    BY <1>2, FS_Subset
  <2>4. SumOver(T, e) \in Int
    BY ONLY <2>2, <2>3, SumType
  <2> QED
    BY <2>1, <2>4
<1> QED
  BY <1>3, <1>4

(* The two sums are read one after the other. *)
LEMMA ReadKeeps ==
  ASSUME SyncTyped, RequestInv, NEW r \in Submitters, ReadCount(r) \/ ReadExposure(r)
  PROVE  RequestInv'
<1>1. req[r] \in Request /\ RequestSound(r) /\ req[r].step \in {"account", "counted"}
  BY DEF RequestInv, ReadCount, ReadExposure
<1>2. PICK x \in Request :
               /\ req' = [req EXCEPT ![r] = x]
               /\ x.step \in {"counted", "context"}
               /\ x.signal = req[r].signal /\ x.verdict = req[r].verdict
  <2>1. CASE ReadCount(r)
    <3>1. PICK count \in Nat :
            req' = [req EXCEPT ![r].step = "counted", ![r].count = count]
      BY <2>1, RowSums DEF ReadCount
    <3> DEFINE x == [req[r] EXCEPT !.step = "counted", !.count = count]
    <3>2. /\ x \in Request /\ x.step = "counted"
          /\ x.signal = req[r].signal /\ x.verdict = req[r].verdict
      BY <1>1 DEF Request
    <3>3. req' = [req EXCEPT ![r] = x]
      BY <3>1
    <3> HIDE DEF x
    <3> QED  BY <3>2, <3>3
  <2>2. CASE ReadExposure(r)
    <3>1. PICK exposure \in Int :
            req' = [req EXCEPT ![r].step = "context", ![r].exposure = exposure]
      BY <2>2, RowSums DEF ReadExposure
    <3> DEFINE x == [req[r] EXCEPT !.step = "context", !.exposure = exposure]
    <3>2. /\ x \in Request /\ x.step = "context"
          /\ x.signal = req[r].signal /\ x.verdict = req[r].verdict
      BY <1>1 DEF Request
    <3>3. req' = [req EXCEPT ![r] = x]
      BY <3>1
    <3> HIDE DEF x
    <3> QED  BY <3>2, <3>3
  <2> QED  BY <2>1, <2>2
<1>3. req'[r] = x
  BY <1>2 DEF RequestInv
<1>4. RequestSound(r)'
  BY <1>1, <1>2, <1>3 DEF RequestSound
<1> QED
  BY <1>2, <1>4, OneRequest

(* The verdict is the engine's, on the context the request has then. *)
LEMMA DecideKeeps ==
  ASSUME RequestInv, NEW r \in Submitters, Decide(r)
  PROVE  RequestInv'
<1>0. PICK verdict \in Verdicts :
        verdict = Verdict(SignalOf[req[r].signal], Context(r), req[r].quantity)
  BY VerdictType
<1> DEFINE x == [req[r] EXCEPT !.step = "decided", !.verdict = verdict]
<1>1. req[r] \in Request /\ RequestSound(r) /\ req[r].step = "context"
  BY DEF RequestInv, Decide
<1>2. req' = [req EXCEPT ![r] = x]
  BY <1>0 DEF Decide
<1>3. x \in Request /\ x.step = "decided" /\ x.verdict = verdict
  BY <1>1 DEF Request
<1>4. /\ x.signal = req[r].signal /\ x.quantity = req[r].quantity
      /\ x.state = req[r].state /\ x.count = req[r].count
      /\ x.exposure = req[r].exposure
  BY <1>1 DEF Request
<1> HIDE DEF x
<1>5. req'[r] = x
  BY <1>2 DEF RequestInv
<1>6. Context(r)' = Context(r)
  BY <1>4, <1>5 DEF Context
<1>7. verdict = Verdict(SignalOf[req'[r].signal], Context(r)', req'[r].quantity)
  BY <1>0, <1>4, <1>5, <1>6, Zenon
<1>8. RequestSound(r)'
  BY <1>1, <1>3, <1>4, <1>5, <1>7 DEF RequestSound
<1> QED
  BY <1>2, <1>3, <1>8, OneRequest

(* Placed or dropped, the request is over. *)
LEMMA EndKeeps ==
  ASSUME RequestInv, NEW r \in Submitters, req' = [req EXCEPT ![r] = NoRequest]
  PROVE  RequestInv'
<1>1. req'[r] = NoRequest
  BY DEF RequestInv
<1>2. RequestSound(r)'
  BY <1>1, NoRequestFacts DEF RequestSound
<1> QED
  BY <1>2, NoRequestFacts, OneRequest

(* Only a request that is decided places an order, of its own signal. *)
LEMMA OrdersKept ==
  ASSUME RequestInv, OrdersTyped, [Next]_vars
  PROVE  OrdersTyped'
<1>1. ASSUME NEW j \in Jobs, SyncStep(j) PROVE OrdersTyped'
  <2>1. UNCHANGED <<placed, trades>> /\ (UNCHANGED failures \/ SyncFails(j))
    BY <1>1 DEF SyncStep, SyncStart, SyncSelect, SyncInsert, SyncCollides,
         SyncPositions, SyncDelete, SyncBusy, SyncCommit, SyncRefused, SyncFails
  <2> QED
    BY <2>1, ProcessAssumption DEF OrdersTyped, SyncFails
<1>2. ASSUME NEW r \in Submitters, Submit(r) PROVE OrdersTyped'
  <2>1. CASE Place(r)
    <3>1. req[r].signal \in Signals /\ req[r].quantity \in Int
      BY <2>1 DEF RequestInv, RequestSound, Place, Request
    <3> QED
      BY <2>1, <3>1 DEF OrdersTyped, Place
  <2>2. CASE ~ Place(r)
    <3>1. UNCHANGED <<placed, trades, failures>>
      BY <1>2, <2>2 DEF Submit, ReadAccount, ReadCount, ReadExposure, Decide, Drop
    <3> QED
      BY <3>1 DEF OrdersTyped
  <2> QED
    BY <2>1, <2>2
<1>3. ASSUME NEW a \in Accounts, NEW leg \in Legs, OwnerTrades(a, leg)
      PROVE  OrdersTyped'
  BY <1>3, ProcessAssumption DEF OrdersTyped, OwnerTrades
<1>4. CASE Restart
  BY <1>4, ProcessAssumption DEF OrdersTyped, Restart
<1>5. CASE UNCHANGED vars
  BY <1>5 DEF OrdersTyped, vars
<1> QED
  BY <1>1, <1>2, <1>3, <1>4, <1>5 DEF Next

(* Every step keeps the invariant. *)
LEMMA NextKeeps == PortfolioInv /\ [Next]_vars => PortfolioInv'
<1> SUFFICES ASSUME PortfolioInv, [Next]_vars PROVE PortfolioInv'
  OBVIOUS
<1>0. /\ SyncInv /\ RequestInv /\ SyncTyped /\ OrdersTyped
      /\ held \in [Accounts -> SUBSET Legs]
  BY DEF PortfolioInv, SyncInv, SyncTyped
<1>6. OrdersTyped'
  BY <1>0, OrdersKept
<1>1. ASSUME NEW j \in Jobs, SyncStep(j) PROVE PortfolioInv'
  <2>1. UNCHANGED req
    BY <1>1 DEF SyncStep, SyncStart, SyncSelect, SyncInsert, SyncCollides,
         SyncPositions, SyncDelete, SyncBusy, SyncCommit, SyncRefused, SyncFails
  <2> QED
    BY <1>0, <1>6, <1>1, <2>1, SyncStepKeeps, RequestsUntouched DEF PortfolioInv
<1>2. ASSUME NEW r \in Submitters, Submit(r) PROVE PortfolioInv'
  <2>1. CASE \E s \in Signals, q \in Quantities, state \in {"ACTIVE", "HALTED"} :
               ReadAccount(r, s, q, state)
    <3>1. PICK s \in Signals, q \in Quantities, state \in {"ACTIVE", "HALTED"} :
            ReadAccount(r, s, q, state)
      BY <2>1
    <3>2. RequestInv'
      BY <1>0, <3>1, ReadAccountKeeps
    <3>3. UNCHANGED <<held, known, rows, holder, sync>>
      BY <3>1 DEF ReadAccount
    <3> QED  BY <1>0, <1>6, <3>2, <3>3, SyncUntouched DEF PortfolioInv
  <2>2. CASE ReadCount(r) \/ ReadExposure(r)
    <3>1. UNCHANGED <<held, known, rows, holder, sync>>
      BY <2>2 DEF ReadCount, ReadExposure
    <3> QED  BY <1>0, <1>6, <2>2, <3>1, ReadKeeps, SyncUntouched DEF PortfolioInv
  <2>3. CASE Decide(r)
    <3>1. UNCHANGED <<held, known, rows, holder, sync>>
      BY <2>3 DEF Decide
    <3> QED  BY <1>0, <1>6, <2>3, <3>1, DecideKeeps, SyncUntouched DEF PortfolioInv
  <2>4. CASE Place(r)
    <3>1. req[r].signal \in Signals
      BY <1>0, <2>4 DEF RequestInv, RequestSound, Place
    <3>2. SignalOf[req[r].signal].legs \subseteq Legs
      BY <3>1, PortfolioAssumption
    <3>3. held' \in [Accounts -> SUBSET Legs]
      BY <1>0, <2>4, <3>2 DEF Place
    <3>4. UNCHANGED <<known, rows, holder, sync>> /\ req' = [req EXCEPT ![r] = NoRequest]
      BY <2>4 DEF Place
    <3> QED  BY <1>0, <1>6, <3>3, <3>4, EndKeeps, SyncUntouched DEF PortfolioInv
  <2>5. CASE Drop(r)
    <3>1. /\ UNCHANGED <<held, known, rows, holder, sync>>
          /\ req' = [req EXCEPT ![r] = NoRequest]
      BY <2>5 DEF Drop
    <3> QED  BY <1>0, <1>6, <3>1, EndKeeps, SyncUntouched DEF PortfolioInv
  <2> QED  BY <1>2, <2>1, <2>2, <2>3, <2>4, <2>5 DEF Submit
<1>3. ASSUME NEW a \in Accounts, NEW leg \in Legs, OwnerTrades(a, leg)
      PROVE  PortfolioInv'
  <2>1. held' \in [Accounts -> SUBSET Legs]
    BY <1>0, <1>3 DEF OwnerTrades
  <2>2. UNCHANGED <<known, rows, holder, sync, req>>
    BY <1>3 DEF OwnerTrades
  <2> QED  BY <1>0, <1>6, <2>1, <2>2, SyncUntouched, RequestsUntouched DEF PortfolioInv
<1>4. CASE Restart
  <2>1. NoRun \in Run
    BY AccountFacts DEF NoRun, Run, NoRows
  <2>2. SyncTyped'
    BY <1>0, <1>4, <2>1 DEF Restart, SyncInv, SyncTyped
  <2>3. ASSUME NEW j \in Jobs PROVE RunSound(j)'
    <3>1. sync'[j] = NoRun
      BY <1>4 DEF Restart
    <3>2. NoRun.step = "idle" /\ NoRun.at = 1 /\ \A a \in Accounts : NoRun.gone[a] = NoRows
      BY DEF NoRun
    <3>3. \A i \in DOMAIN AccountSeq : ~ (i < 1)
      BY AccountFacts
    <3> QED  BY <3>1, <3>2, <3>3 DEF RunSound
  <2>4. RequestInv'
    <3>1. \A r \in Submitters : req'[r] = NoRequest
      BY <1>4 DEF Restart
    <3>2. \A r \in Submitters : RequestSound(r)'
      BY <3>1, NoRequestFacts DEF RequestSound
    <3>3. req' \in [Submitters -> Request]
      BY <1>4, NoRequestFacts DEF Restart
    <3> QED  BY <3>2, <3>3 DEF RequestInv
  <2> QED  BY <1>6, <2>2, <2>3, <2>4 DEF PortfolioInv, SyncInv
<1>5. CASE UNCHANGED vars
  BY <1>0, <1>5, <1>6, SyncUntouched, RequestsUntouched DEF vars, PortfolioInv
<1> QED
  BY <1>1, <1>2, <1>3, <1>4, <1>5 DEF Next

(* The invariant of the sync and of the requests. *)
LEMMA SpecInv == Spec => []PortfolioInv
<1> QED
  BY InitInv, NextKeeps, PTL DEF Spec

(* The rows, the runs and the requests have their types for any number of  *)
(* accounts, jobs and requests: a number of rows is never negative, though *)
(* SyncCommit subtracts what a run deleted, and the two sums of a context  *)
(* are numbers.                                                            *)
THEOREM PortfolioTyped == Spec => []TypeOK
<1>1. PortfolioInv => TypeOK
  <2> SUFFICES ASSUME PortfolioInv PROVE TypeOK
    OBVIOUS
  <2>1. rows \in [Accounts -> [Legs -> Nat]]
    BY DEF PortfolioInv, SyncInv, SyncTyped
  <2> QED
    BY <2>1 DEF PortfolioInv, SyncInv, SyncTyped, RequestInv, OrdersTyped, TypeOK
<1> QED
  BY <1>1, SpecInv, PTL

(* Two sync runs never leave a position in two rows, however they and the  *)
(* restarts interleave: account_sync.py deletes and inserts under one hold *)
(* of the write lock.                                                      *)
THEOREM NotDoubled == Spec => []PositionsAreNotDoubled
<1>1. PortfolioInv => PositionsAreNotDoubled
  <2> SUFFICES ASSUME PortfolioInv, NEW a \in Accounts, NEW leg \in Legs
               PROVE  rows[a][leg] <= 1
    BY DEF PositionsAreNotDoubled
  <2>1. rows[a][leg] \in {0, 1}
    BY DEF PortfolioInv, SyncInv, SyncTyped
  <2> QED  BY <2>1
<1> QED
  BY <1>1, SpecInv, PTL

(* A decided request's signal and context have the types the engine's      *)
(* theorems ask for.                                                       *)
LEMMA DecidedFacts ==
  ASSUME PortfolioInv, NEW r \in Submitters, req[r].step = "decided"
  PROVE  /\ IsSignal(SignalOf[req[r].signal]) /\ IsContext(Context(r))
         /\ req[r].quantity \in Int
         /\ req[r].verdict = Verdict(SignalOf[req[r].signal], Context(r), req[r].quantity)
<1>1. req[r] \in Request /\ RequestSound(r)
  BY DEF PortfolioInv, RequestInv
<1>2. IsContext(Context(r))
  <2>1. req[r].state \in {"ACTIVE", "HALTED"}
    BY <1>1 DEF Request
  <2> QED
    BY <2>1, PortfolioAssumption DEF IsContext, Context
<1> QED
  BY <1>1, <1>2, PortfolioAssumption DEF Request, RequestSound

(* Whatever is synced in between, a request is approved exactly when the   *)
(* plan's rules allow it on the context it read.                           *)
THEOREM ApprovedAsPlanned == Spec => []ApprovalsAreSound
<1>1. PortfolioInv => ApprovalsAreSound
  <2> SUFFICES ASSUME PortfolioInv, NEW r \in Submitters, req[r].step = "decided"
               PROVE  req[r].verdict = "APPROVED"
                        <=> Approvable(SignalOf[req[r].signal], Context(r), req[r].quantity)
    BY DEF ApprovalsAreSound, Decided
  <2> QED  BY DecidedFacts, VerdictIsSound
<1> QED
  BY <1>1, SpecInv, PTL

(* Of every request the ceiling refuses what is over the hard cap and      *)
(* nothing else, whatever is synced while the request reads its context.   *)
THEOREM CeilingHolds == Spec => []CeilingIsExact
<1>1. PortfolioInv => CeilingIsExact
  <2> SUFFICES ASSUME PortfolioInv, NEW r \in Submitters, req[r].step = "decided"
               PROVE  LET within == WithinCap(SignalOf[req[r].signal].loss * req[r].quantity,
                                              Policy.hard, Nlv)
                      IN /\ req[r].verdict = "OVERRIDE_EXCEEDS_CEILING" => ~ within
                         /\ req[r].verdict \in PastTheCeiling => within
    BY DEF CeilingIsExact, Decided
  <2>1. Context(r).policy = Policy /\ Context(r).nlv = Nlv
    BY DEF Context
  <2> QED  BY <2>1, DecidedFacts, CeilingDrawsTheCap
<1> QED
  BY <1>1, SpecInv, PTL

-----------------------------------------------------------------------------
(* The calculators: a reply is the one of the definition it stands for.  *)

BracketInv == call.of = "bracket" => call.args \in Brackets /\ reply = Build(call.args)
CutoffInv ==
  call.of = "cutoff" => \E t \in Instants : \E cutoff \in Cutoffs :
    call.args = <<t, cutoff>> /\ reply = CutoffVerdict(t, cutoff)
HeadroomInv ==
  call.of = "headroom" => /\ call.args \in Headrooms
                          /\ reply = HeadroomVerdict(call.args[1], call.args[2], call.args[3])
LedgerInv == call.of = "ledger" => call.args \in Ledgers
BatchInv ==
  call.of = "batch" =>
    /\ call.args \in Batches
    /\ reply = Generate(call.args.answers, call.args.nlv, call.args.policy, call.args.taken)
IndicatorInv ==
  call.of = "indicators" =>
    call.args \in BarSeries /\ Enough(call.args) /\ reply = Compute(call.args)
SetupInv ==
  call.of = "setups" => \E bars \in BarSeries :
    Enough(bars) /\ call.args = Compute(bars) /\ reply = Score(call.args)
FeatureInv ==
  call.of = "features" =>
    /\ call.args \in ChainSeries
    /\ Computable(call.args.rows, call.args.closes)
    /\ reply = FeaturesOf(call.args.rows, call.args.closes)

CalcInv ==
  /\ BracketInv /\ CutoffInv /\ HeadroomInv /\ LedgerInv
  /\ BatchInv /\ IndicatorInv /\ SetupInv /\ FeatureInv

(* A call of a kind that is none of these has nothing to keep. *)
LEMMA OtherCalls ==
  ASSUME call.of \notin {"bracket", "cutoff", "headroom", "ledger", "batch",
                         "indicators", "setups", "features"}
  PROVE  CalcInv
BY DEF CalcInv, BracketInv, CutoffInv, HeadroomInv, LedgerInv, BatchInv,
       IndicatorInv, SetupInv, FeatureInv

(* Every call is answered by its own definition. *)
LEMMA CalcStep ==
  ASSUME CalcInv, [CalcNext]_calcVars
  PROVE  CalcInv'
<1> USE DEF CalcInv, BracketInv, CutoffInv, HeadroomInv, LedgerInv, BatchInv,
            IndicatorInv, SetupInv, FeatureInv
<1>1. CASE BuildBracket
  BY <1>1 DEF BuildBracket, Asked
<1>2. CASE CheckCutoff
  BY <1>2 DEF CheckCutoff, Asked
<1>3. CASE CheckHeadroom
  BY <1>3 DEF CheckHeadroom, Asked
<1>4. CASE CheckLimit
  BY <1>4 DEF CheckLimit, Asked
<1>5. CASE ReadLedger
  BY <1>5 DEF ReadLedger, Asked
<1>6. CASE GenerateBatch
  BY <1>6 DEF GenerateBatch, Asked
<1>7. CASE ComputeIndicators
  BY <1>7 DEF ComputeIndicators, Asked
<1>8. CASE ScoreSetups
  BY <1>8 DEF ScoreSetups
<1>9. CASE ComputeFeatures
  BY <1>9 DEF ComputeFeatures, Asked
<1>10. CASE Return
  BY <1>10 DEF Return, NoCall
<1>11. CASE UNCHANGED calcVars
  BY <1>11 DEF calcVars
<1> QED
  BY <1>1, <1>2, <1>3, <1>4, <1>5, <1>6, <1>7, <1>8, <1>9, <1>10, <1>11
  DEF CalcNext, Ask

(* The inductive invariant of the calculators. *)
THEOREM CalcInductive == CalcSpec => []CalcInv
<1>1. CalcInit => CalcInv
  BY OtherCalls DEF CalcInit, NoCall
<1>2. CalcInv /\ [CalcNext]_calcVars => CalcInv'
  BY CalcStep
<1> QED
  BY <1>1, <1>2, PTL DEF CalcSpec

(* What holds of each part holds where the three are checked side by side. *)
THEOREM SideBySide == DecisionSpec => Spec /\ CalcSpec /\ SettingsSpec
<1>1. DecisionInit => Init /\ CalcInit /\ SettingsInit
  BY DEF DecisionInit
<1>2. [DecisionNext]_<<vars, calcVars, settingsVars>> =>
        [Next]_vars /\ [CalcNext]_calcVars /\ [SettingsNext]_settingsVars
  BY DEF DecisionNext, PortfolioMoves, CalculatorsMove, SettingsMove
<1> QED
  BY <1>1, <1>2, PTL DEF DecisionSpec, Spec, CalcSpec, SettingsSpec

-----------------------------------------------------------------------------
(* Brackets. *)

(* Rounding half up is off by half of the divisor at most, and keeps the   *)
(* sign.                                                                   *)
LEMMA HalfUpBounds ==
  ASSUME NEW n \in Int, NEW d \in Int, d > 0
  PROVE  LET r == RoundHalfUp(n, d)
         IN  /\ r \in Int
             /\ 2 * (r * d) <= 2 * n + d
             /\ 2 * n + d < 2 * (r * d) + 2 * d
             /\ n >= 0 => r >= 0
<1>1. PICK e \in Int : e = 2 * d /\ e > 0
  OBVIOUS
<1>2. PICK t \in Int : t = 2 * n + d
  OBVIOUS
<1>3. PICK r \in Int : r = t \div e
  BY <1>1, <1>2, DivisionBounds
<1>4. r * e <= t /\ t < r * e + e
  BY <1>1, <1>2, <1>3, DivisionBounds
<1>5. r * e = 2 * (r * d)
  BY <1>1
<1>6. n >= 0 => r >= 0
  <2>1. SUFFICES ASSUME n >= 0, r <= -1
                 PROVE  FALSE
    BY <1>3
  <2>2. r * e <= (-1) * e
    BY <1>1, <1>3, <2>1, ProductGrows
  <2> QED
    BY <1>1, <1>2, <1>3, <1>4, <2>1, <2>2
<1> QED
  BY <1>1, <1>2, <1>3, <1>4, <1>5, <1>6 DEF RoundHalfUp

(* A quantity that is rounded down is the largest within the budget. *)
LEMMA LargestWithin ==
  ASSUME NEW share \in Int, NEW budget \in Int, NEW unit \in Int, unit > 0,
         2 * (budget * 100) <= 2 * share + 100,
         2 * share + 100 < 2 * (budget * 100) + 2 * 100,
         NEW q \in Int, q = budget \div (100 * unit)
  PROVE  /\ 2 * (10000 * unit * q) <= 2 * share + 100
         /\ 2 * (10000 * unit * (q + 1)) > 2 * share - 100
<1>1. PICK e \in Int : e = 100 * unit /\ e > 0
  OBVIOUS
<1>2. q * e <= budget /\ budget < q * e + e
  BY <1>1, DivisionBounds
<1>3. 10000 * unit * q = 100 * (q * e) /\ 10000 * unit * (q + 1) = 100 * (q * e + e)
  BY <1>1
<1>4. PICK f \in Int : f = q * e
  BY <1>1
<1> QED
  BY <1>1, <1>2, <1>3, <1>4

(* A bracket risks its share of the account, to the nearest contract. *)
LEMMA BracketSized ==
  ASSUME NEW a \in BracketArgs, NEW bracket, bracket = Build(a), bracket.quantity > 0
  PROVE  WellOrdered(a, bracket) /\ WellSized(a, bracket)
<1>1. Buildable(a)
  BY DEF Build
<1>2. PICK entry \in Int, atr \in Int, equity \in Int, pct \in Int :
        /\ entry = a.entry /\ atr = a.atr /\ equity = a.equity /\ pct = a.pct
        /\ entry > 0 /\ atr > 0 /\ equity > 0 /\ pct > 0
  BY <1>1 DEF Buildable, BracketArgs
<1>3. PICK sm \in Nat, rr \in Nat : sm = StopMult /\ rr = RiskReward
  BY BuilderAssumption
<1>4. PICK off \in Int : off = StopOffset(a) /\ off > 0
  <2>1. PICK n \in Int : n = atr * sm
    OBVIOUS
  <2>2. RoundHalfUp(n, 10000) \in Int
    BY HalfUpBounds
  <2>3. StopOffset(a) = RoundHalfUp(n, 10000)
    BY <1>2, <1>3, <2>1 DEF StopOffset
  <2> QED
    BY <1>1, <2>2, <2>3 DEF Buildable
<1>5. PICK aim \in Int : aim = TargetOffset(a) /\ aim >= 0
  <2>1. PICK n \in Int : n = off * rr /\ n >= 0
    <3>1. off * rr \in Int /\ off * rr >= 0
      BY <1>4
    <3> QED
      BY <3>1
  <2>2. RoundHalfUp(n, 100) \in Int /\ RoundHalfUp(n, 100) >= 0
    BY <2>1, HalfUpBounds
  <2>3. TargetOffset(a) = RoundHalfUp(n, 100)
    BY <1>3, <1>4, <2>1 DEF TargetOffset
  <2> QED
    BY <2>2, <2>3
<1>6. PICK share \in Int : share = equity * pct
  OBVIOUS
<1>7. PICK budget \in Int :
        /\ budget = Budget(a)
        /\ 2 * (budget * 100) <= 2 * share + 100
        /\ 2 * share + 100 < 2 * (budget * 100) + 2 * 100
  <2>1. PICK r \in Int : r = RoundHalfUp(share, 100)
    BY HalfUpBounds
  <2>2. 2 * (r * 100) <= 2 * share + 100 /\ 2 * share + 100 < 2 * (r * 100) + 2 * 100
    BY <2>1, HalfUpBounds
  <2> QED
    BY <1>2, <1>6, <2>1, <2>2 DEF Budget
<1>8. PICK q \in Int : q = Quantity(a) /\ q = budget \div (100 * off)
  <2>1. 100 * off \in Int /\ 100 * off > 0
    BY <1>4
  <2>2. budget \div (100 * off) \in Int
    BY <2>1, DivisionBounds
  <2> QED
    BY <1>4, <1>7, <2>2 DEF Quantity
<1>9. bracket = [quantity |-> q, entry |-> entry, stop |-> Stop(a), target |-> Target(a)]
  BY <1>1, <1>2, <1>8 DEF Build
<1>10. Stop(a) > 0 /\ Target(a) > 0
  BY <1>1 DEF Buildable
<1>11. /\ 2 * (10000 * off * q) <= 2 * share + 100
       /\ 2 * (10000 * off * (q + 1)) > 2 * share - 100
  BY <1>4, <1>7, <1>8, LargestWithin
<1>12. CASE a.direction = "LONG"
  <2>1. Stop(a) = entry - off /\ Target(a) = entry + aim
    BY <1>2, <1>4, <1>5, <1>12 DEF Stop, Target
  <2>2. entry - off < entry /\ entry <= entry + aim /\ entry - (entry - off) = off
    BY <1>4, <1>5
  <2> QED
    BY <1>2, <1>6, <1>9, <1>10, <1>11, <1>12, <2>1, <2>2 DEF WellOrdered, WellSized
<1>13. CASE a.direction = "SHORT"
  <2>1. Stop(a) = entry + off /\ Target(a) = entry - aim
    BY <1>2, <1>4, <1>5, <1>13 DEF Stop, Target
  <2>2. /\ entry < entry + off /\ entry - aim <= entry
        /\ (entry + off) - entry = off /\ ~ (entry + off < entry)
    BY <1>4, <1>5
  <2> QED
    BY <1>2, <1>6, <1>9, <1>10, <1>11, <1>13, <2>1, <2>2 DEF WellOrdered, WellSized
<1> QED
  BY <1>12, <1>13 DEF BracketArgs, Directions

(* A bracket that is built has its legs on their sides, costs at most the  *)
(* allowed share when stopped out, to the rounding of the budget, and is   *)
(* the largest that does, for any prices, multipliers and share.           *)
THEOREM BracketsFit == CalcSpec => []BracketsAreSized
<1>1. CalcInv => BracketsAreSized
  <2>1. Brackets \subseteq BracketArgs
    BY ArgumentAssumption
  <2> QED
    BY <2>1, BracketSized DEF CalcInv, BracketInv, BracketsAreSized
<1> QED
  BY <1>1, CalcInductive, PTL

-----------------------------------------------------------------------------
(* The checks of futures.  A time is an hour of the week and a second of   *)
(* that hour; the length of an hour plays no role.                         *)

(* An hour has a length. *)
LEMMA HourType == Hour \in Int /\ Hour > 0
BY DEF Hour

(* Whole hours are compared by their numbers. *)
LEMMA HourOrder ==
  ASSUME NEW k \in Int, NEW s \in Int, 0 <= s, s < Hour, NEW m \in Int
  PROVE  /\ m * Hour <= k * Hour + s <=> m <= k
         /\ k * Hour + s < m * Hour <=> k < m
<1>1. PICK hour \in Int : hour = Hour /\ hour > 0
  BY HourType
<1>2. PICK p \in Int : p = m * hour
  OBVIOUS
<1>3. PICK q \in Int : q = k * hour
  OBVIOUS
<1>4. m <= k => p <= q
  BY <1>1, <1>2, <1>3, ProductGrows
<1>5. ASSUME k < m
      PROVE  q + hour <= p
  <2>1. (k + 1) * hour <= m * hour
    <3>1. PICK l \in Int : l = k + 1 /\ l <= m
      BY <1>5
    <3> QED
      BY <1>1, <3>1, ProductGrows
  <2>2. (k + 1) * hour = q + hour
    BY <1>3
  <2> QED
    BY <1>2, <2>1, <2>2
<1> QED
  BY <1>1, <1>2, <1>3, <1>4, <1>5

(* A time is a day of the week, an hour of the day and a second of it. *)
IsTime(t, d, h, s) ==
  /\ d \in 0 .. 6 /\ h \in 0 .. 23
  /\ s \in Int /\ 0 <= s /\ s < Hour
  /\ t = (24 * d + h) * Hour + s
  /\ Weekday(t) = d /\ HourOf(t) = h

(* Every second of the week is one of an hour of a day of it. *)
LEMMA TimeOfWeek ==
  ASSUME NEW t \in 0 .. WeekSeconds - 1
  PROVE  \E d, h, s \in Int : IsTime(t, d, h, s)
<1>1. PICK hour \in Int : hour = Hour /\ hour > 0
  BY HourType
<1>2. PICK day \in Int : day = DaySeconds /\ day = 24 * hour /\ day > 0
  BY <1>1 DEF DaySeconds
<1>3. t \in Int /\ 0 <= t /\ t < 7 * day
  BY <1>2 DEF WeekSeconds
<1>4. PICK d \in Int : d = t \div day /\ d * day <= t /\ t < d * day + day
  BY <1>2, <1>3, DivisionBounds
<1>5. PICK x \in Int : x = d * day
  OBVIOUS
<1>6. PICK r \in Int : r = t % day /\ r = t - x
  BY <1>2, <1>3, <1>4, <1>5, DivisionRest
<1>7. PICK h \in Int : h = r \div hour /\ h * hour <= r /\ r < h * hour + hour
  BY <1>1, <1>6, DivisionBounds
<1>8. PICK y \in Int : y = h * hour
  OBVIOUS
<1>9. PICK s \in Int : s = r - y
  OBVIOUS
<1>10. 0 <= s /\ s < hour
  BY <1>7, <1>8, <1>9
<1>11. d \in 0 .. 6
  <2>1. ASSUME d <= -1
        PROVE  FALSE
    <3>1. x <= (-1) * day
      BY <1>2, <1>5, <2>1, ProductGrows
    <3> QED
      BY <1>2, <1>3, <1>4, <1>5, <3>1
  <2>2. ASSUME 7 <= d
        PROVE  FALSE
    <3>1. 7 * day <= x
      BY <1>2, <1>5, <2>2, ProductGrows
    <3> QED
      BY <1>2, <1>3, <1>4, <1>5, <3>1
  <2> QED
    BY <2>1, <2>2
<1>12. h \in 0 .. 23
  <2>1. ASSUME h <= -1
        PROVE  FALSE
    <3>1. y <= (-1) * hour
      BY <1>1, <1>8, <2>1, ProductGrows
    <3> QED
      BY <1>1, <1>4, <1>5, <1>6, <1>7, <1>8, <3>1
  <2>2. ASSUME 24 <= h
        PROVE  FALSE
    <3>1. 24 * hour <= y
      BY <1>1, <1>8, <2>2, ProductGrows
    <3> QED
      BY <1>2, <1>4, <1>5, <1>6, <1>7, <1>8, <3>1
  <2> QED
    BY <2>1, <2>2
<1>13. t = (24 * d + h) * hour + s
  <2>1. (24 * d + h) * hour = d * (24 * hour) + h * hour
    OBVIOUS
  <2> QED
    BY <1>2, <1>5, <1>6, <1>8, <1>9, <2>1
<1>14. Weekday(t) = d /\ HourOf(t) = h
  BY <1>1, <1>2, <1>4, <1>6, <1>7 DEF Weekday, HourOf
<1> QED
  BY <1>1, <1>10, <1>11, <1>12, <1>13, <1>14 DEF IsTime

(* The halt of a day begins at 17:00; that of Friday is the last of the    *)
(* week, and ends on Sunday.                                               *)
LEMMA HaltTimes ==
  /\ \A h \in Halts : \E d \in 0 .. 4 :
       /\ h.from = (24 * d + 17) * Hour
       /\ h.to = (IF d = 4 THEN 162 ELSE 24 * d + 18) * Hour
  /\ \A d \in 0 .. 4 : \E h \in Halts :
       /\ h.from = (24 * d + 17) * Hour
       /\ h.to = (IF d = 4 THEN 162 ELSE 24 * d + 18) * Hour
<1>1. PICK hour \in Int : hour = Hour /\ hour > 0
  BY HourType
<1>2. DaySeconds = 24 * hour
  BY <1>1 DEF DaySeconds
<1>3. \A d \in Int : /\ d * DaySeconds + 17 * hour = (24 * d + 17) * hour
                     /\ d * DaySeconds + 18 * hour = (24 * d + 18) * hour
  BY <1>2
<1>4. ASSUME NEW h \in Halts
      PROVE  \E d \in 0 .. 4 : /\ h.from = (24 * d + 17) * Hour
                               /\ h.to = (IF d = 4 THEN 162 ELSE 24 * d + 18) * Hour
  <2>1. CASE \E d \in 0 .. 3 : h = [from |-> d * DaySeconds + 17 * Hour,
                                    to |-> d * DaySeconds + 18 * Hour]
    <3>1. PICK d \in 0 .. 3 : h = [from |-> d * DaySeconds + 17 * Hour,
                                   to |-> d * DaySeconds + 18 * Hour]
      BY <2>1
    <3>2. /\ d \in 0 .. 4 /\ d # 4
          /\ h.from = (24 * d + 17) * Hour /\ h.to = (24 * d + 18) * Hour
      BY <1>1, <1>3, <3>1
    <3> QED
      BY <3>2
  <2>2. CASE h = [from |-> 4 * DaySeconds + 17 * Hour, to |-> 6 * DaySeconds + 18 * Hour]
    <3>1. h.from = (24 * 4 + 17) * Hour /\ h.to = 162 * Hour
      BY <1>1, <1>2, <2>2
    <3>2. 4 \in 0 .. 4
      OBVIOUS
    <3> QED
      BY <3>1, <3>2
  <2> QED
    BY <2>1, <2>2 DEF Halts
<1>5. ASSUME NEW d \in 0 .. 4
      PROVE  \E h \in Halts : /\ h.from = (24 * d + 17) * Hour
                              /\ h.to = (IF d = 4 THEN 162 ELSE 24 * d + 18) * Hour
  <2>1. CASE d \in 0 .. 3
    <3>1. PICK h : h = [from |-> d * DaySeconds + 17 * Hour, to |-> d * DaySeconds + 18 * Hour]
      OBVIOUS
    <3>2. h \in Halts
      BY <2>1, <3>1 DEF Halts
    <3>3. h.from = (24 * d + 17) * Hour /\ h.to = (24 * d + 18) * Hour /\ d # 4
      BY <1>1, <1>3, <2>1, <3>1
    <3> QED
      BY <3>2, <3>3
  <2>2. CASE d = 4
    <3>1. PICK h : h = [from |-> 4 * DaySeconds + 17 * Hour, to |-> 6 * DaySeconds + 18 * Hour]
      OBVIOUS
    <3>2. h \in Halts
      BY <3>1 DEF Halts
    <3>3. h.from = (24 * 4 + 17) * Hour /\ h.to = 162 * Hour
      BY <1>1, <1>2, <3>1
    <3> QED
      BY <2>2, <3>2, <3>3
  <2> QED
    BY <2>1, <2>2
<1> QED
  BY <1>4, <1>5

(* The four closed times are the halts. *)
LEMMA ClosedInHalts ==
  ASSUME NEW t \in 0 .. WeekSeconds - 1
  PROVE  Closed(t) <=> Halted(t)
<1>1. PICK d, h, s \in Int : IsTime(t, d, h, s)
  BY TimeOfWeek
<1>2. PICK k \in Int : k = 24 * d + h
  OBVIOUS
<1>3. Closed(t) <=> \/ d = 5
                    \/ d = 6 /\ h < 18
                    \/ d \in 0 .. 3 /\ h = 17
                    \/ d = 4 /\ h >= 17
  BY <1>1 DEF Closed, IsTime
<1>4. t % WeekSeconds = t
  BY HourType DEF WeekSeconds, DaySeconds
<1>5. \A m \in Int : (m * Hour <= t <=> m <= k) /\ (t < m * Hour <=> k < m)
  BY <1>1, <1>2, HourOrder DEF IsTime
<1>6. Halted(t) <=> \E e \in 0 .. 4 : /\ 24 * e + 17 <= k
                                      /\ k < IF e = 4 THEN 162 ELSE 24 * e + 18
  <2>1. \A e \in 0 .. 4 :
          /\ (24 * e + 17) * Hour <= t <=> 24 * e + 17 <= k
          /\ t < (IF e = 4 THEN 162 ELSE 24 * e + 18) * Hour
               <=> k < (IF e = 4 THEN 162 ELSE 24 * e + 18)
    BY <1>5
  <2> QED
    BY <1>4, <2>1, HaltTimes DEF Halted
<1>7. (\E e \in 0 .. 4 : /\ 24 * e + 17 <= k
                         /\ k < IF e = 4 THEN 162 ELSE 24 * e + 18)
        <=> \/ 17 <= k /\ k < 18
            \/ 41 <= k /\ k < 42
            \/ 65 <= k /\ k < 66
            \/ 89 <= k /\ k < 90
            \/ 113 <= k /\ k < 162
  OBVIOUS
<1> QED
  BY <1>1, <1>2, <1>3, <1>6, <1>7 DEF IsTime

(* Outside of the halts the next one begins at the next close. *)
LEMMA CloseIsNext ==
  ASSUME NEW t \in 0 .. WeekSeconds - 1, ~ Closed(t)
  PROVE  /\ NextClose(t) \in Int /\ t < NextClose(t)
         /\ \A span \in Int : HaltBegins(t, span) <=> NextClose(t) <= t + span
<1>1. PICK d, h, s \in Int : IsTime(t, d, h, s)
  BY TimeOfWeek
<1>2. PICK k \in Int : k = 24 * d + h /\ t = k * Hour + s /\ 0 <= s /\ s < Hour
  BY <1>1 DEF IsTime
<1>3. \/ d \in 0 .. 3 /\ h < 17
      \/ d \in 0 .. 3 /\ 17 < h
      \/ d = 4 /\ h < 17
      \/ d = 6 /\ 18 <= h
  BY <1>1 DEF Closed, IsTime
<1>4. PICK hour \in Int : hour = Hour /\ hour > 0
  BY HourType
<1>5. \A m \in Int : (m * hour <= t <=> m <= k) /\ (t < m * hour <=> k < m)
  BY <1>1, <1>2, <1>4, HourOrder DEF IsTime
<1>6. PICK c \in Int : c = IF h < 17 THEN 24 * d + 17 ELSE 24 * d + 41
  OBVIOUS
<1>7. NextClose(t) = c * hour
  <2>1. PICK today \in Int : today = (24 * d + 17) * hour
    OBVIOUS
  <2>2. Weekday(t) * DaySeconds + 17 * Hour = today
    BY <1>1, <1>4, <2>1 DEF DaySeconds, IsTime
  <2>3. NextClose(t) = IF t < today THEN today ELSE today + 24 * hour
    BY <1>4, <2>2 DEF NextClose, DaySeconds
  <2>4. t < today <=> h < 17
    <3>1. PICK m \in Int : m = 24 * d + 17
      OBVIOUS
    <3>2. t < today <=> k < m
      BY <1>5, <2>1, <3>1
    <3> QED
      BY <1>2, <3>1, <3>2
  <2>5. (24 * d + 41) * hour = today + 24 * hour
    BY <2>1
  <2> QED
    BY <1>6, <2>1, <2>3, <2>4, <2>5
<1>8. t < c * hour
  <2>1. k < c
    BY <1>1, <1>2, <1>6 DEF IsTime
  <2> QED
    BY <1>5, <2>1
<1>9. PICK e \in 0 .. 4 : \E week \in {0, 168} : c = 24 * e + 17 + week
  <2>1. \/ d \in 0 .. 4 /\ c = 24 * d + 17 + 0
        \/ d \in 0 .. 3 /\ c = 24 * (d + 1) + 17 + 0
        \/ c = 24 * 0 + 17 + 168
    BY <1>3, <1>6
  <2> QED
    BY <2>1
<1>10. \A f \in 0 .. 4 : \A week \in {0, 168} :
         k <= 24 * f + 17 + week => c <= 24 * f + 17 + week
  BY <1>1, <1>2, <1>3, <1>6 DEF IsTime
<1>11. ASSUME NEW m \in Int, t <= m * hour
       PROVE  k <= m
  <2>1. SUFFICES ASSUME m < k
                 PROVE  FALSE
    BY <1>1, <1>2
  <2>2. PICK l \in Int : l = m + 1 /\ l <= k
    BY <1>2, <2>1
  <2>3. l * hour <= t
    BY <1>5, <2>2
  <2>4. l * hour = m * hour + hour
    BY <2>2
  <2>5. m * hour \in Int /\ t \in Int
    OBVIOUS
  <2> QED
    BY <1>4, <1>11, <2>3, <2>4, <2>5
<1>12. ASSUME NEW m \in Int, c <= m
       PROVE  c * hour <= m * hour
  BY <1>4, <1>6, <1>12, ProductGrows
<1>13. ASSUME NEW span \in Int
       PROVE  HaltBegins(t, span)
                <=> \E f \in 0 .. 4 : \E week \in {0, 168} :
                      t <= (24 * f + 17 + week) * hour /\ (24 * f + 17 + week) * hour <= t + span
  <2>1. WeekSeconds = 168 * hour
    BY <1>4 DEF WeekSeconds, DaySeconds
  <2>2. \A f \in Int : /\ (24 * f + 17 + 0) * hour = (24 * f + 17) * Hour + 0
                       /\ (24 * f + 17 + 168) * hour = (24 * f + 17) * Hour + WeekSeconds
    BY <1>4, <2>1
  <2>3. ASSUME HaltBegins(t, span)
        PROVE  \E f \in 0 .. 4 : \E week \in {0, 168} :
                 t <= (24 * f + 17 + week) * hour /\ (24 * f + 17 + week) * hour <= t + span
    <3>1. PICK halt \in Halts :
            \/ t <= halt.from + 0 /\ halt.from + 0 <= t + span
            \/ t <= halt.from + WeekSeconds /\ halt.from + WeekSeconds <= t + span
      BY <2>3 DEF HaltBegins
    <3>2. PICK f \in 0 .. 4 : halt.from = (24 * f + 17) * Hour
      BY HaltTimes
    <3> QED
      BY <2>2, <3>1, <3>2
  <2>4. ASSUME NEW f \in 0 .. 4, NEW week \in {0, 168},
               t <= (24 * f + 17 + week) * hour, (24 * f + 17 + week) * hour <= t + span
        PROVE  HaltBegins(t, span)
    <3>1. PICK halt \in Halts : halt.from = (24 * f + 17) * Hour
      BY HaltTimes
    <3>2. PICK w \in {0, WeekSeconds} : (24 * f + 17 + week) * hour = halt.from + w
      BY <2>2, <3>1
    <3> QED
      BY <2>4, <3>1, <3>2 DEF HaltBegins
  <2> QED
    BY <2>3, <2>4
<1>14. ASSUME NEW span \in Int
       PROVE  HaltBegins(t, span) <=> c * hour <= t + span
  <2>1. ASSUME NEW f \in 0 .. 4, NEW week \in {0, 168},
               t <= (24 * f + 17 + week) * hour, (24 * f + 17 + week) * hour <= t + span
        PROVE  c * hour <= t + span
    <3>1. PICK m \in Int : m = 24 * f + 17 + week
      OBVIOUS
    <3>2. c <= m
      BY <1>10, <1>11, <2>1, <3>1
    <3>3. c * hour <= m * hour
      BY <1>12, <3>2
    <3>4. PICK x \in Int : x = m * hour
      OBVIOUS
    <3>5. PICK y \in Int : y = c * hour
      OBVIOUS
    <3>6. x <= t + span /\ t \in Int
      BY <2>1, <3>1, <3>4
    <3> QED
      BY <3>3, <3>4, <3>5, <3>6
  <2>2. ASSUME c * hour <= t + span
        PROVE  HaltBegins(t, span)
    <3>1. PICK week \in {0, 168} : c = 24 * e + 17 + week
      BY <1>9
    <3>2. t <= c * hour
      <4>1. PICK y \in Int : y = c * hour
        OBVIOUS
      <4> QED
        BY <1>8, <4>1
    <3> QED
      BY <1>13, <2>2, <3>1, <3>2
  <2> QED
    BY <1>13, <2>1, <2>2
<1>15. c * hour \in Int
  OBVIOUS
<1> QED
  BY <1>7, <1>8, <1>14, <1>15

(* The check of the cut-off tells whether a halt begins within it. *)
LEMMA CutoffSafe ==
  ASSUME NEW t \in 0 .. WeekSeconds - 1, NEW cutoff \in Int
  PROVE  CutoffIsSafe(t, cutoff, CutoffVerdict(t, cutoff))
<1>1. SUFFICES ASSUME cutoff >= 0
               PROVE  LET verdict == CutoffVerdict(t, cutoff)
                      IN  /\ verdict = "MARKET_CLOSED" <=> Halted(t)
                          /\ verdict = "OK" => ~ HaltBegins(t, 60 * cutoff)
                          /\ verdict = "SESSION_CUTOFF" => HaltBegins(t, 60 * cutoff + 60)
  BY DEF CutoffIsSafe
<1>2. CASE Closed(t)
  <2>1. CutoffVerdict(t, cutoff) = "MARKET_CLOSED"
    BY <1>1, <1>2 DEF CutoffVerdict
  <2> QED
    BY <1>2, <2>1, ClosedInHalts
<1>3. CASE ~ Closed(t)
  <2>1. ~ Halted(t)
    BY <1>3, ClosedInHalts
  <2>2. PICK n \in Int : n = NextClose(t) /\ t < n
    BY <1>3, CloseIsNext
  <2>3. PICK m \in Int : m = MinutesUntilClose(t) /\ m * 60 <= n - t /\ n - t < m * 60 + 60
    <3>1. PICK e \in Int : e = n - t
      BY DEF WeekSeconds
    <3>2. e \div 60 \in Int /\ (e \div 60) * 60 <= e /\ e < (e \div 60) * 60 + 60
      BY <3>1, DivisionBounds
    <3> QED
      BY <2>2, <3>1, <3>2 DEF MinutesUntilClose
  <2>4. CutoffVerdict(t, cutoff) = IF m <= cutoff THEN "SESSION_CUTOFF" ELSE "OK"
    BY <1>1, <1>3, <2>3 DEF CutoffVerdict
  <2>5. \A span \in Int : HaltBegins(t, span) <=> n <= t + span
    BY <1>3, <2>2, CloseIsNext
  <2>6. CASE m <= cutoff
    <3>1. n <= t + (60 * cutoff + 60) /\ 60 * cutoff + 60 \in Int
      BY <2>3, <2>6 DEF WeekSeconds
    <3> QED
      BY <2>1, <2>4, <2>5, <2>6, <3>1
  <2>7. CASE ~ (m <= cutoff)
    <3>1. ~ (n <= t + 60 * cutoff) /\ 60 * cutoff \in Int
      BY <2>3, <2>7 DEF WeekSeconds
    <3> QED
      BY <2>1, <2>4, <2>5, <2>7, <3>1
  <2> QED
    BY <2>6, <2>7
<1> QED
  BY <1>2, <1>3

(* The four early returns of the check, one after the other. *)
LEMMA HeadroomReturns ==
  ASSUME NEW excess \in Int, NEW margin \in Int, NEW buffer \in Int
  PROVE  HeadroomVerdict(excess, margin, buffer) =
           IF margin < 0 THEN "INVALID_MARGIN"
           ELSE IF ~ (buffer \in 0 .. FullBuffer - 1) THEN "INVALID_BUFFER"
           ELSE IF excess <= 0 THEN "NO_EXCESS_LIQUIDITY"
           ELSE IF FullBuffer * (excess - margin) < excess * buffer
           THEN "HEADROOM_BREACH" ELSE "OK"
<1>1. margin >= 0 <=> ~ (margin < 0)
  OBVIOUS
<1> QED
  BY <1>1, Zenon DEF HeadroomVerdict

(* A larger margin leaves less of the excess, so what the check lets       *)
(* through is let through for every smaller margin.                        *)
LEMMA HeadroomSafe ==
  ASSUME NEW excess \in Int, NEW margin \in Int, NEW buffer \in Int
  PROVE  HeadroomIsSafe(excess, margin, buffer, HeadroomVerdict(excess, margin, buffer))
<1>1. PICK share \in Int : share = excess * buffer /\ share = buffer * excess
  OBVIOUS
<1> FullBuffer \in Nat
  BY DEF FullBuffer
<1>2. ASSUME NEW m \in Int
      PROVE  /\ HeadroomVerdict(excess, m, buffer) = "OK"
                  <=> /\ m >= 0 /\ excess > 0 /\ buffer \in 0 .. FullBuffer - 1
                      /\ FullBuffer * (excess - m) >= share
             /\ HeadroomVerdict(excess, m, buffer) = "HEADROOM_BREACH"
                  => FullBuffer * (excess - m) < share
  <2>1. HeadroomVerdict(excess, m, buffer) =
           IF m < 0 THEN "INVALID_MARGIN"
           ELSE IF ~ (buffer \in 0 .. FullBuffer - 1) THEN "INVALID_BUFFER"
           ELSE IF excess <= 0 THEN "NO_EXCESS_LIQUIDITY"
           ELSE IF FullBuffer * (excess - m) < share
           THEN "HEADROOM_BREACH" ELSE "OK"
    BY <1>1, HeadroomReturns, Zenon
  <2>2. FullBuffer * (excess - m) >= share <=> ~ (FullBuffer * (excess - m) < share)
    OBVIOUS
  <2>3. excess > 0 <=> ~ (excess <= 0)
    OBVIOUS
  <2>4. m >= 0 <=> ~ (m < 0)
    OBVIOUS
  <2> QED
    BY <2>1, <2>2, <2>3, <2>4, Zenon
<1>3. ASSUME HeadroomVerdict(excess, margin, buffer) = "OK", NEW m \in 0 .. margin
      PROVE  HeadroomVerdict(excess, m, buffer) = "OK"
  <2>1. margin >= 0 /\ excess > 0 /\ buffer \in 0 .. FullBuffer - 1 /\ FullBuffer * (excess - margin) >= share
    BY <1>2, <1>3
  <2>2. m \in Int /\ m >= 0 /\ FullBuffer * (excess - m) >= share
    BY <2>1
  <2> QED
    BY <1>2, <2>1, <2>2
<1> QED
  BY <1>1, <1>2, <1>3 DEF HeadroomIsSafe

(* What the futures checks let through is safe for any wall clock,         *)
(* cut-off, margin and buffer: no halt begins within the cut-off, and the  *)
(* buffer of the excess is left.                                           *)
THEOREM FuturesAreSafe == CalcSpec => []FuturesChecksAreSafe
<1>1. ASSUME CalcInv
      PROVE  FuturesChecksAreSafe
  <2>1. ASSUME call.of = "cutoff"
        PROVE  CutoffIsSafe(call.args[1], call.args[2], reply)
    <3>1. PICK t \in Instants : \E cutoff \in Cutoffs :
            call.args = <<t, cutoff>> /\ reply = CutoffVerdict(t, cutoff)
      BY <1>1, <2>1 DEF CalcInv, CutoffInv
    <3>2. PICK cutoff \in Cutoffs :
            call.args = <<t, cutoff>> /\ reply = CutoffVerdict(t, cutoff)
      BY <3>1
    <3>3. t \in 0 .. WeekSeconds - 1 /\ cutoff \in Int
      BY ArgumentAssumption
    <3> QED
      BY <3>2, <3>3, CutoffSafe
  <2>2. ASSUME call.of = "headroom"
        PROVE  HeadroomIsSafe(call.args[1], call.args[2], call.args[3], reply)
    <3>1. /\ call.args \in Int \X Int \X Int
          /\ reply = HeadroomVerdict(call.args[1], call.args[2], call.args[3])
      BY <1>1, <2>2, ArgumentAssumption DEF CalcInv, HeadroomInv
    <3> QED
      BY <3>1, HeadroomSafe
  <2> QED
    BY <2>1, <2>2 DEF FuturesChecksAreSafe
<1>2. CalcInv => FuturesChecksAreSafe
  BY <1>1
<1> QED
  BY <1>2, CalcInductive, PTL

-----------------------------------------------------------------------------
(* Least and largest elements of finite sets of integers. *)

(* A finite set of integers has a largest element, which is its Max. *)
LEMMA MaxOfInts ==
  ASSUME NEW S \in SUBSET Int, IsFiniteSet(S), S # {}
  PROVE  Max(S) \in S /\ \A y \in S : Max(S) >= y
<1>1. PICK G : G = {T \in SUBSET S : T # {} => \E x \in T : \A y \in T : x >= y}
  OBVIOUS
<1>2. ASSUME NEW T \in SUBSET S, \A x \in T : T \ {x} \in G
      PROVE  T \in G
  <2>1. SUFFICES ASSUME T # {}
                 PROVE  \E x \in T : \A y \in T : x >= y
    BY <1>1
  <2>2. PICK z \in T : z \in Int
    BY <2>1
  <2>3. CASE T \ {z} = {}
    BY <2>2, <2>3
  <2>4. CASE T \ {z} # {}
    <3>1. PICK x \in T \ {z} : \A y \in T \ {z} : x >= y
      BY <1>1, <1>2, <2>4
    <3>2. x \in Int /\ \A y \in T : y \in Int
      OBVIOUS
    <3>3. CASE x >= z
      <4>1. \A y \in T : x >= y
        BY <3>1, <3>3
      <4> QED
        BY <4>1
    <3>4. CASE ~ (x >= z)
      <4>1. \A y \in T : z >= y
        BY <2>2, <3>1, <3>2, <3>4
      <4> QED
        BY <4>1
    <3> QED
      BY <3>3, <3>4
  <2> QED
    BY <2>3, <2>4
<1>3. \A T \in SUBSET S : (\A x \in T : T \ {x} \in G) => T \in G
  BY <1>2
<1>4. \A T \in SUBSET S : T \in G
  BY ONLY IsFiniteSet(S), <1>3, FiniteInduction
<1>5. \E x \in S : \A y \in S : x >= y
  BY <1>1, <1>4
<1> QED
  BY <1>5 DEF Max

(* And a least one, which is its Min. *)
LEMMA MinOfInts ==
  ASSUME NEW S \in SUBSET Int, IsFiniteSet(S), S # {}
  PROVE  Min(S) \in S /\ \A y \in S : Min(S) <= y
<1>1. PICK G : G = {T \in SUBSET S : T # {} => \E x \in T : \A y \in T : x <= y}
  OBVIOUS
<1>2. ASSUME NEW T \in SUBSET S, \A x \in T : T \ {x} \in G
      PROVE  T \in G
  <2>1. SUFFICES ASSUME T # {}
                 PROVE  \E x \in T : \A y \in T : x <= y
    BY <1>1
  <2>2. PICK z \in T : z \in Int
    BY <2>1
  <2>3. CASE T \ {z} = {}
    BY <2>2, <2>3
  <2>4. CASE T \ {z} # {}
    <3>1. PICK x \in T \ {z} : \A y \in T \ {z} : x <= y
      BY <1>1, <1>2, <2>4
    <3>2. x \in Int /\ \A y \in T : y \in Int
      OBVIOUS
    <3>3. CASE x <= z
      <4>1. \A y \in T : x <= y
        BY <3>1, <3>3
      <4> QED
        BY <4>1
    <3>4. CASE ~ (x <= z)
      <4>1. \A y \in T : z <= y
        BY <2>2, <3>1, <3>2, <3>4
      <4> QED
        BY <4>1
    <3> QED
      BY <3>3, <3>4
  <2> QED
    BY <2>3, <2>4
<1>3. \A T \in SUBSET S : (\A x \in T : T \ {x} \in G) => T \in G
  BY <1>2
<1>4. \A T \in SUBSET S : T \in G
  BY ONLY IsFiniteSet(S), <1>3, FiniteInduction
<1>5. \E x \in S : \A y \in S : x <= y
  BY <1>1, <1>4
<1> QED
  BY <1>5 DEF Min

(* The larger and the smaller of two numbers. *)
LEMMA PairBounds ==
  ASSUME NEW a \in Int, NEW b \in Int
  PROVE  /\ Max({a, b}) = (IF a >= b THEN a ELSE b)
         /\ Min({a, b}) = (IF a <= b THEN a ELSE b)
<1>1. IsFiniteSet({a, b})
  <2>1. IsFiniteSet({a}) /\ {a, b} = {a} \cup {b}
    BY FS_Singleton
  <2> QED
    BY <2>1, FS_AddElement
<1>2. PICK S : S = {a, b}
  OBVIOUS
<1>3. Max(S) \in S /\ Min(S) \in S /\ \A y \in S : Max(S) >= y /\ Min(S) <= y
  BY <1>1, <1>2, MaxOfInts, MinOfInts
<1> QED
  BY <1>2, <1>3

-----------------------------------------------------------------------------
(* The readings of the cash ledger. *)

(* A sequence has finitely many places, each with one of its elements. *)
LEMMA Indices ==
  ASSUME NEW E, NEW s \in Seq(E)
  PROVE  /\ Len(s) \in Nat /\ DOMAIN s = 1 .. Len(s)
         /\ IsFiniteSet(DOMAIN s) /\ Cardinality(DOMAIN s) = Len(s)
         /\ \A i \in DOMAIN s : s[i] \in E
<1>1. Len(s) \in Nat /\ DOMAIN s = 1 .. Len(s) /\ s \in [1 .. Len(s) -> E]
  BY LenProperties
<1>2. PICK n \in Nat : n = Len(s)
  BY <1>1
<1>3. 1 \in Int /\ n \in Int
  OBVIOUS
<1>4. /\ IsFiniteSet(1 .. n)
      /\ Cardinality(1 .. n) = IF 1 > n THEN 0 ELSE n - 1 + 1
  BY ONLY <1>3, FS_Interval
<1>5. Cardinality(1 .. n) = n
  BY <1>4
<1> QED
  BY <1>1, <1>2, <1>4, <1>5

(* A ledger adds up part by part. *)
LEMMA TotalSplits ==
  ASSUME NEW ledger \in Seq(LedgerRow), NEW I \in SUBSET (DOMAIN ledger), NEW A \in SUBSET I
  PROVE  /\ Total(ledger, I) \in Int
         /\ Total(ledger, I) = Total(ledger, A) + Total(ledger, I \ A)
<1>1. PICK D : D = DOMAIN ledger
  OBVIOUS
<1>2. IsFiniteSet(D) /\ \A i \in D : ledger[i].delta \in Int
  <2>1. IsFiniteSet(D) /\ \A i \in D : ledger[i] \in LedgerRow
    BY <1>1, Indices
  <2> QED
    BY <2>1 DEF LedgerRow
<1>3. PICK f : f = [i \in D |-> ledger[i].delta]
  OBVIOUS
<1>4. ASSUME NEW J \in SUBSET D
      PROVE  Total(ledger, J) = SumOver(J, f) /\ IsFiniteSet(J) /\ SumOver(J, f) \in Int
  <2>1. IsFiniteSet(J)
    BY <1>2, FS_Subset
  <2>2. PICK e : e = [i \in J |-> ledger[i].delta]
    OBVIOUS
  <2>3. \A i \in J : e[i] \in Int /\ f[i] = e[i]
    BY <1>2, <1>3, <2>2
  <2>4. SumOver(J, e) = SumOver(J, f)
    BY ONLY <2>1, <2>3, SumSame
  <2>5. SumOver(J, e) \in Int
    BY ONLY <2>1, <2>3, SumType
  <2> QED
    BY <2>1, <2>2, <2>4, <2>5 DEF Total
<1>5. IsFiniteSet(I) /\ \A i \in I : f[i] \in Int
  BY <1>1, <1>2, <1>3, <1>4
<1>6. SumOver(I, f) = SumOver(A, f) + SumOver(I \ A, f)
  BY ONLY A \in SUBSET I, <1>5, SumSplit
<1> QED
  BY <1>1, <1>4, <1>6

(* A ledger with other amounts on rows outside of I has the same total     *)
(* over I.                                                                 *)
LEMMA TotalTells ==
  ASSUME NEW ledger \in Seq(LedgerRow), NEW I \in SUBSET (DOMAIN ledger),
         NEW other, \A i \in I : other[i].delta = ledger[i].delta
  PROVE  Total(other, I) = Total(ledger, I)
<1>1. [i \in I |-> other[i].delta] = [i \in I |-> ledger[i].delta]
  OBVIOUS
<1> QED
  BY <1>1 DEF Total

(* No reading of a ledger counts what is not settled. *)
LEMMA LedgerReadings ==
  ASSUME NEW ledger, NEW today \in Nat, IsLedger(ledger, today)
  PROVE  IgnoresUnsettled(ledger, today)
<1>1. ledger \in Seq(LedgerRow)
  BY DEF IsLedger
<1>2. IsFiniteSet(DOMAIN ledger) /\ \A i \in DOMAIN ledger : ledger[i] \in LedgerRow
  BY <1>1, Indices
<1>3. PICK S : S = SettledRows(ledger, today) /\ S \in SUBSET (DOMAIN ledger)
  BY DEF SettledRows
<1>4. PICK L : L = Locks(ledger) /\ L \in SUBSET S
  BY <1>3 DEF IsLedger
<1>5. PICK R : R = Releases(ledger) /\ R \in SUBSET S
  BY <1>3 DEF IsLedger
<1>6. PICK s \in Int : s = Total(ledger, S)
  BY <1>1, <1>3, TotalSplits
<1>7. Running(ledger, today) <= SettledAsOf(ledger, today)
  <2>1. PICK u \in Int : u = UnsettledAsOf(ledger, today)
    <3>1. Total(ledger, DOMAIN ledger \ S) \in Int
      BY <1>1, TotalSplits
    <3> QED
      BY <1>3, <3>1 DEF UnsettledAsOf
  <2>2. Min({u, 0}) \in Int /\ Min({u, 0}) <= 0
    BY PairBounds
  <2> QED
    BY <1>3, <1>6, <2>1, <2>2 DEF Running, SettledAsOf
<1>8. PICK other : other = [i \in DOMAIN ledger |->
                     IF ledger[i].settles <= today THEN ledger[i]
                     ELSE [ledger[i] EXCEPT !.delta = 0]]
  OBVIOUS
<1>9. DOMAIN other = DOMAIN ledger /\ \A i \in S : other[i] = ledger[i]
  BY <1>3, <1>8 DEF SettledRows
<1>10. \A i \in DOMAIN ledger : /\ other[i].settles = ledger[i].settles
                                /\ other[i].reason = ledger[i].reason
  BY <1>2, <1>8 DEF LedgerRow
<1>11. /\ SettledRows(other, today) = S
       /\ Locks(other) = L /\ Releases(other) = R
  BY <1>3, <1>4, <1>5, <1>9, <1>10 DEF SettledRows, Locks, Releases, RowsFor
<1>12. ASSUME NEW I \in SUBSET S
       PROVE  Total(other, I) = Total(ledger, I)
  BY <1>1, <1>3, <1>9, TotalTells
<1>13. SettledAsOf(other, today) = SettledAsOf(ledger, today)
  BY <1>3, <1>11, <1>12 DEF SettledAsOf
<1>14. ContextSettled(other, today) = ContextSettled(ledger, today)
  BY <1>3, <1>4, <1>11, <1>12 DEF ContextSettled
<1>15. PageLocked(other) = PageLocked(ledger)
  <2>1. L \cup R \in SUBSET S
    BY <1>4, <1>5
  <2> QED
    BY <1>4, <1>5, <1>11, <1>12, <2>1 DEF PageLocked
<1>16. PageAvailable(other, today) = PageAvailable(ledger, today)
  BY <1>14, <1>15 DEF PageAvailable
<1> QED
  BY <1>7, <1>8, <1>13, <1>14, <1>16 DEF IgnoresUnsettled

(* Money on its way backs no order, whatever deposits, fills, locks and    *)
(* releases an account's ledger has, as long as its locks and releases are *)
(* dated the day they are made.                                            *)
THEOREM ReadingsFit == CalcSpec => []UnsettledIsUnusable
<1>1. CalcInv => UnsettledIsUnusable
  <2>1. \A l \in Ledgers : l.today \in Nat /\ IsLedger(l.rows, l.today)
    BY ArgumentAssumption
  <2> QED
    BY <2>1, LedgerReadings DEF CalcInv, LedgerInv, UnsettledIsUnusable
<1> QED
  BY <1>1, CalcInductive, PTL

-----------------------------------------------------------------------------
(* A batch of signals. *)

(* A sequence of sequences, flattened. *)
LEMMA FlattenType ==
  ASSUME NEW E, NEW ss \in Seq(Seq(E))
  PROVE  FlattenSeq(ss) \in Seq(E)
<1>1. <<>> \in Seq(E)
  OBVIOUS
<1> QED
  BY <1>1, FlattenAppend

(* What is kept of the answers is a sequence of candidates. *)
LEMMA KeptType ==
  ASSUME NEW answers \in Seq(Answer)
  PROVE  Kept(answers) \in Seq(Candidate)
<1>1. Candidates(answers) \in Seq(Candidate)
  <2>1. PICK ss : ss = [i \in DOMAIN answers |-> answers[i].candidates]
    OBVIOUS
  <2>2. DOMAIN answers = 1 .. Len(answers) /\ Len(answers) \in Nat
        /\ \A i \in DOMAIN answers : answers[i] \in Answer
    BY Indices
  <2>3. \A i \in DOMAIN answers : answers[i].candidates \in Seq(Candidate)
    BY <2>2 DEF Answer
  <2>4. ss \in Seq(Seq(Candidate))
    <3>1. PICK Q : Q = Seq(Candidate)
      OBVIOUS
    <3>2. PICK n \in Nat : n = Len(answers)
      BY <2>2
    <3>3. ss \in [1 .. n -> Q]
      BY <2>1, <2>2, <2>3, <3>1, <3>2
    <3>4. ss \in Seq(Q)
      BY ONLY n \in Nat, <3>3
    <3> QED
      BY <3>1, <3>4
  <2> QED
    BY <2>1, <2>4, FlattenType DEF Candidates
<1>2. Steps(KeptAfter, Seq(Candidate), Candidate)
  <2>1. ASSUME NEW a \in Seq(Candidate), NEW c \in Candidate
        PROVE  KeptAfter[<<a, c>>] \in Seq(Candidate)
    <3>1. KeptAfter[<<a, c>>] = IF Valid(c) THEN Append(a, c) ELSE a
      BY DEF KeptAfter
    <3>2. Append(a, c) \in Seq(Candidate)
      BY AppendProperties
    <3> QED
      BY <3>1, <3>2
  <2> QED
    BY <2>1 DEF Steps
<1>3. <<>> \in Seq(Candidate)
  OBVIOUS
<1> QED
  BY ONLY <1>1, <1>2, <1>3, FoldedType DEF Kept

(* The loss of a whole quantity, divided by it again. *)
LEMMA LossOfOne ==
  ASSUME NEW l \in Int, NEW q \in Int, q > 0
  PROVE  (l * q) \div q = l
<1>1. PICK n \in Int : n = l * q
  OBVIOUS
<1>2. PICK r \in Int : r = n \div q /\ r * q <= n /\ n < r * q + q
  BY <1>1, DivisionBounds
<1>3. ASSUME r < l
      PROVE  FALSE
  <2>1. (r + 1) * q <= l * q
    <3>1. PICK k \in Int : k = r + 1 /\ k <= l
      BY <1>2, <1>3
    <3> QED
      BY <3>1, ProductGrows
  <2>2. (r + 1) * q = r * q + q
    OBVIOUS
  <2>3. r * q \in Int
    OBVIOUS
  <2> QED
    BY <1>1, <1>2, <2>1, <2>2, <2>3
<1>4. ASSUME r > l
      PROVE  FALSE
  <2>1. (l + 1) * q <= r * q
    <3>1. PICK k \in Int : k = l + 1 /\ k <= r
      BY <1>2, <1>4
    <3> QED
      BY <1>2, <3>1, ProductGrows
  <2>2. (l + 1) * q = n + q
    BY <1>1
  <2>3. r * q \in Int
    BY <1>2
  <2> QED
    BY <1>1, <1>2, <2>1, <2>2, <2>3
<1> QED
  BY <1>1, <1>2, <1>3, <1>4

(* A smaller positive loss is within a cap that a larger one is within.    *)
LEMMA SmallerIsWithin ==
  ASSUME NEW l \in Int, NEW m \in Int, l <= m, NEW q \in Nat, NEW pct \in Nat,
         NEW nlv \in Int, WithinCap(m * q, pct, nlv)
  PROVE  WithinCap(l * q, pct, nlv)
<1>1. PICK w \in Int : w = Whole /\ w > 0
  BY WholeAssumption
<1>2. PICK small \in Int : small = l * q
  OBVIOUS
<1>3. PICK large \in Int : large = m * q
  OBVIOUS
<1>4. small <= large
  BY <1>2, <1>3, ProductGrows
<1>5. small * w <= large * w
  BY <1>1, <1>4, ProductGrows
<1>6. small * w \in Int /\ large * w \in Int /\ pct * nlv \in Int
  BY <1>1
<1> QED
  BY <1>1, <1>2, <1>3, <1>5, <1>6 DEF WithinCap

(* A stored row has the size that what was judged of it gives. *)
LEMMA RowSized ==
  ASSUME NEW c \in Candidate, NEW nlv \in Int, NEW p \in Policies, NEW row, row = Row(c, nlv, p)
  PROVE  /\ LargestWithinPreferred(c, row, nlv, p) /\ JudgedByStated(c, row, nlv, p)
         /\ UnpricedIsRefused(c, row)
<1>1. c.loss \in Amounts /\ c.stated \in Amounts
  BY DEF Candidate
<1>2. PICK b \in Int : b = BatchLoss(c)
  BY <1>1 DEF BatchLoss, Truthy, Amounts
<1>3. PICK l \in Int : l = SizedBy(c) /\ l > 0 /\ (b > 0 => l = b)
  BY <1>2 DEF SizedBy, OneDollar
<1>4. PICK pct \in Nat : pct = p.preferred
  BY DEF Policies
<1>5. PICK ceiling \in Int : ceiling = QuantityCeiling(l, nlv, pct)
  <2>1. PICK e \in Int : e = Whole * l /\ e > 0
    <3>1. PICK w \in Int : w = Whole /\ w > 0
      BY WholeAssumption
    <3>2. w * l \in Int /\ w * l > 0
      BY <1>3, <3>1
    <3> QED
      BY <3>1, <3>2
  <2>2. PICK n \in Int : n = pct * nlv
    BY <1>4
  <2>3. n \div e \in Int
    BY <2>1, <2>2, DivisionBounds
  <2> QED
    BY <2>1, <2>2, <2>3 DEF QuantityCeiling
<1>6. PICK q \in Int : q = Max({1, ceiling}) /\ q >= 1 /\ (q = 1 \/ q = ceiling)
  BY PairBounds
<1>7. row = [id |-> c.id, strategy |-> c.strategy, quantity |-> q,
             loss |-> StoredLoss(c, q), stated |-> c.stated,
             preferred |-> Preferred(c, nlv, p), ceiling |-> Ceiling(c, nlv, p),
             status |-> "APPROVED_AWAITING_HITL"]
  BY <1>3, <1>4, <1>5, <1>6 DEF Row, Preferred
<1>8. row.quantity = q /\ row.loss = StoredLoss(c, q) /\ row.stated = c.stated
  BY <1>7
<1>9. PICK all \in Int : all = b * q /\ all \div q = b /\ (b # 0 => all # 0)
  <2>1. (b * q) \div q = b
    BY <1>6, LossOfOne
  <2>2. b # 0 => b * q # 0
    BY <1>6
  <2>3. b * q \in Int
    BY <1>6
  <2> QED
    BY <2>1, <2>2, <2>3
<1>10. StoredLoss(c, q) = IF b = 0 THEN Absent ELSE all
  BY <1>2, <1>9 DEF StoredLoss
<1>11. c.stated = Absent => EngineLoss(row) = IF b = 0 THEN Absent ELSE b
  BY <1>8, <1>9, <1>10, AbsentAssumption DEF EngineLoss, Truthy
<1>12. c.stated # Absent => EngineLoss(row) = c.stated
  BY <1>8 DEF EngineLoss
<1>13. \A k \in Int : k <= ceiling <=> WithinCap(l * k, pct, nlv)
  <2> TAKE k \in Int
  <2> QED
    BY <1>3, <1>5, CeilingIsTheCap
<1>14. LargestWithinPreferred(c, row, nlv, p)
  <2>1. q = 1 \/ WithinCap(l * q, pct, nlv)
    BY <1>6, <1>13
  <2>2. ceiling < q + 1 /\ q + 1 \in Int
    BY <1>6, PairBounds
  <2>3. ~ WithinCap(l * (q + 1), pct, nlv)
    BY <1>5, <1>13, <2>2
  <2> QED
    BY <1>3, <1>4, <1>8, <2>1, <2>3 DEF LargestWithinPreferred
<1>15. JudgedByStated(c, row, nlv, p)
  <2>1. c.stated = Absent /\ b # 0 => EngineLoss(row) = b
    BY <1>11
  <2>2. ASSUME EngineLoss(row) # Absent, EngineLoss(row) > 0,
               ~ WithinCap(EngineLoss(row) * q, pct, nlv), q # 1
        PROVE  Truthy(c.loss) /\ c.stated # Absent /\ c.stated > c.loss
    <3>1. WithinCap(l * q, pct, nlv)
      BY <1>6, <1>13, <2>2
    <3>2. PICK e \in Int : e = EngineLoss(row) /\ e > 0 /\ e > l
      <4>1. PICK e \in Int : e = EngineLoss(row)
        BY <1>1, <1>11, <1>12, <2>2 DEF Amounts
      <4>2. ~ (e <= l)
        BY <1>3, <1>4, <1>6, <2>2, <3>1, <4>1, SmallerIsWithin
      <4> QED
        BY <2>2, <4>1, <4>2
    <3>3. b # e
      BY <1>3, <3>2
    <3>4. c.stated # Absent /\ c.stated = e
      BY <1>11, <1>12, <2>2, <3>2, <3>3
    <3>5. Truthy(c.loss) /\ b = c.loss
      BY <1>2, <3>3, <3>4 DEF BatchLoss, Truthy
    <3>6. e > b
      BY <1>3, <3>2, <3>3
    <3> QED
      BY <3>4, <3>5, <3>6
  <2> QED
    BY <1>2, <1>4, <1>8, <2>1, <2>2 DEF JudgedByStated
<1>16. UnpricedIsRefused(c, row)
  BY <1>1, <1>2, <1>11, <1>12 DEF UnpricedIsRefused, Amounts
<1> QED
  BY <1>14, <1>15, <1>16

(* The rows of a batch are those of the candidates that were kept, for any *)
(* answers of the model and any policy: each has the largest quantity      *)
(* within the preferred cap by the loss it was sized by, or one; whatever  *)
(* two losses it states, the engine finds it over that cap only if one     *)
(* contract is or the loss it judges by is larger than the one sized by.   *)
THEOREM BatchesFit == CalcSpec => []BatchesAreSized
<1>1. ASSUME CalcInv, call.of = "batch", reply # <<>>
      PROVE  LET kept == Kept(call.args.answers)
             IN /\ Len(reply) = Len(kept)
                /\ \A i \in DOMAIN kept :
                     /\ LargestWithinPreferred(kept[i], reply[i], call.args.nlv, call.args.policy)
                     /\ JudgedByStated(kept[i], reply[i], call.args.nlv, call.args.policy)
                     /\ UnpricedIsRefused(kept[i], reply[i])
  <2>1. PICK b \in Batches :
          b = call.args /\ reply = Generate(b.answers, b.nlv, b.policy, b.taken)
    BY <1>1 DEF CalcInv, BatchInv
  <2>2. b.answers \in Seq(Answer) /\ b.nlv \in Int /\ b.policy \in Policies
    BY ArgumentAssumption
  <2>3. PICK kept \in Seq(Candidate) : kept = Kept(b.answers)
    BY <2>2, KeptType
  <2>4. /\ Len(kept) \in Nat /\ DOMAIN kept = 1 .. Len(kept)
        /\ \A i \in DOMAIN kept : kept[i] \in Candidate
    BY Indices
  <2>5. reply = [i \in DOMAIN kept |-> Row(kept[i], b.nlv, b.policy)]
    BY <1>1, <2>1, <2>3 DEF Generate
  <2>6. Len(reply) = Len(kept)
    BY <2>4, <2>5
  <2>7. ASSUME NEW i \in DOMAIN kept
        PROVE  /\ LargestWithinPreferred(kept[i], reply[i], b.nlv, b.policy)
               /\ JudgedByStated(kept[i], reply[i], b.nlv, b.policy)
               /\ UnpricedIsRefused(kept[i], reply[i])
    <3>1. kept[i] \in Candidate /\ reply[i] = Row(kept[i], b.nlv, b.policy)
      BY <2>4, <2>5
    <3> QED
      BY <2>2, <3>1, RowSized
  <2> QED
    BY <2>1, <2>3, <2>6, <2>7
<1>2. CalcInv => BatchesAreSized
  BY <1>1 DEF BatchesAreSized
<1> QED
  BY <1>2, CalcInductive, PTL

-----------------------------------------------------------------------------
(* The features of volatility. *)

(* Some row of a set of them comes last. *)
LEMMA SomeLast ==
  ASSUME NEW chain \in Seq(ChainRow), NEW I \in SUBSET (DOMAIN chain), I # {}
  PROVE  \E l \in I : \A j \in I \ {l} : Before(chain, j, l)
<1>1. IsFiniteSet(DOMAIN chain) /\ \A i \in DOMAIN chain : i \in Int /\ chain[i].time \in Int
  <2>1. /\ IsFiniteSet(DOMAIN chain) /\ DOMAIN chain = 1 .. Len(chain)
        /\ \A i \in DOMAIN chain : chain[i] \in ChainRow
    BY Indices
  <2> QED
    BY <2>1 DEF ChainRow
<1>2. PICK D : D = DOMAIN chain
  OBVIOUS
<1>3. PICK G : G = {T \in SUBSET D : T # {} => \E l \in T : \A j \in T \ {l} : Before(chain, j, l)}
  OBVIOUS
<1>4. ASSUME NEW T \in SUBSET D, \A x \in T : T \ {x} \in G
      PROVE  T \in G
  <2>1. SUFFICES ASSUME T # {}
                 PROVE  \E l \in T : \A j \in T \ {l} : Before(chain, j, l)
    BY <1>3
  <2>2. PICK z \in T : z \in Int /\ chain[z].time \in Int
    BY <1>1, <1>2, <2>1
  <2>3. CASE T \ {z} = {}
    BY <2>3
  <2>4. CASE T \ {z} # {}
    <3>1. PICK l \in T \ {z} : \A j \in (T \ {z}) \ {l} : Before(chain, j, l)
      BY <1>3, <1>4, <2>4
    <3>2. l \in Int /\ chain[l].time \in Int /\ l # z
      BY <1>1, <1>2, <3>1
    <3>3. CASE Before(chain, z, l)
      BY <3>1, <3>3
    <3>4. CASE Before(chain, l, z)
      <4>1. ASSUME NEW j \in T \ {z}, j # l
            PROVE  Before(chain, j, z)
        <5>1. j \in Int /\ chain[j].time \in Int /\ Before(chain, j, l)
          BY <1>1, <1>2, <3>1, <4>1
        <5> QED
          BY <2>2, <3>2, <3>4, <5>1 DEF Before
      <4>2. \A j \in T \ {z} : Before(chain, j, z)
        BY <3>4, <4>1
      <4> QED
        BY <4>2
    <3>5. Before(chain, z, l) \/ Before(chain, l, z)
      BY <2>2, <3>2 DEF Before
    <3> QED
      BY <3>3, <3>4, <3>5
  <2> QED
    BY <2>3, <2>4
<1>5. \A T \in SUBSET D : (\A x \in T : T \ {x} \in G) => T \in G
  BY <1>4
<1>6. IsFiniteSet(D)
  BY <1>1, <1>2
<1>7. \A T \in SUBSET D : T \in G
  BY ONLY <1>5, <1>6, FiniteInduction
<1> QED
  BY <1>2, <1>3, <1>7

(* The features are those of the newest rows. *)
LEMMA FeaturesSound ==
  ASSUME NEW chain \in Seq(ChainRow), NEW closes, Computable(chain, closes),
         NEW f, f = FeaturesOf(chain, closes)
  PROVE  TellsTheNewest(chain, f)
<1>1. /\ Len(chain) \in Nat /\ DOMAIN chain = 1 .. Len(chain)
      /\ IsFiniteSet(DOMAIN chain) /\ Cardinality(DOMAIN chain) = Len(chain)
      /\ \A i \in DOMAIN chain : chain[i] \in ChainRow
  BY Indices
<1>2. PICK D : D = DOMAIN chain
  OBVIOUS
<1>3. \A i \in D : chain[i].iv \in Int /\ chain[i].time \in Int
  BY <1>1, <1>2 DEF ChainRow
<1>4. D # {}
  BY <1>1, <1>2 DEF Computable
<1>5. PICK l \in D : LatestOf(chain) = chain[l] /\ \A j \in D \ {l} : Before(chain, j, l)
  <2>1. \E k \in D : \A j \in D \ {k} : Before(chain, j, k)
    BY <1>2, <1>4, SomeLast
  <2> QED
    BY <1>2, <2>1 DEF LatestOf, LastOf
<1>6. \A j \in D : chain[j].time <= chain[l].time
  BY <1>3, <1>5 DEF Before
<1>7. PICK V : V = Vols(chain) /\ V = {chain[i].iv : i \in D}
  BY <1>2 DEF Vols
<1>8. V \in SUBSET Int /\ IsFiniteSet(V) /\ V # {}
  <2>1. IsFiniteSet(V)
    <3>1. PICK m : m = [i \in D |-> chain[i].iv]
      OBVIOUS
    <3>2. m \in [D -> V] /\ \A y \in V : \E i \in D : m[i] = y
      BY <1>7, <3>1
    <3>3. m \in Surjection(D, V)
      BY <3>2 DEF Surjection
    <3> QED
      BY <1>1, <1>2, <3>3, FS_Surjection
  <2> QED
    BY <1>3, <1>4, <1>7, <2>1
<1>9. PICK low \in Int : low = Min(V) /\ low \in V /\ \A y \in V : low <= y
  BY <1>8, MinOfInts
<1>10. PICK high \in Int : high = Max(V) /\ high \in V /\ \A y \in V : high >= y
  BY <1>8, MaxOfInts
<1>11. low < high
  BY <1>7, <1>9, <1>10 DEF Computable
<1>12. PICK v \in Int : v = chain[l].iv /\ v \in V /\ low <= v /\ v <= high
  BY <1>3, <1>5, <1>7, <1>9, <1>10
<1>13. f.rank = <<100 * (v - low), high - low>>
  BY <1>5, <1>7, <1>9, <1>10, <1>12 DEF FeaturesOf, RankOf
<1>14. f.rank[1] = 100 * (v - low) /\ f.rank[2] = high - low
  BY <1>13
<1>15. PICK below : below = {i \in D : chain[i].iv <= v}
  OBVIOUS
<1>16. f.percentile[1] = 100 * Cardinality(below) /\ f.percentile[2] = Len(chain)
  <2>1. f.percentile = <<100 * Cardinality(below), Len(chain)>>
    BY <1>2, <1>5, <1>12, <1>15 DEF FeaturesOf, PercentileOf
  <2> QED
    BY <2>1
<1>17. Cardinality(below) \in Nat /\ (Cardinality(below) = Len(chain) <=> v = high)
  <2>1. below \in SUBSET D
    BY <1>15
  <2>2. IsFiniteSet(below) /\ (Cardinality(D) = Cardinality(below) => D = below)
    BY <1>1, <1>2, <2>1, FS_Subset
  <2>3. v = high => below = D
    BY <1>7, <1>10, <1>15
  <2>4. ASSUME below = D
        PROVE  v = high
    <3>1. PICK i \in D : chain[i].iv = high
      BY <1>7, <1>10
    <3>2. high <= v
      BY <1>15, <2>4, <3>1
    <3> QED
      BY <1>12, <3>2
  <2> QED
    BY <1>1, <1>2, <2>2, <2>3, <2>4, FS_CardinalityType
<1>18. f.percentile[1] = 100 * f.percentile[2] <=> v = high
  <2>1. PICK n \in Nat : n = Cardinality(below)
    BY <1>17
  <2>2. PICK m \in Nat : m = Len(chain)
    BY <1>1
  <2> QED
    BY <1>16, <1>17, <2>1, <2>2
<1>19. f.regime = RegimeOf(f.rank)
  BY DEF FeaturesOf
<1>20. PICK spread \in Int : spread = high - low /\ spread > 0
  BY <1>11
<1>21. v = high => f.regime = "EXTREME"
  <2>1. ASSUME v = high
        PROVE  f.rank[1] = 100 * spread /\ f.rank[2] = spread
    BY <1>14, <1>20, <2>1
  <2> QED
    BY <1>19, <1>20, <2>1 DEF RegimeOf
<1>22. v = low => f.regime = "LOW"
  <2>1. ASSUME v = low
        PROVE  f.rank[1] = 0 /\ f.rank[2] = spread
    BY <1>14, <1>20, <2>1
  <2> QED
    BY <1>19, <1>20, <2>1 DEF RegimeOf
<1>23. PICK newest : newest = {i \in D : \A j \in D : chain[j].time <= chain[i].time}
  OBVIOUS
<1>24. l \in newest
  BY <1>6, <1>23
<1>25. f.rank[1] \in 0 .. 100 * f.rank[2] /\ (f.rank[1] = 100 * f.rank[2] <=> v = high)
  <2>1. PICK top \in Int : top = 100 * spread
    OBVIOUS
  <2>2. PICK x \in Int : x = 100 * (v - low)
    OBVIOUS
  <2>3. x \in 0 .. top /\ (x = top <=> v = high)
    BY <1>12, <1>20, <2>1, <2>2
  <2>4. f.rank[1] = x /\ 100 * f.rank[2] = top
    BY <1>14, <1>20, <2>1, <2>2
  <2> QED
    BY <2>3, <2>4
<1>26. (\A i \in newest : chain[i].iv = Max(Vols(chain))) => v = high
  BY <1>7, <1>10, <1>12, <1>24
<1>27. (\A i \in newest : chain[i].iv = Min(Vols(chain))) => v = low
  BY <1>7, <1>9, <1>12, <1>24
<1> QED
  BY <1>2, <1>18, <1>21, <1>22, <1>23, <1>25, <1>26, <1>27 DEF TellsTheNewest

(* The rank, the percentile and the regime are those of the newest quote,  *)
(* for chain rows in any number and any order.                             *)
THEOREM FeaturesFit == CalcSpec => []FeaturesTellTheNewest
<1>1. CalcInv => FeaturesTellTheNewest
  <2>1. \A c \in ChainSeries : c.rows \in Seq(ChainRow)
    BY ArgumentAssumption
  <2> QED
    BY <2>1, FeaturesSound DEF CalcInv, FeatureInv, FeaturesTellTheNewest
<1> QED
  BY <1>1, CalcInductive, PTL

-----------------------------------------------------------------------------
(* Quotients and means stay between their bounds. *)

(* A quotient is within the bounds whose products the dividend is within. *)
LEMMA DivBetween ==
  ASSUME NEW m \in Int, NEW d \in Int, d > 0, NEW low \in Int, NEW high \in Int,
         low * d <= m, m <= high * d
  PROVE  m \div d \in low .. high
<1>1. PICK r \in Int : r = m \div d /\ r * d <= m /\ m < r * d + d
  BY DivisionBounds
<1>2. PICK x \in Int : x = r * d
  BY <1>1
<1>3. ASSUME r < low
      PROVE  FALSE
  <2>1. PICK k \in Int : k = r + 1 /\ k <= low
    BY <1>1, <1>3
  <2>2. k * d <= low * d
    BY <2>1, ProductGrows
  <2>3. k * d = x + d
    BY <1>1, <1>2, <2>1
  <2>4. PICK y \in Int : y = low * d
    OBVIOUS
  <2> QED
    BY <1>1, <1>2, <2>2, <2>3, <2>4
<1>4. ASSUME high < r
      PROVE  FALSE
  <2>1. PICK k \in Int : k = high + 1 /\ k <= r
    BY <1>1, <1>4
  <2>2. k * d <= r * d
    BY <1>1, <2>1, ProductGrows
  <2>3. PICK y \in Int : y = high * d
    OBVIOUS
  <2>4. k * d = y + d
    BY <2>1, <2>3
  <2> QED
    BY <1>1, <1>2, <2>2, <2>3, <2>4
<1> QED
  BY <1>1, <1>3, <1>4

-----------------------------------------------------------------------------
(* The scores of the setups. *)

(* The scale of the indicators, and thousandths of it. *)
LEMMA UnitType ==
  /\ Unit \in Int /\ Unit > 0
  /\ \A n \in Int : Milli(n) \in Int
  /\ \A m, n \in Int : m <= n => Milli(m) <= Milli(n)
<1>1. PICK u \in Nat : u = Unit /\ u > 0
  BY IndicatorAssumption
<1>2. ASSUME NEW n \in Int
      PROVE  Milli(n) \in Int /\ Milli(n) * 1000 <= n * u /\ n * u < Milli(n) * 1000 + 1000
  <2>1. PICK x \in Int : x = n * u
    OBVIOUS
  <2> QED
    BY <1>1, <2>1, DivisionBounds DEF Milli
<1>3. ASSUME NEW m \in Int, NEW n \in Int, m <= n
      PROVE  Milli(m) <= Milli(n)
  <2>1. PICK x \in Int : x = m * u
    OBVIOUS
  <2>2. PICK y \in Int : y = n * u
    OBVIOUS
  <2>3. x <= y
    BY <1>1, <1>3, <2>1, <2>2, ProductGrows
  <2>4. PICK a \in Int : a = Milli(m) /\ a * 1000 <= x
    <3>1. Milli(m) \in Int /\ Milli(m) * 1000 <= m * u
      BY <1>2
    <3> QED
      BY <2>1, <3>1
  <2>5. PICK b \in Int : b = Milli(n) /\ y < b * 1000 + 1000
    <3>1. Milli(n) \in Int /\ n * u < Milli(n) * 1000 + 1000
      BY <1>2
    <3> QED
      BY <2>2, <3>1
  <2> QED
    BY <2>3, <2>4, <2>5
<1> QED
  BY <1>1, <1>2, <1>3

(* A ramp rises from nothing to the unit. *)
LEMMA RampBounds ==
  ASSUME NEW x \in Int, NEW low \in Int, NEW high \in Int
  PROVE  Ramp(x, low, high) \in 0 .. Unit /\ (x <= low => Ramp(x, low, high) = 0)
<1>1. PICK u \in Int : u = Unit /\ u > 0
  BY UnitType
<1>2. CASE high <= low \/ x <= low
  BY <1>1, <1>2 DEF Ramp
<1>3. CASE ~ (high <= low \/ x <= low) /\ x >= high
  BY <1>1, <1>3 DEF Ramp
<1>4. CASE ~ (high <= low \/ x <= low) /\ ~ (x >= high)
  <2>1. PICK d \in Int : d = high - low /\ d > 0
    BY <1>4
  <2>2. PICK y \in Int : y = x - low /\ y > 0 /\ y <= d
    BY <1>4, <2>1
  <2>3. PICK m \in Int : m = u * y /\ m = y * u
    OBVIOUS
  <2>4. 0 * u <= y * u /\ y * u <= d * u
    BY <1>1, <2>1, <2>2, ProductGrows
  <2>5. 0 * d <= m /\ m <= u * d
    BY <2>3, <2>4
  <2>6. m \div d \in 0 .. u
    BY <1>1, <2>1, <2>5, DivBetween
  <2>7. Ramp(x, low, high) = m \div d
    BY <1>1, <1>4, <2>1, <2>2, <2>3 DEF Ramp
  <2> QED
    BY <1>1, <1>4, <2>6, <2>7
<1> QED
  BY <1>2, <1>3, <1>4

(* The sum of the first elements of a sequence. *)
LEMMA SumFirst ==
  ASSUME NEW n \in Nat, NEW f, \A i \in 1 .. n + 1 : f[i] \in Int
  PROVE  /\ SumOver(1 .. n, f) \in Int
         /\ SumOver(1 .. n + 1, f) = SumOver(1 .. n, f) + f[n + 1]
<1>1. IsFiniteSet(1 .. n)
  <2>1. 1 \in Int /\ n \in Int
    OBVIOUS
  <2> QED
    BY ONLY <2>1, FS_Interval
<1>2. n + 1 \notin 1 .. n /\ (1 .. n) \cup {n + 1} = 1 .. n + 1
  OBVIOUS
<1>3. PICK y : y = n + 1
  OBVIOUS
<1>4. PICK S : S = 1 .. n
  OBVIOUS
<1>5. y \notin S /\ IsFiniteSet(S) /\ \A x \in S \cup {y} : f[x] \in Int
  BY <1>1, <1>2, <1>3, <1>4
<1>6. SumOver(S \cup {y}, f) = SumOver(S, f) + f[y]
  BY ONLY <1>5, SumAdd
<1>7. SumOver(S, f) \in Int
  <2>1. \A x \in S : f[x] \in Int
    BY <1>5
  <2> QED
    BY ONLY <1>5, <2>1, SumType
<1> QED
  BY <1>2, <1>3, <1>4, <1>6, <1>7

(* Short sums, term by term. *)
LEMMA ShortSums ==
  /\ \A a \in Int : SumOf(<<a>>) = a
  /\ \A a, b, c \in Int : SumOf(<<a, b, c>>) = a + b + c
  /\ \A a, b, c, d \in Int : SumOf(<<a, b, c, d>>) = a + b + c + d
<1>1. ASSUME NEW f, \A i \in 1 .. 1 : f[i] \in Int
      PROVE  SumOver(1 .. 1, f) = f[1]
  <2>1. 0 \in Nat /\ \A i \in 1 .. 0 + 1 : f[i] \in Int
    BY <1>1
  <2>2. SumOver(1 .. 0 + 1, f) = SumOver(1 .. 0, f) + f[0 + 1]
    BY ONLY <2>1, SumFirst
  <2>3. 1 .. 0 = {} /\ 0 + 1 = 1 /\ f[1] \in Int
    BY <1>1
  <2>4. SumOver(1 .. 0, f) = 0
    BY <2>3, SumEmpty
  <2> QED
    BY <2>2, <2>3, <2>4
<1>2. ASSUME NEW f, \A i \in 1 .. 2 : f[i] \in Int
      PROVE  SumOver(1 .. 2, f) = f[1] + f[2]
  <2>1. 1 \in Nat /\ \A i \in 1 .. 1 + 1 : f[i] \in Int
    BY <1>2
  <2>2. SumOver(1 .. 1 + 1, f) = SumOver(1 .. 1, f) + f[1 + 1]
    BY ONLY <2>1, SumFirst
  <2>3. SumOver(1 .. 1, f) = f[1]
    BY <1>1, <1>2
  <2>4. 1 + 1 = 2
    OBVIOUS
  <2> QED
    BY <2>2, <2>3, <2>4
<1>3. ASSUME NEW f, \A i \in 1 .. 3 : f[i] \in Int
      PROVE  SumOver(1 .. 3, f) = f[1] + f[2] + f[3]
  <2>1. 2 \in Nat /\ \A i \in 1 .. 2 + 1 : f[i] \in Int
    BY <1>3
  <2>2. SumOver(1 .. 2 + 1, f) = SumOver(1 .. 2, f) + f[2 + 1]
    BY ONLY <2>1, SumFirst
  <2>3. SumOver(1 .. 2, f) = f[1] + f[2]
    BY <1>2, <1>3
  <2>4. 2 + 1 = 3
    OBVIOUS
  <2> QED
    BY <2>2, <2>3, <2>4
<1>4. ASSUME NEW f, \A i \in 1 .. 4 : f[i] \in Int
      PROVE  SumOver(1 .. 4, f) = f[1] + f[2] + f[3] + f[4]
  <2>1. 3 \in Nat /\ \A i \in 1 .. 3 + 1 : f[i] \in Int
    BY <1>4
  <2>2. SumOver(1 .. 3 + 1, f) = SumOver(1 .. 3, f) + f[3 + 1]
    BY ONLY <2>1, SumFirst
  <2>3. SumOver(1 .. 3, f) = f[1] + f[2] + f[3]
    BY <1>3, <1>4
  <2>4. 3 + 1 = 4
    OBVIOUS
  <2> QED
    BY <2>2, <2>3, <2>4
<1>5. ASSUME NEW a \in Int
      PROVE  SumOf(<<a>>) = a
  <2>1. PICK f : f = <<a>>
    OBVIOUS
  <2>2. DOMAIN f = 1 .. 1 /\ f[1] = a /\ \A i \in 1 .. 1 : f[i] \in Int
    BY <2>1
  <2> QED
    BY <1>1, <2>1, <2>2 DEF SumOf
<1>6. ASSUME NEW a \in Int, NEW b \in Int, NEW c \in Int
      PROVE  SumOf(<<a, b, c>>) = a + b + c
  <2>1. PICK f : f = <<a, b, c>>
    OBVIOUS
  <2>2. DOMAIN f = 1 .. 3 /\ f[1] = a /\ f[2] = b /\ f[3] = c /\ \A i \in 1 .. 3 : f[i] \in Int
    BY <2>1
  <2> QED
    BY <1>3, <2>1, <2>2 DEF SumOf
<1>7. ASSUME NEW a \in Int, NEW b \in Int, NEW c \in Int, NEW d \in Int
      PROVE  SumOf(<<a, b, c, d>>) = a + b + c + d
  <2>1. PICK f : f = <<a, b, c, d>>
    OBVIOUS
  <2>2. /\ DOMAIN f = 1 .. 4 /\ f[1] = a /\ f[2] = b /\ f[3] = c /\ f[4] = d
        /\ \A i \in 1 .. 4 : f[i] \in Int
    BY <2>1
  <2> QED
    BY <1>4, <2>1, <2>2 DEF SumOf
<1> QED
  BY <1>5, <1>6, <1>7

(* What the scores ask of a set of indicators. *)
IsMeasured(ind) ==
  /\ ind.close \in Nat
  /\ ind.rsi \in Int /\ ind.adx \in Int /\ ind.fast \in Int /\ ind.slow \in Int
  /\ ind.width \in Int /\ ind.distance \in Int

(* The trend against the direction of a setup counts for nothing. *)
LEMMA TrendBounds ==
  ASSUME NEW ind, IsMeasured(ind), NEW sign \in {1, -1}
  PROVE  /\ Trend(ind, sign) \in 0 .. Unit
         /\ sign * (ind.fast - ind.slow) <= 0 => Trend(ind, sign) = 0
<1>1. PICK u \in Int : u = Unit /\ u > 0
  BY UnitType
<1>2. PICK slope \in Int : slope = sign * (ind.fast - ind.slow)
  BY DEF IsMeasured
<1>3. CASE ind.close = 0
  BY <1>1, <1>3 DEF Trend
<1>4. CASE ind.close # 0
  <2>1. PICK c \in Int : c = ind.close /\ c > 0
    BY <1>4 DEF IsMeasured
  <2>2. PICK n \in Int : n = u * slope
    OBVIOUS
  <2>3. Unit * sign * (ind.fast - ind.slow) = n
    BY <1>1, <1>2, <2>2 DEF IsMeasured
  <2>4. PICK x \in Int : x = n \div c /\ x * c <= n
    BY <2>1, DivisionBounds
  <2>5. Trend(ind, sign) = Ramp(x, 0, Milli(20))
    BY <1>4, <2>1, <2>3, <2>4 DEF Trend
  <2>6. ASSUME slope <= 0
        PROVE  x <= 0
    <3>1. SUFFICES ASSUME 1 <= x
                   PROVE  FALSE
      BY <2>4
    <3>2. 1 * c <= x * c
      BY <2>1, <2>4, <3>1, ProductGrows
    <3>3. slope * u <= 0 * u
      BY <1>1, <2>6, ProductGrows
    <3>4. PICK y \in Int : y = x * c
      BY <2>4
    <3> QED
      BY <1>1, <2>1, <2>2, <2>4, <3>2, <3>3, <3>4
  <2>7. PICK m \in Int : m = Milli(20)
    BY UnitType
  <2>8. Ramp(x, 0, m) \in 0 .. u /\ (x <= 0 => Ramp(x, 0, m) = 0)
    BY <1>1, RampBounds
  <2> QED
    BY <1>1, <1>2, <2>5, <2>6, <2>7, <2>8
<1> QED
  BY <1>3, <1>4

(* What the scores of the setups say of the indicators. *)
LEMMA ScoresConsistent ==
  ASSUME NEW ind, IsMeasured(ind), NEW s, s = Score(ind)
  PROVE  Consistent(ind, s)
<1>1. PICK u \in Int : u = Unit /\ u > 0
  BY UnitType
<1>2. PICK m15 \in Int : m15 = Milli(15)
  BY UnitType
<1>3. PICK m20 \in Int : m20 = Milli(20)
  BY UnitType
<1>4. PICK m300 \in Int : m300 = Milli(300)
  BY UnitType
<1>5. PICK m500 \in Int : m500 = Milli(500) /\ m300 <= m500
  BY <1>4, UnitType
<1>6. PICK m900 \in Int : m900 = Milli(900)
  BY UnitType
<1>7. PICK width \in Int : width = ind.width
  BY DEF IsMeasured
<1>8. PICK up \in 0 .. u : up = Trend(ind, 1) /\ (ind.fast <= ind.slow => up = 0)
  <2>1. 1 * (ind.fast - ind.slow) <= 0 <=> ind.fast <= ind.slow
    BY DEF IsMeasured
  <2>2. 1 \in {1, -1}
    OBVIOUS
  <2>3. /\ Trend(ind, 1) \in 0 .. Unit
        /\ 1 * (ind.fast - ind.slow) <= 0 => Trend(ind, 1) = 0
    BY ONLY IsMeasured(ind), <2>2, TrendBounds
  <2> QED
    BY <1>1, <2>1, <2>3
<1>9. PICK down \in 0 .. u : down = Trend(ind, -1) /\ (ind.slow <= ind.fast => down = 0)
  <2>1. (-1) * (ind.fast - ind.slow) <= 0 <=> ind.slow <= ind.fast
    BY DEF IsMeasured
  <2>2. -1 \in {1, -1}
    OBVIOUS
  <2>3. /\ Trend(ind, -1) \in 0 .. Unit
        /\ (-1) * (ind.fast - ind.slow) <= 0 => Trend(ind, -1) = 0
    BY ONLY IsMeasured(ind), <2>2, TrendBounds
  <2> QED
    BY <1>1, <2>1, <2>3
<1>10. PICK b2 \in 0 .. u : b2 = Ramp(55 * Unit - ind.rsi, 0, 15 * Unit)
  <2>1. PICK x \in Int : x = 55 * Unit - ind.rsi
    BY <1>1 DEF IsMeasured
  <2>2. PICK y \in Int : y = 15 * Unit
    BY <1>1
  <2>3. Ramp(x, 0, y) \in 0 .. u
    BY <1>1, RampBounds
  <2> QED
    BY <2>1, <2>2, <2>3
<1>11. PICK b3 \in 0 .. u : b3 = Ramp(ind.adx, 20 * Unit, 30 * Unit)
  <2>1. PICK x \in Int : x = ind.adx
    BY DEF IsMeasured
  <2>2. PICK y \in Int : y = 20 * Unit
    BY <1>1
  <2>3. PICK z \in Int : z = 30 * Unit
    BY <1>1
  <2>4. Ramp(x, y, z) \in 0 .. u
    BY <1>1, RampBounds
  <2> QED
    BY <2>1, <2>2, <2>3, <2>4
<1>12. PICK b4 \in 0 .. u : b4 = Ramp(Milli(20) - Abs(ind.distance), 0, Milli(15))
  <2>1. PICK x \in Int : x = Milli(20) - Abs(ind.distance)
    BY <1>3 DEF IsMeasured, Abs
  <2>2. Ramp(x, 0, m15) \in 0 .. u
    BY <1>1, RampBounds
  <2> QED
    BY <1>2, <2>1, <2>2
<1>13. PICK d2 \in 0 .. u : d2 = Ramp(ind.rsi - 45 * Unit, 0, 15 * Unit)
  <2>1. PICK x \in Int : x = ind.rsi - 45 * Unit
    BY <1>1 DEF IsMeasured
  <2>2. PICK y \in Int : y = 15 * Unit
    BY <1>1
  <2>3. Ramp(x, 0, y) \in 0 .. u
    BY <1>1, RampBounds
  <2> QED
    BY <2>1, <2>2, <2>3
<1>14. PICK d3 \in 0 .. u : d3 = Ramp(ind.width, Milli(500), Milli(900)) /\ (width <= m500 => d3 = 0)
  <2>1. Ramp(width, m500, m900) \in 0 .. u /\ (width <= m500 => Ramp(width, m500, m900) = 0)
    BY <1>1, RampBounds
  <2> QED
    BY <1>5, <1>6, <1>7, <2>1
<1>15. PICK c1 \in 0 .. u : c1 = Ramp(Milli(300) - ind.width, 0, Milli(300)) /\ (m300 <= width => c1 = 0)
  <2>1. PICK x \in Int : x = m300 - width /\ (m300 <= width <=> x <= 0)
    OBVIOUS
  <2>2. Ramp(x, 0, m300) \in 0 .. u /\ (x <= 0 => Ramp(x, 0, m300) = 0)
    BY <1>1, RampBounds
  <2> QED
    BY <1>4, <1>7, <2>1, <2>2
<1>16. SumOf(BullParts(ind)) = up + b2 + b3 + b4
  <2>1. BullParts(ind) = <<up, b2, b3, b4>>
    BY <1>8, <1>10, <1>11, <1>12 DEF BullParts
  <2>2. SumOf(<<up, b2, b3, b4>>) = up + b2 + b3 + b4
    <3>1. up \in Int /\ b2 \in Int /\ b3 \in Int /\ b4 \in Int
      OBVIOUS
    <3> QED
      BY ONLY <3>1, ShortSums
  <2> QED
    BY <2>1, <2>2
<1>17. SumOf(BearParts(ind)) = down + d2 + d3
  <2>1. BearParts(ind) = <<down, d2, d3>>
    BY <1>9, <1>13, <1>14 DEF BearParts
  <2>2. SumOf(<<down, d2, d3>>) = down + d2 + d3
    <3>1. down \in Int /\ d2 \in Int /\ d3 \in Int
      OBVIOUS
    <3> QED
      BY ONLY <3>1, ShortSums
  <2> QED
    BY <2>1, <2>2
<1>18. SumOf(ContractionParts(ind)) = c1
  <2>1. ContractionParts(ind) = <<c1>>
    BY <1>15 DEF ContractionParts
  <2>2. SumOf(<<c1>>) = c1
    <3>1. c1 \in Int
      OBVIOUS
    <3> QED
      BY ONLY <3>1, ShortSums
  <2> QED
    BY <2>1, <2>2
<1>19. PICK first \in Int : /\ first = (100 * (up + b2 + b3 + b4)) \div 4
                            /\ first * 4 <= 100 * (up + b2 + b3 + b4)
                            /\ 100 * (up + b2 + b3 + b4) < first * 4 + 4
  <2>1. PICK n \in Int : n = 100 * (up + b2 + b3 + b4)
    OBVIOUS
  <2> QED
    BY <2>1, DivisionBounds
<1>20. PICK second \in Int : /\ second = (100 * (down + d2 + d3)) \div 3
                             /\ second * 3 <= 100 * (down + d2 + d3)
                             /\ 100 * (down + d2 + d3) < second * 3 + 3
  <2>1. PICK n \in Int : n = 100 * (down + d2 + d3)
    OBVIOUS
  <2> QED
    BY <2>1, DivisionBounds
<1>21. PICK scores : scores = <<first, second, 100 * c1>> /\ scores = Scores(ind)
  BY <1>16, <1>17, <1>18, <1>19, <1>20 DEF Scores
<1>22. scores[1] = first /\ scores[2] = second /\ scores[3] = 100 * c1
  BY <1>21
<1>23. /\ s.scores = scores
       /\ s.score = scores[BestOf(scores)]
       /\ s.setup # "none" => scores[BestOf(scores)] >= MinScore * Unit
  BY <1>21 DEF Score
<1>24. first \in 0 .. 100 * u /\ second \in 0 .. 100 * u /\ 100 * c1 \in 0 .. 100 * u
  BY <1>1, <1>19, <1>20
<1>25. first > 75 * u => ind.fast > ind.slow
  <2>1. up = 0 => first <= 75 * u
    BY <1>19
  <2> QED
    BY <1>8, <2>1 DEF IsMeasured
<1>26. 3 * second > 200 * u => ind.fast < ind.slow /\ width > m500
  <2>1. down = 0 \/ d3 = 0 => 3 * second <= 200 * u
    BY <1>20
  <2> QED
    BY <1>9, <1>14, <2>1 DEF IsMeasured
<1>27. 100 * c1 > 0 => 3 * second <= 200 * u
  BY <1>5, <1>15, <1>26
<1>28. \A i \in 1 .. 3 : scores[i] \in 0 .. 100 * u
  BY <1>22, <1>24
<1> QED
  BY <1>1, <1>5, <1>7, <1>22, <1>23, <1>25, <1>26, <1>27, <1>28 DEF Consistent

-----------------------------------------------------------------------------
(* The indicators. *)

(* The bounds of a sequence. *)
LEMMA SeqExtremes ==
  ASSUME NEW s \in Seq(Int), Len(s) > 0
  PROVE  /\ Min(Range(s)) \in Int /\ Max(Range(s)) \in Int
         /\ \A i \in DOMAIN s : Min(Range(s)) <= s[i] /\ s[i] <= Max(Range(s))
<1>1. /\ Len(s) \in Nat /\ DOMAIN s = 1 .. Len(s) /\ IsFiniteSet(DOMAIN s)
      /\ \A i \in DOMAIN s : s[i] \in Int
  BY Indices
<1>2. PICK R : R = Range(s) /\ R = {s[i] : i \in DOMAIN s}
  BY DEF Range
<1>3. R \in SUBSET Int /\ R # {}
  BY <1>1, <1>2
<1>4. IsFiniteSet(R)
  <2>1. PICK m : m = [i \in DOMAIN s |-> s[i]]
    OBVIOUS
  <2>2. m \in [DOMAIN s -> R] /\ \A y \in R : \E i \in DOMAIN s : m[i] = y
    BY <1>2, <2>1
  <2>3. m \in Surjection(DOMAIN s, R)
    BY <2>2 DEF Surjection
  <2> QED
    BY <1>1, <2>3, FS_Surjection
<1>5. Min(R) \in R /\ \A y \in R : Min(R) <= y
  BY ONLY <1>3, <1>4, MinOfInts
<1>6. Max(R) \in R /\ \A y \in R : Max(R) >= y
  BY ONLY <1>3, <1>4, MaxOfInts
<1>7. ASSUME NEW i \in DOMAIN s
      PROVE  Min(R) <= s[i] /\ s[i] <= Max(R)
  <2>1. s[i] \in R /\ Max(R) \in Int /\ s[i] \in Int
    BY <1>2, <1>3, <1>6
  <2> QED
    BY <1>5, <1>6, <2>1
<1> QED
  BY <1>2, <1>3, <1>5, <1>6, <1>7

(* A mean is between the bounds of what it is of. *)
LEMMA MeanBetween ==
  ASSUME NEW s \in Seq(Int), Len(s) > 0, NEW low \in Int, NEW high \in Int,
         \A i \in DOMAIN s : s[i] \in low .. high
  PROVE  Mean(s) \in low .. high
<1>1. /\ Len(s) \in Nat /\ IsFiniteSet(DOMAIN s) /\ Cardinality(DOMAIN s) = Len(s)
      /\ \A i \in DOMAIN s : s[i] \in Int
  BY Indices
<1>2. PICK n \in Nat : n = Len(s) /\ n > 0
  BY <1>1
<1>3. SumOver(DOMAIN s, s) \in Int
  BY <1>1, SumType
<1>4. /\ low * Cardinality(DOMAIN s) <= SumOver(DOMAIN s, s)
      /\ SumOver(DOMAIN s, s) <= high * Cardinality(DOMAIN s)
  <2>1. PICK D : D = DOMAIN s
    OBVIOUS
  <2>2. IsFiniteSet(D) /\ \A i \in D : s[i] \in low .. high
    BY <1>1, <2>1
  <2>3. low * Cardinality(D) <= SumOver(D, s) /\ SumOver(D, s) <= high * Cardinality(D)
    BY ONLY low \in Int, high \in Int, <2>2, SumBounds
  <2> QED
    BY <2>1, <2>3
<1>5. PICK m \in Int : m = SumOf(s) /\ low * n <= m /\ m <= high * n
  BY <1>1, <1>2, <1>3, <1>4 DEF SumOf
<1>6. m \div n \in low .. high
  <2>1. n \in Int /\ n > 0 /\ low * n <= m /\ m <= high * n
    BY <1>2, <1>5
  <2> QED
    BY ONLY <2>1, m \in Int, low \in Int, high \in Int, DivBetween
<1> QED
  BY <1>2, <1>5, <1>6 DEF Mean

(* The two parts of a sequence. *)
LEMMA PartsOf ==
  ASSUME NEW E, NEW s \in Seq(E), NEW n \in Nat, n > 0, n <= Len(s)
  PROVE  /\ First(s, n) \in Seq(E) /\ Len(First(s, n)) = n
         /\ \A i \in DOMAIN First(s, n) : First(s, n)[i] \in E
         /\ After(s, n) \in Seq(E) /\ Len(After(s, n)) = Len(s) - n
<1>1. PICK l \in Nat : l = Len(s) /\ \A i \in 1 .. l : s[i] \in E
  BY Indices
<1>2. First(s, n) \in Seq(E) /\ Len(First(s, n)) = n
  <2>1. 1 \in Int /\ n \in Int /\ \A i \in 1 .. n : s[i] \in E
    BY <1>1
  <2>2. /\ SubSeq(s, 1, n) \in Seq(E)
        /\ Len(SubSeq(s, 1, n)) = IF 1 <= n THEN n - 1 + 1 ELSE 0
    BY ONLY <2>1, SubSeqProperties
  <2> QED
    BY <2>2 DEF First
<1>3. After(s, n) \in Seq(E) /\ Len(After(s, n)) = l - n
  <2>1. PICK k \in Int : k = n + 1
    OBVIOUS
  <2>2. l \in Int /\ \A i \in k .. l : s[i] \in E
    BY <1>1, <2>1
  <2>3. /\ SubSeq(s, k, l) \in Seq(E)
        /\ Len(SubSeq(s, k, l)) = IF k <= l THEN l - k + 1 ELSE 0
    BY ONLY k \in Int, <2>2, SubSeqProperties
  <2> QED
    BY <1>1, <2>1, <2>3 DEF After
<1>4. \A i \in DOMAIN First(s, n) : First(s, n)[i] \in E
  BY <1>2, Indices
<1> QED
  BY <1>1, <1>2, <1>3, <1>4

(* A weighted mean of two is between the bounds of both. *)
LEMMA WeightedBetween ==
  ASSUME NEW low \in Int, NEW high \in Int, NEW a \in low .. high, NEW x \in low .. high,
         NEW k \in Nat, NEW w \in Nat, k + w > 0
  PROVE  (a * k + x * w) \div (k + w) \in low .. high
<1>1. a \in Int /\ x \in Int /\ low <= a /\ a <= high /\ low <= x /\ x <= high
  OBVIOUS
<1>2. PICK p \in Int : p = a * k
  BY <1>1
<1>3. PICK q \in Int : q = x * w
  BY <1>1
<1>4. PICK lk \in Int : lk = low * k /\ lk <= p
  BY <1>1, <1>2, ProductGrows
<1>5. PICK lw \in Int : lw = low * w /\ lw <= q
  BY <1>1, <1>3, ProductGrows
<1>6. PICK hk \in Int : hk = high * k /\ p <= hk
  BY <1>1, <1>2, ProductGrows
<1>7. PICK hw \in Int : hw = high * w /\ q <= hw
  BY <1>1, <1>3, ProductGrows
<1>8. PICK d \in Int : d = k + w /\ d > 0
  OBVIOUS
<1>9. low * d = lk + lw /\ high * d = hk + hw
  BY <1>4, <1>5, <1>6, <1>7, <1>8
<1>10. PICK m \in Int : m = p + q
  OBVIOUS
<1>11. low * d <= m /\ m <= high * d
  BY ONLY <1>4, <1>5, <1>6, <1>7, <1>9, <1>10, p \in Int, q \in Int, m \in Int,
          lk \in Int, lw \in Int, hk \in Int, hw \in Int
<1>12. m \div d \in low .. high
  BY ONLY <1>8, <1>11, m \in Int, d \in Int, low \in Int, high \in Int, DivBetween
<1> QED
  BY <1>2, <1>3, <1>8, <1>10, <1>12

(* The two moving means are between the bounds of what they are of. *)
LEMMA MovingBetween ==
  ASSUME NEW s \in Seq(Int), NEW n \in Nat, n > 0, n <= Len(s),
         NEW low \in Int, NEW high \in Int, \A i \in DOMAIN s : s[i] \in low .. high
  PROVE  Wilder(s, n) \in low .. high /\ Ema(s, n) \in low .. high
<1>1. PICK A : A = low .. high
  OBVIOUS
<1>2. s \in Seq(A)
  <2>1. Len(s) \in Nat /\ DOMAIN s = 1 .. Len(s) /\ s \in [1 .. Len(s) -> Int]
    BY LenProperties
  <2>2. s \in [1 .. Len(s) -> A]
    BY <1>1, <2>1
  <2> QED
    BY <2>1, <2>2
<1>3. PICK first \in Seq(A) : first = First(s, n) /\ Len(first) = n
  BY <1>2, PartsOf
<1>4. PICK after \in Seq(A) : after = After(s, n)
  BY <1>2, PartsOf
<1>5. Mean(first) \in A
  <2>1. first \in Seq(Int) /\ \A i \in DOMAIN first : first[i] \in low .. high
    <3>1. Len(first) \in Nat /\ DOMAIN first = 1 .. Len(first) /\ first \in [1 .. Len(first) -> A]
      BY LenProperties
    <3>2. first \in [1 .. Len(first) -> Int]
      BY <1>1, <3>1
    <3> QED
      BY <1>1, <3>1, <3>2
  <2>2. Len(first) > 0
    BY <1>3
  <2> QED
    BY ONLY <1>1, <2>1, <2>2, low \in Int, high \in Int, MeanBetween
<1>6. Steps(Moved(n), A, A)
  <2>1. ASSUME NEW a \in A, NEW x \in A
        PROVE  Moved(n)[<<a, x>>] \in A
    <3>1. a \in low .. high /\ x \in low .. high /\ a \in Int /\ x \in Int
      BY <1>1
    <3>2. PICK k \in Nat : k = n - 1
      OBVIOUS
    <3>3. 1 \in Nat /\ k + 1 > 0
      OBVIOUS
    <3>4. (a * k + x * 1) \div (k + 1) \in low .. high
      BY ONLY <3>1, <3>3, k \in Nat, low \in Int, high \in Int, WeightedBetween
    <3>5. Moved(n)[<<a, x>>] = (a * (n - 1) + x) \div n
      BY <3>1 DEF Moved
    <3>6. k + 1 = n /\ x * 1 = x
      BY <3>1, <3>2
    <3> QED
      BY <1>1, <3>2, <3>4, <3>5, <3>6
  <2> QED
    BY <2>1 DEF Steps
<1>7. Steps(Smoothed(n), A, A)
  <2>1. ASSUME NEW a \in A, NEW x \in A
        PROVE  Smoothed(n)[<<a, x>>] \in A
    <3>1. a \in low .. high /\ x \in low .. high /\ a \in Int /\ x \in Int
      BY <1>1
    <3>2. PICK k \in Nat : k = n - 1
      OBVIOUS
    <3>3. 2 \in Nat /\ k + 2 > 0
      OBVIOUS
    <3>4. (a * k + x * 2) \div (k + 2) \in low .. high
      BY ONLY <3>1, <3>3, k \in Nat, low \in Int, high \in Int, WeightedBetween
    <3>5. Smoothed(n)[<<a, x>>] = (2 * x + (n - 1) * a) \div (n + 1)
      BY <3>1 DEF Smoothed
    <3>6. k + 2 = n + 1 /\ 2 * x + (n - 1) * a = a * k + x * 2
      BY <3>1, <3>2
    <3> QED
      BY <1>1, <3>4, <3>5, <3>6
  <2> QED
    BY <2>1 DEF Steps
<1>8. Folded(Moved(n), Mean(first), after) \in A
  BY ONLY <1>5, <1>6, after \in Seq(A), FoldedType
<1>9. Folded(Smoothed(n), Mean(first), after) \in A
  BY ONLY <1>5, <1>7, after \in Seq(A), FoldedType
<1> QED
  BY <1>1, <1>3, <1>4, <1>8, <1>9 DEF Wilder, Ema

(* Of what is never negative, the mean is not. *)
LEMMA WilderNat ==
  ASSUME NEW s \in Seq(Nat), NEW n \in Nat, n > 0, n <= Len(s)
  PROVE  Wilder(s, n) \in Nat
<1>1. Len(s) \in Nat /\ DOMAIN s = 1 .. Len(s) /\ s \in [1 .. Len(s) -> Nat]
  BY LenProperties
<1>2. s \in [1 .. Len(s) -> Int]
  BY <1>1
<1>3. s \in Seq(Int) /\ Len(s) > 0
  BY <1>1, <1>2
<1>4. PICK high \in Int : \A i \in DOMAIN s : s[i] <= high
  BY ONLY <1>3, SeqExtremes
<1>5. \A i \in DOMAIN s : s[i] \in 0 .. high
  BY <1>1, <1>4
<1>6. 0 \in Int
  OBVIOUS
<1>7. Wilder(s, n) \in 0 .. high
  BY ONLY <1>3, <1>5, <1>6, high \in Int, n \in Nat, n > 0, n <= Len(s), MovingBetween
<1> QED
  BY <1>7

(* Wilder's sums are never negative: each loses at most itself. *)
LEMMA SmoothSums ==
  ASSUME NEW s \in Seq(Nat), NEW n \in Nat, n > 0, n <= Len(s)
  PROVE  /\ Smooth(s, n) \in Seq(Nat)
         /\ Len(Smooth(s, n)) = Len(s) - n + 1
         /\ \A i \in DOMAIN Smooth(s, n) : Smooth(s, n)[i] \in Nat
<1>1. PICK first \in Seq(Nat) : first = First(s, n)
  BY PartsOf
<1>2. PICK after \in Seq(Nat) : after = After(s, n) /\ Len(after) = Len(s) - n
  BY PartsOf
<1>3. PICK total \in Nat : total = SumOf(first)
  <2>1. PICK D : D = DOMAIN first
    OBVIOUS
  <2>2. IsFiniteSet(D) /\ \A i \in D : first[i] \in Nat
    BY <2>1, Indices
  <2>3. SumOver(D, first) \in Int
    <3>1. \A i \in D : first[i] \in Int
      BY <2>2
    <3> QED
      BY ONLY <2>2, <3>1, SumType
  <2>4. SumOver(D, first) >= 0
    <3>1. PICK zero : zero = [i \in D |-> 0]
      OBVIOUS
    <3>2. \A i \in D : zero[i] \in Int /\ first[i] \in Int /\ zero[i] <= first[i]
      BY <2>2, <3>1
    <3>3. SumOver(D, zero) <= SumOver(D, first)
      BY ONLY <2>2, <3>2, SumMonotonic
    <3>4. SumOver(D, zero) = 0
      <4>1. PICK c \in Int : c = 0
        OBVIOUS
      <4>2. \A i \in D : zero[i] \in Int /\ zero[i] = c * zero[i]
        BY <3>1, <4>1
      <4>3. SumOver(D, zero) = c * SumOver(D, zero)
        BY ONLY <2>2, <4>2, c \in Int, SumScale
      <4>4. PICK t \in Int : t = SumOver(D, zero)
        <5>1. \A i \in D : zero[i] \in Int
          BY <4>2
        <5> QED
          BY ONLY <2>2, <5>1, SumType
      <4> QED
        BY <4>1, <4>3, <4>4
    <3> QED
      BY <2>3, <3>3, <3>4
  <2> QED
    BY <2>1, <2>3, <2>4 DEF SumOf
<1>4. PICK A : A = {q \in Seq(Nat) : Len(q) > 0}
  OBVIOUS
<1>5. <<total>> \in A
  BY <1>4
<1>6. ASSUME NEW q \in A, NEW x \in Nat
      PROVE  Decayed(n)[<<q, x>>] \in A /\ Len(Decayed(n)[<<q, x>>]) = Len(q) + 1
  <2>1. q \in Seq(Nat) /\ Len(q) \in Nat /\ Len(q) > 0
    BY <1>4
  <2>2. PICK last \in Nat : last = q[Len(q)]
    <3>1. Len(q) \in DOMAIN q /\ \A i \in DOMAIN q : q[i] \in Nat
      BY <2>1, Indices
    <3> QED
      BY <3>1
  <2>3. PICK lost \in Int : lost = last \div n /\ lost <= last
    <3>1. PICK lost \in Int : lost = last \div n /\ lost * n <= last
      BY DivisionBounds
    <3>2. ASSUME lost > last
          PROVE  FALSE
      <4>1. 1 \in Int /\ n \in Int /\ lost \in Nat /\ 1 <= n
        BY <3>2
      <4>2. 1 * lost <= n * lost
        BY ONLY <4>1, ProductGrows
      <4>3. PICK y \in Int : y = lost * n /\ y = n * lost
        OBVIOUS
      <4>4. lost <= y /\ y <= last
        BY <3>1, <4>2, <4>3
      <4> QED
        BY <3>2, <4>4
    <3> QED
      BY <3>1, <3>2
  <2>4. PICK y \in Nat : y = last - lost + x
    BY <2>3
  <2>5. Decayed(n)[<<q, x>>] = Append(q, y)
    <3>1. <<q, x>> \in Seq(Nat) \X Nat
      BY <2>1
    <3>2. Decayed(n)[<<q, x>>] = Append(q, q[Len(q)] - q[Len(q)] \div n + x)
      BY <3>1 DEF Decayed
    <3> QED
      BY <2>2, <2>3, <2>4, <3>2
  <2>6. Append(q, y) \in Seq(Nat) /\ Len(Append(q, y)) = Len(q) + 1
    BY <2>1, AppendProperties
  <2> QED
    BY <1>4, <2>1, <2>5, <2>6
<1>7. Steps(Decayed(n), A, Nat)
  BY <1>6 DEF Steps
<1>8. PICK g : Results(g, A, Decayed(n), <<total>>, after)
               /\ Folded(Decayed(n), <<total>>, after) = g[Len(after)]
  BY ONLY <1>5, <1>7, after \in Seq(Nat), FoldedExists
<1>9. Smooth(s, n) = g[Len(after)]
  BY <1>1, <1>2, <1>3, <1>8 DEF Smooth
<1>10. PICK l \in Nat : l = Len(after) /\ \A i \in 1 .. l : after[i] \in Nat
  BY Indices
<1>11. PICK G : G = {k \in 0 .. l : Len(g[k]) = k + 1}
  OBVIOUS
<1>12. 0 \in G
  <2>1. g[0] = <<total>>
    BY <1>8 DEF Results
  <2>2. Len(<<total>>) = 0 + 1
    OBVIOUS
  <2>3. 0 \in 0 .. l /\ Len(g[0]) = 0 + 1
    BY <2>1, <2>2
  <2> QED
    BY ONLY <1>11, <2>3
<1>13. ASSUME NEW k \in 0 .. l - 1, k \in G
       PROVE  k + 1 \in G
  <2>1. k \in 0 .. Len(after) /\ k + 1 \in 1 .. Len(after) /\ (k + 1) - 1 = k
    BY <1>10
  <2>2. g[k] \in A /\ g[k + 1] = Decayed(n)[<<g[k], after[k + 1]>>]
    BY <1>8, <2>1 DEF Results
  <2>3. after[k + 1] \in Nat
    BY <1>10, <2>1
  <2>4. Len(g[k + 1]) = Len(g[k]) + 1
    BY <1>6, <2>2, <2>3
  <2>5. Len(g[k]) = k + 1
    BY <1>11, <1>13
  <2> QED
    BY <1>10, <1>11, <2>1, <2>4, <2>5
<1>14. \A k \in 0 .. l : k \in G
  <2>1. \A k \in 0 .. l - 1 : k \in G => k + 1 \in G
    BY <1>13
  <2> QED
    BY ONLY <1>12, <2>1, l \in Nat, BoundedInduction
<1>15. Len(g[l]) = l + 1 /\ g[l] \in A
  BY <1>8, <1>10, <1>11, <1>14 DEF Results
<1>16. Smooth(s, n) \in Seq(Nat) /\ Len(Smooth(s, n)) = Len(s) - n + 1
  BY <1>2, <1>4, <1>9, <1>10, <1>15
<1> QED
  BY <1>16, Indices

(* The absolute value. *)
LEMMA AbsValue ==
  ASSUME NEW x \in Int
  PROVE  Abs(x) \in Nat /\ (Abs(x) = x \/ Abs(x) = - x)
BY DEF Abs

(* The directional index is a percentage. *)
LEMMA DxBounds ==
  ASSUME NEW p \in Nat, NEW m \in Nat, NEW r
  PROVE  Dx(p, m, r) \in 0 .. 100 * Unit
<1>1. PICK u \in Int : u = 100 * Unit /\ u > 0
  BY UnitType
<1>2. CASE r = 0 \/ p + m = 0
  BY <1>1, <1>2 DEF Dx
<1>3. CASE ~ (r = 0 \/ p + m = 0)
  <2>1. PICK d \in Int : d = p + m /\ d > 0
    BY <1>3
  <2>2. PICK a \in Int : a = Abs(p - m) /\ 0 <= a /\ a <= d
    <3>1. PICK x \in Int : x = p - m
      OBVIOUS
    <3> QED
      BY <2>1, <3>1, AbsValue
  <2>3. PICK x \in Int : x = u * a /\ x = a * u
    OBVIOUS
  <2>4. 0 * u <= a * u /\ a * u <= d * u
    BY <1>1, <2>1, <2>2, ProductGrows
  <2>5. 0 * d <= x /\ x <= u * d /\ 0 \in Int
    BY <2>3, <2>4
  <2>6. x \div d \in 0 .. u
    BY ONLY <2>1, <2>5, x \in Int, d \in Int, u \in Int, DivBetween
  <2>7. Dx(p, m, r) = x \div d
    BY <1>1, <1>3, <2>1, <2>2, <2>3 DEF Dx
  <2> QED
    BY <1>1, <2>6, <2>7
<1> QED
  BY <1>2, <1>3

(* Bars, their neighbours and their lengths. *)
LEMMA BarsTyped ==
  ASSUME NEW bars \in Seq(Bar)
  PROVE  /\ Len(bars) \in Nat /\ DOMAIN bars = 1 .. Len(bars) /\ IsFiniteSet(DOMAIN bars)
         /\ \A i \in DOMAIN bars :
              /\ bars[i].low \in Nat /\ bars[i].close \in Nat
              /\ bars[i].high \in Nat /\ bars[i].volume \in Nat
              /\ bars[i].low <= bars[i].close /\ bars[i].close <= bars[i].high
<1>1. /\ Len(bars) \in Nat /\ DOMAIN bars = 1 .. Len(bars) /\ IsFiniteSet(DOMAIN bars)
      /\ \A i \in DOMAIN bars : bars[i] \in Bar
  BY Indices
<1> QED
  BY <1>1 DEF Bar

(* A function on 1 .. k is a sequence. *)
LEMMA TupleIsSeq ==
  ASSUME NEW k \in Nat, NEW E, NEW f \in [1 .. k -> E]
  PROVE  f \in Seq(E) /\ Len(f) = k /\ DOMAIN f = 1 .. k
OBVIOUS

(* The movements from bar to bar and the true ranges are never negative. *)
LEMMA MovesTyped ==
  ASSUME NEW bars \in Seq(Bar), NEW k \in Nat, Len(bars) = k + 1
  PROVE  /\ Pairwise(bars, PlusMove) \in Seq(Nat) /\ Len(Pairwise(bars, PlusMove)) = k
         /\ Pairwise(bars, MinusMove) \in Seq(Nat) /\ Len(Pairwise(bars, MinusMove)) = k
         /\ TrueRanges(bars) \in Seq(Nat) /\ Len(TrueRanges(bars)) = k
         /\ TrueRanges(bars) \in Seq(Int)
<1>1. PICK u \in Nat : u = Unit
  BY UnitType
<1>2. ASSUME NEW i \in 1 .. k
      PROVE  /\ PlusMove(bars[i], bars[i + 1]) \in Nat
             /\ MinusMove(bars[i], bars[i + 1]) \in Nat
             /\ TrueRange(bars[i], bars[i + 1]) \in Nat
  <2>1. i \in DOMAIN bars /\ i + 1 \in DOMAIN bars
    BY BarsTyped
  <2>2. PICK low \in Nat : low = bars[i].low
    BY <2>1, BarsTyped
  <2>3. PICK high \in Nat : high = bars[i].high
    BY <2>1, BarsTyped
  <2>4. PICK lower \in Nat : lower = bars[i + 1].low
    BY <2>1, BarsTyped
  <2>5. PICK higher \in Nat : higher = bars[i + 1].high /\ lower <= higher
    <3>1. /\ bars[i + 1].high \in Nat /\ bars[i + 1].close \in Nat
          /\ bars[i + 1].low <= bars[i + 1].close /\ bars[i + 1].close <= bars[i + 1].high
      BY <2>1, BarsTyped
    <3> QED
      BY <2>4, <3>1
  <2>6. PICK close \in Nat : close = bars[i].close
    BY <2>1, BarsTyped
  <2>7. PlusMove(bars[i], bars[i + 1]) \in Nat
    <3>1. PICK up \in Int : up = higher - high
      OBVIOUS
    <3>2. PICK down \in Int : down = low - lower
      OBVIOUS
    <3>3. up > 0 => u * up \in Nat
      BY <3>1
    <3>4. PlusMove(bars[i], bars[i + 1]) = IF up > down /\ up > 0 THEN u * up ELSE 0
      BY <1>1, <2>2, <2>3, <2>4, <2>5, <3>1, <3>2 DEF PlusMove
    <3> QED
      BY <3>3, <3>4
  <2>8. MinusMove(bars[i], bars[i + 1]) \in Nat
    <3>1. PICK up \in Int : up = higher - high
      OBVIOUS
    <3>2. PICK down \in Int : down = low - lower
      OBVIOUS
    <3>3. down > 0 => u * down \in Nat
      BY <3>2
    <3>4. MinusMove(bars[i], bars[i + 1]) = IF down > up /\ down > 0 THEN u * down ELSE 0
      BY <1>1, <2>2, <2>3, <2>4, <2>5, <3>1, <3>2 DEF MinusMove
    <3> QED
      BY <3>3, <3>4
  <2>9. TrueRange(bars[i], bars[i + 1]) \in Nat
    <3>1. PICK a \in Nat : a = higher - lower
      BY <2>5
    <3>2. PICK b \in Nat : b = Abs(higher - close)
      <4>1. PICK x \in Int : x = higher - close
        OBVIOUS
      <4> QED
        BY <4>1, AbsValue
    <3>3. PICK c \in Nat : c = Abs(lower - close)
      <4>1. PICK x \in Int : x = lower - close
        OBVIOUS
      <4> QED
        BY <4>1, AbsValue
    <3>4. PICK S : S = {a, b, c}
      OBVIOUS
    <3>5. S \in SUBSET Int /\ S # {}
      BY <3>4
    <3>6. IsFiniteSet(S)
      <4>1. IsFiniteSet({a})
        BY FS_Singleton
      <4>2. IsFiniteSet({a} \cup {b})
        BY <4>1, FS_AddElement
      <4>3. IsFiniteSet(({a} \cup {b}) \cup {c})
        BY <4>2, FS_AddElement
      <4>4. S = ({a} \cup {b}) \cup {c}
        BY <3>4
      <4> QED
        BY <4>3, <4>4
    <3>7. Max(S) \in S
      BY ONLY <3>5, <3>6, MaxOfInts
    <3>8. TrueRange(bars[i], bars[i + 1]) = Max(S)
      BY <2>4, <2>5, <2>6, <3>1, <3>2, <3>3, <3>4 DEF TrueRange
    <3> QED
      BY <3>4, <3>7, <3>8
  <2> QED
    BY <2>7, <2>8, <2>9
<1>3. Len(bars) - 1 = k
  OBVIOUS
<1>4. Pairwise(bars, PlusMove) \in [1 .. k -> Nat]
  BY <1>2, <1>3 DEF Pairwise
<1>5. Pairwise(bars, MinusMove) \in [1 .. k -> Nat]
  BY <1>2, <1>3 DEF Pairwise
<1>6. TrueRanges(bars) \in [1 .. k -> Nat]
  <2>1. ASSUME NEW i \in 1 .. k
        PROVE  Unit * TrueRange(bars[i], bars[i + 1]) \in Nat
    <3>1. PICK t \in Nat : t = TrueRange(bars[i], bars[i + 1])
      BY <1>2
    <3>2. u * t \in Nat
      OBVIOUS
    <3> QED
      BY <1>1, <3>1, <3>2
  <2>2. TrueRanges(bars) = [i \in 1 .. k |-> Unit * TrueRange(bars[i], bars[i + 1])]
    BY <1>3 DEF TrueRanges, Pairwise
  <2> QED
    BY <2>1, <2>2
<1>7. TrueRanges(bars) \in [1 .. k -> Int]
  BY <1>6
<1> QED
  BY <1>4, <1>5, <1>6, <1>7, TupleIsSeq

(* The closes of bars, scaled. *)
LEMMA ClosesTyped ==
  ASSUME NEW bars \in Seq(Bar)
  PROVE  /\ Closes(bars) \in Seq(Int) /\ Len(Closes(bars)) = Len(bars)
         /\ DOMAIN Closes(bars) = 1 .. Len(bars)
         /\ \A i \in 1 .. Len(bars) : /\ Closes(bars)[i] = Unit * bars[i].close
                                      /\ Closes(bars)[i] \in Nat
<1>1. PICK u \in Nat : u = Unit
  BY UnitType
<1>2. PICK n \in Nat : n = Len(bars) /\ DOMAIN bars = 1 .. n
  BY BarsTyped
<1>3. PICK c : c = Closes(bars) /\ c = [i \in 1 .. n |-> u * bars[i].close]
  BY <1>1, <1>2 DEF Closes, Values
<1>4. ASSUME NEW i \in 1 .. n
      PROVE  u * bars[i].close \in Nat
  <2>1. PICK x \in Nat : x = bars[i].close
    BY <1>2, BarsTyped
  <2>2. u * x \in Nat
    OBVIOUS
  <2> QED
    BY <2>1, <2>2
<1>5. c \in [1 .. n -> Int]
  BY <1>3, <1>4
<1>6. c \in Seq(Int) /\ Len(c) = n /\ DOMAIN c = 1 .. n
  BY <1>5, TupleIsSeq
<1> QED
  BY <1>1, <1>2, <1>3, <1>4, <1>6

(* The relative strength index is a percentage. *)
LEMMA RsiBounds ==
  ASSUME NEW closes \in Seq(Int), Len(closes) > Period
  PROVE  Rsi(closes) \in 0 .. 100 * Unit
<1>1. PICK u \in Int : u = 100 * Unit /\ u > 0
  BY UnitType
<1>2. PICK n \in Nat : n = Period /\ n > 0
  BY IndicatorAssumption
<1>3. PICK k \in Nat : k = Len(closes) - 1 /\ n <= k
  <2>1. Len(closes) \in Nat
    OBVIOUS
  <2> QED
    BY <1>2, <2>1
<1>4. ASSUME NEW i \in 1 .. k
      PROVE  closes[i] \in Int /\ closes[i + 1] \in Int
  <2>1. /\ Len(closes) \in Nat /\ DOMAIN closes = 1 .. Len(closes)
        /\ \A j \in DOMAIN closes : closes[j] \in Int
    BY Indices
  <2>2. i \in DOMAIN closes /\ i + 1 \in DOMAIN closes
    BY <1>3, <2>1
  <2> QED
    BY <2>1, <2>2
<1>5. \A x \in Int : Positive(x) \in Nat
  BY PairBounds DEF Positive
<1>6. PICK ups : ups = [i \in 1 .. k |-> Positive(closes[i + 1] - closes[i])]
  OBVIOUS
<1>7. PICK downs : downs = [i \in 1 .. k |-> Positive(closes[i] - closes[i + 1])]
  OBVIOUS
<1>8. ups \in [1 .. k -> Nat] /\ downs \in [1 .. k -> Nat]
  <2>1. ASSUME NEW i \in 1 .. k
        PROVE  /\ Positive(closes[i + 1] - closes[i]) \in Nat
               /\ Positive(closes[i] - closes[i + 1]) \in Nat
    <3>1. closes[i + 1] - closes[i] \in Int /\ closes[i] - closes[i + 1] \in Int
      BY <1>4
    <3> QED
      BY <1>5, <3>1
  <2> QED
    BY <1>6, <1>7, <2>1
<1>9. ups \in Seq(Nat) /\ Len(ups) = k /\ downs \in Seq(Nat) /\ Len(downs) = k
  BY <1>8, TupleIsSeq
<1>10. PICK gain \in Nat : gain = Wilder(ups, n)
  BY <1>2, <1>3, <1>9, WilderNat
<1>11. PICK loss \in Nat : loss = Wilder(downs, n)
  BY <1>2, <1>3, <1>9, WilderNat
<1>12. Rsi(closes) = IF gain + loss = 0 THEN 50 * Unit ELSE (u * gain) \div (gain + loss)
  BY <1>1, <1>2, <1>3, <1>6, <1>7, <1>10, <1>11 DEF Rsi, Pairwise
<1>13. CASE gain + loss = 0
  <2>1. 50 * Unit \in 0 .. 100 * Unit
    BY UnitType
  <2> QED
    BY <1>12, <1>13, <2>1
<1>14. CASE gain + loss # 0
  <2>1. PICK d \in Int : d = gain + loss /\ d > 0 /\ gain <= d
    BY <1>14
  <2>2. PICK x \in Int : x = u * gain /\ x = gain * u
    OBVIOUS
  <2>3. 0 * u <= gain * u /\ gain * u <= d * u
    BY <1>1, <2>1, ProductGrows
  <2>4. 0 * d <= x /\ x <= u * d /\ 0 \in Int
    BY <2>2, <2>3
  <2>5. x \div d \in 0 .. u
    BY ONLY <2>1, <2>4, x \in Int, d \in Int, u \in Int, DivBetween
  <2> QED
    BY <1>1, <1>12, <1>14, <2>1, <2>2, <2>5
<1> QED
  BY <1>13, <1>14

(* So is the average of directional indices. *)
LEMMA AdxBounds ==
  ASSUME NEW bars \in Seq(Bar), Len(bars) >= 2 * Period + 1
  PROVE  Adx(bars) \in 0 .. 100 * Unit
<1>1. PICK u \in Int : u = 100 * Unit /\ u > 0
  BY UnitType
<1>2. PICK n \in Nat : n = Period /\ n > 0
  BY IndicatorAssumption
<1>3. PICK k \in Nat : Len(bars) = k + 1 /\ 2 * n <= k
  <2>1. Len(bars) \in Nat
    BY BarsTyped
  <2> QED
    BY <1>2, <2>1
<1>4. PICK plus : plus = Smooth(Pairwise(bars, PlusMove), n)
  OBVIOUS
<1>5. PICK minus : minus = Smooth(Pairwise(bars, MinusMove), n)
  OBVIOUS
<1>6. PICK range : range = Smooth(TrueRanges(bars), n)
  OBVIOUS
<1>7. PICK l \in Nat : l = k - n + 1 /\ n <= l
  BY <1>2, <1>3
<1>8. plus \in Seq(Nat) /\ Len(plus) = l
  <2>1. PICK s \in Seq(Nat) : s = Pairwise(bars, PlusMove) /\ Len(s) = k
    BY <1>3, MovesTyped
  <2>2. n <= Len(s)
    BY <1>3, <2>1
  <2> QED
    BY <1>2, <1>4, <1>7, <2>1, <2>2, SmoothSums
<1>9. minus \in Seq(Nat) /\ Len(minus) = l
  <2>1. PICK s \in Seq(Nat) : s = Pairwise(bars, MinusMove) /\ Len(s) = k
    BY <1>3, MovesTyped
  <2>2. n <= Len(s)
    BY <1>3, <2>1
  <2> QED
    BY <1>2, <1>5, <1>7, <2>1, <2>2, SmoothSums
<1>10. DOMAIN plus = 1 .. l /\ \A i \in 1 .. l : plus[i] \in Nat /\ minus[i] \in Nat
  <2>1. DOMAIN plus = 1 .. Len(plus) /\ \A i \in DOMAIN plus : plus[i] \in Nat
    BY <1>8, Indices
  <2>2. DOMAIN minus = 1 .. Len(minus) /\ \A i \in DOMAIN minus : minus[i] \in Nat
    BY <1>9, Indices
  <2> QED
    BY <1>8, <1>9, <2>1, <2>2
<1>11. PICK dx : dx = [i \in 1 .. l |-> Dx(plus[i], minus[i], range[i])]
  OBVIOUS
<1>12. \A i \in 1 .. l : dx[i] \in 0 .. u
  BY <1>1, <1>10, <1>11, DxBounds
<1>13. dx \in [1 .. l -> Int]
  BY <1>11, <1>12
<1>14. dx \in Seq(Int) /\ Len(dx) = l /\ DOMAIN dx = 1 .. l
  BY <1>13, TupleIsSeq
<1>15. n <= Len(dx) /\ 0 \in Int /\ \A i \in DOMAIN dx : dx[i] \in 0 .. u
  BY <1>7, <1>12, <1>14
<1>16. Wilder(dx, n) \in 0 .. u
  BY ONLY <1>2, <1>14, <1>15, n \in Nat, u \in Int, MovingBetween
<1>17. Adx(bars) = Wilder(dx, n)
  BY <1>2, <1>4, <1>5, <1>6, <1>10, <1>11 DEF Adx
<1> QED
  BY <1>1, <1>16, <1>17

(* The width of a band and what it is compared by are numbers. *)
LEMMA WidthTyped ==
  ASSUME NEW s \in Seq(Int)
  PROVE  WidthOf(s)[1] \in Int /\ WidthOf(s)[2] \in Int
<1>1. PICK n \in Nat : n = Len(s)
  OBVIOUS
<1>2. IsFiniteSet(DOMAIN s) /\ \A i \in DOMAIN s : s[i] \in Int
  BY Indices
<1>3. PICK sum \in Int : sum = SumOf(s)
  BY <1>2, SumType DEF SumOf
<1>4. PICK t : t = [i \in DOMAIN s |-> s[i] * s[i]]
  OBVIOUS
<1>5. DOMAIN t = DOMAIN s /\ \A i \in DOMAIN t : t[i] \in Int
  BY <1>2, <1>4
<1>6. PICK square \in Int : square = SumOf(t)
  BY <1>2, <1>5, SumType DEF SumOf
<1>7. WidthOf(s) = IF sum = 0 THEN <<0, 1>> ELSE <<n * square - sum * sum, sum * sum>>
  BY <1>1, <1>3, <1>4, <1>6 DEF WidthOf
<1> QED
  BY <1>7

(* The newest width is one of those it is ranked among. *)
LEMMA WidthBounds ==
  ASSUME NEW prices \in Seq(Int), Len(prices) >= Window + Lookback - 1
  PROVE  WidthPercentile(prices) \in Unit \div Lookback .. Unit
<1>1. PICK u \in Int : u = Unit /\ u > 0
  BY UnitType
<1>2. PICK w \in Nat : w = Window /\ w > 0
  BY IndicatorAssumption
<1>3. PICK l \in Nat : l = Lookback /\ l > 0
  BY IndicatorAssumption
<1>4. PICK n \in Nat : /\ n = Len(prices) /\ n >= w + l - 1
                       /\ \A i \in 1 .. n : prices[i] \in Int
  <2>1. /\ Len(prices) \in Nat /\ DOMAIN prices = 1 .. Len(prices)
        /\ \A i \in DOMAIN prices : prices[i] \in Int
    BY Indices
  <2> QED
    BY <1>2, <1>3, <2>1
<1>5. PICK last : last = Widths(prices)[l]
  OBVIOUS
<1>6. last[1] \in Int /\ last[2] \in Int
  <2>1. PICK from \in Int : from = n - l + l - w + 1 /\ 1 <= from
    <3>1. w \in Int /\ w > 0 /\ l \in Int /\ l > 0 /\ n \in Int /\ n >= w + l - 1
      BY <1>2, <1>3, <1>4
    <3> QED
      BY ONLY <3>1
  <2>2. PICK to \in Int : to = n - l + l /\ to = n
    OBVIOUS
  <2>3. \A i \in from .. to : prices[i] \in Int
    BY <1>4, <2>1, <2>2
  <2>4. SubSeq(prices, from, to) \in Seq(Int)
    BY ONLY from \in Int, to \in Int, <2>3, SubSeqProperties
  <2>5. last = WidthOf(SubSeq(prices, from, to))
    <3>1. l \in 1 .. Lookback
      BY <1>3
    <3>2. last = WidthOf(SubSeq(prices, n - l + l - w + 1, n - l + l))
      BY <1>2, <1>3, <1>4, <1>5, <3>1 DEF Widths
    <3> QED
      BY <2>1, <2>2, <3>2
  <2> QED
    BY <2>4, <2>5, WidthTyped
<1>7. PICK S : S = {i \in 1 .. l : Narrower(Widths(prices)[i], last)}
  OBVIOUS
<1>8. l \in S
  <2>1. Narrower(last, last)
    <3>1. last[1] * last[2] \in Int
      BY <1>6
    <3> QED
      BY <3>1 DEF Narrower
  <2> QED
    BY <1>3, <1>5, <1>7, <2>1
<1>9. PICK c \in Int : c = Cardinality(S) /\ 1 <= c /\ c <= l
  <2>1. IsFiniteSet(1 .. l) /\ Cardinality(1 .. l) = l
    <3>1. 1 \in Int /\ l \in Int
      OBVIOUS
    <3>2. /\ IsFiniteSet(1 .. l)
          /\ Cardinality(1 .. l) = IF 1 > l THEN 0 ELSE l - 1 + 1
      BY ONLY <3>1, FS_Interval
    <3> QED
      BY <1>3, <3>2
  <2>2. S \in SUBSET (1 .. l)
    BY <1>7
  <2>3. IsFiniteSet(S) /\ Cardinality(S) <= Cardinality(1 .. l)
    BY ONLY <2>1, <2>2, FS_Subset
  <2>4. Cardinality(S) \in Nat /\ (Cardinality(S) = 0 <=> S = {})
    BY <2>3, FS_CardinalityType, FS_EmptySet
  <2> QED
    BY <1>8, <2>1, <2>3, <2>4
<1>10. WidthPercentile(prices) = (u * c) \div l
  BY <1>1, <1>3, <1>5, <1>7, <1>9 DEF WidthPercentile
<1>11. PICK low \in Int : low = u \div l /\ low * l <= u
  BY <1>3, DivisionBounds
<1>12. PICK x \in Int : x = u * c /\ x = c * u
  OBVIOUS
<1>13. 1 * u <= c * u /\ c * u <= l * u
  BY <1>1, <1>9, ProductGrows
<1>14. low * l <= x /\ x <= u * l
  <2>1. PICK y \in Int : y = low * l
    OBVIOUS
  <2>2. PICK z \in Int : z = u * l /\ z = l * u
    OBVIOUS
  <2> QED
    BY <1>11, <1>12, <1>13, <2>1, <2>2
<1>15. x \div l \in low .. u
  <2>1. l \in Int
    OBVIOUS
  <2> QED
    BY ONLY <1>3, <1>14, <2>1, x \in Int, low \in Int, u \in Int, DivBetween
<1> QED
  BY <1>1, <1>3, <1>10, <1>11, <1>12, <1>15

(* The volume-weighted price lies between the lows and the highs. *)
LEMMA VwapBounds ==
  ASSUME NEW bars \in Seq(Bar), Len(bars) > 0,
         NEW low \in Int, NEW high \in Int,
         \A i \in 1 .. Len(bars) : low <= Unit * bars[i].low /\ Unit * bars[i].high <= high
  PROVE  Vwap(bars) \in low .. high
<1>1. PICK u \in Nat : u = Unit
  BY UnitType
<1>2. PICK n \in Nat : n = Len(bars) /\ n > 0 /\ DOMAIN bars = 1 .. n
  BY BarsTyped
<1>3. PICK D : D = 1 .. n /\ IsFiniteSet(D)
  BY <1>2, BarsTyped
<1>4. ASSUME NEW i \in D
      PROVE  /\ bars[i].volume \in Nat
             /\ \E a, c, b \in Int : /\ a = u * bars[i].low /\ c = u * bars[i].close
                                     /\ b = u * bars[i].high
                                     /\ low <= a /\ a <= c /\ c <= b /\ b <= high
  <2>1. PICK l \in Nat : l = bars[i].low
    BY <1>2, <1>3, BarsTyped
  <2>2. PICK m \in Nat : m = bars[i].close /\ l <= m
    BY <1>2, <1>3, <2>1, BarsTyped
  <2>3. PICK h \in Nat : h = bars[i].high /\ m <= h
    BY <1>2, <1>3, <2>2, BarsTyped
  <2>4. PICK a \in Int : a = u * l /\ a = l * u
    OBVIOUS
  <2>5. PICK c \in Int : c = u * m /\ c = m * u
    OBVIOUS
  <2>6. PICK b \in Int : b = u * h /\ b = h * u
    OBVIOUS
  <2>7. a <= c
    BY <2>2, <2>4, <2>5, ProductGrows
  <2>8. c <= b
    <3>1. m \in Int /\ h \in Int /\ m <= h /\ u \in Nat
      BY <2>3
    <3>2. m * u <= h * u
      BY ONLY <3>1, ProductGrows
    <3> QED
      BY <2>5, <2>6, <3>2
  <2>9. low <= a /\ b <= high
    BY <1>1, <1>2, <1>3, <2>1, <2>3, <2>4, <2>6
  <2>10. bars[i].volume \in Nat
    BY <1>2, <1>3, BarsTyped
  <2> QED
    BY <2>1, <2>2, <2>3, <2>4, <2>5, <2>6, <2>7, <2>8, <2>9, <2>10
<1>5. PICK vol : vol = [i \in D |-> bars[i].volume]
  OBVIOUS
<1>6. PICK val : val = [i \in D |->
                Unit * (bars[i].high + bars[i].low + bars[i].close) * bars[i].volume]
  OBVIOUS
<1>7. \A i \in D : vol[i] \in Nat /\ vol[i] \in Int
  BY <1>4, <1>5
<1>8. ASSUME NEW i \in D
      PROVE  /\ val[i] \in Int
             /\ 3 * low * vol[i] <= val[i] /\ val[i] <= 3 * high * vol[i]
  <2>1. PICK a \in Int : \E c, b \in Int :
          /\ a = u * bars[i].low /\ c = u * bars[i].close /\ b = u * bars[i].high
          /\ low <= a /\ a <= c /\ c <= b /\ b <= high
    BY <1>4
  <2>2. PICK c \in Int : \E b \in Int :
          /\ a = u * bars[i].low /\ c = u * bars[i].close /\ b = u * bars[i].high
          /\ low <= a /\ a <= c /\ c <= b /\ b <= high
    BY <2>1
  <2>3. PICK b \in Int :
          /\ a = u * bars[i].low /\ c = u * bars[i].close /\ b = u * bars[i].high
          /\ low <= a /\ a <= c /\ c <= b /\ b <= high
    BY <2>2
  <2>4. PICK v \in Nat : v = vol[i] /\ v = bars[i].volume
    BY <1>5, <1>7
  <2>5. PICK l \in Nat : l = bars[i].low
    BY <1>2, <1>3, BarsTyped
  <2>6. PICK m \in Nat : m = bars[i].close
    BY <1>2, <1>3, BarsTyped
  <2>7. PICK h \in Nat : h = bars[i].high
    BY <1>2, <1>3, BarsTyped
  <2>8. PICK x \in Int : x = u * (h + l + m) /\ x = a + b + c
    <3>1. u * (h + l + m) = u * h + u * l + u * m
      OBVIOUS
    <3>2. u * h = b /\ u * l = a /\ u * m = c
      BY <2>3, <2>5, <2>6, <2>7
    <3> QED
      BY <3>1, <3>2
  <2>9. val[i] = x * v
    BY <1>1, <1>6, <2>4, <2>5, <2>6, <2>7, <2>8
  <2>10. 3 * low <= x /\ x <= 3 * high
    <3>1. low <= a /\ a <= c /\ c <= b /\ b <= high
      BY <2>3
    <3>2. x = a + b + c
      BY <2>8
    <3> QED
      BY ONLY <3>1, <3>2, low \in Int, high \in Int, a \in Int, b \in Int, c \in Int, x \in Int
  <2>11. PICK y \in Int : y = 3 * low /\ y <= x
    BY <2>10
  <2>12. PICK z \in Int : z = 3 * high /\ x <= z
    BY <2>10
  <2>13. y * v <= x * v /\ x * v <= z * v
    BY <2>11, <2>12, ProductGrows
  <2>14. x * v \in Int
    OBVIOUS
  <2> QED
    BY <2>4, <2>9, <2>11, <2>12, <2>13, <2>14
<1>9. PICK y \in Int : y = 3 * low
  OBVIOUS
<1>10. PICK z \in Int : z = 3 * high
  OBVIOUS
<1>11. PICK least : least = [i \in D |-> y * vol[i]]
  OBVIOUS
<1>12. PICK most : most = [i \in D |-> z * vol[i]]
  OBVIOUS
<1>13. \A i \in D : /\ least[i] \in Int /\ val[i] \in Int /\ most[i] \in Int
                    /\ least[i] <= val[i] /\ val[i] <= most[i]
  BY <1>7, <1>8, <1>9, <1>10, <1>11, <1>12
<1>14. PICK volume \in Nat : volume = SumOver(D, vol)
  <2>1. SumOver(D, vol) \in Int
    BY <1>3, <1>7, SumType
  <2>2. PICK zero : zero = [i \in D |-> 0 * vol[i]]
    OBVIOUS
  <2>3. \A i \in D : /\ zero[i] \in Int /\ vol[i] \in Int
                     /\ zero[i] = 0 * vol[i] /\ zero[i] <= vol[i]
    BY <1>7, <2>2
  <2>4. SumOver(D, zero) <= SumOver(D, vol)
    BY ONLY <1>3, <2>3, SumMonotonic
  <2>5. PICK c \in Int : c = 0
    OBVIOUS
  <2>6. \A i \in D : vol[i] \in Int /\ zero[i] = c * vol[i]
    BY <2>3, <2>5
  <2>7. SumOver(D, zero) = c * SumOver(D, vol)
    BY ONLY <1>3, <2>6, c \in Int, SumScale
  <2> QED
    BY <2>1, <2>4, <2>5, <2>7
<1>15. PICK traded \in Int : traded = SumOver(D, val)
  <2>1. \A i \in D : val[i] \in Int
    BY <1>13
  <2> QED
    BY <1>3, <2>1, SumType
<1>16. y * volume <= traded
  <2>1. \A i \in D : least[i] \in Int /\ val[i] \in Int /\ least[i] <= val[i]
    BY <1>13
  <2>2. SumOver(D, least) <= SumOver(D, val)
    BY ONLY <1>3, <2>1, SumMonotonic
  <2>3. \A i \in D : vol[i] \in Int /\ least[i] = y * vol[i]
    BY <1>7, <1>11
  <2>4. SumOver(D, least) = y * SumOver(D, vol)
    BY ONLY <1>3, <2>3, y \in Int, SumScale
  <2> QED
    BY <1>14, <1>15, <2>2, <2>4
<1>17. traded <= z * volume
  <2>1. \A i \in D : val[i] \in Int /\ most[i] \in Int /\ val[i] <= most[i]
    BY <1>13
  <2>2. SumOver(D, val) <= SumOver(D, most)
    BY ONLY <1>3, <2>1, SumMonotonic
  <2>3. \A i \in D : vol[i] \in Int /\ most[i] = z * vol[i]
    BY <1>7, <1>12
  <2>4. SumOver(D, most) = z * SumOver(D, vol)
    BY ONLY <1>3, <2>3, z \in Int, SumScale
  <2> QED
    BY <1>14, <1>15, <2>2, <2>4
<1>18. DOMAIN vol = D /\ DOMAIN val = D
  BY <1>5, <1>6
<1>19. Vwap(bars) = IF volume = 0 THEN Mean(Closes(bars)) ELSE traded \div (3 * volume)
  <2>1. vol = [i \in DOMAIN bars |-> bars[i].volume]
    BY <1>2, <1>3, <1>5
  <2>2. val = [i \in DOMAIN bars |->
                 Unit * (bars[i].high + bars[i].low + bars[i].close) * bars[i].volume]
    BY <1>2, <1>3, <1>6
  <2>3. SumOf(vol) = volume /\ SumOf(val) = traded
    BY <1>14, <1>15, <1>18 DEF SumOf
  <2> QED
    BY <2>1, <2>2, <2>3 DEF Vwap
<1>20. CASE volume = 0
  <2>1. \A i \in DOMAIN Closes(bars) : Closes(bars)[i] \in low .. high
    <3>1. ASSUME NEW i \in 1 .. n
          PROVE  Closes(bars)[i] \in low .. high
      <4>1. Closes(bars)[i] = u * bars[i].close /\ i \in D
        BY <1>1, <1>2, <1>3, ClosesTyped
      <4> QED
        BY <1>4, <4>1
    <3> QED
      BY <1>2, <3>1, ClosesTyped
  <2>2. Closes(bars) \in Seq(Int) /\ Len(Closes(bars)) > 0
    BY <1>2, ClosesTyped
  <2>3. PICK s \in Seq(Int) : s = Closes(bars)
    BY <2>2
  <2>4. Mean(s) \in low .. high
    BY <2>1, <2>2, <2>3, MeanBetween
  <2> QED
    BY <1>19, <1>20, <2>3, <2>4
<1>21. CASE volume # 0
  <2>1. PICK d \in Int : d = 3 * volume /\ d > 0
    BY <1>21
  <2>2. low * d = y * volume /\ high * d = z * volume
    BY <1>9, <1>10, <2>1
  <2>3. low * d <= traded /\ traded <= high * d
    BY <1>16, <1>17, <2>2
  <2>4. traded \div d \in low .. high
    BY ONLY <2>1, <2>3, traded \in Int, d \in Int, low \in Int, high \in Int, DivBetween
  <2> QED
    BY <1>19, <1>21, <2>1, <2>4
<1> QED
  BY <1>20, <1>21

(* What the engine computes is within its ranges, and of whole numbers. *)
LEMMA ComputeBounds ==
  ASSUME NEW bars \in Seq(Bar), Enough(bars), NEW ind, ind = Compute(bars)
  PROVE  InRange(bars, ind) /\ IsMeasured(ind)
<1>1. PICK n \in Nat : n = Len(bars)
  BY BarsTyped
<1>2. PICK p \in Nat : p = Period /\ p > 0
  BY IndicatorAssumption
<1>3. PICK f \in Nat : f = Fast /\ f > 0
  BY IndicatorAssumption
<1>4. PICK t \in Nat : t = Slow /\ t > 0
  BY IndicatorAssumption
<1>5. n >= f /\ n >= t /\ n >= 2 * p + 1 /\ n >= Window + Lookback - 1
  <2>1. PICK m \in Int : m = Max({f, t}) /\ m >= f /\ m >= t
    BY PairBounds
  <2> QED
    BY <1>1, <1>2, <1>3, <1>4, <2>1 DEF Enough
<1>6. n > 0 /\ n > p
  BY <1>2, <1>5
<1>7. PICK closes \in Seq(Int) :
        /\ closes = Closes(bars) /\ Len(closes) = n /\ DOMAIN closes = 1 .. n
        /\ \A i \in 1 .. n : closes[i] \in Nat
  BY <1>1, ClosesTyped
<1>8. /\ ind.close = closes[n] /\ ind.rsi = Rsi(closes)
      /\ ind.atr = Atr(bars) /\ ind.adx = Adx(bars)
      /\ ind.fast = Ema(closes, f) /\ ind.slow = Ema(closes, t)
      /\ ind.width = WidthPercentile([i \in DOMAIN bars |-> bars[i].close])
      /\ ind.vwap = Vwap(bars)
      /\ ind.distance = IF Vwap(bars) = 0 THEN 0
                        ELSE (Unit * (closes[n] - Vwap(bars))) \div Vwap(bars)
  BY <1>1, <1>3, <1>4, <1>7 DEF Compute
<1>9. ind.rsi \in 0 .. 100 * Unit
  <2>1. Len(closes) > Period
    BY <1>2, <1>6, <1>7
  <2> QED
    BY <1>8, <2>1, RsiBounds
<1>10. ind.adx \in 0 .. 100 * Unit
  <2>1. Len(bars) >= 2 * Period + 1
    BY <1>1, <1>2, <1>5
  <2> QED
    BY <1>8, <2>1, AdxBounds
<1>11. ASSUME NEW s \in Seq(Int), NEW m \in Nat, m > 0, m <= Len(s)
       PROVE  Between(Wilder(s, m), s) /\ Between(Ema(s, m), s) /\ Ema(s, m) \in Int
  <2>1. Len(s) \in Nat /\ Len(s) > 0 /\ \A i \in DOMAIN s : s[i] \in Int
    BY <1>11, Indices
  <2>2. PICK low \in Int : low = Min(Range(s)) /\ \A i \in DOMAIN s : low <= s[i]
    BY <2>1, SeqExtremes
  <2>3. PICK high \in Int : high = Max(Range(s)) /\ \A i \in DOMAIN s : s[i] <= high
    BY <2>1, SeqExtremes
  <2>4. \A i \in DOMAIN s : s[i] \in low .. high
    BY <2>1, <2>2, <2>3
  <2>5. Wilder(s, m) \in low .. high /\ Ema(s, m) \in low .. high
    BY ONLY <1>11, <2>4, s \in Seq(Int), m \in Nat, low \in Int, high \in Int, MovingBetween
  <2> QED
    BY <2>2, <2>3, <2>5 DEF Between
<1>12. Between(ind.fast, closes) /\ ind.fast \in Int
  BY <1>3, <1>5, <1>7, <1>8, <1>11
<1>13. Between(ind.slow, closes) /\ ind.slow \in Int
  BY <1>4, <1>5, <1>7, <1>8, <1>11
<1>14. Between(ind.atr, TrueRanges(bars))
  <2>1. PICK k \in Nat : n = k + 1 /\ p <= k
    BY <1>2, <1>5
  <2>2. PICK s \in Seq(Int) : s = TrueRanges(bars) /\ Len(s) = k
    BY <1>1, <2>1, MovesTyped
  <2>3. Between(Wilder(s, p), s)
    BY <1>2, <1>11, <2>1, <2>2
  <2> QED
    BY <1>2, <1>8, <2>2, <2>3 DEF Atr
<1>15. ind.width \in Unit \div Lookback .. Unit
  <2>1. PICK prices : prices = [i \in DOMAIN bars |-> bars[i].close]
    OBVIOUS
  <2>2. prices \in [1 .. n -> Int]
    BY <1>1, <2>1, BarsTyped
  <2>3. prices \in Seq(Int) /\ Len(prices) = n
    BY <2>2, TupleIsSeq
  <2>4. Len(prices) >= Window + Lookback - 1
    BY <1>5, <2>3
  <2>5. WidthPercentile(prices) \in Unit \div Lookback .. Unit
    BY ONLY <2>3, <2>4, WidthBounds
  <2> QED
    BY <1>8, <2>1, <2>5
<1>16. /\ ind.vwap \in Nat
       /\ Min(Range(Values(bars, LAMBDA b : b.low))) <= ind.vwap
       /\ ind.vwap <= Max(Range(Values(bars, LAMBDA b : b.high)))
  <2>1. PICK lows : lows = Values(bars, LAMBDA b : b.low) /\ lows = [i \in 1 .. n |-> Unit * bars[i].low]
    BY <1>1, BarsTyped DEF Values
  <2>2. PICK highs : highs = Values(bars, LAMBDA b : b.high) /\ highs = [i \in 1 .. n |-> Unit * bars[i].high]
    BY <1>1, BarsTyped DEF Values
  <2>3. ASSUME NEW i \in 1 .. n
        PROVE  Unit * bars[i].low \in Nat /\ Unit * bars[i].high \in Int
    <3>1. PICK u \in Nat : u = Unit
      BY UnitType
    <3>2. PICK l \in Nat : l = bars[i].low
      BY <1>1, BarsTyped
    <3>3. PICK h \in Nat : h = bars[i].high
      BY <1>1, BarsTyped
    <3>4. u * l \in Nat /\ u * h \in Int
      OBVIOUS
    <3> QED
      BY <3>1, <3>2, <3>3, <3>4
  <2>4. lows \in [1 .. n -> Int] /\ highs \in [1 .. n -> Int]
    <3>1. lows = [i \in 1 .. n |-> Unit * bars[i].low]
      BY <2>1
    <3>2. highs = [i \in 1 .. n |-> Unit * bars[i].high]
      BY <2>2
    <3>3. \A i \in 1 .. n : Unit * bars[i].low \in Int /\ Unit * bars[i].high \in Int
      BY <2>3
    <3> QED
      BY ONLY <3>1, <3>2, <3>3
  <2>5. lows \in Seq(Int) /\ Len(lows) = n /\ DOMAIN lows = 1 .. n
    BY <2>4, TupleIsSeq
  <2>6. highs \in Seq(Int) /\ Len(highs) = n /\ DOMAIN highs = 1 .. n
    BY <2>4, TupleIsSeq
  <2>7. PICK low \in Int : low = Min(Range(lows)) /\ \A i \in 1 .. n : low <= lows[i]
    BY <1>6, <2>5, SeqExtremes
  <2>8. PICK high \in Int : high = Max(Range(highs)) /\ \A i \in 1 .. n : highs[i] <= high
    BY <1>6, <2>6, SeqExtremes
  <2>9. \A i \in 1 .. Len(bars) : low <= Unit * bars[i].low /\ Unit * bars[i].high <= high
    BY <1>1, <2>1, <2>2, <2>7, <2>8
  <2>10. Len(bars) > 0
    BY <1>1, <1>6
  <2>11. Vwap(bars) \in low .. high
    BY ONLY <2>9, <2>10, bars \in Seq(Bar), low \in Int, high \in Int, VwapBounds
  <2>12. \A i \in 1 .. Len(bars) : 0 <= Unit * bars[i].low /\ Unit * bars[i].high <= high
    BY <1>1, <2>3, <2>9
  <2>13. 0 \in Int
    OBVIOUS
  <2>14. Vwap(bars) \in 0 .. high
    BY ONLY <2>10, <2>12, <2>13, bars \in Seq(Bar), high \in Int, VwapBounds
  <2>15. Vwap(bars) \in Nat /\ Min(Range(lows)) <= Vwap(bars) /\ Vwap(bars) <= Max(Range(highs))
    BY <2>7, <2>8, <2>11, <2>14
  <2> QED
    BY <1>8, <2>1, <2>2, <2>15
<1>17. InRange(bars, ind)
  BY <1>7, <1>9, <1>10, <1>12, <1>13, <1>14, <1>15, <1>16 DEF InRange
<1>18. IsMeasured(ind)
  <2>1. PICK u \in Int : u = Unit /\ u > 0
    BY UnitType
  <2>2. ind.close \in Nat
    BY <1>6, <1>7, <1>8
  <2>3. ind.rsi \in Int /\ ind.adx \in Int
    BY <1>9, <1>10, <2>1
  <2>4. ind.width \in Int
    BY <1>15
  <2>5. ind.distance \in Int
    <3>1. PICK v \in Nat : v = Vwap(bars)
      BY <1>8, <1>16
    <3>2. PICK x \in Int : x = u * (closes[n] - v)
      BY <1>6, <1>7
    <3>3. v # 0 => x \div v \in Int
      OBVIOUS
    <3> QED
      BY <1>8, <2>1, <3>1, <3>2, <3>3
  <2> QED
    BY <1>12, <1>13, <2>2, <2>3, <2>4, <2>5 DEF IsMeasured
<1> QED
  BY <1>17, <1>18

(* No indicator leaves its range, whatever well-formed bars come and       *)
(* whatever the periods are.                                               *)
THEOREM IndicatorsFit == CalcSpec => []IndicatorsAreBounded
<1>1. CalcInv => IndicatorsAreBounded
  BY ArgumentAssumption, ComputeBounds DEF CalcInv, IndicatorInv, IndicatorsAreBounded
<1> QED
  BY <1>1, CalcInductive, PTL

(* The scores of what the engine computed are percentages, and high ones   *)
(* need the trend and the volatility of their setup.                       *)
THEOREM ScoresFit == CalcSpec => []ScoresAreConsistent
<1>1. ASSUME CalcInv, call.of = "setups"
      PROVE  Consistent(call.args, reply)
  <2>1. PICK bars \in BarSeries : /\ Enough(bars) /\ call.args = Compute(bars)
                                  /\ reply = Score(call.args)
    BY <1>1 DEF CalcInv, SetupInv
  <2>2. bars \in Seq(Bar)
    BY ArgumentAssumption
  <2>3. IsMeasured(call.args)
    BY <2>1, <2>2, ComputeBounds
  <2> QED
    BY <2>1, <2>3, ScoresConsistent
<1>2. CalcInv => ScoresAreConsistent
  BY <1>1 DEF ScoresAreConsistent
<1> QED
  BY <1>2, CalcInductive, PTL
=============================================================================
