------------------------- MODULE SchwabTokensProofs -------------------------
(***************************************************************************)
(* Proofs about SchwabTokens, for any calls, watchdogs and number of       *)
(* issued pairs: what the refresh lock and the second read under it are    *)
(* for.                                                                    *)
(***************************************************************************)
EXTENDS SchwabTokens, TLAPS

(* Inside the refresh lock. *)
Refreshing == {"refreshing", "upserting", "saving"}

(* The stored pair has been issued, and the watchdog never gets as far as  *)
(* a refresh of its own.                                                   *)
RowInv ==
  /\ row.access <= schwab.issued
  /\ \A w \in Watchdogs : pc[w] = "idle"

(* What a call carries from await to await: a call that saw the row has    *)
(* one; the one in the lock has the stored refresh token, then a pair      *)
(* newer than the stored one, and the stored version; and the token of its *)
(* first try is not newer than the row, and older once it has refreshed.   *)
CallInv(c) ==
  /\ pc[c] \notin {"idle", "load"} => row # NoRow
  /\ pc[c] \in Refreshing => refreshLock = c
  /\ pc[c] = "refreshing" => local[c].refresh = row.refresh
  /\ pc[c] \in {"upserting", "saving"} =>
       row.access < local[c].issued /\ local[c].issued <= schwab.issued
  /\ pc[c] = "saving" => local[c].version = row.version
  /\ pc[c] \in Refreshing \cup {"request", "waiting"} =>
       local[c].access <= row.access
  /\ pc[c] = "reload" => local[c].access < row.access

TokenInv == TypeOK /\ RowInv /\ \A c \in Callers : CallInv(c)

-----------------------------------------------------------------------------
(* Types *)

(* What a process carries. *)
Local == [access : Token, refresh : Token, version : Nat,
          issued : Token, rotated : Token, retried : BOOLEAN]

LEMMA TokenNumbers == NoToken \in Token /\ Token \subseteq Nat
BY ProcsAssumption DEF Token, NoToken

LEMMA NothingIsLocal == NothingLocal \in Local
BY TokenNumbers DEF NothingLocal, Local

LEMMA LocalType ==
  ASSUME TypeOK, NEW p \in Procs
  PROVE  /\ local[p] \in Local
         /\ local[p].access \in Token /\ local[p].refresh \in Token
         /\ local[p].issued \in Token /\ local[p].rotated \in Token
         /\ local[p].version \in Nat /\ local[p].retried \in BOOLEAN
<1>1. local[p] \in Local
  BY DEF TypeOK, Local
<1> QED
  BY <1>1 DEF Local

LEMMA RowType ==
  ASSUME TypeOK
  PROVE  /\ row.access \in Token /\ row.refresh \in Token /\ row.version \in Nat
         /\ schwab.issued \in Token /\ schwab.refresh \in Token
         /\ schwab.alive \subseteq Token
BY DEF TypeOK

(* The end of a process keeps the types of what it changes. *)
LEMMA EndType ==
  ASSUME TypeOK, NEW p \in Procs, End(p)
  PROVE  /\ pc' \in [Procs -> Labels]
         /\ local' \in [Procs -> Local]
         /\ refreshLock' \in Callers \cup {None}
         /\ writer' \in Writers \cup {None}
BY NothingIsLocal DEF TypeOK, End, Goto, Labels, Local

(* A pair issued is a later one. *)
LEMMA IssueType ==
  ASSUME TypeOK, NEW rotate \in BOOLEAN, Issue(rotate)
  PROVE  /\ schwab' \in [issued : Token, refresh : Token, alive : SUBSET Token]
         /\ schwab'.issued = schwab.issued + 1
         /\ schwab.issued + 1 \in Token
         /\ schwab'.issued >= schwab.issued
<1>1. /\ schwab.issued \in Token /\ schwab.refresh \in Token
      /\ schwab.alive \subseteq Token
  BY DEF TypeOK
<1>2. schwab.issued + 1 \in Token /\ schwab.issued + 1 >= schwab.issued
  BY <1>1, ProcsAssumption DEF Issue, Token
<1> QED
  BY <1>1, <1>2 DEF Issue

LEMMA TypeStep ==
  ASSUME TypeOK, [Next]_vars
  PROVE  TypeOK'
<1> USE ProcsAssumption, TokenNumbers DEF Procs, Local
<1>0. /\ row \in [access : Token, refresh : Token, version : Nat]
      /\ schwab \in [issued : Token, refresh : Token, alive : SUBSET Token]
      /\ refreshLock \in Callers \cup {None}
      /\ writer \in Writers \cup {None}
      /\ pc \in [Procs -> Labels]
      /\ local \in [Procs -> Local]
      /\ watchdog \in {"nothing to do", "TypeError", "refreshed"}
  BY DEF TypeOK
<1>1. ASSUME NEW c \in Callers, Call(c)
      PROVE  TypeOK'
  BY <1>0, <1>1 DEF TypeOK, Call, Goto, Labels
<1>2. ASSUME NEW c \in Callers, LoadToken(c)
      PROVE  TypeOK'
  <2>1. CASE row = NoRow
    BY <1>2, <2>1, EndType DEF TypeOK, LoadToken
  <2>2. CASE row # NoRow
    <3>1. local' = [local EXCEPT ![c] = [local[c] EXCEPT !.access = row.access,
                                                        !.retried = pc[c] = "reload"]]
      BY <1>0, <1>2, <2>2 DEF LoadToken
    <3>2. [local[c] EXCEPT !.access = row.access, !.retried = pc[c] = "reload"] \in Local
      <4>1. (pc[c] = "reload") \in BOOLEAN
        OBVIOUS
      <4> DEFINE retried == pc[c] = "reload"
      <4> HIDE DEF retried
      <4>2. [local[c] EXCEPT !.access = row.access, !.retried = retried] \in Local
        <5>1. retried \in BOOLEAN
          BY <4>1 DEF retried
        <5> QED
          BY <1>2, <5>1, RowType, LocalType
      <4> QED
        BY <4>2 DEF retried
    <3>3. local' \in [Procs -> Local]
      BY <1>0, <3>1, <3>2
    <3> QED
      BY <1>0, <1>2, <2>2, <3>3 DEF TypeOK, LoadToken, Goto, Labels
  <2> QED
    BY <2>1, <2>2
<1>3. ASSUME NEW c \in Callers, Answered(c)
      PROVE  TypeOK'
  BY <1>0, <1>3, EndType DEF TypeOK, Answered
<1>4. ASSUME NEW c \in Callers, Unauthorized(c)
      PROVE  TypeOK'
  <2>1. CASE local[c].retried
    BY <1>0, <1>4, <2>1, EndType DEF TypeOK, Unauthorized
  <2>2. CASE ~ local[c].retried
    BY <1>0, <1>4, <2>2 DEF TypeOK, Unauthorized, Goto, Labels
  <2> QED
    BY <2>1, <2>2
<1>5. ASSUME NEW c \in Callers, Refresh(c)
      PROVE  TypeOK'
  <2>1. local' = [local EXCEPT ![c] = [local[c] EXCEPT !.refresh = row.refresh]]
    BY <1>0, <1>5 DEF Refresh
  <2>2. [local[c] EXCEPT !.refresh = row.refresh] \in Local
    BY LocalType, RowType
  <2>3. local' \in [Procs -> Local]
    BY <1>0, <2>1, <2>2
  <2> QED
    BY <1>0, <1>5, <2>3 DEF TypeOK, Refresh, Goto, Labels
<1>6. ASSUME NEW w \in Watchdogs, Watchdog(w)
      PROVE  TypeOK'
  BY <1>0, <1>6 DEF TypeOK, Watchdog
<1>7. ASSUME NEW p \in Procs, Exchange(p)
      PROVE  TypeOK'
  <2>1. PICK rotate \in BOOLEAN :
          /\ Issue(rotate)
          /\ local' = [local EXCEPT
               ![p].issued = schwab.issued + 1,
               ![p].rotated = IF rotate THEN schwab.issued + 1 ELSE local[p].refresh]
    BY <1>7 DEF Exchange
  <2>2. /\ schwab' \in [issued : Token, refresh : Token, alive : SUBSET Token]
        /\ schwab.issued + 1 \in Token
    BY <2>1, IssueType
  <2>3. PICK t \in Token :
          local' = [local EXCEPT ![p] = [local[p] EXCEPT !.issued = schwab.issued + 1,
                                                        !.rotated = t]]
    <3>1. CASE rotate
      BY <1>0, <2>1, <2>2, <3>1
    <3>2. CASE ~ rotate
      BY <1>0, <2>1, <2>2, <3>2, LocalType
    <3> QED
      BY <3>1, <3>2
  <2>4. [local[p] EXCEPT !.issued = schwab.issued + 1, !.rotated = t] \in Local
    BY <2>2, LocalType
  <2>5. local' \in [Procs -> Local]
    BY <1>0, <2>3, <2>4
  <2> QED
    BY <1>0, <1>7, <2>2, <2>5 DEF TypeOK, Exchange, Goto, Labels
<1>8. ASSUME NEW p \in Procs, ExchangeFails(p)
      PROVE  TypeOK'
  <2>1. schwab' \in [issued : Token, refresh : Token, alive : SUBSET Token]
    BY <1>0, <1>8, IssueType DEF ExchangeFails
  <2> QED
    BY <1>0, <1>8, <2>1, EndType DEF TypeOK, ExchangeFails
<1>9. ASSUME NEW p \in Procs, UpsertRead(p)
      PROVE  TypeOK'
  <2>1. local' = [local EXCEPT ![p] = [local[p] EXCEPT !.version = row.version]]
    BY <1>0, <1>9 DEF UpsertRead
  <2>2. [local[p] EXCEPT !.version = row.version] \in Local
    BY LocalType, RowType
  <2>3. local' \in [Procs -> Local]
    BY <1>0, <2>1, <2>2
  <2> QED
    BY <1>0, <1>9, <2>3 DEF TypeOK, UpsertRead, Goto, Labels
<1>10. ASSUME NEW p \in Procs, UpsertCommit(p)
       PROVE  TypeOK'
  <2>1. row' \in [access : Token, refresh : Token, version : Nat]
    BY <1>10, LocalType DEF UpsertCommit
  <2>2. CASE p \in Callers
    BY <1>0, <1>10, <2>1, <2>2 DEF TypeOK, UpsertCommit, Goto, Labels
  <2>3. CASE p \notin Callers
    BY <1>0, <1>10, <2>1, <2>3, EndType DEF TypeOK, UpsertCommit
  <2> QED
    BY <2>2, <2>3
<1>11. ASSUME NEW p \in Procs, UpsertBusy(p)
       PROVE  TypeOK'
  BY <1>0, <1>11, EndType DEF TypeOK, UpsertBusy
<1>12. CASE Login
  <2>1. /\ schwab' \in [issued : Token, refresh : Token, alive : SUBSET Token]
        /\ schwab.issued + 1 \in Token
    BY <1>12, IssueType DEF Login
  <2>2. row' \in [access : Token, refresh : Token, version : Nat]
    BY <1>12, <2>1, RowType DEF Login
  <2> QED
    BY <1>0, <1>12, <2>1, <2>2 DEF TypeOK, Login
<1>13. CASE Expire
  <2>1. schwab' \in [issued : Token, refresh : Token, alive : SUBSET Token]
    <3>1. CASE schwab' = [schwab EXCEPT !.refresh = NoToken]
      BY <1>0, <3>1
    <3>2. CASE \E t \in schwab.alive : schwab' = [schwab EXCEPT !.alive = @ \ {t}]
      BY <1>0, <3>2
    <3> QED
      BY <1>13, <3>1, <3>2 DEF Expire
  <2> QED
    BY <1>0, <1>13, <2>1 DEF TypeOK, Expire
<1>14. CASE Restart
  BY <1>0, <1>14, NothingIsLocal DEF TypeOK, Restart, Labels
<1>15. CASE UNCHANGED vars
  BY <1>15 DEF TypeOK, vars
<1> QED
  BY <1>1, <1>2, <1>3, <1>4, <1>5, <1>6, <1>7, <1>8, <1>9, <1>10, <1>11, <1>12,
     <1>13, <1>14, <1>15 DEF Next, CallStep, RefreshStep

-----------------------------------------------------------------------------
(* The row *)

(* A pair stored is a newer one, and counted. *)
RowAdvances ==
  row' # row => row'.access > row.access /\ row'.version = row.version + 1

LEMMA RowNumbers ==
  ASSUME TypeOK
  PROVE  /\ row.access \in Nat /\ row.version \in Nat /\ schwab.issued \in Nat
         /\ \A p \in Procs : local[p].access \in Nat /\ local[p].issued \in Nat
BY RowType, LocalType, TokenNumbers

LEMMA RowNumbersPrime ==
  ASSUME TypeOK'
  PROVE  /\ row'.access \in Nat /\ row'.version \in Nat /\ schwab'.issued \in Nat
         /\ \A p \in Procs : local'[p].access \in Nat /\ local'[p].issued \in Nat
<1>1. /\ row' \in [access : Token, refresh : Token, version : Nat]
      /\ schwab' \in [issued : Token, refresh : Token, alive : SUBSET Token]
      /\ local' \in [Procs -> Local]
  BY DEF TypeOK, Local
<1> QED
  BY <1>1, TokenNumbers DEF Local

(* Every step that stores a pair stores a newer one and counts on; no      *)
(* other step touches the row.                                             *)
LEMMA RowStep ==
  ASSUME TokenInv, [Next]_vars
  PROVE  RowAdvances /\ RowInv' /\ schwab'.issued >= schwab.issued
<1>1. /\ TypeOK /\ TypeOK' /\ RowInv
      /\ \A c \in Callers : CallInv(c)
  BY TypeStep DEF TokenInv
<1>2. /\ row.access \in Int /\ row.version \in Int /\ schwab.issued \in Int
      /\ row'.access \in Int /\ schwab'.issued \in Int
  BY <1>1, RowNumbers, RowNumbersPrime
<1>3. ASSUME UNCHANGED row, schwab'.issued >= schwab.issued,
             \A w \in Watchdogs : pc'[w] = pc[w]
      PROVE  RowAdvances /\ RowInv' /\ schwab'.issued >= schwab.issued
  BY <1>1, <1>2, <1>3 DEF RowAdvances, RowInv
<1>4. schwab' = schwab => schwab'.issued >= schwab.issued
  BY <1>2
<1>5. ASSUME NEW c \in Callers, pc' = pc \/ End(c) \/ \E label \in Labels : Goto(c, label)
      PROVE  \A w \in Watchdogs : pc'[w] = pc[w]
  <2>1. \A w \in Watchdogs : w # c /\ w \in Procs /\ c \in Procs
    BY ProcsAssumption DEF Procs
  <2> QED
    BY <1>1, <1>5, <2>1 DEF End, Goto, TypeOK
<1>6. ASSUME NEW c \in Callers, Call(c) \/ CallStep(c)
      PROVE  RowAdvances /\ RowInv' /\ schwab'.issued >= schwab.issued
  <2>1. UNCHANGED <<row, schwab>>
    BY <1>6 DEF Call, CallStep, LoadToken, Answered, Unauthorized, Refresh
  <2>2. pc' = pc \/ End(c) \/ \E label \in Labels : Goto(c, label)
    BY <1>6 DEF Call, CallStep, LoadToken, Answered, Unauthorized, Refresh, Labels
  <2> QED
    BY <1>3, <1>4, <1>5, <2>1, <2>2
<1>7. ASSUME NEW w \in Watchdogs, Watchdog(w)
      PROVE  RowAdvances /\ RowInv' /\ schwab'.issued >= schwab.issued
  BY <1>3, <1>4, <1>7 DEF Watchdog
<1>8. ASSUME NEW p \in Procs, RefreshStep(p)
      PROVE  RowAdvances /\ RowInv' /\ schwab'.issued >= schwab.issued
  <2>1. p \in Callers
    BY <1>1, <1>8 DEF Procs, RowInv, RefreshStep, Exchange, ExchangeFails, UpsertRead,
       UpsertCommit, UpsertBusy
  <2>2. pc' = pc \/ End(p) \/ \E label \in Labels : Goto(p, label)
    BY <1>8, <2>1 DEF RefreshStep, Exchange, ExchangeFails, UpsertRead, UpsertCommit,
       UpsertBusy, Labels
  <2>3. \A w \in Watchdogs : pc'[w] = pc[w]
    BY <1>5, <2>1, <2>2
  <2>4. CASE Exchange(p) \/ ExchangeFails(p)
    <3>1. schwab' = schwab \/ \E rotate \in BOOLEAN : Issue(rotate)
      BY <2>4 DEF Exchange, ExchangeFails
    <3>2. schwab'.issued >= schwab.issued
      BY <1>1, <1>4, <3>1, IssueType
    <3> QED
      BY <1>3, <2>3, <2>4, <3>2 DEF Exchange, ExchangeFails
  <2>5. CASE UpsertRead(p) \/ UpsertBusy(p)
    BY <1>3, <1>4, <2>3, <2>5 DEF UpsertRead, UpsertBusy
  <2>6. CASE UpsertCommit(p)
    <3>1. /\ row.access < local[p].issued /\ local[p].issued <= schwab.issued
          /\ local[p].version = row.version
      BY <1>1, <2>1, <2>6 DEF UpsertCommit, CallInv
    <3>2. /\ row'.access = local[p].issued
          /\ row'.version = local[p].version + 1
          /\ UNCHANGED schwab
      BY <2>6 DEF UpsertCommit
    <3>3. row'.access > row.access /\ row'.access <= schwab'.issued
      BY <1>2, <3>1, <3>2
    <3> QED
      BY <1>1, <1>4, <2>3, <3>1, <3>2, <3>3 DEF RowAdvances, RowInv
  <2> QED
    BY <1>8, <2>4, <2>5, <2>6 DEF RefreshStep
<1>9. CASE Login
  <2>1. /\ schwab'.issued = schwab.issued + 1
        /\ row'.access = schwab.issued + 1
        /\ row'.version = row.version + 1
        /\ pc' = pc
    BY <1>1, <1>9, IssueType DEF Login
  <2>2. /\ row'.access > row.access /\ row'.access <= schwab'.issued
        /\ schwab'.issued >= schwab.issued
    BY <1>1, <1>2, <2>1 DEF RowInv
  <2> QED
    BY <1>1, <2>1, <2>2 DEF RowAdvances, RowInv
<1>10. CASE Expire
  <2>1. schwab'.issued = schwab.issued
    BY <1>1, <1>10 DEF Expire, TypeOK
  <2> QED
    BY <1>2, <1>3, <1>10, <2>1 DEF Expire
<1>11. CASE Restart
  BY <1>1, <1>3, <1>4, <1>11 DEF Restart, RowInv, Procs
<1>12. CASE UNCHANGED vars
  BY <1>3, <1>4, <1>12 DEF vars
<1> QED
  BY <1>6, <1>7, <1>8, <1>9, <1>10, <1>11, <1>12 DEF Next

-----------------------------------------------------------------------------
(* What single steps do to their process *)

(* The access token of LoadToken is the stored one. *)
LEMMA Loaded ==
  ASSUME TypeOK, NEW c \in Callers, LoadToken(c), row # NoRow
  PROVE  /\ local'[c].access = row.access
         /\ pc'[c] = "request" /\ UNCHANGED row
<1> c \in Procs
  BY DEF Procs
<1>1. pc'[c] = "request" /\ UNCHANGED row
  BY DEF LoadToken, Goto, TypeOK
<1> DEFINE retried == pc[c] = "reload"
<1>2. local'[c] = [local[c] EXCEPT !.access = row.access, !.retried = retried]
  BY DEF LoadToken, TypeOK
<1> HIDE DEF retried
<1>3. local'[c].access = row.access
  BY <1>2, LocalType DEF Local
<1> QED
  BY <1>1, <1>3

(* An exchange gives its process the newest pair. *)
LEMMA Exchanged ==
  ASSUME TypeOK, NEW p \in Procs, Exchange(p)
  PROVE  /\ pc[p] = "refreshing" /\ pc'[p] = "upserting"
         /\ schwab'.issued = schwab.issued + 1
         /\ local'[p].issued = schwab.issued + 1
         /\ local'[p].access = local[p].access
         /\ UNCHANGED <<row, refreshLock>>
<1>1. PICK rotate \in BOOLEAN :
        /\ Issue(rotate)
        /\ local' = [local EXCEPT
             ![p].issued = schwab.issued + 1,
             ![p].rotated = IF rotate THEN schwab.issued + 1 ELSE local[p].refresh]
  BY DEF Exchange
<1>2. local'[p] = [local[p] EXCEPT
             !.issued = schwab.issued + 1,
             !.rotated = IF rotate THEN schwab.issued + 1 ELSE local[p].refresh]
  BY <1>1 DEF TypeOK
<1>3. local'[p].issued = schwab.issued + 1 /\ local'[p].access = local[p].access
  BY <1>2, LocalType DEF Local
<1> QED
  BY <1>1, <1>3, IssueType DEF Exchange, Goto, TypeOK

(* The read of an upsert adds nothing but the version. *)
LEMMA UpsertLoaded ==
  ASSUME TypeOK, NEW p \in Procs, UpsertRead(p)
  PROVE  /\ pc[p] = "upserting" /\ pc'[p] = "saving"
         /\ local'[p].version = row.version
         /\ local'[p].issued = local[p].issued
         /\ local'[p].access = local[p].access
         /\ UNCHANGED <<row, schwab, refreshLock>>
<1>1. local'[p] = [local[p] EXCEPT !.version = row.version]
  BY DEF UpsertRead, TypeOK
<1>2. /\ local'[p].version = row.version
      /\ local'[p].issued = local[p].issued
      /\ local'[p].access = local[p].access
  BY <1>1, LocalType DEF Local
<1> QED
  BY <1>2 DEF UpsertRead, Goto, TypeOK

-----------------------------------------------------------------------------
(* The calls *)

(* A call that does not move keeps what it carries true unless the row     *)
(* changes, and the row changes under nobody in the lock.                  *)
LEMMA BystanderStep ==
  ASSUME TokenInv, TypeOK', NEW c \in Callers, schwab'.issued >= schwab.issued,
         pc'[c] = pc[c], local'[c] = local[c],
         refreshLock = c => refreshLock' = c,
         \/ UNCHANGED row
         \/ /\ row'.access > row.access
            /\ pc[c] \notin Refreshing
  PROVE  CallInv(c)'
<1>1. CallInv(c)
  BY DEF TokenInv
<1>2. /\ row.access \in Nat /\ row'.access \in Nat
      /\ schwab.issued \in Nat /\ schwab'.issued \in Nat
      /\ local[c].access \in Nat /\ local[c].issued \in Nat
  BY RowNumbers, RowNumbersPrime DEF TokenInv, Procs
<1>3. row # NoRow => row' # NoRow
  BY <1>2 DEF NoRow, NoToken
<1> QED
  BY <1>1, <1>2, <1>3 DEF CallInv, Refreshing

(* A call that has ended carries nothing. *)
LEMMA EndedStep ==
  ASSUME NEW c \in Callers, pc'[c] \in {"idle", "load"}
  PROVE  CallInv(c)'
BY DEF CallInv, Refreshing

LEMMA CallStepInv ==
  ASSUME TokenInv, [Next]_vars, NEW c \in Callers
  PROVE  CallInv(c)'
<1> USE ProcsAssumption DEF Procs
<1>1. TypeOK' /\ schwab'.issued >= schwab.issued
  BY TypeStep, RowStep DEF TokenInv
<1>2. TypeOK /\ CallInv(c)
  BY DEF TokenInv
<1>3. ASSUME NEW p \in Procs, p # c, End(p), UNCHANGED row
      PROVE  CallInv(c)'
  <2>1. pc'[c] = pc[c] /\ local'[c] = local[c] /\ (refreshLock = c => refreshLock' = c)
    BY <1>2, <1>3 DEF End, Goto, TypeOK
  <2> QED
    BY <1>1, <1>3, <2>1, BystanderStep
<1>4. ASSUME End(c)
      PROVE  CallInv(c)'
  BY <1>2, <1>4, EndedStep DEF End, Goto, TypeOK
<1>5. ASSUME NEW p \in Callers, Call(p)
      PROVE  CallInv(c)'
  <2>1. CASE p = c
    BY <1>2, <1>5, <2>1, EndedStep DEF Call, Goto, TypeOK
  <2>2. CASE p # c
    BY <1>1, <1>2, <1>5, <2>2, BystanderStep DEF Call, Goto, TypeOK
  <2> QED
    BY <2>1, <2>2
<1>6. ASSUME NEW p \in Callers, LoadToken(p)
      PROVE  CallInv(c)'
  <2>1. CASE row = NoRow
    BY <1>3, <1>4, <1>6, <2>1 DEF LoadToken
  <2>2. CASE row # NoRow /\ p = c
    <3>1. pc'[c] = "request" /\ local'[c].access = row.access /\ UNCHANGED row
      BY <1>2, <1>6, <2>2, Loaded
    <3>2. row.access \in Nat
      BY <1>2, RowNumbers
    <3> QED
      BY <2>2, <3>1, <3>2 DEF CallInv, Refreshing
  <2>3. CASE row # NoRow /\ p # c
    BY <1>1, <1>2, <1>6, <2>3, BystanderStep DEF LoadToken, Goto, TypeOK
  <2> QED
    BY <2>1, <2>2, <2>3
<1>7. ASSUME NEW p \in Callers, Answered(p)
      PROVE  CallInv(c)'
  BY <1>3, <1>4, <1>7 DEF Answered
<1>8. ASSUME NEW p \in Callers, Unauthorized(p)
      PROVE  CallInv(c)'
  <2>1. CASE local[p].retried
    BY <1>3, <1>4, <1>8, <2>1 DEF Unauthorized
  <2>2. CASE ~ local[p].retried /\ p = c
    <3>1. /\ pc[c] = "request" /\ pc'[c] = "waiting"
          /\ UNCHANGED <<row, schwab, refreshLock, local>>
      BY <1>2, <1>8, <2>2 DEF Unauthorized, Goto, TypeOK
    <3> QED
      BY <1>2, <3>1 DEF CallInv, Refreshing
  <2>3. CASE ~ local[p].retried /\ p # c
    BY <1>1, <1>2, <1>8, <2>3, BystanderStep DEF Unauthorized, Goto, TypeOK
  <2> QED
    BY <2>1, <2>2, <2>3
<1>9. ASSUME NEW p \in Callers, Refresh(p)
      PROVE  CallInv(c)'
  <2>1. CASE p = c
    <3>1. /\ pc[c] = "waiting" /\ pc'[c] = "refreshing"
          /\ refreshLock' = c
          /\ local'[c].refresh = row.refresh
          /\ local'[c].access = local[c].access
          /\ UNCHANGED <<row, schwab>>
      BY <1>2, <1>9, <2>1 DEF Refresh, Goto, TypeOK
    <3> QED
      BY <1>2, <3>1 DEF CallInv, Refreshing
  <2>2. CASE p # c
    BY <1>1, <1>2, <1>9, <2>2, BystanderStep DEF Refresh, Goto, TypeOK
  <2> QED
    BY <2>1, <2>2
<1>10. ASSUME NEW w \in Watchdogs, Watchdog(w)
       PROVE  CallInv(c)'
  BY <1>1, <1>10, BystanderStep DEF Watchdog
<1>11. ASSUME NEW p \in Procs, Exchange(p)
       PROVE  CallInv(c)'
  <2>1. PICK rotate \in BOOLEAN :
          /\ Issue(rotate)
          /\ local' = [local EXCEPT
               ![p].issued = schwab.issued + 1,
               ![p].rotated = IF rotate THEN schwab.issued + 1 ELSE local[p].refresh]
    BY <1>11 DEF Exchange
  <2>2. CASE p = c
    <3>1. /\ pc[c] = "refreshing" /\ pc'[c] = "upserting"
          /\ schwab'.issued = schwab.issued + 1
          /\ local'[c].issued = schwab.issued + 1
          /\ local'[c].access = local[c].access
          /\ UNCHANGED <<row, refreshLock>>
      BY <1>2, <1>11, <2>2, Exchanged
    <3>2. row.access <= schwab.issued /\ row.access \in Nat /\ schwab.issued \in Nat
      BY RowNumbers DEF TokenInv, RowInv
    <3> QED
      BY <1>2, <3>1, <3>2 DEF CallInv, Refreshing
  <2>3. CASE p # c
    BY <1>1, <1>2, <1>11, <2>1, <2>3, BystanderStep DEF Exchange, Goto, TypeOK
  <2> QED
    BY <2>2, <2>3
<1>12. ASSUME NEW p \in Procs, ExchangeFails(p)
       PROVE  CallInv(c)'
  BY <1>3, <1>4, <1>12 DEF ExchangeFails
<1>13. ASSUME NEW p \in Procs, UpsertRead(p)
       PROVE  CallInv(c)'
  <2>1. CASE p = c
    <3>1. /\ pc[c] = "upserting" /\ pc'[c] = "saving"
          /\ local'[c].version = row.version
          /\ local'[c].issued = local[c].issued
          /\ local'[c].access = local[c].access
          /\ UNCHANGED <<row, schwab, refreshLock>>
      BY <1>2, <1>13, <2>1, UpsertLoaded
    <3> QED
      BY <1>2, <3>1 DEF CallInv, Refreshing
  <2>2. CASE p # c
    BY <1>1, <1>2, <1>13, <2>2, BystanderStep DEF UpsertRead, Goto, TypeOK
  <2> QED
    BY <2>1, <2>2
<1>14. ASSUME NEW p \in Procs, UpsertCommit(p)
       PROVE  CallInv(c)'
  <2>1. p \in Callers /\ refreshLock = p /\ row'.access > row.access
    <3>1. p \in Callers
      BY <1>14 DEF TokenInv, RowInv, UpsertCommit
    <3> QED
      BY <1>14, <3>1 DEF TokenInv, TypeOK, Token, CallInv, Refreshing, UpsertCommit
  <2>2. CASE p = c
    <3>1. /\ pc[c] = "saving" /\ pc'[c] = "reload"
          /\ UNCHANGED <<local, schwab>>
          /\ row'.access > row.access
      BY <1>2, <1>14, <2>1, <2>2 DEF UpsertCommit, Goto, TypeOK
    <3>2. row.access \in Nat /\ row'.access \in Nat /\ local[c].access \in Nat
      BY <1>1, <1>2, RowNumbers, RowNumbersPrime
    <3>3. local[c].access <= row.access
      BY <1>2, <3>1 DEF CallInv, Refreshing
    <3>4. local'[c].access < row'.access /\ row' # NoRow
      BY <3>1, <3>2, <3>3 DEF NoRow, NoToken
    <3> QED
      BY <3>1, <3>4 DEF CallInv, Refreshing
  <2>3. CASE p # c
    <3>1. pc[c] \notin Refreshing
      BY <1>2, <2>1, <2>3 DEF CallInv
    <3> QED
      BY <1>1, <1>2, <1>14, <2>1, <2>3, <3>1, BystanderStep DEF UpsertCommit, Goto, TypeOK
  <2> QED
    BY <2>2, <2>3
<1>15. ASSUME NEW p \in Procs, UpsertBusy(p)
       PROVE  CallInv(c)'
  BY <1>3, <1>4, <1>15 DEF UpsertBusy
<1>16. CASE Login
  <2>1. pc'[c] \in {"idle", "load"}
    BY <1>2, <1>16 DEF Login, CallInv
  <2> QED
    BY <2>1, EndedStep
<1>17. CASE Expire
  BY <1>1, <1>17, BystanderStep DEF Expire
<1>18. CASE Restart
  BY <1>18, EndedStep DEF Restart
<1>19. CASE UNCHANGED vars
  BY <1>1, <1>19, BystanderStep DEF vars
<1> QED
  BY <1>5, <1>6, <1>7, <1>8, <1>9, <1>10, <1>11, <1>12, <1>13, <1>14, <1>15, <1>16,
     <1>17, <1>18, <1>19 DEF Next, CallStep, RefreshStep

-----------------------------------------------------------------------------
(* Theorems *)

LEMMA TokenInit ==
  ASSUME Init
  PROVE  TokenInv
<1>1. /\ row \in {NoRow, [access |-> 1, refresh |-> 1, version |-> 1]}
      /\ schwab = [issued |-> row.access, refresh |-> row.refresh,
                   alive |-> {row.access} \ {NoToken}]
      /\ refreshLock = None /\ writer = None
      /\ pc = [p \in Procs |-> "idle"]
      /\ local = [p \in Procs |-> NothingLocal]
      /\ watchdog = "nothing to do"
  BY DEF Init
<1>2. row \in [access : Token, refresh : Token, version : Nat]
  <2>1. 1 \in Token
    BY ProcsAssumption DEF Token
  <2>2. CASE row = NoRow
    BY <2>2, TokenNumbers DEF NoRow
  <2>3. CASE row = [access |-> 1, refresh |-> 1, version |-> 1]
    BY <2>1, <2>3
  <2> QED
    BY <1>1, <2>2, <2>3
<1>3. schwab \in [issued : Token, refresh : Token, alive : SUBSET Token]
  BY <1>1, <1>2
<1>4. TypeOK
  BY <1>1, <1>2, <1>3, NothingIsLocal DEF TypeOK, Labels, Local
<1>5. row.access <= schwab.issued
  <2>1. schwab.issued = row.access
    BY <1>1
  <2>2. row.access \in Nat
    BY <1>4, RowNumbers
  <2> QED
    BY <2>1, <2>2
<1>6. RowInv
  BY <1>1, <1>5 DEF RowInv, Procs
<1>7. \A c \in Callers : CallInv(c)
  BY <1>1 DEF CallInv, Refreshing, Procs
<1> QED
  BY <1>4, <1>6, <1>7 DEF TokenInv

(* The inductive invariant of the token refresh. *)
THEOREM Inductive == Spec => []TokenInv
<1>1. TokenInv /\ [Next]_vars => TokenInv'
  BY TypeStep, RowStep, CallStepInv DEF TokenInv
<1> QED
  BY <1>1, TokenInit, PTL DEF Spec

(* However many calls meet an expired token at once, what is presented to  *)
(* the token endpoint is the refresh token that is stored.                 *)
THEOREM StoredTokenIsUsed == Spec => []RefreshesStoredToken
<1>1. TokenInv => RefreshesStoredToken
  BY DEF TokenInv, CallInv, RefreshesStoredToken
<1> QED
  BY <1>1, Inductive, PTL

(* Whatever refreshes, logins, failures and restarts interleave, the       *)
(* stored pair is only replaced by a later one, and each time its version  *)
(* grows by one.                                                           *)
THEOREM PairsOnlyAdvance == Spec => TokensOnlyAdvance
<1>1. TokenInv /\ [Next]_vars =>
        [row' # row => row'.access > row.access /\ row'.version = row.version + 1]_vars
  BY RowStep DEF RowAdvances
<1> QED
  BY <1>1, Inductive, PTL DEF Spec, TokensOnlyAdvance

(* The second try of a call goes out with a later token than its first,    *)
(* although others may have refreshed while it waited.                     *)
THEOREM SecondTriesAreNewer == Spec => RetriesWithNewerToken
<1>1. ASSUME TokenInv, [Next]_vars, NEW c \in Callers, pc[c] = "reload", pc'[c] = "request"
      PROVE  local'[c].access > local[c].access
  <2> USE ProcsAssumption DEF Procs
  <2>1. /\ TypeOK /\ CallInv(c)
        /\ row.access \in Nat /\ local[c].access \in Nat
    BY <1>1, RowNumbers DEF TokenInv
  <2>2. ASSUME NEW p \in Procs, End(p)
        PROVE  FALSE
    BY <1>1, <2>1, <2>2 DEF End, Goto, TypeOK
  <2>3. LoadToken(c)
    <3>1. ASSUME NEW p \in Callers, Call(p) \/ CallStep(p)
          PROVE  LoadToken(c)
      BY <1>1, <2>1, <2>2, <3>1 DEF Call, CallStep, LoadToken, Answered, Unauthorized,
         Refresh, Goto, TypeOK
    <3>2. ASSUME NEW p \in Procs, RefreshStep(p)
          PROVE  FALSE
      BY <1>1, <2>1, <2>2, <3>2 DEF RefreshStep, Exchange, ExchangeFails, UpsertRead,
         UpsertCommit, UpsertBusy, Goto, TypeOK
    <3> QED
      BY <1>1, <3>1, <3>2 DEF Next, vars, Watchdog, Login, Expire, Restart
  <2>4. local'[c].access = row.access
    BY <2>1, <2>2, <2>3, Loaded DEF LoadToken
  <2> QED
    BY <1>1, <2>1, <2>4 DEF CallInv
<1>2. TokenInv /\ [Next]_vars =>
        [\A c \in Callers :
           pc[c] = "reload" /\ pc'[c] = "request" =>
             local'[c].access > local[c].access]_vars
  BY <1>1
<1> QED
  BY <1>2, Inductive, PTL DEF Spec, RetriesWithNewerToken
=============================================================================
