---------------------------- MODULE SchwabTokens ----------------------------
(***************************************************************************)
(* The life of the OAuth tokens: SchwabApiClient._request with its one     *)
(* refresh on a 401 (broker/schwab/client.py), the token endpoint behind   *)
(* SchwabOAuthClient, the single broker_tokens row of TokenRepository, and *)
(* the watchdog job that would refresh without the client's lock.          *)
(*                                                                         *)
(* A refresh is a read of the row, an exchange at Schwab that may replace  *)
(* the refresh token for good, and a commit of what came back.  The commit *)
(* needs SQLite's write lock, which a caller may hold itself: submit_order *)
(* and, in account_sync, get_positions are called inside a transaction     *)
(* that has already written.                                               *)
(***************************************************************************)
EXTENDS Integers

CONSTANTS
  Callers,      \* API calls in flight
  Writers,      \* those made inside a transaction that has written
  Watchdogs,    \* runs of token_watchdog
  MaxIssued,    \* bound of the model on the pairs Schwab issues
  None

Procs == Callers \cup Watchdogs

ASSUME ProcsAssumption ==
  /\ Writers \subseteq Callers
  /\ Callers \cap Watchdogs = {}
  /\ None \notin Procs
  /\ MaxIssued \in Nat \ {0}

VARIABLES
  row,          \* the broker_tokens row; tokens are numbered as issued
  schwab,       \* what Schwab issued and still accepts
  refreshLock,  \* holder of the client's _refresh_lock, or None
  writer,       \* holder of SQLite's write lock, or None
  pc,
  local,        \* tokens a process carries
  watchdog      \* how the last run of the watchdog job ended

vars == <<row, schwab, refreshLock, writer, pc, local, watchdog>>

-----------------------------------------------------------------------------

NoToken == 0
Token == 0 .. MaxIssued
NoRow == [access |-> NoToken, refresh |-> NoToken, version |-> 0]
NothingLocal == [access |-> NoToken, refresh |-> NoToken, version |-> 0,
                 issued |-> NoToken, rotated |-> NoToken, retried |-> FALSE]
Labels == {"idle", "load", "request", "waiting", "refreshing",
           "upserting", "saving", "reload"}

TypeOK ==
  /\ row \in [access : Token, refresh : Token, version : Nat]
  /\ schwab \in [issued : Token, refresh : Token, alive : SUBSET Token]
  /\ refreshLock \in Callers \cup {None}
  /\ writer \in Writers \cup {None}
  /\ pc \in [Procs -> Labels]
  /\ local \in [Procs -> [access : Token, refresh : Token, version : Nat,
                          issued : Token, rotated : Token, retried : BOOLEAN]]
  /\ watchdog \in {"nothing to do", "TypeError", "refreshed"}

Init ==
  /\ row \in {NoRow, [access |-> 1, refresh |-> 1, version |-> 1]}
  /\ schwab = [issued |-> row.access, refresh |-> row.refresh,
               alive |-> {row.access} \ {NoToken}]
  /\ refreshLock = None
  /\ writer = None
  /\ pc = [p \in Procs |-> "idle"]
  /\ local = [p \in Procs |-> NothingLocal]
  /\ watchdog = "nothing to do"

Goto(p, label) == pc' = [pc EXCEPT ![p] = label]

(* Process p is over: locks it holds are released. *)
End(p) ==
  /\ Goto(p, "idle")
  /\ local' = [local EXCEPT ![p] = NothingLocal]
  /\ refreshLock' = IF refreshLock = p THEN None ELSE refreshLock
  /\ writer' = IF writer = p THEN None ELSE writer

-----------------------------------------------------------------------------
(* _request                                                                *)

Call(c) ==
  /\ pc[c] = "idle"
  /\ Goto(c, "load")
  /\ IF c \in Writers THEN writer = None /\ writer' = c ELSE UNCHANGED writer
  /\ UNCHANGED <<row, schwab, refreshLock, local, watchdog>>

(* Mutant of LoadToken: the headers of the first try are sent again. *)
LoadTokenOnce(c) ==
  /\ pc[c] \in {"load", "reload"}
  /\ IF row = NoRow
       THEN End(c)
       ELSE /\ Goto(c, "request")
            /\ local' = [local EXCEPT ![c].access = IF @ = NoToken THEN row.access ELSE @,
                                      ![c].retried = pc[c] = "reload"]
            /\ UNCHANGED <<refreshLock, writer>>
  /\ UNCHANGED <<row, schwab, watchdog>>

(* get_active: without a row the call ends in AuthExpiredError.  The same  *)
(* query finds the token of the second try.                                *)
LoadToken(c) ==
  /\ pc[c] \in {"load", "reload"}
  /\ IF row = NoRow
       THEN End(c)
       ELSE /\ Goto(c, "request")
            /\ local' = [local EXCEPT ![c].access = row.access,
                                      ![c].retried = pc[c] = "reload"]
            /\ UNCHANGED <<refreshLock, writer>>
  /\ UNCHANGED <<row, schwab, watchdog>>

(* Any answer but a 401, or no answer: the call is over.  (429 and 5xx are *)
(* tried again with the same token, which changes nothing here.)           *)
Answered(c) ==
  /\ pc[c] = "request"
  /\ local[c].access \in schwab.alive
  /\ End(c)
  /\ UNCHANGED <<row, schwab, watchdog>>

(* A second 401 is AuthExpiredError. *)
Unauthorized(c) ==
  /\ pc[c] = "request"
  /\ local[c].access \notin schwab.alive
  /\ IF local[c].retried
       THEN End(c)
       ELSE Goto(c, "waiting") /\ UNCHANGED <<refreshLock, writer, local>>
  /\ UNCHANGED <<row, schwab, watchdog>>

-----------------------------------------------------------------------------
(* _refresh_tokens(force=True) and refresh_access_token                    *)

(* Mutant of Refresh: without the lock. *)
RefreshUnlocked(c) ==
  /\ pc[c] = "waiting"
  /\ Goto(c, "refreshing")
  /\ local' = [local EXCEPT ![c].refresh = row.refresh]
  /\ UNCHANGED <<row, schwab, refreshLock, writer, watchdog>>

(* The lock is taken and the row read again.  A row found is never gone    *)
(* later: nothing in src/ calls TokenRepository.delete.                    *)
Refresh(c) ==
  /\ pc[c] = "waiting"
  /\ refreshLock = None
  /\ refreshLock' = c
  /\ Goto(c, "refreshing")
  /\ local' = [local EXCEPT ![c].refresh = row.refresh]
  /\ UNCHANGED <<row, schwab, writer, watchdog>>

(* Mutant of Watchdog: the comparison works. *)
WatchdogAware(w) ==
  /\ pc[w] = "idle"
  /\ row # NoRow
  /\ Goto(w, "refreshing")
  /\ local' = [local EXCEPT ![w].refresh = row.refresh]
  /\ watchdog' = "refreshed"
  /\ UNCHANGED <<row, schwab, refreshLock, writer>>

(* token_watchdog: False without a row.  With one, its expiry is compared  *)
(* with an aware now; SQLite hands DateTime(timezone=True) columns back    *)
(* naive (readiness.py's _ensure_utc is there for that), and the           *)
(* comparison raises TypeError before anything is refreshed.               *)
Watchdog(w) ==
  /\ pc[w] = "idle"
  /\ watchdog' = IF row = NoRow THEN "nothing to do" ELSE "TypeError"
  /\ UNCHANGED <<row, schwab, refreshLock, writer, pc, local>>

(* Schwab issues a pair; its refresh token is a new one or the old one     *)
(* again (or is left out of the answer, which means the same).             *)
Issue(rotate) ==
  /\ schwab.issued < MaxIssued
  /\ schwab' = [issued |-> schwab.issued + 1,
                refresh |-> IF rotate THEN schwab.issued + 1 ELSE schwab.refresh,
                alive |-> schwab.alive \cup {schwab.issued + 1}]

Exchange(p) ==
  /\ pc[p] = "refreshing"
  /\ local[p].refresh = schwab.refresh
  /\ \E rotate \in BOOLEAN :
       /\ Issue(rotate)
       /\ local' = [local EXCEPT
            ![p].issued = schwab.issued + 1,
            ![p].rotated = IF rotate THEN schwab.issued + 1 ELSE local[p].refresh]
  /\ Goto(p, "upserting")
  /\ UNCHANGED <<row, refreshLock, writer, watchdog>>

(* raise_for_status, or the answer was lost after Schwab had acted. *)
ExchangeFails(p) ==
  /\ pc[p] = "refreshing"
  /\ \/ UNCHANGED schwab
     \/ local[p].refresh = schwab.refresh /\ \E rotate \in BOOLEAN : Issue(rotate)
  /\ End(p)
  /\ UNCHANGED <<row, watchdog>>

-----------------------------------------------------------------------------
(* upsert_tokens                                                           *)

(* The row is loaded, and with it the version to count on from. *)
UpsertRead(p) ==
  /\ pc[p] = "upserting"
  /\ Goto(p, "saving")
  /\ local' = [local EXCEPT ![p].version = row.version]
  /\ UNCHANGED <<row, schwab, refreshLock, writer, watchdog>>

(* Committed; the caller leaves the lock and goes on, the watchdog is done. *)
UpsertCommit(p) ==
  /\ pc[p] = "saving"
  /\ writer = None
  /\ row' = [access |-> local[p].issued, refresh |-> local[p].rotated,
             version |-> local[p].version + 1]
  /\ IF p \in Callers
       THEN /\ Goto(p, "reload")
            /\ refreshLock' = IF refreshLock = p THEN None ELSE refreshLock
            /\ UNCHANGED <<writer, local>>
       ELSE End(p)
  /\ UNCHANGED <<schwab, watchdog>>

(* Mutant of UpsertBusy: the commit waits for ever. *)
UpsertBusyForEver(p) ==
  /\ FALSE
  /\ End(p)
  /\ UNCHANGED <<row, schwab, watchdog>>

(* "database is locked": the pair Schwab issued is lost with the call. *)
UpsertBusy(p) ==
  /\ pc[p] = "saving"
  /\ writer # None
  /\ End(p)
  /\ UNCHANGED <<row, schwab, watchdog>>

-----------------------------------------------------------------------------
(* Schwab, the operator and the process                                    *)

(* scripts/schwab_oauth_login.py, or the callback route: "you only do this *)
(* once", before there is a row, and again when "the bot has been off" for *)
(* so long that the refresh token is dead.  Like every refresh it goes     *)
(* through upsert_tokens, here with nothing in flight that could overtake. *)
Login ==
  /\ \/ row = NoRow
     \/ row.refresh # schwab.refresh /\ \A p \in Procs : pc[p] = "idle"
  /\ writer = None
  /\ Issue(TRUE)
  /\ row' = [access |-> schwab.issued + 1, refresh |-> schwab.issued + 1,
             version |-> row.version + 1]
  /\ UNCHANGED <<refreshLock, writer, pc, local, watchdog>>

(* Access tokens expire after half an hour, refresh tokens after a week. *)
Expire ==
  /\ \/ \E t \in schwab.alive : schwab' = [schwab EXCEPT !.alive = @ \ {t}]
     \/ schwab' = [schwab EXCEPT !.refresh = NoToken]
  /\ UNCHANGED <<row, refreshLock, writer, pc, local, watchdog>>

Restart ==
  /\ refreshLock' = None
  /\ writer' = None
  /\ pc' = [p \in Procs |-> "idle"]
  /\ local' = [p \in Procs |-> NothingLocal]
  /\ UNCHANGED <<row, schwab, watchdog>>

CallStep(c) ==
  \/ LoadToken(c)
  \/ Answered(c)
  \/ Unauthorized(c)
  \/ Refresh(c)

RefreshStep(p) ==
  \/ Exchange(p)
  \/ ExchangeFails(p)
  \/ UpsertRead(p)
  \/ UpsertCommit(p)
  \/ UpsertBusy(p)

Next ==
  \/ \E c \in Callers : Call(c) \/ CallStep(c)
  \/ \E w \in Watchdogs : Watchdog(w)
  \/ \E p \in Procs : RefreshStep(p)
  \/ Login
  \/ Expire
  \/ Restart

Spec == Init /\ [][Next]_vars

(* Calls in flight run on: HTTP times out, the busy timeout expires, and   *)
(* asyncio.Lock serves its waiters in order, so that a waiter is not       *)
(* overtaken for ever (SF).                                                *)
Fairness ==
  /\ \A c \in Callers : WF_vars(CallStep(c)) /\ SF_vars(Refresh(c))
  /\ \A p \in Procs : WF_vars(RefreshStep(p))

FairSpec == Spec /\ Fairness

-----------------------------------------------------------------------------
(* Properties                                                              *)

(* What is sent to the token endpoint is the stored refresh token, not one *)
(* that another call has meanwhile used up: a waiter on the lock reads     *)
(* again after it got it.                                                  *)
RefreshesStoredToken ==
  \A c \in Callers : pc[c] = "refreshing" => local[c].refresh = row.refresh

(* The stored pair only moves to a later one, and its version counts every *)
(* rotation: concurrent read-modify-writes of upsert_tokens lose nothing.  *)
TokensOnlyAdvance ==
  [][row' # row => /\ row'.access > row.access
                   /\ row'.version = row.version + 1]_vars

(* The second try of a call is made with a token issued after the one that *)
(* was refused, whoever refreshed meanwhile.                               *)
RetriesWithNewerToken ==
  [][\A c \in Callers :
       pc[c] = "reload" /\ pc'[c] = "request" =>
         local'[c].access > local[c].access]_vars

(* Two calls that wait for each other, one for the refresh lock and one    *)
(* for the database, both end.                                             *)
CallsAreAnswered ==
  \A p \in Callers : pc[p] # "idle" ~> pc[p] = "idle"
=============================================================================
