---------------------------- MODULE OptionChains ----------------------------
(***************************************************************************)
(* The chain_snapshots table, its three writers and the IV watcher that    *)
(* reads it: ChainService.pull behind two cron jobs and POST               *)
(* /chains/{u}/refresh, PolygonIngestion.backfill behind the nightly job   *)
(* and scripts/polygon_backfill.py (another process on the same file), and *)
(* IvWatcher.scan, which records iv_spike_events.                          *)
(*                                                                         *)
(* Every step ends at an await.  The writers flush and commit without      *)
(* waiting for anything else, so each commit is one step; it may find the  *)
(* database locked by somebody else for longer than the busy timeout.      *)
(***************************************************************************)
EXTENDS Integers, Sequences, FiniteSets, FiniteSetsExt

CONSTANTS
  Underlyings,
  Watch,            \* settings.watchlist, in order
  Contracts,        \* option contracts
  Listed,           \* those of each underlying
  KeyOf,            \* their expiration, type and strike
  Vols,             \* implied volatilities, perhaps None
  Market,           \* the volatility of each contract at each time
  Pulls,            \* concurrent pulls: the two jobs and refresh requests
  Nightly, Script,  \* the two backfills
  Lists,            \* the underlyings each of them goes through
  Days,             \* and its days of history
  DayLength,        \* ticks of the clock in a day
  Close,            \* tick of the day of the 20:00 UTC fallback time
  Window,           \* ticks of the watcher's four hours
  Limit,            \* rows recent_implied_vols returns at most
  Threshold,        \* iv_spike_threshold_pct
  Tries,            \* tries of one Polygon request
  MaxTime,          \* bound of the model on the clock
  None

Backfills == {Nightly, Script}
Times == 0 .. MaxTime
Day(t) == t \div DayLength

(* An empty list is a loop that does nothing.  *)
ASSUME ChainAssumption ==
  /\ Watch \in Seq(Underlyings) /\ Watch # <<>>
  /\ IsFiniteSet(Contracts)
  /\ Vols \ {None} \subseteq Nat
  /\ Listed \in [Underlyings -> SUBSET Contracts]
  /\ Market \in [0 .. MaxTime -> [Contracts -> Vols]]
  /\ {DayLength, Limit, Tries} \subseteq Nat \ {0}
  /\ Lists \in [Backfills -> Seq(Underlyings) \ {<<>>}]
  /\ Days \in [Backfills -> Nat \ {0}]
  /\ {Close, Window, Threshold, MaxTime} \subseteq Nat
  /\ Nightly # Script

VARIABLES
  rows,             \* committed chain_snapshots
  events,           \* committed iv_spike_events
  now,              \* the clock
  pull,             \* what each pull is doing
  fill,             \* what each backfill is doing
  scan              \* what the watcher is doing

vars == <<rows, events, now, pull, fill, scan>>

Row == [u : Underlyings, time : Int, key : {KeyOf[c] : c \in Contracts},
        iv : Vols, source : {"SCHWAB", "POLYGON"}]
Event == [u : Underlyings, at : Times]

(* uq_chain_snapshots_key *)
SameKey(r, q) ==
  r.u = q.u /\ r.time = q.time /\ r.key = q.key /\ r.source = q.source

NoPull == [step |-> "idle", todo |-> <<>>]
NoFill == [step |-> "idle", todo |-> <<>>, cursor |-> 0, last |-> 0,
           attempt |-> 0, answer |-> {}, batch |-> {}, kept |-> {}]
NoScan == [step |-> "idle", todo |-> <<>>, at |-> 0]

TypeOK ==
  /\ rows \subseteq Row
  /\ events \subseteq Event
  /\ now \in Times
  /\ pull \in [Pulls -> [step : {"idle", "fetch"}, todo : Seq(Underlyings)]]
  /\ fill \in [Backfills ->
                 [step : {"idle", "fetch", "check"},
                  todo : Seq(Underlyings), cursor : Int, last : Int,
                  attempt : Nat, answer : SUBSET Row, batch : SUBSET Row,
                  kept : SUBSET Row]]
  /\ scan \in [step : {"idle", "read", "check", "insert"},
               todo : Seq(Underlyings), at : Times]

Init ==
  /\ rows = {}
  /\ events = {}
  /\ now = 0
  /\ pull = [p \in Pulls |-> NoPull]
  /\ fill = [b \in Backfills |-> NoFill]
  /\ scan = NoScan

Tick ==
  /\ now < MaxTime
  /\ now' = now + 1
  /\ UNCHANGED <<rows, events, pull, fill, scan>>

-----------------------------------------------------------------------------
(* ChainService                                                            *)

(* pull_watchlist of the jobs, pull of POST /chains/{u}/refresh. *)
PullStart(p, list) ==
  /\ pull[p].step = "idle"
  /\ pull' = [pull EXCEPT ![p] = [NoPull EXCEPT !.step = "fetch", !.todo = list]]
  /\ UNCHANGED <<rows, events, now, fill, scan>>

(* Mutant of Replaced: the DELETE without its data_source. *)
ReplacedAnySource(u, time) == {r \in rows : r.u = u /\ r.time = time}

(* The rows of the DELETE that a pull begins with. *)
Replaced(u, time) ==
  {r \in rows : r.u = u /\ r.time = time /\ r.source = "SCHWAB"}

(* get_chain answered a chain without contracts: the DELETE of what was    *)
(* quoted at its time is committed, and the next underlying is pulled.     *)
(* Nothing but the write lock is waited for between answer and commit.     *)
PullEmpty(p, quoted) ==
  /\ pull[p].step = "fetch"
  /\ rows' = rows \ Replaced(Head(pull[p].todo), quoted)
  /\ pull' = [pull EXCEPT ![p] =
                IF Len(pull[p].todo) = 1 THEN NoPull
                ELSE [NoPull EXCEPT !.step = "fetch", !.todo = Tail(pull[p].todo)]]
  /\ UNCHANGED <<events, now, fill, scan>>

(* get_chain raised, the database was locked, or the chain had a contract: *)
(* its expiration_date is a string, which SQLite's Date type refuses at    *)
(* the flush, and the DELETE is rolled back.  The rest of the watchlist is *)
(* not pulled.                                                             *)
PullFails(p) ==
  /\ pull[p].step = "fetch"
  /\ pull' = [pull EXCEPT ![p] = NoPull]
  /\ UNCHANGED <<rows, events, now, fill, scan>>

-----------------------------------------------------------------------------
(* PolygonIngestion                                                        *)

(* A backfill of the first of todo, from its first day up to today. *)
Turn(b, todo) ==
  [NoFill EXCEPT !.step = "fetch", !.todo = todo,
                 !.cursor = Day(now) - (Days[b] - 1), !.last = Day(now)]

FillStart(b) ==
  /\ fill[b].step = "idle"
  /\ fill' = [fill EXCEPT ![b] = Turn(b, Lists[b])]
  /\ UNCHANGED <<rows, events, now, pull, scan>>

(* 429 or 5xx: up to two more tries of the same request. *)
FillRetry(b) ==
  /\ fill[b].step = "fetch"
  /\ fill[b].attempt + 1 < Tries
  /\ fill' = [fill EXCEPT ![b].attempt = fill[b].attempt + 1]
  /\ UNCHANGED <<rows, events, now, pull, scan>>

(* map_option_chain_rows: when the quote was last updated, or else 20:00   *)
(* of the day the request was made for.                                    *)
QuoteTime(updated, cursor) ==
  IF updated = None THEN cursor * DayLength + Close ELSE updated

(* The snapshot endpoint gives the volatility of now, whichever day of the *)
(* past the loop has come to.                                              *)
PolygonRow(b, c, updated) ==
  [u |-> Head(fill[b].todo), time |-> QuoteTime(updated, fill[b].cursor),
   key |-> KeyOf[c], iv |-> Market[now][c], source |-> "POLYGON"]

(* The contracts C are listed, and have a last update or not. *)
FillAnswered(b, C, updated) ==
  /\ fill[b].step = "fetch"
  /\ LET batch == {PolygonRow(b, c, updated) : c \in C}
     IN fill' = [fill EXCEPT ![b].step = "check", ![b].attempt = 0,
                             ![b].answer = batch, ![b].batch = batch]
  /\ UNCHANGED <<rows, events, now, pull, scan>>

(* Mutant of Exists: the row that is there may be of another time. *)
ExistsAnyTime(r) == \E q \in rows : q.u = r.u /\ q.key = r.key

Exists(r) == \E q \in rows : SameKey(q, r)

(* _persist_rows: one SELECT for each row of the batch.  The session does  *)
(* not autoflush, so a row added before is not seen.                       *)
FillCheck(b, r) ==
  /\ fill[b].step = "check"
  /\ r \in fill[b].batch
  /\ fill' = [fill EXCEPT ![b].batch = fill[b].batch \ {r},
                          ![b].kept = IF Exists(r) THEN fill[b].kept
                                      ELSE fill[b].kept \cup {r}]
  /\ UNCHANGED <<rows, events, now, pull, scan>>

(* Another backfill committed one of the rows in the meantime, or two      *)
(* contracts of the batch share their key.                                 *)
Conflict(kept) ==
  \/ \E r \in kept : Exists(r)
  \/ \E r, q \in kept : r # q /\ SameKey(r, q)

(* Mutant of Advance: the cursor stays. *)
AdvanceStuck(b) ==
  fill' = [fill EXCEPT ![b] =
    IF fill[b].cursor < fill[b].last
      THEN [fill[b] EXCEPT !.step = "fetch", !.answer = {}, !.kept = {}]
      ELSE NoFill]

(* The next day, the next underlying, or the end. *)
Advance(b) ==
  fill' = [fill EXCEPT ![b] =
    CASE fill[b].cursor < fill[b].last ->
           [fill[b] EXCEPT !.step = "fetch", !.cursor = fill[b].cursor + 1,
                           !.answer = {}, !.kept = {}]
      [] fill[b].cursor = fill[b].last /\ Len(fill[b].todo) > 1 ->
           Turn(b, Tail(fill[b].todo))
      [] OTHER -> NoFill]

(* session.commit() of one day. *)
FillCommit(b) ==
  /\ fill[b].step = "check"
  /\ fill[b].batch = {}
  /\ ~ Conflict(fill[b].kept)
  /\ rows' = rows \cup fill[b].kept
  /\ Advance(b)
  /\ UNCHANGED <<events, now, pull, scan>>

(* The last try of a request, any other error of it, an IntegrityError at  *)
(* the commit or a locked database: the rest of the days and of the        *)
(* watchlist is given up, and what was committed stays.                    *)
FillFails(b) ==
  /\ fill[b].step # "idle"
  /\ fill' = [fill EXCEPT ![b] = NoFill]
  /\ UNCHANGED <<rows, events, now, pull, scan>>

-----------------------------------------------------------------------------
(* IvWatcher.scan                                                          *)

ScanStart ==
  /\ scan.step = "idle"
  /\ scan' = [NoScan EXCEPT !.step = "read", !.todo = Watch]
  /\ UNCHANGED <<rows, events, now, pull, fill>>

(* recent_implied_vols(u): the Limit newest rows that have a volatility.   *)
(* Rows of one time come in any order, so any of the oldest may be left    *)
(* out.                                                                    *)
Series(u) ==
  LET all == {r \in rows : r.u = u /\ r.iv # None}
      size == Min({Limit, Cardinality(all)})
  IN {T \in kSubset(size, all) : \A r \in T, q \in all \ T : r.time >= q.time}

(* iv_percentile(current, ivs) * |ivs| / 100 *)
AtOrBelow(current, T) == Cardinality({r \in T : r.iv <= current})

(* The two thresholds of scan; the floor is the smallest of the series.    *)
Spikes(current, T) ==
  LET floor == Min({r.iv : r \in T})
  IN /\ 100 * AtOrBelow(current, T) >= Threshold * Cardinality(T)
     /\ floor > 0
     /\ 100 * (current - floor) >= Threshold * floor

(* ivs[-1] of a series in descending order of time: one of its oldest. *)
Oldest(T) == {r \in T : \A q \in T : r.time <= q.time}
Newest(T) == {r \in T : \A q \in T : r.time >= q.time}

NextUnderlying ==
  IF Len(scan.todo) = 1 THEN NoScan
  ELSE [NoScan EXCEPT !.step = "read", !.todo = Tail(scan.todo)]

ScanQuiet(T) ==
  /\ scan.step = "read"
  /\ T \in Series(Head(scan.todo))
  /\ T # {} => \E r \in Oldest(T) : ~ Spikes(r.iv, T)
  /\ scan' = NextUnderlying
  /\ UNCHANGED <<rows, events, now, pull, fill>>

ScanSpike(T) ==
  /\ scan.step = "read"
  /\ T \in Series(Head(scan.todo))
  /\ \E r \in Oldest(T) : Spikes(r.iv, T)
  /\ scan' = [scan EXCEPT !.step = "check"]
  /\ UNCHANGED <<rows, events, now, pull, fill>>

(* Mutant of RecentEvent: an event of the very end of the window is over. *)
RecentEventPast(u) ==
  \E e \in events : e.u = u /\ e.at > now - Window

(* exists_recent *)
RecentEvent(u) == \E e \in events : e.u = u /\ e.at >= now - Window

ScanSeen ==
  /\ scan.step = "check"
  /\ RecentEvent(Head(scan.todo))
  /\ scan' = NextUnderlying
  /\ UNCHANGED <<rows, events, now, pull, fill>>

(* triggered_at is taken before the insert is committed. *)
ScanTrigger ==
  /\ scan.step = "check"
  /\ ~ RecentEvent(Head(scan.todo))
  /\ scan' = [scan EXCEPT !.step = "insert", !.at = now]
  /\ UNCHANGED <<rows, events, now, pull, fill>>

(* The event is committed; on_spike is None, and nothing else happens. *)
ScanInsert ==
  /\ scan.step = "insert"
  /\ events' = events \cup {[u |-> Head(scan.todo), at |-> scan.at]}
  /\ scan' = NextUnderlying
  /\ UNCHANGED <<rows, now, pull, fill>>

(* The database was locked: the rest of the watchlist is not looked at. *)
ScanFails ==
  /\ scan.step = "insert"
  /\ scan' = NoScan
  /\ UNCHANGED <<rows, events, now, pull, fill>>

-----------------------------------------------------------------------------

(* The process dies and comes back; the script is another process. *)
Restart ==
  /\ pull' = [p \in Pulls |-> NoPull]
  /\ fill' = [fill EXCEPT ![Nightly] = NoFill]
  /\ scan' = NoScan
  /\ UNCHANGED <<rows, events, now>>

PullStep(p) ==
  \/ \E quoted \in 0 .. now : PullEmpty(p, quoted)
  \/ PullFails(p)

FillStep(b) ==
  \/ FillRetry(b)
  \/ fill[b].step = "fetch" /\
     \E C \in SUBSET Listed[Head(fill[b].todo)], updated \in {now, None} :
       FillAnswered(b, C, updated)
  \/ \E r \in fill[b].batch : FillCheck(b, r)
  \/ FillCommit(b)
  \/ FillFails(b)

ScanStep ==
  \/ scan.step = "read" /\ \E T \in Series(Head(scan.todo)) :
       ScanQuiet(T) \/ ScanSpike(T)
  \/ ScanSeen
  \/ ScanTrigger
  \/ ScanInsert
  \/ ScanFails

Next ==
  \/ Tick
  \/ \E p \in Pulls :
       \/ PullStart(p, Watch)
       \/ \E u \in Underlyings : PullStart(p, <<u>>)
       \/ PullStep(p)
  \/ \E b \in Backfills : FillStart(b) \/ FillStep(b)
  \/ ScanStart
  \/ ScanStep
  \/ Restart

Spec == Init /\ [][Next]_vars

-----------------------------------------------------------------------------
(* Properties                                                              *)

(* One rise in volatility is one event: two events of an underlying are    *)
(* more than the window apart, although the insert comes after the check,  *)
(* time passes in between and the process may restart anywhere.            *)
EventsAreSpaced ==
  \A e, f \in events :
    e.u = f.u /\ e.at < f.at => f.at - e.at > Window

(* The history a backfill has built is never taken back or changed, by a   *)
(* pull of the same underlying and time or by another backfill.            *)
HistoryIsKept ==
  [][{r \in rows : r.source = "POLYGON"} \subseteq rows']_rows

(* When a backfill commits a day, every quote of the day's answer has its  *)
(* row: those it left out are really there, the batch is whole, and a      *)
(* backfill of the other process in between takes nothing away.            *)
AnswersAreStored ==
  [][\A b \in Backfills : FillCommit(b) =>
       \A r \in fill[b].answer : \E q \in rows' : SameKey(q, r)]_vars

(* What a backfill has before it: days, and in a day tries or rows. *)
Remaining(b) ==
  LET f == fill[b]
      days == (Len(f.todo) - 1) * Days[b] + (f.last - f.cursor)
      ofDay == CASE f.step = "fetch" -> Tries - f.attempt + Cardinality(Contracts) + 1
                 [] f.step = "check" -> Cardinality(f.batch) + 1
                 [] OTHER -> 0
  IN IF f.step = "idle" THEN 0
     ELSE days * (Tries + Cardinality(Contracts) + 1) + ofDay

(* A backfill that never ended would never fire again (max_instances=1):   *)
(* every step of it, retries included, leaves it less to do.               *)
BackfillsAdvance ==
  [][\A b \in Backfills : fill[b].step # "idle" /\ fill'[b] # fill[b] =>
       Remaining(b)' >= 0 /\ Remaining(b)' < Remaining(b)]_vars

-----------------------------------------------------------------------------
(* A claim of the repository's documents that the code does not keep.      *)

(* "when current_iv_pct > settings.iv_spike_threshold": an event is raised *)
(* when the volatility of now, the newest of the series, has risen.        *)
SpikesAreCurrent ==
  [][\A T \in SUBSET rows : ScanSpike(T) =>
       \E r \in Newest(T) : Spikes(r.iv, T)]_vars
=============================================================================
