------------------------------ MODULE Watchlist ------------------------------
(***************************************************************************)
(* The watchlist editor and the setup heatmap.  POST, PATCH and DELETE     *)
(* /watchlist (api/routers/watchlist.py) each look the entry up first and  *)
(* commit later, with awaits in between and no transaction around both;    *)
(* GET /setup-heatmap reads the active entries once and then fetches the   *)
(* bars of each from Polygon, whatever becomes of the entries meanwhile.   *)
(*                                                                         *)
(* The ORM writes the columns whose value differs from the loaded one, by  *)
(* primary key; a new row gets the highest id in use plus one, so the id   *)
(* of a deleted entry may come back.                                       *)
(***************************************************************************)
EXTENDS Integers, Sequences, FiniteSets

CONSTANTS
  Keys,             \* pairs of symbol and asset type
  KeyOrder,         \* the keys by symbol and asset type
  Columns,          \* strategies, active, notes
  Values,           \* the values of each column
  Pages,            \* column values a POST may carry
  Changes,          \* column values a PATCH may carry; None: Unset
  Unset,
  SeedPage,         \* columns of the entries the migration inserts
  Seeds,            \* settings.watchlist when the migration runs
  Editors,          \* concurrent POST, PATCH and DELETE requests
  MaxId             \* bound of the model on ids

MaxAttempts == 3    \* tries of one Polygon request

ASSUME WatchlistAssumption ==
  /\ Keys # {}
  /\ KeyOrder \in Seq(Keys)
  /\ "active" \in Columns
  /\ Values["active"] = BOOLEAN
  /\ \A page \in Pages \cup {SeedPage} :
       page \in [Columns -> UNION {Values[c] : c \in Columns}]
  /\ \A change \in Changes :
       change \in [Columns -> (UNION {Values[c] : c \in Columns}) \cup {Unset}]
  /\ Unset \notin UNION {Values[c] : c \in Columns}
  /\ Seeds \in Seq(Keys)
  /\ \A i, j \in DOMAIN Seeds : Seeds[i] = Seeds[j] => i = j
  /\ MaxId \in Nat /\ Len(Seeds) <= MaxId

VARIABLES
  rows,             \* rows of the table watchlists
  edit,             \* what each editor request asks and has loaded
  view              \* the heatmap request: entries listed, rows made

vars == <<rows, edit, view>>

Page == [Columns -> UNION {Values[c] : c \in Columns}]
Row == [id : 1 .. MaxId, key : Keys, page : Page]

NoEdit == [step |-> "idle"]
NoView == [step |-> "idle", listed |-> <<>>, made |-> <<>>, tries |-> 0]
Results == {"scored", "error"}

-----------------------------------------------------------------------------
(* Migration 0002 inserts an entry per symbol of the settings. *)
Init ==
  /\ rows = {[id |-> i, key |-> Seeds[i], page |-> SeedPage] : i \in DOMAIN Seeds}
  /\ edit = [e \in Editors |-> NoEdit]
  /\ view = NoView

End(e) == edit' = [edit EXCEPT ![e] = NoEdit]

(* "database is locked", or the process lost the request, at any await. *)
EditFails(e) ==
  /\ edit[e].step # "idle"
  /\ End(e)
  /\ UNCHANGED <<rows, view>>

-----------------------------------------------------------------------------
(* POST /watchlist                                                         *)

Taken(k) == \E row \in rows : row.key = k

(* find: 409 when the entry exists. *)
CreateFind(e, k, page) ==
  /\ edit[e].step = "idle"
  /\ ~ Taken(k)
  /\ edit' = [edit EXCEPT ![e] = [step |-> "create", key |-> k, page |-> page]]
  /\ UNCHANGED <<rows, view>>

NextId == IF rows = {} THEN 1
          ELSE 1 + CHOOSE i \in {row.id : row \in rows} :
                     \A row \in rows : row.id <= i

(* The row a POST inserts. *)
Inserted(e) ==
  [id |-> NextId, key |-> edit[e].key, page |-> edit[e].page]

CreateCommit(e) ==
  /\ edit[e].step = "create"
  /\ ~ Taken(edit[e].key)
  /\ NextId <= MaxId
  /\ rows' = rows \cup {Inserted(e)}
  /\ End(e)
  /\ UNCHANGED view

(* uq_watchlists_symbol_asset_type: IntegrityError, not a 409. *)
CreateRaces(e) ==
  /\ edit[e].step = "create"
  /\ Taken(edit[e].key)
  /\ End(e)
  /\ UNCHANGED <<rows, view>>

-----------------------------------------------------------------------------
(* PATCH and DELETE /watchlist/{id}                                        *)

(* session.get: 404 when there is no such row. *)
PatchGet(e, row, change) ==
  /\ edit[e].step = "idle"
  /\ edit' = [edit EXCEPT ![e] = [step |-> "patch", id |-> row.id,
                                  page |-> row.page, change |-> change]]
  /\ UNCHANGED <<rows, view>>

(* Mutant of Dirty: every column of the loaded entry. *)
DirtyAll(e) == Columns

(* The columns of the UPDATE: given, and other than what was loaded. *)
Dirty(e) ==
  {c \in Columns : /\ edit[e].change[c] # Unset
                   /\ edit[e].change[c] # edit[e].page[c]}

(* The loaded entry with the change applied. *)
Edited(e, c) ==
  IF edit[e].change[c] = Unset THEN edit[e].page[c] ELSE edit[e].change[c]

PatchCommit(e) ==
  /\ edit[e].step = "patch"
  /\ \E row \in rows :
       /\ row.id = edit[e].id
       /\ rows' = (rows \ {row}) \cup
            {[row EXCEPT !.page =
                [c \in Columns |->
                   IF c \in Dirty(e) THEN Edited(e, c) ELSE row.page[c]]]}
  /\ End(e)
  /\ UNCHANGED view

(* The row is gone: the UPDATE matches nothing (StaleDataError), or there  *)
(* was nothing to update and the refresh finds nothing.                    *)
PatchGone(e) ==
  /\ edit[e].step = "patch"
  /\ \A row \in rows : row.id # edit[e].id
  /\ End(e)
  /\ UNCHANGED <<rows, view>>

DeleteGet(e, row) ==
  /\ edit[e].step = "idle"
  /\ edit' = [edit EXCEPT ![e] = [step |-> "delete", id |-> row.id]]
  /\ UNCHANGED <<rows, view>>

(* A DELETE that matches no row is only warned about. *)
DeleteCommit(e) ==
  /\ edit[e].step = "delete"
  /\ rows' = {row \in rows : row.id # edit[e].id}
  /\ End(e)
  /\ UNCHANGED view

-----------------------------------------------------------------------------
(* GET /setup-heatmap                                                      *)

ActiveKeys == {row.key : row \in {r \in rows : r.page["active"]}}

(* list_all(active_only=True) *)
ViewList ==
  /\ view.step \in {"idle", "shown"}
  /\ view' = [NoView EXCEPT !.step = "scoring",
                !.listed = SelectSeq(KeyOrder, LAMBDA k : k \in ActiveKeys)]
  /\ UNCHANGED <<rows, edit>>

Scoring == view.step = "scoring" /\ Len(view.made) < Len(view.listed)

(* Mutant of FetchRetries: the tries are not counted to the end. *)
FetchRetriesForEver ==
  /\ Scoring
  /\ view' = [view EXCEPT !.tries = (view.tries + 1) % MaxAttempts]
  /\ UNCHANGED <<rows, edit>>

(* 429 or 5xx, with tries left: the client sleeps and asks again. *)
FetchRetries ==
  /\ Scoring
  /\ view.tries + 1 < MaxAttempts
  /\ view' = [view EXCEPT !.tries = view.tries + 1]
  /\ UNCHANGED <<rows, edit>>

(* The row of the next entry: its scores, or an error: fewer than MIN_BARS *)
(* bars, the last try refused, another status, a bad bar, no network.      *)
ScoreEntry(result) ==
  /\ Scoring
  /\ view' = [view EXCEPT !.tries = 0,
                !.made = Append(view.made,
                           [key |-> view.listed[Len(view.made) + 1],
                            result |-> result])]
  /\ UNCHANGED <<rows, edit>>

ViewShow ==
  /\ view.step = "scoring"
  /\ Len(view.made) = Len(view.listed)
  /\ view' = [view EXCEPT !.step = "shown"]
  /\ UNCHANGED <<rows, edit>>

ViewStep ==
  \/ FetchRetries
  \/ \E result \in Results : ScoreEntry(result)
  \/ ViewShow

-----------------------------------------------------------------------------

EditStep(e) ==
  \/ \E k \in Keys, page \in Pages : CreateFind(e, k, page)
  \/ \E row \in rows, change \in Changes : PatchGet(e, row, change)
  \/ \E row \in rows : DeleteGet(e, row)
  \/ CreateCommit(e)
  \/ CreateRaces(e)
  \/ PatchCommit(e)
  \/ PatchGone(e)
  \/ DeleteCommit(e)
  \/ EditFails(e)

Next ==
  \/ \E e \in Editors : EditStep(e)
  \/ ViewList
  \/ ViewStep

Spec == Init /\ [][Next]_vars

(* A heatmap request runs on: the client times out after 30 s and sleeps   *)
(* for a bounded time between its tries.  Nobody has to edit or to look.   *)
FairSpec == Spec /\ WF_vars(ViewStep)

-----------------------------------------------------------------------------
(* Properties                                                              *)

EditState ==
  {NoEdit}
  \cup [step : {"create"}, key : Keys, page : Pages]
  \cup [step : {"patch"}, id : 1 .. MaxId, page : Page, change : Changes]
  \cup [step : {"delete"}, id : 1 .. MaxId]

TypeOK ==
  /\ rows \subseteq Row
  /\ edit \in [Editors -> EditState]
  /\ view \in [step : {"idle", "scoring", "shown"}, listed : Seq(Keys),
               made : Seq([key : Keys, result : Results]), tries : 0 .. MaxAttempts - 1]

(* Rows are told apart by their id, and by their symbol and asset type     *)
(* although find and the insert are two sessions.                          *)
EntriesAreUnique ==
  \A r1, r2 \in rows : r1.id = r2.id \/ r1.key = r2.key => r1 = r2

(* Racing editors leave a book: one entry per symbol and asset type though *)
(* find and create are separate sessions, and a PATCH that loaded the      *)
(* entry before another one's commit rewrites only what it names.          *)
Book == INSTANCE WatchBook WITH
  Seeded <- [k \in {Seeds[i] : i \in DOMAIN Seeds} |-> SeedPage],
  book <- [k \in {row.key : row \in rows} |->
             (CHOOSE row \in rows : row.key = k).page]
ImplementsBook == Book!Spec

(* The lists a heatmap request may have read. *)
Lists == {SelectSeq(KeyOrder, LAMBDA k : k \in K) : K \in SUBSET Keys}

(* A heatmap is answered with one row for each entry it listed, in their   *)
(* order, whatever Polygon does with the requests and whatever happens to  *)
(* the entries meanwhile.                                                  *)
HeatmapIsAnswered ==
  \A list \in Lists :
    view.step = "scoring" /\ view.listed = list
      ~> /\ view.step = "shown"
         /\ [i \in DOMAIN view.made |-> view.made[i].key] = list
=============================================================================
