--------------------------- MODULE WatchlistProofs ---------------------------
(***************************************************************************)
(* Proofs about Watchlist, for any entries, columns and editors: rows stay *)
(* unique by id and by symbol and asset type, and racing editors implement *)
(* the atomic book.                                                        *)
(***************************************************************************)
EXTENDS Watchlist, FiniteSetTheorems, WellFoundedInduction, TLAPS

(* The part of the type invariant that editors see. *)
EditorType ==
  /\ rows \subseteq Row
  /\ edit \in [Editors -> EditState]

(* What the proofs rest on. *)
EditorInv == EditorType /\ EntriesAreUnique

-----------------------------------------------------------------------------
(* Identifiers *)

(* A set of numbers up to n has a largest: of the intervals above its      *)
(* members, the one that strictly contains no other is above the largest.  *)
LEMMA Largest ==
  ASSUME NEW n \in Nat, NEW I \in SUBSET (1 .. n), I # {}
  PROVE  \E m \in I : \A i \in I : i <= m
<1> DEFINE S == 1 .. n
           T == {(i + 1) .. n : i \in I}
           R == StrictSubsetOrdering(S)
<1>1. T \subseteq SUBSET S /\ T # {}
  <2>1. ASSUME NEW i \in I
        PROVE  (i + 1) .. n \subseteq S
    OBVIOUS
  <2> HIDE DEF S
  <2>2. T \subseteq SUBSET S
    BY <2>1
  <2>3. T # {}
    OBVIOUS
  <2> QED
    BY <2>2, <2>3
<1>2. IsWellFoundedOn(R, SUBSET S)
  <2>1. IsFiniteSet(S)
    BY FS_Interval
  <2> HIDE DEF S
  <2>2. IsWellFoundedOn(StrictSubsetOrdering(S), SUBSET S)
    BY <2>1, FS_FiniteSubsetsOfFinite, FS_StrictSubsetOrderingWellFounded
  <2> QED
    BY <2>2
<1> HIDE DEF T, R
<1>3. PICK X \in T : \A Y \in T : ~ (<<Y, X>> \in R)
  BY <1>1, <1>2, WFMin
<1>4. PICK m \in I : X = (m + 1) .. n
  BY <1>3 DEF T
<1>5. ASSUME NEW i \in I, ~ (i <= m)
      PROVE  FALSE
  <2> DEFINE Y == (i + 1) .. n
  <2>1. Y \in T
    BY DEF T
  <2>2. Y \subseteq X /\ i \in X /\ i \notin Y
    BY <1>4, <1>5
  <2>3. <<Y, X>> \in R
    BY <1>1, <1>3, <2>1, <2>2 DEF R, StrictSubsetOrdering
  <2> QED
    BY <1>3, <2>1, <2>3
<1> QED
  BY <1>5

(* The next id is nobody's. *)
LEMMA NextIdIsFresh ==
  ASSUME rows \subseteq Row
  PROVE  /\ NextId \in Nat \ {0}
         /\ \A row \in rows : row.id < NextId
<1> USE WatchlistAssumption
<1>1. CASE rows = {}
  BY <1>1 DEF NextId
<1>2. CASE rows # {}
  <2> DEFINE ids == {row.id : row \in rows}
             Top(i) == \A row \in rows : row.id <= i
  <2>1. ids \subseteq 1 .. MaxId /\ ids # {}
    BY <1>2 DEF Row
  <2>2. PICK m \in ids : \A i \in ids : i <= m
    <3> HIDE DEF ids
    <3> QED
      BY <2>1, Largest
  <2>3. Top(m)
    BY <2>2
  <2>4. (CHOOSE i \in ids : Top(i)) \in ids /\ Top(CHOOSE i \in ids : Top(i))
    <3> HIDE DEF ids, Top
    <3> QED
      BY <2>2, <2>3
  <2>5. NextId = 1 + CHOOSE i \in ids : Top(i)
    BY <1>2 DEF NextId
  <2> DEFINE top == CHOOSE i \in ids : Top(i)
  <2>6. top \in 1 .. MaxId /\ \A row \in rows : row.id <= top
    BY <2>1, <2>4
  <2>7. NextId = 1 + top
    BY <2>5
  <2> HIDE DEF top, ids, Top
  <2> QED
    BY <2>6, <2>7 DEF Row
<1> QED
  BY <1>1, <1>2

-----------------------------------------------------------------------------
(* Rows stay rows, and unique *)

(* A commit of a PATCH leaves a page of the row's columns. *)
LEMMA PatchedPage ==
  ASSUME EditorType, NEW e \in Editors, edit[e].step = "patch", NEW row \in rows
  PROVE  [c \in Columns |-> IF c \in Dirty(e) THEN Edited(e, c) ELSE row.page[c]] \in Page
<1> DEFINE V == UNION {Values[c] : c \in Columns}
<1>1. /\ edit[e].page \in [Columns -> V]
      /\ edit[e].change \in Changes
  BY DEF EditorType, EditState, NoEdit, Page
<1>2. edit[e].change \in [Columns -> V \cup {Unset}]
  BY <1>1, WatchlistAssumption
<1>3. row.page \in [Columns -> V]
  BY DEF EditorType, Row, Page
<1> HIDE DEF V
<1>4. \A c \in Columns : Edited(e, c) \in V
  BY <1>1, <1>2 DEF Edited
<1> QED
  BY <1>3, <1>4 DEF Page, V

LEMMA EditorInit == Init => EditorInv
<1> SUFFICES ASSUME Init PROVE EditorInv
  OBVIOUS
<1>1. \A i \in DOMAIN Seeds : Seeds[i] \in Keys /\ i \in 1 .. MaxId
  BY WatchlistAssumption
<1>2. SeedPage \in Page
  BY WatchlistAssumption DEF Page
<1>3. rows \subseteq Row
  BY <1>1, <1>2 DEF Init, Row
<1>4. EntriesAreUnique
  BY WatchlistAssumption DEF Init, EntriesAreUnique
<1> QED
  BY <1>3, <1>4 DEF Init, EditorInv, EditorType, EditState

(* The steps that only an editor's record takes part in. *)
LEMMA QuietStep ==
  ASSUME EditorInv, rows' = rows, edit' \in [Editors -> EditState]
  PROVE  EditorInv'
BY DEF EditorInv, EditorType, EntriesAreUnique

LEMMA EndType ==
  ASSUME EditorType, NEW e \in Editors, End(e)
  PROVE  edit' \in [Editors -> EditState]
BY DEF EditorType, End, EditState

LEMMA EditorStep ==
  ASSUME EditorInv, [Next]_vars
  PROVE  EditorInv'
<1> USE DEF EditorInv
<1>t. rows \subseteq Row /\ edit \in [Editors -> EditState]
  BY DEF EditorType
<1>1. CASE UNCHANGED vars
  BY <1>1, <1>t, QuietStep DEF vars
<1>2. CASE ViewList \/ ViewStep
  BY <1>2, <1>t, QuietStep DEF ViewList, ViewStep, FetchRetries, ScoreEntry, ViewShow
<1>3. ASSUME NEW e \in Editors, EditStep(e)
      PROVE  EditorInv'
  <2>1. ASSUME NEW k \in Keys, NEW page \in Pages, CreateFind(e, k, page)
        PROVE  EditorInv'
    <3> DEFINE asked == [step |-> "create", key |-> k, page |-> page]
    <3>1. asked \in EditState
      BY DEF EditState
    <3>2. edit' = [edit EXCEPT ![e] = asked] /\ rows' = rows
      BY <2>1 DEF CreateFind
    <3> QED
      BY <3>1, <3>2, <1>t, QuietStep
  <2>2. ASSUME NEW row \in rows, NEW change \in Changes, PatchGet(e, row, change)
        PROVE  EditorInv'
    <3> DEFINE asked == [step |-> "patch", id |-> row.id,
                         page |-> row.page, change |-> change]
    <3>1. asked \in EditState
      BY <1>t DEF EditState, Row
    <3>2. edit' = [edit EXCEPT ![e] = asked] /\ rows' = rows
      BY <2>2 DEF PatchGet
    <3> HIDE DEF asked
    <3> QED
      BY <3>1, <3>2, <1>t, QuietStep
  <2>3. ASSUME NEW row \in rows, DeleteGet(e, row)
        PROVE  EditorInv'
    <3> DEFINE asked == [step |-> "delete", id |-> row.id]
    <3>1. asked \in EditState
      BY <1>t DEF EditState, Row
    <3>2. edit' = [edit EXCEPT ![e] = asked] /\ rows' = rows
      BY <2>3 DEF DeleteGet
    <3> QED
      BY <3>1, <3>2, <1>t, QuietStep
  <2>4. CASE CreateRaces(e) \/ PatchGone(e) \/ EditFails(e)
    <3>1. End(e) /\ rows' = rows
      BY <2>4 DEF CreateRaces, PatchGone, EditFails
    <3> QED
      BY <3>1, EndType, QuietStep
  <2>5. CASE CreateCommit(e)
    <3>1. edit[e].key \in Keys /\ edit[e].page \in Pages
      BY <2>5, <1>t DEF CreateCommit, EditState, NoEdit
    <3>2. edit[e].page \in Page
      BY <3>1, WatchlistAssumption DEF Page
    <3>3. NextId \in 1 .. MaxId
      BY <2>5, <1>t, NextIdIsFresh, WatchlistAssumption DEF CreateCommit
    <3>4. Inserted(e) \in Row
      BY <3>1, <3>2, <3>3 DEF Inserted, Row
    <3>5. \A row \in rows : row.id # Inserted(e).id /\ row.key # Inserted(e).key
      <4>1. \A row \in rows : row.id # NextId
        BY <1>t, NextIdIsFresh DEF Row
      <4> QED
        BY <4>1, <2>5 DEF CreateCommit, Taken, Inserted
    <3>6. EntriesAreUnique'
      BY <2>5, <3>5 DEF CreateCommit, EntriesAreUnique
    <3>7. rows' \subseteq Row
      BY <2>5, <1>t, <3>4 DEF CreateCommit
    <3>8. edit' \in [Editors -> EditState]
      BY <2>5, EndType DEF CreateCommit
    <3> QED
      BY <3>6, <3>7, <3>8 DEF EditorType
  <2>6. CASE PatchCommit(e)
    <3>1. PICK row \in rows :
            rows' = (rows \ {row}) \cup
              {[row EXCEPT !.page =
                  [c \in Columns |->
                     IF c \in Dirty(e) THEN Edited(e, c) ELSE row.page[c]]]}
      BY <2>6 DEF PatchCommit
    <3> DEFINE page == [c \in Columns |->
                          IF c \in Dirty(e) THEN Edited(e, c) ELSE row.page[c]]
               new == [row EXCEPT !.page = page]
    <3>2. page \in Page
      BY <2>6, PatchedPage DEF PatchCommit
    <3> HIDE DEF page
    <3>3. row \in Row
      BY <1>t
    <3>4. new \in Row /\ new.id = row.id /\ new.key = row.key
      BY <3>2, <3>3 DEF Row
    <3>5. rows' = (rows \ {row}) \cup {new}
      BY <3>1 DEF page
    <3> HIDE DEF new
    <3>6. EntriesAreUnique'
      BY <3>4, <3>5 DEF EntriesAreUnique
    <3>7. edit' \in [Editors -> EditState]
      BY <2>6, EndType DEF PatchCommit
    <3> QED
      BY <1>t, <3>4, <3>5, <3>6, <3>7 DEF EditorType
  <2>7. CASE DeleteCommit(e)
    <3>1. rows' \subseteq rows /\ End(e)
      BY <2>7 DEF DeleteCommit
    <3>2. edit' \in [Editors -> EditState]
      BY <3>1, EndType
    <3> QED
      BY <1>t, <3>1, <3>2 DEF EditorType, EntriesAreUnique
  <2> QED
    BY <1>3, <2>1, <2>2, <2>3, <2>4, <2>5, <2>6, <2>7 DEF EditStep
<1> QED
  BY <1>1, <1>2, <1>3 DEF Next

(* Whatever editors race, no symbol and asset type has two entries, and no *)
(* two entries share an id.                                                *)
THEOREM EntriesStayUnique == Spec => []EntriesAreUnique
<1>1. EditorInv => EntriesAreUnique
  BY DEF EditorInv
<1> QED
  BY EditorInit, EditorStep, <1>1, PTL DEF Spec

-----------------------------------------------------------------------------
(* The rows as a book *)

(* The book that a set of rows stands for. *)
BookOf(R) ==
  [k \in {row.key : row \in R} |-> (CHOOSE row \in R : row.key = k).page]

KeysApart(R) == \A r1, r2 \in R : r1.key = r2.key => r1 = r2

(* It has the page of each row under the row's key. *)
LEMMA BookPages ==
  ASSUME NEW R, KeysApart(R), NEW row \in R
  PROVE  row.key \in DOMAIN BookOf(R) /\ BookOf(R)[row.key] = row.page
<1> DEFINE found == CHOOSE r \in R : r.key = row.key
<1>1. found \in R /\ found.key = row.key
  OBVIOUS
<1>2. found = row
  BY <1>1 DEF KeysApart
<1>3. BookOf(R)[row.key] = found.page
  BY DEF BookOf
<1> QED
  BY <1>2, <1>3 DEF BookOf

(* Any function that has them, and no more, is the book. *)
LEMMA BookIs ==
  ASSUME NEW R, KeysApart(R), NEW D, NEW F,
         D = {row.key : row \in R},
         F = [k \in D |-> F[k]],
         \A row \in R : F[row.key] = row.page
  PROVE  BookOf(R) = F
<1>1. ASSUME NEW k \in D
      PROVE  BookOf(R)[k] = F[k]
  <2>1. PICK row \in R : row.key = k
    OBVIOUS
  <2> QED
    BY <2>1, BookPages
<1>2. BookOf(R) = [k \in D |-> BookOf(R)[k]]
  BY DEF BookOf
<1> QED
  BY <1>1, <1>2

(* A new row is a new page. *)
LEMMA BookAdds ==
  ASSUME NEW R, KeysApart(R), NEW new, \A row \in R : row.key # new.key
  PROVE  /\ new.key \notin DOMAIN BookOf(R)
         /\ BookOf(R \cup {new}) =
              [x \in DOMAIN BookOf(R) \cup {new.key} |->
                 IF x = new.key THEN new.page ELSE BookOf(R)[x]]
<1> DEFINE D == DOMAIN BookOf(R) \cup {new.key}
           F == [x \in D |-> IF x = new.key THEN new.page ELSE BookOf(R)[x]]
           S == R \cup {new}
<1>1. DOMAIN BookOf(R) = {row.key : row \in R}
  BY DEF BookOf
<1>2. KeysApart(S)
  BY DEF KeysApart
<1>3. D = {row.key : row \in S}
  BY <1>1
<1>4. \A row \in S : row.key \in D /\ F[row.key] = row.page
  BY <1>3, BookPages
<1>5. F = [k \in D |-> F[k]]
  OBVIOUS
<1>6. BookOf(S) = F
  <2> HIDE DEF D, F, S
  <2> QED
    BY <1>2, <1>3, <1>4, <1>5, BookIs
<1> QED
  BY <1>1, <1>6

(* Another row of the same key is another page of it. *)
LEMMA BookChanges ==
  ASSUME NEW R, KeysApart(R), NEW row \in R, NEW new, new.key = row.key
  PROVE  BookOf((R \ {row}) \cup {new}) = [BookOf(R) EXCEPT ![row.key] = new.page]
<1> DEFINE D == DOMAIN BookOf(R)
           F == [BookOf(R) EXCEPT ![row.key] = new.page]
           S == (R \ {row}) \cup {new}
<1>1. D = {r.key : r \in R}
  BY DEF BookOf
<1>2. KeysApart(S)
  BY DEF KeysApart
<1>3. D = {r.key : r \in S}
  BY <1>1
<1>4. BookOf(R) = [k \in D |-> BookOf(R)[k]]
  BY DEF BookOf
<1>5. F = [k \in D |-> F[k]]
  BY <1>4
<1>6. F = [k \in D |-> IF k = row.key THEN new.page ELSE BookOf(R)[k]]
  BY <1>4
<1>7. ASSUME NEW r \in S
      PROVE  F[r.key] = r.page
  <2>1. CASE r = new
    BY <2>1, <1>1, <1>6
  <2>2. CASE r \in R /\ r # row
    <3>1. r.key # row.key /\ r.key \in D /\ BookOf(R)[r.key] = r.page
      BY <2>2, BookPages DEF KeysApart
    <3> QED
      BY <3>1, <1>6
  <2> QED
    BY <2>1, <2>2
<1>8. BookOf(S) = F
  <2> HIDE DEF D, F, S
  <2> QED
    BY <1>2, <1>3, <1>5, <1>7, BookIs
<1> QED
  BY <1>8

(* A row less is a page less. *)
LEMMA BookRemoves ==
  ASSUME NEW R, KeysApart(R), NEW row \in R
  PROVE  BookOf(R \ {row}) =
           [x \in DOMAIN BookOf(R) \ {row.key} |-> BookOf(R)[x]]
<1> DEFINE D == DOMAIN BookOf(R) \ {row.key}
           F == [x \in D |-> BookOf(R)[x]]
           S == R \ {row}
<1>1. DOMAIN BookOf(R) = {r.key : r \in R}
  BY DEF BookOf
<1>2. KeysApart(S)
  BY DEF KeysApart
<1>3. D = {r.key : r \in S}
  BY <1>1 DEF KeysApart
<1>4. \A r \in S : r.key \in D /\ F[r.key] = r.page
  BY <1>3, BookPages
<1>5. F = [k \in D |-> F[k]]
  OBVIOUS
<1>6. BookOf(S) = F
  <2> HIDE DEF D, F, S
  <2> QED
    BY <1>2, <1>3, <1>4, <1>5, BookIs
<1> QED
  BY <1>6

-----------------------------------------------------------------------------
(* Refinement *)

LEMMA BookInit == Init => Book!Init
<1> SUFFICES ASSUME Init PROVE Book!Init
  OBVIOUS
<1> DEFINE D == {Seeds[i] : i \in DOMAIN Seeds}
           F == [k \in D |-> SeedPage]
<1>1. KeysApart(rows)
  BY EditorInit DEF EditorInv, EntriesAreUnique, KeysApart
<1>2. D = {row.key : row \in rows}
  <2> DEFINE row(i) == [id |-> i, key |-> Seeds[i], page |-> SeedPage]
  <2>1. rows = {row(i) : i \in DOMAIN Seeds}
    BY DEF Init
  <2>2. \A i \in DOMAIN Seeds : row(i).key = Seeds[i]
    OBVIOUS
  <2> HIDE DEF row
  <2> QED
    BY <2>1, <2>2
<1>3. \A row \in rows : row.page = SeedPage /\ row.key \in D
  BY DEF Init
<1>4. F = [k \in D |-> F[k]] /\ \A row \in rows : F[row.key] = row.page
  BY <1>3
<1>5. BookOf(rows) = F
  <2> HIDE DEF D, F
  <2> QED
    BY <1>1, <1>2, <1>4, BookIs
<1> QED
  BY <1>5 DEF Book!Init, BookOf

(* What a PATCH writes into a row is a change of the page to the columns   *)
(* it names.                                                               *)
LEMMA PatchNames ==
  ASSUME EditorType, NEW e \in Editors, edit[e].step = "patch", NEW row
  PROVE  /\ edit[e].change \in Changes
         /\ Dirty(e) \in SUBSET {c \in Columns : edit[e].change[c] # Unset}
         /\ [c \in Columns |-> IF c \in Dirty(e) THEN Edited(e, c) ELSE row.page[c]]
            = [c \in Columns |->
                 IF c \in Dirty(e) THEN edit[e].change[c] ELSE row.page[c]]
<1>1. edit[e].change \in Changes
  BY DEF EditorType, EditState, NoEdit
<1>2. Dirty(e) \in SUBSET {c \in Columns : edit[e].change[c] # Unset}
  BY DEF Dirty
<1>3. \A c \in Dirty(e) : Edited(e, c) = edit[e].change[c]
  BY <1>2 DEF Edited
<1> QED
  BY <1>1, <1>2, <1>3

(* Each step of the editors is a step of the book, or none. *)
LEMMA BookStep ==
  ASSUME EditorInv, [Next]_vars
  PROVE  \/ \E k \in Keys, page \in Pages : Book!Add(k, page)
         \/ \E k \in DOMAIN BookOf(rows), change \in Changes : Book!Change(k, change)
         \/ \E k \in DOMAIN BookOf(rows) : Book!Remove(k)
         \/ UNCHANGED rows
<1>t. EditorType /\ EntriesAreUnique
  BY DEF EditorInv
<1>k. KeysApart(rows)
  BY <1>t DEF EntriesAreUnique, KeysApart
<1>1. CASE UNCHANGED vars \/ ViewList \/ ViewStep
  BY <1>1 DEF vars, ViewList, ViewStep, FetchRetries, ScoreEntry, ViewShow
<1>2. ASSUME NEW e \in Editors, CreateCommit(e)
      PROVE  \E k \in Keys, page \in Pages : Book!Add(k, page)
  <2> DEFINE new == Inserted(e)
  <2>1. new.key \in Keys /\ new.page \in Pages
    BY <1>2, <1>t DEF CreateCommit, EditorType, EditState, NoEdit, Inserted
  <2>2. rows' = rows \cup {new} /\ \A row \in rows : row.key # new.key
    BY <1>2 DEF CreateCommit, Taken, Inserted
  <2>3. /\ new.key \notin DOMAIN BookOf(rows)
        /\ BookOf(rows') =
             [x \in DOMAIN BookOf(rows) \cup {new.key} |->
                IF x = new.key THEN new.page ELSE BookOf(rows)[x]]
    BY <1>k, <2>2, BookAdds
  <2> HIDE DEF new
  <2>4. PICK k \in Keys, page \in Pages : k = new.key /\ page = new.page
    BY <2>1
  <2>5. /\ k \notin DOMAIN BookOf(rows)
        /\ BookOf(rows') =
             [x \in DOMAIN BookOf(rows) \cup {k} |->
                IF x = k THEN page ELSE BookOf(rows)[x]]
    BY <2>3, <2>4
  <2>6. Book!Add(k, page)
    BY <2>5 DEF Book!Add, BookOf
  <2> QED
    BY <2>6
<1>3. ASSUME NEW e \in Editors, PatchCommit(e)
      PROVE  \E k \in DOMAIN BookOf(rows), change \in Changes : Book!Change(k, change)
  <2>1. PICK row \in rows :
          rows' = (rows \ {row}) \cup
            {[row EXCEPT !.page =
                [c \in Columns |->
                   IF c \in Dirty(e) THEN Edited(e, c) ELSE row.page[c]]]}
    BY <1>3 DEF PatchCommit
  <2> DEFINE change == edit[e].change
             page == [c \in Columns |->
                        IF c \in Dirty(e) THEN change[c] ELSE row.page[c]]
             new == [row EXCEPT !.page = page]
  <2>2. /\ change \in Changes
        /\ Dirty(e) \in SUBSET {c \in Columns : change[c] # Unset}
        /\ rows' = (rows \ {row}) \cup {new}
    BY <1>3, <1>t, <2>1, PatchNames DEF PatchCommit
  <2>3. new.key = row.key /\ new.page = page
    BY <1>t DEF EditorType, Row
  <2> HIDE DEF new
  <2>4. BookOf(rows') = [BookOf(rows) EXCEPT ![row.key] = page]
    BY <1>k, <2>2, <2>3, BookChanges
  <2>5. row.key \in DOMAIN BookOf(rows) /\ BookOf(rows)[row.key] = row.page
    BY <1>k, BookPages
  <2>6. page = [c \in Columns |->
                  IF c \in Dirty(e) THEN change[c] ELSE BookOf(rows)[row.key][c]]
    BY <2>5
  <2> HIDE DEF page, change
  <2>7. PICK k \in DOMAIN BookOf(rows), asked \in Changes :
          k = row.key /\ asked = change
    BY <2>2, <2>5
  <2>8. PICK named \in SUBSET {c \in Columns : asked[c] # Unset} : named = Dirty(e)
    BY <2>2, <2>7
  <2>9. BookOf(rows') =
          [BookOf(rows) EXCEPT ![k] =
             [c \in Columns |-> IF c \in named THEN asked[c] ELSE BookOf(rows)[k][c]]]
    BY <2>4, <2>6, <2>7, <2>8
  <2>10. Book!Change(k, asked)
    BY <2>9 DEF Book!Change, BookOf
  <2> QED
    BY <2>10
<1>4. ASSUME NEW e \in Editors, DeleteCommit(e)
      PROVE  \/ \E k \in DOMAIN BookOf(rows) : Book!Remove(k)
             \/ UNCHANGED rows
  <2>1. CASE \E row \in rows : row.id = edit[e].id
    <3>1. PICK row \in rows : row.id = edit[e].id
      BY <2>1
    <3>2. rows' = rows \ {row}
      BY <1>4, <1>t, <3>1 DEF DeleteCommit, EntriesAreUnique
    <3>3. row.key \in DOMAIN BookOf(rows)
      BY <1>k, BookPages
    <3>4. BookOf(rows') = [x \in DOMAIN BookOf(rows) \ {row.key} |-> BookOf(rows)[x]]
      BY <1>k, <3>2, BookRemoves
    <3>5. PICK k \in DOMAIN BookOf(rows) : k = row.key
      BY <3>3
    <3>6. Book!Remove(k)
      BY <3>4, <3>5 DEF Book!Remove, BookOf
    <3> QED
      BY <3>6
  <2>2. CASE \A row \in rows : row.id # edit[e].id
    BY <1>4, <2>2 DEF DeleteCommit
  <2> QED
    BY <2>1, <2>2
<1>5. ASSUME NEW e \in Editors, EditStep(e), ~ CreateCommit(e),
             ~ PatchCommit(e), ~ DeleteCommit(e)
      PROVE  UNCHANGED rows
  BY <1>5 DEF EditStep, CreateFind, PatchGet, DeleteGet, CreateRaces, PatchGone, EditFails
<1> QED
  BY <1>1, <1>2, <1>3, <1>4, <1>5 DEF Next

(* The editors, with find and commit apart and racing, implement the book  *)
(* whose every step is atomic: one page per symbol and asset type, and a   *)
(* change that rewrites nothing it does not name.                          *)
THEOREM RacesImplementBook == Spec => ImplementsBook
<1>1. ASSUME EditorInv, [Next]_vars
      PROVE  [Book!Next]_([k \in {row.key : row \in rows} |->
                             (CHOOSE row \in rows : row.key = k).page])
  <2>1. CASE UNCHANGED rows
    BY <2>1
  <2> QED
    BY <1>1, <2>1, BookStep DEF Book!Next, BookOf
<1> QED
  BY BookInit, EditorInit, EditorStep, <1>1, PTL DEF Spec, ImplementsBook, Book!Spec
=============================================================================
