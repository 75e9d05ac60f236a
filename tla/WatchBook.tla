------------------------------ MODULE WatchBook ------------------------------
(***************************************************************************)
(* What the watchlist promises: a book with one page per symbol and asset  *)
(* type.  A page is added once, a change rewrites the columns it names and *)
(* no other, a page is removed whole.                                      *)
(***************************************************************************)
CONSTANTS
  Keys,             \* symbol and asset type of a page
  Columns,          \* columns of a page that can be changed
  Pages,            \* contents of a new page
  Changes,          \* what a change may name: a value, or Unset, per column
  Unset,
  Seeded            \* the pages the book begins with

VARIABLE book

Init == book = Seeded

Add(k, page) ==
  /\ k \notin DOMAIN book
  /\ book' = [x \in DOMAIN book \cup {k} |-> IF x = k THEN page ELSE book[x]]

(* A column that is left out, or already has the value, may stay. *)
Change(k, change) ==
  \E named \in SUBSET {c \in Columns : change[c] # Unset} :
    book' = [book EXCEPT ![k] =
               [c \in Columns |-> IF c \in named THEN change[c] ELSE book[k][c]]]

Remove(k) == book' = [x \in DOMAIN book \ {k} |-> book[x]]

Next ==
  \/ \E k \in Keys, page \in Pages : Add(k, page)
  \/ \E k \in DOMAIN book, change \in Changes : Change(k, change)
  \/ \E k \in DOMAIN book : Remove(k)

Spec == Init /\ [][Next]_book
=============================================================================
