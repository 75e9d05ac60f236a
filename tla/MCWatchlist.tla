----------------------------- MODULE MCWatchlist -----------------------------
(* Watchlist with two entries, one of them seeded, and one other column    *)
(* besides active; each PATCH names one column.                            *)
EXTENDS Watchlist

CONSTANTS k1, k2, a, b

MCKeys == {k1, k2}
MCOrder == <<k2, k1>>
MCColumns == {"active", "notes"}
MCValues == [c \in MCColumns |-> IF c = "active" THEN BOOLEAN ELSE {a, b}]
P(active, notes) == [c \in MCColumns |-> IF c = "active" THEN active ELSE notes]
MCSeedPage == P(TRUE, a)
MCPages == {MCSeedPage}
MCChanges == {P(FALSE, Unset), P(Unset, b)}
MCSeeds == <<k1>>
=============================================================================
