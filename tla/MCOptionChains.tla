--------------------------- MODULE MCOptionChains ---------------------------
EXTENDS OptionChains
CONSTANTS u1, u2, c1, c2
MCKeyOf == [c \in Contracts |-> c]
\* The volatility falls after the first tick.
MCMarket == [t \in 0 .. MaxTime |-> [c \in Contracts |-> IF t = 0 THEN 4 ELSE 2]]
MCDays == [b \in Backfills |-> IF b = Nightly THEN 2 ELSE 1]
MCLists == [b \in Backfills |-> IF b = Nightly THEN Watch ELSE <<u2, u1>>]
MCListed == [u \in Underlyings |-> IF u = u1 THEN Contracts ELSE {}]
MCOne == <<u1>>
=============================================================================
