--------------------------- MODULE MCPaperBroker ----------------------------
(* PaperBroker with an option and a stock, single-leg orders of every      *)
(* instruction and orders of two legs, also twice on the same symbol.      *)
EXTENDS PaperBroker, TLC

CONSTANTS opt, eq

MCKeys == {opt, eq}
MCAssetType == [k \in Keys |-> IF k = opt THEN "OPTION" ELSE "EQUITY"]
MCMarks == [k \in Keys |-> IF k = opt THEN {100, 103} ELSE {1000}]

L(k, i, q) == [key |-> k, instruction |-> i, quantity |-> q]
MCRequests == {
  <<L(opt, "BUY_TO_OPEN", 1)>>,
  <<L(opt, "BUY_TO_OPEN", 2)>>,
  <<L(opt, "SELL_TO_OPEN", 1)>>,
  <<L(opt, "SELL_TO_CLOSE", 1), L(opt, "SELL_TO_CLOSE", 1)>>,
  <<L(opt, "SELL_TO_CLOSE", 1), L(opt, "SELL_TO_OPEN", 1)>>,
  <<L(opt, "BUY_TO_CLOSE", 1), L(eq, "BUY", 3)>>,
  <<L(eq, "BUY", 3), L(opt, "SELL_TO_OPEN", 1)>>,
  <<L(eq, "SELL", 2)>>}

Symmetry == Permutations(Clients)
=============================================================================
