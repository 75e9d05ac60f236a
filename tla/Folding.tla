------------------------------ MODULE Folding -------------------------------
(***************************************************************************)
(* Sums over sets and folds over sequences, of functions: the operators of *)
(* the community modules take operators, of which nothing can be proved    *)
(* once for all.                                                           *)
(***************************************************************************)
EXTENDS Integers, Sequences, FiniteSetsExt, SequencesExt

(* The sum of f[x] over the x of S. *)
SumOver(S, f) == MapThenSumSet(LAMBDA x : f[x], S)

(* The sum of a sequence. *)
SumOf(s) == SumOver(DOMAIN s, s)

(* step[<<... step[<<step[<<base, s[1]>>], s[2]>>] ..., s[Len(s)]>>]       *)
Folded(step, base, s) == FoldLeft(LAMBDA a, x : step[<<a, x>>], base, s)
=============================================================================
