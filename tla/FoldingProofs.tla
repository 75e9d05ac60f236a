--------------------------- MODULE FoldingProofs ----------------------------
(***************************************************************************)
(* What sums and folds compute, by induction over the finite set or over   *)
(* the length of the sequence, and what a division leaves.  Induction is   *)
(* over sets of good arguments, so that each use of it is first-order.     *)
(***************************************************************************)
EXTENDS Folding, FiniteSetTheorems, SequenceTheorems, WellFoundedInduction, TLAPS

-----------------------------------------------------------------------------
(* Division by a positive number rounds down. *)

LEMMA DivisionBounds ==
  ASSUME NEW n \in Int, NEW d \in Int, d > 0
  PROVE  /\ n \div d \in Int
         /\ (n \div d) * d <= n
         /\ n < (n \div d) * d + d
OBVIOUS

LEMMA DivisionRest ==
  ASSUME NEW n \in Int, NEW d \in Int, d > 0
  PROVE  (n % d) = n - (n \div d) * d
OBVIOUS

(* A product with a larger factor is larger. *)
LEMMA ProductGrows ==
  ASSUME NEW a \in Int, NEW b \in Int, NEW n \in Nat, a <= b
  PROVE  a * n <= b * n
OBVIOUS

-----------------------------------------------------------------------------
(* Induction. *)

(* Over the natural numbers. *)
LEMMA SetInduction ==
  ASSUME NEW Good, 0 \in Good, \A n \in Nat : n \in Good => n + 1 \in Good
  PROVE  \A n \in Nat : n \in Good
<1>1. SUFFICES ASSUME NEW bad \in Nat, bad \notin Good
               PROVE  FALSE
  OBVIOUS
<1>2. PICK B : B = {n \in Nat : n \notin Good}
  OBVIOUS
<1>3. B \subseteq Nat /\ B # {}
  BY <1>1, <1>2
<1>4. PICK m \in B : \A n \in B : ~ (<<n, m>> \in OpToRel(<, Nat))
  BY <1>3, NatLessThanWellFounded, WFMin
<1>5. m \in Nat /\ m \notin Good
  BY <1>2, <1>4
<1>6. m # 0
  BY <1>5
<1>7. m - 1 \in Nat /\ (m - 1) + 1 = m
  BY <1>5, <1>6
<1>8. m - 1 \notin Good
  BY <1>5, <1>7
<1>9. m - 1 \in B
  BY <1>2, <1>7, <1>8
<1>10. <<m - 1, m>> \in OpToRel(<, Nat)
  BY <1>5, <1>7 DEF OpToRel
<1> QED
  BY <1>4, <1>9, <1>10

(* Over the subsets of a finite set. *)
LEMMA FiniteInduction ==
  ASSUME NEW S, IsFiniteSet(S), NEW Good,
         \A T \in SUBSET S : (\A x \in T : T \ {x} \in Good) => T \in Good
  PROVE  \A T \in SUBSET S : T \in Good
<1>1. PICK G : G = {n \in Nat : \A T \in SUBSET S : Cardinality(T) = n => T \in Good}
  OBVIOUS
<1>2. \A T \in SUBSET S : IsFiniteSet(T) /\ Cardinality(T) \in Nat
  BY FS_Subset, FS_CardinalityType
<1>3. 0 \in G
  <2>1. ASSUME NEW T \in SUBSET S, Cardinality(T) = 0
        PROVE  T \in Good
    <3>1. T = {}
      BY <1>2, <2>1, FS_EmptySet
    <3> QED
      BY <3>1
  <2> QED
    BY <1>1, <2>1
<1>4. ASSUME NEW n \in Nat, n \in G
      PROVE  n + 1 \in G
  <2>1. ASSUME NEW T \in SUBSET S, Cardinality(T) = n + 1
        PROVE  T \in Good
    <3>1. ASSUME NEW x \in T
          PROVE  T \ {x} \in Good
      <4>1. Cardinality(T \ {x}) = Cardinality(T) - 1
        BY <1>2, FS_RemoveElement
      <4>2. Cardinality(T \ {x}) = n /\ T \ {x} \in SUBSET S
        BY <2>1, <4>1
      <4> QED
        BY <1>1, <1>4, <4>2
    <3> QED
      BY <3>1
  <2> QED
    BY <1>1, <2>1
<1>5. \A n \in Nat : n \in G
  BY <1>3, <1>4, SetInduction
<1> QED
  BY <1>1, <1>2, <1>5

(* Over the lengths of the beginnings of a sequence of length n. *)
LEMMA BoundedInduction ==
  ASSUME NEW n \in Nat, NEW Good, 0 \in Good,
         \A k \in 0 .. n - 1 : k \in Good => k + 1 \in Good
  PROVE  \A k \in 0 .. n : k \in Good
<1>1. PICK G : G = {k \in Nat : k <= n => k \in Good}
  OBVIOUS
<1>2. 0 \in G /\ \A k \in Nat : k \in G => k + 1 \in G
  BY <1>1
<1>3. \A k \in Nat : k \in G
  BY <1>2, SetInduction
<1> QED
  BY <1>1, <1>3

-----------------------------------------------------------------------------
(* Recursion over the subsets of a finite set. *)

(* g gives, for each subset of S, what comb makes of its value for the     *)
(* subset without the element pick chooses.                                *)
Solves(g, S, V, base, pick, comb) ==
  /\ g \in [SUBSET S -> V]
  /\ \A T \in SUBSET S : g[T] = IF T = {} THEN base ELSE comb[<<T, g[T \ {pick[T]}]>>]

LEMMA Recursion ==
  ASSUME NEW S, IsFiniteSet(S), NEW V, NEW base \in V,
         NEW pick, \A T \in SUBSET S : T # {} => pick[T] \in T,
         NEW comb, \A T \in SUBSET S, v \in V : comb[<<T, v>>] \in V
  PROVE  \E g : Solves(g, S, V, base, pick, comb)
<1> DEFINE Value(g, T) == IF T = {} THEN base ELSE comb[<<T, g[T \ {pick[T]}]>>]
<1>1. PICK G : G = {n \in Nat : \E g \in [SUBSET S -> V] : \A T \in SUBSET S :
                                  Cardinality(T) <= n => g[T] = Value(g, T)}
  OBVIOUS
<1>2. \A T \in SUBSET S : IsFiniteSet(T) /\ Cardinality(T) \in Nat
  BY FS_Subset, FS_CardinalityType
<1>3. 0 \in G
  <2>1. PICK g : g = [T \in SUBSET S |-> base]
    OBVIOUS
  <2>2. g \in [SUBSET S -> V]
    BY <2>1
  <2>3. ASSUME NEW T \in SUBSET S, Cardinality(T) <= 0
        PROVE  g[T] = Value(g, T)
    <3>1. Cardinality(T) = 0
      BY <1>2, <2>3
    <3>2. T = {}
      BY <1>2, <3>1, FS_EmptySet
    <3> QED
      BY <2>1, <3>2
  <2> QED
    BY <1>1, <2>2, <2>3
<1>4. ASSUME NEW n \in Nat, n \in G
      PROVE  n + 1 \in G
  <2>1. PICK g \in [SUBSET S -> V] :
          \A T \in SUBSET S : Cardinality(T) <= n => g[T] = Value(g, T)
    BY <1>1, <1>4
  <2>2. PICK h : h = [T \in SUBSET S |-> Value(g, T)]
    OBVIOUS
  <2>3. ASSUME NEW T \in SUBSET S
        PROVE  Value(g, T) \in V
    <3>1. CASE T = {}
      BY <3>1
    <3>2. CASE T # {}
      <4>1. T \ {pick[T]} \in SUBSET S
        BY <2>3
      <4>2. g[T \ {pick[T]}] \in V
        BY <2>1, <4>1
      <4> QED
        BY <2>3, <3>2, <4>2
    <3> QED
      BY <3>1, <3>2
  <2>4. h \in [SUBSET S -> V]
    BY <2>2, <2>3
  <2>5. ASSUME NEW T \in SUBSET S, Cardinality(T) <= n + 1
        PROVE  h[T] = Value(h, T)
    <3>1. h[T] = Value(g, T)
      BY <2>2
    <3>2. CASE T = {}
      BY <3>1, <3>2
    <3>3. CASE T # {}
      <4>1. PICK U : U = T \ {pick[T]}
        OBVIOUS
      <4>2. U \in SUBSET S /\ pick[T] \in T
        BY <3>3, <4>1
      <4>3. Cardinality(U) = Cardinality(T) - 1
        BY <1>2, <4>1, <4>2, FS_RemoveElement
      <4>4. Cardinality(U) <= n
        BY <1>2, <2>5, <4>3
      <4>5. g[U] = Value(g, U)
        BY <2>1, <4>2, <4>4
      <4>6. h[U] = g[U]
        BY <2>2, <4>2, <4>5
      <4>7. Value(g, T) = comb[<<T, g[U]>>] /\ Value(h, T) = comb[<<T, h[U]>>]
        BY <3>3, <4>1
      <4> QED
        BY <3>1, <4>6, <4>7
    <3> QED
      BY <3>2, <3>3
  <2>6. \E f \in [SUBSET S -> V] : \A T \in SUBSET S :
          Cardinality(T) <= n + 1 => f[T] = Value(f, T)
    <3> HIDE DEF Value
    <3> QED
      BY <2>4, <2>5
  <2>7. n + 1 \in Nat
    OBVIOUS
  <2> HIDE DEF Value
  <2> QED
    BY ONLY <1>1, <2>6, <2>7
<1>5. Cardinality(S) \in G
  BY <1>2, <1>3, <1>4, SetInduction
<1>6. PICK g \in [SUBSET S -> V] :
        \A T \in SUBSET S : Cardinality(T) <= Cardinality(S) => g[T] = Value(g, T)
  BY <1>1, <1>5
<1>7. \A T \in SUBSET S : Cardinality(T) <= Cardinality(S)
  BY FS_Subset
<1>8. \A T \in SUBSET S : g[T] = Value(g, T)
  BY <1>6, <1>7
<1> QED
  BY <1>6, <1>8 DEF Solves

-----------------------------------------------------------------------------
(* Sums. *)

Chosen(T) == CHOOSE x \in T : TRUE

(* g gives the sums over all subsets of S. *)
Sums(g, S, f) ==
  /\ g \in [SUBSET S -> Int]
  /\ \A T \in SUBSET S : g[T] = IF T = {} THEN 0 ELSE f[Chosen(T)] + g[T \ {Chosen(T)}]

LEMMA SumsExist ==
  ASSUME NEW S, IsFiniteSet(S), NEW f, \A x \in S : f[x] \in Int
  PROVE  \E g : Sums(g, S, f) /\ g[S] = SumOver(S, f)
<1> DEFINE Body(g) == [T \in SUBSET S |->
                         IF T = {} THEN 0 ELSE f[Chosen(T)] + g[T \ {Chosen(T)}]]
<1>1. PICK pick : pick = [T \in SUBSET S |-> Chosen(T)]
  OBVIOUS
<1>2. \A T \in SUBSET S : T # {} => pick[T] \in T /\ pick[T] = Chosen(T)
  BY <1>1 DEF Chosen
<1>3. PICK comb : comb = [p \in (SUBSET S) \X Int |->
                            IF p[1] = {} THEN 0 ELSE f[pick[p[1]]] + p[2]]
  OBVIOUS
<1>4. \A T \in SUBSET S, v \in Int :
        comb[<<T, v>>] = IF T = {} THEN 0 ELSE f[pick[T]] + v
  BY <1>3
<1>5. ASSUME NEW T \in SUBSET S, NEW v \in Int
      PROVE  comb[<<T, v>>] \in Int
  <2>1. CASE T = {}
    BY <1>4, <2>1
  <2>2. CASE T # {}
    <3>1. f[pick[T]] \in Int
      BY <1>2, <2>2
    <3> QED
      BY <1>4, <2>2, <3>1
  <2> QED
    BY <2>1, <2>2
<1>6. PICK g : Solves(g, S, Int, 0, pick, comb)
  <2>1. 0 \in Int
    OBVIOUS
  <2>2. \A T \in SUBSET S : T # {} => pick[T] \in T
    BY <1>2
  <2>3. \A T \in SUBSET S, v \in Int : comb[<<T, v>>] \in Int
    BY <1>5
  <2> QED
    BY ONLY IsFiniteSet(S), <2>1, <2>2, <2>3, Recursion
<1>7. ASSUME NEW T \in SUBSET S
      PROVE  g[T] = IF T = {} THEN 0 ELSE f[Chosen(T)] + g[T \ {Chosen(T)}]
  <2>1. CASE T = {}
    BY <1>6, <2>1 DEF Solves
  <2>2. CASE T # {}
    <3>1. g[T \ {pick[T]}] \in Int
      BY <1>6 DEF Solves
    <3>2. g[T] = comb[<<T, g[T \ {pick[T]}]>>]
      BY <1>6, <2>2 DEF Solves
    <3> QED
      BY <1>2, <1>4, <2>2, <3>1, <3>2
  <2> QED
    BY <2>1, <2>2
<1>8. g = Body(g)
  BY <1>6, <1>7 DEF Solves
<1>9. PICK iter : iter = CHOOSE h : h = Body(h)
  OBVIOUS
<1>10. iter = Body(iter)
  BY <1>8, <1>9
<1>11. SumOver(S, f) = iter[S]
  BY <1>9 DEF SumOver, MapThenSumSet, MapThenFoldSet, Chosen
<1>12. \A T \in SUBSET S :
         iter[T] = IF T = {} THEN 0 ELSE f[Chosen(T)] + iter[T \ {Chosen(T)}]
  BY <1>10
<1>13. PICK Good : Good = {T \in SUBSET S : iter[T] \in Int}
  OBVIOUS
<1>14. ASSUME NEW T \in SUBSET S, \A x \in T : T \ {x} \in Good
       PROVE  T \in Good
  <2>1. T # {} => Chosen(T) \in T /\ f[Chosen(T)] \in Int
    BY DEF Chosen
  <2>2. T # {} => iter[T \ {Chosen(T)}] \in Int
    BY <1>13, <1>14, <2>1
  <2> QED
    BY <1>12, <1>13, <2>1, <2>2
<1>15. \A T \in SUBSET S : iter[T] \in Int
  <2>1. \A T \in SUBSET S : T \in Good
    <3>1. \A T \in SUBSET S : (\A x \in T : T \ {x} \in Good) => T \in Good
      BY <1>14
    <3> QED
      BY ONLY IsFiniteSet(S), <3>1, FiniteInduction
  <2> QED
    BY <1>13, <2>1
<1>16. Sums(iter, S, f)
  BY <1>10, <1>12, <1>15 DEF Sums
<1> QED
  BY <1>11, <1>16

LEMMA SumsAgree ==
  ASSUME NEW S, IsFiniteSet(S), NEW e, NEW g, Sums(g, S, e),
         NEW U \in SUBSET S, NEW f, NEW h, Sums(h, U, f),
         \A x \in U : e[x] = f[x]
  PROVE  g[U] = h[U]
<1>1. PICK Good : Good = {T \in SUBSET U : g[T] = h[T]}
  OBVIOUS
<1>2. IsFiniteSet(U)
  BY FS_Subset
<1>3. ASSUME NEW T \in SUBSET U, \A x \in T : T \ {x} \in Good
      PROVE  T \in Good
  <2>1. CASE T = {}
    BY <1>1, <2>1 DEF Sums
  <2>2. CASE T # {}
    <3>1. PICK c : c = Chosen(T)
      OBVIOUS
    <3>2. c \in T /\ e[c] = f[c]
      BY <2>2, <3>1 DEF Chosen
    <3>3. g[T \ {c}] = h[T \ {c}]
      BY <1>1, <1>3, <3>2
    <3>4. g[T] = e[c] + g[T \ {c}] /\ h[T] = f[c] + h[T \ {c}]
      BY <2>2, <3>1 DEF Sums
    <3> QED
      BY <1>1, <3>2, <3>3, <3>4
  <2> QED
    BY <2>1, <2>2
<1>4. \A T \in SUBSET U : T \in Good
  <2>1. \A T \in SUBSET U : (\A x \in T : T \ {x} \in Good) => T \in Good
    BY <1>3
  <2> QED
    BY ONLY <1>2, <2>1, FiniteInduction
<1> QED
  BY <1>1, <1>4

(* The sum over any subset, from one function of sums. *)
LEMMA SumsTell ==
  ASSUME NEW S, IsFiniteSet(S), NEW f, \A x \in S : f[x] \in Int,
         NEW g, Sums(g, S, f), NEW T \in SUBSET S
  PROVE  SumOver(T, f) = g[T]
<1>1. IsFiniteSet(T) /\ \A x \in T : f[x] \in Int
  BY FS_Subset
<1>2. PICK h : Sums(h, T, f) /\ h[T] = SumOver(T, f)
  BY ONLY <1>1, SumsExist
<1>3. \A x \in T : f[x] = f[x]
  OBVIOUS
<1>4. g[T] = h[T]
  BY ONLY IsFiniteSet(S), Sums(g, S, f), T \in SUBSET S, <1>2, <1>3, SumsAgree
<1> QED
  BY <1>2, <1>4

(* The sum of integers is an integer, and of nothing is zero. *)
LEMMA SumType ==
  ASSUME NEW S, IsFiniteSet(S), NEW f, \A x \in S : f[x] \in Int
  PROVE  SumOver(S, f) \in Int
<1>1. PICK g : Sums(g, S, f) /\ g[S] = SumOver(S, f)
  BY SumsExist
<1> QED
  BY <1>1 DEF Sums

LEMMA SumEmpty ==
  ASSUME NEW f
  PROVE  SumOver({}, f) = 0
<1>1. IsFiniteSet({}) /\ \A x \in {} : f[x] \in Int
  BY FS_EmptySet
<1>2. PICK g : Sums(g, {}, f) /\ g[{}] = SumOver({}, f)
  BY ONLY <1>1, SumsExist
<1> QED
  BY <1>2 DEF Sums

(* The sum depends on the terms only. *)
LEMMA SumSame ==
  ASSUME NEW S, IsFiniteSet(S), NEW e, NEW f,
         \A x \in S : e[x] \in Int /\ f[x] = e[x]
  PROVE  SumOver(S, e) = SumOver(S, f)
<1>1. \A x \in S : e[x] \in Int
  OBVIOUS
<1>2. \A x \in S : f[x] \in Int
  OBVIOUS
<1>3. PICK g : Sums(g, S, e) /\ g[S] = SumOver(S, e)
  BY <1>1, SumsExist
<1>4. PICK h : Sums(h, S, f) /\ h[S] = SumOver(S, f)
  BY <1>2, SumsExist
<1>5. \A x \in S : e[x] = f[x]
  OBVIOUS
<1>6. S \in SUBSET S
  OBVIOUS
<1>7. g[S] = h[S]
  BY ONLY IsFiniteSet(S), <1>3, <1>4, <1>5, <1>6, SumsAgree
<1> QED
  BY <1>3, <1>4, <1>7

(* Any element can be taken out first. *)
LEMMA SumRemove ==
  ASSUME NEW S, IsFiniteSet(S), NEW f, \A x \in S : f[x] \in Int, NEW y \in S
  PROVE  SumOver(S, f) = f[y] + SumOver(S \ {y}, f)
<1>1. PICK g : Sums(g, S, f) /\ g[S] = SumOver(S, f)
  BY SumsExist
<1>2. PICK Good : Good = {T \in SUBSET S : \A x \in T : g[T] = f[x] + g[T \ {x}]}
  OBVIOUS
<1>3. ASSUME NEW T \in SUBSET S, \A x \in T : T \ {x} \in Good
      PROVE  T \in Good
  <2>1. SUFFICES ASSUME NEW x \in T
                 PROVE  g[T] = f[x] + g[T \ {x}]
    BY <1>2
  <2>2. PICK c : c = Chosen(T)
    OBVIOUS
  <2>3. c \in T
    BY <2>2 DEF Chosen
  <2>4. g[T] = f[c] + g[T \ {c}]
    BY <1>1, <2>2 DEF Sums
  <2>5. CASE x = c
    BY <2>4, <2>5
  <2>6. CASE x # c
    <3>1. PICK A : A = T \ {c}
      OBVIOUS
    <3>2. PICK B : B = T \ {x}
      OBVIOUS
    <3>3. PICK C : C = T \ {c, x}
      OBVIOUS
    <3>4. A \in Good /\ B \in Good /\ x \in A /\ c \in B
      BY <1>3, <2>3, <2>6, <3>1, <3>2
    <3>5. A \ {x} = C /\ B \ {c} = C
      BY <3>1, <3>2, <3>3
    <3>6. g[A] = f[x] + g[C] /\ g[B] = f[c] + g[C]
      BY <1>2, <3>4, <3>5
    <3>7. g[C] \in Int /\ f[x] \in Int /\ f[c] \in Int
      BY <1>1, <2>3, <3>3 DEF Sums
    <3> QED
      BY <2>4, <3>1, <3>2, <3>6, <3>7
  <2> QED
    BY <2>5, <2>6
<1>4. S \in Good
  <2>1. \A T \in SUBSET S : (\A x \in T : T \ {x} \in Good) => T \in Good
    BY <1>3
  <2>2. \A T \in SUBSET S : T \in Good
    BY ONLY IsFiniteSet(S), <2>1, FiniteInduction
  <2> QED
    BY <2>2
<1>5. g[S] = f[y] + g[S \ {y}]
  BY <1>2, <1>4
<1>6. S \ {y} \in SUBSET S
  OBVIOUS
<1>7. SumOver(S \ {y}, f) = g[S \ {y}]
  BY ONLY IsFiniteSet(S), \A x \in S : f[x] \in Int, <1>1, <1>6, SumsTell
<1> QED
  BY <1>1, <1>5, <1>7

LEMMA SumAdd ==
  ASSUME NEW S, IsFiniteSet(S), NEW f, NEW y, y \notin S,
         \A x \in S \cup {y} : f[x] \in Int
  PROVE  SumOver(S \cup {y}, f) = SumOver(S, f) + f[y]
<1>1. PICK U : U = S \cup {y}
  OBVIOUS
<1>2. IsFiniteSet(U) /\ y \in U /\ U \ {y} = S
  BY <1>1, FS_AddElement
<1>3. \A x \in U : f[x] \in Int
  BY <1>1
<1>4. SumOver(U, f) = f[y] + SumOver(S, f)
  <2>1. SumOver(U, f) = f[y] + SumOver(U \ {y}, f)
    BY ONLY <1>2, <1>3, SumRemove
  <2> QED
    BY ONLY <1>2, <2>1
<1>5. PICK a : a = SumOver(S, f)
  OBVIOUS
<1>6. a \in Int /\ f[y] \in Int
  BY <1>2, <1>3, <1>5, SumType
<1>7. SumOver(U, f) = a + f[y]
  BY ONLY <1>4, <1>5, <1>6
<1> QED
  BY ONLY <1>1, <1>5, <1>7

(* One term of the sum changes. *)
LEMMA SumChange ==
  ASSUME NEW S, IsFiniteSet(S), NEW e, NEW f, NEW y \in S,
         \A x \in S : e[x] \in Int /\ f[x] \in Int,
         \A x \in S \ {y} : f[x] = e[x]
  PROVE  SumOver(S, f) = SumOver(S, e) - e[y] + f[y]
<1>1. PICK T : T = S \ {y}
  OBVIOUS
<1>2. IsFiniteSet(T) /\ \A x \in T : e[x] \in Int /\ f[x] = e[x]
  BY <1>1, FS_Subset
<1>3. SumOver(T, e) = SumOver(T, f)
  BY ONLY <1>2, SumSame
<1>4. SumOver(T, e) \in Int
  BY <1>2, SumType
<1>5. SumOver(S, e) = e[y] + SumOver(T, e)
  BY <1>1, SumRemove
<1>6. SumOver(S, f) = f[y] + SumOver(T, f)
  BY <1>1, SumRemove
<1> QED
  BY <1>3, <1>4, <1>5, <1>6

(* Terms that are no larger make a sum that is no larger. *)
LEMMA SumMonotonic ==
  ASSUME NEW S, IsFiniteSet(S), NEW e, NEW f,
         \A x \in S : e[x] \in Int /\ f[x] \in Int /\ e[x] <= f[x]
  PROVE  SumOver(S, e) <= SumOver(S, f)
<1>1. PICK Good : Good = {T \in SUBSET S : SumOver(T, e) <= SumOver(T, f)}
  OBVIOUS
<1>2. ASSUME NEW T \in SUBSET S, \A x \in T : T \ {x} \in Good
      PROVE  T \in Good
  <2>1. CASE T = {}
    BY <1>1, <2>1, SumEmpty
  <2>2. CASE T # {}
    <3>1. PICK x \in T : TRUE
      BY <2>2
    <3>2. PICK U : U = T \ {x}
      OBVIOUS
    <3>3. IsFiniteSet(T) /\ IsFiniteSet(U)
      BY <3>2, FS_Subset
    <3>4. SumOver(U, e) <= SumOver(U, f)
      BY <1>1, <1>2, <3>1, <3>2
    <3>5. SumOver(T, e) = e[x] + SumOver(U, e) /\ SumOver(T, f) = f[x] + SumOver(U, f)
      BY <3>1, <3>2, <3>3, SumRemove
    <3>6. SumOver(U, e) \in Int /\ SumOver(U, f) \in Int
      BY <3>2, <3>3, SumType
    <3> QED
      BY <1>1, <3>1, <3>4, <3>5, <3>6
  <2> QED
    BY <2>1, <2>2
<1>3. \A T \in SUBSET S : (\A x \in T : T \ {x} \in Good) => T \in Good
  BY <1>2
<1>4. \A T \in SUBSET S : T \in Good
  BY ONLY IsFiniteSet(S), <1>3, FiniteInduction
<1> QED
  BY <1>1, <1>4

(* Terms that are all scaled scale the sum. *)
LEMMA SumScale ==
  ASSUME NEW S, IsFiniteSet(S), NEW e, NEW f, NEW c \in Int,
         \A x \in S : e[x] \in Int /\ f[x] = c * e[x]
  PROVE  SumOver(S, f) = c * SumOver(S, e)
<1>1. PICK Good : Good = {T \in SUBSET S : SumOver(T, f) = c * SumOver(T, e)}
  OBVIOUS
<1>2. ASSUME NEW T \in SUBSET S, \A x \in T : T \ {x} \in Good
      PROVE  T \in Good
  <2>1. CASE T = {}
    <3>1. SumOver(T, e) = 0 /\ SumOver(T, f) = 0
      BY <2>1, SumEmpty
    <3> QED
      BY <1>1, <3>1
  <2>2. CASE T # {}
    <3>1. PICK x \in T : TRUE
      BY <2>2
    <3>2. PICK U : U = T \ {x}
      OBVIOUS
    <3>3. IsFiniteSet(T) /\ IsFiniteSet(U)
      BY <3>2, FS_Subset
    <3>4. \A y \in S : e[y] \in Int /\ f[y] \in Int
      OBVIOUS
    <3>5. SumOver(T, e) = e[x] + SumOver(U, e) /\ SumOver(T, f) = f[x] + SumOver(U, f)
      BY <3>1, <3>2, <3>3, <3>4, SumRemove
    <3>6. PICK u \in Int : u = SumOver(U, e)
      BY <3>2, <3>3, SumType
    <3>7. SumOver(U, f) = c * u
      BY <1>1, <1>2, <3>1, <3>2, <3>6
    <3>8. PICK t \in Int : t = e[x] /\ f[x] = c * t
      BY <3>1
    <3>9. c * t + c * u = c * (t + u)
      OBVIOUS
    <3>10. SumOver(T, f) = c * SumOver(T, e)
      BY ONLY <3>5, <3>6, <3>7, <3>8, <3>9
    <3> QED
      BY <1>1, <3>10
  <2> QED
    BY <2>1, <2>2
<1>3. \A T \in SUBSET S : (\A x \in T : T \ {x} \in Good) => T \in Good
  BY <1>2
<1>4. \A T \in SUBSET S : T \in Good
  BY ONLY IsFiniteSet(S), <1>3, FiniteInduction
<1> QED
  BY <1>1, <1>4

(* A sum is the sum over a part and over the rest. *)
LEMMA SumSplit ==
  ASSUME NEW S, IsFiniteSet(S), NEW f, \A x \in S : f[x] \in Int,
         NEW A \in SUBSET S
  PROVE  SumOver(S, f) = SumOver(A, f) + SumOver(S \ A, f)
<1>1. PICK Good : Good = {T \in SUBSET A :
                            SumOver((S \ A) \cup T, f) = SumOver(T, f) + SumOver(S \ A, f)}
  OBVIOUS
<1>2. IsFiniteSet(A) /\ IsFiniteSet(S \ A)
  BY FS_Subset
<1>3. SumOver(S \ A, f) \in Int
  BY <1>2, SumType
<1>4. ASSUME NEW T \in SUBSET A, \A x \in T : T \ {x} \in Good
      PROVE  T \in Good
  <2>1. CASE T = {}
    <3>1. (S \ A) \cup T = S \ A
      BY <2>1
    <3> QED
      BY <1>1, <1>3, <2>1, <3>1, SumEmpty
  <2>2. CASE T # {}
    <3>1. PICK x \in T : TRUE
      BY <2>2
    <3>2. PICK U : U = T \ {x}
      OBVIOUS
    <3>3. PICK V : V = (S \ A) \cup T
      OBVIOUS
    <3>4. V \ {x} = (S \ A) \cup U /\ x \in V
      BY <3>1, <3>2, <3>3
    <3>5. IsFiniteSet(T) /\ IsFiniteSet(U) /\ IsFiniteSet(V)
      BY <1>2, <3>2, <3>3, FS_Subset
    <3>6. \A t \in V : f[t] \in Int
      BY <3>3
    <3>7. SumOver(V, f) = f[x] + SumOver(V \ {x}, f)
      BY ONLY <3>4, <3>5, <3>6, SumRemove
    <3>8. SumOver(T, f) = f[x] + SumOver(U, f)
      BY <3>1, <3>2, <3>5, SumRemove
    <3>9. SumOver(U, f) \in Int /\ f[x] \in Int
      BY <3>1, <3>2, <3>5, SumType
    <3>10. SumOver((S \ A) \cup U, f) = SumOver(U, f) + SumOver(S \ A, f)
      BY <1>1, <1>4, <3>1, <3>2
    <3>11. SumOver(V, f) = SumOver(T, f) + SumOver(S \ A, f)
      <4>1. PICK a : a = SumOver(U, f)
        OBVIOUS
      <4>2. PICK b : b = SumOver(S \ A, f)
        OBVIOUS
      <4>3. SumOver(V, f) = f[x] + (a + b)
        BY ONLY <3>4, <3>7, <3>10, <4>1, <4>2
      <4>4. SumOver(T, f) = f[x] + a
        BY ONLY <3>8, <4>1
      <4>5. a \in Int /\ b \in Int /\ f[x] \in Int
        BY ONLY <1>3, <3>9, <4>1, <4>2
      <4> QED
        BY ONLY <4>2, <4>3, <4>4, <4>5
    <3> QED
      BY <1>1, <3>3, <3>11
  <2> QED
    BY <2>1, <2>2
<1>5. \A T \in SUBSET A : (\A x \in T : T \ {x} \in Good) => T \in Good
  BY <1>4
<1>6. \A T \in SUBSET A : T \in Good
  BY ONLY <1>2, <1>5, FiniteInduction
<1>7. (S \ A) \cup A = S
  OBVIOUS
<1> QED
  BY <1>1, <1>6, <1>7

(* Terms may be renamed, each to one of its own. *)
LEMMA SumImage ==
  ASSUME NEW S, IsFiniteSet(S), NEW T, NEW m \in [S -> T],
         \A x, y \in S : m[x] = m[y] => x = y,
         NEW e, NEW f, \A x \in S : e[x] \in Int /\ f[m[x]] = e[x],
         T = {m[x] : x \in S}
  PROVE  IsFiniteSet(T) /\ SumOver(T, f) = SumOver(S, e)
<1>1. PICK img : img = [U \in SUBSET S |-> {m[x] : x \in U}]
  OBVIOUS
<1>2. PICK Good : Good = {U \in SUBSET S :
                            /\ IsFiniteSet(img[U])
                            /\ SumOver(img[U], f) = SumOver(U, e)}
  OBVIOUS
<1>3. ASSUME NEW U \in SUBSET S, \A x \in U : U \ {x} \in Good
      PROVE  U \in Good
  <2>1. CASE U = {}
    <3>1. img[U] = {}
      BY <1>1, <2>1
    <3> QED
      BY <1>2, <2>1, <3>1, SumEmpty, FS_EmptySet
  <2>2. CASE U # {}
    <3>1. PICK x \in U : TRUE
      BY <2>2
    <3>2. PICK W : W = U \ {x}
      OBVIOUS
    <3>3. PICK A : A = img[W]
      OBVIOUS
    <3>4. IsFiniteSet(A) /\ SumOver(A, f) = SumOver(W, e)
      BY <1>2, <1>3, <3>1, <3>2, <3>3
    <3>5. W \in SUBSET S /\ A = {m[y] : y \in W} /\ img[U] = {m[y] : y \in U}
      BY <1>1, <3>2, <3>3
    <3>6. m[x] \notin A /\ img[U] = A \cup {m[x]}
      BY <3>1, <3>2, <3>5
    <3>7. \A t \in A \cup {m[x]} : f[t] \in Int
      BY <3>1, <3>5
    <3>8. SumOver(A \cup {m[x]}, f) = SumOver(A, f) + f[m[x]]
      BY ONLY <3>4, <3>6, <3>7, SumAdd
    <3>9. IsFiniteSet(U) /\ IsFiniteSet(W) /\ \A y \in U : e[y] \in Int
      BY <3>2, FS_Subset
    <3>10. SumOver(U, e) = e[x] + SumOver(W, e)
      BY ONLY <3>1, <3>2, <3>9, SumRemove
    <3>11. SumOver(W, e) \in Int
      BY <3>2, <3>9, SumType
    <3>12. f[m[x]] = e[x] /\ e[x] \in Int
      BY <3>1
    <3>13. SumOver(img[U], f) = SumOver(U, e)
      BY ONLY <3>4, <3>6, <3>8, <3>10, <3>11, <3>12
    <3>14. IsFiniteSet(img[U])
      BY <3>4, <3>6, FS_AddElement
    <3> QED
      BY <1>2, <3>13, <3>14
  <2> QED
    BY <2>1, <2>2
<1>4. S \in Good
  <2>1. \A U \in SUBSET S : (\A x \in U : U \ {x} \in Good) => U \in Good
    BY <1>3
  <2>2. \A U \in SUBSET S : U \in Good
    BY ONLY IsFiniteSet(S), <2>1, FiniteInduction
  <2> QED
    BY <2>2
<1>5. img[S] = T
  BY <1>1
<1> QED
  BY <1>2, <1>4, <1>5

(* A sum lies between its number of terms times a bound on either side. *)
LEMMA SumBounds ==
  ASSUME NEW S, IsFiniteSet(S), NEW f, NEW low \in Int, NEW high \in Int,
         \A x \in S : f[x] \in low .. high
  PROVE  /\ low * Cardinality(S) <= SumOver(S, f)
         /\ SumOver(S, f) <= high * Cardinality(S)
<1>1. PICK Good : Good = {T \in SUBSET S :
                            /\ low * Cardinality(T) <= SumOver(T, f)
                            /\ SumOver(T, f) <= high * Cardinality(T)}
  OBVIOUS
<1>2. ASSUME NEW T \in SUBSET S, \A x \in T : T \ {x} \in Good
      PROVE  T \in Good
  <2>1. CASE T = {}
    <3>1. Cardinality(T) = 0 /\ SumOver(T, f) = 0
      BY <2>1, SumEmpty, FS_EmptySet
    <3> QED
      BY <1>1, <3>1
  <2>2. CASE T # {}
    <3>1. PICK x \in T : TRUE
      BY <2>2
    <3>2. PICK U : U = T \ {x}
      OBVIOUS
    <3>3. IsFiniteSet(T) /\ IsFiniteSet(U) /\ Cardinality(U) = Cardinality(T) - 1
      BY <3>2, FS_Subset, FS_RemoveElement
    <3>4. Cardinality(T) \in Nat
      BY <3>3, FS_CardinalityType
    <3>5. SumOver(T, f) = f[x] + SumOver(U, f)
      BY <3>1, <3>2, <3>3, SumRemove
    <3>6. SumOver(U, f) \in Int
      BY <3>2, <3>3, SumType
    <3>7. U \in Good
      BY <1>2, <3>1, <3>2
    <3>8. low * Cardinality(U) <= SumOver(U, f) /\ SumOver(U, f) <= high * Cardinality(U)
      BY <1>1, <3>7
    <3>9. PICK n : n = Cardinality(T)
      OBVIOUS
    <3>10. n \in Int /\ Cardinality(U) = n - 1 /\ low * n = low * (n - 1) + low
                    /\ high * n = high * (n - 1) + high
      BY <3>3, <3>4, <3>9
    <3>11. PICK a : a = low * (n - 1)
      OBVIOUS
    <3>12. PICK b : b = high * (n - 1)
      OBVIOUS
    <3>13. a \in Int /\ b \in Int
      BY <3>10, <3>11, <3>12
    <3>14. PICK u : u = SumOver(U, f)
      OBVIOUS
    <3>15. a <= u /\ u <= b /\ u \in Int
      BY <3>6, <3>8, <3>10, <3>11, <3>12, <3>14
    <3>16. f[x] \in Int /\ low <= f[x] /\ f[x] <= high
      BY <3>1
    <3>17. a + low <= f[x] + u /\ f[x] + u <= b + high
      BY ONLY <3>13, <3>15, <3>16, low \in Int, high \in Int
    <3> QED
      BY <1>1, <3>5, <3>9, <3>10, <3>11, <3>12, <3>14, <3>17
  <2> QED
    BY <2>1, <2>2
<1>3. \A T \in SUBSET S : (\A x \in T : T \ {x} \in Good) => T \in Good
  BY <1>2
<1>4. \A T \in SUBSET S : T \in Good
  BY ONLY IsFiniteSet(S), <1>3, FiniteInduction
<1> QED
  BY <1>1, <1>4

-----------------------------------------------------------------------------
(* Folds. *)

LEMMA MaxOfInterval ==
  ASSUME NEW k \in Nat, k # 0
  PROVE  Max(1 .. k) = k
<1>1. k \in 1 .. k /\ \A y \in 1 .. k : k >= y
  OBVIOUS
<1>2. \A x \in 1 .. k : (\A y \in 1 .. k : x >= y) => x = k
  OBVIOUS
<1> QED
  BY <1>1, <1>2 DEF Max

LEMMA MaxOfSome ==
  ASSUME NEW n \in Nat, NEW T \in SUBSET (1 .. n), T # {}
  PROVE  Max(T) \in T
<1>1. PICK G : G = {k \in 0 .. n : (\A U \in SUBSET (1 .. k) : U # {} =>
                                      \E x \in U : \A y \in U : x >= y)}
  OBVIOUS
<1>2. 0 \in G
  <2>1. \A U \in SUBSET (1 .. 0) : U = {}
    OBVIOUS
  <2>2. 0 \in 0 .. n
    OBVIOUS
  <2> QED
    BY <1>1, <2>1, <2>2
<1>3. ASSUME NEW k \in 0 .. n - 1, k \in G
      PROVE  k + 1 \in G
  <2>1. ASSUME NEW U \in SUBSET (1 .. k + 1), U # {}
        PROVE  \E x \in U : \A y \in U : x >= y
    <3>1. CASE k + 1 \in U
      <4>1. \A y \in U : k + 1 >= y
        OBVIOUS
      <4> QED
        BY <3>1, <4>1
    <3>2. CASE k + 1 \notin U
      <4>1. U \in SUBSET (1 .. k)
        BY <3>2
      <4> QED
        BY <1>1, <1>3, <2>1, <4>1
    <3> QED
      BY <3>1, <3>2
  <2> QED
    BY <1>1, <2>1
<1>4. \A k \in 0 .. n : k \in G
  <2>1. \A k \in 0 .. n - 1 : k \in G => k + 1 \in G
    BY <1>3
  <2> QED
    BY ONLY n \in Nat, <1>2, <2>1, BoundedInduction
<1>5. \E x \in T : \A y \in T : x >= y
  <2>1. n \in G
    BY <1>4
  <2>2. \A U \in SUBSET (1 .. n) : U # {} => \E x \in U : \A y \in U : x >= y
    BY <1>1, <2>1
  <2> QED
    BY <2>2
<1> QED
  BY <1>5 DEF Max

(* step takes a result in A and an element of E to a result in A. *)
Steps(step, A, E) == \A a \in A, e \in E : step[<<a, e>>] \in A

(* g gives the result after each beginning of s. *)
Results(g, A, step, base, s) ==
  /\ g \in [0 .. Len(s) -> A]
  /\ g[0] = base
  /\ \A k \in 1 .. Len(s) : g[k] = step[<<g[k - 1], s[k]>>]

LEMMA FoldedExists ==
  ASSUME NEW A, NEW base \in A, NEW E, NEW s \in Seq(E),
         NEW step, Steps(step, A, E)
  PROVE  \E g : Results(g, A, step, base, s) /\ Folded(step, base, s) = g[Len(s)]
<1> DEFINE D == 1 .. Len(s)
           Body(g) == [T \in SUBSET D |->
                         IF T = {} THEN base ELSE step[<<g[T \ {Max(T)}], s[Max(T)]>>]]
<1>1. Len(s) \in Nat /\ DOMAIN s = D /\ \A k \in D : s[k] \in E
  BY LenProperties, ElementOfSeq
<1>2. IsFiniteSet(D)
  BY <1>1, FS_Interval
<1>3. PICK pick : pick = [T \in SUBSET D |-> Max(T)]
  OBVIOUS
<1>4. \A T \in SUBSET D : T # {} => pick[T] \in T /\ pick[T] = Max(T)
  BY <1>1, <1>3, MaxOfSome
<1>5. PICK comb : comb = [p \in (SUBSET D) \X A |->
                            IF p[1] = {} THEN base ELSE step[<<p[2], s[pick[p[1]]]>>]]
  OBVIOUS
<1>6. \A T \in SUBSET D, v \in A :
        comb[<<T, v>>] = IF T = {} THEN base ELSE step[<<v, s[pick[T]]>>]
  BY <1>5
<1>7. ASSUME NEW T \in SUBSET D, NEW v \in A
      PROVE  comb[<<T, v>>] \in A
  <2>1. CASE T = {}
    BY <1>6, <2>1
  <2>2. CASE T # {}
    <3>1. s[pick[T]] \in E
      BY <1>1, <1>4, <2>2
    <3> QED
      BY <1>6, <2>2, <3>1 DEF Steps
  <2> QED
    BY <2>1, <2>2
<1>8. PICK g : Solves(g, D, A, base, pick, comb)
  <2>1. base \in A
    OBVIOUS
  <2>2. \A T \in SUBSET D : T # {} => pick[T] \in T
    BY <1>4
  <2>3. \A T \in SUBSET D, v \in A : comb[<<T, v>>] \in A
    BY <1>7
  <2> HIDE DEF D
  <2> QED
    BY ONLY <1>2, <2>1, <2>2, <2>3, Recursion
<1>9. ASSUME NEW T \in SUBSET D
      PROVE  g[T] = IF T = {} THEN base ELSE step[<<g[T \ {Max(T)}], s[Max(T)]>>]
  <2>1. CASE T = {}
    BY <1>8, <2>1 DEF Solves
  <2>2. CASE T # {}
    <3>1. g[T \ {pick[T]}] \in A
      BY <1>8 DEF Solves
    <3>2. g[T] = comb[<<T, g[T \ {pick[T]}]>>]
      BY <1>8, <2>2 DEF Solves
    <3> QED
      BY <1>4, <1>6, <2>2, <3>1, <3>2
  <2> QED
    BY <2>1, <2>2
<1>10. g = Body(g)
  BY <1>8, <1>9 DEF Solves
<1>11. PICK iter : iter = CHOOSE h : h = Body(h)
  OBVIOUS
<1>12. iter = Body(iter)
  BY <1>10, <1>11
<1>13. Folded(step, base, s) = iter[D]
  BY <1>1, <1>11 DEF Folded, FoldLeft, MapThenFoldSet
<1>14. iter[{}] = base
  BY <1>12
<1>15. ASSUME NEW k \in D
       PROVE  iter[1 .. k] = step[<<iter[1 .. k - 1], s[k]>>]
  <2>1. k \in Nat /\ k # 0 /\ Max(1 .. k) = k
    BY <1>1, MaxOfInterval
  <2>2. 1 .. k \in SUBSET D /\ 1 .. k # {} /\ (1 .. k) \ {k} = 1 .. k - 1
    <3>1. 1 .. k \subseteq 1 .. Len(s)
      BY <1>1, <2>1
    <3>2. k \in 1 .. k
      BY <2>1
    <3>3. \A i : i \in (1 .. k) \ {k} <=> i \in 1 .. k - 1
      BY <2>1
    <3> QED
      BY <3>1, <3>2, <3>3
  <2>3. iter[1 .. k] = step[<<iter[(1 .. k) \ {Max(1 .. k)}], s[Max(1 .. k)]>>]
    BY <1>12, <2>2
  <2> QED
    BY <2>1, <2>2, <2>3
<1>16. PICK r : r = [k \in 0 .. Len(s) |-> iter[1 .. k]]
  OBVIOUS
<1>17. r[0] = base
  BY <1>1, <1>14, <1>16
<1>18. ASSUME NEW k \in D
       PROVE  r[k] = step[<<r[k - 1], s[k]>>]
  BY <1>1, <1>15, <1>16
<1>19. PICK G : G = {k \in 0 .. Len(s) : r[k] \in A}
  OBVIOUS
<1>20. 0 \in G
  BY <1>1, <1>17, <1>19
<1>21. ASSUME NEW k \in 0 .. Len(s) - 1, k \in G
       PROVE  k + 1 \in G
  <2>1. k + 1 \in D /\ k + 1 \in 0 .. Len(s) /\ (k + 1) - 1 = k
    BY <1>1
  <2>2. r[k + 1] = step[<<r[k], s[k + 1]>>]
    BY <1>18, <2>1
  <2> QED
    BY <1>1, <1>19, <1>21, <2>1, <2>2 DEF Steps
<1>22. \A k \in 0 .. Len(s) : k \in G
  <2>1. \A k \in 0 .. Len(s) - 1 : k \in G => k + 1 \in G
    BY <1>21
  <2>2. Len(s) \in Nat
    BY <1>1
  <2> QED
    BY ONLY <1>20, <2>1, <2>2, BoundedInduction
<1>23. r \in [0 .. Len(s) -> A]
  BY <1>16, <1>19, <1>22
<1>24. r[Len(s)] = Folded(step, base, s)
  BY <1>1, <1>13, <1>16
<1>25. Results(r, A, step, base, s)
  BY <1>17, <1>18, <1>23 DEF Results
<1> QED
  BY <1>24, <1>25

LEMMA ResultsAgree ==
  ASSUME NEW A, NEW B, NEW base, NEW step, NEW s, NEW t,
         Len(s) \in Nat, Len(t) \in Nat, Len(s) <= Len(t),
         \A k \in 1 .. Len(s) : s[k] = t[k],
         NEW g, Results(g, A, step, base, s), NEW h, Results(h, B, step, base, t)
  PROVE  g[Len(s)] = h[Len(s)]
<1>1. PICK G : G = {k \in 0 .. Len(s) : g[k] = h[k]}
  OBVIOUS
<1>2. 0 \in G
  BY <1>1 DEF Results
<1>3. ASSUME NEW k \in 0 .. Len(s) - 1, k \in G
      PROVE  k + 1 \in G
  <2>1. k + 1 \in 1 .. Len(s) /\ k + 1 \in 1 .. Len(t) /\ (k + 1) - 1 = k
    OBVIOUS
  <2>2. g[k + 1] = step[<<g[k], s[k + 1]>>] /\ h[k + 1] = step[<<h[k], t[k + 1]>>]
    BY <2>1 DEF Results
  <2> QED
    BY <1>1, <1>3, <2>1, <2>2
<1>4. \A k \in 0 .. Len(s) : k \in G
  <2>1. \A k \in 0 .. Len(s) - 1 : k \in G => k + 1 \in G
    BY <1>3
  <2> QED
    BY ONLY Len(s) \in Nat, <1>2, <2>1, BoundedInduction
<1> QED
  BY <1>1, <1>4

LEMMA FoldedType ==
  ASSUME NEW A, NEW base \in A, NEW E, NEW s \in Seq(E),
         NEW step, Steps(step, A, E)
  PROVE  Folded(step, base, s) \in A
<1>1. PICK g : Results(g, A, step, base, s) /\ Folded(step, base, s) = g[Len(s)]
  BY FoldedExists
<1>2. Len(s) \in 0 .. Len(s)
  BY LenProperties
<1> QED
  BY <1>1, <1>2 DEF Results

LEMMA FoldedEmpty ==
  ASSUME NEW base, NEW step
  PROVE  Folded(step, base, <<>>) = base
<1>1. PICK A : A = {base}
  OBVIOUS
<1>2. PICK E : E = {}
  OBVIOUS
<1>3. base \in A /\ <<>> \in Seq(E) /\ Steps(step, A, E)
  BY <1>1, <1>2 DEF Steps
<1>4. PICK s : s = <<>>
  OBVIOUS
<1>5. s \in Seq(E) /\ Len(s) = 0
  BY <1>4
<1>6. PICK g : Results(g, A, step, base, s) /\ Folded(step, base, s) = g[Len(s)]
  BY ONLY <1>3, <1>5, FoldedExists
<1> QED
  BY <1>4, <1>5, <1>6 DEF Results

(* One element more is one step more. *)
LEMMA FoldedAppend ==
  ASSUME NEW A, NEW base \in A, NEW E, NEW s \in Seq(E), NEW x \in E,
         NEW step, Steps(step, A, E)
  PROVE  Folded(step, base, Append(s, x)) = step[<<Folded(step, base, s), x>>]
<1>1. PICK t : t = Append(s, x)
  OBVIOUS
<1>2. PICK n : n = Len(s)
  OBVIOUS
<1>3. /\ t \in Seq(E) /\ n \in Nat /\ Len(t) = n + 1 /\ t[n + 1] = x
      /\ \A k \in 1 .. n : t[k] = s[k]
  BY <1>1, <1>2, AppendProperties, LenProperties
<1>4. PICK g : Results(g, A, step, base, s) /\ Folded(step, base, s) = g[Len(s)]
  BY FoldedExists
<1>5. PICK h : Results(h, A, step, base, t) /\ Folded(step, base, t) = h[Len(t)]
  BY ONLY base \in A, <1>3, Steps(step, A, E), FoldedExists
<1>6. g[Len(s)] = h[Len(s)]
  <2>1. Len(s) \in Nat /\ Len(t) \in Nat /\ Len(s) <= Len(t)
    BY <1>2, <1>3
  <2>2. \A k \in 1 .. Len(s) : s[k] = t[k]
    BY <1>2, <1>3
  <2>3. Results(g, A, step, base, s) /\ Results(h, A, step, base, t)
    BY <1>4, <1>5
  <2> QED
    BY ONLY <2>1, <2>2, <2>3, ResultsAgree
<1>7. h[n + 1] = step[<<h[n], t[n + 1]>>]
  <2>1. n + 1 \in 1 .. Len(t) /\ (n + 1) - 1 = n
    BY <1>3
  <2> QED
    BY <1>5, <2>1 DEF Results
<1> QED
  BY <1>1, <1>2, <1>3, <1>4, <1>5, <1>6, <1>7

(* The second part of a sequence is folded from what the first one gave. *)
LEMMA FoldedConcat ==
  ASSUME NEW A, NEW base \in A, NEW E, NEW s \in Seq(E), NEW t \in Seq(E),
         NEW step, Steps(step, A, E)
  PROVE  Folded(step, base, s \o t) = Folded(step, Folded(step, base, s), t)
<1>1. PICK u : u = s \o t
  OBVIOUS
<1>2. PICK m : m = Len(s)
  OBVIOUS
<1>3. PICK n : n = Len(t)
  OBVIOUS
<1>4. /\ u \in Seq(E) /\ m \in Nat /\ n \in Nat /\ Len(u) = m + n
      /\ \A i \in 1 .. m : u[i] = s[i]
      /\ \A i \in 1 .. n : u[m + i] = t[i]
  <2>1. /\ s \o t \in Seq(E) /\ Len(s \o t) = Len(s) + Len(t)
        /\ \A i \in 1 .. Len(s) + Len(t) : (s \o t)[i] =
             IF i <= Len(s) THEN s[i] ELSE t[i - Len(s)]
    BY ConcatProperties
  <2>2. m \in Nat /\ n \in Nat
    BY <1>2, <1>3, LenProperties
  <2>3. \A i \in 1 .. m + n : u[i] = IF i <= m THEN s[i] ELSE t[i - m]
    BY <1>1, <1>2, <1>3, <2>1
  <2>4. \A i \in 1 .. m : i \in 1 .. m + n /\ i <= m
    BY <2>2
  <2>5. \A i \in 1 .. n : m + i \in 1 .. m + n /\ ~ (m + i <= m) /\ (m + i) - m = i
    BY <2>2
  <2> QED
    BY <1>1, <1>2, <1>3, <2>1, <2>2, <2>3, <2>4, <2>5
<1>5. PICK mid : mid = Folded(step, base, s)
  OBVIOUS
<1>6. mid \in A
  BY <1>5, FoldedType
<1>7. PICK g : Results(g, A, step, base, s) /\ Folded(step, base, s) = g[Len(s)]
  BY FoldedExists
<1>8. PICK h : Results(h, A, step, base, u) /\ Folded(step, base, u) = h[Len(u)]
  <2>1. u \in Seq(E)
    BY <1>4
  <2> QED
    BY ONLY base \in A, <2>1, Steps(step, A, E), FoldedExists
<1>9. PICK r : Results(r, A, step, mid, t) /\ Folded(step, mid, t) = r[Len(t)]
  BY ONLY <1>6, t \in Seq(E), Steps(step, A, E), FoldedExists
<1>10. g[Len(s)] = h[Len(s)]
  <2>1. Len(s) \in Nat /\ Len(u) \in Nat /\ Len(s) <= Len(u)
    BY <1>2, <1>4
  <2>2. \A k \in 1 .. Len(s) : s[k] = u[k]
    BY <1>2, <1>4
  <2>3. Results(g, A, step, base, s) /\ Results(h, A, step, base, u)
    BY <1>7, <1>8
  <2> QED
    BY ONLY <2>1, <2>2, <2>3, ResultsAgree
<1>11. PICK G : G = {k \in 0 .. n : r[k] = h[m + k]}
  OBVIOUS
<1>12. 0 \in G
  BY <1>2, <1>4, <1>5, <1>7, <1>9, <1>10, <1>11 DEF Results
<1>13. ASSUME NEW k \in 0 .. n - 1, k \in G
       PROVE  k + 1 \in G
  <2>1. k + 1 \in 1 .. n /\ (k + 1) - 1 = k /\ m + (k + 1) \in 1 .. m + n
                         /\ (m + (k + 1)) - 1 = m + k /\ k + 1 \in 0 .. n
    BY <1>4
  <2>2. r[k + 1] = step[<<r[k], t[k + 1]>>]
    BY <1>3, <1>9, <2>1 DEF Results
  <2>3. h[m + (k + 1)] = step[<<h[m + k], u[m + (k + 1)]>>]
    BY <1>4, <1>8, <2>1 DEF Results
  <2>4. u[m + (k + 1)] = t[k + 1]
    BY <1>4, <2>1
  <2>5. r[k] = h[m + k]
    BY <1>11, <1>13
  <2>6. r[k + 1] = h[m + (k + 1)]
    BY ONLY <2>2, <2>3, <2>4, <2>5
  <2> QED
    BY <1>11, <2>1, <2>6
<1>14. \A k \in 0 .. n : k \in G
  <2>1. \A k \in 0 .. n - 1 : k \in G => k + 1 \in G
    BY <1>13
  <2>2. n \in Nat
    BY <1>4
  <2> QED
    BY ONLY <1>12, <2>1, <2>2, BoundedInduction
<1>15. r[n] = h[m + n]
  BY <1>4, <1>11, <1>14
<1> QED
  BY <1>1, <1>3, <1>4, <1>5, <1>8, <1>9, <1>15

-----------------------------------------------------------------------------
(* Sequences of sequences. *)

(* Of no sequences. *)
LEMMA FlattenEmpty ==
  FlattenSeq(<<>>) = <<>>
BY EmptySeq DEF FlattenSeq

(* Appending a sequence appends its elements to the flattened ones. *)
LEMMA FlattenAppend ==
  ASSUME NEW E, NEW ss \in Seq(Seq(E)), NEW s \in Seq(E)
  PROVE  /\ FlattenSeq(ss) \in Seq(E)
         /\ FlattenSeq(Append(ss, s)) = FlattenSeq(ss) \o s
<1> DEFINE Q == Seq(E)
<1>1. PICK join : join = [p \in Q \X Q |-> p[1] \o p[2]]
  OBVIOUS
<1>2. \A a \in Q, e \in Q : join[<<a, e>>] = a \o e /\ join[<<a, e>>] \in Q
  BY <1>1, ConcatProperties
<1>3. <<>> \in Q
  OBVIOUS
<1>9. Steps(join, Q, Q)
  BY <1>2 DEF Steps
<1>4. ASSUME NEW tt \in Seq(Q)
      PROVE  FlattenSeq(tt) = Folded(join, <<>>, tt)
  <2>1. CASE Len(tt) = 0
    <3>1. tt = <<>>
      BY <2>1, EmptySeq
    <3> QED
      BY <2>1, <3>1, FoldedEmpty DEF FlattenSeq
  <2>2. CASE Len(tt) # 0
    <3> DEFINE Body(f) == [i \in 1 .. Len(tt) |-> IF i = 1 THEN tt[i] ELSE f[i - 1] \o tt[i]]
    <3>1. Len(tt) \in Nat /\ \A i \in 1 .. Len(tt) : tt[i] \in Seq(E)
      BY LenProperties, ElementOfSeq
    <3>2. PICK g : Results(g, Q, join, <<>>, tt) /\ Folded(join, <<>>, tt) = g[Len(tt)]
      <4> HIDE DEF Q
      <4> QED
        BY ONLY <1>3, <1>9, tt \in Seq(Q), FoldedExists
    <3>3. \A i \in 1 .. Len(tt) : g[i] = g[i - 1] \o tt[i]
      <4>1. ASSUME NEW i \in 1 .. Len(tt)
            PROVE  g[i] = g[i - 1] \o tt[i]
        <5>1. i - 1 \in 0 .. Len(tt)
          BY <3>1
        <5>2. g[i - 1] \in Q /\ g[i] = join[<<g[i - 1], tt[i]>>]
          BY <3>2, <5>1 DEF Results
        <5> QED
          BY <1>2, <3>1, <5>2
      <4> QED
        BY <4>1
    <3>4. PICK h : h = [i \in 1 .. Len(tt) |-> g[i]]
      OBVIOUS
    <3>5. ASSUME NEW i \in 1 .. Len(tt)
          PROVE  h[i] = IF i = 1 THEN tt[i] ELSE h[i - 1] \o tt[i]
      <4>1. CASE i = 1
        <5>1. g[i] = <<>> \o tt[i]
          <6>1. g[0] = <<>>
            BY <3>2 DEF Results
          <6>2. g[1] = g[0] \o tt[1]
            <7>1. 1 \in 1 .. Len(tt) /\ 1 - 1 = 0
              BY <3>1, <4>1
            <7> QED
              BY ONLY <3>3, <7>1
          <6> QED
            BY <4>1, <6>1, <6>2
        <5>2. <<>> \o tt[i] = tt[i]
          BY <3>1, ConcatEmptySeq
        <5> QED
          BY <3>4, <4>1, <5>1, <5>2
      <4>2. CASE i # 1
        <5>1. i - 1 \in 1 .. Len(tt)
          BY <3>1, <4>2
        <5> QED
          BY <3>3, <3>4, <4>2, <5>1
      <4> QED
        BY <4>1, <4>2
    <3>6. h = Body(h)
      BY <3>4, <3>5
    <3>7. PICK f : f = CHOOSE k : k = Body(k)
      OBVIOUS
    <3>8. f = Body(f)
      BY <3>6, <3>7
    <3>9. FlattenSeq(tt) = f[Len(tt)]
      BY <2>2, <3>7 DEF FlattenSeq
    <3>10. PICK G : G = {i \in 0 .. Len(tt) : i # 0 => f[i] = g[i]}
      OBVIOUS
    <3>11. 0 \in G
      BY <3>1, <3>10
    <3>12. ASSUME NEW i \in 0 .. Len(tt) - 1, i \in G
           PROVE  i + 1 \in G
      <4>1. i + 1 \in 1 .. Len(tt) /\ (i + 1) - 1 = i /\ i + 1 \in 0 .. Len(tt)
        BY <3>1
      <4>2. h[i + 1] = g[i + 1]
        BY <3>4, <4>1
      <4>3. f[i + 1] = IF i + 1 = 1 THEN tt[i + 1] ELSE f[i] \o tt[i + 1]
        BY <3>8, <4>1
      <4>4. CASE i = 0
        <5>1. f[i + 1] = tt[i + 1] /\ h[i + 1] = tt[i + 1]
          BY <3>5, <4>1, <4>3, <4>4
        <5> QED
          BY <3>10, <4>1, <4>2, <5>1
      <4>5. CASE i # 0
        <5>1. f[i] = g[i]
          BY <3>10, <3>12, <4>5
        <5>2. f[i + 1] = f[i] \o tt[i + 1]
          <6>1. i + 1 # 1
            BY <4>5
          <6> QED
            BY ONLY <4>3, <6>1
        <5>3. g[i + 1] = g[i] \o tt[i + 1]
          BY <3>3, <4>1
        <5> QED
          BY <3>10, <4>1, <5>1, <5>2, <5>3
      <4> QED
        BY <4>4, <4>5
    <3>13. \A i \in 0 .. Len(tt) : i \in G
      <4>1. \A i \in 0 .. Len(tt) - 1 : i \in G => i + 1 \in G
        BY <3>12
      <4>2. Len(tt) \in Nat
        BY <3>1
      <4> QED
        BY ONLY <3>11, <4>1, <4>2, BoundedInduction
    <3>14. f[Len(tt)] = g[Len(tt)]
      BY <2>2, <3>1, <3>10, <3>13
    <3> QED
      BY <3>2, <3>9, <3>14
  <2> QED
    BY <2>1, <2>2
<1>5. ss \in Seq(Q) /\ s \in Q
  OBVIOUS
<1>6. Folded(join, <<>>, ss) \in Q
  <2> HIDE DEF Q
  <2> QED
    BY ONLY <1>3, <1>9, <1>5, FoldedType
<1>7. Folded(join, <<>>, Append(ss, s)) = join[<<Folded(join, <<>>, ss), s>>]
  <2> HIDE DEF Q
  <2> QED
    BY ONLY <1>3, <1>9, <1>5, FoldedAppend
<1>8. Append(ss, s) \in Seq(Q)
  BY AppendProperties
<1> QED
  BY <1>2, <1>4, <1>6, <1>7, <1>8
=============================================================================
