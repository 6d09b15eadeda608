-------------------------- MODULE Induction_proofs ---------------------------
(***************************************************************************)
(* Induction over the naturals and over the subsets of a finite set, for a *)
(* set of the numbers or subsets at which a claim holds, and what follows  *)
(* from it for recursively defined functions and for sums.                 *)
(***************************************************************************)
EXTENDS Integers, FiniteSets, Folds, Functions,
        WellFoundedInduction, FiniteSetTheorems, TLAPS

(* Of some naturals, one is the least. *)
LEMMA LeastNatural ==
  ASSUME NEW T \in SUBSET Nat, T # {}
  PROVE  \E x \in T : \A y \in T : x <= y
<1>. DEFINE R == OpToRel(<, Nat)
<1>1. IsWellFoundedOn(R, Nat)
  BY NatLessThanWellFounded
<1>2. \A x, y \in Nat : x < y => <<x, y>> \in R
  BY DEF OpToRel
<1>. HIDE DEF R
<1>3. PICK x \in T : \A y \in T : ~(<<y, x>> \in R)
  BY <1>1, WFMin
<1>4. \A y \in T : y \in Nat /\ x \in Nat /\ ~(y < x)
  BY <1>2, <1>3
<1>5. \A y \in T : x <= y
  BY <1>4
<1>. QED BY <1>5

LEMMA NaturalInduction ==
  ASSUME NEW T, 0 \in T, \A n \in Nat : n \in T => n + 1 \in T
  PROVE  Nat \subseteq T
<1>. SUFFICES ASSUME Nat \ T # {} PROVE FALSE
  OBVIOUS
<1>1. PICK n \in Nat \ T : \A m \in Nat \ T : n <= m
  BY LeastNatural
<1>2. n # 0 /\ n \in Nat
  BY <1>1
<1>3. n - 1 \in Nat /\ ~(n <= n - 1) /\ n - 1 + 1 = n
  BY <1>2
<1>4. n - 1 \in T
  BY <1>1, <1>3
<1>. QED BY <1>1, <1>3, <1>4

LEMMA SubsetInduction ==
  ASSUME NEW S, IsFiniteSet(S), NEW T, {} \in T,
         \A s \in SUBSET S : s # {} /\ (\A x \in s : s \ {x} \in T) => s \in T
  PROVE  SUBSET S \subseteq T
<1>. DEFINE N == {n \in Nat : \A s \in SUBSET S : Cardinality(s) <= n => s \in T}
<1>1. \A s \in SUBSET S : IsFiniteSet(s) /\ Cardinality(s) \in Nat
  BY FS_Subset, FS_CardinalityType
<1>2. 0 \in N
  <2>1. ASSUME NEW s \in SUBSET S, Cardinality(s) <= 0 PROVE s \in T
    <3>1. Cardinality(s) = 0 /\ IsFiniteSet(s)
      BY <1>1, <2>1
    <3>. QED BY <3>1, FS_EmptySet
  <2>. QED BY <2>1
<1>3. ASSUME NEW n \in Nat, n \in N PROVE n + 1 \in N
  <2>1. ASSUME NEW s \in SUBSET S, Cardinality(s) <= n + 1, s # {},
               NEW x \in s
        PROVE  s \ {x} \in T
    <3>1. Cardinality(s \ {x}) = Cardinality(s) - 1 /\ s \ {x} \in SUBSET S
      BY <1>1, FS_RemoveElement
    <3>2. Cardinality(s \ {x}) <= n
      BY <1>1, <2>1, <3>1
    <3>. QED BY <1>3, <3>1, <3>2
  <2>2. ASSUME NEW s \in SUBSET S, Cardinality(s) <= n + 1 PROVE s \in T
    BY <2>1, <2>2
  <2>. QED BY <2>2
<1>4. Nat \subseteq N
  <2>. HIDE DEF N
  <2>. QED BY <1>2, <1>3, NaturalInduction
<1>5. ASSUME NEW s \in SUBSET S PROVE s \in T
  <2>1. Cardinality(s) \in N /\ Cardinality(s) <= Cardinality(s)
    BY <1>1, <1>4
  <2>. QED BY <2>1
<1>. QED BY <1>5

(* How SumFunctionOnSet computes a sum, choosing one element after another. *)
Sums(iter, f, S) ==
  iter = [s \in SUBSET S |->
            IF s = {} THEN 0
            ELSE f[CHOOSE x \in s : TRUE] + iter[s \ {CHOOSE x \in s : TRUE}]]

LEMMA SumsStep ==
  ASSUME NEW S, NEW f, NEW iter, Sums(iter, f, S), NEW s \in SUBSET S, s # {}
  PROVE  \E c \in s : iter[s] = f[c] + iter[s \ {c}]
<1>. DEFINE c == CHOOSE x \in s : TRUE
<1>1. c \in s
  OBVIOUS
<1>2. iter[s] = f[c] + iter[s \ {c}]
  BY DEF Sums
<1>. HIDE DEF c
<1>. QED BY <1>1, <1>2

(* A function of the subsets that grows by what is added is the sum. *)
LEMMA SumsUnique ==
  ASSUME NEW S, IsFiniteSet(S), NEW f, NEW g,
         g[{}] = 0, \A s \in SUBSET S : \A x \in s : g[s] = f[x] + g[s \ {x}],
         NEW iter, Sums(iter, f, S)
  PROVE  iter[S] = g[S]
<1>. DEFINE T == {s \in SUBSET S : iter[s] = g[s]}
<1>1. {} \in T
  BY DEF Sums
<1>2. ASSUME NEW s \in SUBSET S, s # {}, \A x \in s : s \ {x} \in T PROVE s \in T
  <2>1. PICK c \in s : iter[s] = f[c] + iter[s \ {c}]
    BY <1>2, SumsStep
  <2>2. iter[s \ {c}] = g[s \ {c}] /\ g[s] = f[c] + g[s \ {c}]
    BY <1>2
  <2>. QED BY <2>1, <2>2
<1>3. SUBSET S \subseteq T
  <2>. HIDE DEF T
  <2>. QED BY <1>1, <1>2, SubsetInduction
<1>4. S \in T
  BY <1>3
<1>. QED BY <1>4

LEMMA SumsExists ==
  ASSUME NEW S, NEW f, NEW g,
         g[{}] = 0, \A s \in SUBSET S : \A x \in s : g[s] = f[x] + g[s \ {x}]
  PROVE  \E iter : Sums(iter, f, S)
<1>. DEFINE iter == [s \in SUBSET S |-> g[s]]
<1>1. ASSUME NEW s \in SUBSET S, s # {}
      PROVE  iter[s] = f[CHOOSE x \in s : TRUE] + iter[s \ {CHOOSE x \in s : TRUE}]
  <2>. DEFINE c == CHOOSE x \in s : TRUE
  <2>1. c \in s
    BY <1>1
  <2>. HIDE DEF c
  <2>2. iter[s] = f[c] + iter[s \ {c}]
    BY <2>1
  <2>. QED BY <2>2 DEF c
<1>2. Sums(iter, f, S)
  BY <1>1 DEF Sums
<1>. QED BY <1>2

LEMMA SumIs ==
  ASSUME NEW f, IsFiniteSet(DOMAIN f), NEW g,
         g[{}] = 0, \A s \in SUBSET DOMAIN f : \A x \in s : g[s] = f[x] + g[s \ {x}]
  PROVE  SumFunction(f) = g[DOMAIN f]
<1>. DEFINE c == CHOOSE iter : Sums(iter, f, DOMAIN f)
<1>1. SumFunction(f) = c[DOMAIN f]
  BY Zenon DEF SumFunction, SumFunctionOnSet, FoldFunctionOnSet, MapThenFoldSet, Sums
<1>2. Sums(c, f, DOMAIN f)
  BY SumsExists
<1>. HIDE DEF c
<1>3. c[DOMAIN f] = g[DOMAIN f]
  BY <1>2, SumsUnique
<1>. QED BY <1>1, <1>3

(* Copies of a finite set have its size. *)
LEMMA TaggedSize ==
  ASSUME NEW S, IsFiniteSet(S), NEW x
  PROVE  IsFiniteSet({x} \X S) /\ Cardinality({x} \X S) = Cardinality(S)
<1>1. IsFiniteSet({x}) /\ Cardinality({x}) = 1 /\ Cardinality(S) \in Nat
  BY FS_Singleton, FS_CardinalityType
<1>2. IsFiniteSet({x} \X S) /\ Cardinality({x} \X S) = Cardinality({x}) * Cardinality(S)
  BY <1>1, FS_Product
<1>. QED BY <1>1, <1>2

(* The pairs of an element of s and a member of its set. *)
Tagged(s, W) == {w \in s \X UNION {W[x] : x \in s} : w[2] \in W[w[1]]}

LEMMA TaggedRest ==
  ASSUME NEW s, NEW W, NEW x \in s
  PROVE  /\ Tagged(s, W) = Tagged(s \ {x}, W) \cup ({x} \X W[x])
         /\ Tagged(s \ {x}, W) \cap ({x} \X W[x]) = {}
BY DEF Tagged

LEMMA TaggedNone == \A W : Tagged({}, W) = {}
BY DEF Tagged

LEMMA TaggedFinite ==
  ASSUME NEW S, IsFiniteSet(S), NEW W, \A x \in S : IsFiniteSet(W[x])
  PROVE  /\ \A s \in SUBSET S : IsFiniteSet(Tagged(s, W)) /\ Cardinality(Tagged(s, W)) \in Nat
         /\ \A s \in SUBSET S : \A x \in s :
              Cardinality(Tagged(s, W)) = Cardinality(W[x]) + Cardinality(Tagged(s \ {x}, W))
<1>. DEFINE T == {s \in SUBSET S : IsFiniteSet(Tagged(s, W))}
<1>1. {} \in T
  BY TaggedNone, FS_EmptySet
<1>2. ASSUME NEW s \in SUBSET S, NEW x \in s, IsFiniteSet(Tagged(s \ {x}, W))
      PROVE  /\ IsFiniteSet(Tagged(s, W))
             /\ Cardinality(Tagged(s, W)) = Cardinality(W[x]) + Cardinality(Tagged(s \ {x}, W))
  <2>1. IsFiniteSet({x} \X W[x]) /\ Cardinality({x} \X W[x]) = Cardinality(W[x])
    BY TaggedSize
  <2>2. /\ IsFiniteSet(Tagged(s \ {x}, W) \cup ({x} \X W[x]))
        /\ Cardinality(Tagged(s \ {x}, W) \cup ({x} \X W[x]))
             = Cardinality(Tagged(s \ {x}, W)) + Cardinality({x} \X W[x])
               - Cardinality(Tagged(s \ {x}, W) \cap ({x} \X W[x]))
    BY <1>2, <2>1, FS_Union
  <2>3. Cardinality(Tagged(s \ {x}, W) \cap ({x} \X W[x])) = 0
    BY TaggedRest, FS_EmptySet
  <2>4. Cardinality(Tagged(s \ {x}, W)) \in Nat /\ Cardinality(W[x]) \in Nat
    BY <1>2, FS_CardinalityType
  <2>5. Tagged(s, W) = Tagged(s \ {x}, W) \cup ({x} \X W[x])
    BY TaggedRest
  <2>. HIDE DEF T
  <2>. QED BY <2>1, <2>2, <2>3, <2>4, <2>5
<1>3. SUBSET S \subseteq T
  <2>1. ASSUME NEW s \in SUBSET S, s # {}, \A x \in s : s \ {x} \in T PROVE s \in T
    BY <1>2, <2>1
  <2>. HIDE DEF T
  <2>. QED BY <1>1, <2>1, SubsetInduction
<1>4. \A s \in SUBSET S : IsFiniteSet(Tagged(s, W))
  BY <1>3
<1>. QED BY <1>2, <1>4, FS_CardinalityType

(* A sum of naturals is what so many words, one set of them for each of the
   summands, are together. *)
LEMMA SumOfSizes ==
  ASSUME NEW W, NEW S, IsFiniteSet(S), \A x \in S : IsFiniteSet(W[x])
  PROVE  SumFunction([x \in S |-> Cardinality(W[x])]) = Cardinality(Tagged(S, W))
<1>. DEFINE f == [x \in S |-> Cardinality(W[x])]
            g == [s \in SUBSET S |-> Cardinality(Tagged(s, W))]
<1>1. g[{}] = 0
  BY TaggedNone, FS_EmptySet
<1>2. ASSUME NEW s \in SUBSET S, NEW x \in s PROVE g[s] = f[x] + g[s \ {x}]
  BY TaggedFinite
<1>3. DOMAIN f = S /\ g[S] = Cardinality(Tagged(S, W))
  OBVIOUS
<1>. HIDE DEF f, g
<1>4. SumFunction(f) = g[S]
  BY <1>1, <1>2, <1>3, SumIs
<1>. QED BY <1>3, <1>4 DEF f

LEMMA SumOfNaturals ==
  ASSUME NEW S, IsFiniteSet(S), NEW f \in [S -> Nat]
  PROVE  LET W == [x \in S |-> 1..f[x]]
         IN  SumFunction(f) = Cardinality(Tagged(S, W)) /\ IsFiniteSet(Tagged(S, W))
<1>. DEFINE W == [x \in S |-> 1..f[x]]
<1>1. ASSUME NEW x \in S PROVE IsFiniteSet(W[x]) /\ Cardinality(W[x]) = f[x]
  <2>1. IsFiniteSet(1..f[x]) /\ Cardinality(1..f[x]) = IF 1 > f[x] THEN 0 ELSE f[x] - 1 + 1
    BY FS_Interval
  <2>2. f[x] \in Nat
    OBVIOUS
  <2>. QED BY <2>1, <2>2
<1>2. f = [x \in S |-> Cardinality(W[x])]
  BY <1>1
<1>. HIDE DEF W
<1>3. SumFunction([x \in S |-> Cardinality(W[x])]) = Cardinality(Tagged(S, W)) /\ IsFiniteSet(Tagged(S, W))
  BY <1>1, SumOfSizes, TaggedFinite
<1>. QED BY <1>2, <1>3 DEF W

LEMMA SumBounds ==
  ASSUME NEW S, IsFiniteSet(S), NEW f \in [S -> Nat], NEW W,
         \A x \in S : IsFiniteSet(W[x]) /\ Cardinality(W[x]) <= f[x]
  PROVE  /\ SumFunction(f) \in Nat
         /\ IsFiniteSet(Tagged(S, W)) /\ Cardinality(Tagged(S, W)) <= SumFunction(f)
         /\ SumFunction(f) = 0 => \A x \in S : f[x] = 0
<1>. DEFINE V == [x \in S |-> 1..f[x]]
            T == {s \in SUBSET S : Cardinality(Tagged(s, W)) <= Cardinality(Tagged(s, V))}
<1>1. ASSUME NEW x \in S PROVE IsFiniteSet(V[x]) /\ Cardinality(V[x]) = f[x] /\ f[x] \in Nat
  <2>1. IsFiniteSet(1..f[x]) /\ Cardinality(1..f[x]) = IF 1 > f[x] THEN 0 ELSE f[x] - 1 + 1
    BY FS_Interval
  <2>2. f[x] \in Nat
    OBVIOUS
  <2>. QED BY <2>1, <2>2
<1>2. /\ \A s \in SUBSET S : Cardinality(Tagged(s, V)) \in Nat /\ Cardinality(Tagged(s, W)) \in Nat
      /\ \A s \in SUBSET S : \A x \in s :
           /\ Cardinality(Tagged(s, V)) = Cardinality(V[x]) + Cardinality(Tagged(s \ {x}, V))
           /\ Cardinality(Tagged(s, W)) = Cardinality(W[x]) + Cardinality(Tagged(s \ {x}, W))
           /\ Cardinality(W[x]) \in Nat
      /\ IsFiniteSet(Tagged(S, W))
  <2>. HIDE DEF V
  <2>. QED BY <1>1, TaggedFinite, FS_CardinalityType
<1>. HIDE DEF V
<1>3. {} \in T
  <2>1. Cardinality(Tagged({}, W)) = 0 /\ Cardinality(Tagged({}, V)) = 0
    BY TaggedNone, FS_EmptySet
  <2>. QED BY <2>1
<1>4. ASSUME NEW s \in SUBSET S, s # {}, \A x \in s : s \ {x} \in T PROVE s \in T
  <2>1. PICK x \in s : s \ {x} \in T
    BY <1>4
  <2>2. Cardinality(Tagged(s \ {x}, W)) <= Cardinality(Tagged(s \ {x}, V))
    BY <2>1
  <2>3. Cardinality(W[x]) <= Cardinality(V[x]) /\ Cardinality(V[x]) \in Nat
    BY <1>1
  <2>4. Cardinality(Tagged(s, W)) <= Cardinality(Tagged(s, V))
    BY <1>2, <2>2, <2>3
  <2>. QED BY <2>4
<1>5. S \in T
  <2>. HIDE DEF T
  <2>1. SUBSET S \subseteq T
    BY <1>3, <1>4, SubsetInduction
  <2>. QED BY <2>1
<1>6. SumFunction(f) = Cardinality(Tagged(S, V))
  BY SumOfNaturals DEF V
<1>7. ASSUME SumFunction(f) = 0, NEW x \in S PROVE f[x] = 0
  <2>. DEFINE c(s) == Cardinality(Tagged(s, V))
  <2>1. c(S) = Cardinality(V[x]) + c(S \ {x}) /\ c(S \ {x}) \in Nat
    BY <1>2
  <2>2. c(S) = 0 /\ Cardinality(V[x]) = f[x] /\ f[x] \in Nat
    BY <1>1, <1>6, <1>7
  <2>. HIDE DEF c
  <2>. QED BY <2>1, <2>2
<1>. QED BY <1>2, <1>5, <1>6, <1>7
=============================================================================
