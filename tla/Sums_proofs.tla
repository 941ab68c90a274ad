------------------------------ MODULE Sums_proofs -----------------------------
(***************************************************************************)
(* Facts about the sums that the models are built from: SumFunctionOnSet   *)
(* and SumFunction of the community module Functions.  They are defined    *)
(* through a choice over functions on the subsets of a set, so what they   *)
(* yield is proved by induction on the size of the set.  The induction     *)
(* theorems of the library take a predicate as a parameter; the two used   *)
(* here are about a set instead, and follow from the least element of its  *)
(* complement (WFMin).                                                     *)
(***************************************************************************)
EXTENDS Integers, FiniteSets, Functions, FiniteSetTheorems, WellFoundedInduction, TLAPS

(* A set of naturals has a least element.                                  *)
LEMMA LeastNatural ==
  ASSUME NEW T \in SUBSET Nat, T # {}
  PROVE  \E x \in T : \A y \in T : x =< y
<1> DEFINE R == OpToRel(<, Nat)
<1>1. R = {ss \in Nat \X Nat : ss[1] < ss[2]}
  BY Zenon DEF OpToRel
<1>2. IsWellFoundedOn(R, Nat)
  BY NatLessThanWellFounded
<1> HIDE DEF R
<1>3. PICK x \in T : \A y \in T : ~(<<y, x>> \in R)
  BY <1>2, WFMin
<1>4. \A y \in T : ~(y < x)
  BY <1>1, <1>3
<1> QED
  BY <1>4

(* Induction over the naturals, for a set of them.                         *)
LEMMA Induction ==
  ASSUME NEW S \in SUBSET Nat, 0 \in S, \A n \in S : n + 1 \in S
  PROVE  Nat \subseteq S
<1> DEFINE T == Nat \ S
<1> SUFFICES ASSUME T # {}
             PROVE  FALSE
  OBVIOUS
<1>1. PICK x \in T : \A y \in T : x =< y
  BY LeastNatural
<1>2. x # 0 /\ x - 1 \in Nat /\ x - 1 < x
  OBVIOUS
<1>3. x - 1 \in S /\ (x - 1) + 1 = x
  BY <1>1, <1>2
<1> QED
  BY <1>3

(* Whatever holds of the empty set and, with a set, of the set and one     *)
(* more element, holds of every finite set: induction for a set of sets.   *)
LEMMA FiniteInduction ==
  ASSUME NEW S, IsFiniteSet(S), NEW P \in SUBSET SUBSET S, {} \in P,
         \A T \in P : \A x \in S \ T : T \cup {x} \in P
  PROVE  S \in P
<1> DEFINE N == {n \in Nat : \A T \in SUBSET S : Cardinality(T) = n => T \in P}
<1>1. 0 \in N
  BY FS_Subset, FS_EmptySet
<1>2. ASSUME NEW n \in N PROVE n + 1 \in N
  <2> SUFFICES ASSUME NEW T \in SUBSET S, Cardinality(T) = n + 1
               PROVE  T \in P
    OBVIOUS
  <2>1. IsFiniteSet(T) /\ T # {}
    BY FS_Subset, FS_EmptySet
  <2>2. PICK x : x \in T
    BY <2>1
  <2>3. Cardinality(T \ {x}) = n
    <3>1. Cardinality(T \ {x}) = Cardinality(T) - 1
      BY <2>1, <2>2, FS_RemoveElement
    <3> QED
      BY <3>1
  <2>4. T \ {x} \in P
    BY <2>3
  <2>5. (T \ {x}) \cup {x} = T
    BY <2>2
  <2> QED
    BY <2>2, <2>4, <2>5
<1>3. Nat \subseteq N
  <2> HIDE DEF N
  <2>1. N \in SUBSET Nat
    BY DEF N
  <2> QED
    BY <1>1, <1>2, <2>1, Induction
<1>4. Cardinality(S) \in Nat
  BY FS_CardinalityType
<1> QED
  BY <1>3, <1>4

-------------------------------------------------------------------------------
(* The recursive function that SumFunctionOnSet stands for.                *)

Chosen(s) == CHOOSE x \in s : TRUE

IsSum(g, F, D) == g = [s \in D |-> IF s = {} THEN 0 ELSE F[Chosen(s)] + g[s \ {Chosen(s)}]]

(* The sum is the value of a chosen function that takes one element after  *)
(* another.                                                                *)
LEMMA SumDefinition ==
  ASSUME NEW F, NEW S
  PROVE  SumFunctionOnSet(F, S) = (CHOOSE g : IsSum(g, F, SUBSET S))[S]
BY Zenon DEF SumFunctionOnSet, FoldFunctionOnSet, MapThenFoldSet, IsSum, Chosen

(* The element taken first is one of the set.                              *)
LEMMA ChosenIn == \A s : s # {} => Chosen(s) \in s
BY DEF Chosen

(* There is such a function on the subsets of a finite set.                *)
LEMMA SumExists ==
  ASSUME NEW S, IsFiniteSet(S), NEW F
  PROVE  \E g : IsSum(g, F, SUBSET S)
<1> DEFINE Small(n) == {s \in SUBSET S : Cardinality(s) =< n}
           N == {n \in Nat : \E g : IsSum(g, F, Small(n))}
<1>1. 0 \in N
  <2>1. Small(0) = {{}}
    BY FS_Subset, FS_EmptySet, FS_CardinalityType
  <2>2. IsSum([s \in {{}} |-> 0], F, {{}})
    BY DEF IsSum
  <2> QED
    BY <2>1, <2>2
<1>2. ASSUME NEW n \in N PROVE n + 1 \in N
  <2>1. PICK g : IsSum(g, F, Small(n))
    OBVIOUS
  <2> DEFINE h == [s \in Small(n + 1) |->
                     IF s = {} THEN 0 ELSE F[Chosen(s)] + g[s \ {Chosen(s)}]]
  <2>2. \A s \in Small(n) : s \in Small(n + 1) /\ h[s] = g[s]
    <3> SUFFICES ASSUME NEW s \in Small(n)
                 PROVE  s \in Small(n + 1) /\ h[s] = g[s]
      OBVIOUS
    <3>1. Cardinality(s) \in Nat
      BY FS_Subset, FS_CardinalityType
    <3>2. s \in Small(n + 1)
      BY <3>1
    <3> QED
      BY <2>1, <3>2 DEF IsSum
  <2>3. \A s \in Small(n + 1) : s # {} => s \ {Chosen(s)} \in Small(n)
    <3> SUFFICES ASSUME NEW s \in Small(n + 1), s # {}
                 PROVE  Cardinality(s \ {Chosen(s)}) =< n
      OBVIOUS
    <3>1. Cardinality(s \ {Chosen(s)}) = Cardinality(s) - 1 /\ Cardinality(s) \in Nat
      BY FS_Subset, FS_RemoveElement, ChosenIn, FS_CardinalityType
    <3> QED
      BY <3>1
  <2>4. IsSum(h, F, Small(n + 1))
    <3> HIDE DEF Small
    <3> QED
      BY <2>2, <2>3 DEF IsSum
  <2>5. \E f : IsSum(f, F, Small(n + 1))
    <3> HIDE DEF h
    <3> QED
      BY <2>4
  <2>6. n + 1 \in Nat
    OBVIOUS
  <2> QED
    <3> HIDE DEF Small
    <3> QED
      BY <2>5, <2>6
<1>3. Nat \subseteq N
  <2> HIDE DEF N
  <2>1. N \in SUBSET Nat
    BY DEF N
  <2> QED
    BY <1>1, <1>2, <2>1, Induction
<1>4. Cardinality(S) \in N
  BY <1>3, FS_CardinalityType
<1>5. Small(Cardinality(S)) = SUBSET S
  BY FS_Subset
<1> QED
  BY <1>4, <1>5

(* There is only one.                                                      *)
LEMMA SumOnSubsets ==
  ASSUME NEW S, IsFiniteSet(S), NEW F, NEW g, IsSum(g, F, SUBSET S), NEW T \in SUBSET S,
         NEW h, IsSum(h, F, SUBSET T)
  PROVE  \A s \in SUBSET T : h[s] = g[s]
<1> DEFINE N == {n \in Nat : \A s \in SUBSET T : Cardinality(s) = n => h[s] = g[s]}
<1>1. 0 \in N
  <2> SUFFICES ASSUME NEW s \in SUBSET T, Cardinality(s) = 0
               PROVE  h[s] = g[s]
    OBVIOUS
  <2>1. s = {}
    BY FS_Subset, FS_EmptySet
  <2> QED
    BY <2>1 DEF IsSum
<1>2. ASSUME NEW n \in N PROVE n + 1 \in N
  <2> SUFFICES ASSUME NEW s \in SUBSET T, Cardinality(s) = n + 1
               PROVE  h[s] = g[s]
    OBVIOUS
  <2>1. IsFiniteSet(s) /\ s # {}
    BY FS_Subset, FS_EmptySet
  <2>2. Cardinality(s \ {Chosen(s)}) = n
    <3>1. Cardinality(s \ {Chosen(s)}) = Cardinality(s) - 1
      BY <2>1, ChosenIn, FS_RemoveElement
    <3> QED
      BY <3>1
  <2>3. h[s \ {Chosen(s)}] = g[s \ {Chosen(s)}]
    BY <2>2
  <2>4. h[s] = F[Chosen(s)] + h[s \ {Chosen(s)}]
    BY <2>1 DEF IsSum
  <2>5. g[s] = F[Chosen(s)] + g[s \ {Chosen(s)}]
    BY <2>1 DEF IsSum
  <2> QED
    BY <2>3, <2>4, <2>5
<1>3. Nat \subseteq N
  <2> HIDE DEF N
  <2>1. N \in SUBSET Nat
    BY DEF N
  <2> QED
    BY <1>1, <1>2, <2>1, Induction
<1> QED
  BY <1>3, FS_Subset, FS_CardinalityType

-------------------------------------------------------------------------------
(* What the sums of the models satisfy.                                    *)

LEMMA SumRecursion ==
  ASSUME NEW S, IsFiniteSet(S), NEW F
  PROVE  SumFunctionOnSet(F, S) =
           IF S = {} THEN 0 ELSE F[Chosen(S)] + SumFunctionOnSet(F, S \ {Chosen(S)})
<1> DEFINE g == CHOOSE f : IsSum(f, F, SUBSET S)
           T == S \ {Chosen(S)}
           h == CHOOSE f : IsSum(f, F, SUBSET T)
<1>1. IsSum(g, F, SUBSET S) /\ SumFunctionOnSet(F, S) = g[S]
  BY SumExists, SumDefinition
<1>2. IsFiniteSet(T) /\ T \in SUBSET S
  BY FS_Subset
<1>3. IsSum(h, F, SUBSET T) /\ SumFunctionOnSet(F, T) = h[T]
  BY <1>2, SumExists, SumDefinition
<1> HIDE DEF g, T, h
<1>4. h[T] = g[T]
  BY <1>1, <1>2, <1>3, SumOnSubsets
<1>5. g[S] = IF S = {} THEN 0 ELSE F[Chosen(S)] + g[T]
  BY <1>1 DEF IsSum, T
<1> QED
  BY <1>1, <1>3, <1>4, <1>5 DEF T

(* Of nothing, the sum is zero.                                            *)
LEMMA SumEmpty == \A F : SumFunctionOnSet(F, {}) = 0
BY SumRecursion, FS_EmptySet

(* A sum of integers is an integer.                                        *)
LEMMA SumInteger ==
  ASSUME NEW S, IsFiniteSet(S), NEW F, \A x \in S : F[x] \in Int
  PROVE  SumFunctionOnSet(F, S) \in Int
<1> DEFINE Sum(T) == SumFunctionOnSet(F, T)
           N == {n \in Nat : \A T \in SUBSET S : Cardinality(T) = n => Sum(T) \in Int}
<1>1. 0 \in N
  <2>1. \A T \in SUBSET S : Cardinality(T) = 0 => T = {}
    BY FS_Subset, FS_EmptySet
  <2>2. Sum({}) \in Int
    BY SumEmpty
  <2> QED
    BY <2>1, <2>2
<1>2. ASSUME NEW n \in N PROVE n + 1 \in N
  <2> SUFFICES ASSUME NEW T \in SUBSET S, Cardinality(T) = n + 1
               PROVE  Sum(T) \in Int
    OBVIOUS
  <2> DEFINE c == Chosen(T)
  <2>1. IsFiniteSet(T) /\ c \in T
    BY FS_Subset, FS_EmptySet, ChosenIn
  <2>2. Sum(T) = F[c] + Sum(T \ {c})
    BY <2>1, SumRecursion
  <2>3. Cardinality(T \ {c}) = n
    <3>1. Cardinality(T \ {c}) = Cardinality(T) - 1
      BY <2>1, FS_RemoveElement
    <3> QED
      BY <3>1
  <2> QED
    BY <2>1, <2>2, <2>3
<1>3. Nat \subseteq N
  <2> HIDE DEF N
  <2>1. N \in SUBSET Nat
    BY DEF N
  <2> QED
    BY <1>1, <1>2, <2>1, Induction
<1> QED
  BY <1>3, FS_CardinalityType

(* The order of the summands does not matter: any of them may be counted   *)
(* last.                                                                   *)
LEMMA SumRemove ==
  ASSUME NEW S, IsFiniteSet(S), NEW F, \A x \in S : F[x] \in Int, NEW e \in S
  PROVE  SumFunctionOnSet(F, S) = F[e] + SumFunctionOnSet(F, S \ {e})
<1> DEFINE Sum(T) == SumFunctionOnSet(F, T)
           Good(T) == \A d \in T : Sum(T) = F[d] + Sum(T \ {d})
           N == {n \in Nat : \A T \in SUBSET S : Cardinality(T) = n => Good(T)}
<1>0. ASSUME NEW T \in SUBSET S PROVE IsFiniteSet(T) /\ Sum(T) \in Int
  BY FS_Subset, SumInteger
<1>1. 0 \in N
  <2>1. \A T \in SUBSET S : Cardinality(T) = 0 => T = {}
    BY FS_Subset, FS_EmptySet
  <2> QED
    BY <2>1
<1>2. ASSUME NEW n \in N PROVE n + 1 \in N
  <2> SUFFICES ASSUME NEW T \in SUBSET S, Cardinality(T) = n + 1
               PROVE  Good(T)
    OBVIOUS
  <2> DEFINE c == Chosen(T)
  <2>1. IsFiniteSet(T) /\ c \in T
    BY <1>0, FS_EmptySet, ChosenIn
  <2>2. Sum(T) = F[c] + Sum(T \ {c})
    BY <2>1, SumRecursion
  <2>3. ASSUME NEW d \in T PROVE Good(T \ {d})
    <3>1. Cardinality(T \ {d}) = Cardinality(T) - 1
      BY <2>1, FS_RemoveElement
    <3> HIDE DEF Good
    <3>2. Cardinality(T \ {d}) = n
      BY <3>1
    <3> QED
      BY <3>2
  <2>4. ASSUME NEW d \in T, d # c PROVE Sum(T) = F[d] + Sum(T \ {d})
    <3> DEFINE r == Sum((T \ {c}) \ {d})
    <3>1. Sum(T \ {c}) = F[d] + r
      BY <2>1, <2>3, <2>4
    <3>2. Sum(T \ {d}) = F[c] + Sum((T \ {d}) \ {c})
      BY <2>1, <2>3, <2>4
    <3>3. (T \ {c}) \ {d} = (T \ {d}) \ {c}
      OBVIOUS
    <3>4. F[c] \in Int /\ F[d] \in Int /\ r \in Int
      BY <1>0, <2>1
    <3>5. Sum(T \ {d}) = F[c] + r
      BY <3>2, <3>3
    <3> HIDE DEF r, c, Sum
    <3> QED
      BY <2>2, <3>1, <3>4, <3>5
  <2> QED
    BY <2>2, <2>4
<1>3. Nat \subseteq N
  <2> HIDE DEF N
  <2>1. N \in SUBSET Nat
    BY DEF N
  <2> QED
    BY <1>1, <1>2, <2>1, Induction
<1> QED
  BY <1>3, FS_CardinalityType

(* One more element adds its value.                                        *)
LEMMA SumAdd ==
  ASSUME NEW S, IsFiniteSet(S), NEW e, e \notin S, NEW F, \A x \in S \cup {e} : F[x] \in Int
  PROVE  SumFunctionOnSet(F, S \cup {e}) = SumFunctionOnSet(F, S) + F[e]
<1>1. IsFiniteSet(S \cup {e}) /\ (S \cup {e}) \ {e} = S
  BY FS_AddElement
<1>2. SumFunctionOnSet(F, S \cup {e}) = F[e] + SumFunctionOnSet(F, S)
  BY <1>1, SumRemove
<1>3. SumFunctionOnSet(F, S) \in Int /\ F[e] \in Int
  BY SumInteger
<1> QED
  BY <1>2, <1>3

(* Summands that are not smaller have a sum that is not smaller.           *)
LEMMA SumCompare ==
  ASSUME NEW S, IsFiniteSet(S), NEW F, NEW G,
         \A x \in S : F[x] \in Int /\ G[x] \in Int /\ F[x] =< G[x]
  PROVE  SumFunctionOnSet(F, S) =< SumFunctionOnSet(G, S)
<1> DEFINE P == {T \in SUBSET S : SumFunctionOnSet(F, T) =< SumFunctionOnSet(G, T)}
<1>1. {} \in P
  BY SumEmpty
<1>2. ASSUME NEW T \in P, NEW x \in S \ T PROVE T \cup {x} \in P
  <2>1. IsFiniteSet(T)
    BY FS_Subset
  <2>2. /\ SumFunctionOnSet(F, T \cup {x}) = SumFunctionOnSet(F, T) + F[x]
        /\ SumFunctionOnSet(G, T \cup {x}) = SumFunctionOnSet(G, T) + G[x]
    BY <2>1, SumAdd
  <2>3. SumFunctionOnSet(F, T) \in Int /\ SumFunctionOnSet(G, T) \in Int
    BY <2>1, SumInteger
  <2> QED
    BY <2>2, <2>3
<1>3. S \in P
  <2> HIDE DEF P
  <2>1. P \in SUBSET SUBSET S
    BY DEF P
  <2> QED
    BY <1>1, <1>2, <2>1, FiniteInduction
<1> QED
  BY <1>3

(* A sum of naturals is a natural number.                                  *)
LEMMA SumNatural ==
  ASSUME NEW S, IsFiniteSet(S), NEW F, \A x \in S : F[x] \in Nat
  PROVE  SumFunctionOnSet(F, S) \in Nat
<1> DEFINE P == {T \in SUBSET S : SumFunctionOnSet(F, T) \in Nat}
<1>1. {} \in P
  <2>1. SumFunctionOnSet(F, {}) \in Nat
    BY SumEmpty
  <2> QED
    BY <2>1
<1>2. ASSUME NEW T \in P, NEW x \in S \ T PROVE T \cup {x} \in P
  <2>1. SumFunctionOnSet(F, T \cup {x}) = SumFunctionOnSet(F, T) + F[x]
    <3>1. IsFiniteSet(T) /\ \A y \in T \cup {x} : F[y] \in Int
      BY FS_Subset
    <3> QED
      BY <3>1, SumAdd
  <2> QED
    BY <2>1
<1>3. S \in P
  <2> HIDE DEF P
  <2>1. P \in SUBSET SUBSET S
    BY DEF P
  <2> QED
    BY <1>1, <1>2, <2>1, FiniteInduction
<1> QED
  BY <1>3

(* Only the values on the set count.                                       *)
LEMMA SumAgree ==
  ASSUME NEW S, IsFiniteSet(S), NEW F, NEW G, \A x \in S : F[x] \in Int /\ F[x] = G[x]
  PROVE  SumFunctionOnSet(F, S) = SumFunctionOnSet(G, S)
<1>1. /\ SumFunctionOnSet(F, S) =< SumFunctionOnSet(G, S)
      /\ SumFunctionOnSet(G, S) =< SumFunctionOnSet(F, S)
  BY SumCompare
<1>2. SumFunctionOnSet(F, S) \in Int /\ SumFunctionOnSet(G, S) \in Int
  BY SumInteger
<1> QED
  BY <1>1, <1>2

(* The sum over two sets that have nothing in common.                      *)
LEMMA SumUnion ==
  ASSUME NEW S, IsFiniteSet(S), NEW R, IsFiniteSet(R), R \cap S = {},
         NEW F, \A x \in S \cup R : F[x] \in Int
  PROVE  SumFunctionOnSet(F, R \cup S) = SumFunctionOnSet(F, R) + SumFunctionOnSet(F, S)
<1> DEFINE Sum(T) == SumFunctionOnSet(F, T)
           P == {T \in SUBSET S : Sum(R \cup T) = Sum(R) + Sum(T)}
<1>1. Sum(R) \in Int
  BY SumInteger
<1>2. {} \in P
  <2>1. R \cup {} = R /\ Sum({}) = 0
    BY SumEmpty
  <2> HIDE DEF Sum
  <2> QED
    BY <1>1, <2>1
<1>3. ASSUME NEW T \in P, NEW x \in S \ T PROVE T \cup {x} \in P
  <2>1. IsFiniteSet(T) /\ IsFiniteSet(R \cup T)
    BY FS_Subset, FS_Union
  <2>2. Sum(T \cup {x}) = Sum(T) + F[x]
    BY <2>1, SumAdd
  <2>3. Sum((R \cup T) \cup {x}) = Sum(R \cup T) + F[x]
    BY <2>1, SumAdd
  <2>4. (R \cup T) \cup {x} = R \cup (T \cup {x})
    OBVIOUS
  <2>5. Sum(T) \in Int /\ F[x] \in Int
    BY <2>1, SumInteger
  <2>6. Sum(R \cup T) = Sum(R) + Sum(T)
    OBVIOUS
  <2>7. Sum(R \cup (T \cup {x})) = Sum(R) + Sum(T \cup {x})
    <3>1. Sum(R \cup (T \cup {x})) = (Sum(R) + Sum(T)) + F[x]
      BY <2>3, <2>4, <2>6
    <3> QED
      BY <1>1, <2>2, <2>5, <3>1
  <2> QED
    BY <2>7
<1>4. S \in P
  <2> HIDE DEF P
  <2>1. P \in SUBSET SUBSET S
    BY DEF P
  <2> QED
    BY <1>2, <1>3, <2>1, FiniteInduction
<1> QED
  BY <1>4

(* A part of naturals has no larger sum than the whole.                    *)
LEMMA SumPart ==
  ASSUME NEW S, IsFiniteSet(S), NEW R \in SUBSET S, NEW F, \A x \in S : F[x] \in Nat
  PROVE  SumFunctionOnSet(F, R) =< SumFunctionOnSet(F, S)
<1>1. IsFiniteSet(R) /\ IsFiniteSet(S \ R) /\ R \cup (S \ R) = S
  BY FS_Subset
<1>2. SumFunctionOnSet(F, S) = SumFunctionOnSet(F, R) + SumFunctionOnSet(F, S \ R)
  BY <1>1, SumUnion
<1>3. SumFunctionOnSet(F, R) \in Nat /\ SumFunctionOnSet(F, S \ R) \in Nat
  BY <1>1, SumNatural
<1> QED
  BY <1>2, <1>3

(* The sum of a sequence.                                                  *)
LEMMA SumSequence ==
  ASSUME NEW s, NEW n \in Nat, s = [i \in 1..n |-> s[i]], \A i \in 1..n : s[i] \in Nat
  PROVE  /\ SumFunction(s) = SumFunctionOnSet(s, 1..n)
         /\ SumFunction(s) \in Nat
<1>1. DOMAIN s = 1..n
  OBVIOUS
<1>2. IsFiniteSet(1..n)
  <2>1. 1 \in Int /\ n \in Int
    OBVIOUS
  <2> QED
    BY <2>1, FS_Interval, Zenon
<1> QED
  BY <1>1, <1>2, SumNatural DEF SumFunction

(* A sum of nothing but zeros.                                             *)
LEMMA SumZero ==
  ASSUME NEW S, IsFiniteSet(S), NEW F, \A x \in S : F[x] = 0
  PROVE  SumFunctionOnSet(F, S) = 0
<1> DEFINE P == {T \in SUBSET S : SumFunctionOnSet(F, T) = 0}
<1>1. P \in SUBSET SUBSET S /\ {} \in P
  BY SumEmpty
<1>2. ASSUME NEW T \in P, NEW x \in S \ T PROVE T \cup {x} \in P
  <2>1. IsFiniteSet(T)
    BY FS_Subset
  <2>2. x \notin T /\ \A y \in T \cup {x} : F[y] \in Int
    OBVIOUS
  <2>3. SumFunctionOnSet(F, T \cup {x}) = SumFunctionOnSet(F, T) + F[x]
    BY <2>1, <2>2, SumAdd
  <2>4. SumFunctionOnSet(F, T) = 0 /\ F[x] = 0 /\ T \cup {x} \in SUBSET S
    OBVIOUS
  <2> QED
    BY <2>3, <2>4
<1> HIDE DEF P
<1>3. S \in P
  BY <1>1, <1>2, FiniteInduction
<1> QED
  BY <1>3 DEF P

(* Zeros may be left out of a sum.                                         *)
LEMMA SumFilter ==
  ASSUME NEW S, IsFiniteSet(S), NEW R \in SUBSET S, NEW F, NEW G,
         \A x \in R : F[x] \in Int /\ G[x] = F[x], \A x \in S \ R : G[x] = 0
  PROVE  SumFunctionOnSet(G, S) = SumFunctionOnSet(F, R)
<1>1. IsFiniteSet(R) /\ IsFiniteSet(S \ R) /\ R \cup (S \ R) = S
  BY FS_Subset
<1>2. \A x \in R \cup (S \ R) : G[x] \in Int
  OBVIOUS
<1>3. SumFunctionOnSet(G, S) = SumFunctionOnSet(G, R) + SumFunctionOnSet(G, S \ R)
  BY <1>1, <1>2, SumUnion
<1>4. SumFunctionOnSet(G, S \ R) = 0
  BY <1>1, SumZero
<1>5. SumFunctionOnSet(F, R) = SumFunctionOnSet(G, R) /\ SumFunctionOnSet(F, R) \in Int
  BY <1>1, SumAgree, SumInteger
<1> QED
  BY <1>3, <1>4, <1>5

(* The summands may be named in another way.                               *)
LEMMA SumRenamed ==
  ASSUME NEW S, IsFiniteSet(S), NEW R, NEW h \in Bijection(S, R),
         NEW F, NEW G, \A x \in S : F[h[x]] \in Int /\ G[x] = F[h[x]]
  PROVE  IsFiniteSet(R) /\ SumFunctionOnSet(G, S) = SumFunctionOnSet(F, R)
<1>0. \A x, y \in S : h[x] = h[y] => x = y
  BY DEF Bijection, Injection, IsInjective
<1> USE <1>0
<1> DEFINE Image(T) == {h[x] : x \in T}
           P == {T \in SUBSET S : /\ IsFiniteSet(Image(T))
                                  /\ SumFunctionOnSet(G, T) = SumFunctionOnSet(F, Image(T))}
<1>1. P \in SUBSET SUBSET S /\ {} \in P
  <2>1. Image({}) = {}
    OBVIOUS
  <2> QED
    BY <2>1, SumEmpty, FS_EmptySet
<1>2. ASSUME NEW T \in P, NEW x \in S \ T PROVE T \cup {x} \in P
  <2>1. IsFiniteSet(T) /\ T \in SUBSET S /\ x \notin T /\ T \cup {x} \in SUBSET S
    BY FS_Subset
  <2>2. Image(T \cup {x}) = Image(T) \cup {h[x]} /\ h[x] \notin Image(T)
    OBVIOUS
  <2>3. IsFiniteSet(Image(T)) /\ SumFunctionOnSet(G, T) = SumFunctionOnSet(F, Image(T))
    OBVIOUS
  <2>4. \A y \in Image(T) \cup {h[x]} : F[y] \in Int
    OBVIOUS
  <2>5. \A y \in T \cup {x} : G[y] \in Int
    OBVIOUS
  <2>6. G[x] = F[h[x]]
    OBVIOUS
  <2> HIDE DEF Image, P
  <2>7. SumFunctionOnSet(F, Image(T) \cup {h[x]}) = SumFunctionOnSet(F, Image(T)) + F[h[x]]
    <3> DEFINE A == Image(T)
               e == h[x]
    <3>1. IsFiniteSet(A) /\ e \notin A /\ (\A y \in A \cup {e} : F[y] \in Int)
      BY <2>2, <2>3, <2>4
    <3> HIDE DEF A, e
    <3>2. SumFunctionOnSet(F, A \cup {e}) = SumFunctionOnSet(F, A) + F[e]
      BY <3>1, SumAdd
    <3> QED
      BY <3>2 DEF A, e
  <2>8. SumFunctionOnSet(G, T \cup {x}) = SumFunctionOnSet(G, T) + G[x]
    BY <2>1, <2>5, SumAdd
  <2>9. IsFiniteSet(Image(T \cup {x}))
    <3>1. IsFiniteSet(Image(T) \cup {h[x]})
      BY <2>3, FS_AddElement
    <3> QED
      BY <2>2, <3>1
  <2>10. SumFunctionOnSet(G, T \cup {x}) = SumFunctionOnSet(F, Image(T \cup {x}))
    BY <2>2, <2>3, <2>6, <2>7, <2>8
  <2> QED
    BY <2>1, <2>9, <2>10 DEF P
<1> HIDE DEF P
<1>3. S \in P
  BY <1>1, <1>2, FiniteInduction
<1>4. Image(S) = R
  BY DEF Bijection, Surjection
<1> HIDE DEF Image
<1> QED
  BY <1>3, <1>4 DEF P

(* A sum of one.                                                           *)
LEMMA SumSingle ==
  ASSUME NEW x, NEW F, F[x] \in Int
  PROVE  SumFunctionOnSet(F, {x}) = F[x]
<1>1. SumFunctionOnSet(F, {} \cup {x}) = SumFunctionOnSet(F, {}) + F[x]
  BY SumAdd, FS_EmptySet
<1>2. {} \cup {x} = {x}
  OBVIOUS
<1> QED
  BY <1>1, <1>2, SumEmpty
===============================================================================
