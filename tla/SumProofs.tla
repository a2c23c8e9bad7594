------------------------------ MODULE SumProofs ------------------------------
(***************************************************************************)
(* What SumFunction of the community modules does: the facts about sums    *)
(* over finite sets that the ledgers of the sale and the reports of the    *)
(* client rest on.                                                         *)
(*                                                                         *)
(* Induction is stated over sets: the set of the numbers, or of the        *)
(* subsets, for which something holds.                                     *)
(***************************************************************************)
EXTENDS Functions, FiniteSetTheorems, TLAPS

----------------------------------------------------------------------------
(* Induction                                                               *)

\* A set of numbers that has 0, and the successor of each of its members, has
\* every number: otherwise there is a least one that it lacks.
LEMMA NumberInduction ==
  ASSUME NEW G, 0 \in G, \A n \in Nat : n \in G => n + 1 \in G
  PROVE  Nat \subseteq G
  <1> SUFFICES ASSUME Nat \ G # {} PROVE FALSE
    OBVIOUS
  <1>1. PICK n \in Nat \ G : \A m \in Nat \ G : <<m, n>> \notin OpToRel(<, Nat)
    BY NatLessThanWellFounded, WFMin, Zenon
  <1>2. \A m \in Nat : m < n => m \in G
    BY <1>1 DEF OpToRel
  <1> QED
    BY <1>2

\* A collection of subsets of S that has {}, and each other T whenever it has T
\* without any one of its elements, has every subset of S.
LEMMA SubsetInduction ==
  ASSUME NEW S, IsFiniteSet(S), NEW G, {} \in G,
         \A T \in SUBSET S : T # {} /\ (\A x \in T : T \ {x} \in G) => T \in G
  PROVE  SUBSET S \subseteq G
  <1> SUFFICES ASSUME (SUBSET S) \ G # {} PROVE FALSE
    OBVIOUS
  <1>1. IsWellFoundedOn(StrictSubsetOrdering(S), SUBSET S)
    BY FS_StrictSubsetOrderingWellFounded, FS_FiniteSubsetsOfFinite, Zenon
  <1>2. PICK T \in (SUBSET S) \ G :
          \A U \in (SUBSET S) \ G : <<U, T>> \notin StrictSubsetOrdering(S)
    BY <1>1, WFMin, Zenon
  <1>3. \A x \in T : T \ {x} \in G
    <2> SUFFICES ASSUME NEW x \in T, T \ {x} \notin G PROVE FALSE
      OBVIOUS
    <2>1. <<T \ {x}, T>> \in StrictSubsetOrdering(S)
      BY DEF StrictSubsetOrdering
    <2> QED
      BY <1>2, <2>1
  <1> QED
    BY <1>2, <1>3

----------------------------------------------------------------------------
(* The function by which a fold is defined                                 *)

Chosen(T) == CHOOSE x \in T : TRUE

\* g[T] is the sum of f over T, taken in the order in which elements are chosen.
SumsUp(g, f, D) ==
  \A T \in D : g[T] = IF T = {} THEN 0 ELSE f[Chosen(T)] + g[T \ {Chosen(T)}]

\* The element that is chosen is one of the set.
LEMMA ChosenIsThere == \A T : T # {} => Chosen(T) \in T
  BY DEF Chosen

\* The subsets of S with at most n elements.
UpTo(n, S) == {T \in SUBSET S : Cardinality(T) <= n}

\* Sums of the subsets with at most n elements exist, for every n.
LEMMA SumsUpToSize ==
  ASSUME NEW S, IsFiniteSet(S), NEW f, \A x \in S : f[x] \in Int, NEW n \in Nat
  PROVE  \E g \in [UpTo(n, S) -> Int] : SumsUp(g, f, UpTo(n, S))
  <1> DEFINE D(k) == UpTo(k, S)
             G == {k \in Nat : \E g \in [D(k) -> Int] : SumsUp(g, f, D(k))}
  <1> USE DEF UpTo
  <1>1. \A T \in SUBSET S : /\ IsFiniteSet(T) /\ Cardinality(T) \in Nat
                            /\ Cardinality(T) = 0 <=> T = {}
    BY FS_Subset, FS_CardinalityType, FS_EmptySet
  <1>2. 0 \in G
    <2> DEFINE g == [T \in D(0) |-> 0]
    <2>1. D(0) = {{}}
      BY <1>1
    <2>2. g \in [D(0) -> Int] /\ SumsUp(g, f, D(0))
      BY <2>1 DEF SumsUp
    <2> QED
      BY <2>2
  <1>3. ASSUME NEW k \in Nat, k \in G PROVE k + 1 \in G
    <2>1. PICK g \in [D(k) -> Int] : SumsUp(g, f, D(k))
      BY <1>3
    <2> DEFINE h == [T \in D(k + 1) |->
                       IF T \in D(k) THEN g[T]
                       ELSE f[Chosen(T)] + g[T \ {Chosen(T)}]]
    <2>2. ASSUME NEW T \in D(k + 1), T # {} PROVE Chosen(T) \in S /\ T \ {Chosen(T)} \in D(k)
      <3>1. Chosen(T) \in T
        BY <2>2, ChosenIsThere
      <3>2. Cardinality(T \ {Chosen(T)}) = Cardinality(T) - 1
        BY <1>1, <3>1, FS_RemoveElement
      <3>3. Cardinality(T) <= k + 1 /\ Cardinality(T) \in Nat
        BY <1>1
      <3> QED
        BY <3>1, <3>2, <3>3
    <2>3. \A T \in D(k) : T \in D(k + 1)
      BY <1>1
    <2>4. {} \in D(k)
      BY <1>1
    <2>5. \A T \in D(k + 1) : T \notin D(k) => T # {}
      BY <2>4
    <2> HIDE DEF D
    <2>6. h \in [D(k + 1) -> Int]
      <3>1. ASSUME NEW T \in D(k + 1), T \notin D(k)
            PROVE  f[Chosen(T)] + g[T \ {Chosen(T)}] \in Int
        <4>1. Chosen(T) \in S /\ T \ {Chosen(T)} \in D(k)
          BY <2>2, <2>5, <3>1
        <4> QED
          BY <2>1, <4>1
      <3> QED
        BY <2>1, <3>1
    <2>7. SumsUp(h, f, D(k + 1))
      <3> SUFFICES ASSUME NEW T \in D(k + 1)
                   PROVE  h[T] = IF T = {} THEN 0
                                 ELSE f[Chosen(T)] + h[T \ {Chosen(T)}]
        BY DEF SumsUp
      <3>1. CASE T = {}
        BY <2>1, <2>4, <3>1 DEF SumsUp
      <3>2. CASE T # {}
        <4>1. T \ {Chosen(T)} \in D(k)
          BY <2>2, <3>2
        <4>2. h[T \ {Chosen(T)}] = g[T \ {Chosen(T)}]
          BY <2>3, <4>1
        <4>3. h[T] = f[Chosen(T)] + g[T \ {Chosen(T)}]
          BY <2>1, <3>2 DEF SumsUp
        <4> QED
          BY <3>2, <4>2, <4>3
      <3> QED
        BY <3>1, <3>2
    <2> HIDE DEF h
    <2> QED
      BY <2>6, <2>7
  <1>4. n \in G
    <2> HIDE DEF G
    <2> QED
      BY <1>2, <1>3, NumberInduction
  <1> QED
    BY <1>4

\* There is one sum for each subset: the definition is sound.
LEMMA SumsUpUnique ==
  ASSUME NEW T, IsFiniteSet(T), NEW S, T \subseteq S, NEW f, NEW g, NEW h,
         SumsUp(g, f, SUBSET S), SumsUp(h, f, SUBSET T)
  PROVE  g[T] = h[T]
  <1> DEFINE G == {U \in SUBSET T : g[U] = h[U]}
  <1>1. {} \in G
    BY DEF SumsUp
  <1>2. ASSUME NEW U \in SUBSET T, U # {}, \A x \in U : U \ {x} \in G PROVE U \in G
    <2>1. g[U \ {Chosen(U)}] = h[U \ {Chosen(U)}]
      BY <1>2, ChosenIsThere
    <2> QED
      BY <1>2, <2>1 DEF SumsUp
  <1>3. T \in G
    <2> HIDE DEF G
    <2> QED
      BY <1>1, <1>2, SubsetInduction
  <1> QED
    BY <1>3

\* SumFunctionOnSet is that sum.
LEMMA SumIsSumsUp ==
  ASSUME NEW S, IsFiniteSet(S), NEW f, \A x \in S : f[x] \in Int
  PROVE  \E g \in [SUBSET S -> Int] :
           SumsUp(g, f, SUBSET S) /\ g[S] = SumFunctionOnSet(f, S)
  <1> DEFINE Body(g) == [T \in SUBSET S |-> IF T = {} THEN 0
                                            ELSE f[Chosen(T)] + g[T \ {Chosen(T)}]]
             iter == CHOOSE g : g = Body(g)
  <1>1. SumFunctionOnSet(f, S) = iter[S]
    BY Zenon DEF SumFunctionOnSet, FoldFunctionOnSet, MapThenFoldSet, Chosen
  <1>2. \E g \in [SUBSET S -> Int] : SumsUp(g, f, SUBSET S)
    <2>1. UpTo(Cardinality(S), S) = SUBSET S
      BY FS_Subset DEF UpTo
    <2>2. Cardinality(S) \in Nat
      BY FS_CardinalityType
    <2>3. \E g \in [UpTo(Cardinality(S), S) -> Int] : SumsUp(g, f, UpTo(Cardinality(S), S))
      BY <2>2, SumsUpToSize
    <2> QED
      BY <2>1, <2>3
  <1>3. \E g : g = Body(g)
    <2>1. PICK g \in [SUBSET S -> Int] : SumsUp(g, f, SUBSET S)
      BY <1>2
    <2>2. g = Body(g)
      BY <2>1 DEF SumsUp
    <2> HIDE DEF Body
    <2> QED
      BY <2>2
  <1>4. iter = Body(iter)
    <2> HIDE DEF Body
    <2> QED
      BY <1>3
  <1> HIDE DEF iter
  <1>5. SumsUp(iter, f, SUBSET S)
    BY <1>4 DEF SumsUp
  <1>6. PICK g \in [SUBSET S -> Int] : SumsUp(g, f, SUBSET S)
    BY <1>2
  <1>7. g[S] = iter[S]
    BY <1>5, <1>6, SumsUpUnique
  <1> QED
    BY <1>1, <1>6, <1>7

\* The equation that defines a sum.
LEMMA SumEquation ==
  ASSUME NEW S, IsFiniteSet(S), NEW f, \A x \in S : f[x] \in Int
  PROVE  /\ SumFunctionOnSet(f, S) \in Int
         /\ S = {} => SumFunctionOnSet(f, S) = 0
         /\ S # {} => SumFunctionOnSet(f, S)
                        = f[Chosen(S)] + SumFunctionOnSet(f, S \ {Chosen(S)})
  <1>1. PICK g \in [SUBSET S -> Int] :
          SumsUp(g, f, SUBSET S) /\ g[S] = SumFunctionOnSet(f, S)
    BY SumIsSumsUp
  <1>2. ASSUME S = {} PROVE g[S] = 0
    <2>1. g[S] = IF S = {} THEN 0 ELSE f[Chosen(S)] + g[S \ {Chosen(S)}]
      BY <1>1 DEF SumsUp
    <2> QED
      BY <1>2, <2>1
  <1>3. ASSUME S # {}
        PROVE  g[S] = f[Chosen(S)] + SumFunctionOnSet(f, S \ {Chosen(S)})
    <2> DEFINE T == S \ {Chosen(S)}
    <2>1. IsFiniteSet(T) /\ T \subseteq S
      BY FS_RemoveElement
    <2>2. PICK h \in [SUBSET T -> Int] :
            SumsUp(h, f, SUBSET T) /\ h[T] = SumFunctionOnSet(f, T)
      <3>1. \A x \in T : f[x] \in Int
        OBVIOUS
      <3> HIDE DEF T
      <3> QED
        BY <2>1, <3>1, SumIsSumsUp
    <2>3. g[T] = h[T]
      <3> HIDE DEF T
      <3> QED
        BY <1>1, <2>1, <2>2, SumsUpUnique
    <2>4. g[S] = f[Chosen(S)] + g[T]
      BY <1>1, <1>3 DEF SumsUp
    <2> QED
      BY <2>2, <2>3, <2>4
  <1>4. g[S] \in Int
    OBVIOUS
  <1> QED
    BY <1>1, <1>2, <1>3, <1>4

----------------------------------------------------------------------------
(* Sums over a set                                                         *)

\* A sum does not depend on the order: any element may be taken first.
LEMMA SumTakesOut ==
  ASSUME NEW S, IsFiniteSet(S), NEW f, \A x \in S : f[x] \in Int, NEW x \in S
  PROVE  SumFunctionOnSet(f, S) = f[x] + SumFunctionOnSet(f, S \ {x})
  <1> DEFINE Sum(T) == SumFunctionOnSet(f, T)
             G == {T \in SUBSET S : \A y \in T : Sum(T) = f[y] + Sum(T \ {y})}
  <1>1. ASSUME NEW T \in SUBSET S
        PROVE  /\ IsFiniteSet(T) /\ Sum(T) \in Int
               /\ T # {} => Sum(T) = f[Chosen(T)] + Sum(T \ {Chosen(T)})
    BY FS_Subset, SumEquation
  <1>2. {} \in G
    OBVIOUS
  <1>3. ASSUME NEW T \in SUBSET S, T # {}, \A y \in T : T \ {y} \in G PROVE T \in G
    <2> SUFFICES ASSUME NEW y \in T PROVE Sum(T) = f[y] + Sum(T \ {y})
      OBVIOUS
    <2> DEFINE c == Chosen(T)
    <2>1. c \in T /\ Sum(T) = f[c] + Sum(T \ {c})
      BY <1>1, <1>3, ChosenIsThere
    <2> HIDE DEF c, Sum
    <2>2. CASE y = c
      BY <2>1, <2>2
    <2>3. CASE y # c
      <3>1. Sum(T \ {c}) = f[y] + Sum((T \ {c}) \ {y})
        BY <1>3, <2>1, <2>3
      <3>2. Sum(T \ {y}) = f[c] + Sum((T \ {y}) \ {c})
        BY <1>3, <2>1, <2>3
      <3>3. Sum((T \ {c}) \ {y}) = Sum((T \ {y}) \ {c})
        <4>1. (T \ {c}) \ {y} = (T \ {y}) \ {c}
          OBVIOUS
        <4> QED
          BY <4>1, Zenon
      <3>4. /\ f[c] \in Int /\ f[y] \in Int
            /\ Sum((T \ {y}) \ {c}) \in Int
        BY <1>1, <2>1
      <3> QED
        BY <2>1, <3>1, <3>2, <3>3, <3>4
    <2> QED
      BY <2>2, <2>3
  <1>4. S \in G
    <2> HIDE DEF G
    <2> QED
      BY <1>2, <1>3, SubsetInduction
  <1> QED
    BY <1>4

\* A sum depends on the values at the elements only.
LEMMA SumAgrees ==
  ASSUME NEW S, IsFiniteSet(S), NEW f, NEW h, \A x \in S : f[x] \in Int /\ h[x] = f[x]
  PROVE  SumFunctionOnSet(h, S) = SumFunctionOnSet(f, S)
  <1> DEFINE G == {T \in SUBSET S : SumFunctionOnSet(h, T) = SumFunctionOnSet(f, T)}
  <1>1. ASSUME NEW T \in SUBSET S
        PROVE  IsFiniteSet(T) /\ \A x \in T : f[x] \in Int /\ h[x] \in Int
    BY FS_Subset
  <1>2. {} \in G
    BY <1>1, SumEquation
  <1>3. ASSUME NEW T \in SUBSET S, T # {}, \A x \in T : T \ {x} \in G PROVE T \in G
    <2>1. Chosen(T) \in T
      BY <1>3, ChosenIsThere
    <2>2. SumFunctionOnSet(h, T \ {Chosen(T)}) = SumFunctionOnSet(f, T \ {Chosen(T)})
      BY <1>3, <2>1
    <2>3. SumFunctionOnSet(h, T) = h[Chosen(T)] + SumFunctionOnSet(h, T \ {Chosen(T)})
      BY <1>1, <1>3, SumEquation
    <2>4. SumFunctionOnSet(f, T) = f[Chosen(T)] + SumFunctionOnSet(f, T \ {Chosen(T)})
      BY <1>1, <1>3, SumEquation
    <2> QED
      BY <2>1, <2>2, <2>3, <2>4
  <1>4. S \in G
    <2> HIDE DEF G
    <2> QED
      BY <1>2, <1>3, SubsetInduction
  <1> QED
    BY <1>4

----------------------------------------------------------------------------
(* Sums of functions                                                       *)

\* A sum of integers is an integer.
LEMMA SumIsInt ==
  ASSUME NEW S, IsFiniteSet(S), NEW f \in [S -> Int]
  PROVE  SumFunction(f) \in Int
  <1>1. \A x \in S : f[x] \in Int
    OBVIOUS
  <1>2. SumFunction(f) = SumFunctionOnSet(f, S)
    BY DEF SumFunction
  <1> QED
    BY <1>1, <1>2, SumEquation

\* Nothing sums up to nothing.
LEMMA SumOfZeros ==
  ASSUME NEW S, IsFiniteSet(S), NEW f \in [S -> Int], \A x \in S : f[x] = 0
  PROVE  SumFunction(f) = 0
  <1> DEFINE G == {T \in SUBSET S : SumFunctionOnSet(f, T) = 0}
  <1>1. ASSUME NEW T \in SUBSET S
        PROVE  IsFiniteSet(T) /\ \A x \in T : f[x] \in Int
    BY FS_Subset
  <1>2. {} \in G
    BY <1>1, SumEquation
  <1>3. ASSUME NEW T \in SUBSET S, T # {}, \A x \in T : T \ {x} \in G PROVE T \in G
    <2>1. Chosen(T) \in T
      BY <1>3, ChosenIsThere
    <2>2. SumFunctionOnSet(f, T \ {Chosen(T)}) = 0
      BY <1>3, <2>1
    <2>3. SumFunctionOnSet(f, T) = f[Chosen(T)] + SumFunctionOnSet(f, T \ {Chosen(T)})
      BY <1>1, <1>3, SumEquation
    <2> QED
      BY <2>1, <2>2, <2>3
  <1>4. S \in G
    <2> HIDE DEF G
    <2> QED
      BY <1>2, <1>3, SubsetInduction
  <1> QED
    BY <1>4 DEF SumFunction

\* What changes at one place changes the sum by as much.
LEMMA SumChanges ==
  ASSUME NEW S, IsFiniteSet(S), NEW f \in [S -> Int], NEW h \in [S -> Int], NEW x \in S,
         \A y \in S : y # x => h[y] = f[y]
  PROVE  SumFunction(h) = SumFunction(f) + (h[x] - f[x])
  <1> DEFINE R == S \ {x}
  <1>1. (\A y \in S : f[y] \in Int /\ h[y] \in Int) /\ IsFiniteSet(R)
    BY FS_RemoveElement
  <1>2. SumFunctionOnSet(h, R) = SumFunctionOnSet(f, R)
    <2>1. \A y \in R : f[y] \in Int /\ h[y] = f[y]
      BY <1>1
    <2> HIDE DEF R
    <2> QED
      BY <1>1, <2>1, SumAgrees
  <1>3. SumFunctionOnSet(f, R) \in Int
    <2>1. \A y \in R : f[y] \in Int
      BY <1>1
    <2> HIDE DEF R
    <2> QED
      BY <1>1, <2>1, SumEquation
  <1>4. SumFunctionOnSet(h, S) = h[x] + SumFunctionOnSet(h, R)
    BY <1>1, SumTakesOut
  <1>5. SumFunctionOnSet(f, S) = f[x] + SumFunctionOnSet(f, R)
    BY <1>1, SumTakesOut
  <1>6. SumFunction(h) = SumFunctionOnSet(h, S) /\ SumFunction(f) = SumFunctionOnSet(f, S)
    BY DEF SumFunction
  <1> HIDE DEF R
  <1> QED
    BY <1>1, <1>2, <1>3, <1>4, <1>5, <1>6

\* Where there is nothing negative, the sum is at least any of the values.
LEMMA SumOfNats ==
  ASSUME NEW S, IsFiniteSet(S), NEW f \in [S -> Nat]
  PROVE  SumFunction(f) \in Nat /\ \A x \in S : f[x] <= SumFunction(f)
  <1> DEFINE G == {T \in SUBSET S : SumFunctionOnSet(f, T) \in Nat}
  <1>1. ASSUME NEW T \in SUBSET S
        PROVE  IsFiniteSet(T) /\ \A x \in T : f[x] \in Nat /\ f[x] \in Int
    BY FS_Subset
  <1>2. {} \in G
    <2>1. SumFunctionOnSet(f, {}) = 0
      BY <1>1, SumEquation
    <2> QED
      BY <2>1
  <1>3. ASSUME NEW T \in SUBSET S, T # {}, \A x \in T : T \ {x} \in G PROVE T \in G
    <2>1. Chosen(T) \in T
      BY <1>3, ChosenIsThere
    <2>2. SumFunctionOnSet(f, T \ {Chosen(T)}) \in Nat
      BY <1>3, <2>1
    <2>3. SumFunctionOnSet(f, T) = f[Chosen(T)] + SumFunctionOnSet(f, T \ {Chosen(T)})
      BY <1>1, <1>3, SumEquation
    <2> QED
      BY <2>1, <2>2, <2>3
  <1>4. \A T \in SUBSET S : SumFunctionOnSet(f, T) \in Nat
    <2>1. SUBSET S \subseteq G
      <3> HIDE DEF G
      <3> QED
        BY <1>2, <1>3, SubsetInduction
    <2> QED
      BY <2>1
  <1>5. ASSUME NEW x \in S PROVE f[x] <= SumFunctionOnSet(f, S)
    <2>1. SumFunctionOnSet(f, S) = f[x] + SumFunctionOnSet(f, S \ {x})
      BY <1>1, SumTakesOut
    <2>2. SumFunctionOnSet(f, S \ {x}) \in Nat
      BY <1>4
    <2> QED
      BY <2>1, <2>2
  <1> QED
    BY <1>4, <1>5 DEF SumFunction
=============================================================================
