----------------------------- MODULE SumTheorems ------------------------------
(***************************************************************************)
(* Sums of amounts over finite sets of rows: what SumFunctionOnSet(F, S)   *)
(* of the Functions module returns, for any function F and finite set S.   *)
(* It models the reduce() over amounts in the bank services, whose books   *)
(* and statistics are proved with these theorems.                          *)
(*                                                                         *)
(* SumFunctionOnSet is a recursive function, a CHOOSE of one that equals   *)
(* its own definition. The lemmas show that such a function exists on the  *)
(* subsets of S and that there is only one. They need induction, which is  *)
(* obtained without a higher-order theorem: the strict subsets of a finite *)
(* set are well-founded, so a set of bad subsets would have a minimum.     *)
(***************************************************************************)
EXTENDS Integers, FiniteSets, Functions, FiniteSetTheorems, WellFoundedInduction, TLAPS

\* Induction on the subsets of a finite set: a property that a set has when it
\* holds without any one element holds of every subset.
LEMMA SubsetInduction ==
  ASSUME NEW D, IsFiniteSet(D), NEW Good,
         \A s \in SUBSET D : (\A x \in s : s \ {x} \in Good) => s \in Good
  PROVE  SUBSET D \subseteq Good
<1> DEFINE Bad == {s \in SUBSET D : s \notin Good}
<1> SUFFICES ASSUME Bad # {} PROVE FALSE
  OBVIOUS
<1>1. IsWellFoundedOn(StrictSubsetOrdering(D), SUBSET D)
  <2>1. FiniteSubsetsOf(D) = SUBSET D
    BY FS_FiniteSubsetsOfFinite
  <2>2. IsWellFoundedOn(StrictSubsetOrdering(D), FiniteSubsetsOf(D))
    BY FS_StrictSubsetOrderingWellFounded
  <2>3. QED
    BY <2>1, <2>2
<1>2. PICK s \in Bad : \A t \in Bad : <<t, s>> \notin StrictSubsetOrdering(D)
  <2> HIDE DEF Bad
  <2>1. Bad \subseteq SUBSET D
    BY DEF Bad
  <2>2. QED
    BY <1>1, <2>1, WFMin
<1>3. \A x \in s : s \ {x} \in Good
  <2> SUFFICES ASSUME NEW x \in s PROVE s \ {x} \in Good
    OBVIOUS
  <2>1. <<s \ {x}, s>> \in StrictSubsetOrdering(D)
    BY DEF StrictSubsetOrdering
  <2>2. QED
    BY <1>2, <2>1
<1>4. QED
  BY <1>3

\* Induction on the natural numbers, over a set of good numbers.
LEMMA NatSetInduction ==
  ASSUME NEW Good, 0 \in Good, \A n \in Nat : n \in Good => n + 1 \in Good
  PROVE  Nat \subseteq Good
<1> DEFINE Bad == {n \in Nat : n \notin Good}
<1> SUFFICES ASSUME Bad # {} PROVE FALSE
  OBVIOUS
<1>1. PICK n \in Bad : \A m \in Bad : <<m, n>> \notin OpToRel(<, Nat)
  <2> HIDE DEF Bad
  <2>1. Bad \subseteq Nat
    BY DEF Bad
  <2>2. QED
    BY NatLessThanWellFounded, <2>1, WFMin
<1>2. \A m \in Bad : ~(m < n)
  BY <1>1 DEF OpToRel
<1>3. n - 1 \in Nat /\ n - 1 < n
  BY SMT
<1>4. QED
  BY <1>2, <1>3

-----------------------------------------------------------------------------

\* The element of s that the recursion takes out, and the functions that satisfy
\* its equation on the given sets.
Chosen(s) == CHOOSE x \in s : TRUE

Sums(F, sets, g) ==
  g = [s \in sets |-> IF s = {} THEN 0 ELSE F[Chosen(s)] + g[s \ {Chosen(s)}]]

\* An element is chosen from the set.
LEMMA ChosenIn == \A s : s # {} => Chosen(s) \in s
  BY DEF Chosen

\* There is a function that adds up every subset of a finite set.
LEMMA SumsExist ==
  ASSUME NEW D, IsFiniteSet(D), NEW F
  PROVE  \E g : Sums(F, SUBSET D, g)
<1> DEFINE Small(n) == {s \in SUBSET D : Cardinality(s) <= n}
           Good == {n \in Nat : \E g : Sums(F, Small(n), g)}
<1>0. \A s \in SUBSET D : IsFiniteSet(s) /\ Cardinality(s) \in Nat
  BY FS_Subset, FS_CardinalityType
<1>1. 0 \in Good
  <2>1. Small(0) = {{}}
    BY <1>0, FS_EmptySet
  <2>2. Sums(F, Small(0), [s \in {{}} |-> 0])
    BY <2>1 DEF Sums
  <2>3. QED
    BY <2>2
<1>2. ASSUME NEW n \in Nat, n \in Good PROVE n + 1 \in Good
  <2>1. PICK g : Sums(F, Small(n), g)
    BY <1>2
  <2> DEFINE Body(h, s) == IF s = {} THEN 0 ELSE F[Chosen(s)] + h[s \ {Chosen(s)}]
             h == [s \in Small(n + 1) |-> Body(g, s)]
  <2>2. \A s \in Small(n) : s \in Small(n + 1) /\ h[s] = g[s]
    <3> SUFFICES ASSUME NEW s \in Small(n) PROVE s \in Small(n + 1) /\ h[s] = g[s]
      OBVIOUS
    <3>1. s \in Small(n + 1)
      BY <1>0
    <3>2. g[s] = Body(g, s)
      BY <2>1 DEF Sums
    <3>3. QED
      BY <3>1, <3>2
  <2>3. \A s \in Small(n + 1) : s # {} => s \ {Chosen(s)} \in Small(n)
    <3> SUFFICES ASSUME NEW s \in Small(n + 1), s # {}
                 PROVE  s \ {Chosen(s)} \in Small(n)
      OBVIOUS
    <3>1. Chosen(s) \in s
      BY ChosenIn
    <3>2. Cardinality(s \ {Chosen(s)}) = Cardinality(s) - 1
      BY <3>1, <1>0, FS_RemoveElement
    <3>3. QED
      BY <3>2, <1>0
  <2>4. \A s \in Small(n + 1) : h[s] = Body(h, s)
    <3> SUFFICES ASSUME NEW s \in Small(n + 1) PROVE h[s] = Body(h, s)
      OBVIOUS
    <3>1. h[s] = Body(g, s)
      OBVIOUS
    <3>2. s # {} => h[s \ {Chosen(s)}] = g[s \ {Chosen(s)}]
      <4> HIDE DEF h, Small
      <4> QED
      BY <2>2, <2>3
    <3> HIDE DEF h, Small
    <3>3. QED
      BY <3>1, <3>2
  <2>5. h = [s \in Small(n + 1) |-> Body(h, s)]
    <3>1. h = [s \in Small(n + 1) |-> h[s]]
      OBVIOUS
    <3> HIDE DEF h, Small, Body
    <3>2. QED
      BY <3>1, <2>4
  <2>6. Sums(F, Small(n + 1), h)
    <3> HIDE DEF h, Small
    <3> QED
      BY <2>5 DEF Sums
  <2>7. QED
    <3> HIDE DEF h, Small
    <3> QED
    BY <2>6
<1>3. Nat \subseteq Good
  <2> HIDE DEF Good
  <2> QED
    BY <1>1, <1>2, NatSetInduction
<1>4. Cardinality(D) \in Nat
  BY FS_CardinalityType
<1>5. Small(Cardinality(D)) = SUBSET D
  BY FS_Subset, <1>0
<1>6. QED
  BY <1>3, <1>4, <1>5

\* SumFunctionOnSet is such a function: the recursion of the Functions module
\* is the one of Sums.
LEMMA SumIsSum ==
  ASSUME NEW F, NEW S, IsFiniteSet(S)
  PROVE  \E g : Sums(F, SUBSET S, g) /\ SumFunctionOnSet(F, S) = g[S]
<1> DEFINE Iter == CHOOSE g : Sums(F, SUBSET S, g)
<1>1. Sums(F, SUBSET S, Iter)
  BY SumsExist
<1>2. SumFunctionOnSet(F, S) = Iter[S]
  BY Zenon DEF SumFunctionOnSet, FoldFunctionOnSet, MapThenFoldSet, Sums, Chosen
<1>3. QED
  BY <1>1, <1>2

\* Two such functions agree where the summands do, whatever larger set they
\* are defined on.
LEMMA SumsAreUnique ==
  ASSUME NEW D, IsFiniteSet(D), NEW T \in SUBSET D, NEW F, NEW G, NEW g, NEW h,
         Sums(F, SUBSET D, g), Sums(G, SUBSET T, h), \A x \in T : F[x] = G[x]
  PROVE  \A s \in SUBSET T : g[s] = h[s]
<1> DEFINE Good == {s \in SUBSET T : g[s] = h[s]}
<1>1. ASSUME NEW s \in SUBSET T, \A x \in s : s \ {x} \in Good
      PROVE  s \in Good
  <2>1. /\ g[s] = IF s = {} THEN 0 ELSE F[Chosen(s)] + g[s \ {Chosen(s)}]
        /\ h[s] = IF s = {} THEN 0 ELSE G[Chosen(s)] + h[s \ {Chosen(s)}]
    BY DEF Sums
  <2>2. CASE s = {}
    BY <2>1, <2>2
  <2>3. CASE s # {}
    BY <2>1, <2>3, <1>1, ChosenIn
  <2>4. QED
    BY <2>2, <2>3
<1>2. IsFiniteSet(T)
  BY FS_Subset
<1>3. SUBSET T \subseteq Good
  <2> HIDE DEF Good
  <2>1. QED
    BY <1>1, <1>2, SubsetInduction
<1>4. QED
  BY <1>3

\* One function gives the sum of each subset.
LEMMA SumsOfSubsets ==
  ASSUME NEW D, IsFiniteSet(D), NEW F, NEW g, Sums(F, SUBSET D, g),
         NEW S \in SUBSET D
  PROVE  SumFunctionOnSet(F, S) = g[S]
<1>1. IsFiniteSet(S)
  BY FS_Subset
<1>2. PICK h : Sums(F, SUBSET S, h) /\ SumFunctionOnSet(F, S) = h[S]
  BY <1>1, SumIsSum
<1>3. QED
  BY <1>2, SumsAreUnique

\* Equal summands have equal sums.
THEOREM SumAgrees ==
  ASSUME NEW F, NEW G, NEW S, IsFiniteSet(S), \A x \in S : F[x] = G[x]
  PROVE  SumFunctionOnSet(F, S) = SumFunctionOnSet(G, S)
<1>1. PICK g : Sums(F, SUBSET S, g) /\ SumFunctionOnSet(F, S) = g[S]
  BY SumIsSum
<1>2. PICK h : Sums(G, SUBSET S, h) /\ SumFunctionOnSet(G, S) = h[S]
  BY SumIsSum
<1>3. QED
  BY <1>1, <1>2, SumsAreUnique

\* No rows add up to nothing.
THEOREM SumEmpty ==
  ASSUME NEW F PROVE SumFunctionOnSet(F, {}) = 0
<1>1. PICK g : Sums(F, SUBSET {}, g) /\ SumFunctionOnSet(F, {}) = g[{}]
  BY SumIsSum, FS_EmptySet
<1>2. QED
  BY <1>1 DEF Sums

\* A sum of integers is an integer.
THEOREM SumInt ==
  ASSUME NEW F, NEW S, IsFiniteSet(S), \A x \in S : F[x] \in Int
  PROVE  SumFunctionOnSet(F, S) \in Int
<1>1. PICK g : Sums(F, SUBSET S, g) /\ SumFunctionOnSet(F, S) = g[S]
  BY SumIsSum
<1> DEFINE Good == {s \in SUBSET S : g[s] \in Int}
<1>2. ASSUME NEW s \in SUBSET S, \A x \in s : s \ {x} \in Good
      PROVE  s \in Good
  <2>1. g[s] = IF s = {} THEN 0 ELSE F[Chosen(s)] + g[s \ {Chosen(s)}]
    BY <1>1 DEF Sums
  <2>2. s # {} => F[Chosen(s)] \in Int /\ g[s \ {Chosen(s)}] \in Int
    BY <1>2, ChosenIn
  <2>3. QED
    BY <2>1, <2>2
<1>3. SUBSET S \subseteq Good
  <2> HIDE DEF Good
  <2>1. QED
    BY <1>2, SubsetInduction
<1>4. QED
  BY <1>1, <1>3

\* Any one summand can be taken out of a sum, not only the chosen one: the order
\* in which rows are added does not matter.
THEOREM SumRemove ==
  ASSUME NEW F, NEW S, IsFiniteSet(S), \A x \in S : F[x] \in Int, NEW x \in S
  PROVE  SumFunctionOnSet(F, S) = F[x] + SumFunctionOnSet(F, S \ {x})
<1>1. PICK g : Sums(F, SUBSET S, g) /\ SumFunctionOnSet(F, S) = g[S]
  BY SumIsSum
<1>2. \A s \in SUBSET S : SumFunctionOnSet(F, s) = g[s]
  BY <1>1, SumsOfSubsets
<1>3. \A s \in SUBSET S : g[s] \in Int
  <2> SUFFICES ASSUME NEW s \in SUBSET S PROVE g[s] \in Int
    OBVIOUS
  <2>1. IsFiniteSet(s)
    BY FS_Subset
  <2>2. QED
    BY <1>2, <2>1, SumInt
<1> DEFINE Good == {s \in SUBSET S : \A y \in s : g[s] = F[y] + g[s \ {y}]}
<1>4. ASSUME NEW s \in SUBSET S, \A y \in s : s \ {y} \in Good
      PROVE  s \in Good
  <2> SUFFICES ASSUME NEW y \in s PROVE g[s] = F[y] + g[s \ {y}]
    OBVIOUS
  <2> DEFINE c == Chosen(s)
  <2>1. c \in s /\ g[s] = F[c] + g[s \ {c}]
    BY <1>1, ChosenIn DEF Sums
  <2>2. CASE c = y
    BY <2>1, <2>2
  <2>3. CASE c # y
    <3> HIDE DEF c
    <3>1. g[s \ {c}] = F[y] + g[(s \ {c}) \ {y}]
      BY <2>1, <2>3, <1>4
    <3>2. g[s \ {y}] = F[c] + g[(s \ {y}) \ {c}]
      BY <2>1, <2>3, <1>4
    <3>3. (s \ {c}) \ {y} = (s \ {y}) \ {c}
      OBVIOUS
    <3>4. F[c] \in Int /\ F[y] \in Int /\ g[(s \ {y}) \ {c}] \in Int
      BY <1>3, <2>1
    <3>5. \A a, b, e \in Int : a + (b + e) = b + (a + e)
      OBVIOUS
    <3>6. g[s] = F[c] + (F[y] + g[(s \ {y}) \ {c}])
      BY <2>1, <3>1, <3>3
    <3>7. QED
      BY <3>2, <3>4, <3>5, <3>6
  <2>4. QED
    BY <2>2, <2>3
<1>5. SUBSET S \subseteq Good
  <2> HIDE DEF Good
  <2>1. QED
    BY <1>4, SubsetInduction
<1>6. g[S] = F[x] + g[S \ {x}]
  BY <1>5
<1>7. QED
  BY <1>2, <1>6

\* A new row adds its amount.
THEOREM SumAdd ==
  ASSUME NEW F, NEW S, IsFiniteSet(S), NEW x, x \notin S,
         \A y \in S \cup {x} : F[y] \in Int
  PROVE  SumFunctionOnSet(F, S \cup {x}) = SumFunctionOnSet(F, S) + F[x]
<1>1. IsFiniteSet(S \cup {x})
  BY FS_AddElement
<1>2. SumFunctionOnSet(F, S \cup {x}) = F[x] + SumFunctionOnSet(F, (S \cup {x}) \ {x})
  BY <1>1, SumRemove
<1>3. (S \cup {x}) \ {x} = S
  OBVIOUS
<1>4. SumFunctionOnSet(F, S) \in Int
  BY SumInt
<1>5. \A a, b \in Int : a + b = b + a
  OBVIOUS
<1>6. F[x] \in Int
  OBVIOUS
<1>7. QED
  BY <1>2, <1>3, <1>4, <1>5, <1>6

\* More rows of amounts that are not negative add up to no less.
THEOREM SumMonotone ==
  ASSUME NEW F, NEW S, IsFiniteSet(S), \A x \in S : F[x] \in Nat,
         NEW T \in SUBSET S
  PROVE  SumFunctionOnSet(F, T) <= SumFunctionOnSet(F, S)
<1> DEFINE Good == {s \in SUBSET S :
                      T \subseteq s => SumFunctionOnSet(F, T) <= SumFunctionOnSet(F, s)}
<1>1. \A s \in SUBSET S : IsFiniteSet(s) /\ SumFunctionOnSet(F, s) \in Int
  BY FS_Subset, SumInt
<1>2. ASSUME NEW s \in SUBSET S, \A y \in s : s \ {y} \in Good
      PROVE  s \in Good
  <2>1. CASE ~(T \subseteq s)
    BY <2>1
  <2>2. CASE T = s
    BY <2>2, <1>1
  <2>3. CASE T \subseteq s /\ T # s
    <3>1. PICK y \in s : y \notin T
      BY <2>3
    <3>2. SumFunctionOnSet(F, s) = F[y] + SumFunctionOnSet(F, s \ {y})
      BY <1>1, SumRemove
    <3>3. SumFunctionOnSet(F, T) <= SumFunctionOnSet(F, s \ {y})
      BY <2>3, <3>1, <1>2
    <3>4. F[y] \in Nat /\ SumFunctionOnSet(F, s \ {y}) \in Int
      BY <1>1
    <3>5. QED
      BY <3>2, <3>3, <3>4, <1>1
  <2>4. QED
    BY <2>1, <2>2, <2>3
<1>3. SUBSET S \subseteq Good
  <2> HIDE DEF Good
  <2>1. QED
    BY <1>2, SubsetInduction
<1>4. QED
  BY <1>3
=============================================================================
