--------------------------- MODULE FiniteTheorems ---------------------------
(***************************************************************************)
(* Facts about finite sets and functions that the proofs rest on.          *)
(*                                                                         *)
(* Least elements, and inductions as arguments from a least element.       *)
(*                                                                         *)
(* Sums over finite sets: the power of a set of validators, the bytes of   *)
(* a set of messages.  SumFunctionOnSet is a fold by a recursive function  *)
(* that removes an element at a time, whichever CHOOSE gives; the first    *)
(* lemmas show that this function exists and that the order is immaterial, *)
(* the others are what the proofs about powers and bytes rest on.          *)
(*                                                                         *)
(* Recursive functions that descend, and what they give on a forest whose  *)
(* nodes are numbered from below: lines of ancestors and branches.         *)
(***************************************************************************)
EXTENDS Integers, FiniteSets, Functions, FiniteSetTheorems, WellFoundedInduction, TLAPS

\* A set of naturals that is not empty has a least element.
LEMMA Minimum ==
  ASSUME NEW T, T \subseteq Nat, T # {}
  PROVE  \E x \in T : \A y \in T : x <= y
  <1> DEFINE R == OpToRel(<, Nat)
  <1>1. PICK x \in T : \A y \in T : ~(<<y, x>> \in R)
    BY WFMin, NatLessThanWellFounded, Zenon
  <1>2. \A y \in T : ~(y < x)
    BY <1>1 DEF OpToRel
  <1>3. QED
    BY <1>2

\* What holds of a subset of S whenever it holds of all that one element less
\* leaves of it, holds of S.
LEMMA FiniteInduction ==
  ASSUME NEW S, IsFiniteSet(S), NEW P \in SUBSET (SUBSET S),
         \A s \in SUBSET S : (\A x \in s : s \ {x} \in P) => s \in P
  PROVE  P = SUBSET S
  <1> DEFINE Bad == (SUBSET S) \ P
             sizes == {Cardinality(s) : s \in Bad}
  <1>1. SUFFICES ASSUME Bad # {} PROVE FALSE
    OBVIOUS
  <1>2. \A s \in SUBSET S : IsFiniteSet(s) /\ Cardinality(s) \in Nat
    BY FS_Subset, FS_CardinalityType
  <1>3. sizes \subseteq Nat /\ sizes # {}
    BY <1>1, <1>2
  <1>4. PICK n \in sizes : \A m \in sizes : n <= m
    <2> HIDE DEF sizes
    <2>1. QED
      BY <1>3, Minimum
  <1>5. PICK s \in Bad : Cardinality(s) = n
    BY <1>4
  <1>6. ASSUME NEW x \in s
        PROVE  s \ {x} \in P
    <2>1. s \ {x} \in SUBSET S /\ Cardinality(s \ {x}) = Cardinality(s) - 1
      BY <1>2, <1>5, FS_RemoveElement
    <2>2. s \ {x} \in Bad => n <= Cardinality(s \ {x})
      BY <1>4
    <2>3. n \in Nat
      BY <1>2, <1>5
    <2>4. QED
      BY <1>5, <2>1, <2>2, <2>3
  <1>7. QED
    BY <1>5, <1>6

-----------------------------------------------------------------------------
(* The fold.                                                               *)

Pick(s) == CHOOSE x \in s : TRUE

\* g gives the sum of f over every subset of S, element by element.
Sums(g, f, S) ==
  g = [s \in SUBSET S |-> IF s = {} THEN 0 ELSE f[Pick(s)] + g[s \ {Pick(s)}]]

\* SumFunctionOnSet is the value of such a function.
LEMMA SumUnfolds ==
  ASSUME NEW f, NEW S
  PROVE  SumFunctionOnSet(f, S) = (CHOOSE g : Sums(g, f, S))[S]
  BY DEF SumFunctionOnSet, FoldFunctionOnSet, MapThenFoldSet, Sums, Pick

\* A set that is not empty has the element that is picked.
LEMMA PickIsElement ==
  ASSUME NEW s, s # {}
  PROVE  Pick(s) \in s
  BY DEF Pick

\* Two such functions agree where both are defined and sum the same values.
LEMMA SumsAgree ==
  ASSUME NEW S, IsFiniteSet(S), NEW T, S \subseteq T, NEW f, NEW g, NEW h, NEW k,
         \A x \in S : f[x] = g[x], Sums(h, f, S), Sums(k, g, T)
  PROVE  \A s \in SUBSET S : h[s] = k[s]
  <1> DEFINE P == {s \in SUBSET S : h[s] = k[s]}
  <1>1. ASSUME NEW s \in SUBSET S, \A x \in s : s \ {x} \in P
        PROVE  s \in P
    <2>1. h[s] = IF s = {} THEN 0 ELSE f[Pick(s)] + h[s \ {Pick(s)}]
      BY DEF Sums
    <2>2. s \in SUBSET T /\ k[s] = IF s = {} THEN 0 ELSE g[Pick(s)] + k[s \ {Pick(s)}]
      BY DEF Sums
    <2>3. s # {} => Pick(s) \in s /\ f[Pick(s)] = g[Pick(s)] /\ h[s \ {Pick(s)}] = k[s \ {Pick(s)}]
      BY <1>1, PickIsElement
    <2>4. QED
      BY <2>1, <2>2, <2>3
  <1>2. P = SUBSET S
    <2>1. P \in SUBSET (SUBSET S)
      OBVIOUS
    <2> HIDE DEF P
    <2>2. QED
      BY <1>1, <2>1, FiniteInduction
  <1>3. QED
    BY <1>2

\* Every finite set has such a function.
LEMMA SumsExist ==
  ASSUME NEW S, IsFiniteSet(S), NEW f
  PROVE  \E g : Sums(g, f, S)
  <1> DEFINE Small(n) == {s \in SUBSET S : Cardinality(s) <= n}
             SumsTo(g, n) ==
               g = [s \in Small(n) |-> IF s = {} THEN 0 ELSE f[Pick(s)] + g[s \ {Pick(s)}]]
             Bad == {n \in Nat : ~ \E g : SumsTo(g, n)}
  <1>1. \A s \in SUBSET S : /\ IsFiniteSet(s) /\ Cardinality(s) \in Nat
                            /\ Cardinality(s) <= Cardinality(S)
    BY FS_Subset, FS_CardinalityType
  <1>2. \A s \in SUBSET S : /\ Cardinality(s) = 0 <=> s = {}
                            /\ s # {} => /\ Pick(s) \in s
                                         /\ s \ {Pick(s)} \in SUBSET S
                                         /\ Cardinality(s \ {Pick(s)}) = Cardinality(s) - 1
    BY <1>1, PickIsElement, FS_EmptySet, FS_RemoveElement
  <1>3. ASSUME Bad # {} PROVE FALSE
    <2>1. PICK n \in Bad : \A m \in Bad : n <= m
      <3>1. Bad \subseteq Nat
        OBVIOUS
      <3> HIDE DEF Bad
      <3>2. QED
        BY <1>3, <3>1, Minimum
    <2>2. CASE n = 0
      <3> DEFINE g == [s \in Small(0) |-> 0]
      <3>1. \A s \in Small(0) : s = {}
        <4>1. \A s \in Small(0) : s \in SUBSET S /\ Cardinality(s) = 0
          BY <1>1
        <4>2. QED
          BY <1>2, <4>1
      <3>2. SumsTo(g, 0)
        BY <3>1
      <3>3. QED
        BY <2>2, <3>2
    <2>3. CASE n # 0
      <3>1. n - 1 \in Nat /\ n - 1 \notin Bad
        <4>1. n \in Nat
          OBVIOUS
        <4> HIDE DEF Bad
        <4>2. QED
          BY <2>1, <2>3, <4>1
      <3>2. PICK g : SumsTo(g, n - 1)
        BY <3>1
      <3> DEFINE new == [s \in Small(n) |->
                           IF s = {} THEN 0
                           ELSE f[Pick(s)] + g[s \ {Pick(s)}]]
      <3>3. \A s \in Small(n - 1) : s \in Small(n) /\ new[s] = g[s]
        <4>1. \A s \in Small(n - 1) : s \in Small(n)
          BY <1>1, <3>1
        <4>2. \A s \in Small(n - 1) : g[s] = IF s = {} THEN 0 ELSE f[Pick(s)] + g[s \ {Pick(s)}]
          BY <3>2
        <4> HIDE DEF Small
        <4>3. QED
          BY <4>1, <4>2
      <3>4. \A s \in Small(n) : s # {} => s \ {Pick(s)} \in Small(n - 1)
        BY <1>1, <1>2, <3>1
      <3>5. new = [s \in Small(n) |->
                     IF s = {} THEN 0 ELSE f[Pick(s)] + new[s \ {Pick(s)}]]
        <4>1. \A s \in Small(n) : s # {} => g[s \ {Pick(s)}] = new[s \ {Pick(s)}]
          BY <3>3, <3>4
        <4> HIDE DEF Small
        <4>2. QED
          BY <4>1
      <3>6. QED
        BY <3>5
    <2>4. QED
      BY <2>2, <2>3
  <1>4. PICK g : SumsTo(g, Cardinality(S))
    <2>1. Cardinality(S) \in Nat
      BY <1>1
    <2>2. QED
      BY <1>3, <2>1
  <1>5. Small(Cardinality(S)) = SUBSET S
    BY <1>1
  <1>6. QED
    BY <1>4, <1>5 DEF Sums

-----------------------------------------------------------------------------
(* Sums.                                                                   *)

\* A finite set has a function that sums it, and the sum is its value.
LEMMA SumIsValue ==
  ASSUME NEW S, IsFiniteSet(S), NEW f
  PROVE  \E g : Sums(g, f, S) /\ SumFunctionOnSet(f, S) = g[S]
  BY SumsExist, SumUnfolds

\* The sum over nothing.
LEMMA SumEmpty ==
  ASSUME NEW f
  PROVE  SumFunctionOnSet(f, {}) = 0
  <1>1. PICK g : Sums(g, f, {}) /\ SumFunctionOnSet(f, {}) = g[{}]
    BY SumIsValue, FS_EmptySet
  <1>2. QED
    BY <1>1 DEF Sums

\* The sum depends on the values in the set only.
LEMMA SumSame ==
  ASSUME NEW S, IsFiniteSet(S), NEW f, NEW g, \A x \in S : f[x] = g[x]
  PROVE  SumFunctionOnSet(f, S) = SumFunctionOnSet(g, S)
  <1>1. PICK h : Sums(h, f, S) /\ SumFunctionOnSet(f, S) = h[S]
    BY SumIsValue
  <1>2. PICK k : Sums(k, g, S) /\ SumFunctionOnSet(g, S) = k[S]
    BY SumIsValue
  <1>3. QED
    BY <1>1, <1>2, SumsAgree

\* The element that is picked first is added to the sum over the others.
LEMMA SumPick ==
  ASSUME NEW S, IsFiniteSet(S), S # {}, NEW f
  PROVE  SumFunctionOnSet(f, S) = f[Pick(S)] + SumFunctionOnSet(f, S \ {Pick(S)})
  <1> DEFINE T == S \ {Pick(S)}
  <1>1. PICK h : Sums(h, f, S) /\ SumFunctionOnSet(f, S) = h[S]
    BY SumIsValue
  <1>2. IsFiniteSet(T) /\ T \subseteq S
    BY FS_Subset
  <1>3. PICK k : Sums(k, f, T) /\ SumFunctionOnSet(f, T) = k[T]
    BY <1>2, SumIsValue
  <1>4. k[T] = h[T]
    BY <1>1, <1>2, <1>3, SumsAgree
  <1>5. h[S] = f[Pick(S)] + h[T]
    BY <1>1 DEF Sums
  <1>6. QED
    BY <1>1, <1>3, <1>4, <1>5

\* A sum of naturals is a natural.
LEMMA SumType ==
  ASSUME NEW S, IsFiniteSet(S), NEW f, \A x \in S : f[x] \in Nat
  PROVE  SumFunctionOnSet(f, S) \in Nat
  <1> DEFINE P == {s \in SUBSET S : SumFunctionOnSet(f, s) \in Nat}
  <1>1. ASSUME NEW s \in SUBSET S, \A x \in s : s \ {x} \in P
        PROVE  s \in P
    <2>1. CASE s = {}
      BY <2>1, SumEmpty
    <2>2. CASE s # {}
      <3>1. SumFunctionOnSet(f, s) = f[Pick(s)] + SumFunctionOnSet(f, s \ {Pick(s)})
        BY <2>2, SumPick, FS_Subset
      <3>2. Pick(s) \in s /\ f[Pick(s)] \in Nat /\ SumFunctionOnSet(f, s \ {Pick(s)}) \in Nat
        BY <1>1, <2>2, PickIsElement
      <3>3. QED
        BY <3>1, <3>2
    <2>3. QED
      BY <2>1, <2>2
  <1>2. P = SUBSET S
    <2>1. P \in SUBSET (SUBSET S)
      OBVIOUS
    <2> HIDE DEF P
    <2>2. QED
      BY <1>1, <2>1, FiniteInduction
  <1>3. QED
    BY <1>2

\* The order is immaterial: any element may be added last.
LEMMA SumRemove ==
  ASSUME NEW S, IsFiniteSet(S), NEW f, \A x \in S : f[x] \in Nat, NEW e \in S
  PROVE  SumFunctionOnSet(f, S) = f[e] + SumFunctionOnSet(f, S \ {e})
  <1> DEFINE Sum(s) == SumFunctionOnSet(f, s)
             P == {s \in SUBSET S : \A x \in s : Sum(s) = f[x] + Sum(s \ {x})}
  <1>1. \A s \in SUBSET S : IsFiniteSet(s) /\ Sum(s) \in Nat
    BY FS_Subset, SumType
  <1>2. ASSUME NEW s \in SUBSET S, \A x \in s : s \ {x} \in P
        PROVE  s \in P
    <2>1. SUFFICES ASSUME NEW x \in s PROVE Sum(s) = f[x] + Sum(s \ {x})
      OBVIOUS
    <2> DEFINE y == Pick(s)
               both == (s \ {x}) \ {y}
    <2>2. y \in s /\ Sum(s) = f[y] + Sum(s \ {y})
      BY <1>1, SumPick, PickIsElement
    <2>3. CASE x = y
      BY <2>2, <2>3
    <2>4. CASE x # y
      <3>1. Sum(s \ {x}) = f[y] + Sum(both)
        BY <1>2, <2>2, <2>4
      <3>2. both = (s \ {y}) \ {x} /\ both \in SUBSET S
        BY <2>2
      <3>3. Sum(s \ {y}) = f[x] + Sum(both)
        BY <1>2, <2>2, <2>4, <3>2
      <3>4. f[x] \in Nat /\ f[y] \in Nat /\ Sum(both) \in Nat
        BY <1>1, <2>2, <3>2
      <3> HIDE DEF Sum, both, y
      <3>5. QED
        BY <2>2, <3>1, <3>3, <3>4
    <2>5. QED
      BY <2>3, <2>4
  <1>3. P = SUBSET S
    <2>1. P \in SUBSET (SUBSET S)
      OBVIOUS
    <2> HIDE DEF P
    <2>2. QED
      BY <1>2, <2>1, FiniteInduction
  <1>4. QED
    BY <1>3

\* A new element adds its value.
LEMMA SumAdd ==
  ASSUME NEW S, IsFiniteSet(S), NEW f, NEW e, e \notin S, \A x \in S \cup {e} : f[x] \in Nat
  PROVE  SumFunctionOnSet(f, S \cup {e}) = f[e] + SumFunctionOnSet(f, S)
  <1>1. IsFiniteSet(S \cup {e}) /\ (S \cup {e}) \ {e} = S
    BY FS_AddElement
  <1>2. QED
    BY <1>1, SumRemove

\* The sum of two sets that share nothing.
LEMMA SumDisjoint ==
  ASSUME NEW S, IsFiniteSet(S), NEW T, IsFiniteSet(T), S \cap T = {},
         NEW f, \A x \in S \cup T : f[x] \in Nat
  PROVE  SumFunctionOnSet(f, S \cup T) = SumFunctionOnSet(f, S) + SumFunctionOnSet(f, T)
  <1> DEFINE Sum(s) == SumFunctionOnSet(f, s)
             P == {s \in SUBSET T : Sum(S \cup s) = Sum(S) + Sum(s)}
  <1>1. Sum(S) \in Nat
    BY SumType
  <1>2. \A s \in SUBSET T : IsFiniteSet(s) /\ IsFiniteSet(S \cup s) /\ Sum(s) \in Nat
    BY FS_Subset, FS_Union, SumType
  <1>3. ASSUME NEW s \in SUBSET T, \A x \in s : s \ {x} \in P
        PROVE  s \in P
    <2>1. CASE s = {}
      BY <1>1, <2>1, SumEmpty
    <2>2. CASE s # {}
      <3>1. PICK x \in s : TRUE
        BY <2>2
      <3>2. Sum(s) = f[x] + Sum(s \ {x})
        BY <1>2, SumRemove
      <3>3. Sum(S \cup s) = f[x] + Sum((S \cup s) \ {x})
        BY <1>2, SumRemove
      <3>4. (S \cup s) \ {x} = S \cup (s \ {x}) /\ s \ {x} \in SUBSET T
        BY <3>1
      <3>5. Sum(S \cup (s \ {x})) = Sum(S) + Sum(s \ {x})
        BY <1>3, <3>1
      <3>6. f[x] \in Nat /\ Sum(s \ {x}) \in Nat
        BY <1>2, <3>1
      <3> HIDE DEF Sum
      <3>7. QED
        BY <1>1, <3>2, <3>3, <3>4, <3>5, <3>6
    <2>3. QED
      BY <2>1, <2>2
  <1>4. P = SUBSET T
    <2>1. P \in SUBSET (SUBSET T)
      OBVIOUS
    <2> HIDE DEF P
    <2>2. QED
      BY <1>3, <2>1, FiniteInduction
  <1>5. QED
    BY <1>4

\* A set sums to no less than its subsets.
LEMMA SumMonotone ==
  ASSUME NEW T, IsFiniteSet(T), NEW S \in SUBSET T, NEW f, \A x \in T : f[x] \in Nat
  PROVE  SumFunctionOnSet(f, S) <= SumFunctionOnSet(f, T)
  <1>1. IsFiniteSet(S) /\ IsFiniteSet(T \ S) /\ S \cup (T \ S) = T /\ S \cap (T \ S) = {}
    BY FS_Subset
  <1>2. SumFunctionOnSet(f, T) = SumFunctionOnSet(f, S) + SumFunctionOnSet(f, T \ S)
    BY <1>1, SumDisjoint
  <1>3. SumFunctionOnSet(f, S) \in Nat /\ SumFunctionOnSet(f, T \ S) \in Nat
    BY <1>1, SumType
  <1>4. QED
    BY <1>2, <1>3

\* Union and intersection together sum to what two sets sum to.
LEMMA SumUnion ==
  ASSUME NEW S, IsFiniteSet(S), NEW T, IsFiniteSet(T), NEW f, \A x \in S \cup T : f[x] \in Nat
  PROVE  SumFunctionOnSet(f, S \cup T) + SumFunctionOnSet(f, S \cap T)
           = SumFunctionOnSet(f, S) + SumFunctionOnSet(f, T)
  <1> DEFINE Sum(s) == SumFunctionOnSet(f, s)
             U == T \ S
  <1>1. IsFiniteSet(U) /\ IsFiniteSet(S \cap T)
    BY FS_Subset
  <1>2. S \cup T = S \cup U /\ S \cap U = {} /\ T = (S \cap T) \cup U /\ (S \cap T) \cap U = {}
    OBVIOUS
  <1>3. Sum(S \cup U) = Sum(S) + Sum(U)
    BY <1>1, <1>2, SumDisjoint
  <1>4. Sum((S \cap T) \cup U) = Sum(S \cap T) + Sum(U)
    BY <1>1, <1>2, SumDisjoint
  <1>5. Sum(S) \in Nat /\ Sum(T) \in Nat /\ Sum(U) \in Nat /\ Sum(S \cap T) \in Nat
    BY <1>1, SumType
  <1>6. Sum(S \cup T) = Sum(S) + Sum(U) /\ Sum(T) = Sum(S \cap T) + Sum(U)
    BY <1>2, <1>3, <1>4
  <1>7. QED
    BY <1>5, <1>6

\* A set that is mapped into another, no two elements to the same one, with
\* their values, sums to no more than the other.
LEMMA SumInjection ==
  ASSUME NEW S, IsFiniteSet(S), NEW T, IsFiniteSet(T), NEW f, NEW g, NEW h \in [S -> T],
         \A x, y \in S : h[x] = h[y] => x = y,
         \A x \in S : f[x] = g[h[x]], \A y \in T : g[y] \in Nat
  PROVE  SumFunctionOnSet(f, S) <= SumFunctionOnSet(g, T)
  <1> DEFINE image(s) == {h[x] : x \in s}
             P == {s \in SUBSET S : SumFunctionOnSet(f, s) = SumFunctionOnSet(g, image(s))}
  <1>1. \A s \in SUBSET S : IsFiniteSet(s) /\ IsFiniteSet(image(s)) /\ image(s) \subseteq T
    <2>1. \A s \in SUBSET S : image(s) \subseteq T
      OBVIOUS
    <2> HIDE DEF image
    <2>2. QED
      BY <2>1, FS_Subset
  <1>2. \A x \in S : f[x] \in Nat
    OBVIOUS
  <1>3. ASSUME NEW s \in SUBSET S, \A x \in s : s \ {x} \in P
        PROVE  s \in P
    <2>1. CASE s = {}
      <3>1. image({}) = {}
        OBVIOUS
      <3>2. QED
        BY <2>1, <3>1, SumEmpty
    <2>2. CASE s # {}
      <3>1. PICK x \in s : TRUE
        BY <2>2
      <3>2. SumFunctionOnSet(f, s) = f[x] + SumFunctionOnSet(f, s \ {x})
        BY <1>1, <1>2, SumRemove
      <3>3. h[x] \in image(s) /\ image(s) \ {h[x]} = image(s \ {x})
        BY <3>1
      <3> HIDE DEF image
      <3>4. SumFunctionOnSet(g, image(s)) = g[h[x]] + SumFunctionOnSet(g, image(s \ {x}))
        <4>1. IsFiniteSet(image(s)) /\ \A y \in image(s) : g[y] \in Nat
          BY <1>1
        <4>2. \A y \in image(s) :
                SumFunctionOnSet(g, image(s)) = g[y] + SumFunctionOnSet(g, image(s) \ {y})
          BY <4>1, SumRemove
        <4>3. QED
          BY <3>3, <4>2
      <3>5. SumFunctionOnSet(f, s \ {x}) = SumFunctionOnSet(g, image(s \ {x}))
        BY <1>3, <3>1
      <3>6. f[x] = g[h[x]]
        BY <3>1
      <3>7. QED
        BY <3>2, <3>4, <3>5, <3>6
    <2>3. QED
      BY <2>1, <2>2
  <1>4. P = SUBSET S
    <2>1. P \in SUBSET (SUBSET S)
      OBVIOUS
    <2> HIDE DEF P
    <2>2. QED
      BY <1>3, <2>1, FiniteInduction
  <1>5. SumFunctionOnSet(f, S) = SumFunctionOnSet(g, image(S))
    BY <1>4
  <1>6. QED
    BY <1>1, <1>5, SumMonotone

-----------------------------------------------------------------------------
(* Recursive functions that descend.                                       *)

\* f answers on L by base, and elsewhere by a step from its value above.
Recurs(f, dom, L, base, above, step) ==
  \A b \in dom : f[b] = IF b \in L THEN base[b] ELSE step[<<b, f[above[b]]>>]

\* A recursion that descends has a solution.
LEMMA RecursionExists ==
  ASSUME NEW n \in Nat, NEW V, NEW L, NEW base \in [0 .. n -> V], NEW above,
         NEW step \in [(0 .. n) \X V -> V],
         \A b \in (0 .. n) \ L : above[b] \in Nat /\ above[b] < b
  PROVE  \E f \in [0 .. n -> V] : Recurs(f, 0 .. n, L, base, above, step)
  <1> DEFINE Solves(f, k) == f \in [0 .. k -> V] /\ Recurs(f, 0 .. k, L, base, above, step)
             Bad == {k \in 0 .. n : ~ \E f : Solves(f, k)}
  <1>1. SUFFICES ASSUME Bad # {} PROVE FALSE
    <2>1. n \notin Bad => \E f : Solves(f, n)
      OBVIOUS
    <2>2. QED
      BY <1>1, <2>1
  <1>2. PICK k \in Bad : \A j \in Bad : k <= j
    <2>1. Bad \subseteq Nat
      OBVIOUS
    <2> HIDE DEF Bad
    <2>2. QED
      BY <1>1, <2>1, Minimum
  <1>3. k \in 0 .. n
    OBVIOUS
  <1>4. CASE k = 0
    <2> DEFINE f == [b \in 0 .. 0 |-> base[0]]
    <2>1. 0 \in L
      BY <1>3, <1>4
    <2>2. base[0] \in V
      BY <1>3, <1>4
    <2>3. Solves(f, 0)
      BY <2>1, <2>2 DEF Recurs
    <2>4. QED
      BY <1>4, <2>3
  <1>5. CASE k # 0
    <2>1. k \in 1 .. n /\ k - 1 \in 0 .. n /\ k - 1 \notin Bad
      <3> HIDE DEF Bad
      <3>1. QED
        BY <1>2, <1>3, <1>5
    <2>2. PICK g : Solves(g, k - 1)
      BY <2>1
    <2> DEFINE last == IF k \in L THEN base[k] ELSE step[<<k, g[above[k]]>>]
               f == [b \in 0 .. k |-> IF b = k THEN last ELSE g[b]]
    <2>3. \A b \in 0 .. k - 1 : f[b] = g[b] /\ f[b] \in V
      BY <2>1, <2>2
    <2>4. \A b \in 0 .. k : b \notin L => above[b] \in 0 .. k - 1 /\ above[b] < b
      BY <2>1
    <2>5. last \in V
      BY <2>1, <2>2, <2>4
    <2>6. ASSUME NEW b \in 0 .. k
          PROVE  f[b] = IF b \in L THEN base[b] ELSE step[<<b, f[above[b]]>>]
      <3>1. b \notin L => f[above[b]] = g[above[b]]
        BY <2>3, <2>4
      <3> HIDE DEF Bad
      <3>2. CASE b = k
        <4>1. f[b] = last
          BY <2>1, <3>2
        <4> HIDE DEF f
        <4>2. QED
          BY <3>1, <3>2, <4>1
      <3>3. CASE b # k
        <4>1. b \in 0 .. k - 1
          BY <2>1, <3>3
        <4>2. g[b] = IF b \in L THEN base[b] ELSE step[<<b, g[above[b]]>>]
          BY <2>2, <4>1 DEF Recurs
        <4>3. f[b] = g[b]
          BY <2>3, <4>1
        <4> HIDE DEF f
        <4>4. QED
          BY <3>1, <4>2, <4>3
      <3>4. QED
        BY <3>2, <3>3
    <2>7. f \in [0 .. k -> V]
      <3> HIDE DEF last
      <3>1. f[k] = last /\ DOMAIN f = 0 .. k
        BY <2>1
      <3>2. f = [b \in 0 .. k |-> f[b]]
        OBVIOUS
      <3>3. \A b \in 0 .. k : b = k \/ b \in 0 .. k - 1
        BY <2>1
      <3> HIDE DEF f
      <3>4. \A b \in 0 .. k : f[b] \in V
        BY <2>3, <2>5, <3>1, <3>3
      <3>5. QED
        BY <3>2, <3>4
    <2>8. Solves(f, k)
      <3> HIDE DEF f
      <3>1. QED
        BY <2>6, <2>7 DEF Recurs
    <2>9. QED
      BY <2>8
  <1>6. QED
    BY <1>4, <1>5

-----------------------------------------------------------------------------
(* Forests: nodes 1 .. n, each below a smaller one or, for 0, a root.      *)

\* up leads to smaller numbers.
Descends(up, n) == \A b \in 1 .. n : up[b] \in 0 .. n /\ up[b] < b

\* The line of a node: itself and all its ancestors.
Lines(line, up, n) ==
  line[0] = {} /\ \A b \in 1 .. n : line[b] = {b} \cup line[up[b]]

\* The level of a node: the number of its ancestors.
Levels(level, up, n) ==
  \A b \in 1 .. n : /\ level[b] \in Nat
                    /\ IF up[b] = 0 THEN level[b] = 0 ELSE level[b] = level[up[b]] + 1

\* A fact about nodes holds if it holds for a node whenever it holds for all
\* smaller ones.
LEMMA NodeInduction ==
  ASSUME NEW n \in Nat, NEW T \in SUBSET (1 .. n),
         \A b \in 1 .. n : (\A a \in 1 .. n : a < b => a \in T) => b \in T
  PROVE  T = 1 .. n
  <1>1. SUFFICES ASSUME (1 .. n) \ T # {} PROVE FALSE
    OBVIOUS
  <1>2. PICK b \in (1 .. n) \ T : \A a \in (1 .. n) \ T : b <= a
    <2> DEFINE Bad == (1 .. n) \ T
    <2>1. Bad \subseteq Nat /\ Bad # {}
      BY <1>1
    <2> HIDE DEF Bad
    <2>2. \E b \in Bad : \A a \in Bad : b <= a
      BY <2>1, Minimum
    <2>3. QED
      BY <2>2 DEF Bad
  <1>3. \A a \in 1 .. n : a < b => a \in T
    BY <1>2
  <1>4. QED
    BY <1>2, <1>3

\* ... or whenever it holds for the one above it, if there is one.
LEMMA ForestInduction ==
  ASSUME NEW n \in Nat, NEW up, Descends(up, n), NEW T \in SUBSET (1 .. n),
         \A b \in 1 .. n : (up[b] # 0 => up[b] \in T) => b \in T
  PROVE  T = 1 .. n
  <1>1. ASSUME NEW b \in 1 .. n, \A a \in 1 .. n : a < b => a \in T
        PROVE  b \in T
    <2>1. up[b] \in 0 .. n /\ up[b] < b
      BY DEF Descends
    <2>2. up[b] # 0 => up[b] \in T
      BY <1>1, <2>1
    <2>3. QED
      BY <2>2
  <1>2. QED
    BY <1>1, NodeInduction

\* The recursion that defines lines has a solution.
LEMMA LinesExist ==
  ASSUME NEW n \in Nat, NEW up, Descends(up, n)
  PROVE  \E f : f = [b \in 0 .. n |-> IF b = 0 THEN {} ELSE {b} \cup f[up[b]]]
  <1> DEFINE V == SUBSET (0 .. n)
             base == [b \in 0 .. n |-> {}]
             step == [p \in (0 .. n) \X V |-> {p[1]} \cup p[2]]
  <1>1. base \in [0 .. n -> V] /\ step \in [(0 .. n) \X V -> V]
    OBVIOUS
  <1>2. \A b \in (0 .. n) \ {0} : up[b] \in Nat /\ up[b] < b /\ up[b] \in 0 .. n
    BY DEF Descends
  <1>3. \A b \in 0 .. n, s \in V : base[b] = {} /\ step[<<b, s>>] = {b} \cup s
    OBVIOUS
  <1> HIDE DEF V, base, step
  <1>4. PICK f \in [0 .. n -> V] : Recurs(f, 0 .. n, {0}, base, up, step)
    BY <1>1, <1>2, RecursionExists
  <1>5. ASSUME NEW b \in 0 .. n
        PROVE  f[b] = IF b = 0 THEN {} ELSE {b} \cup f[up[b]]
    <2>1. f[b] = IF b \in {0} THEN base[b] ELSE step[<<b, f[up[b]]>>]
      BY <1>4 DEF Recurs
    <2>2. CASE b = 0
      BY <1>3, <1>4, <2>1, <2>2
    <2>3. CASE b # 0
      <3>1. f[up[b]] \in V
        BY <1>2, <1>4, <2>3
      <3>2. QED
        BY <1>3, <2>1, <2>3, <3>1
    <2>4. QED
      BY <2>2, <2>3
  <1>6. QED
    BY <1>4, <1>5

\* A line consists of nodes, and all but the node itself are smaller and of a
\* lower level.
LEMMA LineLower ==
  ASSUME NEW n \in Nat, NEW up, Descends(up, n), NEW line, Lines(line, up, n),
         NEW level, Levels(level, up, n), NEW b \in 1 .. n, NEW a \in line[b]
  PROVE  a \in 1 .. n /\ (a = b \/ (a < b /\ level[a] < level[b]))
  <1> DEFINE Lower(c, d) == c \in 1 .. n /\ (c = d \/ (c < d /\ level[c] < level[d]))
             T == {d \in 1 .. n : \A c \in line[d] : Lower(c, d)}
  <1>1. ASSUME NEW d \in 1 .. n, up[d] # 0 => up[d] \in T
        PROVE  d \in T
    <2>1. line[d] = {d} \cup line[up[d]] /\ line[0] = {} /\ up[d] < d
      BY DEF Lines, Descends
    <2>2. CASE up[d] = 0
      BY <2>1, <2>2
    <2>3. CASE up[d] # 0
      <3>1. up[d] \in T /\ level[d] = level[up[d]] + 1 /\ level[up[d]] \in Nat
        BY <1>1, <2>3 DEF Levels
      <3>2. ASSUME NEW c \in line[up[d]] PROVE Lower(c, d)
        <4>1. Lower(c, up[d]) /\ level[c] \in Nat
          BY <3>1 DEF Levels
        <4>2. QED
          BY <2>1, <3>1, <4>1
      <3>3. QED
        BY <2>1, <3>2
    <2>4. QED
      BY <2>2, <2>3
  <1>2. T = 1 .. n
    <2>1. T \in SUBSET (1 .. n)
      OBVIOUS
    <2> HIDE DEF T
    <2>2. QED
      BY <1>1, <2>1, ForestInduction
  <1>3. QED
    BY <1>2

\* Whoever is of the line of an ancestor is of the line.
LEMMA LineTransitive ==
  ASSUME NEW n \in Nat, NEW up, Descends(up, n), NEW line, Lines(line, up, n),
         NEW c \in 1 .. n, NEW b \in line[c]
  PROVE  line[b] \subseteq line[c]
  <1> DEFINE T == {d \in 1 .. n : \A e \in line[d] : line[e] \subseteq line[d]}
  <1>1. ASSUME NEW d \in 1 .. n, up[d] # 0 => up[d] \in T
        PROVE  d \in T
    <2>1. line[d] = {d} \cup line[up[d]] /\ line[0] = {}
      BY DEF Lines
    <2>2. CASE up[d] = 0
      BY <2>1, <2>2
    <2>3. CASE up[d] # 0
      BY <1>1, <2>1, <2>3
    <2>4. QED
      BY <2>2, <2>3
  <1>2. T = 1 .. n
    <2>1. T \in SUBSET (1 .. n)
      OBVIOUS
    <2> HIDE DEF T
    <2>2. QED
      BY <1>1, <2>1, ForestInduction
  <1>3. QED
    BY <1>2

\* What is of a line and not higher than an ancestor is of the ancestor's line.
LEMMA LineOrdered ==
  ASSUME NEW n \in Nat, NEW up, Descends(up, n), NEW line, Lines(line, up, n),
         NEW level, Levels(level, up, n),
         NEW b \in 1 .. n, NEW a \in line[b], NEW c \in line[b], level[a] <= level[c]
  PROVE  a \in line[c]
  <1> DEFINE T == {d \in 1 .. n : \A x, y \in line[d] : level[x] <= level[y] => x \in line[y]}
  <1>1. ASSUME NEW d \in 1 .. n, up[d] # 0 => up[d] \in T
        PROVE  d \in T
    <2>1. line[d] = {d} \cup line[up[d]] /\ line[0] = {}
      BY DEF Lines
    <2>2. CASE up[d] = 0
      BY <2>1, <2>2
    <2>3. CASE up[d] # 0
      <3>1. up[d] \in T /\ up[d] \in 1 .. n
        BY <1>1, <2>3
      <3>2. ASSUME NEW x \in line[up[d]] PROVE level[x] < level[d]
        <4>1. /\ x \in 1 .. n /\ (x = up[d] \/ level[x] < level[up[d]])
              /\ level[d] = level[up[d]] + 1 /\ level[up[d]] \in Nat /\ level[d] \in Nat
          BY <2>3, <3>1, LineLower DEF Levels
        <4>2. level[x] \in Nat
          BY <4>1 DEF Levels
        <4>3. QED
          BY <4>1, <4>2
      <3>3. \A x \in line[d] : level[x] \in Nat
        BY LineLower DEF Levels
      <3>4. ASSUME NEW x \in line[d], NEW y \in line[d], level[x] <= level[y]
            PROVE  x \in line[y]
        <4>1. CASE y = d
          BY <4>1
        <4>2. CASE y # d
          <5>1. y \in line[up[d]] /\ level[y] < level[d]
            BY <2>1, <3>2, <4>2
          <5>2. x # d
            BY <3>3, <3>4, <5>1
          <5>3. QED
            BY <2>1, <3>1, <3>4, <5>1, <5>2
        <4>3. QED
          BY <4>1, <4>2
      <3>5. QED
        BY <3>4
    <2>4. QED
      BY <2>2, <2>3
  <1>2. T = 1 .. n
    <2>1. T \in SUBSET (1 .. n)
      OBVIOUS
    <2> HIDE DEF T
    <2>2. QED
      BY <1>1, <2>1, ForestInduction
  <1>3. QED
    BY <1>2

\* A line has at most one node of a level.
LEMMA LineAtLevel ==
  ASSUME NEW n \in Nat, NEW up, Descends(up, n), NEW line, Lines(line, up, n),
         NEW level, Levels(level, up, n),
         NEW b \in 1 .. n, NEW a \in line[b], NEW c \in line[b], level[a] = level[c]
  PROVE  a = c
  <1>1. a \in 1 .. n /\ c \in 1 .. n
    BY LineLower
  <1>2. level[a] \in Nat /\ level[c] \in Nat
    BY <1>1 DEF Levels
  <1>3. a \in line[c]
    BY <1>2, LineOrdered
  <1>4. QED
    BY <1>1, <1>2, <1>3, LineLower

\* A line is finite, and has as many nodes as its level says.
LEMMA LineSize ==
  ASSUME NEW n \in Nat, NEW up, Descends(up, n), NEW line, Lines(line, up, n),
         NEW level, Levels(level, up, n), NEW b \in 1 .. n
  PROVE  IsFiniteSet(line[b]) /\ Cardinality(line[b]) = level[b] + 1
  <1> DEFINE T == {d \in 1 .. n : IsFiniteSet(line[d]) /\ Cardinality(line[d]) = level[d] + 1}
  <1>1. ASSUME NEW d \in 1 .. n, up[d] # 0 => up[d] \in T
        PROVE  d \in T
    <2>1. line[d] = line[up[d]] \cup {d} /\ line[0] = {}
      BY DEF Lines
    <2>2. CASE up[d] = 0
      <3>1. line[d] = {d} /\ level[d] = 0
        BY <2>1, <2>2 DEF Levels
      <3>2. QED
        BY <3>1, FS_Singleton
    <2>3. CASE up[d] # 0
      <3>1. up[d] \in T /\ level[d] = level[up[d]] + 1 /\ up[d] < d
        BY <1>1, <2>3 DEF Levels, Descends
      <3>2. d \notin line[up[d]]
        <4>1. ASSUME d \in line[up[d]] PROVE FALSE
          <5>1. d = up[d] \/ d < up[d]
            BY <3>1, <4>1, LineLower
          <5>2. QED
            BY <3>1, <5>1
        <4>2. QED
          BY <4>1
      <3>3. IsFiniteSet(line[up[d]]) /\ Cardinality(line[up[d]]) = level[d]
        BY <3>1
      <3>4. /\ IsFiniteSet(line[up[d]] \cup {d})
            /\ Cardinality(line[up[d]] \cup {d}) = Cardinality(line[up[d]]) + 1
        BY <3>2, <3>3, FS_AddElement
      <3>5. QED
        BY <2>1, <3>3, <3>4
    <2>4. QED
      BY <2>2, <2>3
  <1>2. T = 1 .. n
    <2>1. T \in SUBSET (1 .. n)
      OBVIOUS
    <2> HIDE DEF T
    <2>2. QED
      BY <1>1, <2>1, ForestInduction
  <1>3. QED
    BY <1>2

\* A line has a node of every level from that of the node down.
LEMMA LineFull ==
  ASSUME NEW n \in Nat, NEW up, Descends(up, n), NEW line, Lines(line, up, n),
         NEW level, Levels(level, up, n), NEW b \in 1 .. n, NEW k \in 0 .. level[b]
  PROVE  \E a \in line[b] : level[a] = k
  <1> DEFINE T == {d \in 1 .. n : \A j \in 0 .. level[d] : \E a \in line[d] : level[a] = j}
  <1>1. ASSUME NEW d \in 1 .. n, up[d] # 0 => up[d] \in T
        PROVE  d \in T
    <2>1. line[d] = {d} \cup line[up[d]] /\ level[d] \in Nat
      BY DEF Lines, Levels
    <2>2. CASE up[d] = 0
      BY <2>1, <2>2 DEF Levels
    <2>3. CASE up[d] # 0
      <3>1. up[d] \in T /\ level[d] = level[up[d]] + 1 /\ level[up[d]] \in Nat
        BY <1>1, <2>3 DEF Levels
      <3>2. ASSUME NEW j \in 0 .. level[d]
            PROVE  j = level[d] \/ j \in 0 .. level[up[d]]
        BY <2>1, <3>1
      <3>3. QED
        BY <2>1, <3>1, <3>2
    <2>4. QED
      BY <2>2, <2>3
  <1>2. T = 1 .. n
    <2>1. T \in SUBSET (1 .. n)
      OBVIOUS
    <2> HIDE DEF T
    <2>2. QED
      BY <1>1, <2>1, ForestInduction
  <1>3. QED
    BY <1>2

\* The node above an ancestor is one, too.
LEMMA LineUp ==
  ASSUME NEW n \in Nat, NEW up, Descends(up, n), NEW line, Lines(line, up, n),
         NEW b \in 1 .. n, NEW a \in line[b], a \in 1 .. n, up[a] # 0
  PROVE  up[a] \in line[b]
  <1>1. up[a] \in 1 .. n
    BY DEF Descends
  <1>2. up[a] \in line[a]
    BY <1>1 DEF Lines
  <1>3. QED
    BY <1>2, LineTransitive

\* The nodes of S at most k steps below root.
Below(root, S, line, level, k) == {x \in S : root \in line[x] /\ level[x] <= level[root] + k}

\* f adds the nodes of S below those it has, step by step.
Spreads(f, root, S, up) ==
  \A k \in Nat : f[k] = IF k = 0 THEN {root} ELSE f[k - 1] \cup {x \in S : up[x] \in f[k - 1]}

\* S is a set of nodes and has the parents of its nodes.
ClosedUpwards(S, up, n) == S \subseteq 1 .. n /\ \A x \in S : up[x] \in S \cup {0}

\* The nodes of a set that is closed upwards, one step further down.
LEMMA BelowSpreads ==
  ASSUME NEW n \in Nat, NEW up, Descends(up, n), NEW line, Lines(line, up, n),
         NEW level, Levels(level, up, n),
         NEW S, ClosedUpwards(S, up, n), NEW root \in S,
         NEW k \in Nat
  PROVE  Below(root, S, line, level, k)
         = IF k = 0 THEN {root}
           ELSE Below(root, S, line, level, k - 1)
                \cup {x \in S : up[x] \in Below(root, S, line, level, k - 1)}
  <1> USE DEF ClosedUpwards
  <1>1. root \in 1 .. n /\ root \in line[root] /\ level[root] \in Nat
    BY DEF Lines, Levels
  <1>2. \A x \in S : x \in 1 .. n /\ level[x] \in Nat /\ line[x] = {x} \cup line[up[x]]
    BY DEF Lines, Levels
  <1>3. ASSUME NEW x \in S, root \in line[x]
        PROVE  level[root] <= level[x] /\ (level[root] = level[x] => x = root)
    <2>1. root = x \/ level[root] < level[x]
      BY <1>2, <1>3, LineLower
    <2>2. QED
      BY <1>1, <1>2, <2>1
  <1>4. CASE k = 0
    <2>1. \A x \in S : root \in line[x] /\ level[x] <= level[root] + k <=> x = root
      BY <1>1, <1>2, <1>3, <1>4
    <2>2. QED
      BY <1>4, <2>1 DEF Below
  <1>5. CASE k # 0
    <2>1. ASSUME NEW x \in S
          PROVE  x \in Below(root, S, line, level, k)
                 <=> \/ x \in Below(root, S, line, level, k - 1)
                     \/ up[x] \in Below(root, S, line, level, k - 1)
      <3>1. CASE up[x] = 0
        <4>1. 0 \notin S
          OBVIOUS
        <4>2. level[x] = 0
          BY <1>2, <3>1 DEF Levels
        <4>3. QED
          BY <1>1, <1>5, <3>1, <4>1, <4>2 DEF Below
      <3>2. CASE up[x] # 0
        <4>1. up[x] \in S /\ level[x] = level[up[x]] + 1 /\ level[up[x]] \in Nat
          BY <1>2, <3>2 DEF Levels
        <4>2. ASSUME root \in line[x] /\ level[x] <= level[root] + k
              PROVE  \/ level[x] <= level[root] + (k - 1)
                     \/ root \in line[up[x]] /\ level[up[x]] <= level[root] + (k - 1)
          <5>1. CASE root = x
            BY <1>1, <1>5, <5>1
          <5>2. CASE root # x
            BY <1>1, <1>2, <1>5, <4>1, <4>2, <5>2
          <5>3. QED
            BY <5>1, <5>2
        <4>3. ASSUME root \in line[up[x]] /\ level[up[x]] <= level[root] + (k - 1)
              PROVE  root \in line[x] /\ level[x] <= level[root] + k
          <5>1. root \in line[x]
            BY <1>2, <4>3
          <5>2. level[x] <= level[root] + k
            BY <1>1, <4>1, <4>3
          <5>3. QED
            BY <5>1, <5>2
        <4>4. level[x] <= level[root] + (k - 1) => level[x] <= level[root] + k
          BY <1>1, <1>2
        <4>5. QED
          BY <4>1, <4>2, <4>3, <4>4 DEF Below
      <3>3. QED
        BY <3>1, <3>2
    <2>2. QED
      BY <1>5, <2>1 DEF Below
  <1>6. QED
    BY <1>4, <1>5

\* What spreads from root reaches all nodes of S below it within as many steps
\* as there are levels.
LEMMA SpreadIsBelow ==
  ASSUME NEW n \in Nat, NEW up, Descends(up, n), NEW line, Lines(line, up, n),
         NEW level, Levels(level, up, n),
         NEW S, ClosedUpwards(S, up, n), NEW root \in S,
         NEW f, Spreads(f, root, S, up),
         NEW k \in Nat, \A x \in S : level[x] <= k
  PROVE  f[k] = {x \in S : root \in line[x]}
  <1> DEFINE Bad == {j \in Nat : f[j] # Below(root, S, line, level, j)}
  <1>1. Bad = {}
    <2>1. SUFFICES ASSUME Bad # {} PROVE FALSE
      OBVIOUS
    <2>2. PICK j \in Bad : \A i \in Bad : j <= i
      <3>1. Bad \subseteq Nat
        OBVIOUS
      <3> HIDE DEF Bad
      <3>2. QED
        BY <2>1, <3>1, Minimum
    <2>3. Below(root, S, line, level, j)
          = IF j = 0 THEN {root}
            ELSE Below(root, S, line, level, j - 1)
                 \cup {x \in S : up[x] \in Below(root, S, line, level, j - 1)}
      BY BelowSpreads
    <2>4. f[j] = IF j = 0 THEN {root} ELSE f[j - 1] \cup {x \in S : up[x] \in f[j - 1]}
      BY DEF Spreads
    <2>5. j # 0 => f[j - 1] = Below(root, S, line, level, j - 1)
      BY <2>2
    <2>6. QED
      BY <2>2, <2>3, <2>4, <2>5
  <1>2. f[k] = Below(root, S, line, level, k)
    BY <1>1
  <1>3. \A x \in S : level[x] <= level[root] + k
    <2>1. level[root] \in Nat /\ \A x \in S : level[x] \in Nat /\ level[x] <= k
      BY DEF ClosedUpwards, Levels
    <2>2. QED
      BY <2>1
  <1>4. QED
    BY <1>2, <1>3 DEF Below

=============================================================================
