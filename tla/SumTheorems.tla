------------------------------ MODULE SumTheorems ------------------------------
(***************************************************************************)
(* Facts about SumFunctionOnSet, the sum of a function over a finite set,  *)
(* that the proofs about totals rest on: the Investor's shares, debt and   *)
(* collateral, the leaderboard's totals, the free tokens of withdrawals.   *)
(*                                                                         *)
(* The sum is a recursive function, so its facts need induction.  The      *)
(* induction theorems of the library take an operator; here induction is   *)
(* stated for membership of a set (Induction, SubsetInduction), and        *)
(* follows from the least element of a set of natural numbers.             *)
(***************************************************************************)
EXTENDS Integers, Functions, FiniteSetTheorems, WellFoundedInduction, TLAPS

\* The order < of the natural numbers as a relation
NatLess == {p \in Nat \X Nat : p[1] < p[2]}

\* The order of the natural numbers, as a set of pairs, is well founded.
LEMMA NatLessIsWellFounded == IsWellFoundedOn(NatLess, Nat)
<1>1. OpToRel(<, Nat) = NatLess
  BY Zenon DEF OpToRel, NatLess
<1> QED BY <1>1, NatLessThanWellFounded, Zenon

\* Every nonempty set of natural numbers has a least element.
LEMMA Least ==
  ASSUME NEW S, S \subseteq Nat, S # {}
  PROVE  \E n \in S : \A m \in S : n <= m
<1>1. PICK n \in S : \A m \in S : ~ (<<m, n>> \in NatLess)
  BY NatLessIsWellFounded, WFMin, Zenon
<1>2. ASSUME NEW m \in S PROVE n <= m
  <2>1. m \in Nat /\ n \in Nat
    OBVIOUS
  <2>2. m < n => <<m, n>> \in NatLess
    BY <2>1 DEF NatLess
  <2> QED BY <1>1, <2>1, <2>2
<1> QED BY <1>2, Zenon

\* Induction over the natural numbers, for membership of a set.
LEMMA Induction ==
  ASSUME NEW S, 0 \in S, \A n \in Nat : n \in S => n + 1 \in S
  PROVE  Nat \subseteq S
<1> SUFFICES ASSUME Nat \ S # {} PROVE FALSE
  OBVIOUS
<1>1. PICK n \in Nat \ S : \A m \in Nat \ S : n <= m
  BY Least, Zenon
<1>2. n \in Nat \ {0} /\ n - 1 \in Nat
  BY <1>1
<1>3. n - 1 \in S
  BY <1>1, <1>2
<1> QED BY <1>2, <1>3, <1>1

\* The element the sum over s takes first
First(s) == CHOOSE x \in s : TRUE

\* One step of the sum's recursion
Body(g, f, s) == IF s = {} THEN 0 ELSE f[First(s)] + g[s \ {First(s)}]

\* g is the sum of f over each set of D.
Recurs(g, f, D) == g = [s \in D |-> Body(g, f, s)]

\* The subsets of S of at most n elements
UpTo(S, n) == {s \in SUBSET S : Cardinality(s) <= n}

\* The library's sum is a recursive function over the subsets of S, that is, a
\* choice among the functions that satisfy the recursion.
LEMMA SumIsRecursive ==
  ASSUME NEW f, NEW S
  PROVE  SumFunctionOnSet(f, S) = (CHOOSE g : Recurs(g, f, SUBSET S))[S]
BY DEF SumFunctionOnSet, FoldFunctionOnSet, MapThenFoldSet, Recurs, Body, First

\* A set of at most n + 1 elements has at most n without its first.
LEMMA WithoutFirst ==
  ASSUME NEW S, IsFiniteSet(S), NEW n \in Nat, NEW s \in UpTo(S, n + 1), s # {}
  PROVE  /\ First(s) \in s
         /\ s \ {First(s)} \in UpTo(S, n)
<1>1. First(s) \in s
  BY DEF First
<1>2. IsFiniteSet(s) /\ s \subseteq S /\ Cardinality(s) <= n + 1
  BY FS_Subset DEF UpTo
<1>3. Cardinality(s \ {First(s)}) = Cardinality(s) - 1
  BY <1>1, <1>2, FS_RemoveElement
<1>4. Cardinality(s) \in Nat
  BY <1>2, FS_CardinalityType
<1> QED BY <1>1, <1>2, <1>3, <1>4 DEF UpTo

\* Some function satisfies the recursion on the subsets of a finite set.
LEMMA RecursionExists ==
  ASSUME NEW f, NEW S, IsFiniteSet(S)
  PROVE  \E g : Recurs(g, f, SUBSET S)
<1> DEFINE Q == {n \in Nat : \E g : Recurs(g, f, UpTo(S, n))}
<1>1. 0 \in Q
  <2> DEFINE g == [s \in UpTo(S, 0) |-> 0]
  <2>1. \A s \in UpTo(S, 0) : s = {}
    <3> SUFFICES ASSUME NEW s \in UpTo(S, 0) PROVE s = {}
      OBVIOUS
    <3>1. IsFiniteSet(s) /\ Cardinality(s) <= 0 /\ Cardinality(s) \in Nat
      BY FS_Subset, FS_CardinalityType DEF UpTo
    <3> QED BY <3>1, FS_EmptySet
  <2>2. Recurs(g, f, UpTo(S, 0))
    BY <2>1 DEF Recurs, Body
  <2> QED BY <2>2
<1>2. ASSUME NEW n \in Nat, n \in Q PROVE n + 1 \in Q
  <2>1. PICK g : Recurs(g, f, UpTo(S, n))
    BY <1>2
  <2> DEFINE h == [s \in UpTo(S, n + 1) |-> Body(g, f, s)]
  <2>2. ASSUME NEW s \in UpTo(S, n) PROVE s \in UpTo(S, n + 1) /\ h[s] = g[s]
    <3>1. Cardinality(s) \in Nat /\ Cardinality(s) <= n
      BY FS_Subset, FS_CardinalityType DEF UpTo
    <3>2. s \in UpTo(S, n + 1)
      BY <3>1 DEF UpTo
    <3>3. g[s] = Body(g, f, s)
      BY <2>1 DEF Recurs
    <3> QED BY <3>2, <3>3
  <2>3. ASSUME NEW s \in UpTo(S, n + 1) PROVE Body(g, f, s) = Body(h, f, s)
    <3>1. CASE s = {}
      BY <3>1 DEF Body
    <3>2. CASE s # {}
      <4>1. s \ {First(s)} \in UpTo(S, n)
        BY <3>2, WithoutFirst
      <4>2. h[s \ {First(s)}] = g[s \ {First(s)}]
        BY <4>1, <2>2
      <4> HIDE DEF h
      <4> QED BY <4>2, <3>2 DEF Body
    <3> QED BY <3>1, <3>2
  <2>4. Recurs(h, f, UpTo(S, n + 1))
    BY <2>3 DEF Recurs
  <2> QED BY <2>4
<1>3. Nat \subseteq Q
  <2> HIDE DEF Q
  <2> QED BY <1>1, <1>2, Induction
<1>4. Cardinality(S) \in Nat /\ UpTo(S, Cardinality(S)) = SUBSET S
  BY FS_CardinalityType, FS_Subset DEF UpTo
<1> QED BY <1>3, <1>4

\* Induction over the subsets of a finite set, for membership of a set: a subset is
\* in P when the subsets with one element less are.
LEMMA SubsetInduction ==
  ASSUME NEW S, IsFiniteSet(S), NEW P, {} \in P,
         \A s \in SUBSET S : s # {} /\ (\A x \in s : s \ {x} \in P) => s \in P
  PROVE  SUBSET S \subseteq P
<1> DEFINE Q == {n \in Nat : UpTo(S, n) \subseteq P}
<1>0. ASSUME NEW n \in Nat, NEW s \in UpTo(S, n)
      PROVE  s \in SUBSET S /\ IsFiniteSet(s) /\ Cardinality(s) <= n /\ Cardinality(s) \in Nat
  BY FS_Subset, FS_CardinalityType DEF UpTo
<1>1. 0 \in Q
  <2>1. ASSUME NEW s \in UpTo(S, 0) PROVE s = {}
    BY <1>0, FS_EmptySet
  <2> QED BY <2>1
<1>2. ASSUME NEW n \in Nat, n \in Q PROVE n + 1 \in Q
  <2> SUFFICES ASSUME NEW s \in UpTo(S, n + 1), s # {} PROVE s \in P
    BY <1>2
  <2>1. s \in SUBSET S /\ IsFiniteSet(s) /\ Cardinality(s) <= n + 1 /\ Cardinality(s) \in Nat
    BY <1>0
  <2>2. ASSUME NEW x \in s PROVE s \ {x} \in P
    <3>1. Cardinality(s \ {x}) = Cardinality(s) - 1
      BY <2>1, FS_RemoveElement
    <3>2. s \ {x} \in UpTo(S, n)
      BY <2>1, <3>1 DEF UpTo
    <3> QED BY <3>2, <1>2
  <2> QED BY <2>1, <2>2
<1>3. Nat \subseteq Q
  <2> HIDE DEF Q
  <2> QED BY <1>1, <1>2, Induction
<1>4. ASSUME NEW s \in SUBSET S PROVE s \in UpTo(S, Cardinality(S))
  BY FS_Subset, FS_CardinalityType DEF UpTo
<1>5. Cardinality(S) \in Nat
  BY FS_CardinalityType
<1> QED BY <1>3, <1>4, <1>5

\* The function whose value at S the sum is
Chosen(f, S) == CHOOSE g : Recurs(g, f, SUBSET S)

\* The chosen function satisfies the recursion.
LEMMA ChosenRecurs ==
  ASSUME NEW f, NEW S, IsFiniteSet(S)
  PROVE  \A s \in SUBSET S : Chosen(f, S)[s] = Body(Chosen(f, S), f, s)
<1>1. Recurs(Chosen(f, S), f, SUBSET S)
  BY RecursionExists DEF Chosen
<1> QED BY <1>1 DEF Recurs

\* The functions chosen for a set and for a subset of it agree on the subset.
LEMMA ChosenAgree ==
  ASSUME NEW f, NEW S, IsFiniteSet(S), NEW T \in SUBSET S
  PROVE  Chosen(f, T)[T] = Chosen(f, S)[T]
<1> DEFINE P == {s \in SUBSET T : Chosen(f, T)[s] = Chosen(f, S)[s]}
<1>0. IsFiniteSet(T) /\ \A s \in SUBSET T : s \in SUBSET S
  BY FS_Subset
<1>1. {} \in P
  BY <1>0, ChosenRecurs DEF Body
<1>2. ASSUME NEW s \in SUBSET T, s # {}, \A x \in s : s \ {x} \in P
      PROVE  s \in P
  <2>1. First(s) \in s
    BY <1>2 DEF First
  <2>2. Chosen(f, T)[s \ {First(s)}] = Chosen(f, S)[s \ {First(s)}]
    BY <1>2, <2>1
  <2>3. /\ Chosen(f, T)[s] = Body(Chosen(f, T), f, s)
        /\ Chosen(f, S)[s] = Body(Chosen(f, S), f, s)
    BY <1>0, ChosenRecurs
  <2> QED BY <2>2, <2>3, <1>2 DEF Body
<1>3. SUBSET T \subseteq P
  <2> HIDE DEF P
  <2> QED BY <1>0, <1>1, <1>2, SubsetInduction
<1> QED BY <1>3

\* The sum over the empty set is 0.
LEMMA SumEmpty == ASSUME NEW f PROVE SumFunctionOnSet(f, {}) = 0
<1>1. IsFiniteSet({})
  BY FS_EmptySet
<1>2. Chosen(f, {})[{}] = 0
  BY <1>1, ChosenRecurs DEF Body
<1> QED BY <1>2, SumIsRecursive DEF Chosen

\* The sum splits off the first element.
LEMMA SumFirst ==
  ASSUME NEW f, NEW S, IsFiniteSet(S), S # {}
  PROVE  SumFunctionOnSet(f, S) = f[First(S)] + SumFunctionOnSet(f, S \ {First(S)})
<1>1. Chosen(f, S)[S] = f[First(S)] + Chosen(f, S)[S \ {First(S)}]
  BY ChosenRecurs DEF Body
<1>2. Chosen(f, S \ {First(S)})[S \ {First(S)}] = Chosen(f, S)[S \ {First(S)}]
  BY ChosenAgree
<1> QED BY <1>1, <1>2, SumIsRecursive DEF Chosen

\* A sum of integers is an integer.
LEMMA SumInt ==
  ASSUME NEW S, IsFiniteSet(S), NEW f, \A x \in S : f[x] \in Int
  PROVE  SumFunctionOnSet(f, S) \in Int
<1> DEFINE P == {s \in SUBSET S : SumFunctionOnSet(f, s) \in Int}
<1>1. {} \in P
  BY SumEmpty
<1>2. ASSUME NEW s \in SUBSET S, s # {}, \A x \in s : s \ {x} \in P
      PROVE  s \in P
  <2>1. First(s) \in s /\ IsFiniteSet(s)
    BY <1>2, FS_Subset DEF First
  <2>2. SumFunctionOnSet(f, s \ {First(s)}) \in Int /\ f[First(s)] \in Int
    BY <1>2, <2>1
  <2> QED BY <2>1, <2>2, <1>2, SumFirst
<1>3. SUBSET S \subseteq P
  <2> HIDE DEF P
  <2> QED BY <1>1, <1>2, SubsetInduction
<1> QED BY <1>3

\* The sum splits off any element, whichever the recursion takes first.
LEMMA SumRemove ==
  ASSUME NEW S, IsFiniteSet(S), NEW f, \A x \in S : f[x] \in Int, NEW y \in S
  PROVE  SumFunctionOnSet(f, S) = f[y] + SumFunctionOnSet(f, S \ {y})
<1> DEFINE P == {s \in SUBSET S : \A z \in s :
                   SumFunctionOnSet(f, s) = f[z] + SumFunctionOnSet(f, s \ {z})}
<1>1. {} \in P
  OBVIOUS
<1>2. ASSUME NEW s \in SUBSET S, s # {}, \A x \in s : s \ {x} \in P
      PROVE  s \in P
  <2> SUFFICES ASSUME NEW z \in s
               PROVE  SumFunctionOnSet(f, s) = f[z] + SumFunctionOnSet(f, s \ {z})
    OBVIOUS
  <2> DEFINE x == First(s)
  <2>1. x \in s /\ IsFiniteSet(s)
    BY <1>2, FS_Subset DEF First
  <2>2. SumFunctionOnSet(f, s) = f[x] + SumFunctionOnSet(f, s \ {x})
    BY <2>1, <1>2, SumFirst
  <2>3. CASE z = x
    BY <2>2, <2>3
  <2>4. CASE z # x
    <3>1. SumFunctionOnSet(f, s \ {x}) = f[z] + SumFunctionOnSet(f, (s \ {x}) \ {z})
      BY <1>2, <2>1, <2>4
    <3>2. SumFunctionOnSet(f, s \ {z}) = f[x] + SumFunctionOnSet(f, (s \ {z}) \ {x})
      BY <1>2, <2>1, <2>4
    <3>3. (s \ {x}) \ {z} = (s \ {z}) \ {x}
      OBVIOUS
    <3>4. IsFiniteSet((s \ {z}) \ {x}) /\ \A w \in (s \ {z}) \ {x} : f[w] \in Int
      BY <2>1, FS_RemoveElement
    <3>5. f[x] \in Int /\ f[z] \in Int /\ SumFunctionOnSet(f, (s \ {z}) \ {x}) \in Int
      BY <2>1, <3>4, SumInt
    <3> DEFINE r == SumFunctionOnSet(f, (s \ {z}) \ {x})
    <3>6. SumFunctionOnSet(f, s) = f[x] + (f[z] + r)
      BY <2>2, <3>1, <3>3, Zenon
    <3>7. f[x] + (f[z] + r) = f[z] + (f[x] + r)
      BY <3>5
    <3> QED BY <3>2, <3>6, <3>7, Zenon
  <2> QED BY <2>3, <2>4
<1>3. SUBSET S \subseteq P
  <2> HIDE DEF P
  <2> QED BY <1>1, <1>2, SubsetInduction
<1> QED BY <1>3

\* Functions that agree on a set have the same sum over it.
LEMMA SumSame ==
  ASSUME NEW S, IsFiniteSet(S), NEW f, NEW g, \A x \in S : f[x] = g[x]
  PROVE  SumFunctionOnSet(f, S) = SumFunctionOnSet(g, S)
<1> DEFINE P == {s \in SUBSET S : SumFunctionOnSet(f, s) = SumFunctionOnSet(g, s)}
<1>1. {} \in P
  BY SumEmpty
<1>2. ASSUME NEW s \in SUBSET S, s # {}, \A x \in s : s \ {x} \in P
      PROVE  s \in P
  <2>1. First(s) \in s /\ IsFiniteSet(s)
    BY <1>2, FS_Subset DEF First
  <2>2. /\ SumFunctionOnSet(f, s \ {First(s)}) = SumFunctionOnSet(g, s \ {First(s)})
        /\ f[First(s)] = g[First(s)]
    BY <1>2, <2>1
  <2> QED BY <2>1, <2>2, <1>2, SumFirst
<1>3. SUBSET S \subseteq P
  <2> HIDE DEF P
  <2> QED BY <1>1, <1>2, SubsetInduction
<1> QED BY <1>3

\* Changing one summand changes the sum by the difference.
LEMMA SumUpdate ==
  ASSUME NEW S, IsFiniteSet(S), NEW f, NEW g, NEW y \in S,
         \A x \in S : f[x] \in Int /\ g[x] \in Int,
         \A x \in S \ {y} : f[x] = g[x]
  PROVE  SumFunctionOnSet(g, S) = SumFunctionOnSet(f, S) - f[y] + g[y]
<1>1. IsFiniteSet(S \ {y})
  BY FS_RemoveElement
<1>2. SumFunctionOnSet(f, S \ {y}) = SumFunctionOnSet(g, S \ {y})
  BY <1>1, SumSame
<1>3. /\ SumFunctionOnSet(f, S) = f[y] + SumFunctionOnSet(f, S \ {y})
      /\ SumFunctionOnSet(g, S) = g[y] + SumFunctionOnSet(g, S \ {y})
  BY SumRemove
<1>4. SumFunctionOnSet(f, S \ {y}) \in Int /\ f[y] \in Int /\ g[y] \in Int
  BY <1>1, SumInt
<1> QED BY <1>2, <1>3, <1>4

\* A sum of natural numbers is a natural number, and no less than any summand.
LEMMA SumNat ==
  ASSUME NEW S, IsFiniteSet(S), NEW f, \A x \in S : f[x] \in Nat
  PROVE  /\ SumFunctionOnSet(f, S) \in Nat
         /\ \A x \in S : f[x] <= SumFunctionOnSet(f, S)
<1> DEFINE P == {s \in SUBSET S : SumFunctionOnSet(f, s) \in Nat}
<1>1. {} \in P
  BY SumEmpty
<1>2. ASSUME NEW s \in SUBSET S, s # {}, \A x \in s : s \ {x} \in P
      PROVE  s \in P
  <2>1. First(s) \in s /\ IsFiniteSet(s)
    BY <1>2, FS_Subset DEF First
  <2>2. SumFunctionOnSet(f, s \ {First(s)}) \in Nat /\ f[First(s)] \in Nat
    BY <1>2, <2>1
  <2> QED BY <2>1, <2>2, <1>2, SumFirst
<1>3. SUBSET S \subseteq P
  <2> HIDE DEF P
  <2> QED BY <1>1, <1>2, SubsetInduction
<1>4. ASSUME NEW x \in S PROVE f[x] <= SumFunctionOnSet(f, S)
  <2>1. SumFunctionOnSet(f, S) = f[x] + SumFunctionOnSet(f, S \ {x})
    BY SumRemove
  <2>2. SumFunctionOnSet(f, S \ {x}) \in Nat /\ f[x] \in Nat
    BY <1>3
  <2> QED BY <2>1, <2>2
<1> QED BY <1>3, <1>4

\* A sum of zeros is zero.
LEMMA SumZero ==
  ASSUME NEW S, IsFiniteSet(S), NEW f, \A x \in S : f[x] = 0
  PROVE  SumFunctionOnSet(f, S) = 0
<1> DEFINE P == {s \in SUBSET S : SumFunctionOnSet(f, s) = 0}
<1>1. {} \in P
  BY SumEmpty
<1>2. ASSUME NEW s \in SUBSET S, s # {}, \A x \in s : s \ {x} \in P
      PROVE  s \in P
  <2>1. First(s) \in s /\ IsFiniteSet(s)
    BY <1>2, FS_Subset DEF First
  <2>2. SumFunctionOnSet(f, s \ {First(s)}) = 0 /\ f[First(s)] = 0
    BY <1>2, <2>1
  <2> QED BY <2>1, <2>2, <1>2, SumFirst
<1>3. SUBSET S \subseteq P
  <2> HIDE DEF P
  <2> QED BY <1>1, <1>2, SubsetInduction
<1> QED BY <1>3

\* SumUpdate for natural numbers, whose sums then are natural numbers too.
LEMMA SumChange ==
  ASSUME NEW S, NEW y \in S, NEW f, NEW g, IsFiniteSet(S),
         \A x \in S : f[x] \in Nat /\ g[x] \in Nat,
         \A x \in S \ {y} : f[x] = g[x]
  PROVE  /\ SumFunctionOnSet(g, S) = SumFunctionOnSet(f, S) - f[y] + g[y]
         /\ SumFunctionOnSet(f, S) \in Nat /\ SumFunctionOnSet(g, S) \in Nat
<1>1. \A x \in S : f[x] \in Int /\ g[x] \in Int
  OBVIOUS
<1>2. SumFunctionOnSet(g, S) = SumFunctionOnSet(f, S) - f[y] + g[y]
  BY <1>1, SumUpdate
<1> QED BY <1>2, SumNat
=============================================================================
