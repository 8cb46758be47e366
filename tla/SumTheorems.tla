----------------------------- MODULE SumTheorems -----------------------------
(***************************************************************************)
(* What Total returns, for every finite set and every function with        *)
(* integer values on it.  Induction over a set is an argument about the    *)
(* smallest subset for which a statement fails.                            *)
(***************************************************************************)
EXTENDS Integers, FiniteSets, Sums, FiniteSetTheorems, WellFoundedInduction, TLAPS

-----------------------------------------------------------------------------
(***************************************************************************)
(* Smallest counterexamples: a non-empty set of subsets of a finite set    *)
(* has a smallest member, and so has a non-empty set of numbers.           *)
(***************************************************************************)
LEMMA SmallestSet ==
  ASSUME NEW S, IsFiniteSet(S), NEW T \in SUBSET (SUBSET S), T # {}
  PROVE  \E s \in T : \A t \in T : t \subseteq s => t = s
<1>1. T \subseteq FiniteSubsetsOf(S)
  BY FS_Subset DEF FiniteSubsetsOf
<1>2. \E s \in T : \A t \in T : ~(<<t, s>> \in StrictSubsetOrdering(S))
  BY <1>1, FS_StrictSubsetOrderingWellFounded, WFMin
<1> QED BY <1>2, Zenon DEF StrictSubsetOrdering

LEMMA SmallestNat ==
  ASSUME NEW T \in SUBSET Nat, T # {}
  PROVE  \E n \in T : \A m \in T : n <= m
<1> PICK n \in T : TRUE
  BY Zenon
<1> DEFINE U == 0 .. n
           I == {0 .. m : m \in {k \in T : k <= n}}
<1>1. IsFiniteSet(U)
  BY FS_Interval
<1>2. I \in SUBSET (SUBSET U) /\ I # {}
  OBVIOUS
<1> HIDE DEF I, U
<1>3. PICK s \in I : \A t \in I : t \subseteq s => t = s
  BY <1>1, <1>2, SmallestSet
<1>4. PICK m \in T : m <= n /\ s = 0 .. m
  BY <1>3 DEF I
<1>5. ASSUME NEW k \in T, k < m
      PROVE  FALSE
  <2>1. 0 .. k \in I
    BY <1>4, <1>5 DEF I
  <2>2. 0 .. k \subseteq s
    BY <1>4, <1>5
  <2>3. 0 .. k = s
    BY <1>3, <2>1, <2>2
  <2>4. m \in s /\ m \notin 0 .. k
    BY <1>4, <1>5
  <2> QED BY <2>3, <2>4
<1> QED BY <1>4, <1>5

-----------------------------------------------------------------------------
(***************************************************************************)
(* The function that Total computes: it adds f up over every subset of S,  *)
(* one element after the other.  It exists, because it can be extended     *)
(* from the sets of at most n elements to those of n + 1; its values are   *)
(* integers; and it does not matter which element is taken first.          *)
(***************************************************************************)
Pick(s) == CHOOSE x \in s : TRUE
AddsUp(g, D, f) == g = [s \in D |-> IF s = {} THEN 0 ELSE f[Pick(s)] + g[s \ {Pick(s)}]]
Adder(f, S) == CHOOSE g : AddsUp(g, SUBSET S, f)

LEMMA TotalIsAdder ==
  ASSUME NEW f, NEW S
  PROVE  Total(f, S) = Adder(f, S)[S]
BY DEF Total, FoldFunctionOnSet, MapThenFoldSet, Adder, AddsUp, Pick

UpTo(S, n) == {s \in SUBSET S : Cardinality(s) <= n}

LEMMA AdderGrows ==
  ASSUME NEW S, IsFiniteSet(S), NEW f, NEW n \in Nat,
         NEW g, AddsUp(g, UpTo(S, n), f)
  PROVE  \E h : AddsUp(h, UpTo(S, n + 1), f)
<1> DEFINE h == [s \in UpTo(S, n + 1) |->
                   IF s \in UpTo(S, n) THEN g[s] ELSE f[Pick(s)] + g[s \ {Pick(s)}]]
<1>1. \A s \in UpTo(S, n + 1) :
        s # {} => s \ {Pick(s)} \in UpTo(S, n)
  <2> SUFFICES ASSUME NEW s \in UpTo(S, n + 1), s # {}
               PROVE  s \ {Pick(s)} \in UpTo(S, n)
    OBVIOUS
  <2>1. IsFiniteSet(s) /\ s \in SUBSET S /\ Cardinality(s) <= n + 1
    BY FS_Subset DEF UpTo
  <2>2. Pick(s) \in s
    BY DEF Pick
  <2>3. Cardinality(s \ {Pick(s)}) = Cardinality(s) - 1 /\ Cardinality(s) \in Nat
    BY <2>1, <2>2, FS_RemoveElement, FS_CardinalityType
  <2> QED BY <2>1, <2>3 DEF UpTo
<1>2. UpTo(S, n) \subseteq UpTo(S, n + 1)
  <2> SUFFICES ASSUME NEW s \in UpTo(S, n) PROVE s \in UpTo(S, n + 1)
    OBVIOUS
  <2>1. Cardinality(s) \in Nat
    BY FS_Subset, FS_CardinalityType DEF UpTo
  <2> QED BY <2>1 DEF UpTo
<1>3. {} \in UpTo(S, n)
  BY FS_EmptySet DEF UpTo
<1>4. \A s \in UpTo(S, n) : g[s] = IF s = {} THEN 0 ELSE f[Pick(s)] + g[s \ {Pick(s)}]
  BY Zenon DEF AddsUp
<1>5. ASSUME NEW s \in UpTo(S, n + 1)
      PROVE  h[s] = IF s = {} THEN 0 ELSE f[Pick(s)] + h[s \ {Pick(s)}]
  <2>1. s # {} => h[s \ {Pick(s)}] = g[s \ {Pick(s)}]
    BY <1>1, <1>2, <1>5
  <2>2. CASE s \in UpTo(S, n)
    BY <1>4, <1>5, <2>1, <2>2
  <2>3. CASE s \notin UpTo(S, n)
    BY <1>3, <1>5, <2>1, <2>3, Zenon
  <2> QED BY <2>2, <2>3
<1>6. AddsUp(h, UpTo(S, n + 1), f)
  BY <1>5, Zenon DEF AddsUp
<1> QED BY <1>6

LEMMA AdderWorks ==
  ASSUME NEW S, IsFiniteSet(S), NEW f
  PROVE  AddsUp(Adder(f, S), SUBSET S, f)
<1> DEFINE T == {n \in Nat : ~\E g : AddsUp(g, UpTo(S, n), f)}
<1>1. T = {}
  <2> SUFFICES ASSUME T # {} PROVE FALSE
    OBVIOUS
  <2>1. PICK n \in T : \A m \in T : n <= m
    BY SmallestNat, Zenon
  <2>2. CASE n = 0
    <3> DEFINE g == [s \in UpTo(S, 0) |-> 0]
    <3>1. \A s \in UpTo(S, 0) : s = {}
      <4> TAKE s \in UpTo(S, 0)
      <4>1. IsFiniteSet(s) /\ Cardinality(s) <= 0 /\ Cardinality(s) \in Nat
        BY FS_Subset, FS_CardinalityType DEF UpTo
      <4> QED BY <4>1, FS_EmptySet
    <3>2. AddsUp(g, UpTo(S, 0), f)
      BY <3>1 DEF AddsUp
    <3> QED BY <2>2, <3>2
  <2>3. CASE n # 0
    <3>1. n - 1 \in Nat /\ n - 1 \notin T /\ (n - 1) + 1 = n
      BY <2>1, <2>3
    <3>2. PICK g : AddsUp(g, UpTo(S, n - 1), f)
      BY <3>1
    <3>3. \E h : AddsUp(h, UpTo(S, n), f)
      BY <3>1, <3>2, AdderGrows
    <3> QED BY <3>3
  <2> QED BY <2>2, <2>3
<1>2. UpTo(S, Cardinality(S)) = SUBSET S /\ Cardinality(S) \in Nat
  BY FS_Subset, FS_CardinalityType DEF UpTo
<1>3. \E g : AddsUp(g, SUBSET S, f)
  <2>1. Cardinality(S) \notin T
    BY <1>1
  <2>2. \E g : AddsUp(g, UpTo(S, Cardinality(S)), f)
    BY <1>2, <2>1, Zenon
  <2> QED BY <1>2, <2>2
<1> QED BY <1>3 DEF Adder

\* The equations of the adder of a finite set.
LEMMA AdderEquation ==
  ASSUME NEW S, IsFiniteSet(S), NEW f
  PROVE  /\ Adder(f, S)[{}] = 0
         /\ \A s \in SUBSET S : s # {} =>
              /\ Pick(s) \in s
              /\ s \ {Pick(s)} \in SUBSET S
              /\ Adder(f, S)[s] = f[Pick(s)] + Adder(f, S)[s \ {Pick(s)}]
<1> DEFINE g == Adder(f, S)
<1>1. g = [s \in SUBSET S |-> IF s = {} THEN 0 ELSE f[Pick(s)] + g[s \ {Pick(s)}]]
  BY AdderWorks, Zenon DEF AddsUp
<1>2. \A s \in SUBSET S : s # {} => Pick(s) \in s
  BY DEF Pick
<1> HIDE DEF g
<1>3. {} \in SUBSET S
  OBVIOUS
<1>4. g[{}] = 0
  BY <1>1, <1>3
<1>5. \A s \in SUBSET S : s # {} => g[s] = f[Pick(s)] + g[s \ {Pick(s)}]
  BY <1>1, Zenon
<1> QED BY <1>2, <1>4, <1>5, Zenon DEF g

LEMMA AdderType ==
  ASSUME NEW S, IsFiniteSet(S), NEW f, \A x \in S : f[x] \in Int
  PROVE  \A s \in SUBSET S : Adder(f, S)[s] \in Int
<1> DEFINE g == Adder(f, S)
           T == {s \in SUBSET S : g[s] \notin Int}
<1> SUFFICES ASSUME T # {} PROVE FALSE
  OBVIOUS
<1>1. PICK s \in T : \A t \in T : t \subseteq s => t = s
  <2>1. T \in SUBSET (SUBSET S)
    OBVIOUS
  <2> HIDE DEF T
  <2> QED BY <2>1, SmallestSet
<1>2. s # {}
  <2>1. g[{}] \in Int
    BY AdderEquation
  <2>2. g[s] \notin Int
    BY <1>1
  <2> HIDE DEF g
  <2> QED BY <2>1, <2>2
<1>3. /\ Pick(s) \in s /\ s \ {Pick(s)} \in SUBSET S
      /\ g[s] = f[Pick(s)] + g[s \ {Pick(s)}]
  BY <1>1, <1>2, AdderEquation
<1>4. g[s \ {Pick(s)}] \in Int
  <2>1. s \ {Pick(s)} \notin T
    BY <1>1, <1>3
  <2> QED BY <1>3, <2>1
<1>5. f[Pick(s)] \in Int
  BY <1>1, <1>3
<1>6. g[s] \in Int
  BY <1>3, <1>4, <1>5
<1> QED BY <1>1, <1>6

\* The order of addition does not matter.
LEMMA AdderAnyOrder ==
  ASSUME NEW S, IsFiniteSet(S), NEW f, \A x \in S : f[x] \in Int
  PROVE  \A s \in SUBSET S : \A x \in s : Adder(f, S)[s] = f[x] + Adder(f, S)[s \ {x}]
<1> DEFINE g == Adder(f, S)
           T == {s \in SUBSET S : ~\A x \in s : g[s] = f[x] + g[s \ {x}]}
<1> SUFFICES ASSUME T # {} PROVE FALSE
  BY Zenon
<1>1. PICK s \in T : \A t \in T : t \subseteq s => t = s
  <2>1. T \in SUBSET (SUBSET S)
    OBVIOUS
  <2> HIDE DEF T
  <2> QED BY <2>1, SmallestSet
<1>2. PICK x \in s : g[s] # f[x] + g[s \ {x}]
  BY <1>1, Zenon
<1> DEFINE c == Pick(s)
           u == s \ {c}
           v == s \ {x}
           w == u \ {x}
<1>3. c \in s /\ u \in SUBSET S /\ g[s] = f[c] + g[u]
  BY <1>1, <1>2, AdderEquation
<1>4. x # c
  BY <1>2, <1>3
<1>5. u \notin T /\ v \in SUBSET S /\ v \notin T
  BY <1>1, <1>2, <1>3, Zenon
<1>6. x \in u /\ c \in v /\ v \ {c} = w /\ w \in SUBSET S
  BY <1>1, <1>2, <1>3, <1>4
<1>7. g[u] = f[x] + g[w]
  BY <1>3, <1>5, <1>6, Zenon
<1>8. g[v] = f[c] + g[w]
  <2>1. g[v] = f[c] + g[v \ {c}]
    BY <1>5, <1>6, Zenon
  <2> HIDE DEF g, v, w
  <2> QED BY <1>6, <2>1, Zenon
<1>9. f[x] \in Int /\ f[c] \in Int /\ g[w] \in Int
  BY <1>1, <1>2, <1>3, <1>6, AdderType
<1> HIDE DEF g, u, v, w, c
<1>10. g[s] = f[x] + g[v]
  BY <1>3, <1>7, <1>8, <1>9
<1> QED BY <1>2, <1>10 DEF v

\* Two adders agree where both the sets and the values do.
LEMMA AdderAgrees ==
  ASSUME NEW S, IsFiniteSet(S), NEW R \in SUBSET S, NEW f, NEW h,
         \A x \in R : f[x] = h[x]
  PROVE  \A s \in SUBSET R : Adder(f, S)[s] = Adder(h, R)[s]
<1> DEFINE g == Adder(f, S)
           k == Adder(h, R)
           T == {s \in SUBSET R : g[s] # k[s]}
<1>0. IsFiniteSet(R)
  BY FS_Subset
<1> SUFFICES ASSUME T # {} PROVE FALSE
  OBVIOUS
<1>1. PICK s \in T : \A t \in T : t \subseteq s => t = s
  <2>1. T \in SUBSET (SUBSET R)
    OBVIOUS
  <2> HIDE DEF T
  <2> QED BY <1>0, <2>1, SmallestSet
<1>2. g[{}] = 0 /\ k[{}] = 0
  BY <1>0, AdderEquation
<1>3. s # {} /\ s \in SUBSET R /\ s \in SUBSET S
  BY <1>1, <1>2, Zenon
<1>4. Pick(s) \in s /\ g[s] = f[Pick(s)] + g[s \ {Pick(s)}]
  <2>1. \A t \in SUBSET S : t # {} =>
          Pick(t) \in t /\ g[t] = f[Pick(t)] + g[t \ {Pick(t)}]
    BY AdderEquation
  <2> HIDE DEF g, T
  <2> QED BY <1>3, <2>1
<1>5. k[s] = h[Pick(s)] + k[s \ {Pick(s)}]
  <2>1. \A t \in SUBSET R : t # {} => k[t] = h[Pick(t)] + k[t \ {Pick(t)}]
    BY <1>0, AdderEquation
  <2> HIDE DEF k, T
  <2> QED BY <1>3, <2>1, SMTT(30)
<1>6. s \ {Pick(s)} \notin T
  BY <1>1, <1>4
<1>7. g[s \ {Pick(s)}] = k[s \ {Pick(s)}]
  BY <1>3, <1>6
<1>8. f[Pick(s)] = h[Pick(s)]
  BY <1>3, <1>4
<1>9. g[s] = k[s]
  BY <1>4, <1>5, <1>7, <1>8
<1> QED BY <1>1, <1>9

-----------------------------------------------------------------------------
\* Facts about Total itself.

LEMMA TotalEmpty ==
  ASSUME NEW f
  PROVE  Total(f, {}) = 0
BY TotalIsAdder, AdderEquation, FS_EmptySet

LEMMA TotalSame ==
  ASSUME NEW S, IsFiniteSet(S), NEW f, NEW h, \A x \in S : f[x] = h[x]
  PROVE  Total(f, S) = Total(h, S)
<1>1. S \in SUBSET S
  OBVIOUS
<1>2. Adder(f, S)[S] = Adder(h, S)[S]
  BY <1>1, AdderAgrees
<1> QED BY <1>2, TotalIsAdder

LEMMA TotalRemove ==
  ASSUME NEW S, IsFiniteSet(S), NEW f, \A x \in S : f[x] \in Int, NEW x \in S
  PROVE  Total(f, S) = f[x] + Total(f, S \ {x})
<1> DEFINE R == S \ {x}
<1>1. R \in SUBSET S /\ S \in SUBSET S /\ R \in SUBSET R
  OBVIOUS
<1>2. Adder(f, S)[S] = f[x] + Adder(f, S)[R]
  BY <1>1, AdderAnyOrder
<1> HIDE DEF R
<1>3. Adder(f, S)[R] = Adder(f, R)[R]
  BY <1>1, AdderAgrees
<1>4. Total(f, S) = f[x] + Total(f, R)
  BY <1>2, <1>3, TotalIsAdder
<1> QED BY <1>4 DEF R

LEMMA TotalType ==
  ASSUME NEW S, IsFiniteSet(S), NEW f, \A x \in S : f[x] \in Int
  PROVE  Total(f, S) \in Int
<1>1. S \in SUBSET S
  OBVIOUS
<1> QED BY <1>1, AdderType, TotalIsAdder

LEMMA TotalAdd ==
  ASSUME NEW S, IsFiniteSet(S), NEW f, NEW x, x \notin S,
         \A y \in S \cup {x} : f[y] \in Int
  PROVE  Total(f, S \cup {x}) = f[x] + Total(f, S)
<1> DEFINE R == S \cup {x}
<1>1. IsFiniteSet(R) /\ x \in R /\ R \ {x} = S
  BY FS_AddElement
<1> HIDE DEF R
<1>2. Total(f, R) = f[x] + Total(f, R \ {x})
  BY <1>1, TotalRemove DEF R
<1>3. Total(f, R \ {x}) = Total(f, S)
  BY <1>1, SMTT(30)
<1> QED BY <1>2, <1>3 DEF R

\* A change of one value changes the total by as much.
LEMMA TotalChange ==
  ASSUME NEW S, IsFiniteSet(S), NEW x \in S, NEW f, NEW h,
         \A y \in S : f[y] \in Int /\ h[y] \in Int,
         \A y \in S \ {x} : h[y] = f[y]
  PROVE  Total(h, S) = Total(f, S) - f[x] + h[x]
<1> DEFINE R == S \ {x}
<1>1. IsFiniteSet(R) /\ \A y \in R : f[y] \in Int
  BY FS_RemoveElement
<1>2. Total(f, S) = f[x] + Total(f, R) /\ Total(h, S) = h[x] + Total(h, R)
  BY TotalRemove
<1> HIDE DEF R
<1>3. Total(h, R) = Total(f, R)
  BY <1>1, TotalSame DEF R
<1>4. Total(f, R) \in Int
  BY <1>1, TotalType
<1> QED BY <1>2, <1>3, <1>4

LEMMA TotalIncrement ==
  ASSUME NEW S, IsFiniteSet(S), NEW f \in [S -> Int], NEW x \in S, NEW v \in Int
  PROVE  Total([f EXCEPT ![x] = @ + v], S) = Total(f, S) + v
<1> DEFINE h == [f EXCEPT ![x] = @ + v]
<1>1. (\A y \in S : f[y] \in Int /\ h[y] \in Int) /\ (\A y \in S \ {x} : h[y] = f[y])
  OBVIOUS
<1>2. h[x] = f[x] + v /\ f[x] \in Int
  OBVIOUS
<1>3. Total(f, S) \in Int
  BY <1>1, TotalType
<1> HIDE DEF h
<1>4. Total(h, S) = Total(f, S) - f[x] + h[x]
  BY <1>1, TotalChange
<1>5. Total(h, S) = Total(f, S) + v
  BY <1>2, <1>3, <1>4
<1> QED BY <1>5 DEF h

\* Induction over the subsets of S.
LEMMA TotalZero ==
  ASSUME NEW S, IsFiniteSet(S), NEW f, \A x \in S : f[x] = 0
  PROVE  Total(f, S) = 0
<1> DEFINE T == {s \in SUBSET S : Total(f, s) # 0}
<1> SUFFICES ASSUME T # {} PROVE FALSE
  OBVIOUS
<1>1. PICK s \in T : \A t \in T : t \subseteq s => t = s
  <2>1. T \in SUBSET (SUBSET S)
    OBVIOUS
  <2> HIDE DEF T
  <2> QED BY <2>1, SmallestSet
<1>2. s # {}
  BY <1>1, TotalEmpty, Zenon
<1>3. PICK x \in s : TRUE
  BY <1>2
<1>4. IsFiniteSet(s) /\ \A y \in s : f[y] \in Int
  BY <1>1, FS_Subset
<1>5. Total(f, s) = f[x] + Total(f, s \ {x})
  BY <1>3, <1>4, TotalRemove
<1>6. s \ {x} \in SUBSET S /\ s \ {x} \notin T
  BY <1>1, <1>3
<1>7. Total(f, s \ {x}) = 0
  BY <1>6
<1>8. f[x] = 0
  BY <1>1, <1>3
<1>9. Total(f, s) = 0
  BY <1>5, <1>7, <1>8
<1> QED BY <1>1, <1>9

\* Totals of sums, and of larger values.
LEMMA TotalPlus ==
  ASSUME NEW S, IsFiniteSet(S), NEW f, NEW g, NEW h,
         \A x \in S : f[x] \in Int /\ g[x] \in Int /\ h[x] = f[x] + g[x]
  PROVE  Total(h, S) = Total(f, S) + Total(g, S)
<1> DEFINE T == {s \in SUBSET S : Total(h, s) # Total(f, s) + Total(g, s)}
<1> SUFFICES ASSUME T # {} PROVE FALSE
  <2>1. S \notin T
    OBVIOUS
  <2> QED BY <2>1
<1>1. PICK s \in T : \A t \in T : t \subseteq s => t = s
  <2>1. T \in SUBSET (SUBSET S)
    OBVIOUS
  <2> HIDE DEF T
  <2> QED BY <2>1, SmallestSet
<1>2. s # {}
  <2>1. Total(h, {}) = Total(f, {}) + Total(g, {})
    BY TotalEmpty
  <2>2. Total(h, s) # Total(f, s) + Total(g, s)
    BY <1>1
  <2> QED BY <2>1, <2>2
<1>3. PICK x \in s : TRUE
  BY <1>2
<1>4. /\ IsFiniteSet(s)
      /\ \A y \in s : f[y] \in Int /\ g[y] \in Int /\ h[y] \in Int
  BY <1>1, FS_Subset
<1> DEFINE r == s \ {x}
<1>5. /\ Total(f, s) = f[x] + Total(f, r)
      /\ Total(g, s) = g[x] + Total(g, r)
      /\ Total(h, s) = h[x] + Total(h, r)
  BY <1>3, <1>4, TotalRemove
<1>6. r \in SUBSET S /\ r \notin T
  BY <1>1, <1>3
<1>7. Total(h, r) = Total(f, r) + Total(g, r)
  BY <1>6
<1>8. h[x] = f[x] + g[x] /\ f[x] \in Int /\ g[x] \in Int
  BY <1>1, <1>3
<1>9. Total(f, r) \in Int /\ Total(g, r) \in Int
  <2>1. IsFiniteSet(r) /\ \A y \in r : f[y] \in Int /\ g[y] \in Int
    BY <1>4, FS_RemoveElement
  <2> HIDE DEF r
  <2> QED BY <2>1, TotalType
<1> HIDE DEF r
<1>10. Total(h, s) = Total(f, s) + Total(g, s)
  BY <1>5, <1>7, <1>8, <1>9
<1> QED BY <1>1, <1>10

LEMMA TotalNat ==
  ASSUME NEW S, IsFiniteSet(S), NEW f, \A x \in S : f[x] \in Nat
  PROVE  Total(f, S) \in Nat
<1> DEFINE T == {s \in SUBSET S : Total(f, s) \notin Nat}
<1> SUFFICES ASSUME T # {} PROVE FALSE
  OBVIOUS
<1>1. PICK s \in T : \A t \in T : t \subseteq s => t = s
  <2>1. T \in SUBSET (SUBSET S)
    OBVIOUS
  <2> HIDE DEF T
  <2> QED BY <2>1, SmallestSet
<1>2. s # {}
  <2>1. Total(f, {}) \in Nat
    BY TotalEmpty
  <2>2. Total(f, s) \notin Nat
    BY <1>1
  <2> QED BY <2>1, <2>2
<1>3. PICK x \in s : TRUE
  BY <1>2
<1>4. IsFiniteSet(s) /\ \A y \in s : f[y] \in Int
  BY <1>1, FS_Subset
<1>5. Total(f, s) = f[x] + Total(f, s \ {x})
  BY <1>3, <1>4, TotalRemove
<1>6. s \ {x} \in SUBSET S /\ s \ {x} \notin T
  BY <1>1, <1>3
<1>7. Total(f, s \ {x}) \in Nat
  BY <1>6
<1>8. f[x] \in Nat
  BY <1>1, <1>3
<1>9. Total(f, s) \in Nat
  BY <1>5, <1>7, <1>8
<1> QED BY <1>1, <1>9

LEMMA TotalLeq ==
  ASSUME NEW S, IsFiniteSet(S), NEW f, NEW h,
         \A x \in S : f[x] \in Int /\ h[x] \in Int /\ f[x] <= h[x]
  PROVE  Total(f, S) <= Total(h, S)
<1> DEFINE g == [x \in S |-> h[x] - f[x]]
<1>1. \A x \in S : g[x] \in Nat /\ h[x] = f[x] + g[x]
  OBVIOUS
<1> HIDE DEF g
<1>2. Total(g, S) \in Nat
  BY <1>1, TotalNat
<1>3. Total(f, S) \in Int
  BY TotalType
<1>4. Total(h, S) = Total(f, S) + Total(g, S)
  BY <1>1, TotalPlus, SMTT(30)
<1> QED BY <1>2, <1>3, <1>4

\* No value exceeds the total.
LEMMA TotalMember ==
  ASSUME NEW S, IsFiniteSet(S), NEW f, \A y \in S : f[y] \in Nat, NEW x \in S
  PROVE  f[x] <= Total(f, S)
<1> DEFINE R == S \ {x}
<1>1. IsFiniteSet(R) /\ \A y \in R : f[y] \in Nat
  BY FS_RemoveElement
<1>2. Total(f, S) = f[x] + Total(f, R)
  BY TotalRemove
<1> HIDE DEF R
<1>3. Total(f, R) \in Nat
  BY <1>1, TotalNat
<1> QED BY <1>2, <1>3

LEMMA TotalUnion ==
  ASSUME NEW S, IsFiniteSet(S), NEW R, IsFiniteSet(R), S \cap R = {},
         NEW f, \A x \in S \cup R : f[x] \in Int
  PROVE  Total(f, S \cup R) = Total(f, S) + Total(f, R)
<1> DEFINE T == {s \in SUBSET R : Total(f, S \cup s) # Total(f, S) + Total(f, s)}
<1> SUFFICES ASSUME T # {} PROVE FALSE
  <2>1. R \notin T
    BY Zenon
  <2> QED BY <2>1
<1>1. PICK s \in T : \A t \in T : t \subseteq s => t = s
  <2>1. T \in SUBSET (SUBSET R)
    OBVIOUS
  <2> HIDE DEF T
  <2> QED BY <2>1, SmallestSet
<1>0. Total(f, S) \in Int
  BY TotalType
<1>2. s # {}
  <2>1. S \cup {} = S
    OBVIOUS
  <2>2. Total(f, S \cup {}) = Total(f, S) + Total(f, {})
    BY <1>0, <2>1, TotalEmpty
  <2>3. Total(f, S \cup s) # Total(f, S) + Total(f, s)
    BY <1>1
  <2> QED BY <2>2, <2>3, Zenon
<1>3. PICK x \in s : TRUE
  BY <1>2
<1> DEFINE r == s \ {x}
           u == S \cup s
           v == S \cup r
<1>4. /\ IsFiniteSet(s) /\ \A y \in s : f[y] \in Int
      /\ IsFiniteSet(u) /\ \A y \in u : f[y] \in Int
      /\ IsFiniteSet(r) /\ \A y \in r : f[y] \in Int
  BY <1>1, FS_Subset, FS_Union, FS_RemoveElement, Zenon
<1>5. x \in u /\ u \ {x} = v
  BY <1>1, <1>3
<1>6. r \in SUBSET R /\ r \notin T
  BY <1>1, <1>3
<1>7. Total(f, v) = Total(f, S) + Total(f, r)
  BY <1>6
<1>8. Total(f, s) = f[x] + Total(f, r)
  BY <1>3, <1>4, TotalRemove
<1> HIDE DEF u, v, r
<1>9. Total(f, u) = f[x] + Total(f, v)
  BY <1>4, <1>5, TotalRemove
<1>10. f[x] \in Int /\ Total(f, r) \in Int
  BY <1>3, <1>4, TotalType
<1>11. Total(f, u) = Total(f, S) + Total(f, s)
  BY <1>0, <1>7, <1>8, <1>9, <1>10
<1> QED BY <1>1, <1>11 DEF u

\* A sum over an interval falls into the sums over its two parts.
LEMMA TotalInterval ==
  ASSUME NEW lo \in Int, NEW mid \in Int, NEW hi \in Int, lo <= mid + 1, mid <= hi,
         NEW f, \A x \in lo .. hi : f[x] \in Int
  PROVE  /\ Total(f, lo .. hi) = Total(f, lo .. mid) + Total(f, mid + 1 .. hi)
         /\ Total(f, lo .. mid) \in Int /\ Total(f, mid + 1 .. hi) \in Int
<1> DEFINE S == lo .. mid
           R == mid + 1 .. hi
<1>1. S \cup R = lo .. hi /\ S \cap R = {}
  OBVIOUS
<1>2. IsFiniteSet(S) /\ IsFiniteSet(R)
  BY FS_Interval
<1> HIDE DEF S, R
<1>3. Total(f, S \cup R) = Total(f, S) + Total(f, R)
  BY <1>1, <1>2, TotalUnion
<1>4. Total(f, S) \in Int /\ Total(f, R) \in Int
  BY <1>1, <1>2, TotalType
<1> QED BY <1>1, <1>3, <1>4, Zenon DEF S, R
=============================================================================
