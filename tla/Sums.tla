-------------------------------- MODULE Sums --------------------------------
(***************************************************************************)
(* Facts about SumFunctionOnSet and SumFunction of the community module    *)
(* Functions, for the proofs about sums of budgets, reservations and       *)
(* matches: a sum is a recursive fold over a set whose elements are taken  *)
(* in an order nobody knows.                                               *)
(*                                                                         *)
(* The induction theorems of the library take an operator as a parameter;  *)
(* every induction here is on a set of counterexamples instead, of which   *)
(* a least one is taken.                                                   *)
(***************************************************************************)
EXTENDS Functions, Integers, FiniteSets, FiniteSetTheorems, TLAPS

\* The element that the fold takes next.
Chosen(s) == CHOOSE x \in s : TRUE

\* g sums f over every set of family C: the recursion of the fold.
Folding(f, C, g) ==
    g = [s \in C |-> IF s = {} THEN 0 ELSE f[Chosen(s)] + g[s \ {Chosen(s)}]]

Tallies(f, S, g) == Folding(f, SUBSET S, g)

-----------------------------------------------------------------------------
(* Least counterexamples *)

\* Among subsets of a finite set there is one without a smaller one.
LEMMA LeastSet ==
    ASSUME NEW S, IsFiniteSet(S), NEW B, B \subseteq SUBSET S, B # {}
    PROVE  \E T \in B : \A U \in B : U \subseteq T => U = T
<1>1. IsWellFoundedOn(StrictSubsetOrdering(S), SUBSET S)
  BY FS_StrictSubsetOrderingWellFounded, FS_FiniteSubsetsOfFinite
<1>2. PICK T \in B : \A U \in B : <<U, T>> \notin StrictSubsetOrdering(S)
  BY <1>1, WFMin
<1>3. \A U \in B : U \subseteq T => U = T
  BY <1>2 DEF StrictSubsetOrdering
<1> QED
  BY <1>3

\* A set of naturals has a least element.
LEMMA LeastNumber ==
    ASSUME NEW B, B \subseteq Nat, B # {}
    PROVE  \E n \in B : \A m \in B : n <= m
<1>1. PICK b \in B : TRUE
  OBVIOUS
<1>2. IsFiniteSet(0..b)
  BY <1>1, FS_Interval
<1>0. PICK F : F = {0..m : m \in {k \in B : k <= b}}
  OBVIOUS
<1>3. F \subseteq SUBSET (0..b) /\ F # {}
  BY <1>0, <1>1
<1>4. PICK T \in F : \A U \in F : U \subseteq T => U = T
  <2>1. PICK D : D = 0..b
    OBVIOUS
  <2>2. IsFiniteSet(D) /\ F \subseteq SUBSET D /\ F # {}
    BY <2>1, <1>2, <1>3
  <2> QED
    BY <2>2, LeastSet
<1>5. PICK n \in B : n <= b /\ T = 0..n
  BY <1>0, <1>4
<1>6. \A m \in B : n <= m
  <2> SUFFICES ASSUME NEW m \in B, m < n PROVE FALSE
    BY <1>5
  <2>1. 0..m \in F
    BY <1>0, <1>1, <1>5
  <2>2. 0..m \subseteq T /\ n \in T /\ n \notin 0..m
    BY <1>5
  <2> QED
    BY <2>1, <2>2, <1>4
<1> QED
  BY <1>6

-----------------------------------------------------------------------------
(* The recursion has a solution *)

Small(S, n) == {s \in SUBSET S : Cardinality(s) <= n}

\* One element taken away from a set leaves a smaller one.
LEMMA OneLess ==
    ASSUME NEW S, IsFiniteSet(S), NEW n \in Nat, NEW s \in SUBSET S, Cardinality(s) <= n + 1, s # {}
    PROVE  s \ {Chosen(s)} \in Small(S, n)
<1>1. IsFiniteSet(s) /\ Cardinality(s) \in Nat
  BY FS_Subset, FS_CardinalityType
<1>2. Chosen(s) \in s
  BY DEF Chosen
<1>3. Cardinality(s \ {Chosen(s)}) = Cardinality(s) - 1
  BY <1>1, <1>2, FS_RemoveElement
<1> QED
  BY <1>1, <1>3 DEF Small

\* The recursion can be solved for sets of any bounded size.
LEMMA FoldingExists ==
    ASSUME NEW f, NEW S, IsFiniteSet(S), NEW n \in Nat
    PROVE  \E g : Folding(f, Small(S, n), g)
<1> DEFINE B == {m \in Nat : ~ \E g : Folding(f, Small(S, m), g)}
<1>1. CASE B = {}
  BY <1>1
<1>2. ASSUME B # {} PROVE FALSE
  <2>1. PICK m \in B : \A k \in B : m <= k
    BY <1>2, LeastNumber
  <2>2. CASE m = 0
    <3>1. \A s \in Small(S, 0) : s = {}
      BY FS_Subset, FS_EmptySet, FS_CardinalityType DEF Small
    <3>2. PICK g : g = [s \in Small(S, 0) |-> 0]
      OBVIOUS
    <3>3. Folding(f, Small(S, 0), g)
      BY <3>1, <3>2, Zenon DEF Folding
    <3> QED
      BY <2>1, <2>2, <3>3
  <2>3. CASE m # 0
    <3>1. m - 1 \in Nat /\ m - 1 \notin B /\ m \in Nat
      BY <2>1, <2>3
    <3>2. PICK k : k = m - 1
      OBVIOUS
    <3>3. k \in Nat /\ m = k + 1
      BY <3>1, <3>2
    <3>4. PICK g : Folding(f, Small(S, k), g)
      BY <3>1, <3>2
    <3>5. PICK h : h = [s \in Small(S, m) |-> IF s \in Small(S, k) THEN g[s]
                                             ELSE f[Chosen(s)] + g[s \ {Chosen(s)}]]
      OBVIOUS
    <3>6. \A s \in Small(S, m) : s # {} => s \ {Chosen(s)} \in Small(S, k)
      BY <3>3, OneLess DEF Small
    <3>7. Small(S, k) \subseteq Small(S, m) /\ {} \in Small(S, k)
      BY <3>3, FS_Subset, FS_CardinalityType, FS_EmptySet DEF Small
    <3>8. \A s \in Small(S, k) : g[s] = IF s = {} THEN 0 ELSE f[Chosen(s)] + g[s \ {Chosen(s)}]
      BY <3>4, Zenon DEF Folding
    <3>9. \A s \in Small(S, m) :
             h[s] = IF s = {} THEN 0 ELSE f[Chosen(s)] + h[s \ {Chosen(s)}]
      <4> SUFFICES ASSUME NEW s \in Small(S, m)
                   PROVE  h[s] = IF s = {} THEN 0 ELSE f[Chosen(s)] + h[s \ {Chosen(s)}]
        OBVIOUS
      <4>1. \A t \in Small(S, k) : h[t] = g[t]
        BY <3>5, <3>7
      <4>2. CASE s \in Small(S, k)
        BY <4>1, <4>2, <3>6, <3>7, <3>8
      <4>3. CASE s \notin Small(S, k)
        <5>1. s # {} /\ h[s] = f[Chosen(s)] + g[s \ {Chosen(s)}]
          BY <3>5, <3>7, <4>3
        <5> QED
          BY <5>1, <4>1, <3>6
      <4> QED
        BY <4>2, <4>3
    <3>10. Folding(f, Small(S, m), h)
      <4>1. h = [s \in Small(S, m) |-> h[s]]
        BY <3>5
      <4> QED
        BY <4>1, <3>9, Zenon DEF Folding
    <3> QED
      BY <2>1, <3>10
  <2> QED
    BY <2>2, <2>3
<1> QED
  BY <1>1, <1>2

\* The recursion can be solved for all subsets of a finite set.
LEMMA TalliesExist ==
    ASSUME NEW f, NEW S, IsFiniteSet(S)
    PROVE  \E g : Tallies(f, S, g)
<1>1. Cardinality(S) \in Nat
  BY FS_CardinalityType
<1>2. Small(S, Cardinality(S)) = SUBSET S
  BY FS_Subset DEF Small
<1>3. \E g : Folding(f, Small(S, Cardinality(S)), g)
  BY <1>1, FoldingExists
<1> QED
  BY <1>2, <1>3 DEF Tallies

\* What a sum over a set is: the value of any solution.
LEMMA SumIsATally ==
    ASSUME NEW f, NEW S, IsFiniteSet(S)
    PROVE  \E g : Tallies(f, S, g) /\ SumFunctionOnSet(f, S) = g[S]
<1>1. PICK h : h = CHOOSE k : k = [s \in SUBSET S |-> IF s = {} THEN 0
                                     ELSE f[CHOOSE x \in s : TRUE] + k[s \ {CHOOSE x \in s : TRUE}]]
  OBVIOUS
<1>2. \E k : k = [s \in SUBSET S |-> IF s = {} THEN 0
                     ELSE f[CHOOSE x \in s : TRUE] + k[s \ {CHOOSE x \in s : TRUE}]]
  <2>1. PICK g : Tallies(f, S, g)
    BY TalliesExist
  <2> QED
    BY <2>1, Zenon DEF Tallies, Folding, Chosen
<1>3. h = [s \in SUBSET S |-> IF s = {} THEN 0
             ELSE f[CHOOSE x \in s : TRUE] + h[s \ {CHOOSE x \in s : TRUE}]]
  BY <1>1, <1>2, Zenon
<1>4. SumFunctionOnSet(f, S) = h[S]
  BY <1>1, Zenon DEF SumFunctionOnSet, FoldFunctionOnSet, MapThenFoldSet
<1> QED
  BY <1>3, <1>4, Zenon DEF Tallies, Folding, Chosen

\* Two solutions agree wherever both are defined.
LEMMA TalliesAgree ==
    ASSUME NEW f, NEW S, IsFiniteSet(S), NEW T \in SUBSET S, NEW g, NEW h,
           Tallies(f, S, g), Tallies(f, T, h)
    PROVE  \A s \in SUBSET T : g[s] = h[s]
<1>0. PICK B : B = {s \in SUBSET T : g[s] # h[s]}
  OBVIOUS
<1>1. \A s \in SUBSET T : g[s] = IF s = {} THEN 0 ELSE f[Chosen(s)] + g[s \ {Chosen(s)}]
  BY Zenon DEF Tallies, Folding
<1>2. \A s \in SUBSET T : h[s] = IF s = {} THEN 0 ELSE f[Chosen(s)] + h[s \ {Chosen(s)}]
  BY Zenon DEF Tallies, Folding
<1>3. ASSUME B # {} PROVE FALSE
  <2>1. IsFiniteSet(T)
    BY FS_Subset
  <2>2. B \subseteq SUBSET T
    BY <1>0
  <2>3. PICK s \in B : \A u \in B : u \subseteq s => u = s
    BY <1>3, <2>1, <2>2, LeastSet
  <2>4. s # {}
    BY <1>0, <2>3, <1>1, <1>2
  <2>5. Chosen(s) \in s
    BY <2>4 DEF Chosen
  <2>6. PICK r : r = s \ {Chosen(s)}
    OBVIOUS
  <2>7. r \in SUBSET T /\ r \notin B
    BY <1>0, <2>3, <2>5, <2>6
  <2>8. g[r] = h[r]
    BY <1>0, <2>7
  <2> QED
    BY <1>0, <2>3, <2>4, <2>6, <2>8, <1>1, <1>2
<1> QED
  BY <1>0, <1>3

-----------------------------------------------------------------------------
(* Sums, one element at a time *)

\* Nothing sums to zero.
LEMMA SumOfNothing ==
    ASSUME NEW f
    PROVE  SumFunctionOnSet(f, {}) = 0
<1>1. PICK g : Tallies(f, {}, g) /\ SumFunctionOnSet(f, {}) = g[{}]
  BY SumIsATally, FS_EmptySet
<1> QED
  BY <1>1 DEF Tallies, Folding

\* The fold takes the element it chooses and then the others.
LEMMA SumTakesOne ==
    ASSUME NEW f, NEW S, IsFiniteSet(S), S # {}
    PROVE  SumFunctionOnSet(f, S) = f[Chosen(S)] + SumFunctionOnSet(f, S \ {Chosen(S)})
<1>1. PICK r : r = S \ {Chosen(S)}
  OBVIOUS
<1>2. r \in SUBSET S /\ IsFiniteSet(r)
  BY <1>1, FS_Subset
<1>3. PICK g : Tallies(f, S, g) /\ SumFunctionOnSet(f, S) = g[S]
  BY SumIsATally
<1>4. PICK h : Tallies(f, r, h) /\ SumFunctionOnSet(f, r) = h[r]
  BY <1>2, SumIsATally
<1>5. g[r] = h[r]
  BY <1>2, <1>3, <1>4, TalliesAgree
<1>6. g[S] = f[Chosen(S)] + g[r]
  BY <1>1, <1>3 DEF Tallies, Folding
<1> QED
  BY <1>1, <1>3, <1>4, <1>5, <1>6

\* A sum of integers is an integer.
LEMMA SumInt ==
    ASSUME NEW f, NEW S, IsFiniteSet(S), \A x \in S : f[x] \in Int
    PROVE  SumFunctionOnSet(f, S) \in Int
<1>0. PICK B : B = {s \in SUBSET S : SumFunctionOnSet(f, s) \notin Int}
  OBVIOUS
<1>1. ASSUME B # {} PROVE FALSE
  <2>1. B \subseteq SUBSET S
    BY <1>0
  <2>2. PICK s \in B : \A u \in B : u \subseteq s => u = s
    BY <1>1, <2>1, LeastSet
  <2>3. s # {} /\ IsFiniteSet(s)
    <3>1. SumFunctionOnSet(f, s) \notin Int /\ s \in SUBSET S
      BY <1>0, <2>2
    <3>2. SumFunctionOnSet(f, {}) \in Int
      BY SumOfNothing
    <3> QED
      BY <3>1, <3>2, FS_Subset
  <2>4. PICK r, c : c = Chosen(s) /\ r = s \ {c}
    OBVIOUS
  <2>5. c \in s
    BY <1>0, <2>3, <2>4 DEF Chosen
  <2>6. SumFunctionOnSet(f, s) = f[c] + SumFunctionOnSet(f, r)
    BY <1>0, <2>3, <2>4, SumTakesOne
  <2>7. SumFunctionOnSet(f, r) \in Int
    BY <1>0, <2>2, <2>4, <2>5
  <2> QED
    BY <1>0, <2>2, <2>5, <2>6, <2>7
<1> QED
  BY <1>0, <1>1

\* Any element may be taken first.
LEMMA SumWithout ==
    ASSUME NEW f, NEW S, IsFiniteSet(S), \A x \in S : f[x] \in Int, NEW e \in S
    PROVE  SumFunctionOnSet(f, S) = f[e] + SumFunctionOnSet(f, S \ {e})
<1>0. PICK B : B = {s \in SUBSET S : \E x \in s : SumFunctionOnSet(f, s) # f[x] + SumFunctionOnSet(f, s \ {x})}
  OBVIOUS
<1>1. ASSUME B # {} PROVE FALSE
  <2>1. B \subseteq SUBSET S
    BY <1>0
  <2>2. PICK s \in B : \A u \in B : u \subseteq s => u = s
    BY <1>1, <2>1, LeastSet
  <2>3. PICK x \in s : SumFunctionOnSet(f, s) # f[x] + SumFunctionOnSet(f, s \ {x})
    BY <1>0, <2>2
  <2>4. IsFiniteSet(s)
    BY <1>0, <2>2, FS_Subset
  <2>5. PICK c : c = Chosen(s)
    OBVIOUS
  <2>6. c \in s
    BY <1>0, <2>3, <2>5 DEF Chosen
  <2>7. SumFunctionOnSet(f, s) = f[c] + SumFunctionOnSet(f, s \ {c})
    BY <1>0, <2>3, <2>4, <2>5, SumTakesOne
  <2>8. x # c
    BY <2>3, <2>7
  <2>9. PICK p, q, r : p = s \ {c} /\ q = s \ {x} /\ r = s \ {c, x}
    OBVIOUS
  <2>10. r = p \ {x} /\ r = q \ {c} /\ x \in p /\ c \in q /\ p \notin B /\ q \notin B
         /\ p \in SUBSET S /\ q \in SUBSET S /\ r \in SUBSET S
    BY <1>0, <2>2, <2>3, <2>6, <2>8, <2>9
  <2>11. SumFunctionOnSet(f, p) = f[x] + SumFunctionOnSet(f, r)
    BY <1>0, <2>10
  <2>12. SumFunctionOnSet(f, q) = f[c] + SumFunctionOnSet(f, r)
    BY <1>0, <2>10
  <2>13. SumFunctionOnSet(f, r) \in Int
    BY <2>10, FS_Subset, SumInt
  <2>14. f[x] \in Int /\ f[c] \in Int
    BY <1>0, <2>2, <2>3, <2>6
  <2> QED
    BY <2>3, <2>7, <2>9, <2>11, <2>12, <2>13, <2>14
<1>2. B = {}
  BY <1>1
<1> QED
  BY <1>0, <1>2

\* Functions that agree on a set have the same sum over it.
LEMMA SumSame ==
    ASSUME NEW S, IsFiniteSet(S), NEW f, NEW g, \A x \in S : f[x] = g[x] /\ f[x] \in Int
    PROVE  SumFunctionOnSet(f, S) = SumFunctionOnSet(g, S)
<1>0. PICK B : B = {s \in SUBSET S : SumFunctionOnSet(f, s) # SumFunctionOnSet(g, s)}
  OBVIOUS
<1>1. ASSUME B # {} PROVE FALSE
  <2>1. B \subseteq SUBSET S
    BY <1>0
  <2>2. PICK s \in B : \A u \in B : u \subseteq s => u = s
    BY <1>1, <2>1, LeastSet
  <2>3. s \in SUBSET S /\ SumFunctionOnSet(f, s) # SumFunctionOnSet(g, s)
    BY <1>0, <2>2
  <2>4. s # {} /\ IsFiniteSet(s)
    BY <2>3, SumOfNothing, FS_Subset
  <2>5. PICK c, r : c = Chosen(s) /\ r = s \ {c}
    OBVIOUS
  <2>6. c \in s
    BY <2>4, <2>5 DEF Chosen
  <2>7. r \in SUBSET S /\ r \notin B
    BY <2>2, <2>3, <2>5, <2>6
  <2>8. SumFunctionOnSet(f, r) = SumFunctionOnSet(g, r)
    BY <1>0, <2>7
  <2>9. SumFunctionOnSet(f, s) = f[c] + SumFunctionOnSet(f, r)
    BY <2>4, <2>5, SumTakesOne
  <2>10. SumFunctionOnSet(g, s) = g[c] + SumFunctionOnSet(g, r)
    BY <2>4, <2>5, SumTakesOne
  <2>11. f[c] = g[c]
    BY <2>3, <2>6
  <2> QED
    BY <2>3, <2>8, <2>9, <2>10, <2>11
<1>2. B = {}
  BY <1>1
<1> QED
  BY <1>0, <1>2

\* A sum of naturals is a natural.
LEMMA SumNat ==
    ASSUME NEW f, NEW S, IsFiniteSet(S), \A x \in S : f[x] \in Nat
    PROVE  SumFunctionOnSet(f, S) \in Nat
<1>0. PICK B : B = {s \in SUBSET S : SumFunctionOnSet(f, s) \notin Nat}
  OBVIOUS
<1>1. ASSUME B # {} PROVE FALSE
  <2>1. B \subseteq SUBSET S
    BY <1>0
  <2>2. PICK s \in B : \A u \in B : u \subseteq s => u = s
    BY <1>1, <2>1, LeastSet
  <2>3. s \in SUBSET S /\ SumFunctionOnSet(f, s) \notin Nat
    BY <1>0, <2>2
  <2>4. s # {} /\ IsFiniteSet(s)
    <3>1. SumFunctionOnSet(f, {}) \in Nat
      BY SumOfNothing
    <3> QED
      BY <2>3, <3>1, FS_Subset
  <2>5. PICK c, r : c = Chosen(s) /\ r = s \ {c}
    OBVIOUS
  <2>6. c \in s
    BY <2>4, <2>5 DEF Chosen
  <2>7. r \in SUBSET S /\ r \notin B
    BY <2>2, <2>3, <2>5, <2>6
  <2>8. SumFunctionOnSet(f, r) \in Nat
    BY <1>0, <2>7
  <2>9. SumFunctionOnSet(f, s) = f[c] + SumFunctionOnSet(f, r)
    BY <2>4, <2>5, SumTakesOne
  <2>10. f[c] \in Nat
    BY <2>3, <2>6
  <2> QED
    BY <2>3, <2>8, <2>9, <2>10
<1>2. B = {}
  BY <1>1
<1> QED
  BY <1>0, <1>2

\* A part of the sum is no more than the sum.
LEMMA SumOfPart ==
    ASSUME NEW f, NEW S, IsFiniteSet(S), \A x \in S : f[x] \in Nat, NEW T \in SUBSET S
    PROVE  SumFunctionOnSet(f, T) <= SumFunctionOnSet(f, S)
<1>0. PICK B : B = {s \in SUBSET S : T \subseteq s /\ SumFunctionOnSet(f, T) > SumFunctionOnSet(f, s)}
  OBVIOUS
<1>1. ASSUME B # {} PROVE FALSE
  <2>1. B \subseteq SUBSET S
    BY <1>0
  <2>2. PICK s \in B : \A u \in B : u \subseteq s => u = s
    BY <1>1, <2>1, LeastSet
  <2>3. s \in SUBSET S /\ T \subseteq s /\ SumFunctionOnSet(f, T) > SumFunctionOnSet(f, s)
    BY <1>0, <2>2
  <2>4. SumFunctionOnSet(f, T) \in Nat /\ IsFiniteSet(s) /\ \A x \in s : f[x] \in Nat
    BY <2>3, SumNat, FS_Subset
  <2>5. SumFunctionOnSet(f, s) \in Nat
    BY <2>4, SumNat
  <2>6. T # s
    BY <2>3, <2>4, <2>5
  <2>7. PICK c \in s : c \notin T
    BY <2>3, <2>6
  <2>8. PICK r : r = s \ {c}
    OBVIOUS
  <2>9. r \in SUBSET S /\ T \subseteq r /\ r \notin B
    BY <2>2, <2>3, <2>7, <2>8
  <2>10. SumFunctionOnSet(f, r) \in Nat /\ ~(SumFunctionOnSet(f, T) > SumFunctionOnSet(f, r))
    <3>1. IsFiniteSet(r) /\ \A x \in r : f[x] \in Nat
      BY <2>9, FS_Subset
    <3>2. SumFunctionOnSet(f, r) \in Nat
      BY <3>1, SumNat
    <3> QED
      BY <1>0, <2>9, <3>2
  <2>11. SumFunctionOnSet(f, s) = f[c] + SumFunctionOnSet(f, r)
    BY <2>4, <2>7, <2>8, SumWithout
  <2>12. f[c] \in Nat
    BY <2>4, <2>7
  <2> QED
    BY <2>3, <2>4, <2>5, <2>10, <2>11, <2>12
<1>2. S \notin B
  BY <1>1
<1>3. SumFunctionOnSet(f, T) \in Nat /\ SumFunctionOnSet(f, S) \in Nat
  BY SumNat, FS_Subset
<1> QED
  BY <1>0, <1>2, <1>3

\* A sum may be taken along a one-to-one map of the indices.
LEMMA SumAlong ==
    ASSUME NEW S, IsFiniteSet(S), NEW f, NEW g, NEW b,
           \A x \in S : f[x] \in Int /\ f[x] = g[b[x]],
           \A x, y \in S : b[x] = b[y] => x = y
    PROVE  SumFunctionOnSet(f, S) = SumFunctionOnSet(g, {b[x] : x \in S})
<1>0. PICK B : B = {s \in SUBSET S : SumFunctionOnSet(f, s) # SumFunctionOnSet(g, {b[x] : x \in s})}
  OBVIOUS
<1>1. ASSUME B # {} PROVE FALSE
  <2>1. B \subseteq SUBSET S
    BY <1>0
  <2>2. PICK s \in B : \A u \in B : u \subseteq s => u = s
    BY <1>1, <2>1, LeastSet
  <2>3. PICK i : i = {b[x] : x \in s}
    OBVIOUS
  <2>4. s \in SUBSET S /\ SumFunctionOnSet(f, s) # SumFunctionOnSet(g, i)
    BY <1>0, <2>2, <2>3
  <2>5. s # {}
    <3>1. s = {} => i = {}
      BY <2>3
    <3> QED
      BY <3>1, <2>4, SumOfNothing
  <2>6. PICK c \in s : TRUE
    BY <2>5
  <2>7. PICK r, j : r = s \ {c} /\ j = {b[x] : x \in r}
    OBVIOUS
  <2>8. r \in SUBSET S /\ r \notin B
    BY <2>2, <2>4, <2>6, <2>7
  <2>9. SumFunctionOnSet(f, r) = SumFunctionOnSet(g, j)
    BY <1>0, <2>7, <2>8
  <2>10. j = i \ {b[c]} /\ b[c] \in i
    BY <2>3, <2>4, <2>6, <2>7
  <2>11. IsFiniteSet(s)
    BY <2>4, FS_Subset
  <2>12. IsFiniteSet(i)
    <3>1. PICK m : m = [x \in s |-> b[x]]
      OBVIOUS
    <3>2. m \in Surjection(s, i)
      BY <2>3, <3>1 DEF Surjection
    <3> QED
      BY <2>11, <3>2, FS_Surjection
  <2>13. \A y \in i : g[y] \in Int
    BY <2>3, <2>4
  <2>14. SumFunctionOnSet(g, i) = g[b[c]] + SumFunctionOnSet(g, j)
    BY <2>10, <2>12, <2>13, SumWithout
  <2>15. SumFunctionOnSet(f, s) = f[c] + SumFunctionOnSet(f, r)
    BY <2>4, <2>6, <2>7, <2>11, SumWithout
  <2> QED
    BY <2>4, <2>6, <2>9, <2>14, <2>15
<1>2. S \notin B
  BY <1>1
<1> QED
  BY <1>0, <1>2

\* Indices whose value is zero add nothing.
LEMMA SumPadded ==
    ASSUME NEW f, NEW S, IsFiniteSet(S), NEW T \in SUBSET S, \A x \in S : f[x] \in Int, \A x \in S \ T : f[x] = 0
    PROVE  SumFunctionOnSet(f, S) = SumFunctionOnSet(f, T)
<1>0. PICK B : B = {s \in SUBSET S : T \subseteq s /\ SumFunctionOnSet(f, s) # SumFunctionOnSet(f, T)}
  OBVIOUS
<1>1. ASSUME B # {} PROVE FALSE
  <2>1. B \subseteq SUBSET S
    BY <1>0
  <2>2. PICK s \in B : \A u \in B : u \subseteq s => u = s
    BY <1>1, <2>1, LeastSet
  <2>3. s \in SUBSET S /\ T \subseteq s /\ SumFunctionOnSet(f, s) # SumFunctionOnSet(f, T)
    BY <1>0, <2>2
  <2>4. IsFiniteSet(s) /\ \A x \in s : f[x] \in Int
    BY <2>3, FS_Subset
  <2>5. T # s
    BY <2>3
  <2>6. PICK c \in s : c \notin T
    BY <2>3, <2>5
  <2>7. PICK r : r = s \ {c}
    OBVIOUS
  <2>8. r \in SUBSET S /\ T \subseteq r /\ r \notin B
    BY <2>2, <2>3, <2>6, <2>7
  <2>9. SumFunctionOnSet(f, r) = SumFunctionOnSet(f, T)
    BY <1>0, <2>8
  <2>10. SumFunctionOnSet(f, s) = f[c] + SumFunctionOnSet(f, r)
    BY <2>4, <2>6, <2>7, SumWithout
  <2>11. f[c] = 0
    BY <2>3, <2>6
  <2>12. IsFiniteSet(r) /\ \A x \in r : f[x] \in Int
    BY <2>8, FS_Subset
  <2>13. SumFunctionOnSet(f, r) \in Int
    BY <2>12, SumInt
  <2> QED
    BY <2>3, <2>9, <2>10, <2>11, <2>13
<1>2. S \notin B
  BY <1>1
<1> QED
  BY <1>0, <1>2

\* Summands that do not grow give a sum that does not grow.
LEMMA SumMonotone ==
    ASSUME NEW S, IsFiniteSet(S), NEW f, NEW g, \A x \in S : f[x] \in Int /\ g[x] \in Int /\ f[x] <= g[x]
    PROVE  SumFunctionOnSet(f, S) <= SumFunctionOnSet(g, S)
<1>0. PICK B : B = {s \in SUBSET S : ~(SumFunctionOnSet(f, s) <= SumFunctionOnSet(g, s))}
  OBVIOUS
<1>1. ASSUME B # {} PROVE FALSE
  <2>1. B \subseteq SUBSET S
    BY <1>0
  <2>2. PICK s \in B : \A u \in B : u \subseteq s => u = s
    BY <1>1, <2>1, LeastSet
  <2>3. s \in SUBSET S /\ ~(SumFunctionOnSet(f, s) <= SumFunctionOnSet(g, s))
    BY <1>0, <2>2
  <2>4. s # {} /\ IsFiniteSet(s)
    <3>1. SumFunctionOnSet(f, {}) <= SumFunctionOnSet(g, {})
      BY SumOfNothing
    <3> QED
      BY <2>3, <3>1, FS_Subset
  <2>5. PICK c, r : c = Chosen(s) /\ r = s \ {c}
    OBVIOUS
  <2>6. c \in s
    BY <2>4, <2>5 DEF Chosen
  <2>7. r \in SUBSET S /\ r \notin B
    BY <2>2, <2>3, <2>5, <2>6
  <2>8. SumFunctionOnSet(f, r) <= SumFunctionOnSet(g, r)
    BY <1>0, <2>7
  <2>9. SumFunctionOnSet(f, s) = f[c] + SumFunctionOnSet(f, r)
    BY <2>4, <2>5, SumTakesOne
  <2>10. SumFunctionOnSet(g, s) = g[c] + SumFunctionOnSet(g, r)
    BY <2>4, <2>5, SumTakesOne
  <2>11. f[c] \in Int /\ g[c] \in Int /\ f[c] <= g[c]
    BY <2>3, <2>6
  <2>12. IsFiniteSet(r) /\ \A x \in r : f[x] \in Int /\ g[x] \in Int
    BY <2>7, FS_Subset
  <2>13. SumFunctionOnSet(f, r) \in Int /\ SumFunctionOnSet(g, r) \in Int
    BY <2>12, SumInt
  <2> QED
    BY <2>3, <2>8, <2>9, <2>10, <2>11, <2>13
<1>2. B = {}
  BY <1>1
<1> QED
  BY <1>0, <1>2

\* One summand changes and the sum changes by as much.
LEMMA SumOneChange ==
    ASSUME NEW S, IsFiniteSet(S), NEW f, NEW g, NEW e \in S, \A x \in S : f[x] \in Int /\ g[x] \in Int,
           \A x \in S \ {e} : f[x] = g[x]
    PROVE  SumFunctionOnSet(g, S) = SumFunctionOnSet(f, S) + (g[e] - f[e])
<1>1. PICK r : r = S \ {e}
  OBVIOUS
<1>2. IsFiniteSet(r) /\ \A x \in r : f[x] = g[x] /\ f[x] \in Int
  BY <1>1, FS_Subset
<1>3. SumFunctionOnSet(f, r) = SumFunctionOnSet(g, r) /\ SumFunctionOnSet(f, r) \in Int
  BY <1>2, SumSame, SumInt
<1>4. SumFunctionOnSet(f, S) = f[e] + SumFunctionOnSet(f, r)
  BY <1>1, SumWithout
<1>5. SumFunctionOnSet(g, S) = g[e] + SumFunctionOnSet(g, r)
  BY <1>1, SumWithout
<1>6. f[e] \in Int /\ g[e] \in Int
  OBVIOUS
<1> QED
  BY <1>3, <1>4, <1>5, <1>6

\* The sum of all values of a function, seen as part of a larger one.
LEMMA SumFunctionPadded ==
    ASSUME NEW f, NEW S, IsFiniteSet(S), DOMAIN f \subseteq S, \A x \in DOMAIN f : f[x] \in Int,
           NEW g, \A x \in S : g[x] = IF x \in DOMAIN f THEN f[x] ELSE 0
    PROVE  SumFunction(f) = SumFunctionOnSet(g, S)
<1>1. PICK T : T = DOMAIN f
  OBVIOUS
<1>2. T \in SUBSET S /\ IsFiniteSet(T)
  BY <1>1, FS_Subset
<1>3. \A x \in T : f[x] = g[x] /\ f[x] \in Int
  BY <1>1
<1>4. SumFunctionOnSet(f, T) = SumFunctionOnSet(g, T)
  BY <1>2, <1>3, SumSame
<1>5. (\A x \in S : g[x] \in Int) /\ \A x \in S \ T : g[x] = 0
  BY <1>1
<1>6. SumFunctionOnSet(g, S) = SumFunctionOnSet(g, T)
  BY <1>2, <1>5, SumPadded
<1> QED
  BY <1>1, <1>4, <1>6 DEF SumFunction

=============================================================================
