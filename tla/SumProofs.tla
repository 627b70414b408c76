----------------------------- MODULE SumProofs -----------------------------
(***************************************************************************)
(* Facts about sums over finite sets, for every summand and every set.     *)
(* Each is proved by its least counterexample: of the subsets for which it *)
(* fails one would be minimal, and taking one element from it would leave  *)
(* a set for which it holds.                                               *)
(***************************************************************************)
EXTENDS Sums, FiniteSetTheorems, WellFoundedInduction, TLAPS

(* Of any subsets of a finite set one is minimal. *)
LEMMA MinimalSubset ==
  ASSUME NEW S, IsFiniteSet(S), NEW T, T \subseteq SUBSET S, T # {}
  PROVE  \E s \in T : \A u \in T : u \subseteq s => u = s
<1>1. IsWellFoundedOn(StrictSubsetOrdering(S), SUBSET S)
  BY FS_StrictSubsetOrderingWellFounded, FS_FiniteSubsetsOfFinite
<1>2. PICK s \in T : \A u \in T : ~(<<u, s>> \in StrictSubsetOrdering(S))
  BY <1>1, WFMin
<1>3. \A u \in T : u \subseteq s => u = s
  BY <1>2 DEF StrictSubsetOrdering
<1>4. QED
  BY <1>3

(* The element taken first from a set. *)
Pick(s) == CHOOSE x \in s : TRUE

LEMMA PickIn == ASSUME NEW s, s # {} PROVE Pick(s) \in s
BY DEF Pick

(* f gives the sum of e over every subset of S. *)
IsSum(f, e, S) ==
  f = [s \in SUBSET S |-> IF s = {} THEN 0 ELSE e[Pick(s)] + f[s \ {Pick(s)}]]

LEMMA TotalChosen ==
  ASSUME NEW e, NEW S
  PROVE  Total(e, S) = (CHOOSE f : IsSum(f, e, S))[S]
BY DEF Total, MapThenSumSet, MapThenFoldSet, IsSum, Pick

LEMMA SumAt ==
  ASSUME NEW f, NEW e, NEW S, IsSum(f, e, S), NEW s \in SUBSET S
  PROVE  /\ s = {} => f[s] = 0
         /\ s # {} => f[s] = e[Pick(s)] + f[s \ {Pick(s)}]
BY DEF IsSum

LEMMA SumUnique ==
  ASSUME NEW S, IsFiniteSet(S), NEW e, NEW f, NEW g, IsSum(f, e, S), IsSum(g, e, S)
  PROVE  f = g
<1> DEFINE T == {s \in SUBSET S : f[s] # g[s]}
<1>0. T \subseteq SUBSET S
  OBVIOUS
<1>1. ASSUME T # {} PROVE FALSE
  <2>1. PICK s \in T : \A u \in T : u \subseteq s => u = s
    <3> HIDE DEF T
    <3>1. QED
      BY <1>0, <1>1, MinimalSubset
  <2>2. s # {}
    BY SumAt
  <2>3. Pick(s) \in s
    BY <2>2, PickIn
  <2>4. s \ {Pick(s)} \notin T
    BY <2>1, <2>3
  <2>5. f[s \ {Pick(s)}] = g[s \ {Pick(s)}]
    BY <2>4
  <2>6. f[s] = g[s]
    BY <2>2, <2>5, SumAt
  <2>7. QED
    BY <2>6
<1>2. \A s \in SUBSET S : f[s] = g[s]
  BY <1>1
<1>3. f = [s \in SUBSET S |-> f[s]] /\ g = [s \in SUBSET S |-> g[s]]
  BY DEF IsSum
<1>4. QED
  BY <1>2, <1>3

LEMMA SumRestricted ==
  ASSUME NEW S, NEW e, NEW f, IsSum(f, e, S), NEW U \in SUBSET S
  PROVE  IsSum([s \in SUBSET U |-> f[s]], e, U)
<1> DEFINE g == [s \in SUBSET U |-> f[s]]
<1>1. ASSUME NEW s \in SUBSET U
      PROVE  g[s] = IF s = {} THEN 0 ELSE e[Pick(s)] + g[s \ {Pick(s)}]
  <2>1. s \ {Pick(s)} \in SUBSET U
    OBVIOUS
  <2>2. g[s] = f[s] /\ g[s \ {Pick(s)}] = f[s \ {Pick(s)}]
    BY <2>1
  <2>3. QED
    BY <2>2, SumAt
<1>2. g = [s \in SUBSET U |-> IF s = {} THEN 0 ELSE e[Pick(s)] + g[s \ {Pick(s)}]]
  BY <1>1
<1>3. QED
  BY <1>2 DEF IsSum

(* The recursion defines a function on the subsets of a finite set. *)
LEMMA SumExists ==
  ASSUME NEW S, IsFiniteSet(S), NEW e
  PROVE  \E f : IsSum(f, e, S)
<1> DEFINE T == {s \in SUBSET S : ~ \E f : IsSum(f, e, s)}
           F(u) == CHOOSE f : IsSum(f, e, u)
           V(u) == F(u)[u]
<1>0. T \subseteq SUBSET S
  OBVIOUS
<1>1. ASSUME T # {} PROVE FALSE
  <2>1. PICK s \in T : \A u \in T : u \subseteq s => u = s
    <3> HIDE DEF T
    <3>1. QED
      BY <1>0, <1>1, MinimalSubset
  <2>2. ASSUME NEW u \in SUBSET s, u # s
        PROVE  IsSum(F(u), e, u)
    <3>1. u \notin T /\ u \in SUBSET S
      BY <2>1, <2>2
    <3>2. \E f : IsSum(f, e, u)
      BY <3>1
    <3>3. QED
      BY <3>2
  <2>3. ASSUME NEW u \in SUBSET s, u # s
        PROVE  V(u) = IF u = {} THEN 0 ELSE e[Pick(u)] + V(u \ {Pick(u)})
    <3>1. IsSum(F(u), e, u)
      BY <2>2, <2>3
    <3>2. CASE u = {}
      BY <3>1, <3>2, SumAt
    <3>3. CASE u # {}
      <4> DEFINE v == u \ {Pick(u)}
      <4>1. Pick(u) \in u /\ v \in SUBSET u /\ v \in SUBSET s /\ v # s
        BY <3>3, PickIn
      <4>2. F(u)[u] = e[Pick(u)] + F(u)[v]
        BY <3>1, <3>3, SumAt
      <4>3. IsSum([w \in SUBSET v |-> F(u)[w]], e, v)
        BY <3>1, <4>1, SumRestricted
      <4>4. IsSum(F(v), e, v)
        BY <2>2, <4>1
      <4>5. IsFiniteSet(v)
        <5>1. v \subseteq S
          BY <4>1
        <5>2. QED
          BY <5>1, FS_Subset
      <4> HIDE DEF v, F
      <4>6. F(v) = [w \in SUBSET v |-> F(u)[w]]
        BY <4>3, <4>4, <4>5, SumUnique
      <4>7. F(v)[v] = F(u)[v]
        BY <4>6
      <4>8. QED
        BY <3>3, <4>2, <4>7 DEF v
    <3>4. QED
      BY <3>2, <3>3
  <2> DEFINE f == [u \in SUBSET s |-> IF u = {} THEN 0 ELSE e[Pick(u)] + V(u \ {Pick(u)})]
  <2> HIDE DEF V, F
  <2>4. ASSUME NEW u \in SUBSET s, u # s PROVE f[u] = V(u)
    BY <2>3, <2>4
  <2>5. ASSUME NEW u \in SUBSET s
        PROVE  f[u] = IF u = {} THEN 0 ELSE e[Pick(u)] + f[u \ {Pick(u)}]
    <3>1. CASE u = {}
      BY <3>1
    <3>2. CASE u # {}
      <4>1. Pick(u) \in u
        BY <3>2, PickIn
      <4>2. u \ {Pick(u)} \in SUBSET s /\ u \ {Pick(u)} # s
        BY <4>1
      <4>3. f[u \ {Pick(u)}] = V(u \ {Pick(u)})
        BY <2>4, <4>2
      <4>4. f[u] = e[Pick(u)] + V(u \ {Pick(u)})
        BY <3>2
      <4>5. QED
        BY <3>2, <4>3, <4>4
    <3>3. QED
      BY <3>1, <3>2
  <2>6. f = [u \in SUBSET s |-> IF u = {} THEN 0 ELSE e[Pick(u)] + f[u \ {Pick(u)}]]
    BY <2>5
  <2>7. IsSum(f, e, s)
    BY <2>6 DEF IsSum
  <2>8. QED
    BY <2>7
<1>2. S \in SUBSET S
  OBVIOUS
<1>3. QED
  BY <1>1, <1>2

-----------------------------------------------------------------------------
LEMMA TotalFrom ==
  ASSUME NEW S, IsFiniteSet(S), NEW e
  PROVE  /\ S = {} => Total(e, S) = 0
         /\ S # {} => Total(e, S) = e[Pick(S)] + Total(e, S \ {Pick(S)})
<1> DEFINE F(u) == CHOOSE f : IsSum(f, e, u)
<1>1. Total(e, S) = F(S)[S] /\ IsSum(F(S), e, S)
  BY TotalChosen, SumExists
<1>2. CASE S = {}
  BY <1>1, <1>2, SumAt
<1>3. CASE S # {}
  <2> DEFINE R == S \ {Pick(S)}
  <2>1. R \in SUBSET S /\ IsFiniteSet(R)
    BY FS_Subset
  <2>2. Total(e, R) = F(R)[R] /\ IsSum(F(R), e, R)
    BY <2>1, TotalChosen, SumExists
  <2>3. F(S)[S] = e[Pick(S)] + F(S)[R]
    BY <1>1, <1>3, SumAt
  <2>4. IsSum([w \in SUBSET R |-> F(S)[w]], e, R)
    BY <1>1, <2>1, SumRestricted
  <2> HIDE DEF F, R
  <2>5. F(R) = [w \in SUBSET R |-> F(S)[w]]
    BY <2>1, <2>2, <2>4, SumUnique
  <2>6. F(R)[R] = F(S)[R]
    BY <2>5
  <2>7. QED
    BY <1>1, <1>3, <2>2, <2>3, <2>6 DEF R
<1>4. QED
  BY <1>2, <1>3

(* The sum over no element is 0. *)
LEMMA TotalEmpty == ASSUME NEW e PROVE Total(e, {}) = 0
BY TotalFrom, FS_EmptySet

LEMMA TotalType ==
  ASSUME NEW S, IsFiniteSet(S), NEW e, \A x \in S : e[x] \in Int
  PROVE  Total(e, S) \in Int
<1> DEFINE T == {s \in SUBSET S : Total(e, s) \notin Int}
<1>0. T \subseteq SUBSET S
  OBVIOUS
<1>1. ASSUME T # {} PROVE FALSE
  <2>1. PICK s \in T : \A u \in T : u \subseteq s => u = s
    <3> HIDE DEF T
    <3>1. QED
      BY <1>0, <1>1, MinimalSubset
  <2>2. IsFiniteSet(s)
    BY FS_Subset
  <2>3. s # {}
    <3>1. Total(e, s) \notin Int
      BY <2>1
    <3>2. QED
      BY <3>1, TotalEmpty
  <2>4. Pick(s) \in s
    BY <2>3, PickIn
  <2>5. Total(e, s \ {Pick(s)}) \in Int /\ e[Pick(s)] \in Int
    BY <2>1, <2>4
  <2>6. Total(e, s) = e[Pick(s)] + Total(e, s \ {Pick(s)})
    BY <2>2, <2>3, TotalFrom
  <2>7. QED
    BY <2>5, <2>6
<1>2. QED
  BY <1>1

(* Whichever element is taken first, the sum is the same. *)
LEMMA TotalRemove ==
  ASSUME NEW S, IsFiniteSet(S), NEW e, \A x \in S : e[x] \in Int, NEW x \in S
  PROVE  Total(e, S) = e[x] + Total(e, S \ {x})
<1> DEFINE T == {s \in SUBSET S : \E y \in s : Total(e, s) # e[y] + Total(e, s \ {y})}
<1>0. T \subseteq SUBSET S
  OBVIOUS
<1>1. ASSUME T # {} PROVE FALSE
  <2>1. PICK s \in T : \A u \in T : u \subseteq s => u = s
    <3> HIDE DEF T
    <3>1. QED
      BY <1>0, <1>1, MinimalSubset
  <2>2. PICK y \in s : Total(e, s) # e[y] + Total(e, s \ {y})
    BY <2>1
  <2>3. PICK p : p = Pick(s)
    OBVIOUS
  <2>4. p \in s /\ IsFiniteSet(s)
    BY <2>2, <2>3, PickIn, FS_Subset
  <2>5. Total(e, s) = e[p] + Total(e, s \ {p})
    BY <2>2, <2>3, <2>4, TotalFrom
  <2>6. y # p
    BY <2>2, <2>5
  <2>7. s \ {p} \notin T /\ s \ {y} \notin T
    BY <2>1, <2>4
  <2>8. y \in s \ {p} /\ p \in s \ {y} /\ (s \ {p}) \ {y} = (s \ {y}) \ {p}
    BY <2>4, <2>6
  <2>9. /\ Total(e, s \ {p}) = e[y] + Total(e, (s \ {p}) \ {y})
        /\ Total(e, s \ {y}) = e[p] + Total(e, (s \ {p}) \ {y})
    BY <2>7, <2>8
  <2>10. e[y] \in Int /\ e[p] \in Int
    BY <2>4
  <2>11. Total(e, (s \ {p}) \ {y}) \in Int
    <3>1. (s \ {p}) \ {y} \subseteq S
      OBVIOUS
    <3>2. IsFiniteSet((s \ {p}) \ {y})
      BY <3>1, FS_Subset
    <3>3. QED
      BY <3>1, <3>2, TotalType
  <2>12. QED
    BY <2>2, <2>5, <2>9, <2>10, <2>11
<1>2. S \in SUBSET S
  OBVIOUS
<1>3. QED
  BY <1>1, <1>2

(* Equal summands, equal sums. *)
LEMMA TotalEqual ==
  ASSUME NEW S, IsFiniteSet(S), NEW d, NEW e, \A x \in S : d[x] = e[x]
  PROVE  Total(d, S) = Total(e, S)
<1> DEFINE T == {s \in SUBSET S : Total(d, s) # Total(e, s)}
<1>0. T \subseteq SUBSET S
  OBVIOUS
<1>1. ASSUME T # {} PROVE FALSE
  <2>1. PICK s \in T : \A u \in T : u \subseteq s => u = s
    <3> HIDE DEF T
    <3>1. QED
      BY <1>0, <1>1, MinimalSubset
  <2>2. IsFiniteSet(s)
    BY FS_Subset
  <2>3. s # {}
    BY <2>1, TotalEmpty
  <2>4. Pick(s) \in s
    BY <2>3, PickIn
  <2>5. Total(d, s \ {Pick(s)}) = Total(e, s \ {Pick(s)}) /\ d[Pick(s)] = e[Pick(s)]
    BY <2>1, <2>4
  <2>6. QED
    BY <2>2, <2>3, <2>5, TotalFrom
<1>2. QED
  BY <1>1

(* A sum of zeros is 0. *)
LEMMA TotalZero ==
  ASSUME NEW S, IsFiniteSet(S), NEW e, \A x \in S : e[x] = 0
  PROVE  Total(e, S) = 0
<1> DEFINE T == {s \in SUBSET S : Total(e, s) # 0}
<1>0. T \subseteq SUBSET S
  OBVIOUS
<1>1. ASSUME T # {} PROVE FALSE
  <2>1. PICK s \in T : \A u \in T : u \subseteq s => u = s
    <3> HIDE DEF T
    <3>1. QED
      BY <1>0, <1>1, MinimalSubset
  <2>2. IsFiniteSet(s)
    BY FS_Subset
  <2>3. s # {}
    BY <2>1, TotalEmpty
  <2>4. Pick(s) \in s
    BY <2>3, PickIn
  <2>5. Total(e, s \ {Pick(s)}) = 0 /\ e[Pick(s)] = 0
    BY <2>1, <2>4
  <2>6. QED
    BY <2>2, <2>3, <2>5, TotalFrom
<1>2. QED
  BY <1>1

(* One summand changes by n, the sum changes by n. *)
LEMMA TotalChange ==
  ASSUME NEW S, IsFiniteSet(S), NEW d, NEW e, NEW t \in S,
         \A x \in S : d[x] \in Int /\ e[x] \in Int,
         \A x \in S \ {t} : d[x] = e[x]
  PROVE  Total(d, S) = Total(e, S) + (d[t] - e[t])
<1>1. IsFiniteSet(S \ {t})
  BY FS_Subset
<1>2. Total(d, S \ {t}) = Total(e, S \ {t})
  BY <1>1, TotalEqual
<1>3. Total(d, S) = d[t] + Total(d, S \ {t}) /\ Total(e, S) = e[t] + Total(e, S \ {t})
  BY TotalRemove
<1>4. Total(e, S \ {t}) \in Int
  BY <1>1, TotalType
<1>5. QED
  BY <1>2, <1>3, <1>4

(* Summands that are 0 may be left out. *)
LEMMA TotalExtend ==
  ASSUME NEW S, IsFiniteSet(S), NEW e, \A x \in S : e[x] \in Int,
         NEW R \in SUBSET S, \A x \in S \ R : e[x] = 0
  PROVE  Total(e, R) = Total(e, S)
<1> DEFINE T == {s \in SUBSET S : R \subseteq s /\ Total(e, s) # Total(e, R)}
<1>0. T \subseteq SUBSET S
  OBVIOUS
<1>1. ASSUME T # {} PROVE FALSE
  <2>1. PICK s \in T : \A u \in T : u \subseteq s => u = s
    <3> HIDE DEF T
    <3>1. QED
      BY <1>0, <1>1, MinimalSubset
  <2>2. s # R
    BY <2>1
  <2>3. PICK x \in s : x \notin R
    BY <2>1, <2>2
  <2>4. R \subseteq s \ {x} /\ s \ {x} \notin T
    BY <2>1, <2>3
  <2>5. Total(e, s \ {x}) = Total(e, R)
    BY <2>4
  <2>6. e[x] = 0 /\ IsFiniteSet(s) /\ IsFiniteSet(R)
    BY <2>3, FS_Subset
  <2>7. Total(e, s) = e[x] + Total(e, s \ {x})
    BY <2>6, TotalRemove
  <2>8. Total(e, R) \in Int
    BY <2>6, TotalType
  <2>9. QED
    BY <2>5, <2>6, <2>7, <2>8
<1>2. S \in SUBSET S /\ R \subseteq S
  OBVIOUS
<1>3. QED
  BY <1>1, <1>2

(* The sum of sums. *)
LEMMA TotalPlus ==
  ASSUME NEW S, IsFiniteSet(S), NEW c, NEW d, NEW e,
         \A x \in S : d[x] \in Int /\ e[x] \in Int /\ c[x] = d[x] + e[x]
  PROVE  Total(c, S) = Total(d, S) + Total(e, S)
<1> DEFINE T == {s \in SUBSET S : Total(c, s) # Total(d, s) + Total(e, s)}
<1>0. T \subseteq SUBSET S
  OBVIOUS
<1>1. ASSUME T # {} PROVE FALSE
  <2>1. PICK s \in T : \A u \in T : u \subseteq s => u = s
    <3> HIDE DEF T
    <3>1. QED
      BY <1>0, <1>1, MinimalSubset
  <2>2. IsFiniteSet(s)
    BY FS_Subset
  <2>3. s # {}
    <3>1. Total(c, s) # Total(d, s) + Total(e, s)
      BY <2>1
    <3>2. Total(c, {}) = 0 /\ Total(d, {}) = 0 /\ Total(e, {}) = 0
      BY TotalEmpty
    <3>3. Total(c, {}) = Total(d, {}) + Total(e, {})
      BY <3>2
    <3>4. QED
      BY <3>1, <3>3
  <2>4. PICK p : p = Pick(s) /\ p \in s
    BY <2>3, PickIn
  <2>5. Total(c, s \ {p}) = Total(d, s \ {p}) + Total(e, s \ {p})
    BY <2>1, <2>4
  <2>6. /\ Total(c, s) = c[p] + Total(c, s \ {p})
        /\ Total(d, s) = d[p] + Total(d, s \ {p})
        /\ Total(e, s) = e[p] + Total(e, s \ {p})
    BY <2>2, <2>3, <2>4, TotalFrom
  <2>7. Total(d, s \ {p}) \in Int /\ Total(e, s \ {p}) \in Int
    <3>1. IsFiniteSet(s \ {p}) /\ \A x \in s \ {p} : d[x] \in Int /\ e[x] \in Int
      BY <2>2, FS_Subset
    <3>2. QED
      BY <3>1, TotalType
  <2>8. d[p] \in Int /\ e[p] \in Int /\ c[p] = d[p] + e[p]
    BY <2>4
  <2>9. QED
    BY <2>1, <2>5, <2>6, <2>7, <2>8
<1>2. QED
  BY <1>1

(* A sum in two parts. *)
LEMMA TotalSplit ==
  ASSUME NEW S, IsFiniteSet(S), NEW e, \A x \in S : e[x] \in Int, NEW R \in SUBSET S
  PROVE  /\ Total(e, S) = Total(e, R) + Total(e, S \ R)
         /\ Total(e, R) \in Int /\ Total(e, S \ R) \in Int
<1> DEFINE a == [x \in S |-> IF x \in R THEN e[x] ELSE 0]
           b == [x \in S |-> IF x \in R THEN 0 ELSE e[x]]
<1>1. IsFiniteSet(R) /\ IsFiniteSet(S \ R)
  BY FS_Subset
<1>2. \A x \in S : a[x] \in Int /\ b[x] \in Int /\ e[x] = a[x] + b[x]
  OBVIOUS
<1>3. /\ \A x \in S \ R : a[x] = 0 /\ b[x] = e[x]
      /\ \A x \in S \ (S \ R) : b[x] = 0
      /\ \A x \in R : a[x] = e[x]
  OBVIOUS
<1>4. S \ R \in SUBSET S
  OBVIOUS
<1> HIDE DEF a, b
<1>5. Total(e, S) = Total(a, S) + Total(b, S)
  BY <1>2, TotalPlus
<1>6. Total(a, S) = Total(a, R) /\ Total(a, R) = Total(e, R)
  BY <1>1, <1>2, <1>3, TotalExtend, TotalEqual
<1>7. Total(b, S) = Total(b, S \ R)
  BY <1>2, <1>3, <1>4, TotalExtend
<1>8. Total(b, S \ R) = Total(e, S \ R)
  BY <1>1, <1>3, TotalEqual
<1>9. Total(e, R) \in Int /\ Total(e, S \ R) \in Int
  BY <1>1, TotalType
<1>10. QED
  BY <1>5, <1>6, <1>7, <1>8, <1>9

(* A sum with one summand that counts. *)
LEMMA TotalSingle ==
  ASSUME NEW S, IsFiniteSet(S), NEW e, NEW t \in S, e[t] \in Int, \A x \in S \ {t} : e[x] = 0
  PROVE  Total(e, S) = e[t]
<1>1. IsFiniteSet(S \ {t}) /\ \A x \in S : e[x] \in Int
  BY FS_Subset
<1>2. Total(e, S) = e[t] + Total(e, S \ {t})
  BY <1>1, TotalRemove
<1>3. Total(e, S \ {t}) = 0
  BY <1>1, TotalZero
<1>4. QED
  BY <1>2, <1>3

(* A table of numbers and the transposed one, the sums of the rows of a     *)
(* table, and those of the elements of each class.                          *)
Transposed(f, e, A, B) == \A a \in A : \A b \in B : e[a][b] \in Int /\ f[b][a] = e[a][b]
RowTotals(r, e, A, B) == \A a \in A : r[a] = Total(e[a], B)
ClassTotals(r, e, class, C, S) == \A k \in C : r[k] = Total(e, {x \in S : class[x] = k})

(* Rows first or columns first. *)
LEMMA TotalExchange ==
  ASSUME NEW A, IsFiniteSet(A), NEW B, IsFiniteSet(B), NEW e, NEW f, NEW r, NEW c,
         Transposed(f, e, A, B), RowTotals(r, e, A, B), RowTotals(c, f, B, A)
  PROVE  Total(r, A) = Total(c, B)
<1> USE DEF Transposed, RowTotals
<1> DEFINE Column(s) == [b \in B |-> Total(f[b], s)]
           T == {s \in SUBSET A : Total(r, s) # Total(Column(s), B)}
<1>0. T \subseteq SUBSET A
  OBVIOUS
<1>1. ASSUME T # {} PROVE FALSE
  <2>1. PICK s \in T : \A u \in T : u \subseteq s => u = s
    <3> HIDE DEF T
    <3>1. QED
      BY <1>0, <1>1, MinimalSubset
  <2>2. s \in SUBSET A /\ IsFiniteSet(s) /\ Total(r, s) # Total(Column(s), B)
    BY <2>1, FS_Subset
  <2>3. s # {}
    <3>1. \A b \in B : Column({})[b] = 0
      BY TotalEmpty
    <3> HIDE DEF Column
    <3>2. Total(Column({}), B) = 0 /\ Total(r, {}) = 0
      BY <3>1, TotalZero, TotalEmpty
    <3>3. QED
      BY <2>2, <3>2
  <2>4. PICK p : p \in s
    BY <2>3
  <2>5. PICK u : u = s \ {p}
    OBVIOUS
  <2>6. u \in SUBSET A /\ u \notin T /\ IsFiniteSet(u) /\ p \in A
    BY <2>1, <2>2, <2>4, <2>5, FS_Subset
  <2>7. Total(r, u) = Total(Column(u), B)
    BY <2>6
  <2>8. ASSUME NEW b \in B
        PROVE  /\ e[p][b] \in Int /\ Column(u)[b] \in Int
               /\ Column(s)[b] = e[p][b] + Column(u)[b]
    <3>1. \A a \in s : f[b][a] \in Int
      BY <2>2
    <3>2. Total(f[b], s) = f[b][p] + Total(f[b], u)
      BY <2>2, <2>4, <2>5, <3>1, TotalRemove
    <3>3. Total(f[b], u) \in Int
      BY <2>5, <2>6, <3>1, TotalType
    <3>4. f[b][p] = e[p][b] /\ e[p][b] \in Int
      BY <2>6
    <3>5. QED
      BY <3>2, <3>3, <3>4
  <2>9. \A a \in s : r[a] \in Int
    <3>1. ASSUME NEW a \in s PROVE r[a] \in Int
      <4>1. r[a] = Total(e[a], B) /\ \A b \in B : e[a][b] \in Int
        BY <2>2
      <4>2. QED
        BY <4>1, TotalType
    <3>2. QED
      BY <3>1
  <2> HIDE DEF Column, T
  <2>10. Total(r, s) = r[p] + Total(r, u)
    <3>1. IsFiniteSet(s)
      BY <2>2
    <3>2. Total(r, s) = r[p] + Total(r, s \ {p})
      BY ONLY <2>4, <2>9, <3>1, TotalRemove
    <3>3. QED
      BY <2>5, <3>2
  <2>11. Total(Column(s), B) = Total(e[p], B) + Total(Column(u), B)
    BY <2>8, TotalPlus
  <2>12. r[p] = Total(e[p], B)
    BY <2>6
  <2>13. QED
    BY <2>2, <2>7, <2>10, <2>11, <2>12
<1>2. A \in SUBSET A
  OBVIOUS
<1>3. Total(r, A) = Total(Column(A), B)
  BY <1>1, <1>2
<1>4. \A b \in B : Column(A)[b] = c[b]
  OBVIOUS
<1> HIDE DEF Column
<1>5. QED
  BY <1>3, <1>4, TotalEqual

(* A sum by classes. *)
LEMMA TotalByClass ==
  ASSUME NEW S, IsFiniteSet(S), NEW C, IsFiniteSet(C), NEW e, NEW class, NEW r,
         \A x \in S : e[x] \in Int /\ class[x] \in C,
         ClassTotals(r, e, class, C, S)
  PROVE  Total(r, C) = Total(e, S)
<1> USE DEF ClassTotals
<1> DEFINE f == [k \in C |-> [x \in S |-> IF class[x] = k THEN e[x] ELSE 0]]
           g == [x \in S |-> [k \in C |-> IF class[x] = k THEN e[x] ELSE 0]]
<1>1. \A k \in C : \A x \in S : f[k][x] \in Int /\ g[x][k] = f[k][x]
  OBVIOUS
<1>2. ASSUME NEW k \in C PROVE r[k] = Total(f[k], S)
  <2> DEFINE R == {x \in S : class[x] = k}
  <2>1. R \in SUBSET S /\ IsFiniteSet(R)
    BY FS_Subset
  <2>2. /\ \A x \in S : f[k][x] \in Int
        /\ \A x \in S \ R : f[k][x] = 0
        /\ \A x \in R : f[k][x] = e[x]
    OBVIOUS
  <2>3. r[k] = Total(e, R)
    OBVIOUS
  <2> HIDE DEF f, R
  <2>4. Total(f[k], R) = Total(f[k], S)
    BY <2>1, <2>2, TotalExtend
  <2>5. Total(f[k], R) = Total(e, R)
    BY <2>1, <2>2, TotalEqual
  <2>6. QED
    BY <2>3, <2>4, <2>5
<1>3. ASSUME NEW x \in S PROVE e[x] = Total(g[x], C)
  <2>1. PICK t \in C : t = class[x]
    OBVIOUS
  <2>2. g[x][t] = e[x] /\ e[x] \in Int /\ \A k \in C \ {t} : g[x][k] = 0
    BY <2>1
  <2> HIDE DEF g
  <2>3. QED
    BY <2>1, <2>2, TotalSingle
<1> HIDE DEF f, g
<1>4. QED
  <2>1. Transposed(g, f, C, S) /\ RowTotals(r, f, C, S) /\ RowTotals(e, g, S, C)
    BY <1>1, <1>2, <1>3 DEF Transposed, RowTotals
  <2>2. QED
    BY <2>1, TotalExchange
=============================================================================
