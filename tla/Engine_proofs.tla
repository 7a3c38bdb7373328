---------------------------- MODULE Engine_proofs ----------------------------
(***************************************************************************)
(* Proofs about the accounts of the engine, for any event loops, keys,     *)
(* writes, ceiling and width of the counters.                              *)
(*                                                                         *)
(* The library's induction theorems take a predicate; here induction is by *)
(* a minimal counterexample in a set of counterexamples.                   *)
(***************************************************************************)
EXTENDS Engine, FiniteSetTheorems, WellFoundedInduction, TLAPS

-------------------------------------------------------------------------------
(* Remainders *)

(* A multiple of m that is nearer to 0 than m is 0.                        *)
LEMMA SmallMultiple ==
  ASSUME NEW m \in Nat \ {0}, NEW k \in Int, m * k < m, -m < m * k
  PROVE  k = 0
<1>1. CASE k >= 1
  <2>1. m * k >= m * 1
    BY <1>1
  <2>2. QED
    BY <2>1
<1>2. CASE k <= -1
  <2>1. m * k <= m * (-1)
    BY <1>2
  <2>2. QED
    BY <2>1
<1>3. QED
  BY <1>1, <1>2

(* Quotient and remainder.                                                 *)
LEMMA Division ==
  ASSUME NEW m \in Nat \ {0}, NEW x \in Int
  PROVE  \E r \in 0 .. m - 1, q \in Int : r = x % m /\ x - r = m * q
<1>1. PICK q \in Int, r \in Int : q = x \div m /\ r = x % m
  OBVIOUS
<1>2. x - r = m * q
  BY <1>1
<1>3. x % m \in 0 .. m - 1
  OBVIOUS
<1>4. QED
  BY <1>1, <1>2, <1>3, Zenon

(* Remainders are unique.                                                  *)
LEMMA RemainderUnique ==
  ASSUME NEW m \in Nat \ {0}, NEW x \in Int, NEW y \in Int, NEW k \in Int, x = y + m * k
  PROVE  x % m = y % m
<1>1. PICK r \in 0 .. m - 1, p \in Int : r = x % m /\ x - r = m * p
  BY Division, Zenon
<1>2. PICK s \in 0 .. m - 1, q \in Int : s = y % m /\ y - s = m * q
  BY Division, Zenon
<1>3. PICK a \in Int, b \in Int, c \in Int : a = m * p /\ b = m * q /\ c = m * k
  OBVIOUS
<1>4. s - r = m * (p - q - k)
  <2>1. x - r = a /\ y - s = b /\ x = y + c
    BY <1>1, <1>2, <1>3, Zenon
  <2>2. s - r = a - b - c
    BY <2>1
  <2>3. m * (p - q - k) = a - b - c
    BY <1>3
  <2>4. QED
    BY <2>2, <2>3, Zenon
<1>5. p - q - k = 0
  <2>1. PICK j \in Int : j = p - q - k
    OBVIOUS
  <2>2. m * j < m /\ -m < m * j
    BY <1>4, <2>1
  <2>3. QED
    BY <2>1, <2>2, SmallMultiple
<1>6. s - r = 0
  BY <1>4, <1>5
<1>7. QED
  BY <1>1, <1>2, <1>6

(* A number is its remainder plus a multiple.                              *)
LEMMA RemainderSum ==
  ASSUME NEW m \in Nat \ {0}, NEW x \in Int, NEW d \in Int
  PROVE  ((x % m) + d) % m = (x + d) % m
<1>1. PICK r \in 0 .. m - 1, q \in Int : r = x % m /\ x - r = m * q
  BY Division, Zenon
<1>2. m * q \in Int /\ r \in Int /\ x + d \in Int /\ r + d \in Int
  OBVIOUS
<1>3. x + d = (r + d) + m * q
  BY <1>1, <1>2
<1>4. (x + d) % m = (r + d) % m
  BY <1>2, <1>3, RemainderUnique, Zenon
<1>5. QED
  BY <1>1, <1>4

Congruent(x, y, m) == x % m = y % m

(* Equal remainders stay equal when the same is added.                     *)
LEMMA RemainderShift ==
  ASSUME NEW m \in Nat \ {0}, NEW x \in Int, NEW y \in Int, NEW d \in Int, Congruent(x, y, m)
  PROVE  Congruent(x + d, y + d, m)
<1>1. ((x % m) + d) % m = (x + d) % m /\ ((y % m) + d) % m = (y + d) % m
  BY RemainderSum, Zenon
<1>2. QED
  BY <1>1, Zenon DEF Congruent

-------------------------------------------------------------------------------
(* Sums over finite sets *)

(* Induction over the naturals, for a set.                                 *)
LEMMA NatSetInduction ==
  ASSUME NEW T \in SUBSET Nat, 0 \in T, \A n \in T : n + 1 \in T
  PROVE  T = Nat
<1>1. SUFFICES ASSUME Nat \ T # {} PROVE FALSE
  BY Zenon
<1>2. PICK n \in Nat \ T : \A m \in Nat \ T : ~ (<<m, n>> \in OpToRel(<, Nat))
  BY <1>1, WFMin, NatLessThanWellFounded, Zenon
<1>3. \A m \in Nat \ T : ~(m < n)
  BY <1>2, Zenon DEF OpToRel
<1>4. QED
  BY <1>3

(* Among some subsets of a finite set there is a minimal one.              *)
LEMMA MinimalSubset ==
  ASSUME NEW S, IsFiniteSet(S), NEW T \in SUBSET (SUBSET S), T # {}
  PROVE  \E s \in T : \A u \in T : u \subseteq s => u = s
<1>1. IsWellFoundedOn(StrictSubsetOrdering(S), SUBSET S)
  BY FS_StrictSubsetOrderingWellFounded, FS_FiniteSubsetsOfFinite
<1>2. PICK s \in T : \A u \in T : ~(<<u, s>> \in StrictSubsetOrdering(S))
  BY <1>1, WFMin
<1>3. QED
  BY <1>2, Zenon DEF StrictSubsetOrdering

Some(s) == CHOOSE x \in s : TRUE

\* g sums up f over the subsets of S, as MapThenFoldSet does it.
SumsUp(g, f, S) ==
  g = [s \in SUBSET S |-> IF s = {} THEN 0 ELSE f[Some(s)] + g[s \ {Some(s)}]]

Partial(f, S) == CHOOSE g : SumsUp(g, f, S)

(* SumFunction is the value of that function at the whole domain.          *)
LEMMA SumIsPartial ==
  ASSUME NEW f
  PROVE  SumFunction(f) = Partial(f, DOMAIN f)[DOMAIN f]
  BY DEF SumFunction, SumFunctionOnSet, FoldFunctionOnSet, MapThenFoldSet, Partial, SumsUp, Some

(* The element taken from a set that is not empty.                         *)
LEMMA SomeElement ==
  ASSUME NEW s, s # {}
  PROVE  Some(s) \in s
  BY DEF Some

(* The recursion has a solution, if the set is finite.                     *)
LEMMA PartialExists ==
  ASSUME NEW S, IsFiniteSet(S), NEW f \in [S -> Int]
  PROVE  \E g : SumsUp(g, f, S)
<1> DEFINE Upto(n) == {s \in SUBSET S : Cardinality(s) <= n}
           Value(g, s) == IF s = {} THEN 0 ELSE f[Some(s)] + g[s \ {Some(s)}]
           Solves(g, n) == g \in [Upto(n) -> Int] /\ \A s \in Upto(n) : g[s] = Value(g, s)
           T == {n \in Nat : \E g : Solves(g, n)}
<1>1. \A s \in SUBSET S : IsFiniteSet(s) /\ Cardinality(s) \in Nat /\ (Cardinality(s) = 0 <=> s = {})
  BY FS_Subset, FS_CardinalityType, FS_EmptySet
<1>2. \A s \in SUBSET S : s # {} => /\ Some(s) \in s /\ s \ {Some(s)} \in SUBSET S
                                    /\ Cardinality(s \ {Some(s)}) = Cardinality(s) - 1
  BY <1>1, SomeElement, FS_RemoveElement
<1>3. 0 \in T
  <2>1. \A s \in Upto(0) : s = {}
    BY <1>1
  <2>2. Solves([s \in Upto(0) |-> 0], 0)
    BY <2>1
  <2>3. QED
    BY <2>2, Zenon
<1>4. ASSUME NEW n \in T PROVE n + 1 \in T
  <2>1. PICK g : Solves(g, n)
    BY Zenon
  <2> DEFINE h == [s \in Upto(n + 1) |-> Value(g, s)]
  <2>2. n \in Nat /\ n + 1 \in Nat /\ Upto(n) \subseteq Upto(n + 1)
    BY <1>1
  <2>3. \A s \in Upto(n + 1) : s # {} => Some(s) \in S /\ s \ {Some(s)} \in Upto(n)
    BY <1>1, <1>2, <2>2
  <2>4. h \in [Upto(n + 1) -> Int]
    BY <2>1, <2>3
  <2>5. \A s \in Upto(n) : h[s] = g[s]
    BY <2>1, <2>2
  <2>6. \A s \in Upto(n + 1) : h[s] = Value(h, s)
    BY <2>3, <2>5, Zenon
  <2>7. Solves(h, n + 1)
    BY <2>4, <2>6, Zenon
  <2>8. QED
    BY <2>2, <2>7, Zenon
<1>5. T = Nat
  BY <1>3, <1>4, NatSetInduction, Zenon
<1>6. Cardinality(S) \in Nat /\ Upto(Cardinality(S)) = SUBSET S
  BY <1>1, FS_Subset
<1>7. PICK g : Solves(g, Cardinality(S))
  BY <1>5, <1>6, Zenon
<1>8. SumsUp(g, f, S)
  BY <1>6, <1>7, Zenon DEF SumsUp
<1>9. QED
  BY <1>8

(* What the recursion says, and that sums of integers are integers.        *)
LEMMA PartialSum ==
  ASSUME NEW S, IsFiniteSet(S), NEW f \in [S -> Int]
  PROVE  /\ Partial(f, S)[{}] = 0
         /\ \A s \in SUBSET S : s # {} =>
              Partial(f, S)[s] = f[Some(s)] + Partial(f, S)[s \ {Some(s)}]
         /\ \A s \in SUBSET S : Partial(f, S)[s] \in Int
<1>1. PICK g : g = Partial(f, S)
  BY Zenon
<1>2. SumsUp(g, f, S)
  BY <1>1, PartialExists DEF Partial
<1>3. \A s \in SUBSET S : g[s] = IF s = {} THEN 0 ELSE f[Some(s)] + g[s \ {Some(s)}]
  BY <1>2, Zenon DEF SumsUp
<1> DEFINE T == {s \in SUBSET S : g[s] \notin Int}
<1>4. ASSUME T # {} PROVE FALSE
  <2>1. PICK s \in T : \A u \in T : u \subseteq s => u = s
    <3>1. T \in SUBSET (SUBSET S)
      OBVIOUS
    <3> HIDE DEF T
    <3>2. QED
      BY <1>4, <3>1, MinimalSubset
  <2>2. s # {}
    BY <1>3
  <2>3. Some(s) \in s /\ s \ {Some(s)} \in SUBSET S /\ s \ {Some(s)} # s
    BY <2>2, SomeElement
  <2>4. g[s \ {Some(s)}] \in Int
    BY <2>1, <2>3
  <2>5. f[Some(s)] \in Int
    BY <2>3
  <2>6. g[s] = f[Some(s)] + g[s \ {Some(s)}]
    BY <1>3, <2>2, Zenon
  <2>7. QED
    BY <2>4, <2>5, <2>6
<1>5. QED
  BY <1>1, <1>3, <1>4, Zenon

(* Any element may be taken out first.                                     *)
LEMMA PartialRemove ==
  ASSUME NEW S, IsFiniteSet(S), NEW f \in [S -> Int], NEW s0 \in SUBSET S, NEW a0 \in s0
  PROVE  Partial(f, S)[s0] = f[a0] + Partial(f, S)[s0 \ {a0}]
<1>1. PICK g : g = Partial(f, S)
  BY Zenon
<1>2. /\ \A s \in SUBSET S : s # {} => g[s] = f[Some(s)] + g[s \ {Some(s)}]
      /\ \A s \in SUBSET S : g[s] \in Int
  BY <1>1, PartialSum, Zenon
<1> DEFINE T == {s \in SUBSET S : \E a \in s : g[s] # f[a] + g[s \ {a}]}
<1>3. ASSUME T # {} PROVE FALSE
  <2>1. PICK s \in T : \A u \in T : u \subseteq s => u = s
    <3>1. T \in SUBSET (SUBSET S)
      OBVIOUS
    <3> HIDE DEF T
    <3>2. QED
      BY <1>3, <3>1, MinimalSubset
  <2>2. PICK a \in s : g[s] # f[a] + g[s \ {a}]
    OBVIOUS
  <2>3. PICK x : x = Some(s)
    OBVIOUS
  <2>4. x \in s /\ g[s] = f[x] + g[s \ {x}] /\ x # a
    BY <1>2, <2>2, <2>3, SomeElement, Zenon
  <2>5. g[s \ {x}] = f[a] + g[(s \ {x}) \ {a}]
    BY <2>1, <2>4, Zenon
  <2>6. g[s \ {a}] = f[x] + g[(s \ {a}) \ {x}]
    BY <2>1, <2>4, Zenon
  <2>7. (s \ {x}) \ {a} = (s \ {a}) \ {x} /\ g[(s \ {x}) \ {a}] \in Int
    BY <1>2
  <2>8. f[a] \in Int /\ f[x] \in Int
    BY <2>4
  <2>9. \A p, q, t \in Int : q + (p + t) = p + (q + t)
    OBVIOUS
  <2>10. g[s] = f[x] + (f[a] + g[(s \ {x}) \ {a}]) /\ g[s \ {a}] = f[x] + g[(s \ {x}) \ {a}]
    BY <2>4, <2>5, <2>6, <2>7, Zenon
  <2>11. f[x] + (f[a] + g[(s \ {x}) \ {a}]) = f[a] + (f[x] + g[(s \ {x}) \ {a}])
    BY <2>7, <2>8, <2>9, ZenonT(30)
  <2>12. QED
    BY <2>2, <2>10, <2>11, Zenon
<1>4. QED
  BY <1>1, <1>3, Zenon

(* Functions that agree on a set have the same sum over it.                *)
LEMMA PartialAgree ==
  ASSUME NEW S, IsFiniteSet(S), NEW f \in [S -> Int],
         NEW R, IsFiniteSet(R), NEW h \in [R -> Int],
         NEW u \in SUBSET (S \cap R), \A x \in u : f[x] = h[x]
  PROVE  Partial(f, S)[u] = Partial(h, R)[u]
<1>1. PICK g : g = Partial(f, S)
  BY Zenon
<1>2. PICK k : k = Partial(h, R)
  BY Zenon
<1>3. g[{}] = 0 /\ \A s \in SUBSET S : s # {} => g[s] = f[Some(s)] + g[s \ {Some(s)}]
  BY <1>1, PartialSum, Zenon
<1>4. k[{}] = 0 /\ \A s \in SUBSET R : s # {} => k[s] = h[Some(s)] + k[s \ {Some(s)}]
  BY <1>2, PartialSum, Zenon
<1> DEFINE T == {s \in SUBSET u : g[s] # k[s]}
<1>5. ASSUME T # {} PROVE FALSE
  <2>1. IsFiniteSet(u)
    BY FS_Subset
  <2>2. PICK s \in T : \A v \in T : v \subseteq s => v = s
    <3>1. T \in SUBSET (SUBSET u)
      OBVIOUS
    <3> HIDE DEF T
    <3>2. QED
      BY <1>5, <2>1, <3>1, MinimalSubset
  <2>3. s # {}
    BY <1>3, <1>4, Zenon
  <2>4. Some(s) \in s /\ s \ {Some(s)} \in SUBSET u /\ s \ {Some(s)} # s
    BY <2>3, SomeElement
  <2>5. g[s \ {Some(s)}] = k[s \ {Some(s)}]
    BY <2>2, <2>4
  <2>6. QED
    BY <1>3, <1>4, <2>3, <2>4, <2>5, Zenon
<1>6. QED
  BY <1>1, <1>2, <1>5

(* The sum of integers over a finite set is an integer, and 0 if there are *)
(* none.                                                                   *)
LEMMA SumType ==
  ASSUME NEW S, IsFiniteSet(S), NEW f \in [S -> Int]
  PROVE  SumFunction(f) \in Int /\ (S = {} => SumFunction(f) = 0)
<1>1. DOMAIN f = S /\ S \in SUBSET S
  OBVIOUS
<1>2. SumFunction(f) = Partial(f, S)[S]
  BY <1>1, SumIsPartial
<1>3. Partial(f, S)[S] \in Int /\ Partial(f, S)[{}] = 0
  BY <1>1, PartialSum
<1>4. QED
  BY <1>2, <1>3, Zenon

\* f, on S, is h, on R, and a summand for a.
Splits(f, S, a, h, R) ==
  /\ IsFiniteSet(S) /\ a \in S /\ R = S \ {a}
  /\ f \in [S -> Int] /\ h \in [R -> Int] /\ \A x \in R : h[x] = f[x]

(* One summand is split off.                                               *)
LEMMA SumSplit ==
  ASSUME NEW S, NEW f, NEW a, NEW R, NEW h, Splits(f, S, a, h, R)
  PROVE  /\ SumFunction(f) = f[a] + SumFunction(h)
         /\ SumFunction(f) \in Int /\ SumFunction(h) \in Int /\ f[a] \in Int
<1>1. /\ IsFiniteSet(S) /\ a \in S /\ R = S \ {a}
      /\ f \in [S -> Int] /\ h \in [R -> Int] /\ \A x \in R : h[x] = f[x]
  BY DEF Splits
<1>2. IsFiniteSet(R) /\ DOMAIN h = R /\ DOMAIN f = S /\ f[a] \in Int
  BY <1>1, FS_RemoveElement
<1>3. SumFunction(f) = Partial(f, S)[S] /\ SumFunction(h) = Partial(h, R)[R]
  BY <1>2, SumIsPartial
<1>4. Partial(f, S)[S] = f[a] + Partial(f, S)[R]
  BY <1>1, PartialRemove
<1>5. Partial(f, S)[R] = Partial(h, R)[R]
  <2>1. R \in SUBSET (S \cap R) /\ \A x \in R : f[x] = h[x]
    BY <1>1
  <2>2. QED
    BY <1>1, <1>2, <2>1, PartialAgree
<1>6. SumFunction(f) \in Int /\ SumFunction(h) \in Int
  BY <1>1, <1>2, SumType
<1>7. QED
  BY <1>2, <1>3, <1>4, <1>5, <1>6, Zenon

\* h differs from f at most at a.
Differs(h, f, S, a) ==
  /\ IsFiniteSet(S) /\ a \in S
  /\ f \in [S -> Int] /\ h \in [S -> Int] /\ \A x \in S \ {a} : h[x] = f[x]

(* One summand changes.                                                    *)
LEMMA SumChange ==
  ASSUME NEW S, NEW f, NEW h, NEW a, Differs(h, f, S, a)
  PROVE  /\ SumFunction(h) = SumFunction(f) - f[a] + h[a]
         /\ SumFunction(f) \in Int /\ f[a] \in Int /\ h[a] \in Int
<1>1. PICK R : R = S \ {a}
  BY Zenon
<1>2. PICK k : k = [x \in R |-> f[x]]
  BY Zenon
<1>3. Splits(f, S, a, k, R) /\ Splits(h, S, a, k, R)
  BY <1>1, <1>2 DEF Differs, Splits
<1>4. /\ SumFunction(f) = f[a] + SumFunction(k) /\ SumFunction(h) = h[a] + SumFunction(k)
      /\ SumFunction(k) \in Int /\ f[a] \in Int /\ h[a] \in Int
  BY <1>3, SumSplit
<1>5. QED
  BY <1>4

\* f restricted to S
On(f, S) == [x \in S |-> f[x]]

(* A summand of a part of f is split off.                                  *)
LEMMA SumOn ==
  ASSUME NEW S, IsFiniteSet(S), NEW f, \A x \in S : f[x] \in Int,
         NEW a \in S, NEW R, R = S \ {a}
  PROVE  /\ SumFunction(On(f, S)) = f[a] + SumFunction(On(f, R))
         /\ SumFunction(On(f, S)) \in Int /\ SumFunction(On(f, R)) \in Int /\ f[a] \in Int
<1>1. PICK g : g = On(f, S)
  OBVIOUS
<1>2. PICK h : h = On(f, R)
  OBVIOUS
<1>3. Splits(g, S, a, h, R) /\ g[a] = f[a]
  BY <1>1, <1>2 DEF On, Splits
<1>4. /\ SumFunction(g) = g[a] + SumFunction(h)
      /\ SumFunction(g) \in Int /\ SumFunction(h) \in Int /\ g[a] \in Int
  BY <1>3, SumSplit
<1>5. QED
  BY <1>1, <1>2, <1>3, <1>4, Zenon

(* Sums over the empty set, and over the whole domain.                     *)
LEMMA SumEnds ==
  ASSUME NEW f
  PROVE  /\ SumFunction(On(f, {})) = 0
         /\ \A S : f \in [S -> Int] => On(f, S) = f
<1>1. PICK g : g = On(f, {})
  OBVIOUS
<1>2. g \in [{} -> Int]
  BY <1>1 DEF On
<1>3. SumFunction(g) = 0
  BY <1>2, SumType, FS_EmptySet, Zenon
<1>4. QED
  BY <1>1, <1>3 DEF On

(* Sums may be added summand by summand.                                   *)
LEMMA SumPlus ==
  ASSUME NEW S0, IsFiniteSet(S0), NEW f \in [S0 -> Int], NEW h \in [S0 -> Int], NEW b \in [S0 -> Int],
         \A x \in S0 : b[x] = f[x] + h[x]
  PROVE  SumFunction(b) = SumFunction(f) + SumFunction(h)
<1> DEFINE Holds(S) == SumFunction(On(b, S)) = SumFunction(On(f, S)) + SumFunction(On(h, S))
           T == {S \in SUBSET S0 : ~Holds(S)}
<1>1. ASSUME T # {} PROVE FALSE
  <2>1. PICK S \in SUBSET S0 : S \in T /\ \A u \in T : u \subseteq S => u = S
    <3>1. T \in SUBSET (SUBSET S0)
      OBVIOUS
    <3> HIDE DEF T
    <3>2. QED
      BY <1>1, <3>1, MinimalSubset
  <2>2. ~Holds(S)
    BY <2>1
  <2>3. \A u \in SUBSET S : u # S => Holds(u)
    BY <2>1
  <2> HIDE DEF T
  <2>4. IsFiniteSet(S) /\ \A x \in S : f[x] \in Int /\ h[x] \in Int /\ b[x] \in Int /\ b[x] = f[x] + h[x]
    BY FS_Subset
  <2>5. S # {}
    <3>1. SumFunction(On(b, {})) = 0 /\ SumFunction(On(f, {})) = 0 /\ SumFunction(On(h, {})) = 0
      BY SumEnds, Zenon
    <3>2. Holds({})
      BY <3>1
    <3> HIDE DEF Holds
    <3>3. QED
      BY <2>2, <3>2, Zenon
  <2>6. PICK a \in S : TRUE
    BY <2>5
  <2>7. PICK R : R = S \ {a}
    BY Zenon
  <2>8. Holds(R)
    <3>1. R \in SUBSET S /\ R # S
      BY <2>7
    <3> HIDE DEF Holds
    <3>2. QED
      BY <2>3, <3>1
  <2>9. /\ SumFunction(On(f, S)) = f[a] + SumFunction(On(f, R))
        /\ SumFunction(On(f, R)) \in Int
    BY <2>4, <2>7, SumOn, SMTT(30)
  <2>10. /\ SumFunction(On(h, S)) = h[a] + SumFunction(On(h, R))
         /\ SumFunction(On(h, R)) \in Int
    BY <2>4, <2>7, SumOn
  <2>11. /\ SumFunction(On(b, S)) = b[a] + SumFunction(On(b, R))
         /\ SumFunction(On(b, R)) \in Int
    BY <2>4, <2>7, SumOn
  <2>12. b[a] = f[a] + h[a] /\ f[a] \in Int /\ h[a] \in Int
    BY <2>4
  <2>13. QED
    BY <2>2, <2>8, <2>9, <2>10, <2>11, <2>12
<1>2. Holds(S0)
  <2>1. S0 \in SUBSET S0 /\ S0 \notin T
    BY <1>1
  <2>2. QED
    BY <2>1
<1>3. QED
  BY <1>2, SumEnds

(* A sum of summands that are at most b.                                   *)
LEMMA SumUpper ==
  ASSUME NEW S0, IsFiniteSet(S0), NEW f \in [S0 -> Int], NEW b \in Int, \A x \in S0 : f[x] <= b
  PROVE  SumFunction(f) <= Cardinality(S0) * b
<1> DEFINE Holds(S) == SumFunction(On(f, S)) <= Cardinality(S) * b
           T == {S \in SUBSET S0 : ~Holds(S)}
<1>1. ASSUME T # {} PROVE FALSE
  <2>1. PICK S \in SUBSET S0 : S \in T /\ \A u \in T : u \subseteq S => u = S
    <3>1. T \in SUBSET (SUBSET S0)
      OBVIOUS
    <3> HIDE DEF T
    <3>2. QED
      BY <1>1, <3>1, MinimalSubset
  <2>2. ~Holds(S)
    BY <2>1
  <2>3. \A u \in SUBSET S : u # S => Holds(u)
    BY <2>1
  <2> HIDE DEF T
  <2>4. IsFiniteSet(S) /\ \A x \in S : f[x] \in Int /\ f[x] <= b
    BY FS_Subset
  <2>5. S # {}
    <3>1. SumFunction(On(f, {})) = 0 /\ Cardinality({}) = 0
      BY SumEnds, FS_EmptySet, Zenon
    <3>2. Holds({})
      BY <3>1
    <3> HIDE DEF Holds
    <3>3. QED
      BY <2>2, <3>2, Zenon
  <2>6. PICK a \in S : TRUE
    BY <2>5
  <2>7. PICK R : R = S \ {a}
    BY Zenon
  <2>8. Holds(R)
    <3>1. R \in SUBSET S /\ R # S
      BY <2>7
    <3> HIDE DEF Holds
    <3>2. QED
      BY <2>3, <3>1
  <2>9. /\ SumFunction(On(f, S)) = f[a] + SumFunction(On(f, R))
        /\ SumFunction(On(f, R)) \in Int
    BY <2>4, <2>7, SumOn
  <2>10. Cardinality(S) \in Nat /\ Cardinality(R) = Cardinality(S) - 1
    BY <2>4, <2>7, FS_RemoveElement, FS_CardinalityType
  <2>11. Cardinality(S) * b = Cardinality(R) * b + b /\ Cardinality(R) * b \in Int
    <3>1. \A n \in Int : (n + 1) * b = n * b + b /\ n * b \in Int
      OBVIOUS
    <3>2. Cardinality(R) \in Int /\ Cardinality(S) = Cardinality(R) + 1
      BY <2>10
    <3>3. QED
      BY <3>1, <3>2, Zenon
  <2>12. f[a] \in Int /\ f[a] <= b
    BY <2>4
  <2>13. QED
    BY <2>2, <2>8, <2>9, <2>11, <2>12
<1>2. Holds(S0)
  <2>1. S0 \in SUBSET S0 /\ S0 \notin T
    BY <1>1
  <2>2. QED
    BY <2>1
<1>3. QED
  BY <1>2, SumEnds

-------------------------------------------------------------------------------
(* The invariant *)

Fields == {"key", "size", "left", "ttl", "bytes", "keys", "slot"}

sizes == [k \in DOMAIN items |-> items[k].size]
bytes == [g \in Goroutines |-> op[g].bytes]
keys == [g \in Goroutines |-> op[g].keys]

\* What a write that has passed the check of the ceiling will store.
reserved == [g \in Goroutines |-> IF pc[g] = "lock" THEN op[g].size ELSE 0]

ItemsShape ==
  \A k \in DOMAIN items : DOMAIN items[k] = {"size", "left"} /\ items[k].size \in StoredLens

\* A goroutine owes something only between the unlock and the adds.
OpsShape ==
  /\ DOMAIN op = Goroutines /\ DOMAIN pc = Goroutines
  /\ \A g \in Goroutines :
       /\ DOMAIN op[g] = Fields
       /\ op[g].bytes \in Int /\ op[g].keys \in Int
       /\ pc[g] = "lock" => op[g].size \in StoredLens
       /\ pc[g] \notin {"count", "release"} => op[g].bytes = 0 /\ op[g].keys = 0
  /\ pc[Wheel] \notin {"lock", "count"}

ShapeInv == ItemsShape /\ OpsShape

BalanceInv ==
  /\ ShapeInv
  /\ IsFiniteSet(DOMAIN items)
  /\ allocatedBytes \in Int /\ keyCount \in Int
  /\ AccountsBalance

\* The bytes stored and those reserved respect the bound.  It is kept since a
\* goroutine reserves or owes at most one entry, and the wheel none.
CeilingInv ==
  /\ \A g \in Goroutines :
       /\ -MaxEntry <= bytes[g]
       /\ bytes[g] + reserved[g] <= IF g = Wheel THEN 0 ELSE MaxEntry
  /\ MaxBytes > 0 =>
       Stored + SumFunction(reserved) <= MaxBytes + (Cardinality(Loops) - 1) * MaxEntry

-------------------------------------------------------------------------------
(* What the steps do to the accounts *)

accounts == <<allocatedBytes, keyCount>>

Same == UNCHANGED <<sizes, bytes, keys, reserved, accounts>>

Begins(c, n) ==
  /\ n \in StoredLens /\ ~Full(n)
  /\ reserved[c] = 0 /\ bytes[c] = 0
  /\ reserved' = [reserved EXCEPT ![c] = n]
  /\ UNCHANGED <<sizes, bytes, keys, accounts>>

Stores(c, k) ==
  /\ reserved[c] \in StoredLens /\ bytes[c] = 0 /\ keys[c] = 0
  /\ sizes' = [j \in DOMAIN sizes \cup {k} |-> IF j = k THEN reserved[c] ELSE sizes[j]]
  /\ bytes' = [bytes EXCEPT ![c] = reserved[c] - (IF k \in DOMAIN sizes THEN sizes[k] ELSE 0)]
  /\ keys' = [keys EXCEPT ![c] = IF k \in DOMAIN sizes THEN 0 ELSE 1]
  /\ reserved' = [reserved EXCEPT ![c] = 0]
  /\ UNCHANGED accounts

Removes(g, k) ==
  /\ k \in DOMAIN sizes /\ bytes[g] = 0 /\ keys[g] = 0 /\ reserved[g] = 0
  /\ sizes' = [j \in DOMAIN sizes \ {k} |-> sizes[j]]
  /\ bytes' = [bytes EXCEPT ![g] = -sizes[k]]
  /\ keys' = [keys EXCEPT ![g] = -1]
  /\ UNCHANGED <<reserved, accounts>>

Pays(g) ==
  /\ reserved[g] = 0
  /\ allocatedBytes' = (allocatedBytes + bytes[g]) % Modulus
  /\ keyCount' = (keyCount + keys[g]) % Modulus
  /\ bytes' = [bytes EXCEPT ![g] = 0]
  /\ keys' = [keys EXCEPT ![g] = 0]
  /\ UNCHANGED <<sizes, reserved>>

Kinds ==
  \/ Same
  \/ \E c \in Loops : (\E n \in StoredLens : Begins(c, n)) \/ (\E k : Stores(c, k))
  \/ \E g \in Goroutines : (\E k : Removes(g, k)) \/ Pays(g)

(* Sizes are lengths.                                                      *)
LEMMA SizesAreNat == StoredLens \subseteq Nat
  BY EngineAssumption DEF StoredLens

(* A goroutine that has nothing in hand.                                   *)
LEMMA NothingShape ==
  /\ DOMAIN Nothing = Fields
  /\ Nothing.bytes = 0 /\ Nothing.keys = 0 /\ Nothing.size = 0
  BY DEF Nothing, Fields

\* A step of goroutine g alone.
Moves(g) ==
  /\ op' = [op EXCEPT ![g] = op'[g]]
  /\ pc' = [pc EXCEPT ![g] = pc'[g]]
  /\ DOMAIN op'[g] = Fields

(* Only g moves, to label with locals o.                                   *)
LEMMA MovesTo ==
  ASSUME OpsShape, NEW g \in Goroutines, NEW o, NEW label, DOMAIN o = Fields,
         op' = [op EXCEPT ![g] = o], pc' = [pc EXCEPT ![g] = label]
  PROVE  Moves(g) /\ op'[g] = o /\ pc'[g] = label
<1>1. op'[g] = o /\ pc'[g] = label
  BY DEF OpsShape
<1>2. QED
  BY <1>1, Zenon DEF Moves

(* What a step of g does to the accounts.                                  *)
LEMMA OpStep ==
  ASSUME OpsShape, NEW g \in Goroutines, Moves(g),
         op'[g].bytes \in Int, op'[g].keys \in Int,
         pc'[g] = "lock" => op'[g].size \in StoredLens,
         pc'[g] \notin {"count", "release"} => op'[g].bytes = 0 /\ op'[g].keys = 0,
         g = Wheel => pc'[g] \notin {"lock", "count"}
  PROVE  /\ OpsShape'
         /\ bytes' = [bytes EXCEPT ![g] = op'[g].bytes]
         /\ keys' = [keys EXCEPT ![g] = op'[g].keys]
         /\ reserved' = [reserved EXCEPT ![g] = IF pc'[g] = "lock" THEN op'[g].size ELSE 0]
<1>1. Wheel \in Goroutines
  BY DEF Goroutines
<1>2. PICK o : o = op'[g] /\ op' = [op EXCEPT ![g] = o] /\ DOMAIN o = Fields
  BY Zenon DEF Moves
<1>3. PICK label : label = pc'[g] /\ pc' = [pc EXCEPT ![g] = label]
  BY Zenon DEF Moves
<1>4. OpsShape'
  BY <1>1, <1>2, <1>3 DEF OpsShape
<1>5. bytes' = [bytes EXCEPT ![g] = o.bytes]
  BY <1>2, Zenon DEF OpsShape, bytes
<1>6. keys' = [keys EXCEPT ![g] = o.keys]
  BY <1>2, Zenon DEF OpsShape, keys
<1>7. reserved' = [reserved EXCEPT ![g] = IF label = "lock" THEN o.size ELSE 0]
  BY <1>2, <1>3, Zenon DEF OpsShape, reserved
<1>8. QED
  BY <1>2, <1>3, <1>4, <1>5, <1>6, <1>7, Zenon

(* Of a step that leaves the entries alone.                                *)
LEMMA ItemsSame ==
  ASSUME ShapeInv, UNCHANGED items
  PROVE  sizes' = sizes /\ ItemsShape'
  BY DEF sizes, ItemsShape, ShapeInv

(* A step that touches no entry and no account.                            *)
LEMMA SameKind ==
  ASSUME ShapeInv, NEW g \in Goroutines, Moves(g),
         op'[g].bytes = 0, op'[g].keys = 0,
         pc[g] \notin {"lock", "count", "release"}, pc'[g] \notin {"lock", "count", "release"},
         UNCHANGED <<items, allocatedBytes, keyCount>>
  PROVE  ShapeInv' /\ Same
<1>1. /\ OpsShape'
      /\ bytes' = [bytes EXCEPT ![g] = 0]
      /\ keys' = [keys EXCEPT ![g] = 0]
      /\ reserved' = [reserved EXCEPT ![g] = 0]
  BY OpStep DEF ShapeInv
<1>2. bytes[g] = 0 /\ keys[g] = 0 /\ reserved[g] = 0
  BY DEF ShapeInv, OpsShape, bytes, keys, reserved
<1>3. bytes' = bytes
  BY <1>1, <1>2, Zenon DEF bytes
<1>4. keys' = keys
  BY <1>1, <1>2, Zenon DEF keys
<1>5. reserved' = reserved
  BY <1>1, <1>2, Zenon DEF reserved
<1>6. QED
  BY <1>1, <1>3, <1>4, <1>5, ItemsSame, SMTT(30) DEF ShapeInv, Same, accounts

(* The check of the ceiling has been passed.                               *)
LEMMA BeginStoreKind ==
  ASSUME ShapeInv, NEW c \in Loops, NEW w, NEW n \in StoredLens, ~Full(n), BeginStore(c, w, n)
  PROVE  ShapeInv' /\ Begins(c, n)
<1>1. c \in Goroutines /\ c # Wheel
  BY EngineAssumption DEF Goroutines
<1>2. PICK o : o = [Nothing EXCEPT !.key = w.key, !.size = n, !.ttl = w.ttl,
                                   !.left = IF w.ttl > 0 THEN w.ttl ELSE NoExpiry]
  BY Zenon
<1>3. DOMAIN o = Fields /\ o.bytes = 0 /\ o.keys = 0 /\ o.size = n
  BY <1>2, NothingShape DEF Fields
<1>4. /\ op' = [op EXCEPT ![c] = o] /\ pc' = [pc EXCEPT ![c] = "lock"] /\ pc[c] = "idle"
      /\ UNCHANGED <<items, allocatedBytes, keyCount>>
  BY <1>2 DEF BeginStore, Goto
<1>5. Moves(c) /\ op'[c] = o /\ pc'[c] = "lock"
  BY <1>1, <1>3, <1>4, MovesTo, Zenon DEF ShapeInv
<1>6. /\ OpsShape'
      /\ bytes' = [bytes EXCEPT ![c] = 0]
      /\ keys' = [keys EXCEPT ![c] = 0]
      /\ reserved' = [reserved EXCEPT ![c] = n]
  BY <1>1, <1>3, <1>5, OpStep DEF ShapeInv
<1>7. bytes[c] = 0 /\ keys[c] = 0 /\ reserved[c] = 0
  BY <1>1, <1>4 DEF ShapeInv, OpsShape, bytes, keys, reserved
<1>8. bytes' = bytes /\ keys' = keys
  BY <1>6, <1>7 DEF bytes, keys
<1>9. QED
  BY <1>4, <1>6, <1>7, <1>8, ItemsSame, SMTT(30) DEF ShapeInv, Begins, accounts

(* The entry is stored.                                                    *)
LEMMA StoreItemKind ==
  ASSUME ShapeInv, NEW c \in Loops, StoreItem(c)
  PROVE  ShapeInv' /\ \E k : Stores(c, k)
<1>1. c \in Goroutines /\ c # Wheel
  BY EngineAssumption DEF Goroutines
<1>2. PICK k : k = op[c].key
  OBVIOUS
<1>3. PICK o : o = [Nothing EXCEPT !.key = k, !.ttl = op[c].ttl,
                      !.bytes = op[c].size - (IF k \in DOMAIN items THEN items[k].size ELSE 0),
                      !.keys = IF k \in DOMAIN items THEN 0 ELSE 1]
  BY Zenon
<1>4. /\ DOMAIN o = Fields
      /\ o.bytes = op[c].size - (IF k \in DOMAIN items THEN items[k].size ELSE 0)
      /\ o.keys = IF k \in DOMAIN items THEN 0 ELSE 1
  BY <1>3, NothingShape DEF Fields
<1>5. /\ op' = [op EXCEPT ![c] = o] /\ pc' = [pc EXCEPT ![c] = "count"] /\ pc[c] = "lock"
      /\ UNCHANGED <<allocatedBytes, keyCount>>
      /\ items' = With(k, [size |-> op[c].size, left |-> op[c].left])
  BY <1>2, <1>3, Zenon DEF StoreItem, Goto
<1>6. op[c].size \in StoredLens /\ \A j \in DOMAIN items : items[j].size \in StoredLens
  BY <1>1, <1>5, Zenon DEF ShapeInv, OpsShape, ItemsShape
<1>7. o.bytes \in Int /\ o.keys \in Int
  <2>1. op[c].size \in Nat /\ (k \in DOMAIN items => items[k].size \in Nat)
    BY <1>6, SizesAreNat, Zenon
  <2>2. QED
    BY <1>4, <2>1
<1>8. Moves(c) /\ op'[c] = o /\ pc'[c] = "count"
  BY <1>1, <1>4, <1>5, MovesTo, Zenon DEF ShapeInv
<1>9. /\ OpsShape'
      /\ bytes' = [bytes EXCEPT ![c] = o.bytes]
      /\ keys' = [keys EXCEPT ![c] = o.keys]
      /\ reserved' = [reserved EXCEPT ![c] = 0]
  BY <1>1, <1>7, <1>8, OpStep DEF ShapeInv
<1>10. bytes[c] = 0 /\ keys[c] = 0 /\ reserved[c] = op[c].size
  BY <1>1, <1>5 DEF ShapeInv, OpsShape, bytes, keys, reserved
<1>11. sizes' = [j \in DOMAIN sizes \cup {k} |-> IF j = k THEN op[c].size ELSE sizes[j]]
  BY <1>5 DEF sizes, With
<1>12. ItemsShape'
  BY <1>5, <1>6 DEF With, ItemsShape, ShapeInv
<1>13. DOMAIN sizes = DOMAIN items /\ (k \in DOMAIN items => sizes[k] = items[k].size)
  BY DEF sizes
<1>14. Stores(c, k)
  BY <1>4, <1>5, <1>6, <1>9, <1>10, <1>11, <1>13, Zenon DEF Stores, accounts
<1>15. QED
  BY <1>9, <1>12, <1>14 DEF ShapeInv

(* The adds: what g owes is paid.                                          *)
LEMMA PayKind ==
  ASSUME ShapeInv, NEW g \in Goroutines, Moves(g), pc[g] \in {"count", "release"},
         op'[g].bytes = 0, op'[g].keys = 0, pc'[g] \notin {"lock", "count", "release"},
         allocatedBytes' = (allocatedBytes + op[g].bytes) % Modulus,
         keyCount' = (keyCount + op[g].keys) % Modulus, UNCHANGED items
  PROVE  ShapeInv' /\ Pays(g)
<1>1. /\ OpsShape'
      /\ bytes' = [bytes EXCEPT ![g] = 0]
      /\ keys' = [keys EXCEPT ![g] = 0]
      /\ reserved' = [reserved EXCEPT ![g] = 0]
  BY OpStep DEF ShapeInv
<1>2. bytes[g] = op[g].bytes /\ keys[g] = op[g].keys /\ reserved[g] = 0
  BY DEF bytes, keys, reserved
<1>3. reserved' = reserved
  BY <1>1, <1>2, Zenon DEF reserved
<1>4. QED
  BY <1>1, <1>2, <1>3, ItemsSame, Zenon DEF ShapeInv, Pays

(* Where the wheel goes on.                                                *)
LEMMA SweepLabel ==
  ASSUME NEW b
  PROVE  SweepOrIdle(b) \in {"idle", "sweep"}
  BY DEF SweepOrIdle

(* CountItem and releaseKey pay.                                           *)
LEMMA CountKind ==
  ASSUME ShapeInv, NEW g \in Goroutines, CountItem(g) \/ releaseKey(g)
  PROVE  ShapeInv' /\ Pays(g)
<1>1. PICK o : op' = [op EXCEPT ![g] = o] /\ DOMAIN o = Fields /\ o.bytes = 0 /\ o.keys = 0
  <2>1. CASE CountItem(g) /\ op[g].ttl > 0
    <3>1. PICK s : op' = [op EXCEPT ![g] = [Nothing EXCEPT !.key = op[g].key, !.slot = s]]
      BY <2>1, Zenon DEF CountItem
    <3>2. PICK o : o = [Nothing EXCEPT !.key = op[g].key, !.slot = s]
      BY Zenon
    <3>3. DOMAIN o = Fields /\ o.bytes = 0 /\ o.keys = 0
      BY <3>2, NothingShape DEF Fields
    <3>4. QED
      BY <3>1, <3>2, <3>3, Zenon
  <2>2. CASE op' = [op EXCEPT ![g] = Nothing]
    BY <2>2, NothingShape, Zenon
  <2>3. QED
    BY <2>1, <2>2 DEF CountItem, releaseKey
<1>2. PICK label \in {"idle", "append", "sweep"} : pc' = [pc EXCEPT ![g] = label]
  BY SweepLabel DEF CountItem, releaseKey, Goto
<1>3. Moves(g) /\ op'[g] = o /\ pc'[g] = label
  BY <1>1, <1>2, MovesTo, Zenon DEF ShapeInv
<1>4. /\ pc[g] \in {"count", "release"} /\ UNCHANGED items
      /\ allocatedBytes' = (allocatedBytes + op[g].bytes) % Modulus
      /\ keyCount' = (keyCount + op[g].keys) % Modulus
  BY DEF CountItem, releaseKey
<1>5. QED
  BY <1>1, <1>3, <1>4, PayKind

(* An entry is removed; its size is owed.                                  *)
LEMMA RemoveKind ==
  ASSUME ShapeInv, NEW g \in Goroutines, NEW k \in DOMAIN items,
         pc[g] \notin {"lock", "count", "release"},
         items' = Without(k), op' = Owing(g, k), Goto(g, "release"), UNCHANGED accounts
  PROVE  ShapeInv' /\ Removes(g, k)
<1>1. PICK o : o = [op[g] EXCEPT !.key = k, !.bytes = -items[k].size, !.keys = -1]
  BY Zenon
<1>2. /\ DOMAIN op = Goroutines /\ DOMAIN op[g] = Fields
      /\ op[g].bytes = 0 /\ op[g].keys = 0 /\ items[k].size \in StoredLens
  BY DEF ShapeInv, OpsShape, ItemsShape
<1>3. op' = [op EXCEPT ![g] = o]
  BY <1>1, <1>2 DEF Owing, Fields
<1>4. DOMAIN o = Fields /\ o.bytes = -items[k].size /\ o.keys = -1
  BY <1>1, <1>2 DEF Fields
<1>5. Moves(g) /\ op'[g] = o /\ pc'[g] = "release"
  <2>1. OpsShape /\ pc' = [pc EXCEPT ![g] = "release"]
    BY Zenon DEF ShapeInv, Goto
  <2>2. DOMAIN o = Fields
    BY <1>4, Zenon
  <2>3. QED
    BY <1>3, <2>1, <2>2, MovesTo, Zenon
<1>6. o.bytes \in Int /\ o.keys \in Int
  <2>1. items[k].size \in Nat
    BY <1>2, SizesAreNat, Zenon
  <2>2. QED
    BY <1>4, <2>1
<1>7. /\ OpsShape'
      /\ bytes' = [bytes EXCEPT ![g] = o.bytes]
      /\ keys' = [keys EXCEPT ![g] = o.keys]
      /\ reserved' = [reserved EXCEPT ![g] = 0]
  BY <1>5, <1>6, OpStep, SMTT(30) DEF ShapeInv
<1>8. bytes[g] = 0 /\ keys[g] = 0 /\ reserved[g] = 0
  BY <1>2 DEF bytes, keys, reserved
<1>9. reserved' = reserved
  BY <1>7, <1>8, Zenon DEF reserved
<1>10. /\ sizes' = [j \in DOMAIN sizes \ {k} |-> sizes[j]]
       /\ k \in DOMAIN sizes /\ sizes[k] = items[k].size
  BY DEF sizes, Without
<1>11. ItemsShape'
  BY DEF Without, ItemsShape, ShapeInv
<1>12. QED
  BY <1>4, <1>7, <1>8, <1>9, <1>10, <1>11 DEF ShapeInv, Removes

(* deleteIfExpired removes an entry or leaves the accounts alone.          *)
LEMMA DeleteIfExpiredKind ==
  ASSUME ShapeInv, NEW g \in Goroutines, NEW k, NEW otherwise \in {"idle", "sweep"},
         pc[g] \in {"evict", "sweep"}, deleteIfExpired(g, k, otherwise), UNCHANGED accounts
  PROVE  ShapeInv' /\ (Same \/ \E j : Removes(g, j))
<1>1. CASE k \in DOMAIN items /\ Expired(items[k])
  <2>1. items' = Without(k) /\ op' = Owing(g, k) /\ Goto(g, "release")
    BY <1>1 DEF deleteIfExpired
  <2>2. pc[g] \notin {"lock", "count", "release"}
    OBVIOUS
  <2>3. QED
    BY <1>1, <2>1, <2>2, RemoveKind
<1>2. CASE ~(k \in DOMAIN items /\ Expired(items[k]))
  <2>1. /\ UNCHANGED items /\ pc' = [pc EXCEPT ![g] = otherwise]
        /\ op' = [op EXCEPT ![g].key = Nothing.key]
    BY <1>2 DEF deleteIfExpired, Goto
  <2>2. PICK o : o = [op[g] EXCEPT !.key = Nothing.key]
    BY Zenon
  <2>3. DOMAIN op = Goroutines /\ DOMAIN op[g] = Fields /\ op[g].bytes = 0 /\ op[g].keys = 0
    BY DEF ShapeInv, OpsShape
  <2>4. op' = [op EXCEPT ![g] = o] /\ DOMAIN o = Fields /\ o.bytes = 0 /\ o.keys = 0
    BY <2>1, <2>2, <2>3 DEF Fields
  <2>5. Moves(g) /\ op'[g] = o /\ pc'[g] = otherwise
    BY <2>1, <2>4, MovesTo, Zenon DEF ShapeInv
  <2>6. QED
    BY <2>1, <2>4, <2>5, SameKind, Zenon DEF accounts
<1>3. QED
  BY <1>1, <1>2

(* Get and Register change no account.                                     *)
LEMMA GetKind ==
  ASSUME ShapeInv, NEW c \in Goroutines, Register(c) \/ \E k \in Keys : Get(c, k)
  PROVE  ShapeInv' /\ Same
<1>1. PICK label \in {"evict", "idle"} : pc' = [pc EXCEPT ![c] = label] /\ pc[c] \in {"idle", "append"}
  BY DEF Get, Register, Goto
<1>2. DOMAIN op = Goroutines /\ DOMAIN op[c] = Fields /\ op[c].bytes = 0 /\ op[c].keys = 0
  BY <1>1 DEF ShapeInv, OpsShape
<1>3. PICK o : op' = [op EXCEPT ![c] = o] /\ DOMAIN o = Fields /\ o.bytes = 0 /\ o.keys = 0
  <2>1. CASE Register(c)
    BY <2>1, NothingShape, Zenon DEF Register
  <2>2. ASSUME NEW k \in Keys, Get(c, k)
        PROVE  \E o : op' = [op EXCEPT ![c] = o] /\ DOMAIN o = Fields /\ o.bytes = 0 /\ o.keys = 0
    <3>1. PICK o : o = [op[c] EXCEPT !.key = k]
      BY Zenon
    <3>2. op' = [op EXCEPT ![c] = o] /\ DOMAIN o = Fields /\ o.bytes = 0 /\ o.keys = 0
      BY <1>2, <2>2, <3>1 DEF Get, Fields
    <3>3. QED
      BY <3>2, Zenon
  <2>3. QED
    BY <2>1, <2>2, Zenon
<1>4. Moves(c) /\ op'[c] = o /\ pc'[c] = label
  BY <1>1, <1>3, MovesTo, Zenon DEF ShapeInv
<1>5. UNCHANGED <<items, allocatedBytes, keyCount>>
  BY DEF Get, Register
<1>6. QED
  BY <1>1, <1>3, <1>4, <1>5, SameKind, Zenon

(* Nor does the wheel when it takes a slot and moves on.                   *)
LEMMA AdvanceKind ==
  ASSUME ShapeInv, AdvanceTake \/ AdvanceStore
  PROVE  ShapeInv' /\ Same
<1>1. Wheel \in Goroutines
  BY DEF Goroutines
<1>2. PICK label \in {"store", "idle", "sweep"} :
        pc' = [pc EXCEPT ![Wheel] = label] /\ pc[Wheel] \in {"idle", "store"}
  BY SweepLabel DEF AdvanceTake, AdvanceStore, Goto
<1>3. op' = op /\ UNCHANGED <<items, allocatedBytes, keyCount>>
  BY DEF AdvanceTake, AdvanceStore
<1>4. OpsShape'
  BY <1>1, <1>2, <1>3 DEF ShapeInv, OpsShape
<1>5. bytes' = bytes /\ keys' = keys
  BY <1>3 DEF bytes, keys
<1>6. reserved' = reserved
  BY <1>1, <1>2, <1>3 DEF ShapeInv, OpsShape, reserved
<1>7. QED
  BY <1>3, <1>4, <1>5, <1>6, ItemsSame, SMTT(30) DEF ShapeInv, Same, accounts

(* Time changes deadlines only.                                            *)
LEMMA TimeKind ==
  ASSUME ShapeInv, TimePasses
  PROVE  ShapeInv' /\ Same
<1>1. /\ DOMAIN items' = DOMAIN items
      /\ \A k \in DOMAIN items : DOMAIN items'[k] = DOMAIN items[k] /\ items'[k].size = items[k].size
  BY DEF TimePasses, ShapeInv, ItemsShape
<1>2. /\ DOMAIN op' = Goroutines
      /\ \A g \in Goroutines : /\ DOMAIN op'[g] = Fields
                               /\ op'[g].size = op[g].size
                               /\ op'[g].bytes = op[g].bytes /\ op'[g].keys = op[g].keys
  BY DEF TimePasses, ShapeInv, OpsShape, Fields
<1>3. pc' = pc /\ UNCHANGED accounts
  BY DEF TimePasses, accounts
<1>4. ItemsShape' /\ sizes' = sizes
  BY <1>1 DEF ShapeInv, ItemsShape, sizes
<1>5. OpsShape' /\ bytes' = bytes /\ keys' = keys /\ reserved' = reserved
  BY <1>2, <1>3, Zenon DEF ShapeInv, OpsShape, bytes, keys, reserved
<1>6. QED
  BY <1>3, <1>4, <1>5 DEF ShapeInv, Same

(* Every step keeps the shape and is of one of the kinds.                  *)
LEMMA StepKinds ==
  ASSUME ShapeInv, [Next]_vars
  PROVE  ShapeInv' /\ Kinds
<1>1. ASSUME NEW c \in Loops, NEW w \in Writes, Set(c, w) \/ SetFromBuffer(c, w) \/ SetRaw(c, w)
      PROVE  ShapeInv' /\ Kinds
  <2>1. KeyLen + w.len + Overhead \in StoredLens /\ KeyLen + w.len \in StoredLens
    <3>1. KeyLen + w.len + 0 = KeyLen + w.len
      BY EngineAssumption
    <3>2. QED
      BY <3>1 DEF StoredLens
  <2>2. \E n \in StoredLens : ~Full(n) /\ BeginStore(c, w, n)
    BY <1>1, <2>1, SMTT(30) DEF Set, SetFromBuffer, SetRaw
  <2>3. QED
    BY <2>2, BeginStoreKind DEF Kinds
<1>2. ASSUME NEW c \in Loops, NEW k \in Keys, Delete(c, k)
      PROVE  ShapeInv' /\ Kinds
  <2>1. c \in Goroutines
    BY DEF Goroutines
  <2>2. /\ k \in DOMAIN items /\ pc[c] \notin {"lock", "count", "release"}
        /\ items' = Without(k) /\ op' = Owing(c, k) /\ Goto(c, "release") /\ UNCHANGED accounts
    BY <1>2 DEF Delete, accounts
  <2>3. QED
    BY <2>1, <2>2, RemoveKind DEF Kinds
<1>3. ASSUME NEW c \in Loops, LazyEviction(c)
      PROVE  ShapeInv' /\ Kinds
  <2>1. c \in Goroutines
    BY DEF Goroutines
  <2>2. pc[c] \in {"evict", "sweep"} /\ deleteIfExpired(c, op[c].key, "idle") /\ UNCHANGED accounts
    BY <1>3 DEF LazyEviction, accounts
  <2>3. QED
    BY <2>1, <2>2, DeleteIfExpiredKind, Zenon DEF Kinds
<1>4. ASSUME AdvanceDelete
      PROVE  ShapeInv' /\ Kinds
  <2>1. Wheel \in Goroutines
    BY DEF Goroutines
  <2>2. /\ pc[Wheel] \in {"evict", "sweep"} /\ UNCHANGED accounts
        /\ deleteIfExpired(Wheel, Head(batch), SweepOrIdle(Tail(batch)))
    BY <1>4 DEF AdvanceDelete, accounts
  <2>3. QED
    BY <2>1, <2>2, SweepLabel, DeleteIfExpiredKind DEF Kinds
<1>5. ASSUME NEW c \in Loops, CountItem(c) \/ Register(c) \/ releaseKey(c) \/ \E k \in Keys : Get(c, k)
      PROVE  ShapeInv' /\ Kinds
  <2>1. c \in Goroutines
    BY DEF Goroutines
  <2>2. QED
    BY <1>5, <2>1, CountKind, GetKind DEF Kinds
<1>6. ASSUME releaseKey(Wheel)
      PROVE  ShapeInv' /\ Kinds
  BY <1>6, CountKind, Zenon DEF Kinds, Goroutines
<1>7. CASE UNCHANGED vars
  <2>1. UNCHANGED <<items, op, pc, allocatedBytes, keyCount>>
    BY <1>7 DEF vars
  <2>2. QED
    BY <2>1, Zenon DEF Kinds, Same, sizes, bytes, keys, reserved, accounts, ShapeInv, ItemsShape, OpsShape
<1>8. QED
  BY <1>1, <1>2, <1>3, <1>4, <1>5, <1>6, <1>7, StoreItemKind, AdvanceKind, TimeKind, Zenon
  DEF Next, Request, Continue, Advance, Kinds

-------------------------------------------------------------------------------
(* The sums of the accounts *)

\* h, on R, is f, on S, with a summand for a that is new or replaces another.
Extends(h, R, a, f, S) ==
  /\ IsFiniteSet(S) /\ R = S \cup {a}
  /\ f \in [S -> Int] /\ h \in [R -> Int] /\ \A x \in S \ {a} : h[x] = f[x]

(* A summand is added or replaced.                                         *)
LEMMA SumWith ==
  ASSUME NEW S, NEW f, NEW a, NEW R, NEW h, Extends(h, R, a, f, S)
  PROVE  SumFunction(h) = SumFunction(f) + (h[a] - (IF a \in S THEN f[a] ELSE 0))
<1>1. CASE a \in S
  <2>1. Differs(h, f, S, a)
    <3>1. R = S
      BY <1>1 DEF Extends
    <3>2. QED
      BY <1>1, <3>1 DEF Extends, Differs
  <2>2. /\ SumFunction(h) = SumFunction(f) - f[a] + h[a]
        /\ SumFunction(f) \in Int /\ f[a] \in Int /\ h[a] \in Int
    BY <2>1, SumChange, Zenon
  <2>3. QED
    BY <1>1, <2>2
<1>2. CASE a \notin S
  <2>1. Splits(h, R, a, f, S)
    <3>1. S = R \ {a} /\ a \in R /\ (\A x \in S : f[x] = h[x]) /\ IsFiniteSet(R)
      BY <1>2, FS_AddElement DEF Extends
    <3>2. QED
      BY <3>1 DEF Extends, Splits
  <2>2. /\ SumFunction(h) = h[a] + SumFunction(f)
        /\ SumFunction(f) \in Int /\ h[a] \in Int
    BY <2>1, SumSplit
  <2>3. QED
    BY <1>2, <2>2
<1>3. QED
  BY <1>1, <1>2

(* The accounts are sums of integers over finite sets.                     *)
LEMMA Numbers ==
  ASSUME ShapeInv, IsFiniteSet(DOMAIN items)
  PROVE  /\ IsFiniteSet(Goroutines)
         /\ bytes \in [Goroutines -> Int] /\ keys \in [Goroutines -> Int]
         /\ DOMAIN sizes = DOMAIN items /\ sizes \in [DOMAIN sizes -> Int]
         /\ \A k \in DOMAIN sizes : sizes[k] \in StoredLens /\ sizes[k] \in Nat
         /\ OwedBytes = SumFunction(bytes) /\ OwedKeys = SumFunction(keys)
         /\ Stored = SumFunction(sizes)
         /\ OwedBytes \in Int /\ OwedKeys \in Int /\ Stored \in Int
<1>1. IsFiniteSet(Goroutines)
  BY EngineAssumption, FS_AddElement DEF Goroutines
<1>2. bytes \in [Goroutines -> Int] /\ keys \in [Goroutines -> Int]
  BY DEF ShapeInv, OpsShape, bytes, keys
<1>3. DOMAIN sizes = DOMAIN items /\ sizes \in [DOMAIN sizes -> StoredLens]
  BY DEF ShapeInv, ItemsShape, sizes
<1>4. /\ sizes \in [DOMAIN sizes -> Int]
      /\ \A k \in DOMAIN sizes : sizes[k] \in StoredLens /\ sizes[k] \in Nat
  BY <1>3, SizesAreNat
<1>5. OwedBytes = SumFunction(bytes) /\ OwedKeys = SumFunction(keys) /\ Stored = SumFunction(sizes)
  BY DEF OwedBytes, OwedKeys, Stored, bytes, keys, sizes
<1>6. SumFunction(bytes) \in Int /\ SumFunction(keys) \in Int /\ SumFunction(sizes) \in Int
  BY <1>1, <1>2, <1>3, <1>4, SumType
<1>7. QED
  BY <1>1, <1>2, <1>3, <1>4, <1>5, <1>6, Zenon

-------------------------------------------------------------------------------
(* The accounts balance *)

\* A counter and what is owed to it make up the total.
Balanced(a, owed, total) == (a + owed) % Modulus = total % Modulus

(* What is owed and what is stored change by the same amount, or the       *)
(* counter changes by what is no longer owed.                              *)
LEMMA Rebalance ==
  ASSUME NEW a \in Int, NEW owed \in Int, NEW total \in Int, NEW d \in Int,
         Balanced(a, owed, total)
  PROVE  /\ Balanced(a, owed + d, total + d)
         /\ Balanced((a + d) % Modulus, owed - d, total)
         /\ (a + d) % Modulus \in Int
<1>1. Modulus \in Nat \ {0}
  BY EngineAssumption
<1>2. a + owed \in Int /\ a + d \in Int /\ owed - d \in Int
      /\ (a + owed) + d = a + (owed + d) /\ (a + d) + (owed - d) = a + owed
  OBVIOUS
<1>3. ((a + owed) + d) % Modulus = (total + d) % Modulus
  <2>1. PICK x \in Int : x = a + owed
    OBVIOUS
  <2>2. Congruent(x, total, Modulus)
    BY <2>1, Zenon DEF Balanced, Congruent
  <2>3. Congruent(x + d, total + d, Modulus)
    BY <1>1, <2>2, RemainderShift, Zenon
  <2>4. QED
    BY <2>1, <2>3, Zenon DEF Congruent
<1>4. (((a + d) % Modulus) + (owed - d)) % Modulus = ((a + d) + (owed - d)) % Modulus
  BY <1>1, <1>2, RemainderSum, Zenon
<1>5. (a + d) % Modulus \in Int
  BY <1>1, <1>2
<1>6. QED
  BY <1>2, <1>3, <1>4, <1>5, Zenon DEF Balanced

(* Goroutines that start a write or change nothing.                        *)
LEMMA SameBalance ==
  ASSUME BalanceInv, ShapeInv', UNCHANGED <<sizes, bytes, keys, accounts>>
  PROVE  BalanceInv'
<1>1. DOMAIN items' = DOMAIN items
  BY DEF sizes
<1>2. Stored' = Stored /\ OwedBytes' = OwedBytes /\ OwedKeys' = OwedKeys
  <2>1. /\ Stored = SumFunction(sizes) /\ OwedBytes = SumFunction(bytes)
        /\ OwedKeys = SumFunction(keys)
    BY DEF OwedBytes, OwedKeys, Stored, bytes, keys, sizes
  <2>2. /\ Stored' = SumFunction(sizes') /\ OwedBytes' = SumFunction(bytes')
        /\ OwedKeys' = SumFunction(keys')
    BY DEF OwedBytes, OwedKeys, Stored, bytes, keys, sizes
  <2>3. QED
    BY <2>1, <2>2, Zenon
<1>3. QED
  BY <1>1, <1>2 DEF BalanceInv, AccountsBalance, accounts

(* StoreItem: the entry is stored, and the difference owed.                *)
LEMMA StoresBalance ==
  ASSUME BalanceInv, ShapeInv', NEW c \in Goroutines, NEW k, Stores(c, k)
  PROVE  /\ BalanceInv'
         /\ Stored' = Stored + (reserved[c] - (IF k \in DOMAIN sizes THEN sizes[k] ELSE 0))
<1> DEFINE old == IF k \in DOMAIN sizes THEN sizes[k] ELSE 0
           d == reserved[c] - old
           one == IF k \in DOMAIN sizes THEN 0 ELSE 1
<1>1. ShapeInv /\ IsFiniteSet(DOMAIN items) /\ allocatedBytes \in Int /\ keyCount \in Int
      /\ Balanced(allocatedBytes, OwedBytes, Stored)
      /\ Balanced(keyCount, OwedKeys, Cardinality(DOMAIN items))
  BY DEF BalanceInv, AccountsBalance, Balanced
<1>2. /\ IsFiniteSet(Goroutines) /\ bytes \in [Goroutines -> Int] /\ keys \in [Goroutines -> Int]
      /\ DOMAIN sizes = DOMAIN items /\ sizes \in [DOMAIN sizes -> Int]
      /\ \A j \in DOMAIN sizes : sizes[j] \in Nat
      /\ OwedBytes = SumFunction(bytes) /\ OwedKeys = SumFunction(keys)
      /\ Stored = SumFunction(sizes)
      /\ OwedBytes \in Int /\ OwedKeys \in Int /\ Stored \in Int
  BY <1>1, Numbers, SMTT(30)
<1>3. reserved[c] \in Int /\ d \in Int /\ one \in Int
  BY <1>2, SizesAreNat DEF Stores
<1>4. /\ sizes' = [j \in DOMAIN sizes \cup {k} |-> IF j = k THEN reserved[c] ELSE sizes[j]]
      /\ bytes' = [bytes EXCEPT ![c] = d] /\ keys' = [keys EXCEPT ![c] = one]
      /\ bytes[c] = 0 /\ keys[c] = 0 /\ UNCHANGED <<allocatedBytes, keyCount>>
  BY DEF Stores, accounts
<1>5. SumFunction(sizes') = SumFunction(sizes) + d
  <2>1. PICK S : S = DOMAIN sizes
    OBVIOUS
  <2>2. PICK R : R = S \cup {k}
    BY Zenon
  <2>3. Extends(sizes', R, k, sizes, S) /\ sizes'[k] = reserved[c]
    BY <1>1, <1>2, <1>3, <1>4, <2>1, <2>2, Zenon DEF Extends
  <2>4. SumFunction(sizes') = SumFunction(sizes) + (sizes'[k] - (IF k \in S THEN sizes[k] ELSE 0))
    BY <2>3, SumWith
  <2>5. QED
    BY <2>1, <2>3, <2>4, Zenon
<1> HIDE DEF old, d, one
<1>6. SumFunction(bytes') = SumFunction(bytes) + d /\ SumFunction(keys') = SumFunction(keys) + one
  <2>1. Differs(bytes', bytes, Goroutines, c) /\ Differs(keys', keys, Goroutines, c)
    BY <1>2, <1>3, <1>4 DEF Differs
  <2>2. bytes'[c] = d /\ keys'[c] = one
    BY <1>2, <1>4
  <2>3. SumFunction(bytes') = SumFunction(bytes) - bytes[c] + bytes'[c]
    BY <2>1, SumChange
  <2>4. SumFunction(keys') = SumFunction(keys) - keys[c] + keys'[c]
    BY <2>1, SumChange
  <2>5. QED
    BY <1>2, <1>3, <1>4, <2>2, <2>3, <2>4, SMTT(30)
<1>7. /\ DOMAIN items' = DOMAIN items \cup {k} /\ IsFiniteSet(DOMAIN items')
      /\ Cardinality(DOMAIN items) \in Int
      /\ Cardinality(DOMAIN items') = Cardinality(DOMAIN items) + one
  <2>1. DOMAIN items' = DOMAIN items \cup {k}
    BY <1>2, <1>4, Zenon DEF sizes
  <2>2. QED
    BY <1>1, <1>2, <2>1, FS_AddElement, FS_CardinalityType DEF one
<1>8. Stored' = Stored + d /\ OwedBytes' = OwedBytes + d /\ OwedKeys' = OwedKeys + one
  <2>1. /\ Stored' = SumFunction(sizes') /\ OwedBytes' = SumFunction(bytes')
        /\ OwedKeys' = SumFunction(keys')
    BY Zenon DEF OwedBytes, OwedKeys, Stored, bytes, keys, sizes
  <2>2. QED
    BY <1>2, <1>3, <1>5, <1>6, <2>1, Zenon
<1>9. Balanced(allocatedBytes, OwedBytes + d, Stored + d)
  BY <1>1, <1>2, <1>3, Rebalance, Zenon
<1>10. Balanced(keyCount, OwedKeys + one, Cardinality(DOMAIN items) + one)
  BY <1>1, <1>2, <1>3, <1>7, Rebalance
<1>11. AccountsBalance'
  BY <1>4, <1>7, <1>8, <1>9, <1>10, Zenon DEF AccountsBalance, Balanced
<1>12. BalanceInv'
  BY <1>1, <1>4, <1>7, <1>11, Zenon DEF BalanceInv
<1>13. QED
  BY <1>8, <1>12, Zenon DEF d, old

(* An entry is removed, and its size owed back.                            *)
LEMMA RemovesBalance ==
  ASSUME BalanceInv, ShapeInv', NEW g \in Goroutines, NEW k, Removes(g, k)
  PROVE  BalanceInv' /\ Stored' = Stored - sizes[k]
<1>1. ShapeInv /\ IsFiniteSet(DOMAIN items) /\ allocatedBytes \in Int /\ keyCount \in Int
      /\ Balanced(allocatedBytes, OwedBytes, Stored)
      /\ Balanced(keyCount, OwedKeys, Cardinality(DOMAIN items))
  BY DEF BalanceInv, AccountsBalance, Balanced
<1>2. /\ IsFiniteSet(Goroutines) /\ bytes \in [Goroutines -> Int] /\ keys \in [Goroutines -> Int]
      /\ DOMAIN sizes = DOMAIN items /\ sizes \in [DOMAIN sizes -> Int]
      /\ OwedBytes = SumFunction(bytes) /\ OwedKeys = SumFunction(keys)
      /\ Stored = SumFunction(sizes)
      /\ OwedBytes \in Int /\ OwedKeys \in Int /\ Stored \in Int
  BY <1>1, Numbers
<1>3. PICK d \in Int : d = -sizes[k]
  BY <1>2 DEF Removes
<1>4. /\ k \in DOMAIN sizes /\ sizes' = [j \in DOMAIN sizes \ {k} |-> sizes[j]]
      /\ bytes' = [bytes EXCEPT ![g] = d] /\ keys' = [keys EXCEPT ![g] = -1]
      /\ bytes[g] = 0 /\ keys[g] = 0 /\ UNCHANGED <<allocatedBytes, keyCount>>
  BY <1>3 DEF Removes, accounts
<1>5. SumFunction(sizes') = SumFunction(sizes) + d
  <2>1. PICK S : S = DOMAIN sizes
    OBVIOUS
  <2>2. PICK R : R = S \ {k}
    BY Zenon
  <2>3. Splits(sizes, S, k, sizes', R)
    BY <1>1, <1>2, <1>4, <2>1, <2>2, Zenon DEF Splits
  <2>4. /\ SumFunction(sizes) = sizes[k] + SumFunction(sizes')
        /\ SumFunction(sizes') \in Int /\ sizes[k] \in Int
    BY <2>3, SumSplit
  <2>5. QED
    BY <1>3, <2>4
<1>6. SumFunction(bytes') = SumFunction(bytes) + d /\ SumFunction(keys') = SumFunction(keys) + (-1)
  <2>1. /\ Differs(bytes', bytes, Goroutines, g) /\ bytes'[g] = d
        /\ Differs(keys', keys, Goroutines, g) /\ keys'[g] = -1
    BY <1>2, <1>3, <1>4, SMTT(30) DEF Differs
  <2>2. SumFunction(bytes') = SumFunction(bytes) - bytes[g] + bytes'[g]
    BY <2>1, SumChange
  <2>3. SumFunction(keys') = SumFunction(keys) - keys[g] + keys'[g]
    BY <2>1, SumChange
  <2>4. QED
    BY <1>2, <1>3, <1>4, <2>1, <2>2, <2>3, SMTT(30)
<1>7. /\ DOMAIN items' = DOMAIN items \ {k} /\ IsFiniteSet(DOMAIN items')
      /\ Cardinality(DOMAIN items) \in Int
      /\ Cardinality(DOMAIN items') = Cardinality(DOMAIN items) + (-1)
  <2>1. DOMAIN items' = DOMAIN items \ {k} /\ k \in DOMAIN items
    BY <1>2, <1>4 DEF sizes
  <2>2. PICK S : S = DOMAIN items
    BY Zenon
  <2>3. /\ IsFiniteSet(S \ {k}) /\ Cardinality(S) \in Int
        /\ Cardinality(S \ {k}) = Cardinality(S) - 1
    BY <1>1, <2>1, <2>2, FS_RemoveElement, FS_CardinalityType, SMTT(30)
  <2>4. QED
    BY <2>1, <2>2, <2>3, Zenon
<1>8. Stored' = Stored + d /\ OwedBytes' = OwedBytes + d /\ OwedKeys' = OwedKeys + (-1)
  <2>1. /\ Stored' = SumFunction(sizes') /\ OwedBytes' = SumFunction(bytes')
        /\ OwedKeys' = SumFunction(keys')
    BY Zenon DEF OwedBytes, OwedKeys, Stored, bytes, keys, sizes
  <2>2. QED
    BY <1>2, <1>3, <1>5, <1>6, <2>1, Zenon
<1>9. Balanced(allocatedBytes, OwedBytes + d, Stored + d)
  BY <1>1, <1>2, <1>3, Rebalance, Zenon
<1>10. Balanced(keyCount, OwedKeys + (-1), Cardinality(DOMAIN items) + (-1))
  BY <1>1, <1>2, <1>7, Rebalance
<1>11. AccountsBalance'
  BY <1>4, <1>7, <1>8, <1>9, <1>10, Zenon DEF AccountsBalance, Balanced
<1>12. Stored' = Stored - sizes[k]
  BY <1>2, <1>3, <1>4, <1>8, Zenon
<1>13. QED
  BY <1>1, <1>4, <1>7, <1>11, <1>12, Zenon DEF BalanceInv

(* The adds: the counters are adjusted by what is no longer owed.          *)
LEMMA PaysBalance ==
  ASSUME BalanceInv, ShapeInv', NEW g \in Goroutines, Pays(g)
  PROVE  BalanceInv'
<1>1. ShapeInv /\ IsFiniteSet(DOMAIN items) /\ allocatedBytes \in Int /\ keyCount \in Int
      /\ Balanced(allocatedBytes, OwedBytes, Stored)
      /\ Balanced(keyCount, OwedKeys, Cardinality(DOMAIN items))
  BY DEF BalanceInv, AccountsBalance, Balanced
<1>2. /\ IsFiniteSet(Goroutines) /\ bytes \in [Goroutines -> Int] /\ keys \in [Goroutines -> Int]
      /\ OwedBytes = SumFunction(bytes) /\ OwedKeys = SumFunction(keys)
      /\ Stored = SumFunction(sizes)
      /\ OwedBytes \in Int /\ OwedKeys \in Int /\ Stored \in Int
  BY <1>1, Numbers
<1>3. PICK d \in Int, e \in Int : d = bytes[g] /\ e = keys[g]
  BY <1>2
<1>4. /\ sizes' = sizes /\ bytes' = [bytes EXCEPT ![g] = 0] /\ keys' = [keys EXCEPT ![g] = 0]
      /\ allocatedBytes' = (allocatedBytes + d) % Modulus /\ keyCount' = (keyCount + e) % Modulus
  BY <1>3 DEF Pays
<1>5. SumFunction(bytes') = SumFunction(bytes) - d /\ SumFunction(keys') = SumFunction(keys) - e
  <2>1. /\ Differs(bytes', bytes, Goroutines, g) /\ bytes'[g] = 0
        /\ Differs(keys', keys, Goroutines, g) /\ keys'[g] = 0
    BY <1>2, <1>4, SMTT(30) DEF Differs
  <2>2. SumFunction(bytes') = SumFunction(bytes) - bytes[g] + bytes'[g]
    BY <2>1, SumChange
  <2>3. SumFunction(keys') = SumFunction(keys) - keys[g] + keys'[g]
    BY <2>1, SumChange, SMTT(30)
  <2>4. QED
    BY <1>2, <1>3, <2>1, <2>2, <2>3, SMTT(30)
<1>6. DOMAIN items' = DOMAIN items
  BY <1>4 DEF sizes
<1>7. Stored' = Stored /\ OwedBytes' = OwedBytes - d /\ OwedKeys' = OwedKeys - e
  <2>1. /\ Stored' = SumFunction(sizes') /\ OwedBytes' = SumFunction(bytes')
        /\ OwedKeys' = SumFunction(keys')
    BY DEF OwedBytes, OwedKeys, Stored, bytes, keys, sizes
  <2>2. QED
    BY <1>2, <1>4, <1>5, <2>1, Zenon
<1>8. /\ Balanced((allocatedBytes + d) % Modulus, OwedBytes - d, Stored)
      /\ (allocatedBytes + d) % Modulus \in Int
  BY <1>1, <1>2, <1>3, Rebalance, Zenon
<1>9. /\ Balanced((keyCount + e) % Modulus, OwedKeys - e, Cardinality(DOMAIN items))
      /\ (keyCount + e) % Modulus \in Int
  <2>1. Cardinality(DOMAIN items) \in Int
    BY <1>1, FS_CardinalityType
  <2>2. QED
    BY <1>1, <1>2, <1>3, <2>1, Rebalance, Zenon
<1>10. AccountsBalance'
  BY <1>4, <1>6, <1>7, <1>8, <1>9, Zenon DEF AccountsBalance, Balanced
<1>11. QED
  BY <1>1, <1>4, <1>6, <1>8, <1>9, <1>10, Zenon DEF BalanceInv

(* A sum of zeros.                                                         *)
LEMMA SumZero ==
  ASSUME NEW S, IsFiniteSet(S), NEW f \in [S -> Int], \A x \in S : f[x] = 0
  PROVE  SumFunction(f) = 0
<1>1. \A x \in S : f[x] = f[x] + f[x]
  OBVIOUS
<1>2. SumFunction(f) = SumFunction(f) + SumFunction(f)
  BY <1>1, SumPlus
<1>3. SumFunction(f) \in Int
  BY SumType
<1>4. \A n \in Int : n = n + n => n = 0
  OBVIOUS
<1>5. QED
  BY <1>2, <1>3, <1>4, Zenon

(* An engine that has just been made is empty, and owes nothing.           *)
LEMMA InitBalance ==
  ASSUME Init
  PROVE  BalanceInv /\ Stored = 0 /\ \A g \in Goroutines : bytes[g] = 0 /\ reserved[g] = 0
<1>1. /\ DOMAIN items = {} /\ allocatedBytes = 0 /\ keyCount = 0
      /\ op = [g \in Goroutines |-> Nothing] /\ pc = [g \in Goroutines |-> "idle"]
  BY DEF Init
<1>2. ShapeInv
  BY <1>1, NothingShape DEF ShapeInv, ItemsShape, OpsShape, Goroutines
<1>3. \A g \in Goroutines : bytes[g] = 0 /\ keys[g] = 0 /\ reserved[g] = 0
  BY <1>1, NothingShape DEF bytes, keys, reserved
<1>4. IsFiniteSet(DOMAIN items) /\ Cardinality(DOMAIN items) = 0
  BY <1>1, FS_EmptySet
<1>5. /\ IsFiniteSet(Goroutines) /\ bytes \in [Goroutines -> Int] /\ keys \in [Goroutines -> Int]
      /\ DOMAIN sizes = DOMAIN items /\ sizes \in [DOMAIN sizes -> Int]
      /\ OwedBytes = SumFunction(bytes) /\ OwedKeys = SumFunction(keys)
      /\ Stored = SumFunction(sizes)
  BY <1>2, <1>4, Numbers
<1>6. OwedBytes = 0 /\ OwedKeys = 0 /\ Stored = 0
  <2>1. OwedBytes = 0
    BY <1>3, <1>5, SumZero
  <2>2. OwedKeys = 0
    BY <1>3, <1>5, SumZero, SMTT(30)
  <2>3. Stored = 0
    <3>1. PICK S : S = DOMAIN sizes
      OBVIOUS
    <3>2. IsFiniteSet(S) /\ sizes \in [S -> Int] /\ \A x \in S : sizes[x] = 0
      BY <1>1, <1>4, <1>5, <3>1, Zenon
    <3>3. QED
      BY <1>5, <3>2, SumZero
  <2>4. QED
    BY <2>1, <2>2, <2>3
<1>7. AccountsBalance
  BY <1>1, <1>4, <1>6, EngineAssumption DEF AccountsBalance
<1>8. QED
  BY <1>1, <1>2, <1>3, <1>4, <1>6, <1>7, SMTT(30) DEF BalanceInv

(* Every step keeps the balance.                                           *)
LEMMA StepBalance ==
  ASSUME BalanceInv, [Next]_vars
  PROVE  BalanceInv'
<1>1. ShapeInv' /\ Kinds
  BY StepKinds DEF BalanceInv
<1>2. Loops \subseteq Goroutines
  BY DEF Goroutines
<1>3. CASE Same
  BY <1>1, <1>3, SameBalance, SMTT(30) DEF Same
<1>4. ASSUME NEW c \in Loops, NEW n, Begins(c, n) PROVE BalanceInv'
  BY <1>1, <1>4, SameBalance DEF Begins
<1>5. ASSUME NEW c \in Loops, NEW k, Stores(c, k) PROVE BalanceInv'
  BY <1>1, <1>2, <1>5, StoresBalance
<1>6. ASSUME NEW g \in Goroutines, NEW k, Removes(g, k) PROVE BalanceInv'
  BY <1>1, <1>6, RemovesBalance
<1>7. ASSUME NEW g \in Goroutines, Pays(g) PROVE BalanceInv'
  BY <1>1, <1>7, PaysBalance
<1>8. QED
  BY <1>1, <1>3, <1>4, <1>5, <1>6, <1>7, Zenon DEF Kinds

(* AccountsBalance holds for any number of event loops, any sizes and any  *)
(* width of the counters: whatever the order in which Set, Delete, lazy    *)
(* eviction and the wheel take the lock and then adjust allocatedBytes and *)
(* keyCount, the counters are off by exactly what is still to be added.    *)
THEOREM AccountsAlwaysBalance == Spec => []AccountsBalance
<1>1. Init => BalanceInv
  BY InitBalance
<1>2. BalanceInv /\ [Next]_vars => BalanceInv'
  BY StepBalance
<1>3. BalanceInv => AccountsBalance
  BY DEF BalanceInv
<1>4. QED
  BY <1>1, <1>2, <1>3, PTL DEF Spec

-------------------------------------------------------------------------------
(* The ceiling *)

(* MaxEntry bounds the sizes.                                              *)
LEMMA EntrySizes ==
  /\ MaxEntry \in Nat /\ \A l \in StoredLens : l \in Nat /\ l <= MaxEntry
  /\ Cardinality(Loops) \in Nat /\ Cardinality(Loops) > 0
  /\ (Cardinality(Loops) - 1) * MaxEntry \in Nat
  /\ MaxBytes + (Cardinality(Loops) - 1) * MaxEntry + (Cardinality(Loops) + 1) * MaxEntry + MaxEntry < Modulus
<1>1. PICK n \in StoredLens : \A l \in StoredLens : l <= n
  BY SizeAssumption
<1>2. n \in StoredLens /\ \A l \in StoredLens : n >= l
  BY <1>1, SizesAreNat
<1>3. MaxEntry \in StoredLens /\ \A l \in StoredLens : MaxEntry >= l
  BY <1>2, Zenon DEF MaxEntry, Max
<1>4. MaxEntry \in Nat /\ \A l \in StoredLens : l \in Nat /\ l <= MaxEntry
  BY <1>3, SizesAreNat
<1>5. Cardinality(Loops) \in Nat /\ Cardinality(Loops) > 0
  BY EngineAssumption, FS_CardinalityType, FS_EmptySet
<1>6. PICK m \in Nat, c \in Nat : m = MaxEntry /\ c = Cardinality(Loops) - 1
  BY <1>4, <1>5
<1>7. c * m \in Nat /\ (c + 2) * m = c * m + m + m /\ (2 * (c + 1) + 1) * m = c * m + c * m + m + m + m
  OBVIOUS
<1>8. MaxBytes + (2 * (c + 1) + 1) * m < Modulus
  BY <1>5, <1>6, SizeAssumption
<1>9. MaxBytes + c * m + (c + 2) * m + m < Modulus
  BY <1>7, <1>8, EngineAssumption
<1>10. Cardinality(Loops) + 1 = c + 2 /\ Cardinality(Loops) - 1 = c
  BY <1>5, <1>6
<1>11. QED
  BY <1>4, <1>5, <1>6, <1>7, <1>9, <1>10, Zenon

(* What is reserved is a length.                                           *)
LEMMA ReservedShape ==
  ASSUME ShapeInv
  PROVE  /\ reserved \in [Goroutines -> Int] /\ \A g \in Goroutines : reserved[g] >= 0
         /\ SumFunction(reserved) \in Int /\ SumFunction(reserved) >= 0
<1>1. /\ reserved \in [Goroutines -> Int]
      /\ \A g \in Goroutines : reserved[g] \in Nat
  <2>1. \A g \in Goroutines : pc[g] = "lock" => op[g].size \in Nat
    BY SizesAreNat, Zenon DEF ShapeInv, OpsShape
  <2>2. QED
    BY <2>1 DEF reserved
<1>2. IsFiniteSet(Goroutines)
  BY EngineAssumption, FS_AddElement DEF Goroutines
<1>3. PICK f \in [Goroutines -> Int] : \A g \in Goroutines : f[g] = -reserved[g]
  <2>1. [g \in Goroutines |-> -reserved[g]] \in [Goroutines -> Int]
    BY <1>1
  <2>2. QED
    BY <2>1, Zenon
<1>4. PICK z \in [Goroutines -> Int] : \A g \in Goroutines : z[g] = 0
  <2>1. [g \in Goroutines |-> 0] \in [Goroutines -> Int]
    OBVIOUS
  <2>2. QED
    BY <2>1, Zenon
<1>5. SumFunction(z) = SumFunction(reserved) + SumFunction(f)
  <2>1. \A g \in Goroutines : z[g] = reserved[g] + f[g]
    BY <1>1, <1>3, <1>4
  <2>2. QED
    BY <1>1, <1>2, <2>1, SumPlus
<1>6. SumFunction(z) = 0
  BY <1>2, <1>4, SumZero
<1>7. SumFunction(f) <= Cardinality(Goroutines) * 0
  <2>1. \A g \in Goroutines : f[g] <= 0
    BY <1>1, <1>3
  <2>2. QED
    BY <1>2, <2>1, SumUpper
<1>8. SumFunction(reserved) \in Int /\ SumFunction(f) \in Int
  BY <1>1, <1>2, SumType
<1>9. Cardinality(Goroutines) * 0 = 0
  BY <1>2, FS_CardinalityType
<1>10. QED
  BY <1>1, <1>5, <1>6, <1>7, <1>8, <1>9, SMTT(30)

\* The bound on each goroutine.
Slack(g) ==
  /\ -MaxEntry <= bytes[g]
  /\ bytes[g] + reserved[g] <= IF g = Wheel THEN 0 ELSE MaxEntry

(* The goroutines owe and reserve, taken together, at most an entry for    *)
(* each event loop other than one that does neither.                       *)
LEMMA OthersBound ==
  ASSUME ShapeInv, \A g \in Goroutines : Slack(g),
         NEW c \in Loops, bytes[c] = 0, reserved[c] = 0
  PROVE  SumFunction(bytes) + SumFunction(reserved) <= (Cardinality(Loops) - 1) * MaxEntry
<1>1. /\ IsFiniteSet(Goroutines) /\ IsFiniteSet(Loops)
      /\ bytes \in [Goroutines -> Int] /\ reserved \in [Goroutines -> Int]
  BY EngineAssumption, FS_AddElement, ReservedShape, Zenon DEF Goroutines, ShapeInv, OpsShape, bytes
<1>2. PICK f : f = [g \in Goroutines |-> bytes[g] + reserved[g]]
  BY Zenon
<1>3. f \in [Goroutines -> Int] /\ \A g \in Goroutines : f[g] = bytes[g] + reserved[g]
  BY <1>1, <1>2
<1>4. SumFunction(f) = SumFunction(bytes) + SumFunction(reserved)
  BY <1>1, <1>3, SumPlus
<1>5. PICK h : h = [g \in Loops |-> f[g]]
  BY Zenon
<1>6. PICK R : R = Loops \ {c}
  BY Zenon
<1>7. PICK j : j = [g \in R |-> f[g]]
  BY Zenon
<1>8. Splits(f, Goroutines, Wheel, h, Loops) /\ Splits(h, Loops, c, j, R)
  BY <1>1, <1>3, <1>5, <1>6, <1>7, EngineAssumption, Zenon DEF Splits, Goroutines
<1>9. /\ SumFunction(f) = f[Wheel] + SumFunction(h) /\ f[Wheel] \in Int
      /\ SumFunction(h) = h[c] + SumFunction(j) /\ h[c] \in Int /\ SumFunction(j) \in Int
  BY <1>8, SumSplit
<1>10. f[Wheel] <= 0 /\ h[c] = 0
  BY <1>1, <1>3, <1>5 DEF Slack, Goroutines
<1>11. SumFunction(j) <= Cardinality(R) * MaxEntry
  <2>1. IsFiniteSet(R) /\ j \in [R -> Int] /\ MaxEntry \in Int
    BY <1>1, <1>3, <1>6, <1>7, EntrySizes, FS_RemoveElement, SMTT(30) DEF Goroutines
  <2>2. \A g \in R : j[g] <= MaxEntry
    BY <1>3, <1>6, <1>7, EngineAssumption, Zenon DEF Slack, Goroutines
  <2>3. QED
    BY <2>1, <2>2, SumUpper, Zenon
<1>12. Cardinality(R) = Cardinality(Loops) - 1
  BY <1>1, <1>6, FS_RemoveElement, Zenon
<1>13. SumFunction(f) <= Cardinality(R) * MaxEntry
  <2>1. Cardinality(R) * MaxEntry \in Int
    BY <1>12, EntrySizes
  <2>2. QED
    BY <1>9, <1>10, <1>11, <2>1, SMTT(30)
<1>14. QED
  BY <1>4, <1>12, <1>13, Zenon

(* No goroutine owes more than the removal of one entry.                   *)
LEMMA OwedBound ==
  ASSUME ShapeInv, \A g \in Goroutines : Slack(g)
  PROVE  0 - SumFunction(bytes) <= (Cardinality(Loops) + 1) * MaxEntry
<1>1. IsFiniteSet(Goroutines) /\ bytes \in [Goroutines -> Int]
  BY EngineAssumption, FS_AddElement, Zenon DEF Goroutines, ShapeInv, OpsShape, bytes
<1>2. PICK f : f = [g \in Goroutines |-> -bytes[g]]
  BY Zenon
<1>3. PICK z : z = [g \in Goroutines |-> 0]
  BY Zenon
<1>4. /\ f \in [Goroutines -> Int] /\ z \in [Goroutines -> Int]
      /\ \A g \in Goroutines : z[g] = 0 /\ z[g] = bytes[g] + f[g]
  BY <1>1, <1>2, <1>3
<1>5. SumFunction(z) = SumFunction(bytes) + SumFunction(f)
  <2>1. f \in [Goroutines -> Int] /\ z \in [Goroutines -> Int]
    BY <1>4
  <2>2. \A g \in Goroutines : z[g] = bytes[g] + f[g]
    BY <1>4
  <2>3. QED
    BY <1>1, <2>1, <2>2, SumPlus
<1>6. SumFunction(z) = 0
  BY <1>1, <1>4, SumZero, Zenon
<1>7. SumFunction(f) <= Cardinality(Goroutines) * MaxEntry
  <2>1. MaxEntry \in Int /\ \A g \in Goroutines : f[g] <= MaxEntry
    BY <1>1, <1>2, EntrySizes DEF Slack
  <2>2. QED
    BY <1>1, <1>4, <2>1, SumUpper, Zenon
<1>8. SumFunction(bytes) \in Int /\ SumFunction(f) \in Int
  BY <1>1, <1>4, SumType, Zenon
<1>9. Cardinality(Goroutines) = Cardinality(Loops) + 1
  BY EngineAssumption, FS_AddElement DEF Goroutines
<1>10. 0 - SumFunction(bytes) = SumFunction(f)
  BY <1>5, <1>6, <1>8
<1>11. QED
  BY <1>7, <1>9, <1>10, Zenon

(* A number below the modulus whose remainder respects a bound.            *)
LEMMA SmallRemainder ==
  ASSUME NEW x \in Int, x < Modulus, x % Modulus <= MaxBytes
  PROVE  x <= MaxBytes
<1>1. CASE x < 0
  BY <1>1, EngineAssumption
<1>2. CASE x >= 0
  <2>1. x % Modulus = x
    BY <1>2, EngineAssumption
  <2>2. QED
    BY <2>1
<1>3. QED
  BY <1>1, <1>2

(* The check of the ceiling, in Set, SetFromBuffer and SetRaw.             *)
LEMMA BeginsCeiling ==
  ASSUME BalanceInv, CeilingInv, ShapeInv', NEW c \in Loops, NEW n, Begins(c, n)
  PROVE  CeilingInv'
<1>1. /\ ShapeInv /\ IsFiniteSet(DOMAIN items) /\ allocatedBytes \in Int
      /\ \A g \in Goroutines : Slack(g)
      /\ Balanced(allocatedBytes, OwedBytes, Stored)
  BY DEF BalanceInv, AccountsBalance, Balanced, CeilingInv, Slack
<1>2. /\ IsFiniteSet(Goroutines) /\ bytes \in [Goroutines -> Int] /\ Stored = SumFunction(sizes)
      /\ OwedBytes = SumFunction(bytes) /\ OwedBytes \in Int /\ Stored \in Int
  BY <1>1, Numbers
<1>3. /\ reserved \in [Goroutines -> Int] /\ SumFunction(reserved) \in Int /\ SumFunction(reserved) >= 0
  BY <1>1, ReservedShape, Zenon
<1>4. /\ n \in Nat /\ n <= MaxEntry /\ bytes[c] = 0 /\ reserved[c] = 0 /\ c \in Goroutines /\ c # Wheel
      /\ bytes' = bytes /\ sizes' = sizes /\ reserved' = [reserved EXCEPT ![c] = n]
  BY EntrySizes, EngineAssumption, Zenon DEF Begins, Goroutines
<1>5. Stored' = Stored
  BY <1>4 DEF Stored, sizes
<1>6. SumFunction(reserved') = SumFunction(reserved) + n
  <2>1. Differs(reserved', reserved, Goroutines, c) /\ reserved'[c] = n
    BY <1>2, <1>3, <1>4 DEF Differs
  <2>2. SumFunction(reserved') = SumFunction(reserved) - reserved[c] + reserved'[c]
    BY <2>1, SumChange, SMTT(30)
  <2>3. QED
    BY <1>3, <1>4, <2>1, <2>2, SMTT(30)
<1>7. \A g \in Goroutines : Slack(g)'
  BY <1>1, <1>2, <1>3, <1>4, EntrySizes, SMTT(30) DEF Slack
<1>8. ASSUME MaxBytes > 0
      PROVE  Stored + (SumFunction(reserved) + n) <= MaxBytes + (Cardinality(Loops) - 1) * MaxEntry
  <2>1. PICK x \in Int : x = Stored - OwedBytes + n
    BY <1>2, <1>4
  <2>2. x % Modulus <= MaxBytes
    <3>1. (allocatedBytes + n) % Modulus <= MaxBytes
      <4>1. PICK w \in Int : w = (allocatedBytes + n) % Modulus
        BY <1>1, <1>4, EngineAssumption
      <4>2. ~(w > MaxBytes)
        BY <1>8, <4>1, Zenon DEF Begins, Full
      <4>3. QED
        BY <4>1, <4>2, EngineAssumption, SMTT(30)
    <3>2. PICK d \in Int : d = n - OwedBytes
      BY <1>2, <1>4
    <3>3. Balanced(allocatedBytes, OwedBytes + d, Stored + d)
      BY <1>1, <1>2, Rebalance, SMTT(30)
    <3>4. OwedBytes + d = n /\ Stored + d = x
      BY <1>2, <1>4, <2>1, <3>2, SMTT(30)
    <3>5. QED
      BY <3>1, <3>3, <3>4, Zenon DEF Balanced
  <2>3. Stored + SumFunction(reserved) <= MaxBytes + (Cardinality(Loops) - 1) * MaxEntry
    BY <1>8 DEF CeilingInv
  <2>4. PICK most \in Nat, all \in Int : most = (Cardinality(Loops) - 1) * MaxEntry
                                      /\ all = (Cardinality(Loops) + 1) * MaxEntry
    BY EntrySizes
  <2>5. MaxBytes + most + all + MaxEntry < Modulus /\ 0 - OwedBytes <= all
    BY <1>1, <1>2, <2>4, EntrySizes, OwedBound, SMTT(30)
  <2>6. x < Modulus
    BY <1>2, <1>3, <1>4, <2>1, <2>3, <2>4, <2>5, EntrySizes, EngineAssumption, SMTT(30)
  <2>7. x <= MaxBytes
    BY <2>2, <2>6, SmallRemainder, Zenon
  <2>8. OwedBytes + SumFunction(reserved) <= most
    BY <1>1, <1>2, <1>4, <2>4, OthersBound, Zenon
  <2>9. QED
    BY <1>2, <1>3, <1>4, <2>1, <2>4, <2>7, <2>8, EngineAssumption, SMTT(30)
<1>9. QED
  BY <1>5, <1>6, <1>7, <1>8, Zenon DEF CeilingInv, Slack

(* StoreItem, a removal and the adds reserve nothing more.                 *)
LEMMA OthersCeiling ==
  ASSUME BalanceInv, CeilingInv, ShapeInv', NEW g \in Goroutines,
         \/ g \in Loops /\ \E k : Stores(g, k)
         \/ \E k : Removes(g, k)
         \/ Pays(g)
  PROVE  CeilingInv'
<1>1. /\ ShapeInv /\ IsFiniteSet(DOMAIN items) /\ \A i \in Goroutines : Slack(i)
      /\ MaxBytes > 0 => Stored + SumFunction(reserved) <= MaxBytes + (Cardinality(Loops) - 1) * MaxEntry
  BY Zenon DEF BalanceInv, CeilingInv, Slack
<1>2. /\ IsFiniteSet(Goroutines) /\ bytes \in [Goroutines -> Int] /\ Stored \in Int
      /\ \A k \in DOMAIN sizes : sizes[k] \in StoredLens
  BY <1>1, Numbers
<1>3. /\ reserved \in [Goroutines -> Int] /\ SumFunction(reserved) \in Int
      /\ \A i \in Goroutines : reserved[i] >= 0
  BY <1>1, ReservedShape
<1>4. PICK most \in Nat : most = (Cardinality(Loops) - 1) * MaxEntry
  BY EntrySizes
<1> MaxBytes \in Nat
  BY EngineAssumption, Zenon
<1>5. ASSUME NEW k, g \in Loops, Stores(g, k) PROVE CeilingInv'
  <2>1. PICK old : old = IF k \in DOMAIN sizes THEN sizes[k] ELSE 0
    BY Zenon
  <2>2. old \in Nat /\ old <= MaxEntry /\ reserved[g] \in Nat /\ reserved[g] <= MaxEntry
    BY <1>2, <1>5, <2>1, EntrySizes, SMTT(30) DEF Stores
  <2>3. bytes' = [bytes EXCEPT ![g] = reserved[g] - old] /\ reserved' = [reserved EXCEPT ![g] = 0]
    BY <1>5, <2>1 DEF Stores
  <2>4. Stored' = Stored + (reserved[g] - old)
    BY <1>5, <2>1, StoresBalance, Zenon
  <2>5. SumFunction(reserved') = SumFunction(reserved) - reserved[g]
    <3>1. Differs(reserved', reserved, Goroutines, g) /\ reserved'[g] = 0
      BY <1>2, <1>3, <2>3 DEF Differs
    <3>2. SumFunction(reserved') = SumFunction(reserved) - reserved[g] + reserved'[g]
      BY <3>1, SumChange
    <3>3. QED
      BY <1>3, <3>1, <3>2
  <2>6. \A i \in Goroutines : Slack(i)'
    BY <1>1, <1>2, <1>3, <1>5, <2>2, <2>3, EntrySizes, EngineAssumption, SMTT(30) DEF Slack
  <2>7. MaxBytes > 0 => Stored' + SumFunction(reserved') <= MaxBytes + most
    <3>1. Stored' + SumFunction(reserved') = Stored + SumFunction(reserved) - old
      BY <1>2, <1>3, <2>2, <2>4, <2>5, SMTT(30)
    <3>2. QED
      BY <1>1, <1>2, <1>3, <1>4, <2>2, <3>1, SMTT(30)
  <2>8. QED
    BY <1>4, <2>6, <2>7, Zenon DEF CeilingInv, Slack
<1>6. ASSUME NEW k, Removes(g, k) PROVE CeilingInv'
  <2>1. /\ sizes[k] \in Nat /\ sizes[k] <= MaxEntry /\ reserved[g] = 0
        /\ bytes' = [bytes EXCEPT ![g] = -sizes[k]] /\ reserved' = reserved
    BY <1>2, <1>6, EntrySizes, Zenon DEF Removes
  <2>2. Stored' = Stored - sizes[k]
    BY <1>6, RemovesBalance, Zenon
  <2>3. \A i \in Goroutines : Slack(i)'
    BY <1>1, <1>2, <1>3, <2>1, EntrySizes, SMTT(30) DEF Slack
  <2>4. MaxBytes > 0 => Stored' + SumFunction(reserved') <= MaxBytes + most
    BY <1>1, <1>2, <1>3, <1>4, <2>1, <2>2, SMTT(30)
  <2>5. QED
    BY <1>4, <2>3, <2>4 DEF CeilingInv, Slack
<1>7. ASSUME Pays(g) PROVE CeilingInv'
  <2>1. bytes' = [bytes EXCEPT ![g] = 0] /\ reserved' = reserved /\ reserved[g] = 0 /\ sizes' = sizes
    BY <1>7 DEF Pays
  <2>2. Stored' = Stored
    BY <2>1, Zenon DEF Stored, sizes
  <2>3. \A i \in Goroutines : Slack(i)'
    BY <1>1, <1>2, <1>3, <2>1, EntrySizes DEF Slack
  <2>4. QED
    BY <1>1, <2>1, <2>2, <2>3, Zenon DEF CeilingInv, Slack
<1>8. QED
  BY <1>5, <1>6, <1>7

(* Every step keeps the bound.                                             *)
LEMMA StepCeiling ==
  ASSUME BalanceInv, CeilingInv, [Next]_vars
  PROVE  CeilingInv'
<1>1. ShapeInv' /\ Kinds
  BY StepKinds DEF BalanceInv
<1>2. Loops \subseteq Goroutines
  BY DEF Goroutines
<1>3. ASSUME Same PROVE CeilingInv'
  <2>1. sizes' = sizes /\ bytes' = bytes /\ reserved' = reserved
    BY <1>3 DEF Same
  <2>2. Stored' = Stored
    BY <2>1 DEF Stored, sizes
  <2>3. QED
    BY <2>1, <2>2 DEF CeilingInv
<1>4. ASSUME NEW c \in Loops, NEW n, Begins(c, n) PROVE CeilingInv'
  BY <1>1, <1>4, BeginsCeiling, Zenon
<1>5. ASSUME NEW c \in Loops, NEW k, Stores(c, k) PROVE CeilingInv'
  BY <1>1, <1>2, <1>5, OthersCeiling, Zenon
<1>6. ASSUME NEW g \in Goroutines, (\E k : Removes(g, k)) \/ Pays(g) PROVE CeilingInv'
  BY <1>1, <1>6, OthersCeiling, Zenon
<1>7. QED
  BY <1>1, <1>3, <1>4, <1>5, <1>6, Zenon DEF Kinds

(* OvershootBounded for any number of event loops: since the ceiling is    *)
(* checked against allocatedBytes before the lock is taken, and counted    *)
(* after it is released, event loops may pass it together, but exceed it   *)
(* by no more than an entry for each loop but one.                         *)
THEOREM OvershootAlwaysBounded == Spec => []OvershootBounded
<1>1. Init => BalanceInv /\ CeilingInv
  <2>1. SUFFICES ASSUME Init PROVE BalanceInv /\ CeilingInv
    OBVIOUS
  <2>2. BalanceInv /\ Stored = 0 /\ \A g \in Goroutines : bytes[g] = 0 /\ reserved[g] = 0
    BY <2>1, InitBalance, Zenon
  <2>3. ShapeInv /\ IsFiniteSet(Goroutines)
    BY <2>2, EngineAssumption, FS_AddElement, Zenon DEF BalanceInv, Goroutines
  <2>4. SumFunction(reserved) = 0
    BY <2>2, <2>3, ReservedShape, SumZero, Zenon
  <2>5. QED
    BY <2>2, <2>4, EntrySizes, EngineAssumption DEF CeilingInv
<1>2. BalanceInv /\ CeilingInv /\ [Next]_vars => BalanceInv' /\ CeilingInv'
  BY StepBalance, StepCeiling, Zenon
<1>3. BalanceInv /\ CeilingInv => OvershootBounded
  <2>1. SUFFICES ASSUME BalanceInv, CeilingInv PROVE OvershootBounded
    OBVIOUS
  <2>2. Stored \in Int /\ SumFunction(reserved) \in Int /\ SumFunction(reserved) >= 0
    BY <2>1, Numbers, ReservedShape DEF BalanceInv
  <2>3. QED
    BY <2>1, <2>2, EntrySizes, EngineAssumption DEF CeilingInv, OvershootBounded
<1>4. QED
  BY <1>1, <1>2, <1>3, PTL DEF Spec

-------------------------------------------------------------------------------
(* What is removed *)

(* LiveKept: deleteIfExpired, of a Get that has found the entry expired or *)
(* of the wheel, looks again under the lock, so that an entry with time    *)
(* left is only ever removed by a Delete.                                  *)
THEOREM LiveAlwaysKept == Spec => LiveKept
<1> DEFINE Removed == DOMAIN items \ DOMAIN items'
           Deleted == \E c \in Loops : pc[c] = "idle" /\ pc'[c] = "release"
           Kept == \A k \in Removed : Expired(items[k]) \/ Deleted
<1>1. ShapeInv /\ [Next]_vars => [Kept]_vars
  <2>1. SUFFICES ASSUME ShapeInv, Next PROVE Kept
    OBVIOUS
  <2>2. DOMAIN pc = Goroutines /\ Loops \subseteq Goroutines
    BY <2>1, Zenon DEF ShapeInv, OpsShape, Goroutines
  <2>3. ASSUME NEW c \in Loops, NEW k \in Keys, Delete(c, k) PROVE Kept
    <3>1. Deleted
      BY <2>2, <2>3 DEF Delete, Goto
    <3>2. QED
      BY <3>1
  <2>4. ASSUME NEW g, NEW k, NEW label, deleteIfExpired(g, k, label) PROVE Kept
    BY <2>4 DEF deleteIfExpired, Without
  <2>5. ASSUME NEW c \in Loops, StoreItem(c) PROVE Removed = {}
    BY <2>5 DEF StoreItem, With
  <2>6. ASSUME TimePasses PROVE Removed = {}
    BY <2>6 DEF TimePasses
  <2>7. ASSUME UNCHANGED items PROVE Removed = {}
    BY <2>7
  <2>8. ASSUME NEW c \in Loops, Request(c) \/ Continue(c) PROVE Kept
    <3>1. CASE \E k \in Keys : Delete(c, k)
      BY <2>3, <3>1, Zenon
    <3>2. CASE LazyEviction(c)
      BY <2>4, <3>2, Zenon DEF LazyEviction
    <3>3. CASE StoreItem(c)
      BY <2>5, <3>3
    <3>4. ASSUME NEW w \in Writes, Set(c, w) \/ SetFromBuffer(c, w) \/ SetRaw(c, w) PROVE Kept
      BY <2>7, <3>4 DEF Set, SetFromBuffer, SetRaw, BeginStore
    <3>5. ASSUME NEW k \in Keys, Get(c, k) PROVE Kept
      BY <2>7, <3>5, Zenon DEF Get
    <3>6. CASE CountItem(c) \/ Register(c) \/ releaseKey(c)
      BY <2>7, <3>6 DEF CountItem, Register, releaseKey
    <3>7. QED
      BY <2>8, <3>1, <3>2, <3>3, <3>4, <3>5, <3>6, Zenon DEF Request, Continue
  <2>9. ASSUME Advance PROVE Kept
    <3>1. CASE AdvanceTake \/ AdvanceStore \/ releaseKey(Wheel)
      BY <2>7, <3>1, Zenon DEF AdvanceTake, AdvanceStore, releaseKey
    <3>2. CASE AdvanceDelete
      BY <2>4, <3>2 DEF AdvanceDelete
    <3>3. QED
      BY <2>9, <3>1, <3>2, Zenon DEF Advance
  <2>10. QED
    BY <2>1, <2>6, <2>8, <2>9, Zenon DEF Next
<1>2. Init => ShapeInv
  BY InitBalance DEF BalanceInv
<1>3. ShapeInv /\ [Next]_vars => ShapeInv'
  BY StepKinds
<1>4. QED
  BY <1>1, <1>2, <1>3, PTL DEF Spec, LiveKept

==============================================================================
