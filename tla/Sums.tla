-------------------------------- MODULE Sums --------------------------------
(***************************************************************************)
(* Sums over finite sets, as MapThenSumSet defines them: a fold that takes *)
(* the elements one at a time in the order CHOOSE names them.  What a sum  *)
(* is, and how it moves when a term does, is proved by induction, written  *)
(* here as: of the counterexamples there would be a smallest one.          *)
(***************************************************************************)
EXTENDS Integers, FiniteSets, FiniteSetsExt, FiniteSetTheorems, TLAPS

\* The sum of f over S.
SumOver(f, S) == MapThenSumSet(LAMBDA x : f[x], S)

\* The fold itself: its first element, and its value on every subset of S.
First(s) == CHOOSE x \in s : TRUE
Folded(f, g, s) == IF s = {} THEN 0 ELSE f[First(s)] + g[s \ {First(s)}]
Iter(f, S) == CHOOSE iter : iter = [s \in SUBSET S |-> Folded(f, iter, s)]

\* A set of natural numbers has a least one.
LEMMA LeastNatural ==
  ASSUME NEW T, T \subseteq Nat, T # {}
  PROVE  \E x \in T : \A y \in T : x <= y
<1>1. PICK x \in T : \A y \in T : ~(<< y, x >> \in OpToRel(<, Nat))
  BY NatLessThanWellFounded, WFMin
<1>2. \A y \in T : ~(y < x)
  BY <1>1 DEF OpToRel
<1>3. QED
  BY <1>2

\* A bounded set of natural numbers has a greatest one.
LEMMA BoundedMax ==
  ASSUME NEW K, K \subseteq Nat, K # {}, NEW n \in Nat, \A k \in K : k <= n
  PROVE  Max(K) \in K /\ \A k \in K : k <= Max(K)
<1> DEFINE T == {j \in Nat : \A k \in K : k <= j}
<1>1. n \in T
  OBVIOUS
<1>2. PICK b \in T : \A y \in T : b <= y
  BY <1>1, LeastNatural, T \subseteq Nat
<1>3. b \in K
  <2>1. CASE b = 0
    <3>1. PICK k \in K : TRUE
      OBVIOUS
    <3>2. k = 0
      BY <2>1, <1>2
    <3>3. QED
      BY <3>1, <3>2, <2>1
  <2>2. CASE b # 0 /\ b \notin K
    <3>1. b - 1 \in T
      BY <2>2, <1>2
    <3>2. QED
      BY <3>1, <1>2
  <2>3. QED
    BY <2>1, <2>2
<1>4. \E y \in K : \A k \in K : k <= y
  BY <1>2, <1>3
<1>5. QED
  BY <1>4 DEF Max

\* Of the finite sets with some property there is a smallest one.
LEMMA SmallestSet ==
  ASSUME NEW C, C # {}, \A s \in C : IsFiniteSet(s)
  PROVE  \E s \in C : \A t \in C : Cardinality(s) <= Cardinality(t)
<1> DEFINE sizes == {Cardinality(s) : s \in C}
<1>1. sizes \subseteq Nat /\ sizes # {}
  BY FS_CardinalityType
<1>2. PICK n \in sizes : \A m \in sizes : n <= m
  BY <1>1, LeastNatural
<1>3. QED
  BY <1>2

\* Taking an element out makes a set smaller.
LEMMA Smaller ==
  ASSUME NEW s, IsFiniteSet(s), s # {}
  PROVE  /\ First(s) \in s /\ IsFiniteSet(s \ {First(s)})
         /\ Cardinality(s \ {First(s)}) \in Nat /\ Cardinality(s) \in Nat
         /\ Cardinality(s \ {First(s)}) = Cardinality(s) - 1
<1>1. First(s) \in s
  BY DEF First
<1>2. QED
  BY <1>1, FS_RemoveElement, FS_CardinalityType

\* A finite set of integers has a greatest element, and Max is it.
LEMMA FiniteMax ==
  ASSUME NEW S, S \subseteq Int, S # {}, IsFiniteSet(S)
  PROVE  Max(S) \in S /\ \A y \in S : Max(S) >= y
<1> DEFINE bad == {t \in SUBSET S : t # {} /\ ~\E x \in t : \A y \in t : x >= y}
<1>1. bad = {}
  <2> SUFFICES ASSUME bad # {} PROVE FALSE
    OBVIOUS
  <2>1. \A t \in bad : IsFiniteSet(t)
    BY FS_Subset
  <2>2. PICK t \in bad : \A v \in bad : Cardinality(t) <= Cardinality(v)
    BY <2>1, SmallestSet
  <2> DEFINE r == t \ {First(t)}
  <2>3. /\ First(t) \in t /\ Cardinality(r) \in Nat /\ Cardinality(t) \in Nat
        /\ Cardinality(r) = Cardinality(t) - 1
    BY <2>1, Smaller
  <2>4. r \in SUBSET S /\ r \notin bad
    <3>1. ~(Cardinality(t) <= Cardinality(r))
      BY <2>3
    <3>2. r \in SUBSET S
      OBVIOUS
    <3> HIDE DEF bad, r
    <3>3. QED
      BY <2>2, <3>1, <3>2
  <2>5. First(t) \in Int
    BY <2>3
  <2>6. CASE r = {}
    <3>1. \A y \in t : First(t) >= y
      BY <2>5, <2>6
    <3>2. QED
      BY <2>3, <3>1
  <2>7. CASE r # {}
    <3>1. PICK x \in r : \A y \in r : x >= y
      BY <2>4, <2>7
    <3>2. x \in Int /\ x \in t
      OBVIOUS
    <3>3. CASE x >= First(t)
      <4>1. \A y \in t : x >= y
        BY <3>1, <3>3
      <4>2. QED
        BY <3>2, <4>1
    <3>4. CASE ~(x >= First(t))
      <4>1. \A y \in r : y \in Int
        OBVIOUS
      <4>2. \A y \in t : First(t) >= y
        BY <2>5, <3>1, <3>2, <3>4, <4>1
      <4>3. QED
        BY <2>3, <4>2
    <3>5. QED
      BY <3>3, <3>4
  <2>8. QED
    BY <2>6, <2>7
<1>2. \E x \in S : \A y \in S : x >= y
  BY <1>1
<1>3. QED
  BY <1>2 DEF Max

\* A function that follows the fold on the subsets of S of at most k elements.
OfSize(S, k) == {s \in SUBSET S : Cardinality(s) <= k}
Follows(g, f, S, k) == \A s \in OfSize(S, k) : g[s] = Folded(f, g, s)

\* There is one for every k.
LEMMA FollowsExists ==
  ASSUME NEW f, NEW S, IsFiniteSet(S), NEW k \in Nat
  PROVE  \E g : Follows(g, f, S, k)
<1> DEFINE bad == {n \in Nat : ~\E g : Follows(g, f, S, n)}
<1> SUFFICES bad = {}
  OBVIOUS
<1> SUFFICES ASSUME bad # {} PROVE FALSE
  OBVIOUS
<1>1. bad \subseteq Nat
  OBVIOUS
<1>2. PICK n \in bad : \A m \in bad : n <= m
  BY <1>1, LeastNatural
<1>3. n \in Nat /\ ~\E g : Follows(g, f, S, n)
  OBVIOUS
<1>4. CASE n = 0
  <2> DEFINE g == [s \in SUBSET S |-> 0]
  <2>1. \A s \in OfSize(S, 0) : s = {}
    <3> SUFFICES ASSUME NEW s \in OfSize(S, 0) PROVE s = {}
      OBVIOUS
    <3>1. IsFiniteSet(s) /\ Cardinality(s) <= 0
      BY FS_Subset DEF OfSize
    <3>2. QED
      BY <3>1, FS_CardinalityType, FS_EmptySet
  <2>2. Follows(g, f, S, 0)
    BY <2>1 DEF Follows, Folded, OfSize
  <2>3. QED
    BY <1>3, <1>4, <2>2
<1>5. CASE n # 0
  <2>1. n - 1 \in Nat /\ ~(n <= n - 1)
    BY <1>3, <1>5
  <2>2. PICK g : Follows(g, f, S, n - 1)
    BY <1>2, <2>1
  <2> DEFINE h == [s \in SUBSET S |-> Folded(f, g, s)]
  <2>3. ASSUME NEW s \in OfSize(S, n)
        PROVE  h[s] = Folded(f, h, s)
    <3>1. s \in SUBSET S /\ h[s] = Folded(f, g, s)
      BY DEF OfSize
    <3>2. CASE s = {}
      BY <3>1, <3>2 DEF Folded
    <3>3. CASE s # {}
      <4> DEFINE t == s \ {First(s)}
      <4>1. /\ IsFiniteSet(s) /\ Cardinality(s) <= n
        BY FS_Subset DEF OfSize
      <4>2. /\ Cardinality(t) \in Nat /\ Cardinality(s) \in Nat
            /\ Cardinality(t) = Cardinality(s) - 1
        BY <3>3, <4>1, Smaller
      <4>3. Cardinality(t) <= n - 1
        BY <1>3, <4>1, <4>2
      <4>4. t \in SUBSET S /\ t \in OfSize(S, n - 1)
        BY <3>1, <4>3 DEF OfSize
      <4>5. h[t] = g[t]
        BY <2>2, <4>4 DEF Follows
      <4>6. QED
        BY <3>1, <3>3, <4>5 DEF Folded
    <3>4. QED
      BY <3>2, <3>3
  <2>4. Follows(h, f, S, n)
    BY <2>3 DEF Follows
  <2>5. QED
    BY <1>3, <2>4
<1>6. QED
  BY <1>4, <1>5

\* So the fold's recursive definition defines a function.
LEMMA IterFolds ==
  ASSUME NEW f, NEW S, IsFiniteSet(S)
  PROVE  \A s \in SUBSET S : Iter(f, S)[s] = Folded(f, Iter(f, S), s)
<1> DEFINE k == Cardinality(S)
<1>1. k \in Nat
  BY FS_CardinalityType
<1>2. PICK g : Follows(g, f, S, k)
  BY <1>1, FollowsExists
<1>3. OfSize(S, k) = SUBSET S
  BY FS_Subset DEF OfSize
<1> DEFINE h == [s \in SUBSET S |-> g[s]]
<1>4. ASSUME NEW s \in SUBSET S
      PROVE  h[s] = Folded(f, h, s)
  <2>1. g[s] = Folded(f, g, s)
    BY <1>2, <1>3 DEF Follows
  <2>2. s \ {First(s)} \in SUBSET S
    OBVIOUS
  <2>3. QED
    BY <2>1, <2>2 DEF Folded
<1>5. h = [s \in SUBSET S |-> Folded(f, h, s)]
  BY <1>4
<1>6. \E iter : iter = [s \in SUBSET S |-> Folded(f, iter, s)]
  BY <1>5
<1>7. Iter(f, S) = [s \in SUBSET S |-> Folded(f, Iter(f, S), s)]
  BY <1>6 DEF Iter
<1>8. QED
  BY <1>7

\* The sum is the fold's value on the whole set.
LEMMA SumIsIter ==
  ASSUME NEW f, NEW S
  PROVE  SumOver(f, S) = Iter(f, S)[S]
BY DEF SumOver, MapThenSumSet, MapThenFoldSet, Iter, Folded, First

\* What holds of a set once it holds of the set without its first element.
LEMMA SubsetInduction ==
  ASSUME NEW S, IsFiniteSet(S), NEW Good, {} \in Good,
         \A s \in SUBSET S : s # {} /\ s \ {First(s)} \in Good => s \in Good
  PROVE  \A s \in SUBSET S : s \in Good
<1> DEFINE bad == {s \in SUBSET S : s \notin Good}
<1> SUFFICES ASSUME bad # {} PROVE FALSE
  OBVIOUS
<1>1. \A s \in bad : IsFiniteSet(s)
  BY FS_Subset
<1>2. PICK s \in bad : \A t \in bad : Cardinality(s) <= Cardinality(t)
  BY <1>1, SmallestSet
<1>3. s \in SUBSET S /\ s \notin Good /\ s # {} /\ IsFiniteSet(s)
  BY <1>1
<1>4. /\ Cardinality(s \ {First(s)}) \in Nat /\ Cardinality(s) \in Nat
      /\ Cardinality(s \ {First(s)}) = Cardinality(s) - 1
  BY <1>3, Smaller
<1>5. s \ {First(s)} \notin bad
  BY <1>2, <1>4
<1>6. QED
  BY <1>3, <1>5

\* A sum of integers is an integer, and of natural numbers a natural number.
LEMMA IterType ==
  ASSUME NEW f, NEW S, IsFiniteSet(S), NEW D, D = Int \/ D = Nat, \A x \in S : f[x] \in D
  PROVE  \A s \in SUBSET S : Iter(f, S)[s] \in D
<1> DEFINE Good == {s \in SUBSET S : Iter(f, S)[s] \in D}
<1>1. \A s \in SUBSET S : Iter(f, S)[s] = Folded(f, Iter(f, S), s)
  BY IterFolds
<1>2. {} \in Good
  BY <1>1 DEF Folded
<1>3. ASSUME NEW s \in SUBSET S, s # {}, s \ {First(s)} \in Good
      PROVE  s \in Good
  <2>1. First(s) \in S
    BY <1>3 DEF First
  <2>2. Iter(f, S)[s] = f[First(s)] + Iter(f, S)[s \ {First(s)}]
    BY <1>1, <1>3 DEF Folded
  <2>3. f[First(s)] \in D /\ Iter(f, S)[s \ {First(s)}] \in D
    BY <1>3, <2>1
  <2>4. \A a, b \in D : a + b \in D
    OBVIOUS
  <2>5. QED
    BY <2>2, <2>3, <2>4
<1> HIDE DEF Good
<1>4. \A s \in SUBSET S : s \in Good
  BY <1>2, <1>3, SubsetInduction
<1>5. QED
  BY <1>4 DEF Good

\* When one term changes, the sums over the sets that have it move by as much.
LEMMA IterMoves ==
  ASSUME NEW f, NEW g, NEW S, IsFiniteSet(S), NEW y \in S,
         \A x \in S : f[x] \in Int /\ g[x] \in Int,
         \A x \in S \ {y} : g[x] = f[x]
  PROVE  \A s \in SUBSET S :
           Iter(g, S)[s] = IF y \in s THEN Iter(f, S)[s] + (g[y] - f[y]) ELSE Iter(f, S)[s]
<1> DEFINE F == Iter(f, S)
           G == Iter(g, S)
           Good == {s \in SUBSET S : G[s] = IF y \in s THEN F[s] + (g[y] - f[y]) ELSE F[s]}
<1>1. /\ \A s \in SUBSET S : F[s] = Folded(f, F, s) /\ G[s] = Folded(g, G, s)
      /\ \A s \in SUBSET S : F[s] \in Int /\ G[s] \in Int
  BY IterFolds, IterType
<1> HIDE DEF F, G
<1>2. {} \in Good
  BY <1>1 DEF Folded
<1>3. ASSUME NEW s \in SUBSET S, s # {}, s \ {First(s)} \in Good
      PROVE  s \in Good
  <2> DEFINE x == First(s)
             t == s \ {x}
  <2>1. x \in s /\ x \in S /\ t \in SUBSET S
    BY <1>3 DEF First
  <2>2. F[s] = f[x] + F[t] /\ G[s] = g[x] + G[t]
    BY <1>1, <1>3 DEF Folded
  <2>3. G[t] = IF y \in t THEN F[t] + (g[y] - f[y]) ELSE F[t]
    BY <1>3
  <2>4. f[x] \in Int /\ g[x] \in Int /\ f[y] \in Int /\ g[y] \in Int /\ F[t] \in Int /\ G[t] \in Int
    BY <1>1, <2>1
  <2> HIDE DEF x
  <2>5. CASE x = y
    <3>1. y \notin t /\ y \in s
      BY <2>1, <2>5
    <3>2. G[s] = F[s] + (g[y] - f[y])
      BY <2>2, <2>3, <2>4, <2>5, <3>1
    <3>3. QED
      BY <3>1, <3>2
  <2>6. CASE x # y
    <3>1. (y \in t <=> y \in s) /\ g[x] = f[x]
      BY <2>1, <2>6
    <3>2. y \in s => G[s] = F[s] + (g[y] - f[y])
      BY <2>2, <2>3, <2>4, <3>1
    <3>3. y \notin s => G[s] = F[s]
      BY <2>2, <2>3, <3>1
    <3>4. QED
      BY <3>2, <3>3
  <2>7. QED
    BY <2>5, <2>6
<1> HIDE DEF Good
<1>4. \A s \in SUBSET S : s \in Good
  BY <1>2, <1>3, SubsetInduction
<1>5. QED
  BY <1>4 DEF Good, F, G

\* The sum of a function's values moves as one of them does.
THEOREM SumMoves ==
  ASSUME NEW S, IsFiniteSet(S), NEW f, NEW g, NEW y \in S,
         \A x \in S : f[x] \in Int /\ g[x] \in Int,
         \A x \in S \ {y} : g[x] = f[x]
  PROVE  SumOver(g, S) = SumOver(f, S) + g[y] - f[y] /\ SumOver(f, S) \in Int
<1>1. Iter(g, S)[S] = Iter(f, S)[S] + (g[y] - f[y])
  BY IterMoves
<1>2. Iter(f, S)[S] \in Int
  BY IterType
<1>3. QED
  BY <1>1, <1>2, SumIsIter

\* A sum of zeros is zero.
THEOREM SumOfZeros ==
  ASSUME NEW S, IsFiniteSet(S), NEW f, \A x \in S : f[x] = 0
  PROVE  SumOver(f, S) = 0
<1> DEFINE Good == {s \in SUBSET S : Iter(f, S)[s] = 0}
<1>1. \A s \in SUBSET S : Iter(f, S)[s] = Folded(f, Iter(f, S), s)
  BY IterFolds
<1>2. {} \in Good
  BY <1>1 DEF Folded
<1>3. ASSUME NEW s \in SUBSET S, s # {}, s \ {First(s)} \in Good
      PROVE  s \in Good
  <2>1. First(s) \in S
    BY <1>3 DEF First
  <2>2. Iter(f, S)[s] = f[First(s)] + Iter(f, S)[s \ {First(s)}]
    BY <1>1, <1>3 DEF Folded
  <2>3. f[First(s)] = 0 /\ Iter(f, S)[s \ {First(s)}] = 0
    BY <1>3, <2>1
  <2>4. QED
    BY <2>2, <2>3
<1> HIDE DEF Good
<1>4. \A s \in SUBSET S : s \in Good
  BY <1>2, <1>3, SubsetInduction
<1>5. QED
  BY <1>4, SumIsIter DEF Good

\* Whatever follows the fold on all subsets is the fold; and a fold on a subset,
\* of terms that are the same there, is the same.
LEMMA IterAgrees ==
  ASSUME NEW f, NEW g, NEW h, NEW S, IsFiniteSet(S), NEW T \in SUBSET S,
         \A s \in SUBSET T : h[s] = Folded(g, h, s),
         \A x \in T : f[x] = g[x]
  PROVE  \A s \in SUBSET T : Iter(f, S)[s] = h[s]
<1> DEFINE Good == {s \in SUBSET T : Iter(f, S)[s] = h[s]}
<1>0. IsFiniteSet(T)
  BY FS_Subset
<1>1. \A s \in SUBSET T : Iter(f, S)[s] = Folded(f, Iter(f, S), s)
  BY IterFolds
<1>2. {} \in Good
  BY <1>1 DEF Folded
<1>3. ASSUME NEW s \in SUBSET T, s # {}, s \ {First(s)} \in Good
      PROVE  s \in Good
  <2>1. First(s) \in T
    BY <1>3 DEF First
  <2>2. Iter(f, S)[s] = f[First(s)] + Iter(f, S)[s \ {First(s)}]
    BY <1>1, <1>3 DEF Folded
  <2>3. h[s] = g[First(s)] + h[s \ {First(s)}]
    BY <1>3 DEF Folded
  <2>4. QED
    BY <1>3, <2>1, <2>2, <2>3
<1> HIDE DEF Good
<1>4. \A s \in SUBSET T : s \in Good
  BY <1>0, <1>2, <1>3, SubsetInduction
<1>5. QED
  BY <1>4 DEF Good

\* So the sum over a subset is the value there of the fold over the whole set.
LEMMA SumOfSubset ==
  ASSUME NEW f, NEW S, IsFiniteSet(S), NEW T \in SUBSET S
  PROVE  SumOver(f, T) = Iter(f, S)[T]
<1>1. IsFiniteSet(T)
  BY FS_Subset
<1> DEFINE h == Iter(f, T)
<1>2. \A s \in SUBSET T : h[s] = Folded(f, h, s)
  BY <1>1, IterFolds
<1>3. \A s \in SUBSET T : Iter(f, S)[s] = h[s]
  <2> HIDE DEF h
  <2>1. QED
    BY <1>2, IterAgrees
<1>4. QED
  BY <1>3, SumIsIter

\* Terms that are the same have the same sum.
THEOREM SumAgrees ==
  ASSUME NEW S, IsFiniteSet(S), NEW f, NEW g, \A x \in S : f[x] = g[x]
  PROVE  SumOver(f, S) = SumOver(g, S)
<1> DEFINE h == Iter(g, S)
<1>1. \A s \in SUBSET S : h[s] = Folded(g, h, s)
  <2>1. \A s \in SUBSET S : Iter(g, S)[s] = Folded(g, Iter(g, S), s)
    BY IterFolds
  <2>2. QED
    BY <2>1
<1>2. S \in SUBSET S
  OBVIOUS
<1>3. \A s \in SUBSET S : Iter(f, S)[s] = h[s]
  <2> HIDE DEF h
  <2>1. QED
    BY <1>1, <1>2, IterAgrees
<1>4. QED
  BY <1>3, <1>2, SumIsIter

\* Any term may be taken out first.
LEMMA IterRemoves ==
  ASSUME NEW f, NEW S, IsFiniteSet(S), \A x \in S : f[x] \in Int
  PROVE  \A s \in SUBSET S : \A y \in s : Iter(f, S)[s] = f[y] + Iter(f, S)[s \ {y}]
<1> DEFINE F == Iter(f, S)
           bad == {s \in SUBSET S : \E y \in s : F[s] # f[y] + F[s \ {y}]}
<1>1. /\ \A s \in SUBSET S : F[s] = Folded(f, F, s)
      /\ \A s \in SUBSET S : F[s] \in Int
  BY IterFolds, IterType
<1> HIDE DEF F
<1> SUFFICES ASSUME bad # {} PROVE FALSE
  BY DEF F
<1>2. \A s \in bad : IsFiniteSet(s)
  BY FS_Subset
<1>3. PICK s \in bad : \A t \in bad : Cardinality(s) <= Cardinality(t)
  BY <1>2, SmallestSet
<1>4. PICK y \in s : F[s] # f[y] + F[s \ {y}]
  OBVIOUS
<1>5. s \in SUBSET S /\ IsFiniteSet(s) /\ s # {} /\ y \in S
  BY <1>2, <1>4
<1> DEFINE x == First(s)
<1>6. x \in s /\ x \in S /\ F[s] = f[x] + F[s \ {x}]
  BY <1>1, <1>5 DEF Folded, First
<1> HIDE DEF x, bad
<1>7. x # y
  BY <1>4, <1>6
<1>8. ASSUME NEW z \in s PROVE s \ {z} \notin bad
  <2>1. Cardinality(s \ {z}) = Cardinality(s) - 1 /\ Cardinality(s) \in Nat
    BY <1>5, FS_RemoveElement, FS_CardinalityType
  <2>2. QED
    BY <1>3, <2>1
<1>9. F[s \ {x}] = f[y] + F[(s \ {x}) \ {y}]
  BY <1>4, <1>5, <1>6, <1>7, <1>8 DEF bad
<1>10. F[s \ {y}] = f[x] + F[(s \ {y}) \ {x}]
  BY <1>4, <1>5, <1>6, <1>7, <1>8 DEF bad
<1>11. (s \ {x}) \ {y} = (s \ {y}) \ {x} /\ (s \ {x}) \ {y} \in SUBSET S
  BY <1>5
<1>12. f[x] \in Int /\ f[y] \in Int /\ F[(s \ {x}) \ {y}] \in Int
  BY <1>1, <1>5, <1>6, <1>11
<1>13. \A a, b, c \in Int : a + (b + c) = b + (a + c)
  OBVIOUS
<1> DEFINE rest == F[(s \ {x}) \ {y}]
<1>14. F[s \ {x}] = f[y] + rest /\ F[s \ {y}] = f[x] + rest /\ rest \in Int
  BY <1>9, <1>10, <1>11, <1>12
<1> HIDE DEF rest
<1>15. F[s] = f[y] + F[s \ {y}]
  BY <1>6, <1>12, <1>13, <1>14
<1>16. QED
  BY <1>4, <1>15

\* A sum with one term taken out.
THEOREM SumRemoves ==
  ASSUME NEW S, IsFiniteSet(S), NEW f, NEW y \in S, \A x \in S : f[x] \in Int
  PROVE  /\ SumOver(f, S) = f[y] + SumOver(f, S \ {y})
         /\ SumOver(f, S) \in Int /\ SumOver(f, S \ {y}) \in Int
<1>1. S \in SUBSET S /\ S \ {y} \in SUBSET S
  OBVIOUS
<1>2. SumOver(f, S) = Iter(f, S)[S] /\ SumOver(f, S \ {y}) = Iter(f, S)[S \ {y}]
  BY <1>1, SumOfSubset
<1>3. Iter(f, S)[S] \in Int /\ Iter(f, S)[S \ {y}] \in Int
  BY <1>1, IterType
<1>4. Iter(f, S)[S] = f[y] + Iter(f, S)[S \ {y}]
  BY <1>1, IterRemoves
<1>5. QED
  BY <1>2, <1>3, <1>4

\* The empty sum.
LEMMA SumOfNone ==
  ASSUME NEW f
  PROVE  SumOver(f, {}) = 0
BY SumOfZeros, FS_EmptySet

\* A function that follows the fold on every subset has the sum as its value.
LEMMA FoldIsSum ==
  ASSUME NEW S, IsFiniteSet(S), NEW f, NEW h, \A s \in SUBSET S : h[s] = Folded(f, h, s)
  PROVE  h[S] = SumOver(f, S)
<1>1. S \in SUBSET S /\ \A x \in S : f[x] = f[x]
  OBVIOUS
<1>2. \A s \in SUBSET S : Iter(f, S)[s] = h[s]
  BY <1>1, IterAgrees
<1>3. QED
  BY <1>1, <1>2, SumIsIter

\* Terms that are zero may be left out.
THEOREM SumSkips ==
  ASSUME NEW S, IsFiniteSet(S), NEW R \in SUBSET S, NEW f,
         \A x \in S : f[x] \in Int, \A x \in S \ R : f[x] = 0
  PROVE  SumOver(f, S) = SumOver(f, R)
<1> DEFINE Good == {s \in SUBSET (S \ R) : SumOver(f, R \cup s) = SumOver(f, R)}
<1>1. IsFiniteSet(S \ R)
  BY FS_Subset
<1>2. {} \in Good
  <2>1. R \cup {} = R
    OBVIOUS
  <2>2. QED
    BY <2>1
<1>3. ASSUME NEW s \in SUBSET (S \ R), s # {}, s \ {First(s)} \in Good
      PROVE  s \in Good
  <2> DEFINE x == First(s)
             U == R \cup s
  <2>1. x \in s
    BY <1>3 DEF First
  <2> HIDE DEF x
  <2>2. f[x] = 0 /\ x \in U /\ U \in SUBSET S
    BY <2>1
  <2>3. IsFiniteSet(U) /\ \A z \in U : f[z] \in Int
    BY <2>2, FS_Subset
  <2> DEFINE V == U \ {x}
  <2>4. V = R \cup (s \ {x})
    BY <2>1
  <2>5. SumOver(f, V) = SumOver(f, R)
    BY <1>3, <2>4 DEF x
  <2>6. SumOver(f, U) = f[x] + SumOver(f, V) /\ SumOver(f, V) \in Int
    <3> HIDE DEF U
    <3>1. QED
      BY <2>2, <2>3, SumRemoves
  <2> HIDE DEF V
  <2>7. SumOver(f, U) = SumOver(f, R)
    BY <2>2, <2>5, <2>6
  <2>8. QED
    BY <2>7
<1> HIDE DEF Good
<1>4. S \ R \in Good
  BY <1>1, <1>2, <1>3, SubsetInduction
<1>5. R \cup (S \ R) = S
  OBVIOUS
<1>6. QED
  BY <1>4, <1>5 DEF Good

\* The same terms under other names.
THEOREM SumRenames ==
  ASSUME NEW T, IsFiniteSet(T), NEW S, IsFiniteSet(S), NEW p, NEW f, NEW g,
         \A i \in T : p[i] \in S /\ f[i] = g[p[i]],
         \A i, j \in T : p[i] = p[j] => i = j,
         \A x \in S : g[x] \in Int
  PROVE  SumOver(f, T) = SumOver(g, {p[i] : i \in T})
<1> DEFINE Good == {t \in SUBSET T : SumOver(f, t) = SumOver(g, {p[i] : i \in t})}
<1>1. {} \in Good
  <2>1. {p[i] : i \in {}} = {}
    OBVIOUS
  <2>2. QED
    BY <2>1, SumOfNone
<1>2. ASSUME NEW t \in SUBSET T, t # {}, t \ {First(t)} \in Good
      PROVE  t \in Good
  <2> DEFINE x == First(t)
             r == t \ {x}
             image == {p[i] : i \in t}
             rest == {p[i] : i \in r}
  <2>1. x \in t
    BY <1>2 DEF First
  <2>2. SumOver(f, r) = SumOver(g, rest)
    BY <1>2
  <2> HIDE DEF x
  <2>3. rest = image \ {p[x]} /\ p[x] \in image /\ image \in SUBSET S
    BY <2>1
  <2>4. IsFiniteSet(t) /\ IsFiniteSet(image)
    BY <2>3, FS_Subset
  <2>5. \A i \in t : f[i] \in Int
    OBVIOUS
  <2>6. \A y \in image : g[y] \in Int
    BY <2>3
  <2>7. SumOver(f, t) = f[x] + SumOver(f, r)
    BY <2>1, <2>4, <2>5, SumRemoves
  <2> DEFINE y == p[x]
  <2>8. SumOver(g, image) = g[y] + SumOver(g, image \ {y})
    <3> HIDE DEF image, rest, r, y
    <3>0. y \in image
      BY <2>3 DEF y
    <3>1. QED
      BY <3>0, <2>4, <2>6, SumRemoves
  <2>9. SumOver(g, image) = g[y] + SumOver(g, rest) /\ f[x] = g[y]
    BY <2>1, <2>3, <2>8
  <2>10. SumOver(f, t) = SumOver(g, image)
    <3> HIDE DEF image, rest, r, y
    <3>1. QED
      BY <2>2, <2>7, <2>9
  <2>11. QED
    BY <2>10
<1> HIDE DEF Good
<1>3. T \in Good
  BY <1>1, <1>2, SubsetInduction
<1>4. QED
  BY <1>3 DEF Good

\* Sums add up term by term.
THEOREM SumAdds ==
  ASSUME NEW S, IsFiniteSet(S), NEW f, NEW g, NEW h,
         \A x \in S : f[x] \in Int /\ g[x] \in Int /\ h[x] = f[x] + g[x]
  PROVE  /\ SumOver(h, S) = SumOver(f, S) + SumOver(g, S)
         /\ SumOver(f, S) \in Int /\ SumOver(g, S) \in Int
<1> DEFINE F == Iter(f, S)
           G == Iter(g, S)
           H == Iter(h, S)
           Good == {s \in SUBSET S : H[s] = F[s] + G[s]}
<1>1. /\ \A s \in SUBSET S : F[s] = Folded(f, F, s)
      /\ \A s \in SUBSET S : G[s] = Folded(g, G, s)
      /\ \A s \in SUBSET S : H[s] = Folded(h, H, s)
      /\ \A s \in SUBSET S : F[s] \in Int /\ G[s] \in Int
  BY IterFolds, IterType
<1> HIDE DEF F, G, H
<1>2. {} \in Good
  <2>1. F[{}] = 0 /\ G[{}] = 0 /\ H[{}] = 0
    BY <1>1 DEF Folded
  <2>2. QED
    BY <2>1
<1>3. ASSUME NEW s \in SUBSET S, s # {}, s \ {First(s)} \in Good
      PROVE  s \in Good
  <2> DEFINE x == First(s)
             t == s \ {x}
  <2>1. x \in S /\ t \in SUBSET S /\ H[t] = F[t] + G[t]
    BY <1>3 DEF First
  <2>2. F[s] = f[x] + F[t] /\ G[s] = g[x] + G[t] /\ H[s] = h[x] + H[t]
    BY <1>1, <1>3 DEF Folded
  <2> HIDE DEF x, t
  <2>3. /\ f[x] \in Int /\ g[x] \in Int /\ h[x] = f[x] + g[x]
        /\ F[t] \in Int /\ G[t] \in Int
    BY <1>1, <2>1
  <2>4. \A a, b, c, d \in Int : (a + b) + (c + d) = (a + c) + (b + d)
    OBVIOUS
  <2>5. H[s] = F[s] + G[s]
    BY <2>1, <2>2, <2>3, <2>4
  <2>6. QED
    BY <2>5
<1> HIDE DEF Good
<1>4. S \in Good /\ S \in SUBSET S
  BY <1>2, <1>3, SubsetInduction
<1>5. F[S] \in Int /\ G[S] \in Int /\ H[S] = F[S] + G[S]
  BY <1>1, <1>4 DEF Good
<1>6. QED
  BY <1>5, SumIsIter DEF F, G, H

\* Larger terms have a larger sum.
THEOREM SumGrows ==
  ASSUME NEW S, IsFiniteSet(S), NEW f, NEW g,
         \A x \in S : f[x] \in Int /\ g[x] \in Int /\ f[x] <= g[x]
  PROVE  SumOver(f, S) <= SumOver(g, S)
<1> DEFINE d == [x \in S |-> g[x] - f[x]]
<1>1. \A x \in S : f[x] \in Int /\ d[x] \in Int /\ d[x] \in Nat /\ g[x] = f[x] + d[x]
  OBVIOUS
<1> HIDE DEF d
<1>2. SumOver(g, S) = SumOver(f, S) + SumOver(d, S) /\ SumOver(f, S) \in Int
  BY <1>1, SumAdds
<1>3. SumOver(d, S) \in Nat
  <2>1. Iter(d, S)[S] \in Nat
    BY <1>1, IterType
  <2>2. QED
    BY <2>1, SumIsIter
<1>4. QED
  BY <1>2, <1>3

\* A sum whose every term the other sum has too, at least as large.
THEOREM SumAtMost ==
  ASSUME NEW S, IsFiniteSet(S), NEW P \in SUBSET S, NEW Q \in SUBSET S, NEW f, NEW g,
         \A x \in S : f[x] \in Nat /\ g[x] \in Nat,
         \A x \in P : f[x] = 0 \/ (x \in Q /\ f[x] <= g[x])
  PROVE  SumOver(f, P) <= SumOver(g, Q) /\ SumOver(f, P) \in Nat /\ SumOver(g, Q) \in Nat
<1> DEFINE h(e, R) == [x \in S |-> IF x \in R THEN e[x] ELSE 0]
<1>1. ASSUME NEW e, NEW R \in SUBSET S, \A x \in S : e[x] \in Nat
      PROVE  SumOver(h(e, R), S) = SumOver(e, R) /\ SumOver(e, R) \in Nat
  <2> DEFINE d == h(e, R)
  <2>1. /\ \A x \in S : d[x] \in Int /\ d[x] \in Nat
        /\ \A x \in S \ R : d[x] = 0
        /\ \A x \in R : d[x] = e[x]
    BY <1>1
  <2> HIDE DEF d
  <2>2. IsFiniteSet(R)
    BY FS_Subset
  <2>3. SumOver(d, S) = SumOver(d, R)
    BY <2>1, SumSkips
  <2>4. SumOver(d, R) = SumOver(e, R)
    BY <2>1, <2>2, SumAgrees
  <2>5. Iter(d, S)[S] \in Nat
    BY <2>1, IterType
  <2>6. SumOver(d, S) \in Nat
    BY <2>5, SumIsIter
  <2>7. QED
    BY <2>3, <2>4, <2>6 DEF d
<1> DEFINE a == h(f, P)
           b == h(g, Q)
<1>2. \A x \in S : a[x] \in Int /\ b[x] \in Int /\ a[x] <= b[x]
  OBVIOUS
<1>3. /\ SumOver(a, S) = SumOver(f, P) /\ SumOver(b, S) = SumOver(g, Q)
      /\ SumOver(f, P) \in Nat /\ SumOver(g, Q) \in Nat
  BY <1>1
<1> HIDE DEF a, b
<1>4. SumOver(a, S) <= SumOver(b, S)
  BY <1>2, SumGrows
<1>5. QED
  BY <1>3, <1>4

\* The sum over a set is that over a part of it and that over the rest.
THEOREM SumSplits ==
  ASSUME NEW S, IsFiniteSet(S), NEW P \in SUBSET S, NEW f, \A x \in S : f[x] \in Int
  PROVE  /\ SumOver(f, S) = SumOver(f, P) + SumOver(f, S \ P)
         /\ SumOver(f, P) \in Int /\ SumOver(f, S \ P) \in Int
<1> DEFINE R == S \ P
           a == [x \in S |-> IF x \in P THEN f[x] ELSE 0]
           b == [x \in S |-> IF x \in P THEN 0 ELSE f[x]]
<1>1. /\ \A x \in S : a[x] \in Int /\ b[x] \in Int /\ f[x] = a[x] + b[x]
      /\ (\A x \in S \ P : a[x] = 0) /\ \A x \in P : a[x] = f[x]
      /\ (\A x \in S \ R : b[x] = 0) /\ \A x \in R : b[x] = f[x]
  OBVIOUS
<1>2. IsFiniteSet(P) /\ IsFiniteSet(R) /\ R \in SUBSET S
  BY FS_Subset
<1> HIDE DEF a, b, R
<1>3. SumOver(f, S) = SumOver(a, S) + SumOver(b, S) /\ SumOver(a, S) \in Int /\ SumOver(b, S) \in Int
  BY <1>1, SumAdds
<1>4. SumOver(a, S) = SumOver(a, P) /\ SumOver(b, S) = SumOver(b, R)
  BY <1>1, <1>2, SumSkips
<1>5. SumOver(a, P) = SumOver(f, P) /\ SumOver(b, R) = SumOver(f, R)
  BY <1>1, <1>2, SumAgrees
<1>6. QED
  BY <1>3, <1>4, <1>5 DEF R
=============================================================================
