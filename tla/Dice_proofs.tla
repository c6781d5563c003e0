-------------------------- MODULE Dice_proofs --------------------------
(***************************************************************************)
(* Proofs about DiceExpr, for every expression and every limit, and about  *)
(* DiceEditor, for every typed text and template.                          *)
(***************************************************************************)
EXTENDS DiceEditor, FiniteSetTheorems, WellFoundedInduction, TLAPS

-----------------------------------------------------------------------------
(* Sums, of which DiceAsked, SumKept and the totals are made.              *)

\* The sum of the values of a function.
Total(f) == FoldFunction(LAMBDA a, b : a + b, 0, f)

Some(S) == CHOOSE x \in S : TRUE

\* The equation by which the sum of f is defined, for sets of up to k elements.
Folds(f, g, S, k) ==
  g = [s \in {t \in SUBSET S : Cardinality(t) <= k} |->
         IF s = {} THEN 0 ELSE f[Some(s)] + g[s \ {Some(s)}]]

\* A property of numbers that is lost somewhere is lost at a first number.
LEMMA FirstOf ==
  ASSUME NEW S \in SUBSET Nat, S # {}
  PROVE  \E x \in S : \A y \in S : x <= y
<1>1. PICK x \in S : \A y \in S : ~ (<<y, x>> \in OpToRel(<, Nat))
  BY NatLessThanWellFounded, WFMin
<1>2. ASSUME NEW y \in S, ~(x <= y) PROVE FALSE
  <2>1. x \in Nat /\ y \in Nat /\ y < x
    BY <1>2
  <2> QED BY <1>1, <2>1 DEF OpToRel
<1> QED BY <1>2

\* There is a function that satisfies the equation: level by level.
LEMMA FoldsExist ==
  ASSUME NEW f, NEW S, IsFiniteSet(S), NEW k \in Nat
  PROVE  \E g : Folds(f, g, S, k)
<1> DEFINE Lost == {n \in Nat : ~ \E g : Folds(f, g, S, n)}
<1> SUFFICES ASSUME Lost # {} PROVE FALSE
  OBVIOUS
<1>1. PICK n \in Lost : \A m \in Lost : n <= m
  BY FirstOf
<1>2. \A t \in SUBSET S : IsFiniteSet(t) /\ Cardinality(t) \in Nat /\ (Cardinality(t) = 0 <=> t = {})
  BY FS_Subset, FS_CardinalityType, FS_EmptySet
<1> DEFINE Level(m) == {t \in SUBSET S : Cardinality(t) <= m}
<1>3. CASE n = 0
  <2> DEFINE g == [s \in Level(0) |-> 0]
  <2>1. \A s \in Level(0) : s = {}
    BY <1>2
  <2>2. g = [s \in Level(0) |-> IF s = {} THEN 0 ELSE f[Some(s)] + g[s \ {Some(s)}]]
    BY <2>1
  <2>3. Folds(f, g, S, 0)
    BY <2>2 DEF Folds
  <2> QED BY <1>1, <1>3, <2>3
<1>4. CASE n # 0
  <2>1. n - 1 \in Nat /\ n - 1 \notin Lost
    BY <1>1, <1>4
  <2>2. PICK g : Folds(f, g, S, n - 1)
    BY <2>1
  <2> DEFINE h == [s \in Level(n) |-> IF s \in Level(n - 1) THEN g[s] ELSE f[Some(s)] + g[s \ {Some(s)}]]
  <2>3. \A s \in Level(n) : s # {} =>
           /\ s \ {Some(s)} \in Level(n - 1)
           /\ s \ {Some(s)} \in Level(n)
    <3> TAKE s \in Level(n)
    <3> HAVE s # {}
    <3>1. Some(s) \in s
      BY DEF Some
    <3>2. Cardinality(s \ {Some(s)}) = Cardinality(s) - 1
      BY <1>2, <3>1, FS_RemoveElement
    <3> QED BY <1>1, <1>2, <3>2
  <2>4. \A s \in Level(n - 1) : s \in Level(n) /\ g[s] = IF s = {} THEN 0 ELSE f[Some(s)] + g[s \ {Some(s)}]
    <3>1. g = [s \in Level(n - 1) |-> IF s = {} THEN 0 ELSE f[Some(s)] + g[s \ {Some(s)}]]
      BY <2>2 DEF Folds
    <3>2. \A s \in Level(n - 1) : s \in Level(n)
      BY <1>1, <1>2
    <3> HIDE DEF Level
    <3> QED BY <3>1, <3>2
  <2>5. {} \in Level(n - 1)
    BY <1>1, <1>2, <2>1
  <2>6. h = [s \in Level(n) |-> IF s = {} THEN 0 ELSE f[Some(s)] + h[s \ {Some(s)}]]
    <3> HIDE DEF Level
    <3> SUFFICES ASSUME NEW s \in Level(n)
                 PROVE  h[s] = IF s = {} THEN 0 ELSE f[Some(s)] + h[s \ {Some(s)}]
      OBVIOUS
    <3> QED BY <2>3, <2>4, <2>5
  <2>7. Folds(f, h, S, n)
    BY <2>6 DEF Folds
  <2> QED BY <1>1, <2>7
<1> QED BY <1>3, <1>4

LEMMA TotalIs ==
  ASSUME NEW f, IsFiniteSet(DOMAIN f)
  PROVE  \E g : Folds(f, g, DOMAIN f, Cardinality(DOMAIN f)) /\ Total(f) = g[DOMAIN f]
<1> DEFINE S == DOMAIN f
           P(iter) == iter = [s \in SUBSET S |-> IF s = {} THEN 0 ELSE LET x == CHOOSE x \in s : TRUE IN f[x] + iter[s \ {x}]]
           c == CHOOSE iter : P(iter)
<1>1. Total(f) = c[S]
  BY DEF Total, FoldFunction, FoldFunctionOnSet, MapThenFoldSet
<1>2. {t \in SUBSET S : Cardinality(t) <= Cardinality(S)} = SUBSET S
  BY FS_Subset
<1>3. \A g : Folds(f, g, S, Cardinality(S)) <=> P(g)
  BY <1>2 DEF Folds, Some
<1> HIDE DEF P
<1>4. \E g : P(g)
  <2>1. PICK g : Folds(f, g, S, Cardinality(S))
    BY FoldsExist, FS_CardinalityType
  <2> QED BY <1>3, <2>1
<1>5. P(c)
  BY <1>4
<1> HIDE DEF c
<1> QED BY <1>1, <1>3, <1>5

\* Two such functions agree where both are defined.
LEMMA FoldsAgree ==
  ASSUME NEW S, IsFiniteSet(S), NEW f, NEW g, Folds(f, g, S, Cardinality(S)),
         NEW T \in SUBSET S, NEW e, \A x \in T : e[x] = f[x],
         NEW h, Folds(e, h, T, Cardinality(T))
  PROVE  \A s \in SUBSET T : g[s] = h[s]
<1> DEFINE Odd == {s \in SUBSET T : g[s] # h[s]}
           Sizes == {Cardinality(s) : s \in Odd}
<1>1. IsFiniteSet(T) /\ \A s \in SUBSET T : IsFiniteSet(s) /\ Cardinality(s) \in Nat
  BY FS_Subset, FS_CardinalityType
<1> SUFFICES ASSUME Odd # {} PROVE FALSE
  OBVIOUS
<1>2. Sizes \in SUBSET Nat /\ Sizes # {}
  BY <1>1
<1>3. PICK s \in Odd : \A t \in Odd : Cardinality(s) <= Cardinality(t)
  <2> HIDE DEF Odd
  <2>1. PICK n \in Sizes : \A m \in Sizes : n <= m
    <3> HIDE DEF Sizes
    <3> QED BY <1>2, FirstOf
  <2> QED BY <2>1
<1>4. \A t \in SUBSET T : /\ g[t] = IF t = {} THEN 0 ELSE f[Some(t)] + g[t \ {Some(t)}]
                          /\ h[t] = IF t = {} THEN 0 ELSE e[Some(t)] + h[t \ {Some(t)}]
  <2>1. \A t \in SUBSET T : t \in SUBSET S /\ Cardinality(t) <= Cardinality(S) /\ Cardinality(t) <= Cardinality(T)
    BY <1>1, FS_Subset
  <2> QED BY <2>1 DEF Folds
<1>5. s # {} /\ s \in SUBSET T
  BY <1>4
<1>6. Some(s) \in s /\ Some(s) \in T
  BY <1>5 DEF Some
<1>7. s \ {Some(s)} \in SUBSET T /\ Cardinality(s \ {Some(s)}) = Cardinality(s) - 1
  BY <1>1, <1>5, <1>6, FS_RemoveElement
<1>8. s \ {Some(s)} \notin Odd
  BY <1>1, <1>3, <1>5, <1>7
<1>9. g[s \ {Some(s)}] = h[s \ {Some(s)}]
  BY <1>7, <1>8
<1>10. g[s] = h[s]
  BY <1>4, <1>5, <1>6, <1>9
<1> QED BY <1>3, <1>10

\* Which element is taken first makes no difference to the sum.
LEMMA FoldsAnyFirst ==
  ASSUME NEW f, NEW S, IsFiniteSet(S), \A x \in S : f[x] \in Int,
         NEW g, Folds(f, g, S, Cardinality(S))
  PROVE  \A s \in SUBSET S : g[s] \in Int /\ \A x \in s : g[s] = f[x] + g[s \ {x}]
<1> DEFINE Fine(s) == g[s] \in Int /\ \A x \in s : g[s] = f[x] + g[s \ {x}]
           Odd == {s \in SUBSET S : ~Fine(s)}
           Sizes == {Cardinality(s) : s \in Odd}
<1>1. \A s \in SUBSET S : IsFiniteSet(s) /\ Cardinality(s) \in Nat
  BY FS_Subset, FS_CardinalityType
<1> SUFFICES ASSUME Odd # {} PROVE FALSE
  OBVIOUS
<1>2. Sizes \in SUBSET Nat /\ Sizes # {}
  BY <1>1
<1>3. PICK s \in Odd : \A t \in Odd : Cardinality(s) <= Cardinality(t)
  <2> HIDE DEF Odd
  <2>1. PICK n \in Sizes : \A m \in Sizes : n <= m
    <3> HIDE DEF Sizes
    <3> QED BY <1>2, FirstOf
  <2> QED BY <2>1
<1>4. \A t \in SUBSET S : g[t] = IF t = {} THEN 0 ELSE f[Some(t)] + g[t \ {Some(t)}]
  <2>1. \A t \in SUBSET S : Cardinality(t) <= Cardinality(S)
    BY FS_Subset
  <2> QED BY <2>1 DEF Folds
<1>5. s # {} /\ s \in SUBSET S
  <2>0. g[{}] = 0 /\ {} \in SUBSET S
    BY <1>4
  <2>1. Fine({})
    BY <2>0
  <2>2. {} \notin Odd
    BY <2>1
  <2> HIDE DEF Fine
  <2> QED BY <1>3, <2>2
<1>6. Some(s) \in s
  BY <1>5 DEF Some
<1>7. \A t \in SUBSET s : t # s => Fine(t)
  <2> TAKE t \in SUBSET s
  <2> HAVE t # s
  <2>1. Cardinality(t) < Cardinality(s)
    BY <1>1, <1>5, FS_Subset
  <2> HIDE DEF Fine
  <2> QED BY <1>1, <1>3, <1>5, <2>1
<1> DEFINE a == Some(s)
<1>8. g[s] = f[a] + g[s \ {a}] /\ Fine(s \ {a}) /\ a \in s /\ f[a] \in Int
  <2> HIDE DEF Fine
  <2> QED BY <1>4, <1>5, <1>6, <1>7
<1> HIDE DEF a
<1>9. ASSUME NEW x \in s PROVE g[s] = f[x] + g[s \ {x}]
  <2>1. CASE x = a
    BY <1>8, <2>1
  <2>2. CASE x # a
    <3>1. g[s \ {a}] = f[x] + g[(s \ {a}) \ {x}]
      BY <1>8, <2>2
    <3>2. Fine(s \ {x}) /\ a \in s \ {x}
      <4> HIDE DEF Fine
      <4> QED BY <1>7, <1>8, <1>9, <2>2
    <3>3. (s \ {x}) \ {a} = (s \ {a}) \ {x}
      OBVIOUS
    <3>4. g[s \ {x}] = f[a] + g[(s \ {a}) \ {x}]
      BY <3>2, <3>3
    <3>5. Fine((s \ {a}) \ {x})
      <4> HIDE DEF Fine
      <4> QED BY <1>7, <1>9
    <3> DEFINE rest == g[(s \ {a}) \ {x}]
    <3>6. f[x] \in Int /\ f[a] \in Int /\ rest \in Int
      BY <1>5, <1>8, <1>9, <3>5
    <3>7. g[s] = f[a] + (f[x] + rest) /\ g[s \ {x}] = f[a] + rest
      BY <1>8, <3>1, <3>4
    <3> HIDE DEF rest, Fine, Odd
    <3> QED BY <3>6, <3>7
  <2> QED BY <2>1, <2>2
<1>10. g[s] \in Int
  BY <1>8
<1> QED BY <1>3, <1>9, <1>10

LEMMA TotalWithout ==
  ASSUME NEW f, IsFiniteSet(DOMAIN f), \A x \in DOMAIN f : f[x] \in Int
  PROVE  /\ Total(f) \in Int
         /\ DOMAIN f = {} => Total(f) = 0
         /\ \A x \in DOMAIN f : Total(f) = f[x] + Total([y \in DOMAIN f \ {x} |-> f[y]])
<1> DEFINE S == DOMAIN f
<1>1. PICK g : Folds(f, g, S, Cardinality(S)) /\ Total(f) = g[S]
  BY TotalIs
<1>2. g[S] \in Int /\ \A x \in S : g[S] = f[x] + g[S \ {x}]
  BY <1>1, FoldsAnyFirst
<1>3. ASSUME NEW x \in S PROVE Total(f) = f[x] + Total([y \in S \ {x} |-> f[y]])
  <2> DEFINE T == S \ {x}
             e == [y \in T |-> f[y]]
  <2>1. IsFiniteSet(T) /\ DOMAIN e = T /\ \A y \in T : e[y] = f[y]
    BY FS_Subset
  <2>2. PICK h : Folds(e, h, T, Cardinality(T)) /\ Total(e) = h[T]
    <3> HIDE DEF T
    <3> QED BY <2>1, TotalIs
  <2> HIDE DEF e
  <2>3. g[T] = h[T]
    BY <1>1, <2>1, <2>2, FoldsAgree
  <2> QED BY <1>1, <1>2, <2>2, <2>3 DEF e
<1>4. S = {} => g[S] = 0
  BY <1>1, FS_EmptySet DEF Folds
<1> QED BY <1>1, <1>2, <1>3, <1>4

\* Sums over the places 1 .. n: the last is added to the sum of the others.
LEMMA TotalTo ==
  ASSUME NEW n \in Nat, NEW f \in [1 .. n -> Int]
  PROVE  /\ Total(f) \in Int
         /\ n = 0 => Total(f) = 0
         /\ n > 0 => Total(f) = f[n] + Total([i \in 1 .. n - 1 |-> f[i]])
<1>1. IsFiniteSet(DOMAIN f) /\ DOMAIN f = 1 .. n /\ \A i \in DOMAIN f : f[i] \in Int
  BY FS_Interval
<1>2. n = 0 => DOMAIN f = {}
  BY <1>1
<1>3. ASSUME n > 0 PROVE Total(f) = f[n] + Total([i \in 1 .. n - 1 |-> f[i]])
  <2>1. n \in DOMAIN f /\ DOMAIN f \ {n} = 1 .. n - 1
    BY <1>1, <1>3
  <2>2. Total(f) = f[n] + Total([y \in DOMAIN f \ {n} |-> f[y]])
    BY <1>1, <2>1, TotalWithout
  <2> QED BY <2>1, <2>2
<1> QED BY <1>1, <1>2, <1>3, TotalWithout

\* Values that are not negative add up to no less where there are more of them.
LEMMA TotalGrows ==
  ASSUME NEW n \in Nat, NEW f \in [1 .. n -> Nat], NEW k \in 0 .. n
  PROVE  Total([i \in 1 .. k |-> f[i]]) <= Total(f)
<1> DEFINE P(j) == Total([i \in 1 .. j |-> f[i]])
           Lost == {m \in Nat : k <= m /\ m <= n /\ ~(P(k) <= P(m))}
<1>1. \A j \in 0 .. n : P(j) \in Int /\ (j > 0 => P(j) = f[j] + P(j - 1))
  <2> TAKE j \in 0 .. n
  <2> DEFINE e == [i \in 1 .. j |-> f[i]]
  <2>1. j \in Nat /\ e \in [1 .. j -> Int] /\ \A i \in 1 .. j : e[i] = f[i]
    OBVIOUS
  <2>2. /\ Total(e) \in Int
        /\ j > 0 => Total(e) = e[j] + Total([i \in 1 .. j - 1 |-> e[i]])
    <3> HIDE DEF e
    <3> QED BY <2>1, TotalTo
  <2>3. j > 0 => [i \in 1 .. j - 1 |-> e[i]] = [i \in 1 .. j - 1 |-> f[i]] /\ e[j] = f[j]
    <3>1. j > 0 => j \in 1 .. j /\ \A i \in 1 .. j - 1 : i \in 1 .. j
      BY <2>1
    <3> HIDE DEF e
    <3> QED BY <2>1, <3>1
  <2> QED BY <2>2, <2>3
<1>2. P(n) = Total(f)
  OBVIOUS
<1>3. ASSUME Lost # {} PROVE FALSE
  <2>1. PICK m \in Lost : \A j \in Lost : m <= j
    BY <1>3, FirstOf
  <2>2. m \in 0 .. n /\ m # k /\ k <= m /\ m - 1 \in 0 .. n /\ k <= m - 1 /\ k \in 0 .. n /\ ~(P(k) <= P(m))
    <3> HIDE DEF P
    <3>1. P(k) \in Int
      BY <1>1
    <3>2. m # k
      BY <2>1, <3>1
    <3> QED BY <2>1, <3>2
  <2>3. m - 1 \notin Lost
    <3> HIDE DEF P, Lost
    <3> QED BY <2>1, <2>2
  <2>4. P(k) <= P(m - 1)
    <3> HIDE DEF P
    <3> QED BY <2>2, <2>3
  <2>5. P(m) = f[m] + P(m - 1) /\ f[m] \in Nat /\ P(m - 1) \in Int /\ P(k) \in Int
    <3> HIDE DEF P
    <3> QED BY <1>1, <2>2
  <2> HIDE DEF P
  <2> QED BY <2>2, <2>4, <2>5
<1>4. P(k) <= P(n)
  <2> HIDE DEF P
  <2> QED BY <1>3
<1> QED BY <1>2, <1>4

LEMMA TotalNat ==
  ASSUME NEW n \in Nat, NEW f \in [1 .. n -> Nat]
  PROVE  Total(f) \in Nat
<1>1. f \in [1 .. n -> Int] /\ 0 \in 0 .. n /\ [i \in 1 .. 0 |-> f[i]] \in [1 .. 0 -> Int]
  OBVIOUS
<1>2. Total(f) \in Int /\ Total([i \in 1 .. 0 |-> f[i]]) = 0
  BY <1>1, TotalTo
<1>3. Total([i \in 1 .. 0 |-> f[i]]) <= Total(f)
  BY <1>1, TotalGrows
<1> QED BY <1>2, <1>3

\* One value more.
LEMMA TotalNext ==
  ASSUME NEW n \in Nat, NEW f \in [1 .. n + 1 -> Int], NEW g \in [1 .. n -> Int],
         \A i \in 1 .. n : f[i] = g[i]
  PROVE  Total(f) \in Int /\ Total(g) \in Int /\ Total(f) = Total(g) + f[n + 1]
<1>1. [i \in 1 .. n + 1 - 1 |-> f[i]] = g
  OBVIOUS
<1>2. n + 1 \in Nat /\ n + 1 > 0 /\ f[n + 1] \in Int
  OBVIOUS
<1>3. Total(f) \in Int /\ Total(f) = f[n + 1] + Total([i \in 1 .. n + 1 - 1 |-> f[i]])
  BY <1>2, TotalTo
<1>4. Total(g) \in Int
  BY TotalTo
<1> QED BY <1>1, <1>2, <1>3, <1>4

-----------------------------------------------------------------------------
(* Arithmetic of int.                                                      *)

LEMMA Divided ==
  ASSUME NEW m \in Nat \ {0}, NEW x \in Int
  PROVE  x \div m \in Int /\ x % m \in 0 .. m - 1 /\ x = m * (x \div m) + (x % m)
OBVIOUS

\* A remainder is determined by its range.
LEMMA Remainder ==
  ASSUME NEW m \in Nat \ {0}, NEW x \in Int, NEW q \in Int, NEW r \in 0 .. m - 1, x = m * q + r
  PROVE  x % m = r
<1> DEFINE k == x \div m
           s == x % m
<1>1. k \in Int /\ s \in 0 .. m - 1 /\ x = m * k + s
  OBVIOUS
<1> HIDE DEF k, s
<1>2. m * (k - q) = r - s
  <2>1. m * (k - q) = m * k - m * q
    BY <1>1
  <2> QED BY <1>1, <2>1
<1> DEFINE d == k - q
<1>3. d \in Int
  BY <1>1
<1>4. m * d = r - s
  BY <1>2
<1> HIDE DEF d
<1>5. ~(d >= 1)
  <2> SUFFICES ASSUME d >= 1 PROVE FALSE
    OBVIOUS
  <2>1. m * d >= m
    <3>1. d - 1 \in Nat /\ m * d = m * (d - 1) + m
      BY <1>3
    <3>2. m * (d - 1) >= 0
      BY <3>1
    <3> QED BY <3>1, <3>2
  <2> QED BY <1>1, <1>4, <2>1
<1>6. ~(d <= -1)
  <2> SUFFICES ASSUME d <= -1 PROVE FALSE
    OBVIOUS
  <2>1. m * d <= -m
    <3>1. -1 - d \in Nat /\ m * d = - m * (-1 - d) - m
      BY <1>3
    <3>2. m * (-1 - d) >= 0
      BY <3>1
    <3> QED BY <3>1, <3>2
  <2> QED BY <1>1, <1>4, <2>1
<1>7. d = 0
  BY <1>3, <1>5, <1>6
<1> QED BY <1>1, <1>4, <1>7 DEF s

\* Wrapping is exact within an int, and may be left to the end of a sum.
LEMMA WrapIs ==
  ASSUME NEW x \in Int
  PROVE  /\ Wrap(x) \in -(IntMax + 1) .. IntMax
         /\ x \in -(IntMax + 1) .. IntMax => Wrap(x) = x
         /\ \A y \in Int : Wrap(Wrap(x) + y) = Wrap(x + y)
<1> DEFINE h == IntMax + 1
           m == 2 * IntMax + 2
           a == x + h
<1>1. h \in Nat /\ m \in Nat \ {0} /\ m = 2 * h /\ a \in Int
  BY DiceAssumption
<1>2. \A z \in Int : Wrap(z) = ((z + h) % m) - h
  <2>1. \A z \in Int : z + IntMax + 1 = z + h
    BY DiceAssumption
  <2> QED BY <2>1 DEF Wrap
<1>3. \A z \in Int : z % m \in 0 .. m - 1 /\ z \div m \in Int /\ z = m * (z \div m) + (z % m)
  BY <1>1, Divided
<1>4. IntMax = h - 1 /\ -(IntMax + 1) = -h
  BY DiceAssumption
<1> HIDE DEF h, m
<1>5. Wrap(x) \in -h .. h - 1
  <2>1. a % m \in 0 .. m - 1 /\ Wrap(x) = (a % m) - h
    BY <1>1, <1>2, <1>3
  <2> QED BY <1>1, <2>1
<1>6. ASSUME x \in -h .. h - 1 PROVE Wrap(x) = x
  <2>1. x + h \in 0 .. m - 1 /\ x + h = m * 0 + (x + h)
    BY <1>1, <1>6
  <2>2. (x + h) % m = x + h
    BY <1>1, <2>1, Remainder
  <2> QED BY <1>1, <1>2, <2>2
<1>7. ASSUME NEW y \in Int PROVE Wrap(Wrap(x) + y) = Wrap(x + y)
  <2> DEFINE k == (x + h) \div m
             b == x + y + h
             q == b \div m
             r == b % m
             c == Wrap(x) + y + h
  <2>1. x + h \in Int /\ b \in Int /\ h \in Int /\ m \in Int /\ k \in Int /\ q \in Int /\ r \in 0 .. m - 1
    BY <1>1, <1>3
  <2>2. Wrap(x) = x - m * k /\ b = m * q + r
    <3>1. x + h = m * k + ((x + h) % m) /\ b = m * q + r
      BY <1>3, <2>1
    <3>2. Wrap(x) = ((x + h) % m) - h /\ (x + h) % m \in Int
      BY <1>1, <1>2, <1>3, <2>1
    <3> DEFINE p == m * k
               s == (x + h) % m
    <3>3. p \in Int
      <4> HIDE DEF k
      <4> QED BY <2>1
    <3>4. Wrap(x) = x - p
      <4>1. x + h = p + s /\ Wrap(x) = s - h /\ s \in Int
        BY <3>1, <3>2
      <4> HIDE DEF p, s
      <4> QED BY <2>1, <3>3, <4>1
    <3> QED BY <3>1, <3>4
  <2>3. c \in Int /\ c = m * (q - k) + r
    <3> HIDE DEF k, q, r
    <3>1. m * (q - k) = m * q - m * k /\ m * q \in Int /\ m * k \in Int
      BY <1>1, <2>1
    <3> QED BY <1>1, <2>1, <2>2, <3>1
  <2>4. c % m = r
    <3> DEFINE d == q - k
    <3>1. d \in Int /\ c = m * d + r
      <4> HIDE DEF k, q, r, c
      <4> QED BY <2>1, <2>3
    <3> HIDE DEF k, q, r, c, d
    <3> QED BY <1>1, <2>1, <2>3, <3>1, Remainder
  <2>5. Wrap(Wrap(x) + y) = (c % m) - h
    <3>1. Wrap(x) + y \in Int
      BY <1>1, <1>5
    <3> QED BY <1>2, <3>1
  <2>6. Wrap(x + y) = r - h
    BY <1>2
  <2> QED BY <2>4, <2>5, <2>6
<1> QED BY <1>4, <1>5, <1>6, <1>7

-----------------------------------------------------------------------------
(* Sorting, keeping and dropping.                                          *)

AnyDie == [value : Nat, kept : BOOLEAN, explode : BOOLEAN]

LEMMA UpTo ==
  ASSUME NEW n \in Nat
  PROVE  IsFiniteSet(1 .. n) /\ Cardinality(1 .. n) = n
BY FS_Interval

LEMMA Span ==
  ASSUME NEW a \in Int, NEW b \in Int, a <= b
  PROVE  Cardinality(a .. b - 1) = b - a
<1>1. b - 1 \in Int
  OBVIOUS
<1>2. Cardinality(a .. b - 1) = IF a > b - 1 THEN 0 ELSE b - 1 - a + 1
  BY <1>1, FS_Interval
<1> QED BY <1>2

LEMMA Indices ==
  ASSUME NEW S, NEW s \in Seq(S)
  PROVE  /\ Len(s) \in Nat /\ DOMAIN s = 1 .. Len(s)
         /\ IsFiniteSet(DOMAIN s) /\ Cardinality(DOMAIN s) = Len(s)
         /\ \A i \in DOMAIN s : i \in Nat /\ s[i] \in S
         /\ s = <<>> <=> Len(s) = 0
<1>1. Len(s) \in Nat /\ DOMAIN s = 1 .. Len(s)
  OBVIOUS
<1>2. \A i \in DOMAIN s : i \in Nat /\ s[i] \in S
  OBVIOUS
<1>3. s = <<>> <=> Len(s) = 0
  OBVIOUS
<1> QED BY <1>1, <1>2, <1>3, UpTo

\* Die i comes before die j in `order'.
Before(d, i, j) == d[i].value < d[j].value \/ (d[i].value = d[j].value /\ i < j)

LEMMA BeforeIs ==
  ASSUME NEW d \in Seq(AnyDie), NEW i \in DOMAIN d, NEW j \in DOMAIN d
  PROVE  /\ ~Before(d, i, i)
         /\ i # j => Before(d, i, j) \/ Before(d, j, i)
         /\ ~(Before(d, i, j) /\ Before(d, j, i))
         /\ \A k \in DOMAIN d : Before(d, k, i) /\ Before(d, i, j) => Before(d, k, j)
<1>1. \A k \in DOMAIN d : k \in Nat /\ d[k] \in AnyDie
  BY Indices
<1>2. \A x \in AnyDie : x.value \in Nat
  BY DEF AnyDie
<1> QED BY <1>1, <1>2 DEF Before

\* Each place belongs to one die.
LEMMA PlaceIs ==
  ASSUME NEW d \in Seq(AnyDie)
  PROVE  /\ \A i \in DOMAIN d : Place(d, i) \in 0 .. Len(d) - 1
         /\ \A i, j \in DOMAIN d : Before(d, i, j) <=> Place(d, i) < Place(d, j)
         /\ \A k \in 0 .. Len(d) - 1 : \E i \in DOMAIN d : Place(d, i) = k
<1> DEFINE S == DOMAIN d
           n == Len(d)
           First(i) == {j \in S : Before(d, j, i)}
<1>1. n \in Nat /\ S = 1 .. n /\ IsFiniteSet(S) /\ Cardinality(S) = n
  BY Indices
<1>2. \A i \in S : /\ IsFiniteSet(First(i)) /\ Cardinality(First(i)) \in Nat
                   /\ Place(d, i) = Cardinality(First(i))
  <2> TAKE i \in S
  <2>1. First(i) \in SUBSET S
    OBVIOUS
  <2>2. Place(d, i) = Cardinality(First(i))
    BY DEF Place, Before
  <2> HIDE DEF First
  <2> QED BY <1>1, <2>1, <2>2, FS_Subset, FS_CardinalityType
<1>3. ASSUME NEW i \in S PROVE Place(d, i) \in 0 .. n - 1
  <2>1. First(i) \in SUBSET (S \ {i})
    BY BeforeIs
  <2>2. IsFiniteSet(S \ {i}) /\ Cardinality(S \ {i}) = n - 1
    BY <1>1, FS_RemoveElement
  <2>3. Cardinality(First(i)) <= n - 1
    BY <2>1, <2>2, FS_Subset
  <2> HIDE DEF First
  <2> QED BY <1>1, <1>2, <2>3
<1>4. ASSUME NEW i \in S, NEW j \in S, Before(d, i, j) PROVE Place(d, i) < Place(d, j)
  <2>1. First(i) \cup {i} \in SUBSET First(j) /\ i \notin First(i)
    BY <1>4, BeforeIs
  <2>2. Cardinality(First(i) \cup {i}) = Cardinality(First(i)) + 1
    <3> HIDE DEF First
    <3> QED BY <1>2, <2>1, FS_AddElement
  <2>3. Cardinality(First(i) \cup {i}) <= Cardinality(First(j))
    <3> HIDE DEF First
    <3> QED BY <1>2, <2>1, FS_Subset
  <2> HIDE DEF First
  <2> QED BY <1>2, <2>2, <2>3
<1>5. ASSUME NEW i \in S, NEW j \in S, Place(d, i) < Place(d, j) PROVE Before(d, i, j)
  <2>1. Place(d, i) \in Nat /\ Place(d, j) \in Nat
    BY <1>3, <1>1
  <2>2. ~Before(d, j, i)
    BY <1>4, <1>5, <2>1
  <2>3. i # j
    BY <1>5, <2>1
  <2> QED BY <2>2, <2>3, BeforeIs
<1>6. ASSUME NEW k \in 0 .. n - 1 PROVE \E i \in S : Place(d, i) = k
  <2> DEFINE T == 0 .. n - 1
             f == [i \in S |-> Place(d, i)]
  <2>1. IsFiniteSet(T) /\ Cardinality(T) = n
    <3> HIDE DEF n
    <3> QED BY <1>1, FS_Interval
  <2>2. f \in [S -> T]
    BY <1>3
  <2>3. \A i, j \in S : i # j => f[i] # f[j]
    <3> TAKE i, j \in S
    <3> HAVE i # j
    <3>1. Place(d, i) < Place(d, j) \/ Place(d, j) < Place(d, i)
      BY <1>4, BeforeIs
    <3>2. Place(d, i) \in Nat /\ Place(d, j) \in Nat
      BY <1>3, <1>1
    <3> QED BY <3>1, <3>2
  <2>4. f \in Injection(S, T)
    BY <2>2, <2>3 DEF Injection, IsInjective
  <2>5. f \in Surjection(S, T)
    <3> HIDE DEF f, T, S
    <3> QED BY <1>1, <2>1, <2>4, FS_Injection
  <2>6. k \in T
    OBVIOUS
  <2> QED BY <2>5, <2>6 DEF Surjection
<1> QED BY <1>3, <1>4, <1>5, <1>6

\* As many dice as there are places in a range.
LEMMA InRange ==
  ASSUME NEW d \in Seq(AnyDie), NEW a \in 0 .. Len(d), NEW b \in 0 .. Len(d), a <= b
  PROVE  LET S == {i \in DOMAIN d : a <= Place(d, i) /\ Place(d, i) < b}
         IN /\ IsFiniteSet(S) /\ Cardinality(S) = b - a
            /\ IsFiniteSet(DOMAIN d \ S) /\ Cardinality(DOMAIN d \ S) = Len(d) - (b - a)
<1> DEFINE S == {i \in DOMAIN d : a <= Place(d, i) /\ Place(d, i) < b}
           T == a .. b - 1
           f == [i \in S |-> Place(d, i)]
<1>1. /\ Len(d) \in Nat /\ DOMAIN d = 1 .. Len(d)
      /\ IsFiniteSet(DOMAIN d) /\ Cardinality(DOMAIN d) = Len(d)
  BY Indices
<1>2. \A i \in DOMAIN d : Place(d, i) \in 0 .. Len(d) - 1
  BY PlaceIs
<1>3. S \in SUBSET DOMAIN d /\ IsFiniteSet(S)
  BY <1>1, FS_Subset
<1>4. f \in [S -> T]
  BY <1>1, <1>2
<1>5. \A k \in T : \E i \in S : f[i] = k
  <2> TAKE k \in T
  <2>1. k \in 0 .. Len(d) - 1 /\ a <= k /\ k < b
    BY <1>1
  <2>2. PICK i \in DOMAIN d : Place(d, i) = k
    BY <2>1, PlaceIs
  <2> QED BY <2>1, <2>2
<1>6. \A i, j \in S : i # j => f[i] # f[j]
  <2> TAKE i, j \in S
  <2> HAVE i # j
  <2>1. Place(d, i) < Place(d, j) \/ Place(d, j) < Place(d, i)
    BY BeforeIs, PlaceIs
  <2>2. Place(d, i) \in Int /\ Place(d, j) \in Int
    BY <1>2
  <2> QED BY <2>1, <2>2
<1>7. f \in Surjection(S, T) /\ f \in Injection(S, T)
  <2> HIDE DEF f, S, T
  <2> QED BY <1>4, <1>5, <1>6 DEF Surjection, Injection, IsInjective
<1>8. Cardinality(T) = Cardinality(S)
  <2> HIDE DEF f, S, T
  <2> QED BY <1>3, <1>7, FS_Surjection
<1>9. Cardinality(T) = b - a
  <2>1. a \in Int /\ b \in Int
    BY <1>1
  <2> QED BY <2>1, Span
<1>10. /\ IsFiniteSet(DOMAIN d \ S)
       /\ Cardinality(DOMAIN d \ S) = Cardinality(DOMAIN d) - Cardinality(DOMAIN d \cap S)
       /\ DOMAIN d \cap S = S
  <2> HIDE DEF S
  <2> QED BY <1>1, <1>3, FS_Difference
<1> QED BY <1>1, <1>3, <1>8, <1>9, <1>10

\* The dice a term keeps are the right ones, as many as it should.
KeepsRight(d, m, n) ==
  LET kept == {i \in DOMAIN d : d[i].kept}
  IN /\ IsFiniteSet(kept) /\ Cardinality(kept) = KeptCount(m, n, Len(d))
     /\ \A i \in kept, j \in DOMAIN d \ kept :
          IF m \in {"kh", "dl"} THEN Before(d, j, i) ELSE Before(d, i, j)

\* What is dropped is a range of places at one end, of the right length.
Drops(d, m, n, a, b) ==
  /\ a <= b
  /\ Dropped(d, m, n) = {i \in DOMAIN d : a <= Place(d, i) /\ Place(d, i) < b}
  /\ KeptCount(m, n, Len(d)) = Len(d) - (b - a)
  /\ m \in {"kh", "dl"} => a = 0
  /\ m \in {"kl", "dh"} => b = Len(d)

LEMMA Clamps ==
  ASSUME NEW d \in Seq(AnyDie), NEW m \in {"kh", "kl", "dh", "dl"}, NEW n \in Nat, ~KeepDropPanics(d, m, n),
         NEW len \in Nat, len = Len(d),
         NEW x \in Int, NEW y \in Int, RangeOf(m, n, len) = <<x, y>>
  PROVE  LET a == IF x > 0 THEN x ELSE 0
             b == IF y < len THEN y ELSE len
         IN /\ a \in Int /\ b \in Int
            /\ Dropped(d, m, n) = {i \in DOMAIN d : a <= Place(d, i) /\ Place(d, i) < b}
            /\ d # <<>> => b >= 0 /\ a <= b
<1> DEFINE a == IF x > 0 THEN x ELSE 0
           b == IF y < len THEN y ELSE len
<1>1. Clamped(<<x, y>>, len) = <<a, b>>
  BY DEF Clamped, Max2, Min2
<1>2. a \in Int /\ b \in Int
  OBVIOUS
<1> DEFINE r == <<a, b>>
<1>3. r[1] = a /\ r[2] = b /\ Clamped(RangeOf(m, n, Len(d)), Len(d)) = r
  BY <1>1
<1> HIDE DEF a, b, r
<1>4. Dropped(d, m, n) = {i \in DOMAIN d : a <= Place(d, i) /\ Place(d, i) < b}
  <2>1. Dropped(d, m, n) = {i \in DOMAIN d : r[1] <= Place(d, i) /\ Place(d, i) < r[2]}
    BY <1>3 DEF Dropped
  <2> QED BY <1>3, <2>1
<1>5. ASSUME d # <<>> PROVE b >= 0 /\ a <= b
  <2>1. ~SlicePanics(r)
    BY <1>3, <1>5 DEF KeepDropPanics
  <2>2. ~(b < 0 \/ a > b)
    BY <1>3, <2>1 DEF SlicePanics
  <2> QED BY <1>2, <2>2
<1> QED BY <1>2, <1>4, <1>5 DEF a, b

LEMMA KeptIs ==
  ASSUME NEW m \in {"kh", "kl", "dh", "dl"}, NEW n \in Nat, NEW len \in Nat
  PROVE  KeptCount(m, n, len) =
           IF m \in {"kh", "kl"} THEN (IF n < len THEN n ELSE len)
           ELSE len - (IF n < len THEN n ELSE len)
BY DEF KeptCount, Min2, Modes

LEMMA DroppedIs ==
  ASSUME NEW d \in Seq(AnyDie), NEW m \in {"kh", "kl", "dh", "dl"}, NEW n \in Nat, ~KeepDropPanics(d, m, n)
  PROVE  \E a, b \in 0 .. Len(d) : Drops(d, m, n, a, b)
<1> DEFINE len == Len(d)
           Dropping(a, b) == Dropped(d, m, n) = {i \in DOMAIN d : a <= Place(d, i) /\ Place(d, i) < b}
<1>1. len \in Nat
  BY Indices
<1>2. m \in {"kh", "kl", "dh", "dl"}
  OBVIOUS
<1>3. d = <<>> <=> len = 0
  BY Indices
<1>4. d = <<>> => DOMAIN d = {}
  OBVIOUS
<1>5. \A a, b : Drops(d, m, n, a, b) <=>
        /\ a <= b /\ Dropping(a, b) /\ KeptCount(m, n, len) = len - (b - a)
        /\ m \in {"kh", "dl"} => a = 0
        /\ m \in {"kl", "dh"} => b = len
  BY DEF Drops
<1> SUFFICES \E a, b \in 0 .. len : Drops(d, m, n, a, b)
  OBVIOUS
<1>6. len = Len(d)
  OBVIOUS
<1> HIDE DEF len
<1>7. ASSUME NEW a, NEW b, Dropping(a, b), d = <<>>
      PROVE  0 \in 0 .. len /\ Drops(d, m, n, 0, 0)
  <2>1. len = 0 /\ DOMAIN d = {}
    BY <1>3, <1>4, <1>7
  <2>2. Dropping(0, 0)
    BY <1>7, <2>1
  <2>3. KeptCount(m, n, len) = 0
    BY <2>1, KeptIs
  <2> HIDE DEF Dropping
  <2> QED BY <1>5, <2>1, <2>2, <2>3
<1>8. CASE m = "kh"
  <2> DEFINE b == IF len - n < len THEN len - n ELSE len
  <2>1. RangeOf(m, n, len) = <<0, len - n>> /\ 0 \in Int /\ len - n \in Int
    BY <1>1, <1>8 DEF RangeOf
  <2>2. Dropping(0, b) /\ (d # <<>> => b >= 0 /\ 0 <= b)
    <3>1. Dropping(IF 0 > 0 THEN 0 ELSE 0, b) /\ (d # <<>> => b >= 0 /\ (IF 0 > 0 THEN 0 ELSE 0) <= b)
      BY <1>1, <1>6, <2>1, Clamps
    <3> QED BY <3>1
  <2> HIDE DEF Dropping
  <2>3. ASSUME d # <<>> PROVE b \in 0 .. len /\ 0 \in 0 .. len /\ KeptCount(m, n, len) = len - (b - 0)
    <3>1. KeptCount(m, n, len) = IF n < len THEN n ELSE len
      BY <1>1, <1>8, KeptIs
    <3> QED BY <1>1, <2>2, <2>3, <3>1
  <2> HIDE DEF b
  <2> QED BY <1>5, <1>7, <1>8, <2>2, <2>3
<1>9. CASE m = "kl"
  <2> DEFINE a == IF n > 0 THEN n ELSE 0
  <2>1. RangeOf(m, n, len) = <<n, len>>
    BY <1>1, <1>9 DEF RangeOf
  <2>2. Dropping(a, len) /\ (d # <<>> => len >= 0 /\ a <= len)
    <3>1. LET b == IF len < len THEN len ELSE len IN Dropping(a, b) /\ (d # <<>> => b >= 0 /\ a <= b)
      BY <1>1, <1>6, <2>1, Clamps
    <3> QED BY <3>1
  <2> HIDE DEF Dropping
  <2>3. ASSUME d # <<>> PROVE a \in 0 .. len /\ len \in 0 .. len /\ KeptCount(m, n, len) = len - (len - a)
    <3>1. KeptCount(m, n, len) = IF n < len THEN n ELSE len
      BY <1>1, <1>9, KeptIs
    <3> QED BY <1>1, <2>2, <2>3, <3>1
  <2> HIDE DEF a
  <2> QED BY <1>5, <1>7, <1>9, <2>2, <2>3
<1>10. CASE m = "dh"
  <2> DEFINE a == IF len - n > 0 THEN len - n ELSE 0
  <2>1. RangeOf(m, n, len) = <<len - n, len>> /\ len - n \in Int
    BY <1>1, <1>10 DEF RangeOf
  <2>2. Dropping(a, len) /\ (d # <<>> => len >= 0 /\ a <= len)
    <3>1. LET b == IF len < len THEN len ELSE len IN Dropping(a, b) /\ (d # <<>> => b >= 0 /\ a <= b)
      BY <1>1, <1>6, <2>1, Clamps
    <3> QED BY <3>1
  <2> HIDE DEF Dropping
  <2>3. ASSUME d # <<>> PROVE a \in 0 .. len /\ len \in 0 .. len /\ KeptCount(m, n, len) = len - (len - a)
    <3>1. KeptCount(m, n, len) = len - (IF n < len THEN n ELSE len)
      BY <1>1, <1>10, KeptIs
    <3> QED BY <1>1, <2>2, <2>3, <3>1
  <2> HIDE DEF a
  <2> QED BY <1>5, <1>7, <1>10, <2>2, <2>3
<1>11. CASE m = "dl"
  <2> DEFINE b == IF n < len THEN n ELSE len
  <2>1. RangeOf(m, n, len) = <<0, n>> /\ 0 \in Int
    BY <1>1, <1>11 DEF RangeOf
  <2>2. Dropping(0, b) /\ (d # <<>> => b >= 0 /\ 0 <= b)
    <3>1. Dropping(IF 0 > 0 THEN 0 ELSE 0, b) /\ (d # <<>> => b >= 0 /\ (IF 0 > 0 THEN 0 ELSE 0) <= b)
      BY <1>1, <1>6, <2>1, Clamps
    <3> QED BY <3>1
  <2> HIDE DEF Dropping
  <2>3. ASSUME d # <<>> PROVE b \in 0 .. len /\ 0 \in 0 .. len /\ KeptCount(m, n, len) = len - (b - 0)
    <3>1. KeptCount(m, n, len) = len - (IF n < len THEN n ELSE len)
      BY <1>1, <1>11, KeptIs
    <3> QED BY <1>1, <2>2, <2>3, <3>1
  <2> HIDE DEF b
  <2> QED BY <1>5, <1>7, <1>11, <2>2, <2>3
<1> QED BY <1>2, <1>8, <1>9, <1>10, <1>11

LEMMA MarkedIs ==
  ASSUME NEW d \in Seq(AnyDie), \A i \in DOMAIN d : d[i].kept,
         NEW m \in Modes, NEW n \in Nat, ~KeepDropPanics(d, m, n)
  PROVE  LET e == Marked(d, m, n)
         IN /\ e \in Seq(AnyDie) /\ Len(e) = Len(d)
            /\ \A i \in DOMAIN d : e[i].value = d[i].value /\ e[i].explode = d[i].explode
            /\ KeepsRight(e, m, n)
<1> DEFINE e == Marked(d, m, n)
           keeps(i) == (m = "" \/ i \notin Dropped(d, m, n))
           kept == {i \in DOMAIN d : e[i].kept}
<1>1. Len(d) \in Nat /\ DOMAIN d = 1 .. Len(d) /\ \A i \in DOMAIN d : d[i] \in AnyDie
  OBVIOUS
<1>2. e = [i \in 1 .. Len(d) |-> [d[i] EXCEPT !.kept = keeps(i)]]
  BY <1>1 DEF Marked
<1>3. \A i \in DOMAIN d : \A k \in BOOLEAN :
        LET x == [d[i] EXCEPT !.kept = k]
        IN x \in AnyDie /\ x.value = d[i].value /\ x.explode = d[i].explode /\ x.kept = k
  BY <1>1 DEF AnyDie
<1>4. \A i \in DOMAIN d : keeps(i) \in BOOLEAN
  OBVIOUS
<1>5. \A i \in DOMAIN d : /\ e[i] \in AnyDie
                          /\ e[i].value = d[i].value /\ e[i].explode = d[i].explode
                          /\ e[i].kept = keeps(i)
  <2> HIDE DEF keeps, e
  <2> QED BY <1>1, <1>2, <1>3, <1>4
<1>6. e \in Seq(AnyDie) /\ Len(e) = Len(d) /\ DOMAIN e = DOMAIN d
  <2> HIDE DEF e
  <2>1. e \in [1 .. Len(d) -> AnyDie]
    <3> HIDE DEF keeps
    <3> QED BY <1>1, <1>2, <1>5
  <2> QED BY <1>1, <2>1
<1>7. \A i, j \in DOMAIN d : Before(e, i, j) <=> Before(d, i, j)
  <2> HIDE DEF e, keeps
  <2> QED BY <1>5 DEF Before
<1>8. kept = {i \in DOMAIN d : keeps(i)}
  <2> HIDE DEF e, keeps
  <2> QED BY <1>5
<1> HIDE DEF e
<1>9. CASE m = ""
  <2>1. kept = DOMAIN d
    BY <1>8, <1>9
  <2>2. IsFiniteSet(kept) /\ Cardinality(kept) = Len(d)
    BY <2>1, Indices
  <2>3. KeptCount(m, n, Len(e)) = Len(d)
    BY <1>6, <1>9 DEF KeptCount
  <2> HIDE DEF kept
  <2>4. KeepsRight(e, m, n)
    BY <1>6, <2>1, <2>2, <2>3 DEF KeepsRight, kept
  <2> QED BY <1>5, <1>6, <2>4 DEF e
<1>10. CASE m # ""
  <2>0. m \in {"kh", "kl", "dh", "dl"}
    BY <1>10 DEF Modes
  <2>1. PICK a \in 0 .. Len(d), b \in 0 .. Len(d) : Drops(d, m, n, a, b)
    BY <2>0, DroppedIs
  <2>2. kept = DOMAIN d \ Dropped(d, m, n)
    BY <1>8, <1>10
  <2>3. IsFiniteSet(kept) /\ Cardinality(kept) = KeptCount(m, n, Len(d))
    <3>1. a <= b /\ kept = DOMAIN d \ {i \in DOMAIN d : a <= Place(d, i) /\ Place(d, i) < b}
      BY <2>1, <2>2 DEF Drops
    <3>2. IsFiniteSet(kept) /\ Cardinality(kept) = Len(d) - (b - a)
      <4> HIDE DEF kept
      <4> QED BY <3>1, InRange
    <3> QED BY <2>1, <3>2 DEF Drops
  <2>4. ASSUME NEW i \in kept, NEW j \in DOMAIN d \ kept
        PROVE  IF m \in {"kh", "dl"} THEN Before(d, j, i) ELSE Before(d, i, j)
    <3>1. /\ i \in DOMAIN d /\ j \in DOMAIN d
          /\ ~(a <= Place(d, i) /\ Place(d, i) < b) /\ a <= Place(d, j) /\ Place(d, j) < b
      BY <2>1, <2>2 DEF Drops
    <3>2. Place(d, i) \in 0 .. Len(d) - 1 /\ Place(d, j) \in 0 .. Len(d) - 1
      BY <3>1, PlaceIs
    <3> DEFINE x == Place(d, i)
               y == Place(d, j)
               len == Len(d)
    <3>3. x \in Int /\ y \in Int /\ 0 <= x /\ x < len /\ len \in Nat /\ 0 <= y /\ y < len
      BY <1>1, <3>2
    <3>4. (m \in {"kh", "dl"} => a = 0) /\ (m \notin {"kh", "dl"} => b = len) /\ a \in Nat /\ b \in Nat
      <4>1. (m \in {"kh", "dl"} => a = 0) /\ (m \in {"kl", "dh"} => b = len)
        BY <2>1 DEF Drops
      <4>2. a \in Nat /\ b \in Nat
        BY <1>1
      <4> QED BY <2>0, <4>1, <4>2
    <3>5. IF m \in {"kh", "dl"} THEN y < x ELSE x < y
      <4> HIDE DEF x, y, len
      <4> QED BY <3>1, <3>3, <3>4 DEF x, y
    <3> QED BY <3>1, <3>5, PlaceIs
  <2> HIDE DEF kept, keeps
  <2>5. KeepsRight(e, m, n)
    <3>1. kept = {i \in DOMAIN e : e[i].kept} /\ kept \in SUBSET DOMAIN d
      BY <1>6 DEF kept
    <3>2. \A i \in kept, j \in DOMAIN e \ kept : IF m \in {"kh", "dl"} THEN Before(e, j, i) ELSE Before(e, i, j)
      BY <1>6, <1>7, <2>4, <3>1
    <3> QED BY <1>6, <2>3, <3>1, <3>2 DEF KeepsRight
  <2> QED BY <1>5, <1>6, <2>5 DEF e
<1> QED BY <1>9, <1>10

-----------------------------------------------------------------------------
(* Parsing.                                                                *)

Token == Operators \cup DiceChunk \cup FlatChunk

LEMMA DraftIs ==
  ASSUME NEW d
  PROVE  d \in Drafts <=>
           d \in Seq(Token) /\ \A i \in 1 .. Len(d) - 1 : Operator(d[i]) \/ Operator(d[i + 1])
BY DEF Drafts, Token

LEMMA ChunkIs ==
  ASSUME NEW c \in Token, ~Operator(c)
  PROVE  /\ c \in DiceChunk \cup FlatChunk
         /\ IsDice(c) <=> ~c.flat
         /\ IsDice(c) => /\ c \in DiceChunk /\ c.count \in Nat /\ c.sides \in Nat /\ c.n \in Nat
                         /\ c.mode \in Modes /\ c.explode \in BOOLEAN
         /\ ~IsDice(c) => c \in FlatChunk /\ c.value \in Nat
<1>1. c \in DiceChunk \cup FlatChunk
  BY DEF Token, Operator
<1>2. c \in DiceChunk => /\ ~c.flat /\ c.count \in Nat /\ c.sides \in Nat /\ c.n \in Nat
                         /\ c.mode \in Modes /\ c.explode \in BOOLEAN
  BY DEF DiceChunk
<1>3. c \in FlatChunk => c.flat /\ c.value \in Nat
  BY DEF FlatChunk
<1> QED BY <1>1, <1>2, <1>3 DEF IsDice

\* The chunks of e up to place k.
Places(e, k) == {j \in 1 .. k : ~Operator(e[j])}

SignBefore(e, i) == IF i > 1 /\ e[i - 1] = [op |-> "-"] THEN -1 ELSE 1

\* The dice asked for up to place k.
Counted(e, k) == Total([i \in 1 .. k |-> IF IsDice(e[i]) THEN e[i].count ELSE 0])

LEMMA PlacesIs ==
  ASSUME NEW e, NEW k \in Nat
  PROVE  /\ IsFiniteSet(Places(e, k)) /\ Cardinality(Places(e, k)) \in Nat
         /\ Places(e, 0) = {} /\ Cardinality(Places(e, 0)) = 0
         /\ Cardinality(Places(e, k + 1)) = Cardinality(Places(e, k)) + (IF Operator(e[k + 1]) THEN 0 ELSE 1)
         /\ \A i \in 1 .. k : /\ Cardinality(Places(e, i)) <= Cardinality(Places(e, k))
                              /\ ~Operator(e[i]) => Cardinality(Places(e, i)) >= 1
<1>1. \A m \in Nat : IsFiniteSet(Places(e, m)) /\ Cardinality(Places(e, m)) \in Nat
  <2> TAKE m \in Nat
  <2>1. Places(e, m) \in SUBSET (1 .. m)
    BY DEF Places
  <2> QED BY <2>1, UpTo, FS_Subset, FS_CardinalityType
<1>2. Places(e, 0) = {} /\ Cardinality(Places(e, 0)) = 0
  <2>1. Places(e, 0) = {}
    BY DEF Places
  <2> QED BY <2>1, FS_EmptySet
<1>3. ASSUME Operator(e[k + 1]) PROVE Cardinality(Places(e, k + 1)) = Cardinality(Places(e, k))
  <2>1. Places(e, k + 1) = Places(e, k)
    BY <1>3 DEF Places
  <2> QED BY <2>1
<1>4. ASSUME ~Operator(e[k + 1]) PROVE Cardinality(Places(e, k + 1)) = Cardinality(Places(e, k)) + 1
  <2>1. Places(e, k + 1) = Places(e, k) \cup {k + 1} /\ k + 1 \notin Places(e, k)
    BY <1>4 DEF Places
  <2>2. Cardinality(Places(e, k) \cup {k + 1}) = Cardinality(Places(e, k)) + 1
    BY <1>1, <2>1, FS_AddElement
  <2> QED BY <2>1, <2>2
<1>5. ASSUME NEW i \in 1 .. k
      PROVE  /\ Cardinality(Places(e, i)) <= Cardinality(Places(e, k))
             /\ ~Operator(e[i]) => Cardinality(Places(e, i)) >= 1
  <2>1. Places(e, i) \in SUBSET Places(e, k)
    BY DEF Places
  <2>2. ~Operator(e[i]) => i \in Places(e, i)
    BY DEF Places
  <2>3. i \in Nat
    OBVIOUS
  <2>4. IsFiniteSet(Places(e, i)) /\ Cardinality(Places(e, i)) \in Nat
    BY <1>1, <2>3
  <2>5. ~Operator(e[i]) => Cardinality(Places(e, i)) # 0
    BY <2>2, <2>4, FS_EmptySet
  <2>6. Cardinality(Places(e, i)) <= Cardinality(Places(e, k))
    BY <1>1, <2>1, FS_Subset
  <2> QED BY <2>4, <2>5, <2>6
<1>6. Cardinality(Places(e, k)) \in Nat
  BY <1>1
<1>7. Cardinality(Places(e, k + 1)) = Cardinality(Places(e, k)) + (IF Operator(e[k + 1]) THEN 0 ELSE 1)
  BY <1>3, <1>4, <1>6
<1> QED BY <1>1, <1>2, <1>5, <1>7

\* The dice that terms ask for.
TermDice(q) == Total([i \in 1 .. Len(q) |-> IF q[i].chunk.flat THEN 0 ELSE q[i].chunk.count])

Term == [sign : {1, -1}, chunk : DiceChunk \cup FlatChunk]

\* Below pos, every operator has a chunk behind it, and every chunk is one term,
\* in its order, with the operator before it.
Written ==
  /\ pos \in 1 .. Len(input) + 1
  /\ sign = SignBefore(input, pos)
  /\ specs \in Seq(Term) /\ Len(specs) = Cardinality(Places(input, pos - 1))
  /\ \A i \in 1 .. pos - 1 : Operator(input[i]) => i < Len(input) /\ ~Operator(input[i + 1])
  /\ \A i \in 1 .. pos - 1 : ~Operator(input[i]) =>
       /\ Valid(input[i])
       /\ specs[Cardinality(Places(input, i))] = [sign |-> SignBefore(input, i), chunk |-> input[i]]
  /\ \A k \in DOMAIN specs :
       \E i \in 1 .. pos - 1 : ~Operator(input[i]) /\ Cardinality(Places(input, i)) = k

Counting == DiceAsked = Counted(input, pos - 1)

\* What is refused has a reason, and what is rolled has none.
Refusal ==
  /\ phase = "error" =>
       ~ValidExpression(input) \/ (pos = Len(input) + 1 /\ DiceAsked > MaxTotalDice)
  /\ phase \in {"roll", "done", "panic"} =>
       ValidExpression(input) /\ pos = Len(input) + 1 /\ DiceAsked <= MaxTotalDice

Parsing == Written /\ Counting /\ Refusal

LEMMA AskedIs == DiceAsked = TermDice(specs) /\ DiceAsked' = TermDice(specs)'
BY DEF DiceAsked, TermDice, Total

LEMMA SignNext ==
  ASSUME NEW e, NEW i \in Nat \ {0}
  PROVE  SignBefore(e, i + 1) = IF e[i] = [op |-> "-"] THEN -1 ELSE 1
<1>1. i + 1 > 1 /\ i + 1 - 1 = i
  OBVIOUS
<1> QED BY <1>1 DEF SignBefore

LEMMA SignIs ==
  ASSUME NEW e, NEW i
  PROVE  SignBefore(e, i) \in {1, -1} /\ SignBefore(e, 1) = 1
BY DEF SignBefore

LEMMA CountedNext ==
  ASSUME NEW e \in Drafts, NEW k \in Nat, k < Len(e)
  PROVE  /\ Counted(e, k) \in Nat
         /\ Counted(e, k + 1) = Counted(e, k) + (IF IsDice(e[k + 1]) THEN e[k + 1].count ELSE 0)
<1> DEFINE c(i) == IF IsDice(e[i]) THEN e[i].count ELSE 0
           f == [i \in 1 .. k + 1 |-> c(i)]
           g == [i \in 1 .. k |-> c(i)]
<1>1. \A i \in 1 .. k + 1 : c(i) \in Nat
  <2> TAKE i \in 1 .. k + 1
  <2>1. e[i] \in Token
    BY DraftIs
  <2> QED BY <2>1, ChunkIs DEF IsDice
<1>2. Counted(e, k) = Total(g) /\ Counted(e, k + 1) = Total(f)
  BY DEF Counted
<1> HIDE DEF c
<1>3. /\ f \in [1 .. k + 1 -> Int] /\ g \in [1 .. k -> Int] /\ g \in [1 .. k -> Nat]
      /\ f[k + 1] = c(k + 1) /\ \A i \in 1 .. k : f[i] = g[i]
  BY <1>1
<1> HIDE DEF f, g
<1>4. Total(f) = Total(g) + f[k + 1] /\ Total(g) \in Nat
  BY <1>3, TotalNext, TotalNat
<1>5. Counted(e, k) \in Nat /\ Counted(e, k + 1) = Counted(e, k) + c(k + 1)
  BY <1>2, <1>3, <1>4
<1> QED BY <1>5 DEF c

\* The dice of the terms parsed so far, one term more.
LEMMA AskedNext ==
  ASSUME NEW s \in Seq(Term), NEW t \in Term, NEW r, r = Append(s, t)
  PROVE  /\ TermDice(s) \in Nat
         /\ TermDice(r) = TermDice(s) + (IF t.chunk.flat THEN 0 ELSE t.chunk.count)
<1> DEFINE n == Len(s)
           c(u) == IF u.chunk.flat THEN 0 ELSE u.chunk.count
           f == [i \in 1 .. n + 1 |-> c(r[i])]
           g == [i \in 1 .. n |-> c(s[i])]
<1>1. /\ n \in Nat /\ Len(r) = n + 1 /\ r[n + 1] = t
      /\ \A i \in 1 .. n : r[i] = s[i] /\ s[i] \in Term
  OBVIOUS
<1>2. \A u \in Term : c(u) \in Nat
  BY DEF Term, DiceChunk, FlatChunk
<1>3. TermDice(r) = Total(f) /\ TermDice(s) = Total(g)
  BY <1>1 DEF TermDice
<1> HIDE DEF c, n
<1>4. /\ f \in [1 .. n + 1 -> Int] /\ g \in [1 .. n -> Int] /\ g \in [1 .. n -> Nat]
      /\ f[n + 1] = c(t) /\ \A i \in 1 .. n : f[i] = g[i]
  <2>1. \A i \in 1 .. n + 1 : r[i] \in Term
    <3>1. \A i \in 1 .. n + 1 : i \in 1 .. n \/ i = n + 1
      BY <1>1
    <3> QED BY <1>1, <3>1
  <2> QED BY <1>1, <1>2, <2>1
<1> HIDE DEF f, g
<1>5. Total(f) = Total(g) + f[n + 1] /\ Total(g) \in Nat
  BY <1>1, <1>4, TotalNext, TotalNat
<1>6. TermDice(s) \in Nat /\ TermDice(r) = TermDice(s) + c(t)
  BY <1>3, <1>4, <1>5
<1> QED BY <1>6 DEF c

LEMMA Tokens ==
  ASSUME input \in Drafts
  PROVE  /\ Len(input) \in Nat /\ DOMAIN input = 1 .. Len(input)
         /\ \A i \in 1 .. Len(input) : input[i] \in Token
         /\ \A i \in 1 .. Len(input) - 1 : Operator(input[i]) \/ Operator(input[i + 1])
BY DraftIs

LEMMA ParseStart ==
  ASSUME input \in Drafts, Fresh
  PROVE  Parsing
<1>1. phase = "parse" /\ pos = 1 /\ sign = 1 /\ specs = <<>>
  BY DEF Fresh
<1>2. Len(input) \in Nat /\ 1 \in 1 .. Len(input) + 1 /\ 1 .. pos - 1 = {} /\ pos - 1 = 0
  BY <1>1, Tokens
<1>3. specs \in Seq(Term) /\ Len(specs) = 0 /\ DOMAIN specs = {}
  BY <1>1
<1>4. Len(specs) = Cardinality(Places(input, pos - 1))
  BY <1>2, <1>3, PlacesIs
<1>5. Written
  BY <1>1, <1>2, <1>3, <1>4, SignIs DEF Written
<1>6. Counting
  <2>1. DiceAsked = Total([i \in 1 .. 0 |-> IF specs[i].chunk.flat THEN 0 ELSE specs[i].chunk.count])
    BY <1>3, AskedIs DEF TermDice
  <2>2. Counted(input, 0) = Total([i \in 1 .. 0 |-> IF IsDice(input[i]) THEN input[i].count ELSE 0])
    BY DEF Counted
  <2>3. \A f \in [1 .. 0 -> Int] : Total(f) = 0
    BY TotalTo
  <2>4. /\ [i \in 1 .. 0 |-> IF specs[i].chunk.flat THEN 0 ELSE specs[i].chunk.count] \in [1 .. 0 -> Int]
        /\ [i \in 1 .. 0 |-> IF IsDice(input[i]) THEN input[i].count ELSE 0] \in [1 .. 0 -> Int]
    OBVIOUS
  <2> QED BY <1>2, <2>1, <2>2, <2>3, <2>4 DEF Counting
<1>7. Refusal
  BY <1>1 DEF Refusal
<1> QED BY <1>5, <1>6, <1>7 DEF Parsing

LEMMA OperatorStep ==
  ASSUME input \in Drafts, Parsing, ParseOperator
  PROVE  Parsing'
<1>1. /\ phase = "parse" /\ pos <= Len(input) /\ Operator(input[pos])
      /\ input' = input /\ specs' = specs
  BY DEF ParseOperator
<1>2. /\ pos \in 1 .. Len(input) + 1 /\ pos \in 1 .. Len(input) /\ pos \in Nat /\ Len(input) \in Nat
      /\ input[pos] \in Token
  BY <1>1, Tokens DEF Parsing, Written
<1>3. CASE pos = Len(input) \/ Operator(input[pos + 1])
  <2>1. phase' = "error" /\ pos' = pos /\ sign' = sign
    BY <1>3 DEF ParseOperator
  <2>2. ~Grammatical(input)
    <3>1. pos \in DOMAIN input
      BY <1>2, Tokens
    <3>2. ~(pos < Len(input) /\ ~Operator(input[pos + 1]))
      BY <1>2, <1>3
    <3> QED BY <1>1, <3>1, <3>2 DEF Grammatical
  <2>3. ~ValidExpression(input)
    BY <2>2 DEF ValidExpression
  <2>4. Refusal'
    BY <1>1, <2>1, <2>3 DEF Refusal
  <2>5. Written' /\ Counting'
    BY <1>1, <2>1, AskedIs DEF Parsing, Written, Counting
  <2> QED BY <2>4, <2>5 DEF Parsing
<1>4. CASE ~(pos = Len(input) \/ Operator(input[pos + 1]))
  <2>1. phase' = phase /\ pos' = pos + 1 /\ sign' = IF input[pos].op = "-" THEN -1 ELSE 1
    BY <1>4 DEF ParseOperator
  <2>2. pos + 1 \in 1 .. Len(input) + 1 /\ pos' - 1 = pos /\ pos < Len(input)
    BY <1>2, <1>4, <2>1
  <2>3. sign' = SignBefore(input, pos + 1)
    <3>1. input[pos].op = "-" <=> input[pos] = [op |-> "-"]
      BY <1>1 DEF Operator, Operators
    <3>2. pos \in Nat \ {0}
      BY <1>2
    <3> QED BY <2>1, <3>1, <3>2, SignNext
  <2>4. Cardinality(Places(input, pos)) = Cardinality(Places(input, pos - 1))
    <3>1. pos - 1 \in Nat /\ pos - 1 + 1 = pos
      BY <1>2
    <3>2. Cardinality(Places(input, pos - 1)) \in Nat
      BY <3>1, PlacesIs
    <3>3. Cardinality(Places(input, pos - 1 + 1)) = Cardinality(Places(input, pos - 1)) + 0
      BY <1>1, <3>1, PlacesIs
    <3> QED BY <3>1, <3>2, <3>3
  <2>5. \A i \in 1 .. pos : i \in 1 .. pos - 1 \/ i = pos
    BY <1>2
  <2>6. \A i \in 1 .. pos - 1 : i \in 1 .. pos
    BY <1>2
  <2>7. Written'
    <3>1. \A i \in 1 .. pos : Operator(input[i]) => i < Len(input) /\ ~Operator(input[i + 1])
      BY <1>4, <2>2, <2>5 DEF Parsing, Written
    <3>2. \A i \in 1 .. pos : ~Operator(input[i]) =>
            /\ Valid(input[i])
            /\ specs[Cardinality(Places(input, i))] = [sign |-> SignBefore(input, i), chunk |-> input[i]]
      BY <1>1, <2>5 DEF Parsing, Written
    <3>3. \A k \in DOMAIN specs :
            \E i \in 1 .. pos : ~Operator(input[i]) /\ Cardinality(Places(input, i)) = k
      BY <2>6 DEF Parsing, Written
    <3> QED BY <1>1, <2>1, <2>2, <2>3, <2>4, <3>1, <3>2, <3>3 DEF Parsing, Written
  <2>8. Counting'
    <3>1. pos - 1 \in Nat /\ pos - 1 < Len(input) /\ pos - 1 + 1 = pos
      BY <1>2, <2>2
    <3>2. ~IsDice(input[pos])
      BY <1>1 DEF IsDice
    <3>3. Counted(input, pos) = Counted(input, pos - 1) + 0 /\ Counted(input, pos - 1) \in Nat
      <4>1. Counted(input, pos - 1 + 1) = Counted(input, pos - 1) + (IF IsDice(input[pos - 1 + 1]) THEN input[pos - 1 + 1].count ELSE 0)
        BY <3>1, CountedNext
      <4>2. Counted(input, pos - 1) \in Nat
        BY <3>1, CountedNext
      <4> QED BY <3>1, <3>2, <4>1, <4>2
    <3>4. DiceAsked' = DiceAsked
      BY <1>1, AskedIs
    <3>5. Counted(input, pos) = Counted(input, pos - 1)
      BY <3>3
    <3>6. DiceAsked = Counted(input, pos - 1)
      BY DEF Parsing, Counting
    <3> QED BY <1>1, <2>2, <3>4, <3>5, <3>6 DEF Counting
  <2>9. Refusal'
    BY <1>1, <2>1 DEF Refusal
  <2> QED BY <2>7, <2>8, <2>9 DEF Parsing
<1> QED BY <1>3, <1>4

LEMMA TermStep ==
  ASSUME input \in Drafts, Parsing, ParseTerm
  PROVE  Parsing'
<1>1. phase = "parse" /\ pos <= Len(input) /\ ~Operator(input[pos]) /\ input' = input
  BY DEF ParseTerm, Operator
<1>2. /\ pos \in 1 .. Len(input) + 1 /\ pos \in 1 .. Len(input) /\ pos \in Nat /\ Len(input) \in Nat
      /\ input[pos] \in Token
  BY <1>1, Tokens DEF Parsing, Written
<1>3. CASE ~Valid(input[pos])
  <2>1. phase' = "error" /\ pos' = pos /\ sign' = sign /\ specs' = specs
    BY <1>3 DEF ParseTerm
  <2>2. pos \in Chunks(input)
    BY <1>1, <1>2, Tokens DEF Chunks
  <2>3. ~ValidExpression(input)
    BY <1>3, <2>2 DEF ValidExpression
  <2>4. Refusal'
    BY <1>1, <2>1, <2>3 DEF Refusal
  <2>5. Written' /\ Counting'
    BY <1>1, <2>1, AskedIs DEF Parsing, Written, Counting
  <2> QED BY <2>4, <2>5 DEF Parsing
<1>4. CASE Valid(input[pos])
  <2> DEFINE t == [sign |-> sign, chunk |-> input[pos]]
             n == Len(specs)
             card(i) == Cardinality(Places(input, i))
             entry(i) == [sign |-> SignBefore(input, i), chunk |-> input[i]]
  <2>1. phase' = phase /\ pos' = pos + 1 /\ sign' = 1 /\ specs' = Append(specs, t)
    BY <1>4 DEF ParseTerm
  <2>2. pos + 1 \in 1 .. Len(input) + 1 /\ pos' - 1 = pos /\ pos - 1 \in Nat /\ pos - 1 + 1 = pos
    BY <1>2, <2>1
  <2>3. sign' = SignBefore(input, pos + 1)
    <3>1. input[pos] # [op |-> "-"]
      BY <1>1 DEF Operator, Operators
    <3>2. pos \in Nat \ {0}
      BY <1>2
    <3> QED BY <2>1, <3>1, <3>2, SignNext
  <2>4. specs \in Seq(Term) /\ n \in Nat /\ n = card(pos - 1)
    BY DEF Parsing, Written
  <2>5. t \in Term /\ t = entry(pos)
    <3>1. sign = SignBefore(input, pos) /\ sign \in {1, -1}
      BY SignIs DEF Parsing, Written
    <3>2. input[pos] \in DiceChunk \cup FlatChunk
      BY <1>1, <1>2, ChunkIs
    <3> QED BY <3>1, <3>2 DEF Term
  <2> HIDE DEF t
  <2>6. specs' \in Seq(Term) /\ Len(specs') = n + 1 /\ specs'[n + 1] = t /\ \A k \in 1 .. n : specs'[k] = specs[k]
    BY <2>1, <2>4, <2>5
  <2>7. card(pos) = n + 1
    <3>1. card(pos - 1 + 1) = card(pos - 1) + 1
      BY <1>1, <2>2, PlacesIs
    <3> QED BY <2>2, <2>4, <3>1
  <2>8. \A i \in 1 .. pos - 1 : ~Operator(input[i]) => card(i) \in 1 .. n
    <3> TAKE i \in 1 .. pos - 1
    <3> HAVE ~Operator(input[i])
    <3>1. card(i) <= card(pos - 1) /\ card(i) >= 1
      BY <2>2, PlacesIs
    <3>2. i \in Nat
      OBVIOUS
    <3>3. card(i) \in Nat
      BY <3>2, PlacesIs
    <3> HIDE DEF card
    <3> QED BY <2>4, <3>1, <3>3
  <2>9. \A i \in 1 .. pos : i \in 1 .. pos - 1 \/ i = pos
    BY <1>2
  <2>10. (\A i \in 1 .. pos - 1 : i \in 1 .. pos) /\ pos \in 1 .. pos
    BY <1>2
  <2>11. \A i \in 1 .. pos : ~Operator(input[i]) => Valid(input[i]) /\ specs'[card(i)] = entry(i)
    <3> TAKE i \in 1 .. pos
    <3> HAVE ~Operator(input[i])
    <3>1. CASE i = pos
      BY <1>4, <2>5, <2>6, <2>7, <3>1
    <3>2. CASE i \in 1 .. pos - 1
      <4>1. Valid(input[i]) /\ specs[card(i)] = entry(i)
        BY <3>2 DEF Parsing, Written
      <4>2. specs'[card(i)] = specs[card(i)]
        BY <2>6, <2>8, <3>2
      <4> QED BY <4>1, <4>2
    <3> QED BY <2>9, <3>1, <3>2
  <2>12. \A k \in 1 .. n + 1 : \E i \in 1 .. pos : ~Operator(input[i]) /\ card(i) = k
    <3> TAKE k \in 1 .. n + 1
    <3>1. CASE k = n + 1
      BY <1>1, <2>7, <2>10, <3>1
    <3>2. CASE k \in 1 .. n
      <4>1. k \in DOMAIN specs
        BY <2>4, <3>2
      <4>2. PICK i \in 1 .. pos - 1 : ~Operator(input[i]) /\ card(i) = k
        BY <4>1 DEF Parsing, Written
      <4> QED BY <2>10, <4>2
    <3> QED BY <2>4, <3>1, <3>2
  <2>13. DOMAIN specs' = 1 .. n + 1
    BY <2>4, <2>6
  <2>14. \A i \in 1 .. pos : Operator(input[i]) => i < Len(input) /\ ~Operator(input[i + 1])
    BY <1>1, <2>9 DEF Parsing, Written
  <2>15. Written'
    BY <1>1, <2>1, <2>2, <2>3, <2>6, <2>7, <2>11, <2>12, <2>13, <2>14 DEF Written
  <2>16. Counting'
    <3> DEFINE c == IF t.chunk.flat THEN 0 ELSE t.chunk.count
    <3>1. TermDice(specs) \in Nat /\ TermDice(specs)' = TermDice(specs) + c
      BY <2>1, <2>4, <2>5, AskedNext
    <3>2. DiceAsked = TermDice(specs) /\ DiceAsked' = TermDice(specs)'
      BY AskedIs
    <3>3. c = IF IsDice(input[pos]) THEN input[pos].count ELSE 0
      <4>1. t.chunk = input[pos]
        BY DEF t
      <4>2. IsDice(input[pos]) <=> ~input[pos].flat
        BY <1>1, <1>2, ChunkIs
      <4> QED BY <4>1, <4>2
    <3>4. Counted(input, pos - 1 + 1) = Counted(input, pos - 1) + (IF IsDice(input[pos - 1 + 1]) THEN input[pos - 1 + 1].count ELSE 0)
      <4>1. pos - 1 < Len(input)
        BY <1>1, <1>2
      <4> QED BY <2>2, <4>1, CountedNext
    <3>5. Counted(input, pos) = Counted(input, pos - 1) + c
      BY <2>2, <3>3, <3>4
    <3>6. DiceAsked = Counted(input, pos - 1)
      BY DEF Parsing, Counting
    <3> HIDE DEF c
    <3>7. DiceAsked' = Counted(input, pos)
      BY <3>1, <3>2, <3>5, <3>6
    <3> QED BY <1>1, <2>2, <3>7 DEF Counting
  <2>17. Refusal'
    BY <1>1, <2>1 DEF Refusal
  <2> QED BY <2>15, <2>16, <2>17 DEF Parsing
<1> QED BY <1>3, <1>4

\* What is parsed to its end is of the grammar, but for the tests around the loop.
LEMMA EndIs ==
  ASSUME input \in Drafts, Written, pos = Len(input) + 1
  PROVE  /\ Grammatical(input) /\ \A i \in Chunks(input) : Valid(input[i])
         /\ input # <<>> => specs # <<>>
<1>1. Len(input) \in Nat /\ 1 .. pos - 1 = 1 .. Len(input) /\ DOMAIN input = 1 .. Len(input)
  BY Tokens
<1>2. Grammatical(input)
  BY <1>1 DEF Written, Grammatical
<1>3. \A i \in Chunks(input) : Valid(input[i])
  BY <1>1 DEF Written, Chunks
<1>4. ASSUME input # <<>> PROVE specs # <<>>
  <2>1. input \in Seq(Token)
    BY DraftIs
  <2>2. Len(input) # 0
    BY <1>4, <2>1
  <2> DEFINE n == Len(input)
  <2>3. n \in 1 .. n
    BY <1>1, <2>2
  <2>4. ~Operator(input[n])
    BY <1>1, <2>3 DEF Written
  <2>5. n \in Places(input, n) /\ IsFiniteSet(Places(input, n))
    BY <1>1, <2>3, <2>4, PlacesIs DEF Places
  <2>6. Cardinality(Places(input, n)) # 0
    BY <2>5, FS_EmptySet
  <2>7. pos - 1 = n
    BY <1>1
  <2>8. Len(specs) # 0
    BY <2>6, <2>7 DEF Written
  <2> QED BY <2>8
<1> QED BY <1>2, <1>3, <1>4

LEMMA EndStep ==
  ASSUME input \in Drafts, Parsing, ParseEnd
  PROVE  Parsing'
<1> DEFINE refused == input = <<>> \/ Len(input) > MaxLen \/ specs = <<>> \/ DiceAsked > MaxTotalDice
<1>1. /\ phase = "parse" /\ pos = Len(input) + 1 /\ UNCHANGED <<input, pos, sign, specs>>
      /\ phase' = IF refused THEN "error" ELSE "roll"
  BY DEF ParseEnd
<1>2. Written' /\ Counting' /\ DiceAsked' = DiceAsked
  BY <1>1, AskedIs DEF Parsing, Written, Counting
<1>3. /\ Grammatical(input) /\ \A i \in Chunks(input) : Valid(input[i])
      /\ input # <<>> => specs # <<>>
  BY <1>1, EndIs DEF Parsing
<1>4. Len(input) \in Nat /\ MaxLen \in Nat /\ MaxTotalDice \in Nat
  BY Tokens, DiceAssumption
<1>5. DiceAsked \in Nat
  <2>1. DiceAsked = Counted(input, pos - 1) /\ pos - 1 = Len(input)
    BY <1>1, <1>4 DEF Parsing, Counting
  <2>2. CASE input = <<>>
    <3>1. Len(input) = 0
      BY <2>2
    <3>2. Counted(input, 0) = Total([i \in 1 .. 0 |-> IF IsDice(input[i]) THEN input[i].count ELSE 0])
      BY DEF Counted
    <3>3. [i \in 1 .. 0 |-> IF IsDice(input[i]) THEN input[i].count ELSE 0] \in [1 .. 0 -> Nat]
      OBVIOUS
    <3>4. Counted(input, 0) \in Nat
      BY <3>2, <3>3, TotalNat
    <3> QED BY <2>1, <3>1, <3>4
  <2>3. CASE input # <<>>
    <3> DEFINE k == Len(input) - 1
    <3>1. k \in Nat /\ k < Len(input) /\ k + 1 = Len(input) /\ Len(input) \in 1 .. Len(input)
      <4>1. input \in Seq(Token)
        BY DraftIs
      <4> QED BY <1>4, <2>3, <4>1
    <3>2. /\ Counted(input, k) \in Nat
          /\ Counted(input, k + 1) = Counted(input, k) + (IF IsDice(input[k + 1]) THEN input[k + 1].count ELSE 0)
      BY <3>1, CountedNext
    <3>3. (IF IsDice(input[k + 1]) THEN input[k + 1].count ELSE 0) \in Nat
      <4>1. input[k + 1] \in Token
        BY <3>1, Tokens
      <4> QED BY <4>1, ChunkIs DEF IsDice
    <3> QED BY <2>1, <3>1, <3>2, <3>3
  <2> QED BY <2>2, <2>3
<1>6. CASE refused
  <2>1. ~ValidExpression(input) \/ DiceAsked > MaxTotalDice
    <3>1. input = <<>> \/ Len(input) > MaxLen => ~ValidExpression(input)
      BY <1>4 DEF ValidExpression
    <3> QED BY <1>3, <1>6, <3>1
  <2>2. phase' = "error"
    BY <1>1, <1>6
  <2> QED BY <1>1, <1>2, <2>1, <2>2 DEF Parsing, Refusal
<1>7. CASE ~refused
  <2>1. ValidExpression(input) /\ DiceAsked <= MaxTotalDice
    BY <1>3, <1>4, <1>5, <1>7 DEF ValidExpression
  <2>2. phase' = "roll"
    BY <1>1, <1>7
  <2> QED BY <1>1, <1>2, <2>1, <2>2 DEF Parsing, Refusal
<1> QED BY <1>6, <1>7

\* Rolling leaves what was parsed alone.
LEMMA ParsedStays ==
  ASSUME Parsing, UNCHANGED <<input, pos, sign, specs>>,
         phase' = phase \/ (phase = "roll" /\ phase' \in {"done", "panic"})
  PROVE  Parsing'
<1>1. Written' /\ Counting' /\ DiceAsked' = DiceAsked
  BY AskedIs DEF Parsing, Written, Counting
<1>2. Refusal'
  BY <1>1 DEF Parsing, Refusal
<1> QED BY <1>1, <1>2 DEF Parsing

-----------------------------------------------------------------------------
(* Rolling.                                                                *)

Result == [value : Int, dice : Seq(DieType)]

Thrown(d) == {i \in DOMAIN d : ~d[i].explode}
Top(d, c, i) == c.explode /\ d[i].value = c.sides

\* Behind each highest face is the die it was good for, and nowhere else; b is
\* what the budget is.
Chain(d, c, b) ==
  \A i \in DOMAIN d :
    /\ d[i].explode => i > 1 /\ Top(d, c, i - 1)
    /\ i < Len(d) /\ Top(d, c, i) => d[i + 1].explode \/ b = 0
Ended(d, c, b) == d # <<>> /\ Top(d, c, Len(d)) => b = 0

\* The dice of the term that is rolled.
Throwing ==
  /\ dice \in Seq(DieType) /\ \A i \in DOMAIN dice : dice[i].kept
  /\ rolled \in Nat /\ rolled = Cardinality(Thrown(dice))
  /\ budget \in 0 .. MaxExplosions
  /\ terms \in Seq(Result) /\ Len(terms) <= Len(specs)
  /\ dice # <<>> => /\ Len(terms) < Len(specs) /\ ~Spec1.chunk.flat
                    /\ rolled <= Spec1.chunk.count /\ Chain(dice, Spec1.chunk, budget)

\* A term that is rolled, t, is what its spec q asks for.
Fulfils(t, q, b) ==
  IF q.chunk.flat
  THEN t.dice = <<>> /\ t.value \in {q.chunk.value, -q.chunk.value}
  ELSE /\ Cardinality(Thrown(t.dice)) = q.chunk.count
       /\ Chain(t.dice, q.chunk, b) /\ Ended(t.dice, q.chunk, b)
       /\ KeepsRight(t.dice, q.chunk.mode, q.chunk.n)

Finished == \A k \in DOMAIN terms : Fulfils(terms[k], specs[k], budget)

\* All dice are asked for or paid from the budget.
DiceOf(s) == Total([i \in 1 .. Len(s) |-> Len(s[i].dice)])
AskedTo(q, k) == Total([i \in 1 .. k |-> IF q[i].chunk.flat THEN 0 ELSE q[i].chunk.count])
Paid == Len(dice) + DiceOf(terms) = AskedTo(specs, Len(terms)) + rolled + (MaxExplosions - budget)

\* The total is the sum of the values, wrapped.
ValueOf(s) == Total([i \in 1 .. Len(s) |-> s[i].value])
Added == total = Wrap(ValueOf(terms))

\* The dice that are kept, over all terms.
KeptDice(t) ==
  {x \in (DOMAIN t) \X (1 .. MaxTotalDice + MaxExplosions) :
     x[2] \in DOMAIN t[x[1]].dice /\ t[x[1]].dice[x[2]].kept}
Decides(t, q, v) ==
  \E x \in KeptDice(t) : /\ KeptDice(t) = {x} /\ q[x[1]].chunk.sides = CritSides
                          /\ t[x[1]].dice[x[2]].value = v
OnlyD20(q) == \A k \in DOMAIN q : ~q[k].chunk.flat => q[k].chunk.sides = CritSides
CritRight(x, t, q) ==
  /\ x = "success" <=> OnlyD20(q) /\ Decides(t, q, CritSides)
  /\ x = "fumble" <=> OnlyD20(q) /\ Decides(t, q, 1)
Decided == phase = "done" => Len(terms) = Len(specs) /\ CritRight(crit, terms, specs)

Rolled == Throwing /\ Finished /\ Paid /\ Added /\ Decided

LEMMA DieIs ==
  /\ \A x \in DieType : x \in AnyDie /\ x.value \in 1 .. MaxSides /\ x.explode \in BOOLEAN
  /\ \A x \in AnyDie : x.value \in 1 .. MaxSides => x \in DieType
  /\ \A d \in Seq(DieType) : d \in Seq(AnyDie)
<1>1. MaxSides \in Nat
  BY DiceAssumption
<1>2. \A x \in DieType : x \in AnyDie /\ x.value \in 1 .. MaxSides /\ x.explode \in BOOLEAN
  BY <1>1 DEF DieType, AnyDie
<1>3. \A x \in AnyDie : x.value \in 1 .. MaxSides => x \in DieType
  BY <1>1 DEF DieType, AnyDie
<1>4. \A d \in Seq(DieType) : d \in Seq(AnyDie)
  BY <1>2
<1> QED BY <1>2, <1>3, <1>4

LEMMA ResultIs ==
  ASSUME NEW t \in Result
  PROVE  t.value \in Int /\ t.dice \in Seq(DieType) /\ Len(t.dice) \in Nat
<1>1. t.value \in Int /\ t.dice \in Seq(DieType)
  BY DEF Result
<1> QED BY <1>1

\* One term more.
LEMMA OneMore ==
  ASSUME NEW s \in Seq(Result), NEW t \in Result, NEW r, r = Append(s, t)
  PROVE  /\ DiceOf(s) \in Int /\ DiceOf(r) = DiceOf(s) + Len(t.dice)
         /\ ValueOf(s) \in Int /\ ValueOf(r) = ValueOf(s) + t.value
<1> DEFINE n == Len(s)
<1>1. n \in Nat /\ r \in Seq(Result) /\ Len(r) = n + 1 /\ r[n + 1] = t /\ \A k \in 1 .. n : r[k] = s[k]
  OBVIOUS
<1>2. \A k \in 1 .. n : s[k].value \in Int /\ Len(s[k].dice) \in Int
  <2> TAKE k \in 1 .. n
  <2>1. s[k] \in Result
    OBVIOUS
  <2> QED BY <2>1, ResultIs
<1>3. \A k \in 1 .. n + 1 : r[k].value \in Int /\ Len(r[k].dice) \in Int
  <2> TAKE k \in 1 .. n + 1
  <2>1. r[k] \in Result
    BY <1>1
  <2> QED BY <2>1, ResultIs
<1> HIDE DEF n
<1>4. DiceOf(s) \in Int /\ DiceOf(r) = DiceOf(s) + Len(t.dice)
  <2> DEFINE f == [k \in 1 .. n + 1 |-> Len(r[k].dice)]
             g == [k \in 1 .. n |-> Len(s[k].dice)]
  <2>1. f \in [1 .. n + 1 -> Int] /\ g \in [1 .. n -> Int]
    BY <1>2, <1>3
  <2>2. f[n + 1] = Len(t.dice) /\ \A k \in 1 .. n : f[k] = g[k]
    BY <1>1
  <2>3. DiceOf(r) = Total(f) /\ DiceOf(s) = Total(g)
    BY <1>1 DEF DiceOf, n
  <2> HIDE DEF f, g
  <2>4. Total(g) \in Int /\ Total(f) = Total(g) + f[n + 1]
    BY <1>1, <2>1, <2>2, TotalNext
  <2> QED BY <2>2, <2>3, <2>4
<1>5. ValueOf(s) \in Int /\ ValueOf(r) = ValueOf(s) + t.value
  <2> DEFINE f == [k \in 1 .. n + 1 |-> r[k].value]
             g == [k \in 1 .. n |-> s[k].value]
  <2>1. f \in [1 .. n + 1 -> Int] /\ g \in [1 .. n -> Int]
    BY <1>2, <1>3
  <2>2. f[n + 1] = t.value /\ \A k \in 1 .. n : f[k] = g[k]
    BY <1>1
  <2>3. ValueOf(r) = Total(f) /\ ValueOf(s) = Total(g)
    BY <1>1 DEF ValueOf, n
  <2> HIDE DEF f, g
  <2>4. Total(g) \in Int /\ Total(f) = Total(g) + f[n + 1]
    BY <1>1, <2>1, <2>2, TotalNext
  <2> QED BY <2>2, <2>3, <2>4
<1> QED BY <1>4, <1>5

LEMMA SpecIs ==
  ASSUME Written, input \in Drafts, NEW k \in DOMAIN specs
  PROVE  /\ specs[k] \in Term /\ specs[k].sign \in {1, -1}
         /\ Valid(specs[k].chunk)
         /\ ~specs[k].chunk.flat => /\ specs[k].chunk \in DiceChunk
                                    /\ specs[k].chunk.count \in 0 .. MaxDicePerTerm
                                    /\ specs[k].chunk.sides \in 1 .. MaxSides
                                    /\ specs[k].chunk.n \in Nat
                                    /\ specs[k].chunk.mode \in Modes
         /\ specs[k].chunk.flat => specs[k].chunk.value \in Nat
<1> DEFINE c == specs[k].chunk
<1>1. specs[k] \in Term /\ specs[k].sign \in {1, -1} /\ c \in DiceChunk \cup FlatChunk
  <2>1. specs[k] \in Term
    BY DEF Written
  <2> QED BY <2>1 DEF Term
<1>2. Valid(c)
  <2>1. PICK i \in 1 .. pos - 1 : ~Operator(input[i]) /\ Cardinality(Places(input, i)) = k
    BY DEF Written
  <2>2. Valid(input[i]) /\ specs[k] = [sign |-> SignBefore(input, i), chunk |-> input[i]]
    BY <2>1 DEF Written
  <2> QED BY <2>2
<1> HIDE DEF c
<1>3. /\ c \in DiceChunk => ~c.flat /\ c.count \in Nat /\ c.n \in Nat /\ c.mode \in Modes
      /\ c \in FlatChunk => c.flat /\ c.value \in Nat
  BY DEF DiceChunk, FlatChunk
<1>4. ~c.flat => c.count <= MaxDicePerTerm /\ c.sides \in 1 .. MaxSides
  BY <1>2 DEF Valid
<1>5. MaxDicePerTerm \in Nat
  BY DiceAssumption
<1> QED BY <1>1, <1>2, <1>3, <1>4, <1>5 DEF c

LEMMA SpecsLen == ASSUME Written PROVE Len(specs) \in Nat /\ DOMAIN specs = 1 .. Len(specs)
BY DEF Written

LEMMA AskedToNext ==
  ASSUME Written, input \in Drafts, NEW k \in Nat, k < Len(specs)
  PROVE  /\ AskedTo(specs, k) \in Nat
         /\ AskedTo(specs, k + 1) = AskedTo(specs, k) + (IF specs[k + 1].chunk.flat THEN 0 ELSE specs[k + 1].chunk.count)
         /\ AskedTo(specs, k + 1) <= DiceAsked
<1> DEFINE c(i) == IF specs[i].chunk.flat THEN 0 ELSE specs[i].chunk.count
           n == Len(specs)
           F(j) == [i \in 1 .. j |-> c(i)]
<1>1. n \in Nat /\ DOMAIN specs = 1 .. n
  BY SpecsLen
<1>2. \A i \in 1 .. n : c(i) \in Nat
  <2> TAKE i \in 1 .. n
  <2>1. ~specs[i].chunk.flat => specs[i].chunk.count \in 0 .. MaxDicePerTerm
    BY <1>1, SpecIs
  <2> QED BY <2>1
<1>3. \A j : AskedTo(specs, j) = Total(F(j))
  BY DEF AskedTo
<1>4. DiceAsked = Total(F(n))
  BY AskedIs DEF TermDice
<1> HIDE DEF c, n
<1>5. \A j \in 0 .. n : F(j) \in [1 .. j -> Nat] /\ F(j) \in [1 .. j -> Int]
  BY <1>1, <1>2
<1>6. k \in 0 .. n /\ k + 1 \in 0 .. n
  BY <1>1 DEF n
<1>7. AskedTo(specs, k) \in Nat
  BY <1>3, <1>5, <1>6, TotalNat
<1>8. AskedTo(specs, k + 1) = AskedTo(specs, k) + c(k + 1)
  <2>1. (\A i \in 1 .. k : F(k + 1)[i] = F(k)[i]) /\ F(k + 1)[k + 1] = c(k + 1)
    BY <1>6
  <2>2. F(k) \in [1 .. k -> Int] /\ F(k + 1) \in [1 .. k + 1 -> Int]
    BY <1>5, <1>6
  <2> DEFINE f == F(k + 1)
             g == F(k)
  <2>3. Total(f) = Total(g) + f[k + 1]
    <3> HIDE DEF F
    <3> QED BY <2>1, <2>2, TotalNext
  <2> QED BY <1>3, <2>1, <2>3
<1>9. AskedTo(specs, k + 1) <= DiceAsked
  <2>1. [i \in 1 .. k + 1 |-> F(n)[i]] = F(k + 1)
    BY <1>1, <1>6
  <2>2. F(n) \in [1 .. n -> Nat]
    BY <1>1, <1>5
  <2> HIDE DEF F
  <2>3. Total([i \in 1 .. k + 1 |-> F(n)[i]]) <= Total(F(n))
    BY <1>1, <1>6, <2>2, TotalGrows
  <2> QED BY <1>3, <1>4, <2>1, <2>3
<1> QED BY <1>7, <1>8, <1>9 DEF c

LEMMA ValueIs ==
  ASSUME NEW s \in Seq(Result)
  PROVE  ValueOf(s) \in Int
<1>1. [value |-> 0, dice |-> <<>>] \in Result
  BY DEF Result
<1> QED BY <1>1, OneMore

Quiet == /\ dice = <<>> /\ rolled = 0 /\ budget = MaxExplosions
         /\ terms = <<>> /\ total = 0

LEMMA Zero == Total([i \in 1 .. 0 |-> 0]) = 0
<1>1. [i \in 1 .. 0 |-> 0] \in [1 .. 0 -> Int]
  OBVIOUS
<1> QED BY <1>1, TotalTo

LEMMA ThrownIs ==
  ASSUME NEW d \in Seq(AnyDie)
  PROVE  /\ IsFiniteSet(Thrown(d)) /\ Cardinality(Thrown(d)) \in 0 .. Len(d)
         /\ d = <<>> => Cardinality(Thrown(d)) = 0
<1>1. IsFiniteSet(DOMAIN d) /\ Cardinality(DOMAIN d) = Len(d) /\ Thrown(d) \in SUBSET DOMAIN d /\ Len(d) \in Nat
  BY Indices DEF Thrown
<1>2. /\ IsFiniteSet(Thrown(d)) /\ Cardinality(Thrown(d)) \in Nat
      /\ Cardinality(Thrown(d)) <= Len(d)
  BY <1>1, FS_Subset, FS_CardinalityType
<1>3. d = <<>> => Len(d) = 0
  OBVIOUS
<1> QED BY <1>1, <1>2, <1>3

\* Before the first die.
LEMMA QuietIs ==
  ASSUME input \in Drafts, Written, Quiet, phase # "done"
  PROVE  Rolled
<1>1. /\ dice \in Seq(DieType) /\ DOMAIN dice = {} /\ Len(dice) = 0
      /\ terms \in Seq(Result) /\ DOMAIN terms = {} /\ Len(terms) = 0
  BY DEF Quiet
<1>2. Cardinality(Thrown(dice)) = 0
  BY <1>1, DieIs, ThrownIs DEF Quiet
<1>3. MaxExplosions \in Nat /\ MaxExplosions \in 0 .. MaxExplosions /\ Len(specs) \in Nat
  BY DiceAssumption, SpecsLen
<1>4. Throwing
  BY <1>1, <1>2, <1>3 DEF Throwing, Quiet
<1>5. Finished
  BY <1>1 DEF Finished
<1>6. /\ DiceOf(terms) = 0 /\ ValueOf(terms) = 0 /\ AskedTo(specs, Len(terms)) = 0
  <2>1. /\ DiceOf(terms) = Total([i \in 1 .. 0 |-> Len(terms[i].dice)])
        /\ ValueOf(terms) = Total([i \in 1 .. 0 |-> terms[i].value])
        /\ AskedTo(specs, 0) = Total([i \in 1 .. 0 |-> IF specs[i].chunk.flat THEN 0 ELSE specs[i].chunk.count])
    BY <1>1 DEF DiceOf, ValueOf, AskedTo
  <2>2. /\ [i \in 1 .. 0 |-> Len(terms[i].dice)] = [i \in 1 .. 0 |-> 0]
        /\ [i \in 1 .. 0 |-> terms[i].value] = [i \in 1 .. 0 |-> 0]
        /\ [i \in 1 .. 0 |-> IF specs[i].chunk.flat THEN 0 ELSE specs[i].chunk.count] = [i \in 1 .. 0 |-> 0]
    OBVIOUS
  <2> QED BY <1>1, <2>1, <2>2, Zero
<1>7. Paid
  BY <1>1, <1>3, <1>6 DEF Paid, Quiet
<1>8. Added
  <2>1. 0 \in Int /\ 0 \in -(IntMax + 1) .. IntMax
    BY DiceAssumption
  <2>2. Wrap(0) = 0
    BY <2>1, WrapIs
  <2> QED BY <1>6, <2>2 DEF Added, Quiet
<1>9. Decided
  BY DEF Decided
<1> QED BY <1>4, <1>5, <1>7, <1>8, <1>9 DEF Rolled

\* The term that is rolled.
LEMMA Spec1Is ==
  ASSUME input \in Drafts, Written, Throwing, Rolling
  PROVE  /\ Len(terms) \in Nat /\ Len(terms) < Len(specs) /\ Len(terms) + 1 \in DOMAIN specs
         /\ Spec1 = specs[Len(terms) + 1] /\ Spec1.sign \in {1, -1}
         /\ ~Spec1.chunk.flat => /\ Spec1.chunk.count \in 0 .. MaxDicePerTerm
                                 /\ Spec1.chunk.sides \in 1 .. MaxSides
                                 /\ Spec1.chunk.n \in Nat
                                 /\ Spec1.chunk.mode \in Modes
         /\ Spec1.chunk.flat => Spec1.chunk.value \in Nat
<1>1. Len(terms) \in Nat /\ Len(terms) < Len(specs) /\ Len(specs) \in Nat /\ DOMAIN specs = 1 .. Len(specs)
  BY SpecsLen DEF Throwing, Rolling
<1>2. Len(terms) + 1 \in DOMAIN specs
  BY <1>1
<1> QED BY <1>1, <1>2, SpecIs DEF Spec1

LEMMA DieMade ==
  ASSUME NEW v \in 1 .. MaxSides, NEW e \in BOOLEAN
  PROVE  /\ Die(v, e) \in DieType
         /\ Die(v, e).kept /\ Die(v, e).value = v /\ Die(v, e).explode = e
BY DEF Die, DieType

\* One die more.
LEMMA OneDie ==
  ASSUME NEW d \in Seq(AnyDie), NEW x \in AnyDie, NEW r, r = Append(d, x)
  PROVE  Cardinality(Thrown(r)) = IF x.explode THEN Cardinality(Thrown(d)) ELSE Cardinality(Thrown(d)) + 1
<1> DEFINE n == Len(d)
<1>1. n \in Nat /\ DOMAIN d = 1 .. n /\ DOMAIN r = 1 .. n + 1 /\ r[n + 1] = x /\ \A i \in 1 .. n : r[i] = d[i]
  OBVIOUS
<1>2. /\ \A i \in 1 .. n + 1 : i \in 1 .. n \/ i = n + 1
      /\ \A i \in 1 .. n : i \in 1 .. n + 1
      /\ n + 1 \in 1 .. n + 1 /\ n + 1 \notin 1 .. n
  BY <1>1
<1>3. IsFiniteSet(Thrown(d))
  BY ThrownIs
<1> HIDE DEF n
<1>4. ASSUME x.explode PROVE Cardinality(Thrown(r)) = Cardinality(Thrown(d))
  <2>1. Thrown(r) = Thrown(d)
    BY <1>1, <1>2, <1>4 DEF Thrown
  <2> QED BY <2>1
<1>5. ASSUME ~x.explode PROVE Cardinality(Thrown(r)) = Cardinality(Thrown(d)) + 1
  <2>1. Thrown(r) = Thrown(d) \cup {n + 1} /\ n + 1 \notin Thrown(d)
    BY <1>1, <1>2, <1>5 DEF Thrown
  <2> QED BY <1>3, <2>1, FS_AddElement
<1> QED BY <1>4, <1>5

LEMMA ChainGrows ==
  ASSUME NEW d \in Seq(DieType), NEW r \in Seq(DieType), Len(r) = Len(d) + 1,
         \A i \in DOMAIN d : r[i] = d[i],
         NEW c, NEW b \in Nat, NEW a \in Nat, Chain(d, c, b), b = 0 => a = 0,
         r[Len(d) + 1].explode => d # <<>> /\ Top(d, c, Len(d)),
         ~r[Len(d) + 1].explode => Ended(d, c, b)
  PROVE  Chain(r, c, a)
<1> DEFINE n == Len(d)
<1>1. n \in Nat /\ DOMAIN d = 1 .. n /\ DOMAIN r = 1 .. n + 1 /\ (d # <<>> => n > 0)
  OBVIOUS
<1>2. \A i \in 1 .. n : Top(r, c, i) <=> Top(d, c, i)
  BY <1>1 DEF Top
<1>3. ASSUME NEW i \in 1 .. n
      PROVE  /\ r[i].explode => i > 1 /\ Top(r, c, i - 1)
             /\ i < n + 1 /\ Top(r, c, i) => r[i + 1].explode \/ a = 0
  <2>1. /\ d[i].explode => i > 1 /\ Top(d, c, i - 1)
        /\ i < n /\ Top(d, c, i) => d[i + 1].explode \/ b = 0
    BY <1>1 DEF Chain
  <2>2. r[i].explode => i > 1 /\ Top(r, c, i - 1)
    <3>1. i > 1 => i - 1 \in 1 .. n
      BY <1>1
    <3> QED BY <1>1, <1>2, <2>1, <3>1
  <2>3. CASE i < n
    <3>1. i + 1 \in 1 .. n
      BY <1>1, <2>3
    <3> QED BY <1>1, <1>2, <2>1, <2>2, <2>3, <3>1
  <2>4. CASE i = n
    <3>1. Top(r, c, n) => r[n + 1].explode \/ a = 0
      <4>1. d # <<>>
        BY <1>1, <2>4
      <4>2. Top(r, c, n) => Top(d, c, n)
        BY <1>2, <2>4
      <4> QED BY <4>1, <4>2 DEF Ended
    <3> QED BY <2>2, <2>4, <3>1
  <2>5. i < n \/ i = n
    <3>1. n \in Nat
      BY <1>1
    <3> HIDE DEF n
    <3> QED BY <3>1
  <2> QED BY <2>3, <2>4, <2>5
<1>4. r[n + 1].explode => n + 1 > 1 /\ Top(r, c, n + 1 - 1)
  <2> SUFFICES ASSUME r[n + 1].explode PROVE n + 1 > 1 /\ Top(r, c, n + 1 - 1)
    OBVIOUS
  <2>1. n > 0 /\ Top(d, c, n)
    BY <1>1
  <2>2. n \in 1 .. n /\ n + 1 - 1 = n /\ n + 1 > 1
    BY <1>1, <2>1
  <2> QED BY <1>2, <2>1, <2>2
<1>5. \A i \in 1 .. n + 1 : i \in 1 .. n \/ i = n + 1
  BY <1>1
<1>6. ASSUME NEW i \in 1 .. n + 1
      PROVE  /\ r[i].explode => i > 1 /\ Top(r, c, i - 1)
             /\ i < n + 1 /\ Top(r, c, i) => r[i + 1].explode \/ a = 0
  <2>1. CASE i \in 1 .. n
    BY <1>3, <2>1
  <2>2. CASE i = n + 1
    <3>1. ~(n + 1 < n + 1)
      BY <1>1
    <3> QED BY <1>4, <2>2, <3>1
  <2> QED BY <1>5, <2>1, <2>2
<1> QED BY <1>1, <1>6 DEF Chain

\* What has the same values, and explodes where it did.
LEMMA ChainSame ==
  ASSUME NEW d \in Seq(AnyDie), NEW e \in Seq(AnyDie), Len(e) = Len(d), NEW c, NEW b,
         \A i \in DOMAIN d : e[i].value = d[i].value /\ e[i].explode = d[i].explode
  PROVE  /\ Chain(d, c, b) => Chain(e, c, b)
         /\ Ended(d, c, b) => Ended(e, c, b)
         /\ Thrown(e) = Thrown(d)
<1>1. Len(d) \in Nat /\ DOMAIN d = 1 .. Len(d) /\ DOMAIN e = DOMAIN d /\ (d = <<>> <=> Len(d) = 0) /\ (e = <<>> <=> Len(d) = 0)
  OBVIOUS
<1>2. \A i \in DOMAIN d : Top(e, c, i) <=> Top(d, c, i)
  BY DEF Top
<1>3. Thrown(e) = Thrown(d)
  BY <1>1 DEF Thrown
<1>4. ASSUME Chain(d, c, b) PROVE Chain(e, c, b)
  <2> SUFFICES ASSUME NEW i \in DOMAIN d
               PROVE  /\ e[i].explode => i > 1 /\ Top(e, c, i - 1)
                      /\ i < Len(e) /\ Top(e, c, i) => e[i + 1].explode \/ b = 0
    BY <1>1 DEF Chain
  <2>1. /\ d[i].explode => i > 1 /\ Top(d, c, i - 1)
        /\ i < Len(d) /\ Top(d, c, i) => d[i + 1].explode \/ b = 0
    BY <1>4 DEF Chain
  <2>2. (i > 1 => i - 1 \in DOMAIN d) /\ (i < Len(d) => i + 1 \in DOMAIN d)
    BY <1>1
  <2> QED BY <1>2, <2>1, <2>2
<1>5. ASSUME Ended(d, c, b) PROVE Ended(e, c, b)
  <2>1. d # <<>> => Len(d) \in DOMAIN d
    BY <1>1
  <2> QED BY <1>1, <1>2, <1>5, <2>1 DEF Ended
<1> QED BY <1>3, <1>4, <1>5

LEMMA FulfilsLater ==
  ASSUME NEW t, NEW q, NEW b, NEW a, Fulfils(t, q, b), b = 0 => a = 0
  PROVE  Fulfils(t, q, a)
BY DEF Fulfils, Chain, Ended

\* A die, asked for or won by the die before it.
LEMMA DieStep ==
  ASSUME input \in Drafts, Parsing, Rolled, RollingDice,
         NEW v \in 1 .. Spec1.chunk.sides, RollDie(v) \/ Explode(v)
  PROVE  Rolled'
<1> DEFINE c == Spec1.chunk
<1>1. Written /\ Throwing /\ Finished /\ Paid /\ Added /\ Decided
  BY DEF Parsing, Rolled
<1>2. /\ Rolling /\ ~c.flat /\ c.count \in 0 .. MaxDicePerTerm /\ c.sides \in 1 .. MaxSides
      /\ Len(terms) < Len(specs)
  BY <1>1, Spec1Is DEF RollingDice
<1>3. v \in 1 .. MaxSides /\ MaxSides \in Nat /\ MaxExplosions \in Nat
  BY <1>2, DiceAssumption
<1>4. /\ dice \in Seq(DieType) /\ \A i \in DOMAIN dice : dice[i].kept
      /\ rolled \in Nat /\ rolled = Cardinality(Thrown(dice)) /\ budget \in 0 .. MaxExplosions
  BY <1>1 DEF Throwing
<1>5. UNCHANGED <<phase, specs, terms, total, crit>>
  BY DEF RollDie, Explode
<1>6. Chain(dice, c, budget)
  <2>1. dice = <<>> => Chain(dice, c, budget)
    BY DEF Chain
  <2> QED BY <1>1, <2>1 DEF Throwing
<1>7. PICK e \in BOOLEAN :
        /\ dice' = Append(dice, Die(v, e))
        /\ IF e THEN Exploding(budget) /\ budget' = budget - 1 /\ rolled' = rolled
                ELSE ~Exploding(budget) /\ budget' = budget /\ rolled' = rolled + 1 /\ rolled < c.count
  BY DEF RollDie, Explode
<1>8. /\ dice' \in Seq(DieType) /\ Len(dice') = Len(dice) + 1 /\ dice' # <<>>
      /\ \A i \in DOMAIN dice' : dice'[i].kept
      /\ \A i \in DOMAIN dice : dice'[i] = dice[i]
      /\ dice'[Len(dice) + 1].explode = e
      /\ Cardinality(Thrown(dice')) = IF e THEN rolled ELSE rolled + 1
  <2> DEFINE x == Die(v, e)
  <2>1. dice' = Append(dice, x)
    BY <1>7
  <2>2. x \in DieType /\ x \in AnyDie /\ x.kept /\ x.explode = e
    BY <1>3, DieMade, DieIs
  <2> HIDE DEF x
  <2>3. dice \in Seq(AnyDie)
    BY <1>4, DieIs
  <2>4. Cardinality(Thrown(dice')) = IF x.explode THEN Cardinality(Thrown(dice)) ELSE Cardinality(Thrown(dice)) + 1
    BY <2>1, <2>2, <2>3, OneDie
  <2>5. /\ dice' \in Seq(DieType) /\ Len(dice') = Len(dice) + 1 /\ dice' # <<>>
        /\ \A i \in DOMAIN dice : dice'[i] = dice[i]
        /\ dice'[Len(dice) + 1] = x
    BY <1>4, <2>1, <2>2
  <2>6. \A i \in DOMAIN dice' : i \in DOMAIN dice \/ i = Len(dice) + 1
    BY <1>4, <2>5
  <2>7. \A i \in DOMAIN dice' : dice'[i].kept
    BY <1>4, <2>2, <2>5, <2>6
  <2> QED BY <1>4, <2>2, <2>4, <2>5, <2>7
<1>9. Exploding(budget) => c.explode /\ dice # <<>> /\ Top(dice, c, Len(dice)) /\ budget > 0
  BY DEF Exploding, Top
<1>10. ~Exploding(budget) => Ended(dice, c, budget)
  BY <1>4 DEF Exploding, Ended, Top
<1>11. /\ rolled' \in Nat /\ rolled' = Cardinality(Thrown(dice')) /\ rolled' <= c.count
       /\ budget' \in 0 .. MaxExplosions /\ (budget = 0 => budget' = 0)
       /\ rolled' - budget' = rolled - budget + 1
  <2>1. e => dice # <<>> /\ rolled <= c.count
    BY <1>1, <1>7, <1>9 DEF Throwing
  <2>2. CASE e
    <3>1. Cardinality(Thrown(dice')) = rolled
      BY <1>8, <2>2
    <3>2. budget > 0 /\ budget' = budget - 1 /\ rolled' = rolled
      BY <1>7, <1>9, <2>2
    <3>3. budget \in Int /\ 0 <= budget /\ budget <= MaxExplosions
      BY <1>3, <1>4
    <3>4. budget' \in 0 .. MaxExplosions /\ rolled' - budget' = rolled - budget + 1
      BY <1>3, <1>4, <3>2, <3>3
    <3> QED BY <1>4, <2>1, <2>2, <3>1, <3>2, <3>3, <3>4
  <2>3. CASE ~e
    <3>1. Cardinality(Thrown(dice')) = rolled + 1
      BY <1>8, <2>3
    <3> QED BY <1>2, <1>3, <1>4, <1>7, <2>3, <3>1
  <2> QED BY <2>2, <2>3
<1>12. Chain(dice', c, budget')
  <2>1. budget \in Nat /\ budget' \in Nat
    BY <1>4, <1>11
  <2>2. e => dice # <<>> /\ Top(dice, c, Len(dice))
    BY <1>7, <1>9
  <2>3. ~e => Ended(dice, c, budget)
    BY <1>7, <1>10
  <2> HIDE DEF c
  <2> QED BY <1>4, <1>6, <1>8, <1>11, <2>1, <2>2, <2>3, ChainGrows
<1>13. Spec1' = Spec1
  BY <1>5 DEF Spec1
<1>14. Throwing'
  BY <1>1, <1>2, <1>5, <1>8, <1>11, <1>12, <1>13 DEF Throwing
<1>15. Finished'
  BY <1>1, <1>5, <1>11, FulfilsLater DEF Finished
<1>16. Paid'
  <2>1. DiceOf(terms) \in Int /\ AskedTo(specs, Len(terms)) \in Int
    <3>1. terms \in Seq(Result) /\ [value |-> 0, dice |-> <<>>] \in Result /\ Len(terms) \in Nat
      BY <1>1 DEF Throwing, Result
    <3>2. DiceOf(terms) \in Int
      BY <3>1, OneMore
    <3> QED BY <1>1, <1>2, <3>1, <3>2, AskedToNext
  <2>2. Len(dice) \in Nat
    BY <1>4
  <2>3. Len(dice) + DiceOf(terms) = AskedTo(specs, Len(terms)) + rolled + (MaxExplosions - budget)
    BY <1>1 DEF Paid
  <2>4. Len(dice') + DiceOf(terms) = AskedTo(specs, Len(terms)) + rolled' + (MaxExplosions - budget')
    <3> DEFINE a == AskedTo(specs, Len(terms))
               s == DiceOf(terms)
               l == Len(dice)
               k == Len(dice')
               r == rolled'
               b == budget'
    <3>1. rolled \in Int /\ r \in Int /\ budget \in Int /\ b \in Int /\ MaxExplosions \in Int
      BY <1>3, <1>4, <1>11
    <3>2. r - b = rolled - budget + 1
      BY <1>11
    <3>3. /\ a \in Int /\ s \in Int /\ l \in Int
          /\ k = l + 1 /\ l + s = a + rolled + (MaxExplosions - budget)
      BY <1>8, <2>1, <2>2, <2>3
    <3> HIDE DEF a, s, l, k, r, b
    <3>4. k + s = a + r + (MaxExplosions - b)
      BY <3>1, <3>2, <3>3
    <3> QED BY <3>4 DEF a, s, k, r, b
  <2> QED BY <1>5, <2>4 DEF Paid
<1>17. Added' /\ Decided'
  BY <1>1, <1>5 DEF Added, Decided
<1> QED BY <1>14, <1>15, <1>16, <1>17 DEF Rolled

\* One term more, with what was added for it.
LEMMA TermAppended ==
  ASSUME input \in Drafts, Parsing, Rolled, Rolling, phase' = phase,
         UNCHANGED <<specs, budget, crit>>, dice' = <<>>, rolled' = 0,
         NEW t \in Result, terms' = Append(terms, t), Fulfils(t, Spec1, budget),
         total' = Wrap(total + t.value),
         Len(t.dice) = Len(dice),
         ~Spec1.chunk.flat => rolled = Spec1.chunk.count,
         Spec1.chunk.flat => dice = <<>>
  PROVE  Rolled'
<1> DEFINE n == Len(terms)
<1>1. Written /\ Throwing /\ Finished /\ Paid /\ Added /\ Decided /\ phase = "roll"
  BY DEF Parsing, Rolled, Rolling
<1>2. n \in Nat /\ n < Len(specs) /\ n + 1 \in DOMAIN specs /\ Spec1 = specs[n + 1]
  BY <1>1, Spec1Is
<1>3. terms \in Seq(Result) /\ DOMAIN terms = 1 .. n
  BY <1>1 DEF Throwing
<1>4. /\ terms' \in Seq(Result) /\ Len(terms') = n + 1 /\ terms'[n + 1] = t
      /\ \A k \in 1 .. n : terms'[k] = terms[k]
      /\ DiceOf(terms) \in Int /\ DiceOf(terms') = DiceOf(terms) + Len(t.dice)
      /\ ValueOf(terms) \in Int /\ ValueOf(terms') = ValueOf(terms) + t.value
  <2>1. /\ terms' \in Seq(Result) /\ Len(terms') = n + 1 /\ terms'[n + 1] = t
        /\ \A k \in 1 .. n : terms'[k] = terms[k]
    BY <1>3
  <2>2. /\ DiceOf(terms) \in Int /\ DiceOf(terms') = DiceOf(terms) + Len(t.dice)
        /\ ValueOf(terms) \in Int /\ ValueOf(terms') = ValueOf(terms) + t.value
    BY <1>3, OneMore
  <2> QED BY <2>1, <2>2
<1>5. DOMAIN terms' = 1 .. n + 1
  BY <1>4
<1> HIDE DEF n
<1>6. /\ dice' \in Seq(DieType) /\ DOMAIN dice' = {} /\ Len(dice') = 0
      /\ Cardinality(Thrown(dice')) = 0
  <2>1. <<>> \in Seq(DieType) /\ DOMAIN <<>> = {} /\ Len(<<>>) = 0
    OBVIOUS
  <2>2. Cardinality(Thrown(<<>>)) = 0
    BY <2>1, DieIs, ThrownIs
  <2> QED BY <2>1, <2>2
<1>7. Throwing'
  <2>1. n + 1 <= Len(specs) /\ 0 \in Nat /\ budget \in 0 .. MaxExplosions
    BY <1>1, <1>2, SpecsLen DEF Throwing
  <2> QED BY <1>4, <1>6, <2>1 DEF Throwing
<1>8. Finished'
  <2> SUFFICES ASSUME NEW k \in 1 .. n + 1
               PROVE  Fulfils(terms'[k], specs[k], budget)
    BY <1>5 DEF Finished
  <2>1. CASE k = n + 1
    BY <1>2, <1>4, <2>1
  <2>2. CASE k \in 1 .. n
    BY <1>1, <1>3, <1>4, <2>2 DEF Finished
  <2>3. k \in 1 .. n \/ k = n + 1
    BY <1>2
  <2> QED BY <2>1, <2>2, <2>3
<1>9. Paid'
  <2> DEFINE w == IF Spec1.chunk.flat THEN 0 ELSE Spec1.chunk.count
  <2>1. AskedTo(specs, n) \in Nat /\ AskedTo(specs, n + 1) = AskedTo(specs, n) + w
    BY <1>1, <1>2, AskedToNext
  <2>2. rolled \in Nat /\ budget \in Int /\ Len(dice) \in Nat /\ MaxExplosions \in Nat
    BY <1>1, DiceAssumption DEF Throwing
  <2>3. w = rolled
    <3>1. dice = <<>> => rolled = 0
      BY <1>1, DieIs, ThrownIs DEF Throwing
    <3> QED BY <3>1
  <2>4. Len(dice) + DiceOf(terms) = AskedTo(specs, n) + rolled + (MaxExplosions - budget)
    BY <1>1 DEF Paid, n
  <2> HIDE DEF w
  <2>5. 0 + DiceOf(terms') = AskedTo(specs, n + 1) + 0 + (MaxExplosions - budget)
    BY <1>4, <2>1, <2>2, <2>3, <2>4
  <2> QED BY <1>4, <1>6, <2>5 DEF Paid
<1>10. Added'
  <2>1. total = Wrap(ValueOf(terms))
    BY <1>1 DEF Added
  <2>2. t.value \in Int
    BY ResultIs
  <2>3. Wrap(Wrap(ValueOf(terms)) + t.value) = Wrap(ValueOf(terms) + t.value)
    BY <1>4, <2>2, WrapIs
  <2> QED BY <1>4, <2>1, <2>3 DEF Added
<1>11. Decided'
  BY <1>1 DEF Decided
<1> QED BY <1>7, <1>8, <1>9, <1>10, <1>11 DEF Rolled

LEMMA FlatStep ==
  ASSUME input \in Drafts, Parsing, Rolled, RollFlat
  PROVE  Rolled'
<1> DEFINE q == Spec1
           x == q.sign * q.chunk.value
           t == [value |-> x, dice |-> <<>>]
<1>1. Written /\ Throwing /\ Rolling /\ q.chunk.flat
  BY DEF Parsing, Rolled, RollFlat
<1>2. q.sign \in {1, -1} /\ q.chunk.value \in Nat
  BY <1>1, Spec1Is
<1>3. x \in {q.chunk.value, -q.chunk.value} /\ x \in Int
  <2> DEFINE a == q.sign
             b == q.chunk.value
  <2>1. a \in {1, -1} /\ b \in Nat
    BY <1>2
  <2> HIDE DEF a, b
  <2>2. a * b \in {b, -b} /\ a * b \in Int
    BY <2>1
  <2> QED BY <2>2 DEF a, b
<1>4. terms' = Append(terms, t) /\ total' = Wrap(total + x) /\ UNCHANGED <<phase, specs, dice, rolled, budget, crit>>
  BY DEF RollFlat
<1>5. dice = <<>> /\ rolled = 0
  <2>1. dice = <<>>
    BY <1>1 DEF Throwing
  <2>2. rolled = 0
    BY <1>1, <2>1, DieIs, ThrownIs DEF Throwing
  <2> QED BY <2>1, <2>2
<1> HIDE DEF x
<1>6. t \in Result /\ t.value = x /\ t.dice = <<>> /\ Len(t.dice) = Len(dice)
  <2>1. <<>> \in Seq(DieType)
    OBVIOUS
  <2> QED BY <1>3, <1>5, <2>1 DEF Result
<1> HIDE DEF t
<1>7. Fulfils(t, q, budget)
  BY <1>1, <1>3, <1>6 DEF Fulfils
<1> QED BY <1>1, <1>4, <1>5, <1>6, <1>7, TermAppended

LEMMA SumIs ==
  ASSUME NEW d \in Seq(AnyDie)
  PROVE  SumKept(d) \in Int
<1> DEFINE n == Len(d)
           f == [i \in 1 .. n |-> IF d[i].kept THEN d[i].value ELSE 0]
<1>1. n \in Nat /\ DOMAIN d = 1 .. n
  BY Indices
<1>2. \A i \in 1 .. n : d[i].value \in Int
  <2>1. \A x \in AnyDie : x.value \in Int
    BY DEF AnyDie
  <2> QED BY <1>1, <2>1, Indices
<1>3. SumKept(d) = Total(f)
  BY <1>1 DEF SumKept, Total
<1>4. f \in [1 .. n -> Int]
  BY <1>2
<1> HIDE DEF f, n
<1> QED BY <1>1, <1>3, <1>4, TotalTo

\* The dice of a term, marked and added up; or the panic.
LEMMA FinishTermStep ==
  ASSUME input \in Drafts, Parsing, Rolled, FinishTerm
  PROVE  Rolled'
<1> DEFINE q == Spec1
           c == q.chunk
           m == Marked(dice, c.mode, c.n)
           x == q.sign * SumKept(m)
           t == [value |-> x, dice |-> m]
<1>1. Written /\ Throwing /\ RollingDice /\ Rolling /\ ~c.flat /\ ~Exploding(budget) /\ rolled = c.count
  BY DEF Parsing, Rolled, FinishTerm, RollingDice
<1>2. q.sign \in {1, -1} /\ c.n \in Nat /\ c.mode \in Modes
  BY <1>1, Spec1Is
<1>3. /\ dice \in Seq(DieType) /\ dice \in Seq(AnyDie) /\ \A i \in DOMAIN dice : dice[i].kept
      /\ rolled = Cardinality(Thrown(dice)) /\ budget \in 0 .. MaxExplosions
  BY <1>1, DieIs DEF Throwing
<1>4. CASE KeepDropPanics(dice, c.mode, c.n)
  <2>1. phase' = "panic" /\ UNCHANGED <<terms, total, dice, rolled, specs, budget, crit>>
    BY <1>4 DEF FinishTerm
  <2>2. Throwing' /\ Finished' /\ Paid' /\ Added' /\ Decided'
    <3>1. Spec1' = Spec1
      BY <2>1 DEF Spec1
    <3> QED BY <2>1, <3>1 DEF Rolled, Throwing, Finished, Paid, Added, Decided
  <2> QED BY <2>2 DEF Rolled
<1>5. CASE ~KeepDropPanics(dice, c.mode, c.n)
  <2>1. /\ phase' = phase /\ UNCHANGED <<specs, budget, crit>> /\ dice' = <<>> /\ rolled' = 0
        /\ terms' = Append(terms, t) /\ total' = Wrap(total + x)
    BY <1>5 DEF FinishTerm
  <2>2. /\ m \in Seq(AnyDie) /\ Len(m) = Len(dice)
        /\ \A i \in DOMAIN dice : m[i].value = dice[i].value /\ m[i].explode = dice[i].explode
        /\ KeepsRight(m, c.mode, c.n)
    BY <1>2, <1>3, <1>5, MarkedIs
  <2> HIDE DEF m
  <2>3. m \in Seq(DieType)
    <3>1. \A i \in 1 .. Len(m) : m[i] \in DieType
      <4> TAKE i \in 1 .. Len(m)
      <4>1. i \in DOMAIN dice /\ m[i] \in AnyDie
        BY <1>3, <2>2
      <4>2. m[i].value \in 1 .. MaxSides
        BY <1>3, <2>2, <4>1, DieIs
      <4> QED BY <4>1, <4>2, DieIs
    <3> QED BY <2>2, <3>1
  <2>4. x \in Int
    <3> DEFINE a == q.sign
               b == SumKept(m)
    <3>1. a \in {1, -1} /\ b \in Int
      BY <1>2, <2>2, SumIs
    <3> HIDE DEF a, b
    <3>2. a * b \in Int
      BY <3>1
    <3> QED BY <3>2 DEF a, b
  <2> HIDE DEF x
  <2>5. t \in Result /\ t.value = x /\ t.dice = m
    BY <2>3, <2>4 DEF Result
  <2> HIDE DEF t
  <2>6. Chain(dice, c, budget) /\ Ended(dice, c, budget)
    <3>1. dice = <<>> => Chain(dice, c, budget)
      BY DEF Chain
    <3>2. dice # <<>> => Chain(dice, c, budget)
      BY <1>1 DEF Throwing
    <3>3. Ended(dice, c, budget)
      BY <1>1, <1>3 DEF Exploding, Ended, Top
    <3> QED BY <3>1, <3>2, <3>3
  <2>7. Chain(m, c, budget) /\ Ended(m, c, budget) /\ Thrown(m) = Thrown(dice)
    <3> HIDE DEF c
    <3> QED BY <1>3, <2>2, <2>6, ChainSame
  <2>8. Fulfils(t, q, budget)
    BY <1>1, <1>3, <2>2, <2>5, <2>7 DEF Fulfils
  <2> QED BY <1>1, <2>1, <2>2, <2>5, <2>8, TermAppended
<1> QED BY <1>4, <1>5

LEMMA CritWords == "" # "success" /\ "" # "fumble" /\ "success" # "fumble"
BY Zenon

LEMMA CritIs ==
  ASSUME Throwing, Finished, Len(terms) = Len(specs), Len(specs) \in Nat, DOMAIN specs = 1 .. Len(specs)
  PROVE  CritRight(detectCrit, terms, specs)
<1> DEFINE S == KeptDice(terms)
           n == Len(terms)
           limit == MaxTotalDice + MaxExplosions
           sides(x) == specs[x[1]].chunk.sides
           value(x) == terms[x[1]].dice[x[2]].value
           k == CHOOSE x \in Natural : TRUE
           others == \E i \in DOMAIN specs : ~specs[i].chunk.flat /\ specs[i].chunk.sides # CritSides
<1>1. n \in Nat /\ DOMAIN terms = 1 .. n /\ limit \in Nat /\ n = Len(specs)
  BY DiceAssumption DEF Throwing
<1>2. S = Natural
  <2>1. ASSUME NEW x \in (1 .. n) \X (1 .. limit),
               x[2] \in DOMAIN terms[x[1]].dice /\ terms[x[1]].dice[x[2]].kept
        PROVE  ~specs[x[1]].chunk.flat
    <3>1. x[1] \in DOMAIN terms
      BY <1>1
    <3>2. Fulfils(terms[x[1]], specs[x[1]], budget)
      BY <3>1 DEF Finished
    <3>3. terms[x[1]].dice # <<>>
      BY <2>1
    <3> QED BY <3>2, <3>3 DEF Fulfils
  <2> QED BY <1>1, <2>1 DEF Natural, KeptDice
<1>3. IsFiniteSet(S)
  <2>1. IsFiniteSet(1 .. n) /\ IsFiniteSet(1 .. limit)
    <3> HIDE DEF n, limit
    <3> QED BY <1>1, UpTo
  <2>2. IsFiniteSet((1 .. n) \X (1 .. limit))
    BY <2>1, FS_Product
  <2>3. S \in SUBSET ((1 .. n) \X (1 .. limit))
    BY <1>1 DEF KeptDice
  <2> HIDE DEF S, n, limit
  <2> QED BY <2>2, <2>3, FS_Subset
<1>4. Cardinality(Natural) = 1 <=> \E x : S = {x}
  <2> HIDE DEF S
  <2> QED BY <1>2, <1>3, FS_Singleton
<1>5. others <=> ~OnlyD20(specs)
  BY DEF OnlyD20
<1>6. \A v : Decides(terms, specs, v) <=> \E x \in S : S = {x} /\ sides(x) = CritSides /\ value(x) = v
  BY DEF Decides
<1>7. detectCrit = IF others \/ Cardinality(Natural) # 1
                   THEN ""
                   ELSE IF value(k) = CritSides THEN "success" ELSE IF value(k) = 1 THEN "fumble" ELSE ""
  BY DEF detectCrit
<1>8. CritSides # 1
  BY DiceAssumption
<1>9. ASSUME NEW x \in S, OnlyD20(specs) PROVE sides(x) = CritSides
  <2>1. x[1] \in DOMAIN specs /\ ~specs[x[1]].chunk.flat
    BY <1>1, <1>2, <1>9 DEF Natural
  <2> QED BY <1>9, <2>1 DEF OnlyD20
<1>10. CASE others \/ Cardinality(Natural) # 1
  <2>1. detectCrit = ""
    BY <1>7, <1>10, Zenon
  <2>2. \A v : ~(OnlyD20(specs) /\ Decides(terms, specs, v))
    BY <1>4, <1>5, <1>6, <1>10
  <2> QED BY <2>1, <2>2, CritWords, Zenon DEF CritRight
<1>11. CASE ~(others \/ Cardinality(Natural) # 1)
  <2>1. PICK x : S = {x}
    BY <1>4, <1>11
  <2>2. k = x /\ x \in S
    BY <1>2, <2>1
  <2>3. OnlyD20(specs)
    BY <1>5, <1>11
  <2>4. \A v : Decides(terms, specs, v) <=> value(x) = v
    <3>1. sides(x) = CritSides
      BY <1>9, <2>2, <2>3
    <3> HIDE DEF S, sides, value
    <3> QED BY <1>6, <2>1, <3>1
  <2>5. detectCrit = IF value(x) = CritSides THEN "success" ELSE IF value(x) = 1 THEN "fumble" ELSE ""
    <3> HIDE DEF value, k
    <3> QED BY <1>7, <1>11, <2>2, Zenon
  <2> HIDE DEF value
  <2>6. detectCrit = "success" <=> value(x) = CritSides
    BY <2>5, CritWords, Zenon
  <2>7. detectCrit = "fumble" <=> value(x) = 1
    BY <1>8, <2>5, CritWords, Zenon
  <2> QED BY <2>3, <2>4, <2>6, <2>7, Zenon DEF CritRight
<1> QED BY <1>10, <1>11

LEMMA CritValues == detectCrit \in {"", "success", "fumble"}
BY Zenon DEF detectCrit

LEMMA FinishStep ==
  ASSUME input \in Drafts, Parsing, Rolled, Finish
  PROVE  Rolled'
<1>1. UNCHANGED <<specs, dice, rolled, budget, terms, total>> /\ crit' = detectCrit /\ Len(terms) = Len(specs)
  BY DEF Finish
<1>2. Written /\ Throwing /\ Finished /\ Paid /\ Added
  BY DEF Parsing, Rolled
<1>3. Spec1' = Spec1
  BY <1>1 DEF Spec1
<1>4. Throwing' /\ Finished' /\ Paid' /\ Added'
  BY <1>1, <1>2, <1>3 DEF Throwing, Finished, Paid, Added
<1>5. CritRight(detectCrit, terms, specs)
  BY <1>1, <1>2, CritIs, SpecsLen
<1>6. Decided'
  BY <1>1, <1>5 DEF Decided
<1> QED BY <1>4, <1>6 DEF Rolled

CritType == crit \in {"", "success", "fumble"}
Phases == phase \in {"parse", "roll", "done", "error", "panic"}

\* RollDice, from its call to its end.
ServerInv ==
  /\ Parsing /\ Rolled
  /\ phase \in {"parse", "error"} => Quiet
  /\ Phases /\ CritType

LEMMA ServerStart ==
  ASSUME input \in Drafts, Fresh
  PROVE  ServerInv
<1>1. Quiet /\ phase = "parse" /\ crit = ""
  BY DEF Fresh, Quiet
<1>2. Parsing
  BY ParseStart
<1>3. Rolled
  BY <1>1, <1>2, QuietIs DEF Parsing
<1>4. CritType
  BY <1>1 DEF CritType
<1> QED BY <1>1, <1>2, <1>3, <1>4 DEF ServerInv, Phases

\* The two starts, of the next state.
LEMMA QuietNext == (input \in Drafts /\ Written /\ Quiet /\ phase # "done" => Rolled)'
<1>1. input \in Drafts /\ Written /\ Quiet /\ phase # "done" => Rolled
  BY QuietIs
<1> QED BY <1>1, PTL

LEMMA ServerStartNext == (input \in Drafts /\ Fresh => ServerInv)'
<1>1. input \in Drafts /\ Fresh => ServerInv
  BY ServerStart
<1> QED BY <1>1, PTL

\* RollDice never changes what it was called with.
LEMMA InputKept == ASSUME Next PROVE input' = input
BY DEF Next, ParseOperator, ParseTerm, ParseEnd, RollFlat, RollDie, Explode, FinishTerm, Finish

LEMMA ServerStep ==
  ASSUME input \in Drafts, ServerInv, Next
  PROVE  ServerInv' /\ input' = input
<1>0. input' = input
  BY InputKept
<1>1. Parsing /\ Rolled /\ Phases /\ CritType
  BY DEF ServerInv
<1>2. CASE ParseOperator \/ ParseTerm \/ ParseEnd
  <2>1. /\ phase = "parse" /\ phase' \in {"parse", "error", "roll"}
        /\ UNCHANGED <<dice, rolled, budget, terms, total, crit>>
    BY <1>2 DEF ParseOperator, ParseTerm, ParseEnd
  <2>2. Parsing'
    BY <1>1, <1>2, OperatorStep, TermStep, EndStep
  <2>3. Quiet' /\ CritType' /\ Phases' /\ phase' # "done"
    BY <1>1, <2>1 DEF ServerInv, Quiet, CritType, Phases
  <2>4. Rolled'
    <3>1. input' \in Drafts /\ Written' /\ Quiet' /\ (phase # "done")'
      BY <1>0, <2>2, <2>3 DEF Parsing
    <3> QED BY <3>1, QuietNext
  <2> QED BY <1>0, <2>2, <2>3, <2>4 DEF ServerInv
<1>3. CASE RollFlat
  <2>1. phase = "roll" /\ UNCHANGED <<input, phase, pos, sign, specs, crit>>
    BY <1>3 DEF RollFlat, Rolling
  <2>2. Parsing' /\ Rolled'
    BY <1>1, <1>3, <2>1, FlatStep, ParsedStays
  <2> QED BY <1>0, <1>1, <2>1, <2>2 DEF ServerInv, Phases, CritType
<1>4. CASE FinishTerm
  <2>1. phase = "roll" /\ phase' \in {"roll", "panic"} /\ UNCHANGED <<input, pos, sign, specs, crit>>
    BY <1>4 DEF FinishTerm, RollingDice, Rolling
  <2>2. Parsing' /\ Rolled'
    BY <1>1, <1>4, <2>1, FinishTermStep, ParsedStays
  <2> QED BY <1>0, <1>1, <2>1, <2>2 DEF ServerInv, Phases, CritType
<1>5. CASE Finish
  <2>1. phase = "roll" /\ phase' = "done" /\ UNCHANGED <<input, pos, sign, specs>> /\ crit' = detectCrit
    BY <1>5 DEF Finish
  <2>2. Parsing' /\ Rolled'
    BY <1>1, <1>5, <2>1, FinishStep, ParsedStays
  <2>3. CritType'
    BY <2>1, CritValues DEF CritType
  <2> QED BY <1>0, <1>1, <2>1, <2>2, <2>3 DEF ServerInv, Phases
<1>6. ASSUME RollingDice, NEW v \in 1 .. Spec1.chunk.sides, RollDie(v) \/ Explode(v)
      PROVE  ServerInv'
  <2>1. phase = "roll" /\ UNCHANGED <<input, phase, pos, sign, specs, crit>>
    BY <1>6 DEF RollDie, Explode, RollingDice, Rolling
  <2>2. Parsing' /\ Rolled'
    BY <1>1, <1>6, <2>1, DieStep, ParsedStays
  <2> QED BY <1>0, <1>1, <2>1, <2>2 DEF ServerInv, Phases, CritType
<1> QED BY <1>0, <1>2, <1>3, <1>4, <1>5, <1>6 DEF Next

-----------------------------------------------------------------------------
(* RollDice keeps its promises.                                            *)

LEMMA ServerStays ==
  ASSUME ServerInv, UNCHANGED vars
  PROVE  ServerInv'
<1>1. UNCHANGED <<input, phase, pos, sign, specs, dice, rolled, budget, terms, total, crit>>
  BY DEF vars
<1>2. Parsing'
  BY <1>1, ParsedStays DEF ServerInv
<1>3. Spec1' = Spec1
  BY <1>1 DEF Spec1
<1>4. Rolled'
  BY <1>1, <1>3 DEF ServerInv, Rolled, Throwing, Finished, Paid, Added, Decided
<1> QED BY <1>1, <1>2, <1>4 DEF ServerInv, Quiet, Phases, CritType

LEMMA InputsAreDrafts == \A s \in Inputs : s \in Drafts
<1>1. \A s \in Inputs : s \in Seq(Token) /\ \A i \in 1 .. Len(s) - 1 : Operator(s[i]) \/ Operator(s[i + 1])
  BY DiceAssumption DEF Token
<1> QED BY <1>1, DraftIs

LEMMA AskedNatural ==
  ASSUME Written
  PROVE  DiceAsked \in Nat
<1>1. specs \in Seq(Term)
  BY DEF Written
<1>2. [sign |-> 1, chunk |-> [flat |-> TRUE, value |-> 0]] \in Term
  BY DEF Term, FlatChunk
<1>3. TermDice(specs) \in Nat
  BY <1>1, <1>2, AskedNext
<1> QED BY <1>3, AskedIs

LEMMA ServerAlways == Spec => [](input \in Inputs /\ ServerInv)
<1>1. Init => input \in Inputs /\ ServerInv
  BY InputsAreDrafts, ServerStart DEF Init
<1>2. input \in Inputs /\ ServerInv /\ [Next]_vars => (input \in Inputs /\ ServerInv)'
  <2> SUFFICES ASSUME input \in Inputs, ServerInv, [Next]_vars
               PROVE  input' \in Inputs /\ ServerInv'
    OBVIOUS
  <2>1. CASE Next
    BY <2>1, InputsAreDrafts, ServerStep
  <2>2. CASE UNCHANGED vars
    BY <2>2, ServerStays DEF vars
  <2> QED BY <2>1, <2>2
<1> QED BY <1>1, <1>2, PTL DEF Spec

\* The sequences and numbers of a call of RollDice stay within their bounds, the
\* total within an int.
THEOREM RollTypeCorrect == Spec => []TypeOK
<1>1. ASSUME input \in Inputs, ServerInv PROVE TypeOK
  <2>1. Written /\ Throwing /\ Finished /\ Added /\ input \in Drafts
    BY <1>1, InputsAreDrafts DEF ServerInv, Parsing, Rolled
  <2>2. pos \in 1 .. Len(input) + 1 /\ sign \in {1, -1}
    BY <2>1, SignIs DEF Written
  <2>3. \A i \in DOMAIN specs : specs[i].sign \in {1, -1} /\ specs[i].chunk \in DiceChunk \cup FlatChunk
    <3>1. \A i \in DOMAIN specs : specs[i] \in Term
      BY <2>1, SpecIs
    <3> QED BY <3>1 DEF Term
  <2>4. rolled \in 0 .. MaxDicePerTerm
    <3>1. MaxDicePerTerm \in Nat
      BY DiceAssumption
    <3>2. CASE dice = <<>>
      <4>1. rolled = 0
        BY <2>1, <3>2, DieIs, ThrownIs DEF Throwing
      <4> QED BY <3>1, <4>1
    <3>3. CASE dice # <<>>
      <4>1. /\ Len(terms) < Len(specs) /\ ~Spec1.chunk.flat /\ rolled <= Spec1.chunk.count
            /\ Len(terms) \in Nat /\ rolled \in Nat
        BY <2>1, <3>3 DEF Throwing
      <4>2. Len(terms) + 1 \in DOMAIN specs /\ Spec1 = specs[Len(terms) + 1]
        BY <2>1, <4>1, SpecsLen DEF Spec1
      <4>3. Spec1.chunk.count \in 0 .. MaxDicePerTerm
        BY <2>1, <4>1, <4>2, SpecIs
      <4> QED BY <3>1, <4>1, <4>3
    <3> QED BY <3>2, <3>3
  <2>5. \A i \in DOMAIN terms : terms[i].value \in Int /\ terms[i].dice \in Seq(DieType)
    <3>1. \A i \in DOMAIN terms : terms[i] \in Result
      BY <2>1 DEF Throwing
    <3> QED BY <3>1, ResultIs
  <2>6. total \in -(IntMax + 1) .. IntMax
    BY <2>1, ValueIs, WrapIs DEF Throwing, Added
  <2>7. dice \in Seq(DieType) /\ budget \in 0 .. MaxExplosions
    BY <2>1 DEF Throwing
  <2> QED BY <1>1, <2>2, <2>3, <2>4, <2>5, <2>6, <2>7, Zenon DEF TypeOK, ServerInv, Phases, CritType
<1> QED BY <1>1, ServerAlways, PTL

\* What is rolled is the expression as it is written: parseExpression loses no
\* operator and no term, and applies no sign twice.
THEOREM TermsAsWritten == Spec => []ParsedAsWritten
<1>1. ASSUME input \in Inputs, ServerInv PROVE ParsedAsWritten
  <2> SUFFICES ASSUME phase = "roll"
               PROVE  LET at == {i \in DOMAIN input : ~Operator(input[i])}
                          nth(k) == CHOOSE i \in at : Cardinality({j \in at : j <= i}) = k
                      IN /\ \A i \in DOMAIN input : Operator(input[i]) => i + 1 \in at
                         /\ Len(specs) = Cardinality(at)
                         /\ \A k \in DOMAIN specs :
                              /\ specs[k].chunk = input[nth(k)]
                              /\ specs[k].sign = -1 <=> nth(k) > 1 /\ input[nth(k) - 1] = [op |-> "-"]
    BY DEF ParsedAsWritten
  <2> DEFINE at == {i \in DOMAIN input : ~Operator(input[i])}
             upTo(i) == {j \in at : j <= i}
             nth(k) == CHOOSE i \in at : Cardinality(upTo(i)) = k
             n == Len(input)
  <2>1. Written /\ pos = n + 1 /\ input \in Drafts
    BY <1>1, InputsAreDrafts DEF ServerInv, Parsing, Refusal
  <2>2. n \in Nat /\ DOMAIN input = 1 .. n /\ pos - 1 = n
    BY <2>1, Tokens
  <2>3. \A i \in 1 .. n : Operator(input[i]) => i < n /\ ~Operator(input[i + 1])
    BY <2>1, <2>2 DEF Written
  <2>4. \A i \in DOMAIN input : Operator(input[i]) => i + 1 \in at
    BY <2>2, <2>3
  <2>5. at = Places(input, n)
    BY <2>2 DEF Places
  <2>6. Len(specs) = Cardinality(at)
    BY <2>1, <2>2, <2>5 DEF Written
  <2>7. \A i \in at : upTo(i) = Places(input, i)
    BY <2>2 DEF Places
  <2>8. ASSUME NEW k \in DOMAIN specs
        PROVE  /\ specs[k].chunk = input[nth(k)]
               /\ specs[k].sign = -1 <=> nth(k) > 1 /\ input[nth(k) - 1] = [op |-> "-"]
    <3>1. PICK i \in 1 .. n : ~Operator(input[i]) /\ Cardinality(Places(input, i)) = k
      BY <2>1, <2>2 DEF Written
    <3>2. i \in at /\ Cardinality(upTo(i)) = k
      BY <2>2, <2>7, <3>1
    <3> DEFINE m == nth(k)
    <3>3. m \in at /\ Cardinality(upTo(m)) = k
      <4> HIDE DEF at, upTo
      <4> QED BY <3>2
    <3> HIDE DEF m
    <3>4. Cardinality(Places(input, m)) = k /\ m \in 1 .. pos - 1 /\ ~Operator(input[m])
      BY <2>2, <2>7, <3>3
    <3>5. specs[k] = [sign |-> SignBefore(input, m), chunk |-> input[m]]
      BY <2>1, <3>4 DEF Written
    <3>6. specs[k].chunk = input[m] /\ (specs[k].sign = -1 <=> m > 1 /\ input[m - 1] = [op |-> "-"])
      BY <3>5 DEF SignBefore
    <3> QED BY <3>6 DEF m
  <2> QED BY <2>4, <2>6, <2>8
<1> QED BY <1>1, ServerAlways, PTL

\* Of every term that is rolled, as many dice are kept as it says, the highest ones
\* or the lowest, and of equal ones always the same (applyKeepDrop, dropRange).
THEOREM RightDiceKept == Spec => []KeepsTheRightDice
<1>1. ASSUME ServerInv PROVE KeepsTheRightDice
  <2>1. ASSUME NEW k \in DOMAIN terms, ~specs[k].chunk.flat
        PROVE  KeepsRight(terms[k].dice, specs[k].chunk.mode, specs[k].chunk.n)
    BY <1>1, <2>1 DEF ServerInv, Rolled, Finished, Fulfils
  <2> QED BY <2>1, Zenon DEF KeepsTheRightDice, KeepsRight, Before
<1> QED BY <1>1, ServerAlways, PTL

\* Explosions follow from the faces and the budget alone, and all dice that were
\* asked for are thrown (rollTerm).
THEOREM ExplosionsExact == Spec => []ExplodesExactly
<1>1. ASSUME ServerInv PROVE ExplodesExactly
  <2>1. ASSUME NEW k \in DOMAIN terms, ~specs[k].chunk.flat
        PROVE  LET d == terms[k].dice
                   c == specs[k].chunk
               IN /\ Cardinality(Thrown(d)) = c.count /\ Chain(d, c, budget) /\ Ended(d, c, budget)
                  /\ d \in Seq(DieType)
    BY <1>1, <2>1, ResultIs DEF ServerInv, Rolled, Throwing, Finished, Fulfils
  <2> SUFFICES ASSUME NEW k \in DOMAIN terms, ~specs[k].chunk.flat
               PROVE  LET d == terms[k].dice
                          top(i) == specs[k].chunk.explode /\ d[i].value = specs[k].chunk.sides
                      IN /\ Cardinality({i \in DOMAIN d : ~d[i].explode}) = specs[k].chunk.count
                         /\ \A i \in DOMAIN d : d[i].explode => i > 1 /\ top(i - 1)
                         /\ \A i \in DOMAIN d : top(i) =>
                              (i < Len(d) /\ d[i + 1].explode) \/ budget = 0
    BY DEF ExplodesExactly
  <2> DEFINE d == terms[k].dice
             c == specs[k].chunk
  <2>2. Cardinality(Thrown(d)) = c.count /\ Chain(d, c, budget) /\ Ended(d, c, budget) /\ d \in Seq(DieType)
    BY <2>1
  <2> HIDE DEF d, c
  <2>3. Cardinality({i \in DOMAIN d : ~d[i].explode}) = c.count
    BY <2>2 DEF Thrown
  <2>4. \A i \in DOMAIN d : d[i].explode => i > 1 /\ Top(d, c, i - 1)
    BY <2>2 DEF Chain
  <2>5. ASSUME NEW i \in DOMAIN d, Top(d, c, i) PROVE (i < Len(d) /\ d[i + 1].explode) \/ budget = 0
    <3>1. i < Len(d) \/ i = Len(d)
      BY <2>2
    <3>2. d # <<>>
      BY <2>2
    <3> QED BY <2>2, <2>5, <3>1, <3>2 DEF Chain, Ended
  <2> QED BY <2>3, <2>4, <2>5 DEF d, c, Top
<1> QED BY <1>1, ServerAlways, PTL

\* What was asked for and is not there yet.
LEMMA StillAsked ==
  ASSUME input \in Drafts, ServerInv
  PROVE  /\ AskedTo(specs, Len(terms)) \in Int /\ DiceAsked \in Nat
         /\ AskedTo(specs, Len(terms)) + rolled <= DiceAsked
<1> DEFINE n == Len(terms)
<1>1. Written /\ Throwing /\ Paid /\ Phases /\ input \in Drafts
  BY DEF ServerInv, Parsing, Rolled
<1>2. n \in Nat /\ DOMAIN terms = 1 .. n /\ n <= Len(specs) /\ Len(specs) \in Nat /\ Len(dice) \in Nat
  BY <1>1, SpecsLen DEF Throwing
<1>3. MaxTotalDice \in Nat /\ MaxExplosions \in Nat /\ budget \in 0 .. MaxExplosions /\ rolled \in Nat
  BY <1>1, DiceAssumption DEF Throwing
<1>4. AskedTo(specs, n) \in Int /\ AskedTo(specs, n) + rolled <= DiceAsked
  <2>1. dice = <<>> => rolled = 0
    BY <1>1, DieIs, ThrownIs DEF Throwing
  <2>2. CASE n < Len(specs)
    <3> DEFINE w == IF specs[n + 1].chunk.flat THEN 0 ELSE specs[n + 1].chunk.count
    <3>1. AskedTo(specs, n) \in Nat /\ AskedTo(specs, n + 1) = AskedTo(specs, n) + w /\ AskedTo(specs, n + 1) <= DiceAsked
      BY <1>1, <1>2, <2>2, AskedToNext
    <3>2. w \in Nat
      <4>1. n + 1 \in DOMAIN specs
        BY <1>1, <1>2, <2>2, SpecsLen
      <4>2. ~specs[n + 1].chunk.flat => specs[n + 1].chunk.count \in 0 .. MaxDicePerTerm
        BY <1>1, <4>1, SpecIs
      <4> QED BY <4>2
    <3>3. rolled <= w
      <4>1. CASE dice = <<>>
        BY <2>1, <3>2, <4>1
      <4>2. CASE dice # <<>>
        BY <1>1, <4>2 DEF Throwing, Spec1
      <4> QED BY <4>1, <4>2
    <3> HIDE DEF w
    <3>4. DiceAsked \in Nat
      BY AskedNatural, <1>1
    <3> QED BY <1>3, <3>1, <3>2, <3>3, <3>4
  <2>3. CASE n = Len(specs)
    <3>1. dice = <<>>
      BY <1>1, <1>2, <2>3 DEF Throwing
    <3>2. AskedTo(specs, n) = DiceAsked /\ DiceAsked \in Nat
      BY <1>1, <2>3, AskedIs, AskedNatural DEF AskedTo, TermDice
    <3> QED BY <2>1, <3>1, <3>2
  <2> QED BY <1>2, <2>2, <2>3
<1> QED BY <1>1, <1>4, AskedNatural

\* However the dice fall, a roll holds no more dice than maxTotalDice and
\* maxExplosions together (RollDice).
THEOREM DiceWithinBounds == Spec => []DiceBounded
<1>1. ASSUME input \in Inputs, ServerInv PROVE DiceBounded
  <2> DEFINE n == Len(terms)
  <2>1. Written /\ Throwing /\ Paid /\ Phases /\ input \in Drafts
    BY <1>1, InputsAreDrafts DEF ServerInv, Parsing, Rolled
  <2>2. n \in Nat /\ DOMAIN terms = 1 .. n /\ n <= Len(specs) /\ Len(specs) \in Nat /\ Len(dice) \in Nat
    BY <2>1, SpecsLen DEF Throwing
  <2> SUFFICES Len(dice) + DiceOf(terms) <= MaxTotalDice + MaxExplosions
    BY <2>2 DEF DiceBounded, DiceThrown, DiceOf, Total
  <2>3. MaxTotalDice \in Nat /\ MaxExplosions \in Nat /\ budget \in 0 .. MaxExplosions /\ rolled \in Nat
    BY <2>1, DiceAssumption DEF Throwing
  <2>4. AskedTo(specs, n) \in Int /\ AskedTo(specs, n) + rolled <= DiceAsked
    BY <1>1, <2>1, StillAsked
  <2>5. Len(dice) + DiceOf(terms) = AskedTo(specs, n) + rolled + (MaxExplosions - budget)
    BY <2>1 DEF Paid
  <2>6. CASE phase \in {"parse", "error"}
    <3>1. dice = <<>> /\ n = 0 /\ rolled = 0 /\ budget = MaxExplosions
      BY <1>1, <2>6 DEF ServerInv, Quiet
    <3>2. AskedTo(specs, n) = 0
      <4>1. AskedTo(specs, n) = Total([i \in 1 .. 0 |-> IF specs[i].chunk.flat THEN 0 ELSE specs[i].chunk.count])
        BY <3>1 DEF AskedTo
      <4>2. [i \in 1 .. 0 |-> IF specs[i].chunk.flat THEN 0 ELSE specs[i].chunk.count] = [i \in 1 .. 0 |-> 0]
        OBVIOUS
      <4> QED BY <4>1, <4>2, Zero
    <3>3. AskedTo(specs, n) + rolled + (MaxExplosions - budget) = 0
      BY <2>3, <3>1, <3>2
    <3> QED BY <2>3, <2>5, <3>3
  <2>7. CASE phase \in {"roll", "done", "panic"}
    <3> DEFINE a == AskedTo(specs, n)
               b == DiceAsked
               x == Len(dice) + DiceOf(terms)
    <3>1. b <= MaxTotalDice /\ b \in Int
      BY <1>1, <2>1, <2>7, AskedNatural DEF ServerInv, Parsing, Refusal
    <3>2. a \in Int /\ a + rolled <= b /\ x = a + rolled + (MaxExplosions - budget)
      BY <2>4, <2>5
    <3> HIDE DEF a, b, x
    <3>3. x <= MaxTotalDice + MaxExplosions
      BY <2>3, <3>1, <3>2
    <3> QED BY <3>3 DEF x
  <2> QED BY <2>1, <2>6, <2>7 DEF Phases
<1> QED BY <1>1, ServerAlways, PTL

\* The dice thrown, by what was asked for and what the explosions took.
LEMMA PassesAre ==
  ASSUME input \in Drafts, ServerInv, phase = "roll"
  PROVE  LET n == Len(terms)
         IN /\ PassesLeft = (DiceAsked - AskedTo(specs, n) - rolled + budget) + (Len(specs) - n) + 1
            /\ AskedTo(specs, n) \in Int /\ AskedTo(specs, n) + rolled <= DiceAsked
            /\ rolled \in Nat /\ budget \in Nat /\ n \in Nat /\ n <= Len(specs)
<1> DEFINE n == Len(terms)
           a == AskedTo(specs, n)
           l == Len(specs)
<1>1. Written /\ Throwing /\ Paid
  BY DEF ServerInv, Parsing, Rolled
<1>2. /\ n \in Nat /\ DOMAIN terms = 1 .. n /\ n <= l /\ l \in Nat /\ rolled \in Nat
      /\ budget \in 0 .. MaxExplosions /\ MaxExplosions \in Nat
  BY <1>1, SpecsLen, DiceAssumption DEF Throwing
<1>3. DiceThrown = a + rolled + (MaxExplosions - budget)
  <2>1. DiceThrown = Len(dice) + DiceOf(terms)
    BY <1>2 DEF DiceThrown, DiceOf, Total
  <2> QED BY <1>1, <2>1 DEF Paid
<1>4. a \in Int /\ DiceAsked \in Nat /\ a + rolled <= DiceAsked
  BY StillAsked
<1>5. PassesLeft = (DiceAsked + MaxExplosions - DiceThrown) + (l - n) + 1
  BY DEF PassesLeft
<1> HIDE DEF a, l, n
<1>6. PassesLeft = (DiceAsked - a - rolled + budget) + (l - n) + 1
  BY <1>2, <1>3, <1>4, <1>5
<1> QED BY <1>2, <1>4, <1>6 DEF a, l, n

LEMMA PassesAreNext ==
  (input \in Drafts /\ ServerInv /\ phase = "roll" =>
     LET n == Len(terms)
     IN /\ PassesLeft = (DiceAsked - AskedTo(specs, n) - rolled + budget) + (Len(specs) - n) + 1
        /\ AskedTo(specs, n) \in Int /\ AskedTo(specs, n) + rolled <= DiceAsked
        /\ rolled \in Nat /\ budget \in Nat /\ n \in Nat /\ n <= Len(specs))'
<1>1. input \in Drafts /\ ServerInv /\ phase = "roll" =>
        LET n == Len(terms)
        IN /\ PassesLeft = (DiceAsked - AskedTo(specs, n) - rolled + budget) + (Len(specs) - n) + 1
           /\ AskedTo(specs, n) \in Int /\ AskedTo(specs, n) + rolled <= DiceAsked
           /\ rolled \in Nat /\ budget \in Nat /\ n \in Nat /\ n <= Len(specs)
  BY PassesAre
<1> QED BY <1>1, PTL

\* Reading: what is left to read, and the longest roll.
LEMMA ReadingPass ==
  ASSUME input \in Drafts, ServerInv, ParseOperator \/ ParseTerm \/ ParseEnd
  PROVE  PassesLeft' \in 0 .. PassesLeft - 1
<1> DEFINE l == Len(input)
           m == MaxTotalDice + MaxExplosions
<1>1. Written /\ phase = "parse" /\ Quiet /\ input' = input
  BY DEF ServerInv, Parsing, ParseOperator, ParseTerm, ParseEnd
<1>2. pos \in 1 .. l + 1 /\ l \in Nat /\ MaxTotalDice \in Nat /\ MaxExplosions \in Nat
  BY <1>1, Tokens, DiceAssumption DEF Written
<1>3. PassesLeft = (l + 1 - pos) + 1 + m + l + 1
  <2>1. PassesLeft = (l + 1 - pos) + 1 + MaxTotalDice + MaxExplosions + l + 1
    BY <1>1 DEF PassesLeft
  <2> HIDE DEF l
  <2> QED BY <1>2, <2>1
<1>4. CASE phase' = "error"
  <2>1. PassesLeft' = 0
    BY <1>4 DEF PassesLeft
  <2> HIDE DEF l
  <2> QED BY <1>2, <1>3, <2>1
<1>5. CASE phase' = "parse"
  <2>1. pos' = pos + 1 /\ pos <= l
    BY <1>1, <1>5 DEF ParseOperator, ParseTerm, ParseEnd
  <2>2. PassesLeft' = (l + 1 - pos') + 1 + MaxTotalDice + MaxExplosions + l + 1
    BY <1>1, <1>5 DEF PassesLeft
  <2> HIDE DEF l
  <2> QED BY <1>2, <1>3, <2>1, <2>2
<1>6. CASE phase' = "roll"
  <2>1. ParseEnd /\ pos = l + 1 /\ DiceAsked <= MaxTotalDice /\ UNCHANGED <<specs, terms, rolled, budget>>
    <3>1. ParseEnd
      BY <1>1, <1>6 DEF ParseOperator, ParseTerm, ParseEnd
    <3>2. ~(DiceAsked > MaxTotalDice)
      BY <1>6, <3>1 DEF ParseEnd
    <3>3. DiceAsked \in Nat
      BY <1>1, AskedNatural
    <3> QED BY <1>2, <3>1, <3>2, <3>3 DEF ParseEnd
  <2>2. DiceAsked' = DiceAsked /\ DiceAsked \in Nat
    BY <1>1, <2>1, AskedIs, AskedNatural
  <2>3. Len(terms) = 0 /\ rolled = 0 /\ budget = MaxExplosions
    BY <1>1 DEF Quiet
  <2>4. Len(specs) <= l /\ Len(specs) \in Nat
    <3>1. Len(specs) = Cardinality(Places(input, l))
      <4> HIDE DEF l
      <4>1. pos - 1 = l
        BY <1>2, <2>1
      <4> QED BY <1>1, <4>1 DEF Written
    <3>2. Places(input, l) \in SUBSET (1 .. l) /\ IsFiniteSet(1 .. l) /\ Cardinality(1 .. l) = l
      BY <1>2, UpTo DEF Places
    <3> QED BY <1>1, <3>1, <3>2, FS_Subset, SpecsLen
  <2>5. AskedTo(specs, 0) = 0
    <3>1. [i \in 1 .. 0 |-> IF specs[i].chunk.flat THEN 0 ELSE specs[i].chunk.count] = [i \in 1 .. 0 |-> 0]
      OBVIOUS
    <3> QED BY <3>1, Zero DEF AskedTo
  <2>6. ServerInv' /\ input' \in Drafts
    BY <2>1, ServerStep DEF Next
  <2>7. PassesLeft' = (DiceAsked - 0 - 0 + MaxExplosions) + (Len(specs) - 0) + 1
    BY <1>6, <2>1, <2>2, <2>3, <2>5, <2>6, PassesAreNext
  <2> DEFINE k == Len(specs)
             x == DiceAsked
  <2>8. PassesLeft' = (x - 0 - 0 + MaxExplosions) + (k - 0) + 1 /\ k <= l /\ k \in Nat /\ x \in Nat /\ x <= MaxTotalDice
    BY <2>1, <2>2, <2>4, <2>7
  <2> HIDE DEF l, k, x
  <2> QED BY <1>2, <1>3, <2>1, <2>8
<1>7. phase' \in {"error", "parse", "roll"}
  BY <1>1 DEF ParseOperator, ParseTerm, ParseEnd
<1> QED BY <1>4, <1>5, <1>6, <1>7

\* Rolling: a die less to throw, an explosion less to pay, or a term less to finish.
LEMMA RollingPass ==
  ASSUME input \in Drafts, ServerInv, Next, phase = "roll"
  PROVE  PassesLeft' \in 0 .. PassesLeft - 1
<1> DEFINE n == Len(terms)
           l == Len(specs)
           a == AskedTo(specs, n)
           x == DiceAsked
<1>1. /\ PassesLeft = (x - a - rolled + budget) + (l - n) + 1
      /\ a \in Int /\ a + rolled <= x /\ rolled \in Nat /\ budget \in Nat /\ n \in Nat /\ n <= l
      /\ l \in Nat /\ x \in Nat /\ Written /\ Throwing
  BY PassesAre, SpecsLen, AskedNatural DEF ServerInv, Parsing, Rolled
<1>2. ServerInv' /\ input' \in Drafts
  BY ServerStep
<1>3. UNCHANGED specs /\ DiceAsked' = x
  BY AskedIs DEF Next, ParseOperator, ParseTerm, ParseEnd, RollFlat, FinishTerm, Finish, RollDie, Explode
<1>4. CASE phase' # "roll"
  <2>1. PassesLeft' = 0
    <3>1. phase' \in {"done", "panic"}
      BY <1>4 DEF Next, ParseOperator, ParseTerm, ParseEnd, RollFlat, FinishTerm, Finish, RollDie, Explode
    <3> QED BY <3>1 DEF PassesLeft
  <2> HIDE DEF n, l, a, x
  <2> QED BY <1>1, <2>1
<1>5. CASE phase' = "roll"
  <2> DEFINE m == Len(terms')
             b == AskedTo(specs, m)
             r == rolled'
             e == budget'
  <2>1. /\ PassesLeft' = (x - b - r + e) + (l - m) + 1
        /\ b \in Int /\ b + r <= x /\ r \in Nat /\ e \in Nat /\ m \in Nat /\ m <= l
    BY <1>2, <1>3, <1>5, PassesAreNext
  <2>2. \/ m = n /\ b = a /\ r = rolled + 1 /\ e = budget
        \/ m = n /\ b = a /\ r = rolled /\ e = budget - 1
        \/ m = n + 1 /\ b + r = a + rolled /\ e = budget
    <3>1. CASE RollFlat \/ FinishTerm
      <4>1. /\ Rolling /\ e = budget /\ m = n + 1
            /\ r = IF Spec1.chunk.flat THEN rolled ELSE 0
            /\ ~Spec1.chunk.flat => rolled = Spec1.chunk.count
        <5>1. terms \in Seq(Result)
          BY <1>1 DEF Throwing
        <5>2. CASE RollFlat
          BY <5>1, <5>2 DEF RollFlat
        <5>3. CASE FinishTerm
          <6>1. ~KeepDropPanics(dice, Spec1.chunk.mode, Spec1.chunk.n)
            BY <1>5, <5>3 DEF FinishTerm
          <6> QED BY <5>1, <5>3, <6>1 DEF FinishTerm, RollingDice
        <5> QED BY <3>1, <5>2, <5>3
      <4>2. b = a + (IF Spec1.chunk.flat THEN 0 ELSE Spec1.chunk.count)
        BY <1>1, <4>1, Spec1Is, AskedToNext
      <4> HIDE DEF n, a, m, b, r, e
      <4> QED BY <1>1, <4>1, <4>2
    <3>2. CASE \E v \in 1 .. Spec1.chunk.sides : RollDie(v) \/ Explode(v)
      BY <3>2 DEF RollDie, Explode
    <3>3. CASE ParseOperator \/ ParseTerm \/ ParseEnd \/ Finish
      BY <1>5, <3>3 DEF ParseOperator, ParseTerm, ParseEnd, Finish
    <3> QED BY <3>1, <3>2, <3>3 DEF Next
  <2> HIDE DEF n, l, a, x, m, b, r, e
  <2> QED BY <1>1, <2>1, <2>2
<1> QED BY <1>4, <1>5

\* Whatever the dice show, the passes of the loops of a call run out: their number
\* is bounded from the begin by the limits (parseExpression, RollDice).
THEOREM PassesRunOut == Spec => EveryPassCounts
<1>1. ASSUME input \in Inputs, ServerInv, Next
      PROVE  PassesLeft' \in 0 .. PassesLeft - 1
  <2>1. input \in Drafts
    BY <1>1, InputsAreDrafts
  <2>2. CASE ParseOperator \/ ParseTerm \/ ParseEnd
    BY <1>1, <2>1, <2>2, ReadingPass
  <2>3. CASE ~(ParseOperator \/ ParseTerm \/ ParseEnd)
    <3>1. phase = "roll"
      BY <1>1, <2>3 DEF Next, RollFlat, FinishTerm, Finish, RollingDice, Rolling
    <3> QED BY <1>1, <2>1, <3>1, RollingPass
  <2> QED BY <2>2, <2>3
<1>2. (input \in Inputs /\ ServerInv) /\ [Next]_vars => [PassesLeft' \in 0 .. PassesLeft - 1]_vars
  BY <1>1
<1> QED BY <1>2, ServerAlways, PTL DEF Spec, EveryPassCounts

\* A critical result is announced exactly when one kept d20 decides (detectCrit).
THEOREM CritByOneDie == Spec => []CritMeansOneDie
<1>1. ASSUME ServerInv PROVE CritMeansOneDie
  <2>1. phase = "done" => CritRight(crit, terms, specs)
    BY <1>1 DEF ServerInv, Rolled, Decided
  <2> QED BY <2>1, Zenon DEF CritMeansOneDie, CritRight, Decides, OnlyD20, KeptDice
<1> QED BY <1>1, ServerAlways, PTL

\* A sum that fits an int is the total, whatever it went through on the way.
THEOREM SumsExact == Spec => []TotalExact
<1>1. ASSUME ServerInv PROVE TotalExact
  <2>1. Throwing /\ total = Wrap(ValueOf(terms))
    BY <1>1 DEF ServerInv, Rolled, Added
  <2>2. DOMAIN terms = 1 .. Len(terms) /\ ValueOf(terms) \in Int
    BY <2>1, ValueIs DEF Throwing
  <2>3. ValueOf(terms) \in -(IntMax + 1) .. IntMax => total = ValueOf(terms)
    BY <2>1, <2>2, WrapIs
  <2>4. FoldFunction(LAMBDA a, b : a + b, 0, [i \in DOMAIN terms |-> terms[i].value]) = ValueOf(terms)
    BY <2>2 DEF ValueOf, Total
  <2> QED BY <2>3, <2>4 DEF TotalExact
<1> QED BY <1>1, ServerAlways, PTL

-----------------------------------------------------------------------------
(* What Min and Max of the library find.                                   *)

\* A set of numbers has a smallest element.
LEMMA MinOf ==
  ASSUME NEW S \in SUBSET Nat, S # {}
  PROVE  Min(S) \in S /\ \A y \in S : Min(S) <= y
BY FirstOf DEF Min

\* A set of numbers up to n has a largest one: the distance to n is smallest there.
LEMMA MaxOf ==
  ASSUME NEW n \in Nat, NEW S \in SUBSET (0 .. n), S # {}
  PROVE  Max(S) \in S /\ \A y \in S : Max(S) >= y
<1> DEFINE T == {n - y : y \in S}
<1>1. \A y \in S : y \in Nat /\ n - y \in Nat /\ n - y \in T
  OBVIOUS
<1>2. T \in SUBSET Nat
  BY <1>1
<1>3. T # {}
  BY <1>1
<1> HIDE DEF T
<1>4. Min(T) \in T /\ \A t \in T : Min(T) <= t
  BY <1>2, <1>3, MinOf
<1>5. PICK x \in S : Min(T) = n - x
  BY <1>4 DEF T
<1>6. ASSUME NEW y \in S PROVE x >= y
  <2>1. n - x <= n - y
    BY <1>1, <1>4, <1>5
  <2> QED BY <1>1, <2>1
<1> QED BY <1>6 DEF Max

-----------------------------------------------------------------------------
(* Drafts.                                                                 *)

LEMMA EmptyDraft == <<>> \in Drafts
<1>1. <<>> \in Seq(Token) /\ 1 .. Len(<<>>) - 1 = {}
  OBVIOUS
<1> QED BY <1>1, DraftIs

\* Behind an operator, or for an operator, there is always room.
LEMMA DraftAppended ==
  ASSUME NEW d \in Drafts, NEW t \in Token, d = <<>> \/ Operator(Last(d)) \/ Operator(t)
  PROVE  Append(d, t) \in Drafts
<1> DEFINE e == Append(d, t)
<1>1. /\ d \in Seq(Token) /\ Len(d) \in Nat
      /\ \A i \in 1 .. Len(d) - 1 : Operator(d[i]) \/ Operator(d[i + 1])
  BY DraftIs
<1>2. /\ e \in Seq(Token) /\ Len(e) = Len(d) + 1 /\ e[Len(d) + 1] = t
      /\ \A i \in 1 .. Len(d) : e[i] = d[i]
  BY <1>1
<1>3. d # <<>> => Len(d) > 0 /\ Last(d) = d[Len(d)]
  BY <1>1 DEF Last
<1> HIDE DEF e
<1>4. ASSUME NEW i \in 1 .. Len(e) - 1 PROVE Operator(e[i]) \/ Operator(e[i + 1])
  <2>1. CASE i < Len(d)
    <3>1. i \in 1 .. Len(d) - 1 /\ e[i] = d[i] /\ e[i + 1] = d[i + 1]
      BY <1>1, <1>2, <2>1
    <3> QED BY <1>1, <3>1
  <2>2. CASE i = Len(d)
    <3>1. e[i] = d[i] /\ e[i + 1] = t /\ d # <<>>
      BY <1>1, <1>2, <2>2
    <3> QED BY <1>3, <2>2, <3>1
  <2> QED BY <1>1, <1>2, <2>1, <2>2
<1> QED BY <1>2, <1>4, DraftIs DEF e

LEMMA DraftExtended ==
  ASSUME NEW d \in Drafts, NEW o \in Operators, NEW t \in Token
  PROVE  d \o <<o, t>> \in Drafts
<1>1. d \in Seq(Token)
  BY DraftIs
<1>2. o \in Token /\ Operator(o)
  BY DEF Token, Operator, Operator
<1> DEFINE e == Append(d, o)
<1>3. e \in Drafts
  BY <1>2, DraftAppended
<1>4. e # <<>> /\ Last(e) = o
  BY <1>1, <1>2 DEF Last
<1>5. d \o <<o, t>> = Append(e, t)
  BY <1>1, <1>2
<1> HIDE DEF e
<1>6. Append(e, t) \in Drafts
  BY <1>2, <1>3, <1>4, DraftAppended
<1> QED BY <1>5, <1>6

\* A chunk gives way to another.
LEMMA DraftReplaced ==
  ASSUME NEW d \in Drafts, NEW i \in DOMAIN d, ~Operator(d[i]), NEW t \in Token
  PROVE  [d EXCEPT ![i] = t] \in Drafts
<1> DEFINE e == [d EXCEPT ![i] = t]
<1>1. /\ d \in Seq(Token) /\ Len(d) \in Nat /\ DOMAIN d = 1 .. Len(d)
      /\ \A j \in 1 .. Len(d) - 1 : Operator(d[j]) \/ Operator(d[j + 1])
  BY DraftIs
<1>2. e \in Seq(Token) /\ Len(e) = Len(d) /\ \A j \in 1 .. Len(d) : e[j] = IF j = i THEN t ELSE d[j]
  BY <1>1
<1> HIDE DEF e
<1>3. ASSUME NEW j \in 1 .. Len(d) - 1 PROVE Operator(e[j]) \/ Operator(e[j + 1])
  <2>1. j \in 1 .. Len(d) /\ j + 1 \in 1 .. Len(d) /\ j + 1 # j
    BY <1>1
  <2>2. Operator(d[j]) \/ Operator(d[j + 1])
    BY <1>1
  <2>3. CASE j = i
    BY <1>2, <2>1, <2>2, <2>3
  <2>4. CASE j + 1 = i
    BY <1>2, <2>1, <2>2, <2>4
  <2>5. CASE j # i /\ j + 1 # i
    BY <1>2, <2>1, <2>2, <2>5
  <2> QED BY <2>3, <2>4, <2>5
<1> QED BY <1>2, <1>3, DraftIs DEF e

LEMMA DraftCut ==
  ASSUME NEW d \in Drafts, NEW k \in 0 .. Len(d)
  PROVE  SubSeq(d, 1, k) \in Drafts
<1> DEFINE e == SubSeq(d, 1, k)
<1>1. /\ d \in Seq(Token) /\ Len(d) \in Nat
      /\ \A i \in 1 .. Len(d) - 1 : Operator(d[i]) \/ Operator(d[i + 1])
  BY DraftIs
<1>2. e \in Seq(Token) /\ Len(e) = k /\ \A i \in 1 .. k : e[i] = d[i]
  BY <1>1
<1> HIDE DEF e
<1>3. ASSUME NEW i \in 1 .. k - 1 PROVE Operator(e[i]) \/ Operator(e[i + 1])
  <2>1. i \in 1 .. Len(d) - 1 /\ i \in 1 .. k /\ i + 1 \in 1 .. k
    BY <1>1
  <2> QED BY <1>1, <1>2, <2>1
<1> QED BY <1>2, <1>3, DraftIs DEF e

LEMMA FirstDiceIs ==
  ASSUME NEW d \in Drafts, FirstDice(d) # 0
  PROVE  FirstDice(d) \in DOMAIN d /\ IsDice(d[FirstDice(d)])
<1> DEFINE hits == {i \in 1 .. Len(d) : IsDice(d[i])}
<1>1. d \in Seq(Token)
  BY DraftIs
<1>2. FirstDice(d) = IF hits # {} THEN Min(hits) ELSE 0
  BY DEF FirstDice, SelectInSeq
<1>3. hits # {} /\ hits \in SUBSET Nat
  BY <1>2
<1>4. Min(hits) \in hits
  <2> HIDE DEF hits
  <2> QED BY <1>3, MinOf
<1> QED BY <1>1, <1>2, <1>3, <1>4

LEMMA DiceIs ==
  ASSUME NEW t \in Token, IsDice(t)
  PROVE  t \in DiceChunk
BY DEF Token, IsDice, Operator, FlatChunk

LEMMA MadeDice ==
  ASSUME NEW c \in DiceChunk, NEW m \in RollModes, NEW s \in {"dl", "dh", "!"}
  PROVE  /\ WithExtraDie(c, m) \in DiceChunk
         /\ Asked(c) \in Nat
         /\ Suffixed(c, s) \in DiceChunk
<1>1. Asked(c) \in Nat
  BY DEF DiceChunk, Asked
<1>2. WithExtraDie(c, m) \in DiceChunk
  <2> DEFINE a == Asked(c)
             k == IF m = "adv" THEN "kh" ELSE "kl"
  <2>1. a \in Nat /\ a + 1 \in Nat /\ k \in Modes
    BY <1>1 DEF Modes
  <2>2. WithExtraDie(c, m) = [c EXCEPT !.count = a + 1, !.n = a, !.mode = k]
    BY DEF WithExtraDie
  <2> HIDE DEF a, k
  <2> QED BY <2>1, <2>2 DEF DiceChunk
<1>3. Suffixed(c, s) \in DiceChunk
  <2> DEFINE k == IF s = "!" THEN "" ELSE s
             b == (s = "!")
  <2>1. k \in Modes /\ b \in BOOLEAN
    BY DEF Modes
  <2>2. Suffixed(c, s) = [c EXCEPT !.mode = k, !.n = 1, !.explode = b]
    BY DEF Suffixed
  <2> HIDE DEF k, b
  <2>3. \A e \in BOOLEAN : [c EXCEPT !.mode = k, !.n = 1, !.explode = e] \in DiceChunk
    BY <2>1 DEF DiceChunk
  <2> QED BY <2>1, <2>2, <2>3
<1> QED BY <1>1, <1>2, <1>3

LEMMA EffectiveDraft ==
  ASSUME NEW d \in Drafts, NEW m \in RollModes, ~ModeRefused(d, m)
  PROVE  Effective(d, m) \in Drafts
<1>1. CASE m = "" \/ d = <<>>
  BY <1>1 DEF Effective
<1>2. CASE m # "" /\ d # <<>>
  <2> DEFINE i == FirstDice(d)
  <2>1. i # 0
    BY <1>2 DEF ModeRefused
  <2>2. i \in DOMAIN d /\ IsDice(d[i])
    BY <2>1, FirstDiceIs
  <2>3. d[i] \in Token
    BY <2>2, DraftIs
  <2>4. WithExtraDie(d[i], m) \in Token
    BY <2>2, <2>3, DiceIs, MadeDice DEF Token
  <2>5. Effective(d, m) = [d EXCEPT ![i] = WithExtraDie(d[i], m)]
    BY <1>2 DEF Effective
  <2>6. ~Operator(d[i])
    BY <2>2 DEF IsDice
  <2> HIDE DEF i
  <2> QED BY <2>2, <2>4, <2>5, <2>6, DraftReplaced
<1> QED BY <1>1, <1>2

\* Every number of dice to keep fits an int.
Fits(d) == \A i \in DOMAIN d : IsDice(d[i]) => d[i].n <= IntMax

\* What the user types and the templates hold.
TypedFits == (\A d \in Typed : Fits(d)) /\ (\A t \in Templates : Fits(t.draft))

LEMMA FitsGrown ==
  ASSUME NEW d \in Drafts, Fits(d), NEW t \in Token, IsDice(t) => t.n <= IntMax
  PROVE  /\ Fits(Append(d, t))
         /\ \A o \in Operators : Fits(d \o <<o, t>>)
         /\ \A i \in DOMAIN d : Fits([d EXCEPT ![i] = t])
         /\ \A k \in 0 .. Len(d) : Fits(SubSeq(d, 1, k))
<1>1. d \in Seq(Token) /\ Len(d) \in Nat /\ DOMAIN d = 1 .. Len(d)
  BY DraftIs
<1>2. \A i \in 1 .. Len(d) : IsDice(d[i]) => d[i].n <= IntMax
  BY <1>1 DEF Fits
<1>3. Fits(Append(d, t))
  <2> DEFINE e == Append(d, t)
  <2>1. DOMAIN e = 1 .. Len(d) + 1 /\ e[Len(d) + 1] = t /\ \A i \in 1 .. Len(d) : e[i] = d[i]
    BY <1>1
  <2> HIDE DEF e
  <2>2. \A i \in 1 .. Len(d) + 1 : i \in 1 .. Len(d) \/ i = Len(d) + 1
    BY <1>1
  <2>3. Fits(e)
    BY <1>2, <2>1, <2>2 DEF Fits
  <2> QED BY <2>3 DEF e
<1>4. ASSUME NEW o \in Operators PROVE Fits(d \o <<o, t>>)
  <2> DEFINE e == d \o <<o, t>>
  <2>1. /\ DOMAIN e = 1 .. Len(d) + 2 /\ e[Len(d) + 1] = o /\ e[Len(d) + 2] = t
        /\ \A i \in 1 .. Len(d) : e[i] = d[i]
    <3>1. o \in Token
      BY DEF Token
    <3> QED BY <1>1, <3>1
  <2> HIDE DEF e
  <2>2. ~IsDice(o)
    BY DEF IsDice, Operator
  <2>3. \A i \in 1 .. Len(d) + 2 : i \in 1 .. Len(d) \/ i = Len(d) + 1 \/ i = Len(d) + 2
    BY <1>1
  <2>4. Fits(e)
    BY <1>2, <2>1, <2>2, <2>3 DEF Fits
  <2> QED BY <2>4 DEF e
<1>5. ASSUME NEW i \in DOMAIN d PROVE Fits([d EXCEPT ![i] = t])
  BY <1>1, <1>2 DEF Fits
<1>6. ASSUME NEW k \in 0 .. Len(d) PROVE Fits(SubSeq(d, 1, k))
  <2> DEFINE e == SubSeq(d, 1, k)
  <2>1. DOMAIN e = 1 .. k /\ \A i \in 1 .. k : e[i] = d[i] /\ i \in 1 .. Len(d)
    BY <1>1
  <2> HIDE DEF e
  <2>2. Fits(e)
    BY <1>2, <2>1 DEF Fits
  <2> QED BY <2>2 DEF e
<1> QED BY <1>3, <1>4, <1>5, <1>6

LEMMA FitsEffective ==
  ASSUME NEW d \in Drafts, NEW m \in RollModes, ~ModeRefused(d, m), Fits(d)
  PROVE  Fits(Effective(d, m))
<1>1. CASE m = "" \/ d = <<>>
  BY <1>1 DEF Effective
<1>2. CASE m # "" /\ d # <<>>
  <2> DEFINE i == FirstDice(d)
             c == d[i]
             t == WithExtraDie(c, m)
  <2>1. i # 0 /\ \A j \in DOMAIN d : j = i => ~(Asked(d[j]) + 1 > MaxDicePerTerm)
    BY <1>2 DEF ModeRefused
  <2>2. i \in DOMAIN d /\ IsDice(c) /\ ~(Asked(c) + 1 > MaxDicePerTerm)
    BY <2>1, FirstDiceIs
  <2>3. c \in DiceChunk
    BY <2>2, DraftIs, DiceIs
  <2>4. t \in DiceChunk /\ t \in Token /\ Asked(c) \in Nat
    BY <2>3, MadeDice DEF Token
  <2>5. Effective(d, m) = [d EXCEPT ![i] = t]
    BY <1>2 DEF Effective
  <2>6. t.n = Asked(c)
    BY <2>3 DEF WithExtraDie, DiceChunk
  <2> HIDE DEF i, c, t
  <2>7. t.n <= IntMax
    BY <2>2, <2>4, <2>6, DiceAssumption
  <2> QED BY <2>2, <2>4, <2>5, <2>7, FitsGrown
<1> QED BY <1>1, <1>2

LEMMA TrimmedDraft ==
  ASSUME NEW d \in Drafts
  PROVE  Trimmed(d) \in Drafts /\ (Fits(d) => Fits(Trimmed(d)))
<1> DEFINE hits == {i \in 1 .. Len(d) : ~Operator(d[i])}
           k == IF hits # {} THEN Max(hits) ELSE 0
<1>1. Len(d) \in Nat
  BY DraftIs
<1>2. Trimmed(d) = SubSeq(d, 1, k)
  BY DEF Trimmed, SelectLastInSeq
<1>3. hits # {} => Max(hits) \in hits
  <2>1. hits \in SUBSET (0 .. Len(d))
    BY <1>1
  <2> HIDE DEF hits
  <2> QED BY <1>1, <2>1, MaxOf
<1>4. k \in 0 .. Len(d)
  BY <1>1, <1>3
<1> HIDE DEF k
<1>5. Fits(d) => Fits(SubSeq(d, 1, k))
  <2>1. Plus \in Token /\ ~IsDice(Plus)
    BY DEF Plus, Token, Operators, IsDice, Operator
  <2> QED BY <1>4, <2>1, FitsGrown
<1> QED BY <1>2, <1>4, <1>5, DraftCut

-----------------------------------------------------------------------------
(* The page.                                                               *)

\* The saved expression is the expansion of the draft it was saved from, and an
\* applied one is the draft, with no mode left to be expanded again.
PresetInv ==
  /\ preset.expr = Effective(preset.draft, preset.mode)
  /\ applied => draft = preset.expr /\ mode = ""

\* What a click or a text does to the page.
LEMMA Shows ==
  ASSUME EditorTypeOK, NEW d \in Drafts, NEW m \in RollModes, Show(d, m), applied' \in BOOLEAN
  PROVE  EditorTypeOK'
BY DEF EditorTypeOK, Show, Preview, server, vars

\* The drafts the buttons make.
LEMMA ButtonDrafts ==
  ASSUME EditorTypeOK,
         \/ \E n \in Counts, s \in Sides : AddDice(n, s)
         \/ \E n \in Numbers : AppendSigned(n)
         \/ \E s \in KeepSuffixes : AppendSuffix(s)
  PROVE  \E d \in Drafts : Edit(d) /\ (Fits(draft) => Fits(d))
<1>1. draft \in Drafts /\ draft \in Seq(Token)
  BY DraftIs DEF EditorTypeOK
<1>2. Plus \in Operators /\ Minus \in Operators
  BY DEF Plus, Minus, Operators
<1>3. ASSUME NEW n \in Counts, NEW s \in Sides, AddDice(n, s) PROVE \E d \in Drafts : Edit(d) /\ (Fits(draft) => Fits(d))
  <2> DEFINE t == Dice(n, s)
  <2>1. n \in Nat /\ s \in Nat
    BY EditorAssumption
  <2>2. t \in Token /\ t.n <= IntMax
    <3>1. t \in Token
      BY <2>1 DEF Dice, Token, DiceChunk, Modes
    <3>2. t.n = 1
      BY Zenon DEF Dice
    <3> QED BY <3>1, <3>2, DiceAssumption
  <2>3. Edit(WithTerm(draft, t))
    BY <1>3 DEF AddDice
  <2> HIDE DEF t
  <2>4. CASE draft = <<>> \/ Operator(Last(draft))
    <3>1. WithTerm(draft, t) = Append(draft, t)
      BY <2>4 DEF WithTerm
    <3>2. Append(draft, t) \in Drafts /\ (Fits(draft) => Fits(Append(draft, t)))
      BY <1>1, <2>2, <2>4, DraftAppended, FitsGrown
    <3> QED BY <2>3, <3>1, <3>2
  <2>5. CASE ~(draft = <<>> \/ Operator(Last(draft)))
    <3>1. WithTerm(draft, t) = draft \o <<Plus, t>>
      BY <2>5 DEF WithTerm
    <3>2. draft \o <<Plus, t>> \in Drafts /\ (Fits(draft) => Fits(draft \o <<Plus, t>>))
      BY <1>1, <1>2, <2>2, DraftExtended, FitsGrown
    <3> QED BY <2>3, <3>1, <3>2
  <2> QED BY <2>4, <2>5
<1>4. ASSUME NEW n \in Numbers, AppendSigned(n) PROVE \E d \in Drafts : Edit(d) /\ (Fits(draft) => Fits(d))
  <2>1. n \in Int /\ n # 0
    BY EditorAssumption
  <2>2. \E o \in Operators, t \in Token : Signed(n) = <<o, t>> /\ ~IsDice(t)
    <3>1. CASE n > 0
      <4>1. Flat(n) \in Token /\ ~IsDice(Flat(n))
        BY <2>1, <3>1 DEF Flat, Token, FlatChunk, IsDice
      <4> QED BY <1>2, <3>1, <4>1 DEF Signed
    <3>2. CASE ~(n > 0)
      <4>1. -n \in Nat
        BY <2>1, <3>2
      <4>2. Flat(-n) \in Token /\ ~IsDice(Flat(-n))
        BY <4>1 DEF Flat, Token, FlatChunk, IsDice
      <4> QED BY <1>2, <3>2, <4>2 DEF Signed
    <3> QED BY <3>1, <3>2
  <2>3. Edit(Trimmed(draft) \o Signed(n))
    BY <1>4 DEF AppendSigned
  <2> DEFINE e == Trimmed(draft)
  <2>4. e \in Drafts /\ (Fits(draft) => Fits(e))
    BY <1>1, TrimmedDraft
  <2> HIDE DEF e
  <2>5. e \o Signed(n) \in Drafts /\ (Fits(e) => Fits(e \o Signed(n)))
    BY <2>2, <2>4, DraftExtended, FitsGrown
  <2> QED BY <2>3, <2>4, <2>5 DEF e
<1>5. ASSUME NEW s \in KeepSuffixes, AppendSuffix(s) PROVE \E d \in Drafts : Edit(d) /\ (Fits(draft) => Fits(d))
  <2> DEFINE i == Len(draft)
             t == Suffixed(Last(draft), s)
  <2>1. draft # <<>> /\ IsDice(Last(draft)) /\ Edit([draft EXCEPT ![i] = t])
    BY <1>5 DEF AppendSuffix, TakesSuffix
  <2>2. i \in DOMAIN draft /\ draft[i] = Last(draft)
    BY <1>1, <2>1 DEF Last
  <2>3. draft[i] \in Token /\ ~Operator(draft[i])
    BY <1>1, <2>1, <2>2 DEF IsDice
  <2>4. t \in Token /\ t.n <= IntMax
    <3>1. Last(draft) \in DiceChunk
      BY <2>1, <2>2, <2>3, DiceIs
    <3>2. s \in {"dl", "dh", "!"} /\ "" \in RollModes
      BY EditorAssumption DEF RollModes
    <3>3. t.n = 1
      BY <3>1 DEF Suffixed, DiceChunk
    <3>4. t \in Token
      BY <3>1, <3>2, MadeDice DEF Token
    <3> QED BY <3>3, <3>4, DiceAssumption
  <2> HIDE DEF i, t
  <2>5. [draft EXCEPT ![i] = t] \in Drafts /\ (Fits(draft) => Fits([draft EXCEPT ![i] = t]))
    BY <1>1, <2>2, <2>3, <2>4, DraftReplaced, FitsGrown
  <2> QED BY <2>1, <2>5
<1> QED BY <1>3, <1>4, <1>5

\* All that changes the draft or the mode, but the preset.
Edits ==
  \/ \E d \in Typed : Type(d)
  \/ \E t \in Templates : ApplyTemplate(t)
  \/ \E n \in Counts, s \in Sides : AddDice(n, s)
  \/ \E n \in Numbers : AppendSigned(n)
  \/ \E s \in KeepSuffixes : AppendSuffix(s)
  \/ \E m \in RollModes : SetMode(m)
  \/ ClearExpr

LEMMA EditShows ==
  ASSUME EditorTypeOK, Edits
  PROVE  \E d \in Drafts, m \in RollModes :
           Show(d, m) /\ applied' = FALSE /\ (TypedFits /\ Fits(draft) => Fits(d))
<1>1. draft \in Drafts /\ mode \in RollModes
  BY DEF EditorTypeOK
<1>2. ASSUME NEW m \in RollModes, SetMode(m)
      PROVE  Show(draft, m) /\ applied' = FALSE
  BY <1>2 DEF SetMode
<1>3. ASSUME NEW t \in Templates, ApplyTemplate(t)
      PROVE  /\ Show(t.draft, t.mode) /\ applied' = FALSE /\ (TypedFits => Fits(t.draft))
             /\ t.draft \in Drafts /\ t.mode \in RollModes
  BY <1>3, EditorAssumption DEF ApplyTemplate, TypedFits
<1>4. ASSUME NEW d \in Typed, Type(d)
      PROVE  d \in Drafts /\ Edit(d) /\ (TypedFits => Fits(d))
  BY <1>4, EditorAssumption DEF Type, TypedFits
<1>5. ASSUME ClearExpr PROVE Edit(<<>>) /\ Fits(<<>>)
  BY <1>5 DEF ClearExpr, Fits
<1>6. ASSUME NEW d \in Drafts, Edit(d)
      PROVE  Show(d, mode) /\ applied' = FALSE
  BY <1>6 DEF Edit
<1> QED BY <1>1, <1>2, <1>3, <1>4, <1>5, <1>6, EmptyDraft, ButtonDrafts DEF Edits

\* What is left of EditorNext.
Others ==
  \/ SuffixHint \/ ApplyPreset \/ SavePreset
  \/ DoRoll \/ RollRefused \/ RollStep \/ Return \/ Receive

LEMMA NextIs == EditorNext => Edits \/ Others
BY DEF EditorNext, Edits, Others

LEMMA PageStep ==
  ASSUME EditorTypeOK, PresetInv, [EditorNext]_editorVars
  PROVE  EditorTypeOK' /\ PresetInv'
<1>1. CASE Edits
  <2>1. PICK d \in Drafts, m \in RollModes : Show(d, m) /\ applied' = FALSE
    BY <1>1, EditShows
  <2> QED BY <2>1, Shows DEF PresetInv, Show
<1>2. CASE SuffixHint \/ RollRefused \/ Receive
  <2>1. /\ UNCHANGED <<draft, mode, preset, applied>> /\ input' = input
        /\ shown' \in {shown, "hint", "refused"} /\ answer' \in {answer, "none"}
    <3>1. CASE SuffixHint
      BY <3>1 DEF SuffixHint, server, vars
    <3>2. CASE RollRefused
      BY <3>2 DEF RollRefused, server, vars
    <3>3. CASE Receive
      BY <3>3 DEF Receive, server, vars
    <3> QED BY <1>2, <3>1, <3>2, <3>3
  <2> QED BY <2>1 DEF EditorTypeOK, PresetInv
<1>3. CASE ApplyPreset
  <2>1. Show(preset.expr, "") /\ applied' = TRUE /\ preset.expr \in Drafts /\ "" \in RollModes
    BY <1>3 DEF ApplyPreset, EditorTypeOK, RollModes
  <2> QED BY <2>1, Shows DEF PresetInv, Show
<1>4. CASE SavePreset
  <2>1. Effective(draft, mode) \in Drafts
    BY <1>4, EffectiveDraft DEF SavePreset, EditorTypeOK
  <2> QED BY <1>4, <2>1 DEF SavePreset, EditorTypeOK, PresetInv, server, vars
<1>5. CASE DoRoll
  <2>1. Effective(draft, mode) \in Drafts
    BY <1>5, EffectiveDraft DEF DoRoll, EditorTypeOK
  <2> QED BY <1>5, <2>1 DEF DoRoll, RollDice, EditorTypeOK, PresetInv, page
<1>6. CASE RollStep
  BY <1>6, InputKept DEF RollStep, EditorTypeOK, PresetInv, page
<1>7. CASE Return
  BY <1>7, EmptyDraft DEF Return, RollDice, EditorTypeOK, PresetInv, page
<1>8. CASE UNCHANGED editorVars
  BY <1>8 DEF editorVars, page, server, vars, EditorTypeOK, PresetInv
<1> QED BY <1>1, <1>2, <1>3, <1>4, <1>5, <1>6, <1>7, <1>8, NextIs DEF Others

LEMMA PageInit == ASSUME EditorInit PROVE EditorTypeOK /\ PresetInv
<1>1. "" \in RollModes /\ Effective(<<>>, "") = <<>>
  BY DEF RollModes, Effective
<1>2. input = <<>>
  BY DEF EditorInit, Fresh
<1> QED BY <1>1, <1>2, EmptyDraft DEF EditorInit, EditorTypeOK, PresetInv, NoPreset, Preview

\* Every draft the buttons, the texts and the presets make is one the server can be
\* sent: the types of the page.
THEOREM EditorTypeCorrect == EditorSpec => []EditorTypeOK
BY PageInit, PageStep, PTL DEF EditorSpec

\* An applied preset rolls what was rolled when it was saved, for every draft, mode
\* and limit (applyPreset, savePreset).
THEOREM AppliedAsSaved == EditorSpec => []PresetReproduces
<1>1. PresetInv => PresetReproduces
  BY DEF PresetInv, PresetReproduces, ModeRefused, Effective
<1> QED BY <1>1, PageInit, PageStep, PTL DEF EditorSpec

-----------------------------------------------------------------------------
(* RollDice behind the page.                                               *)

\* A term that keeps more dice than it is asked for.
Greedy(c) == IsDice(c) /\ c.mode \in {"kh", "kl"} /\ c.n > c.count

PanicsGreedy == phase = "panic" => \E i \in Chunks(input) : Greedy(input[i])

\* While a roll is at work the page stands still: what is rolled is what it shows.
Sent == answer = "atWork" => input = Effective(draft, mode) /\ ~ModeRefused(draft, mode)

RollInv == ServerInv /\ PanicsGreedy /\ Sent

LEMMA Slicing ==
  ASSUME NEW a \in Int, NEW b \in Int, NEW len \in Nat,
         SlicePanics(Clamped(<<a, b>>, len))
  PROVE  b < 0 \/ (IF a > 0 THEN a ELSE 0) > (IF b < len THEN b ELSE len)
<1> DEFINE x == IF a > 0 THEN a ELSE 0
           y == IF b < len THEN b ELSE len
<1>1. Clamped(<<a, b>>, len) = <<x, y>>
  BY DEF Clamped, Max2, Min2
<1>2. y < 0 \/ x > y
  <2> HIDE DEF x, y
  <2>1. SlicePanics(<<x, y>>)
    BY <1>1
  <2> QED BY <2>1 DEF SlicePanics
<1> QED BY <1>2

LEMMA NothingToSlice ==
  ASSUME NEW m \in {"kh", "kl", "dh", "dl"}, NEW n \in Nat, NEW l \in Nat,
         SlicePanics(Clamped(RangeOf(m, n, l), l))
  PROVE  m \in {"kh", "kl"} /\ n > l
<1>1. CASE m = "kh"
  <2>1. RangeOf(m, n, l) = <<0, l - n>>
    BY <1>1 DEF RangeOf
  <2>2. SlicePanics(Clamped(<<0, l - n>>, l)) /\ 0 \in Int /\ l - n \in Int
    BY <2>1
  <2>3. l - n < 0 \/ (IF 0 > 0 THEN 0 ELSE 0) > (IF l - n < l THEN l - n ELSE l)
    BY <2>2, Slicing
  <2> QED BY <1>1, <2>3
<1>2. CASE m = "kl"
  <2>1. RangeOf(m, n, l) = <<n, l>>
    BY <1>2 DEF RangeOf
  <2>2. SlicePanics(Clamped(<<n, l>>, l))
    BY <2>1
  <2>3. l < 0 \/ (IF n > 0 THEN n ELSE 0) > (IF l < l THEN l ELSE l)
    BY <2>2, Slicing
  <2> QED BY <1>2, <2>3
<1>3. CASE m = "dh"
  <2>1. RangeOf(m, n, l) = <<l - n, l>>
    BY <1>3 DEF RangeOf
  <2>2. SlicePanics(Clamped(<<l - n, l>>, l)) /\ l - n \in Int
    BY <2>1
  <2>3. l < 0 \/ (IF l - n > 0 THEN l - n ELSE 0) > (IF l < l THEN l ELSE l)
    BY <2>2, Slicing
  <2> QED BY <2>3
<1>4. CASE m = "dl"
  <2>1. RangeOf(m, n, l) = <<0, n>>
    BY <1>4 DEF RangeOf
  <2>2. SlicePanics(Clamped(<<0, n>>, l)) /\ 0 \in Int
    BY <2>1
  <2>3. n < 0 \/ (IF 0 > 0 THEN 0 ELSE 0) > (IF n < l THEN n ELSE l)
    BY <2>2, Slicing
  <2> QED BY <2>3
<1> QED BY <1>1, <1>2, <1>3, <1>4

\* dropRange is left with nothing to slice only by kh and kl with too large a number.
LEMMA WhoPanics ==
  ASSUME NEW c \in DiceChunk, NEW d \in Seq(AnyDie), c.count <= Len(d),
         KeepDropPanics(d, c.mode, c.n)
  PROVE  c.mode \in {"kh", "kl"} /\ c.n > c.count
<1>1. c.mode \in Modes /\ c.n \in Nat /\ c.count \in Nat
  BY DEF DiceChunk
<1>2. Len(d) \in Nat
  OBVIOUS
<1>3. c.mode # "" /\ SlicePanics(Clamped(RangeOf(c.mode, c.n, Len(d)), Len(d)))
  BY DEF KeepDropPanics
<1>4. c.mode \in {"kh", "kl", "dh", "dl"}
  BY <1>1, <1>3 DEF Modes
<1>5. c.mode \in {"kh", "kl"} /\ c.n > Len(d)
  BY <1>1, <1>2, <1>3, <1>4, NothingToSlice
<1> QED BY <1>1, <1>2, <1>5

\* Only a greedy term kills the server.
LEMMA PanicStep ==
  ASSUME input \in Drafts, ServerInv, PanicsGreedy, Next
  PROVE  PanicsGreedy'
<1>1. input' = input
  BY ServerStep
<1>2. CASE ~FinishTerm
  <2>1. phase' # "panic" \/ phase' = phase
    BY <1>2 DEF Next, ParseOperator, ParseTerm, ParseEnd, RollFlat, RollDie, Explode, Finish
  <2> QED BY <1>1, <2>1 DEF PanicsGreedy
<1>3. CASE FinishTerm
  <2> DEFINE c == Spec1.chunk
  <2>1. Written /\ Throwing /\ Rolling /\ ~c.flat /\ rolled = c.count
    BY <1>3 DEF ServerInv, Parsing, Rolled, FinishTerm, RollingDice
  <2>2. CASE KeepDropPanics(dice, c.mode, c.n)
    <3>1. Len(terms) + 1 \in DOMAIN specs /\ c = specs[Len(terms) + 1].chunk
      BY <2>1, Spec1Is
    <3>2. PICK i \in 1 .. pos - 1 : ~Operator(input[i]) /\ Cardinality(Places(input, i)) = Len(terms) + 1
      BY <2>1, <3>1 DEF Written
    <3>3. c = input[i] /\ ~Operator(c)
      <4>1. specs[Cardinality(Places(input, i))] = [sign |-> SignBefore(input, i), chunk |-> input[i]]
        BY <2>1, <3>2 DEF Written
      <4>2. c = [sign |-> SignBefore(input, i), chunk |-> input[i]].chunk
        BY <3>1, <3>2, <4>1
      <4> QED BY <3>2, <4>2
    <3>4. i \in Chunks(input)
      BY <2>1, <3>2, Tokens DEF Written, Chunks
    <3>5. IsDice(c) /\ c \in DiceChunk
      BY <2>1, <3>1, <3>3, SpecIs DEF IsDice
    <3>6. dice \in Seq(AnyDie) /\ c.count <= Len(dice)
      <4>1. dice \in Seq(AnyDie) /\ c.count = Cardinality(Thrown(dice))
        BY <2>1, DieIs DEF Throwing
      <4>2. Cardinality(Thrown(dice)) \in 0 .. Len(dice)
        BY <4>1, ThrownIs
      <4> QED BY <4>1, <4>2
    <3>7. Greedy(c)
      BY <2>2, <3>5, <3>6, WhoPanics DEF Greedy
    <3> QED BY <1>1, <3>3, <3>4, <3>7 DEF PanicsGreedy
  <2>3. CASE ~KeepDropPanics(dice, c.mode, c.n)
    <3>1. phase' = phase
      BY <1>3, <2>3 DEF FinishTerm
    <3> QED BY <1>1, <3>1 DEF PanicsGreedy
  <2> QED BY <2>2, <2>3
<1> QED BY <1>2, <1>3

\* RollDice is called anew.
LEMMA RollStart ==
  ASSUME NEW e \in Drafts, RollDice(e)
  PROVE  ServerInv' /\ PanicsGreedy'
<1>1. input' = e /\ Fresh' /\ phase' = "parse"
  BY DEF RollDice, Fresh
<1>2. ServerInv'
  BY <1>1, ServerStartNext
<1> QED BY <1>1, <1>2 DEF PanicsGreedy

LEMMA ServerRests ==
  ASSUME ServerInv, PanicsGreedy, UNCHANGED server
  PROVE  ServerInv' /\ PanicsGreedy'
<1>1. UNCHANGED vars /\ input' = input /\ phase' = phase
  BY DEF server, vars
<1> QED BY <1>1, ServerStays DEF PanicsGreedy

LEMMA RollInvStep ==
  ASSUME EditorTypeOK, RollInv, [EditorNext]_editorVars
  PROVE  RollInv'
<1>1. CASE Edits
  <2>1. PICK d \in Drafts, m \in RollModes : Show(d, m)
    BY <1>1, EditShows
  <2>2. UNCHANGED server /\ answer' # "atWork"
    BY <2>1 DEF Show
  <2> QED BY <2>2, ServerRests DEF RollInv, Sent
<1>2. CASE SuffixHint \/ RollRefused \/ Receive \/ ApplyPreset \/ SavePreset
  <2>1. UNCHANGED server /\ answer' # "atWork"
    BY <1>2 DEF SuffixHint, RollRefused, Receive, ApplyPreset, SavePreset, Show
  <2> QED BY <2>1, ServerRests DEF RollInv, Sent
<1>3. CASE DoRoll
  <2>1. Effective(draft, mode) \in Drafts /\ RollDice(Effective(draft, mode))
    BY <1>3, EffectiveDraft DEF DoRoll, EditorTypeOK
  <2> QED BY <1>3, <2>1, RollStart DEF DoRoll, RollDice, page, RollInv, Sent
<1>4. CASE RollStep
  <2>1. input' = input /\ ServerInv' /\ PanicsGreedy'
    BY <1>4, ServerStep, PanicStep DEF RollStep, RollInv, EditorTypeOK
  <2> QED BY <1>4, <2>1 DEF RollStep, page, RollInv, Sent
<1>5. CASE Return
  <2>1. RollDice(<<>>) /\ answer' # "atWork"
    BY <1>5 DEF Return
  <2> QED BY <2>1, RollStart, EmptyDraft DEF RollInv, Sent
<1>6. CASE UNCHANGED editorVars
  <2>1. UNCHANGED server /\ UNCHANGED <<draft, mode, answer, input>>
    BY <1>6 DEF editorVars, page, server, vars
  <2> QED BY <2>1, ServerRests DEF RollInv, Sent
<1> QED BY <1>1, <1>2, <1>3, <1>4, <1>5, <1>6, NextIs DEF Others

\* No expansion asks for more dice than it rolls: a greedy term of what is sent is
\* one of the draft, and then no mode is set.
LEMMA GreedyTyped ==
  ASSUME EditorTypeOK, Sent, answer = "atWork", NEW i \in Chunks(input), Greedy(input[i])
  PROVE  i \in Chunks(draft) /\ Greedy(draft[i]) /\ mode = ""
<1>1. draft \in Drafts /\ input = Effective(draft, mode) /\ ~ModeRefused(draft, mode)
  BY DEF EditorTypeOK, Sent
<1>2. CASE mode = ""
  BY <1>1, <1>2 DEF Effective
<1>3. CASE draft = <<>>
  BY <1>1, <1>3 DEF Effective, Chunks
<1>4. CASE mode # "" /\ draft # <<>>
  <2> DEFINE f == FirstDice(draft)
  <2>1. f # 0 /\ \A j \in DOMAIN draft : IsDice(draft[j]) => draft[j].mode = ""
    BY <1>1, <1>4 DEF ModeRefused
  <2>2. f \in DOMAIN draft /\ IsDice(draft[f])
    BY <1>1, <2>1, FirstDiceIs
  <2>3. input = [draft EXCEPT ![f] = WithExtraDie(draft[f], mode)]
    BY <1>1, <1>4 DEF Effective
  <2>4. draft[f] \in DiceChunk
    BY <1>1, <2>2, DraftIs, DiceIs
  <2> HIDE DEF f
  <2>5. i \in DOMAIN draft
    BY <2>3 DEF Chunks
  <2>6. CASE i = f
    <3>1. input[i] = WithExtraDie(draft[f], mode) /\ Asked(draft[f]) \in Nat
      BY <2>2, <2>3, <2>4, <2>6, MadeDice DEF DiceChunk, Asked
    <3>2. input[i].n = Asked(draft[f]) /\ input[i].count = Asked(draft[f]) + 1
      BY <2>4, <3>1 DEF WithExtraDie, DiceChunk
    <3>3. ~(input[i].n > input[i].count)
      BY <3>1, <3>2
    <3> QED BY <3>3 DEF Greedy
  <2>7. CASE i # f
    <3>1. input[i] = draft[i]
      BY <1>1, <2>3, <2>5, <2>7
    <3> QED BY <2>1, <2>5, <3>1 DEF Greedy
  <2> QED BY <2>6, <2>7
<1> QED BY <1>2, <1>3, <1>4

LEMMA RollInit == ASSUME EditorInit PROVE RollInv
<1>1. input = <<>> /\ Fresh /\ phase = "parse" /\ answer = "none"
  BY DEF EditorInit, Fresh
<1>2. ServerInv
  BY <1>1, EmptyDraft, ServerStart
<1> QED BY <1>1, <1>2 DEF RollInv, PanicsGreedy, Sent

\* Only a number of dice to keep that the user has typed himself, in normal mode,
\* kills the server, whatever the limits are: buttons, modes, templates and presets
\* alone never do (dropRange, applyRollMode).
THEOREM OnlyTypedPanics == EditorSpec => []PanicOnlyTyped
<1>1. EditorTypeOK /\ RollInv => PanicOnlyTyped
  <2> SUFFICES ASSUME EditorTypeOK, RollInv, answer = "atWork", phase = "panic"
               PROVE  \E i \in Chunks(draft) :
                        /\ IsDice(draft[i]) /\ draft[i].mode \in {"kh", "kl"}
                        /\ draft[i].n > draft[i].count /\ mode = ""
    BY DEF PanicOnlyTyped
  <2>1. PICK i \in Chunks(input) : Greedy(input[i])
    BY DEF RollInv, PanicsGreedy
  <2>2. i \in Chunks(draft) /\ Greedy(draft[i]) /\ mode = ""
    BY <2>1, GreedyTyped DEF RollInv
  <2> QED BY <2>2 DEF Greedy
<1>2. EditorTypeOK /\ RollInv /\ [EditorNext]_editorVars => RollInv'
  BY RollInvStep
<1> QED BY <1>1, <1>2, RollInit, PageInit, PageStep, PTL DEF EditorSpec

-----------------------------------------------------------------------------
(* What is stored, and what is shown.                                      *)

\* What is stored is valid, and so is what a stored preset puts in the draft.
Stored ==
  /\ preset # NoPreset => ValidExpression(preset.expr)
  /\ applied => ValidExpression(draft)

\* Beside the draft stands its preview, unless a hint or a refusal took its place.
Shown == shown \in {Preview(draft, mode), "hint", "refused"}

\* No number the draft or the preset holds is too large for an int.
Fitting == TypedFits => Fits(draft) /\ Fits(preset.expr)

LEMMA StoredStep ==
  ASSUME EditorTypeOK, Stored, Shown, Fitting, [EditorNext]_editorVars
  PROVE  Stored' /\ Shown' /\ Fitting'
<1>1. CASE Edits
  <2>1. PICK d \in Drafts, m \in RollModes :
               Show(d, m) /\ applied' = FALSE /\ (TypedFits /\ Fits(draft) => Fits(d))
    BY <1>1, EditShows
  <2> QED BY <2>1 DEF Show, Stored, Shown, Fitting
<1>2. CASE SuffixHint \/ RollRefused \/ Receive
  <2>1. /\ UNCHANGED <<draft, mode, preset, applied>>
        /\ shown' \in {shown, "hint", "refused"}
    <3>1. CASE SuffixHint
      BY <3>1 DEF SuffixHint
    <3>2. CASE RollRefused
      BY <3>2 DEF RollRefused
    <3>3. CASE Receive
      BY <3>3 DEF Receive
    <3> QED BY <1>2, <3>1, <3>2, <3>3
  <2> QED BY <2>1 DEF Stored, Shown, Fitting
<1>3. CASE ApplyPreset
  <2>1. Show(preset.expr, "") /\ preset # NoPreset
    BY <1>3 DEF ApplyPreset
  <2>2. /\ draft' = preset.expr /\ preset' = preset
        /\ shown' = Preview(draft', mode')
    BY <2>1 DEF Show
  <2> QED BY <2>1, <2>2 DEF Stored, Shown, Fitting
<1>4. CASE SavePreset
  <2>1. /\ UNCHANGED <<draft, mode, shown>> /\ applied' = FALSE
        /\ preset'.expr = Effective(draft, mode)
        /\ ValidExpression(Effective(draft, mode)) /\ ~ModeRefused(draft, mode)
    BY <1>4 DEF SavePreset
  <2>2. Fits(draft) => Fits(Effective(draft, mode))
    BY <2>1, FitsEffective DEF EditorTypeOK
  <2> QED BY <2>1, <2>2 DEF Stored, Shown, Fitting
<1>5. CASE DoRoll \/ RollStep \/ Return \/ UNCHANGED editorVars
  <2>1. UNCHANGED page
    BY <1>5 DEF DoRoll, RollStep, Return, editorVars
  <2> QED BY <2>1 DEF page, Stored, Shown, Fitting
<1> QED BY <1>1, <1>2, <1>3, <1>4, <1>5, NextIs DEF Others

LEMMA StoredInit == ASSUME EditorInit PROVE Stored /\ Shown /\ Fitting
<1>1. preset = NoPreset /\ applied = FALSE /\ draft = <<>>
  BY DEF EditorInit
<1>2. preset.expr = <<>>
  BY <1>1, Zenon DEF NoPreset
<1>3. Fits(<<>>)
  BY DEF Fits
<1>4. shown = Preview(draft, mode)
  BY DEF EditorInit
<1> QED BY <1>1, <1>2, <1>3, <1>4 DEF Stored, Shown, Fitting

PageInv == EditorTypeOK /\ PresetInv /\ RollInv /\ Stored /\ Shown /\ Fitting

LEMMA PageAlways == EditorSpec => []PageInv
<1>1. EditorInit => PageInv
  BY PageInit, RollInit, StoredInit DEF PageInv
<1>2. PageInv /\ [EditorNext]_editorVars => PageInv'
  BY PageStep, RollInvStep, StoredStep DEF PageInv
<1> QED BY <1>1, <1>2, PTL DEF EditorSpec

\* A preset that was stored is never refused for its grammar or for a number in it
\* (ValidateExpression, savePreset, applyPreset).
THEOREM StoredIsValid == EditorSpec => []PresetIsValid
<1>1. PageInv => PresetIsValid
  <2> SUFFICES ASSUME PageInv, answer = "atWork", applied, phase = "error"
               PROVE  DiceAsked > MaxTotalDice
    BY DEF PresetIsValid
  <2>1. input = draft
    BY DEF PageInv, RollInv, Sent, PresetInv, Effective
  <2>2. ValidExpression(input)
    BY <2>1 DEF PageInv, Stored
  <2> QED BY <2>2 DEF PageInv, RollInv, ServerInv, Parsing, Refusal
<1> QED BY <1>1, PageAlways, PTL

\* The two grammars say the same of what fits.
LEMMA GrammarsAgree ==
  ASSUME NEW e \in Drafts
  PROVE  /\ ValidExpression(e) /\ DiceIn(e) <= MaxTotalDice => Previewable(e)
         /\ Fits(e) /\ Previewable(e) => ValidExpression(e) /\ DiceIn(e) <= MaxTotalDice
<1>1. ASSUME NEW i \in Chunks(e) PROVE /\ Valid(e[i]) => Readable(e[i])
                                       /\ Fits(e) /\ Readable(e[i]) => Valid(e[i])
  <2>1. e[i] \in Token /\ ~Operator(e[i]) /\ i \in DOMAIN e
    BY DraftIs DEF Chunks
  <2>2. ~e[i].flat => IsDice(e[i])
    BY <2>1, ChunkIs
  <2> QED BY <2>1, <2>2 DEF Valid, Readable, Fits
<1> QED BY <1>1 DEF ValidExpression, Previewable

LEMMA DiceInIs ==
  ASSUME NEW e \in Drafts
  PROVE  DiceIn(e) = Counted(e, Len(e))
<1>1. DOMAIN e = 1 .. Len(e)
  BY DraftIs
<1> QED BY <1>1 DEF DiceIn, Counted, Total

\* What the preview takes is not refused, and what it does not take is not rolled,
\* for every limit, if no number of dice to keep is typed that an int cannot hold:
\* the page does not read that number (previewExpression, parseTerm).
THEOREM PreviewIsRight == TypedFits => (EditorSpec => []PreviewAgrees)
<1> SUFFICES ASSUME TypedFits PROVE EditorSpec => []PreviewAgrees
  OBVIOUS
<1>1. PageInv => PreviewAgrees
  <2> SUFFICES ASSUME PageInv, answer = "atWork"
               PROVE  /\ phase = "error" => shown # "ok"
                      /\ phase \in {"roll", "done", "panic"} => shown # "bad"
    BY DEF PreviewAgrees
  <2>1. input \in Drafts /\ draft \in Drafts /\ mode \in RollModes
    BY DEF PageInv, EditorTypeOK
  <2>2. input = Effective(draft, mode) /\ ~ModeRefused(draft, mode)
    BY DEF PageInv, RollInv, Sent
  <2>3. Fits(input)
    BY <2>1, <2>2, FitsEffective DEF PageInv, Fitting
  <2>4. Refusal /\ Counting
    BY DEF PageInv, RollInv, ServerInv, Parsing
  <2>5. pos = Len(input) + 1 => DiceAsked = DiceIn(input)
    <3>1. Len(input) \in Nat
      BY <2>1, DraftIs
    <3> QED BY <2>1, <2>4, <3>1, DiceInIs DEF Counting
  <2>6. ASSUME phase = "error" PROVE ~Previewable(input)
    <3>1. ~ValidExpression(input) \/ (DiceIn(input) = DiceAsked /\ DiceAsked > MaxTotalDice)
      BY <2>4, <2>5, <2>6 DEF Refusal
    <3>2. CASE ~ValidExpression(input)
      BY <2>1, <2>3, <3>2, GrammarsAgree
    <3>3. CASE DiceIn(input) = DiceAsked /\ DiceAsked > MaxTotalDice
      <4>1. DiceAsked \in Nat /\ MaxTotalDice \in Nat
        BY AskedNatural, DiceAssumption DEF PageInv, RollInv, ServerInv, Parsing
      <4>2. ~(DiceIn(input) <= MaxTotalDice)
        BY <3>3, <4>1
      <4> QED BY <2>1, <2>3, <4>2, GrammarsAgree
    <3> QED BY <3>1, <3>2, <3>3
  <2>7. ASSUME phase \in {"roll", "done", "panic"} PROVE Previewable(input)
    BY <2>1, <2>4, <2>5, <2>7, GrammarsAgree DEF Refusal
  <2>8. Preview(draft, mode) = IF Previewable(input) THEN "ok" ELSE "bad"
    BY <2>2 DEF Preview
  <2> QED BY <2>6, <2>7, <2>8 DEF PageInv, Shown
<1> QED BY <1>1, PageAlways, PTL

-----------------------------------------------------------------------------
(* What is rolled, beside the draft.                                       *)

\* What the page sends has the shape of the draft; only the first dice of it differ.
LEMMA ShapeKept ==
  ASSUME NEW d \in Drafts, NEW m \in RollModes, ~ModeRefused(d, m), d # <<>>
  PROVE  LET e == Effective(d, m)
             f == FirstDice(d)
         IN /\ e \in Drafts /\ Len(e) = Len(d)
            /\ \A i \in 1 .. Len(d) : Operator(e[i]) <=> Operator(d[i])
            /\ \A i \in 1 .. Len(d) : (m # "" /\ i = f) \/ e[i] = d[i]
            /\ \A i \in 1 .. Len(d) : m # "" /\ i = f => IsDice(d[i]) /\ e[i] = WithExtraDie(d[i], m)
<1> DEFINE e == Effective(d, m)
           f == FirstDice(d)
<1>1. e \in Drafts /\ d \in Seq(Token)
  BY EffectiveDraft, DraftIs
<1>2. CASE m = ""
  <2>1. e = d
    BY <1>2 DEF Effective
  <2> QED BY <1>1, <1>2, <2>1
<1>3. CASE m # ""
  <2> DEFINE t == WithExtraDie(d[f], m)
  <2>1. f \in DOMAIN d /\ IsDice(d[f])
    BY <1>3, FirstDiceIs DEF ModeRefused
  <2>2. e = [d EXCEPT ![f] = t]
    BY <1>3 DEF Effective
  <2>3. ~Operator(d[f])
    BY <2>1 DEF IsDice
  <2>4. ~Operator(t)
    <3>1. d[f] \in DiceChunk
      BY <1>1, <2>1, DiceIs
    <3>2. t \in DiceChunk
      BY <3>1, MadeDice
    <3> HIDE DEF t
    <3> QED BY <3>2 DEF DiceChunk, Operator, Operators
  <2>5. d = [i \in 1 .. Len(d) |-> d[i]] /\ DOMAIN d = 1 .. Len(d)
    BY <1>1
  <2> HIDE DEF e, f, t
  <2>6. Len(e) = Len(d) /\ \A i \in 1 .. Len(d) : e[i] = IF i = f THEN t ELSE d[i]
    BY <1>1, <2>1, <2>2, <2>5
  <2> QED BY <1>1, <1>3, <2>1, <2>3, <2>4, <2>5, <2>6 DEF e, f, t
<1> QED BY <1>2, <1>3

Kept(d) == {i \in DOMAIN d : d[i].kept}

\* What a term with advantage or disadvantage is promised.
Favoured(t, c, m) ==
  /\ Cardinality(Thrown(t.dice)) = Asked(c) + 1
  /\ Cardinality(Kept(t.dice)) = Asked(c)
  /\ \A i \in Kept(t.dice), j \in DOMAIN t.dice \ Kept(t.dice) :
       IF m = "adv" THEN t.dice[i].value >= t.dice[j].value ELSE t.dice[i].value <= t.dice[j].value

LEMMA FavouredIs ==
  ASSUME NEW t \in Result, NEW c \in DiceChunk, NEW m \in RollModes, NEW q, NEW b,
         q.chunk = WithExtraDie(c, m), Fulfils(t, q, b)
  PROVE  Favoured(t, c, m)
<1> DEFINE d == t.dice
           n == Asked(c)
           k == IF m = "adv" THEN "kh" ELSE "kl"
<1>1. n \in Nat /\ WithExtraDie(c, m) \in DiceChunk
  BY MadeDice, Zenon DEF RollModes
<1>2. ~q.chunk.flat /\ q.chunk.count = n + 1 /\ q.chunk.n = n /\ q.chunk.mode = k
  <2>1. WithExtraDie(c, m) = [c EXCEPT !.count = n + 1, !.n = n, !.mode = k]
    BY DEF WithExtraDie
  <2> HIDE DEF n, k
  <2> QED BY <1>1, <2>1 DEF DiceChunk
<1>3. d \in Seq(DieType) /\ d \in Seq(AnyDie) /\ Len(d) \in Nat
  BY ResultIs, DieIs
<1>4. Cardinality(Thrown(d)) = n + 1 /\ KeepsRight(d, k, n)
  BY <1>2 DEF Fulfils
<1>5. n + 1 <= Len(d)
  <2> HIDE DEF d, n
  <2>1. Cardinality(Thrown(d)) \in 0 .. Len(d)
    BY <1>3, ThrownIs
  <2> QED BY <1>1, <1>3, <1>4, <2>1
<1>6. KeptCount(k, n, Len(d)) = n
  <2>1. k \in {"kh", "kl", "dh", "dl"} /\ k \in {"kh", "kl"}
    OBVIOUS
  <2> HIDE DEF k, d, n
  <2>2. KeptCount(k, n, Len(d)) = IF n < Len(d) THEN n ELSE Len(d)
    BY <1>1, <1>3, <2>1, KeptIs
  <2> QED BY <1>1, <1>3, <1>5, <2>2
<1>7. Cardinality(Kept(d)) = n
  BY <1>4, <1>6 DEF KeepsRight, Kept
<1>8. ASSUME NEW i \in Kept(d), NEW j \in DOMAIN d \ Kept(d)
      PROVE  IF m = "adv" THEN d[i].value >= d[j].value ELSE d[i].value <= d[j].value
  <2>1. IF k \in {"kh", "dl"} THEN Before(d, j, i) ELSE Before(d, i, j)
    BY <1>4, <1>8 DEF KeepsRight, Kept
  <2>2. IF m = "adv" THEN Before(d, j, i) ELSE Before(d, i, j)
    BY <2>1
  <2>3. i \in DOMAIN d /\ j \in DOMAIN d
    BY DEF Kept
  <2> HIDE DEF d
  <2>4. d[i].value \in Nat /\ d[j].value \in Nat
    <3>1. d[i] \in AnyDie /\ d[j] \in AnyDie
      BY <1>3, <2>3
    <3> QED BY <3>1 DEF AnyDie
  <2> QED BY <2>2, <2>4 DEF Before
<1> QED BY <1>4, <1>7, <1>8 DEF Favoured

\* What any other term of dice is promised.
AsItIs(t, c) ==
  /\ Cardinality(Thrown(t.dice)) = c.count
  /\ c.mode = "" => Kept(t.dice) = DOMAIN t.dice

LEMMA AsItIsIs ==
  ASSUME NEW t \in Result, NEW c \in DiceChunk, NEW q, NEW b, q.chunk = c, Fulfils(t, q, b)
  PROVE  AsItIs(t, c)
<1> DEFINE d == t.dice
<1>1. ~c.flat
  BY DEF DiceChunk
<1>2. Cardinality(Thrown(d)) = c.count /\ KeepsRight(d, c.mode, c.n)
  BY <1>1 DEF Fulfils
<1>3. ASSUME c.mode = "" PROVE Kept(d) = DOMAIN d
  <2>1. KeptCount(c.mode, c.n, Len(d)) = Len(d)
    BY <1>3 DEF KeptCount
  <2>2. Cardinality(Kept(d)) = Len(d)
    BY <1>2, <2>1 DEF KeepsRight, Kept
  <2>3. d \in Seq(AnyDie)
    BY ResultIs, DieIs
  <2>4. IsFiniteSet(DOMAIN d) /\ Cardinality(DOMAIN d) = Len(d)
    BY <2>3, Indices
  <2>5. Kept(d) \in SUBSET DOMAIN d
    BY DEF Kept
  <2> QED BY <2>2, <2>4, <2>5, FS_Subset
<1> QED BY <1>2, <1>3 DEF AsItIs

\* A roll is the draft as its user reads it: one die more for the first dice of it
\* under advantage and disadvantage, of which the best or the worst count, and every
\* other term as it stands there (applyRollMode, doRoll).
THEOREM RolledAsDrafted == EditorSpec => []RollsAsDrafted
<1>1. PageInv => RollsAsDrafted
  <2> SUFFICES ASSUME PageInv, answer = "atWork", phase = "done"
               PROVE
    LET term(k) == terms[k].dice
        chunkAt(k) == CHOOSE i \in Chunks(draft) :
                        Cardinality({j \in Chunks(draft) : j <= i}) = k
        thrown(k) == {i \in DOMAIN term(k) : ~term(k)[i].explode}
        kept(k) == {i \in DOMAIN term(k) : term(k)[i].kept}
        favoured(k) == mode # "" /\ chunkAt(k) = FirstDice(draft)
    IN /\ Len(terms) = Cardinality(Chunks(draft))
       /\ \A k \in DOMAIN terms :
            LET chunk == draft[chunkAt(k)]
            IN CASE chunk.flat -> terms[k].value \in {chunk.value, -chunk.value}
                 [] favoured(k) ->
                      /\ Cardinality(thrown(k)) = Asked(chunk) + 1
                      /\ Cardinality(kept(k)) = Asked(chunk)
                      /\ \A i \in kept(k), j \in DOMAIN term(k) \ kept(k) :
                           IF mode = "adv"
                           THEN term(k)[i].value >= term(k)[j].value
                           ELSE term(k)[i].value <= term(k)[j].value
                 [] OTHER ->
                      /\ Cardinality(thrown(k)) = chunk.count
                      /\ chunk.mode = "" => kept(k) = DOMAIN term(k)
    BY DEF RollsAsDrafted
  <2> DEFINE n == Len(draft)
             upTo(i) == {j \in Chunks(draft) : j <= i}
             chunkAt(k) == CHOOSE i \in Chunks(draft) : Cardinality(upTo(i)) = k
             favoured(k) == mode # "" /\ chunkAt(k) = FirstDice(draft)
  <2>1. /\ draft \in Drafts /\ mode \in RollModes /\ input \in Drafts
        /\ input = Effective(draft, mode) /\ ~ModeRefused(draft, mode)
        /\ Written /\ Finished /\ pos = Len(input) + 1 /\ ValidExpression(input)
        /\ Len(terms) = Len(specs) /\ terms \in Seq(Result)
    BY DEF PageInv, EditorTypeOK, RollInv, Sent, ServerInv, Parsing, Refusal,
           Rolled, Decided, Throwing
  <2>2. draft # <<>>
    BY <2>1 DEF ValidExpression, Effective
  <2>3. /\ Len(input) = n
        /\ \A i \in 1 .. n : Operator(input[i]) <=> Operator(draft[i])
        /\ \A i \in 1 .. n : (mode # "" /\ i = FirstDice(draft)) \/ input[i] = draft[i]
        /\ \A i \in 1 .. n : mode # "" /\ i = FirstDice(draft) =>
                               IsDice(draft[i]) /\ input[i] = WithExtraDie(draft[i], mode)
    BY <2>1, <2>2, ShapeKept
  <2>4. n \in Nat /\ DOMAIN draft = 1 .. n /\ pos - 1 = n /\ \A i \in 1 .. n : draft[i] \in Token
    <3>1. n \in Nat /\ DOMAIN draft = 1 .. n /\ \A i \in 1 .. n : draft[i] \in Token
      BY <2>1, DraftIs
    <3> HIDE DEF n
    <3>2. pos = n + 1
      BY <2>1, <2>3, Zenon
    <3>3. pos - 1 = n
      BY <3>1, <3>2
    <3> QED BY <3>1, <3>3
  <2>5. Chunks(draft) = Places(input, n) /\ \A i \in Chunks(draft) : upTo(i) = Places(input, i)
    <3> HIDE DEF n
    <3>1. Chunks(draft) = Places(input, n)
      BY <2>3, <2>4 DEF Places, Chunks
    <3>2. ASSUME NEW i \in Chunks(draft) PROVE upTo(i) = Places(input, i)
      <4>1. i \in 1 .. n
        BY <2>4 DEF Chunks
      <4>2. \A j \in 1 .. i : j \in 1 .. n
        BY <2>4, <4>1
      <4> QED BY <2>4, <3>1, <4>1, <4>2 DEF Places
    <3> QED BY <3>1, <3>2
  <2>6. Len(terms) = Cardinality(Chunks(draft))
    BY <2>1, <2>4, <2>5 DEF Written
  <2>7. ASSUME NEW k \in DOMAIN terms
        PROVE  LET m == chunkAt(k)
                   c == draft[m]
               IN /\ c.flat => terms[k].value \in {c.value, -c.value}
                  /\ favoured(k) => ~c.flat /\ Favoured(terms[k], c, mode)
                  /\ ~c.flat /\ ~favoured(k) => AsItIs(terms[k], c)
    <3> DEFINE m == chunkAt(k)
               c == draft[m]
               q == specs[k]
    <3>1. k \in DOMAIN specs
      BY <2>1 DEF Written
    <3>2. PICK i \in 1 .. n : ~Operator(input[i]) /\ Cardinality(Places(input, i)) = k
      BY <2>1, <2>4, <3>1 DEF Written
    <3>3. i \in Chunks(draft) /\ Cardinality(upTo(i)) = k
      BY <2>3, <2>4, <2>5, <3>2 DEF Chunks
    <3>4. m \in Chunks(draft) /\ Cardinality(upTo(m)) = k
      <4> HIDE DEF upTo
      <4> QED BY <3>3
    <3> HIDE DEF m
    <3>5. m \in 1 .. n /\ ~Operator(input[m]) /\ ~Operator(draft[m]) /\ Cardinality(Places(input, m)) = k
      BY <2>3, <2>4, <2>5, <3>4 DEF Chunks
    <3>6. q.chunk = input[m]
      <4>1. q = [sign |-> SignBefore(input, m), chunk |-> input[m]]
        BY <2>1, <2>4, <3>5 DEF Written
      <4> QED BY <4>1
    <3>7. /\ c \in Token /\ ~Operator(c) /\ (IsDice(c) <=> ~c.flat) /\ (IsDice(c) => c \in DiceChunk)
          /\ terms[k] \in Result /\ Fulfils(terms[k], q, budget)
      BY <2>1, <2>4, <3>5, ChunkIs DEF Finished
    <3> HIDE DEF c, q
    <3>8. ASSUME mode # "", m = FirstDice(draft) PROVE ~c.flat /\ Favoured(terms[k], c, mode)
      <4>1. IsDice(c) /\ q.chunk = WithExtraDie(c, mode)
        BY <2>3, <3>5, <3>6, <3>8 DEF c
      <4> QED BY <2>1, <3>7, <4>1, FavouredIs
    <3>9. ASSUME ~(mode # "" /\ m = FirstDice(draft))
          PROVE  /\ c.flat => terms[k].value \in {c.value, -c.value}
                 /\ ~c.flat => AsItIs(terms[k], c)
      <4>1. q.chunk = c
        BY <2>3, <3>5, <3>6, <3>9 DEF c
      <4> QED BY <3>7, <4>1, AsItIsIs DEF Fulfils
    <3> QED BY <3>8, <3>9, Zenon DEF m, c
  <2> HIDE DEF chunkAt
  <2>8. ASSUME NEW k \in DOMAIN terms
        PROVE  LET t == terms[k]
                   c == draft[chunkAt(k)]
               IN CASE c.flat -> t.value \in {c.value, -c.value}
                    [] favoured(k) -> Favoured(t, c, mode)
                    [] OTHER -> AsItIs(t, c)
    BY <2>7, Zenon
  <2> QED BY <2>6, <2>8, Zenon DEF chunkAt, Favoured, AsItIs, Thrown, Kept
<1> QED BY <1>1, PageAlways, PTL
=============================================================================
