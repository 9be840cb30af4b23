-------------------------- MODULE ChannelMapsProofs --------------------------
(***************************************************************************)
(* ChannelMaps for any number of channels, any events and any windows: a   *)
(* tile draws what was recorded, MIDAS history is told the same, and the   *)
(* one scale cuts off few cells of either map.                             *)
(***************************************************************************)
EXTENDS ChannelMaps, FiniteSetTheorems, SequenceTheorems, TLAPS

-----------------------------------------------------------------------------
(* Least members. *)

LEMMA LeastOne ==
  ASSUME NEW S \in SUBSET Nat, S # {}
  PROVE  \E x \in S : \A y \in S : x <= y
<1>1. PICK x \in S : \A y \in S : <<y, x>> \notin OpToRel(<, Nat)
  BY NatLessThanWellFounded, WFMin, Zenon
<1>2. x \in Nat /\ \A y \in S : y \in Nat
  OBVIOUS
<1>3. \A y \in S : ~ (y < x)
  BY <1>1, <1>2, Zenon DEF OpToRel
<1> QED
  BY <1>2, <1>3

LEMMA SmallestSet ==
  ASSUME NEW C, C # {}, \A T \in C : IsFiniteSet(T)
  PROVE  \E T \in C : \A U \in C : Cardinality(T) <= Cardinality(U)
<1> DEFINE sizes == {Cardinality(T) : T \in C}
<1>1. sizes \in SUBSET Nat /\ sizes # {}
  BY FS_CardinalityType
<1>2. PICK n \in sizes : \A m \in sizes : n <= m
  BY <1>1, LeastOne
<1> QED
  BY <1>2

-----------------------------------------------------------------------------
(* Sums over finite sets. *)

Pick(S) == CHOOSE x \in S : TRUE

\* g is f summed over the subsets of S, an element at a time.
SumsUp(f, S, g) ==
  g = [T \in SUBSET S |-> IF T = {} THEN 0 ELSE f[Pick(T)] + g[T \ {Pick(T)}]]

LEMMA SumIsSummedUp ==
  ASSUME NEW f, NEW S, \E g : SumsUp(f, S, g)
  PROVE  \E g : SumsUp(f, S, g) /\ SumFunctionOnSet(f, S) = g[S]
<1> DEFINE h == CHOOSE g : SumsUp(f, S, g)
<1>1. SumsUp(f, S, h)
  OBVIOUS
<1>2. SumFunctionOnSet(f, S) = h[S]
  BY DEF SumFunctionOnSet, FoldFunctionOnSet, MapThenFoldSet, SumsUp, Pick
<1> QED
  BY <1>1, <1>2

\* h sums f over the subsets of S, whatever element is taken first.
IsSum(f, S, h) ==
  /\ h \in [SUBSET S -> Int] /\ h[{}] = 0
  /\ \A T \in SUBSET S : \A x \in T : h[T] = f[x] + h[T \ {x}]

LEMMA OneMore ==
  ASSUME NEW f, NEW U, NEW y, y \notin U, f[y] \in Int, \A x \in U : f[x] \in Int,
         NEW h, IsSum(f, U, h)
  PROVE  \E k : IsSum(f, U \union {y}, k)
<1> DEFINE S == U \union {y}
           k == [T \in SUBSET S |-> IF y \in T THEN f[y] + h[T \ {y}] ELSE h[T]]
<1>1. h \in [SUBSET U -> Int] /\ h[{}] = 0
  BY DEF IsSum
<1>2. \A T \in SUBSET S : T \ {y} \in SUBSET U /\ (y \notin T => T \in SUBSET U)
  OBVIOUS
<1>3. k \in [SUBSET S -> Int] /\ k[{}] = 0
  BY <1>1, <1>2
<1>4. ASSUME NEW T \in SUBSET S, NEW x \in T
      PROVE  k[T] = f[x] + k[T \ {x}]
  <2>1. T \ {x} \in SUBSET S
    OBVIOUS
  <2>2. CASE x = y
    BY <2>1, <2>2
  <2>3. CASE x # y /\ y \in T
    <3>1. (T \ {x}) \ {y} = (T \ {y}) \ {x}
      OBVIOUS
    <3>2. x \in T \ {y} /\ T \ {y} \in SUBSET U /\ (T \ {y}) \ {x} \in SUBSET U
      BY <1>2, <2>3
    <3>3. h[T \ {y}] = f[x] + h[(T \ {y}) \ {x}]
      BY <3>2 DEF IsSum
    <3>4. k[T] = f[y] + h[T \ {y}] /\ k[T \ {x}] = f[y] + h[(T \ {y}) \ {x}]
      BY <2>1, <2>3, <3>1
    <3>5. f[x] \in Int /\ h[(T \ {y}) \ {x}] \in Int
      BY <1>1, <3>2
    <3> QED
      BY <3>3, <3>4, <3>5
  <2>4. CASE y \notin T
    BY <1>2, <2>1, <2>4 DEF IsSum
  <2> QED
    BY <2>2, <2>3, <2>4
<1> HIDE DEF k
<1>5. IsSum(f, S, k)
  BY <1>3, <1>4 DEF IsSum
<1> QED
  BY <1>5

LEMMA SumExists ==
  ASSUME NEW f, NEW S, IsFiniteSet(S), \A x \in S : f[x] \in Int
  PROVE  \E h : IsSum(f, S, h)
<1> SUFFICES ASSUME ~ \E h : IsSum(f, S, h) PROVE FALSE
  OBVIOUS
<1> DEFINE C == {T \in SUBSET S : ~ \E h : IsSum(f, T, h)}
<1>1. PICK T \in C : \A U \in C : Cardinality(T) <= Cardinality(U)
  <2>1. C # {} /\ \A T \in C : IsFiniteSet(T)
    BY FS_Subset
  <2> QED
    BY <2>1, SmallestSet
<1>2. T # {}
  <2>1. IsSum(f, {}, [U \in SUBSET {} |-> 0])
    BY DEF IsSum
  <2> QED
    BY <2>1
<1>3. PICK y : y \in T
  BY <1>2
<1> DEFINE U == T \ {y}
<1>4. IsFiniteSet(T) /\ Cardinality(T) \in Nat
  BY FS_Subset, FS_CardinalityType
<1>5. Cardinality(U) = Cardinality(T) - 1
  BY <1>3, <1>4, FS_RemoveElement
<1>6. U \notin C
  BY <1>1, <1>4, <1>5
<1>7. PICK h : IsSum(f, U, h)
  BY <1>6
<1>8. U \union {y} = T /\ y \notin U /\ f[y] \in Int /\ \A x \in U : f[x] \in Int
  BY <1>3
<1>9. \E k : IsSum(f, U \union {y}, k)
  <2> HIDE DEF U
  <2> QED
    BY <1>7, <1>8, OneMore
<1> QED
  BY <1>8, <1>9

LEMMA SumIs ==
  ASSUME NEW f, NEW S, IsFiniteSet(S), NEW h, IsSum(f, S, h)
  PROVE  SumFunctionOnSet(f, S) = h[S]
<1>1. \A T \in SUBSET S : T # {} => Pick(T) \in T
  BY DEF Pick
<1>2. SumsUp(f, S, h)
  <2>1. h = [T \in SUBSET S |-> h[T]]
    BY DEF IsSum
  <2>2. \A T \in SUBSET S : h[T] = IF T = {} THEN 0 ELSE f[Pick(T)] + h[T \ {Pick(T)}]
    BY <1>1 DEF IsSum
  <2> QED
    BY <2>1, <2>2 DEF SumsUp
<1>3. PICK g : SumsUp(f, S, g) /\ SumFunctionOnSet(f, S) = g[S]
  BY <1>2, SumIsSummedUp
<1>4. \A T \in SUBSET S : g[T] = IF T = {} THEN 0 ELSE f[Pick(T)] + g[T \ {Pick(T)}]
  BY <1>3 DEF SumsUp
<1> DEFINE C == {T \in SUBSET S : g[T] # h[T]}
<1>5. CASE C # {}
  <2>1. PICK T \in C : \A U \in C : Cardinality(T) <= Cardinality(U)
    BY <1>5, FS_Subset, SmallestSet
  <2>2. T # {}
    BY <1>4 DEF IsSum
  <2>3. IsFiniteSet(T) /\ Cardinality(T) \in Nat
    BY FS_Subset, FS_CardinalityType
  <2>4. Cardinality(T \ {Pick(T)}) = Cardinality(T) - 1
    BY <1>1, <2>2, <2>3, FS_RemoveElement
  <2>5. T \ {Pick(T)} \notin C
    BY <2>1, <2>3, <2>4
  <2>6. g[T] = f[Pick(T)] + h[T \ {Pick(T)}]
    BY <1>4, <2>2, <2>5
  <2> QED
    BY <1>1, <2>2, <2>6 DEF IsSum
<1> QED
  BY <1>3, <1>5

\* A sum of whole numbers is one.
LEMMA SumType ==
  ASSUME NEW f, NEW S, IsFiniteSet(S), \A x \in S : f[x] \in Int
  PROVE  SumFunctionOnSet(f, S) \in Int
<1>1. PICK h : IsSum(f, S, h)
  BY SumExists
<1>2. h[S] \in Int
  BY <1>1 DEF IsSum
<1> QED
  BY <1>1, <1>2, SumIs

\* Two sets that correspond one to one have one sum.
LEMMA SumAcross ==
  ASSUME NEW f, NEW S, IsFiniteSet(S), NEW g, NEW T, \A y \in T : g[y] \in Int,
         NEW b \in Bijection(S, T), \A x \in S : f[x] = g[b[x]]
  PROVE  SumFunctionOnSet(f, S) = SumFunctionOnSet(g, T)
<1>1. /\ b \in [S -> T] /\ \A x, y \in S : b[x] = b[y] => x = y
      /\ \A y \in T : \E x \in S : b[x] = y
  BY DEF Bijection, Injection, Surjection, IsInjective
<1>2. IsFiniteSet(T)
  BY FS_Bijection DEF ExistsBijection
<1>3. PICK h : IsSum(g, T, h)
  BY <1>2, SumExists
<1> DEFINE img(U) == {b[x] : x \in U}
           k == [U \in SUBSET S |-> h[img(U)]]
<1>4. \A U \in SUBSET S : img(U) \in SUBSET T
  BY <1>1
<1>5. k \in [SUBSET S -> Int] /\ k[{}] = 0
  <2>1. img({}) = {}
    OBVIOUS
  <2> QED
    BY <1>3, <1>4, <2>1 DEF IsSum
<1>6. ASSUME NEW U \in SUBSET S, NEW x \in U
      PROVE  k[U] = f[x] + k[U \ {x}]
  <2>1. img(U \ {x}) = img(U) \ {b[x]} /\ b[x] \in img(U)
    BY <1>1
  <2>2. h[img(U)] = g[b[x]] + h[img(U) \ {b[x]}]
    BY <1>3, <1>4, <2>1 DEF IsSum
  <2> QED
    BY <2>1, <2>2
<1>7. IsSum(f, S, k)
  BY <1>5, <1>6 DEF IsSum
<1>8. img(S) = T
  BY <1>1
<1>9. k[S] = h[T]
  BY <1>8
<1> HIDE DEF k
<1>10. SumFunctionOnSet(f, S) = k[S]
  BY <1>7, SumIs
<1>11. SumFunctionOnSet(g, T) = h[T]
  BY <1>2, <1>3, SumIs
<1> QED
  BY <1>9, <1>10, <1>11
-----------------------------------------------------------------------------
(* Finite sets of numbers, and the quartiles of a map. *)

LEMMA NoMoreThan ==
  ASSUME NEW S, IsFiniteSet(S), NEW T \in SUBSET S
  PROVE  /\ IsFiniteSet(T) /\ Cardinality(T) \in Nat /\ Cardinality(S) \in Nat
         /\ Cardinality(T) <= Cardinality(S)
BY FS_Subset, FS_CardinalityType

LEMMA FewerThan ==
  ASSUME NEW S, IsFiniteSet(S), NEW T \in SUBSET S, NEW x \in S, x \notin T
  PROVE  Cardinality(T) < Cardinality(S)
<1>1. /\ IsFiniteSet(T) /\ Cardinality(T) <= Cardinality(S)
      /\ Cardinality(S) = Cardinality(T) => S = T
  BY FS_Subset
<1>2. Cardinality(T) \in Nat /\ Cardinality(S) \in Nat
  BY <1>1, FS_CardinalityType
<1> QED
  BY <1>1, <1>2

LEMMA FiniteTop ==
  ASSUME NEW T \in SUBSET Int, IsFiniteSet(T), T # {}
  PROVE  \E x \in T : \A y \in T : y <= x
<1> DEFINE above(x) == {t \in T : t > x}
<1>1. \A x \in T : IsFiniteSet(above(x))
  BY NoMoreThan
<1>2. PICK x \in T : \A y \in T : Cardinality(above(x)) <= Cardinality(above(y))
  <2> DEFINE C == {above(x) : x \in T}
  <2>1. C # {} /\ \A U \in C : IsFiniteSet(U)
    BY <1>1
  <2>2. PICK U \in C : \A V \in C : Cardinality(U) <= Cardinality(V)
    BY <2>1, SmallestSet
  <2> QED
    BY <2>2
<1>3. ASSUME NEW y \in T, y > x PROVE FALSE
  <2>1. above(y) \in SUBSET above(x) /\ y \in above(x) /\ y \notin above(y)
    <3>1. x \in Int /\ y \in Int /\ \A t \in T : t \in Int
      OBVIOUS
    <3>2. \A t \in T : t > y => t > x
      BY <1>3, <3>1
    <3>3. ~ (y > y)
      BY <3>1
    <3> QED
      BY <1>3, <3>2, <3>3
  <2> HIDE DEF above
  <2>2. Cardinality(above(y)) < Cardinality(above(x))
    BY <1>1, <2>1, FewerThan
  <2>3. Cardinality(above(y)) \in Nat /\ Cardinality(above(x)) \in Nat
    BY <1>1, FS_CardinalityType
  <2> QED
    BY <1>2, <2>2, <2>3
<1> QED
  BY <1>3

LEMMA FiniteBottom ==
  ASSUME NEW T \in SUBSET Int, IsFiniteSet(T), T # {}
  PROVE  \E x \in T : \A y \in T : x <= y
<1> DEFINE below(x) == {t \in T : t < x}
<1>1. \A x \in T : IsFiniteSet(below(x))
  BY NoMoreThan
<1>2. PICK x \in T : \A y \in T : Cardinality(below(x)) <= Cardinality(below(y))
  <2> DEFINE C == {below(x) : x \in T}
  <2>1. C # {} /\ \A U \in C : IsFiniteSet(U)
    BY <1>1
  <2>2. PICK U \in C : \A V \in C : Cardinality(U) <= Cardinality(V)
    BY <2>1, SmallestSet
  <2> QED
    BY <2>2
<1>3. ASSUME NEW y \in T, y < x PROVE FALSE
  <2>1. below(y) \in SUBSET below(x) /\ y \in below(x) /\ y \notin below(y)
    <3>1. x \in Int /\ y \in Int /\ \A t \in T : t \in Int
      OBVIOUS
    <3>2. \A t \in T : t < y => t < x
      BY <1>3, <3>1
    <3>3. ~ (y < y)
      BY <3>1
    <3> QED
      BY <1>3, <3>2, <3>3
  <2> HIDE DEF below
  <2>2. Cardinality(below(y)) < Cardinality(below(x))
    BY <1>1, <2>1, FewerThan
  <2>3. Cardinality(below(y)) \in Nat /\ Cardinality(below(x)) \in Nat
    BY <1>1, FS_CardinalityType
  <2> QED
    BY <1>2, <2>2, <2>3
<1> QED
  BY <1>3

LEMMA FiniteValues ==
  ASSUME NEW v, NEW D, IsFiniteSet(D)
  PROVE  IsFiniteSet({v[c] : c \in D})
<1> DEFINE values == {v[c] : c \in D}
           f == [c \in D |-> v[c]]
<1>1. f \in Surjection(D, values)
  BY DEF Surjection
<1> QED
  BY <1>1, FS_Surjection

\* A map that can be ranked: it has cells, and they have numbers.
Rankable(v) ==
  /\ IsFiniteSet(DOMAIN v) /\ DOMAIN v # {}
  /\ \A c \in DOMAIN v : v[c] \in Int

UpTo(v, x) == {c \in DOMAIN v : v[c] <= x}
Below(v, x) == {c \in DOMAIN v : v[c] < x}

\* The sorted list has a value at every index.
LEMMA ValueAtIndex ==
  ASSUME NEW v, Rankable(v), NEW i \in Nat, i < Cardinality(DOMAIN v)
  PROVE  /\ \E c \in DOMAIN v : AtIndex(v, i) = v[c]
         /\ Cardinality(Below(v, AtIndex(v, i))) <= i
         /\ Cardinality(UpTo(v, AtIndex(v, i))) > i
<1> DEFINE D == DOMAIN v
           far == {c \in D : Cardinality(UpTo(v, v[c])) > i}
           C == {UpTo(v, v[c]) : c \in far}
<1>1. \A c \in D : v[c] \in Int
  BY DEF Rankable
<1>2. IsFiniteSet(D) /\ D # {}
  BY DEF Rankable
<1>3. \A x : /\ IsFiniteSet(UpTo(v, x)) /\ IsFiniteSet(Below(v, x))
             /\ Cardinality(UpTo(v, x)) \in Nat /\ Cardinality(Below(v, x)) \in Nat
  BY <1>2, NoMoreThan DEF UpTo, Below
<1>4. C # {}
  <2> DEFINE all == {v[c] : c \in D}
  <2>1. all \in SUBSET Int /\ all # {} /\ IsFiniteSet(all)
    BY <1>1, <1>2, FiniteValues
  <2>2. PICK x \in all : \A y \in all : y <= x
    BY <2>1, FiniteTop
  <2>3. PICK c \in D : x = v[c]
    BY <2>2
  <2>4. UpTo(v, v[c]) = D
    BY <2>2, <2>3 DEF UpTo
  <2>5. c \in far
    BY <2>3, <2>4
  <2> QED
    BY <2>5
<1>5. PICK c \in far : \A d \in far : Cardinality(UpTo(v, v[c])) <= Cardinality(UpTo(v, v[d]))
  <2>1. \A T \in C : IsFiniteSet(T)
    BY <1>3
  <2>2. PICK T \in C : \A U \in C : Cardinality(T) <= Cardinality(U)
    BY <1>4, <2>1, SmallestSet
  <2> QED
    BY <2>2
<1>6. ASSUME Cardinality(Below(v, v[c])) > i PROVE FALSE
  <2> DEFINE W == {v[d] : d \in Below(v, v[c])}
  <2>1. Below(v, v[c]) # {}
    BY <1>6, FS_EmptySet
  <2>2. W \in SUBSET Int /\ W # {} /\ IsFiniteSet(W)
    BY <1>1, <1>3, <2>1, FiniteValues DEF Below
  <2>3. PICK y \in W : \A w \in W : w <= y
    BY <2>2, FiniteTop
  <2>4. PICK d \in Below(v, v[c]) : y = v[d]
    BY <2>3
  <2>5. d \in D /\ v[d] < v[c] /\ v[d] \in Int /\ v[c] \in Int
    BY <1>1, <2>4 DEF Below
  <2>6. UpTo(v, v[d]) = Below(v, v[c])
    <3>1. \A e \in D : v[e] <= v[d] => v[e] < v[c]
      BY <1>1, <2>5
    <3>2. \A e \in D : v[e] < v[c] => v[e] <= v[d]
      BY <2>3, <2>4 DEF Below
    <3> QED
      BY <3>1, <3>2 DEF UpTo, Below
  <2>7. d \in far
    BY <1>6, <2>5, <2>6
  <2>8. UpTo(v, v[d]) \in SUBSET UpTo(v, v[c]) /\ c \in UpTo(v, v[c]) /\ c \notin UpTo(v, v[d])
    BY <1>1, <2>5 DEF UpTo
  <2>9. Cardinality(UpTo(v, v[d])) < Cardinality(UpTo(v, v[c]))
    BY <1>3, <2>8, FewerThan
  <2> QED
    BY <1>3, <1>5, <2>7, <2>9
<1> DEFINE fits(x) == /\ Cardinality({e \in DOMAIN v : v[e] < x}) <= i
                      /\ Cardinality({e \in DOMAIN v : v[e] <= x}) > i
           values == {v[e] : e \in DOMAIN v}
<1>7. fits(v[c])
  <2>1. Cardinality(Below(v, v[c])) <= i
    BY <1>3, <1>6
  <2>2. Cardinality(UpTo(v, v[c])) > i
    BY <1>5
  <2> QED
    BY <2>1, <2>2 DEF Below, UpTo
<1>8. v[c] \in values
  OBVIOUS
<1>9. AtIndex(v, i) = CHOOSE x \in values : fits(x)
  BY DEF AtIndex
<1> HIDE DEF fits, values
<1>10. AtIndex(v, i) \in values /\ fits(AtIndex(v, i))
  BY <1>7, <1>8, <1>9
<1> QED
  BY <1>10 DEF fits, values, Below, UpTo

\* The upper quartile is not below the lower one, and no more than a quarter of
\* the cells lie above it.
LEMMA Quartiles ==
  ASSUME NEW v, Rankable(v)
  PROVE  /\ LowerQuartile(v) \in Int /\ UpperQuartile(v) \in Int
         /\ LowerQuartile(v) <= UpperQuartile(v)
         /\ 4 * Cardinality({c \in DOMAIN v : v[c] > UpperQuartile(v)}) <= Cardinality(DOMAIN v)
<1> DEFINE D == DOMAIN v
           n == Cardinality(D)
           i == (n + 1) \div 4
           j == (3 * n - 1) \div 4
           x == LowerQuartile(v)
           y == UpperQuartile(v)
           past == {c \in D : v[c] > y}
<1>1. IsFiniteSet(D) /\ \A c \in D : v[c] \in Int
  BY DEF Rankable
<1>2. n \in Nat /\ n > 0
  BY <1>1, FS_CardinalityType, FS_EmptySet DEF Rankable
<1>3. i \in Nat /\ j \in Nat /\ i <= j /\ i < n /\ j < n /\ 4 * j >= 3 * n - 4
  <2> HIDE DEF n
  <2> QED
    BY <1>2, SMT
<1>4. /\ \E c \in D : x = v[c]
      /\ Cardinality(Below(v, x)) <= i
      /\ Cardinality(UpTo(v, x)) > i
  BY <1>3, ValueAtIndex DEF LowerQuartile
<1>5. /\ \E c \in D : y = v[c]
      /\ Cardinality(Below(v, y)) <= j
      /\ Cardinality(UpTo(v, y)) > j
  BY <1>3, ValueAtIndex DEF UpperQuartile
<1> HIDE DEF i, j, x, y
<1>6. x \in Int /\ y \in Int
  BY <1>1, <1>4, <1>5
<1>7. /\ IsFiniteSet(UpTo(v, y)) /\ IsFiniteSet(Below(v, x)) /\ IsFiniteSet(past)
      /\ Cardinality(UpTo(v, y)) \in Nat /\ Cardinality(Below(v, x)) \in Nat
      /\ Cardinality(past) \in Nat
  BY <1>1, NoMoreThan DEF UpTo, Below
<1>8. x <= y
  <2> SUFFICES ASSUME x > y PROVE FALSE
    BY <1>6
  <2>1. UpTo(v, y) \in SUBSET Below(v, x)
    BY <1>1, <1>6 DEF UpTo, Below
  <2>2. Cardinality(UpTo(v, y)) <= Cardinality(Below(v, x))
    BY <1>7, <2>1, NoMoreThan
  <2> QED
    BY <1>3, <1>4, <1>5, <1>7, <2>2
<1>9. n = Cardinality(UpTo(v, y)) + Cardinality(past)
  <2>1. D = UpTo(v, y) \union past /\ UpTo(v, y) \intersect past = {}
    BY <1>1, <1>6 DEF UpTo
  <2>2. Cardinality(UpTo(v, y) \union past) =
          Cardinality(UpTo(v, y)) + Cardinality(past) - Cardinality(UpTo(v, y) \intersect past)
    BY <1>7, FS_Union
  <2>3. Cardinality(UpTo(v, y) \intersect past) = 0
    BY <2>1, FS_EmptySet
  <2> HIDE DEF past
  <2> QED
    BY <1>7, <2>1, <2>2, <2>3
<1>10. 4 * Cardinality(past) <= n
  <2> HIDE DEF n, past
  <2> QED
    BY <1>2, <1>3, <1>5, <1>7, <1>9
<1> QED
  BY <1>6, <1>8, <1>10 DEF x, y

\* A scale that ends nowhere below the upper quartile outlines few.
LEMMA FewPast ==
  ASSUME NEW v, Rankable(v), NEW twice,
         \A c \in DOMAIN v : 2 * v[c] > twice => v[c] > UpperQuartile(v)
  PROVE  FewOutlined(v, twice)
<1> DEFINE past == {c \in DOMAIN v : v[c] > UpperQuartile(v)}
<1>1. IsFiniteSet(past) /\ Cardinality(past) \in Nat
  BY NoMoreThan DEF Rankable
<1>2. Outlined(v, twice) \in SUBSET past
  BY DEF Outlined
<1>3. 4 * Cardinality(past) <= Cardinality(DOMAIN v)
  BY Quartiles
<1>4. Cardinality(DOMAIN v) \in Nat
  BY FS_CardinalityType DEF Rankable
<1> HIDE DEF past
<1>5. Cardinality(Outlined(v, twice)) <= Cardinality(past) /\ Cardinality(Outlined(v, twice)) \in Nat
  BY <1>1, <1>2, NoMoreThan
<1> QED
  BY <1>1, <1>3, <1>4, <1>5 DEF FewOutlined
-----------------------------------------------------------------------------
(* Whole units. *)

LEMMA MoreTimes ==
  ASSUME NEW x \in Int, NEW y \in Int, NEW z \in Int, x <= y, z >= 0
  PROVE  x * z <= y * z
  BY SMT

LEMMA MoreTimesStrictly ==
  ASSUME NEW x \in Int, NEW y \in Int, NEW z \in Int, x < y, z > 0
  PROVE  x * z < y * z
  BY SMT

\* A number, its whole units, and what is left of it.
LEMMA WholeUnits ==
  ASSUME NEW x \in Int, NEW unit \in Int, unit > 0
  PROVE  /\ x \div unit \in Int
         /\ unit * (x \div unit) <= x /\ x < unit * (x \div unit) + unit
         /\ x % unit \in Int /\ x % unit >= 0
         /\ x - (x % unit) = unit * (x \div unit)
<1>1. x \div unit \in Int /\ unit * (x \div unit) <= x /\ x < unit * (x \div unit) + unit
  BY SMT
<1>2. x % unit \in Int /\ x % unit >= 0
  BY SMT
<1>3. x - (x % unit) = unit * (x \div unit)
  BY SMT
<1> QED
  BY <1>1, <1>2, <1>3

\* Rounding is out by half a unit at most, and goes nowhere past a whole unit.
LEMMA RoundedIs ==
  ASSUME NEW x \in Int, NEW unit \in Nat \ {0}
  PROVE  /\ Rounded(x, unit) \in Int
         /\ 2 * Rounded(x, unit) <= 2 * x + unit
         /\ 2 * x <= 2 * Rounded(x, unit) + unit
         /\ \A m \in Int : x <= unit * m => Rounded(x, unit) <= unit * m
<1> DEFINE a == 2 * x + unit
           b == 2 * unit
           d == a \div b
<1>1. a \in Int /\ b \in Int /\ b > 0 /\ unit \in Int /\ unit > 0
  OBVIOUS
<1>2. d \in Int
  <2> HIDE DEF a, b
  <2> QED
    BY <1>1, WholeUnits
<1>3. b * d <= a /\ a < b * d + b
  <2> HIDE DEF a, b
  <2> QED
    BY <1>1, WholeUnits
<1>4. Rounded(x, unit) = unit * d
  BY DEF Rounded
<1> HIDE DEF d
<1>5. unit * d \in Int /\ b * d = 2 * (unit * d)
  BY <1>1, <1>2
<1>6. ASSUME NEW m \in Int, x <= unit * m, unit * d > unit * m
      PROVE  FALSE
  <2>1. unit * m \in Int
    BY <1>1
  <2>2. CASE d <= m
    <3>1. d * unit <= m * unit
      BY <1>1, <1>2, <2>2, MoreTimes
    <3>2. d * unit = unit * d /\ m * unit = unit * m
      BY <1>1, <1>2
    <3> QED
      BY <1>5, <1>6, <2>1, <3>1, <3>2
  <2>3. CASE d >= m + 1
    <3>1. (m + 1) * unit <= d * unit
      BY <1>1, <1>2, <2>3, MoreTimes
    <3>2. d * unit = unit * d /\ (m + 1) * unit = unit * m + unit
      BY <1>1, <1>2
    <3>3. unit * m + unit <= unit * d
      BY <3>1, <3>2
    <3> QED
      BY <1>1, <1>3, <1>5, <1>6, <2>1, <3>3
  <2> QED
    BY <1>2, <2>2, <2>3
<1>7. \A m \in Int : x <= unit * m => unit * d <= unit * m
  <2> SUFFICES ASSUME NEW m \in Int, x <= unit * m PROVE unit * d <= unit * m
    OBVIOUS
  <2> DEFINE p == unit * d
             r == unit * m
  <2>1. p \in Int /\ r \in Int
    BY <1>1, <1>5
  <2>2. ~ (p > r)
    BY <1>6, Zenon
  <2> HIDE DEF p, r
  <2>3. p <= r
    BY <2>1, <2>2
  <2> QED
    BY <2>3 DEF p, r
<1> DEFINE p == unit * d
<1>8. 2 * p <= 2 * x + unit /\ 2 * x <= 2 * p + unit
  <2> DEFINE r == b * d
  <2>1. p \in Int /\ r = 2 * p
    BY <1>5
  <2>2. r <= a /\ a < r + b
    BY <1>3
  <2> HIDE DEF p, r
  <2> QED
    BY <1>1, <2>1, <2>2
<1> QED
  BY <1>4, <1>5, <1>7, <1>8, Zenon

\* Sums of numbers that are each out by half a unit at most.
LEMMA SumClose ==
  ASSUME NEW f, NEW g, NEW S, IsFiniteSet(S), NEW unit \in Nat,
         \A x \in S : /\ f[x] \in Int /\ g[x] \in Int
                      /\ 2 * f[x] <= 2 * g[x] + unit /\ 2 * g[x] <= 2 * f[x] + unit
  PROVE  /\ 2 * SumFunctionOnSet(f, S) <= 2 * SumFunctionOnSet(g, S) + Cardinality(S) * unit
         /\ 2 * SumFunctionOnSet(g, S) <= 2 * SumFunctionOnSet(f, S) + Cardinality(S) * unit
<1>1. PICK h : IsSum(f, S, h)
  BY SumExists
<1>2. PICK k : IsSum(g, S, k)
  BY SumExists
<1> DEFINE close(T) == /\ 2 * h[T] <= 2 * k[T] + Cardinality(T) * unit
                       /\ 2 * k[T] <= 2 * h[T] + Cardinality(T) * unit
           C == {T \in SUBSET S : ~ close(T)}
<1>3. CASE C # {}
  <2>1. PICK T \in C : \A U \in C : Cardinality(T) <= Cardinality(U)
    BY <1>3, FS_Subset, SmallestSet
  <2>2. h[{}] = 0 /\ k[{}] = 0 /\ Cardinality({}) = 0
    BY <1>1, <1>2, FS_EmptySet DEF IsSum
  <2>3. T # {}
    <3>1. {} \notin C
      BY <2>2
    <3> QED
      BY <3>1
  <2>4. PICK x : x \in T
    BY <2>3
  <2> DEFINE U == T \ {x}
             n == Cardinality(U)
  <2>5. T \in SUBSET S /\ U \in SUBSET S /\ x \in S /\ ~ close(T)
    BY <2>4
  <2>6. IsFiniteSet(T) /\ Cardinality(T) \in Nat /\ IsFiniteSet(U) /\ n \in Nat
    BY <2>5, NoMoreThan
  <2>7. Cardinality(T) = n + 1
    <3>1. n = Cardinality(T) - 1
      BY <2>4, <2>6, FS_RemoveElement
    <3> HIDE DEF n
    <3> QED
      BY <2>6, <3>1
  <2>8. close(U)
    <3>1. ~ (Cardinality(T) <= Cardinality(U))
      <4> HIDE DEF C, U
      <4> QED
        BY <2>6, <2>7 DEF n
    <3>2. U \notin C
      <4> HIDE DEF C, U
      <4> QED
        BY <2>1, <3>1
    <3> QED
      BY <2>5, <3>2
  <2>9. h[T] = f[x] + h[U] /\ k[T] = g[x] + k[U]
    BY <1>1, <1>2, <2>4, <2>5 DEF IsSum
  <2>10. h[U] \in Int /\ k[U] \in Int
    BY <1>1, <1>2, <2>5 DEF IsSum
  <2>11. (n + 1) * unit = n * unit + unit /\ n * unit \in Int
    <3> HIDE DEF n
    <3> QED
      BY <2>6, SMT
  <2>12. /\ f[x] \in Int /\ g[x] \in Int
         /\ 2 * f[x] <= 2 * g[x] + unit /\ 2 * g[x] <= 2 * f[x] + unit
    BY <2>5
  <2>13. /\ 2 * h[U] <= 2 * k[U] + n * unit /\ 2 * k[U] <= 2 * h[U] + n * unit
    BY <2>8
  <2>14. /\ ~ (/\ 2 * h[T] <= 2 * k[T] + (n * unit + unit)
               /\ 2 * k[T] <= 2 * h[T] + (n * unit + unit))
    BY <2>5, <2>7, <2>11
  <2> DEFINE m == n * unit
  <2>15. m \in Int
    BY <2>11
  <2> HIDE DEF n, U, close, C, m
  <2> QED
    BY <2>9, <2>10, <2>12, <2>13, <2>14, <2>15 DEF m
<1>4. CASE C = {}
  <2>1. close(S)
    BY <1>4
  <2>2. SumFunctionOnSet(f, S) = h[S] /\ SumFunctionOnSet(g, S) = k[S]
    BY <1>1, <1>2, SumIs
  <2> QED
    BY <2>1, <2>2
<1> QED
  BY <1>3, <1>4
-----------------------------------------------------------------------------
(* The state of the series. *)

Point == [at : Int, value : Int]
Entry == [at : Int, event : Events]

SeriesTypes ==
  /\ now \in Int /\ horizon \in Int /\ horizon >= 1
  /\ points \in [Channels -> Seq(Point)]
  /\ log \in Seq(Entry)

\* What eviction takes from a queue, and what it leaves.
LEMMA EvictIs ==
  ASSUME NEW q \in Seq(Point), NEW cutoff \in Int
  PROVE  \E j \in 1 .. Len(q) + 1 :
           /\ \A k \in 1 .. Len(q) : k < j => q[k].at < cutoff
           /\ j <= Len(q) => q[j].at >= cutoff
           /\ Evict(q, cutoff) \in Seq(Point)
           /\ Len(Evict(q, cutoff)) = Len(q) - j + 1
           /\ \A k \in 1 .. Len(q) - j + 1 : Evict(q, cutoff)[k] = q[j + k - 1]
<1> DEFINE young == {i \in DOMAIN q : q[i].at >= cutoff} \union {Len(q) + 1}
           j == Min(young)
<1>1. DOMAIN q = 1 .. Len(q) /\ Len(q) \in Nat /\ \A k \in 1 .. Len(q) : q[k] \in Point
  BY LenProperties, ElementOfSeq
<1>2. young \in SUBSET Nat /\ young # {} /\ Len(q) + 1 \in young
  BY <1>1
<1>3. j \in young /\ \A i \in young : j <= i
  <2>1. PICK x \in young : \A y \in young : x <= y
    BY <1>2, LeastOne
  <2> HIDE DEF young
  <2> QED
    BY <2>1 DEF Min
<1>4. j \in 1 .. Len(q) + 1
  BY <1>1, <1>2, <1>3
<1>5. \A k \in 1 .. Len(q) : k < j => q[k].at < cutoff
  <2> SUFFICES ASSUME NEW k \in 1 .. Len(q), k < j, ~ (q[k].at < cutoff) PROVE FALSE
    OBVIOUS
  <2>1. q[k].at \in Int
    BY <1>1 DEF Point
  <2>2. k \in young
    BY <1>1, <2>1
  <2> HIDE DEF j, young
  <2> QED
    BY <1>3, <1>4, <2>2
<1>6. j <= Len(q) => q[j].at >= cutoff
  <2> SUFFICES ASSUME j <= Len(q) PROVE q[j].at >= cutoff
    OBVIOUS
  <2>1. j # Len(q) + 1
    <3> HIDE DEF j
    <3> QED
      BY <1>1, <1>4
  <2>2. j \in {i \in DOMAIN q : q[i].at >= cutoff}
    BY <1>3, <2>1
  <2> HIDE DEF j
  <2> QED
    BY <2>2
<1>7. Evict(q, cutoff) = SubSeq(q, j, Len(q))
  BY DEF Evict
<1> HIDE DEF j
<1>8. \A i \in j .. Len(q) : q[i] \in Point
  BY <1>1, <1>4
<1>9. /\ SubSeq(q, j, Len(q)) \in Seq(Point)
      /\ Len(SubSeq(q, j, Len(q))) = IF j <= Len(q) THEN Len(q) - j + 1 ELSE 0
      /\ \A k \in 1 .. Len(q) - j + 1 : SubSeq(q, j, Len(q))[k] = q[j + k - 1]
  BY <1>1, <1>4, <1>8, SubSeqProperties
<1> QED
  BY <1>1, <1>4, <1>5, <1>6, <1>7, <1>9

LEMMA EvictedType ==
  ASSUME SeriesTypes
  PROVE  Evicted \in [Channels -> Seq(Point)]
<1> SUFFICES ASSUME NEW ch \in Channels
             PROVE  Evict(points[ch], now - horizon) \in Seq(Point)
  BY DEF Evicted
<1>1. points[ch] \in Seq(Point) /\ now - horizon \in Int
  BY DEF SeriesTypes
<1> QED
  BY <1>1, EvictIs

LEMMA AddType ==
  ASSUME SeriesTypes, NEW event \in Events, Add(event)
  PROVE  SeriesTypes'
<1>1. log' = Append(log, [at |-> now, event |-> event]) /\ now' = now /\ horizon' = horizon
  BY DEF Add
<1>2. log' \in Seq(Entry)
  <2>1. [at |-> now, event |-> event] \in Entry
    BY DEF SeriesTypes, Entry
  <2> QED
    BY <1>1, <2>1, AppendProperties DEF SeriesTypes
<1>3. ASSUME NEW ch \in Channels
      PROVE  /\ points[ch] \in Seq(Point)
             /\ ch \in DOMAIN event =>
                  Evict(Append(points[ch], [at |-> now, value |-> event[ch]]), now - horizon)
                    \in Seq(Point)
  <2>1. points[ch] \in Seq(Point) /\ now \in Int /\ now - horizon \in Int
    BY DEF SeriesTypes
  <2>2. ch \in DOMAIN event => [at |-> now, value |-> event[ch]] \in Point
    BY <2>1, SeriesAssumption DEF Point
  <2>3. ch \in DOMAIN event =>
          Append(points[ch], [at |-> now, value |-> event[ch]]) \in Seq(Point)
    BY <2>1, <2>2, AppendProperties
  <2> QED
    BY <2>1, <2>3, EvictIs
<1>4. points' \in [Channels -> Seq(Point)]
  BY <1>3 DEF Add
<1> QED
  BY <1>1, <1>2, <1>4 DEF SeriesTypes

LEMMA FlooredType == \A h \in Horizons : Floored(h) \in Int /\ Floored(h) >= 1
BY SeriesAssumption DEF Floored

LEMMA NoPointsType == NoPoints \in [Channels -> Seq(Point)]
BY EmptySeq DEF NoPoints

LEMMA SeriesNextType ==
  ASSUME SeriesTypes, SeriesNext \/ UNCHANGED series
  PROVE  SeriesTypes'
<1>1. CASE \E event \in Events : Add(event)
  BY <1>1, AddType
<1>2. CASE ReadSeries
  BY <1>2, EvictedType DEF ReadSeries, SeriesTypes
<1>3. CASE Rebuild
  <2>1. horizon' \in Int /\ horizon' >= 1 /\ now' = now
    BY <1>3, FlooredType DEF Rebuild
  <2>2. points' \in [Channels -> Seq(Point)] /\ log' \in Seq(Entry)
    BY <1>3, NoPointsType, EmptySeq DEF Rebuild
  <2> QED
    BY <2>1, <2>2 DEF SeriesTypes
<1>4. CASE TimePasses
  BY <1>4, SeriesAssumption DEF TimePasses, SeriesTypes
<1>5. CASE ClockSetBack
  BY <1>5, SeriesAssumption DEF ClockSetBack, SeriesTypes
<1>6. CASE UNCHANGED series
  BY <1>6 DEF series, SeriesTypes
<1> QED
  BY <1>1, <1>2, <1>3, <1>4, <1>5, <1>6 DEF SeriesNext

LEMMA NextIsSeries == [Next]_vars => /\ SeriesNext \/ UNCHANGED series
                                     /\ UNCHANGED <<wantLong, wantShort>>
BY DEF Next, vars, tile, Draw, SeriesNext

WindowTypes == wantLong \in Int /\ wantShort \in Int

TypeInv == SeriesTypes /\ WindowTypes

LEMMA InitType == Init => TypeInv
<1> SUFFICES ASSUME Init PROVE TypeInv
  OBVIOUS
<1>1. now \in Int /\ horizon \in Int /\ horizon >= 1
  BY FlooredType DEF Init, SeriesInit
<1>2. points \in [Channels -> Seq(Point)] /\ log \in Seq(Entry)
  BY NoPointsType, EmptySeq DEF Init, SeriesInit
<1>3. wantLong \in Int /\ wantShort \in Int
  BY WindowsAssumption DEF Init, PositiveOr
<1> QED
  BY <1>1, <1>2, <1>3 DEF TypeInv, SeriesTypes, WindowTypes

LEMMA NextType == TypeInv /\ [Next]_vars => TypeInv'
BY NextIsSeries, SeriesNextType DEF TypeInv, WindowTypes

LEMMA TypeHolds == Spec => []TypeInv
BY InitType, NextType, PTL DEF Spec
-----------------------------------------------------------------------------
(* One scale for both maps. *)

\* A reply is the queue that was cut, rounded.
LEMMA ReplyIs ==
  ASSUME SeriesTypes, NEW ch \in Channels
  PROVE  LET q == Evicted[ch]
             r == Reply[ch]
         IN  /\ q \in Seq(Point) /\ Len(q) \in Nat /\ DOMAIN q = 1 .. Len(q) /\ DOMAIN r = DOMAIN q
             /\ \A k \in DOMAIN q :
                  /\ q[k].at \in Int /\ q[k].value \in Int /\ Age(q[k].at) \in Int
                  /\ r[k].age \in Int /\ r[k].age = Rounded(Age(q[k].at), AgeUnit)
                  /\ r[k].value \in Int /\ r[k].value = Rounded(q[k].value, ValueUnit)
<1> DEFINE q == Evicted[ch]
           r == Reply[ch]
<1>1. q \in Seq(Point) /\ r = Told(q) /\ now \in Int
  BY EvictedType DEF Reply, SeriesTypes
<1> HIDE DEF q, r
<1>2. DOMAIN q = 1 .. Len(q) /\ Len(q) \in Nat /\ \A k \in 1 .. Len(q) : q[k] \in Point
  BY <1>1, LenProperties, ElementOfSeq
<1>3. \A k \in DOMAIN q : q[k].at \in Int /\ q[k].value \in Int /\ Age(q[k].at) \in Int
  BY <1>1, <1>2 DEF Point, Age
<1>4. \A k \in DOMAIN q : /\ r[k].age = Rounded(Age(q[k].at), AgeUnit)
                          /\ r[k].value = Rounded(q[k].value, ValueUnit)
  BY <1>1 DEF Told
<1>5. \A k \in DOMAIN q : r[k].age \in Int /\ r[k].value \in Int
  BY <1>3, <1>4, RoundedIs, SeriesAssumption
<1>6. DOMAIN r = DOMAIN q
  BY <1>1 DEF Told
<1> QED
  BY <1>1, <1>2, <1>3, <1>4, <1>5, <1>6 DEF q, r

\* Any part of a reply can be counted and summed up.
LEMMA PartType ==
  ASSUME SeriesTypes, NEW ch \in Channels, NEW W \in SUBSET (DOMAIN Evicted[ch])
  PROVE  /\ IsFiniteSet(W) /\ Cardinality(W) \in Nat /\ (W # {} => Cardinality(W) > 0)
         /\ Total(Evicted[ch], W) \in Int /\ Total(Reply[ch], W) \in Int
<1> DEFINE q == Evicted[ch]
           r == Reply[ch]
<1>1. /\ DOMAIN q = 1 .. Len(q) /\ Len(q) \in Nat /\ DOMAIN r = DOMAIN q
      /\ \A k \in DOMAIN q : q[k].value \in Int /\ r[k].value \in Int
  BY ReplyIs
<1>2. W \in SUBSET (DOMAIN q)
  OBVIOUS
<1> HIDE DEF q, r
<1>3. IsFiniteSet(W) /\ Cardinality(W) \in Nat
  <2>1. IsFiniteSet(DOMAIN q)
    BY <1>1, FS_Interval
  <2> QED
    BY <1>2, <2>1, NoMoreThan
<1>4. W # {} => Cardinality(W) > 0
  BY <1>3, FS_EmptySet
<1> DEFINE f == [k \in DOMAIN q |-> q[k].value]
           g == [k \in DOMAIN r |-> r[k].value]
<1>5. \A k \in W : f[k] \in Int /\ g[k] \in Int
  BY <1>1, <1>2
<1> HIDE DEF f, g
<1>6. SumFunctionOnSet(f, W) \in Int /\ SumFunctionOnSet(g, W) \in Int
  BY <1>3, <1>5, SumType
<1> QED
  BY <1>3, <1>4, <1>6 DEF Total, f, g, q, r

LEMMA WithinType ==
  ASSUME SeriesTypes, NEW ch \in Channels, NEW window
  PROVE  LET W == Within(Reply[ch], window) IN
         /\ W \in SUBSET (DOMAIN Evicted[ch])
         /\ Cardinality(W) \in Nat /\ (W # {} => Cardinality(W) > 0)
         /\ Total(Reply[ch], W) \in Int
<1>1. Within(Reply[ch], window) \in SUBSET (DOMAIN Evicted[ch])
  BY ReplyIs DEF Within
<1> QED
  BY <1>1, PartType

LEMMA Average ==
  ASSUME NEW sum \in Int, NEW n \in Nat, n > 0
  PROVE  (Unit * sum) \div n \in Int
<1>1. Unit * sum \in Int
  BY ScaleAssumption
<1> DEFINE p == Unit * sum
<1> HIDE DEF p
<1>2. p \in Int => p \div n \in Int
  OBVIOUS
<1> QED
  BY <1>1, <1>2 DEF p

\* The maps that are drawn have a number in each of finitely many cells.
LEMMA MapsAreRankable ==
  ASSUME SeriesTypes, DOMAIN Reduced \intersect cells # {}
  PROVE  /\ Rankable(Avg(Reduced))
         /\ DOMAIN Now(Reduced) # {} => Rankable(Now(Reduced))
         /\ IsFiniteSet(DOMAIN Now(Reduced)) /\ \A c \in DOMAIN Now(Reduced) : Now(Reduced)[c] \in Int
<1> DEFINE by == Reduced
           D == DOMAIN by \intersect cells
           E == {c \in D : by[c].nRecent > 0}
<1>1. \A ch \in DOMAIN by : ch \in Channels /\ Within(Reply[ch], LongS) # {}
  BY DEF Reduced
<1>2. ASSUME NEW ch \in DOMAIN by
      PROVE  /\ by[ch].n \in Nat /\ by[ch].n > 0 /\ by[ch].sum \in Int
             /\ by[ch].nRecent \in Nat /\ by[ch].sumRecent \in Int
  <2>1. ch \in Channels /\ Within(Reply[ch], LongS) # {}
    BY <1>1
  <2>2. /\ by[ch].n = Cardinality(Within(Reply[ch], LongS))
        /\ by[ch].sum = Total(Reply[ch], Within(Reply[ch], LongS))
        /\ by[ch].nRecent = Cardinality(Within(Reply[ch], ShortS))
        /\ by[ch].sumRecent = Total(Reply[ch], Within(Reply[ch], ShortS))
    BY DEF Reduced
  <2> QED
    BY <2>1, <2>2, WithinType
<1>3. IsFiniteSet(D) /\ IsFiniteSet(E)
  <2>1. IsFiniteSet(Channels)
    BY SeriesAssumption, FS_Interval DEF Channels
  <2>2. D \in SUBSET Channels /\ E \in SUBSET Channels
    BY <1>1
  <2> QED
    BY <2>1, <2>2, NoMoreThan
<1> HIDE DEF by
<1>4. \A ch \in D : (Unit * by[ch].sum) \div by[ch].n \in Int
  BY <1>2, Average
<1>5. \A ch \in E : (Unit * by[ch].sumRecent) \div by[ch].nRecent \in Int
  BY <1>2, Average
<1>6. DOMAIN Avg(by) = D /\ \A ch \in D : Avg(by)[ch] \in Int
  BY <1>4 DEF Avg
<1>7. DOMAIN Now(by) = E /\ \A ch \in E : Now(by)[ch] \in Int
  BY <1>5 DEF Now
<1>8. D # {}
  BY DEF by
<1> HIDE DEF D, E
<1>9. /\ Rankable(Avg(by)) /\ (DOMAIN Now(by) # {} => Rankable(Now(by)))
      /\ IsFiniteSet(DOMAIN Now(by)) /\ \A c \in DOMAIN Now(by) : Now(by)[c] \in Int
  BY <1>3, <1>6, <1>7, <1>8 DEF Rankable
<1> QED
  BY <1>9 DEF by

LEMMA TopIsMax ==
  ASSUME NEW T \in SUBSET Int, IsFiniteSet(T), T # {}
  PROVE  /\ Max(T) \in T /\ \A y \in T : y <= Max(T)
         /\ Min(T) \in T /\ \A y \in T : Min(T) <= y
<1>1. PICK x \in T : \A y \in T : y <= x
  BY FiniteTop
<1>2. \A y \in T : x >= y
  BY <1>1
<1>3. Max(T) \in T /\ \A y \in T : Max(T) >= y
  BY <1>2 DEF Max
<1>4. PICK z \in T : \A y \in T : z <= y
  BY FiniteBottom
<1>5. Min(T) \in T /\ \A y \in T : Min(T) <= y
  BY <1>4 DEF Min
<1> QED
  BY <1>3, <1>5

LEMMA FenceIs ==
  ASSUME NEW v, Rankable(v)
  PROVE  /\ TwiceFence(v) \in Int /\ UpperQuartile(v) \in Int
         /\ TwiceFence(v) >= 2 * UpperQuartile(v)
<1> DEFINE x == LowerQuartile(v)
           y == UpperQuartile(v)
<1>1. x \in Int /\ y \in Int /\ x <= y
  BY Quartiles
<1>2. TwiceFence(v) = 2 * y + 3 * (y - x)
  BY DEF TwiceFence
<1> HIDE DEF x, y
<1>3. TwiceFence(v) \in Int /\ TwiceFence(v) >= 2 * y
  BY <1>1, <1>2
<1> QED
  BY <1>1, <1>3 DEF y

\* What the two maps have to do with their scale.
LEMMA ScaleIs ==
  ASSUME NEW avg, NEW recent, Rankable(avg),
         IsFiniteSet(DOMAIN recent), \A c \in DOMAIN recent : recent[c] \in Int,
         NEW scale, scale = Scale(avg, recent)
  PROVE  /\ scale.low \in Int /\ scale.twiceHigh \in Int /\ scale.twiceHigh > 2 * scale.low
         /\ \A c \in DOMAIN avg : scale.low <= avg[c]
         /\ \A c \in DOMAIN avg :
              2 * avg[c] > scale.twiceHigh => avg[c] > UpperQuartile(avg)
         /\ \A c \in DOMAIN recent :
              2 * recent[c] > scale.twiceHigh => recent[c] > UpperQuartile(recent)
<1> DEFINE V == Values(avg, recent)
           low == Min(V)
           high == Max(V)
           fence == Fence(avg, recent)
<1>1. /\ \A c \in DOMAIN avg : avg[c] \in V /\ avg[c] \in Int
      /\ \A c \in DOMAIN recent : recent[c] \in V
      /\ V \in SUBSET Int /\ V # {} /\ IsFiniteSet(V)
  <2> DEFINE one == {avg[c] : c \in DOMAIN avg}
             other == {recent[c] : c \in DOMAIN recent}
  <2>1. V = one \union other
    BY DEF Values, Range
  <2>2. IsFiniteSet(one)
    BY FiniteValues DEF Rankable
  <2>3. IsFiniteSet(other)
    BY FiniteValues
  <2>4. IsFiniteSet(V)
    <3> HIDE DEF V, one, other
    <3> QED
      BY <2>1, <2>2, <2>3, FS_Union
  <2>5. /\ \A c \in DOMAIN avg : avg[c] \in Int
        /\ \A c \in DOMAIN recent : recent[c] \in Int
        /\ \E c \in DOMAIN avg : TRUE
    BY DEF Rankable
  <2> HIDE DEF V
  <2> QED
    BY <2>1, <2>4, <2>5
<1>2. /\ low \in Int /\ high \in Int /\ low <= high
      /\ \A x \in V : x \in Int /\ low <= x /\ x <= high
  BY <1>1, TopIsMax
<1>3. /\ TwiceFence(avg) \in Int /\ UpperQuartile(avg) \in Int
      /\ TwiceFence(avg) >= 2 * UpperQuartile(avg)
  BY FenceIs
<1>4. DOMAIN recent # {} =>
        /\ TwiceFence(recent) \in Int /\ UpperQuartile(recent) \in Int
        /\ TwiceFence(recent) >= 2 * UpperQuartile(recent)
  BY FenceIs DEF Rankable
<1> DEFINE fences == {TwiceFence(avg)}
                       \union IF DOMAIN recent = {} THEN {} ELSE {TwiceFence(recent)}
<1>5. fences \in SUBSET Int /\ fences # {} /\ IsFiniteSet(fences)
  BY <1>3, <1>4, FS_Singleton, FS_EmptySet, FS_Union
<1>6. /\ fence \in Int /\ fence >= TwiceFence(avg)
      /\ DOMAIN recent # {} => fence >= TwiceFence(recent)
  <2>1. Max(fences) \in fences /\ \A y \in fences : y <= Max(fences)
    BY <1>5, TopIsMax
  <2>2. fence = Max(fences)
    BY DEF Fence
  <2>3. TwiceFence(avg) \in fences /\ (DOMAIN recent # {} => TwiceFence(recent) \in fences)
    OBVIOUS
  <2>4. fence \in Int
    BY <1>5, <2>1, <2>2
  <2> HIDE DEF fences, fence
  <2> QED
    BY <1>3, <1>4, <2>1, <2>2, <2>3, <2>4
<1>7. /\ scale.low = low
      /\ scale.twiceHigh = IF 2 * low < fence /\ fence < 2 * high THEN fence
                           ELSE IF high = low \/ fence = 2 * low THEN 2 * low + 1
                           ELSE 2 * high
  BY DEF Scale
<1> HIDE DEF V, low, high, fence
<1>8. scale.low \in Int /\ scale.twiceHigh \in Int /\ scale.twiceHigh > 2 * scale.low
  BY <1>2, <1>6, <1>7
<1>9. ASSUME NEW x \in V, 2 * x > scale.twiceHigh
      PROVE  2 * x > fence
  BY <1>2, <1>6, <1>7, <1>9
<1>10. ASSUME NEW c \in DOMAIN avg, 2 * avg[c] > scale.twiceHigh
       PROVE  avg[c] > UpperQuartile(avg)
  <2>1. avg[c] \in Int /\ 2 * avg[c] > fence
    BY <1>1, <1>9, <1>10
  <2> QED
    BY <1>3, <1>6, <2>1
<1>11. ASSUME NEW c \in DOMAIN recent, 2 * recent[c] > scale.twiceHigh
       PROVE  recent[c] > UpperQuartile(recent)
  <2>1. recent[c] \in Int /\ 2 * recent[c] > fence
    BY <1>1, <1>9, <1>11
  <2> QED
    BY <1>4, <1>6, <2>1
<1>12. \A c \in DOMAIN avg : scale.low <= avg[c]
  BY <1>1, <1>2, <1>7
<1> QED
  BY <1>8, <1>10, <1>11, <1>12

\* A value has a bin below the over-flow exactly when it is below the end.
LEMMA BinOf ==
  ASSUME NEW a \in Int, a >= 0, NEW d \in Int, d > 0
  PROVE  LET i == (a * Bins) \div d
         IN i \in Int /\ i >= 0 /\ (i >= Bins <=> a >= d)
<1> DEFINE p == a * Bins
           i == p \div d
<1>1. Bins \in Int /\ Bins > 0
  BY ScaleAssumption
<1>2. p \in Int /\ p >= 0
  BY <1>1, MoreTimes
<1>3. i \in Int /\ i >= 0 /\ d * i <= p /\ p < d * i + d
  <2> HIDE DEF p
  <2> QED
    BY <1>2, SMT
<1>4. CASE a >= d
  <2>1. d * Bins <= p
    BY <1>1, <1>4, MoreTimes
  <2>2. ASSUME i < Bins PROVE FALSE
    <3>1. (i + 1) * d <= Bins * d
      BY <1>1, <1>3, <2>2, MoreTimes
    <3>2. (i + 1) * d = d * i + d /\ Bins * d = d * Bins
      BY <1>1, <1>3
    <3> HIDE DEF i, p
    <3> QED
      BY <1>1, <1>2, <1>3, <2>1, <3>1, <3>2
  <2> HIDE DEF i, p
  <2>3. i >= Bins
    BY <1>1, <1>3, <2>2
  <2> QED
    BY <1>3, <1>4, <2>3 DEF i, p
<1>5. CASE a < d
  <2>1. p < d * Bins
    BY <1>1, <1>5, MoreTimesStrictly
  <2>2. ASSUME i >= Bins PROVE FALSE
    <3>1. Bins * d <= i * d
      BY <1>1, <1>3, <2>2, MoreTimes
    <3>2. i * d = d * i /\ Bins * d = d * Bins
      BY <1>1, <1>3
    <3> HIDE DEF i, p
    <3> QED
      BY <1>1, <1>2, <1>3, <2>1, <3>1, <3>2
  <2> HIDE DEF i, p
  <2>3. ~ (i >= Bins) /\ ~ (a >= d)
    BY <1>5, <2>2
  <2> QED
    BY <1>3, <2>3 DEF i, p
<1> QED
  BY <1>4, <1>5

\* One scale serves both maps and the plot beside them, whatever their values.
THEOREM ScaleServes == Spec => []OneScaleServesAll
<1>1. TypeInv => OneScaleServesAll
  <2> SUFFICES ASSUME TypeInv, DOMAIN Reduced \intersect cells # {},
                      NEW avg, avg = Avg(Reduced), NEW recent, recent = Now(Reduced),
                      NEW scale, scale = Scale(avg, recent)
               PROVE  /\ FewOutlined(avg, scale.twiceHigh) /\ FewOutlined(recent, scale.twiceHigh)
                      /\ Bar(0, avg, scale) = 0
                      /\ Bar(Bins + 1, avg, scale) =
                           Cardinality({ch \in DOMAIN avg : 2 * avg[ch] >= scale.twiceHigh})
    BY DEF OneScaleServesAll, Drawn
  <2>1. /\ Rankable(avg) /\ (DOMAIN recent # {} => Rankable(recent))
        /\ IsFiniteSet(DOMAIN recent) /\ \A c \in DOMAIN recent : recent[c] \in Int
    BY MapsAreRankable DEF TypeInv
  <2>2. /\ scale.low \in Int /\ scale.twiceHigh \in Int /\ scale.twiceHigh > 2 * scale.low
        /\ \A c \in DOMAIN avg : scale.low <= avg[c]
        /\ \A c \in DOMAIN avg :
             2 * avg[c] > scale.twiceHigh => avg[c] > UpperQuartile(avg)
        /\ \A c \in DOMAIN recent :
             2 * recent[c] > scale.twiceHigh => recent[c] > UpperQuartile(recent)
    BY <2>1, ScaleIs
  <2>3. FewOutlined(avg, scale.twiceHigh)
    BY <2>1, <2>2, FewPast
  <2>4. FewOutlined(recent, scale.twiceHigh)
    <3>1. CASE DOMAIN recent = {}
      <4>1. Outlined(recent, scale.twiceHigh) = {}
        BY <3>1 DEF Outlined
      <4> QED
        BY <3>1, <4>1, FS_EmptySet DEF FewOutlined
    <3>2. CASE DOMAIN recent # {}
      BY <2>1, <2>2, <3>2, FewPast
    <3> QED
      BY <3>1, <3>2
  <2>5. ASSUME NEW ch \in DOMAIN avg
        PROVE  /\ Bin(avg[ch], scale) # 0
               /\ Bin(avg[ch], scale) = Bins + 1 <=> 2 * avg[ch] >= scale.twiceHigh
    <3> DEFINE a == 2 * (avg[ch] - scale.low)
               d == scale.twiceHigh - 2 * scale.low
               i == (a * Bins) \div d
    <3>1. avg[ch] \in Int
      BY <2>1 DEF Rankable
    <3>2. a \in Int /\ a >= 0 /\ d \in Int /\ d > 0 /\ (a >= d <=> 2 * avg[ch] >= scale.twiceHigh)
      BY <2>2, <3>1
    <3>3. Bin(avg[ch], scale) = IF i >= Bins THEN Bins + 1 ELSE i + 1
      BY <2>2, <3>1 DEF Bin
    <3> HIDE DEF a, d
    <3>4. i \in Int /\ i >= 0 /\ (i >= Bins <=> a >= d)
      BY <3>2, BinOf
    <3> HIDE DEF i
    <3> QED
      BY <3>2, <3>3, <3>4, ScaleAssumption
  <2>6. Bar(0, avg, scale) = 0
    <3>1. {ch \in DOMAIN avg : Bin(avg[ch], scale) = 0} = {}
      BY <2>5
    <3> QED
      BY <3>1, FS_EmptySet DEF Bar
  <2>7. Bar(Bins + 1, avg, scale) =
          Cardinality({ch \in DOMAIN avg : 2 * avg[ch] >= scale.twiceHigh})
    <3>1. {ch \in DOMAIN avg : Bin(avg[ch], scale) = Bins + 1} =
            {ch \in DOMAIN avg : 2 * avg[ch] >= scale.twiceHigh}
      BY <2>5
    <3> QED
      BY <3>1 DEF Bar
  <2> QED
    BY <2>3, <2>4, <2>6, <2>7
<1> QED
  BY <1>1, TypeHolds, PTL
-----------------------------------------------------------------------------
(* A queue is a part of the log. *)

HitsOf(lg, ch) == {i \in DOMAIN lg : ch \in DOMAIN lg[i].event}

\* f tells where the values of a channel's queue stand in the log: in order, each as
\* it was recorded, and none left out that came after the cutoff.
Finds(f, q, lg, ch, cutoff) ==
  /\ f \in [1 .. Len(q) -> HitsOf(lg, ch)]
  /\ \A j, k \in 1 .. Len(q) : j < k => f[j] < f[k]
  /\ \A k \in 1 .. Len(q) : q[k].at = lg[f[k]].at /\ q[k].value = lg[f[k]].event[ch]
  /\ \A i \in HitsOf(lg, ch) : lg[i].at >= cutoff => \E k \in 1 .. Len(q) : f[k] = i

LEMMA EmptyFinds ==
  ASSUME NEW ch, NEW cutoff
  PROVE  \E f : Finds(f, <<>>, <<>>, ch, cutoff)
<1> DEFINE f == [k \in 1 .. 0 |-> k]
<1>1. HitsOf(<<>>, ch) = {} /\ Len(<<>>) = 0
  BY DEF HitsOf
<1>2. 1 .. 0 = {}
  OBVIOUS
<1>3. Finds(f, <<>>, <<>>, ch, cutoff)
  BY <1>1, <1>2 DEF Finds
<1> QED
  BY <1>3

LEMMA LaterFinds ==
  ASSUME NEW q, NEW lg \in Seq(Entry), NEW ch, NEW early \in Int, NEW late \in Int, early <= late,
         NEW f, Finds(f, q, lg, ch, early)
  PROVE  Finds(f, q, lg, ch, late)
<1>1. \A i \in HitsOf(lg, ch) : lg[i].at \in Int
  <2>1. \A i \in DOMAIN lg : lg[i] \in Entry
    BY ElementOfSeq, LenProperties
  <2> QED
    BY <2>1 DEF HitsOf, Entry
<1>2. \A i \in HitsOf(lg, ch) : lg[i].at >= late => lg[i].at >= early
  BY <1>1
<1> QED
  BY <1>2 DEF Finds

LEMMA EvictFinds ==
  ASSUME NEW q \in Seq(Point), NEW lg \in Seq(Entry), NEW ch, NEW cutoff \in Int,
         NEW f, Finds(f, q, lg, ch, cutoff)
  PROVE  \E g : Finds(g, Evict(q, cutoff), lg, ch, cutoff)
<1> DEFINE p == Evict(q, cutoff)
<1>1. PICK j \in 1 .. Len(q) + 1 :
        /\ \A k \in 1 .. Len(q) : k < j => q[k].at < cutoff
        /\ p \in Seq(Point) /\ Len(p) = Len(q) - j + 1
        /\ \A k \in 1 .. Len(q) - j + 1 : p[k] = q[j + k - 1]
  BY EvictIs
<1>2. Len(q) \in Nat /\ \A k \in 1 .. Len(q) : q[k].at \in Int
  <2>1. Len(q) \in Nat /\ \A k \in 1 .. Len(q) : q[k] \in Point
    BY LenProperties, ElementOfSeq
  <2> QED
    BY <2>1 DEF Point
<1> HIDE DEF p
<1>3. \A k \in 1 .. Len(p) : j + k - 1 \in 1 .. Len(q) /\ p[k] = q[j + k - 1]
  BY <1>1, <1>2
<1> DEFINE g == [k \in 1 .. Len(p) |-> f[j + k - 1]]
<1>4. g \in [1 .. Len(p) -> HitsOf(lg, ch)]
  BY <1>3 DEF Finds
<1>5. \A k, l \in 1 .. Len(p) : k < l => g[k] < g[l]
  <2> SUFFICES ASSUME NEW k \in 1 .. Len(p), NEW l \in 1 .. Len(p), k < l
               PROVE  f[j + k - 1] < f[j + l - 1]
    OBVIOUS
  <2>1. j + k - 1 < j + l - 1
    BY <1>1, <1>2
  <2> QED
    BY <1>3, <2>1 DEF Finds
<1>6. \A k \in 1 .. Len(p) : p[k].at = lg[g[k]].at /\ p[k].value = lg[g[k]].event[ch]
  BY <1>3 DEF Finds
<1>7. ASSUME NEW i \in HitsOf(lg, ch), lg[i].at >= cutoff
      PROVE  \E k \in 1 .. Len(p) : g[k] = i
  <2>1. PICK k \in 1 .. Len(q) : f[k] = i
    BY <1>7 DEF Finds
  <2>2. q[k].at >= cutoff /\ q[k].at \in Int
    BY <1>2, <1>7, <2>1 DEF Finds
  <2>3. k >= j
    BY <1>1, <1>2, <2>2
  <2>4. k - j + 1 \in 1 .. Len(p) /\ j + (k - j + 1) - 1 = k
    BY <1>1, <1>2, <2>3
  <2>5. g[k - j + 1] = i
    BY <2>1, <2>4
  <2> QED
    BY <2>4, <2>5
<1> HIDE DEF g
<1>8. Finds(g, p, lg, ch, cutoff)
  BY <1>4, <1>5, <1>6, <1>7 DEF Finds
<1> QED
  BY <1>8 DEF p

LEMMA AppendFinds ==
  ASSUME NEW q \in Seq(Point), NEW lg \in Seq(Entry), NEW ch, NEW cutoff \in Int,
         NEW f, Finds(f, q, lg, ch, cutoff), NEW t \in Int, NEW event \in Events
  PROVE  LET longer == Append(lg, [at |-> t, event |-> event]) IN
         IF ch \in DOMAIN event
           THEN \E g : Finds(g, Append(q, [at |-> t, value |-> event[ch]]), longer, ch, cutoff)
           ELSE Finds(f, q, longer, ch, cutoff)
<1> DEFINE entry == [at |-> t, event |-> event]
           longer == Append(lg, entry)
           m == Len(lg)
           n == Len(q)
<1>1. /\ m \in Nat /\ Len(longer) = m + 1 /\ DOMAIN longer = 1 .. m + 1 /\ DOMAIN lg = 1 .. m
      /\ \A i \in 1 .. m : longer[i] = lg[i]
      /\ longer[m + 1] = entry
  <2>1. entry \in Entry
    BY DEF Entry
  <2>2. longer \in Seq(Entry)
    BY <2>1, AppendProperties
  <2> HIDE DEF entry
  <2> QED
    BY <2>1, <2>2, AppendProperties, LenProperties
<1>2. entry.at = t /\ entry.event = event
  OBVIOUS
<1> HIDE DEF longer, entry, m
<1>3. /\ HitsOf(longer, ch) = HitsOf(lg, ch) \union IF ch \in DOMAIN event THEN {m + 1} ELSE {}
      /\ HitsOf(lg, ch) \subseteq 1 .. m
      /\ \A i \in HitsOf(lg, ch) : longer[i] = lg[i]
  <2>1. 1 .. m + 1 = (1 .. m) \union {m + 1} /\ m + 1 \notin 1 .. m
    BY <1>1
  <2> QED
    BY <1>1, <1>2, <2>1 DEF HitsOf
<1>4. CASE ch \notin DOMAIN event
  <2>1. HitsOf(longer, ch) = HitsOf(lg, ch)
    BY <1>3, <1>4
  <2>2. Finds(f, q, longer, ch, cutoff)
    BY <1>3, <2>1 DEF Finds
  <2> QED
    BY <1>4, <2>2 DEF longer, entry
<1>5. CASE ch \in DOMAIN event
  <2> DEFINE new == [at |-> t, value |-> event[ch]]
             p == Append(q, new)
             g == [k \in 1 .. n + 1 |-> IF k = n + 1 THEN m + 1 ELSE f[k]]
  <2>1. n \in Nat /\ Len(p) = n + 1 /\ p[n + 1] = new /\ \A k \in 1 .. n : p[k] = q[k]
    <3>1. new \in Point
      BY <1>5, SeriesAssumption DEF Point
    <3> HIDE DEF new
    <3> QED
      BY <3>1, AppendProperties, LenProperties
  <2>2. new.at = t /\ new.value = event[ch]
    OBVIOUS
  <2> HIDE DEF p, new, n
  <2>3. f \in [1 .. n -> HitsOf(lg, ch)]
    BY DEF Finds, n
  <2>4. \A k \in 1 .. n + 1 : k # n + 1 => k \in 1 .. n
    BY <2>1
  <2>5. HitsOf(longer, ch) = HitsOf(lg, ch) \union {m + 1}
    BY <1>3, <1>5
  <2>6. g \in [1 .. n + 1 -> HitsOf(longer, ch)]
    BY <2>3, <2>4, <2>5
  <2>7. \A k, l \in 1 .. n + 1 : k < l => g[k] < g[l]
    <3> SUFFICES ASSUME NEW k \in 1 .. n + 1, NEW l \in 1 .. n + 1, k < l
                 PROVE  g[k] < g[l]
      OBVIOUS
    <3>1. k \in 1 .. n /\ g[k] = f[k]
      BY <2>1
    <3>2. CASE l = n + 1
      <4>1. f[k] \in 1 .. m
        BY <1>3, <2>3, <3>1
      <4> QED
        BY <1>1, <3>1, <3>2, <4>1
    <3>3. CASE l # n + 1
      <4>1. l \in 1 .. n /\ g[l] = f[l]
        BY <2>4, <3>3
      <4>2. f[k] < f[l]
        BY <3>1, <4>1 DEF Finds, n
      <4> QED
        BY <3>1, <4>1, <4>2
    <3> QED
      BY <3>2, <3>3
  <2>8. \A k \in 1 .. n + 1 : p[k].at = longer[g[k]].at /\ p[k].value = longer[g[k]].event[ch]
    <3> SUFFICES ASSUME NEW k \in 1 .. n + 1
                 PROVE  p[k].at = longer[g[k]].at /\ p[k].value = longer[g[k]].event[ch]
      OBVIOUS
    <3>1. CASE k = n + 1
      <4>1. g[k] = m + 1 /\ p[k] = new
        BY <2>1, <3>1
      <4> QED
        BY <1>1, <1>2, <2>2, <4>1
    <3>2. CASE k # n + 1
      <4>1. k \in 1 .. n /\ g[k] = f[k] /\ p[k] = q[k]
        BY <2>1, <2>4, <3>2
      <4>2. f[k] \in HitsOf(lg, ch)
        BY <2>3, <4>1
      <4>3. longer[f[k]] = lg[f[k]]
        BY <1>3, <4>2
      <4>4. q[k].at = lg[f[k]].at /\ q[k].value = lg[f[k]].event[ch]
        BY <4>1 DEF Finds, n
      <4> HIDE DEF g
      <4> QED
        BY <4>1, <4>3, <4>4
    <3> QED
      BY <3>1, <3>2
  <2>9. ASSUME NEW i \in HitsOf(longer, ch), longer[i].at >= cutoff
        PROVE  \E k \in 1 .. n + 1 : g[k] = i
    <3>1. n + 1 \in 1 .. n + 1 /\ g[n + 1] = m + 1
      BY <2>1
    <3>2. CASE i \in HitsOf(lg, ch)
      <4>1. PICK k \in 1 .. n : f[k] = i
        BY <1>3, <2>9, <3>2 DEF Finds, n
      <4>2. k \in 1 .. n + 1 /\ g[k] = i
        BY <2>1, <4>1
      <4> QED
        BY <4>2
    <3> QED
      BY <2>5, <3>1, <3>2
  <2> HIDE DEF g
  <2>10. Finds(g, p, longer, ch, cutoff)
    BY <2>1, <2>6, <2>7, <2>8, <2>9 DEF Finds
  <2> QED
    BY <1>5, <2>10 DEF p, new, longer, entry
<1> QED
  BY <1>4, <1>5
-----------------------------------------------------------------------------
(* The queues hold what was recorded. *)

\* As long as the clock was not set back, the log is in order of time.
Ordered ==
  /\ \A i \in DOMAIN log : log[i].at <= now
  /\ \A i, j \in DOMAIN log : i < j => log[i].at <= log[j].at

QueueInv ==
  ~ setBack =>
    /\ Ordered
    /\ \A ch \in Channels : \E f : Finds(f, points[ch], log, ch, now - horizon)

LEMMA OrderedAfterAdd ==
  ASSUME SeriesTypes, Ordered, NEW event \in Events, Add(event)
  PROVE  Ordered'
<1> DEFINE entry == [at |-> now, event |-> event]
           m == Len(log)
<1>1. log' = Append(log, entry) /\ now' = now
  BY DEF Add
<1>2. /\ m \in Nat /\ DOMAIN log' = 1 .. m + 1 /\ DOMAIN log = 1 .. m
      /\ \A i \in 1 .. m : log'[i] = log[i]
      /\ log'[m + 1] = entry
  <2>1. entry \in Entry /\ log \in Seq(Entry)
    BY DEF Entry, SeriesTypes
  <2> HIDE DEF entry
  <2>2. log' \in Seq(Entry) /\ Len(log') = m + 1
    BY <1>1, <2>1, AppendProperties
  <2> QED
    BY <1>1, <2>1, <2>2, AppendProperties, LenProperties
<1>3. entry.at = now /\ now \in Int
  BY DEF SeriesTypes
<1> HIDE DEF entry, m
<1>4. \A i \in 1 .. m + 1 : i # m + 1 => i \in 1 .. m
  BY <1>2
<1>5. \A i \in 1 .. m + 1 : log'[i].at <= now
  BY <1>2, <1>3, <1>4 DEF Ordered
<1>6. ASSUME NEW i \in 1 .. m + 1, NEW j \in 1 .. m + 1, i < j
      PROVE  log'[i].at <= log'[j].at
  <2>1. i \in 1 .. m
    BY <1>2, <1>6
  <2>2. CASE j = m + 1
    BY <1>2, <1>3, <2>1, <2>2 DEF Ordered
  <2>3. CASE j # m + 1
    BY <1>2, <1>4, <1>6, <2>1, <2>3 DEF Ordered
  <2> QED
    BY <2>2, <2>3
<1> QED
  BY <1>1, <1>2, <1>5, <1>6 DEF Ordered

LEMMA NextQueue ==
  ASSUME SeriesTypes, QueueInv, SeriesNext \/ UNCHANGED series
  PROVE  QueueInv'
<1> DEFINE cutoff == now - horizon
<1>1. /\ now \in Int /\ horizon \in Int /\ cutoff \in Int /\ log \in Seq(Entry)
      /\ \A ch \in Channels : points[ch] \in Seq(Point)
  BY DEF SeriesTypes
<1>2. ASSUME NEW event \in Events, Add(event), ~ setBack'
      PROVE  Ordered' /\ \A ch \in Channels : \E f : Finds(f, points[ch], log, ch, cutoff)'
  <2>1. /\ ~ setBack /\ now' = now /\ horizon' = horizon
        /\ log' = Append(log, [at |-> now, event |-> event])
    BY <1>2 DEF Add
  <2>2. Ordered'
    BY <1>2, <2>1, OrderedAfterAdd DEF QueueInv
  <2>3. ASSUME NEW ch \in Channels
        PROVE  \E f : Finds(f, points'[ch], log', ch, cutoff)
    <3>1. PICK f : Finds(f, points[ch], log, ch, cutoff)
      BY <2>1 DEF QueueInv
    <3>2. CASE ch \in DOMAIN event
      <4> DEFINE longer == Append(points[ch], [at |-> now, value |-> event[ch]])
      <4>1. PICK g : Finds(g, longer, log', ch, cutoff)
        BY <1>1, <2>1, <3>1, <3>2, AppendFinds
      <4>2. longer \in Seq(Point)
        <5>1. [at |-> now, value |-> event[ch]] \in Point
          BY <1>1, <3>2, SeriesAssumption DEF Point
        <5> QED
          BY <1>1, <5>1, AppendProperties
      <4>3. points'[ch] = Evict(longer, cutoff)
        BY <1>2, <3>2 DEF Add
      <4>4. log' \in Seq(Entry)
        BY <1>2, AddType DEF SeriesTypes
      <4> HIDE DEF longer, cutoff
      <4> QED
        BY <1>1, <4>1, <4>2, <4>3, <4>4, EvictFinds
    <3>3. CASE ch \notin DOMAIN event
      <4>1. points'[ch] = points[ch]
        BY <1>2, <3>3 DEF Add
      <4>2. Finds(f, points[ch], log', ch, cutoff)
        BY <1>1, <2>1, <3>1, <3>3, AppendFinds
      <4> QED
        BY <4>1, <4>2
    <3> QED
      BY <3>2, <3>3
  <2> QED
    BY <2>1, <2>2, <2>3
<1>3. ASSUME ReadSeries, ~ setBack'
      PROVE  Ordered' /\ \A ch \in Channels : \E f : Finds(f, points[ch], log, ch, cutoff)'
  <2>1. /\ ~ setBack /\ now' = now /\ horizon' = horizon /\ log' = log
        /\ \A ch \in Channels : points'[ch] = Evict(points[ch], cutoff)
    BY <1>3 DEF ReadSeries, Evicted
  <2>2. Ordered'
    BY <2>1 DEF QueueInv, Ordered
  <2>3. ASSUME NEW ch \in Channels
        PROVE  \E f : Finds(f, points'[ch], log', ch, cutoff)
    <3>1. PICK f : Finds(f, points[ch], log, ch, cutoff)
      BY <2>1 DEF QueueInv
    <3> HIDE DEF cutoff
    <3>2. \E g : Finds(g, Evict(points[ch], cutoff), log, ch, cutoff)
      BY <1>1, <3>1, EvictFinds
    <3> QED
      BY <2>1, <3>2
  <2> QED
    BY <2>1, <2>2, <2>3
<1>4. ASSUME Rebuild, ~ setBack'
      PROVE  Ordered' /\ \A ch \in Channels : \E f : Finds(f, points[ch], log, ch, cutoff)'
  <2>1. log' = <<>> /\ \A ch \in Channels : points'[ch] = <<>>
    BY <1>4 DEF Rebuild, NoPoints
  <2> QED
    BY <2>1, EmptyFinds DEF Ordered
<1>5. ASSUME TimePasses, ~ setBack'
      PROVE  Ordered' /\ \A ch \in Channels : \E f : Finds(f, points[ch], log, ch, cutoff)'
  <2> PICK d \in Steps : now' = now + d
    BY <1>5 DEF TimePasses
  <2>1. /\ ~ setBack /\ now' = now + d /\ d \in Nat /\ horizon' = horizon /\ log' = log /\ points' = points
    BY <1>5, SeriesAssumption DEF TimePasses
  <2>2. \A i \in DOMAIN log : log[i].at \in Int
    <3>1. \A i \in DOMAIN log : log[i] \in Entry
      BY <1>1, ElementOfSeq, LenProperties
    <3> QED
      BY <3>1 DEF Entry
  <2>3. Ordered'
    BY <1>1, <2>1, <2>2 DEF QueueInv, Ordered
  <2>4. ASSUME NEW ch \in Channels
        PROVE  \E f : Finds(f, points[ch], log, ch, (now + d) - horizon)
    <3>1. PICK f : Finds(f, points[ch], log, ch, cutoff)
      BY <2>1 DEF QueueInv
    <3>2. (now + d) - horizon \in Int /\ cutoff <= (now + d) - horizon
      BY <1>1, <2>1
    <3> HIDE DEF cutoff
    <3>3. Finds(f, points[ch], log, ch, (now + d) - horizon)
      BY <1>1, <3>1, <3>2, LaterFinds
    <3> QED
      BY <3>3
  <2> QED
    BY <2>1, <2>3, <2>4
<1>6. ASSUME UNCHANGED series, ~ setBack'
      PROVE  Ordered' /\ \A ch \in Channels : \E f : Finds(f, points[ch], log, ch, cutoff)'
  BY <1>6 DEF series, QueueInv, Ordered
<1>7. ClockSetBack => setBack'
  BY DEF ClockSetBack
<1> QED
  BY <1>2, <1>3, <1>4, <1>5, <1>6, <1>7 DEF SeriesNext, QueueInv

LEMMA InitQueue == Init => QueueInv
<1> SUFFICES ASSUME Init PROVE QueueInv
  OBVIOUS
<1>1. log = <<>> /\ \A ch \in Channels : points[ch] = <<>>
  BY DEF Init, SeriesInit, NoPoints
<1>2. Ordered
  BY <1>1 DEF Ordered
<1>3. ASSUME NEW ch \in Channels
      PROVE  \E f : Finds(f, points[ch], log, ch, now - horizon)
  BY <1>1, EmptyFinds
<1> QED
  BY <1>2, <1>3 DEF QueueInv

LEMMA QueueHolds == Spec => []QueueInv
<1>1. TypeInv /\ QueueInv /\ [Next]_vars => QueueInv'
  BY NextIsSeries, NextQueue DEF TypeInv
<1> QED
  BY <1>1, InitQueue, TypeHolds, PTL DEF Spec
-----------------------------------------------------------------------------
(* What a tile draws is what was recorded. *)

\* What lies in a queue that was cut stands for what was recorded within the horizon.
LEMMA EvictedIsRecorded ==
  ASSUME SeriesTypes, QueueInv, ~ setBack, NEW ch \in Channels
  PROVE  LET q == Evicted[ch] IN
         \E f : /\ Finds(f, q, log, ch, now - horizon)
                /\ \A k \in 1 .. Len(q) : Age(q[k].at) <= horizon
<1> DEFINE cutoff == now - horizon
           q == points[ch]
           p == Evicted[ch]
<1>1. /\ q \in Seq(Point) /\ log \in Seq(Entry)
      /\ now \in Int /\ horizon \in Int /\ horizon >= 1 /\ cutoff \in Int
  BY DEF SeriesTypes
<1>2. p = Evict(q, cutoff)
  BY DEF Evicted
<1>3. PICK e : Finds(e, q, log, ch, cutoff)
  BY DEF QueueInv
<1> HIDE DEF q, p
<1>4. PICK j \in 1 .. Len(q) + 1 :
        /\ j <= Len(q) => q[j].at >= cutoff
        /\ Len(p) = Len(q) - j + 1
        /\ \A k \in 1 .. Len(q) - j + 1 : p[k] = q[j + k - 1]
  <2> HIDE DEF cutoff
  <2> QED
    BY <1>1, <1>2, EvictIs
<1>5. PICK f : Finds(f, p, log, ch, cutoff)
  <2> HIDE DEF cutoff
  <2> QED
    BY <1>1, <1>2, <1>3, EvictFinds
<1>6. /\ Len(q) \in Nat
      /\ \A k \in 1 .. Len(q) : q[k].at \in Int /\ q[k].at <= now
      /\ \A k, l \in 1 .. Len(q) : k < l => q[k].at <= q[l].at
  <2>1. Len(q) \in Nat /\ \A k \in 1 .. Len(q) : q[k] \in Point
    BY <1>1, LenProperties, ElementOfSeq
  <2>2. \A k \in 1 .. Len(q) : e[k] \in DOMAIN log /\ q[k].at = log[e[k]].at
    BY <1>3 DEF Finds, HitsOf
  <2>3. \A k, l \in 1 .. Len(q) : k < l => e[k] < e[l]
    BY <1>3 DEF Finds
  <2> QED
    BY <2>1, <2>2, <2>3 DEF QueueInv, Ordered, Point
<1>7. ASSUME NEW k \in 1 .. Len(p)
      PROVE  Age(p[k].at) <= horizon
  <2>1. j + k - 1 \in 1 .. Len(q) /\ p[k] = q[j + k - 1] /\ j \in 1 .. Len(q) /\ j <= j + k - 1
    BY <1>4, <1>6
  <2>2. q[j].at >= cutoff
    BY <1>4, <2>1
  <2>3. q[j].at <= q[j + k - 1].at
    <3>1. CASE j = j + k - 1
      BY <1>6, <2>1, <3>1
    <3>2. CASE j < j + k - 1
      BY <1>6, <2>1, <3>2
    <3> QED
      BY <2>1, <3>1, <3>2
  <2>4. p[k].at \in Int /\ p[k].at >= cutoff
    <3>1. q[j].at \in Int /\ q[j + k - 1].at \in Int
      BY <1>6, <2>1
    <3>2. p[k].at = q[j + k - 1].at
      BY <2>1
    <3> HIDE DEF cutoff
    <3> QED
      BY <1>1, <2>2, <2>3, <3>1, <3>2
  <2> QED
    BY <1>1, <2>4 DEF Age
<1> QED
  BY <1>5, <1>7 DEF p

\* A part of a queue that was cut, and its values in the log, are the same in number
\* and in sum.
LEMMA PartIsRecorded ==
  ASSUME SeriesTypes, NEW ch \in Channels, NEW f, NEW cutoff,
         Finds(f, Evicted[ch], log, ch, cutoff), NEW W \in SUBSET (DOMAIN Evicted[ch])
  PROVE  LET counted == {f[k] : k \in W} IN
         /\ counted \subseteq HitsOf(log, ch)
         /\ Cardinality(W) = Cardinality(counted)
         /\ Total(Evicted[ch], W) = SumOf(ch, counted)
<1> DEFINE q == Evicted[ch]
           counted == {f[k] : k \in W}
<1>1. Len(q) \in Nat /\ DOMAIN q = 1 .. Len(q) /\ log \in Seq(Entry)
  BY ReplyIs DEF SeriesTypes
<1>2. IsFiniteSet(W)
  BY PartType
<1>3. Finds(f, q, log, ch, cutoff) /\ W \in SUBSET (DOMAIN q)
  OBVIOUS
<1> HIDE DEF q
<1>4. /\ \A i \in DOMAIN log : log[i].event \in Events
      /\ DOMAIN log \subseteq Int
  <2>1. \A i \in DOMAIN log : log[i] \in Entry
    BY <1>1, ElementOfSeq, LenProperties
  <2> QED
    BY <1>1, <2>1, LenProperties DEF Entry
<1>5. /\ f \in [1 .. Len(q) -> HitsOf(log, ch)]
      /\ \A j, k \in 1 .. Len(q) : j < k => f[j] < f[k]
      /\ \A k \in 1 .. Len(q) : q[k].value = log[f[k]].event[ch]
  BY <1>3 DEF Finds
<1>6. counted \subseteq HitsOf(log, ch)
  BY <1>1, <1>3, <1>5
<1> DEFINE b == [k \in W |-> f[k]]
<1>7. b \in [W -> counted] /\ \A i \in counted : \E k \in W : b[k] = i
  OBVIOUS
<1>8. \A j, k \in W : b[j] = b[k] => j = k
  <2> SUFFICES ASSUME NEW j \in W, NEW k \in W, f[j] = f[k], j # k PROVE FALSE
    OBVIOUS
  <2>1. j \in 1 .. Len(q) /\ k \in 1 .. Len(q) /\ (j < k \/ k < j)
    BY <1>1, <1>3
  <2>2. f[j] < f[k] \/ f[k] < f[j]
    BY <1>5, <2>1
  <2>3. f[j] \in Int /\ f[k] \in Int
    BY <1>4, <1>5, <2>1 DEF HitsOf
  <2> QED
    BY <2>2, <2>3
<1>9. b \in Bijection(W, counted)
  BY <1>7, <1>8 DEF Bijection, Injection, Surjection, IsInjective
<1>10. Cardinality(W) = Cardinality(counted)
  BY <1>2, <1>9, FS_Bijection DEF ExistsBijection
<1> DEFINE inQueue == [k \in DOMAIN q |-> q[k].value]
           inLog == [i \in counted |-> log[i].event[ch]]
<1>11. SumFunctionOnSet(inQueue, W) = SumFunctionOnSet(inLog, counted)
  <2>1. \A i \in counted : inLog[i] \in Int
    BY <1>4, <1>6, SeriesAssumption DEF HitsOf
  <2>2. \A k \in W : inQueue[k] = inLog[b[k]]
    BY <1>1, <1>3, <1>5
  <2> HIDE DEF inQueue, inLog, b, counted
  <2> QED
    BY <1>2, <1>9, <2>1, <2>2, SumAcross
<1> QED
  BY <1>6, <1>10, <1>11 DEF q, Total, SumOf

\* A part of a reply has the sum of the queue, but for what rounding makes of it.
LEMMA PartIsNear ==
  ASSUME SeriesTypes, NEW ch \in Channels, NEW W \in SUBSET (DOMAIN Evicted[ch])
  PROVE  Near(Total(Reply[ch], W), Total(Evicted[ch], W), Cardinality(W))
<1> DEFINE q == Evicted[ch]
           r == Reply[ch]
           f == [k \in DOMAIN r |-> r[k].value]
           g == [k \in DOMAIN q |-> q[k].value]
<1>1. IsFiniteSet(W) /\ ValueUnit \in Nat \ {0}
  BY PartType, SeriesAssumption
<1>2. DOMAIN r = DOMAIN q /\ W \in SUBSET (DOMAIN q)
      /\ \A k \in DOMAIN q : /\ q[k].value \in Int
                             /\ r[k].value = Rounded(q[k].value, ValueUnit)
  BY ReplyIs
<1> HIDE DEF q, r
<1>3. \A k \in W : f[k] = Rounded(g[k], ValueUnit) /\ g[k] \in Int
  BY <1>2
<1> HIDE DEF f, g
<1>4. \A k \in W : /\ f[k] \in Int /\ g[k] \in Int
                   /\ 2 * f[k] <= 2 * g[k] + ValueUnit /\ 2 * g[k] <= 2 * f[k] + ValueUnit
  BY <1>1, <1>3, RoundedIs
<1>5. /\ 2 * SumFunctionOnSet(f, W) <= 2 * SumFunctionOnSet(g, W) + Cardinality(W) * ValueUnit
      /\ 2 * SumFunctionOnSet(g, W) <= 2 * SumFunctionOnSet(f, W) + Cardinality(W) * ValueUnit
  BY <1>1, <1>4, SumClose
<1> QED
  BY <1>5, Zenon DEF Near, Total, f, g, q, r

\* A value of the log that is young enough lies in the queue, as it was recorded.
LEMMA YoungIsThere ==
  ASSUME SeriesTypes, QueueInv, ~ setBack, NEW ch \in Channels, NEW f,
         Finds(f, Evicted[ch], log, ch, now - horizon),
         NEW age \in Int, age <= horizon, NEW i \in Recorded(ch, age)
  PROVE  \E k \in DOMAIN Evicted[ch] : f[k] = i /\ Age(Evicted[ch][k].at) <= age
<1> DEFINE q == Evicted[ch]
<1>1. /\ DOMAIN q = 1 .. Len(q) /\ Finds(f, q, log, ch, now - horizon)
      /\ log \in Seq(Entry) /\ now \in Int /\ horizon \in Int
  BY ReplyIs DEF SeriesTypes
<1> HIDE DEF q
<1>2. i \in HitsOf(log, ch) /\ Age(log[i].at) <= age
  BY DEF Recorded, HitsOf
<1>3. log[i].at \in Int /\ log[i].at <= now
  <2>1. i \in DOMAIN log /\ \A j \in DOMAIN log : log[j] \in Entry
    BY <1>1, <1>2, ElementOfSeq, LenProperties DEF HitsOf
  <2> QED
    BY <2>1 DEF QueueInv, Ordered, Entry
<1>4. log[i].at >= now - horizon
  BY <1>1, <1>2, <1>3 DEF Age
<1>5. PICK k \in 1 .. Len(q) : f[k] = i
  BY <1>1, <1>2, <1>4 DEF Finds
<1>6. q[k].at = log[i].at
  BY <1>1, <1>5 DEF Finds
<1> QED
  BY <1>1, <1>2, <1>5, <1>6 DEF q

\* A window of a reply tells of what was recorded.
LEMMA WindowTells ==
  ASSUME SeriesTypes, QueueInv, ~ setBack, NEW ch \in Channels,
         NEW window \in Int, window <= horizon
  PROVE  LET W == Within(Reply[ch], window) IN
         /\ Tells(Cardinality(W), Total(Reply[ch], W), ch, window)
         /\ W = {} => Recorded(ch, window - (window % AgeUnit)) = {}
<1> DEFINE q == Evicted[ch]
           W == Within(Reply[ch], window)
           whole == window - (window % AgeUnit)
           half == AgeUnit \div 2
<1>1. PICK f : Finds(f, q, log, ch, now - horizon)
  BY EvictedIsRecorded
<1> DEFINE counted == {f[k] : k \in W}
<1>2. W \in SUBSET (DOMAIN q)
  BY WithinType
<1>3. /\ counted \subseteq HitsOf(log, ch)
      /\ Cardinality(W) = Cardinality(counted)
      /\ Total(q, W) = SumOf(ch, counted)
  BY <1>1, <1>2, PartIsRecorded
<1>4. Near(Total(Reply[ch], W), SumOf(ch, counted), Cardinality(W))
  BY <1>2, <1>3, PartIsNear
<1>5. /\ AgeUnit \in Nat \ {0} /\ AgeUnit \in Int /\ AgeUnit > 0
      /\ half \in Int /\ AgeUnit = 2 * half + 1
  BY SeriesAssumption, SMT
<1>6. /\ whole \in Int /\ whole <= window
      /\ window \div AgeUnit \in Int /\ whole = AgeUnit * (window \div AgeUnit)
  <2>1. /\ window % AgeUnit \in Int /\ window % AgeUnit >= 0
        /\ window \div AgeUnit \in Int
        /\ window - (window % AgeUnit) = AgeUnit * (window \div AgeUnit)
    BY <1>5, WholeUnits
  <2> QED
    BY <2>1
<1>7. \A k \in DOMAIN q : /\ Age(q[k].at) \in Int
                          /\ k \in W <=> Rounded(Age(q[k].at), AgeUnit) <= window
  <2>1. \A k \in DOMAIN q : /\ Age(q[k].at) \in Int /\ k \in DOMAIN Reply[ch]
                            /\ Reply[ch][k].age = Rounded(Age(q[k].at), AgeUnit)
    BY ReplyIs
  <2> HIDE DEF q
  <2> QED
    BY <2>1 DEF Within
<1> HIDE DEF W, whole, half
<1>8. counted \subseteq Recorded(ch, window + half)
  <2> SUFFICES ASSUME NEW k \in W PROVE f[k] \in Recorded(ch, window + half)
    OBVIOUS
  <2> DEFINE age == Age(q[k].at)
  <2>1. age \in Int /\ Rounded(age, AgeUnit) <= window
    BY <1>2, <1>7
  <2>2. Rounded(age, AgeUnit) \in Int /\ 2 * age <= 2 * Rounded(age, AgeUnit) + AgeUnit
    BY <1>5, <2>1, RoundedIs
  <2>3. age <= window + half
    <3> HIDE DEF age
    <3> QED
      BY <1>5, <2>1, <2>2
  <2>4. f[k] \in HitsOf(log, ch) /\ log[f[k]].at = q[k].at
    <3>1. k \in 1 .. Len(q)
      BY <1>2, ReplyIs
    <3> QED
      BY <1>1, <3>1 DEF Finds
  <2> QED
    BY <2>3, <2>4 DEF Recorded, HitsOf
<1>9. Recorded(ch, whole) \subseteq counted
  <2> SUFFICES ASSUME NEW i \in Recorded(ch, whole) PROVE i \in counted
    OBVIOUS
  <2>1. whole <= horizon
    BY <1>6 DEF SeriesTypes
  <2>2. PICK k \in DOMAIN q : f[k] = i /\ Age(q[k].at) <= whole
    BY <1>1, <1>6, <2>1, YoungIsThere
  <2> DEFINE age == Age(q[k].at)
             rounded == Rounded(age, AgeUnit)
  <2>3. age \in Int /\ age <= whole
    BY <1>7, <2>2
  <2>4. rounded \in Int /\ rounded <= whole
    <3> HIDE DEF age
    <3> QED
      BY <1>5, <1>6, <2>3, RoundedIs
  <2>5. rounded <= window
    <3> HIDE DEF rounded
    <3> QED
      BY <1>6, <2>4
  <2>6. k \in W
    BY <1>7, <2>2, <2>5
  <2> QED
    BY <2>2, <2>6
<1>10. Tells(Cardinality(W), Total(Reply[ch], W), ch, window)
  <2> HIDE DEF counted
  <2> QED
    BY <1>3, <1>4, <1>8, <1>9 DEF Tells, whole, half
<1>11. W = {} => Recorded(ch, whole) = {}
  BY <1>9
<1> QED
  BY <1>10, <1>11 DEF W, whole

\* What means() is given of a channel is what was recorded within the horizon.
LEMMA QueueIsHorizon ==
  ASSUME SeriesTypes, QueueInv, ~ setBack, NEW ch \in Channels
  PROVE  LET q == Evicted[ch]
             recorded == Recorded(ch, horizon)
         IN  /\ Cardinality(DOMAIN q) = Len(q) /\ Len(q) = Cardinality(recorded)
             /\ Total(q, DOMAIN q) = SumOf(ch, recorded)
             /\ q = <<>> <=> DOMAIN q = {}
             /\ q = <<>> <=> recorded = {}
             /\ \A k \in DOMAIN q : Age(q[k].at) <= horizon
<1> DEFINE q == Evicted[ch]
           D == DOMAIN q
           recorded == Recorded(ch, horizon)
<1>1. PICK f : /\ Finds(f, q, log, ch, now - horizon)
               /\ \A k \in 1 .. Len(q) : Age(q[k].at) <= horizon
  BY EvictedIsRecorded
<1> DEFINE counted == {f[k] : k \in D}
<1>2. q \in Seq(Point) /\ D = 1 .. Len(q) /\ Len(q) \in Nat /\ horizon \in Int
  BY ReplyIs DEF SeriesTypes
<1>3. Cardinality(D) = Cardinality(counted) /\ Total(q, D) = SumOf(ch, counted)
  <2>1. /\ counted \subseteq HitsOf(log, ch)
        /\ Cardinality(D) = Cardinality(counted)
        /\ Total(q, D) = SumOf(ch, counted)
    <3>1. Finds(f, q, log, ch, now - horizon) /\ D \in SUBSET (DOMAIN q)
      BY <1>1
    <3> QED
      BY <3>1, PartIsRecorded
  <2> QED
    BY <2>1
<1>4. \A i \in recorded : \E k \in D : f[k] = i
  <2>1. /\ Finds(f, Evicted[ch], log, ch, now - horizon)
        /\ horizon \in Int /\ horizon <= horizon
    BY <1>1, <1>2
  <2> QED
    BY <2>1, YoungIsThere
<1> HIDE DEF q
<1>5. counted = recorded
  <2>1. \A k \in D : f[k] \in recorded
    <3>1. \A k \in D : /\ f[k] \in HitsOf(log, ch) /\ log[f[k]].at = q[k].at
                       /\ Age(q[k].at) <= horizon
      BY <1>1, <1>2 DEF Finds
    <3> QED
      BY <3>1 DEF Recorded, HitsOf
  <2> QED
    BY <1>4, <2>1
<1>6. Cardinality(D) = Len(q)
  <2>1. Cardinality(1 .. Len(q)) = IF 1 > Len(q) THEN 0 ELSE Len(q) - 1 + 1
    BY <1>2, FS_Interval
  <2> QED
    BY <1>2, <2>1
<1>7. q = <<>> <=> D = {}
  <2>1. q = <<>> <=> Len(q) = 0
    BY <1>2, EmptySeq
  <2>2. Len(q) = 0 <=> 1 .. Len(q) = {}
    <3> DEFINE n == Len(q)
    <3>1. n \in Nat
      BY <1>2
    <3> HIDE DEF n
    <3>2. n > 0 => 1 \in 1 .. n
      BY <3>1
    <3>3. n = 0 => 1 .. n = {}
      BY <3>1
    <3>4. n > 0 \/ n = 0
      BY <3>1
    <3> QED
      BY <3>2, <3>3, <3>4 DEF n
  <2>3. D = 1 .. Len(q)
    BY <1>2
  <2> HIDE DEF D
  <2> QED
    BY <2>1, <2>2, <2>3
<1>8. D = {} <=> recorded = {}
  <2>1. \A k \in D : f[k] \in recorded
    BY <1>5
  <2> HIDE DEF D, recorded
  <2> QED
    BY <1>4, <2>1
<1> QED
  BY <1>1, <1>2, <1>3, <1>5, <1>6, <1>7, <1>8 DEF q

\* The windows that are drawn are no longer than the analyzer keeps.
LEMMA WindowsFit ==
  ASSUME TypeInv
  PROVE  /\ LongS \in Int /\ LongS <= horizon
         /\ ShortS \in Int /\ ShortS <= horizon
<1>1. horizon \in Int /\ horizon >= 1 /\ wantLong \in Int /\ wantShort \in Int
  BY DEF TypeInv, SeriesTypes, WindowTypes
<1>2. LongS \in Int /\ LongS <= horizon
  BY <1>1 DEF LongS
<1> QED
  BY <1>1, <1>2 DEF ShortS

\* Both windows of every channel tell of the values of that age, as far as the wire
\* can tell, as long as the clock was not set back.
THEOREM WindowsHold == Spec => []WindowsAreTrue
<1>1. TypeInv /\ QueueInv => WindowsAreTrue
  <2> SUFFICES ASSUME TypeInv, QueueInv, ~ setBack, NEW ch \in Channels
               PROVE  IF ch \in DOMAIN Reduced
                        THEN /\ Tells(Reduced[ch].n, Reduced[ch].sum, ch, LongS)
                             /\ Tells(Reduced[ch].nRecent, Reduced[ch].sumRecent, ch, ShortS)
                        ELSE Recorded(ch, LongS - (LongS % AgeUnit)) = {}
    BY DEF WindowsAreTrue
  <2> DEFINE long == Within(Reply[ch], LongS)
             short == Within(Reply[ch], ShortS)
  <2>1. /\ Tells(Cardinality(long), Total(Reply[ch], long), ch, LongS)
        /\ long = {} => Recorded(ch, LongS - (LongS % AgeUnit)) = {}
        /\ Tells(Cardinality(short), Total(Reply[ch], short), ch, ShortS)
    BY WindowsFit, WindowTells DEF TypeInv
  <2>2. ch \in DOMAIN Reduced <=> long # {}
    BY DEF Reduced
  <2>3. ch \in DOMAIN Reduced =>
          /\ Reduced[ch].n = Cardinality(long) /\ Reduced[ch].sum = Total(Reply[ch], long)
          /\ Reduced[ch].nRecent = Cardinality(short)
          /\ Reduced[ch].sumRecent = Total(Reply[ch], short)
    BY DEF Reduced
  <2> HIDE DEF long, short
  <2> QED
    BY <2>1, <2>2, <2>3
<1> QED
  BY <1>1, TypeHolds, QueueHolds, PTL

\* MIDAS history is told the means of what was recorded within the horizon, and a page
\* that draws the whole of it draws the means of the same values, but for rounding.
THEOREM HistoryAgrees == Spec => []HistoryIsThePage
<1>1. TypeInv /\ QueueInv => HistoryIsThePage
  <2> SUFFICES ASSUME TypeInv, QueueInv, ~ setBack PROVE HistoryIsThePage
    BY DEF HistoryIsThePage
  <2>1. SeriesTypes
    BY DEF TypeInv
  <2>2. \A ch \in Channels :
          /\ Len(Evicted[ch]) = Cardinality(Recorded(ch, horizon))
          /\ Total(Evicted[ch], DOMAIN Evicted[ch]) = SumOf(ch, Recorded(ch, horizon))
          /\ Evicted[ch] = <<>> <=> Recorded(ch, horizon) = {}
    BY <2>1, QueueIsHorizon
  <2>3. Means = MeansOfLog
    BY <2>2, Zenon DEF Means, MeansOfLog
  <2>4. ASSUME LongS = horizon, horizon % AgeUnit = 0, NEW ch \in Channels
        PROVE  Within(Reply[ch], LongS) = DOMAIN Evicted[ch]
    <3> DEFINE q == Evicted[ch]
    <3>1. /\ DOMAIN Reply[ch] = DOMAIN q
          /\ \A k \in DOMAIN q : /\ Age(q[k].at) \in Int /\ Age(q[k].at) <= horizon
                                 /\ Reply[ch][k].age = Rounded(Age(q[k].at), AgeUnit)
      BY <2>1, ReplyIs, QueueIsHorizon
    <3>2. AgeUnit \in Nat \ {0} /\ AgeUnit \in Int /\ AgeUnit > 0 /\ horizon \in Int
      BY <2>1, SeriesAssumption DEF SeriesTypes
    <3>3. horizon \div AgeUnit \in Int /\ horizon = AgeUnit * (horizon \div AgeUnit)
      <4>1. /\ horizon \div AgeUnit \in Int
            /\ horizon - (horizon % AgeUnit) = AgeUnit * (horizon \div AgeUnit)
        BY <3>2, WholeUnits
      <4> QED
        BY <2>4, <3>2, <4>1
    <3> HIDE DEF q
    <3>4. \A k \in DOMAIN q : Rounded(Age(q[k].at), AgeUnit) <= horizon
      BY <3>1, <3>2, <3>3, RoundedIs
    <3> QED
      BY <2>4, <3>1, <3>4 DEF Within, q
  <2>5. ASSUME LongS = horizon, horizon % AgeUnit = 0
        PROVE  /\ DOMAIN Reduced = DOMAIN Means
               /\ \A ch \in DOMAIN Reduced :
                    /\ Reduced[ch].n = Means[ch].n
                    /\ Near(Reduced[ch].sum, Means[ch].sum, Reduced[ch].n)
    <3>1. \A ch \in Channels : Within(Reply[ch], LongS) = DOMAIN Evicted[ch]
      BY <2>4, <2>5
    <3>2. \A ch \in Channels : Evicted[ch] = <<>> <=> DOMAIN Evicted[ch] = {}
      BY <2>1, QueueIsHorizon
    <3>3. DOMAIN Reduced = DOMAIN Means
      BY <3>1, <3>2 DEF Reduced, Means
    <3>4. ASSUME NEW ch \in DOMAIN Reduced
          PROVE  /\ Reduced[ch].n = Means[ch].n
                 /\ Near(Reduced[ch].sum, Means[ch].sum, Reduced[ch].n)
      <4> DEFINE D == DOMAIN Evicted[ch]
      <4>1. ch \in Channels /\ ch \in DOMAIN Means
        BY <3>3 DEF Reduced
      <4>2. Reduced[ch].n = Cardinality(D) /\ Reduced[ch].sum = Total(Reply[ch], D)
        BY <3>1, <4>1 DEF Reduced
      <4>3. Means[ch].n = Len(Evicted[ch]) /\ Means[ch].sum = Total(Evicted[ch], D)
        BY <4>1 DEF Means
      <4>4. Cardinality(D) = Len(Evicted[ch])
        BY <2>1, <4>1, QueueIsHorizon
      <4>5. Near(Total(Reply[ch], D), Total(Evicted[ch], D), Cardinality(D))
        BY <2>1, <4>1, PartIsNear
      <4> QED
        BY <4>2, <4>3, <4>4, <4>5
    <3> QED
      BY <3>3, <3>4
  <2> QED
    BY <2>3, <2>5 DEF HistoryIsThePage
<1> QED
  BY <1>1, TypeHolds, QueueHolds, PTL
=============================================================================
