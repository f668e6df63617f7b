-------------------------------- MODULE Sums --------------------------------
(***************************************************************************)
(* Sums over finite sets, as the community modules' MapThenSumSet and      *)
(* SumFunction take them: the chosen element of the set and then the       *)
(* others'.  What the proofs about the spend counts, the flows of the      *)
(* graph, the series, the sources and the forecasts need of them, each by  *)
(* taking a least set, or a least number, for which it would fail.         *)
(***************************************************************************)
EXTENDS Integers, FiniteSets, FiniteSetTheorems, WellFoundedInduction, TLAPS

Chosen(t) == CHOOSE x \in t : TRUE

\* g has the sum of the numbers f over every subset of S.
SumsOf(g, f, S) ==
  g = [t \in SUBSET S |-> IF t = {} THEN 0 ELSE f[Chosen(t)] + g[t \ {Chosen(t)}]]

Sum(f, S) == (CHOOSE g : SumsOf(g, f, S))[S]

-----------------------------------------------------------------------------
\* A set of numbers that is not empty has a least.
LEMMA LeastOf ==
  ASSUME NEW S, S \subseteq Nat, S # {}
  PROVE  \E i \in S : \A j \in S : i <= j
<1> DEFINE R == {p \in Nat \X Nat : p[1] < p[2]}
<1>1. IsWellFoundedOn(R, Nat)
  BY NatLessThanWellFounded DEF OpToRel
<1>2. PICK x \in S : \A y \in S : ~(<<y, x>> \in R)
  BY <1>1, WFMin
<1>3. ASSUME NEW y \in S PROVE x <= y
  <2>1. x \in Nat /\ y \in Nat
    OBVIOUS
  <2>2. <<y, x>> \in R <=> y < x
    BY <2>1
  <2>3. ~(y < x)
    BY <1>2, <2>2
  <2> QED
    BY <2>1, <2>3
<1> QED
  BY <1>2, <1>3

\* What holds of a set as soon as it holds of the set without its chosen element holds of
\* every subset: otherwise a subset of least cardinality would be one for which it does not.
LEMMA OneByOne ==
  ASSUME NEW S, IsFiniteSet(S), NEW Good,
         \A t \in SUBSET S : (t # {} => t \ {Chosen(t)} \in Good) => t \in Good
  PROVE  SUBSET S \subseteq Good
<1> SUFFICES ASSUME NEW u \in SUBSET S, u \notin Good PROVE FALSE
  OBVIOUS
<1> DEFINE N == {n \in Nat : \E t \in SUBSET S : t \notin Good /\ Cardinality(t) = n}
<1>1. \A t \in SUBSET S : IsFiniteSet(t) /\ Cardinality(t) \in Nat
  BY FS_Subset, FS_CardinalityType
<1>2. N \subseteq Nat /\ N # {}
  BY <1>1
<1>3. PICK n \in N : \A m \in N : n <= m
  BY ONLY <1>2, LeastOf
<1>4. PICK t \in SUBSET S : t \notin Good /\ Cardinality(t) = n
  OBVIOUS
<1>5. t # {} /\ t \ {Chosen(t)} \notin Good
  BY <1>4
<1>6. Chosen(t) \in t
  BY <1>5 DEF Chosen
<1>7. Cardinality(t \ {Chosen(t)}) = n - 1 /\ t \ {Chosen(t)} \in SUBSET S
  BY <1>1, <1>4, <1>6, FS_RemoveElement
<1>8. n - 1 \in N
  BY <1>1, <1>5, <1>7
<1> QED
  BY <1>2, <1>3, <1>8

LEMMA ChosenOne == \A t : t # {} => Chosen(t) \in t
  BY DEF Chosen

\* There are sums: those of the sets of at most n elements give those of n + 1.
LEMMA SumsExist ==
  ASSUME NEW S, IsFiniteSet(S), NEW f
  PROVE  \E g : SumsOf(g, f, S)
<1> DEFINE Level(n) == {t \in SUBSET S : Cardinality(t) <= n}
           UpTo(g, n) ==
             g = [t \in Level(n) |-> IF t = {} THEN 0 ELSE f[Chosen(t)] + g[t \ {Chosen(t)}]]
           Bad == {n \in Nat : ~\E g : UpTo(g, n)}
<1>1. \A t \in SUBSET S : IsFiniteSet(t) /\ Cardinality(t) \in Nat
  BY FS_Subset, FS_CardinalityType
<1>2. \A t \in SUBSET S : t # {} =>
        /\ t \ {Chosen(t)} \in SUBSET S
        /\ Cardinality(t \ {Chosen(t)}) = Cardinality(t) - 1
  BY <1>1, ChosenOne, FS_RemoveElement
<1>3. ASSUME Bad # {} PROVE FALSE
  <2>1. Bad \subseteq Nat
    OBVIOUS
  <2>2. PICK n \in Bad : \A m \in Bad : n <= m
    <3> HIDE DEF Bad
    <3> QED
      BY ONLY <1>3, <2>1, LeastOf
  <2>3. n # 0
    <3>1. \A t \in Level(0) : t = {}
      BY <1>1, FS_EmptySet
    <3>2. UpTo([t \in Level(0) |-> 0], 0)
      BY <3>1
    <3> QED
      BY <3>2
  <2>4. n - 1 \in Nat /\ n - 1 \notin Bad
    <3>1. n \in Nat /\ n - 1 \in Nat /\ ~(n <= n - 1)
      BY <2>1, <2>2, <2>3
    <3> HIDE DEF Bad
    <3> QED
      BY <2>2, <3>1
  <2>5. PICK g : UpTo(g, n - 1)
    BY <2>4
  <2> DEFINE h ==
        [t \in Level(n) |-> IF t = {} THEN 0 ELSE f[Chosen(t)] + g[t \ {Chosen(t)}]]
  <2>6. \A t \in Level(n) : t # {} => t \ {Chosen(t)} \in Level(n - 1)
    BY <1>1, <1>2, <2>4
  <2>7. \A t \in Level(n - 1) : t \in Level(n) /\ g[t] = h[t]
    <3>1. \A t \in Level(n - 1) : t \in Level(n)
      BY <1>1, <2>4
    <3> QED
      BY <2>5, <3>1
  <2>8. \A t \in Level(n) : t # {} => g[t \ {Chosen(t)}] = h[t \ {Chosen(t)}]
    BY <2>6, <2>7
  <2> DEFINE k ==
        [t \in Level(n) |-> IF t = {} THEN 0 ELSE f[Chosen(t)] + h[t \ {Chosen(t)}]]
  <2>9. h = k
    BY <2>8
  <2>10. UpTo(h, n)
    BY <2>9
  <2> QED
    BY <2>2, <2>10
<1>4. Cardinality(S) \in Nat /\ Level(Cardinality(S)) = SUBSET S
  <2>1. \A t \in SUBSET S : Cardinality(t) <= Cardinality(S)
    BY FS_Subset
  <2> QED
    BY <2>1, FS_CardinalityType
<1>5. \E g : UpTo(g, Cardinality(S))
  BY <1>3, <1>4
<1> QED
  BY <1>4, <1>5 DEF SumsOf

\* And only one: two ways to sum agree on every subset.
LEMMA SumsAgree ==
  ASSUME NEW S, IsFiniteSet(S), NEW f, NEW g, NEW h, SumsOf(g, f, S), SumsOf(h, f, S)
  PROVE  \A t \in SUBSET S : g[t] = h[t]
<1> DEFINE Good == {t \in SUBSET S : g[t] = h[t]}
<1>1. ASSUME NEW t \in SUBSET S, t # {} => t \ {Chosen(t)} \in Good PROVE t \in Good
  BY <1>1 DEF SumsOf
<1> HIDE DEF Good
<1>2. SUBSET S \subseteq Good
  BY ONLY <1>1, OneByOne, IsFiniteSet(S)
<1> QED
  BY <1>2 DEF Good

LEMMA SumIs ==
  ASSUME NEW S, IsFiniteSet(S), NEW f, NEW g, SumsOf(g, f, S)
  PROVE  Sum(f, S) = g[S]
<1>1. SumsOf(CHOOSE h : SumsOf(h, f, S), f, S)
  BY SumsExist
<1> QED
  BY <1>1, SumsAgree DEF Sum

-----------------------------------------------------------------------------
(* What a sum is.                                                          *)

LEMMA SumType ==
  ASSUME NEW S, IsFiniteSet(S), NEW f \in [S -> Int]
  PROVE  /\ Sum(f, S) \in Int
         /\ \E g : SumsOf(g, f, S) /\ Sum(f, S) = g[S] /\ \A t \in SUBSET S : g[t] \in Int
<1>1. PICK g : SumsOf(g, f, S)
  BY SumsExist
<1>2. Sum(f, S) = g[S]
  BY <1>1, SumIs
<1> DEFINE Good == {t \in SUBSET S : g[t] \in Int}
<1>3. ASSUME NEW t \in SUBSET S, t # {} => t \ {Chosen(t)} \in Good PROVE t \in Good
  <2>1. CASE t = {}
    BY <2>1, <1>1 DEF SumsOf
  <2>2. CASE t # {}
    <3>1. Chosen(t) \in S /\ g[t \ {Chosen(t)}] \in Int
      BY <1>3, <2>2, ChosenOne
    <3>2. g[t] = f[Chosen(t)] + g[t \ {Chosen(t)}]
      BY <2>2, <1>1 DEF SumsOf
    <3> QED
      BY <3>1, <3>2
  <2> QED
    BY <2>1, <2>2
<1> HIDE DEF Good
<1>4. SUBSET S \subseteq Good
  BY ONLY <1>3, OneByOne, IsFiniteSet(S)
<1> QED
  BY <1>1, <1>2, <1>4 DEF Good

\* The sum of sums.
LEMMA SumAdd ==
  ASSUME NEW S, IsFiniteSet(S), NEW f \in [S -> Int], NEW h \in [S -> Int],
         NEW k \in [S -> Int], \A x \in S : k[x] = f[x] + h[x]
  PROVE  Sum(k, S) = Sum(f, S) + Sum(h, S)
<1>1. PICK a : SumsOf(a, f, S) /\ Sum(f, S) = a[S] /\ \A t \in SUBSET S : a[t] \in Int
  BY SumType
<1>2. PICK b : SumsOf(b, h, S) /\ Sum(h, S) = b[S] /\ \A t \in SUBSET S : b[t] \in Int
  BY SumType
<1>3. PICK c : SumsOf(c, k, S) /\ Sum(k, S) = c[S] /\ \A t \in SUBSET S : c[t] \in Int
  BY SumType
<1> DEFINE Good == {t \in SUBSET S : c[t] = a[t] + b[t]}
<1>4. ASSUME NEW t \in SUBSET S, t # {} => t \ {Chosen(t)} \in Good PROVE t \in Good
  <2>1. CASE t = {}
    BY <2>1, <1>1, <1>2, <1>3 DEF SumsOf
  <2>2. CASE t # {}
    <3> DEFINE x == Chosen(t)
               u == t \ {x}
    <3>1. x \in S /\ u \in SUBSET S /\ c[u] = a[u] + b[u]
      BY <1>4, <2>2, ChosenOne
    <3>2. a[t] = f[x] + a[u] /\ b[t] = h[x] + b[u] /\ c[t] = k[x] + c[u]
      BY <2>2, <1>1, <1>2, <1>3 DEF SumsOf
    <3>3. f[x] \in Int /\ h[x] \in Int /\ a[u] \in Int /\ b[u] \in Int
      BY <3>1, <1>1, <1>2
    <3> HIDE DEF x, u
    <3>4. c[t] = a[t] + b[t]
      BY <3>1, <3>2, <3>3
    <3> QED
      BY <3>4
  <2> QED
    BY <2>1, <2>2
<1> HIDE DEF Good
<1>5. SUBSET S \subseteq Good
  BY ONLY <1>4, OneByOne, IsFiniteSet(S)
<1> QED
  BY <1>1, <1>2, <1>3, <1>5 DEF Good

\* Only the numbers of some are above zero, and none of them above m.
LEMMA SumAtMost ==
  ASSUME NEW S, IsFiniteSet(S), NEW f \in [S -> Int], NEW T \in SUBSET S, NEW m \in Nat,
         \A x \in S : f[x] <= IF x \in T THEN m ELSE 0
  PROVE  Sum(f, S) <= m * Cardinality(T)
<1>1. PICK g : SumsOf(g, f, S) /\ Sum(f, S) = g[S] /\ \A t \in SUBSET S : g[t] \in Int
  BY SumType
<1> DEFINE Good == {t \in SUBSET S : g[t] <= m * Cardinality(t \cap T)}
<1>2. ASSUME NEW t \in SUBSET S, t # {} => t \ {Chosen(t)} \in Good PROVE t \in Good
  <2>1. CASE t = {}
    <3>1. g[t] = 0 /\ t \cap T = {} /\ Cardinality({}) = 0 /\ m * 0 = 0
      BY <2>1, <1>1, FS_EmptySet DEF SumsOf
    <3>2. g[t] <= m * Cardinality(t \cap T)
      BY <3>1
    <3> QED
      BY <3>2
  <2>2. CASE t # {}
    <3> DEFINE x == Chosen(t)
               u == t \ {x}
    <3>1. x \in t /\ u \in SUBSET S /\ g[u] <= m * Cardinality(u \cap T)
      BY <1>2, <2>2, ChosenOne
    <3>2. g[t] = f[x] + g[u] /\ f[x] \in Int /\ g[u] \in Int
      BY <2>2, <1>1, <3>1 DEF SumsOf
    <3>3. IsFiniteSet(u \cap T) /\ Cardinality(u \cap T) \in Nat
      BY FS_Subset, FS_CardinalityType
    <3>4. CASE x \in T
      <4>1. Cardinality(t \cap T) = Cardinality(u \cap T) + 1
        <5>1. t \cap T = (u \cap T) \cup {x} /\ x \notin u \cap T
          BY <3>1, <3>4
        <5> QED
          BY <5>1, <3>3, FS_AddElement
      <4>2. m * (Cardinality(u \cap T) + 1) = m * Cardinality(u \cap T) + m
        BY <3>3
      <4>3. f[x] <= m
        BY <3>1, <3>4
      <4>4. m * Cardinality(u \cap T) \in Int
        BY <3>3
      <4> HIDE DEF x, u
      <4>5. g[t] <= m * Cardinality(t \cap T)
        BY <3>1, <3>2, <4>1, <4>2, <4>3, <4>4
      <4> QED
        BY <4>5
    <3>5. CASE x \notin T
      <4>1. t \cap T = u \cap T /\ f[x] <= 0
        BY <3>1, <3>5
      <4>2. m * Cardinality(u \cap T) \in Int
        BY <3>3
      <4> HIDE DEF x, u
      <4>3. g[t] <= m * Cardinality(t \cap T)
        BY <3>1, <3>2, <4>1, <4>2
      <4> QED
        BY <4>3
    <3> QED
      BY <3>4, <3>5
  <2> QED
    BY <2>1, <2>2
<1> HIDE DEF Good
<1>3. SUBSET S \subseteq Good
  BY ONLY <1>2, OneByOne, IsFiniteSet(S)
<1>4. S \cap T = T /\ S \in Good
  BY <1>3
<1> QED
  BY <1>1, <1>4 DEF Good

\* Of numbers that are all zero but one, the sum is that one.
LEMMA SumOfOne ==
  ASSUME NEW S, IsFiniteSet(S), NEW f \in [S -> Int], NEW y \in S,
         \A x \in S \ {y} : f[x] = 0
  PROVE  Sum(f, S) = f[y]
<1>1. PICK g : SumsOf(g, f, S) /\ Sum(f, S) = g[S] /\ \A t \in SUBSET S : g[t] \in Int
  BY SumType
<1> DEFINE Good == {t \in SUBSET S : g[t] = IF y \in t THEN f[y] ELSE 0}
<1>2. ASSUME NEW t \in SUBSET S, t # {} => t \ {Chosen(t)} \in Good PROVE t \in Good
  <2>1. CASE t = {}
    BY <2>1, <1>1 DEF SumsOf
  <2>2. CASE t # {}
    <3> DEFINE x == Chosen(t)
               u == t \ {x}
    <3>1. x \in t /\ u \in SUBSET S /\ g[u] = IF y \in u THEN f[y] ELSE 0
      BY <1>2, <2>2, ChosenOne
    <3>2. g[t] = f[x] + g[u] /\ f[x] \in Int /\ g[u] \in Int /\ f[y] \in Int
      BY <2>2, <1>1, <3>1 DEF SumsOf
    <3>3. g[t] = IF y \in t THEN f[y] ELSE 0
      BY <3>1, <3>2
    <3> QED
      BY <3>3
  <2> QED
    BY <2>1, <2>2
<1> HIDE DEF Good
<1>3. SUBSET S \subseteq Good
  BY ONLY <1>2, OneByOne, IsFiniteSet(S)
<1> QED
  BY <1>1, <1>3 DEF Good

\* One number changes, and the sum by as much.
LEMMA SumChange ==
  ASSUME NEW S, IsFiniteSet(S), NEW f \in [S -> Int], NEW h \in [S -> Int], NEW y \in S,
         \A x \in S \ {y} : h[x] = f[x]
  PROVE  Sum(h, S) = Sum(f, S) + (h[y] - f[y])
<1> DEFINE d == [x \in S |-> h[x] - f[x]]
<1>1. /\ d \in [S -> Int] /\ d[y] = h[y] - f[y] /\ \A x \in S \ {y} : d[x] = 0
      /\ \A x \in S : h[x] = f[x] + d[x]
  OBVIOUS
<1> HIDE DEF d
<1>2. Sum(d, S) = d[y]
  BY ONLY <1>1, SumOfOne, IsFiniteSet(S), y \in S
<1>3. Sum(h, S) = Sum(f, S) + Sum(d, S)
  BY ONLY <1>1, SumAdd, IsFiniteSet(S), f \in [S -> Int], h \in [S -> Int]
<1> QED
  BY <1>1, <1>2, <1>3

\* Nothing sums to nothing.
LEMMA SumOfNone ==
  ASSUME NEW S, IsFiniteSet(S), NEW f \in [S -> Int], \A x \in S : f[x] = 0
  PROVE  Sum(f, S) = 0
<1>1. \A x \in S : f[x] = f[x] + f[x]
  OBVIOUS
<1>2. Sum(f, S) = Sum(f, S) + Sum(f, S)
  BY ONLY <1>1, SumAdd, IsFiniteSet(S), f \in [S -> Int]
<1>3. PICK n \in Int : n = Sum(f, S)
  BY SumType
<1>4. n = n + n
  BY <1>2, <1>3
<1>5. n = 0
  BY ONLY <1>4, n \in Int
<1> QED
  BY <1>3, <1>5

\* Smaller numbers have a smaller sum.
LEMMA SumMonotone ==
  ASSUME NEW S, IsFiniteSet(S), NEW f \in [S -> Int], NEW h \in [S -> Int],
         \A x \in S : f[x] <= h[x]
  PROVE  Sum(f, S) <= Sum(h, S)
<1> DEFINE d == [x \in S |-> f[x] - h[x]]
<1>1. d \in [S -> Int] /\ \A x \in S : f[x] = h[x] + d[x] /\ d[x] <= 0
  OBVIOUS
<1> HIDE DEF d
<1>2. Sum(f, S) = Sum(h, S) + Sum(d, S)
  BY ONLY <1>1, SumAdd, IsFiniteSet(S), f \in [S -> Int], h \in [S -> Int]
<1>3. PICK T \in SUBSET S : T = {}
  OBVIOUS
<1>4. PICK m \in Nat : m = 0
  OBVIOUS
<1>5. \A x \in S : d[x] <= IF x \in T THEN m ELSE 0
  BY <1>1, <1>3
<1>6. Sum(d, S) <= m * Cardinality(T)
  BY ONLY <1>1, <1>5, SumAtMost, IsFiniteSet(S), T \in SUBSET S, m \in Nat
<1>7. Cardinality(T) = 0
  BY <1>3, FS_EmptySet
<1>8. Sum(d, S) <= 0
  BY <1>4, <1>6, <1>7
<1>9. Sum(h, S) \in Int /\ Sum(d, S) \in Int
  BY <1>1, SumType
<1> QED
  BY <1>2, <1>8, <1>9

\* What holds of a set as soon as it holds of its proper subsets holds of every subset.
LEMMA BySubset ==
  ASSUME NEW S, IsFiniteSet(S), NEW Good,
         \A t \in SUBSET S : (\A u \in SUBSET t : u # t => u \in Good) => t \in Good
  PROVE  SUBSET S \subseteq Good
<1> SUFFICES ASSUME NEW w \in SUBSET S, w \notin Good PROVE FALSE
  OBVIOUS
<1> DEFINE N == {n \in Nat : \E t \in SUBSET S : t \notin Good /\ Cardinality(t) = n}
<1>1. \A t \in SUBSET S : IsFiniteSet(t) /\ Cardinality(t) \in Nat
  BY FS_Subset, FS_CardinalityType
<1>2. N \subseteq Nat /\ N # {}
  BY <1>1
<1>3. PICK n \in N : \A m \in N : n <= m
  BY ONLY <1>2, LeastOf
<1>4. PICK t \in SUBSET S : t \notin Good /\ Cardinality(t) = n
  OBVIOUS
<1>5. PICK u \in SUBSET t : u # t /\ u \notin Good
  BY <1>4
<1>6. Cardinality(u) < Cardinality(t)
  <2>1. Cardinality(u) <= Cardinality(t) /\ (Cardinality(t) = Cardinality(u) => t = u)
    BY <1>1, FS_Subset
  <2>2. Cardinality(u) \in Nat /\ Cardinality(t) \in Nat
    BY <1>1
  <2> QED
    BY <1>5, <2>1, <2>2
<1>7. Cardinality(u) \in N /\ u \in SUBSET S
  BY <1>1, <1>5
<1> QED
  BY <1>1, <1>2, <1>3, <1>4, <1>6, <1>7

\* One function has the sums over all subsets, whichever member is added last.
Additive(g, f, S) ==
  /\ g \in [SUBSET S -> Int] /\ g[{}] = 0
  /\ \A t \in SUBSET S : g[t] = Sum(f, t)
  /\ \A t \in SUBSET S : \A x \in t : g[t] = f[x] + g[t \ {x}]

LEMMA SumAdds ==
  ASSUME NEW S, IsFiniteSet(S), NEW f, \A x \in S : f[x] \in Int
  PROVE  \E g : Additive(g, f, S)
<1>1. PICK g : SumsOf(g, f, S)
  BY SumsExist
<1>2. g[{}] = 0 /\ \A t \in SUBSET S : t # {} => g[t] = f[Chosen(t)] + g[t \ {Chosen(t)}]
  BY <1>1 DEF SumsOf
<1>3. \A t \in SUBSET S : g[t] \in Int
  <2> DEFINE Good == {t \in SUBSET S : g[t] \in Int}
  <2>1. ASSUME NEW t \in SUBSET S, t # {} => t \ {Chosen(t)} \in Good PROVE t \in Good
    <3>1. CASE t = {}
      BY <1>2, <3>1
    <3>2. CASE t # {}
      <4>1. Chosen(t) \in S /\ g[t \ {Chosen(t)}] \in Int
        BY <2>1, <3>2, ChosenOne
      <4>2. g[t] = f[Chosen(t)] + g[t \ {Chosen(t)}]
        BY <1>2, <3>2
      <4> QED
        BY <4>1, <4>2
    <3> QED
      BY <3>1, <3>2
  <2> HIDE DEF Good
  <2>2. SUBSET S \subseteq Good
    BY ONLY <2>1, OneByOne, IsFiniteSet(S)
  <2> QED
    BY <2>2 DEF Good
<1>4. \A t \in SUBSET S : \A x \in t : g[t] = f[x] + g[t \ {x}]
  <2> DEFINE Good == {t \in SUBSET S : \A x \in t : g[t] = f[x] + g[t \ {x}]}
  <2>1. ASSUME NEW t \in SUBSET S, \A u \in SUBSET t : u # t => u \in Good PROVE t \in Good
    <3> SUFFICES ASSUME NEW x \in t PROVE g[t] = f[x] + g[t \ {x}]
      OBVIOUS
    <3> DEFINE c == Chosen(t)
    <3>1. c \in t /\ g[t] = f[c] + g[t \ {c}]
      BY <1>2, ChosenOne
    <3> HIDE DEF c
    <3>2. CASE c = x
      BY <3>1, <3>2
    <3>3. CASE c # x
      <4>1. /\ t \ {c} \in SUBSET t /\ t \ {c} # t /\ x \in t \ {c}
            /\ t \ {x} \in SUBSET t /\ t \ {x} # t /\ c \in t \ {x}
        BY <3>1, <3>3
      <4>2. g[t \ {c}] = f[x] + g[(t \ {c}) \ {x}] /\ g[t \ {x}] = f[c] + g[(t \ {x}) \ {c}]
        BY <2>1, <4>1
      <4>3. (t \ {c}) \ {x} = (t \ {x}) \ {c}
        OBVIOUS
      <4>4. f[x] \in Int /\ f[c] \in Int /\ g[(t \ {c}) \ {x}] \in Int
        <5>1. x \in S /\ c \in S /\ (t \ {c}) \ {x} \in SUBSET S
          BY <3>1
        <5> QED
          BY <1>3, <5>1
      <4>5. g[t] = f[c] + (f[x] + g[(t \ {c}) \ {x}])
        BY <3>1, <4>2
      <4>6. g[t \ {x}] = f[c] + g[(t \ {c}) \ {x}]
        BY <4>2, <4>3
      <4>7. \A l, m, n \in Int : l + (m + n) = m + (l + n)
        OBVIOUS
      <4> QED
        BY <4>4, <4>5, <4>6, <4>7
    <3> QED
      BY <3>2, <3>3
  <2> HIDE DEF Good
  <2>2. SUBSET S \subseteq Good
    BY ONLY <2>1, BySubset, IsFiniteSet(S)
  <2> QED
    BY <2>2 DEF Good
<1>5. ASSUME NEW A \in SUBSET S PROVE g[A] = Sum(f, A)
  <2> DEFINE h == [t \in SUBSET A |-> g[t]]
  <2>1. SumsOf(h, f, A)
    <3>1. \A t \in SUBSET A : t # {} => g[t] = f[Chosen(t)] + g[t \ {Chosen(t)}]
      BY <1>2
    <3>2. \A t \in SUBSET A : t \ {Chosen(t)} \in SUBSET A
      OBVIOUS
    <3> QED
      BY <1>2, <3>1, <3>2 DEF SumsOf
  <2>2. IsFiniteSet(A)
    BY FS_Subset
  <2>3. Sum(f, A) = h[A]
    BY <2>1, <2>2, SumIs
  <2> QED
    BY <2>3
<1> DEFINE k == [t \in SUBSET S |-> g[t]]
<1>6. Additive(k, f, S)
  <2>1. k \in [SUBSET S -> Int] /\ \A t \in SUBSET S : k[t] = g[t]
    BY <1>3
  <2>2. {} \in SUBSET S /\ \A t \in SUBSET S : \A x \in t : t \ {x} \in SUBSET S
    OBVIOUS
  <2> HIDE DEF k
  <2> QED
    BY <1>2, <1>4, <1>5, <2>1, <2>2 DEF Additive
<1> QED
  BY <1>6

\* A sum over two parts.
LEMMA SumUnion ==
  ASSUME NEW S, IsFiniteSet(S), NEW f, \A x \in S : f[x] \in Int,
         NEW A \in SUBSET S, NEW B \in SUBSET S, A \cap B = {}
  PROVE  Sum(f, A \cup B) = Sum(f, A) + Sum(f, B)
<1>1. PICK g : Additive(g, f, S)
  BY SumAdds
<1> DEFINE Good == {t \in SUBSET B : g[A \cup t] = g[A] + g[t]}
<1>2. ASSUME NEW t \in SUBSET B, t # {} => t \ {Chosen(t)} \in Good PROVE t \in Good
  <2>1. CASE t = {}
    <3>1. A \cup t = A /\ g[t] = 0 /\ g[A] \in Int
      BY <1>1, <2>1 DEF Additive
    <3>2. g[A \cup t] = g[A]
      BY <3>1
    <3>3. g[A \cup t] = g[A] + g[t]
      BY <3>1, <3>2
    <3> QED
      BY <3>3
  <2>2. CASE t # {}
    <3> DEFINE c == Chosen(t)
    <3>1. c \in t
      BY <2>2, ChosenOne
    <3>2. g[A \cup (t \ {c})] = g[A] + g[t \ {c}]
      BY <1>2, <2>2
    <3> HIDE DEF c
    <3>3. /\ A \cup t \in SUBSET S /\ t \in SUBSET S /\ c \in A \cup t
          /\ (A \cup t) \ {c} = A \cup (t \ {c})
      BY <3>1, A \cap B = {}
    <3>4. g[A \cup t] = f[c] + g[A \cup (t \ {c})] /\ g[t] = f[c] + g[t \ {c}]
      <4>1. \A u \in SUBSET S : \A x \in u : g[u] = f[x] + g[u \ {x}]
        BY <1>1 DEF Additive
      <4>2. g[A \cup t] = f[c] + g[(A \cup t) \ {c}]
        BY <3>3, <4>1
      <4> QED
        BY <3>1, <3>3, <4>1, <4>2
    <3>5. c \in S /\ t \ {c} \in SUBSET S
      BY <3>1
    <3>6. f[c] \in Int /\ g[A] \in Int /\ g[t \ {c}] \in Int
      BY <1>1, <3>5 DEF Additive
    <3>7. g[A \cup t] = g[A] + g[t]
      BY ONLY <3>2, <3>4, <3>6
    <3> QED
      BY <3>7
  <2> QED
    BY <2>1, <2>2
<1> HIDE DEF Good
<1>3. IsFiniteSet(B)
  BY FS_Subset
<1>4. SUBSET B \subseteq Good
  BY ONLY <1>2, <1>3, OneByOne
<1>5. g[A \cup B] = g[A] + g[B]
  BY <1>4 DEF Good
<1> QED
  BY <1>1, <1>5 DEF Additive

LEMMA SumSingle ==
  ASSUME NEW f, NEW x, f[x] \in Int
  PROVE  Sum(f, {x}) = f[x] /\ Sum(f, {}) = 0
<1>1. IsFiniteSet({x})
  BY FS_Singleton
<1>2. PICK g : Additive(g, f, {x})
  BY <1>1, SumAdds
<1>3. {x} \in SUBSET {x} /\ {} \in SUBSET {x} /\ {x} \ {x} = {}
  OBVIOUS
<1>4. g[{x}] = f[x] + g[{}] /\ g[{}] = 0
  BY <1>2, <1>3 DEF Additive
<1> QED
  BY <1>2, <1>3, <1>4 DEF Additive

\* A sum by parts: each number is counted in one of them.
LEMMA SumParts ==
  ASSUME NEW S, IsFiniteSet(S), NEW f, \A x \in S : f[x] \in Int,
         NEW K, IsFiniteSet(K), NEW part, \A x \in S : part[x] \in K,
         NEW g, \A k \in K : g[k] = Sum(f, {x \in S : part[x] = k})
  PROVE  Sum(f, S) = Sum(g, K)
<1>1. PICK a : Additive(a, f, S)
  BY SumAdds
<1> DEFINE of(t) == {x \in S : part[x] \in t}
<1>2. \A k \in K : g[k] = a[of({k})] /\ g[k] \in Int
  <2> SUFFICES ASSUME NEW k \in K PROVE g[k] = a[of({k})] /\ g[k] \in Int
    OBVIOUS
  <2>1. of({k}) = {x \in S : part[x] = k} /\ of({k}) \in SUBSET S
    OBVIOUS
  <2> HIDE DEF of
  <2> QED
    BY <1>1, <2>1 DEF Additive
<1>3. PICK b : Additive(b, g, K)
  BY <1>2, SumAdds
<1> DEFINE Good == {t \in SUBSET K : b[t] = a[of(t)]}
<1>4. ASSUME NEW t \in SUBSET K, t # {} => t \ {Chosen(t)} \in Good PROVE t \in Good
  <2>1. CASE t = {}
    <3>1. of(t) = {}
      BY <2>1
    <3> HIDE DEF of
    <3> QED
      BY <1>1, <1>3, <2>1, <3>1 DEF Additive
  <2>2. CASE t # {}
    <3> DEFINE c == Chosen(t)
               u == t \ {c}
    <3>1. c \in t /\ c \in K
      BY <2>2, ChosenOne
    <3>2. b[u] = a[of(u)]
      BY <1>4, <2>2
    <3>3. of(t) = of(u) \cup of({c}) /\ of(u) \cap of({c}) = {}
      BY <3>1
    <3>4. of(u) \in SUBSET S /\ of({c}) \in SUBSET S /\ of(t) \in SUBSET S
      OBVIOUS
    <3> HIDE DEF c, u, of
    <3>5. Sum(f, of(t)) = Sum(f, of(u)) + Sum(f, of({c}))
      <4>1. Sum(f, of(u) \cup of({c})) = Sum(f, of(u)) + Sum(f, of({c}))
        <5> DEFINE A == of(u)
                   B == of({c})
        <5>1. A \in SUBSET S /\ B \in SUBSET S /\ A \cap B = {}
          BY <3>3, <3>4
        <5> HIDE DEF A, B
        <5>2. Sum(f, A \cup B) = Sum(f, A) + Sum(f, B)
          BY ONLY <5>1, SumUnion, IsFiniteSet(S), \A x \in S : f[x] \in Int
        <5> QED
          BY <5>2 DEF A, B
      <4> QED
        BY <3>3, <4>1
    <3>6. a[of(t)] = a[of(u)] + a[of({c})]
      BY <1>1, <3>4, <3>5 DEF Additive
    <3>7. b[t] = g[c] + b[u]
      BY <1>3, <3>1 DEF Additive, u
    <3>8. a[of(u)] \in Int /\ a[of({c})] \in Int
      BY <1>1, <3>4 DEF Additive
    <3>9. b[t] = a[of(t)]
      BY <1>2, <3>1, <3>2, <3>6, <3>7, <3>8
    <3> QED
      BY <3>9
  <2> QED
    BY <2>1, <2>2
<1> HIDE DEF Good
<1>5. SUBSET K \subseteq Good
  BY ONLY <1>4, OneByOne, IsFiniteSet(K)
<1>6. b[K] = a[of(K)]
  BY <1>5 DEF Good
<1>7. of(K) = S
  OBVIOUS
<1> HIDE DEF of
<1> QED
  BY <1>1, <1>3, <1>6, <1>7 DEF Additive

LEMMA ImageFinite ==
  ASSUME NEW S, IsFiniteSet(S), NEW b
  PROVE  IsFiniteSet({b[x] : x \in S})
<1> DEFINE h == [x \in S |-> b[x]]
<1>1. h \in Surjection(S, {b[x] : x \in S})
  BY DEF Surjection
<1> HIDE DEF h
<1> QED
  BY <1>1, FS_Surjection

\* The same numbers under other names.
LEMMA SumRenamed ==
  ASSUME NEW S, IsFiniteSet(S), NEW f, \A x \in S : f[x] \in Int,
         NEW b, \A x, y \in S : b[x] = b[y] => x = y,
         NEW g, \A x \in S : g[b[x]] = f[x]
  PROVE  Sum(f, S) = Sum(g, {b[x] : x \in S})
<1> DEFINE K == {b[x] : x \in S}
<1>1. IsFiniteSet(K)
  BY ImageFinite
<1>2. \A k \in K : g[k] = Sum(f, {x \in S : b[x] = k})
  <2> SUFFICES ASSUME NEW y \in S PROVE g[b[y]] = Sum(f, {x \in S : b[x] = b[y]})
    OBVIOUS
  <2>1. {x \in S : b[x] = b[y]} = {y}
    OBVIOUS
  <2> QED
    <3>1. f[y] \in Int /\ g[b[y]] = f[y]
      OBVIOUS
    <3>2. Sum(f, {y}) = f[y]
      BY <3>1, SumSingle
    <3> QED
      BY <2>1, <3>1, <3>2
<1>3. \A x \in S : b[x] \in K
  OBVIOUS
<1> HIDE DEF K
<1>4. Sum(f, S) = Sum(g, K)
  BY <1>1, <1>2, <1>3, SumParts
<1> QED
  BY <1>4 DEF K

\* Every number as often as there are members.
LEMMA SumConstant ==
  ASSUME NEW S, IsFiniteSet(S), NEW f, NEW c \in Int, \A x \in S : f[x] = c
  PROVE  Sum(f, S) = c * Cardinality(S)
<1>1. PICK g : Additive(g, f, S)
  BY SumAdds
<1> DEFINE Good == {t \in SUBSET S : g[t] = c * Cardinality(t)}
<1>2. ASSUME NEW t \in SUBSET S, t # {} => t \ {Chosen(t)} \in Good PROVE t \in Good
  <2>1. CASE t = {}
    BY <1>1, <2>1, FS_EmptySet DEF Additive
  <2>2. CASE t # {}
    <3> DEFINE x == Chosen(t)
    <3>1. x \in t /\ g[t \ {x}] = c * Cardinality(t \ {x})
      BY <1>2, <2>2, ChosenOne
    <3> HIDE DEF x
    <3>2. Cardinality(t \ {x}) = Cardinality(t) - 1 /\ Cardinality(t) \in Nat
      BY <3>1, FS_Subset, FS_RemoveElement, FS_CardinalityType
    <3>3. g[t] = c + g[t \ {x}]
      BY <1>1, <3>1 DEF Additive
    <3>4. g[t] = c + c * (Cardinality(t) - 1)
      BY <3>1, <3>2, <3>3
    <3>5. \A n \in Nat : c + c * (n - 1) = c * n
      OBVIOUS
    <3> QED
      BY <3>2, <3>4, <3>5
  <2> QED
    BY <2>1, <2>2
<1> HIDE DEF Good
<1>3. SUBSET S \subseteq Good
  BY ONLY <1>2, OneByOne, IsFiniteSet(S)
<1> QED
  BY <1>1, <1>3 DEF Good, Additive

\* A multiple of every number.
LEMMA SumScaled ==
  ASSUME NEW S, IsFiniteSet(S), NEW f, \A x \in S : f[x] \in Int, NEW c \in Int,
         NEW h, \A x \in S : h[x] = c * f[x]
  PROVE  Sum(h, S) = c * Sum(f, S)
<1>1. PICK g : Additive(g, f, S)
  BY SumAdds
<1>2. \A x \in S : h[x] \in Int
  OBVIOUS
<1>3. PICK k : Additive(k, h, S)
  BY <1>2, SumAdds
<1> DEFINE Good == {t \in SUBSET S : k[t] = c * g[t]}
<1>4. ASSUME NEW t \in SUBSET S, t # {} => t \ {Chosen(t)} \in Good PROVE t \in Good
  <2>1. CASE t = {}
    BY <1>1, <1>3, <2>1 DEF Additive
  <2>2. CASE t # {}
    <3> DEFINE x == Chosen(t)
               u == t \ {x}
    <3>1. x \in t /\ k[u] = c * g[u] /\ u \in SUBSET S
      BY <1>4, <2>2, ChosenOne
    <3> HIDE DEF x
    <3>2. g[t] = f[x] + g[u] /\ k[t] = h[x] + k[u] /\ h[x] = c * f[x]
      BY <1>1, <1>3, <3>1 DEF Additive
    <3> HIDE DEF u
    <3>3. f[x] \in Int /\ g[u] \in Int
      BY <1>1, <3>1 DEF Additive
    <3>4. \A m, n \in Int : c * m + c * n = c * (m + n)
      OBVIOUS
    <3>5. k[t] = c * g[t]
      BY <3>1, <3>2, <3>3, <3>4
    <3> QED
      BY <3>5
  <2> QED
    BY <2>1, <2>2
<1> HIDE DEF Good
<1>5. SUBSET S \subseteq Good
  BY ONLY <1>4, OneByOne, IsFiniteSet(S)
<1> QED
  BY <1>1, <1>3, <1>5 DEF Good, Additive

\* A sum is of the numbers of its set.
LEMMA SumSame ==
  ASSUME NEW S, IsFiniteSet(S), NEW f, NEW h, \A x \in S : f[x] \in Int /\ h[x] = f[x]
  PROVE  Sum(f, S) \in Int /\ Sum(h, S) = Sum(f, S)
<1>1. Sum(h, S) = 1 * Sum(f, S)
  <2>1. \A x \in S : h[x] = 1 * f[x]
    OBVIOUS
  <2> QED
    BY <2>1, SumScaled
<1>2. PICK g : Additive(g, f, S)
  BY SumAdds
<1> QED
  BY <1>1, <1>2 DEF Additive

=============================================================================
