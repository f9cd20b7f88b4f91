---------------------------------- MODULE Sums ---------------------------------
(***************************************************************************)
(* Laws of the sums SumFunction and SumFunctionOnSet of module Functions,  *)
(* and one of the remainder.                                               *)
(***************************************************************************)
EXTENDS Integers, FiniteSets, Functions, FiniteSetTheorems, TLAPS

\* The element that the fold takes out of a set.
Pick(s) == CHOOSE x \in s : TRUE

\* g is a table of the sums of f over the subsets of S.
Tabulates(g, f, S) ==
    g = [s \in SUBSET S |-> IF s = {} THEN 0 ELSE f[Pick(s)] + g[s \ {Pick(s)}]]

\* What the fold computes is an entry of such a table.
LEMMA SumUnfolded ==
  ASSUME NEW f, NEW S
  PROVE  SumFunctionOnSet(f, S) = (CHOOSE g : Tabulates(g, f, S))[S]
BY DEF SumFunctionOnSet, FoldFunctionOnSet, MapThenFoldSet, Pick, Tabulates

\* A nonempty set of natural numbers has a least element.
LEMMA LeastNumber ==
  ASSUME NEW C, C \subseteq Nat, C # {}
  PROVE  \E n \in C : \A m \in C : n <= m
<1> DEFINE R == OpToRel(<, Nat)
<1>1. IsWellFoundedOn(R, Nat)
  BY NatLessThanWellFounded
<1>2. PICK n \in C : \A m \in C : ~(<<m, n>> \in R)
  <2> HIDE DEF R
  <2> QED BY <1>1, WFMin
<1>3. \A m \in C : ~(m < n)
  BY <1>2 DEF OpToRel
<1> QED BY <1>3

\* A nonempty family of subsets of a finite set has a smallest member.
LEMMA SmallestSet ==
  ASSUME NEW S, IsFiniteSet(S), NEW C, C \subseteq SUBSET S, C # {}
  PROVE  \E T \in C : \A U \in C : U \subseteq T => U = T
<1>1. IsWellFoundedOn(StrictSubsetOrdering(S), SUBSET S)
  BY FS_StrictSubsetOrderingWellFounded, FS_FiniteSubsetsOfFinite
<1>2. PICK T \in C : \A U \in C : ~(<<U, T>> \in StrictSubsetOrdering(S))
  BY <1>1, WFMin
<1> QED BY <1>2 DEF StrictSubsetOrdering

\* A finite set has a table of its sums.
LEMMA TableExists ==
  ASSUME NEW f, NEW S, IsFiniteSet(S)
  PROVE  \E g : Tabulates(g, f, S)
<1> DEFINE Row(g, s) == IF s = {} THEN 0 ELSE f[Pick(s)] + g[s \ {Pick(s)}]
           Partial(g, n) == /\ g = [s \in SUBSET S |-> g[s]]
                            /\ \A s \in SUBSET S : Cardinality(s) <= n => g[s] = Row(g, s)
           Missing == {n \in Nat : ~ \E g : Partial(g, n)}
<1>1. \A s \in SUBSET S : /\ IsFiniteSet(s)
                          /\ Cardinality(s) \in Nat
                          /\ Cardinality(s) <= Cardinality(S)
                          /\ Cardinality(s) = 0 <=> s = {}
  BY FS_Subset, FS_CardinalityType, FS_EmptySet
<1>2. \A s \in SUBSET S : s # {} => /\ Pick(s) \in s
                                    /\ s \ {Pick(s)} \in SUBSET S
                                    /\ Cardinality(s \ {Pick(s)}) = Cardinality(s) - 1
  BY <1>1, FS_RemoveElement DEF Pick
<1>3. Missing = {}
  <2> SUFFICES ASSUME Missing # {} PROVE FALSE
    OBVIOUS
  <2>1. PICK n \in Missing : \A m \in Missing : n <= m
    BY LeastNumber
  <2>2. CASE n = 0
    <3> DEFINE g == [s \in SUBSET S |-> 0]
    <3>1. Partial(g, 0)
      BY <1>1
    <3> QED BY <2>1, <2>2, <3>1
  <2>3. CASE n # 0
    <3>1. PICK h : Partial(h, n - 1)
      <4>1. n - 1 \in Nat /\ ~(n <= n - 1)
        BY <2>1, <2>3
      <4>2. n - 1 \notin Missing
        BY <2>1, <4>1
      <4> HIDE DEF Partial
      <4> QED BY <4>1, <4>2
    <3> DEFINE g == [s \in SUBSET S |-> IF Cardinality(s) = n THEN Row(h, s) ELSE h[s]]
    <3>2. ASSUME NEW s \in SUBSET S, Cardinality(s) <= n
          PROVE  g[s] = Row(g, s)
      <4>1. s # {} => g[s \ {Pick(s)}] = h[s \ {Pick(s)}]
        BY <1>1, <1>2, <2>1, <3>2
      <4>2. Row(g, s) = Row(h, s)
        BY <4>1
      <4>3. g[s] = Row(h, s)
        <5>1. CASE Cardinality(s) = n
          BY <5>1
        <5>2. CASE Cardinality(s) # n
          <6>1. Cardinality(s) <= n - 1
            BY <1>1, <2>1, <3>2, <5>2
          <6>2. h[s] = Row(h, s)
            BY <3>1, <6>1
          <6> QED BY <5>2, <6>2
        <5> QED BY <5>1, <5>2
      <4> QED BY <4>2, <4>3
    <3>3. g = [s \in SUBSET S |-> g[s]]
      OBVIOUS
    <3>4. Partial(g, n)
      <4> HIDE DEF g, Row
      <4> QED BY <3>2, <3>3
    <3> QED BY <2>1, <3>4
  <2> QED BY <2>2, <2>3
<1>4. Cardinality(S) \in Nat
  BY FS_CardinalityType
<1>5. PICK g : Partial(g, Cardinality(S))
  BY <1>3, <1>4
<1>6. g = [s \in SUBSET S |-> Row(g, s)]
  BY <1>1, <1>5
<1> QED BY <1>6 DEF Tabulates

\* Tables agree where both are defined.
LEMMA TablesAgree ==
  ASSUME NEW f, NEW S, IsFiniteSet(S), NEW T \in SUBSET S,
         NEW g, Tabulates(g, f, S), NEW h, Tabulates(h, f, T)
  PROVE  g[T] = h[T]
<1> DEFINE Differ == {s \in SUBSET T : g[s] # h[s]}
<1>1. \A s \in SUBSET T : g[s] = IF s = {} THEN 0 ELSE f[Pick(s)] + g[s \ {Pick(s)}]
  BY DEF Tabulates
<1>2. \A s \in SUBSET T : h[s] = IF s = {} THEN 0 ELSE f[Pick(s)] + h[s \ {Pick(s)}]
  BY DEF Tabulates
<1>3. Differ = {}
  <2> SUFFICES ASSUME Differ # {} PROVE FALSE
    OBVIOUS
  <2>1. IsFiniteSet(T)
    BY FS_Subset
  <2>2. PICK s \in Differ : \A u \in Differ : u \subseteq s => u = s
    <3>1. Differ \subseteq SUBSET T
      OBVIOUS
    <3> HIDE DEF Differ
    <3> QED BY <2>1, <3>1, SmallestSet
  <2>3. s # {}
    BY <1>1, <1>2
  <2>4. Pick(s) \in s
    BY <2>3 DEF Pick
  <2>5. s \ {Pick(s)} \notin Differ
    BY <2>2, <2>4
  <2>6. g[s \ {Pick(s)}] = h[s \ {Pick(s)}]
    BY <2>5
  <2> QED BY <1>1, <1>2, <2>3, <2>6
<1> QED BY <1>3

\* The sum over no element.
LEMMA SumOfNone ==
  ASSUME NEW f
  PROVE  SumFunctionOnSet(f, {}) = 0
<1> DEFINE g == CHOOSE g : Tabulates(g, f, {})
<1>1. Tabulates(g, f, {})
  BY TableExists, FS_EmptySet
<1>2. g[{}] = 0
  <2> HIDE DEF g
  <2> QED BY <1>1 DEF Tabulates
<1> QED BY <1>2, SumUnfolded

\* The sum over a nonempty set, with the element split off that the fold takes.
LEMMA SumOfPicked ==
  ASSUME NEW f, NEW S, IsFiniteSet(S), S # {}
  PROVE  /\ Pick(S) \in S
         /\ SumFunctionOnSet(f, S)
              = f[Pick(S)] + SumFunctionOnSet(f, S \ {Pick(S)})
<1> DEFINE T == S \ {Pick(S)}
           g == CHOOSE g : Tabulates(g, f, S)
           h == CHOOSE h : Tabulates(h, f, T)
<1>1. Pick(S) \in S
  BY DEF Pick
<1>2. IsFiniteSet(T)
  BY FS_RemoveElement
<1>3. Tabulates(g, f, S) /\ Tabulates(h, f, T)
  BY <1>2, TableExists
<1>4. SumFunctionOnSet(f, S) = g[S] /\ SumFunctionOnSet(f, T) = h[T]
  BY SumUnfolded
<1>5. g[S] = f[Pick(S)] + g[T]
  <2> HIDE DEF g
  <2> QED BY <1>3 DEF Tabulates
<1>6. g[T] = h[T]
  <2> HIDE DEF g, h
  <2> QED BY <1>3, TablesAgree
<1> QED BY <1>1, <1>4, <1>5, <1>6

\* The sum of integers is an integer, and that of natural numbers is one.
LEMMA SumType ==
  ASSUME NEW S, IsFiniteSet(S), NEW f, \A x \in S : f[x] \in Int
  PROVE  /\ SumFunctionOnSet(f, S) \in Int
         /\ (\A x \in S : f[x] >= 0) => SumFunctionOnSet(f, S) >= 0
<1> DEFINE Good(T) == /\ SumFunctionOnSet(f, T) \in Int
                      /\ (\A x \in S : f[x] >= 0) => SumFunctionOnSet(f, T) >= 0
           Bad == {T \in SUBSET S : ~Good(T)}
<1>1. Bad = {}
  <2> SUFFICES ASSUME Bad # {} PROVE FALSE
    OBVIOUS
  <2>1. PICK T \in Bad : \A U \in Bad : U \subseteq T => U = T
    <3>1. Bad \subseteq SUBSET S
      OBVIOUS
    <3> HIDE DEF Bad
    <3> QED BY <3>1, SmallestSet
  <2>2. IsFiniteSet(T)
    BY FS_Subset
  <2>3. T # {}
    BY SumOfNone
  <2>4. /\ Pick(T) \in T
        /\ SumFunctionOnSet(f, T) = f[Pick(T)] + SumFunctionOnSet(f, T \ {Pick(T)})
    BY <2>2, <2>3, SumOfPicked
  <2>5. Good(T \ {Pick(T)})
    BY <2>1, <2>4
  <2> QED BY <2>4, <2>5
<1> QED BY <1>1

\* Functions with the same values have the same sum.
LEMMA SumOfSame ==
  ASSUME NEW S, IsFiniteSet(S), NEW f, NEW g, \A x \in S : f[x] = g[x]
  PROVE  SumFunctionOnSet(f, S) = SumFunctionOnSet(g, S)
<1> DEFINE Bad == {T \in SUBSET S : SumFunctionOnSet(f, T) # SumFunctionOnSet(g, T)}
<1>1. Bad = {}
  <2> SUFFICES ASSUME Bad # {} PROVE FALSE
    OBVIOUS
  <2>1. PICK T \in Bad : \A U \in Bad : U \subseteq T => U = T
    <3>1. Bad \subseteq SUBSET S
      OBVIOUS
    <3> HIDE DEF Bad
    <3> QED BY <3>1, SmallestSet
  <2>2. IsFiniteSet(T)
    BY FS_Subset
  <2>3. T # {}
    BY SumOfNone
  <2>4. /\ Pick(T) \in T
        /\ SumFunctionOnSet(f, T) = f[Pick(T)] + SumFunctionOnSet(f, T \ {Pick(T)})
        /\ SumFunctionOnSet(g, T) = g[Pick(T)] + SumFunctionOnSet(g, T \ {Pick(T)})
    BY <2>2, <2>3, SumOfPicked
  <2>5. T \ {Pick(T)} \notin Bad
    BY <2>1, <2>4
  <2> QED BY <2>4, <2>5
<1> QED BY <1>1

\* Any element may be split off, as addition does not mind the order.
LEMMA SumSplit ==
  ASSUME NEW S, IsFiniteSet(S), NEW f, \A y \in S : f[y] \in Int, NEW x \in S
  PROVE  SumFunctionOnSet(f, S) = f[x] + SumFunctionOnSet(f, S \ {x})
<1> DEFINE Splits(T) ==
              \A y \in T : SumFunctionOnSet(f, T) = f[y] + SumFunctionOnSet(f, T \ {y})
           Bad == {T \in SUBSET S : ~Splits(T)}
<1>1. Bad = {}
  <2> SUFFICES ASSUME Bad # {} PROVE FALSE
    OBVIOUS
  <2>1. PICK T \in Bad : \A U \in Bad : U \subseteq T => U = T
    <3>1. Bad \subseteq SUBSET S
      OBVIOUS
    <3> HIDE DEF Bad
    <3> QED BY <3>1, SmallestSet
  <2>2. PICK y \in T : SumFunctionOnSet(f, T) # f[y] + SumFunctionOnSet(f, T \ {y})
    BY <2>1
  <2>3. /\ IsFiniteSet(T) /\ IsFiniteSet(T \ {y})
        /\ T # {}
    BY FS_Subset
  <2>4. /\ Pick(T) \in T
        /\ SumFunctionOnSet(f, T) = f[Pick(T)] + SumFunctionOnSet(f, T \ {Pick(T)})
    BY <2>3, SumOfPicked
  <2>5. Pick(T) # y
    BY <2>2, <2>4
  <2> DEFINE R == (T \ {y}) \ {Pick(T)}
  <2>6. /\ (T \ {Pick(T)}) \ {y} = R
        /\ y \in T \ {Pick(T)}
        /\ Pick(T) \in T \ {y}
    BY <2>4, <2>5
  <2>7. Splits(T \ {Pick(T)}) /\ Splits(T \ {y})
    BY <2>1, <2>4
  <2>8. /\ SumFunctionOnSet(f, T \ {Pick(T)}) = f[y] + SumFunctionOnSet(f, R)
        /\ SumFunctionOnSet(f, T \ {y}) = f[Pick(T)] + SumFunctionOnSet(f, R)
    BY <2>6, <2>7
  <2>9. /\ f[y] \in Int /\ f[Pick(T)] \in Int
        /\ SumFunctionOnSet(f, R) \in Int
    <3>1. IsFiniteSet(R)
      BY <2>3, FS_Subset
    <3> QED BY <2>4, <3>1, SumType
  <2>10. SumFunctionOnSet(f, T) = f[y] + SumFunctionOnSet(f, T \ {y})
    <3> HIDE DEF R
    <3> QED BY <2>4, <2>8, <2>9
  <2> QED BY <2>2, <2>10
<1> QED BY <1>1

\* The sum of one more element.
LEMMA SumOfOneMore ==
  ASSUME NEW S, IsFiniteSet(S), NEW x, x \notin S,
         NEW f, \A y \in S \cup {x} : f[y] \in Int
  PROVE  SumFunctionOnSet(f, S \cup {x}) = f[x] + SumFunctionOnSet(f, S)
<1>1. IsFiniteSet(S \cup {x}) /\ (S \cup {x}) \ {x} = S
  BY FS_AddElement
<1> QED BY <1>1, SumSplit

\* A sum of which one element changes changes by as much.
LEMMA SumOfChanged ==
  ASSUME NEW S, IsFiniteSet(S), NEW x \in S,
         NEW f, \A y \in S : f[y] \in Int,
         NEW g, g[x] \in Int, \A y \in S \ {x} : g[y] = f[y]
  PROVE  SumFunctionOnSet(g, S) = SumFunctionOnSet(f, S) - f[x] + g[x]
<1>1. IsFiniteSet(S \ {x})
  BY FS_RemoveElement
<1>2. SumFunctionOnSet(f, S \ {x}) = SumFunctionOnSet(g, S \ {x})
  BY <1>1, SumOfSame
<1>3. SumFunctionOnSet(f, S) = f[x] + SumFunctionOnSet(f, S \ {x})
  BY SumSplit
<1>4. SumFunctionOnSet(g, S) = g[x] + SumFunctionOnSet(g, S \ {x})
  <2>1. \A y \in S : g[y] \in Int
    OBVIOUS
  <2> QED BY <2>1, SumSplit
<1>5. SumFunctionOnSet(f, S \ {x}) \in Int
  BY <1>1, SumType
<1> QED BY <1>2, <1>3, <1>4, <1>5

\* The sum of natural numbers is at least each of them.
LEMMA SumCovers ==
  ASSUME NEW S, IsFiniteSet(S), NEW f, \A y \in S : f[y] \in Nat, NEW x \in S
  PROVE  /\ SumFunctionOnSet(f, S) \in Nat
         /\ f[x] <= SumFunctionOnSet(f, S)
<1>1. SumFunctionOnSet(f, S) = f[x] + SumFunctionOnSet(f, S \ {x})
  BY SumSplit
<1>2. SumFunctionOnSet(f, S \ {x}) \in Int /\ SumFunctionOnSet(f, S \ {x}) >= 0
  <2>1. IsFiniteSet(S \ {x}) /\ \A y \in S \ {x} : f[y] \in Int /\ f[y] >= 0
    BY FS_RemoveElement
  <2> QED BY <2>1, SumType
<1> QED BY <1>1, <1>2

\* Where three functions satisfy h = f + g, their sums do.
LEMMA SumOfTwo ==
  ASSUME NEW S, IsFiniteSet(S),
         NEW f, \A y \in S : f[y] \in Int,
         NEW g, \A y \in S : g[y] \in Int,
         NEW h, \A y \in S : h[y] = f[y] + g[y]
  PROVE  SumFunctionOnSet(h, S) = SumFunctionOnSet(f, S) + SumFunctionOnSet(g, S)
<1> DEFINE Adds(T) == SumFunctionOnSet(h, T)
                        = SumFunctionOnSet(f, T) + SumFunctionOnSet(g, T)
           Bad == {T \in SUBSET S : ~Adds(T)}
<1>1. Bad = {}
  <2> SUFFICES ASSUME Bad # {} PROVE FALSE
    OBVIOUS
  <2>1. PICK T \in Bad : \A U \in Bad : U \subseteq T => U = T
    <3>1. Bad \subseteq SUBSET S
      OBVIOUS
    <3> HIDE DEF Bad
    <3> QED BY <3>1, SmallestSet
  <2>2. IsFiniteSet(T)
    BY FS_Subset
  <2>3. T # {}
    <3>1. Adds({})
      BY SumOfNone
    <3> QED BY <3>1
  <2> DEFINE x == Pick(T)
             U == T \ {x}
  <2>4. /\ x \in T
        /\ SumFunctionOnSet(f, T) = f[x] + SumFunctionOnSet(f, U)
        /\ SumFunctionOnSet(g, T) = g[x] + SumFunctionOnSet(g, U)
        /\ SumFunctionOnSet(h, T) = h[x] + SumFunctionOnSet(h, U)
    BY <2>2, <2>3, SumOfPicked
  <2>5. Adds(U)
    BY <2>1, <2>4
  <2>6. SumFunctionOnSet(f, U) \in Int /\ SumFunctionOnSet(g, U) \in Int
    BY <2>2, FS_RemoveElement, SumType
  <2>7. f[x] \in Int /\ g[x] \in Int /\ h[x] = f[x] + g[x]
    BY <2>4
  <2>8. Adds(T)
    <3> HIDE DEF x, U
    <3> QED BY <2>4, <2>5, <2>6, <2>7
  <2> QED BY <2>8
<1> QED BY <1>1

\* Where h = k * f, the sum of h is k times that of f.
LEMMA SumOfMultiple ==
  ASSUME NEW S, IsFiniteSet(S), NEW k \in Int,
         NEW f, \A y \in S : f[y] \in Int,
         NEW h, \A y \in S : h[y] = k * f[y]
  PROVE  SumFunctionOnSet(h, S) = k * SumFunctionOnSet(f, S)
<1> DEFINE Scales(T) == SumFunctionOnSet(h, T) = k * SumFunctionOnSet(f, T)
           Bad == {T \in SUBSET S : ~Scales(T)}
<1>1. Bad = {}
  <2> SUFFICES ASSUME Bad # {} PROVE FALSE
    OBVIOUS
  <2>1. PICK T \in Bad : \A U \in Bad : U \subseteq T => U = T
    <3>1. Bad \subseteq SUBSET S
      OBVIOUS
    <3> HIDE DEF Bad
    <3> QED BY <3>1, SmallestSet
  <2>2. IsFiniteSet(T)
    BY FS_Subset
  <2>3. T # {}
    <3>1. k * 0 = 0
      OBVIOUS
    <3>2. Scales({})
      BY <3>1, SumOfNone
    <3> QED BY <3>2
  <2> DEFINE x == Pick(T)
             U == T \ {x}
  <2>4. /\ x \in T
        /\ SumFunctionOnSet(f, T) = f[x] + SumFunctionOnSet(f, U)
        /\ SumFunctionOnSet(h, T) = h[x] + SumFunctionOnSet(h, U)
    BY <2>2, <2>3, SumOfPicked
  <2>5. Scales(U)
    BY <2>1, <2>4
  <2>6. SumFunctionOnSet(f, U) \in Int
    BY <2>2, FS_RemoveElement, SumType
  <2>7. f[x] \in Int /\ h[x] = k * f[x]
    BY <2>4
  <2>8. Scales(T)
    <3>1. \A a, b \in Int : k * (a + b) = k * a + k * b
      OBVIOUS
    <3> HIDE DEF x, U
    <3> QED BY <2>4, <2>5, <2>6, <2>7, <3>1
  <2> QED BY <2>8
<1> QED BY <1>1

\* A bound on each element bounds the sum.
LEMMA SumBounded ==
  ASSUME NEW S, IsFiniteSet(S), NEW f, NEW n \in Nat,
         \A y \in S : f[y] \in Int /\ f[y] <= n
  PROVE  SumFunctionOnSet(f, S) <= n * Cardinality(S)
<1> DEFINE Within(T) == SumFunctionOnSet(f, T) <= n * Cardinality(T)
           Bad == {T \in SUBSET S : ~Within(T)}
<1>1. Bad = {}
  <2> SUFFICES ASSUME Bad # {} PROVE FALSE
    OBVIOUS
  <2>1. PICK T \in Bad : \A U \in Bad : U \subseteq T => U = T
    <3>1. Bad \subseteq SUBSET S
      OBVIOUS
    <3> HIDE DEF Bad
    <3> QED BY <3>1, SmallestSet
  <2>2. IsFiniteSet(T)
    BY FS_Subset
  <2>3. T # {}
    <3>1. SumFunctionOnSet(f, {}) = 0 /\ Cardinality({}) = 0 /\ n * 0 = 0
      BY SumOfNone, FS_EmptySet
    <3>2. Within({})
      BY <3>1
    <3> QED BY <3>2
  <2> DEFINE x == Pick(T)
             U == T \ {x}
  <2>4. /\ x \in T
        /\ SumFunctionOnSet(f, T) = f[x] + SumFunctionOnSet(f, U)
    BY <2>2, <2>3, SumOfPicked
  <2>5. Within(U)
    BY <2>1, <2>4
  <2>6. SumFunctionOnSet(f, U) \in Int
    BY <2>2, FS_RemoveElement, SumType
  <2>7. f[x] \in Int /\ f[x] <= n
    BY <2>4
  <2>8. Cardinality(T) \in Nat /\ Cardinality(U) = Cardinality(T) - 1
    BY <2>2, <2>4, FS_RemoveElement, FS_CardinalityType
  <2>9. Within(T)
    <3>1. \A a \in Nat : n * (a - 1) = n * a - n /\ n * a \in Int
      OBVIOUS
    <3>2. n * Cardinality(U) = n * Cardinality(T) - n /\ n * Cardinality(T) \in Int
      BY <2>8, <3>1
    <3> HIDE DEF x, U
    <3> QED BY <2>4, <2>5, <2>6, <2>7, <3>2
  <2> QED BY <2>9
<1> QED BY <1>1

\* Elements that count nothing may be left out.
LEMMA SumOfPart ==
  ASSUME NEW S, IsFiniteSet(S), NEW T \in SUBSET S,
         NEW f, \A y \in S : f[y] \in Int, \A y \in S \ T : f[y] = 0
  PROVE  SumFunctionOnSet(f, S) = SumFunctionOnSet(f, T)
<1> DEFINE Equal(U) == SumFunctionOnSet(f, U) = SumFunctionOnSet(f, T)
           Bad == {U \in SUBSET S : T \subseteq U /\ ~Equal(U)}
<1>1. Bad = {}
  <2> SUFFICES ASSUME Bad # {} PROVE FALSE
    OBVIOUS
  <2>1. PICK U \in Bad : \A W \in Bad : W \subseteq U => W = U
    <3>1. Bad \subseteq SUBSET S
      OBVIOUS
    <3> HIDE DEF Bad
    <3> QED BY <3>1, SmallestSet
  <2>2. IsFiniteSet(U)
    BY FS_Subset
  <2>3. PICK x \in U \ T : TRUE
    OBVIOUS
  <2>4. SumFunctionOnSet(f, U) = f[x] + SumFunctionOnSet(f, U \ {x})
    BY <2>2, SumSplit
  <2>5. Equal(U \ {x})
    BY <2>1, <2>3
  <2>6. SumFunctionOnSet(f, U \ {x}) \in Int
    <3>1. IsFiniteSet(U \ {x}) /\ \A y \in U \ {x} : f[y] \in Int
      BY <2>2, FS_RemoveElement
    <3> QED BY <3>1, SumType
  <2> QED BY <2>4, <2>5, <2>6
<1> QED BY <1>1

\* A remainder is unique.
LEMMA RemainderUnique ==
    ASSUME NEW u \in Nat \ {0}, NEW q \in Int, NEW r \in 0..(u - 1)
    PROVE  (u * q + r) % u = r
<1> DEFINE n == u * q + r
           d == n \div u
           m == n % u
<1>1. n \in Int
  OBVIOUS
<1>2. d \in Int /\ m \in 0..(u - 1) /\ n = u * d + m
  BY <1>1
<1>3. ~(d < q)
  <2> SUFFICES ASSUME d <= q - 1 PROVE FALSE
    BY <1>2
  <2>1. u * d <= u * (q - 1)
    BY <1>2
  <2>2. u * (q - 1) = u * q - u
    OBVIOUS
  <2> QED
    BY <1>2, <2>1, <2>2
<1>4. ~(q < d)
  <2> SUFFICES ASSUME q + 1 <= d PROVE FALSE
    BY <1>2
  <2>1. u * (q + 1) <= u * d
    BY <1>2
  <2>2. u * (q + 1) = u * q + u
    OBVIOUS
  <2> QED
    BY <1>2, <2>1, <2>2
<1>5. d = q
  BY <1>2, <1>3, <1>4
<1> QED
  BY <1>2, <1>5
================================================================================
