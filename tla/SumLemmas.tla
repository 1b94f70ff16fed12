------------------------------ MODULE SumLemmas ------------------------------
(***************************************************************************)
(* Sums of a function over a finite set (SumFunctionOnSet) and over an     *)
(* initial segment of the natural numbers (Prefix): the limiters' windows  *)
(* are such sums.                                                          *)
(*                                                                         *)
(* Induction is stated with a set of good elements, not with an operator:  *)
(* it follows from the well-foundedness of proper inclusion, and a use of  *)
(* it shows that a set is all of SUBSET S or of 0..N.                      *)
(***************************************************************************)
EXTENDS FiniteSetTheorems, TLAPS

\* Whatever passes from the proper subsets of a set to the set holds of all
\* subsets of a finite one.
LEMMA FiniteInduction ==
  ASSUME NEW S, IsFiniteSet(S), NEW Good,
         \A T \in SUBSET S : (\A U \in SUBSET T : U # T => U \in Good) => T \in Good
  PROVE  \A T \in SUBSET S : T \in Good
<1> DEFINE Bad == (SUBSET S) \ Good
<1> SUFFICES ASSUME Bad # {} PROVE FALSE
  OBVIOUS
<1>1. Bad \subseteq FiniteSubsetsOf(S)
  BY FS_FiniteSubsetsOfFinite
<1>2. IsWellFoundedOn(StrictSubsetOrdering(S), FiniteSubsetsOf(S))
  BY FS_StrictSubsetOrderingWellFounded
<1>3. PICK T \in Bad : \A U \in Bad : ~ (<<U, T>> \in StrictSubsetOrdering(S))
  <2> HIDE DEF Bad
  <2> QED BY <1>1, <1>2, WFMin
<1>4. ASSUME NEW U \in SUBSET T, U # T PROVE U \in Good
  <2>1. T \in SUBSET S /\ U \in SUBSET S
    BY <1>3
  <2>2. <<U, T>> \in StrictSubsetOrdering(S)
    BY <2>1, <1>4 DEF StrictSubsetOrdering
  <2> QED BY <1>3, <2>1, <2>2
<1> QED BY <1>3, <1>4

-----------------------------------------------------------------------------
Chosen(s) == CHOOSE x \in s : TRUE

StepsOf(f, T, g) ==
    g = [s \in SUBSET T |-> IF s = {} THEN 0 ELSE f[Chosen(s)] + g[s \ {Chosen(s)}]]

\* The library defines a sum by a function on subsets that takes one element
\* after another; StepsOf is what it says of that function.
LEMMA SumDef ==
  ASSUME NEW f, NEW S
  PROVE  SumFunctionOnSet(f, S) = (CHOOSE g : StepsOf(f, S, g))[S]
BY DEF SumFunctionOnSet, FoldFunctionOnSet, MapThenFoldSet, StepsOf, Chosen

LEMMA ChosenIn == ASSUME NEW s, s # {} PROVE Chosen(s) \in s
BY DEF Chosen

\* Two such functions agree where both are defined, and there is one.
LEMMA StepsAgree ==
  ASSUME NEW f, NEW S, IsFiniteSet(S), NEW g, NEW h, StepsOf(f, S, g),
         NEW U \in SUBSET S, StepsOf(f, U, h)
  PROVE  g[U] = h[U]
<1> DEFINE Good == {T \in SUBSET U : g[T] = h[T]}
<1>1. IsFiniteSet(U)
  BY FS_Subset
<1>2. ASSUME NEW T \in SUBSET U, \A V \in SUBSET T : V # T => V \in Good PROVE T \in Good
  <2>1. g[T] = IF T = {} THEN 0 ELSE f[Chosen(T)] + g[T \ {Chosen(T)}]
    BY DEF StepsOf
  <2>2. h[T] = IF T = {} THEN 0 ELSE f[Chosen(T)] + h[T \ {Chosen(T)}]
    BY DEF StepsOf
  <2>3. T # {} => g[T \ {Chosen(T)}] = h[T \ {Chosen(T)}]
    BY <1>2, ChosenIn
  <2> QED BY <2>1, <2>2, <2>3
<1>3. \A T \in SUBSET U : T \in Good
  <2> HIDE DEF Good
  <2> QED BY <1>1, <1>2, FiniteInduction
<1> QED BY <1>3

LEMMA SumSteps ==
  ASSUME NEW f, NEW S, IsFiniteSet(S)
  PROVE  \E g : StepsOf(f, S, g)
<1> DEFINE Good == {T \in SUBSET S : \E g : StepsOf(f, T, g)}
<1>1. ASSUME NEW T \in SUBSET S, \A U \in SUBSET T : U # T => U \in Good PROVE T \in Good
  <2> DEFINE Sum(U) == (CHOOSE g : StepsOf(f, U, g))[U]
             Next(s) == IF s = {} THEN 0 ELSE f[Chosen(s)] + Sum(s \ {Chosen(s)})
             h == [s \in SUBSET T |-> Next(s)]
  <2>1. ASSUME NEW U \in SUBSET T, U # T PROVE Sum(U) = Next(U)
    <3>1. PICK g : StepsOf(f, U, g) /\ Sum(U) = g[U]
      <4>1. \E g : StepsOf(f, U, g)
        BY <1>1, <2>1
      <4> QED BY <4>1
    <3>2. g[U] = IF U = {} THEN 0 ELSE f[Chosen(U)] + g[U \ {Chosen(U)}]
      BY <3>1 DEF StepsOf
    <3>3. CASE U # {}
      <4> DEFINE V == U \ {Chosen(U)}
      <4>1. V \in SUBSET T /\ V # T /\ V \in SUBSET U
        BY <2>1, <3>3, ChosenIn
      <4>2. StepsOf(f, V, CHOOSE k : StepsOf(f, V, k))
        BY <1>1, <4>1
      <4>3. IsFiniteSet(U)
        BY FS_Subset
      <4>4. g[V] = Sum(V)
        <5> HIDE DEF V
        <5> QED BY <3>1, <4>1, <4>2, <4>3, StepsAgree
      <4> QED BY <3>1, <3>2, <3>3, <4>4
    <3> QED BY <3>1, <3>2, <3>3
  <2>2. ASSUME NEW s \in SUBSET T, s # {} PROVE Sum(s \ {Chosen(s)}) = h[s \ {Chosen(s)}]
    <3> DEFINE V == s \ {Chosen(s)}
    <3>1. V \in SUBSET T /\ V # T
      BY <2>2, ChosenIn
    <3> HIDE DEF V, Next, Sum
    <3>2. Sum(V) = Next(V) /\ h[V] = Next(V)
      BY <3>1, <2>1
    <3> QED BY <3>2 DEF V
  <2>3. ASSUME NEW s \in SUBSET T PROVE h[s] = IF s = {} THEN 0 ELSE f[Chosen(s)] + h[s \ {Chosen(s)}]
    <3>1. h[s] = Next(s)
      <4> HIDE DEF Next
      <4> QED OBVIOUS
    <3> HIDE DEF h, Sum
    <3> QED BY <2>2, <3>1
  <2>4. StepsOf(f, T, h)
    <3>1. h = [s \in SUBSET T |-> IF s = {} THEN 0 ELSE f[Chosen(s)] + h[s \ {Chosen(s)}]]
      <4> HIDE DEF Next
      <4>1. h = [s \in SUBSET T |-> h[s]]
        OBVIOUS
      <4> HIDE DEF h
      <4> QED BY <4>1, <2>3
    <3> HIDE DEF h
    <3> QED BY <3>1 DEF StepsOf
  <2> QED BY <2>4
<1>2. \A T \in SUBSET S : T \in Good
  <2> HIDE DEF Good
  <2> QED BY <1>1, FiniteInduction
<1> QED BY <1>2

LEMMA SumEmpty == ASSUME NEW f PROVE SumFunctionOnSet(f, {}) = 0
<1> DEFINE g == CHOOSE g : StepsOf(f, {}, g)
<1>1. StepsOf(f, {}, g)
  BY SumSteps, FS_EmptySet
<1>2. g[{}] = 0
  <2> HIDE DEF g
  <2> QED BY <1>1 DEF StepsOf
<1> QED BY <1>2, SumDef

\* The sum by the element the definition takes first.
LEMMA SumByChosen ==
  ASSUME NEW f, NEW S, IsFiniteSet(S), S # {}
  PROVE  SumFunctionOnSet(f, S) = f[Chosen(S)] + SumFunctionOnSet(f, S \ {Chosen(S)})
<1> DEFINE V == S \ {Chosen(S)}
           g == CHOOSE g : StepsOf(f, S, g)
           h == CHOOSE h : StepsOf(f, V, h)
<1>1. IsFiniteSet(V) /\ V \in SUBSET S
  BY FS_Subset
<1>2. StepsOf(f, S, g) /\ StepsOf(f, V, h)
  <2> HIDE DEF V
  <2> QED BY <1>1, SumSteps
<1>3. g[V] = h[V]
  <2> HIDE DEF V, g, h
  <2> QED BY <1>1, <1>2, StepsAgree
<1>4. g[S] = f[Chosen(S)] + g[V]
  <2> HIDE DEF g
  <2> QED BY <1>2 DEF StepsOf
<1>5. SumFunctionOnSet(f, S) = g[S] /\ SumFunctionOnSet(f, V) = h[V]
  <2> HIDE DEF V
  <2> QED BY SumDef
<1> QED BY <1>3, <1>4, <1>5

\* What a sum is, and that it depends on the values only.
LEMMA SumType ==
  ASSUME NEW f, NEW S, IsFiniteSet(S), \A x \in S : f[x] \in Int
  PROVE  SumFunctionOnSet(f, S) \in Int
<1> DEFINE Good == {T \in SUBSET S : SumFunctionOnSet(f, T) \in Int}
<1>1. ASSUME NEW T \in SUBSET S, \A U \in SUBSET T : U # T => U \in Good PROVE T \in Good
  <2>1. CASE T = {}
    BY <2>1, SumEmpty
  <2>2. CASE T # {}
    <3>1. IsFiniteSet(T) /\ Chosen(T) \in T
      BY <2>2, FS_Subset, ChosenIn
    <3>2. T \ {Chosen(T)} \in Good
      BY <1>1, <3>1
    <3> QED BY <2>2, <3>1, <3>2, SumByChosen
  <2> QED BY <2>1, <2>2
<1>2. \A T \in SUBSET S : T \in Good
  <2> HIDE DEF Good
  <2> QED BY <1>1, FiniteInduction
<1> QED BY <1>2

LEMMA SumSame ==
  ASSUME NEW f, NEW g, NEW S, IsFiniteSet(S), \A x \in S : f[x] = g[x]
  PROVE  SumFunctionOnSet(f, S) = SumFunctionOnSet(g, S)
<1> DEFINE Good == {T \in SUBSET S : SumFunctionOnSet(f, T) = SumFunctionOnSet(g, T)}
<1>1. ASSUME NEW T \in SUBSET S, \A U \in SUBSET T : U # T => U \in Good PROVE T \in Good
  <2>1. CASE T = {}
    BY <2>1, SumEmpty
  <2>2. CASE T # {}
    <3>1. IsFiniteSet(T) /\ Chosen(T) \in T
      BY <2>2, FS_Subset, ChosenIn
    <3>2. T \ {Chosen(T)} \in Good
      BY <1>1, <3>1
    <3>3. /\ SumFunctionOnSet(f, T) = f[Chosen(T)] + SumFunctionOnSet(f, T \ {Chosen(T)})
          /\ SumFunctionOnSet(g, T) = g[Chosen(T)] + SumFunctionOnSet(g, T \ {Chosen(T)})
      BY <2>2, <3>1, SumByChosen
    <3> QED BY <3>1, <3>2, <3>3
  <2> QED BY <2>1, <2>2
<1>2. \A T \in SUBSET S : T \in Good
  <2> HIDE DEF Good
  <2> QED BY <1>1, FiniteInduction
<1> QED BY <1>2

\* The order does not matter: any element may be the first.
LEMMA SumRemove ==
  ASSUME NEW f, NEW S, IsFiniteSet(S), \A x \in S : f[x] \in Int, NEW x \in S
  PROVE  SumFunctionOnSet(f, S) = f[x] + SumFunctionOnSet(f, S \ {x})
<1> DEFINE Good == {T \in SUBSET S : \A y \in T :
                       SumFunctionOnSet(f, T) = f[y] + SumFunctionOnSet(f, T \ {y})}
<1>1. ASSUME NEW T \in SUBSET S, \A U \in SUBSET T : U # T => U \in Good, NEW y \in T
      PROVE  SumFunctionOnSet(f, T) = f[y] + SumFunctionOnSet(f, T \ {y})
  <2> DEFINE c == Chosen(T)
  <2>1. IsFiniteSet(T) /\ c \in T
    BY FS_Subset, ChosenIn
  <2>2. SumFunctionOnSet(f, T) = f[c] + SumFunctionOnSet(f, T \ {c})
    BY <2>1, SumByChosen
  <2>3. CASE y # c
    <3>1. T \ {c} \in Good /\ T \ {y} \in Good /\ y \in T \ {c} /\ c \in T \ {y}
      BY <1>1, <2>1, <2>3
    <3>2. /\ SumFunctionOnSet(f, T \ {c}) = f[y] + SumFunctionOnSet(f, (T \ {c}) \ {y})
          /\ SumFunctionOnSet(f, T \ {y}) = f[c] + SumFunctionOnSet(f, (T \ {y}) \ {c})
      BY <3>1
    <3>3. (T \ {c}) \ {y} = (T \ {y}) \ {c} /\ IsFiniteSet((T \ {y}) \ {c})
      BY <2>1, FS_Subset
    <3>4. f[y] \in Int /\ f[c] \in Int /\ SumFunctionOnSet(f, (T \ {y}) \ {c}) \in Int
      BY <2>1, <3>3, SumType
    <3> DEFINE rest == SumFunctionOnSet(f, (T \ {y}) \ {c})
    <3>5. /\ SumFunctionOnSet(f, T) = f[c] + (f[y] + rest)
          /\ SumFunctionOnSet(f, T \ {y}) = f[c] + rest
          /\ rest \in Int
      <4> HIDE DEF c
      <4> QED BY <2>2, <3>2, <3>3, <3>4
    <3> HIDE DEF c, rest
    <3> QED BY <3>4, <3>5
  <2> QED BY <2>2, <2>3
<1>2. ASSUME NEW T \in SUBSET S, \A U \in SUBSET T : U # T => U \in Good PROVE T \in Good
  BY <1>1, <1>2
<1>3. \A T \in SUBSET S : T \in Good
  <2> HIDE DEF Good
  <2> QED BY <1>2, FiniteInduction
<1> QED BY <1>3

LEMMA SumAdd ==
  ASSUME NEW f, NEW S, IsFiniteSet(S), NEW x, x \notin S, \A y \in S \cup {x} : f[y] \in Int
  PROVE  SumFunctionOnSet(f, S \cup {x}) = f[x] + SumFunctionOnSet(f, S)
<1>1. IsFiniteSet(S \cup {x}) /\ (S \cup {x}) \ {x} = S /\ x \in S \cup {x}
  BY FS_AddElement
<1> DEFINE T == S \cup {x}
<1>2. SumFunctionOnSet(f, T) = f[x] + SumFunctionOnSet(f, T \ {x})
  <2>1. IsFiniteSet(T) /\ x \in T /\ \A y \in T : f[y] \in Int
    BY <1>1
  <2> HIDE DEF T
  <2> QED BY <2>1, SumRemove
<1> QED BY <1>1, <1>2

\* One value changed: the sum follows.
LEMMA SumChange ==
  ASSUME NEW S, IsFiniteSet(S), NEW i \in S, NEW f, NEW g,
         \A x \in S : f[x] \in Int, \A x \in S : g[x] \in Int,
         \A x \in S \ {i} : f[x] = g[x]
  PROVE  SumFunctionOnSet(g, S) = SumFunctionOnSet(f, S) + (g[i] - f[i])
<1>1. IsFiniteSet(S \ {i}) /\ f[i] \in Int /\ g[i] \in Int
  BY FS_Subset
<1>2. SumFunctionOnSet(f, S) = f[i] + SumFunctionOnSet(f, S \ {i})
  BY SumRemove
<1>3. SumFunctionOnSet(g, S) = g[i] + SumFunctionOnSet(g, S \ {i})
  BY SumRemove
<1>4. SumFunctionOnSet(f, S \ {i}) \in Int
  BY <1>1, SumType
<1>5. SumFunctionOnSet(f, S \ {i}) = SumFunctionOnSet(g, S \ {i})
  BY <1>1, SumSame
<1> QED BY <1>1, <1>2, <1>3, <1>4, <1>5

\* A sum grows with its values.
LEMMA SumAtMost ==
  ASSUME NEW f, NEW g, NEW S, IsFiniteSet(S),
         \A x \in S : f[x] \in Int /\ g[x] \in Int /\ f[x] <= g[x]
  PROVE  SumFunctionOnSet(f, S) <= SumFunctionOnSet(g, S)
<1> DEFINE Good == {T \in SUBSET S : SumFunctionOnSet(f, T) <= SumFunctionOnSet(g, T)}
<1>1. ASSUME NEW T \in SUBSET S, \A U \in SUBSET T : U # T => U \in Good PROVE T \in Good
  <2>1. CASE T = {}
    BY <2>1, SumEmpty
  <2>2. CASE T # {}
    <3> DEFINE V == T \ {Chosen(T)}
    <3>1. IsFiniteSet(T) /\ Chosen(T) \in T /\ V \in SUBSET S /\ IsFiniteSet(V)
      BY <2>2, FS_Subset, ChosenIn
    <3>2. V \in Good
      BY <1>1, <3>1
    <3>3. /\ SumFunctionOnSet(f, T) = f[Chosen(T)] + SumFunctionOnSet(f, V)
          /\ SumFunctionOnSet(g, T) = g[Chosen(T)] + SumFunctionOnSet(g, V)
      BY <2>2, <3>1, SumByChosen
    <3>4. SumFunctionOnSet(f, V) \in Int /\ SumFunctionOnSet(g, V) \in Int
      <4> HIDE DEF V
      <4> QED BY <3>1, SumType
    <3> HIDE DEF V
    <3> QED BY <3>1, <3>2, <3>3, <3>4
  <2> QED BY <2>1, <2>2
<1>2. \A T \in SUBSET S : T \in Good
  <2> HIDE DEF Good
  <2> QED BY <1>1, FiniteInduction
<1> QED BY <1>2

\* What is the same outside a part of the set counts as often as it occurs.
LEMMA SumRest ==
  ASSUME NEW f, NEW T, IsFiniteSet(T), NEW S \in SUBSET T, NEW d \in Int,
         \A x \in T : f[x] \in Int, \A x \in T \ S : f[x] = d
  PROVE  SumFunctionOnSet(f, T) = SumFunctionOnSet(f, S) + Cardinality(T \ S) * d
<1> DEFINE R == T \ S
           Good == {U \in SUBSET R : SumFunctionOnSet(f, S \cup U) = SumFunctionOnSet(f, S) + Cardinality(U) * d}
<1>1. IsFiniteSet(S) /\ IsFiniteSet(R) /\ SumFunctionOnSet(f, S) \in Int
  <2>1. IsFiniteSet(S) /\ IsFiniteSet(R)
    BY FS_Subset
  <2> QED BY <2>1, SumType
<1>2. ASSUME NEW U \in SUBSET R, \A V \in SUBSET U : V # U => V \in Good PROVE U \in Good
  <2>1. CASE U = {}
    <3>1. Cardinality(U) = 0 /\ S \cup U = S
      BY <2>1, FS_EmptySet
    <3>2. 0 * d = 0
      OBVIOUS
    <3>3. SumFunctionOnSet(f, S \cup U) = SumFunctionOnSet(f, S) + Cardinality(U) * d
      <4> DEFINE a == SumFunctionOnSet(f, S)
      <4>1. a \in Int
        BY <1>1
      <4> HIDE DEF a
      <4>2. a = a + 0 * d
        BY <3>2, <4>1
      <4> QED BY <3>1, <4>2, Zenon DEF a
    <3> QED BY <3>3
  <2>2. CASE U # {}
    <3>1. PICK x \in U : TRUE
      BY <2>2
    <3> DEFINE V == U \ {x}
    <3>2. V \in SUBSET U /\ V # U /\ x \notin V /\ U = V \cup {x} /\ IsFiniteSet(V) /\ f[x] = d
      BY <1>1, <3>1, FS_Subset
    <3>3. V \in Good
      BY <1>2, <3>2
    <3>4. Cardinality(U) = Cardinality(V) + 1 /\ Cardinality(V) \in Nat
      BY <3>2, FS_AddElement, FS_CardinalityType
    <3>5. /\ IsFiniteSet(S \cup V) /\ x \notin S \cup V /\ S \cup U = (S \cup V) \cup {x}
          /\ \A y \in (S \cup V) \cup {x} : f[y] \in Int
      BY <1>1, <3>2, FS_Union
    <3>6. SumFunctionOnSet(f, (S \cup V) \cup {x}) = f[x] + SumFunctionOnSet(f, S \cup V)
      BY <3>5, SumAdd
    <3>7. SumFunctionOnSet(f, S \cup V) = SumFunctionOnSet(f, S) + Cardinality(V) * d
      BY <3>3
    <3>8. Cardinality(U) * d = Cardinality(V) * d + d /\ Cardinality(V) * d \in Int
      <4> DEFINE n == Cardinality(V)
      <4>1. n \in Nat /\ Cardinality(U) = n + 1
        BY <3>4
      <4> HIDE DEF n
      <4>2. (n + 1) * d = n * d + d /\ n * d \in Int
        BY <4>1
      <4> QED BY <4>1, <4>2 DEF n
    <3>9. SumFunctionOnSet(f, S \cup U) = SumFunctionOnSet(f, S) + Cardinality(U) * d
      <4> DEFINE a == SumFunctionOnSet(f, S)
                 b == SumFunctionOnSet(f, S \cup V)
                 c == SumFunctionOnSet(f, S \cup U)
                 m == Cardinality(V) * d
                 n == Cardinality(U) * d
      <4>1. c = f[x] + b
        BY <3>5, <3>6, Zenon
      <4>2. a \in Int /\ b = a + m /\ n = m + d /\ m \in Int /\ f[x] = d
        BY <1>1, <3>2, <3>7, <3>8
      <4> HIDE DEF a, b, c, m, n
      <4>3. c = a + n
        BY <4>1, <4>2
      <4> QED BY <4>3 DEF a, c, n
    <3> QED BY <3>9
  <2> QED BY <2>1, <2>2
<1>3. \A U \in SUBSET R : U \in Good
  <2> HIDE DEF Good, R
  <2> QED BY <1>1, <1>2, FiniteInduction
<1>4. R \in Good /\ S \cup R = T
  BY <1>3
<1> QED BY <1>4

LEMMA SumWithin ==
  ASSUME NEW f, NEW S, IsFiniteSet(S), NEW d \in Int, \A x \in S : f[x] \in Int /\ f[x] <= d
  PROVE  SumFunctionOnSet(f, S) <= Cardinality(S) * d
<1> DEFINE g == [x \in S |-> d]
<1>1. \A x \in S : f[x] \in Int /\ g[x] \in Int /\ f[x] <= g[x] /\ g[x] = d
  OBVIOUS
<1>2. {} \in SUBSET S /\ S \ {} = S
  OBVIOUS
<1> HIDE DEF g
<1>3. SumFunctionOnSet(f, S) <= SumFunctionOnSet(g, S)
  BY <1>1, SumAtMost
<1>4. SumFunctionOnSet(g, S) = SumFunctionOnSet(g, {}) + Cardinality(S \ {}) * d
  BY <1>1, <1>2, SumRest
<1>5. Cardinality(S) \in Nat /\ Cardinality(S) * d \in Int
  BY FS_CardinalityType
<1> QED BY <1>2, <1>3, <1>4, <1>5, SumEmpty

-----------------------------------------------------------------------------
\* The same for the natural numbers up to N.
LEMMA NaturalInduction ==
  ASSUME NEW N \in Nat, NEW Good, 0 \in Good, \A n \in 0..N - 1 : n \in Good => n + 1 \in Good
  PROVE  \A n \in 0..N : n \in Good
<1> DEFINE Closed == {T \in SUBSET (0..N) : \A n \in T : 0..n \subseteq T => n \in Good}
<1>1. ASSUME NEW T \in SUBSET (0..N), \A U \in SUBSET T : U # T => U \in Closed PROVE T \in Closed
  <2> SUFFICES ASSUME NEW n \in T, 0..n \subseteq T PROVE n \in Good
    OBVIOUS
  <2>1. CASE n = 0
    BY <2>1
  <2>2. CASE n # 0
    <3>1. n \in 1..N /\ n - 1 \in 0..N - 1 /\ n = (n - 1) + 1
      BY <2>2
    <3>2. 0..n - 1 \in SUBSET T /\ n \notin 0..n - 1 /\ n - 1 \in 0..n - 1
      BY <3>1
    <3>3. 0..n - 1 \in Closed
      BY <1>1, <3>2
    <3>4. n - 1 \in Good
      BY <3>2, <3>3
    <3> QED BY <3>1, <3>4
  <2> QED BY <2>1, <2>2
<1>2. IsFiniteSet(0..N)
  BY FS_Interval
<1>3. \A T \in SUBSET (0..N) : T \in Closed
  <2> HIDE DEF Closed
  <2> QED BY <1>1, <1>2, FiniteInduction
<1>4. 0..N \in Closed
  BY <1>3
<1> QED BY <1>4

\* The first n values of f, and what the lemmas above say of them.
Prefix(f, n) == SumFunctionOnSet(f, 0..n - 1)

LEMMA PrefixZero == ASSUME NEW f PROVE Prefix(f, 0) = 0
<1>1. 0..0 - 1 = {}
  OBVIOUS
<1> QED BY <1>1, SumEmpty DEF Prefix

LEMMA PrefixStep ==
  ASSUME NEW f, NEW n \in Nat, \A m \in 0..n : f[m] \in Int
  PROVE  Prefix(f, n + 1) = Prefix(f, n) + f[n] /\ Prefix(f, n) \in Int
<1> DEFINE S == 0..n - 1
<1>1. /\ IsFiniteSet(S) /\ n \notin S /\ 0..(n + 1) - 1 = S \cup {n}
      /\ f[n] \in Int /\ \A m \in S \cup {n} : f[m] \in Int
  BY FS_Interval
<1> HIDE DEF S
<1>2. SumFunctionOnSet(f, S) \in Int
  BY <1>1, SumType
<1>3. SumFunctionOnSet(f, S \cup {n}) = f[n] + SumFunctionOnSet(f, S)
  BY <1>1, SumAdd
<1>4. Prefix(f, n + 1) = f[n] + SumFunctionOnSet(f, S)
  BY <1>1, <1>3 DEF Prefix
<1>5. Prefix(f, n + 1) = SumFunctionOnSet(f, S) + f[n]
  BY <1>1, <1>2, <1>4
<1> QED BY <1>2, <1>5 DEF S, Prefix

LEMMA PrefixType ==
  ASSUME NEW f, NEW n \in Nat, \A m \in 0..n - 1 : f[m] \in Int
  PROVE  Prefix(f, n) \in Int
<1>1. IsFiniteSet(0..n - 1)
  BY FS_Interval
<1> QED BY <1>1, SumType DEF Prefix

LEMMA PrefixAtMost ==
  ASSUME NEW f, NEW g, NEW n \in Nat,
         \A m \in 0..n - 1 : f[m] \in Int /\ g[m] \in Int /\ f[m] <= g[m]
  PROVE  Prefix(f, n) <= Prefix(g, n)
<1>1. IsFiniteSet(0..n - 1)
  BY FS_Interval
<1> QED BY <1>1, SumAtMost DEF Prefix

\* Of natural numbers, more add up to more.
LEMMA PrefixGrows ==
  ASSUME NEW f, NEW n \in Nat, \A m \in 0..n - 1 : f[m] \in Nat, NEW k \in 0..n
  PROVE  Prefix(f, k) \in Nat /\ Prefix(f, k) <= Prefix(f, n)
<1> DEFINE Good == {j \in 0..n : /\ Prefix(f, j) \in Nat
                                 /\ \A i \in 0..j : Prefix(f, i) \in Nat /\ Prefix(f, i) <= Prefix(f, j)}
<1>1. 0 \in Good
  BY PrefixZero
<1>2. ASSUME NEW j \in 0..n - 1, j \in Good PROVE j + 1 \in Good
  <2>1. Prefix(f, j + 1) = Prefix(f, j) + f[j] /\ f[j] \in Nat
    <3>1. j \in Nat /\ f[j] \in Nat /\ \A m \in 0..j : f[m] \in Int
      OBVIOUS
    <3> QED BY <3>1, PrefixStep
  <2>2. Prefix(f, j) \in Nat /\ Prefix(f, j + 1) \in Nat /\ Prefix(f, j) <= Prefix(f, j + 1)
    BY <1>2, <2>1
  <2>3. ASSUME NEW i \in 0..j + 1 PROVE Prefix(f, i) \in Nat /\ Prefix(f, i) <= Prefix(f, j + 1)
    <3>1. CASE i = j + 1
      BY <2>2, <3>1
    <3>2. CASE i # j + 1
      <4>1. i \in 0..j
        BY <3>2
      <4> QED BY <1>2, <2>2, <4>1
    <3> QED BY <3>1, <3>2
  <2> QED BY <2>2, <2>3
<1>3. \A j \in 0..n : j \in Good
  <2> HIDE DEF Good
  <2> QED BY <1>1, <1>2, NaturalInduction
<1>4. n \in Good
  BY <1>3
<1> QED BY <1>4

LEMMA PrefixNothing ==
  ASSUME NEW f, NEW n \in Nat, \A m \in 0..n - 1 : f[m] = 0
  PROVE  Prefix(f, n) = 0
<1> DEFINE Good == {j \in 0..n : Prefix(f, j) = 0}
<1>1. 0 \in Good
  BY PrefixZero
<1>2. ASSUME NEW j \in 0..n - 1, j \in Good PROVE j + 1 \in Good
  <2>1. j \in Nat /\ f[j] = 0 /\ \A m \in 0..j : f[m] \in Int
    OBVIOUS
  <2>2. Prefix(f, j + 1) = Prefix(f, j) + f[j]
    BY <2>1, PrefixStep
  <2> QED BY <1>2, <2>1, <2>2
<1>3. \A j \in 0..n : j \in Good
  <2> HIDE DEF Good
  <2> QED BY <1>1, <1>2, NaturalInduction
<1>4. n \in Good
  BY <1>3
<1> QED BY <1>4

\* One value changed: the sum follows.
LEMMA PrefixChange ==
  ASSUME NEW f, NEW g, NEW n \in Nat, NEW i \in Nat, NEW d \in Int,
         \A m \in 0..n - 1 : f[m] \in Int, \A m \in 0..n - 1 : g[m] \in Int,
         \A m \in 0..n - 1 : m # i => f[m] = g[m], i < n => g[i] = f[i] + d
  PROVE  Prefix(g, n) = IF i < n THEN Prefix(f, n) + d ELSE Prefix(f, n)
<1> DEFINE S == 0..n - 1
<1>1. IsFiniteSet(S) /\ (\A m \in S : f[m] \in Int) /\ (\A m \in S : g[m] \in Int)
  BY FS_Interval
<1>2. CASE i < n
  <2>1. i \in S /\ g[i] = f[i] + d /\ f[i] \in Int /\ \A m \in S \ {i} : f[m] = g[m]
    BY <1>2
  <2>2. SumFunctionOnSet(f, S) \in Int
    <3> HIDE DEF S
    <3> QED BY <1>1, SumType
  <2>3. SumFunctionOnSet(g, S) = SumFunctionOnSet(f, S) + (g[i] - f[i])
    <3>1. /\ IsFiniteSet(S) /\ i \in S
          /\ (\A x \in S : f[x] \in Int) /\ (\A x \in S : g[x] \in Int)
          /\ (\A x \in S \ {i} : f[x] = g[x])
      BY <1>1, <2>1
    <3> HIDE DEF S
    <3> QED BY ONLY <3>1, SumChange, Zenon
  <2> HIDE DEF S
  <2>4. SumFunctionOnSet(g, S) = SumFunctionOnSet(f, S) + d
    BY <2>1, <2>2, <2>3
  <2> QED BY <1>2, <2>4 DEF S, Prefix
<1>3. CASE ~ (i < n)
  <2>1. \A m \in S : f[m] = g[m]
    BY <1>3
  <2> HIDE DEF S
  <2>2. SumFunctionOnSet(f, S) = SumFunctionOnSet(g, S)
    BY <1>1, <2>1, SumSame
  <2> QED BY <1>3, <2>2 DEF S, Prefix
<1> QED BY <1>2, <1>3

\* Everything moved up by one place: a sum of one place more.
LEMMA PrefixShift ==
  ASSUME NEW N \in Nat, NEW f, NEW g,
         \A m \in 0..N : f[m] \in Int /\ g[m] \in Int,
         \A m \in 1..N : g[m] <= f[m - 1],
         NEW n \in 0..N
  PROVE  Prefix(g, n + 1) <= g[0] + Prefix(f, n)
<1> DEFINE Good == {k \in 0..N : Prefix(g, k + 1) <= g[0] + Prefix(f, k)}
<1>1. 0 \in Good
  <2>1. 0 \in Nat /\ (\A m \in 0..0 : g[m] \in Int) /\ g[0] \in Int
    OBVIOUS
  <2>2. Prefix(g, 0 + 1) = Prefix(g, 0) + g[0]
    BY <2>1, PrefixStep
  <2>3. Prefix(g, 0) = 0 /\ Prefix(f, 0) = 0
    BY PrefixZero
  <2> QED BY <2>1, <2>2, <2>3
<1>2. ASSUME NEW k \in 0..N - 1, k \in Good PROVE k + 1 \in Good
  <2>1. k + 1 \in 0..N /\ k + 1 \in 1..N /\ (k + 1) - 1 = k /\ k \in Nat /\ k + 1 \in Nat
    OBVIOUS
  <2>2. /\ \A m \in 0..k + 1 : g[m] \in Int
        /\ \A m \in 0..k : f[m] \in Int
        /\ \A m \in 0..k : g[m] \in Int
    BY <2>1
  <2>3. /\ Prefix(g, (k + 1) + 1) = Prefix(g, k + 1) + g[k + 1] /\ Prefix(g, k + 1) \in Int
        /\ Prefix(f, k + 1) = Prefix(f, k) + f[k] /\ Prefix(f, k) \in Int
    BY <2>1, <2>2, PrefixStep
  <2>4. g[k + 1] <= f[k] /\ g[0] \in Int /\ f[k] \in Int /\ g[k + 1] \in Int
    BY <2>1
  <2>5. Prefix(g, k + 1) <= g[0] + Prefix(f, k)
    BY <1>2
  <2>6. Prefix(g, (k + 1) + 1) <= g[0] + Prefix(f, k + 1)
    BY <2>3, <2>4, <2>5
  <2> QED BY <2>1, <2>6
<1>3. \A k \in 0..N : k \in Good
  <2> HIDE DEF Good
  <2> QED BY <1>1, <1>2, NaturalInduction
<1> QED BY <1>3
=============================================================================
