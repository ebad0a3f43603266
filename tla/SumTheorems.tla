---------------------------- MODULE SumTheorems ----------------------------
(***************************************************************************)
(* What SumFunctionOnSet returns, over a set and over its classes; what    *)
(* whole division makes of sums and of moments; and how a finite set is    *)
(* put in order: the facts that the proofs about deposits, transfers,      *)
(* counts and charts rest on.                                              *)
(*                                                                         *)
(* The library's theorems for induction take the predicate as an operator. *)
(* Here a set of counterexamples takes its place: it has a minimal member, *)
(* which turns out not to be one.                                          *)
(***************************************************************************)
EXTENDS Integers, SequencesExt, FiniteSetTheorems, TLAPS

Numbers(f, S) == \A x \in S : f[x] \in Int
Naturals(f, S) == \A x \in S : f[x] \in Nat

-----------------------------------------------------------------------------
(* Induction                                                               *)

\* A set of naturals has a least member.
LEMMA LeastNatural ==
    ASSUME NEW N \in SUBSET Nat, N # {}
    PROVE  \E n \in N : \A m \in N : n <= m
<1>1. PICK n \in N : \A m \in N : ~ (<<m, n>> \in OpToRel(<, Nat))
  BY NatLessThanWellFounded, WFMin
<1>2. \A m \in N : ~ (m < n)
  BY <1>1 DEF OpToRel
<1> QED
  BY <1>2

\* Induction over the naturals.
LEMMA NaturalInduction ==
    ASSUME NEW G, 0 \in G, \A n \in Nat : n \in G => n + 1 \in G
    PROVE  Nat \subseteq G
<1> DEFINE N == Nat \ G
<1> SUFFICES ASSUME N # {} PROVE FALSE
  OBVIOUS
<1>1. N \in SUBSET Nat
  OBVIOUS
<1>2. PICK n \in N : \A m \in N : n <= m
  BY <1>1, LeastNatural
<1>3. n \in Nat /\ n \notin G /\ n # 0
  BY <1>2
<1>4. n - 1 \in Nat /\ n - 1 \notin N /\ (n - 1) + 1 = n
  <2>1. n - 1 \in Nat /\ ~ (n <= n - 1) /\ (n - 1) + 1 = n
    BY <1>3
  <2> QED
    BY <1>2, <2>1
<1>5. n - 1 \in G
  BY <1>4
<1> QED
  BY <1>3, <1>4, <1>5

\* A collection of finite sets has a member of which no proper part belongs to it.
LEMMA SmallestSet ==
    ASSUME NEW B, B # {}, \A S \in B : IsFiniteSet(S)
    PROVE  \E S \in B : \A T \in B : T \subseteq S => T = S
<1>1. PICK S \in B : TRUE
  OBVIOUS
<1> DEFINE N == {n \in Nat : \E T \in B : Cardinality(T) = n}
<1>2. N \in SUBSET Nat /\ Cardinality(S) \in N
  BY <1>1, FS_CardinalityType
<1>3. PICK n \in N : \A m \in N : n <= m
  BY <1>2, LeastNatural
<1>4. PICK T \in B : Cardinality(T) = n
  BY <1>3
<1>5. ASSUME NEW U \in B, U \subseteq T PROVE U = T
  <2>1. IsFiniteSet(T) /\ Cardinality(U) \in N
    BY FS_CardinalityType
  <2>2. Cardinality(U) <= Cardinality(T) /\ (Cardinality(U) = Cardinality(T) => U = T)
    BY <1>5, <2>1, FS_Subset
  <2>3. Cardinality(U) \in Nat /\ Cardinality(T) \in Nat /\ n <= Cardinality(U)
    BY <1>3, <1>4, <2>1
  <2> QED
    BY <1>4, <2>2, <2>3
<1> QED
  BY <1>5

\* Induction over a finite set: the sets of which something is known contain the empty
\* one, and those they grow to by a member.
LEMMA SetInduction ==
    ASSUME NEW S, IsFiniteSet(S), NEW G, {} \in G,
           \A T \in SUBSET S, x \in S : T \in G /\ x \notin T => T \cup {x} \in G
    PROVE  S \in G
<1> DEFINE B == (SUBSET S) \ G
<1> SUFFICES ASSUME B # {} PROVE FALSE
  OBVIOUS
<1>1. \A T \in B : IsFiniteSet(T)
  BY FS_Subset
<1>2. PICK T \in B : \A U \in B : U \subseteq T => U = T
  <2> HIDE DEF B
  <2> QED
    BY <1>1, SmallestSet
<1>3. PICK x \in T : TRUE
  BY <1>2
<1>4. T \ {x} \in SUBSET S /\ x \in S /\ T = (T \ {x}) \cup {x} /\ T \ {x} \in G
  BY <1>2, <1>3
<1> QED
  BY <1>2, <1>4

-----------------------------------------------------------------------------
(* The recursion                                                           *)

Pick(s) == CHOOSE x \in s : TRUE
IsIter(g, f, D) == g = [s \in D |-> IF s = {} THEN 0 ELSE f[Pick(s)] + g[s \ {Pick(s)}]]

Solves(g, f, S) == IsIter(g, f, SUBSET S)

\* The recursion of the fold has a solution on the subsets of a finite set.
LEMMA IterExists ==
    ASSUME NEW f, NEW S, IsFiniteSet(S)
    PROVE  \E g : Solves(g, f, S)
<1> DEFINE Small(n) == {s \in SUBSET S : Cardinality(s) <= n}
           N == {n \in Nat : ~ \E g : IsIter(g, f, Small(n))}
<1>1. \A s \in SUBSET S : IsFiniteSet(s) /\ Cardinality(s) \in Nat /\ Cardinality(s) <= Cardinality(S)
  BY FS_Subset, FS_CardinalityType
<1>2. N = {}
  <2> SUFFICES ASSUME N # {} PROVE FALSE
    OBVIOUS
  <2>1. N \in SUBSET Nat
    OBVIOUS
  <2>2. PICK n \in N : \A m \in N : n <= m
    BY <2>1, LeastNatural
  <2>3. CASE n = 0
    <3>1. \A s \in Small(0) : s = {}
      <4> SUFFICES ASSUME NEW s \in Small(0) PROVE s = {}
        OBVIOUS
      <4>1. IsFiniteSet(s) /\ Cardinality(s) = 0
        BY <1>1
      <4> QED
        BY <4>1, FS_EmptySet
    <3>2. IsIter([s \in Small(0) |-> 0], f, Small(0))
      BY <3>1 DEF IsIter
    <3> QED
      BY <2>2, <2>3, <3>2
  <2>4. CASE n # 0
    <3>1. n \in Nat /\ n - 1 \in Nat /\ n - 1 \notin N
      <4>1. n \in Nat
        BY <2>1
      <4> HIDE DEF N
      <4>2. n - 1 \in Nat /\ ~ (n <= n - 1)
        BY <2>4, <4>1
      <4> QED
        BY <2>2, <4>1, <4>2
    <3>2. PICK g : IsIter(g, f, Small(n - 1))
      BY <3>1
    <3> DEFINE h == [s \in Small(n) |-> IF s = {} THEN 0 ELSE f[Pick(s)] + g[s \ {Pick(s)}]]
    <3>3. \A s \in Small(n) : s # {} => Pick(s) \in s
      BY DEF Pick
    <3>4. ASSUME NEW s \in Small(n), s # {} PROVE s \ {Pick(s)} \in Small(n - 1)
      <4>1. s \in SUBSET S /\ Pick(s) \in s /\ Cardinality(s) <= n
        BY <3>3, <3>4
      <4>2. Cardinality(s \ {Pick(s)}) = Cardinality(s) - 1
        BY <1>1, <4>1, FS_RemoveElement
      <4>3. Cardinality(s) \in Nat
        BY <1>1, <4>1
      <4> QED
        BY <3>1, <4>1, <4>2, <4>3
    <3>5. ASSUME NEW s \in Small(n - 1) PROVE h[s] = g[s]
      <4>1. s \in Small(n)
        BY <1>1, <3>1
      <4> QED
        BY <3>2, <4>1 DEF IsIter
    <3>6. \A s \in Small(n) : h[s] = IF s = {} THEN 0 ELSE f[Pick(s)] + h[s \ {Pick(s)}]
      BY <3>4, <3>5
    <3>7. h = [s \in Small(n) |-> IF s = {} THEN 0 ELSE f[Pick(s)] + h[s \ {Pick(s)}]]
      <4> DEFINE k == [s \in Small(n) |-> IF s = {} THEN 0 ELSE f[Pick(s)] + h[s \ {Pick(s)}]]
      <4>1. \A s \in Small(n) : h[s] = k[s]
        BY <3>6
      <4> QED
        BY <4>1
    <3> QED
      BY <2>2, <3>7 DEF IsIter
  <2> QED
    BY <2>3, <2>4
<1>3. Small(Cardinality(S)) = SUBSET S /\ Cardinality(S) \in Nat
  BY <1>1, FS_CardinalityType
<1> QED
  BY <1>2, <1>3 DEF Solves

\* The sum is what a solution of the recursion says.
LEMMA SumIter ==
    ASSUME NEW f, NEW S, IsFiniteSet(S)
    PROVE  \E g : Solves(g, f, S) /\ SumFunctionOnSet(f, S) = g[S]
<1> DEFINE iter == CHOOSE g : g = [s \in SUBSET S |->
                                     IF s = {} THEN 0 ELSE f[Pick(s)] + g[s \ {Pick(s)}]]
<1>1. iter = [s \in SUBSET S |-> IF s = {} THEN 0 ELSE f[Pick(s)] + iter[s \ {Pick(s)}]]
  <2>1. \E g : g = [s \in SUBSET S |-> IF s = {} THEN 0 ELSE f[Pick(s)] + g[s \ {Pick(s)}]]
    <3>1. \E g : Solves(g, f, S)
      BY IterExists
    <3> QED
      BY <3>1 DEF Solves, IsIter
  <2> QED
    BY <2>1
<1>2. SumFunctionOnSet(f, S) = iter[S]
  BY DEF SumFunctionOnSet, FoldFunctionOnSet, MapThenFoldSet, Pick
<1> QED
  BY <1>1, <1>2 DEF Solves, IsIter

\* Two solutions agree where both are defined.
LEMMA IterUnique ==
    ASSUME NEW f, NEW S, IsFiniteSet(S), NEW g, Solves(g, f, S),
           NEW T, T \subseteq S, NEW h, Solves(h, f, T)
    PROVE  g[T] = h[T]
<1> DEFINE B == {s \in SUBSET T : g[s] # h[s]}
<1> SUFFICES ASSUME B # {} PROVE FALSE
  OBVIOUS
<1>1. \A s \in B : IsFiniteSet(s)
  BY FS_Subset
<1>2. PICK s \in B : \A t \in B : t \subseteq s => t = s
  <2> HIDE DEF B
  <2> QED
    BY <1>1, SmallestSet
<1>3. g[s] = (IF s = {} THEN 0 ELSE f[Pick(s)] + g[s \ {Pick(s)}])
  <2>1. s \in SUBSET S
    BY <1>2
  <2> QED
    BY <2>1 DEF Solves, IsIter
<1>4. h[s] = (IF s = {} THEN 0 ELSE f[Pick(s)] + h[s \ {Pick(s)}])
  BY <1>2 DEF Solves, IsIter
<1>5. s # {} /\ g[s \ {Pick(s)}] # h[s \ {Pick(s)}]
  BY <1>2, <1>3, <1>4
<1>6. Pick(s) \in s
  BY <1>5 DEF Pick
<1> QED
  BY <1>2, <1>5, <1>6

\* The sum of nothing is 0, and any other sum is that of one member and of the rest.
LEMMA SumRecursion ==
    ASSUME NEW f, NEW S, IsFiniteSet(S)
    PROVE  IF S = {} THEN SumFunctionOnSet(f, S) = 0
           ELSE \E x \in S : SumFunctionOnSet(f, S) = f[x] + SumFunctionOnSet(f, S \ {x})
<1>1. PICK g : Solves(g, f, S) /\ SumFunctionOnSet(f, S) = g[S]
  BY SumIter
<1>2. g[S] = IF S = {} THEN 0 ELSE f[Pick(S)] + g[S \ {Pick(S)}]
  BY <1>1 DEF Solves, IsIter
<1>3. CASE S # {}
  <2>1. Pick(S) \in S
    BY <1>3 DEF Pick
  <2> DEFINE T == S \ {Pick(S)}
  <2>2. T \in SUBSET S /\ IsFiniteSet(T)
    BY FS_Subset
  <2> HIDE DEF T
  <2>3. PICK h : Solves(h, f, T) /\ SumFunctionOnSet(f, T) = h[T]
    BY <2>2, SumIter
  <2>4. g[T] = h[T]
    BY <1>1, <2>2, <2>3, IterUnique
  <2> QED
    BY <1>1, <1>2, <1>3, <2>1, <2>3, <2>4 DEF T
<1> QED
  BY <1>1, <1>2, <1>3

-----------------------------------------------------------------------------
(* Sums                                                                    *)

\* The sum of nothing is 0.
LEMMA SumOfNone == \A f : SumFunctionOnSet(f, {}) = 0
  BY SumRecursion, FS_EmptySet

\* A sum of integers is an integer, and any member can be taken out of it.
LEMMA SumFacts ==
    ASSUME NEW f, NEW S, IsFiniteSet(S), Numbers(f, S)
    PROVE  /\ SumFunctionOnSet(f, S) \in Int
           /\ \A x \in S : SumFunctionOnSet(f, S) = f[x] + SumFunctionOnSet(f, S \ {x})
<1> DEFINE Good(T) == /\ SumFunctionOnSet(f, T) \in Int
                      /\ \A x \in T : SumFunctionOnSet(f, T) = f[x] + SumFunctionOnSet(f, T \ {x})
           B == {T \in SUBSET S : ~ Good(T)}
<1> SUFFICES ASSUME B # {} PROVE FALSE
  OBVIOUS
<1>1. \A T \in B : IsFiniteSet(T)
  BY FS_Subset
<1>2. PICK T \in B : \A U \in B : U \subseteq T => U = T
  <2> HIDE DEF B
  <2> QED
    BY <1>1, SmallestSet
<1>3. T \in SUBSET S /\ IsFiniteSet(T)
  BY <1>1, <1>2
<1>4. ASSUME NEW U \in SUBSET T, U # T PROVE Good(U)
  BY <1>2, <1>3, <1>4
<1>5. T # {}
  <2> SUFFICES ASSUME T = {} PROVE FALSE
    OBVIOUS
  <2>1. Good(T)
    BY SumOfNone
  <2> QED
    BY <1>2, <2>1
<1>6. PICK y \in T : SumFunctionOnSet(f, T) = f[y] + SumFunctionOnSet(f, T \ {y})
  BY <1>3, <1>5, SumRecursion
<1> HIDE DEF B
<1>7. Good(T \ {y})
  BY <1>4, <1>6
<1>8. f[y] \in Int
  BY <1>3, <1>6 DEF Numbers
<1>9. SumFunctionOnSet(f, T) \in Int
  BY <1>6, <1>7, <1>8
<1>10. ASSUME NEW x \in T PROVE SumFunctionOnSet(f, T) = f[x] + SumFunctionOnSet(f, T \ {x})
  <2>1. CASE x = y
    BY <1>6, <2>1
  <2>2. CASE x # y
    <3>1. Good(T \ {x}) /\ x \in T \ {y} /\ y \in T \ {x}
      BY <1>4, <1>6, <1>10, <2>2
    <3>2. SumFunctionOnSet(f, T \ {y}) = f[x] + SumFunctionOnSet(f, (T \ {y}) \ {x})
      BY <1>7, <3>1
    <3>3. SumFunctionOnSet(f, T \ {x}) = f[y] + SumFunctionOnSet(f, (T \ {x}) \ {y})
      BY <3>1
    <3>4. (T \ {x}) \ {y} = (T \ {y}) \ {x}
      OBVIOUS
    <3>5. Good((T \ {y}) \ {x})
      BY <1>4, <3>1
    <3>6. f[x] \in Int /\ f[y] \in Int /\ SumFunctionOnSet(f, (T \ {y}) \ {x}) \in Int
      BY <1>3, <1>8, <1>10, <3>5 DEF Numbers
    <3> DEFINE rest == SumFunctionOnSet(f, (T \ {y}) \ {x})
    <3>7. SumFunctionOnSet(f, T) = f[y] + (f[x] + rest)
      BY <1>6, <3>2
    <3>8. SumFunctionOnSet(f, T \ {x}) = f[y] + rest
      BY <3>3, <3>4
    <3> HIDE DEF rest
    <3>9. f[y] + (f[x] + rest) = f[x] + (f[y] + rest)
      BY <3>6 DEF rest
    <3> QED
      BY <3>7, <3>8, <3>9
  <2> QED
    BY <2>1, <2>2
<1> QED
  BY <1>2, <1>9, <1>10 DEF B

\* A new member adds its value.
LEMMA SumAdd ==
    ASSUME NEW f, NEW S, IsFiniteSet(S), Numbers(f, S), NEW x, x \notin S, f[x] \in Int
    PROVE  SumFunctionOnSet(f, S \cup {x}) = SumFunctionOnSet(f, S) + f[x]
<1> DEFINE T == S \cup {x}
<1>1. IsFiniteSet(T) /\ Numbers(f, T) /\ x \in T /\ T \ {x} = S
  BY FS_AddElement DEF Numbers
<1> HIDE DEF T
<1>2. SumFunctionOnSet(f, T) = f[x] + SumFunctionOnSet(f, S)
  BY <1>1, SumFacts
<1>3. SumFunctionOnSet(f, S) \in Int
  BY SumFacts
<1> QED
  BY <1>2, <1>3 DEF T

\* Functions that agree on a set have one sum on it.
LEMMA SumSame ==
    ASSUME NEW f, NEW g, NEW S, IsFiniteSet(S), Numbers(f, S), \A x \in S : f[x] = g[x]
    PROVE  SumFunctionOnSet(f, S) = SumFunctionOnSet(g, S)
<1> DEFINE G == {T \in SUBSET S : SumFunctionOnSet(f, T) = SumFunctionOnSet(g, T)}
<1>1. {} \in G
  BY SumOfNone
<1>2. ASSUME NEW T \in SUBSET S, NEW x \in S, T \in G, x \notin T PROVE T \cup {x} \in G
  <2>1. IsFiniteSet(T) /\ Numbers(f, T) /\ Numbers(g, T) /\ f[x] \in Int /\ g[x] = f[x]
    BY FS_Subset DEF Numbers
  <2>2. /\ SumFunctionOnSet(f, T \cup {x}) = SumFunctionOnSet(f, T) + f[x]
        /\ SumFunctionOnSet(g, T \cup {x}) = SumFunctionOnSet(g, T) + g[x]
    BY <1>2, <2>1, SumAdd
  <2> QED
    BY <1>2, <2>1, <2>2
<1>3. S \in G
  <2> HIDE DEF G
  <2> QED
    BY <1>1, <1>2, SetInduction
<1> QED
  BY <1>3

\* If two functions differ in one member, so do their sums.
LEMMA SumOfChange ==
    ASSUME NEW f, NEW g, NEW S, IsFiniteSet(S), Numbers(f, S), Numbers(g, S), NEW x \in S,
           \A y \in S \ {x} : g[y] = f[y]
    PROVE  SumFunctionOnSet(g, S) = SumFunctionOnSet(f, S) + (g[x] - f[x])
<1> DEFINE T == S \ {x}
<1>1. /\ SumFunctionOnSet(f, S) = f[x] + SumFunctionOnSet(f, T)
      /\ SumFunctionOnSet(g, S) = g[x] + SumFunctionOnSet(g, T)
  BY SumFacts
<1>2. IsFiniteSet(T) /\ Numbers(f, T) /\ Numbers(g, T) /\ f[x] \in Int /\ g[x] \in Int
  BY FS_RemoveElement DEF Numbers
<1>3. \A y \in T : g[y] = f[y]
  OBVIOUS
<1> HIDE DEF T
<1>4. SumFunctionOnSet(g, T) = SumFunctionOnSet(f, T) /\ SumFunctionOnSet(f, T) \in Int
  BY <1>2, <1>3, SumSame, SumFacts
<1> QED
  BY <1>1, <1>2, <1>4

\* The sum over two sets apart is that of the sums.
LEMMA SumUnion ==
    ASSUME NEW f, NEW S, NEW T, IsFiniteSet(S), IsFiniteSet(T), S \cap T = {},
           Numbers(f, S \cup T)
    PROVE  SumFunctionOnSet(f, S \cup T) = SumFunctionOnSet(f, S) + SumFunctionOnSet(f, T)
<1> DEFINE G == {U \in SUBSET T : SumFunctionOnSet(f, S \cup U)
                                    = SumFunctionOnSet(f, S) + SumFunctionOnSet(f, U)}
<1>1. {} \in G
  <2>1. SumFunctionOnSet(f, S) \in Int /\ S \cup {} = S
    BY SumFacts DEF Numbers
  <2> QED
    BY <2>1, SumOfNone
<1>2. ASSUME NEW U \in SUBSET T, NEW x \in T, U \in G, x \notin U PROVE U \cup {x} \in G
  <2> DEFINE V == S \cup U
  <2>1. /\ IsFiniteSet(U) /\ IsFiniteSet(V) /\ x \notin V /\ f[x] \in Int
        /\ Numbers(f, S) /\ Numbers(f, U) /\ Numbers(f, V)
        /\ S \cup (U \cup {x}) = V \cup {x}
    BY <1>2, FS_Subset, FS_Union DEF Numbers
  <2> HIDE DEF V
  <2>2. /\ SumFunctionOnSet(f, U \cup {x}) = SumFunctionOnSet(f, U) + f[x]
        /\ SumFunctionOnSet(f, V \cup {x}) = SumFunctionOnSet(f, V) + f[x]
    BY <1>2, <2>1, SumAdd
  <2>3. SumFunctionOnSet(f, S) \in Int /\ SumFunctionOnSet(f, U) \in Int
    BY <2>1, SumFacts
  <2>4. SumFunctionOnSet(f, V) = SumFunctionOnSet(f, S) + SumFunctionOnSet(f, U)
    BY <1>2 DEF V
  <2>5. SumFunctionOnSet(f, V \cup {x})
          = SumFunctionOnSet(f, S) + SumFunctionOnSet(f, U \cup {x})
    BY <2>1, <2>2, <2>3, <2>4
  <2> QED
    BY <2>1, <2>5
<1>3. T \in G
  <2> HIDE DEF G
  <2> QED
    BY <1>1, <1>2, SetInduction
<1> QED
  BY <1>3

\* A sum of naturals is a natural, and no less than that over a part.
LEMMA SumOfPart ==
    ASSUME NEW f, NEW S, IsFiniteSet(S), Naturals(f, S), NEW T, T \subseteq S
    PROVE  /\ SumFunctionOnSet(f, S) \in Nat /\ SumFunctionOnSet(f, T) \in Nat
           /\ SumFunctionOnSet(f, T) <= SumFunctionOnSet(f, S)
<1> DEFINE G == {U \in SUBSET S : SumFunctionOnSet(f, U) \in Nat}
<1>1. {} \in G
  BY SumOfNone
<1>2. ASSUME NEW U \in SUBSET S, NEW x \in S, U \in G, x \notin U PROVE U \cup {x} \in G
  <2>1. IsFiniteSet(U) /\ Numbers(f, U) /\ f[x] \in Nat
    BY FS_Subset DEF Numbers, Naturals
  <2>2. SumFunctionOnSet(f, U \cup {x}) = SumFunctionOnSet(f, U) + f[x]
    BY <1>2, <2>1, SumAdd
  <2> QED
    BY <1>2, <2>1, <2>2
<1>3. ASSUME NEW U \in SUBSET S PROVE SumFunctionOnSet(f, U) \in Nat
  <2>1. IsFiniteSet(U) /\ \A V \in SUBSET U, x \in U : V \in SUBSET S /\ x \in S
    BY FS_Subset
  <2>2. U \in G
    <3> HIDE DEF G
    <3> QED
      BY <1>1, <1>2, <2>1, SetInduction
  <2> QED
    BY <2>2
<1>4. /\ IsFiniteSet(T) /\ IsFiniteSet(S \ T) /\ T \cap (S \ T) = {} /\ T \cup (S \ T) = S
      /\ Numbers(f, T \cup (S \ T))
  BY FS_Subset, FS_Difference DEF Numbers, Naturals
<1>5. SumFunctionOnSet(f, S) = SumFunctionOnSet(f, T) + SumFunctionOnSet(f, S \ T)
  BY <1>4, SumUnion
<1>6. /\ SumFunctionOnSet(f, S) \in Nat /\ SumFunctionOnSet(f, T) \in Nat
      /\ SumFunctionOnSet(f, S \ T) \in Nat
  BY <1>3
<1> QED
  BY <1>5, <1>6
\* Larger values have no smaller sum.
LEMMA SumMonotone ==
    ASSUME NEW f, NEW g, NEW S, IsFiniteSet(S), Numbers(f, S), Numbers(g, S),
           \A x \in S : f[x] <= g[x]
    PROVE  SumFunctionOnSet(f, S) <= SumFunctionOnSet(g, S)
<1> DEFINE G == {T \in SUBSET S : SumFunctionOnSet(f, T) <= SumFunctionOnSet(g, T)}
<1>1. {} \in G
  BY SumOfNone
<1>2. ASSUME NEW T \in SUBSET S, NEW x \in S, T \in G, x \notin T PROVE T \cup {x} \in G
  <2>1. IsFiniteSet(T) /\ Numbers(f, T) /\ Numbers(g, T) /\ f[x] \in Int /\ g[x] \in Int
    BY FS_Subset DEF Numbers
  <2>2. /\ SumFunctionOnSet(f, T \cup {x}) = SumFunctionOnSet(f, T) + f[x]
        /\ SumFunctionOnSet(g, T \cup {x}) = SumFunctionOnSet(g, T) + g[x]
    BY <1>2, <2>1, SumAdd
  <2>3. SumFunctionOnSet(f, T) \in Int /\ SumFunctionOnSet(g, T) \in Int
    BY <2>1, SumFacts
  <2> QED
    BY <1>2, <2>1, <2>2, <2>3
<1>3. S \in G
  <2> HIDE DEF G
  <2> QED
    BY <1>1, <1>2, SetInduction
<1> QED
  BY <1>3

\* Members that count for nothing can be left out.
LEMMA SumOfOthers ==
    ASSUME NEW f, NEW S, IsFiniteSet(S), Numbers(f, S), NEW T, T \subseteq S,
           \A x \in S \ T : f[x] = 0
    PROVE  SumFunctionOnSet(f, S) = SumFunctionOnSet(f, T)
<1>1. /\ IsFiniteSet(T) /\ IsFiniteSet(S \ T) /\ T \cap (S \ T) = {} /\ T \cup (S \ T) = S
      /\ Numbers(f, T \cup (S \ T)) /\ Numbers(f, T)
  BY FS_Subset, FS_Difference DEF Numbers
<1>2. SumFunctionOnSet(f, S) = SumFunctionOnSet(f, T) + SumFunctionOnSet(f, S \ T)
  BY <1>1, SumUnion
<1> DEFINE N == S \ T
           G == {U \in SUBSET N : SumFunctionOnSet(f, U) = 0}
<1>3. {} \in G
  BY SumOfNone
<1>4. ASSUME NEW U \in SUBSET N, NEW x \in N, U \in G, x \notin U PROVE U \cup {x} \in G
  <2>1. IsFiniteSet(U) /\ Numbers(f, U) /\ f[x] = 0
    BY FS_Subset DEF Numbers
  <2>2. SumFunctionOnSet(f, U \cup {x}) = SumFunctionOnSet(f, U) + f[x]
    BY <1>4, <2>1, SumAdd
  <2> QED
    BY <1>4, <2>1, <2>2
<1>5. N \in G
  <2> HIDE DEF G
  <2>1. IsFiniteSet(N)
    BY <1>1
  <2> QED
    BY <1>3, <1>4, <2>1, SetInduction
<1>6. SumFunctionOnSet(f, S \ T) = 0 /\ SumFunctionOnSet(f, T) \in Int
  BY <1>1, <1>5, SumFacts
<1> QED
  BY <1>2, <1>6

\* The sum over the images of a set is that of the values at the images.
LEMMA SumOfImages ==
    ASSUME NEW S, IsFiniteSet(S), NEW h, NEW f, NEW g, Numbers(g, S),
           \A x \in S : f[h[x]] = g[x],
           \A x, y \in S : x # y => h[x] # h[y]
    PROVE  /\ IsFiniteSet({h[x] : x \in S})
           /\ SumFunctionOnSet(f, {h[x] : x \in S}) = SumFunctionOnSet(g, S)
<1> DEFINE Images(T) == {h[x] : x \in T}
           G == {T \in SUBSET S : /\ IsFiniteSet(Images(T))
                                  /\ SumFunctionOnSet(f, Images(T)) = SumFunctionOnSet(g, T)}
<1>1. {} \in G
  <2>1. Images({}) = {}
    OBVIOUS
  <2> QED
    BY <2>1, SumOfNone, FS_EmptySet
<1>2. ASSUME NEW T \in SUBSET S, NEW x \in S, T \in G, x \notin T PROVE T \cup {x} \in G
  <2>1. /\ IsFiniteSet(T) /\ Numbers(g, T) /\ g[x] \in Int /\ f[h[x]] = g[x]
        /\ Numbers(f, Images(T)) /\ IsFiniteSet(Images(T))
    BY <1>2, FS_Subset DEF Numbers
  <2>2. Images(T \cup {x}) = Images(T) \cup {h[x]} /\ h[x] \notin Images(T)
    BY <1>2
  <2> HIDE DEF Images
  <2>3. /\ SumFunctionOnSet(f, Images(T) \cup {h[x]}) = SumFunctionOnSet(f, Images(T)) + f[h[x]]
        /\ SumFunctionOnSet(g, T \cup {x}) = SumFunctionOnSet(g, T) + g[x]
    BY <1>2, <2>1, <2>2, SumAdd
  <2>4. IsFiniteSet(Images(T \cup {x}))
    <3>1. IsFiniteSet(Images(T) \cup {h[x]})
      BY <2>1, FS_AddElement
    <3> QED
      BY <2>2, <3>1
  <2> QED
    BY <1>2, <2>1, <2>2, <2>3, <2>4
<1>3. S \in G
  <2> HIDE DEF G
  <2> QED
    BY <1>1, <1>2, SetInduction
<1> QED
  BY <1>3

\* A function of pairs for one second part.
RowAt(r, f, A, b) == \A a \in A : r[a] = f[<<a, b>>]

\* A sum over the pairs with the same second part.
LEMMA SumOfRow ==
    ASSUME NEW A, IsFiniteSet(A), NEW b, NEW f, NEW r, Numbers(r, A), RowAt(r, f, A, b)
    PROVE  SumFunctionOnSet(f, A \X {b}) = SumFunctionOnSet(r, A)
<1> DEFINE h == [a \in A |-> <<a, b>>]
<1>1. A \X {b} = {h[a] : a \in A}
  OBVIOUS
<1>2. /\ \A x, y \in A : x # y => h[x] # h[y]
      /\ \A a \in A : f[h[a]] = r[a]
  BY DEF RowAt
<1>3. SumFunctionOnSet(f, {h[a] : a \in A}) = SumFunctionOnSet(r, A)
  <2> HIDE DEF h
  <2> QED
    BY <1>2, SumOfImages
<1> QED
  BY <1>1, <1>3

\* The functions of pairs for each second part, and their sums.
PairRows(row, f, A, B) == \A b \in B : RowAt(row[b], f, A, b)
RowSums(g, row, A, B) == \A b \in B : g[b] = SumFunctionOnSet(row[b], A)

\* A sum over pairs is one of sums over their first parts.
LEMMA SumOfPairs ==
    ASSUME NEW A, NEW B, IsFiniteSet(A), IsFiniteSet(B), NEW f, Numbers(f, A \X B),
           NEW row, PairRows(row, f, A, B), NEW g, RowSums(g, row, A, B)
    PROVE  Numbers(g, B) /\ SumFunctionOnSet(f, A \X B) = SumFunctionOnSet(g, B)
<1> DEFINE G == {T \in SUBSET B : SumFunctionOnSet(f, A \X T) = SumFunctionOnSet(g, T)}
<1>1. ASSUME NEW b \in B
      PROVE  /\ Numbers(row[b], A) /\ g[b] \in Int
             /\ IsFiniteSet(A \X {b}) /\ SumFunctionOnSet(f, A \X {b}) = g[b]
  <2>0. RowAt(row[b], f, A, b) /\ g[b] = SumFunctionOnSet(row[b], A)
    BY DEF PairRows, RowSums
  <2>1. Numbers(row[b], A)
    BY <2>0 DEF Numbers, RowAt
  <2>2. g[b] \in Int
    <3>1. SumFunctionOnSet(row[b], A) \in Int
      BY <2>1, SumFacts
    <3> QED
      BY <2>0, <3>1
  <2>3. IsFiniteSet(A \X {b})
    BY FS_Singleton, FS_Product
  <2>4. SumFunctionOnSet(f, A \X {b}) = SumFunctionOnSet(row[b], A)
    BY <2>0, <2>1, SumOfRow
  <2> QED
    BY <2>0, <2>1, <2>2, <2>3, <2>4
<1>2. Numbers(g, B)
  BY <1>1 DEF Numbers
<1>3. {} \in G
  <2>1. A \X {} = {}
    OBVIOUS
  <2> QED
    BY <2>1, SumOfNone
<1>4. ASSUME NEW T \in SUBSET B, NEW b \in B, T \in G, b \notin T PROVE T \cup {b} \in G
  <2>1. /\ A \X (T \cup {b}) = (A \X T) \cup (A \X {b}) /\ (A \X T) \cap (A \X {b}) = {}
        /\ Numbers(f, (A \X T) \cup (A \X {b}))
    BY <1>4 DEF Numbers
  <2>2. IsFiniteSet(T) /\ IsFiniteSet(A \X T) /\ IsFiniteSet(A \X {b}) /\ Numbers(g, T)
    BY <1>1, <1>2, FS_Subset, FS_Product DEF Numbers
  <2>3. SumFunctionOnSet(f, A \X (T \cup {b}))
          = SumFunctionOnSet(f, A \X T) + SumFunctionOnSet(f, A \X {b})
    <3>1. SumFunctionOnSet(f, (A \X T) \cup (A \X {b}))
            = SumFunctionOnSet(f, A \X T) + SumFunctionOnSet(f, A \X {b})
      <4> DEFINE P == A \X T  R == A \X {b}
      <4>1. IsFiniteSet(P) /\ IsFiniteSet(R) /\ P \cap R = {} /\ Numbers(f, P \cup R)
        BY <2>1, <2>2
      <4> HIDE DEF P, R
      <4>2. SumFunctionOnSet(f, P \cup R) = SumFunctionOnSet(f, P) + SumFunctionOnSet(f, R)
        BY <4>1, SumUnion
      <4> QED
        BY <4>2 DEF P, R
    <3> QED
      BY <2>1, <3>1
  <2>4. SumFunctionOnSet(g, T \cup {b}) = SumFunctionOnSet(g, T) + g[b]
    BY <1>1, <1>4, <2>2, SumAdd
  <2> QED
    BY <1>1, <1>4, <2>3, <2>4
<1>5. B \in G
  <2> HIDE DEF G
  <2> QED
    BY <1>3, <1>4, SetInduction
<1> QED
  BY <1>2, <1>5

\* A common factor of the values is one of the sum.
LEMMA SumOfMultiples ==
    ASSUME NEW f, NEW g, NEW S, IsFiniteSet(S), Numbers(g, S), NEW c \in Int,
           \A x \in S : f[x] = c * g[x]
    PROVE  SumFunctionOnSet(g, S) \in Int /\ SumFunctionOnSet(f, S) = c * SumFunctionOnSet(g, S)
<1> DEFINE G == {T \in SUBSET S : /\ SumFunctionOnSet(g, T) \in Int
                                  /\ SumFunctionOnSet(f, T) = c * SumFunctionOnSet(g, T)}
<1>1. {} \in G
  BY SumOfNone
<1>2. ASSUME NEW T \in SUBSET S, NEW x \in S, T \in G, x \notin T PROVE T \cup {x} \in G
  <2>1. IsFiniteSet(T) /\ Numbers(g, T) /\ Numbers(f, T) /\ f[x] \in Int /\ g[x] \in Int
    BY FS_Subset DEF Numbers
  <2>2. /\ SumFunctionOnSet(f, T \cup {x}) = SumFunctionOnSet(f, T) + f[x]
        /\ SumFunctionOnSet(g, T \cup {x}) = SumFunctionOnSet(g, T) + g[x]
    BY <1>2, <2>1, SumAdd
  <2>3. /\ SumFunctionOnSet(g, T) \in Int
        /\ SumFunctionOnSet(f, T) = c * SumFunctionOnSet(g, T) /\ f[x] = c * g[x]
    BY <1>2
  <2>4. \A a, b \in Int : c * (a + b) = c * a + c * b
    OBVIOUS
  <2> HIDE DEF G
  <2>5. SumFunctionOnSet(f, T \cup {x}) = c * (SumFunctionOnSet(g, T) + g[x])
    BY <2>1, <2>2, <2>3, <2>4
  <2> QED
    BY <2>1, <2>2, <2>3, <2>5 DEF G
<1>3. S \in G
  <2> HIDE DEF G
  <2> QED
    BY <1>1, <1>2, SetInduction
<1> QED
  BY <1>3

\* The values g of the classes of a set, those of its members with the same h, when val
\* is the value of a subset.
ClassValues(g, K, h, val, S) ==
    /\ \A x \in S : h[x] \in K
    /\ \A A \in SUBSET S : val[A] \in Int
    /\ val[{}] = 0
    /\ \A k \in K : g[k] = val[{x \in S : h[x] = k}]
Additive(val, S) == \A A, B \in SUBSET S : A \cap B = {} => val[A \cup B] = val[A] + val[B]
Subadditive(val, S) == \A A, B \in SUBSET S : A \cap B = {} => val[A \cup B] <= val[A] + val[B]

\* They add up to the value of the set, if values of sets apart add up, and to no less
\* than that if they may overlap.
LEMMA SumOfClasses ==
    ASSUME NEW S, NEW K, IsFiniteSet(K), NEW h, NEW val, NEW g, ClassValues(g, K, h, val, S)
    PROVE  /\ Numbers(g, K)
           /\ Additive(val, S) => SumFunctionOnSet(g, K) = val[S]
           /\ Subadditive(val, S) => val[S] <= SumFunctionOnSet(g, K)
<1>0. /\ \A x \in S : h[x] \in K
      /\ \A A \in SUBSET S : val[A] \in Int
      /\ val[{}] = 0
      /\ \A k \in K : g[k] = val[{x \in S : h[x] = k}]
  BY DEF ClassValues
<1> DEFINE In(T) == {x \in S : h[x] \in T}
           G == {T \in SUBSET K : /\ Additive(val, S) => SumFunctionOnSet(g, T) = val[In(T)]
                                  /\ Subadditive(val, S) => val[In(T)] <= SumFunctionOnSet(g, T)}
<1>1. Numbers(g, K)
  BY <1>0 DEF Numbers
<1>2. {} \in G
  <2>1. In({}) = {}
    OBVIOUS
  <2>2. SumFunctionOnSet(g, {}) = 0 /\ val[In({})] = 0
    BY <1>0, <2>1, SumOfNone
  <2> QED
    BY <2>2
<1>3. ASSUME NEW T \in SUBSET K, NEW k \in K, T \in G, k \notin T PROVE T \cup {k} \in G
  <2> DEFINE A == In(T)
             B == {x \in S : h[x] = k}
  <2>1. /\ A \in SUBSET S /\ B \in SUBSET S /\ A \cap B = {} /\ In(T \cup {k}) = A \cup B
        /\ g[k] = val[B]
    BY <1>0, <1>3
  <2>2. /\ Additive(val, S) => SumFunctionOnSet(g, T) = val[A]
        /\ Subadditive(val, S) => val[A] <= SumFunctionOnSet(g, T)
    BY <1>3
  <2> HIDE DEF A, B, G
  <2>3. val[A] \in Int /\ val[B] \in Int /\ A \cup B \in SUBSET S
    BY <1>0, <2>1
  <2>4. /\ Additive(val, S) => val[A \cup B] = val[A] + val[B]
        /\ Subadditive(val, S) => val[A \cup B] <= val[A] + val[B]
    BY <2>1 DEF Additive, Subadditive
  <2>5. IsFiniteSet(T) /\ Numbers(g, T)
    BY <1>1, FS_Subset DEF Numbers
  <2>6. /\ SumFunctionOnSet(g, T) \in Int
        /\ SumFunctionOnSet(g, T \cup {k}) = SumFunctionOnSet(g, T) + val[B]
    BY <1>3, <2>1, <2>3, <2>5, SumFacts, SumAdd
  <2>7. val[A \cup B] \in Int
    BY <1>0, <2>3
  <2>8. /\ Additive(val, S) => SumFunctionOnSet(g, T \cup {k}) = val[A \cup B]
        /\ Subadditive(val, S) => val[A \cup B] <= SumFunctionOnSet(g, T \cup {k})
    BY <2>2, <2>3, <2>4, <2>6, <2>7
  <2> QED
    BY <2>1, <2>8 DEF G
<1>4. K \in G
  <2> HIDE DEF G
  <2> QED
    BY <1>2, <1>3, SetInduction
<1>5. In(K) = S
  BY <1>0
<1> QED
  BY <1>1, <1>4, <1>5

\* The sum along a sequence that has each member of a set once is that over the set.
LEMMA SumAlong ==
    ASSUME NEW n \in Nat, NEW s, DOMAIN s = 1 .. n, \A i, j \in 1 .. n : i # j => s[i] # s[j],
           NEW g, Numbers(g, {s[i] : i \in 1 .. n}), NEW c, \A i \in 1 .. n : c[i] = g[s[i]]
    PROVE  SumFunctionOnSet(c, 1 .. n) = SumFunctionOnSet(g, {s[i] : i \in 1 .. n})
<1>1. IsFiniteSet(1 .. n)
  BY FS_Interval
<1>2. Numbers(c, 1 .. n)
  BY DEF Numbers
<1> QED
  BY <1>1, <1>2, SumOfImages

-----------------------------------------------------------------------------
(* Division                                                                *)

\* A division with its remainder.
LEMMA Division ==
    ASSUME NEW a \in Nat, NEW b \in Nat, b > 0
    PROVE  /\ a \div b \in Nat /\ a % b \in Nat /\ a % b < b
           /\ (a \div b) * b \in Nat /\ a = (a \div b) * b + (a % b)
<1>1. a \div b \in Nat /\ a % b \in 0 .. b - 1
  OBVIOUS
<1>2. a = (a \div b) * b + (a % b)
  OBVIOUS
<1>3. (a \div b) * b \in Nat
  BY <1>1
<1> QED
  BY <1>1, <1>2, <1>3

\* The multiples of a number.
LEMMA MultiplesInOrder ==
    ASSUME NEW a \in Nat, NEW b \in Nat, NEW m \in Nat, m > 0
    PROVE  /\ a * m \in Nat /\ b * m \in Nat
           /\ a < b => a * m + m <= b * m
           /\ a <= b => a * m <= b * m
<1>1. a * m \in Nat /\ b * m \in Nat
  OBVIOUS
<1>2. ASSUME a < b PROVE a * m + m <= b * m
  <2>1. a + 1 <= b /\ a + 1 \in Nat
    BY <1>2
  <2>2. (a + 1) * m = a * m + m
    OBVIOUS
  <2>3. (a + 1) * m <= b * m
    BY <2>1
  <2> QED
    BY <2>2, <2>3
<1>3. a <= b => a * m <= b * m
  OBVIOUS
<1> QED
  BY <1>1, <1>2, <1>3

\* Quotient and remainder are unique.
LEMMA QuotientOf ==
    ASSUME NEW n \in Nat, NEW r \in Nat, NEW m \in Nat, m > 0, r < m
    PROVE  (n * m + r) \div m = n /\ (n * m + r) % m = r
<1> DEFINE t == n * m + r
           q == t \div m
           s == t % m
<1>1. n * m \in Nat /\ t \in Nat
  <2>1. n * m \in Nat
    BY MultiplesInOrder
  <2> QED
    BY <2>1
<1>2. t = n * m + r
  OBVIOUS
<1> HIDE DEF t
<1>3. q \in Nat /\ s \in Nat /\ s < m /\ q * m \in Nat /\ t = q * m + s
  BY <1>1, Division
<1> HIDE DEF q, s
<1>4. ~ (q < n)
  <2>1. q < n => q * m + m <= n * m
    BY <1>3, MultiplesInOrder
  <2> QED
    BY <1>1, <1>2, <1>3, <2>1
<1>5. ~ (n < q)
  <2>1. n < q => n * m + m <= q * m
    BY <1>3, MultiplesInOrder
  <2> QED
    BY <1>1, <1>2, <1>3, <2>1
<1>6. q = n
  BY <1>3, <1>4, <1>5
<1>7. s = r
  BY <1>1, <1>2, <1>3, <1>6
<1> QED
  BY <1>6, <1>7 DEF q, s, t

\* Quotients follow the order of the numbers, and remainders that of numbers with one quotient.
LEMMA QuotientOrder ==
    ASSUME NEW a \in Nat, NEW b \in Nat, NEW m \in Nat, m > 0
    PROVE  /\ a <= b => a \div m <= b \div m
           /\ a \div m = b \div m /\ a <= b => a % m <= b % m
           /\ a \div m = b \div m /\ a < b => a % m < b % m
           /\ a \div m <= b \div m => (a \div m) * m <= b
<1> DEFINE p == a \div m
           q == b \div m
           r == a % m
           s == b % m
<1>1. p \in Nat /\ r \in Nat /\ r < m /\ p * m \in Nat /\ a = p * m + r
  BY Division, Zenon
<1>2. q \in Nat /\ s \in Nat /\ s < m /\ q * m \in Nat /\ b = q * m + s
  BY Division, Zenon
<1> HIDE DEF p, q, r, s
<1>3. /\ q < p => q * m + m <= p * m
      /\ p <= q => p * m <= q * m
  BY <1>1, <1>2, MultiplesInOrder
<1>4. a <= b => p <= q
  BY <1>1, <1>2, <1>3
<1>5. p = q => (a <= b => r <= s) /\ (a < b => r < s)
  BY <1>1, <1>2
<1>6. p <= q => p * m <= b
  BY <1>1, <1>2, <1>3
<1> QED
  BY <1>4, <1>5, <1>6 DEF p, q, r, s

\* How many steps of a length lead from one number up to another.
LEMMA StepsUpTo ==
    ASSUME NEW a \in Nat, NEW b \in Nat, NEW m \in Nat, m > 0, a \div m <= b \div m,
           NEW n, n = b \div m - a \div m + (IF a % m > b % m THEN 0 ELSE 1)
    PROVE  /\ n \in Nat /\ n <= b \div m - a \div m + 1
           /\ (IF b < a THEN 0 ELSE (b - a) \div m + 1) = n
<1> DEFINE p == a \div m
           q == b \div m
           r == a % m
           s == b % m
<1>1. p \in Nat /\ r \in Nat /\ r < m /\ p * m \in Nat /\ a = p * m + r
  BY Division, Zenon
<1>2. q \in Nat /\ s \in Nat /\ s < m /\ q * m \in Nat /\ b = q * m + s
  BY Division, Zenon
<1>3. p <= q /\ n = q - p + (IF r > s THEN 0 ELSE 1)
  OBVIOUS
<1> HIDE DEF p, q, r, s
<1>4. CASE b < a
  <2>1. p = q /\ s < r
    <3>1. q <= p
      BY <1>4, QuotientOrder DEF p, q
    <3>2. p = q
      BY <1>1, <1>2, <1>3, <3>1
    <3> QED
      BY <1>1, <1>2, <1>4, <3>2
  <2>2. q - p + (IF r > s THEN 0 ELSE 1) = 0
    BY <1>1, <1>2, <2>1
  <2> QED
    BY <1>1, <1>2, <1>3, <1>4, <2>2 DEF p, q, r, s
<1>5. CASE a <= b /\ r <= s
  <2>1. /\ q - p \in Nat /\ s - r \in Nat /\ s - r < m
        /\ (q - p) * m = q * m - p * m
    BY <1>1, <1>2, <1>3, <1>5
  <2>2. b - a = (q - p) * m + (s - r)
    BY <1>1, <1>2, <2>1
  <2>3. (b - a) \div m = q - p
    BY <2>1, <2>2, QuotientOf
  <2> QED
    BY <1>1, <1>2, <1>3, <1>5, <2>1, <2>3 DEF p, q, r, s
<1>6. CASE a <= b /\ r > s
  <2>1. p # q
    BY <1>1, <1>2, <1>6
  <2>2. /\ q - p - 1 \in Nat /\ s - r + m \in Nat /\ s - r + m < m
        /\ (q - p - 1) * m = q * m - p * m - m
    BY <1>1, <1>2, <1>3, <1>6, <2>1
  <2>3. b - a = (q - p - 1) * m + (s - r + m)
    BY <1>1, <1>2, <1>3, <2>2
  <2>4. (b - a) \div m = q - p - 1
    BY <2>2, <2>3, QuotientOf
  <2> QED
    BY <1>1, <1>2, <1>3, <1>6, <2>2, <2>4 DEF p, q, r, s
<1>7. b < a \/ (a <= b /\ r <= s) \/ (a <= b /\ r > s)
  <2>1. r <= s \/ r > s
    BY <1>1, <1>2
  <2> QED
    BY <2>1
<1> QED
  BY <1>4, <1>5, <1>6, <1>7

-----------------------------------------------------------------------------
(* Order and sequences                                                     *)

\* The images of the members of a finite set are finitely many.
LEMMA FiniteImages ==
    ASSUME NEW S, IsFiniteSet(S), NEW h
    PROVE  IsFiniteSet({h[x] : x \in S})
<1> DEFINE T == {h[x] : x \in S}
           g == [x \in S |-> h[x]]
<1>1. g \in Surjection(S, T)
  BY DEF Surjection
<1> QED
  BY <1>1, FS_Surjection

\* A finite set of numbers has a greatest and a least member.
LEMMA Extremes ==
    ASSUME NEW S \in SUBSET Int, IsFiniteSet(S), S # {}
    PROVE  /\ \E x \in S : \A y \in S : y <= x
           /\ \E x \in S : \A y \in S : x <= y
<1> DEFINE G == {T \in SUBSET S : T # {} => /\ \E x \in T : \A y \in T : y <= x
                                            /\ \E x \in T : \A y \in T : x <= y}
<1>1. {} \in G
  OBVIOUS
<1>2. ASSUME NEW T \in SUBSET S, NEW z \in S, T \in G, z \notin T PROVE T \cup {z} \in G
  <2>1. CASE T = {}
    BY <2>1
  <2>2. CASE T # {}
    <3>1. PICK x \in T : \A y \in T : y <= x
      BY <1>2, <2>2
    <3>2. PICK w \in T : \A y \in T : w <= y
      BY <1>2, <2>2
    <3>3. \E u \in T \cup {z} : \A y \in T \cup {z} : y <= u
      <4>1. CASE z <= x
        BY <3>1, <4>1
      <4>2. CASE ~ (z <= x)
        <5>1. \A y \in T : y <= z
          BY <3>1, <4>2
        <5> QED
          BY <5>1
      <4> QED
        BY <4>1, <4>2
    <3>4. \E u \in T \cup {z} : \A y \in T \cup {z} : u <= y
      <4>1. CASE w <= z
        BY <3>2, <4>1
      <4>2. CASE ~ (w <= z)
        <5>1. \A y \in T : z <= y
          BY <3>2, <4>2
        <5> QED
          BY <5>1
      <4> QED
        BY <4>1, <4>2
    <3> QED
      BY <3>3, <3>4
  <2> QED
    BY <2>1, <2>2
<1>3. S \in G
  <2> HIDE DEF G
  <2> QED
    BY <1>1, <1>2, SetInduction
<1> QED
  BY <1>3

\* The members of a sequence, by number.
LEMMA MembersOf ==
    ASSUME NEW X, NEW s \in Seq(X)
    PROVE  DOMAIN s = 1 .. Len(s) /\ Len(s) \in Nat /\ \A i \in DOMAIN s : s[i] \in X
  OBVIOUS

\* The length of a function on the first numbers.
LEMMA LengthOf ==
    ASSUME NEW n \in Nat, NEW f, f = [i \in 1 .. n |-> f[i]]
    PROVE  Len(f) = n /\ DOMAIN f = 1 .. n
<1>1. DOMAIN f = 1 .. n
  OBVIOUS
<1>2. f \in Seq({f[i] : i \in 1 .. n})
  <2> DEFINE R == {f[i] : i \in 1 .. n}
  <2>1. \A i \in 1 .. n : f[i] \in R
    OBVIOUS
  <2> HIDE DEF R
  <2>2. f \in [1 .. n -> R]
    BY <2>1
  <2>3. f \in Seq(R)
    BY <2>2
  <2> QED
    BY <2>3 DEF R
<1> QED
  BY <1>1, <1>2

\* A sequence without one of its members.
LEMMA RemoveAtFacts ==
    ASSUME NEW X, NEW s \in Seq(X), NEW n \in DOMAIN s
    PROVE  LET t == RemoveAt(s, n)
           IN  /\ t \in Seq(X) /\ Len(t) = Len(s) - 1 /\ DOMAIN t = 1 .. Len(s) - 1
               /\ \A i \in 1 .. Len(s) - 1 : t[i] = IF i < n THEN s[i] ELSE s[i + 1]
<1> DEFINE a == SubSeq(s, 1, n - 1)
           b == SubSeq(s, n + 1, Len(s))
           t == a \o b
<1>1. n \in 1 .. Len(s) /\ Len(s) \in Nat
  OBVIOUS
<1>2. a \in Seq(X) /\ Len(a) = n - 1 /\ \A i \in 1 .. n - 1 : a[i] = s[i]
  BY <1>1
<1>3. b \in Seq(X) /\ Len(b) = Len(s) - n /\ \A i \in 1 .. Len(s) - n : b[i] = s[n + i]
  BY <1>1
<1> HIDE DEF a, b
<1>4. /\ t \in Seq(X) /\ Len(t) = Len(a) + Len(b) /\ DOMAIN t = 1 .. Len(a) + Len(b)
      /\ \A i \in 1 .. Len(a) + Len(b) : t[i] = IF i <= Len(a) THEN a[i] ELSE b[i - Len(a)]
  <2>1. a \in Seq(X) /\ b \in Seq(X)
    BY <1>2, <1>3
  <2>2. t \in Seq(X) /\ Len(t) = Len(a) + Len(b) /\ DOMAIN t = 1 .. Len(a) + Len(b)
    BY <2>1
  <2>3. \A i \in 1 .. Len(a) + Len(b) : t[i] = IF i <= Len(a) THEN a[i] ELSE b[i - Len(a)]
    BY <2>1
  <2> QED
    BY <2>2, <2>3
<1> HIDE DEF t
<1>5. ASSUME NEW i \in 1 .. Len(s) - 1 PROVE t[i] = IF i < n THEN s[i] ELSE s[i + 1]
  <2> DEFINE k == n - 1
             l == Len(s) - n
  <2>1. Len(a) = k /\ Len(b) = l /\ k \in Nat /\ l \in Nat /\ i \in 1 .. k + l /\ n = k + 1
    BY <1>1, <1>2, <1>3
  <2>2. t[i] = IF i <= k THEN a[i] ELSE b[i - k]
    BY <1>4, <2>1
  <2>3. /\ \A j \in 1 .. k : a[j] = s[j]
        /\ \A j \in 1 .. l : b[j] = s[n + j]
    BY <1>2, <1>3
  <2> HIDE DEF k, l
  <2>4. i <= k => i \in 1 .. k /\ i < n
    BY <2>1
  <2>5. ~ (i <= k) => i - k \in 1 .. l /\ n + (i - k) = i + 1 /\ ~ (i < n)
    BY <2>1
  <2> QED
    BY <2>2, <2>3, <2>4, <2>5
<1>6. RemoveAt(s, n) = t
  BY DEF RemoveAt, a, b, t
<1>7. Len(a) + Len(b) = Len(s) - 1
  BY <1>1, <1>2, <1>3
<1> QED
  BY <1>4, <1>5, <1>6, <1>7

\* A sequence of the members of a set, each once, has all of them.
LEMMA SequenceOfSet ==
    ASSUME NEW S, IsFiniteSet(S), NEW s \in SetToSeqs(S)
    PROVE  /\ s \in Seq(S) /\ DOMAIN s = 1 .. Len(s) /\ Len(s) \in Nat /\ Len(s) = Cardinality(S)
           /\ \A i \in DOMAIN s : s[i] \in S
           /\ \A i, j \in DOMAIN s : i # j => s[i] # s[j]
           /\ \A x \in S : \E i \in DOMAIN s : s[i] = x
<1> DEFINE n == Cardinality(S)
<1>1. n \in Nat
  BY FS_CardinalityType
<1>2. s \in [1 .. n -> S] /\ \A i, j \in 1 .. n : i # j => s[i] # s[j]
  BY DEF SetToSeqs
<1>3. \A x \in S : \E i \in 1 .. n : s[i] = x
  <2>1. s \in Injection(1 .. n, S)
    BY <1>2 DEF Injection, IsInjective
  <2>2. Cardinality(1 .. n) = n
    BY <1>1, FS_Interval
  <2>3. s \in Surjection(1 .. n, S)
    BY <2>1, <2>2, FS_Injection
  <2> QED
    BY <2>3 DEF Surjection
<1> HIDE DEF n
<1>4. s \in Seq(S) /\ Len(s) = n /\ DOMAIN s = 1 .. n
  BY <1>1, <1>2
<1> QED
  BY <1>1, <1>2, <1>3, <1>4 DEF n

\* A finite set of numbers can be put in order.
LEMMA OrderExists ==
    ASSUME NEW S \in SUBSET Int, IsFiniteSet(S)
    PROVE  \E s \in SetToSeqs(S) : \A i, j \in DOMAIN s : i < j => s[i] < s[j]
<1> DEFINE Ordered(T) == \E s \in SetToSeqs(T) : \A i, j \in DOMAIN s : i < j => s[i] < s[j]
           B == {T \in SUBSET S : ~ Ordered(T)}
<1> SUFFICES ASSUME B # {} PROVE FALSE
  OBVIOUS
<1>1. \A T \in B : IsFiniteSet(T)
  BY FS_Subset
<1>2. PICK T \in B : \A U \in B : U \subseteq T => U = T
  <2> HIDE DEF B
  <2> QED
    BY <1>1, SmallestSet
<1>3. T \in SUBSET Int /\ IsFiniteSet(T) /\ ~ Ordered(T)
  BY <1>1, <1>2
<1>4. T # {}
  <2> SUFFICES Ordered({})
    BY <1>3
  <2>1. <<>> \in SetToSeqs({})
    BY FS_EmptySet DEF SetToSeqs
  <2> QED
    BY <2>1
<1>5. PICK x \in T : \A y \in T : y <= x
  BY <1>3, <1>4, Extremes
<1> DEFINE U == T \ {x}
           n == Cardinality(T)
<1>6. /\ IsFiniteSet(U) /\ U \in SUBSET T /\ U # T /\ Cardinality(U) = n - 1 /\ n \in Nat
      /\ \A y \in U : y < x
  BY <1>3, <1>5, FS_RemoveElement, FS_CardinalityType
<1>7. PICK s \in SetToSeqs(U) : \A i, j \in DOMAIN s : i < j => s[i] < s[j]
  BY <1>2, <1>6
<1>8. /\ DOMAIN s = 1 .. n - 1 /\ \A i \in 1 .. n - 1 : s[i] \in U
      /\ \A i, j \in 1 .. n - 1 : i # j => s[i] # s[j]
  <2> HIDE DEF U, n
  <2> QED
    BY <1>6, <1>7, SequenceOfSet
<1> DEFINE t == [i \in 1 .. n |-> IF i = n THEN x ELSE s[i]]
<1>9. \A i \in 1 .. n : i # n => i \in 1 .. n - 1
  BY <1>6
<1>10. t \in SetToSeqs(T)
  <2>1. t \in [1 .. n -> T]
    BY <1>5, <1>8, <1>9
  <2>2. ASSUME NEW i \in 1 .. n, NEW j \in 1 .. n, i # j PROVE t[i] # t[j]
    BY <1>8, <1>9, <2>2
  <2> QED
    BY <2>1, <2>2 DEF SetToSeqs
<1>11. ASSUME NEW i \in 1 .. n, NEW j \in 1 .. n, i < j PROVE t[i] < t[j]
  <2>1. i # n /\ i \in 1 .. n - 1
    BY <1>6, <1>9, <1>11
  <2>2. CASE j = n
    BY <1>6, <1>8, <2>1, <2>2
  <2>3. CASE j # n
    BY <1>7, <1>8, <1>9, <1>11, <2>1, <2>3
  <2> QED
    BY <2>2, <2>3
<1>12. Ordered(T)
  <2>1. DOMAIN t = 1 .. n
    OBVIOUS
  <2> HIDE DEF t
  <2> QED
    BY <1>10, <1>11, <2>1
<1> QED
  BY <1>3, <1>12

=============================================================================
