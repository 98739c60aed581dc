----------------------------- MODULE CommonTheorems -----------------------------
(***************************************************************************)
(* What the proofs of several modules need and the library does not state:  *)
(* least elements, and sums of the values of a function over a finite set,  *)
(* as the library has them: a fold that takes the elements in an order of   *)
(* its own.  The proofs are by a smallest set for which the claim fails,    *)
(* since an induction rule that is given its predicate is beyond the        *)
(* provers.                                                                 *)
(***************************************************************************)
EXTENDS Naturals, Functions, FiniteSetTheorems, WellFoundedInduction, TLAPS

\* Of any collection of subsets of a finite set one has no smaller one below it.
LEMMA SmallestSubset ==
  ASSUME NEW S, IsFiniteSet(S), NEW B \in SUBSET (SUBSET S), B # {}
  PROVE  \E T \in B : \A U \in SUBSET T : U # T => U \notin B
<1>1. IsWellFoundedOn(StrictSubsetOrdering(S), SUBSET S)
  BY FS_StrictSubsetOrderingWellFounded, FS_FiniteSubsetsOfFinite
<1>2. PICK T \in B : \A U \in B : ~ (<<U, T>> \in StrictSubsetOrdering(S))
  BY <1>1, WFMin
<1>3. \A U \in B : U \subseteq T => U = T
  BY <1>2 DEF StrictSubsetOrdering
<1> QED BY <1>3

\* A nonempty set of naturals has a least element.
LEMMA LeastNatural ==
  ASSUME NEW T \in SUBSET Nat, T # {}
  PROVE  \E k \in T : \A m \in T : k <= m
<1>1. IsWellFoundedOn(OpToRel(<, Nat), Nat)
  BY NatLessThanWellFounded
<1>2. PICK k \in T : \A m \in T : ~ (<<m, k>> \in OpToRel(<, Nat))
  BY <1>1, WFMin
<1>3. \A m \in T : ~ (m < k)
  BY <1>2 DEF OpToRel
<1>4. \A m \in T : k <= m
  <2> HIDE <1>2
  <2> QED BY <1>3
<1> QED BY <1>4

-----------------------------------------------------------------------------
(* The function that the fold is made of.                                   *)

AnyOf(s) == CHOOSE x \in s : TRUE

SumAt(f, g, s) == IF s = {} THEN 0 ELSE f[AnyOf(s)] + g[s \ {AnyOf(s)}]

IsSum(f, S, g) == g = [s \in SUBSET S |-> SumAt(f, g, s)]

LEMMA Picked == ASSUME NEW s, s # {} PROVE AnyOf(s) \in s
BY DEF AnyOf

LEMMA SumIsUnique ==
  ASSUME NEW f, NEW S, IsFiniteSet(S), NEW T, NEW g, NEW h,
         IsSum(f, S, g), IsSum(f, T, h), NEW s \in SUBSET S, s \subseteq T
  PROVE  g[s] = h[s]
<1> DEFINE Bad == {t \in SUBSET S : t \subseteq T /\ g[t] # h[t]}
<1>1. SUFFICES ASSUME Bad # {} PROVE FALSE
  OBVIOUS
<1>2. PICK t \in Bad : \A u \in SUBSET t : u # t => u \notin Bad
  <2>1. Bad \in SUBSET (SUBSET S)
    OBVIOUS
  <2> HIDE DEF Bad
  <2> QED BY <1>1, <2>1, SmallestSubset
<1>3. g[t] = SumAt(f, g, t) /\ h[t] = SumAt(f, h, t)
  BY DEF IsSum
<1>4. CASE t = {}
  BY <1>2, <1>3, <1>4 DEF SumAt
<1>5. CASE t # {}
  <2>1. g[t \ {AnyOf(t)}] = h[t \ {AnyOf(t)}]
    BY <1>2, <1>5, Picked
  <2> QED BY <1>2, <1>3, <1>5, <2>1 DEF SumAt
<1> QED BY <1>4, <1>5

LEMMA SumExists ==
  ASSUME NEW f, NEW S, IsFiniteSet(S)
  PROVE  \E g : IsSum(f, S, g)
<1> DEFINE Bad == {T \in SUBSET S : ~ \E g : IsSum(f, T, g)}
<1>1. SUFFICES ASSUME Bad # {} PROVE FALSE
  OBVIOUS
<1>2. PICK T \in Bad : \A U \in SUBSET T : U # T => U \notin Bad
  <2>1. Bad \in SUBSET (SUBSET S)
    OBVIOUS
  <2> HIDE DEF Bad
  <2> QED BY <1>1, <2>1, SmallestSubset
<1> DEFINE G(U) == CHOOSE g : IsSum(f, U, g)
           g == [s \in SUBSET T |->
                   IF s = {} THEN 0 ELSE f[AnyOf(s)] + G(s \ {AnyOf(s)})[s \ {AnyOf(s)}]]
<1>3. ASSUME NEW U \in SUBSET T, U # T PROVE IsSum(f, U, G(U)) /\ IsFiniteSet(U)
  <2>1. \E h : IsSum(f, U, h)
    BY <1>2, <1>3
  <2> QED BY <2>1, FS_Subset
<1>4. ASSUME NEW s \in SUBSET T, s # T PROVE g[s] = G(s)[s]
  <2>1. IsSum(f, s, G(s)) /\ IsFiniteSet(s)
    BY <1>3, <1>4
  <2>2. G(s)[s] = SumAt(f, G(s), s)
    BY <2>1 DEF IsSum
  <2>3. CASE s = {}
    BY <2>2, <2>3 DEF SumAt
  <2>4. CASE s # {}
    <3> DEFINE u == s \ {AnyOf(s)}
    <3>1. u \in SUBSET s /\ u \in SUBSET T /\ u # T
      BY <1>4, <2>4, Picked
    <3>2. IsSum(f, u, G(u)) /\ IsFiniteSet(u)
      BY <1>3, <3>1
    <3> HIDE DEF u, G
    <3>3. G(u)[u] = G(s)[u]
      BY <2>1, <3>1, <3>2, SumIsUnique
    <3> QED BY <2>2, <2>4, <3>3 DEF SumAt, u
  <2> QED BY <2>3, <2>4
<1>5. ASSUME NEW s \in SUBSET T PROVE g[s] = SumAt(f, g, s)
  <2>1. CASE s = {}
    BY <2>1 DEF SumAt
  <2>2. CASE s # {}
    <3> DEFINE u == s \ {AnyOf(s)}
    <3>1. u \in SUBSET T /\ u # T
      BY <2>2, Picked
    <3>2. g[u] = G(u)[u]
      BY <1>4, <3>1
    <3> QED BY <2>2, <3>2 DEF SumAt
  <2> QED BY <2>1, <2>2
<1>6. IsSum(f, T, g)
  BY <1>5 DEF IsSum
<1> QED BY <1>2, <1>6

-----------------------------------------------------------------------------
(* SumFunctionOnSet.                                                        *)

LEMMA SumIsSum ==
  ASSUME NEW f, NEW S, IsFiniteSet(S)
  PROVE  \E g : IsSum(f, S, g) /\ SumFunctionOnSet(f, S) = g[S]
<1> DEFINE g == CHOOSE h : IsSum(f, S, h)
<1>1. IsSum(f, S, g)
  BY SumExists
<1>2. SumFunctionOnSet(f, S) = g[S]
  BY DEF SumFunctionOnSet, FoldFunctionOnSet, MapThenFoldSet, IsSum, SumAt, AnyOf
<1> QED BY <1>1, <1>2

Sum(f, S) == SumFunctionOnSet(f, S)

\* The sum over a part of a set is read off the same function.
LEMMA SumOfPart ==
  ASSUME NEW f, NEW S, IsFiniteSet(S), NEW g, IsSum(f, S, g), NEW T \in SUBSET S
  PROVE  Sum(f, T) = g[T]
<1>1. IsFiniteSet(T)
  BY FS_Subset
<1>2. PICK h : IsSum(f, T, h) /\ SumFunctionOnSet(f, T) = h[T]
  BY <1>1, SumIsSum
<1>3. h[T] = g[T]
  BY <1>1, <1>2, SumIsUnique
<1> QED BY <1>2, <1>3 DEF Sum

\* Nothing adds up to nothing.
LEMMA SumEmpty == ASSUME NEW f PROVE Sum(f, {}) = 0
<1>1. IsFiniteSet({})
  BY FS_EmptySet
<1>2. PICK g : IsSum(f, {}, g) /\ SumFunctionOnSet(f, {}) = g[{}]
  BY <1>1, SumIsSum
<1> QED BY <1>2 DEF IsSum, SumAt, Sum

\* The fold takes the element of its choice first.
LEMMA SumStep ==
  ASSUME NEW f, NEW S, IsFiniteSet(S), S # {}
  PROVE  Sum(f, S) = f[AnyOf(S)] + Sum(f, S \ {AnyOf(S)})
<1>1. PICK g : IsSum(f, S, g) /\ SumFunctionOnSet(f, S) = g[S]
  BY SumIsSum
<1>2. Sum(f, S \ {AnyOf(S)}) = g[S \ {AnyOf(S)}]
  BY <1>1, SumOfPart
<1> QED BY <1>1, <1>2 DEF IsSum, SumAt, Sum

-----------------------------------------------------------------------------
(* What is proved of sums from these two facts.                             *)

\* A sum of naturals is a natural.
LEMMA SumNat ==
  ASSUME NEW f, NEW S, IsFiniteSet(S), \A x \in S : f[x] \in Nat
  PROVE  Sum(f, S) \in Nat
<1> DEFINE Bad == {T \in SUBSET S : Sum(f, T) \notin Nat}
<1>1. SUFFICES ASSUME Bad # {} PROVE FALSE
  OBVIOUS
<1>2. PICK T \in Bad : \A U \in SUBSET T : U # T => U \notin Bad
  <2>1. Bad \in SUBSET (SUBSET S)
    OBVIOUS
  <2> HIDE DEF Bad
  <2> QED BY <1>1, <2>1, SmallestSubset
<1>3. IsFiniteSet(T)
  BY FS_Subset
<1>4. CASE T = {}
  BY <1>2, <1>4, SumEmpty
<1>5. CASE T # {}
  <2>1. AnyOf(T) \in T
    BY <1>5, Picked
  <2>2. Sum(f, T \ {AnyOf(T)}) \in Nat
    BY <1>2, <2>1
  <2>3. Sum(f, T) = f[AnyOf(T)] + Sum(f, T \ {AnyOf(T)})
    BY <1>3, <1>5, SumStep
  <2> QED BY <2>1, <2>2, <2>3
<1> QED BY <1>4, <1>5

\* Only the values on the set count.
LEMMA SumSame ==
  ASSUME NEW f, NEW g, NEW S, IsFiniteSet(S), \A x \in S : f[x] = g[x]
  PROVE  Sum(f, S) = Sum(g, S)
<1> DEFINE Bad == {T \in SUBSET S : Sum(f, T) # Sum(g, T)}
<1>1. SUFFICES ASSUME Bad # {} PROVE FALSE
  OBVIOUS
<1>2. PICK T \in Bad : \A U \in SUBSET T : U # T => U \notin Bad
  <2>1. Bad \in SUBSET (SUBSET S)
    OBVIOUS
  <2> HIDE DEF Bad
  <2> QED BY <1>1, <2>1, SmallestSubset
<1>3. IsFiniteSet(T)
  BY FS_Subset
<1>4. CASE T = {}
  BY <1>2, <1>4, SumEmpty
<1>5. CASE T # {}
  <2>1. AnyOf(T) \in T
    BY <1>5, Picked
  <2>2. Sum(f, T \ {AnyOf(T)}) = Sum(g, T \ {AnyOf(T)})
    BY <1>2, <2>1
  <2>3. /\ Sum(f, T) = f[AnyOf(T)] + Sum(f, T \ {AnyOf(T)})
        /\ Sum(g, T) = g[AnyOf(T)] + Sum(g, T \ {AnyOf(T)})
    BY <1>3, <1>5, SumStep
  <2> QED BY <2>1, <2>2, <2>3
<1> QED BY <1>4, <1>5

\* Any element may be taken first.
LEMMA SumRemove ==
  ASSUME NEW f, NEW S, IsFiniteSet(S), \A x \in S : f[x] \in Nat, NEW e \in S
  PROVE  Sum(f, S) = f[e] + Sum(f, S \ {e})
<1> DEFINE Good(T) == \A x \in T : Sum(f, T) = f[x] + Sum(f, T \ {x})
           Bad == {T \in SUBSET S : ~ Good(T)}
<1>1. SUFFICES ASSUME Bad # {} PROVE FALSE
  OBVIOUS
<1>2. PICK T \in Bad : \A U \in SUBSET T : U # T => U \notin Bad
  <2>1. Bad \in SUBSET (SUBSET S)
    OBVIOUS
  <2> HIDE DEF Bad
  <2> QED BY <1>1, <2>1, SmallestSubset
<1>3. T \in SUBSET S /\ IsFiniteSet(T)
  BY FS_Subset
<1>4. PICK x \in T : Sum(f, T) # f[x] + Sum(f, T \ {x})
  OBVIOUS
<1>5. PICK p \in T : Sum(f, T) = f[p] + Sum(f, T \ {p})
  BY <1>3, <1>4, Picked, SumStep
<1>6. p # x
  BY <1>4, <1>5
<1> DEFINE rest == (T \ {p}) \ {x}
<1>7. Sum(f, T \ {p}) = f[x] + Sum(f, rest)
  <2>1. T \ {p} \in SUBSET T /\ T \ {p} # T /\ x \in T \ {p}
    BY <1>6
  <2>2. Good(T \ {p})
    BY <1>2, <1>3, <2>1
  <2> QED BY <2>1, <2>2
<1>8. Sum(f, T \ {x}) = f[p] + Sum(f, rest)
  <2>1. T \ {x} \in SUBSET T /\ T \ {x} # T /\ p \in T \ {x}
    BY <1>6
  <2>2. Good(T \ {x})
    BY <1>2, <1>3, <2>1
  <2>3. (T \ {x}) \ {p} = rest
    OBVIOUS
  <2> QED BY <2>1, <2>2, <2>3
<1>9. Sum(f, rest) \in Nat /\ f[x] \in Nat /\ f[p] \in Nat
  <2>1. IsFiniteSet(rest) /\ rest \subseteq S
    BY <1>3, FS_Subset
  <2> HIDE DEF rest
  <2> QED BY <1>3, <2>1, SumNat
<1> HIDE DEF rest
<1> QED BY <1>4, <1>5, <1>7, <1>8, <1>9

\* One more element adds its value, and leaves the rest of the sum alone.
LEMMA SumAdd ==
  ASSUME NEW f, NEW g, NEW S, IsFiniteSet(S), NEW e, e \notin S,
         \A x \in S : g[x] = f[x] /\ f[x] \in Nat, g[e] \in Nat
  PROVE  Sum(g, S \cup {e}) = Sum(f, S) + g[e]
<1>1. IsFiniteSet(S \cup {e})
  BY FS_AddElement
<1>2. Sum(g, S \cup {e}) = g[e] + Sum(g, (S \cup {e}) \ {e})
  BY <1>1, SumRemove
<1>3. (S \cup {e}) \ {e} = S
  OBVIOUS
<1>4. Sum(g, S) = Sum(f, S)
  BY SumSame
<1>5. Sum(f, S) \in Nat
  BY SumNat
<1>6. Sum(g, S \cup {e}) = g[e] + Sum(f, S)
  BY <1>2, <1>3, <1>4, Zenon
<1> QED BY <1>5, <1>6

\* The same value n times is n times the value.
LEMMA SumConstant ==
  ASSUME NEW f, NEW S, IsFiniteSet(S), NEW k \in Nat, \A x \in S : f[x] = k
  PROVE  Cardinality(S) \in Nat /\ Sum(f, S) = k * Cardinality(S)
<1> DEFINE Bad == {T \in SUBSET S : Sum(f, T) # k * Cardinality(T)}
<1>1. Cardinality(S) \in Nat
  BY FS_CardinalityType
<1>2. SUFFICES ASSUME Bad # {} PROVE FALSE
  BY <1>1
<1>3. PICK T \in Bad : \A U \in SUBSET T : U # T => U \notin Bad
  <2>1. Bad \in SUBSET (SUBSET S)
    OBVIOUS
  <2> HIDE DEF Bad
  <2> QED BY <1>2, <2>1, SmallestSubset
<1>4. IsFiniteSet(T)
  BY FS_Subset
<1>5. CASE T = {}
  BY <1>3, <1>5, SumEmpty, FS_EmptySet
<1>6. CASE T # {}
  <2> DEFINE p == AnyOf(T)
             U == T \ {p}
  <2>1. p \in T
    BY <1>6, Picked
  <2>2. Sum(f, U) = k * Cardinality(U)
    BY <1>3, <2>1
  <2>3. Sum(f, T) = k + Sum(f, U)
    BY <1>4, <1>6, <2>1, SumStep
  <2> HIDE DEF p
  <2>4. Cardinality(U) = Cardinality(T) - 1 /\ Cardinality(T) \in Nat
    BY <1>4, <2>1, FS_RemoveElement, FS_CardinalityType
  <2> HIDE DEF U
  <2>5. Sum(f, T) = k * Cardinality(T)
    BY <2>2, <2>3, <2>4
  <2> QED BY <1>3, <2>5
<1> QED BY <1>5, <1>6

\* What is smaller everywhere adds up to no more.
LEMMA SumMonotone ==
  ASSUME NEW f, NEW g, NEW S, IsFiniteSet(S),
         \A x \in S : f[x] \in Nat /\ g[x] \in Nat /\ f[x] <= g[x]
  PROVE  Sum(f, S) <= Sum(g, S)
<1> DEFINE Bad == {T \in SUBSET S : ~ (Sum(f, T) <= Sum(g, T))}
<1>1. SUFFICES ASSUME Bad # {} PROVE FALSE
  OBVIOUS
<1>2. PICK T \in Bad : \A U \in SUBSET T : U # T => U \notin Bad
  <2>1. Bad \in SUBSET (SUBSET S)
    OBVIOUS
  <2> HIDE DEF Bad
  <2> QED BY <1>1, <2>1, SmallestSubset
<1>3. IsFiniteSet(T)
  BY FS_Subset
<1>4. CASE T = {}
  BY <1>2, <1>4, SumEmpty
<1>5. CASE T # {}
  <2> DEFINE p == AnyOf(T)
             U == T \ {p}
  <2>1. p \in T
    BY <1>5, Picked
  <2>2. Sum(f, U) <= Sum(g, U)
    BY <1>2, <2>1
  <2>3. Sum(f, T) = f[p] + Sum(f, U) /\ Sum(g, T) = g[p] + Sum(g, U)
    BY <1>3, <1>5, SumStep
  <2>4. IsFiniteSet(U) /\ U \subseteq S
    BY <1>3, FS_Subset
  <2>5. Sum(f, U) \in Nat /\ Sum(g, U) \in Nat
    <3> HIDE DEF U
    <3> QED BY <2>4, SumNat
  <2> HIDE DEF p, U
  <2> QED BY <1>2, <2>1, <2>2, <2>3, <2>5
<1> QED BY <1>4, <1>5

-----------------------------------------------------------------------------
(* SumFunction.                                                             *)

LEMMA FunctionSum == ASSUME NEW f PROVE SumFunction(f) = Sum(f, DOMAIN f)
BY DEF SumFunction, Sum

\* A function on the empty set adds up to nothing.
LEMMA FunctionSumEmpty == ASSUME NEW f, DOMAIN f = {} PROVE SumFunction(f) = 0
BY FunctionSum, SumEmpty

\* A function that is defined of one more element.
LEMMA FunctionSumAdd ==
  ASSUME NEW f, NEW g, IsFiniteSet(DOMAIN f), NEW e, e \notin DOMAIN f,
         DOMAIN g = DOMAIN f \cup {e}, \A x \in DOMAIN f : g[x] = f[x] /\ f[x] \in Nat,
         g[e] \in Nat
  PROVE  SumFunction(g) = SumFunction(f) + g[e]
<1> DEFINE S == DOMAIN f
<1>1. Sum(g, S \cup {e}) = Sum(f, S) + g[e]
  BY SumAdd
<1>2. SumFunction(g) = Sum(g, S \cup {e}) /\ SumFunction(f) = Sum(f, S)
  BY FunctionSum, Zenon
<1> QED BY <1>1, <1>2
=============================================================================
