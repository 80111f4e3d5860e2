-------------------------------- MODULE Sums --------------------------------
(***************************************************************************)
(* Finite sums, for the proofs about units of stock: SumFunction of the     *)
(* community module Functions adds up a function over its domain, and here   *)
(* are the laws of it that those proofs use.                                *)
(*                                                                         *)
(* SumFunction is a fold, which TLA+ defines by a recursive function and     *)
(* therefore by CHOOSE, so that even its recursion equation has to be        *)
(* proved.  The proofs are by induction over the subsets of a finite set,    *)
(* as the principle that a non-empty set of them has a smallest member.      *)
(***************************************************************************)
EXTENDS Integers, Functions, FiniteSets, FiniteSetTheorems, WellFoundedInduction, TLAPS

\* A non-empty set of subsets of a finite set has a member none of the others is inside.
LEMMA SmallestSubset ==
  ASSUME NEW S, IsFiniteSet(S), NEW B \in SUBSET (SUBSET S), B # {}
  PROVE  \E T \in B : \A U \in B : U \subseteq T => U = T
  <1> DEFINE R == StrictSubsetOrdering(S)
  <1>1. IsWellFoundedOn(R, SUBSET S)
    BY FS_StrictSubsetOrderingWellFounded, FS_FiniteSubsetsOfFinite
  <1>2. \A U, T \in SUBSET S : <<U, T>> \in R <=> U \subseteq T /\ U # T
    BY DEF StrictSubsetOrdering
  <1> HIDE DEF R
  <1>3. PICK T \in B : \A U \in B : ~ (<<U, T>> \in R)
    BY <1>1, WFMin, Zenon
  <1>4. ASSUME NEW U \in B, U \subseteq T
        PROVE  U = T
    <2>1. U \in SUBSET S /\ T \in SUBSET S /\ ~ (<<U, T>> \in R)
      BY <1>3
    <2> QED BY <1>2, <1>4, <2>1
  <1> QED BY <1>4

\* Induction over the subsets of a finite set, for a property given as the set W of those
\* that have it.
LEMMA SubsetInduction ==
  ASSUME NEW S, IsFiniteSet(S), NEW W,
         \A T \in SUBSET S : (\A x \in T : T \ {x} \in W) => T \in W
  PROVE  \A T \in SUBSET S : T \in W
  <1> DEFINE B == {T \in SUBSET S : T \notin W}
  <1> SUFFICES ASSUME B # {} PROVE FALSE
    OBVIOUS
  <1>1. PICK T \in B : \A U \in B : U \subseteq T => U = T
    <2>1. B \in SUBSET (SUBSET S)
      OBVIOUS
    <2> HIDE DEF B
    <2> QED BY <2>1, SmallestSubset
  <1>2. ASSUME NEW x \in T
        PROVE  T \ {x} \in W
    <2>1. T \ {x} \in SUBSET S /\ T \ {x} \subseteq T /\ T \ {x} # T
      OBVIOUS
    <2> QED BY <1>1, <2>1
  <1> QED BY <1>1, <1>2

-----------------------------------------------------------------------------
(* The recursion that SumFunction stands for *)

Pick(s) == CHOOSE x \in s : TRUE

\* g adds up f over every subset of S, one picked element at a time.
AddsUp(g, f, S) ==
  g = [s \in SUBSET S |-> IF s = {} THEN 0 ELSE f[Pick(s)] + g[s \ {Pick(s)}]]

Total(f, S) == (CHOOSE g : AddsUp(g, f, S))[S]

\* The sum of the community module is the total over the domain.
LEMMA SumIsTotal ==
  ASSUME NEW f
  PROVE  SumFunction(f) = Total(f, DOMAIN f)
  BY DEF SumFunction, SumFunctionOnSet, FoldFunctionOnSet, MapThenFoldSet, Total, AddsUp, Pick

\* The chosen element is one of the set.
LEMMA PickIn == \A s : s # {} => Pick(s) \in s
  BY DEF Pick

\* Two functions that add up f agree where both are defined.
LEMMA AddsUpUnique ==
  ASSUME NEW f, NEW S, IsFiniteSet(S), NEW A, NEW g, AddsUp(g, f, A), NEW h, NEW C,
         AddsUp(h, f, C), S \subseteq A, S \subseteq C
  PROVE  g[S] = h[S]
  <1> DEFINE W == {T \in SUBSET S : g[T] = h[T]}
  <1>1. ASSUME NEW T \in SUBSET S, \A x \in T : T \ {x} \in W
        PROVE  T \in W
    <2>1. T \in SUBSET A /\ T \in SUBSET C
      OBVIOUS
    <2>2. /\ g[T] = IF T = {} THEN 0 ELSE f[Pick(T)] + g[T \ {Pick(T)}]
          /\ h[T] = IF T = {} THEN 0 ELSE f[Pick(T)] + h[T \ {Pick(T)}]
      BY <2>1 DEF AddsUp
    <2>3. T # {} => g[T \ {Pick(T)}] = h[T \ {Pick(T)}]
      BY <1>1, PickIn
    <2> QED BY <2>2, <2>3
  <1>2. \A T \in SUBSET S : T \in W
    <2> HIDE DEF W
    <2> QED BY <1>1, SubsetInduction
  <1> QED BY <1>2

\* Part of a function that adds up f adds up f too.
LEMMA AddsUpPart ==
  ASSUME NEW f, NEW S, NEW g, AddsUp(g, f, S), NEW T \in SUBSET S
  PROVE  AddsUp([s \in SUBSET T |-> g[s]], f, T)
  <1> DEFINE h == [s \in SUBSET T |-> g[s]]
             k == [s \in SUBSET T |-> IF s = {} THEN 0 ELSE f[Pick(s)] + h[s \ {Pick(s)}]]
  <1>1. ASSUME NEW s \in SUBSET T
        PROVE  h[s] = k[s]
    <2>1. s \in SUBSET S /\ s \ {Pick(s)} \in SUBSET T
      OBVIOUS
    <2>2. g[s] = IF s = {} THEN 0 ELSE f[Pick(s)] + g[s \ {Pick(s)}]
      BY <2>1 DEF AddsUp
    <2> QED BY <2>1, <2>2
  <1>2. h = k
    BY <1>1
  <1> QED BY <1>2 DEF AddsUp

\* There is such a function, whatever f is.
LEMMA AddsUpExists ==
  ASSUME NEW f, NEW S, IsFiniteSet(S)
  PROVE  \E g : AddsUp(g, f, S)
  <1> DEFINE W == {T \in SUBSET S : \E g : AddsUp(g, f, T)}
  <1>1. ASSUME NEW T \in SUBSET S, \A x \in T : T \ {x} \in W
        PROVE  T \in W
    <2> DEFINE sum(s) == (CHOOSE g : AddsUp(g, f, s))[s]
               body(s) == IF s = {} THEN 0 ELSE f[Pick(s)] + sum(s \ {Pick(s)})
               new == [s \in SUBSET T |-> body(s)]
    <2>1. ASSUME NEW s \in SUBSET T, s # T
          PROVE  /\ \E g : AddsUp(g, f, s)
                 /\ sum(s) = body(s)
      <3>1. PICK x \in T : x \notin s
        BY <2>1
      <3>2. PICK g : AddsUp(g, f, T \ {x})
        BY <1>1
      <3>3. s \in SUBSET (T \ {x})
        BY <3>1
      <3>4. AddsUp([t \in SUBSET s |-> g[t]], f, s)
        BY <3>2, <3>3, AddsUpPart
      <3> DEFINE r == s \ {Pick(s)}
                 a == CHOOSE b : AddsUp(b, f, s)
                 c == CHOOSE b : AddsUp(b, f, r)
      <3>5. AddsUp(a, f, s)
        BY <3>4
      <3>6. r \in SUBSET s
        OBVIOUS
      <3>7. AddsUp(c, f, r)
        <4>1. AddsUp([t \in SUBSET r |-> a[t]], f, r)
          BY <3>5, <3>6, AddsUpPart
        <4> QED BY <4>1
      <3>8. IsFiniteSet(r)
        BY FS_Subset
      <3>9. a[r] = c[r]
        <4> HIDE DEF a, c, r
        <4> QED BY <3>5, <3>6, <3>7, <3>8, AddsUpUnique
      <3>10. a[s] = IF s = {} THEN 0 ELSE f[Pick(s)] + a[r]
        <4> HIDE DEF a
        <4> QED BY <3>5 DEF AddsUp
      <3> QED BY <3>4, <3>9, <3>10
    <2>2. ASSUME NEW s \in SUBSET T
          PROVE  new[s] = IF s = {} THEN 0 ELSE f[Pick(s)] + new[s \ {Pick(s)}]
      <3>1. CASE s = {}
        BY <3>1
      <3>2. CASE s # {}
        <4> DEFINE r == s \ {Pick(s)}
        <4>1. r \in SUBSET T /\ r # T
          BY <3>2, PickIn
        <4>2. new[r] = sum(r)
          BY <2>1, <4>1
        <4>3. new[s] = f[Pick(s)] + sum(r)
          BY <3>2
        <4> QED BY <3>2, <4>2, <4>3
      <3> QED BY <3>1, <3>2
    <2>3. AddsUp(new, f, T)
      <3> DEFINE k == [s \in SUBSET T |-> IF s = {} THEN 0 ELSE f[Pick(s)] + new[s \ {Pick(s)}]]
      <3>1. \A s \in SUBSET T : new[s] = k[s]
        BY <2>2
      <3>2. DOMAIN new = SUBSET T /\ DOMAIN k = SUBSET T
        OBVIOUS
      <3>3. new = k
        BY <3>1
      <3> QED BY <3>3 DEF AddsUp
    <2> QED BY <2>3
  <1>2. \A T \in SUBSET S : T \in W
    <2> HIDE DEF W
    <2> QED BY <1>1, SubsetInduction
  <1> QED BY <1>2

-----------------------------------------------------------------------------
(* The laws of sums *)

\* The total of a set is its chosen element and the total of the rest.
LEMMA TotalStep ==
  ASSUME NEW f, NEW S, IsFiniteSet(S)
  PROVE  Total(f, S) = IF S = {} THEN 0 ELSE f[Pick(S)] + Total(f, S \ {Pick(S)})
  <1> DEFINE r == S \ {Pick(S)}
             a == CHOOSE g : AddsUp(g, f, S)
             c == CHOOSE g : AddsUp(g, f, r)
  <1>1. IsFiniteSet(r) /\ r \in SUBSET S
    BY FS_Subset
  <1>2. AddsUp(a, f, S)
    BY AddsUpExists
  <1>3. AddsUp(c, f, r)
    <2>1. \E g : AddsUp(g, f, r)
      <3> HIDE DEF r
      <3> QED BY <1>1, AddsUpExists
    <2> QED BY <2>1
  <1>4. a[r] = c[r]
    <2> HIDE DEF a, c, r
    <2> QED BY <1>1, <1>2, <1>3, AddsUpUnique
  <1>5. a[S] = IF S = {} THEN 0 ELSE f[Pick(S)] + a[r]
    <2> HIDE DEF a
    <2> QED BY <1>2 DEF AddsUp
  <1> QED BY <1>4, <1>5 DEF Total

\* A total of naturals is a natural.
LEMMA TotalNat ==
  ASSUME NEW f, NEW S, IsFiniteSet(S), \A x \in S : f[x] \in Nat
  PROVE  Total(f, S) \in Nat
  <1> DEFINE W == {T \in SUBSET S : Total(f, T) \in Nat}
  <1>1. ASSUME NEW T \in SUBSET S, \A x \in T : T \ {x} \in W
        PROVE  T \in W
    <2>1. IsFiniteSet(T)
      BY FS_Subset
    <2>2. CASE T = {}
      <3>1. Total(f, T) = 0
        BY <2>1, <2>2, TotalStep
      <3> QED BY <3>1
    <2>3. CASE T # {}
      <3>1. f[Pick(T)] \in Nat /\ Total(f, T \ {Pick(T)}) \in Nat
        BY <1>1, <2>3, PickIn
      <3>2. Total(f, T) = f[Pick(T)] + Total(f, T \ {Pick(T)})
        BY <2>1, <2>3, TotalStep
      <3> QED BY <3>1, <3>2
    <2> QED BY <2>2, <2>3
  <1>2. \A T \in SUBSET S : T \in W
    <2> HIDE DEF W
    <2> QED BY <1>1, SubsetInduction
  <1> QED BY <1>2

\* The elements may be taken in any order.
LEMMA TotalRemove ==
  ASSUME NEW f, NEW S, IsFiniteSet(S), \A x \in S : f[x] \in Nat, NEW x \in S
  PROVE  Total(f, S) = f[x] + Total(f, S \ {x})
  <1> DEFINE W == {T \in SUBSET S : \A y \in T : Total(f, T) = f[y] + Total(f, T \ {y})}
  <1>1. ASSUME NEW T \in SUBSET S, \A z \in T : T \ {z} \in W, NEW y \in T
        PROVE  Total(f, T) = f[y] + Total(f, T \ {y})
    <2> DEFINE p == Pick(T)
    <2>1. IsFiniteSet(T) /\ IsFiniteSet(T \ {y}) /\ IsFiniteSet((T \ {y}) \ {p})
      BY FS_Subset
    <2>2. p \in T
      BY PickIn
    <2>3. Total(f, T) = f[p] + Total(f, T \ {p})
      BY <2>1, TotalStep
    <2>4. CASE y = p
      BY <2>3, <2>4
    <2>5. CASE y # p
      <3>1. Total(f, T \ {p}) = f[y] + Total(f, (T \ {p}) \ {y})
        BY <1>1, <2>2, <2>5
      <3>2. Total(f, T \ {y}) = f[p] + Total(f, (T \ {y}) \ {p})
        BY <1>1, <2>2, <2>5
      <3>3. (T \ {p}) \ {y} = (T \ {y}) \ {p}
        OBVIOUS
      <3>4. f[p] \in Nat /\ f[y] \in Nat
        BY <2>2
      <3>5. Total(f, (T \ {y}) \ {p}) \in Nat
        <4> DEFINE q == (T \ {y}) \ {p}
        <4>1. IsFiniteSet(q) /\ \A z \in q : f[z] \in Nat
          BY <2>1
        <4> HIDE DEF q
        <4>2. Total(f, q) \in Nat
          BY <4>1, TotalNat
        <4> QED BY <4>2 DEF q
      <3> HIDE DEF p
      <3> QED BY <2>3, <3>1, <3>2, <3>3, <3>4, <3>5
    <2> QED BY <2>4, <2>5
  <1>2. \A T \in SUBSET S : T \in W
    <2>1. \A T \in SUBSET S : (\A z \in T : T \ {z} \in W) => T \in W
      BY <1>1
    <2> HIDE DEF W
    <2> QED BY <2>1, SubsetInduction
  <1> QED BY <1>2

\* Functions that agree on a set have one total on it.
LEMMA TotalSame ==
  ASSUME NEW f, NEW h, NEW S, IsFiniteSet(S), \A x \in S : f[x] = h[x]
  PROVE  Total(f, S) = Total(h, S)
  <1> DEFINE W == {T \in SUBSET S : Total(f, T) = Total(h, T)}
  <1>1. ASSUME NEW T \in SUBSET S, \A x \in T : T \ {x} \in W
        PROVE  T \in W
    <2>1. IsFiniteSet(T)
      BY FS_Subset
    <2>2. T # {} => f[Pick(T)] = h[Pick(T)] /\ Total(f, T \ {Pick(T)}) = Total(h, T \ {Pick(T)})
      BY <1>1, PickIn
    <2> QED BY <2>1, <2>2, TotalStep
  <1>2. \A T \in SUBSET S : T \in W
    <2> HIDE DEF W
    <2> QED BY <1>1, SubsetInduction
  <1> QED BY <1>2

\* A sum of naturals is a natural, and no term exceeds it.
LEMMA SumNat ==
  ASSUME NEW S, IsFiniteSet(S), NEW f \in [S -> Nat]
  PROVE  SumFunction(f) \in Nat /\ \A x \in S : f[x] =< SumFunction(f)
  <1>1. SumFunction(f) = Total(f, S) /\ Total(f, S) \in Nat
    BY SumIsTotal, TotalNat
  <1>2. ASSUME NEW x \in S
        PROVE  f[x] =< Total(f, S)
    <2>1. Total(f, S) = f[x] + Total(f, S \ {x})
      BY TotalRemove
    <2>2. IsFiniteSet(S \ {x}) /\ \A y \in S \ {x} : f[y] \in Nat
      BY FS_Subset
    <2>3. Total(f, S \ {x}) \in Nat
      BY <2>2, TotalNat
    <2> QED BY <2>1, <2>3
  <1> QED BY <1>1, <1>2

\* A sum of zeros is zero.
LEMMA SumZero ==
  ASSUME NEW S, IsFiniteSet(S)
  PROVE  SumFunction([x \in S |-> 0]) = 0
  <1> DEFINE f == [x \in S |-> 0]
             W == {T \in SUBSET S : Total(f, T) = 0}
  <1>1. ASSUME NEW T \in SUBSET S, \A x \in T : T \ {x} \in W
        PROVE  T \in W
    <2>1. IsFiniteSet(T)
      BY FS_Subset
    <2>2. T # {} => f[Pick(T)] = 0 /\ Total(f, T \ {Pick(T)}) = 0
      BY <1>1, PickIn
    <2> HIDE DEF f
    <2> QED BY <2>1, <2>2, TotalStep
  <1>2. \A T \in SUBSET S : T \in W
    <2> HIDE DEF W
    <2> QED BY <1>1, SubsetInduction
  <1>3. DOMAIN f = S
    OBVIOUS
  <1> QED BY <1>2, <1>3, SumIsTotal

\* When one term changes, the sum changes by as much.
LEMMA SumUpdate ==
  ASSUME NEW S, IsFiniteSet(S), NEW f \in [S -> Nat], NEW h \in [S -> Nat], NEW x \in S,
         \A y \in S \ {x} : h[y] = f[y]
  PROVE  SumFunction(h) + f[x] = SumFunction(f) + h[x]
  <1>1. SumFunction(f) = f[x] + Total(f, S \ {x}) /\ SumFunction(h) = h[x] + Total(h, S \ {x})
    BY SumIsTotal, TotalRemove
  <1>2. IsFiniteSet(S \ {x})
    BY FS_Subset
  <1>3. Total(h, S \ {x}) = Total(f, S \ {x})
    <2> DEFINE r == S \ {x}
    <2>1. IsFiniteSet(r) /\ \A y \in r : h[y] = f[y]
      BY <1>2
    <2> HIDE DEF r
    <2>2. Total(h, r) = Total(f, r)
      BY <2>1, TotalSame
    <2> QED BY <2>2 DEF r
  <1>4. Total(f, S \ {x}) \in Nat
    BY <1>2, TotalNat
  <1> QED BY <1>1, <1>3, <1>4
=============================================================================
