----------------------------- MODULE SumLemmas -----------------------------
(***************************************************************************)
(* Sums of natural numbers over a finite set, as SumFunctionOnSet of the   *)
(* Functions module computes them: it takes the elements one by one in an  *)
(* order fixed by CHOOSE, so that the sum does not depend on that order is *)
(* something to prove.  Every induction is over the subsets of a finite    *)
(* set, with the set of those that have the property in place of a         *)
(* predicate.                                                              *)
(***************************************************************************)
EXTENDS Integers, FiniteSets, Functions, FiniteSetTheorems, WellFoundedInduction, TLAPS

\* The element that SumFunctionOnSet takes next.
Pick(s) == CHOOSE x \in s : TRUE

\* One turn of the recursion, with g for the sums of smaller sets.
Turn(f, g, s) == IF s = {} THEN 0 ELSE f[Pick(s)] + g[s \ {Pick(s)}]

\* g computes the sums of all the subsets of S.
Sums(f, g, S) == g = [s \in SUBSET S |-> Turn(f, g, s)]

\* The one that SumFunctionOnSet uses.
AllSums(f, S) == CHOOSE g : Sums(f, g, S)

\* A property that a set has as soon as its strict subsets have it holds of every
\* subset of a finite set; G is the set of those that have it.
LEMMA SubsetInduction ==
    ASSUME NEW S, IsFiniteSet(S), NEW G,
           \A s \in SUBSET S : (\A t \in SUBSET s : t # s => t \in G) => s \in G
    PROVE  \A s \in SUBSET S : s \in G
<1> SUFFICES ASSUME NEW s0 \in SUBSET S, s0 \notin G PROVE FALSE
  OBVIOUS
<1> DEFINE B == {s \in SUBSET S : s \notin G}
<1>1. B \subseteq FiniteSubsetsOf(S) /\ B # {}
  BY FS_FiniteSubsetsOfFinite
<1>2. IsWellFoundedOn(StrictSubsetOrdering(S), FiniteSubsetsOf(S))
  BY FS_StrictSubsetOrderingWellFounded
<1>3. \E x \in B : \A y \in B : ~ (<<y, x>> \in StrictSubsetOrdering(S))
  <2> HIDE DEF B
  <2> QED
    BY <1>1, <1>2, WFMin
<1>4. PICK x \in B : \A y \in B : ~ (<<y, x>> \in StrictSubsetOrdering(S))
  BY <1>3
<1>5. \A t \in SUBSET x : t # x => t \in G
  BY <1>4 DEF StrictSubsetOrdering
<1> QED
  BY <1>4, <1>5

\* The next element belongs to the set.
LEMMA PickIn == \A s : s # {} => Pick(s) \in s
  BY DEF Pick

\* The sum is what a function that computes all the sums says of the whole set.
LEMMA SumIsTop ==
    ASSUME NEW f, NEW S
    PROVE  SumFunctionOnSet(f, S) = AllSums(f, S)[S]
  BY DEF AllSums, SumFunctionOnSet, FoldFunctionOnSet, MapThenFoldSet, Sums, Turn, Pick

\* What such a function says of one subset.
LEMMA SumsApply ==
    ASSUME NEW f, NEW S, NEW g, Sums(f, g, S), NEW s \in SUBSET S
    PROVE  g[s] = IF s = {} THEN 0 ELSE f[Pick(s)] + g[s \ {Pick(s)}]
  BY DEF Sums, Turn

\* Two functions that compute the sums agree on the subsets they share.
LEMMA SumsAgree ==
    ASSUME NEW f, NEW S, NEW T, NEW U, IsFiniteSet(U), U \subseteq S, U \subseteq T,
           NEW g, Sums(f, g, S), NEW h, Sums(f, h, T)
    PROVE  \A s \in SUBSET U : g[s] = h[s]
<1> DEFINE G == {s \in SUBSET U : g[s] = h[s]}
<1>1. ASSUME NEW s \in SUBSET U, \A t \in SUBSET s : t # s => t \in G
      PROVE  s \in G
  <2>1. /\ g[s] = IF s = {} THEN 0 ELSE f[Pick(s)] + g[s \ {Pick(s)}]
        /\ h[s] = IF s = {} THEN 0 ELSE f[Pick(s)] + h[s \ {Pick(s)}]
    BY SumsApply
  <2>2. s # {} => s \ {Pick(s)} \in SUBSET s /\ s \ {Pick(s)} # s
    BY PickIn
  <2> QED
    BY <1>1, <2>1, <2>2
<1>2. \A s \in SUBSET U : s \in G
  <2> HIDE DEF G
  <2> QED
    BY <1>1, SubsetInduction
<1> QED
  BY <1>2

\* A finite set has a function that computes the sums of its subsets.
LEMMA SumsExist ==
    ASSUME NEW f, NEW S, IsFiniteSet(S)
    PROVE  \A s \in SUBSET S : \E g : Sums(f, g, s)
<1> DEFINE G == {s \in SUBSET S : \E g : Sums(f, g, s)}
<1>1. ASSUME NEW s \in SUBSET S, \A t \in SUBSET s : t # s => t \in G
      PROVE  s \in G
  <2> DEFINE h == [t \in SUBSET s |->
                     IF t = {} THEN 0 ELSE f[Pick(t)] + AllSums(f, t \ {Pick(t)})[t \ {Pick(t)}]]
  <2>1. \A t \in SUBSET s : t # s => Sums(f, AllSums(f, t), t)
    BY <1>1 DEF AllSums
  <2>2. ASSUME NEW t \in SUBSET s, t # s
        PROVE  h[t] = AllSums(f, t)[t]
    <3> DEFINE u == t \ {Pick(t)}
    <3>1. CASE t = {}
      <4>1. Sums(f, AllSums(f, t), t) /\ t \in SUBSET t
        BY <2>1, <2>2
      <4>2. AllSums(f, t)[t] = IF t = {} THEN 0 ELSE f[Pick(t)] + AllSums(f, t)[u]
        BY <4>1, SumsApply
      <4> QED
        BY <3>1, <4>2
    <3>2. CASE t # {}
      <4>1. u \subseteq t /\ u # s /\ u \in SUBSET s /\ IsFiniteSet(u)
        BY <2>2, FS_Subset
      <4>2. Sums(f, AllSums(f, t), t) /\ Sums(f, AllSums(f, u), u) /\ t \in SUBSET t
        BY <2>1, <2>2, <4>1
      <4>3. AllSums(f, t)[t] = f[Pick(t)] + AllSums(f, t)[u]
        BY <3>2, <4>2, SumsApply
      <4>4. AllSums(f, t)[u] = AllSums(f, u)[u]
        BY <4>1, <4>2, SumsAgree
      <4> QED
        BY <3>2, <4>3, <4>4
    <3> QED
      BY <3>1, <3>2
  <2>3. Sums(f, h, s)
    <3>1. \A t \in SUBSET s : t # {} => t \ {Pick(t)} \in SUBSET s /\ t \ {Pick(t)} # s
      BY PickIn
    <3>2. ASSUME NEW t \in SUBSET s PROVE h[t] = Turn(f, h, t)
      <4>1. t # {} => h[t \ {Pick(t)}] = AllSums(f, t \ {Pick(t)})[t \ {Pick(t)}]
        BY <2>2, <3>1
      <4>2. h[t] = IF t = {} THEN 0
                   ELSE f[Pick(t)] + AllSums(f, t \ {Pick(t)})[t \ {Pick(t)}]
        OBVIOUS
      <4> HIDE DEF h
      <4> QED
        BY <4>1, <4>2 DEF Turn
    <3> QED
      BY <3>2 DEF Sums
  <2> QED
    BY <2>3
<1>2. \A s \in SUBSET S : s \in G
  <2> HIDE DEF G
  <2> QED
    BY <1>1, SubsetInduction
<1> QED
  BY <1>2

\* The recursion: an empty sum is zero, and the next element adds its number.
LEMMA SumByPick ==
    ASSUME NEW f, NEW S, IsFiniteSet(S)
    PROVE  SumFunctionOnSet(f, S) =
             IF S = {} THEN 0 ELSE f[Pick(S)] + SumFunctionOnSet(f, S \ {Pick(S)})
<1> DEFINE U == S \ {Pick(S)}
<1>1. U \in SUBSET S /\ U \in SUBSET U /\ S \in SUBSET S /\ IsFiniteSet(U)
  BY FS_Subset
<1>2. Sums(f, AllSums(f, S), S) /\ Sums(f, AllSums(f, U), U)
  BY <1>1, SumsExist DEF AllSums
<1>3. AllSums(f, S)[U] = AllSums(f, U)[U]
  <2> HIDE DEF U
  <2>1. \A s \in SUBSET U : AllSums(f, S)[s] = AllSums(f, U)[s]
    BY <1>1, <1>2, SumsAgree
  <2> QED
    BY <1>1, <2>1
<1>4. AllSums(f, S)[S] = IF S = {} THEN 0 ELSE f[Pick(S)] + AllSums(f, S)[U]
  BY <1>1, <1>2, SumsApply
<1>5. SumFunctionOnSet(f, S) = AllSums(f, S)[S] /\ SumFunctionOnSet(f, U) = AllSums(f, U)[U]
  BY SumIsTop
<1> QED
  BY <1>3, <1>4, <1>5

\* A sum of natural numbers is one.
LEMMA SumIsNat ==
    ASSUME NEW S, IsFiniteSet(S), NEW f, \A x \in S : f[x] \in Nat
    PROVE  \A s \in SUBSET S : SumFunctionOnSet(f, s) \in Nat
<1> DEFINE G == {s \in SUBSET S : SumFunctionOnSet(f, s) \in Nat}
<1>1. ASSUME NEW s \in SUBSET S, \A t \in SUBSET s : t # s => t \in G
      PROVE  s \in G
  <2>1. SumFunctionOnSet(f, s) =
          IF s = {} THEN 0 ELSE f[Pick(s)] + SumFunctionOnSet(f, s \ {Pick(s)})
    BY FS_Subset, SumByPick
  <2>2. s # {} => /\ s \ {Pick(s)} \in SUBSET s /\ s \ {Pick(s)} # s
                  /\ f[Pick(s)] \in Nat
    BY PickIn
  <2> QED
    BY <1>1, <2>1, <2>2
<1>2. \A s \in SUBSET S : s \in G
  <2> HIDE DEF G
  <2> QED
    BY <1>1, SubsetInduction
<1> QED
  BY <1>2

\* The order does not matter: any element may be taken out first.
LEMMA SumByAny ==
    ASSUME NEW S, IsFiniteSet(S), NEW f, \A x \in S : f[x] \in Nat
    PROVE  \A s \in SUBSET S : \A x \in s :
             SumFunctionOnSet(f, s) = f[x] + SumFunctionOnSet(f, s \ {x})
<1> DEFINE Sum(s) == SumFunctionOnSet(f, s)
           G == {s \in SUBSET S : \A x \in s : Sum(s) = f[x] + Sum(s \ {x})}
<1>1. ASSUME NEW s \in SUBSET S, \A t \in SUBSET s : t # s => t \in G
      PROVE  s \in G
  <2> SUFFICES ASSUME NEW x \in s PROVE Sum(s) = f[x] + Sum(s \ {x})
    OBVIOUS
  <2> DEFINE c == Pick(s)
  <2>1. c \in s /\ Sum(s) = f[c] + Sum(s \ {c})
    BY FS_Subset, SumByPick, PickIn
  <2>2. CASE x = c
    BY <2>1, <2>2
  <2>3. CASE x # c
    <3>1. /\ s \ {c} \in SUBSET s /\ s \ {c} # s /\ x \in s \ {c}
          /\ s \ {x} \in SUBSET s /\ s \ {x} # s /\ c \in s \ {x}
          /\ (s \ {c}) \ {x} = (s \ {x}) \ {c}
      BY <2>1, <2>3
    <3>2. /\ Sum(s \ {c}) = f[x] + Sum((s \ {c}) \ {x})
          /\ Sum(s \ {x}) = f[c] + Sum((s \ {c}) \ {x})
      BY <1>1, <3>1
    <3>3. f[x] \in Nat /\ f[c] \in Nat /\ Sum((s \ {c}) \ {x}) \in Nat
      BY <2>1, SumIsNat
    <3> HIDE DEF Sum, c
    <3> QED
      BY <2>1, <3>2, <3>3
  <2> QED
    BY <2>2, <2>3
<1>2. \A s \in SUBSET S : s \in G
  <2> HIDE DEF G
  <2> QED
    BY <1>1, SubsetInduction
<1> QED
  BY <1>2
-----------------------------------------------------------------------------
(* What the proofs use.                                                    *)

\* Nothing sums up to zero.
LEMMA SumEmpty == \A f : SumFunctionOnSet(f, {}) = 0
  BY FS_EmptySet, SumByPick

\* The type of a sum.
LEMMA SumType ==
    ASSUME NEW S, IsFiniteSet(S), NEW f, \A x \in S : f[x] \in Nat
    PROVE  SumFunctionOnSet(f, S) \in Nat
  BY SumIsNat

\* One more element adds its number.
LEMMA SumAdd ==
    ASSUME NEW S, IsFiniteSet(S), NEW a, a \notin S, NEW f, \A x \in S \cup {a} : f[x] \in Nat
    PROVE  SumFunctionOnSet(f, S \cup {a}) = SumFunctionOnSet(f, S) + f[a]
<1> DEFINE T == S \cup {a}
<1>1. IsFiniteSet(T) /\ T \in SUBSET T /\ a \in T /\ T \ {a} = S
  BY FS_AddElement
<1>2. SumFunctionOnSet(f, T) = f[a] + SumFunctionOnSet(f, T \ {a})
  BY <1>1, SumByAny
<1>3. f[a] \in Nat /\ SumFunctionOnSet(f, S) \in Nat
  BY SumType
<1> HIDE DEF T
<1> QED
  BY <1>1, <1>2, <1>3 DEF T

\* One element less takes its number away.
LEMMA SumRemove ==
    ASSUME NEW S, IsFiniteSet(S), NEW a \in S, NEW f, \A x \in S : f[x] \in Nat
    PROVE  SumFunctionOnSet(f, S) = SumFunctionOnSet(f, S \ {a}) + f[a]
<1>1. S \in SUBSET S /\ IsFiniteSet(S \ {a}) /\ \A x \in S \ {a} : f[x] \in Nat
  BY FS_Subset
<1>2. f[a] \in Nat /\ SumFunctionOnSet(f, S \ {a}) \in Nat
  BY <1>1, SumType
<1>3. SumFunctionOnSet(f, S) = f[a] + SumFunctionOnSet(f, S \ {a})
  BY <1>1, SumByAny
<1> QED
  BY <1>2, <1>3

\* A smaller set has a smaller sum.
LEMMA SumMono ==
    ASSUME NEW T, IsFiniteSet(T), NEW S, S \subseteq T, NEW f, \A x \in T : f[x] \in Nat
    PROVE  SumFunctionOnSet(f, S) <= SumFunctionOnSet(f, T)
<1> DEFINE Sum(s) == SumFunctionOnSet(f, s)
           G == {s \in SUBSET T : Sum(S \cap s) <= Sum(s)}
<1>1. ASSUME NEW s \in SUBSET T, \A t \in SUBSET s : t # s => t \in G
      PROVE  s \in G
  <2>1. CASE s = {}
    <3>1. S \cap s = s
      BY <2>1
    <3>2. Sum(S \cap s) = 0 /\ Sum(s) = 0
      BY <2>1, <3>1, SumEmpty
    <3> QED
      BY <3>2
  <2>2. ASSUME NEW x \in s PROVE s \in G
    <3> DEFINE u == s \ {x}
    <3>1. u \in SUBSET s /\ u # s /\ u \in SUBSET T
      OBVIOUS
    <3>2. /\ IsFiniteSet(s) /\ IsFiniteSet(u) /\ IsFiniteSet(S \cap s)
          /\ IsFiniteSet(S \cap u)
      BY FS_Subset
    <3>3. /\ Sum(s) \in Nat /\ Sum(u) \in Nat /\ Sum(S \cap s) \in Nat
          /\ Sum(S \cap u) \in Nat /\ f[x] \in Nat
      BY <3>2, SumType
    <3>4. Sum(S \cap u) <= Sum(u)
      BY <1>1, <3>1
    <3>5. Sum(s) = Sum(u) + f[x]
      BY <3>2, SumRemove
    <3>6. CASE x \in S
      <4>1. (S \cap s) \ {x} = S \cap u /\ x \in S \cap s
        BY <3>6
      <4>2. Sum(S \cap s) = Sum((S \cap s) \ {x}) + f[x]
        BY <3>2, <4>1, SumRemove
      <4>3. Sum(S \cap s) = Sum(S \cap u) + f[x]
        BY <4>1, <4>2
      <4> HIDE DEF Sum, u
      <4>4. Sum(S \cap s) <= Sum(s)
        BY <3>3, <3>4, <3>5, <4>3
      <4> QED
        BY <4>4
    <3>7. CASE x \notin S
      <4>1. S \cap s = S \cap u
        BY <3>7
      <4>2. Sum(S \cap s) = Sum(S \cap u)
        BY <4>1
      <4> HIDE DEF Sum, u
      <4>3. Sum(S \cap s) <= Sum(s)
        BY <3>3, <3>4, <3>5, <4>2
      <4> QED
        BY <4>3
    <3> QED
      BY <3>6, <3>7
  <2> QED
    BY <2>1, <2>2
<1>2. \A s \in SUBSET T : s \in G
  <2> HIDE DEF G
  <2> QED
    BY <1>1, SubsetInduction
<1>3. S \cap T = S /\ T \in SUBSET T
  OBVIOUS
<1> QED
  BY <1>2, <1>3

\* The sum only depends on the numbers of its elements.
LEMMA SumSame ==
    ASSUME NEW S, IsFiniteSet(S), NEW f, NEW g, \A x \in S : f[x] = g[x]
    PROVE  SumFunctionOnSet(f, S) = SumFunctionOnSet(g, S)
<1> DEFINE G == {s \in SUBSET S : SumFunctionOnSet(f, s) = SumFunctionOnSet(g, s)}
<1>1. ASSUME NEW s \in SUBSET S, \A t \in SUBSET s : t # s => t \in G
      PROVE  s \in G
  <2>1. IsFiniteSet(s)
    BY FS_Subset
  <2>2. /\ SumFunctionOnSet(f, s) =
             IF s = {} THEN 0 ELSE f[Pick(s)] + SumFunctionOnSet(f, s \ {Pick(s)})
        /\ SumFunctionOnSet(g, s) =
             IF s = {} THEN 0 ELSE g[Pick(s)] + SumFunctionOnSet(g, s \ {Pick(s)})
    BY <2>1, SumByPick
  <2>3. s # {} => /\ s \ {Pick(s)} \in SUBSET s /\ s \ {Pick(s)} # s
                  /\ f[Pick(s)] = g[Pick(s)]
    BY PickIn
  <2> QED
    BY <1>1, <2>2, <2>3
<1>2. \A s \in SUBSET S : s \in G
  <2> HIDE DEF G
  <2> QED
    BY <1>1, SubsetInduction
<1>3. S \in SUBSET S
  OBVIOUS
<1> QED
  BY <1>2, <1>3

\* Fewer elements with the same numbers have a smaller sum.
LEMMA SumShrinks ==
    ASSUME NEW T, IsFiniteSet(T), NEW S, S \subseteq T,
           NEW f, \A x \in T : f[x] \in Nat, NEW g, \A x \in S : g[x] = f[x]
    PROVE  SumFunctionOnSet(g, S) <= SumFunctionOnSet(f, T)
<1>1. IsFiniteSet(S)
  BY FS_Subset
<1>2. SumFunctionOnSet(g, S) = SumFunctionOnSet(f, S)
  BY <1>1, SumSame
<1> QED
  BY <1>2, SumMono

=============================================================================
