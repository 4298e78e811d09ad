---------------------------- MODULE SumTheorems ----------------------------
(***************************************************************************)
(* Sums of whole numbers over finite sets, for the powers of batteries,    *)
(* the draws of devices and the counts of houses: SumFunctionOnSet of      *)
(* module Functions is what its recursive definition says, does not depend *)
(* on the order, and changes with one term by what that term changes.      *)
(*                                                                         *)
(* Induction is by a least counterexample: of the subsets of a finite set  *)
(* that violate a claim one has no smaller one that does.                  *)
(***************************************************************************)
EXTENDS Integers, FiniteSets, Functions, FiniteSetTheorems, WellFoundedInduction, TLAPS

\* The recursive function of MapThenFoldSet, for a sum of p.
Sums(g, p, S) ==
  g = [s \in SUBSET S |-> IF s = {} THEN 0
                          ELSE LET x == CHOOSE x \in s : TRUE IN p[x] + g[s \ {x}]]

\* A set of subsets of a finite set has a least element.
LEMMA LeastSubset ==
  ASSUME NEW S, IsFiniteSet(S), NEW T, T \subseteq SUBSET S, T # {}
  PROVE  \E s \in T : \A t \in SUBSET s : t \in T => t = s
<1>1. IsWellFoundedOn(StrictSubsetOrdering(S), FiniteSubsetsOf(S))
  BY FS_StrictSubsetOrderingWellFounded
<1>2. FiniteSubsetsOf(S) = SUBSET S
  BY FS_FiniteSubsetsOfFinite
<1>3. PICK s \in T : \A t \in T : ~ (<<t, s>> \in StrictSubsetOrdering(S))
  BY <1>1, <1>2, WFMin
<1>4. \A t \in SUBSET s : t \in T => t = s
  BY <1>3 DEF StrictSubsetOrdering
<1> QED
  BY <1>4

-----------------------------------------------------------------------------
(* The recursion is well defined.                                          *)

\* Its solutions for a set and for a subset agree.
LEMMA SumsAgree ==
  ASSUME NEW S, IsFiniteSet(S), NEW p, NEW V \in SUBSET S, NEW g, NEW h,
         Sums(g, p, V), Sums(h, p, S)
  PROVE  \A s \in SUBSET V : g[s] = h[s]
<1> DEFINE Bad == {s \in SUBSET V : g[s] # h[s]}
<1> SUFFICES ASSUME Bad # {} PROVE FALSE
  OBVIOUS
<1>1. PICK s \in Bad : \A t \in SUBSET s : t \in Bad => t = s
  <2>1. IsFiniteSet(V)
    BY FS_Subset
  <2> HIDE DEF Bad
  <2>2. Bad \subseteq SUBSET V
    BY DEF Bad
  <2> QED
    BY <2>1, <2>2, LeastSubset
<1>2. s # {}
  BY DEF Sums
<1> DEFINE x == CHOOSE x \in s : TRUE
<1>3. x \in s
  BY <1>2
<1>4. g[s \ {x}] = h[s \ {x}]
  BY <1>1, <1>3
<1>5. g[s] = p[x] + g[s \ {x}] /\ h[s] = p[x] + h[s \ {x}]
  BY <1>2 DEF Sums
<1> QED
  BY <1>1, <1>4, <1>5

\* There is one.
LEMMA SumsExist ==
  ASSUME NEW S, IsFiniteSet(S), NEW p
  PROVE  \E g : Sums(g, p, S)
<1> DEFINE Bad == {U \in SUBSET S : ~ \E g : Sums(g, p, U)}
<1> SUFFICES ASSUME Bad # {} PROVE FALSE
  OBVIOUS
<1>1. PICK U \in Bad : \A t \in SUBSET U : t \in Bad => t = U
  <2> HIDE DEF Bad
  <2>1. Bad \subseteq SUBSET S
    BY DEF Bad
  <2> QED
    BY <2>1, LeastSubset
<1> DEFINE sol(V) == CHOOSE g : Sums(g, p, V)
           part(s) == sol(s)[s]
           c(s) == CHOOSE x \in s : TRUE
           all == [s \in SUBSET U |-> IF s = {} THEN 0 ELSE p[c(s)] + part(s \ {c(s)})]
<1>2. ASSUME NEW V \in SUBSET U, V # U
      PROVE  Sums(sol(V), p, V)
  <2>1. \E g : Sums(g, p, V)
    BY <1>1, <1>2
  <2> QED
    BY <2>1
<1>3. \A s \in SUBSET U : s # {} => c(s) \in s
  OBVIOUS
<1>4. ASSUME NEW V \in SUBSET U, V # U
      PROVE  part(V) = IF V = {} THEN 0 ELSE p[c(V)] + part(V \ {c(V)})
  <2>1. Sums(sol(V), p, V)
    BY <1>2, <1>4
  <2>2. CASE V = {}
    BY <2>1, <2>2 DEF Sums
  <2>3. CASE V # {}
    <3> DEFINE W == V \ {c(V)}
    <3>1. W \in SUBSET V /\ W \in SUBSET U /\ W # U
      BY <1>3, <1>4, <2>3
    <3>2. Sums(sol(W), p, W)
      BY <1>2, <3>1
    <3>3. IsFiniteSet(V)
      BY FS_Subset
    <3>4. sol(V)[V] = p[c(V)] + sol(V)[W]
      <4> HIDE DEF sol
      <4> QED
        BY <2>1, <2>3 DEF Sums
    <3> HIDE DEF sol, W
    <3>5. sol(W)[W] = sol(V)[W]
      BY <2>1, <3>1, <3>2, <3>3, SumsAgree
    <3> QED
      BY <2>3, <3>4, <3>5 DEF W
  <2> QED
    BY <2>2, <2>3
<1>5. \A s \in SUBSET U : s # U => all[s] = part(s)
  BY <1>4
<1> HIDE DEF part, sol
<1>6. Sums(all, p, U)
  <2>1. ASSUME NEW s \in SUBSET U, s # {}
        PROVE  all[s] = p[c(s)] + all[s \ {c(s)}]
    <3>1. c(s) \in s
      BY <1>3, <2>1
    <3>2. all[s] = p[c(s)] + part(s \ {c(s)})
      BY <2>1
    <3> HIDE DEF c, all
    <3>3. all[s \ {c(s)}] = part(s \ {c(s)})
      BY <1>5, <2>1, <3>1
    <3> QED
      BY <3>2, <3>3
  <2>2. ASSUME NEW s \in SUBSET U
        PROVE  all[s] = IF s = {} THEN 0 ELSE p[c(s)] + all[s \ {c(s)}]
    <3>1. all[{}] = 0
      OBVIOUS
    <3> HIDE DEF c, all
    <3> QED
      BY <2>1, <3>1
  <2>3. all = [s \in SUBSET U |-> all[s]]
    OBVIOUS
  <2> HIDE DEF all
  <2>4. all = [s \in SUBSET U |-> IF s = {} THEN 0 ELSE p[c(s)] + all[s \ {c(s)}]]
    BY <2>2, <2>3, Zenon
  <2> QED
    BY <2>4 DEF Sums
<1> QED
  BY <1>1, <1>6

\* The sum, by its recursion.
LEMMA SumDefinition ==
  ASSUME NEW S, IsFiniteSet(S), NEW p
  PROVE  /\ SumFunctionOnSet(p, {}) = 0
         /\ S # {} => \E x \in S : SumFunctionOnSet(p, S) = p[x] + SumFunctionOnSet(p, S \ {x})
<1> DEFINE sol(V) == CHOOSE g : Sums(g, p, V)
<1>1. \A V : SumFunctionOnSet(p, V) = sol(V)[V]
  BY DEF SumFunctionOnSet, FoldFunctionOnSet, MapThenFoldSet, Sums
<1>2. ASSUME NEW V \in SUBSET S
      PROVE  Sums(sol(V), p, V)
  <2>1. IsFiniteSet(V)
    BY FS_Subset
  <2>2. \E g : Sums(g, p, V)
    BY <2>1, SumsExist
  <2> QED
    BY <2>2
<1> HIDE DEF sol
<1>3. SumFunctionOnSet(p, {}) = 0
  BY <1>1, <1>2 DEF Sums
<1>4. ASSUME S # {}
      PROVE  \E x \in S : SumFunctionOnSet(p, S) = p[x] + SumFunctionOnSet(p, S \ {x})
  <2> DEFINE x == CHOOSE x \in S : TRUE
             W == S \ {x}
  <2>1. x \in S /\ W \in SUBSET S
    BY <1>4
  <2>2. sol(S)[S] = p[x] + sol(S)[W]
    BY <1>2, <1>4 DEF Sums
  <2> HIDE DEF W
  <2>3. Sums(sol(S), p, S) /\ Sums(sol(W), p, W)
    BY <1>2, <2>1
  <2>4. sol(W)[W] = sol(S)[W]
    BY <2>1, <2>3, SumsAgree
  <2>5. SumFunctionOnSet(p, S) = p[x] + SumFunctionOnSet(p, W)
    BY <1>1, <2>2, <2>4
  <2> QED
    BY <2>1, <2>5 DEF W
<1> QED
  BY <1>3, <1>4

\* The sum of nothing.
LEMMA SumEmpty == \A p : SumFunctionOnSet(p, {}) = 0
  BY SumDefinition, FS_EmptySet

-----------------------------------------------------------------------------
(* Sums of whole numbers.                                                  *)

\* A sum of whole numbers is one.
LEMMA SumType ==
  ASSUME NEW S, IsFiniteSet(S), NEW p, \A x \in S : p[x] \in Int
  PROVE  SumFunctionOnSet(p, S) \in Int
<1> DEFINE Bad == {U \in SUBSET S : SumFunctionOnSet(p, U) \notin Int}
<1> SUFFICES ASSUME Bad # {} PROVE FALSE
  OBVIOUS
<1>1. PICK U \in Bad : \A t \in SUBSET U : t \in Bad => t = U
  <2> HIDE DEF Bad
  <2>1. Bad \subseteq SUBSET S
    BY DEF Bad
  <2> QED
    BY <2>1, LeastSubset
<1>2. IsFiniteSet(U)
  BY FS_Subset
<1>3. U # {}
  <2> SUFFICES ASSUME U = {} PROVE FALSE
    OBVIOUS
  <2>1. SumFunctionOnSet(p, U) = 0
    BY SumEmpty
  <2> QED
    BY <2>1
<1>4. PICK x \in U : SumFunctionOnSet(p, U) = p[x] + SumFunctionOnSet(p, U \ {x})
  BY <1>2, <1>3, SumDefinition
<1>5. SumFunctionOnSet(p, U \ {x}) \in Int
  BY <1>1
<1> QED
  BY <1>4, <1>5

\* Any term may be taken off first.
LEMMA SumRemove ==
  ASSUME NEW S, IsFiniteSet(S), NEW p, \A x \in S : p[x] \in Int, NEW x \in S
  PROVE  SumFunctionOnSet(p, S) = p[x] + SumFunctionOnSet(p, S \ {x})
<1> DEFINE Good(U) == \A y \in U : SumFunctionOnSet(p, U) = p[y] + SumFunctionOnSet(p, U \ {y})
           Bad == {U \in SUBSET S : ~ Good(U)}
<1> SUFFICES ASSUME Bad # {} PROVE FALSE
  OBVIOUS
<1>1. PICK U \in Bad : \A t \in SUBSET U : t \in Bad => t = U
  <2> HIDE DEF Bad
  <2>1. Bad \subseteq SUBSET S
    BY DEF Bad
  <2> QED
    BY <2>1, LeastSubset
<1>2. IsFiniteSet(U) /\ U \in SUBSET S
  BY FS_Subset
<1>3. PICK y \in U : SumFunctionOnSet(p, U) # p[y] + SumFunctionOnSet(p, U \ {y})
  OBVIOUS
<1>4. PICK z \in U : SumFunctionOnSet(p, U) = p[z] + SumFunctionOnSet(p, U \ {z})
  BY <1>2, <1>3, SumDefinition
<1>5. y # z
  BY <1>3, <1>4
<1>6. Good(U \ {y}) /\ Good(U \ {z})
  BY <1>1
<1> DEFINE both == U \ {y, z}
<1>7. both = (U \ {y}) \ {z} /\ both = (U \ {z}) \ {y} /\ both \in SUBSET S
  BY <1>2
<1>8. /\ SumFunctionOnSet(p, U \ {y}) = p[z] + SumFunctionOnSet(p, both)
      /\ SumFunctionOnSet(p, U \ {z}) = p[y] + SumFunctionOnSet(p, both)
  BY <1>5, <1>6, <1>7
<1>9. IsFiniteSet(both)
  BY <1>7, FS_Subset
<1>10. SumFunctionOnSet(p, both) \in Int
  BY <1>7, <1>9, SumType
<1>11. p[y] \in Int /\ p[z] \in Int
  BY <1>2
<1> HIDE DEF both
<1> QED
  BY <1>3, <1>4, <1>8, <1>10, <1>11

\* A further term is added.
LEMMA SumAdd ==
  ASSUME NEW S, IsFiniteSet(S), NEW p, NEW x, x \notin S, \A y \in S \cup {x} : p[y] \in Int
  PROVE  SumFunctionOnSet(p, S \cup {x}) = p[x] + SumFunctionOnSet(p, S)
<1>1. IsFiniteSet(S \cup {x})
  BY FS_AddElement
<1>2. (S \cup {x}) \ {x} = S
  OBVIOUS
<1> QED
  BY <1>1, <1>2, SumRemove

\* Only the terms of the set count.
LEMMA SumSame ==
  ASSUME NEW S, IsFiniteSet(S), NEW p, NEW q,
         \A x \in S : p[x] \in Int /\ q[x] = p[x]
  PROVE  SumFunctionOnSet(q, S) = SumFunctionOnSet(p, S)
<1> DEFINE Bad == {U \in SUBSET S : SumFunctionOnSet(q, U) # SumFunctionOnSet(p, U)}
<1> SUFFICES ASSUME Bad # {} PROVE FALSE
  OBVIOUS
<1>1. PICK U \in Bad : \A t \in SUBSET U : t \in Bad => t = U
  <2> HIDE DEF Bad
  <2>1. Bad \subseteq SUBSET S
    BY DEF Bad
  <2> QED
    BY <2>1, LeastSubset
<1>2. IsFiniteSet(U) /\ U \in SUBSET S
  BY FS_Subset
<1>3. U # {}
  <2> SUFFICES ASSUME U = {} PROVE FALSE
    OBVIOUS
  <2>1. SumFunctionOnSet(p, U) = 0 /\ SumFunctionOnSet(q, U) = 0
    BY SumEmpty
  <2> QED
    BY <2>1
<1>4. PICK x \in U : TRUE
  BY <1>3
<1>5. /\ SumFunctionOnSet(p, U) = p[x] + SumFunctionOnSet(p, U \ {x})
      /\ SumFunctionOnSet(q, U) = q[x] + SumFunctionOnSet(q, U \ {x})
  BY <1>2, SumRemove
<1>6. SumFunctionOnSet(q, U \ {x}) = SumFunctionOnSet(p, U \ {x})
  BY <1>1
<1> QED
  BY <1>2, <1>5, <1>6

\* Changing one term changes the sum by as much.
LEMMA SumUpdate ==
  ASSUME NEW S, IsFiniteSet(S), NEW p, NEW q, NEW x \in S,
         \A y \in S : p[y] \in Int, q[x] \in Int,
         \A y \in S : y # x => q[y] = p[y]
  PROVE  SumFunctionOnSet(q, S) = SumFunctionOnSet(p, S) - p[x] + q[x]
<1> DEFINE rest == S \ {x}
<1>1. IsFiniteSet(rest)
  BY FS_Subset
<1>2. /\ SumFunctionOnSet(p, S) = p[x] + SumFunctionOnSet(p, rest)
      /\ SumFunctionOnSet(q, S) = q[x] + SumFunctionOnSet(q, rest)
  BY SumRemove
<1>3. SumFunctionOnSet(p, rest) \in Int
  BY <1>1, SumType
<1>4. SumFunctionOnSet(q, rest) = SumFunctionOnSet(p, rest)
  BY <1>1, SumSame
<1> QED
  BY <1>2, <1>3, <1>4

\* The sum of the opposites is the opposite of the sum.
LEMMA SumOpposite ==
  ASSUME NEW S, IsFiniteSet(S), NEW p, NEW q,
         \A x \in S : p[x] \in Int /\ q[x] = -p[x]
  PROVE  SumFunctionOnSet(q, S) = -SumFunctionOnSet(p, S)
<1> DEFINE Bad == {U \in SUBSET S : SumFunctionOnSet(q, U) # -SumFunctionOnSet(p, U)}
<1> SUFFICES ASSUME Bad # {} PROVE FALSE
  OBVIOUS
<1>1. PICK U \in Bad : \A t \in SUBSET U : t \in Bad => t = U
  <2> HIDE DEF Bad
  <2>1. Bad \subseteq SUBSET S
    BY DEF Bad
  <2> QED
    BY <2>1, LeastSubset
<1>2. IsFiniteSet(U) /\ U \in SUBSET S
  BY FS_Subset
<1>3. U # {}
  <2> SUFFICES ASSUME U = {} PROVE FALSE
    OBVIOUS
  <2>1. SumFunctionOnSet(p, U) = 0 /\ SumFunctionOnSet(q, U) = 0
    BY SumEmpty
  <2> QED
    BY <2>1
<1>4. PICK x \in U : TRUE
  BY <1>3
<1>5. /\ SumFunctionOnSet(p, U) = p[x] + SumFunctionOnSet(p, U \ {x})
      /\ SumFunctionOnSet(q, U) = q[x] + SumFunctionOnSet(q, U \ {x})
  BY <1>2, SumRemove
<1>6. SumFunctionOnSet(q, U \ {x}) = -SumFunctionOnSet(p, U \ {x})
  BY <1>1
<1>7. SumFunctionOnSet(p, U \ {x}) \in Int
  <2>1. IsFiniteSet(U \ {x})
    BY <1>2, FS_Subset
  <2> QED
    BY <1>2, <2>1, SumType
<1> QED
  BY <1>2, <1>5, <1>6, <1>7

\* Counts of one at most add up to the number of ones.
LEMMA SumOfOnes ==
  ASSUME NEW S, IsFiniteSet(S), NEW p, \A x \in S : p[x] \in {0, 1}
  PROVE  SumFunctionOnSet(p, S) = Cardinality({x \in S : p[x] = 1})
<1> DEFINE ones(U) == {x \in U : p[x] = 1}
           Bad == {U \in SUBSET S : SumFunctionOnSet(p, U) # Cardinality(ones(U))}
<1> SUFFICES ASSUME Bad # {} PROVE FALSE
  OBVIOUS
<1>1. PICK U \in Bad : \A t \in SUBSET U : t \in Bad => t = U
  <2> HIDE DEF Bad
  <2>1. Bad \subseteq SUBSET S
    BY DEF Bad
  <2> QED
    BY <2>1, LeastSubset
<1>2. IsFiniteSet(U) /\ U \in SUBSET S
  BY FS_Subset
<1>3. U # {}
  <2> SUFFICES ASSUME U = {} PROVE FALSE
    OBVIOUS
  <2>1. SumFunctionOnSet(p, U) = 0
    BY SumEmpty
  <2>2. ones(U) = {}
    OBVIOUS
  <2> QED
    BY <2>1, <2>2, FS_EmptySet
<1>4. PICK x \in U : TRUE
  BY <1>3
<1>5. SumFunctionOnSet(p, U) = p[x] + SumFunctionOnSet(p, U \ {x})
  BY <1>2, SumRemove
<1>6. SumFunctionOnSet(p, U \ {x}) = Cardinality(ones(U \ {x}))
  BY <1>1
<1>7. ones(U \ {x}) = ones(U) \ {x} /\ IsFiniteSet(ones(U))
  BY <1>2, FS_Subset
<1>8. /\ Cardinality(ones(U)) \in Nat
      /\ Cardinality(ones(U) \ {x}) =
           IF x \in ones(U) THEN Cardinality(ones(U)) - 1 ELSE Cardinality(ones(U))
  <2> HIDE DEF ones
  <2> QED
    BY <1>7, FS_RemoveElement, FS_CardinalityType
<1>9. p[x] \in {0, 1} /\ (p[x] = 1 <=> x \in ones(U))
  BY <1>2
<1>10. SumFunctionOnSet(p, U) # Cardinality(ones(U))
  OBVIOUS
<1>11. Cardinality(ones(U \ {x})) = Cardinality(ones(U) \ {x})
  BY <1>7, Zenon
<1> HIDE DEF ones, Bad
<1>12. CASE p[x] = 1
  BY <1>5, <1>6, <1>8, <1>9, <1>10, <1>11, <1>12
<1>13. CASE p[x] = 0
  BY <1>5, <1>6, <1>8, <1>9, <1>10, <1>11, <1>13
<1> QED
  BY <1>9, <1>12, <1>13
=============================================================================
