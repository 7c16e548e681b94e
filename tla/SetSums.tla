------------------------------- MODULE SetSums -------------------------------
(***************************************************************************)
(* Sums over finite sets, for the proofs: MapThenSumSet unrolls, takes its *)
(* terms in any order, adds over disjoint sets, compares and renames.      *)
(* Induction is over the subsets of a finite set, by a least               *)
(* counterexample: the set of the subsets that satisfy the claim stands    *)
(* where a predicate would.                                                *)
(***************************************************************************)
EXTENDS NettingPlan, FiniteSetTheorems, TLAPS

\* Induction over the subsets of a finite set, with a set of subsets where a
\* predicate would stand.
LEMMA SetInduction ==
  ASSUME NEW U, IsFiniteSet(U), NEW G,
         \A T \in SUBSET U : (\A s \in SUBSET T : s # T => s \in G) => T \in G
  PROVE  U \in G
<1> SUFFICES ASSUME U \notin G PROVE FALSE
  OBVIOUS
<1> DEFINE bad == (SUBSET U) \ G
<1>1. bad \subseteq FiniteSubsetsOf(U) /\ bad # {}
  BY FS_FiniteSubsetsOfFinite
<1>2. PICK T \in bad : \A s \in bad : <<s, T>> \notin StrictSubsetOrdering(U)
  <2>1. IsWellFoundedOn(StrictSubsetOrdering(U), FiniteSubsetsOf(U))
    BY FS_StrictSubsetOrderingWellFounded
  <2> HIDE DEF bad
  <2> QED BY <1>1, <2>1, WFMin
<1>3. \A s \in SUBSET T : s # T => s \in G
  BY <1>2 DEF StrictSubsetOrdering
<1> QED BY <1>2, <1>3

\* The members of S in the order the sum takes them.
Pick(S) == CHOOSE x \in S : TRUE

Sums(g, f, S) ==
    g = [s \in SUBSET S |-> IF s = {} THEN 0 ELSE f[Pick(s)] + g[s \ {Pick(s)}]]

\* MapThenSumSet is the fold of the community modules, with its choice of g.
LEMMA TotalIsFold ==
  ASSUME NEW f, NEW S
  PROVE  Total(f, S) = (CHOOSE g : Sums(g, f, S))[S]
  BY DEF Total, MapThenSumSet, MapThenFoldSet, Sums, Pick

\* The fold of a finite set unrolls: the sum of S is the value at one of its
\* members and the sum of the others.
LEMMA SumUnrolls ==
  ASSUME NEW f, NEW U, IsFiniteSet(U)
  PROVE  Sums([s \in SUBSET U |-> Total(f, s)], f, U)
<1> DEFINE tot(T) == [s \in SUBSET T |-> Total(f, s)]
           G == {T \in SUBSET U : Sums(tot(T), f, T)}
<1>1. ASSUME NEW T \in SUBSET U, \A s \in SUBSET T : s # T => s \in G
      PROVE  T \in G
  <2>1. \A s \in SUBSET T : s # T /\ s # {} => Total(f, s) = f[Pick(s)] + Total(f, s \ {Pick(s)})
    <3> SUFFICES ASSUME NEW s \in SUBSET T, s # T, s # {}
                 PROVE  Total(f, s) = f[Pick(s)] + Total(f, s \ {Pick(s)})
      OBVIOUS
    <3>1. Sums(tot(s), f, s)
      BY <1>1
    <3>2. tot(s)[s] = f[Pick(s)] + tot(s)[s \ {Pick(s)}]
      BY <3>1 DEF Sums
    <3> QED BY <3>2
  <2>2. T # {} => Pick(T) \in T
    BY DEF Pick
  <2>3. Total(f, {}) = 0
    <3>1. \E g : Sums(g, f, {})
      <4>1. Sums([s \in SUBSET {} |-> 0], f, {})
        BY DEF Sums
      <4> QED BY <4>1
    <3>2. PICK g : g = (CHOOSE h : Sums(h, f, {})) /\ Sums(g, f, {})
      BY <3>1
    <3>3. g[{}] = 0
      BY <3>2 DEF Sums
    <3> QED BY <3>2, <3>3, TotalIsFold
  <2>4. ASSUME T # {} PROVE Total(f, T) = f[Pick(T)] + Total(f, T \ {Pick(T)})
    <3> DEFINE h == [s \in SUBSET T |-> IF s = {} THEN 0 ELSE f[Pick(s)] + Total(f, s \ {Pick(s)})]
    <3>1. \A s \in SUBSET T : s # T => h[s] = Total(f, s)
      BY <2>1, <2>3
    <3>2. \A s \in SUBSET T : s # {} => s \ {Pick(s)} # T /\ s \ {Pick(s)} \in SUBSET T
      BY DEF Pick
    <3>3. Sums(h, f, T)
      <4>1. \A s \in SUBSET T : s # {} => h[s \ {Pick(s)}] = Total(f, s \ {Pick(s)})
        BY <3>1, <3>2
      <4> QED BY <4>1 DEF Sums
    <3>4. PICK g : g = (CHOOSE k : Sums(k, f, T)) /\ Sums(g, f, T)
      BY <3>3
    <3>5. \A s \in SUBSET T : g[s] = IF s = {} THEN 0 ELSE f[Pick(s)] + g[s \ {Pick(s)}]
      BY <3>4 DEF Sums
    <3> DEFINE E == {s \in SUBSET T : s # T => g[s] = Total(f, s)}
    <3>6. ASSUME NEW s \in SUBSET T, \A r \in SUBSET s : r # s => r \in E
          PROVE  s \in E
      <4>1. CASE s = {} \/ s = T
        BY <4>1, <3>5, <2>3
      <4>2. CASE s # {} /\ s # T
        <5>1. s \ {Pick(s)} \in SUBSET s /\ s \ {Pick(s)} # s
          BY <4>2 DEF Pick
        <5>2. g[s \ {Pick(s)}] = Total(f, s \ {Pick(s)})
          BY <3>2, <3>6, <4>2, <5>1
        <5> QED BY <2>1, <3>5, <4>2, <5>2
      <4> QED BY <4>1, <4>2
    <3>7. T \ {Pick(T)} \in E
      <4>1. IsFiniteSet(T \ {Pick(T)})
        BY FS_Subset
      <4>2. \A r \in SUBSET (T \ {Pick(T)}) : (\A q \in SUBSET r : q # r => q \in E) => r \in E
        BY <3>6
      <4> HIDE DEF E
      <4> QED BY <4>1, <4>2, SetInduction
    <3>8. g[T \ {Pick(T)}] = Total(f, T \ {Pick(T)})
      BY <2>4, <3>2, <3>7
    <3>9. g[T] = f[Pick(T)] + g[T \ {Pick(T)}]
      BY <2>4, <3>5
    <3>10. Total(f, T) = g[T]
      BY <3>4, TotalIsFold
    <3> QED BY <3>8, <3>9, <3>10
  <2>5. \A s \in SUBSET T : Total(f, s) = IF s = {} THEN 0 ELSE f[Pick(s)] + Total(f, s \ {Pick(s)})
    BY <2>1, <2>3, <2>4
  <2>6. \A s \in SUBSET T : s \ {Pick(s)} \in SUBSET T
    OBVIOUS
  <2> QED BY <2>5, <2>6 DEF Sums
<1>2. U \in G
  <2> HIDE DEF G
  <2> QED BY <1>1, SetInduction
<1> QED BY <1>2

\* The same, one element at a time.
LEMMA SetGrowth ==
  ASSUME NEW U, IsFiniteSet(U), NEW G, {} \in G,
         \A T \in SUBSET U : \A x \in U \ T : T \in G => T \cup {x} \in G
  PROVE  U \in G
<1>1. ASSUME NEW T \in SUBSET U, \A s \in SUBSET T : s # T => s \in G
      PROVE  T \in G
  <2>1. CASE T # {}
    <3>1. PICK x \in T : TRUE
      BY <2>1
    <3>2. T \ {x} \in G /\ T = (T \ {x}) \cup {x} /\ x \in U \ (T \ {x})
      BY <1>1, <3>1
    <3> QED BY <3>2
  <2> QED BY <2>1
<1> QED BY <1>1, SetInduction

\* Nothing sums to zero.
LEMMA SumNone ==
  ASSUME NEW f
  PROVE  Total(f, {}) = 0
<1>1. Sums([s \in SUBSET {} |-> Total(f, s)], f, {})
  BY SumUnrolls, FS_EmptySet
<1> QED BY <1>1 DEF Sums

\* The fold takes the term it picks and goes on with the rest.
LEMMA SumPicks ==
  ASSUME NEW f, NEW S, IsFiniteSet(S), S # {}
  PROVE  Pick(S) \in S /\ Total(f, S) = f[Pick(S)] + Total(f, S \ {Pick(S)})
<1> DEFINE tot == [s \in SUBSET S |-> Total(f, s)]
<1>1. Sums(tot, f, S)
  BY SumUnrolls
<1>2. tot[S] = f[Pick(S)] + tot[S \ {Pick(S)}]
  BY <1>1 DEF Sums
<1> QED BY <1>2 DEF Pick

\* A sum of whole cents is in whole cents.
LEMMA SumInt ==
  ASSUME NEW f, NEW S, IsFiniteSet(S), \A x \in S : f[x] \in Int
  PROVE  Total(f, S) \in Int
<1> DEFINE G == {T \in SUBSET S : Total(f, T) \in Int}
<1>1. ASSUME NEW T \in SUBSET S, \A s \in SUBSET T : s # T => s \in G
      PROVE  T \in G
  <2>1. CASE T = {}
    BY <2>1, SumNone
  <2>2. CASE T # {}
    <3>1. IsFiniteSet(T)
      BY FS_Subset
    <3>2. Pick(T) \in T /\ Total(f, T) = f[Pick(T)] + Total(f, T \ {Pick(T)})
      BY <2>2, <3>1, SumPicks
    <3>3. Total(f, T \ {Pick(T)}) \in Int
      BY <1>1, <3>2
    <3>4. f[Pick(T)] \in Int
      BY <3>2
    <3> QED BY <3>2, <3>3, <3>4
  <2> QED BY <2>1, <2>2
<1> HIDE DEF G
<1>2. S \in G
  BY <1>1, SetInduction
<1> QED BY <1>2 DEF G

\* In whatever order the fold takes them, a sum is any of its terms and the rest.
LEMMA SumRemove ==
  ASSUME NEW f, NEW S, IsFiniteSet(S), \A x \in S : f[x] \in Int, NEW x \in S
  PROVE  Total(f, S) = f[x] + Total(f, S \ {x})
<1> DEFINE G == {T \in SUBSET S : \A y \in T : Total(f, T) = f[y] + Total(f, T \ {y})}
<1>1. ASSUME NEW T \in SUBSET S, \A s \in SUBSET T : s # T => s \in G
      PROVE  T \in G
  <2> SUFFICES ASSUME NEW y \in T PROVE Total(f, T) = f[y] + Total(f, T \ {y})
    OBVIOUS
  <2>f. \A s \in SUBSET T : IsFiniteSet(s) /\ Total(f, s) \in Int
    BY FS_Subset, SumInt
  <2> DEFINE p == Pick(T)
  <2>1. p \in T /\ Total(f, T) = f[p] + Total(f, T \ {p})
    BY <2>f, SumPicks
  <2>2. CASE y # p
    <3>1. Total(f, T \ {p}) = f[y] + Total(f, (T \ {p}) \ {y})
      <4>1. T \ {p} \in G /\ y \in T \ {p}
        BY <1>1, <2>1, <2>2
      <4> QED BY <4>1
    <3>2. Total(f, T \ {y}) = f[p] + Total(f, (T \ {y}) \ {p})
      <4>1. T \ {y} \in G /\ p \in T \ {y}
        BY <1>1, <2>1, <2>2
      <4> QED BY <4>1
    <3>3. (T \ {p}) \ {y} = (T \ {y}) \ {p}
      OBVIOUS
    <3>4. f[p] \in Int /\ f[y] \in Int /\ Total(f, (T \ {y}) \ {p}) \in Int
      BY <2>1, <2>f
    <3> DEFINE rest == Total(f, (T \ {y}) \ {p})
    <3>5. Total(f, T) = f[p] + (f[y] + rest) /\ Total(f, T \ {y}) = f[p] + rest
      BY <2>1, <3>1, <3>2, <3>3
    <3>6. f[p] + (f[y] + rest) = f[y] + (f[p] + rest)
      <4> HIDE DEF p, rest
      <4> QED BY <3>4 DEF rest
    <3> QED BY <3>5, <3>6
  <2> QED BY <2>1, <2>2
<1> HIDE DEF G
<1>2. S \in G
  BY <1>1, SetInduction
<1> QED BY <1>2 DEF G

\* A new term adds itself.
LEMMA SumAdd ==
  ASSUME NEW f, NEW S, IsFiniteSet(S), \A y \in S : f[y] \in Int,
         NEW x, x \notin S, f[x] \in Int
  PROVE  /\ IsFiniteSet(S \cup {x})
         /\ Total(f, S) \in Int
         /\ Total(f, S \cup {x}) = f[x] + Total(f, S)
<1>1. IsFiniteSet(S \cup {x})
  BY FS_AddElement
<1>2. (S \cup {x}) \ {x} = S
  OBVIOUS
<1> QED BY <1>1, <1>2, SumRemove, SumInt

\* Terms that do not exceed others sum to no more; equal terms, to the same.
LEMMA SumCompares ==
  ASSUME NEW f, NEW g, NEW S, IsFiniteSet(S),
         \A x \in S : f[x] \in Int /\ g[x] \in Int /\ f[x] <= g[x]
  PROVE  Total(f, S) <= Total(g, S)
<1> DEFINE G == {T \in SUBSET S : Total(f, T) <= Total(g, T)}
<1>1. {} \in G
  BY SumNone
<1>2. ASSUME NEW T \in SUBSET S, NEW x \in S \ T, T \in G PROVE T \cup {x} \in G
  <2>1. IsFiniteSet(T)
    BY FS_Subset
  <2>2. Total(f, T) \in Int /\ Total(f, T \cup {x}) = f[x] + Total(f, T)
    BY <2>1, SumAdd
  <2>3. Total(g, T) \in Int /\ Total(g, T \cup {x}) = g[x] + Total(g, T)
    BY <2>1, SumAdd
  <2>4. f[x] \in Int /\ g[x] \in Int /\ f[x] <= g[x] /\ Total(f, T) <= Total(g, T)
    BY <1>2
  <2> QED BY <2>2, <2>3, <2>4
<1> HIDE DEF G
<1>3. S \in G
  BY <1>1, <1>2, SetGrowth
<1> QED BY <1>3 DEF G

\* A sum depends on its terms only.
LEMMA SumAgrees ==
  ASSUME NEW f, NEW g, NEW S, IsFiniteSet(S), \A x \in S : f[x] \in Int /\ f[x] = g[x]
  PROVE  Total(f, S) = Total(g, S)
<1>1. Total(f, S) <= Total(g, S) /\ Total(g, S) <= Total(f, S)
  BY SumCompares
<1>2. Total(f, S) \in Int /\ Total(g, S) \in Int
  BY SumInt
<1> QED BY <1>1, <1>2

\* Two disjoint sets sum to what the two sum to.
LEMMA SumUnion ==
  ASSUME NEW f, NEW S, NEW R, IsFiniteSet(S), IsFiniteSet(R), S \cap R = {},
         \A x \in S \cup R : f[x] \in Int
  PROVE  Total(f, S \cup R) = Total(f, S) + Total(f, R)
<1> DEFINE G == {T \in SUBSET R : Total(f, S \cup T) = Total(f, S) + Total(f, T)}
<1>0. Total(f, S) \in Int
  BY SumInt
<1>1. {} \in G
  <2>1. S \cup {} = S
    OBVIOUS
  <2> QED BY <1>0, <2>1, SumNone
<1>2. ASSUME NEW T \in SUBSET R, NEW x \in R \ T, T \in G PROVE T \cup {x} \in G
  <2>1. IsFiniteSet(T) /\ IsFiniteSet(S \cup T)
    BY FS_Subset, FS_Union
  <2>2. Total(f, T) \in Int /\ Total(f, T \cup {x}) = f[x] + Total(f, T)
    BY <2>1, SumAdd
  <2>3. Total(f, (S \cup T) \cup {x}) = f[x] + Total(f, S \cup T)
    <3>1. x \notin S \cup T
      OBVIOUS
    <3> QED BY <2>1, <3>1, SumAdd
  <2>4. S \cup (T \cup {x}) = (S \cup T) \cup {x}
    OBVIOUS
  <2>5. f[x] \in Int /\ Total(f, S \cup T) = Total(f, S) + Total(f, T)
    BY <1>2
  <2>6. f[x] + (Total(f, S) + Total(f, T)) = Total(f, S) + (f[x] + Total(f, T))
    BY <1>0, <2>2, <2>5
  <2> QED BY <2>2, <2>3, <2>4, <2>5, <2>6
<1> HIDE DEF G
<1>3. R \in G
  BY <1>1, <1>2, SetGrowth
<1> QED BY <1>3 DEF G

\* A part of a set sums to no more than the set, where no term is negative.
LEMMA SumOfPart ==
  ASSUME NEW f, NEW S, IsFiniteSet(S), \A x \in S : f[x] \in Nat, NEW R \in SUBSET S
  PROVE  Total(f, R) \in Nat /\ Total(f, R) <= Total(f, S)
<1>1. IsFiniteSet(R) /\ IsFiniteSet(S \ R)
  BY FS_Subset
<1>2. ASSUME NEW T \in SUBSET S PROVE Total(f, T) \in Int /\ 0 <= Total(f, T)
  <2>1. IsFiniteSet(T)
    BY FS_Subset
  <2> DEFINE G == {s \in SUBSET T : 0 <= Total(f, s)}
  <2>2. {} \in G
    BY SumNone
  <2>3. ASSUME NEW s \in SUBSET T, NEW x \in T \ s, s \in G PROVE s \cup {x} \in G
    <3>1. IsFiniteSet(s)
      BY <2>1, FS_Subset
    <3>2. f[x] \in Nat /\ \A y \in s : f[y] \in Int
      OBVIOUS
    <3>3. Total(f, s) \in Int /\ Total(f, s \cup {x}) = f[x] + Total(f, s)
      BY <3>1, <3>2, SumAdd
    <3> QED BY <2>3, <3>2, <3>3
  <2> HIDE DEF G
  <2>4. T \in G
    BY <2>1, <2>2, <2>3, SetGrowth
  <2> QED BY <2>1, <2>4, SumInt DEF G
<1>3. Total(f, R \cup (S \ R)) = Total(f, R) + Total(f, S \ R)
  BY <1>1, SumUnion
<1>4. R \cup (S \ R) = S
  OBVIOUS
<1>5. /\ Total(f, R) \in Int /\ 0 <= Total(f, R)
      /\ Total(f, S \ R) \in Int /\ 0 <= Total(f, S \ R)
  BY <1>2
<1>6. Total(f, S) = Total(f, R) + Total(f, S \ R)
  BY <1>3, <1>4
<1> DEFINE part == Total(f, R)
           rest == Total(f, S \ R)
<1>7. part \in Nat /\ part <= part + rest
  <2> HIDE DEF part, rest
  <2> QED BY <1>5 DEF part, rest
<1> QED BY <1>6, <1>7

\* A finite set renamed is finite.
LEMMA FiniteRenamed ==
  ASSUME NEW h, NEW S, IsFiniteSet(S)
  PROVE  IsFiniteSet({h[x] : x \in S})
<1> DEFINE image(T) == {h[x] : x \in T}
           G == {T \in SUBSET S : IsFiniteSet(image(T))}
<1>1. {} \in G
  BY FS_EmptySet
<1>2. ASSUME NEW T \in SUBSET S, NEW x \in S \ T, T \in G PROVE T \cup {x} \in G
  <2>1. image(T \cup {x}) = image(T) \cup {h[x]} /\ IsFiniteSet(image(T))
    BY <1>2
  <2>2. IsFiniteSet(image(T) \cup {h[x]})
    <3> HIDE DEF image
    <3> QED BY <2>1, FS_AddElement
  <2> QED BY <2>1, <2>2
<1> HIDE DEF G
<1>3. S \in G
  BY <1>1, <1>2, SetGrowth
<1> QED BY <1>3 DEF G

\* Renaming the members of a set one to one does not change what they sum to.
LEMMA SumRenamed ==
  ASSUME NEW f, NEW g, NEW h, NEW S, IsFiniteSet(S), \A x \in S : f[x] \in Int,
         \A x \in S : g[h[x]] = f[x], \A x, y \in S : h[x] = h[y] => x = y
  PROVE  IsFiniteSet({h[x] : x \in S}) /\ Total(g, {h[x] : x \in S}) = Total(f, S)
<1> DEFINE image(T) == {h[x] : x \in T}
           G == {T \in SUBSET S : IsFiniteSet(image(T)) /\ Total(g, image(T)) = Total(f, T)}
<1>1. {} \in G
  <2>1. image({}) = {}
    OBVIOUS
  <2> QED BY <2>1, SumNone, FS_EmptySet
<1>2. ASSUME NEW T \in SUBSET S, NEW x \in S \ T, T \in G PROVE T \cup {x} \in G
  <2>1. IsFiniteSet(T)
    BY FS_Subset
  <2>2. image(T \cup {x}) = image(T) \cup {h[x]} /\ h[x] \notin image(T)
    OBVIOUS
  <2>3. \A y \in image(T) : g[y] \in Int
    OBVIOUS
  <2>4. g[h[x]] \in Int /\ g[h[x]] = f[x]
    OBVIOUS
  <2>5. IsFiniteSet(image(T))
    BY <1>2
  <2>6. /\ IsFiniteSet(image(T) \cup {h[x]})
        /\ Total(g, image(T) \cup {h[x]}) = g[h[x]] + Total(g, image(T))
    <3> HIDE DEF image
    <3> QED BY <2>2, <2>3, <2>4, <2>5, SumAdd
  <2>7. Total(f, T \cup {x}) = f[x] + Total(f, T)
    BY <2>1, SumAdd
  <2>8. Total(g, image(T)) = Total(f, T)
    BY <1>2
  <2> HIDE DEF image
  <2> QED BY <2>2, <2>4, <2>6, <2>7, <2>8
<1> HIDE DEF G
<1>3. S \in G
  BY <1>1, <1>2, SetGrowth
<1> QED BY <1>3 DEF G
=============================================================================
