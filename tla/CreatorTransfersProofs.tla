------------------------ MODULE CreatorTransfersProofs ------------------------
(***************************************************************************)
(* Theorems about CreatorTransfers, for every set of credits and nettings, *)
(* every price and every number of faults.  The first part is about the    *)
(* plan of NettingPlan: that it is what the loop of nettingPlanFor takes,  *)
(* and that it takes no more than there is.  The second is about the job,  *)
(* step by step, and the last about what the amounts in its tables add up  *)
(* to.                                                                     *)
(***************************************************************************)
EXTENDS CreatorTransfers, SetSums

-----------------------------------------------------------------------------
(* What application rows add up to.                                        *)

\* Application rows of a larger table sum to their part of the table's sum.
LEMMA AmountsAre ==
  ASSUME NEW rows, NEW R \in SUBSET rows, IsFiniteSet(rows), \A a \in rows : a.amount \in Int
  PROVE  Amounts(R) = Total([a \in rows |-> a.amount], R) /\ Amounts(R) \in Int
<1>1. IsFiniteSet(R)
  BY FS_Subset
<1> DEFINE f == [a \in R |-> a.amount]
           g == [a \in rows |-> a.amount]
<1>2. \A a \in R : f[a] \in Int /\ f[a] = g[a]
  OBVIOUS
<1> HIDE DEF f, g
<1>3. Total(f, R) = Total(g, R) /\ Total(f, R) \in Int
  BY <1>1, <1>2, SumAgrees, SumInt
<1> QED BY <1>3 DEF Amounts, f, g

\* Two sets of rows with nothing in common add up.
LEMMA AmountsUnion ==
  ASSUME NEW A, NEW B, IsFiniteSet(A), IsFiniteSet(B), A \cap B = {},
         \A a \in A \cup B : a.amount \in Int
  PROVE  Amounts(A \cup B) = Amounts(A) + Amounts(B)
<1> DEFINE rows == A \cup B
           g == [a \in rows |-> a.amount]
<1>1. IsFiniteSet(rows)
  BY FS_Union
<1>2. Amounts(A) = Total(g, A) /\ Amounts(B) = Total(g, B) /\ Amounts(rows) = Total(g, rows)
  BY <1>1, AmountsAre
<1>3. \A a \in A \cup B : g[a] \in Int
  OBVIOUS
<1> HIDE DEF g
<1>4. Total(g, rows) = Total(g, A) + Total(g, B)
  BY <1>3, SumUnion
<1> QED BY <1>2, <1>4

\* Rows that are part of others add up to no more, as none is negative.
LEMMA AmountsPart ==
  ASSUME NEW A, IsFiniteSet(A), \A a \in A : a.amount \in Nat, NEW R \in SUBSET A
  PROVE  Amounts(R) \in Nat /\ Amounts(R) <= Amounts(A)
<1> DEFINE g == [a \in A |-> a.amount]
<1>1. Amounts(R) = Total(g, R) /\ Amounts(A) = Total(g, A)
  BY AmountsAre
<1>2. \A a \in A : g[a] \in Nat
  OBVIOUS
<1> HIDE DEF g
<1>3. Total(g, R) \in Nat /\ Total(g, R) <= Total(g, A)
  BY <1>2, SumOfPart
<1> QED BY <1>1, <1>3

\* No rows, no amount.
LEMMA NoAmounts == Amounts({}) = 0
  BY SumNone DEF Amounts

-----------------------------------------------------------------------------
(* The plan takes from a credit no more than it is worth, and for a        *)
(* netting no more than is left of it.                                     *)

\* Ids laid on a line: finitely many, each with an amount.
Line(f, S) == IsFiniteSet(S) /\ S \subseteq Nat /\ \A y \in S : f[y] \in Int

\* Part of a line is a line.
LEMMA PartOfLine ==
  ASSUME NEW f, NEW S, Line(f, S), NEW R \in SUBSET S
  PROVE  Line(f, R)
  BY FS_Subset DEF Line

Stretch(f, S) == Total([y \in S |-> Positive(f[y])], S)

\* The length of a part of a line, taken in the whole or by itself.
LEMMA StretchOfPart ==
  ASSUME NEW f, NEW S, Line(f, S), NEW R \in SUBSET S
  PROVE  Total([y \in S |-> Positive(f[y])], R) = Stretch(f, R) /\ Stretch(f, R) \in Nat
<1> DEFINE p(T) == [y \in T |-> Positive(f[y])]
<1>1. \A y \in S : p(S)[y] \in Nat
  BY DEF Positive, Line
<1>2. IsFiniteSet(R)
  BY PartOfLine DEF Line
<1> DEFINE a == p(S)
           b == p(R)
<1>3. (\A y \in S : a[y] \in Nat) /\ \A y \in R : a[y] \in Int /\ a[y] = b[y]
  BY <1>1
<1> HIDE DEF a, b
<1>4. Total(a, R) = Total(b, R)
  BY <1>2, <1>3, SumAgrees
<1>5. Total(a, R) \in Nat
  BY <1>3, SumOfPart DEF Line
<1> QED BY <1>4, <1>5 DEF a, b, Stretch

\* A length is not negative.
LEMMA StretchType ==
  ASSUME NEW f, NEW S, Line(f, S)
  PROVE  Stretch(f, S) \in Nat
  BY StretchOfPart

\* One element adds its own stretch to the length.
LEMMA StretchGrows ==
  ASSUME NEW f, NEW S, Line(f, S), NEW x \in S
  PROVE  Stretch(f, S) = Positive(f[x]) + Stretch(f, S \ {x})
<1> DEFINE a == [y \in S |-> Positive(f[y])]
<1>1. a[x] = Positive(f[x]) /\ \A y \in S : a[y] \in Int
  BY DEF Positive, Line
<1>2. Stretch(f, S) = Total(a, S) /\ Stretch(f, S \ {x}) = Total(a, S \ {x})
  BY StretchOfPart
<1> HIDE DEF a
<1>3. Total(a, S) = a[x] + Total(a, S \ {x})
  BY <1>1, SumRemove DEF Line
<1> QED BY <1>1, <1>2, <1>3

\* A finite set of ids has a last one.
LEMMA Greatest ==
  ASSUME NEW T, IsFiniteSet(T), T \subseteq Nat, T # {}
  PROVE  \E m \in T : \A y \in T : y <= m
<1> DEFINE G == {R \in SUBSET T : R = {} \/ \E m \in R : \A y \in R : y <= m}
<1>1. ASSUME NEW R \in SUBSET T, NEW x \in T \ R, R \in G PROVE R \cup {x} \in G
  <2>1. CASE R = {}
    <3>1. \A y \in R \cup {x} : y <= x
      BY <2>1
    <3> QED BY <3>1
  <2>2. CASE R # {}
    <3>1. PICK m \in R : \A y \in R : y <= m
      BY <1>1, <2>2
    <3>2. \A y \in R \cup {x} : y <= IF x <= m THEN m ELSE x
      BY <3>1
    <3> QED BY <3>1, <3>2
  <2> QED BY <2>1, <2>2
<1>2. T \in G
  <2>1. {} \in G
    OBVIOUS
  <2> HIDE DEF G
  <2> QED BY <1>1, <2>1, SetGrowth
<1> QED BY <1>2

\* An element's stretch starts at the length of what is before it.
LEMMA StartIs ==
  ASSUME NEW f, NEW S, Line(f, S), NEW x \in S
  PROVE  Start(f, S, x) = Stretch(f, {y \in S : y < x}) /\ Start(f, S, x) \in Nat
<1> DEFINE R == {y \in S : y < x}
           p == [y \in S |-> Positive(f[y])]
<1>1. R \in SUBSET S
  OBVIOUS
<1>2. Start(f, S, x) = Total(p, R)
  BY DEF Start
<1>3. Total(p, R) = Stretch(f, R) /\ Stretch(f, R) \in Nat
  <2> HIDE DEF R
  <2> QED BY <1>1, StretchOfPart
<1> QED BY <1>2, <1>3

\* The last stretch starts where the others end, and they do not move without it.
LEMMA LastStarts ==
  ASSUME NEW f, NEW S, Line(f, S), NEW m \in S, \A y \in S : y <= m
  PROVE  /\ Start(f, S, m) = Stretch(f, S \ {m})
         /\ \A x \in S \ {m} : Start(f, S, x) = Start(f, S \ {m}, x)
<1> DEFINE R == S \ {m}
<1>1. Line(f, R)
  BY PartOfLine
<1>2. {y \in S : y < m} = R
  <2>1. \A y \in S : y < m <=> y # m
    BY DEF Line
  <2> QED BY <2>1
<1>3. ASSUME NEW x \in R PROVE Start(f, S, x) = Start(f, R, x)
  <2>1. {y \in S : y < x} = {y \in R : y < x}
    BY DEF Line
  <2>2. Start(f, S, x) = Stretch(f, {y \in S : y < x})
    BY StartIs
  <2>3. Start(f, R, x) = Stretch(f, {y \in R : y < x})
    <3> HIDE DEF R
    <3> QED BY <1>1, StartIs
  <2> QED BY <2>1, <2>2, <2>3
<1>4. Start(f, S, m) = Stretch(f, {y \in S : y < m})
  BY StartIs
<1> QED BY <1>2, <1>3, <1>4

\* How much of the stretch of length w from s on lies before x.
Before(x, s, w) == Positive(Lesser(x - s, w))

\* What lies of a stretch before a point is no more than the stretch.
LEMMA BeforeType ==
  ASSUME NEW x \in Int, NEW s \in Int, NEW w \in Nat
  PROVE  Before(x, s, w) \in Nat /\ Before(x, s, w) <= w
  BY DEF Before, Positive, Lesser

\* The overlap is what lies of the credit before the netting's end, less what lies
\* before its start.
LEMMA OverlapIs ==
  ASSUME NEW N, NEW remaining, Line(remaining, N), NEW S, NEW value, Line(value, S),
         NEW n \in N, NEW c \in S
  PROVE  LET s == Start(value, S, c)
             w == Positive(value[c])
             a == Start(remaining, N, n)
             p == Positive(remaining[n])
         IN  /\ Overlap(n, c, N, remaining, S, value) = Before(a + p, s, w) - Before(a, s, w)
             /\ Overlap(n, c, N, remaining, S, value) \in Nat
<1> DEFINE s == Start(value, S, c)
           w == Positive(value[c])
           a == Start(remaining, N, n)
           p == Positive(remaining[n])
<1>1. s \in Nat /\ a \in Nat
  BY StartIs
<1>2. w \in Nat /\ p \in Nat
  BY DEF Positive, Line
<1>3. Overlap(n, c, N, remaining, S, value) = Positive(Lesser(a + p, s + w) - Greater(a, s))
  BY DEF Overlap
<1> HIDE DEF s, w, a, p
<1>4. /\ Overlap(n, c, N, remaining, S, value) = Before(a + p, s, w) - Before(a, s, w)
      /\ Overlap(n, c, N, remaining, S, value) \in Nat
  <2>1. Positive(Lesser(a + p, s + w) - Greater(a, s)) \in Nat
    BY <1>1, <1>2 DEF Lesser, Greater, Positive
  <2>2. Positive(Lesser(a + p, s + w) - Greater(a, s)) = Before(a + p, s, w) - Before(a, s, w)
    BY <1>1, <1>2 DEF Before, Lesser, Greater, Positive
  <2> QED BY <1>3, <2>1, <2>2
<1> QED BY <1>4 DEF s, w, a, p

\* What the nettings N take from credit c.
Takes(N, c, remaining, S, value) == [n \in N |-> Overlap(n, c, N, remaining, S, value)]

\* The last netting adds to what is taken the part of the credit it reaches.
LEMMA LastTakes ==
  ASSUME NEW N, NEW remaining, Line(remaining, N), NEW S, NEW value, Line(value, S),
         NEW c \in S, NEW m \in N, \A y \in N : y <= m
  PROVE  LET s == Start(value, S, c)
             w == Positive(value[c])
             R == N \ {m}
         IN  Total(Takes(N, c, remaining, S, value), N)
               = (Before(Stretch(remaining, N), s, w) - Before(Stretch(remaining, R), s, w))
                     + Total(Takes(R, c, remaining, S, value), R)
<1> DEFINE s == Start(value, S, c)
           w == Positive(value[c])
           R == N \ {m}
           g == Takes(N, c, remaining, S, value)
           h == Takes(R, c, remaining, S, value)
<1>1. Line(remaining, R) /\ IsFiniteSet(R) /\ IsFiniteSet(N)
  BY PartOfLine DEF Line
<1>2. \A n \in N : g[n] \in Nat
  BY OverlapIs DEF Takes
<1>3. \A n \in R : g[n] = h[n]
  BY LastStarts DEF Takes, Overlap
<1>4. g[m] = Before(Start(remaining, N, m) + Positive(remaining[m]), s, w)
                - Before(Start(remaining, N, m), s, w)
  BY OverlapIs DEF Takes
<1>5. Start(remaining, N, m) = Stretch(remaining, R)
  BY LastStarts
<1>6. Stretch(remaining, N) = Positive(remaining[m]) + Stretch(remaining, R)
  BY StretchGrows
<1>7. Positive(remaining[m]) \in Nat /\ Stretch(remaining, R) \in Nat
  <2>1. Positive(remaining[m]) \in Nat
    BY DEF Positive, Line
  <2>2. Stretch(remaining, R) \in Nat
    BY <1>1, StretchType
  <2> QED BY <2>1, <2>2
<1>8. Stretch(remaining, N) = Stretch(remaining, R) + Positive(remaining[m])
  BY <1>6, <1>7
<1>9. Total(g, N) = g[m] + Total(g, R) /\ Total(g, R) = Total(h, R)
  <2>1. \A n \in N : g[n] \in Int
    BY <1>2
  <2>2. \A n \in R : g[n] \in Int /\ g[n] = h[n]
    BY <1>2, <1>3
  <2> HIDE DEF g, h
  <2>3. Total(g, N) = g[m] + Total(g, N \ {m})
    BY <1>1, <2>1, SumRemove
  <2>4. Total(g, R) = Total(h, R)
    <3> HIDE DEF R
    <3> QED BY <1>1, <2>2, SumAgrees
  <2> QED BY <2>3, <2>4
<1> HIDE DEF s, w, R, g, h
<1> QED BY <1>4, <1>5, <1>8, <1>9 DEF s, w, R, g, h

\* Together the nettings take of a credit what lies before the end of their stretch.
LEMMA TakenIs ==
  ASSUME NEW N, NEW remaining, Line(remaining, N), NEW S, NEW value, Line(value, S),
         NEW c \in S
  PROVE  /\ Total(Takes(N, c, remaining, S, value), N)
              = Before(Stretch(remaining, N), Start(value, S, c), Positive(value[c]))
         /\ Total(Takes(N, c, remaining, S, value), N) \in Nat
         /\ Total(Takes(N, c, remaining, S, value), N) <= Positive(value[c])
<1> DEFINE s == Start(value, S, c)
           w == Positive(value[c])
           taken(T) == Total(Takes(T, c, remaining, S, value), T)
           reached(T) == Before(Stretch(remaining, T), s, w)
           G == {T \in SUBSET N : taken(T) = reached(T)}
<1>1. s \in Nat /\ w \in Nat
  <2>1. s \in Nat
    BY StartIs
  <2> QED BY <2>1 DEF Positive, Line
<1>2. ASSUME NEW T \in SUBSET N PROVE reached(T) \in Nat /\ reached(T) <= w
  <2>1. Stretch(remaining, T) \in Nat
    BY PartOfLine, StretchType
  <2> DEFINE x == Stretch(remaining, T)
  <2> HIDE DEF s, w, x
  <2>2. x \in Int /\ s \in Int /\ w \in Nat
    BY <1>1, <2>1 DEF x
  <2>3. Before(x, s, w) \in Nat /\ Before(x, s, w) <= w
    BY <2>2, BeforeType
  <2> QED BY <2>3 DEF x
<1>3. ASSUME NEW T \in SUBSET N, \A R \in SUBSET T : R # T => R \in G PROVE T \in G
  <2>1. CASE T = {}
    <3>1. Stretch(remaining, {}) = 0 /\ taken({}) = 0
      BY SumNone DEF Stretch
    <3>2. Before(0, s, w) = 0
      <4> HIDE DEF s, w
      <4> QED BY <1>1 DEF Before, Positive, Lesser
    <3> HIDE DEF s, w, taken
    <3> QED BY <2>1, <3>1, <3>2
  <2>2. CASE T # {}
    <3>1. Line(remaining, T)
      BY PartOfLine
    <3>2. PICK m \in T : \A y \in T : y <= m
      BY <2>2, <3>1, Greatest DEF Line
    <3> DEFINE R == T \ {m}
    <3>3. taken(T) = (reached(T) - reached(R)) + taken(R)
      BY <3>1, <3>2, LastTakes
    <3>4. taken(R) = reached(R)
      BY <1>3, <3>2
    <3>5. reached(T) \in Nat /\ reached(R) \in Nat
      BY <1>2
    <3> HIDE DEF taken, reached
    <3>6. taken(T) = reached(T)
      BY <3>3, <3>4, <3>5
    <3> QED BY <3>6
  <2> QED BY <2>1, <2>2
<1>4. N \in G
  <2> HIDE DEF G
  <2> QED BY <1>3, SetInduction DEF Line
<1>5. taken(N) = reached(N) /\ reached(N) \in Nat /\ reached(N) <= w
  BY <1>2, <1>4
<1> QED BY <1>5

\* So the nettings take from a credit no more than it is worth.
LEMMA TakenFromCredit ==
  ASSUME NEW N, NEW remaining, Line(remaining, N), NEW S, NEW value, Line(value, S),
         NEW c \in S
  PROVE  Total(Takes(N, c, remaining, S, value), N) <= Positive(value[c])
  BY TakenIs

\* The same the other way round: nothing in an overlap tells the two lines apart.
LEMMA OverlapTurns ==
  ASSUME NEW N, NEW remaining, Line(remaining, N), NEW S, NEW value, Line(value, S),
         NEW n \in N, NEW c \in S
  PROVE  Overlap(n, c, N, remaining, S, value) = Overlap(c, n, S, value, N, remaining)
<1> DEFINE s == Start(value, S, c)
           w == Positive(value[c])
           a == Start(remaining, N, n)
           p == Positive(remaining[n])
<1>1. s \in Nat /\ a \in Nat
  BY StartIs
<1>2. w \in Nat /\ p \in Nat
  BY DEF Positive, Line
<1>3. Overlap(n, c, N, remaining, S, value) = Positive(Lesser(a + p, s + w) - Greater(a, s))
  BY DEF Overlap
<1>4. Overlap(c, n, S, value, N, remaining) = Positive(Lesser(s + w, a + p) - Greater(s, a))
  BY DEF Overlap
<1> HIDE DEF s, w, a, p
<1>5. Lesser(a + p, s + w) = Lesser(s + w, a + p) /\ Greater(a, s) = Greater(s, a)
  BY <1>1, <1>2 DEF Lesser, Greater
<1> QED BY <1>3, <1>4, <1>5

\* And the credits give for a netting no more than is left of it.
LEMMA TakenForNetting ==
  ASSUME NEW N, NEW remaining, Line(remaining, N), NEW S, NEW value, Line(value, S),
         NEW n \in N
  PROVE  Total([c \in S |-> Overlap(n, c, N, remaining, S, value)], S) <= Positive(remaining[n])
<1> DEFINE g == [c \in S |-> Overlap(n, c, N, remaining, S, value)]
           h == Takes(S, n, value, N, remaining)
<1>1. \A c \in S : g[c] = h[c]
  BY OverlapTurns DEF Takes
<1>2. \A c \in S : g[c] \in Int
  BY OverlapIs
<1>3. Total(h, S) <= Positive(remaining[n])
  BY TakenFromCredit
<1>4. Total(g, S) = Total(h, S)
  <2> HIDE DEF g, h
  <2> QED BY <1>1, <1>2, SumAgrees DEF Line
<1> QED BY <1>3, <1>4

-----------------------------------------------------------------------------
(* The rows of a plan.                                                     *)

\* A plan has finitely many rows.
LEMMA PlanFinite ==
  ASSUME NEW N, NEW remaining, Line(remaining, N), NEW S, NEW value, Line(value, S)
  PROVE  IsFiniteSet(Plan(N, remaining, S, value))
<1> DEFINE row(n, c) == [netting |-> n, credit |-> c,
                         amount |-> Overlap(n, c, N, remaining, S, value), reversed |-> FALSE]
           P == N \X S
           h == [x \in P |-> row(x[1], x[2])]
           rows == {h[x] : x \in P}
<1>1. IsFiniteSet(P)
  BY FS_Product DEF Line
<1>2. IsFiniteSet(rows)
  <2> HIDE DEF h, P
  <2> QED BY <1>1, FiniteRenamed
<1>3. Plan(N, remaining, S, value) \in SUBSET rows
  <2> SUFFICES ASSUME NEW a \in Plan(N, remaining, S, value) PROVE a \in rows
    OBVIOUS
  <2>1. PICK n \in N, c \in S : a = row(n, c)
    BY DEF Plan
  <2>2. a = h[<<n, c>>] /\ <<n, c>> \in P
    BY <2>1
  <2> QED BY <2>2
<1> QED BY <1>2, <1>3, FS_Subset

\* Rows that are told apart by a key, whose amounts are those of their keys, add
\* up to no more than all the keys do.
LEMMA KeyedRows ==
  ASSUME NEW K, IsFiniteSet(K), NEW owed, \A k \in K : owed[k] \in Nat,
         NEW rows, IsFiniteSet(rows), NEW key,
         \A a \in rows : key[a] \in K /\ a.amount = owed[key[a]],
         \A a, b \in rows : key[a] = key[b] => a = b
  PROVE  Amounts(rows) <= Total(owed, K)
<1> DEFINE g == [a \in rows |-> a.amount]
           keys == {key[a] : a \in rows}
<1>1. \A a \in rows : g[a] \in Int /\ owed[key[a]] = g[a]
  OBVIOUS
<1>2. Total(owed, keys) = Total(g, rows)
  <2> HIDE DEF g
  <2> QED BY <1>1, SumRenamed
<1>3. Total(owed, keys) <= Total(owed, K)
  <2>1. keys \in SUBSET K
    OBVIOUS
  <2> HIDE DEF keys
  <2> QED BY <2>1, SumOfPart
<1> QED BY <1>2, <1>3 DEF Amounts

\* What a row of a plan carries.
IsPlanRow(a, N, remaining, S, value) ==
    /\ a.netting \in N /\ a.credit \in S
    /\ a.amount = Overlap(a.netting, a.credit, N, remaining, S, value)
    /\ a.amount \in Nat \ {0}
    /\ a.reversed = FALSE
    /\ a = [netting |-> a.netting, credit |-> a.credit, amount |-> a.amount,
            reversed |-> a.reversed]

\* A plan's row names an open netting and a credit of the set, and takes what they
\* share.
LEMMA PlanRowCarries ==
  ASSUME NEW N, NEW remaining, Line(remaining, N), NEW S, NEW value, Line(value, S)
  PROVE  \A a \in Plan(N, remaining, S, value) : IsPlanRow(a, N, remaining, S, value)
<1> SUFFICES ASSUME NEW a \in Plan(N, remaining, S, value)
             PROVE  IsPlanRow(a, N, remaining, S, value)
  OBVIOUS
<1>1. PICK n \in N, c \in S : a = [netting |-> n, credit |-> c,
              amount |-> Overlap(n, c, N, remaining, S, value), reversed |-> FALSE]
  BY DEF Plan
<1>2. a.netting = n /\ a.credit = c /\ a.amount = Overlap(n, c, N, remaining, S, value)
      /\ a.reversed = FALSE
  BY <1>1
<1>3. a.amount > 0
  BY DEF Plan
<1>4. Overlap(n, c, N, remaining, S, value) \in Nat
  BY OverlapIs
<1> QED BY <1>1, <1>2, <1>3, <1>4 DEF IsPlanRow

\* A plan's rows take from a credit no more than it is worth.
LEMMA PlanOfCredit ==
  ASSUME NEW N, NEW remaining, Line(remaining, N), NEW S, NEW value, Line(value, S),
         NEW c \in S
  PROVE  Amounts({a \in Plan(N, remaining, S, value) : a.credit = c}) <= Positive(value[c])
<1> DEFINE plan == Plan(N, remaining, S, value)
           rows == {a \in plan : a.credit = c}
           takes == Takes(N, c, remaining, S, value)
           key == [a \in rows |-> a.netting]
<1>1. \A n \in N : takes[n] \in Nat
  BY OverlapIs DEF Takes
<1>2. IsFiniteSet(rows)
  BY PlanFinite, FS_Subset
<1>0. \A a \in plan : IsPlanRow(a, N, remaining, S, value)
  BY PlanRowCarries
<1> HIDE DEF plan
<1>3. \A a \in rows : key[a] \in N /\ a.amount = takes[key[a]]
  BY <1>0 DEF Takes, IsPlanRow
<1>4. \A a, b \in rows : key[a] = key[b] => a = b
  <2> SUFFICES ASSUME NEW a \in rows, NEW b \in rows, a.netting = b.netting PROVE a = b
    OBVIOUS
  <2>1. /\ a = [netting |-> a.netting, credit |-> a.credit, amount |-> a.amount,
                reversed |-> a.reversed]
        /\ b = [netting |-> b.netting, credit |-> b.credit, amount |-> b.amount,
                reversed |-> b.reversed]
        /\ a.reversed = b.reversed
    BY <1>0 DEF IsPlanRow
  <2>2. a.amount = b.amount
    BY <1>3
  <2> QED BY <2>1, <2>2
<1>5. Amounts(rows) <= Total(takes, N)
  <2> HIDE DEF takes, rows, key
  <2> QED BY <1>1, <1>2, <1>3, <1>4, KeyedRows DEF Line
<1>6. Total(takes, N) <= Positive(value[c])
  BY TakenFromCredit
<1>7. Amounts(rows) \in Int /\ Total(takes, N) \in Int /\ Positive(value[c]) \in Int
  <2>1. \A n \in N : takes[n] \in Int
    BY <1>1
  <2>2. \A a \in rows : a.amount \in Int
    BY <1>0 DEF IsPlanRow
  <2> HIDE DEF takes, rows
  <2>3. Total(takes, N) \in Int
    BY <2>1, SumInt DEF Line
  <2>4. Positive(value[c]) \in Int
    BY DEF Positive, Line
  <2>5. Amounts(rows) \in Int
    BY <1>2, <2>2, AmountsAre
  <2> QED BY <2>3, <2>4, <2>5
<1> HIDE DEF takes, rows
<1>8. Amounts(rows) <= Positive(value[c])
  BY <1>5, <1>6, <1>7
<1> QED BY <1>8 DEF rows, plan

\* A plan's rows take for a netting no more than is left of it.
LEMMA PlanOfNetting ==
  ASSUME NEW N, NEW remaining, Line(remaining, N), NEW S, NEW value, Line(value, S),
         NEW n \in N
  PROVE  Amounts({a \in Plan(N, remaining, S, value) : a.netting = n})
            <= Positive(remaining[n])
<1> DEFINE plan == Plan(N, remaining, S, value)
           rows == {a \in plan : a.netting = n}
           takes == [c \in S |-> Overlap(n, c, N, remaining, S, value)]
           key == [a \in rows |-> a.credit]
<1>1. \A c \in S : takes[c] \in Nat
  BY OverlapIs
<1>2. IsFiniteSet(rows)
  BY PlanFinite, FS_Subset
<1>3. \A a \in plan : IsPlanRow(a, N, remaining, S, value)
  BY PlanRowCarries
<1> HIDE DEF plan
<1>4. \A a \in rows : key[a] \in S /\ a.amount = takes[key[a]]
  BY <1>3 DEF IsPlanRow
<1>5. \A a, b \in rows : key[a] = key[b] => a = b
  <2> SUFFICES ASSUME NEW a \in rows, NEW b \in rows, a.credit = b.credit PROVE a = b
    OBVIOUS
  <2>1. /\ a = [netting |-> a.netting, credit |-> a.credit, amount |-> a.amount,
                reversed |-> a.reversed]
        /\ b = [netting |-> b.netting, credit |-> b.credit, amount |-> b.amount,
                reversed |-> b.reversed]
        /\ a.reversed = b.reversed
    BY <1>3 DEF IsPlanRow
  <2>2. a.amount = b.amount
    BY <1>4
  <2> QED BY <2>1, <2>2
<1>6. Amounts(rows) <= Total(takes, S)
  <2> HIDE DEF takes, rows, key
  <2> QED BY <1>1, <1>2, <1>4, <1>5, KeyedRows DEF Line
<1>7. Total(takes, S) <= Positive(remaining[n])
  BY TakenForNetting
<1>8. Amounts(rows) \in Int /\ Total(takes, S) \in Int /\ Positive(remaining[n]) \in Int
  <2>1. \A c \in S : takes[c] \in Int
    BY <1>1
  <2>2. \A a \in rows : a.amount \in Int
    BY <1>3 DEF IsPlanRow
  <2> HIDE DEF takes, rows
  <2>3. Total(takes, S) \in Int
    BY <2>1, SumInt DEF Line
  <2>4. Positive(remaining[n]) \in Int
    BY DEF Positive, Line
  <2>5. Amounts(rows) \in Int
    BY <1>2, <2>2, AmountsAre
  <2> QED BY <2>3, <2>4, <2>5
<1> HIDE DEF takes, rows
<1>9. Amounts(rows) <= Positive(remaining[n])
  BY <1>6, <1>7, <1>8
<1> QED BY <1>9 DEF rows, plan

\* A plan takes no more from a set of credits than the set is worth, where none
\* is a correction.
LEMMA PlanWithinSet ==
  ASSUME NEW N, NEW remaining, Line(remaining, N), NEW S, NEW value, Line(value, S),
         \A c \in S : value[c] >= 0
  PROVE  Amounts(Plan(N, remaining, S, value)) <= Total(value, S)
<1> DEFINE plan == Plan(N, remaining, S, value)
           rows(T) == {a \in plan : a.credit \in T}
           G == {T \in SUBSET S : Amounts(rows(T)) <= Total(value, T)}
<1>1. /\ IsFiniteSet(plan)
      /\ \A a \in plan : a.credit \in S /\ a.amount \in Nat
  <2>1. \A a \in plan : IsPlanRow(a, N, remaining, S, value)
    BY PlanRowCarries
  <2> HIDE DEF plan
  <2>2. \A a \in plan : a.credit \in S /\ a.amount \in Nat
    BY <2>1 DEF IsPlanRow
  <2> QED BY <2>2, PlanFinite DEF plan
<1>2. \A c \in S : Amounts({a \in plan : a.credit = c}) <= value[c]
  <2> SUFFICES ASSUME NEW c \in S PROVE Amounts({a \in plan : a.credit = c}) <= value[c]
    OBVIOUS
  <2>1. Amounts({a \in plan : a.credit = c}) <= Positive(value[c])
    BY PlanOfCredit
  <2>2. Positive(value[c]) = value[c]
    BY DEF Positive, Line
  <2> QED BY <2>1, <2>2
<1> HIDE DEF plan
<1>3. {} \in G
  <2>1. rows({}) = {}
    OBVIOUS
  <2>2. Amounts(rows({})) <= Total(value, {})
    BY <2>1, NoAmounts, SumNone
  <2> QED BY <2>2
<1>4. ASSUME NEW T \in SUBSET S, NEW c \in S \ T, T \in G PROVE T \cup {c} \in G
  <2> DEFINE mine == {a \in plan : a.credit = c}
             others == rows(T)
  <2>1. rows(T \cup {c}) = mine \cup others
    OBVIOUS
  <2>2. IsFiniteSet(mine) /\ IsFiniteSet(others) /\ mine \cap others = {}
    BY <1>1, FS_Subset
  <2>3. \A a \in mine \cup others : a.amount \in Int
    BY <1>1
  <2>4. Total(value, T) \in Int /\ Total(value, T \cup {c}) = value[c] + Total(value, T)
    <3>1. IsFiniteSet(T) /\ value[c] \in Int /\ \A x \in T : value[x] \in Int
      BY FS_Subset DEF Line
    <3> QED BY <3>1, SumAdd
  <2>5. Amounts(mine) <= value[c] /\ Amounts(others) <= Total(value, T)
    BY <1>2, <1>4
  <2> HIDE DEF mine, others
  <2>6. Amounts(mine \cup others) = Amounts(mine) + Amounts(others)
    BY <2>2, <2>3, AmountsUnion
  <2>7. Amounts(mine) \in Int /\ Amounts(others) \in Int /\ value[c] \in Int
    <3>1. (\A a \in mine : a.amount \in Int) /\ \A a \in others : a.amount \in Int
      BY <2>3
    <3>2. Amounts(mine) \in Int
      BY <2>2, <3>1, AmountsAre
    <3>3. Amounts(others) \in Int
      BY <2>2, <3>1, AmountsAre
    <3> QED BY <3>2, <3>3 DEF Line
  <2>8. Amounts(mine \cup others) <= Total(value, T \cup {c})
    BY <2>4, <2>5, <2>6, <2>7
  <2>9. Amounts(rows(T \cup {c})) <= Total(value, T \cup {c})
    BY <2>1, <2>8
  <2> QED BY <2>9
<1>5. S \in G
  <2> HIDE DEF G
  <2> QED BY <1>3, <1>4, SetGrowth DEF Line
<1>6. rows(S) = plan
  BY <1>1
<1> QED BY <1>5, <1>6 DEF plan

-----------------------------------------------------------------------------
(* The plan is what the loop of nettingPlanFor takes.                      *)

\* Terms that are zero do not count.
LEMMA SumSparse ==
  ASSUME NEW f, NEW S, IsFiniteSet(S), \A x \in S : f[x] \in Int, NEW R \in SUBSET S,
         \A x \in S \ R : f[x] = 0
  PROVE  Total(f, S) = Total(f, R)
<1> DEFINE G == {T \in SUBSET (S \ R) : Total(f, R \cup T) = Total(f, R)}
<1>1. IsFiniteSet(S \ R)
  BY FS_Subset
<1>2. {} \in G
  <2>1. R \cup {} = R
    OBVIOUS
  <2> QED BY <2>1
<1>3. ASSUME NEW T \in SUBSET (S \ R), NEW x \in (S \ R) \ T, T \in G PROVE T \cup {x} \in G
  <2>1. IsFiniteSet(R \cup T) /\ \A y \in R \cup T : f[y] \in Int
    BY FS_Subset
  <2>2. x \notin R \cup T /\ f[x] = 0
    OBVIOUS
  <2>3. Total(f, R \cup T) \in Int
    BY <2>1, SumInt
  <2>4. Total(f, (R \cup T) \cup {x}) = f[x] + Total(f, R \cup T)
    BY <2>1, <2>2, SumAdd
  <2>5. R \cup (T \cup {x}) = (R \cup T) \cup {x} /\ Total(f, R \cup T) = Total(f, R)
    BY <1>3
  <2>6. f[x] + Total(f, R \cup T) = Total(f, R \cup T)
    BY <2>2, <2>3
  <2>7. Total(f, R \cup (T \cup {x})) = Total(f, R)
    BY <2>4, <2>5, <2>6
  <2> QED BY <2>7
<1> HIDE DEF G
<1>4. S \ R \in G
  BY <1>1, <1>2, <1>3, SetGrowth
<1>5. R \cup (S \ R) = S
  OBVIOUS
<1> QED BY <1>4, <1>5 DEF G

\* Rows with every key that is owed anything add up to what is owed.
LEMMA RowsOfAllKeys ==
  ASSUME NEW K, IsFiniteSet(K), NEW owed, \A k \in K : owed[k] \in Nat,
         NEW rows, IsFiniteSet(rows), NEW key,
         \A a \in rows : key[a] \in K /\ a.amount = owed[key[a]],
         \A a, b \in rows : key[a] = key[b] => a = b,
         \A k \in K : owed[k] > 0 => \E a \in rows : key[a] = k
  PROVE  Amounts(rows) = Total(owed, K)
<1> DEFINE g == [a \in rows |-> a.amount]
           keys == {key[a] : a \in rows}
<1>1. \A a \in rows : g[a] \in Int /\ owed[key[a]] = g[a]
  OBVIOUS
<1>2. Total(owed, keys) = Total(g, rows)
  <2> HIDE DEF g
  <2> QED BY <1>1, SumRenamed
<1>3. keys \in SUBSET K /\ \A k \in K \ keys : owed[k] = 0
  OBVIOUS
<1>4. Total(owed, K) = Total(owed, keys)
  <2>1. \A k \in K : owed[k] \in Int
    OBVIOUS
  <2> HIDE DEF keys
  <2> QED BY <1>3, <2>1, SumSparse
<1> QED BY <1>2, <1>4 DEF Amounts

\* The elements of a line before x, where the stretch of x starts at their end.
LEMMA EarlierStretch ==
  ASSUME NEW f, NEW S, Line(f, S), NEW x \in S
  PROVE  LET R == {y \in S : y < x}
         IN  /\ Line(f, R)
             /\ Stretch(f, R) = Start(f, S, x)
             /\ \A y \in R : Start(f, R, y) = Start(f, S, y)
<1> DEFINE R == {y \in S : y < x}
<1>1. R \in SUBSET S
  OBVIOUS
<1>2. Line(f, R)
  <2> HIDE DEF R
  <2> QED BY <1>1, PartOfLine
<1>3. Stretch(f, R) = Start(f, S, x)
  BY StartIs
<1>4. ASSUME NEW y \in R PROVE Start(f, R, y) = Start(f, S, y)
  <2>0. y \in S /\ y < x /\ S \subseteq Nat
    BY DEF Line
  <2>1. {z \in R : z < y} = {z \in S : z < y}
    <3>1. \A z \in S : z < y => z < x
      BY <2>0
    <3> QED BY <3>1
  <2>2. Start(f, S, y) = Stretch(f, {z \in S : z < y})
    BY StartIs
  <2>3. Start(f, R, y) = Stretch(f, {z \in R : z < y})
    <3> HIDE DEF R
    <3> QED BY <1>2, StartIs
  <2> QED BY <2>1, <2>2, <2>3
<1> QED BY <1>2, <1>3, <1>4

\* What the nettings before n take of credit c is what lies of it before n's stretch.
LEMMA TakenBefore ==
  ASSUME NEW N, NEW remaining, Line(remaining, N), NEW S, NEW value, Line(value, S),
         NEW n \in N, NEW c \in S
  PROVE  Total(Takes(N, c, remaining, S, value), {m \in N : m < n})
            = Before(Start(remaining, N, n), Start(value, S, c), Positive(value[c]))
<1> DEFINE R == {m \in N : m < n}
           g == Takes(N, c, remaining, S, value)
           h == Takes(R, c, remaining, S, value)
<1>1. /\ Line(remaining, R)
      /\ Stretch(remaining, R) = Start(remaining, N, n)
      /\ \A m \in R : Start(remaining, R, m) = Start(remaining, N, m)
  BY EarlierStretch
<1>2. \A m \in R : g[m] \in Int /\ g[m] = h[m]
  <2>1. \A m \in R : g[m] \in Int
    BY OverlapIs DEF Takes
  <2>2. \A m \in R : g[m] = h[m]
    BY <1>1 DEF Takes, Overlap
  <2> QED BY <2>1, <2>2
<1> HIDE DEF R
<1>3. Total(h, R) = Before(Stretch(remaining, R), Start(value, S, c), Positive(value[c]))
  BY <1>1, TakenIs
<1>4. Total(g, R) = Total(h, R)
  <2> HIDE DEF g, h
  <2> QED BY <1>1, <1>2, SumAgrees DEF Line
<1> QED BY <1>1, <1>3, <1>4 DEF R

\* What credit c has left when the loop comes to netting n.
Available(plan, value, n, c) ==
    value[c] - Amounts({a \in plan : a.credit = c /\ a.netting < n})

\* What netting n has left to recover when the loop comes to credit c.
StillOwed(plan, remaining, n, c) ==
    remaining[n] - Amounts({a \in plan : a.netting = n /\ a.credit < c})

\* A plan has the row of each pair that shares anything, and no other of that pair.
LEMMA RowOfPair ==
  ASSUME NEW N, NEW remaining, Line(remaining, N), NEW S, NEW value, Line(value, S),
         Total(value, S) > 0, NEW n \in N, NEW c \in S
  PROVE  LET taken == Overlap(n, c, N, remaining, S, value)
         IN  {a \in Plan(N, remaining, S, value) : a.netting = n /\ a.credit = c}
                = IF taken > 0
                    THEN {[netting |-> n, credit |-> c, amount |-> taken, reversed |-> FALSE]}
                    ELSE {}
<1> DEFINE taken == Overlap(n, c, N, remaining, S, value)
           row == [netting |-> n, credit |-> c, amount |-> taken, reversed |-> FALSE]
           plan == Plan(N, remaining, S, value)
           rows == {a \in plan : a.netting = n /\ a.credit = c}
<1>1. \A a \in rows : a = row /\ taken > 0
  <2> SUFFICES ASSUME NEW a \in rows PROVE a = row /\ taken > 0
    OBVIOUS
  <2>1. IsPlanRow(a, N, remaining, S, value)
    BY PlanRowCarries
  <2>2. a.netting = n /\ a.credit = c
    OBVIOUS
  <2>3. a.amount = taken /\ a.reversed = FALSE /\ a.amount \in Nat \ {0}
    BY <2>1, <2>2 DEF IsPlanRow
  <2>4. a = [netting |-> a.netting, credit |-> a.credit, amount |-> a.amount,
             reversed |-> a.reversed]
    BY <2>1 DEF IsPlanRow
  <2> HIDE DEF taken, plan
  <2> QED BY <2>2, <2>3, <2>4
<1>2. taken > 0 => row \in rows
  <2> SUFFICES ASSUME taken > 0 PROVE row \in rows
    OBVIOUS
  <2>1. row.netting = n /\ row.credit = c /\ row.amount > 0
    OBVIOUS
  <2> DEFINE of(m, d) == [netting |-> m, credit |-> d,
                          amount |-> Overlap(m, d, N, remaining, S, value),
                          reversed |-> FALSE]
             all == {of(m, d) : m \in N, d \in S}
  <2>2. row \in plan
    <3>1. row \in all
      <4>1. row = of(n, c)
        OBVIOUS
      <4> HIDE DEF row, of
      <4> QED BY <4>1
    <3>2. plan = {a \in all : a.amount > 0 /\ Total(value, S) > 0}
      BY DEF Plan
    <3> HIDE DEF row, all, plan
    <3> QED BY <2>1, <3>1, <3>2
  <2> HIDE DEF row, plan
  <2> QED BY <2>1, <2>2
<1> HIDE DEF taken, row, rows
<1>3. rows = IF taken > 0 THEN {row} ELSE {}
  BY <1>1, <1>2
<1> QED BY <1>3 DEF taken, row, rows

\* What the rows written before netting n take of credit c.
LEMMA RowsOfCreditBefore ==
  ASSUME NEW N, NEW remaining, Line(remaining, N), NEW S, NEW value, Line(value, S),
         Total(value, S) > 0, NEW n \in N, NEW c \in S
  PROVE  Amounts({a \in Plan(N, remaining, S, value) : a.credit = c /\ a.netting < n})
            = Before(Start(remaining, N, n), Start(value, S, c), Positive(value[c]))
<1> DEFINE plan == Plan(N, remaining, S, value)
           rows == {a \in plan : a.credit = c /\ a.netting < n}
           takes == Takes(N, c, remaining, S, value)
           K == {m \in N : m < n}
           key == [a \in rows |-> a.netting]
<1>1. IsFiniteSet(K) /\ \A m \in K : takes[m] \in Nat
  <2>1. \A m \in N : takes[m] \in Nat
    BY OverlapIs DEF Takes
  <2>2. IsFiniteSet(K)
    BY FS_Subset DEF Line
  <2> QED BY <2>1, <2>2
<1>2. IsFiniteSet(rows)
  BY PlanFinite, FS_Subset
<1>3. \A a \in plan : IsPlanRow(a, N, remaining, S, value)
  BY PlanRowCarries
<1>4. \A m \in K : takes[m] > 0 => \E a \in rows : key[a] = m
  <2> SUFFICES ASSUME NEW m \in K, takes[m] > 0 PROVE \E a \in rows : key[a] = m
    OBVIOUS
  <2>1. Overlap(m, c, N, remaining, S, value) > 0
    BY DEF Takes
  <2>2. {a \in plan : a.netting = m /\ a.credit = c} # {}
    BY <2>1, RowOfPair
  <2>3. PICK a \in plan : a.netting = m /\ a.credit = c
    BY <2>2
  <2>4. a \in rows
    BY <2>3
  <2> QED BY <2>3, <2>4
<1> HIDE DEF plan
<1>5. \A a \in rows : key[a] \in K /\ a.amount = takes[key[a]]
  BY <1>3 DEF Takes, IsPlanRow
<1>6. \A a, b \in rows : key[a] = key[b] => a = b
  <2> SUFFICES ASSUME NEW a \in rows, NEW b \in rows, a.netting = b.netting PROVE a = b
    OBVIOUS
  <2>1. /\ a = [netting |-> a.netting, credit |-> a.credit, amount |-> a.amount,
                reversed |-> a.reversed]
        /\ b = [netting |-> b.netting, credit |-> b.credit, amount |-> b.amount,
                reversed |-> b.reversed]
        /\ a.reversed = b.reversed
    BY <1>3 DEF IsPlanRow
  <2>2. a.amount = b.amount
    BY <1>5
  <2> QED BY <2>1, <2>2
<1>7. Amounts(rows) = Total(takes, K)
  <2> HIDE DEF takes, rows, key, K
  <2> QED BY <1>1, <1>2, <1>4, <1>5, <1>6, RowsOfAllKeys
<1>8. Total(takes, K) = Before(Start(remaining, N, n), Start(value, S, c), Positive(value[c]))
  BY TakenBefore
<1> HIDE DEF takes, rows, K
<1> QED BY <1>7, <1>8 DEF rows, plan

\* What the rows written before credit c take for netting n.
LEMMA RowsOfNettingBefore ==
  ASSUME NEW N, NEW remaining, Line(remaining, N), NEW S, NEW value, Line(value, S),
         Total(value, S) > 0, NEW n \in N, NEW c \in S
  PROVE  Amounts({a \in Plan(N, remaining, S, value) : a.netting = n /\ a.credit < c})
            = Before(Start(value, S, c), Start(remaining, N, n), Positive(remaining[n]))
<1> DEFINE plan == Plan(N, remaining, S, value)
           rows == {a \in plan : a.netting = n /\ a.credit < c}
           takes == Takes(S, n, value, N, remaining)
           K == {d \in S : d < c}
           key == [a \in rows |-> a.credit]
<1>0. \A d \in S : takes[d] = Overlap(n, d, N, remaining, S, value)
  BY OverlapTurns DEF Takes
<1>1. IsFiniteSet(K) /\ \A d \in K : takes[d] \in Nat
  <2>1. \A d \in S : takes[d] \in Nat
    BY OverlapIs DEF Takes
  <2>2. IsFiniteSet(K)
    BY FS_Subset DEF Line
  <2> QED BY <2>1, <2>2
<1>2. IsFiniteSet(rows)
  BY PlanFinite, FS_Subset
<1>3. \A a \in plan : IsPlanRow(a, N, remaining, S, value)
  BY PlanRowCarries
<1>4. \A d \in K : takes[d] > 0 => \E a \in rows : key[a] = d
  <2> SUFFICES ASSUME NEW d \in K, takes[d] > 0 PROVE \E a \in rows : key[a] = d
    OBVIOUS
  <2>1. Overlap(n, d, N, remaining, S, value) > 0
    BY <1>0
  <2>2. {a \in plan : a.netting = n /\ a.credit = d} # {}
    BY <2>1, RowOfPair
  <2>3. PICK a \in plan : a.netting = n /\ a.credit = d
    BY <2>2
  <2>4. a \in rows
    BY <2>3
  <2> QED BY <2>3, <2>4
<1> HIDE DEF plan
<1>5. \A a \in rows : key[a] \in K /\ a.amount = takes[key[a]]
  <2> HIDE DEF takes
  <2> QED BY <1>0, <1>3 DEF IsPlanRow
<1>6. \A a, b \in rows : key[a] = key[b] => a = b
  <2> SUFFICES ASSUME NEW a \in rows, NEW b \in rows, a.credit = b.credit PROVE a = b
    OBVIOUS
  <2>1. /\ a = [netting |-> a.netting, credit |-> a.credit, amount |-> a.amount,
                reversed |-> a.reversed]
        /\ b = [netting |-> b.netting, credit |-> b.credit, amount |-> b.amount,
                reversed |-> b.reversed]
        /\ a.reversed = b.reversed
    BY <1>3 DEF IsPlanRow
  <2>2. a.amount = b.amount
    BY <1>5
  <2> QED BY <2>1, <2>2
<1>7. Amounts(rows) = Total(takes, K)
  <2> HIDE DEF takes, rows, key, K
  <2> QED BY <1>1, <1>2, <1>4, <1>5, <1>6, RowsOfAllKeys
<1>8. Total(takes, K)
        = Before(Start(value, S, c), Start(remaining, N, n), Positive(remaining[n]))
  BY TakenBefore
<1> HIDE DEF takes, rows, K
<1> QED BY <1>7, <1>8 DEF rows, plan

\* Two stretches share what is left of the shorter after what lies before the other.
LEMMA LesserOfLeft ==
  ASSUME NEW a \in Nat, NEW r \in Int, NEW s \in Nat, NEW v \in Int
  PROVE  Positive(Lesser(v - Before(a, s, Positive(v)), r - Before(s, a, Positive(r))))
            = Positive(Lesser(a + Positive(r), s + Positive(v)) - Greater(a, s))
<1>1. CASE v <= 0 \/ r <= 0
  BY <1>1 DEF Before, Positive, Lesser, Greater
<1>2. CASE v > 0 /\ r > 0 /\ a <= s
  BY <1>2 DEF Before, Positive, Lesser, Greater
<1>3. CASE v > 0 /\ r > 0 /\ s < a
  BY <1>3 DEF Before, Positive, Lesser, Greater
<1> QED BY <1>1, <1>2, <1>3

\* The closed form of the plan is the loop of nettingPlanFor: for each netting and
\* credit, in their order, the row holds the lesser of what the earlier rows leave
\* of the two, and there is no row where that is nothing.  A set that does not sum
\* to more than zero is never netted.
THEOREM PlanFollowsTheLoop ==
  ASSUME NEW N, NEW remaining, Line(remaining, N), NEW S, NEW value, Line(value, S)
  PROVE  LET plan == Plan(N, remaining, S, value)
         IN  /\ Total(value, S) <= 0 => plan = {}
             /\ Total(value, S) > 0 =>
                  \A n \in N, c \in S :
                     LET consumed == Positive(Lesser(Available(plan, value, n, c),
                                                     StillOwed(plan, remaining, n, c)))
                     IN  {a \in plan : a.netting = n /\ a.credit = c}
                            = IF consumed > 0
                                THEN {[netting |-> n, credit |-> c, amount |-> consumed,
                                       reversed |-> FALSE]}
                                ELSE {}
<1> DEFINE plan == Plan(N, remaining, S, value)
<1>1. ASSUME Total(value, S) <= 0 PROVE plan = {}
  <2>1. Total(value, S) \in Int
    BY SumInt DEF Line
  <2>2. ~(Total(value, S) > 0)
    BY <1>1, <2>1
  <2> QED BY <2>2 DEF Plan
<1>2. ASSUME Total(value, S) > 0, NEW n \in N, NEW c \in S
      PROVE  LET consumed == Positive(Lesser(Available(plan, value, n, c),
                                             StillOwed(plan, remaining, n, c)))
             IN  {a \in plan : a.netting = n /\ a.credit = c}
                    = IF consumed > 0
                        THEN {[netting |-> n, credit |-> c, amount |-> consumed,
                               reversed |-> FALSE]}
                        ELSE {}
  <2> DEFINE consumed == Positive(Lesser(Available(plan, value, n, c),
                                         StillOwed(plan, remaining, n, c)))
             taken == Overlap(n, c, N, remaining, S, value)
             a == Start(remaining, N, n)
             s == Start(value, S, c)
  <2>1. a \in Nat /\ s \in Nat /\ value[c] \in Int /\ remaining[n] \in Int
    BY StartIs DEF Line
  <2>2. Available(plan, value, n, c) = value[c] - Before(a, s, Positive(value[c]))
    BY <1>2, RowsOfCreditBefore DEF Available
  <2>3. StillOwed(plan, remaining, n, c) = remaining[n] - Before(s, a, Positive(remaining[n]))
    BY <1>2, RowsOfNettingBefore DEF StillOwed
  <2>4. taken = Positive(Lesser(a + Positive(remaining[n]), s + Positive(value[c]))
                            - Greater(a, s))
    BY DEF Overlap
  <2>5. consumed = taken
    <3> HIDE DEF a, s, plan, taken
    <3>1. taken = Positive(Lesser(value[c] - Before(a, s, Positive(value[c])),
                                  remaining[n] - Before(s, a, Positive(remaining[n]))))
      BY <2>1, <2>4, LesserOfLeft
    <3> QED BY <2>2, <2>3, <3>1
  <2>6. {x \in plan : x.netting = n /\ x.credit = c}
           = IF taken > 0
               THEN {[netting |-> n, credit |-> c, amount |-> taken, reversed |-> FALSE]}
               ELSE {}
    BY <1>2, RowOfPair
  <2> HIDE DEF consumed, taken, plan
  <2> QED BY <2>5, <2>6 DEF consumed
<1> HIDE DEF plan
<1> QED BY <1>1, <1>2 DEF plan

-----------------------------------------------------------------------------
(* The plan and the two conflict-free inserts.                             *)

\* Every row of a plan is an application of an open netting to a credit of the
\* set it plans for.
LEMMA PlanRows ==
  ASSUME NEW N, NEW remaining, NEW S, NEW value, NEW a \in Plan(N, remaining, S, value)
  PROVE  /\ a = [netting |-> a.netting, credit |-> a.credit, amount |-> a.amount,
                 reversed |-> a.reversed]
         /\ a.netting \in N
         /\ a.credit \in S
  BY DEF Plan

\* Writing a row leaves a row for the run's set, and adds no other.
LEMMA RowWritten ==
  ASSUME NEW CONSTANT via, NEW STATE amount
  PROVE  /\ transfers \subseteq WithRow(via, amount)
         /\ \E t \in WithRow(via, amount) : t.set = run.set /\ t.via = via
         /\ \A t \in WithRow(via, amount) \ transfers :
               t = [set |-> run.set, via |-> via, amount |-> amount]
<1>1. CASE \E t \in transfers : t.set = run.set /\ t.via = via
  BY <1>1 DEF WithRow
<1>2. CASE ~ \E t \in transfers : t.set = run.set /\ t.via = via
  <2> DEFINE row == [set |-> run.set, via |-> via, amount |-> amount]
  <2>1. WithRow(via, amount) = transfers \cup {row}
    BY <1>2 DEF WithRow
  <2>2. row.set = run.set /\ row.via = via
    OBVIOUS
  <2> HIDE DEF row
  <2>3. /\ transfers \subseteq transfers \cup {row}
        /\ \E t \in transfers \cup {row} : t.set = run.set /\ t.via = via
        /\ \A t \in (transfers \cup {row}) \ transfers : t = row
    BY <2>2
  <2> QED BY <2>1, <2>3 DEF row
<1> QED BY <1>1, <1>2

-----------------------------------------------------------------------------
(* Type correctness, amounts aside.                                        *)

\* At the start no run is under way and Stripe has moved nothing.
LEMMA ShapeInit == Init => ShapeOK
<1> SUFFICES ASSUME Init PROVE ShapeOK
  OBVIOUS
<1> USE DEF Init
<1>1. IsRun
  BY DEF IsRun, Idle
<1>2. faults \in 0..MaxFaults
  BY EnvironmentAssumption
<1>3. credit \in [Credits -> {"absent", "held", "due", "deleted"}]
  OBVIOUS
<1> QED BY <1>1, <1>2, <1>3 DEF ShapeOK

\* The types without amounts are inductive.
LEMMA ShapeStep == ShapeOK /\ [Next]_vars => ShapeOK'
<1> SUFFICES ASSUME ShapeOK, [Next]_vars PROVE ShapeOK'
  OBVIOUS
<1> USE DEF ShapeOK, database, environment
<1>idle. ASSUME run' = Idle PROVE IsRun'
  BY <1>idle DEF IsRun, Idle
<1>1. CASE Select
  BY <1>1 DEF Select, IsRun, Idle, Held, IsApplication
<1>2. CASE CheckStanding
  BY <1>2, <1>idle DEF CheckStanding, IsRun, IsApplication
<1>3. CASE CheckSuspension
  BY <1>3, <1>idle DEF CheckSuspension, IsRun, IsApplication
<1>4. CASE PlanNetting
  <2> DEFINE plan == Plan(Open, Remaining, run.set, worth)
  <2>1. \A a \in plan : IsApplication(a)
    BY PlanRows DEF IsApplication, Open, IsRun
  <2>2. IsRun'
    BY <1>4, <2>1 DEF PlanNetting, IsRun, IsApplication
  <2> QED BY <1>4, <2>2 DEF PlanNetting, IsApplication
<1>5. CASE CloseAtZero
  <2>1. \A a \in WithPlan : IsApplication(a)
    BY DEF WithPlan, IsRun
  <2>2. \A t \in WithRow("local", 0) : t.set \subseteq Credits /\ t.via \in {"stripe", "local"}
    BY RowWritten DEF IsRun
  <2> QED BY <1>5, <2>1, <2>2, <1>idle DEF CloseAtZero, IsApplication
<1>6. CASE StripeAccepts
  BY <1>6 DEF StripeAccepts, IsRun, IsApplication
<1>7. CASE StripeReplays
  BY <1>7 DEF StripeReplays, IsRun, IsApplication
<1>8. CASE StripeRefusesKey
  BY <1>8, <1>idle DEF StripeRefusesKey, IsApplication
<1>9. CASE Record
  <2>1. \A a \in WithPlan : IsApplication(a)
    BY DEF WithPlan, IsRun
  <2>2. \A t \in WithRow("stripe", run.sum) :
           t.set \subseteq Credits /\ t.via \in {"stripe", "local"}
    BY RowWritten DEF IsRun
  <2> QED BY <1>9, <2>1, <2>2, <1>idle DEF Record, IsApplication
<1>10. CASE TransactionFails
  BY <1>10, <1>idle DEF TransactionFails, IsApplication
<1>11. CASE Fault
  BY <1>11, <1>idle, EnvironmentAssumption DEF Fault, IsApplication
<1>12. ASSUME NEW c \in Credits, Mature(c) PROVE ShapeOK'
  BY <1>12 DEF Mature, IsRun, IsApplication
<1>13. ASSUME NEW n \in Disputes, DisputeOpens(n) PROVE ShapeOK'
  BY <1>13 DEF DisputeOpens, IsRun, IsApplication
<1>14. ASSUME NEW n \in Disputes, DisputeWon(n) PROVE ShapeOK'
  <2>1. \A a \in applications' : IsApplication(a)
    BY <1>14 DEF DisputeWon, IsApplication, Live
  <2> QED BY <1>14, <2>1 DEF DisputeWon, IsRun, IsApplication
<1>15. ASSUME NEW c \in Sales, RefundFindsItPaid(c) PROVE ShapeOK'
  BY <1>15 DEF RefundFindsItPaid, IsRun, IsApplication
<1>16. ASSUME NEW c \in Sales, RefundFindsItHeld(c) PROVE ShapeOK'
  BY <1>16 DEF RefundFindsItHeld, IsRun, IsApplication
<1>17. ASSUME NEW c \in Sales, RefundDeletes(c) PROVE ShapeOK'
  BY <1>17 DEF RefundDeletes, IsRun, IsApplication
<1>18. CASE StandingChanges
  BY <1>18 DEF StandingChanges, IsRun, IsApplication
<1>19. CASE UNCHANGED vars
  BY <1>19 DEF vars, IsRun, IsApplication
<1> QED
  BY <1>1, <1>2, <1>3, <1>4, <1>5, <1>6, <1>7, <1>8, <1>9, <1>10, <1>11, <1>12,
     <1>13, <1>14, <1>15, <1>16, <1>17, <1>18, <1>19 DEF Next, Job

\* The state always has its shape: every row names rows that exist, and a run
\* carries only credits and nettings of the creator.
THEOREM ShapeAlways == Spec => []ShapeOK
<1> QED BY ShapeInit, ShapeStep, PTL DEF Spec
-----------------------------------------------------------------------------
(* What a run carries.                                                     *)

\* At the start there is no run.
LEMMA RunInit == Init => RunInv
  BY DEF Init, RunInv, Idle

\* A step that keeps the run, or ends it, and adds no row keeps RunInv.
LEMMA RunKept ==
  ASSUME ShapeOK, RunInv, transfers' = transfers, stripe \subseteq stripe',
         run' = run \/ run' = Idle
  PROVE  RunInv'
<1>1. CASE run' = run
  BY <1>1 DEF RunInv
<1>2. CASE run' = Idle
  BY <1>2 DEF RunInv, Idle
<1> QED BY <1>1, <1>2

\* A step that moves the run on with the set and the plan it has keeps RunInv.
LEMMA RunMovedOn ==
  ASSUME ShapeOK, RunInv, transfers' = transfers, stripe' = stripe, run # Idle,
         NEW pc \in {"suspension", "plan"}, run' = [run EXCEPT !.pc = pc]
  PROVE  RunInv'
  BY DEF RunInv, ShapeOK, IsRun, Idle

\* What a run carries stays true of the tables until it has written its row.
LEMMA RunStep == ShapeOK /\ RunInv /\ [Next]_vars => RunInv'
<1> SUFFICES ASSUME ShapeOK, RunInv, [Next]_vars PROVE RunInv'
  OBVIOUS
<1> USE DEF database, environment
<1>1. CASE Select
  <2>1. \A t \in transfers : t.set \cap Held = {}
    BY DEF Held, Covering
  <2>2. Held # {} /\ run' = [Idle EXCEPT !.pc = "standing", !.set = Held]
        /\ transfers' = transfers
    BY <1>1 DEF Select
  <2> HIDE DEF Held
  <2> QED BY <2>1, <2>2 DEF RunInv, Idle
<1>2. CASE CheckStanding
  BY <1>2, RunKept, RunMovedOn DEF CheckStanding, Idle
<1>3. CASE CheckSuspension
  <2>1. run # Idle /\ transfers' = transfers /\ stripe' = stripe
    BY <1>3 DEF CheckSuspension, Idle
  <2>2. run' = Idle \/ run' = [run EXCEPT !.pc = "plan"]
    BY <1>3 DEF CheckSuspension
  <2> QED BY <2>1, <2>2, RunKept, RunMovedOn
<1>4. CASE PlanNetting
  <2> DEFINE plan == Plan(Open, Remaining, run.set, worth)
             sum == PlanSum(plan, run.set, worth)
             pc == IF sum = 0 THEN "close" ELSE "call"
  <2>1. \A a \in plan : a.credit \in run.set
    BY PlanRows
  <2>2. run' = [run EXCEPT !.pc = pc, !.plan = plan, !.sum = sum]
        /\ transfers' = transfers /\ stripe' = stripe /\ run.pc = "plan"
    BY <1>4 DEF PlanNetting
  <2>3. pc \in {"close", "call"}
    OBVIOUS
  <2> HIDE DEF plan, sum, pc
  <2> QED BY <2>1, <2>2, <2>3 DEF RunInv, ShapeOK, IsRun, Idle
<1>5. CASE CloseAtZero
  BY <1>5 DEF CloseAtZero, RunInv, Idle
<1>6. CASE StripeAccepts
  BY <1>6 DEF StripeAccepts, RunInv, ShapeOK, IsRun, Idle
<1>7. CASE StripeReplays
  BY <1>7 DEF StripeReplays, RunInv, ShapeOK, IsRun, Idle
<1>8. CASE StripeRefusesKey
  BY <1>8, RunKept DEF StripeRefusesKey
<1>9. CASE Record
  BY <1>9 DEF Record, RunInv, Idle
<1>10. CASE TransactionFails
  BY <1>10, RunKept DEF TransactionFails
<1>11. CASE Fault
  BY <1>11, RunKept DEF Fault
<1>12. ASSUME NEW c \in Credits, Mature(c) PROVE RunInv'
  BY <1>12, RunKept DEF Mature
<1>13. ASSUME NEW n \in Disputes, DisputeOpens(n) PROVE RunInv'
  BY <1>13, RunKept DEF DisputeOpens
<1>14. ASSUME NEW n \in Disputes, DisputeWon(n) PROVE RunInv'
  BY <1>14, RunKept DEF DisputeWon
<1>15. ASSUME NEW c \in Sales, RefundFindsItPaid(c) PROVE RunInv'
  BY <1>15, RunKept DEF RefundFindsItPaid
<1>16. ASSUME NEW c \in Sales, RefundFindsItHeld(c) PROVE RunInv'
  BY <1>16, RunKept DEF RefundFindsItHeld
<1>17. ASSUME NEW c \in Sales, RefundDeletes(c) PROVE RunInv'
  BY <1>17, RunKept DEF RefundDeletes
<1>18. CASE StandingChanges
  BY <1>18, RunKept DEF StandingChanges
<1>19. CASE UNCHANGED vars
  BY <1>19, RunKept DEF vars
<1> QED
  BY <1>1, <1>2, <1>3, <1>4, <1>5, <1>6, <1>7, <1>8, <1>9, <1>10, <1>11, <1>12,
     <1>13, <1>14, <1>15, <1>16, <1>17, <1>18, <1>19 DEF Next, Job

\* So it always is.
LEMMA RunAlways == Spec => []RunInv
<1> QED BY RunInit, RunStep, ShapeAlways, PTL DEF Spec

-----------------------------------------------------------------------------
(* Safety, whatever happens around a run.                                  *)

\* Only two actions write rows, and each writes at most one, for its run's set.
LEMMA RowsWritten ==
  ASSUME [Next]_vars
  PROVE  \/ transfers' = transfers
         \/ CloseAtZero /\ transfers' = WithRow("local", 0)
         \/ Record /\ transfers' = WithRow("stripe", run.sum)
<1> USE DEF database
<1>1. CASE Job
  BY <1>1 DEF Job, Select, CheckStanding, CheckSuspension, PlanNetting, CloseAtZero,
     StripeAccepts, StripeReplays, StripeRefusesKey, Record, TransactionFails
<1>2. CASE ~Job
  BY <1>2 DEF Next, Fault, Mature, DisputeOpens, DisputeWon, RefundFindsItPaid,
     RefundFindsItHeld, RefundDeletes, StandingChanges, vars
<1> QED BY <1>1, <1>2

\* No credit is covered by two rows of creator_transfers: the anti-join of the
\* selection and the order of a run are enough, without a unique index.
THEOREM CoveredOnceAlways == Spec => []CoveredOnce
<1>1. Init => CoveredOnce
  BY DEF Init, CoveredOnce
<1>2. RunInv /\ CoveredOnce /\ [Next]_vars => CoveredOnce'
  <2> SUFFICES ASSUME RunInv, CoveredOnce, [Next]_vars PROVE CoveredOnce'
    OBVIOUS
  <2>1. ASSUME NEW via, NEW STATE amount, transfers' = WithRow(via, amount)
        PROVE  CoveredOnce'
    <3> DEFINE row == [set |-> run.set, via |-> via, amount |-> amount]
    <3>1. transfers' \subseteq transfers \cup {row}
      BY <2>1 DEF WithRow
    <3>2. \A t \in transfers : t.set \cap row.set = {}
      BY DEF RunInv
    <3> HIDE DEF row
    <3> QED BY <3>1, <3>2 DEF CoveredOnce
  <2> QED BY <2>1, RowsWritten DEF CoveredOnce
<1> QED BY <1>1, <1>2, RunAlways, PTL DEF Spec

\* Every row written for a Stripe transfer carries the amount Stripe moved for
\* that set of credits, also when the plan changed between a call and a retry.
THEOREM RecordMatchesStripeAlways == Spec => []RecordMatchesStripe
<1>1. Init => RecordMatchesStripe
  BY DEF Init, RecordMatchesStripe
<1>2. RunInv /\ RecordMatchesStripe /\ [Next]_vars => RecordMatchesStripe'
  <2> SUFFICES ASSUME RunInv, RecordMatchesStripe, [Next]_vars
               PROVE  RecordMatchesStripe'
    OBVIOUS
  <2>1. stripe \subseteq stripe'
    BY DEF Next, Job, Select, CheckStanding, CheckSuspension, PlanNetting, CloseAtZero,
       StripeAccepts, StripeReplays, StripeRefusesKey, Record, TransactionFails, Fault,
       Mature, DisputeOpens, DisputeWon, RefundFindsItPaid, RefundFindsItHeld,
       RefundDeletes, StandingChanges, vars
  <2>2. CASE Record /\ transfers' = WithRow("stripe", run.sum)
    <3>1. [set |-> run.set, amount |-> run.sum] \in stripe
      BY <2>2 DEF Record, RunInv
    <3> QED BY <2>1, <2>2, <3>1, RowWritten DEF RecordMatchesStripe
  <2>3. CASE CloseAtZero /\ transfers' = WithRow("local", 0)
    BY <2>1, <2>3, RowWritten DEF RecordMatchesStripe
  <2>4. CASE transfers' = transfers
    BY <2>1, <2>4 DEF RecordMatchesStripe
  <2> QED BY <2>2, <2>3, <2>4, RowsWritten
<1> QED BY <1>1, <1>2, RunAlways, PTL DEF Spec
\* Coverage persists over a step that takes no row and no credit away.
LEMMA CoverageKept ==
  ASSUME NEW c \in Credits, transfers \subseteq transfers',
         credit[c] # "deleted" => credit'[c] # "deleted"
  PROVE  Covering(c) # {} => Covering(c)' # {}
  BY DEF Covering

\* Writing the run's row covers every credit of the run.
LEMMA RunCovered ==
  ASSUME NEW CONSTANT via, NEW STATE amount, NEW c \in run.set,
         CanCover, transfers' = WithRow(via, amount), credit' = credit
  PROVE  Covering(c)' # {}
<1>1. PICK t \in WithRow(via, amount) : t.set = run.set
  BY RowWritten
<1>2. credit'[c] # "deleted"
  BY DEF CanCover
<1> QED BY <1>1, <1>2 DEF Covering

\* No netting is recovered from a credit that did not move or close with it: an
\* application never lands without its transfer row, in any interleaving of
\* faults, disputes and refunds with a run.
THEOREM NettedWithTheMoveAlways == Spec => []NettedWithTheMove
<1>1. Init => NettedWithTheMove
  BY DEF Init, NettedWithTheMove
<1>2. ShapeOK /\ RunInv /\ NettedWithTheMove /\ [Next]_vars => NettedWithTheMove'
  <2> SUFFICES ASSUME ShapeOK, RunInv, NettedWithTheMove, [Next]_vars
               PROVE  NettedWithTheMove'
    OBVIOUS
  <2>1. ASSUME applications' = applications, transfers \subseteq transfers',
               \A c \in Credits : credit[c] # "deleted" => credit'[c] # "deleted"
        PROVE  NettedWithTheMove'
    BY <2>1, CoverageKept DEF NettedWithTheMove, ShapeOK, IsApplication
  <2>2. ASSUME NEW CONSTANT via, NEW STATE amount, CanCover, credit' = credit,
               transfers' = WithRow(via, amount),
               applications' \subseteq applications \cup run.plan
        PROVE  NettedWithTheMove'
    <3> SUFFICES ASSUME NEW a \in applications' PROVE Covering(a.credit)' # {}
      BY DEF NettedWithTheMove
    <3>1. CASE a \in applications
      <4>1. a.credit \in Credits /\ Covering(a.credit) # {}
        BY <3>1 DEF NettedWithTheMove, ShapeOK, IsApplication
      <4>2. transfers \subseteq transfers'
        BY <2>2, RowWritten
      <4> QED BY <2>2, <4>1, <4>2, CoverageKept
    <3>2. CASE a \in run.plan
      <4>1. a.credit \in run.set
        BY <3>2 DEF RunInv
      <4> QED BY <2>2, <4>1, RunCovered
    <3> QED BY <2>2, <3>1, <3>2
  <2>3. CASE CloseAtZero
    BY <2>2, <2>3 DEF CloseAtZero, WithPlan
  <2>4. CASE Record
    BY <2>2, <2>4 DEF Record, WithPlan
  <2>5. ASSUME NEW n \in Disputes, DisputeWon(n) PROVE NettedWithTheMove'
    <3>1. \A a \in applications' : \E b \in applications : b.credit = a.credit
      BY <2>5 DEF DisputeWon, Live, ShapeOK, IsApplication
    <3>2. \A c \in Credits : credit[c] # "deleted" => credit'[c] # "deleted"
      BY <2>5 DEF DisputeWon, ShapeOK
    <3>3. transfers' = transfers
      BY <2>5 DEF DisputeWon
    <3> QED BY <3>1, <3>2, <3>3, CoverageKept DEF NettedWithTheMove, ShapeOK, IsApplication
  <2>6. ASSUME NEW c \in Sales, RefundDeletes(c) PROVE NettedWithTheMove'
    <3>1. \A d \in Credits : d # c => credit'[d] = credit[d]
      BY <2>6, IdsAssumption DEF RefundDeletes, ShapeOK
    <3>2. \A a \in applications' : a \in applications /\ a.credit # c
      BY <2>6 DEF RefundDeletes
    <3>3. transfers' = transfers
      BY <2>6 DEF RefundDeletes
    <3> QED BY <3>1, <3>2, <3>3, CoverageKept DEF NettedWithTheMove, ShapeOK, IsApplication
  <2>7. ASSUME NEW c \in Credits, Mature(c) PROVE NettedWithTheMove'
    BY <2>1, <2>7 DEF Mature, ShapeOK
  <2>8. CASE Job /\ ~CloseAtZero /\ ~Record
    BY <2>1, <2>8 DEF Job, Select, CheckStanding, CheckSuspension, PlanNetting,
       StripeAccepts, StripeReplays, StripeRefusesKey, TransactionFails, database
  <2>9. CASE Fault \/ StandingChanges \/ UNCHANGED vars
    BY <2>1, <2>9 DEF Fault, StandingChanges, vars, database
  <2>10. ASSUME NEW n \in Disputes, DisputeOpens(n) PROVE NettedWithTheMove'
    BY <2>1, <2>10 DEF DisputeOpens
  <2>11. ASSUME NEW c \in Sales, RefundFindsItPaid(c) \/ RefundFindsItHeld(c)
         PROVE  NettedWithTheMove'
    BY <2>1, <2>11 DEF RefundFindsItPaid, RefundFindsItHeld, database
  <2> QED
    BY <2>3, <2>4, <2>5, <2>6, <2>7, <2>8, <2>9, <2>10, <2>11 DEF Next
<1> QED BY <1>1, <1>2, ShapeAlways, RunAlways, PTL DEF Spec
-----------------------------------------------------------------------------
(* Once nothing disturbs a transfer until it is recorded.                  *)

\* The plan reads the worth, the nettings and the applications.
LEMMA PlanFrame ==
  ASSUME UNCHANGED <<worth, netting, applications>>
  PROVE  Remaining' = Remaining /\ Open' = Open
<1>1. Remaining' = Remaining
  BY DEF Remaining, Recovered, Live
<1> QED BY <1>1 DEF Open

\* What is held is read from the credits and the transfers.
LEMMA HeldFrame ==
  ASSUME UNCHANGED <<credit, transfers>>
  PROVE  Held' = Held /\ \A c \in Sales : Covering(c)' = Covering(c)
  BY DEF Held, Covering

\* What is unrecorded is read from Stripe and the transfers.
LEMMA UnrecordedFrame ==
  ASSUME UNCHANGED <<stripe, transfers>>
  PROVE  Unrecorded' = Unrecorded
  BY DEF Unrecorded, Accepted, Recorded

\* A step that leaves the database and Stripe alone, and moves the run nowhere
\* it would have to have planned, keeps QuietInv.
LEMMA QuietKept ==
  ASSUME QuietInv, UNCHANGED <<credit, worth, netting, applications, transfers, stripe, refund>>,
         run' = run \/ run' = Idle
  PROVE  QuietInv'
<1>1. Held' = Held /\ Unrecorded' = Unrecorded /\ \A c \in Sales : Covering(c)' = Covering(c)
  BY HeldFrame, UnrecordedFrame
<1>2. SumNow(Held)' = SumNow(Held)
  BY <1>1, PlanFrame DEF SumNow
<1>3. CASE run' = run
  <2>1. SumNow(run.set)' = SumNow(run.set)
    BY <1>3, PlanFrame DEF SumNow
  <2> QED BY <1>1, <1>2, <1>3, <2>1 DEF QuietInv, Undisturbed
<1>4. CASE run' = Idle
  BY <1>1, <1>2, <1>4 DEF QuietInv, Undisturbed, Idle
<1> QED BY <1>3, <1>4

\* Before a run pays or closes its set, everything Stripe moved is recorded, so
\* the set shares no credit with what has left.
LEMMA FreshSet ==
  ASSUME RunInv, QuietInv,
         \/ run.pc = "close"
         \/ run.pc = "call" /\ run.set \notin Accepted
  PROVE  /\ Unrecorded = {}
         /\ \A S \in Accepted \cup Closed : S \cap run.set = {}
<1>1. run # Idle
  BY DEF Idle
<1>2. run.set = Held
  BY <1>1 DEF QuietInv
<1>3. Unrecorded = {}
  <2> SUFFICES ASSUME NEW S \in Unrecorded PROVE FALSE
    OBVIOUS
  <2>1. PICK s \in stripe : s.set = S
    BY DEF Unrecorded, Accepted
  <2>2. s.set = run.set /\ s.amount = SumNow(run.set) /\ s.amount # 0
    BY <2>1, <1>2 DEF QuietInv
  <2> QED BY <2>1, <2>2 DEF QuietInv, Accepted
<1>4. \A S \in Recorded \cup Closed : \E t \in transfers : t.set = S
  BY DEF Recorded, Closed
<1> QED BY <1>3, <1>4 DEF RunInv, Unrecorded

\* At the start nothing is unrecorded.
LEMMA QuietInit == Init => QuietInv
<1> SUFFICES ASSUME Init PROVE QuietInv
  OBVIOUS
<1>1. run = Idle /\ stripe = {} /\ transfers = {}
  BY DEF Init
<1>2. \A c \in Credits : credit[c] # "deleted"
  BY DEF Init
<1>3. \A c \in Sales : refund[c] = "none"
  BY DEF Init
<1> QED BY <1>1, <1>2, <1>3 DEF QuietInv, Idle
\* Nothing outside the run changes while a sale is being taken away or a run is
\* in flight, so what is left to look at is a state with nothing on its way.
LEMMA QuietUndisturbed ==
  ASSUME Undisturbed, UNCHANGED <<run, stripe, transfers>>,
         \A c \in Credits : credit'[c] = "deleted" => c \in Sales /\ refund'[c] = "done",
         \A c \in Sales : refund'[c] = "deleting" => Covering(c)' = {},
         \A t \in transfers : \A c \in t.set : credit'[c] # "deleted",
         QuietInv
  PROVE  QuietInv'
<1>1. Unrecorded' = {}
  BY UnrecordedFrame DEF Undisturbed
<1>2. run' = Idle
  BY DEF Undisturbed
<1> QED BY <1>1, <1>2 DEF QuietInv, Undisturbed, Idle

\* When nothing disturbs a transfer, QuietInv is inductive.
LEMMA QuietStep ==
  ASSUME Quiet, ShapeOK, RunInv, QuietInv, [Next]_vars
  PROVE  QuietInv'
<1> USE DEF database, environment
<1>1. CASE Select
  <2>1. UNCHANGED <<credit, worth, netting, applications, transfers, stripe, refund>>
        /\ run = Idle /\ run' = [Idle EXCEPT !.pc = "standing", !.set = Held]
        /\ \A c \in Sales : refund[c] # "deleting"
    BY <1>1 DEF Select
  <2>2. Held' = Held /\ Unrecorded' = Unrecorded
    BY <2>1, HeldFrame, UnrecordedFrame
  <2>3. SumNow(Held)' = SumNow(Held)
    BY <2>1, <2>2, PlanFrame DEF SumNow
  <2>4. run'.set = Held /\ run'.pc = "standing"
    BY <2>1 DEF Idle
  <2> QED BY <2>1, <2>2, <2>3, <2>4 DEF QuietInv
<1>2. ASSUME UNCHANGED <<credit, worth, netting, applications, transfers, stripe, refund>>,
             run # Idle, NEW pc \in {"suspension", "plan"}, run' = [run EXCEPT !.pc = pc]
      PROVE  QuietInv'
  <2>1. Held' = Held /\ Unrecorded' = Unrecorded
    BY <1>2, HeldFrame, UnrecordedFrame
  <2>2. SumNow(Held)' = SumNow(Held)
    BY <1>2, <2>1, PlanFrame DEF SumNow
  <2>3. run'.set = run.set /\ run'.pc = pc
    BY <1>2 DEF ShapeOK, IsRun
  <2> QED BY <1>2, <2>1, <2>2, <2>3 DEF QuietInv, Undisturbed
<1>3. CASE CheckStanding
  BY <1>2, <1>3, QuietKept DEF CheckStanding, Idle
<1>4. CASE CheckSuspension
  <2>1. run # Idle
        /\ UNCHANGED <<credit, worth, netting, applications, transfers, stripe, refund>>
        /\ (run' = Idle \/ run' = [run EXCEPT !.pc = "plan"])
    BY <1>4 DEF CheckSuspension, Idle
  <2> QED BY <1>2, <2>1, QuietKept
<1>5. CASE PlanNetting
  <2> DEFINE plan == Plan(Open, Remaining, run.set, worth)
             sum == SumNow(run.set)
             pc == IF sum = 0 THEN "close" ELSE "call"
  <2>1. run' = [run EXCEPT !.pc = pc, !.plan = plan, !.sum = sum]
        /\ run # Idle
        /\ UNCHANGED <<credit, worth, netting, applications, transfers, stripe, refund>>
    BY <1>5 DEF PlanNetting, SumNow, Idle
  <2>2. Held' = Held /\ Unrecorded' = Unrecorded
    BY <2>1, HeldFrame, UnrecordedFrame
  <2>3. SumNow(Held)' = SumNow(Held)
    BY <2>1, <2>2, PlanFrame DEF SumNow
  <2>4. (pc = "close" /\ sum = 0) \/ (pc = "call" /\ sum # 0)
    OBVIOUS
  <2> HIDE DEF plan, sum, pc
  <2>5. run'.set = run.set /\ run'.pc = pc /\ run'.sum = sum
    BY <2>1 DEF ShapeOK, IsRun
  <2>6. SumNow(run.set)' = sum
    BY <2>1, <2>5, PlanFrame DEF SumNow, sum
  <2> QED BY <2>1, <2>2, <2>3, <2>4, <2>5, <2>6 DEF QuietInv, Undisturbed
<1>6. CASE StripeAccepts
  <2>1. run.pc = "call" /\ run.set \notin Accepted /\ run # Idle
        /\ stripe' = stripe \cup {[set |-> run.set, amount |-> run.sum]}
        /\ run' = [run EXCEPT !.pc = "record"]
        /\ UNCHANGED <<credit, worth, netting, applications, transfers, refund>>
    BY <1>6 DEF StripeAccepts, Idle
  <2>2. Unrecorded = {}
    BY <2>1, FreshSet
  <2>3. Held' = Held /\ Recorded' = Recorded
    BY <2>1, HeldFrame DEF Recorded
  <2>4. run'.set = run.set /\ run'.pc = "record" /\ run'.sum = run.sum
    BY <2>1 DEF ShapeOK, IsRun
  <2>5. SumNow(run.set)' = SumNow(run.set) /\ SumNow(Held)' = SumNow(Held)
    BY <2>1, <2>3, <2>4, PlanFrame DEF SumNow
  <2>6. \A s \in stripe : s.set \notin Unrecorded'
    BY <2>2, <2>3 DEF Unrecorded, Accepted
  <2>7. run.set = Held /\ run.set # {} /\ run.sum = SumNow(run.set) /\ run.sum # 0
        /\ \A c \in Sales : refund[c] # "deleting"
    BY <2>1 DEF QuietInv, RunInv, Undisturbed
  <2>8. \A s \in stripe' : s \in stripe \/ (s.set = run.set /\ s.amount = run.sum)
    BY <2>1
  <2> QED BY <2>1, <2>3, <2>4, <2>5, <2>6, <2>7, <2>8 DEF QuietInv
<1>7. CASE StripeReplays
  <2>1. run.pc = "call" /\ run # Idle /\ run' = [run EXCEPT !.pc = "record"]
        /\ UNCHANGED <<credit, worth, netting, applications, transfers, stripe, refund>>
    BY <1>7 DEF StripeReplays, Idle
  <2>2. Held' = Held /\ Unrecorded' = Unrecorded
    BY <2>1, HeldFrame, UnrecordedFrame
  <2>3. run'.set = run.set /\ run'.pc = "record" /\ run'.sum = run.sum
    BY <2>1 DEF ShapeOK, IsRun
  <2>4. SumNow(run.set)' = SumNow(run.set) /\ SumNow(Held)' = SumNow(Held)
    BY <2>1, <2>2, <2>3, PlanFrame DEF SumNow
  <2> QED BY <2>1, <2>2, <2>3, <2>4 DEF QuietInv, Undisturbed
<1>8. CASE StripeRefusesKey
  BY <1>8, QuietKept DEF StripeRefusesKey
<1>9. ASSUME NEW via, NEW STATE amount, run # Idle, run' = Idle, CanCover,
             transfers' = WithRow(via, amount), Unrecorded' = {},
             UNCHANGED <<credit, stripe, refund>>
      PROVE  QuietInv'
  <2>1. \A c \in Sales : refund[c] # "deleting"
    BY <1>9 DEF QuietInv, Undisturbed
  <2>2. \A t \in transfers' : \A c \in t.set : credit[c] # "deleted"
    <3> SUFFICES ASSUME NEW t \in transfers', t \notin transfers, NEW c \in t.set
                 PROVE  credit[c] # "deleted"
      BY DEF QuietInv
    <3> QED BY <1>9, RowWritten DEF CanCover
  <2> QED BY <1>9, <2>1, <2>2 DEF QuietInv, Undisturbed, Idle
<1>10. CASE CloseAtZero
  <2>1. run # Idle /\ run' = Idle /\ CanCover /\ transfers' = WithRow("local", 0)
        /\ UNCHANGED <<credit, stripe, refund>> /\ run.pc = "close"
    BY <1>10 DEF CloseAtZero, Idle
  <2>2. transfers \subseteq transfers'
    BY <2>1, RowWritten
  <2>3. Unrecorded = {}
    BY <2>1, FreshSet
  <2>4. Unrecorded' = {}
    BY <2>1, <2>2, <2>3 DEF Unrecorded, Accepted, Recorded
  <2> QED BY <1>9, <2>1, <2>4
<1>11. CASE Record
  <2>1. run # Idle /\ run' = Idle /\ CanCover /\ transfers' = WithRow("stripe", run.sum)
        /\ UNCHANGED <<credit, stripe, refund>>
    BY <1>11 DEF Record, Idle
  <2>2. transfers \subseteq transfers' /\ run.set \in Recorded'
    BY <2>1, RowWritten DEF Recorded
  <2>3. \A S \in Unrecorded : S = run.set
    BY <2>1 DEF QuietInv, Unrecorded, Accepted
  <2>4. Unrecorded' = {}
    BY <2>1, <2>2, <2>3 DEF Unrecorded, Accepted, Recorded
  <2> QED BY <1>9, <2>1, <2>4
<1>12. CASE TransactionFails
  BY <1>12, QuietKept DEF TransactionFails
<1>13. CASE Fault \/ StandingChanges \/ UNCHANGED vars
  BY <1>13, QuietKept DEF Fault, StandingChanges, vars
<1>14. ASSUME NEW c \in Credits, Mature(c) PROVE QuietInv'
  <2>1. \A d \in Sales : Covering(d)' = Covering(d)
    BY <1>14, IdsAssumption DEF Mature, Covering, ShapeOK
  <2> QED BY <1>14, <2>1, QuietUndisturbed, IdsAssumption
          DEF Mature, Calm, QuietInv, ShapeOK
<1>15. ASSUME NEW n \in Disputes, DisputeOpens(n) PROVE QuietInv'
  <2>1. \A d \in Sales : Covering(d)' = Covering(d)
    BY <1>15 DEF DisputeOpens, Covering
  <2> QED BY <1>15, <2>1, QuietUndisturbed DEF DisputeOpens, Calm, QuietInv
<1>16. ASSUME NEW n \in Disputes, DisputeWon(n) PROVE QuietInv'
  <2>1. CompensationOf[n] \in Credits \ Sales
    BY LinksAssumption
  <2>2. \A d \in Credits : credit'[d] = credit[d] \/ (d = CompensationOf[n] /\ credit'[d] = "held")
    BY <1>16, <2>1 DEF DisputeWon, ShapeOK
  <2>3. UNCHANGED <<transfers, stripe, run, refund>> /\ Undisturbed
    BY <1>16 DEF DisputeWon, Calm
  <2>4. \A d \in Sales : Covering(d)' = Covering(d)
    BY <2>1, <2>2, <2>3, IdsAssumption DEF Covering
  <2>5. \A t \in transfers : \A d \in t.set : credit'[d] # "deleted"
    BY <2>2 DEF QuietInv, ShapeOK
  <2> QED BY <2>2, <2>3, <2>4, <2>5, QuietUndisturbed DEF QuietInv
<1>17. ASSUME NEW c \in Sales, RefundFindsItPaid(c) PROVE QuietInv'
  <2>1. \A d \in Sales : Covering(d)' = Covering(d)
    BY <1>17 DEF RefundFindsItPaid, Covering
  <2>2. \A d \in Sales : refund'[d] = refund[d] \/ refund'[d] = "done"
    BY <1>17 DEF RefundFindsItPaid, ShapeOK
  <2> QED BY <1>17, <2>1, <2>2, QuietUndisturbed DEF RefundFindsItPaid, Calm, QuietInv
<1>18. ASSUME NEW c \in Sales, RefundFindsItHeld(c) PROVE QuietInv'
  <2>1. \A d \in Sales : Covering(d)' = Covering(d)
    BY <1>18 DEF RefundFindsItHeld, Covering
  <2>2. \A d \in Sales : refund'[d] = refund[d] \/ d = c
    BY <1>18 DEF RefundFindsItHeld, ShapeOK
  <2>3. credit[c] # "deleted" /\ Covering(c) = {}
    BY <1>18, IdsAssumption DEF RefundFindsItHeld, QuietInv
  <2> QED BY <1>18, <2>1, <2>2, <2>3, QuietUndisturbed DEF RefundFindsItHeld, Calm, QuietInv
<1>19. ASSUME NEW c \in Sales, RefundDeletes(c) PROVE QuietInv'
  <2>1. refund[c] = "deleting" /\ Undisturbed /\ Covering(c) = {}
    BY <1>19 DEF RefundDeletes, QuietInv
  <2>2. \A t \in transfers : c \notin t.set
    BY <2>1, IdsAssumption DEF Covering, QuietInv
  <2>3. \A d \in Credits : d # c => credit'[d] = credit[d]
    BY <1>19 DEF RefundDeletes, ShapeOK
  <2>4. refund'[c] = "done" /\ \A d \in Sales : d # c => refund'[d] = refund[d]
    BY <1>19 DEF RefundDeletes, ShapeOK
  <2>5. UNCHANGED <<transfers, stripe, run>>
    BY <1>19 DEF RefundDeletes
  <2>6. \A d \in Sales : d # c => Covering(d)' = Covering(d)
    BY <2>3, <2>5, IdsAssumption DEF Covering
  <2>7. \A t \in transfers : \A d \in t.set : credit'[d] # "deleted"
    BY <2>2, <2>3 DEF QuietInv, ShapeOK
  <2> QED BY <2>1, <2>3, <2>4, <2>5, <2>6, <2>7, QuietUndisturbed, IdsAssumption DEF QuietInv
<1> QED
  BY <1>1, <1>3, <1>4, <1>5, <1>6, <1>7, <1>8, <1>10, <1>11, <1>12, <1>13, <1>14,
     <1>15, <1>16, <1>17, <1>18, <1>19 DEF Next, Job

\* So when nothing disturbs a transfer, it always holds.
LEMMA QuietAlways ==
  ASSUME Quiet
  PROVE  Spec => []QuietInv
<1>1. ShapeOK /\ RunInv /\ QuietInv /\ [Next]_vars => QuietInv'
  BY QuietStep
<1> QED BY <1>1, QuietInit, ShapeAlways, RunAlways, PTL DEF Spec

\* Only the action that has Stripe accept a transfer adds to what it accepted,
\* and only the action that closes a set adds to what was closed.
LEMMA LeavesByTwoActions ==
  ASSUME [Next]_vars
  PROVE  \/ Accepted' \cup Closed' = Accepted \cup Closed /\ stripe' = stripe /\ Closed' = Closed
         \/ StripeAccepts
         \/ CloseAtZero
<1> USE DEF database
<1>1. CASE transfers' = transfers /\ stripe' = stripe
  BY <1>1 DEF Accepted, Closed
<1>2. CASE Record
  <2>1. stripe' = stripe
    BY <1>2 DEF Record
  <2>2. \A t \in WithRow("stripe", run.sum) : t \in transfers \/ t.via = "stripe"
    BY RowWritten
  <2>3. Closed' = Closed
    BY <1>2, <2>2, RowWritten DEF Record, Closed
  <2> QED BY <2>1, <2>3 DEF Accepted
<1>3. CASE StripeAccepts \/ CloseAtZero
  BY <1>3
<1>4. \/ (transfers' = transfers /\ stripe' = stripe)
      \/ Record
      \/ StripeAccepts
      \/ CloseAtZero
  BY DEF Next, Job, Select, CheckStanding, CheckSuspension, PlanNetting,
     StripeReplays, StripeRefusesKey, TransactionFails, Fault, Mature, DisputeOpens,
     DisputeWon, RefundFindsItPaid, RefundFindsItHeld, RefundDeletes, StandingChanges, vars
<1> QED BY <1>1, <1>2, <1>3, <1>4

\* What closing a set adds to the closed sets.
LEMMA CloseAdds ==
  ASSUME RunInv, CloseAtZero
  PROVE  Closed' = Closed \cup {run.set}
<1>1. transfers' = WithRow("local", 0)
  BY DEF CloseAtZero
<1>2. \A t \in WithRow("local", 0) : t \in transfers \/ (t.via = "local" /\ t.set = run.set)
  BY RowWritten
<1>3. \E t \in WithRow("local", 0) : t.set = run.set /\ t.via = "local"
  BY RowWritten
<1> QED BY <1>1, <1>2, <1>3, RowWritten DEF Closed

\* Quiet: no credit leaves twice, whether Stripe moved it or netting took it.
THEOREM PaidOnceWhenQuiet ==
  ASSUME Quiet
  PROVE  Spec => []PaidOnce
<1>1. Init => PaidOnce
  BY DEF Init, PaidOnce, MovedOnce, Accepted
<1>2. RunInv /\ QuietInv /\ PaidOnce /\ [Next]_vars => PaidOnce'
  <2> SUFFICES ASSUME RunInv, QuietInv, PaidOnce, [Next]_vars PROVE PaidOnce'
    OBVIOUS
  <2>1. CASE stripe' = stripe /\ Closed' = Closed
    BY <2>1 DEF PaidOnce, MovedOnce, Accepted
  <2>2. CASE StripeAccepts
    <3> DEFINE paid == [set |-> run.set, amount |-> run.sum]
    <3>1. stripe' = stripe \cup {paid} /\ Closed' = Closed
      BY <2>2 DEF StripeAccepts, database, Closed
    <3>2. \A S \in Accepted \cup Closed : S \cap paid.set = {}
      BY <2>2, FreshSet DEF StripeAccepts
    <3> HIDE DEF paid
    <3>3. Accepted' = Accepted \cup {paid.set}
      BY <3>1 DEF Accepted
    <3> QED BY <3>1, <3>2, <3>3 DEF PaidOnce, MovedOnce, Accepted
  <2>3. CASE CloseAtZero
    <3>1. Closed' = Closed \cup {run.set}
      BY <2>3, CloseAdds
    <3>2. \A S \in Accepted : S \cap run.set = {}
      BY <2>3, FreshSet DEF CloseAtZero
    <3>3. stripe' = stripe
      BY <2>3 DEF CloseAtZero
    <3> QED BY <3>1, <3>2, <3>3 DEF PaidOnce, MovedOnce, Accepted
  <2> QED BY <2>1, <2>2, <2>3, LeavesByTwoActions
<1> QED BY <1>1, <1>2, RunAlways, QuietAlways, PTL DEF Spec
-----------------------------------------------------------------------------
(* Quiet, the run implements PayoutLedger.                                 *)

Withdrawn == {c \in Credits : credit[c] = "deleted"}

\* The tables at the start are the empty ledger.
LEMMA LedgerInit == Init => Ledger!Init
<1> SUFFICES ASSUME Init PROVE Ledger!Init
  OBVIOUS
<1>1. Accepted = {} /\ Closed = {} /\ Recorded = {}
  BY DEF Init, Accepted, Closed, Recorded
<1>2. Withdrawn = {}
  BY DEF Init, Withdrawn
<1> QED BY <1>1, <1>2 DEF Ledger!Init, Withdrawn

\* What leaves Withdrawn alone.
LEMMA WithdrawnFrame ==
  ASSUME ShapeOK, QuietInv, [Next]_vars, ~ \E c \in Sales : RefundDeletes(c)
  PROVE  Withdrawn' = Withdrawn
<1> USE DEF database, environment
<1>1. ASSUME NEW c \in Credits, Mature(c) PROVE Withdrawn' = Withdrawn
  BY <1>1 DEF Mature, Withdrawn, ShapeOK
<1>2. ASSUME NEW n \in Disputes, DisputeWon(n) PROVE Withdrawn' = Withdrawn
  <2>1. CompensationOf[n] \in Credits \ Sales
    BY LinksAssumption
  <2>2. \A d \in Credits : credit'[d] = credit[d] \/ (d = CompensationOf[n] /\ credit'[d] = "held")
    BY <1>2, <2>1 DEF DisputeWon, ShapeOK
  <2> QED BY <2>1, <2>2 DEF QuietInv, Withdrawn
<1>3. credit' = credit \/ (\E c \in Credits : Mature(c)) \/ (\E n \in Disputes : DisputeWon(n))
  BY DEF Next, Job, Select, CheckStanding, CheckSuspension, PlanNetting, CloseAtZero,
     StripeAccepts, StripeReplays, StripeRefusesKey, Record, TransactionFails, Fault,
     DisputeOpens, RefundFindsItPaid, RefundFindsItHeld, StandingChanges, vars
<1> QED BY <1>1, <1>2, <1>3 DEF Withdrawn

\* A step of the job is a step of the ledger, or none.
LEMMA LedgerStep ==
  ASSUME ShapeOK, RunInv, QuietInv, [Next]_vars
  PROVE  [Ledger!Next]_(Ledger!ledger)
<1> USE DEF database, environment
<1>s. Ledger!Gone = (UNION (Accepted \cup Closed)) \cup Withdrawn
  BY DEF Ledger!Gone, Withdrawn
<1>1. CASE StripeAccepts
  <2>1. Accepted' = Accepted \cup {run.set} /\ Recorded' = Recorded /\ Closed' = Closed
    <3> DEFINE paid == [set |-> run.set, amount |-> run.sum]
    <3>1. stripe' = stripe \cup {paid} /\ transfers' = transfers /\ paid.set = run.set
      BY <1>1 DEF StripeAccepts
    <3> HIDE DEF paid
    <3> QED BY <3>1 DEF Accepted, Recorded, Closed
  <2>2. run # Idle /\ run.set \in (SUBSET Credits) \ {{}}
    BY <1>1 DEF StripeAccepts, RunInv, ShapeOK, IsRun, Idle
  <2>3. run.set \cap Ledger!Gone = {}
    <3>1. \A S \in Accepted \cup Closed : S \cap run.set = {}
      BY <1>1, FreshSet DEF StripeAccepts
    <3>2. run.set \cap Withdrawn = {}
      BY <2>2 DEF QuietInv, Held, Withdrawn
    <3> QED BY <1>s, <3>1, <3>2
  <2>4. Withdrawn' = Withdrawn
    BY <1>1 DEF StripeAccepts, Withdrawn
  <2>5. Ledger!Pay(run.set)
    BY <2>1, <2>3, <2>4 DEF Ledger!Pay, Withdrawn
  <2> QED BY <2>2, <2>5 DEF Ledger!Next
<1>2. CASE Record
  <2>1. run # Idle /\ run.set \in (SUBSET Credits) \ {{}} /\ run.set \in Accepted
    BY <1>2 DEF Record, RunInv, ShapeOK, IsRun, Idle, Accepted
  <2>2. Accepted' = Accepted /\ Withdrawn' = Withdrawn
    BY <1>2 DEF Record, Accepted, Withdrawn
  <2>3. transfers' = WithRow("stripe", run.sum)
    BY <1>2 DEF Record
  <2>4. \A t \in transfers' : t \in transfers \/ (t.via = "stripe" /\ t.set = run.set)
    BY <2>3, RowWritten
  <2>5. \E t \in transfers' : t.via = "stripe" /\ t.set = run.set
    BY <2>3, RowWritten
  <2>6. transfers \subseteq transfers'
    BY <2>3, RowWritten
  <2>7. Closed' = Closed /\ Recorded' = Recorded \cup {run.set}
    BY <2>4, <2>5, <2>6 DEF Closed, Recorded
  <2>8. Ledger!Enter(run.set)
    BY <2>1, <2>2, <2>7 DEF Ledger!Enter, Withdrawn
  <2> QED BY <2>1, <2>8 DEF Ledger!Next
<1>3. CASE CloseAtZero
  <2>1. Closed' = Closed \cup {run.set}
    BY <1>3, CloseAdds
  <2>2. \A t \in transfers' : t \in transfers \/ t.via = "local"
    BY <1>3, RowWritten DEF CloseAtZero
  <2>3. transfers \subseteq transfers'
    BY <1>3, RowWritten DEF CloseAtZero
  <2>4. Recorded' = Recorded
    BY <2>2, <2>3 DEF Recorded
  <2>5. Accepted' = Accepted /\ Withdrawn' = Withdrawn
    BY <1>3 DEF CloseAtZero, Accepted, Withdrawn
  <2>6. run # Idle /\ run.set \in (SUBSET Credits) \ {{}}
    BY <1>3 DEF CloseAtZero, RunInv, ShapeOK, IsRun, Idle
  <2>7. run.set \cap Ledger!Gone = {}
    <3>1. \A S \in Accepted \cup Closed : S \cap run.set = {}
      BY <1>3, FreshSet DEF CloseAtZero
    <3>2. run.set \cap Withdrawn = {}
      BY <1>3 DEF CloseAtZero, CanCover, Withdrawn
    <3> QED BY <1>s, <3>1, <3>2
  <2>8. Ledger!Close(run.set)
    BY <2>1, <2>4, <2>5, <2>7 DEF Ledger!Close, Withdrawn
  <2> QED BY <2>6, <2>8 DEF Ledger!Next
<1>4. ASSUME NEW c \in Sales, RefundDeletes(c) PROVE Ledger!Next
  <2>1. c \in Credits /\ Unrecorded = {} /\ Covering(c) = {} /\ credit[c] # "deleted"
    BY <1>4, IdsAssumption DEF RefundDeletes, QuietInv, Undisturbed
  <2>2. \A t \in transfers : c \notin t.set
    BY <2>1 DEF Covering
  <2>3. \A S \in Accepted \cup Closed : \E t \in transfers : t.set = S
    BY <2>1 DEF Unrecorded, Recorded, Closed
  <2>4. c \notin Ledger!Gone
    BY <1>s, <2>1, <2>2, <2>3 DEF Withdrawn
  <2>5. Withdrawn' = Withdrawn \cup {c}
    BY <1>4, <2>1 DEF RefundDeletes, ShapeOK, Withdrawn
  <2>6. Accepted' = Accepted /\ Closed' = Closed /\ Recorded' = Recorded
    BY <1>4 DEF RefundDeletes, Accepted, Closed, Recorded
  <2>7. Ledger!Withdraw(c)
    BY <2>4, <2>5, <2>6 DEF Ledger!Withdraw, Withdrawn
  <2> QED BY <2>1, <2>7 DEF Ledger!Next
<1>5. CASE ~StripeAccepts /\ ~Record /\ ~CloseAtZero /\ ~ \E c \in Sales : RefundDeletes(c)
  <2>1. transfers' = transfers /\ stripe' = stripe
    BY <1>5 DEF Next, Job, Select, CheckStanding, CheckSuspension, PlanNetting,
       StripeReplays, StripeRefusesKey, TransactionFails, Fault, Mature, DisputeOpens,
       DisputeWon, RefundFindsItPaid, RefundFindsItHeld, StandingChanges, vars
  <2>2. Accepted' = Accepted /\ Closed' = Closed /\ Recorded' = Recorded
    BY <2>1 DEF Accepted, Closed, Recorded
  <2>3. Withdrawn' = Withdrawn
    BY <1>5, WithdrawnFrame
  <2> QED BY <2>2, <2>3 DEF Ledger!ledger, Withdrawn
<1> QED BY <1>1, <1>2, <1>3, <1>4, <1>5

\* Quiet, what a run does is what PayoutLedger allows: every step is a movement
\* of money, its entry on the books, a closing, a withdrawal, or nothing.
THEOREM LedgerImplemented ==
  ASSUME Quiet
  PROVE  Spec => LedgerSpec
<1>1. ShapeOK /\ RunInv /\ QuietInv /\ [Next]_vars => [Ledger!Next]_(Ledger!ledger)
  BY LedgerStep
<1> QED BY <1>1, LedgerInit, ShapeAlways, RunAlways, QuietAlways, PTL
        DEF Spec, LedgerSpec, Ledger!Spec

\* At the start no batch has left.
LEMMA PromiseInit == Ledger!Init => Ledger!Promise
  BY DEF Ledger!Init, Ledger!Promise

\* A batch leaves whole, is entered once, and shares nothing with another.
LEMMA PromiseStep ==
  Ledger!Promise /\ [Ledger!Next]_(Ledger!ledger) => Ledger!Promise'
<1> SUFFICES ASSUME Ledger!Promise, [Ledger!Next]_(Ledger!ledger) PROVE Ledger!Promise'
  OBVIOUS
<1> DEFINE left == Accepted \cup Closed
           entered == Recorded \cup Closed
           taken == {c \in Credits : credit[c] = "deleted"}
<1>p. /\ \A S, T \in left : S # T => S \cap T = {}
      /\ entered \subseteq left
      /\ \A S \in left : S \cap taken = {}
  BY DEF Ledger!Promise
<1>g. Ledger!Gone = (UNION left) \cup taken
  BY DEF Ledger!Gone
<1>1. ASSUME NEW S, Ledger!Pay(S) \/ Ledger!Close(S) PROVE Ledger!Promise'
  <2>1. /\ S \cap ((UNION left) \cup taken) = {}
        /\ left' = left \cup {S} /\ taken' = taken
        /\ entered' = entered \/ entered' = entered \cup {S}
    BY <1>1, <1>g DEF Ledger!Pay, Ledger!Close
  <2> HIDE DEF left, entered, taken
  <2>2. /\ \A A, B \in left' : A # B => A \cap B = {}
        /\ entered' \subseteq left'
        /\ \A A \in left' : A \cap taken' = {}
    BY <1>p, <2>1
  <2> QED BY <2>2 DEF Ledger!Promise, left, entered, taken
<1>2. ASSUME NEW S, Ledger!Enter(S) PROVE Ledger!Promise'
  <2>1. S \in left /\ left' = left /\ taken' = taken /\ entered' = entered \cup {S}
    BY <1>2 DEF Ledger!Enter
  <2> HIDE DEF left, entered, taken
  <2>2. /\ \A A, B \in left' : A # B => A \cap B = {}
        /\ entered' \subseteq left'
        /\ \A A \in left' : A \cap taken' = {}
    BY <1>p, <2>1
  <2> QED BY <2>2 DEF Ledger!Promise, left, entered, taken
<1>3. ASSUME NEW c, Ledger!Withdraw(c) PROVE Ledger!Promise'
  <2>1. /\ c \notin (UNION left) \cup taken
        /\ left' = left /\ entered' = entered /\ taken' = taken \cup {c}
    BY <1>3, <1>g DEF Ledger!Withdraw
  <2> HIDE DEF left, entered, taken
  <2>2. /\ \A A, B \in left' : A # B => A \cap B = {}
        /\ entered' \subseteq left'
        /\ \A A \in left' : A \cap taken' = {}
    BY <1>p, <2>1
  <2> QED BY <2>2 DEF Ledger!Promise, left, entered, taken
<1>4. CASE UNCHANGED Ledger!ledger
  BY <1>4, <1>p DEF Ledger!ledger, Ledger!Promise
<1> QED BY <1>1, <1>2, <1>3, <1>4 DEF Ledger!Next

\* What the abstract ledger promises holds of every run of the transfer job that
\* implements it: no credit leaves twice, the books name only what left, and a credit
\* that was taken away leaves in no batch.
THEOREM PromiseKept == LedgerSpec => []Ledger!Promise
<1> QED BY PromiseInit, PromiseStep, PTL DEF LedgerSpec, Ledger!Spec

-----------------------------------------------------------------------------
(* The stages of a run.                                                    *)

\* A run that neither starts nor plans nor ends keeps what it carries.
LEMMA RunMoves ==
  ASSUME ShapeOK, [Next]_vars
  PROVE  \/ Select
         \/ PlanNetting
         \/ run' = Idle
         \/ /\ run'.set = run.set /\ run'.plan = run.plan /\ run'.sum = run.sum
            /\ \/ run'.pc = run.pc
               \/ run'.pc \in {"suspension", "plan"}
                  /\ run.pc \notin {"close", "call", "record"}
               \/ run'.pc = "record" /\ run.pc = "call"
<1> DEFINE Keeps ==
             /\ run'.set = run.set /\ run'.plan = run.plan /\ run'.sum = run.sum
             /\ \/ run'.pc = run.pc
                \/ run'.pc \in {"suspension", "plan"}
                   /\ run.pc \notin {"close", "call", "record"}
                \/ run'.pc = "record" /\ run.pc = "call"
<1>1. CASE run' = run
  BY <1>1
<1>2. CASE CheckStanding
  <2>1. run' = Idle \/ run' = [run EXCEPT !.pc = "suspension"]
    BY <1>2 DEF CheckStanding
  <2>2. ASSUME run' = [run EXCEPT !.pc = "suspension"] PROVE Keeps
    BY <1>2, <2>2 DEF CheckStanding, ShapeOK, IsRun
  <2> QED BY <2>1, <2>2
<1>3. CASE CheckSuspension
  <2>1. run' = Idle \/ run' = [run EXCEPT !.pc = "plan"]
    BY <1>3 DEF CheckSuspension
  <2>2. ASSUME run' = [run EXCEPT !.pc = "plan"] PROVE Keeps
    BY <1>3, <2>2 DEF CheckSuspension, ShapeOK, IsRun
  <2> QED BY <2>1, <2>2
<1>4. CASE StripeAccepts \/ StripeReplays
  BY <1>4 DEF StripeAccepts, StripeReplays, ShapeOK, IsRun
<1>5. CASE CloseAtZero \/ StripeRefusesKey \/ Record \/ TransactionFails \/ Fault
  BY <1>5 DEF CloseAtZero, StripeRefusesKey, Record, TransactionFails, Fault
<1> HIDE DEF Keeps
<1>6. \/ run' = run \/ CheckStanding \/ CheckSuspension \/ StripeAccepts \/ StripeReplays
      \/ CloseAtZero \/ StripeRefusesKey \/ Record \/ TransactionFails \/ Fault
      \/ Select \/ PlanNetting
  BY DEF Next, Job, Mature, DisputeOpens, DisputeWon, RefundFindsItPaid,
     RefundFindsItHeld, RefundDeletes, StandingChanges, vars
<1> QED BY <1>1, <1>2, <1>3, <1>4, <1>5, <1>6 DEF Keeps

-----------------------------------------------------------------------------
(* Compensations are written when their dispute is won, and not before.    *)

\* At the start no dispute is won and no compensation is there.
LEMMA CompensationInit == Init => CompensationInv
  BY LinksAssumption DEF Init, CompensationInv, Compensations, Idle

\* Only the winning of its dispute writes a compensation, and marks the netting with it.
LEMMA CompensationStep ==
  ShapeOK /\ CompensationInv /\ [Next]_vars => CompensationInv'
<1> SUFFICES ASSUME ShapeOK, CompensationInv, [Next]_vars PROVE CompensationInv'
  OBVIOUS
<1> USE DEF database, environment
\* No credit becomes absent again.
<1>a. \A c \in Credits : credit[c] # "absent" => credit'[c] # "absent"
  <2>1. ASSUME NEW n \in Disputes, DisputeWon(n)
        PROVE  \A c \in Credits : credit[c] # "absent" => credit'[c] # "absent"
    BY <2>1 DEF DisputeWon, ShapeOK
  <2>2. credit' = credit
        \/ (\E c \in Credits : Mature(c)) \/ (\E c \in Sales : RefundDeletes(c))
        \/ (\E n \in Disputes : DisputeWon(n))
    BY DEF Next, Job, Select, CheckStanding, CheckSuspension, PlanNetting, CloseAtZero,
       StripeAccepts, StripeReplays, StripeRefusesKey, Record, TransactionFails, Fault,
       DisputeOpens, RefundFindsItPaid, RefundFindsItHeld, StandingChanges, vars
  <2> QED BY <2>1, <2>2 DEF Mature, RefundDeletes, ShapeOK
<1>b. \A c \in run'.set : credit'[c] # "absent"
  <2>1. CASE Select
    <3>1. run'.set = Held /\ credit' = credit
      BY <2>1 DEF Select, Idle
    <3> QED BY <3>1 DEF Held
  <2>2. CASE ~Select
    <3>1. PlanNetting => run'.set = run.set
      BY DEF PlanNetting, ShapeOK, IsRun
    <3>2. run'.set \subseteq run.set
      BY <2>2, <3>1, RunMoves DEF Idle
    <3> QED BY <3>2, <1>a DEF CompensationInv, ShapeOK, IsRun
  <2> QED BY <2>1, <2>2
<1>c. \A t \in transfers' : \A c \in t.set : credit'[c] # "absent"
  <2> SUFFICES ASSUME NEW t \in transfers', NEW c \in t.set PROVE credit'[c] # "absent"
    OBVIOUS
  <2>1. t \in transfers \/ t.set = run.set
    BY RowsWritten, RowWritten
  <2>2. credit[c] # "absent" /\ c \in Credits
    BY <2>1 DEF CompensationInv, ShapeOK, IsRun
  <2> QED BY <2>2, <1>a
<1>d. ASSUME NEW n \in Disputes, netting'[n] # "reversed"
      PROVE  credit'[CompensationOf[n]] = "absent"
  <2> DEFINE own == CompensationOf[n]
  <2>0. own \in Credits \ Sales
    BY LinksAssumption
  <2>1. ASSUME NEW m \in Disputes, DisputeWon(m) PROVE credit'[own] = "absent"
    <3>1. m # n
      BY <2>1, <1>d, IdsAssumption DEF DisputeWon, ShapeOK
    <3>2. CompensationOf[m] # own
      BY <3>1, LinksAssumption
    <3>3. netting[n] # "reversed"
      BY <2>1, <1>d, <3>1, IdsAssumption DEF DisputeWon, ShapeOK
    <3> QED BY <2>0, <2>1, <3>2, <3>3 DEF DisputeWon, ShapeOK, CompensationInv
  <2>2. ASSUME NEW c \in Credits, Mature(c) PROVE credit'[own] = "absent"
    BY <2>2, <1>d, <2>0 DEF Mature, ShapeOK, CompensationInv
  <2>3. ASSUME NEW c \in Sales, RefundDeletes(c) PROVE credit'[own] = "absent"
    BY <2>3, <1>d, <2>0, IdsAssumption DEF RefundDeletes, ShapeOK, CompensationInv
  <2>4. ASSUME NEW m \in Disputes, DisputeOpens(m) PROVE credit'[own] = "absent"
    BY <2>4, <1>d, IdsAssumption DEF DisputeOpens, ShapeOK, CompensationInv
  <2>5. ASSUME NEW c \in Sales, RefundFindsItPaid(c) PROVE credit'[own] = "absent"
    <3>1. RefundOf[c] # n
      BY LinksAssumption
    <3>2. netting[n] # "reversed" /\ credit' = credit
      BY <2>5, <3>1, <1>d, IdsAssumption DEF RefundFindsItPaid, ShapeOK
    <3> QED BY <3>2 DEF CompensationInv
  <2>6. CASE credit' = credit /\ netting' = netting
    BY <2>6, <1>d DEF CompensationInv
  <2>7. \/ credit' = credit /\ netting' = netting
        \/ \E c \in Credits : Mature(c)
        \/ \E m \in Disputes : DisputeOpens(m) \/ DisputeWon(m)
        \/ \E c \in Sales : RefundFindsItPaid(c) \/ RefundDeletes(c)
    BY DEF Next, Job, Select, CheckStanding, CheckSuspension, PlanNetting, CloseAtZero,
       StripeAccepts, StripeReplays, StripeRefusesKey, Record, TransactionFails, Fault,
       RefundFindsItHeld, StandingChanges, vars
  <2> QED BY <2>1, <2>2, <2>3, <2>4, <2>5, <2>6, <2>7
<1> QED BY <1>b, <1>c, <1>d DEF CompensationInv

\* So a compensation is never there before its dispute is won.
LEMMA CompensationAlways == Spec => []CompensationInv
<1> QED BY CompensationInit, CompensationStep, ShapeAlways, PTL DEF Spec

-----------------------------------------------------------------------------
(* Type correctness, amounts included.                                     *)

\* The tables are finite, and an application takes something.
Sized ==
    /\ IsFiniteSet(applications) /\ IsFiniteSet(run.plan)
    /\ \A a \in applications \cup run.plan : a.amount \in Nat \ {0}

\* The type invariant with what its amounts rest on.
TypeInv == TypeOK /\ StageInv /\ Sized

\* What was recovered for a netting is a number of cents, from finitely many rows.
LEMMA RecoveredType ==
  ASSUME Sized, NEW n
  PROVE  /\ IsFiniteSet(Live(n)) /\ Live(n) \subseteq applications
         /\ Recovered(n) \in Nat
<1>1. Live(n) \in SUBSET applications
  BY DEF Live
<1>2. IsFiniteSet(applications) /\ \A a \in applications : a.amount \in Nat
  BY DEF Sized
<1> QED BY <1>1, <1>2, AmountsPart, FS_Subset DEF Recovered

\* What the plan works on: finitely many nettings and credits, in whole cents.
LEMMA Lines ==
  ASSUME TypeOK, Sized
  PROVE  Line(Remaining, Open) /\ Line(worth, run.set)
<1>1. \A n \in Nettings : Recovered(n) \in Nat
  BY RecoveredType
<1>2. \A n \in Nettings : Remaining[n] \in Int
  <2> SUFFICES ASSUME NEW n \in Nettings PROVE Remaining[n] \in Int
    OBVIOUS
  <2>1. Share[n] \in Nat /\ Recovered(n) \in Nat
    BY <1>1, MoneyAssumption
  <2> QED BY <2>1 DEF Remaining, Positive
<1>3. Open \subseteq Nettings /\ IsFiniteSet(Open)
  BY IdsAssumption, FS_Subset DEF Open
<1>4. Line(Remaining, Open)
  BY <1>2, <1>3, IdsAssumption DEF Line
<1>5. run.set \subseteq Credits /\ IsFiniteSet(run.set) /\ Credits \subseteq Nat
  BY IdsAssumption, FS_Subset DEF TypeOK, ShapeOK, IsRun
<1>6. \A c \in run.set : worth[c] \in Int
  BY <1>5 DEF TypeOK
<1> QED BY <1>4, <1>5, <1>6 DEF Line

\* The plan a run makes: typed rows, finitely many, and a whole sum that is left.
LEMMA PlanMade ==
  ASSUME TypeOK, Sized
  PROVE  LET plan == Plan(Open, Remaining, run.set, worth) IN
         /\ IsFiniteSet(plan)
         /\ \A a \in plan : /\ a \in Application
                            /\ a.netting \in Open /\ a.credit \in run.set
                            /\ a.amount \in Nat \ {0}
                            /\ ~a.reversed
         /\ PlanSum(plan, run.set, worth) \in Nat
<1> DEFINE plan == Plan(Open, Remaining, run.set, worth)
<1>1. Line(Remaining, Open) /\ Line(worth, run.set)
  BY Lines
<1>2. IsFiniteSet(plan)
  BY <1>1, PlanFinite
<1>3. \A a \in plan : IsPlanRow(a, Open, Remaining, run.set, worth)
  BY <1>1, PlanRowCarries
<1> HIDE DEF plan
<1>4. \A a \in plan : /\ a \in Application
                      /\ a.netting \in Open /\ a.credit \in run.set
                      /\ a.amount \in Nat \ {0}
                      /\ ~a.reversed
  <2> SUFFICES ASSUME NEW a \in plan
               PROVE  /\ a \in Application
                      /\ a.netting \in Open /\ a.credit \in run.set
                      /\ a.amount \in Nat \ {0}
                      /\ ~a.reversed
    OBVIOUS
  <2>1. IsPlanRow(a, Open, Remaining, run.set, worth)
    BY <1>3
  <2>2. /\ a.netting \in Open /\ a.credit \in run.set
        /\ a.amount \in Nat \ {0} /\ a.reversed = FALSE
        /\ a = [netting |-> a.netting, credit |-> a.credit, amount |-> a.amount,
                reversed |-> a.reversed]
    BY <2>1 DEF IsPlanRow
  <2>3. a.netting \in Nettings /\ a.credit \in Credits
    BY <2>2 DEF Open, TypeOK, ShapeOK, IsRun
  <2>4. [netting |-> a.netting, credit |-> a.credit, amount |-> a.amount,
         reversed |-> FALSE] \in Application
    BY <2>2, <2>3 DEF Application
  <2>5. a = [netting |-> a.netting, credit |-> a.credit, amount |-> a.amount,
             reversed |-> FALSE]
    BY <2>2
  <2>6. a \in Application
    BY <2>4, <2>5
  <2> QED BY <2>2, <2>6
<1>5. Total(worth, run.set) \in Int
  BY <1>1, SumInt DEF Line
<1>6. Amounts(plan) \in Int
  <2>1. \A a \in plan : a.amount \in Int
    BY <1>4
  <2> QED BY <1>2, <2>1, AmountsAre
<1>7. PlanSum(plan, run.set, worth) \in Nat
  BY <1>5, <1>6 DEF PlanSum, Positive
<1> QED BY <1>2, <1>4, <1>7 DEF plan

\* Renaming application rows one to one, amounts kept, keeps what they add up to.
LEMMA AmountsRenamed ==
  ASSUME NEW rows, IsFiniteSet(rows), \A a \in rows : a.amount \in Int,
         NEW h, \A a \in rows : h[a].amount = a.amount,
         \A a, b \in rows : h[a] = h[b] => a = b
  PROVE  /\ IsFiniteSet({h[a] : a \in rows})
         /\ Amounts({h[a] : a \in rows}) = Amounts(rows)
<1> DEFINE f == [a \in rows |-> a.amount]
           image == {h[a] : a \in rows}
           g == [b \in image |-> b.amount]
<1>1. \A a \in rows : f[a] \in Int
  OBVIOUS
<1>2. \A a \in rows : g[h[a]] = f[a]
  OBVIOUS
<1>3. IsFiniteSet(image) /\ Total(g, image) = Total(f, rows)
  <2> HIDE DEF f, g
  <2> QED BY <1>1, <1>2, SumRenamed
<1> QED BY <1>3 DEF Amounts

\* What stamping the rows of n reversed does: it is one to one on the rows, as none
\* of n was stamped before, and keeps everything else they say.
Stamp(n) == [a \in applications |-> IF a \in Live(n) THEN [a EXCEPT !.reversed = TRUE] ELSE a]

\* A won dispute stamps the live rows of its netting and changes nothing else of the
\* rows.
LEMMA Stamped ==
  ASSUME TypeOK, StampInv, NEW n \in Nettings, netting[n] = "open",
         applications' = (applications \ Live(n))
                            \cup {[a EXCEPT !.reversed = TRUE] : a \in Live(n)}
  PROVE  /\ applications' = {Stamp(n)[a] : a \in applications}
         /\ \A a, b \in applications : Stamp(n)[a] = Stamp(n)[b] => a = b
         /\ \A a \in applications :
               /\ Stamp(n)[a] \in Application
               /\ Stamp(n)[a].netting = a.netting /\ Stamp(n)[a].credit = a.credit
               /\ Stamp(n)[a].amount = a.amount
               /\ Stamp(n)[a].reversed = (a.reversed \/ a.netting = n)
<1> DEFINE h == Stamp(n)
<1>1. \A a \in applications : a \in Live(n) <=> a.netting = n
  BY DEF Live, StampInv, TypeOK, Application
<1>2. \A a \in applications :
         /\ a = [netting |-> a.netting, credit |-> a.credit, amount |-> a.amount,
                 reversed |-> a.reversed]
         /\ a.netting \in Nettings /\ a.credit \in Credits /\ a.amount \in Int
         /\ a.reversed \in BOOLEAN
  BY DEF TypeOK, Application
<1>3. ASSUME NEW a \in applications, a.netting = n
      PROVE  h[a] = [netting |-> a.netting, credit |-> a.credit, amount |-> a.amount,
                     reversed |-> TRUE]
  <2>1. h[a] = [a EXCEPT !.reversed = TRUE]
    BY <1>1, <1>3 DEF Stamp
  <2>2. a = [netting |-> a.netting, credit |-> a.credit, amount |-> a.amount,
             reversed |-> a.reversed]
    BY <1>2
  <2> QED BY <2>1, <2>2
<1>4. ASSUME NEW a \in applications, a.netting # n PROVE h[a] = a
  BY <1>1, <1>4 DEF Stamp
<1>5. \A a \in applications :
         /\ h[a] \in Application
         /\ h[a].netting = a.netting /\ h[a].credit = a.credit
         /\ h[a].amount = a.amount
         /\ h[a].reversed = (a.reversed \/ a.netting = n)
  <2> SUFFICES ASSUME NEW a \in applications
               PROVE  /\ h[a] \in Application
                      /\ h[a].netting = a.netting /\ h[a].credit = a.credit
                      /\ h[a].amount = a.amount
                      /\ h[a].reversed = (a.reversed \/ a.netting = n)
    OBVIOUS
  <2> HIDE DEF h
  <2>1. CASE a.netting = n
    <3>1. h[a] = [netting |-> a.netting, credit |-> a.credit, amount |-> a.amount,
                  reversed |-> TRUE]
      BY <1>3, <2>1
    <3>2. [netting |-> a.netting, credit |-> a.credit, amount |-> a.amount,
           reversed |-> TRUE] \in Application
      BY <1>2 DEF Application
    <3>3. h[a] \in Application
      BY <3>1, <3>2
    <3>4. h[a].netting = a.netting /\ h[a].credit = a.credit /\ h[a].amount = a.amount
          /\ h[a].reversed = TRUE
      BY <3>1
    <3> QED BY <2>1, <3>3, <3>4
  <2>2. CASE a.netting # n
    BY <1>2, <1>4, <2>2 DEF Application
  <2> QED BY <2>1, <2>2
<1>6. ASSUME NEW a \in applications, NEW b \in applications, h[a] = h[b] PROVE a = b
  <2>1. a.netting = b.netting /\ a.credit = b.credit /\ a.amount = b.amount
    BY <1>5, <1>6
  <2>2. CASE a.netting = n
    <3>1. ~a.reversed /\ ~b.reversed
      BY <1>1, <2>1, <2>2 DEF Live
    <3> QED BY <1>2, <2>1, <3>1
  <2>3. CASE a.netting # n
    BY <1>4, <1>6, <2>1, <2>3
  <2> QED BY <2>2, <2>3
<1>7. applications' = {h[a] : a \in applications}
  BY DEF Stamp, Live
<1> QED BY <1>5, <1>6, <1>7

\* Who writes the applications, and who writes what a credit is worth.
LEMMA ApplicationsWritten ==
  ASSUME [Next]_vars
  PROVE  \/ applications' = applications /\ worth' = worth
         \/ (CloseAtZero \/ Record) /\ applications' = WithPlan /\ worth' = worth
         \/ \E n \in Disputes : DisputeWon(n)
         \/ \E c \in Sales : RefundDeletes(c)
<1> USE DEF database
<1>1. CASE CloseAtZero
  BY <1>1 DEF CloseAtZero
<1>2. CASE Record
  BY <1>2 DEF Record
<1>3. CASE ~CloseAtZero /\ ~Record
  BY <1>3 DEF Next, Job, Select, CheckStanding, CheckSuspension, PlanNetting,
     StripeAccepts, StripeReplays, StripeRefusesKey, TransactionFails, Fault, Mature,
     DisputeOpens, RefundFindsItPaid, RefundFindsItHeld, StandingChanges, vars
<1> QED BY <1>1, <1>2, <1>3

\* At the start there are no applications.
LEMMA TypeInit == Init => TypeInv /\ StampInv
<1> SUFFICES ASSUME Init PROVE TypeInv /\ StampInv
  OBVIOUS
<1>1. TypeOK
  BY ShapeInit, MoneyAssumption DEF Init, TypeOK, Idle
<1>2. StageInv /\ StampInv
  BY DEF Init, StageInv, StampInv, Idle
<1>3. Sized
  BY FS_EmptySet DEF Init, Sized, Idle
<1> QED BY <1>1, <1>2, <1>3 DEF TypeInv

\* What a run carries keeps its type.
LEMMA RunTyped ==
  ASSUME TypeInv, [Next]_vars
  PROVE  /\ run'.plan \subseteq Application /\ IsFiniteSet(run'.plan)
         /\ \A a \in run'.plan : a.amount \in Nat \ {0}
         /\ run'.sum \in Nat
         /\ StageInv'
<1> USE DEF TypeInv
<1>1. CASE run'.plan = {} /\ run'.sum = 0 /\ run'.pc \notin {"close", "call", "record"}
  BY <1>1, FS_EmptySet DEF StageInv
<1>2. CASE Select
  BY <1>1, <1>2 DEF Select, Idle
<1>3. CASE run' = Idle
  BY <1>1, <1>3 DEF Idle
<1>4. CASE PlanNetting
  <2> DEFINE plan == Plan(Open, Remaining, run.set, worth)
             sum  == PlanSum(plan, run.set, worth)
  <2>1. /\ IsFiniteSet(plan)
        /\ \A a \in plan : a \in Application /\ a.amount \in Nat \ {0}
        /\ sum \in Nat
    BY PlanMade
  <2>2. run' = [run EXCEPT !.pc = IF sum = 0 THEN "close" ELSE "call", !.plan = plan,
                           !.sum = sum]
    BY <1>4 DEF PlanNetting
  <2> HIDE DEF plan, sum
  <2>3. run'.plan = plan /\ run'.sum = sum /\ run'.pc = IF sum = 0 THEN "close" ELSE "call"
    BY <2>2 DEF TypeOK, ShapeOK, IsRun
  <2> QED BY <2>1, <2>3 DEF StageInv
<1>5. CASE /\ run'.set = run.set /\ run'.plan = run.plan /\ run'.sum = run.sum
           /\ \/ run'.pc = run.pc
              \/ run'.pc \in {"suspension", "plan"}
                 /\ run.pc \notin {"close", "call", "record"}
              \/ run'.pc = "record" /\ run.pc = "call"
  BY <1>5 DEF TypeOK, Sized, StageInv
<1> QED BY <1>2, <1>3, <1>4, <1>5, RunMoves DEF TypeOK

\* So do the applications, and what the credits are worth.
LEMMA ApplicationsTyped ==
  ASSUME TypeInv, StampInv, [Next]_vars
  PROVE  /\ worth' \in [Credits -> Int]
         /\ applications' \subseteq Application /\ IsFiniteSet(applications')
         /\ \A a \in applications' : a.amount \in Nat \ {0}
<1> USE DEF TypeInv
<1>1. ASSUME applications' \subseteq applications \cup run.plan, worth' = worth
      PROVE  /\ worth' \in [Credits -> Int]
             /\ applications' \subseteq Application /\ IsFiniteSet(applications')
             /\ \A a \in applications' : a.amount \in Nat \ {0}
  <2>1. IsFiniteSet(applications \cup run.plan)
    BY FS_Union DEF Sized
  <2> QED BY <1>1, <2>1, FS_Subset DEF TypeOK, Sized
<1>2. CASE applications' = applications /\ worth' = worth
  BY <1>1, <1>2
<1>3. CASE applications' = WithPlan /\ worth' = worth
  BY <1>1, <1>3 DEF WithPlan
<1>4. ASSUME NEW c \in Sales, RefundDeletes(c)
      PROVE  applications' \subseteq applications \cup run.plan /\ worth' = worth
  BY <1>4 DEF RefundDeletes
<1>5. ASSUME NEW n \in Disputes, DisputeWon(n)
      PROVE  /\ worth' \in [Credits -> Int]
             /\ applications' \subseteq Application /\ IsFiniteSet(applications')
             /\ \A a \in applications' : a.amount \in Nat \ {0}
  <2>1. worth' \in [Credits -> Int]
    <3>1. Recovered(n) \in Int
      BY RecoveredType
    <3> QED BY <1>5, <3>1 DEF DisputeWon, TypeOK
  <2>2. n \in Nettings /\ netting[n] = "open"
        /\ applications' = (applications \ Live(n))
                              \cup {[a EXCEPT !.reversed = TRUE] : a \in Live(n)}
    BY <1>5, IdsAssumption DEF DisputeWon
  <2> DEFINE h == Stamp(n)
  <2>3. /\ applications' = {h[a] : a \in applications}
        /\ \A a, b \in applications : h[a] = h[b] => a = b
        /\ \A a \in applications : h[a] \in Application /\ h[a].amount = a.amount
    BY <2>2, Stamped
  <2> HIDE DEF h
  <2>4. IsFiniteSet(applications')
    BY <2>3, FiniteRenamed DEF Sized
  <2> QED BY <2>1, <2>3, <2>4 DEF Sized
<1> QED BY <1>1, <1>2, <1>3, <1>4, <1>5, ApplicationsWritten

\* The types, amounts included, are inductive.
LEMMA TypeStep ==
  ASSUME TypeInv, StampInv, RunInv, [Next]_vars
  PROVE  TypeInv'
<1> USE DEF TypeInv
<1>1. ShapeOK'
  BY ShapeStep DEF TypeOK
<1>2. transfers' \subseteq Row
  <2> SUFFICES ASSUME NEW t \in transfers', t \notin transfers PROVE t \in Row
    BY DEF TypeOK
  <2>1. PICK via \in {"stripe", "local"}, amount \in Int :
             t = [set |-> run.set, via |-> via, amount |-> amount]
    BY RowsWritten, RowWritten DEF TypeOK
  <2> QED BY <2>1 DEF Row, TypeOK, ShapeOK, IsRun
<1>3. stripe' \subseteq [set : SUBSET Credits, amount : Nat \ {0}]
  <2>1. CASE StripeAccepts
    BY <2>1 DEF StripeAccepts, TypeOK, ShapeOK, IsRun, StageInv
  <2>2. CASE ~StripeAccepts
    <3>1. stripe' = stripe
      BY <2>2 DEF Next, Job, Select, CheckStanding, CheckSuspension, PlanNetting,
         CloseAtZero, StripeReplays, StripeRefusesKey, Record, TransactionFails, Fault,
         Mature, DisputeOpens, DisputeWon, RefundFindsItPaid, RefundFindsItHeld,
         RefundDeletes, StandingChanges, vars
    <3> QED BY <3>1 DEF TypeOK
  <2> QED BY <2>1, <2>2
<1> QED BY <1>1, <1>2, <1>3, RunTyped, ApplicationsTyped DEF TypeOK, Sized

\* Rows are stamped with their netting alone.
LEMMA StampStep ==
  ASSUME TypeInv, StampInv, [Next]_vars
  PROVE  StampInv'
<1> USE DEF TypeInv
<1>1. \A n \in Nettings : netting'[n] = "reversed" => n \in Disputes
  <2>1. ASSUME NEW n \in Disputes, DisputeOpens(n) \/ DisputeWon(n)
        PROVE  \A m \in Nettings : netting'[m] = "reversed" => m \in Disputes
    BY <2>1 DEF DisputeOpens, DisputeWon, StampInv, TypeOK, ShapeOK
  <2>2. ASSUME NEW c \in Sales, RefundFindsItPaid(c)
        PROVE  \A m \in Nettings : netting'[m] = "reversed" => m \in Disputes
    BY <2>2 DEF RefundFindsItPaid, StampInv, TypeOK, ShapeOK
  <2>3. \/ netting' = netting
        \/ \E n \in Disputes : DisputeOpens(n) \/ DisputeWon(n)
        \/ \E c \in Sales : RefundFindsItPaid(c)
    BY DEF Next, Job, Select, CheckStanding, CheckSuspension, PlanNetting, CloseAtZero,
       StripeAccepts, StripeReplays, StripeRefusesKey, Record, TransactionFails, Fault,
       Mature, RefundFindsItHeld, RefundDeletes, StandingChanges, vars, database
  <2> QED BY <2>1, <2>2, <2>3 DEF StampInv
\* A netting once reversed stays reversed.
<1>2. \A n \in Nettings : netting[n] = "reversed" => netting'[n] = "reversed"
  <2>1. ASSUME NEW n \in Disputes, DisputeOpens(n) \/ DisputeWon(n)
        PROVE  \A m \in Nettings : netting[m] = "reversed" => netting'[m] = "reversed"
    BY <2>1 DEF DisputeOpens, DisputeWon, TypeOK, ShapeOK
  <2>2. ASSUME NEW c \in Sales, RefundFindsItPaid(c)
        PROVE  \A m \in Nettings : netting[m] = "reversed" => netting'[m] = "reversed"
    <3>1. RefundOf[c] \in Nettings \ Disputes
      BY LinksAssumption
    <3> QED BY <2>2, <3>1 DEF RefundFindsItPaid, StampInv, TypeOK, ShapeOK
  <2>3. \/ netting' = netting
        \/ \E n \in Disputes : DisputeOpens(n) \/ DisputeWon(n)
        \/ \E c \in Sales : RefundFindsItPaid(c)
    BY DEF Next, Job, Select, CheckStanding, CheckSuspension, PlanNetting, CloseAtZero,
       StripeAccepts, StripeReplays, StripeRefusesKey, Record, TransactionFails, Fault,
       Mature, RefundFindsItHeld, RefundDeletes, StandingChanges, vars, database
  <2> QED BY <2>1, <2>2, <2>3
<1>3. \A a \in applications' : a.reversed => netting'[a.netting] = "reversed"
  <2>1. ASSUME applications' \subseteq applications \cup run.plan
        PROVE  \A a \in applications' : a.reversed => netting'[a.netting] = "reversed"
    BY <1>2, <2>1 DEF StampInv, TypeOK, ShapeOK, IsApplication
  <2>2. ASSUME NEW n \in Disputes, DisputeWon(n)
        PROVE  \A a \in applications' : a.reversed => netting'[a.netting] = "reversed"
    <3> DEFINE h == Stamp(n)
    <3>1. n \in Nettings /\ netting'[n] = "reversed"
      BY <2>2, IdsAssumption DEF DisputeWon, TypeOK, ShapeOK
    <3>2. /\ applications' = {h[b] : b \in applications}
          /\ \A b \in applications :
                h[b].netting = b.netting /\ h[b].reversed = (b.reversed \/ b.netting = n)
      BY <2>2, <3>1, Stamped DEF DisputeWon
    <3> HIDE DEF h
    <3>3. ASSUME NEW b \in applications, b.reversed \/ b.netting = n
          PROVE  netting'[b.netting] = "reversed"
      BY <1>2, <3>1, <3>3 DEF StampInv, TypeOK, ShapeOK, IsApplication
    <3>4. ASSUME NEW b \in applications, h[b].reversed
          PROVE  netting'[h[b].netting] = "reversed"
      <4>1. b.reversed \/ b.netting = n
        BY <3>2, <3>4
      <4>2. netting'[b.netting] = "reversed"
        BY <3>3, <4>1
      <4>3. h[b].netting = b.netting
        BY <3>2
      <4> QED BY <4>2, <4>3
    <3> QED BY <3>2, <3>4
  <2>3. ASSUME NEW c \in Sales, RefundDeletes(c) PROVE applications' \subseteq applications
    BY <2>3 DEF RefundDeletes
  <2> QED BY <2>1, <2>2, <2>3, ApplicationsWritten DEF WithPlan
<1>4. \A a \in run'.plan : ~a.reversed
  <2>1. CASE PlanNetting
    <3> DEFINE plan == Plan(Open, Remaining, run.set, worth)
    <3>1. \A a \in plan : ~a.reversed
      BY PlanMade
    <3>2. run'.plan = plan
      BY <2>1 DEF PlanNetting, TypeOK, ShapeOK, IsRun
    <3> HIDE DEF plan
    <3> QED BY <3>1, <3>2
  <2>2. CASE Select \/ run' = Idle
    <3>1. Select => run'.plan = {}
      BY DEF Select, Idle
    <3>2. run' = Idle => run'.plan = {}
      BY DEF Idle
    <3> QED BY <2>2, <3>1, <3>2
  <2> QED BY <2>1, <2>2, RunMoves DEF StampInv, TypeOK
<1> QED BY <1>1, <1>3, <1>4 DEF StampInv

\* So both always hold.
LEMMA TypesAlways == Spec => [](TypeInv /\ StampInv)
<1>1. (TypeInv /\ StampInv) /\ RunInv /\ [Next]_vars => (TypeInv /\ StampInv)'
  BY TypeStep, StampStep
<1> QED BY <1>1, TypeInit, RunAlways, PTL DEF Spec

\* Every row names rows that exist and every amount is a whole number of cents;
\* Stripe is never asked to move nothing.
THEOREM TypeOKAlways == Spec => []TypeOK
<1> QED BY TypesAlways, PTL DEF TypeInv

-----------------------------------------------------------------------------
(* What is recovered stays within the shares and within the credits.       *)

\* No application names a credit of the run in flight, so its plan lands whole.
LEMMA PlanLands ==
  ASSUME RunInv, NettedWithTheMove
  PROVE  /\ \A a \in applications : a.credit \notin run.set
         /\ \A a \in run.plan : a.credit \in run.set
         /\ WithPlan = applications \cup run.plan
<1>1. \A a \in applications : a.credit \notin run.set
  BY DEF RunInv, NettedWithTheMove, Covering
<1>2. \A a \in run.plan : a.credit \in run.set
  BY DEF RunInv
<1>3. \A a \in run.plan, b \in applications : b.credit # a.credit
  BY <1>1, <1>2
<1>4. WithPlan = applications \cup run.plan
  BY <1>3 DEF WithPlan
<1> QED BY <1>1, <1>2, <1>4

\* Rows that are there add up to a whole number of cents.
LEMMA RowsAdd ==
  ASSUME TypeInv
  PROVE  /\ \A R \in SUBSET applications : IsFiniteSet(R) /\ Amounts(R) \in Nat
         /\ \A R \in SUBSET run.plan : IsFiniteSet(R) /\ Amounts(R) \in Nat
         /\ \A a \in applications \cup run.plan : a.amount \in Nat
<1> USE DEF TypeInv, Sized
<1>1. \A a \in applications \cup run.plan : a.amount \in Nat
  OBVIOUS
<1>2. ASSUME NEW R \in SUBSET applications PROVE IsFiniteSet(R) /\ Amounts(R) \in Nat
  BY <1>1, FS_Subset, AmountsPart
<1>3. ASSUME NEW R \in SUBSET run.plan PROVE IsFiniteSet(R) /\ Amounts(R) \in Nat
  BY <1>1, FS_Subset, AmountsPart
<1> QED BY <1>1, <1>2, <1>3

\* Without a plan in flight, the bounds of what is applied are all there is.
LEMMA BoundsWithoutPlan ==
  ASSUME TypeInv
  PROVE  NettingWithinBounds /\ run.plan = {} /\ run.pc \notin {"close", "call", "record"}
            => PlanInv
<1> SUFFICES ASSUME NettingWithinBounds, run.plan = {},
                    run.pc \notin {"close", "call", "record"}
             PROVE  PlanInv
  OBVIOUS
<1>1. \A n \in Nettings : Recovered(n) + Amounts({a \in run.plan : a.netting = n}) <= Share[n]
  <2> SUFFICES ASSUME NEW n \in Nettings
               PROVE  Recovered(n) + Amounts({a \in run.plan : a.netting = n}) <= Share[n]
    OBVIOUS
  <2>1. {a \in run.plan : a.netting = n} = {}
    OBVIOUS
  <2>2. Recovered(n) \in Nat /\ Recovered(n) <= Share[n]
    BY RecoveredType DEF TypeInv, NettingWithinBounds
  <2>3. Amounts({a \in run.plan : a.netting = n}) = 0
    BY <2>1, NoAmounts
  <2> QED BY <2>2, <2>3
<1>2. \A c \in run.set : Amounts({a \in run.plan : a.credit = c}) <= Positive(worth[c])
  <2> SUFFICES ASSUME NEW c \in run.set
               PROVE  Amounts({a \in run.plan : a.credit = c}) <= Positive(worth[c])
    OBVIOUS
  <2>1. {a \in run.plan : a.credit = c} = {}
    OBVIOUS
  <2>2. Amounts({a \in run.plan : a.credit = c}) = 0
    BY <2>1, NoAmounts
  <2>3. worth[c] \in Int
    BY DEF TypeInv, TypeOK, ShapeOK, IsRun
  <2> QED BY <2>2, <2>3 DEF Positive
<1> QED BY <1>1, <1>2 DEF PlanInv

\* The same of the state a step leads to.
LEMMA BoundsWithoutPlanNext ==
  (TypeInv /\ NettingWithinBounds /\ run.plan = {}
     /\ run.pc \notin {"close", "call", "record"} => PlanInv)'
<1>1. TypeInv /\ NettingWithinBounds /\ run.plan = {}
        /\ run.pc \notin {"close", "call", "record"} => PlanInv
  BY BoundsWithoutPlan
<1> QED BY <1>1, PTL

\* Nothing more is recovered when applications only go away.
LEMMA BoundsShrink ==
  ASSUME TypeInv, NettingWithinBounds, applications' \subseteq applications, worth' = worth
  PROVE  /\ NettingWithinBounds'
         /\ \A n : Recovered(n)' \in Nat /\ Recovered(n)' <= Recovered(n)
<1>1. IsFiniteSet(applications) /\ \A a \in applications : a.amount \in Nat
  BY DEF TypeInv, Sized
<1>2. ASSUME NEW A \in SUBSET applications, NEW R \in SUBSET A
      PROVE  Amounts(R) \in Nat /\ Amounts(A) \in Nat /\ Amounts(R) <= Amounts(A)
  <2>1. IsFiniteSet(A) /\ \A a \in A : a.amount \in Nat
    BY <1>1, FS_Subset
  <2>2. A \in SUBSET A
    OBVIOUS
  <2> QED BY <2>1, <2>2, AmountsPart
<1>3. ASSUME NEW n PROVE Recovered(n)' \in Nat /\ Recovered(n)' <= Recovered(n)
  <2>1. Live(n)' \subseteq Live(n) /\ Live(n) \subseteq applications
    BY DEF Live
  <2> QED BY <1>2, <2>1 DEF Recovered
<1>4. \A n \in Nettings : Recovered(n)' <= Share[n]
  <2> SUFFICES ASSUME NEW n \in Nettings PROVE Recovered(n)' <= Share[n]
    OBVIOUS
  <2>1. Recovered(n)' \in Nat /\ Recovered(n)' <= Recovered(n) /\ Recovered(n) <= Share[n]
    BY <1>3 DEF NettingWithinBounds
  <2>2. Recovered(n) \in Nat /\ Share[n] \in Nat
    BY RecoveredType, MoneyAssumption DEF TypeInv
  <2> QED BY <2>1, <2>2
<1>5. \A c \in Credits : Amounts({a \in applications' : a.credit = c}) <= Positive(worth'[c])
  <2> SUFFICES ASSUME NEW c \in Credits
               PROVE  Amounts({a \in applications' : a.credit = c}) <= Positive(worth[c])
    OBVIOUS
  <2> DEFINE old == {a \in applications : a.credit = c}
             new == {a \in applications' : a.credit = c}
  <2>1. new \subseteq old /\ old \subseteq applications
    OBVIOUS
  <2>2. Amounts(old) <= Positive(worth[c]) /\ Positive(worth[c]) \in Int
    BY DEF NettingWithinBounds, Positive, TypeInv, TypeOK
  <2> HIDE DEF old, new
  <2>3. Amounts(new) \in Nat /\ Amounts(old) \in Nat /\ Amounts(new) <= Amounts(old)
    BY <1>2, <2>1
  <2>4. Amounts(new) <= Positive(worth[c])
    BY <2>2, <2>3
  <2> QED BY <2>4 DEF new
<1> QED BY <1>3, <1>4, <1>5 DEF NettingWithinBounds

\* The plan that is made takes what is left, and no more.
LEMMA BoundsPlanned ==
  ASSUME TypeInv, NettingWithinBounds, PlanNetting
  PROVE  PlanInv'
<1> DEFINE plan == Plan(Open, Remaining, run.set, worth)
           sum  == PlanSum(plan, run.set, worth)
<1>1. /\ IsFiniteSet(plan)
      /\ \A a \in plan : /\ a.netting \in Open
                         /\ a.amount \in Nat \ {0}
  BY PlanMade DEF TypeInv
<1>2. Line(Remaining, Open) /\ Line(worth, run.set)
  BY Lines DEF TypeInv
<1>3. /\ run'.plan = plan /\ run'.sum = sum /\ run'.set = run.set
      /\ worth' = worth /\ applications' = applications
  BY DEF PlanNetting, TypeInv, TypeOK, ShapeOK, IsRun, database
<1>4. ASSUME NEW n \in Nettings
      PROVE  Recovered(n) + Amounts({a \in plan : a.netting = n}) <= Share[n]
  <2>1. Recovered(n) \in Nat /\ Share[n] \in Nat /\ Recovered(n) <= Share[n]
    BY RecoveredType, MoneyAssumption DEF TypeInv, NettingWithinBounds
  <2>2. CASE n \in Open
    <3>1. Amounts({a \in plan : a.netting = n}) <= Positive(Remaining[n])
      BY <1>2, <2>2, PlanOfNetting
    <3>2. Positive(Remaining[n]) = Share[n] - Recovered(n)
      BY <2>1, <2>2 DEF Open, Remaining, Positive
    <3>3. Amounts({a \in plan : a.netting = n}) \in Nat
      <4> HIDE DEF plan
      <4>1. \A a \in plan : a.amount \in Nat
        BY <1>1
      <4> QED BY <1>1, <4>1, AmountsPart
    <3> HIDE DEF plan
    <3> QED BY <2>1, <3>1, <3>2, <3>3
  <2>3. CASE n \notin Open
    <3> HIDE DEF plan
    <3>1. {a \in plan : a.netting = n} = {}
      BY <1>1, <2>3
    <3>2. Amounts({a \in plan : a.netting = n}) = 0
      BY <3>1, NoAmounts
    <3> QED BY <2>1, <3>2
  <2> QED BY <2>2, <2>3
<1>5. \A c \in run.set : Amounts({a \in plan : a.credit = c}) <= Positive(worth[c])
  BY <1>2, PlanOfCredit
<1>6. (\A c \in run.set : worth[c] >= 0) => Amounts(plan) <= Total(worth, run.set)
  BY <1>2, PlanWithinSet
<1> HIDE DEF plan
<1>7. \A n \in Nettings : Recovered(n)' = Recovered(n)
  BY <1>3 DEF Recovered, Live
<1> QED BY <1>3, <1>4, <1>5, <1>6, <1>7 DEF PlanInv, sum

\* The plan that lands turns what it would take into what is applied.
LEMMA BoundsLand ==
  ASSUME TypeInv, StampInv, RunInv, NettedWithTheMove, PlanInv, NettingWithinBounds,
         applications' = WithPlan, worth' = worth
  PROVE  NettingWithinBounds'
<1>1. /\ \A a \in applications : a.credit \notin run.set
      /\ \A a \in run.plan : a.credit \in run.set
      /\ applications' = applications \cup run.plan
  BY PlanLands
<1>2. /\ IsFiniteSet(applications) /\ IsFiniteSet(run.plan)
      /\ \A a \in applications \cup run.plan : a.amount \in Int
  BY DEF TypeInv, Sized
<1>3. ASSUME NEW n \in Nettings PROVE Recovered(n)' <= Share[n]
  <2> DEFINE taken == {a \in run.plan : a.netting = n}
  <2>1. Live(n)' = Live(n) \cup taken
    BY <1>1 DEF Live, StampInv
  <2>2. IsFiniteSet(Live(n)) /\ IsFiniteSet(taken) /\ Live(n) \cap taken = {}
    BY <1>1, <1>2, FS_Subset DEF Live
  <2>3. \A a \in Live(n) \cup taken : a.amount \in Int
    BY <1>2 DEF Live
  <2> HIDE DEF taken
  <2>4. Amounts(Live(n) \cup taken) = Amounts(Live(n)) + Amounts(taken)
    BY <2>2, <2>3, AmountsUnion
  <2>5. Recovered(n)' = Recovered(n) + Amounts(taken)
    BY <2>1, <2>4 DEF Recovered
  <2> QED BY <2>5 DEF PlanInv, taken
<1>4. ASSUME NEW c \in Credits
      PROVE  Amounts({a \in applications' : a.credit = c}) <= Positive(worth[c])
  <2>1. CASE c \in run.set
    <3>1. {a \in applications' : a.credit = c} = {a \in run.plan : a.credit = c}
      BY <1>1, <2>1
    <3> QED BY <2>1, <3>1 DEF PlanInv
  <2>2. CASE c \notin run.set
    <3>1. {a \in applications' : a.credit = c} = {a \in applications : a.credit = c}
      BY <1>1, <2>2
    <3> QED BY <3>1 DEF NettingWithinBounds
  <2> QED BY <2>1, <2>2
<1> QED BY <1>3, <1>4 DEF NettingWithinBounds

\* What stamping does to the sums: what n recovered is given back, and the rows
\* keep adding up to the same, whichever credits or netting they are taken by.
LEMMA StampedSums ==
  ASSUME TypeInv, StampInv, NEW n \in Nettings, netting[n] = "open",
         applications' = (applications \ Live(n))
                            \cup {[a EXCEPT !.reversed = TRUE] : a \in Live(n)}
  PROVE  /\ \A m : Live(m)' = IF m = n THEN {} ELSE Live(m)
         /\ \A X : Amounts({a \in applications' : a.credit \in X})
                      = Amounts({a \in applications : a.credit \in X})
         /\ \A m : Amounts({a \in applications' : a.netting = m})
                      = Amounts({a \in applications : a.netting = m})
<1> DEFINE h == Stamp(n)
<1>1. /\ applications' = {h[a] : a \in applications}
      /\ \A a, b \in applications : h[a] = h[b] => a = b
      /\ \A a \in applications :
            /\ h[a].netting = a.netting /\ h[a].credit = a.credit
            /\ h[a].amount = a.amount
            /\ h[a].reversed = (a.reversed \/ a.netting = n)
  BY Stamped DEF TypeInv
<1>2. \A a \in applications : a.netting # n => h[a] = a
  BY DEF Stamp, Live
<1> HIDE DEF h
<1>3. ASSUME NEW R \in SUBSET applications PROVE Amounts({h[a] : a \in R}) = Amounts(R)
  <2>1. IsFiniteSet(R) /\ \A a \in R : a.amount \in Int
    BY FS_Subset DEF TypeInv, Sized
  <2>2. (\A a \in R : h[a].amount = a.amount) /\ \A a, b \in R : h[a] = h[b] => a = b
    BY <1>1
  <2> QED BY <2>1, <2>2, AmountsRenamed
<1>4. ASSUME NEW m PROVE Live(m)' = IF m = n THEN {} ELSE Live(m)
  <2>1. ASSUME NEW a \in applications
        PROVE  h[a].netting = m /\ ~h[a].reversed <=> a.netting = m /\ ~a.reversed /\ m # n
    <3>1. h[a].netting = a.netting /\ h[a].reversed = (a.reversed \/ a.netting = n)
      BY <1>1
    <3>2. ~h[a].reversed <=> ~(a.reversed \/ a.netting = n)
      BY <3>1, Zenon
    <3> QED BY <3>1, <3>2
  <2>2. ASSUME NEW a \in applications, a.netting = m, m # n PROVE h[a] = a
    BY <1>2, <2>2
  <2>3. Live(m)' = {b \in {h[a] : a \in applications} : b.netting = m /\ ~b.reversed}
    BY <1>1 DEF Live
  <2> QED BY <2>1, <2>2, <2>3 DEF Live
<1>5. ASSUME NEW X
      PROVE  Amounts({a \in applications' : a.credit \in X})
                = Amounts({a \in applications : a.credit \in X})
  <2> DEFINE R == {a \in applications : a.credit \in X}
  <2>1. {a \in applications' : a.credit \in X} = {h[a] : a \in R}
    BY <1>1
  <2>2. R \in SUBSET applications
    OBVIOUS
  <2> HIDE DEF R
  <2>3. Amounts({h[a] : a \in R}) = Amounts(R)
    BY <1>3, <2>2
  <2> QED BY <2>1, <2>3 DEF R
<1>6. ASSUME NEW m
      PROVE  Amounts({a \in applications' : a.netting = m})
                = Amounts({a \in applications : a.netting = m})
  <2> DEFINE R == {a \in applications : a.netting = m}
  <2>1. {a \in applications' : a.netting = m} = {h[a] : a \in R}
    BY <1>1
  <2>2. R \in SUBSET applications
    OBVIOUS
  <2> HIDE DEF R
  <2>3. Amounts({h[a] : a \in R}) = Amounts(R)
    BY <1>3, <2>2
  <2> QED BY <2>1, <2>3 DEF R
<1> QED BY <1>4, <1>5, <1>6

\* A won dispute writes what only its compensation is worth, which no run, no row
\* and no application has in hand.
LEMMA WonWrites ==
  ASSUME TypeInv, RunInv, NettedWithTheMove, CompensationInv,
         NEW n \in Disputes, DisputeWon(n)
  PROVE  LET own == CompensationOf[n] IN
         /\ own \in Credits \ Sales /\ credit[own] = "absent"
         /\ own \notin run.set
         /\ \A t \in transfers : own \notin t.set
         /\ \A a \in applications : a.credit # own
         /\ worth' \in [Credits -> Int] /\ worth'[own] = Recovered(n)
         /\ \A c \in Credits : c # own => worth'[c] = worth[c] /\ credit'[c] = credit[c]
<1> DEFINE own == CompensationOf[n]
<1>1. own \in Credits \ Sales
  BY LinksAssumption
<1>2. credit[own] = "absent"
  BY DEF DisputeWon, CompensationInv
<1>3. own \notin run.set /\ \A t \in transfers : own \notin t.set
  BY <1>2 DEF CompensationInv
<1>4. \A a \in applications : a.credit # own
  BY <1>3 DEF NettedWithTheMove, Covering
<1>5. Recovered(n) \in Int
  BY RecoveredType DEF TypeInv
<1>6. worth' = [worth EXCEPT ![own] = Recovered(n)]
      /\ credit' = [credit EXCEPT ![own] = IF Recovered(n) > 0 THEN "held" ELSE @]
  BY DEF DisputeWon
<1> HIDE DEF own
<1>7. /\ worth' \in [Credits -> Int] /\ worth'[own] = Recovered(n)
      /\ \A c \in Credits : c # own => worth'[c] = worth[c] /\ credit'[c] = credit[c]
  BY <1>1, <1>5, <1>6 DEF TypeInv, TypeOK, ShapeOK
<1> QED BY <1>1, <1>2, <1>3, <1>4, <1>7 DEF own

\* A won dispute gives back what its netting took, so what is taken only shrinks.
LEMMA BoundsWon ==
  ASSUME TypeInv, StampInv, RunInv, NettedWithTheMove, CompensationInv, PlanInv,
         NettingWithinBounds, NEW n \in Disputes, DisputeWon(n)
  PROVE  PlanInv' /\ NettingWithinBounds'
<1> DEFINE own == CompensationOf[n]
<1>1. /\ own \in Credits /\ own \notin run.set
      /\ \A a \in applications : a.credit # own
      /\ worth' \in [Credits -> Int]
      /\ \A c \in Credits : c # own => worth'[c] = worth[c]
  BY WonWrites
<1> HIDE DEF own
<1>2. n \in Nettings /\ netting[n] = "open" /\ run' = run
      /\ applications' = (applications \ Live(n))
                            \cup {[a EXCEPT !.reversed = TRUE] : a \in Live(n)}
  BY IdsAssumption DEF DisputeWon
<1>3. /\ \A m : Live(m)' = IF m = n THEN {} ELSE Live(m)
      /\ \A X : Amounts({a \in applications' : a.credit \in X})
                   = Amounts({a \in applications : a.credit \in X})
  BY <1>2, StampedSums
<1>4. ASSUME NEW m PROVE Recovered(m)' \in Nat /\ Recovered(m)' <= Recovered(m)
  <2>1. Recovered(m) \in Nat
    BY RecoveredType DEF TypeInv
  <2>2. CASE m = n
    <3>1. Recovered(m)' = 0
      BY <1>3, <2>2, NoAmounts DEF Recovered
    <3> QED BY <2>1, <3>1
  <2>3. CASE m # n
    BY <1>3, <2>1, <2>3 DEF Recovered
  <2> QED BY <2>2, <2>3
<1>5. ASSUME NEW m \in Nettings
      PROVE  /\ Recovered(m)' <= Share[m]
             /\ Recovered(m)' + Amounts({a \in run.plan : a.netting = m}) <= Share[m]
  <2> DEFINE taken == Amounts({a \in run.plan : a.netting = m})
  <2>1. Recovered(m) + taken <= Share[m]
    BY DEF PlanInv
  <2>2. taken \in Nat
    BY RowsAdd
  <2>3. Recovered(m)' \in Nat /\ Recovered(m)' <= Recovered(m) /\ Recovered(m) \in Nat
        /\ Share[m] \in Nat
    BY <1>4, RecoveredType, MoneyAssumption DEF TypeInv
  <2> HIDE DEF taken
  <2>4. Recovered(m)' <= Share[m] /\ Recovered(m)' + taken <= Share[m]
    BY <2>1, <2>2, <2>3
  <2> QED BY <2>4 DEF taken
<1>6. ASSUME NEW c \in Credits
      PROVE  Amounts({a \in applications' : a.credit = c}) <= Positive(worth'[c])
  <2>1. {a \in applications' : a.credit = c} = {a \in applications' : a.credit \in {c}}
        /\ {a \in applications : a.credit = c} = {a \in applications : a.credit \in {c}}
    OBVIOUS
  <2>2. Amounts({a \in applications' : a.credit = c})
           = Amounts({a \in applications : a.credit = c})
    BY <1>3, <2>1
  <2>3. CASE c = own
    <3>1. {a \in applications : a.credit = c} = {}
      BY <1>1, <2>3
    <3>2. Amounts({a \in applications' : a.credit = c}) = 0
      BY <2>2, <3>1, NoAmounts
    <3>3. worth'[c] \in Int
      BY <1>1
    <3> QED BY <3>2, <3>3 DEF Positive
  <2>4. CASE c # own
    BY <1>1, <2>2, <2>4 DEF NettingWithinBounds
  <2> QED BY <2>3, <2>4
<1>7. \A c \in run.set : worth'[c] = worth[c] /\ worth[c] \in Int
  BY <1>1 DEF TypeInv, TypeOK, ShapeOK, IsRun
<1>8. Total(worth', run.set) = Total(worth, run.set)
  <2>1. IsFiniteSet(run.set)
    BY IdsAssumption, FS_Subset DEF TypeInv, TypeOK, ShapeOK, IsRun
  <2> QED BY <1>7, <2>1, SumAgrees
<1>9. PlanInv'
  BY <1>2, <1>5, <1>7, <1>8 DEF PlanInv, PlanSum
<1> QED BY <1>5, <1>6, <1>9 DEF NettingWithinBounds

\* What holds of the amounts: what is applied, and what a plan in flight would add.
BoundInv == PlanInv /\ NettingWithinBounds

\* What is applied and what a plan would add stay within the bounds, action by action.
LEMMA BoundStep ==
  ASSUME TypeInv, StampInv, RunInv, NettedWithTheMove, CompensationInv, BoundInv,
         [Next]_vars, TypeInv'
  PROVE  BoundInv'
<1> USE DEF BoundInv
<1>idle. ASSUME NettingWithinBounds', run'.plan = {},
                run'.pc \notin {"close", "call", "record"}
         PROVE  BoundInv'
  BY <1>idle, BoundsWithoutPlanNext
<1>kept. ASSUME applications' \subseteq applications, worth' = worth,
                run'.set = run.set, run'.plan = run.plan, run'.sum = run.sum,
                \/ run'.pc = run.pc
                \/ run'.pc \in {"suspension", "plan"}
                   /\ run.pc \notin {"close", "call", "record"}
                \/ run'.pc = "record" /\ run.pc = "call"
         PROVE  BoundInv'
  <2>1. /\ NettingWithinBounds'
        /\ \A n : Recovered(n)' \in Nat /\ Recovered(n)' <= Recovered(n)
    BY <1>kept, BoundsShrink
  <2>2. ASSUME NEW n \in Nettings
        PROVE  Recovered(n)' + Amounts({a \in run.plan : a.netting = n}) <= Share[n]
    <3>1. Amounts({a \in run.plan : a.netting = n}) \in Nat
      BY RowsAdd
    <3>2. Recovered(n) + Amounts({a \in run.plan : a.netting = n}) <= Share[n]
      BY DEF PlanInv
    <3>3. Recovered(n) \in Nat /\ Share[n] \in Nat
      BY RecoveredType, MoneyAssumption DEF TypeInv
    <3>4. Recovered(n)' \in Nat /\ Recovered(n)' <= Recovered(n)
      BY <2>1
    <3> QED BY <3>1, <3>2, <3>3, <3>4
  <2>3. PlanInv'
    BY <1>kept, <2>2 DEF PlanInv
  <2> QED BY <2>1, <2>3
<1>1. CASE applications' = applications /\ worth' = worth
  <2>1. NettingWithinBounds'
    BY <1>1, BoundsShrink
  <2>2. CASE Select
    <3>1. run'.plan = {} /\ run'.pc = "standing"
      BY <2>2 DEF Select, Idle
    <3> QED BY <2>1, <3>1, <1>idle
  <2>3. CASE run' = Idle
    <3>1. run'.plan = {} /\ run'.pc = "idle"
      BY <2>3 DEF Idle
    <3> QED BY <2>1, <3>1, <1>idle
  <2>4. CASE PlanNetting
    BY <2>1, <2>4, BoundsPlanned
  <2> QED BY <1>1, <2>2, <2>3, <2>4, <1>kept, RunMoves DEF TypeInv, TypeOK
<1>2. CASE (CloseAtZero \/ Record) /\ applications' = WithPlan /\ worth' = worth
  <2>1. run' = Idle
    BY <1>2 DEF CloseAtZero, Record
  <2>2. NettingWithinBounds'
    BY <1>2, BoundsLand
  <2>3. run'.plan = {} /\ run'.pc = "idle"
    BY <2>1 DEF Idle
  <2> QED BY <2>2, <2>3, <1>idle
<1>3. ASSUME NEW n \in Disputes, DisputeWon(n) PROVE BoundInv'
  BY <1>3, BoundsWon
<1>4. ASSUME NEW c \in Sales, RefundDeletes(c) PROVE BoundInv'
  BY <1>4, <1>kept DEF RefundDeletes
<1> QED BY <1>1, <1>2, <1>3, <1>4, ApplicationsWritten

\* So they always do.
LEMMA BoundsAlways == Spec => []BoundInv
<1>1. Init => BoundInv
  <2> SUFFICES ASSUME Init PROVE BoundInv
    OBVIOUS
  <2>1. applications = {} /\ worth = Price /\ run.plan = {} /\ run.pc = "idle"
    BY DEF Init, Idle
  <2>2. \A R \in SUBSET applications : Amounts(R) = 0
    BY <2>1, NoAmounts
  <2>3. \A n \in Nettings : Recovered(n) <= Share[n]
    <3>1. \A n : Live(n) \in SUBSET applications
      BY DEF Live
    <3> QED BY <2>2, <3>1, MoneyAssumption DEF Recovered
  <2>4. \A c \in Credits : Amounts({a \in applications : a.credit = c}) <= Positive(worth[c])
    <3>1. \A c \in Credits : {a \in applications : a.credit = c} \in SUBSET applications
      OBVIOUS
    <3>2. \A c \in Credits : worth[c] \in Int
      BY <2>1, MoneyAssumption
    <3> QED BY <2>2, <3>1, <3>2 DEF Positive
  <2>5. NettingWithinBounds
    BY <2>3, <2>4 DEF NettingWithinBounds
  <2> QED BY <2>1, <2>5, TypeInit, BoundsWithoutPlan DEF BoundInv
<1>2. (TypeInv /\ StampInv) /\ RunInv /\ NettedWithTheMove /\ CompensationInv /\ BoundInv
        /\ [Next]_vars /\ (TypeInv /\ StampInv)' => BoundInv'
  BY BoundStep
<1> QED BY <1>1, <1>2, TypesAlways, RunAlways, NettedWithTheMoveAlways,
           CompensationAlways, PTL DEF Spec

\* No netting recovers more than the share that came back, and no credit gives up
\* more than it is worth, however runs, disputes, refunds and faults interleave.
THEOREM NettingWithinBoundsAlways == Spec => []NettingWithinBounds
<1> QED BY BoundsAlways, PTL DEF BoundInv

-----------------------------------------------------------------------------
(* The books balance.                                                      *)

\* Landing a run writes one new row, for the run's set, and the whole plan with it.
LEMMA Landing ==
  ASSUME TypeInv, RunInv, NettedWithTheMove, CloseAtZero \/ Record
  PROVE  /\ \E via : transfers' = transfers
                        \cup {[set |-> run.set, via |-> via, amount |-> run.sum]}
         /\ applications' = applications \cup run.plan
         /\ worth' = worth /\ credit' = credit
<1>1. run.set # {} /\ \A t \in transfers : t.set \cap run.set = {}
  BY DEF CloseAtZero, Record, RunInv, Idle
<1>2. \A t \in transfers : t.set # run.set
  BY <1>1
<1>3. ASSUME NEW CONSTANT via, NEW STATE amount
      PROVE  /\ WithRow(via, amount)
                  = transfers \cup {[set |-> run.set, via |-> via, amount |-> amount]}
             /\ WithRow(via, amount) # transfers
  <2>1. WithRow(via, amount) = transfers \cup {[set |-> run.set, via |-> via, amount |-> amount]}
    BY <1>2 DEF WithRow
  <2> DEFINE row == [set |-> run.set, via |-> via, amount |-> amount]
  <2>2. row.set = run.set
    OBVIOUS
  <2> HIDE DEF row
  <2>3. row \notin transfers
    BY <1>2, <2>2
  <2> QED BY <2>1, <2>3 DEF row
<1>4. WithPlan = applications \cup run.plan
  BY PlanLands
<1>5. CASE Record
  <2>1. transfers' = WithRow("stripe", run.sum)
    BY <1>5 DEF Record
  <2>2. /\ transfers' = transfers
              \cup {[set |-> run.set, via |-> "stripe", amount |-> run.sum]}
        /\ transfers' # transfers
    BY <1>3, <2>1
  <2> QED BY <1>4, <1>5, <2>2 DEF Record
<1>6. CASE CloseAtZero
  <2>1. transfers' = WithRow("local", 0) /\ run.sum = 0
    BY <1>6 DEF CloseAtZero, TypeInv, StageInv
  <2>2. transfers' = transfers
              \cup {[set |-> run.set, via |-> "local", amount |-> run.sum]}
    BY <1>3, <2>1
  <2> QED BY <1>4, <1>6, <2>2 DEF CloseAtZero
<1> QED BY <1>5, <1>6

\* No deleted credit comes back.
LEMMA DeletedStays ==
  ASSUME ShapeOK, CompensationInv, [Next]_vars, NEW c \in Credits, credit[c] = "deleted"
  PROVE  credit'[c] = "deleted"
<1>1. ASSUME NEW n \in Disputes, DisputeWon(n) PROVE credit'[c] = "deleted"
  <2>1. CompensationOf[n] \in Credits /\ credit[CompensationOf[n]] = "absent"
    BY <1>1, LinksAssumption DEF DisputeWon, CompensationInv
  <2> QED BY <1>1, <2>1 DEF DisputeWon, ShapeOK
<1>2. \/ credit' = credit
      \/ (\E d \in Credits : Mature(d)) \/ (\E d \in Sales : RefundDeletes(d))
      \/ (\E n \in Disputes : DisputeWon(n))
  BY DEF Next, Job, Select, CheckStanding, CheckSuspension, PlanNetting, CloseAtZero,
     StripeAccepts, StripeReplays, StripeRefusesKey, Record, TransactionFails, Fault,
     DisputeOpens, RefundFindsItPaid, RefundFindsItHeld, StandingChanges, vars, database
<1> QED BY <1>1, <1>2 DEF Mature, RefundDeletes, ShapeOK

\* A transfer's row, its coverage and its applications land together, so the books stay
\* balanced.
LEMMA BooksStep ==
  ASSUME TypeInv, StampInv, RunInv, NettedWithTheMove, CompensationInv, BoundInv,
         BooksBalance, [Next]_vars
  PROVE  BooksBalance'
<1>0. ShapeOK /\ (\A t \in transfers : t.set \subseteq Credits) /\ run.set \subseteq Credits
  BY DEF TypeInv, TypeOK, ShapeOK, IsRun
\* A row balances after the step when it did before, and nothing it is made of moved.
<1>kept. ASSUME NEW t \in transfers, \A c \in t.set : worth'[c] = worth[c],
                Amounts({a \in applications' : a.credit \in t.set})
                   = Amounts({a \in applications : a.credit \in t.set}),
                \A c \in t.set : worth'[c] >= 0 /\ credit'[c] # "deleted"
         PROVE  t.amount + Amounts({a \in applications' : a.credit \in t.set})
                    = Total(worth', t.set)
  <2>1. \A c \in t.set : worth[c] >= 0 /\ credit[c] # "deleted"
    BY <1>0, <1>kept, DeletedStays
  <2>2. t.amount + Amounts({a \in applications : a.credit \in t.set}) = Total(worth, t.set)
    BY <2>1 DEF BooksBalance
  <2>3. Total(worth', t.set) = Total(worth, t.set)
    <3>1. \A c \in t.set : worth'[c] \in Int /\ worth'[c] = worth[c]
      BY <1>0, <1>kept DEF TypeInv, TypeOK
    <3>2. IsFiniteSet(t.set)
      BY <1>0, IdsAssumption, FS_Subset
    <3> QED BY <3>1, <3>2, SumAgrees
  <2> QED BY <1>kept, <2>2, <2>3
<1>1. CASE CloseAtZero \/ Record
  <2>1. PICK via : transfers' = transfers
                      \cup {[set |-> run.set, via |-> via, amount |-> run.sum]}
    BY <1>1, Landing
  <2>2. applications' = applications \cup run.plan /\ worth' = worth /\ credit' = credit
    BY <1>1, Landing
  <2>3. /\ \A a \in applications : a.credit \notin run.set
        /\ \A a \in run.plan : a.credit \in run.set
    BY PlanLands
  <2>4. ASSUME NEW t \in transfers, \A c \in t.set : worth'[c] >= 0 /\ credit'[c] # "deleted"
        PROVE  t.amount + Amounts({a \in applications' : a.credit \in t.set})
                   = Total(worth', t.set)
    <3>1. t.set \cap run.set = {}
      BY DEF RunInv
    <3>2. {a \in applications' : a.credit \in t.set}
             = {a \in applications : a.credit \in t.set}
      BY <2>2, <2>3, <3>1
    <3> QED BY <1>kept, <2>2, <2>4, <3>2
  <2>5. ASSUME \A c \in run.set : worth[c] >= 0
        PROVE  run.sum + Amounts({a \in applications' : a.credit \in run.set})
                   = Total(worth, run.set)
    <3>1. {a \in applications' : a.credit \in run.set} = run.plan
      BY <2>2, <2>3
    <3>2. run.sum = Positive(Total(worth, run.set) - Amounts(run.plan))
          /\ Amounts(run.plan) <= Total(worth, run.set)
      BY <1>1, <2>5 DEF CloseAtZero, Record, BoundInv, PlanInv, PlanSum
    <3>3. Amounts(run.plan) \in Nat /\ Total(worth, run.set) \in Int
      <4>1. Amounts(run.plan) \in Nat
        BY RowsAdd
      <4>2. Total(worth, run.set) \in Int
        BY Lines, SumInt DEF TypeInv, Line
      <4> QED BY <4>1, <4>2
    <3>4. run.sum + Amounts(run.plan) = Total(worth, run.set)
      BY <3>2, <3>3 DEF Positive
    <3> QED BY <3>1, <3>4
  <2> DEFINE row == [set |-> run.set, via |-> via, amount |-> run.sum]
  <2>6. row.set = run.set /\ row.amount = run.sum
    OBVIOUS
  <2>7. transfers' = transfers \cup {row}
    BY <2>1
  <2> HIDE DEF row
  <2>8. ASSUME NEW t \in transfers', \A c \in t.set : worth'[c] >= 0 /\ credit'[c] # "deleted"
        PROVE  t.amount + Amounts({a \in applications' : a.credit \in t.set})
                   = Total(worth', t.set)
    <3>1. CASE t \in transfers
      BY <2>4, <2>8, <3>1
    <3>2. CASE t = row
      BY <2>2, <2>5, <2>6, <2>8, <3>2
    <3> QED BY <2>7, <3>1, <3>2
  <2> QED BY <2>8 DEF BooksBalance
<1>2. CASE ~CloseAtZero /\ ~Record
  <2>1. transfers' = transfers
    BY <1>2, RowsWritten
  <2> SUFFICES ASSUME NEW t \in transfers,
                      \A c \in t.set : worth'[c] >= 0 /\ credit'[c] # "deleted"
               PROVE  t.amount + Amounts({a \in applications' : a.credit \in t.set})
                          = Total(worth', t.set)
    BY <2>1 DEF BooksBalance
  <2>2. CASE applications' = applications /\ worth' = worth
    BY <1>kept, <2>2
  <2>3. ASSUME NEW n \in Disputes, DisputeWon(n)
        PROVE  t.amount + Amounts({a \in applications' : a.credit \in t.set})
                   = Total(worth', t.set)
    <3>1. CompensationOf[n] \notin t.set
          /\ \A c \in Credits : c # CompensationOf[n] => worth'[c] = worth[c]
      BY <2>3, WonWrites
    <3>2. \A c \in t.set : worth'[c] = worth[c]
      BY <1>0, <3>1
    <3>3. n \in Nettings /\ netting[n] = "open"
          /\ applications' = (applications \ Live(n))
                                \cup {[a EXCEPT !.reversed = TRUE] : a \in Live(n)}
      BY <2>3, IdsAssumption DEF DisputeWon
    <3>4. Amounts({a \in applications' : a.credit \in t.set})
             = Amounts({a \in applications : a.credit \in t.set})
      BY <3>3, StampedSums
    <3> QED BY <1>kept, <3>2, <3>4
  <2>4. ASSUME NEW c \in Sales, RefundDeletes(c)
        PROVE  t.amount + Amounts({a \in applications' : a.credit \in t.set})
                   = Total(worth', t.set)
    <3>1. credit'[c] = "deleted" /\ worth' = worth
          /\ applications' = {a \in applications : a.credit # c}
      BY <2>4, IdsAssumption DEF RefundDeletes, TypeInv, TypeOK, ShapeOK
    <3>2. c \notin t.set
      BY <3>1
    <3>3. {a \in applications' : a.credit \in t.set}
             = {a \in applications : a.credit \in t.set}
      BY <3>1, <3>2
    <3> QED BY <1>kept, <3>1, <3>3
  <2> QED BY <1>2, <2>2, <2>3, <2>4, ApplicationsWritten
<1> QED BY <1>1, <1>2

\* What a row moved and what was netted from its credits add up to what the credits
\* were worth, for every row without a correction or a deleted credit: no cent of a
\* covered credit is lost between Stripe and the netting ledger.
THEOREM BooksBalanceAlways == Spec => []BooksBalance
<1>1. Init => BooksBalance
  BY DEF Init, BooksBalance
<1>2. (TypeInv /\ StampInv) /\ RunInv /\ NettedWithTheMove /\ CompensationInv /\ BoundInv
        /\ BooksBalance /\ [Next]_vars => BooksBalance'
  BY BooksStep
<1> QED BY <1>1, <1>2, TypesAlways, RunAlways, NettedWithTheMoveAlways,
           CompensationAlways, BoundsAlways, PTL DEF Spec

-----------------------------------------------------------------------------
(* What a won dispute hands back.                                          *)

\* A quiet run plans for open nettings, and they stay open until it has ended.
LEMMA PlanOpenStep ==
  ASSUME Quiet, TypeInv, PlanOpenInv, [Next]_vars
  PROVE  PlanOpenInv'
<1> USE DEF TypeInv
<1>1. CASE Select \/ run' = Idle
  <2>1. Select => run'.plan = {}
    BY DEF Select, Idle
  <2>2. run' = Idle => run'.plan = {}
    BY DEF Idle
  <2>3. run'.plan = {}
    BY <1>1, <2>1, <2>2
  <2> QED BY <2>3 DEF PlanOpenInv
<1>2. CASE PlanNetting
  <2> DEFINE plan == Plan(Open, Remaining, run.set, worth)
  <2>1. \A a \in plan : a.netting \in Open
    BY PlanMade
  <2>2. run'.plan = plan /\ netting' = netting
    BY <1>2 DEF PlanNetting, TypeOK, ShapeOK, IsRun, database
  <2> HIDE DEF plan
  <2>3. \A n \in Open : netting[n] = "open"
    BY DEF Open, Remaining
  <2> QED BY <2>1, <2>2, <2>3 DEF PlanOpenInv
<1>3. CASE run'.plan = run.plan /\ ~Select /\ ~PlanNetting
  <2>1. CASE netting' = netting
    BY <1>3, <2>1 DEF PlanOpenInv
  <2>2. CASE netting' # netting
    <3>1. Undisturbed
      BY <1>3, <2>2 DEF Next, Job, CheckStanding, CheckSuspension, CloseAtZero,
         StripeAccepts, StripeReplays, StripeRefusesKey, Record, TransactionFails, Fault,
         Mature, DisputeOpens, DisputeWon, RefundFindsItPaid, RefundFindsItHeld,
         RefundDeletes, StandingChanges, vars, database, Calm
    <3>2. run.plan = {}
      BY <3>1 DEF Undisturbed, Idle
    <3> QED BY <1>3, <3>2 DEF PlanOpenInv
  <2> QED BY <2>1, <2>2
<1> QED BY <1>1, <1>2, <1>3, RunMoves DEF TypeOK

\* When nothing disturbs a transfer, a plan's nettings are always open.
LEMMA PlanOpenAlways ==
  ASSUME Quiet
  PROVE  Spec => []PlanOpenInv
<1>1. Init => PlanOpenInv
  BY DEF Init, PlanOpenInv, Idle
<1>2. (TypeInv /\ StampInv) /\ PlanOpenInv /\ [Next]_vars => PlanOpenInv'
  BY PlanOpenStep
<1> QED BY <1>1, <1>2, TypesAlways, PTL DEF Spec

\* A netting becomes reversed only as its dispute is won, and only then is its
\* compensation written.
LEMMA WonOnlyByDispute ==
  ASSUME ShapeOK, [Next]_vars, NEW n \in Disputes, ~DisputeWon(n)
  PROVE  /\ netting'[n] = "reversed" => netting[n] = "reversed"
         /\ credit'[CompensationOf[n]] = "absent" <=> credit[CompensationOf[n]] = "absent"
<1> DEFINE own == CompensationOf[n]
<1>0. n \in Nettings /\ own \in Credits \ Sales
  BY IdsAssumption, LinksAssumption
<1>1. ASSUME NEW m \in Disputes, DisputeWon(m)
      PROVE  /\ netting'[n] = "reversed" => netting[n] = "reversed"
             /\ credit'[own] = "absent" <=> credit[own] = "absent"
  <2>1. m # n /\ CompensationOf[m] # own /\ m \in Nettings
    BY <1>1, IdsAssumption, LinksAssumption
  <2> HIDE DEF own
  <2> QED BY <1>0, <1>1, <2>1 DEF DisputeWon, ShapeOK
<1>2. ASSUME NEW m \in Disputes, DisputeOpens(m)
      PROVE  /\ netting'[n] = "reversed" => netting[n] = "reversed"
             /\ credit'[own] = "absent" <=> credit[own] = "absent"
  BY <1>0, <1>2 DEF DisputeOpens, ShapeOK
<1>3. ASSUME NEW c \in Credits, Mature(c)
      PROVE  /\ netting'[n] = "reversed" => netting[n] = "reversed"
             /\ credit'[own] = "absent" <=> credit[own] = "absent"
  BY <1>0, <1>3 DEF Mature, ShapeOK
<1>4. ASSUME NEW c \in Sales, RefundFindsItPaid(c)
      PROVE  /\ netting'[n] = "reversed" => netting[n] = "reversed"
             /\ credit'[own] = "absent" <=> credit[own] = "absent"
  BY <1>0, <1>4 DEF RefundFindsItPaid, ShapeOK
<1>5. ASSUME NEW c \in Sales, RefundDeletes(c)
      PROVE  /\ netting'[n] = "reversed" => netting[n] = "reversed"
             /\ credit'[own] = "absent" <=> credit[own] = "absent"
  <2>1. c # own
    BY <1>0
  <2> HIDE DEF own
  <2> QED BY <1>0, <1>5, <2>1 DEF RefundDeletes, ShapeOK
<1>6. \/ netting' = netting /\ credit' = credit
      \/ \E m \in Disputes : DisputeWon(m) \/ DisputeOpens(m)
      \/ \E c \in Credits : Mature(c)
      \/ \E c \in Sales : RefundFindsItPaid(c) \/ RefundDeletes(c)
  <2>1. Job => netting' = netting /\ credit' = credit
    BY DEF Job, Select, CheckStanding, CheckSuspension, PlanNetting, CloseAtZero,
       StripeAccepts, StripeReplays, StripeRefusesKey, Record, TransactionFails, database
  <2>2. Fault \/ StandingChanges \/ UNCHANGED vars => netting' = netting /\ credit' = credit
    BY DEF Fault, StandingChanges, vars, database
  <2>3. \A c \in Sales : RefundFindsItHeld(c) => netting' = netting /\ credit' = credit
    BY DEF RefundFindsItHeld, database
  <2> QED BY <2>1, <2>2, <2>3 DEF Next
<1> QED BY <1>1, <1>2, <1>3, <1>4, <1>5, <1>6

\* When nothing disturbs a transfer, every row of a won dispute is repaid by its
\* compensation.
LEMMA WonStep ==
  ASSUME Quiet, TypeInv, StampInv, RunInv, NettedWithTheMove, CompensationInv,
         QuietInv, PlanOpenInv, WonDisputeRepays, [Next]_vars
  PROVE  WonDisputeRepays'
<1> SUFFICES ASSUME NEW n \in Disputes, netting'[n] = "reversed"
             PROVE  /\ Live(n)' = {}
                    /\ Amounts({a \in applications' : a.netting = n})
                         = IF credit'[CompensationOf[n]] = "absent" THEN 0
                           ELSE worth'[CompensationOf[n]]
  BY DEF WonDisputeRepays
<1> DEFINE own == CompensationOf[n]
<1>0. n \in Nettings /\ own \in Credits /\ ShapeOK
  BY IdsAssumption, LinksAssumption DEF TypeInv, TypeOK
<1>1. CASE DisputeWon(n)
  <2>1. netting[n] = "open"
        /\ applications' = (applications \ Live(n))
                              \cup {[a EXCEPT !.reversed = TRUE] : a \in Live(n)}
    BY <1>1 DEF DisputeWon
  <2>2. /\ Live(n)' = {}
        /\ Amounts({a \in applications' : a.netting = n})
             = Amounts({a \in applications : a.netting = n})
    BY <1>0, <2>1, StampedSums
  <2>3. {a \in applications : a.netting = n} = Live(n)
    BY <1>0, <2>1 DEF Live, StampInv
  <2>4. credit[own] = "absent" /\ worth'[own] = Recovered(n)
    BY <1>1, WonWrites
  <2>5. credit'[own] = IF Recovered(n) > 0 THEN "held" ELSE "absent"
    BY <1>0, <1>1, <2>4 DEF DisputeWon, ShapeOK
  <2>6. Recovered(n) \in Nat
    BY RecoveredType DEF TypeInv
  <2>7. Amounts({a \in applications' : a.netting = n}) = Recovered(n)
    BY <2>2, <2>3 DEF Recovered
  <2> QED BY <2>2, <2>4, <2>5, <2>6, <2>7
<1>2. CASE ~DisputeWon(n)
  <2>1. netting[n] = "reversed" /\ (credit'[own] = "absent" <=> credit[own] = "absent")
    BY <1>0, <1>2, WonOnlyByDispute
  <2>2. /\ Live(n) = {}
        /\ Amounts({a \in applications : a.netting = n})
             = IF credit[own] = "absent" THEN 0 ELSE worth[own]
    BY <2>1 DEF WonDisputeRepays
  <2>3. ASSUME applications' = applications, worth'[own] = worth[own]
        PROVE  /\ Live(n)' = {}
               /\ Amounts({a \in applications' : a.netting = n})
                    = IF credit'[own] = "absent" THEN 0 ELSE worth'[own]
    BY <2>1, <2>2, <2>3 DEF Live
  <2>4. CASE (CloseAtZero \/ Record) /\ applications' = WithPlan /\ worth' = worth
    <3>1. \A a \in run.plan : a.netting # n
      BY <2>1 DEF PlanOpenInv
    <3>2. {a \in applications' : a.netting = n} = {a \in applications : a.netting = n}
      BY <2>4, <3>1 DEF WithPlan
    <3>3. Live(n)' = Live(n)
      BY <2>4, <3>1 DEF WithPlan, Live
    <3> QED BY <2>1, <2>2, <2>4, <3>2, <3>3
  <2>5. ASSUME NEW m \in Disputes, DisputeWon(m)
        PROVE  /\ Live(n)' = {}
               /\ Amounts({a \in applications' : a.netting = n})
                    = IF credit'[own] = "absent" THEN 0 ELSE worth'[own]
    <3>1. m # n /\ CompensationOf[m] # own
      BY <1>2, <2>5, LinksAssumption
    <3>2. m \in Nettings /\ netting[m] = "open"
          /\ applications' = (applications \ Live(m))
                                \cup {[a EXCEPT !.reversed = TRUE] : a \in Live(m)}
      BY <2>5, IdsAssumption DEF DisputeWon
    <3>3. /\ Live(n)' = Live(n)
          /\ Amounts({a \in applications' : a.netting = n})
               = Amounts({a \in applications : a.netting = n})
      BY <3>1, <3>2, StampedSums
    <3>4. worth'[own] = worth[own]
      BY <1>0, <2>5, <3>1, WonWrites
    <3> HIDE DEF own
    <3> QED BY <2>1, <2>2, <3>3, <3>4
  <2>6. ASSUME NEW c \in Sales, RefundDeletes(c)
        PROVE  applications' = applications /\ worth' = worth
    <3>1. Covering(c) = {}
      BY <2>6 DEF RefundDeletes, QuietInv
    <3>2. \A a \in applications : a.credit # c
      BY <3>1 DEF NettedWithTheMove
    <3> QED BY <2>6, <3>2 DEF RefundDeletes
  <2> QED BY <2>3, <2>4, <2>5, <2>6, ApplicationsWritten
<1> QED BY <1>1, <1>2

\* Quiet: a won dispute hands back exactly what was recovered for it, and nothing is
\* recovered for it afterwards, however often the job ran and died in between.
THEOREM WonDisputeRepaysWhenQuiet ==
  ASSUME Quiet
  PROVE  Spec => []WonDisputeRepays
<1>1. Init => WonDisputeRepays
  BY IdsAssumption DEF Init, WonDisputeRepays
<1>2. (TypeInv /\ StampInv) /\ RunInv /\ NettedWithTheMove /\ CompensationInv /\ QuietInv
        /\ PlanOpenInv /\ WonDisputeRepays /\ [Next]_vars => WonDisputeRepays'
  BY WonStep
<1> QED BY <1>1, <1>2, TypesAlways, RunAlways, NettedWithTheMoveAlways,
           CompensationAlways, QuietAlways, PlanOpenAlways, PTL DEF Spec
=============================================================================
