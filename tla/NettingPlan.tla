----------------------------- MODULE NettingPlan -----------------------------
(***************************************************************************)
(* The recovery plan of services/netting.ts: how a creator's open netting  *)
(* is taken out of a set of held credits.                                  *)
(*                                                                         *)
(* nettingPlanFor walks the open nettings oldest first and, for each, the  *)
(* credits oldest first, taking min(what is left of the credit, what is    *)
(* left of the netting).  Laid end to end on one line, the nettings and    *)
(* the positive credits each cover a stretch of it, and what that walk     *)
(* takes for a pair is the length their two stretches share: Overlap.      *)
(* MCCreatorTransfers compares this closed form with the walk itself.      *)
(*                                                                         *)
(* Amounts are whole cents.  Ids are serial numbers, so "oldest" is "<".   *)
(***************************************************************************)
EXTENDS Integers, FiniteSets, FiniteSetsExt

\* The sum of f over the finite set S.
Total(f, S) == MapThenSumSet(LAMBDA x : f[x], S)

Positive(n) == IF n > 0 THEN n ELSE 0

\* Where the stretch of x starts: the positive values of the elements before it.
Start(f, S, x) == Total([y \in S |-> Positive(f[y])], {y \in S : y < x})

Lesser(a, b) == IF a < b THEN a ELSE b

Greater(a, b) == IF a > b THEN a ELSE b

\* What the walk takes from credit c for netting n, when the nettings N have
\* remaining[_] still to recover and the credits S are worth worth[_].
Overlap(n, c, N, remaining, S, worth) ==
    LET from == Greater(Start(remaining, N, n), Start(worth, S, c))
        to   == Lesser(Start(remaining, N, n) + Positive(remaining[n]),
                       Start(worth, S, c) + Positive(worth[c]))
    IN  Positive(to - from)

\* The plan's application rows.  A set that does not sum to more than zero is
\* never netted.
Plan(N, remaining, S, worth) ==
    {a \in {[netting  |-> n, credit |-> c,
             amount   |-> Overlap(n, c, N, remaining, S, worth),
             reversed |-> FALSE] : n \in N, c \in S} :
        a.amount > 0 /\ Total(worth, S) > 0}

\* The sum of a set of application rows.
Amounts(rows) == Total([a \in rows |-> a.amount], rows)

\* Mutated form of PlanSum: the floor at zero is left out.
PlanSumUnfloored(plan, S, worth) == Total(worth, S) - Amounts(plan)

\* What is left of the set after the plan, floored at zero.
PlanSum(plan, S, worth) ==
    Positive(Total(worth, S) - Amounts(plan))
=============================================================================
