-------------------------- MODULE MCCreatorTransfers --------------------------
(***************************************************************************)
(* Small instances of CreatorTransfers, and the netting plan compared with *)
(* the loop it stands for.                                                 *)
(***************************************************************************)
EXTENDS CreatorTransfers, Sequences, SequencesExt, FiniteSetsExt

\* Credit 1 is support, 2 a sale, 3 support (a correction where it is negative)
\* and 4 the compensation netting 1 pays when its dispute is won; netting 2 is
\* the one that refunding the sale opens.
MCCredits == 1..4
MCSales == {2}
MCNettings == 1..2
MCDisputes == {1}
MCCompensationOf == (1 :> 4)
MCRefundOf == (2 :> 2)

MixedPrice == <<2, 1, -1, 0>>
PositivePrice == <<2, 1, 1, 0>>
MCShare == <<2, 1>>
-----------------------------------------------------------------------------
(* The loop of nettingPlanFor: nettings outside, credits inside, each pair  *)
(* taking what both still have.  taken[p] is what pair p has taken so far.  *)

RowsOf(taken) ==
    {[netting |-> p[1], credit |-> p[2], amount |-> taken[p], reversed |-> FALSE] :
        p \in {q \in DOMAIN taken : taken[q] > 0}}

Take(taken, p, left, value) ==
    LET ofCredit  == MapThenSumSet(LAMBDA q : taken[q], {q \in DOMAIN taken : q[2] = p[2]})
        ofNetting == MapThenSumSet(LAMBDA q : taken[q], {q \in DOMAIN taken : q[1] = p[1]})
    IN  [taken EXCEPT ![p] = Positive(Lesser(value[p[2]] - ofCredit, left[p[1]] - ofNetting))]

Walk(N, left, S, value) ==
    LET nettings == SetToSortSeq(N, <)
        credits  == SetToSortSeq(S, <)
        pairs    == FlattenSeq([i \in DOMAIN nettings |->
                       [j \in DOMAIN credits |-> <<nettings[i], credits[j]>>]])
    IN  IF Total(value, S) > 0
          THEN FoldLeft(LAMBDA taken, p : Take(taken, p, left, value),
                        [p \in N \X S |-> 0], pairs)
          ELSE [p \in N \X S |-> 0]

\* The closed form takes for each pair exactly what the loop takes.
ASSUME PlanIsTheWalk ==
    \A value \in [1..3 -> -1..2], left \in [1..2 -> 0..3] :
        LET N == {n \in 1..2 : left[n] > 0}
        IN  Plan(N, left, 1..3, value) = RowsOf(Walk(N, left, 1..3, value))
=============================================================================
