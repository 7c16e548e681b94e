---------------------------- MODULE MCPurchaseCharge ----------------------------
(***************************************************************************)
(* Small charges for PurchaseCharge: two purchases of one creator and a    *)
(* third of another, with prices that tell the rows apart or do not.       *)
(***************************************************************************)
EXTENDS PurchaseCharge

\* Purchase 3 is another creator's.
TwoCreators == [p \in Purchases |-> IF p = 3 THEN 2 ELSE 1]

\* Equal prices: a used transfer key replays for another row of the creator.
SameEarnings == [p \in Purchases |-> 3]

\* Distinct prices: a used key is refused for another row.
PriceOfId == [p \in Purchases |-> p]
=============================================================================
