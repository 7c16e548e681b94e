----------------------------- MODULE PayoutLedger -----------------------------
(***************************************************************************)
(* What the transfer step promises, with the netting, the retries and the  *)
(* process deaths left out: a creator's credits leave the platform in      *)
(* batches, each credit in at most one of them; a batch is written down    *)
(* after it left; and a credit that was taken away never leaves.           *)
(***************************************************************************)
CONSTANT Credits

VARIABLES
    batches,    \* the sets of credits that have left, each in one movement
    recorded,   \* the batches the books name
    withdrawn   \* the credits that were taken away instead

ledger == <<batches, recorded, withdrawn>>

Gone == (UNION batches) \cup withdrawn

Init == batches = {} /\ recorded = {} /\ withdrawn = {}

\* The money leaves; the books do not know yet.
Pay(S) ==
    /\ S \cap Gone = {}
    /\ batches' = batches \cup {S}
    /\ UNCHANGED <<recorded, withdrawn>>

\* The books catch up with a batch that left.
Enter(S) ==
    /\ S \in batches
    /\ recorded' = recorded \cup {S}
    /\ UNCHANGED <<batches, withdrawn>>

\* Nothing is left of the set, so it is closed in one transaction.
Close(S) ==
    /\ S \cap Gone = {}
    /\ batches' = batches \cup {S}
    /\ recorded' = recorded \cup {S}
    /\ UNCHANGED withdrawn

\* A refund takes away a credit that never left.
Withdraw(c) ==
    /\ c \notin Gone
    /\ withdrawn' = withdrawn \cup {c}
    /\ UNCHANGED <<batches, recorded>>

Next ==
    \/ \E S \in (SUBSET Credits) \ {{}} : Pay(S) \/ Enter(S) \/ Close(S)
    \/ \E c \in Credits : Withdraw(c)

Spec == Init /\ [][Next]_ledger
-----------------------------------------------------------------------------
(* What an implementation inherits: the three promises of the transfer     *)
(* step, which no step can take back (PromiseKept of                       *)
(* CreatorTransfersProofs).                                                *)

\* A credit is in one movement of money at most, the books name only movements
\* that happened, and no withdrawn credit is in any of them.
Promise ==
    /\ \A S, T \in batches : S # T => S \cap T = {}
    /\ recorded \subseteq batches
    /\ \A S \in batches : S \cap withdrawn = {}
=============================================================================
