-------------------------- MODULE PurchaseChargeProofs --------------------------
(***************************************************************************)
(* Theorems about PurchaseCharge, for every set of purchases, creators and *)
(* workers, every price and however many workers die.  Where a theorem     *)
(* holds only in some environments, its hypothesis names what May must not *)
(* contain; the others hold whatever the environment may do.               *)
(***************************************************************************)
EXTENDS PurchaseCharge, SetSums

-----------------------------------------------------------------------------
(* Type correctness.                                                       *)

\* The netting rows the steps write have the type of netting rows.
LEMMA NettingRows ==
    /\ \A p \in Purchases, for \in {"refund", "dispute"} :
          [for |-> for, purchase |-> p, reversed |-> FALSE] \in NettingRow
    /\ \A n \in NettingRow : [n EXCEPT !.reversed = TRUE] \in NettingRow
  BY DEF NettingRow

\* Whatever a worker becomes, the others stay what they are.
LEMMA BecomesOK ==
  ASSUME WorkOK, NEW w \in Workers, NEW s, IsWorker(s), Becomes(w, s)
  PROVE  WorkOK'
  BY DEF WorkOK, Becomes

\* A worker that goes to another place keeps its type.
LEMMA GoOK ==
  ASSUME WorkOK, NEW w \in Workers, NEW pc, pc # "ship", Go(w, pc)
  PROVE  WorkOK'
  BY DEF WorkOK, IsWorker, Go, Becomes, Rest

\* A worker that leaves keeps its type.
LEMMA LeaveOK ==
  ASSUME WorkOK, NEW w \in Workers, Leave(w)
  PROVE  WorkOK'
  BY DEF WorkOK, IsWorker, Leave, Becomes, Rest

\* So does one that ends a row.
LEMMA AfterOK ==
  ASSUME WorkOK, NEW w \in Workers, After(w)
  PROVE  WorkOK'
<1>1. CASE w \in Routes
  BY <1>1, LeaveOK DEF After
<1>2. CASE w \notin Routes
  <2>1. IsWorker([work[w] EXCEPT !.todo = @ \ work[w].hand, !.hand = {}, !.pc = "next"])
    BY DEF WorkOK, IsWorker, Rest
  <2> QED BY <1>2, <2>1, BecomesOK DEF After
<1> QED BY <1>1, <1>2

\* And one that takes the next.
LEMMA NextRowOK ==
  ASSUME WorkOK, NEW w \in Workers, NextRow(w)
  PROVE  WorkOK'
<1>1. ASSUME NEW p \in work[w].todo
      PROVE  IsWorker([work[w] EXCEPT !.pc = "claw", !.hand = {p}, !.owed = FALSE,
                                      !.first = FALSE])
  BY DEF WorkOK, IsWorker, Rest
<1> QED BY <1>1, BecomesOK, LeaveOK DEF NextRow, Answer

\* The rows of the nettings are written by a refund and by a dispute, and
\* changed by a won dispute.
LEMMA NettingWritten ==
  ASSUME netting \subseteq NettingRow, WorkOK, disputeRow \in DisputeRow, NEW w \in Workers,
         NetRefund(w) \/ NetDispute(w) \/ CancelNetting(w)
  PROVE  netting' \subseteq NettingRow
<1>1. CASE NetRefund(w)
  <2>1. work[w].hand \subseteq Purchases
    BY DEF WorkOK, IsWorker
  <2> DEFINE new == {[for |-> "refund", purchase |-> p, reversed |-> FALSE] : p \in work[w].hand}
  <2>2. new \subseteq NettingRow
    BY <2>1, NettingRows
  <2>3. netting' = netting \/ netting' = netting \cup new
    BY <1>1 DEF NetRefund
  <2> QED BY <2>2, <2>3
<1>2. CASE NetDispute(w)
  <2>1. disputeRow.purchase \in Purchases \cup {None}
    BY DEF DisputeRow
  <2> DEFINE row == [for |-> "dispute", purchase |-> disputeRow.purchase, reversed |-> FALSE]
  <2>2. netting' = netting \/ (disputeRow.purchase # None /\ netting' = netting \cup {row})
    BY <1>2 DEF NetDispute
  <2>3. disputeRow.purchase # None => row \in NettingRow
    BY <2>1, NettingRows
  <2> QED BY <2>2, <2>3
<1>3. CASE CancelNetting(w)
  <2>1. \A n \in netting : n \in NettingRow /\ [n EXCEPT !.reversed = TRUE] \in NettingRow
    BY NettingRows
  <2> QED BY <1>3, <2>1 DEF CancelNetting
<1> QED BY <1>1, <1>2, <1>3

\* So is the row of the dispute.
LEMMA DisputeWritten ==
  ASSUME disputeRow \in DisputeRow, WorkOK, WorldOK, NEW w \in Workers,
         InsertDispute(w) \/ UpsertDispute(w)
  PROVE  disputeRow' \in DisputeRow
<1>1. CASE InsertDispute(w)
  <2>1. work[w].read \subseteq Purchases
    BY DEF WorkOK, IsWorker
  <2>2. \A p \in Purchases \cup {None} :
           [known |-> TRUE, purchase |-> p, outcome |-> "none"] \in DisputeRow
    BY DEF DisputeRow
  <2> QED BY <1>1, <2>1, <2>2 DEF InsertDispute
<1>2. CASE UpsertDispute(w)
  BY <1>2 DEF UpsertDispute, DisputeRow, WorldOK
<1> QED BY <1>1, <1>2

\* An event appended to the log is an event.
LEMMA EmitOK ==
  ASSUME log \in Seq(Events), log' = log \/ log' = Append(log, "refunded")
  PROVE  log' \in Seq(Events)
  BY DEF Events

\* An insert per good, where the good has no credit.
LEMMA CreditWritten ==
  ASSUME saleCredit \in [Goods -> {"none", "held", "released"}], NEW w \in Workers,
         CreditGoods(w)
  PROVE  saleCredit' \in [Goods -> {"none", "held", "released"}]
  BY DEF CreditGoods

\* The types hold at the start.
LEMMA TypeInit == Init => TypeOK
<1> SUFFICES ASSUME Init PROVE TypeOK
  OBVIOUS
<1>1. WorkOK
  BY DEF Init, WorkOK, IsWorker, Rest
<1>u. unfit \in BOOLEAN
  BY DEF Init
<1>2. WorldOK
  BY <1>u, WorkersAssumption DEF Init, WorldOK
<1>3. disputeRow \in DisputeRow
  BY DEF Init, DisputeRow
<1>4. RowsOK
  BY <1>3, RowsAssumption DEF Init, RowsOK
<1> QED BY <1>1, <1>2, <1>4 DEF TypeOK

\* The steps of a completion keep them.
LEMMA TypeCompletion ==
  ASSUME TypeOK, NEW w \in Workers, Completion(w)
  PROVE  TypeOK'
<1> USE DEF TypeOK, RowsOK, WorkOK, IsWorker, WorldOK, rows, tables, stripe, money,
        mishaps, At, Becomes, Go, Leave, Rest
<1>1. CASE ReadSession(w)
  BY <1>1 DEF ReadSession, Found, With
<1>2. CASE Key(w)
  BY <1>2 DEF Key
<1>3. CASE Group(w)
  BY <1>3 DEF Group
<1>4. CASE SplitDone(w)
  <2>1. WorkOK'
    <3>1. CASE w \in Jobs
      BY <1>4, <3>1, LeaveOK DEF SplitDone
    <3>2. CASE Becomes(w, [work[w] EXCEPT !.pc = "credit", !.todo = work[w].read \cap Goods])
      BY <3>2
    <3> QED BY <1>4, <3>1, <3>2 DEF SplitDone
  <2>2. RowsOK' /\ WorldOK'
    BY <1>4 DEF SplitDone
  <2> QED BY <2>1, <2>2
<1>5. CASE CreditGoods(w)
  <2>1. WorkOK'
    <3>1. ASSUME NEW p, Becomes(w, [work[w] EXCEPT !.todo = @ \ {p}]) PROVE WorkOK'
      BY <3>1
    <3>2. CASE Becomes(w, [work[w] EXCEPT !.pc = "ship", !.todo = work[w].read \cap Goods])
      BY <3>2
    <3> QED BY <1>5, <3>1, <3>2 DEF CreditGoods
  <2>2. RowsOK' /\ WorldOK'
    <3>1. UNCHANGED <<rows, shipment, receipts, netting, shortfall, disputeRow, stripe, mishaps>>
      BY <1>5 DEF CreditGoods
    <3> QED BY <1>5, <3>1, CreditWritten
  <2> QED BY <2>1, <2>2
<1>6. CASE Ship(w)
  <2>1. WorkOK'
    <3>1. ASSUME NEW p, Becomes(w, [work[w] EXCEPT !.todo = @ \ {p}]) PROVE WorkOK'
      BY <3>1
    <3>2. CASE Becomes(w, [work[w] EXCEPT !.pc = "complete", !.read = {}])
      BY <3>2
    <3> QED BY <1>6, <3>1, <3>2 DEF Ship
  <2>2. RowsOK' /\ WorldOK'
    BY <1>6 DEF Ship
  <2> QED BY <2>1, <2>2
<1>7. CASE Complete(w)
  BY <1>7 DEF Complete
<1>8. CASE OweReceipts(w)
  <2>1. WorkOK'
    <3>1. ASSUME NEW p, Becomes(w, [work[w] EXCEPT !.todo = @ \ {p}]) PROVE WorkOK'
      BY <3>1
    <3> QED BY <1>8, <3>1, LeaveOK DEF OweReceipts, Answer
  <2>2. RowsOK' /\ WorldOK'
    <3>1. work[w].todo \subseteq Purchases
      OBVIOUS
    <3>2. receipts' \subseteq Purchases \X {"purchase", "refund"}
      BY <1>8, <3>1 DEF OweReceipts
    <3> QED BY <1>8, <3>2 DEF OweReceipts
  <2> QED BY <2>1, <2>2
<1>9. CASE Fail(w)
  BY <1>9 DEF Fail, Answer
<1>10. ASSUME NEW k \in Creators, SkipCreator(w, k) PROVE TypeOK'
  BY <1>10 DEF SkipCreator
<1>11. ASSUME NEW k \in Creators, Transfer(w, k) PROVE TypeOK'
  BY <1>11 DEF Transfer, InGroup
<1>12. ASSUME NEW k \in Creators, KeyRefused(w, k) PROVE TypeOK'
  BY <1>12 DEF KeyRefused
<1>13. CASE Stamp(w)
  BY <1>13 DEF Stamp
<1>14. CASE ReadSettled(w)
  BY <1>14 DEF ReadSettled, With
<1> QED
  BY <1>1, <1>2, <1>3, <1>4, <1>5, <1>6, <1>7, <1>8, <1>9, <1>10, <1>11, <1>12, <1>13, <1>14
  DEF Completion

\* The steps of a refund keep them.
LEMMA TypeRefunding ==
  ASSUME TypeOK, NEW w \in Workers, Refunding(w)
  PROVE  TypeOK'
<1> USE DEF TypeOK, RowsOK, WorkOK, IsWorker, WorldOK, rows, tables, stripe, money,
        mishaps, At, Becomes, Go, Leave, Rest
<1>1. CASE IssueRefund(w)
  <2>1. WorkOK'
    BY <1>1, GoOK, LeaveOK, ZenonT(40) DEF IssueRefund
  <2>2. RowsOK' /\ WorldOK'
    <3>1. log' = log \/ log' = Append(log, "refunded")
      BY <1>1 DEF IssueRefund
    <3>2. log' \in Seq(Events)
      BY <3>1, EmitOK
    <3>3. UNCHANGED <<rows, tables, moved, clawback, goodsPaid, dispute, mishaps>>
      BY <1>1 DEF IssueRefund
    <3> QED BY <3>2, <3>3
  <2> QED BY <2>1, <2>2
<1>2. CASE ReadHold(w)
  BY <1>2 DEF ReadHold
<1>3. CASE DropHold(w)
  BY <1>3 DEF DropHold
<1>4. CASE ReadCharge(w)
  BY <1>4 DEF ReadCharge
<1>5. CASE NextRow(w)
  <2>1. WorkOK'
    BY <1>5, NextRowOK
  <2>2. RowsOK' /\ WorldOK'
    BY <1>5 DEF NextRow, Answer
  <2> QED BY <2>1, <2>2
<1>6. CASE NothingToReverse(w)
  BY <1>6 DEF NothingToReverse
<1>7. CASE Reverse(w)
  BY <1>7 DEF Reverse
<1>8. CASE Settle(w)
  BY <1>8 DEF Settle, With
<1>9. CASE OweRefund(w)
  <2>1. WorkOK'
    BY <1>9, GoOK, AfterOK, ZenonT(40) DEF OweRefund
  <2>2. RowsOK' /\ WorldOK'
    BY <1>9 DEF OweRefund
  <2> QED BY <2>1, <2>2
<1>10. CASE NetRefund(w)
  <2>1. WorkOK'
    BY <1>10, GoOK DEF NetRefund
  <2>2. netting' \subseteq NettingRow
    BY <1>10, NettingWritten
  <2>3. RowsOK' /\ WorldOK'
    BY <1>10, <2>2 DEF NetRefund
  <2> QED BY <2>1, <2>3
<1>11. CASE Book(w)
  <2>1. WorkOK'
    BY <1>11, AfterOK DEF Book
  <2>2. RowsOK' /\ WorldOK'
    BY <1>11 DEF Book
  <2> QED BY <2>1, <2>2
<1> QED
  BY <1>1, <1>2, <1>3, <1>4, <1>5, <1>6, <1>7, <1>8, <1>9, <1>10, <1>11 DEF Refunding

\* The steps of a dispute keep them.
LEMMA TypeDisputing ==
  ASSUME TypeOK, NEW w \in Workers, Disputing(w)
  PROVE  TypeOK'
<1> USE DEF TypeOK, RowsOK, WorkOK, IsWorker, WorldOK, rows, tables, stripe, money,
        mishaps, At, Becomes, Go, Leave, Rest
<1>1. CASE ReadDisputed(w)
  BY <1>1 DEF ReadDisputed
<1>2. CASE InsertDispute(w)
  <2>1. WorkOK'
    BY <1>2, GoOK DEF InsertDispute
  <2>2. disputeRow' \in DisputeRow
    BY <1>2, DisputeWritten
  <2>3. RowsOK' /\ WorldOK'
    BY <1>2, <2>2 DEF InsertDispute
  <2> QED BY <2>1, <2>3
<1>3. CASE FlipDisputed(w)
  BY <1>3, ZenonT(40) DEF FlipDisputed
<1>4. CASE NetDispute(w)
  <2>1. WorkOK'
    BY <1>4, LeaveOK DEF NetDispute, Answer
  <2>2. netting' \subseteq NettingRow
    BY <1>4, NettingWritten
  <2>3. RowsOK' /\ WorldOK'
    BY <1>4, <2>2 DEF NetDispute
  <2> QED BY <2>1, <2>3
<1>5. CASE UpsertDispute(w)
  <2>1. WorkOK'
    BY <1>5, GoOK, LeaveOK DEF UpsertDispute, Answer
  <2>2. disputeRow' \in DisputeRow
    BY <1>5, DisputeWritten
  <2>3. RowsOK' /\ WorldOK'
    BY <1>5, <2>2 DEF UpsertDispute
  <2> QED BY <2>1, <2>3
<1>6. CASE RestoreDisputed(w)
  BY <1>6 DEF RestoreDisputed
<1>7. CASE CancelNetting(w)
  <2>1. WorkOK'
    BY <1>7, LeaveOK DEF CancelNetting, Answer
  <2>2. netting' \subseteq NettingRow
    BY <1>7, NettingWritten
  <2>3. RowsOK' /\ WorldOK'
    BY <1>7, <2>2 DEF CancelNetting
  <2> QED BY <2>1, <2>3
<1> QED BY <1>1, <1>2, <1>3, <1>4, <1>5, <1>6, <1>7 DEF Disputing

\* So TypeOK is inductive.
LEMMA TypeStep == TypeOK /\ [Next]_vars => TypeOK'
<1> SUFFICES ASSUME TypeOK, [Next]_vars PROVE TypeOK'
  OBVIOUS
<1>1. ASSUME NEW w \in Workers, Step(w) PROVE TypeOK'
  BY <1>1, TypeCompletion, TypeRefunding, TypeDisputing DEF Step
<1> USE DEF TypeOK, RowsOK, WorkOK, IsWorker, WorldOK, rows, tables, stripe, money,
        mishaps, At, Becomes, Go, Leave, Rest
<1>2. ASSUME NEW w \in Workers, StampLost(w) PROVE TypeOK'
  BY <1>2, WorkersAssumption DEF StampLost
<1>3. ASSUME NEW w \in Workers, ReverseLost(w) PROVE TypeOK'
  BY <1>3, WorkersAssumption DEF ReverseLost
<1>4. ASSUME NEW w \in Workers, Die(w) PROVE TypeOK'
  BY <1>4, WorkersAssumption DEF Die
<1>5. ASSUME NEW w \in Hooks, NEW i \in DOMAIN log, Deliver(w, i) PROVE TypeOK'
  BY <1>5 DEF Deliver, Events, Workers
<1>6. ASSUME NEW w \in Jobs, ReadDebts(w) PROVE TypeOK'
  BY <1>6 DEF ReadDebts, With, Workers
<1>7. ASSUME NEW w \in Routes, NEW p \in Purchases, AskRefund(w, p) PROVE TypeOK'
  BY <1>7 DEF AskRefund, Workers
<1>8. CASE Decline
  BY <1>8 DEF Decline, Emit, Events
<1>9. CASE Charge
  BY <1>9 DEF Charge, Emit, Events
<1>10. CASE RefundAtStripe
  BY <1>10 DEF RefundAtStripe, Emit, Events
<1>11. CASE Dispute
  BY <1>11 DEF Dispute, Emit, Events
<1>12. ASSUME NEW outcome \in {"won", "lost"}, CloseDispute(outcome) PROVE TypeOK'
  BY <1>12 DEF CloseDispute, Emit, Events
<1>13. ASSUME NEW p \in Goods, Release(p) PROVE TypeOK'
  BY <1>13 DEF Release
<1>14. ASSUME NEW k \in Creators, AccountUpdated(k) PROVE TypeOK'
  BY <1>14 DEF AccountUpdated
<1>15. CASE UNCHANGED vars
  BY <1>15 DEF vars
<1> HIDE DEF TypeOK
<1> QED
  BY <1>1, <1>2, <1>3, <1>4, <1>5, <1>6, <1>7, <1>8, <1>9, <1>10, <1>11, <1>12, <1>13,
     <1>14, <1>15 DEF Next, Mishap, World

\* The state always has its shape: the tables name rows that exist, and a worker
\* carries rows of the charge only.
THEOREM TypeOKAlways == Spec => []TypeOK
<1> QED BY TypeInit, TypeStep, PTL DEF Spec
-----------------------------------------------------------------------------
(* What is split.                                                          *)

\* A worker that splits has no goods left to split or to stamp, and a refund
\* never reads a transfer id on a good.
SplitsNoGoods(r) ==
    /\ r.pc \in {"split", "stamp"} => r.todo \cap Goods = {}
    /\ r.pc = "stamp" => r.hand \cap Goods = {}
    /\ r.sent \cap Goods = {}

SplitInv ==
    /\ GoodsHeld
    /\ stamp \cap Goods = {}
    /\ \A w \in Workers : SplitsNoGoods(work[w])

\* At the start nothing is split and no worker is at work.
LEMMA SplitInit == Init => SplitInv
  BY DEF Init, SplitInv, GoodsHeld, SplitsNoGoods, Rest

\* A worker that moves without touching a transfer or a stamp.
LEMMA SplitKept ==
  ASSUME WorkOK, SplitInv, NEW w \in Workers, NEW s, Becomes(w, s), SplitsNoGoods(s),
         UNCHANGED <<stamp, moved>>
  PROVE  SplitInv'
  BY DEF WorkOK, SplitInv, GoodsHeld, SplitsNoGoods, Becomes

\* A worker that goes elsewhere than to the split has no goods to treat there.
LEMMA SplitGo ==
  ASSUME WorkOK, SplitInv, NEW w \in Workers, NEW pc, pc \notin {"split", "stamp"}, Go(w, pc),
         UNCHANGED <<stamp, moved>>
  PROVE  SplitInv'
<1>1. SplitsNoGoods([work[w] EXCEPT !.pc = pc])
  BY DEF WorkOK, IsWorker, Rest, SplitInv, SplitsNoGoods
<1> QED BY <1>1, SplitKept DEF Go

\* One that leaves has nothing to treat.
LEMMA SplitLeave ==
  ASSUME WorkOK, SplitInv, NEW w \in Workers, Leave(w), UNCHANGED <<stamp, moved>>
  PROVE  SplitInv'
<1>1. SplitsNoGoods(Rest)
  BY DEF Rest, SplitsNoGoods
<1> QED BY <1>1, SplitKept DEF Leave

\* Nor has one that ends a row.
LEMMA SplitAfter ==
  ASSUME WorkOK, SplitInv, NEW w \in Workers, After(w), UNCHANGED <<stamp, moved>>
  PROVE  SplitInv'
<1>1. SplitsNoGoods([work[w] EXCEPT !.todo = @ \ work[w].hand, !.hand = {}, !.pc = "next"])
  BY DEF WorkOK, IsWorker, Rest, SplitInv, SplitsNoGoods
<1> QED BY <1>1, SplitKept, SplitLeave DEF After

\* A completion groups the rows without the goods.
LEMMA SplitCompletion ==
  ASSUME TypeOK, SplitInv, NEW w \in Workers, Completion(w)
  PROVE  SplitInv'
<1> USE DEF TypeOK, rows, tables, stripe, money, At
<1>0. DOMAIN work[w] = DOMAIN Rest /\ SplitsNoGoods(work[w])
  BY DEF WorkOK, IsWorker, SplitInv
<1>1. CASE ReadSession(w)
  <2> DEFINE found == Found
  <2>1. SplitsNoGoods([work[w] EXCEPT !.pc = IF found = {} THEN "complete" ELSE "key",
                                      !.read = found, !.todo = found])
    BY <1>0 DEF SplitsNoGoods, Rest
  <2> QED BY <1>1, <2>1, SplitKept DEF ReadSession
<1>2. CASE Key(w)
  <2>1. ASSUME NEW p
        PROVE  SplitsNoGoods([work[w] EXCEPT !.todo = @ \ {p},
                                 !.pc = IF work[w].todo = {p} THEN "group" ELSE @])
    BY <1>0, <1>2 DEF SplitsNoGoods, Rest, Key
  <2> QED BY <1>2, <2>1, SplitKept DEF Key
<1>3. CASE Group(w)
  <2>1. SplitsNoGoods([work[w] EXCEPT !.pc = "split", !.todo = work[w].read \ Goods])
    BY <1>0 DEF SplitsNoGoods, Rest
  <2> QED BY <1>3, <2>1, SplitKept DEF Group
<1>4. CASE SplitDone(w)
  <2>1. SplitsNoGoods([work[w] EXCEPT !.pc = "credit", !.todo = work[w].read \cap Goods])
    BY <1>0 DEF SplitsNoGoods, Rest
  <2> QED BY <1>4, <2>1, SplitKept, SplitLeave DEF SplitDone
<1>5. CASE CreditGoods(w)
  <2>1. SplitsNoGoods([work[w] EXCEPT !.pc = "ship", !.todo = work[w].read \cap Goods])
    BY <1>0 DEF SplitsNoGoods, Rest
  <2>2. ASSUME NEW p PROVE SplitsNoGoods([work[w] EXCEPT !.todo = @ \ {p}])
    BY <1>0 DEF SplitsNoGoods, Rest
  <2> QED BY <1>5, <2>1, <2>2, SplitKept DEF CreditGoods
<1>6. CASE Ship(w)
  <2>1. ASSUME NEW p PROVE SplitsNoGoods([work[w] EXCEPT !.todo = @ \ {p}])
    BY <1>0 DEF SplitsNoGoods, Rest
  <2>2. SplitsNoGoods([work[w] EXCEPT !.pc = "complete", !.read = {}])
    BY <1>0 DEF SplitsNoGoods, Rest
  <2> QED BY <1>6, <2>1, <2>2, SplitKept DEF Ship
<1>7. CASE Complete(w)
  BY <1>7, SplitGo DEF Complete
<1>8. CASE OweReceipts(w)
  <2>1. ASSUME NEW p PROVE SplitsNoGoods([work[w] EXCEPT !.todo = @ \ {p}])
    BY <1>0 DEF SplitsNoGoods, Rest
  <2> QED BY <1>8, <2>1, SplitKept, SplitLeave DEF OweReceipts, Answer
<1>9. CASE Fail(w)
  BY <1>9, SplitLeave DEF Fail, Answer
<1>10. ASSUME NEW k \in Creators, SkipCreator(w, k) \/ KeyRefused(w, k) PROVE SplitInv'
  <2>1. SplitsNoGoods([work[w] EXCEPT !.todo = @ \ Sold(k)])
    BY <1>0 DEF SplitsNoGoods, Rest
  <2> QED BY <1>10, <2>1, SplitKept DEF SkipCreator, KeyRefused
<1>11. ASSUME NEW k \in Creators, Transfer(w, k) PROVE SplitInv'
  <2>1. InGroup(w, k) \cap Goods = {}
    BY <1>0, <1>11 DEF InGroup, SplitsNoGoods, Transfer
  <2>2. SplitsNoGoods([work[w] EXCEPT !.pc = "stamp", !.hand = InGroup(w, k)])
    BY <1>0, <1>11, <2>1 DEF SplitsNoGoods, Rest, Transfer
  <2>3. GoodsHeld'
    BY <1>11, <2>1 DEF Transfer, SplitInv, GoodsHeld, RowsOK
  <2>4. \A v \in Workers : SplitsNoGoods(work'[v])
    BY <1>11, <2>2 DEF Transfer, SplitInv, Becomes, WorkOK
  <2> QED BY <1>11, <2>3, <2>4 DEF Transfer, SplitInv, SplitsNoGoods
<1>12. CASE Stamp(w)
  <2>1. SplitsNoGoods([work[w] EXCEPT !.pc = "split", !.todo = @ \ work[w].hand, !.hand = {}])
    BY <1>0, <1>12 DEF SplitsNoGoods, Rest, Stamp
  <2>2. \A v \in Workers : SplitsNoGoods(work'[v])
    BY <1>12, <2>1 DEF Stamp, SplitInv, Becomes, WorkOK
  <2>3. stamp' \cap Goods = {} /\ moved' = moved
    BY <1>0, <1>12 DEF Stamp, SplitInv, SplitsNoGoods
  <2> QED BY <2>2, <2>3 DEF SplitInv, SplitsNoGoods, GoodsHeld
<1>13. CASE ReadSettled(w)
  <2>1. SplitsNoGoods([work[w] EXCEPT !.pc = "receipt", !.todo = With("completed") \cap keyed])
    BY <1>0 DEF SplitsNoGoods, Rest
  <2> QED BY <1>13, <2>1, SplitKept DEF ReadSettled
<1> QED
  BY <1>1, <1>2, <1>3, <1>4, <1>5, <1>6, <1>7, <1>8, <1>9, <1>10, <1>11, <1>12, <1>13
  DEF Completion

\* A refund moves no share.
LEMMA SplitRefunding ==
  ASSUME TypeOK, SplitInv, NEW w \in Workers, Refunding(w)
  PROVE  SplitInv'
<1> USE DEF TypeOK, rows, tables, stripe, money, At
<1>0. DOMAIN work[w] = DOMAIN Rest /\ SplitsNoGoods(work[w])
  BY DEF WorkOK, IsWorker, SplitInv
<1>1. CASE IssueRefund(w)
  BY <1>1, SplitGo, SplitLeave DEF IssueRefund
<1>2. CASE ReadHold(w)
  <2>1. ASSUME NEW pc \in {"claw", "drop", "settle"}, NEW owed
        PROVE  SplitsNoGoods([work[w] EXCEPT !.owed = owed, !.pc = pc])
    BY <1>0 DEF SplitsNoGoods, Rest
  <2>2. \E pc \in {"claw", "drop", "settle"}, owed \in BOOLEAN :
           Becomes(w, [work[w] EXCEPT !.owed = owed, !.pc = pc])
    BY <1>2 DEF ReadHold, RowsOK
  <2> QED BY <1>2, <2>1, <2>2, SplitKept DEF ReadHold
<1>3. CASE DropHold(w)
  BY <1>3, SplitGo DEF DropHold
<1>4. CASE ReadCharge(w)
  <2>1. SplitsNoGoods([work[w] EXCEPT !.pc = "next", !.todo = keyed, !.sent = stamp])
    BY <1>0 DEF SplitsNoGoods, Rest, SplitInv
  <2> QED BY <1>4, <2>1, SplitKept DEF ReadCharge
<1>5. CASE NextRow(w)
  <2>1. ASSUME NEW p
        PROVE  SplitsNoGoods([work[w] EXCEPT !.pc = "claw", !.hand = {p}, !.owed = FALSE,
                                             !.first = FALSE])
    BY <1>0 DEF SplitsNoGoods, Rest
  <2> QED BY <1>5, <2>1, SplitKept, SplitLeave DEF NextRow, Answer
<1>6. ASSUME NEW owed, Becomes(w, [work[w] EXCEPT !.owed = owed, !.pc = "settle"]),
             UNCHANGED <<stamp, moved>>
      PROVE  SplitInv'
  <2>1. SplitsNoGoods([work[w] EXCEPT !.owed = owed, !.pc = "settle"])
    BY <1>0 DEF SplitsNoGoods, Rest
  <2> QED BY <1>6, <2>1, SplitKept
<1>7. CASE NothingToReverse(w)
  BY <1>6, <1>7 DEF NothingToReverse
<1>8. CASE Reverse(w)
  BY <1>6, <1>8 DEF Reverse
<1>9. CASE Settle(w)
  <2>1. ASSUME NEW first PROVE SplitsNoGoods([work[w] EXCEPT !.first = first, !.pc = "owe"])
    BY <1>0 DEF SplitsNoGoods, Rest
  <2> QED BY <1>9, <2>1, SplitKept DEF Settle
<1>10. CASE OweRefund(w)
  BY <1>10, SplitGo, SplitAfter DEF OweRefund
<1>11. CASE NetRefund(w)
  BY <1>11, SplitGo DEF NetRefund
<1>12. CASE Book(w)
  BY <1>12, SplitAfter DEF Book
<1> QED BY <1>1, <1>2, <1>3, <1>4, <1>5, <1>7, <1>8, <1>9, <1>10, <1>11, <1>12 DEF Refunding

\* Nor does a dispute.
LEMMA SplitDisputing ==
  ASSUME TypeOK, SplitInv, NEW w \in Workers, Disputing(w)
  PROVE  SplitInv'
<1> USE DEF TypeOK, rows, tables, stripe, money, At
<1>1. CASE ReadDisputed(w)
  <2>1. SplitsNoGoods([work[w] EXCEPT !.pc = "insert", !.read = keyed])
    BY DEF WorkOK, IsWorker, Rest, SplitInv, SplitsNoGoods
  <2> QED BY <1>1, <2>1, SplitKept DEF ReadDisputed
<1>2. CASE InsertDispute(w) \/ FlipDisputed(w) \/ RestoreDisputed(w)
  BY <1>2, SplitGo DEF InsertDispute, FlipDisputed, RestoreDisputed
<1>3. CASE NetDispute(w) \/ CancelNetting(w) \/ UpsertDispute(w)
  BY <1>3, SplitGo, SplitLeave DEF NetDispute, CancelNetting, UpsertDispute, Answer
<1> QED BY <1>1, <1>2, <1>3 DEF Disputing

\* So SplitInv is inductive.
LEMMA SplitStep == TypeOK /\ SplitInv /\ [Next]_vars => SplitInv'
<1> SUFFICES ASSUME TypeOK, SplitInv, [Next]_vars PROVE SplitInv'
  OBVIOUS
<1>1. ASSUME NEW w \in Workers, Step(w) PROVE SplitInv'
  BY <1>1, SplitCompletion, SplitRefunding, SplitDisputing DEF Step
<1> USE DEF TypeOK, rows, tables, stripe, money, At
<1>2. ASSUME NEW w \in Workers, StampLost(w) PROVE SplitInv'
  <2>1. SplitsNoGoods([work[w] EXCEPT !.pc = "split", !.todo = @ \ work[w].hand, !.hand = {}])
    BY <1>2 DEF WorkOK, IsWorker, Rest, SplitInv, SplitsNoGoods, StampLost
  <2> QED BY <1>2, <2>1, SplitKept DEF StampLost
<1>3. ASSUME NEW w \in Workers, ReverseLost(w) PROVE SplitInv'
  <2>1. SplitsNoGoods([work[w] EXCEPT !.owed = TRUE, !.pc = "settle"])
    BY DEF WorkOK, IsWorker, Rest, SplitInv, SplitsNoGoods
  <2> QED BY <1>3, <2>1, SplitKept DEF ReverseLost
<1>4. ASSUME NEW w \in Workers, Die(w) PROVE SplitInv'
  BY <1>4, SplitLeave DEF Die
<1>5. ASSUME NEW w \in Hooks, NEW i \in DOMAIN log, Deliver(w, i) PROVE SplitInv'
  <2>1. log[i] \in Events
    BY DEF WorldOK
  <2>2. SplitsNoGoods([work[w] EXCEPT !.pc = log[i], !.event = log[i]])
    BY <1>5, <2>1 DEF Deliver, SplitsNoGoods, Rest, Events
  <2> QED BY <1>5, <2>2, SplitKept DEF Deliver, Workers
<1>6. ASSUME NEW w \in Jobs, ReadDebts(w) PROVE SplitInv'
  <2>1. ASSUME NEW debts, debts \cap Goods = {}
        PROVE  SplitsNoGoods([work[w] EXCEPT !.pc = "split", !.todo = debts])
    BY <1>6, <2>1 DEF ReadDebts, SplitsNoGoods, Rest
  <2> QED BY <1>6, <2>1, SplitKept DEF ReadDebts, Workers
<1>7. ASSUME NEW w \in Routes, NEW p \in Purchases, AskRefund(w, p) PROVE SplitInv'
  <2>1. SplitsNoGoods([work[w] EXCEPT !.pc = "refund", !.hand = {p}, !.todo = {p},
                                      !.sent = stamp \cap {p}])
    BY <1>7 DEF AskRefund, SplitsNoGoods, Rest, SplitInv
  <2> QED BY <1>7, <2>1, SplitKept DEF AskRefund, Workers
<1>8. CASE UNCHANGED <<work, stamp, moved>>
  BY <1>8 DEF SplitInv, SplitsNoGoods, GoodsHeld
<1>9. CASE World
  BY <1>8, <1>9 DEF World, Decline, Charge, RefundAtStripe, Dispute, CloseDispute, Release,
                    AccountUpdated
<1>10. CASE UNCHANGED vars
  BY <1>8, <1>10 DEF vars
<1> QED
  BY <1>1, <1>2, <1>3, <1>4, <1>5, <1>6, <1>7, <1>9, <1>10 DEF Next, Mishap

\* No transfer of the charge carries a good, whichever workers split it, overlap
\* and die: the split leaves the goods out of its groups, and so does the retry.
THEOREM GoodsHeldAlways == Spec => []GoodsHeld
<1>1. SplitInv => GoodsHeld
  BY DEF SplitInv
<1> QED BY <1>1, TypeInit, TypeStep, SplitInit, SplitStep, PTL DEF Spec

-----------------------------------------------------------------------------
(* What is owed.                                                           *)

\* A share that no reversal brought back and none will: it left with a released
\* credit, or its reversal was refused for good.
NotReversed(p) == p \in Goods \/ clawback[p] = "unfunded"

RefundSteps == {"refund", "hold", "drop", "claw", "settle", "owe", "net", "book"}

\* A refund has one row in hand, and the worker that calls its share owed has
\* settled how it left.
OwesOneRow(r) ==
    /\ r.pc \in RefundSteps => \E p \in Purchases : r.hand = {p}
    /\ r.owed => r.pc \in {"settle", "owe", "net", "book", "next"}
    /\ r.owed => \A p \in r.hand : NotReversed(p)

RecoverInv ==
    losses = 0 =>
        /\ \A p \in Goods : clawback[p] = "none"
        /\ \A w \in Workers : OwesOneRow(work[w])
        /\ \A n \in netting : n.for = "refund" => NotReversed(n.purchase)

\* At the start nothing is called back.
LEMMA RecoverInit == Init => RecoverInv
<1>1. OwesOneRow(Rest)
  BY DEF OwesOneRow, Rest, RefundSteps
<1> QED BY <1>1, RowsAssumption DEF Init, RecoverInv

\* A worker that moves without touching a reversal or a netting.
LEMMA RecoverKept ==
  ASSUME WorkOK, RecoverInv, NEW w \in Workers, NEW s, Becomes(w, s),
         losses = 0 => OwesOneRow(s), UNCHANGED <<clawback, netting, losses>>
  PROVE  RecoverInv'
  BY DEF WorkOK, RecoverInv, OwesOneRow, NotReversed, Becomes

\* A worker that calls no share owed, at a step without a row in hand.
LEMMA RecoverFree ==
  ASSUME WorkOK, RecoverInv, NEW w \in Workers, NEW s, Becomes(w, s),
         s.pc \notin RefundSteps, losses = 0 => ~s.owed,
         UNCHANGED <<clawback, netting, losses>>
  PROVE  RecoverInv'
<1>1. losses = 0 => OwesOneRow(s)
  BY DEF OwesOneRow
<1> QED BY <1>1, RecoverKept

\* A worker that leaves owes no row.
LEMMA RecoverLeave ==
  ASSUME WorkOK, RecoverInv, NEW w \in Workers, Leave(w), UNCHANGED <<clawback, netting, losses>>
  PROVE  RecoverInv'
<1>1. Rest.pc \notin RefundSteps /\ ~Rest.owed
  BY DEF Rest, RefundSteps
<1> QED BY <1>1, RecoverFree DEF Leave

\* Nor does one that ends its row.
LEMMA RecoverAfter ==
  ASSUME WorkOK, RecoverInv, NEW w \in Workers, After(w), UNCHANGED <<clawback, netting, losses>>
  PROVE  RecoverInv'
<1>1. OwesOneRow([work[w] EXCEPT !.todo = @ \ work[w].hand, !.hand = {}, !.pc = "next"])
  BY DEF WorkOK, IsWorker, Rest, OwesOneRow, RefundSteps
<1> QED BY <1>1, RecoverKept, RecoverLeave DEF After

\* A worker that neither refunds nor settles keeps to its own steps.
LEMMA RecoverElsewhere ==
  ASSUME WorkOK, RecoverInv, NEW w \in Workers, NEW s, Becomes(w, s),
         work[w].pc \notin RefundSteps \cup {"next"},
         s.pc \notin RefundSteps, s.owed = work[w].owed,
         UNCHANGED <<clawback, netting, losses>>
  PROVE  RecoverInv'
<1>1. losses = 0 => ~work[w].owed
  BY DEF RecoverInv, OwesOneRow, RefundSteps
<1> QED BY <1>1, RecoverFree

\* A worker outside a refund owes no row.
LEMMA RecoverGoElsewhere ==
  ASSUME WorkOK, RecoverInv, NEW w \in Workers, NEW pc, Go(w, pc),
         work[w].pc \notin RefundSteps \cup {"next"}, pc \notin RefundSteps,
         UNCHANGED <<clawback, netting, losses>>
  PROVE  RecoverInv'
<1> DEFINE s == [work[w] EXCEPT !.pc = pc]
<1>1. s.pc = pc /\ s.owed = work[w].owed
  BY DEF WorkOK, IsWorker, Rest
<1> QED BY <1>1, RecoverElsewhere DEF Go

\* A refund goes on with the row it has in hand.
LEMMA RecoverGo ==
  ASSUME WorkOK, RecoverInv, NEW w \in Workers, NEW pc, Go(w, pc),
         work[w].pc \in RefundSteps,
         (losses = 0 => ~work[w].owed) \/ pc \in {"settle", "owe", "net", "book"},
         UNCHANGED <<clawback, netting, losses>>
  PROVE  RecoverInv'
<1>1. losses = 0 => OwesOneRow([work[w] EXCEPT !.pc = pc])
  BY DEF WorkOK, IsWorker, Rest, RecoverInv, OwesOneRow
<1> QED BY <1>1, RecoverKept DEF Go

\* A completion calls nothing back.
LEMMA RecoverCompletion ==
  ASSUME TypeOK, RecoverInv, NEW w \in Workers, Completion(w)
  PROVE  RecoverInv'
<1> USE DEF TypeOK, rows, tables, stripe, money, mishaps, At, RefundSteps
<1>0. DOMAIN work[w] = DOMAIN Rest
  BY DEF WorkOK, IsWorker
<1>t. ASSUME NEW todo, Becomes(w, [work[w] EXCEPT !.todo = todo]),
             work[w].pc \notin RefundSteps \cup {"next"}, UNCHANGED <<clawback, netting, losses>>
      PROVE  RecoverInv'
  <2> DEFINE s == [work[w] EXCEPT !.todo = todo]
  <2>1. s.pc = work[w].pc /\ s.owed = work[w].owed
    BY <1>0 DEF Rest
  <2> QED BY <1>t, <2>1, RecoverElsewhere
<1>1. CASE ReadSession(w)
  <2> DEFINE found == Found
             s == [work[w] EXCEPT !.pc = IF found = {} THEN "complete" ELSE "key",
                                  !.read = found, !.todo = found]
  <2>1. s.pc \notin RefundSteps /\ s.owed = work[w].owed
    BY <1>0 DEF Rest
  <2> QED BY <1>1, <2>1, RecoverElsewhere DEF ReadSession
<1>2. CASE Key(w)
  <2> DEFINE s(p) == [work[w] EXCEPT !.todo = @ \ {p},
                                     !.pc = IF work[w].todo = {p} THEN "group" ELSE @]
  <2>1. ASSUME NEW p PROVE s(p).pc \notin RefundSteps /\ s(p).owed = work[w].owed
    BY <1>0, <1>2 DEF Rest, Key
  <2> QED BY <1>2, <2>1, RecoverElsewhere DEF Key
<1>3. CASE Group(w)
  <2> DEFINE s == [work[w] EXCEPT !.pc = "split", !.todo = work[w].read \ Goods]
  <2>1. s.pc \notin RefundSteps /\ s.owed = work[w].owed
    BY <1>0 DEF Rest
  <2> QED BY <1>3, <2>1, RecoverElsewhere DEF Group
<1>4. CASE SplitDone(w)
  <2> DEFINE s == [work[w] EXCEPT !.pc = "credit", !.todo = work[w].read \cap Goods]
  <2>1. s.pc \notin RefundSteps /\ s.owed = work[w].owed
    BY <1>0 DEF Rest
  <2> QED BY <1>4, <2>1, RecoverElsewhere, RecoverLeave DEF SplitDone
<1>5. CASE CreditGoods(w)
  <2> DEFINE s == [work[w] EXCEPT !.pc = "ship", !.todo = work[w].read \cap Goods]
  <2>1. s.pc \notin RefundSteps /\ s.owed = work[w].owed
    BY <1>0 DEF Rest
  <2> QED BY <1>5, <2>1, RecoverElsewhere, <1>t DEF CreditGoods
<1>6. CASE Ship(w)
  <2> DEFINE s == [work[w] EXCEPT !.pc = "complete", !.read = {}]
  <2>1. s.pc \notin RefundSteps /\ s.owed = work[w].owed
    BY <1>0 DEF Rest
  <2> QED BY <1>6, <2>1, RecoverElsewhere, <1>t DEF Ship
<1>7. CASE Complete(w)
  BY <1>7, RecoverGoElsewhere DEF Complete
<1>8. CASE OweReceipts(w)
  BY <1>8, <1>t, RecoverLeave DEF OweReceipts, Answer
<1>9. CASE Fail(w)
  BY <1>9, RecoverLeave DEF Fail, Answer
<1>10. ASSUME NEW k \in Creators, SkipCreator(w, k) \/ KeyRefused(w, k) PROVE RecoverInv'
  BY <1>10, <1>t DEF SkipCreator, KeyRefused
<1>11. ASSUME NEW k \in Creators, Transfer(w, k) PROVE RecoverInv'
  <2> DEFINE s == [work[w] EXCEPT !.pc = "stamp", !.hand = InGroup(w, k)]
  <2>1. s.pc \notin RefundSteps /\ s.owed = work[w].owed
    BY <1>0 DEF Rest
  <2> QED BY <1>11, <2>1, RecoverElsewhere DEF Transfer
<1>12. CASE Stamp(w)
  <2> DEFINE s == [work[w] EXCEPT !.pc = "split", !.todo = @ \ work[w].hand, !.hand = {}]
  <2>1. s.pc \notin RefundSteps /\ s.owed = work[w].owed
    BY <1>0 DEF Rest
  <2> QED BY <1>12, <2>1, RecoverElsewhere DEF Stamp
<1>13. CASE ReadSettled(w)
  <2> DEFINE s == [work[w] EXCEPT !.pc = "receipt", !.todo = With("completed") \cap keyed]
  <2>1. s.pc \notin RefundSteps /\ s.owed = work[w].owed
    BY <1>0 DEF Rest
  <2> QED BY <1>13, <2>1, RecoverElsewhere DEF ReadSettled
<1> QED
  BY <1>1, <1>2, <1>3, <1>4, <1>5, <1>6, <1>7, <1>8, <1>9, <1>10, <1>11, <1>12, <1>13
  DEF Completion

\* A refund calls a share owed only after its reversal was refused, or for a good.
LEMMA RecoverRefunding ==
  ASSUME TypeOK, SplitInv, RecoverInv, NEW w \in Workers, Refunding(w)
  PROVE  RecoverInv'
<1> USE DEF TypeOK, rows, tables, stripe, money, mishaps, At
<1>0. DOMAIN work[w] = DOMAIN Rest
  BY DEF WorkOK, IsWorker
<1>a. losses = 0 => OwesOneRow(work[w])
  BY DEF RecoverInv
<1>b. work[w].pc \in RefundSteps \ {"settle", "owe", "net", "book"} => (losses = 0 => ~work[w].owed)
  BY <1>a DEF OwesOneRow, RefundSteps
<1>1. CASE IssueRefund(w)
  BY <1>1, <1>b, RecoverGo, RecoverLeave DEF IssueRefund, RefundSteps
<1>2. CASE ReadHold(w)
  <2> DEFINE p == CHOOSE q \in Purchases : q \in work[w].hand
             state == IF p \in Goods THEN saleCredit[p] ELSE "none"
             s == [work[w] EXCEPT !.owed = (state = "released"),
                                  !.pc = CASE state = "none"     -> "claw"
                                           [] state = "held"     -> "drop"
                                           [] state = "released" -> "settle"]
  <2>1. state \in {"none", "held", "released"}
    BY DEF RowsOK
  <2>2. losses = 0 => work[w].hand = {p}
    BY <1>2, <1>a DEF ReadHold, OwesOneRow, RefundSteps
  <2>3. state = "released" => p \in Goods
    OBVIOUS
  <2> HIDE DEF p, state
  <2>4. losses = 0 => OwesOneRow(s)
    BY <1>0, <1>2, <1>a, <2>1, <2>2, <2>3 DEF OwesOneRow, Rest, RefundSteps, NotReversed,
         ReadHold
  <2>5. Becomes(w, s)
    BY <1>2 DEF ReadHold, p, state
  <2> QED BY <1>2, <2>4, <2>5, RecoverKept DEF ReadHold
<1>3. CASE DropHold(w)
  BY <1>3, <1>b, RecoverGo DEF DropHold, RefundSteps
<1>4. CASE ReadCharge(w)
  <2> DEFINE s == [work[w] EXCEPT !.pc = "next", !.todo = keyed, !.sent = stamp]
  <2>1. s.pc \notin RefundSteps /\ s.owed = work[w].owed
    BY <1>0 DEF Rest, RefundSteps
  <2> QED BY <1>4, <2>1, RecoverElsewhere DEF ReadCharge, RefundSteps
<1>5. CASE NextRow(w)
  <2>1. ASSUME NEW p \in work[w].todo
        PROVE  OwesOneRow([work[w] EXCEPT !.pc = "claw", !.hand = {p}, !.owed = FALSE,
                                          !.first = FALSE])
    BY <1>0 DEF OwesOneRow, Rest, RefundSteps, WorkOK, IsWorker
  <2> QED BY <1>5, <2>1, RecoverKept, RecoverLeave DEF NextRow, Answer
<1>6. CASE NothingToReverse(w)
  <2>1. losses = 0 => OwesOneRow([work[w] EXCEPT !.owed = FALSE, !.pc = "settle"])
    BY <1>0, <1>6, <1>a DEF OwesOneRow, Rest, RefundSteps, NothingToReverse
  <2> QED BY <1>6, <2>1, RecoverKept DEF NothingToReverse
<1>7. CASE Reverse(w)
  <2> DEFINE p == CHOOSE q \in Purchases : q \in work[w].hand
  <2>1. losses = 0 => work[w].hand = {p}
    BY <1>7, <1>a DEF Reverse, OwesOneRow, RefundSteps
  <2>2. losses = 0 => p \notin Goods
    BY <1>7, <2>1 DEF Reverse, SplitInv, SplitsNoGoods
  <2> HIDE DEF p
  <2>3. PICK outcome \in {"done", "unfunded"} :
           /\ clawback[p] \in {"none", outcome}
           /\ clawback' = [clawback EXCEPT ![p] = outcome]
           /\ Becomes(w, [work[w] EXCEPT !.owed = (outcome = "unfunded"), !.pc = "settle"])
    BY <1>7 DEF Reverse, p
  <2>4. \A q \in Purchases : NotReversed(q) => NotReversed(q)'
    BY <2>3 DEF NotReversed, RowsOK
  <2>5. losses' = losses /\ netting' = netting
    BY <1>7 DEF Reverse
  <2>6. losses = 0 => \A q \in Goods : clawback'[q] = "none"
    BY <2>2, <2>3 DEF RecoverInv, RowsOK
  <2>7. losses = 0 => OwesOneRow(work[w])'
    <3>1. \A q \in Purchases : q = p /\ outcome = "unfunded" => NotReversed(q)'
      BY <2>3 DEF NotReversed, RowsOK
    <3>2. work'[w] = [work[w] EXCEPT !.owed = (outcome = "unfunded"), !.pc = "settle"]
      BY <2>3 DEF Becomes, WorkOK
    <3>3. work[w].hand \subseteq Purchases
      BY DEF WorkOK, IsWorker
    <3>4. /\ work'[w].hand = work[w].hand /\ work'[w].pc = "settle"
          /\ work'[w].owed <=> outcome = "unfunded"
      BY <1>0, <3>2 DEF Rest
    <3>5. losses = 0 => \E q \in Purchases : work[w].hand = {q}
      BY <1>a, <1>7 DEF Reverse, OwesOneRow, RefundSteps
    <3> QED BY <2>1, <3>1, <3>3, <3>4, <3>5 DEF OwesOneRow
  <2>8. \A v \in Workers : v # w /\ losses = 0 => OwesOneRow(work[v])'
    <3>1. ASSUME NEW v \in Workers, v # w PROVE work'[v] = work[v] /\ work[v].hand \subseteq Purchases
      BY <2>3, <3>1 DEF Becomes, WorkOK, IsWorker
    <3> QED BY <2>4, <3>1 DEF RecoverInv, OwesOneRow
  <2>9. losses = 0 => \A n \in netting : n.for = "refund" => NotReversed(n.purchase)'
    <3>1. \A n \in netting : n.purchase \in Purchases
      BY DEF RowsOK, NettingRow
    <3> QED BY <2>4, <3>1 DEF RecoverInv
  <2> QED BY <2>5, <2>6, <2>7, <2>8, <2>9 DEF RecoverInv
<1>8. CASE Settle(w)
  <2>1. ASSUME NEW first
        PROVE  losses = 0 => OwesOneRow([work[w] EXCEPT !.first = first, !.pc = "owe"])
    BY <1>0, <1>8, <1>a DEF OwesOneRow, Rest, RefundSteps, Settle
  <2> QED BY <1>8, <2>1, RecoverKept DEF Settle
<1>9. CASE OweRefund(w)
  BY <1>9, RecoverGo, RecoverAfter DEF OweRefund, RefundSteps
<1>10. CASE NetRefund(w)
  <2>1. losses = 0 => OwesOneRow([work[w] EXCEPT !.pc = "book"])
    BY <1>0, <1>10, <1>a DEF OwesOneRow, Rest, RefundSteps, NetRefund
  <2>2. \A v \in Workers : losses = 0 => OwesOneRow(work[v])'
    BY <1>10, <2>1 DEF NetRefund, Go, Becomes, WorkOK, RecoverInv, OwesOneRow, NotReversed
  <2>3. losses = 0 =>
           \A n \in netting' : n.for = "refund" => NotReversed(n.purchase)
    BY <1>10, <1>a DEF NetRefund, OwesOneRow, RecoverInv
  <2>4. UNCHANGED <<clawback, losses>>
    BY <1>10 DEF NetRefund
  <2> QED BY <2>2, <2>3, <2>4 DEF RecoverInv, NotReversed
<1>11. CASE Book(w)
  BY <1>11, RecoverAfter DEF Book
<1> QED BY <1>1, <1>2, <1>3, <1>4, <1>5, <1>6, <1>7, <1>8, <1>9, <1>10, <1>11 DEF Refunding

\* A dispute calls nothing back.
LEMMA RecoverDisputing ==
  ASSUME TypeOK, RecoverInv, NEW w \in Workers, Disputing(w)
  PROVE  RecoverInv'
<1> USE DEF TypeOK, rows, tables, stripe, money, mishaps, At
<1>1. CASE ReadDisputed(w)
  <2> DEFINE s == [work[w] EXCEPT !.pc = "insert", !.read = keyed]
  <2>1. s.pc \notin RefundSteps /\ s.owed = work[w].owed
    BY DEF WorkOK, IsWorker, Rest, RefundSteps
  <2> QED BY <1>1, <2>1, RecoverElsewhere DEF ReadDisputed, RefundSteps
<1>2. CASE InsertDispute(w) \/ FlipDisputed(w) \/ RestoreDisputed(w)
  BY <1>2, RecoverGoElsewhere DEF InsertDispute, FlipDisputed, RestoreDisputed, RefundSteps
<1>3. CASE UpsertDispute(w)
  BY <1>3, RecoverGoElsewhere, RecoverLeave DEF UpsertDispute, Answer, RefundSteps
<1>4. CASE NetDispute(w) \/ CancelNetting(w)
  <2>1. OwesOneRow(Rest)'
    BY DEF OwesOneRow, Rest, RefundSteps
  <2>2. clawback' = clawback /\ losses' = losses /\ Leave(w)
    BY <1>4 DEF NetDispute, CancelNetting, Answer
  <2>3. \A v \in Workers : losses = 0 => OwesOneRow(work[v])'
    BY <2>1, <2>2 DEF Leave, Becomes, WorkOK, RecoverInv, OwesOneRow, NotReversed
  <2>4. \A n \in netting' : n.for = "refund" => n \in netting
    <3>1. \A n \in netting : [n EXCEPT !.reversed = TRUE].for = n.for
      BY DEF RowsOK, NettingRow
    <3>2. CASE NetDispute(w)
      <4> DEFINE row == [for |-> "dispute", purchase |-> disputeRow.purchase,
                         reversed |-> FALSE]
      <4>1. netting' \subseteq netting \cup {row}
        BY <3>2 DEF NetDispute
      <4>2. row.for # "refund"
        OBVIOUS
      <4> QED BY <4>1, <4>2
    <3>3. CASE CancelNetting(w)
      BY <3>1, <3>3 DEF CancelNetting
    <3> QED BY <1>4, <3>2, <3>3
  <2> QED BY <2>2, <2>3, <2>4 DEF RecoverInv, NotReversed
<1> QED BY <1>1, <1>2, <1>3, <1>4 DEF Disputing

\* So RecoverInv is inductive.
LEMMA RecoverStep == TypeOK /\ SplitInv /\ RecoverInv /\ [Next]_vars => RecoverInv'
<1> SUFFICES ASSUME TypeOK, SplitInv, RecoverInv, [Next]_vars PROVE RecoverInv'
  OBVIOUS
<1>1. ASSUME NEW w \in Workers, Step(w) PROVE RecoverInv'
  BY <1>1, RecoverCompletion, RecoverRefunding, RecoverDisputing DEF Step
<1> USE DEF TypeOK, rows, tables, stripe, money, mishaps, At
<1>2. ASSUME NEW w \in Workers, StampLost(w) \/ ReverseLost(w) PROVE RecoverInv'
  <2>1. losses' # 0
    BY <1>2, WorkersAssumption DEF StampLost, ReverseLost, WorldOK
  <2> QED BY <2>1 DEF RecoverInv
<1>3. ASSUME NEW w \in Workers, Die(w) PROVE RecoverInv'
  BY <1>3, RecoverLeave DEF Die
<1>4. ASSUME NEW w \in Hooks, NEW i \in DOMAIN log, Deliver(w, i) PROVE RecoverInv'
  <2> DEFINE s == [work[w] EXCEPT !.pc = log[i], !.event = log[i]]
  <2>1. log[i] \in Events
    BY DEF WorldOK
  <2>2. s.pc \notin RefundSteps /\ ~s.owed
    BY <1>4, <2>1 DEF Deliver, Rest, Events, RefundSteps
  <2> QED BY <1>4, <2>2, RecoverFree DEF Deliver, Workers
<1>5. ASSUME NEW w \in Jobs, ReadDebts(w) PROVE RecoverInv'
  <2>1. ASSUME NEW debts
        PROVE  /\ [work[w] EXCEPT !.pc = "split", !.todo = debts].pc \notin RefundSteps
               /\ ~[work[w] EXCEPT !.pc = "split", !.todo = debts].owed
    BY <1>5 DEF ReadDebts, Rest, RefundSteps
  <2> QED BY <1>5, <2>1, RecoverFree DEF ReadDebts, Workers
<1>6. ASSUME NEW w \in Routes, NEW p \in Purchases, AskRefund(w, p) PROVE RecoverInv'
  <2>1. OwesOneRow([work[w] EXCEPT !.pc = "refund", !.hand = {p}, !.todo = {p},
                                   !.sent = stamp \cap {p}])
    BY <1>6 DEF AskRefund, OwesOneRow, Rest, RefundSteps
  <2> QED BY <1>6, <2>1, RecoverKept DEF AskRefund, Workers
<1>7. CASE UNCHANGED <<work, clawback, netting, losses>>
  BY <1>7 DEF RecoverInv, OwesOneRow, NotReversed
<1>8. CASE World
  BY <1>7, <1>8 DEF World, Decline, Charge, RefundAtStripe, Dispute, CloseDispute, Release,
                    AccountUpdated
<1>9. CASE UNCHANGED vars
  BY <1>7, <1>9 DEF vars
<1> QED BY <1>1, <1>2, <1>3, <1>4, <1>5, <1>6, <1>8, <1>9 DEF Next, Mishap

\* No share is taken back twice: where a reversal brought it back, no netting asks
\* for it again, whichever of the route and the webhook settled the refund, in
\* whatever order, and whatever died; as long as Stripe's answers arrive.
THEOREM RecoveredOneWayAlways == Spec => []RecoveredOneWay
<1>1. RecoverInv => RecoveredOneWay
  BY DEF RecoverInv, RecoveredOneWay, NettingsOf, NotReversed
<1> QED
  BY <1>1, TypeInit, TypeStep, SplitInit, SplitStep, RecoverInit, RecoverStep, PTL DEF Spec

-----------------------------------------------------------------------------
(* How workers move: who acts, and what a step leaves of what it holds.    *)

Acts(w) ==
    \/ Step(w) \/ Mishap(w)
    \/ w \in Hooks /\ \E i \in DOMAIN log : Deliver(w, i)
    \/ w \in Jobs /\ ReadDebts(w)
    \/ w \in Routes /\ \E p \in Purchases : AskRefund(w, p)

\* Every step is of the world or of one worker.
LEMMA WhoActs == Next => World \/ \E w \in Workers : Acts(w)
  BY DEF Next, Acts, Workers

\* The environment touches no worker and none of the tables, but for a held credit.
LEMMA WorldActs ==
  ASSUME World
  PROVE  /\ UNCHANGED <<rows, shipment, receipts, netting, shortfall, disputeRow, acked, moved,
                        clawback, refunded, work, deaths, losses, unfit>>
         /\ Release(CHOOSE p \in Goods : Release(p)) \/ UNCHANGED <<saleCredit, goodsPaid>>
<1>1. ASSUME NEW p \in Goods, Release(p) PROVE Release(CHOOSE q \in Goods : Release(q))
  BY <1>1
<1> QED BY <1>1 DEF World, Decline, Charge, RefundAtStripe, Dispute, CloseDispute, Release,
              AccountUpdated, tables, money, mishaps, rows

\* A worker's record is written and no other's.
LEMMA Updated ==
  ASSUME WorkOK, NEW w \in Workers, NEW s, Becomes(w, s)
  PROVE  work'[w] = s /\ \A v \in Workers : v # w => work'[v] = work[v]
  BY DEF WorkOK, Becomes

\* While one worker acts, the others stay where they are.
LEMMA OthersRest ==
  ASSUME WorkOK, NEW w \in Workers, Acts(w)
  PROVE  \A v \in Workers : v # w => work'[v] = work[v]
<1>1. \E s : Becomes(w, s)
  BY DEF Acts, Step, Completion, Refunding, Disputing, Mishap, ReadSession, Key, Group,
       SplitDone,
       CreditGoods, Ship, Complete, ReadSettled, OweReceipts, Fail, SkipCreator, Transfer,
       KeyRefused, Stamp, IssueRefund, ReadHold, DropHold, ReadCharge, NextRow, NothingToReverse, Reverse, Settle,
       OweRefund, NetRefund, Book, ReadDisputed, InsertDispute, FlipDisputed, NetDispute,
       UpsertDispute, RestoreDisputed, CancelNetting, StampLost, ReverseLost, Die, Deliver,
       ReadDebts, AskRefund, Go, Leave, Answer, After
<1> QED BY <1>1, Updated

-----------------------------------------------------------------------------
(* What each action leaves of what its worker holds.                       *)

\* Worker w is done, or holds what it held but for where it is.
LEMMA Leaving ==
  ASSUME WorkOK, NEW w \in Workers, Leave(w)
  PROVE  work'[w] = Rest
  BY Updated DEF Leave

\* A worker that goes on changes its place alone.
LEMMA Going ==
  ASSUME WorkOK, NEW w \in Workers, NEW pc, Go(w, pc)
  PROVE  /\ work'[w].pc = pc
         /\ UNCHANGED <<work[w].event, work[w].read, work[w].todo, work[w].hand, work[w].sent,
                        work[w].owed, work[w].first>>
  BY Updated DEF Go, WorkOK, IsWorker, Rest

\* What Deliver does to the worker that takes it.
LEMMA DeliverMoves ==
  ASSUME WorkOK, NEW w \in Workers, NEW i, Deliver(w, i)
  PROVE  /\ work[w] = Rest
         /\ work'[w].pc = log[i] /\ work'[w].event = log[i]
         /\ UNCHANGED <<work[w].read, work[w].todo, work[w].hand, work[w].sent,
                        work[w].owed, work[w].first>>
<1>0. DOMAIN work[w] = DOMAIN Rest
  BY DEF WorkOK, IsWorker
<1>1. work'[w] = [work[w] EXCEPT !.pc = log[i], !.event = log[i]]
  BY Updated DEF Deliver
<1> QED BY <1>0, <1>1 DEF Deliver, Rest

\* What ReadDebts does to the worker that takes it.
LEMMA ReadDebtsMoves ==
  ASSUME WorkOK, NEW w \in Workers, ReadDebts(w)
  PROVE  /\ work[w] = Rest /\ w \in Jobs
         /\ work'[w].pc = "split"
         /\ work'[w].todo = (With("completed") \cap keyed) \ (stamp \cup Goods)
         /\ UNCHANGED <<work[w].event, work[w].read, work[w].hand, work[w].sent,
                        work[w].owed, work[w].first>>
<1>0. DOMAIN work[w] = DOMAIN Rest
  BY DEF WorkOK, IsWorker
<1>1. work'[w] = [work[w] EXCEPT !.pc = "split",
                                 !.todo = (With("completed") \cap keyed) \ (stamp \cup Goods)]
  BY Updated DEF ReadDebts
<1> QED BY <1>0, <1>1 DEF ReadDebts, Rest

\* What AskRefund does to the worker that takes it.
LEMMA AskRefundMoves ==
  ASSUME WorkOK, NEW w \in Workers, NEW p \in Purchases, AskRefund(w, p)
  PROVE  /\ work[w] = Rest /\ w \in Routes /\ status[p] = "completed"
         /\ work'[w].pc = "refund" /\ work'[w].hand = {p} /\ work'[w].todo = {p}
         /\ work'[w].sent = stamp \cap {p}
         /\ UNCHANGED <<work[w].event, work[w].read, work[w].owed, work[w].first>>
<1>0. DOMAIN work[w] = DOMAIN Rest
  BY DEF WorkOK, IsWorker
<1>1. work'[w] = [work[w] EXCEPT !.pc = "refund", !.hand = {p}, !.todo = {p},
                                 !.sent = stamp \cap {p}]
  BY Updated DEF AskRefund
<1> QED BY <1>0, <1>1 DEF AskRefund, Rest

\* What ReadSession does to the worker that takes it.
LEMMA ReadSessionMoves ==
  ASSUME WorkOK, NEW w \in Workers, ReadSession(w)
  PROVE  /\ work[w].pc = "succeeded"
         /\ work'[w].read = Found /\ work'[w].todo = work'[w].read
         /\ work'[w].pc = IF work'[w].read = {} THEN "complete" ELSE "key"
         /\ UNCHANGED <<work[w].event, work[w].hand, work[w].sent, work[w].owed, work[w].first>>
<1>0. DOMAIN work[w] = DOMAIN Rest
  BY DEF WorkOK, IsWorker
<1>1. work'[w] = [work[w] EXCEPT
                   !.pc = IF Found = {} THEN "complete" ELSE "key",
                   !.read = Found, !.todo = Found]
  BY Updated DEF ReadSession
<1> QED BY <1>0, <1>1 DEF ReadSession, At, Rest

\* What Key does to the worker that takes it.
LEMMA KeyMoves ==
  ASSUME WorkOK, NEW w \in Workers, Key(w)
  PROVE  /\ work[w].pc = "key"
         /\ \E p \in work[w].todo :
               /\ keyed' = IF status[p] = "pending" THEN keyed \cup {p} ELSE keyed
               /\ work'[w].todo = work[w].todo \ {p}
               /\ work'[w].pc = IF work[w].todo = {p} THEN "group" ELSE "key"
         /\ UNCHANGED <<work[w].event, work[w].read, work[w].hand, work[w].sent,
                        work[w].owed, work[w].first>>
<1>1. PICK p \in work[w].todo :
         /\ keyed' = IF status[p] = "pending" THEN keyed \cup {p} ELSE keyed
         /\ Becomes(w, [work[w] EXCEPT !.todo = @ \ {p},
                                       !.pc = IF work[w].todo = {p} THEN "group" ELSE @])
  BY DEF Key
<1>0. DOMAIN work[w] = DOMAIN Rest
  BY DEF WorkOK, IsWorker
<1>2. work'[w] = [work[w] EXCEPT !.todo = @ \ {p},
                                 !.pc = IF work[w].todo = {p} THEN "group" ELSE @]
  BY <1>1, Updated
<1> QED BY <1>0, <1>1, <1>2 DEF Key, At, Rest

\* What Group does to the worker that takes it.
LEMMA GroupMoves ==
  ASSUME WorkOK, NEW w \in Workers, Group(w)
  PROVE  /\ work[w].pc = "group" /\ work'[w].pc = "split"
         /\ work'[w].todo = work[w].read \ Goods
         /\ UNCHANGED <<work[w].event, work[w].read, work[w].hand, work[w].sent,
                        work[w].owed, work[w].first>>
<1>0. DOMAIN work[w] = DOMAIN Rest
  BY DEF WorkOK, IsWorker
<1>1. work'[w] = [work[w] EXCEPT !.pc = "split", !.todo = work[w].read \ Goods]
  BY Updated DEF Group
<1> QED BY <1>0, <1>1 DEF Group, At, Rest

\* What PassCreator does to the worker that takes it.
LEMMA PassCreatorMoves ==
  ASSUME WorkOK, NEW w \in Workers, NEW k, SkipCreator(w, k) \/ KeyRefused(w, k)
  PROVE  /\ work[w].pc = "split" /\ work'[w].pc = "split"
         /\ work'[w].todo = work[w].todo \ Sold(k)
         /\ UNCHANGED <<work[w].event, work[w].read, work[w].hand, work[w].sent,
                        work[w].owed, work[w].first>>
  BY Updated DEF SkipCreator, KeyRefused, At, WorkOK, IsWorker, Rest

\* What Transfer does to the worker that takes it.
LEMMA TransferMoves ==
  ASSUME WorkOK, NEW w \in Workers, NEW k, Transfer(w, k)
  PROVE  /\ work[w].pc = "split" /\ work'[w].pc = "stamp"
         /\ work'[w].hand = InGroup(w, k)
         /\ UNCHANGED <<work[w].event, work[w].read, work[w].todo, work[w].sent,
                        work[w].owed, work[w].first>>
<1>0. DOMAIN work[w] = DOMAIN Rest
  BY DEF WorkOK, IsWorker
<1>1. work'[w] = [work[w] EXCEPT !.pc = "stamp", !.hand = InGroup(w, k)]
  BY Updated DEF Transfer
<1> QED BY <1>0, <1>1 DEF Transfer, At, Rest

\* What Stamp does to the worker that takes it.
LEMMA StampMoves ==
  ASSUME WorkOK, NEW w \in Workers, Stamp(w) \/ StampLost(w)
  PROVE  /\ work[w].pc = "stamp" /\ work'[w].pc = "split"
         /\ work'[w].todo = work[w].todo \ work[w].hand /\ work'[w].hand = {}
         /\ UNCHANGED <<work[w].event, work[w].read, work[w].sent, work[w].owed, work[w].first>>
<1>0. DOMAIN work[w] = DOMAIN Rest
  BY DEF WorkOK, IsWorker
<1>1. work'[w] = [work[w] EXCEPT !.pc = "split", !.todo = @ \ work[w].hand, !.hand = {}]
  BY Updated DEF Stamp, StampLost
<1> QED BY <1>0, <1>1 DEF Stamp, StampLost, At, Rest

\* What SplitDone does to the worker that takes it.
LEMMA SplitDoneMoves ==
  ASSUME WorkOK, NEW w \in Workers, SplitDone(w)
  PROVE  /\ work[w].pc = "split" /\ work[w].todo = {}
         /\ w \in Jobs => work'[w] = Rest
         /\ w \notin Jobs =>
               /\ work'[w].pc = "credit" /\ work'[w].todo = work[w].read \cap Goods
               /\ UNCHANGED <<work[w].event, work[w].read, work[w].hand, work[w].sent,
                              work[w].owed, work[w].first>>
<1>1. CASE w \in Jobs
  BY <1>1, Leaving DEF SplitDone, At
<1>2. CASE w \notin Jobs
  <2>0. DOMAIN work[w] = DOMAIN Rest
    BY DEF WorkOK, IsWorker
  <2>1. work'[w] = [work[w] EXCEPT !.pc = "credit", !.todo = work[w].read \cap Goods]
    BY <1>2, Updated DEF SplitDone
  <2> QED BY <1>2, <2>0, <2>1 DEF SplitDone, At, Rest
<1> QED BY <1>1, <1>2

\* What CreditGoods does to the worker that takes it.
LEMMA CreditGoodsMoves ==
  ASSUME WorkOK, NEW w \in Workers, CreditGoods(w)
  PROVE  /\ work[w].pc = "credit"
         /\ \/ \E p \in work[w].todo :
                  /\ saleCredit' = [saleCredit EXCEPT ![p] = IF @ = "none" THEN "held" ELSE @]
                  /\ work'[w].todo = work[w].todo \ {p} /\ work'[w].pc = "credit"
            \/ /\ work[w].todo = {} /\ saleCredit' = saleCredit
               /\ work'[w].todo = work[w].read \cap Goods /\ work'[w].pc = "ship"
         /\ UNCHANGED <<work[w].event, work[w].read, work[w].hand, work[w].sent,
                        work[w].owed, work[w].first>>
<1>1. ASSUME NEW p \in work[w].todo,
             saleCredit' = [saleCredit EXCEPT ![p] = IF @ = "none" THEN "held" ELSE @],
             Becomes(w, [work[w] EXCEPT !.todo = @ \ {p}])
      PROVE  /\ work'[w].todo = work[w].todo \ {p} /\ work'[w].pc = work[w].pc
             /\ UNCHANGED <<work[w].event, work[w].read, work[w].hand, work[w].sent,
                            work[w].owed, work[w].first>>
  BY <1>1, Updated DEF WorkOK, IsWorker, Rest
<1>2. ASSUME Becomes(w, [work[w] EXCEPT !.pc = "ship", !.todo = work[w].read \cap Goods])
      PROVE  /\ work'[w].todo = work[w].read \cap Goods /\ work'[w].pc = "ship"
             /\ UNCHANGED <<work[w].event, work[w].read, work[w].hand, work[w].sent,
                            work[w].owed, work[w].first>>
  <2>0. DOMAIN work[w] = DOMAIN Rest
    BY DEF WorkOK, IsWorker
  <2>1. work'[w] = [work[w] EXCEPT !.pc = "ship", !.todo = work[w].read \cap Goods]
    BY <1>2, Updated
  <2> QED BY <2>0, <2>1 DEF Rest
<1> QED BY <1>1, <1>2 DEF CreditGoods, At

\* What Ship does to the worker that takes it.
LEMMA ShipMoves ==
  ASSUME WorkOK, NEW w \in Workers, Ship(w)
  PROVE  /\ work[w].pc = "ship"
         /\ \/ \E p \in work[w].todo :
                  /\ shipment' = shipment \cup {p}
                  /\ work'[w].todo = work[w].todo \ {p} /\ work'[w].pc = "ship"
                  /\ work'[w].read = work[w].read
            \/ /\ work[w].todo = {} /\ shipment' = shipment
               /\ work'[w].todo = {} /\ work'[w].pc = "complete" /\ work'[w].read = {}
         /\ UNCHANGED <<work[w].event, work[w].hand, work[w].sent, work[w].owed, work[w].first>>
<1>1. ASSUME NEW p \in work[w].todo, shipment' = shipment \cup {p},
             Becomes(w, [work[w] EXCEPT !.todo = @ \ {p}])
      PROVE  /\ work'[w].todo = work[w].todo \ {p} /\ work'[w].pc = work[w].pc
             /\ UNCHANGED <<work[w].event, work[w].read, work[w].hand, work[w].sent,
                            work[w].owed, work[w].first>>
  BY <1>1, Updated DEF WorkOK, IsWorker, Rest
<1>2. ASSUME Becomes(w, [work[w] EXCEPT !.pc = "complete", !.read = {}])
      PROVE  /\ work'[w].pc = "complete" /\ work'[w].read = {}
             /\ UNCHANGED <<work[w].event, work[w].todo, work[w].hand, work[w].sent,
                            work[w].owed, work[w].first>>
  <2>1. DOMAIN work[w] = DOMAIN Rest
    BY DEF WorkOK, IsWorker
  <2>2. work'[w] = [work[w] EXCEPT !.pc = "complete", !.read = {}]
    BY <1>2, Updated
  <2> QED BY <2>1, <2>2 DEF Rest
<1>3. CASE \E p \in work[w].todo : /\ shipment' = shipment \cup {p}
                                  /\ Becomes(w, [work[w] EXCEPT !.todo = @ \ {p}])
  BY <1>1, <1>3 DEF Ship, At
<1>4. CASE /\ work[w].todo = {} /\ shipment' = shipment
           /\ Becomes(w, [work[w] EXCEPT !.pc = "complete", !.read = {}])
  BY <1>2, <1>4 DEF Ship, At
<1> QED BY <1>3, <1>4 DEF Ship

\* What Complete does to the worker that takes it.
LEMMA CompleteMoves ==
  ASSUME WorkOK, NEW w \in Workers, Complete(w)
  PROVE  /\ work[w].pc = "complete" /\ work'[w].pc = "settled"
         /\ UNCHANGED <<work[w].event, work[w].read, work[w].todo, work[w].hand, work[w].sent,
                        work[w].owed, work[w].first>>
  BY Going DEF Complete, At

\* What ReadSettled does to the worker that takes it.
LEMMA ReadSettledMoves ==
  ASSUME WorkOK, NEW w \in Workers, ReadSettled(w)
  PROVE  /\ work[w].pc = "settled" /\ work'[w].pc = "receipt"
         /\ work'[w].todo = With("completed") \cap keyed
         /\ UNCHANGED <<work[w].event, work[w].read, work[w].hand, work[w].sent, work[w].owed,
                        work[w].first>>
<1>0. DOMAIN work[w] = DOMAIN Rest
  BY DEF WorkOK, IsWorker
<1>1. work'[w] = [work[w] EXCEPT !.pc = "receipt", !.todo = With("completed") \cap keyed]
  BY Updated DEF ReadSettled
<1> QED BY <1>0, <1>1 DEF ReadSettled, At, Rest

\* What OweReceipts does to the worker that takes it.
LEMMA OweReceiptsMoves ==
  ASSUME WorkOK, NEW w \in Workers, OweReceipts(w)
  PROVE  /\ work[w].pc = "receipt"
         /\ \/ \E p \in work[w].todo :
                  /\ receipts' = receipts \cup {<<p, "purchase">>} /\ acked' = acked
                  /\ work'[w].todo = work[w].todo \ {p} /\ work'[w].pc = "receipt"
                  /\ UNCHANGED <<work[w].event, work[w].read, work[w].hand, work[w].sent,
                                 work[w].owed, work[w].first>>
            \/ /\ work[w].todo = {} /\ receipts' = receipts
               /\ acked' = acked \cup {work[w].event} /\ work'[w] = Rest
<1>1. ASSUME NEW p \in work[w].todo, Becomes(w, [work[w] EXCEPT !.todo = @ \ {p}])
      PROVE  /\ work'[w].todo = work[w].todo \ {p} /\ work'[w].pc = work[w].pc
             /\ UNCHANGED <<work[w].event, work[w].read, work[w].hand, work[w].sent,
                            work[w].owed, work[w].first>>
  BY <1>1, Updated DEF WorkOK, IsWorker, Rest
<1> QED BY <1>1, Leaving DEF OweReceipts, Answer, At

\* What IssueRefund does to the worker that takes it.
LEMMA IssueRefundMoves ==
  ASSUME WorkOK, NEW w \in Workers, IssueRefund(w)
  PROVE  LET p == CHOOSE q \in Purchases : q \in work[w].hand IN
         /\ work[w].pc = "refund"
         /\ \/ /\ refunded' = refunded \cup {p}
               /\ p \in refunded \/ (~dashboard /\ dispute \notin {"open", "lost"})
               /\ log' = IF refunded' = Purchases /\ "refunded" \notin Emitted
                           THEN Append(log, "refunded") ELSE log
               /\ work'[w].pc = "hold"
               /\ UNCHANGED <<work[w].event, work[w].read, work[w].todo, work[w].hand,
                              work[w].sent, work[w].owed, work[w].first>>
            \/ p \notin refunded /\ work'[w] = Rest /\ UNCHANGED <<refunded, log>>
  BY Going, Leaving DEF IssueRefund, At

\* What ReadHold does to the worker that takes it.
LEMMA ReadHoldMoves ==
  ASSUME TypeOK, NEW w \in Workers, ReadHold(w)
  PROVE  LET p == CHOOSE q \in Purchases : q \in work[w].hand
             state == IF p \in Goods THEN saleCredit[p] ELSE "none"
         IN  /\ work[w].pc = "hold"
             /\ state \in {"none", "held", "released"}
             /\ state = "none" => work'[w].pc = "claw" /\ ~work'[w].owed
             /\ state = "held" => work'[w].pc = "drop" /\ ~work'[w].owed
             /\ state = "released" => work'[w].pc = "settle" /\ work'[w].owed
             /\ UNCHANGED <<work[w].event, work[w].read, work[w].todo, work[w].hand,
                            work[w].sent, work[w].first>>
<1> DEFINE p == CHOOSE q \in Purchases : q \in work[w].hand
           state == IF p \in Goods THEN saleCredit[p] ELSE "none"
<1>0. DOMAIN work[w] = DOMAIN Rest
  BY DEF TypeOK, WorkOK, IsWorker
<1>1. state \in {"none", "held", "released"}
  BY DEF TypeOK, RowsOK
<1>2. work[w].pc = "hold" /\ Becomes(w, [work[w] EXCEPT !.owed = (state = "released"),
                                  !.pc = CASE state = "none"     -> "claw"
                                           [] state = "held"     -> "drop"
                                           [] state = "released" -> "settle"])
  BY DEF ReadHold, At
<1> HIDE DEF p, state
<1>3. work'[w] = [work[w] EXCEPT !.owed = (state = "released"),
                                 !.pc = CASE state = "none"     -> "claw"
                                          [] state = "held"     -> "drop"
                                          [] state = "released" -> "settle"]
  BY <1>2, Updated, ZenonT(40) DEF TypeOK
<1>4. /\ state = "none" => work'[w].pc = "claw" /\ ~work'[w].owed
      /\ state = "held" => work'[w].pc = "drop" /\ ~work'[w].owed
      /\ state = "released" => work'[w].pc = "settle" /\ work'[w].owed
      /\ UNCHANGED <<work[w].event, work[w].read, work[w].todo, work[w].hand,
                     work[w].sent, work[w].first>>
  BY <1>0, <1>1, <1>3 DEF Rest
<1> QED BY <1>1, <1>2, <1>4 DEF p, state

\* What DropHold does to the worker that takes it.
LEMMA DropHoldMoves ==
  ASSUME WorkOK, NEW w \in Workers, DropHold(w)
  PROVE  /\ work[w].pc = "drop" /\ work'[w].pc = "claw"
         /\ UNCHANGED <<work[w].event, work[w].read, work[w].todo, work[w].hand, work[w].sent,
                        work[w].owed, work[w].first>>
  BY Going DEF DropHold, At

\* What ReadCharge does to the worker that takes it.
LEMMA ReadChargeMoves ==
  ASSUME WorkOK, NEW w \in Workers, ReadCharge(w)
  PROVE  /\ work[w].pc = "refunded" /\ work'[w].pc = "next"
         /\ work'[w].todo = keyed /\ work'[w].sent = stamp
         /\ UNCHANGED <<work[w].event, work[w].read, work[w].hand, work[w].owed, work[w].first>>
<1>0. DOMAIN work[w] = DOMAIN Rest
  BY DEF WorkOK, IsWorker
<1>1. work'[w] = [work[w] EXCEPT !.pc = "next", !.todo = keyed, !.sent = stamp]
  BY Updated DEF ReadCharge
<1> QED BY <1>0, <1>1 DEF ReadCharge, At, Rest

\* What NextRow does to the worker that takes it.
LEMMA NextRowMoves ==
  ASSUME WorkOK, NEW w \in Workers, NextRow(w)
  PROVE  /\ work[w].pc = "next"
         /\ \/ /\ \E p \in work[w].todo : work'[w].hand = {p}
               /\ work'[w].pc = "claw" /\ ~work'[w].owed /\ ~work'[w].first
               /\ UNCHANGED <<acked, work[w].event, work[w].read, work[w].todo, work[w].sent>>
            \/ work[w].todo = {} /\ Answer(w) /\ work'[w] = Rest
<1>1. ASSUME NEW p \in work[w].todo, UNCHANGED acked,
             Becomes(w, [work[w] EXCEPT !.pc = "claw", !.hand = {p}, !.owed = FALSE,
                                        !.first = FALSE])
      PROVE  /\ work'[w].hand = {p} /\ work'[w].pc = "claw"
             /\ ~work'[w].owed /\ ~work'[w].first
             /\ UNCHANGED <<work[w].event, work[w].read, work[w].todo, work[w].sent>>
  <2>0. DOMAIN work[w] = DOMAIN Rest
    BY DEF WorkOK, IsWorker
  <2>1. work'[w] = [work[w] EXCEPT !.pc = "claw", !.hand = {p}, !.owed = FALSE, !.first = FALSE]
    BY <1>1, Updated
  <2> QED BY <2>0, <2>1 DEF Rest
<1>2. Answer(w) => work'[w] = Rest
  BY Leaving DEF Answer
<1> QED BY <1>1, <1>2 DEF NextRow, At

\* Whatever came of the share, the row is settled next.
LEMMA ClawMoves ==
  ASSUME WorkOK, NEW w \in Workers, NothingToReverse(w) \/ Reverse(w) \/ ReverseLost(w)
  PROVE  /\ work[w].pc = "claw" /\ work'[w].pc = "settle"
         /\ work'[w].owed \in BOOLEAN
         /\ NothingToReverse(w) => ~work'[w].owed
         /\ UNCHANGED <<work[w].event, work[w].read, work[w].todo, work[w].hand, work[w].sent,
                        work[w].first>>
<1>0. DOMAIN work[w] = DOMAIN Rest
  BY DEF WorkOK, IsWorker
<1>1. ASSUME NEW owed \in BOOLEAN, Becomes(w, [work[w] EXCEPT !.owed = owed, !.pc = "settle"])
      PROVE  /\ work'[w].pc = "settle" /\ work'[w].owed = owed
             /\ UNCHANGED <<work[w].event, work[w].read, work[w].todo, work[w].hand, work[w].sent,
                            work[w].first>>
  <2>1. work'[w] = [work[w] EXCEPT !.owed = owed, !.pc = "settle"]
    BY <1>1, Updated
  <2> QED BY <1>0, <2>1 DEF Rest
<1>2. work[w].pc = "claw"
  BY DEF NothingToReverse, Reverse, ReverseLost, At
<1>3. ASSUME NothingToReverse(w)
      PROVE  Becomes(w, [work[w] EXCEPT !.owed = FALSE, !.pc = "settle"])
  BY <1>3 DEF NothingToReverse
<1>4. ASSUME Reverse(w)
      PROVE  \E owed \in BOOLEAN : Becomes(w, [work[w] EXCEPT !.owed = owed, !.pc = "settle"])
  BY <1>4 DEF Reverse
<1>5. ASSUME ReverseLost(w)
      PROVE  Becomes(w, [work[w] EXCEPT !.owed = TRUE, !.pc = "settle"])
  BY <1>5 DEF ReverseLost
<1> QED BY <1>1, <1>2, <1>3, <1>4, <1>5

\* What Settle does to the worker that takes it.
LEMMA SettleMoves ==
  ASSUME WorkOK, NEW w \in Workers, Settle(w)
  PROVE  /\ work[w].pc = "settle" /\ work'[w].pc = "owe"
         /\ work'[w].first = (work[w].hand \cap With("completed") # {})
         /\ UNCHANGED <<work[w].event, work[w].read, work[w].todo, work[w].hand, work[w].sent,
                        work[w].owed>>
<1>0. DOMAIN work[w] = DOMAIN Rest
  BY DEF WorkOK, IsWorker
<1>1. work'[w] = [work[w] EXCEPT !.first = (work[w].hand \cap With("completed") # {}),
                                 !.pc = "owe"]
  BY Updated DEF Settle
<1> QED BY <1>0, <1>1 DEF Settle, At, Rest

\* What After does to the worker that takes it.
LEMMA AfterMoves ==
  ASSUME WorkOK, NEW w \in Workers, After(w)
  PROVE  /\ w \in Routes => work'[w] = Rest
         /\ w \notin Routes =>
               /\ work'[w].todo = work[w].todo \ work[w].hand /\ work'[w].hand = {}
               /\ work'[w].pc = "next"
               /\ UNCHANGED <<work[w].event, work[w].read, work[w].sent, work[w].owed,
                              work[w].first>>
<1>1. CASE w \in Routes
  BY <1>1, Leaving DEF After
<1>2. CASE w \notin Routes
  <2>0. DOMAIN work[w] = DOMAIN Rest
    BY DEF WorkOK, IsWorker
  <2>1. work'[w] = [work[w] EXCEPT !.todo = @ \ work[w].hand, !.hand = {}, !.pc = "next"]
    BY <1>2, Updated DEF After
  <2> QED BY <1>2, <2>0, <2>1 DEF Rest
<1> QED BY <1>1, <1>2

\* What OweRefund does to the worker that takes it.
LEMMA OweRefundMoves ==
  ASSUME WorkOK, NEW w \in Workers, OweRefund(w)
  PROVE  /\ work[w].pc = "owe"
         /\ work[w].first =>
               /\ work'[w].pc = "net"
               /\ UNCHANGED <<work[w].event, work[w].read, work[w].todo, work[w].hand,
                              work[w].sent, work[w].owed, work[w].first>>
         /\ ~work[w].first => After(w)
  BY Going DEF OweRefund, At

\* What NetRefund does to the worker that takes it.
LEMMA NetRefundMoves ==
  ASSUME WorkOK, NEW w \in Workers, NetRefund(w)
  PROVE  /\ work[w].pc = "net" /\ work'[w].pc = "book"
         /\ UNCHANGED <<work[w].event, work[w].read, work[w].todo, work[w].hand, work[w].sent,
                        work[w].owed, work[w].first>>
  BY Going DEF NetRefund, At

\* What ReadDisputed does to the worker that takes it.
LEMMA ReadDisputedMoves ==
  ASSUME WorkOK, NEW w \in Workers, ReadDisputed(w)
  PROVE  /\ work[w].pc = "created" /\ work'[w].pc = "insert" /\ work'[w].read = keyed
         /\ UNCHANGED <<work[w].event, work[w].todo, work[w].hand, work[w].sent,
                        work[w].owed, work[w].first>>
<1>0. DOMAIN work[w] = DOMAIN Rest
  BY DEF WorkOK, IsWorker
<1>1. work'[w] = [work[w] EXCEPT !.pc = "insert", !.read = keyed]
  BY Updated DEF ReadDisputed
<1> QED BY <1>0, <1>1 DEF ReadDisputed, At, Rest

\* What InsertDispute does to the worker that takes it.
LEMMA InsertDisputeMoves ==
  ASSUME WorkOK, NEW w \in Workers, InsertDispute(w)
  PROVE  /\ work[w].pc = "insert"
         /\ work'[w].pc = IF work[w].read = {} THEN "net dispute" ELSE "flip"
         /\ UNCHANGED <<work[w].event, work[w].read, work[w].todo, work[w].hand, work[w].sent,
                        work[w].owed, work[w].first>>
  BY Going DEF InsertDispute, At

\* What FlipDisputed does to the worker that takes it.
LEMMA FlipDisputedMoves ==
  ASSUME WorkOK, NEW w \in Workers, FlipDisputed(w)
  PROVE  /\ work[w].pc = "flip" /\ work'[w].pc = "net dispute"
         /\ UNCHANGED <<work[w].event, work[w].read, work[w].todo, work[w].hand, work[w].sent,
                        work[w].owed, work[w].first>>
  BY Going DEF FlipDisputed, At

\* What UpsertDispute does to the worker that takes it.
LEMMA UpsertDisputeMoves ==
  ASSUME WorkOK, NEW w \in Workers, UpsertDispute(w)
  PROVE  /\ work[w].pc = "closed"
         /\ dispute = "won" =>
               /\ work'[w].pc = "restore"
               /\ UNCHANGED <<acked, work[w].event, work[w].read, work[w].todo, work[w].hand,
                              work[w].sent, work[w].owed, work[w].first>>
         /\ dispute # "won" => Answer(w) /\ work'[w] = Rest
  BY Going, Leaving DEF UpsertDispute, At, Answer

\* What RestoreDisputed does to the worker that takes it.
LEMMA RestoreDisputedMoves ==
  ASSUME WorkOK, NEW w \in Workers, RestoreDisputed(w)
  PROVE  /\ work[w].pc = "restore" /\ work'[w].pc = "cancel"
         /\ UNCHANGED <<work[w].event, work[w].read, work[w].todo, work[w].hand, work[w].sent,
                        work[w].owed, work[w].first>>
  BY Going DEF RestoreDisputed, At

\* The last step of a delivery answers the event, and the worker rests.
LEMMA AnswerMoves ==
  ASSUME WorkOK, NEW w \in Workers,
         Fail(w) \/ NetDispute(w) \/ CancelNetting(w)
  PROVE  /\ Fail(w) => work[w].pc = "failed"
         /\ NetDispute(w) => work[w].pc = "net dispute"
         /\ CancelNetting(w) => work[w].pc = "cancel"
         /\ acked' = acked \cup {work[w].event}
         /\ work'[w] = Rest
  BY Leaving DEF Fail, NetDispute, CancelNetting, Answer, At

\* What Book does to the worker that takes it.
LEMMA BookMoves ==
  ASSUME WorkOK, NEW w \in Workers, Book(w)
  PROVE  work[w].pc = "book" /\ After(w)
  BY DEF Book, At

\* What Die does to the worker that takes it.
LEMMA DieMoves ==
  ASSUME WorkOK, NEW w \in Workers, Die(w)
  PROVE  work[w] # Rest /\ work'[w] = Rest /\ deaths' = deaths + 1
  BY Leaving DEF Die

-----------------------------------------------------------------------------
(* Which action brings a worker where it is, and which takes it away.      *)

Completing == {"succeeded", "key", "group", "split", "stamp", "credit", "ship", "complete",
               "settled", "receipt"}
Undoing == {"refunded", "next", "claw", "settle", "owe", "net", "book"}
Taking == {"created", "insert", "flip", "net dispute"}
Closing == {"closed", "restore", "cancel"}

Places == Completing \cup {"failed"} \cup Undoing \cup Taking \cup Closing \cup RefundSteps
          \cup {"rest"}

\* Where a delivery may end.
Answering == {"receipt", "failed", "next", "net dispute", "closed", "cancel"}

DeliveredTo(w) == w \in Hooks /\ \E i \in DOMAIN log : Deliver(w, i)

\* Where worker w is after a step says which step it was.
CameBy(w) ==
    /\ work'[w].pc \in Places
    /\ work'[w].pc = "rest" => work'[w] = Rest
    /\ work'[w].pc \in Events => DeliveredTo(w)
    /\ work'[w].pc = "key" => ReadSession(w) \/ Key(w)
    /\ work'[w].pc = "group" => Key(w)
    /\ work'[w].pc = "split" => \/ Group(w) \/ Stamp(w) \/ StampLost(w) \/ ReadDebts(w)
                                \/ \E k \in Creators : SkipCreator(w, k) \/ KeyRefused(w, k)
    /\ work'[w].pc = "stamp" => \E k \in Creators : Transfer(w, k)
    /\ work'[w].pc = "credit" => SplitDone(w) \/ CreditGoods(w)
    /\ work'[w].pc = "ship" => CreditGoods(w) \/ Ship(w)
    /\ work'[w].pc = "complete" => ReadSession(w) \/ Ship(w)
    /\ work'[w].pc = "settled" => Complete(w)
    /\ work'[w].pc = "receipt" => ReadSettled(w) \/ OweReceipts(w)
    /\ work'[w].pc = "refund" => \E p \in Purchases : AskRefund(w, p)
    /\ work'[w].pc = "hold" => IssueRefund(w)
    /\ work'[w].pc = "drop" => ReadHold(w)
    /\ work'[w].pc = "next" => ReadCharge(w) \/ OweRefund(w) \/ Book(w)
    /\ work'[w].pc = "claw" => ReadHold(w) \/ DropHold(w) \/ NextRow(w)
    /\ work'[w].pc = "settle" => ReadHold(w) \/ NothingToReverse(w) \/ Reverse(w) \/ ReverseLost(w)
    /\ work'[w].pc = "owe" => Settle(w)
    /\ work'[w].pc = "net" => OweRefund(w)
    /\ work'[w].pc = "book" => NetRefund(w)
    /\ work'[w].pc = "insert" => ReadDisputed(w)
    /\ work'[w].pc = "flip" => InsertDispute(w)
    /\ work'[w].pc = "net dispute" => InsertDispute(w) \/ FlipDisputed(w)
    /\ work'[w].pc = "restore" => UpsertDispute(w)
    /\ work'[w].pc = "cancel" => RestoreDisputed(w)

\* And where it was, which one it can be, if it does not die.
LeavesBy(w) ==
    /\ work[w].pc = "succeeded" => ReadSession(w)
    /\ work[w].pc = "failed" => Fail(w)
    /\ work[w].pc = "refunded" => ReadCharge(w)
    /\ work[w].pc = "created" => ReadDisputed(w)
    /\ work[w].pc = "closed" => UpsertDispute(w)
    /\ work[w].pc = "split" =>
          SplitDone(w) \/ \E k \in Creators : SkipCreator(w, k) \/ Transfer(w, k) \/ KeyRefused(w, k)
    /\ work[w].pc = "key" => Key(w)
    /\ work[w].pc = "group" => Group(w)
    /\ work[w].pc = "stamp" => Stamp(w) \/ StampLost(w)
    /\ work[w].pc = "credit" => CreditGoods(w)
    /\ work[w].pc = "ship" => Ship(w)
    /\ work[w].pc = "complete" => Complete(w)
    /\ work[w].pc = "settled" => ReadSettled(w)
    /\ work[w].pc = "receipt" => OweReceipts(w)
    /\ work[w].pc = "refund" => IssueRefund(w)
    /\ work[w].pc = "hold" => ReadHold(w)
    /\ work[w].pc = "drop" => DropHold(w)
    /\ work[w].pc = "next" => NextRow(w)
    /\ work[w].pc = "claw" => NothingToReverse(w) \/ Reverse(w) \/ ReverseLost(w)
    /\ work[w].pc = "settle" => Settle(w)
    /\ work[w].pc = "owe" => OweRefund(w)
    /\ work[w].pc = "net" => NetRefund(w)
    /\ work[w].pc = "book" => Book(w)
    /\ work[w].pc = "insert" => InsertDispute(w)
    /\ work[w].pc = "flip" => FlipDisputed(w)
    /\ work[w].pc = "net dispute" => NetDispute(w)
    /\ work[w].pc = "restore" => RestoreDisputed(w)
    /\ work[w].pc = "cancel" => CancelNetting(w)

\* Where a worker leaves from, step by step.
LEMMA Leaves ==
  ASSUME NEW w \in Workers, Acts(w), ~Die(w)
  PROVE  LeavesBy(w)
<1> USE DEF LeavesBy, At
<1>1. ASSUME Completion(w) PROVE LeavesBy(w)
  BY <1>1 DEF Completion, ReadSession, Key, Group, SplitDone, CreditGoods, Ship, Complete,
              ReadSettled, OweReceipts, Fail, SkipCreator, Transfer, KeyRefused, Stamp
<1>2. ASSUME Refunding(w) PROVE LeavesBy(w)
  BY <1>2 DEF Refunding, IssueRefund, ReadHold, DropHold, ReadCharge, NextRow, NothingToReverse,
              Reverse, Settle, OweRefund, NetRefund, Book
<1>3. ASSUME Disputing(w) PROVE LeavesBy(w)
  BY <1>3 DEF Disputing, ReadDisputed, InsertDispute, FlipDisputed, NetDispute, UpsertDispute,
              RestoreDisputed, CancelNetting
<1>4. ASSUME StampLost(w) \/ ReverseLost(w) PROVE LeavesBy(w)
  BY <1>4 DEF StampLost, ReverseLost
<1>5. ASSUME work[w] = Rest PROVE LeavesBy(w)
  BY <1>5 DEF Rest
<1> QED BY <1>1, <1>2, <1>3, <1>4, <1>5 DEF Acts, Step, Mishap, Deliver, ReadDebts, AskRefund

\* A worker at rest has come from anywhere.
LEMMA CameDone ==
  ASSUME NEW w, work'[w] = Rest
  PROVE  CameBy(w)
  BY DEF CameBy, Rest, Events, Places

\* A worker that ends a row is at rest or takes the next.
LEMMA CameAfter ==
  ASSUME WorkOK, NEW w \in Workers, After(w), OweRefund(w) \/ Book(w)
  PROVE  CameBy(w)
<1>1. CASE w \in Routes
  BY <1>1, AfterMoves, CameDone
<1>2. CASE w \notin Routes
  BY <1>2, AfterMoves DEF CameBy, Events, Places, Completing, RefundSteps, Undoing, Taking,
       Closing
<1> QED BY <1>1, <1>2

\* By what step a worker comes to a place.
LEMMA Comes ==
  ASSUME TypeOK, NEW w \in Workers, Acts(w)
  PROVE  CameBy(w)
<1> USE DEF TypeOK
<1>1. ASSUME Completion(w) PROVE CameBy(w)
  <2>1. CASE ReadSession(w)
    BY <2>1, ReadSessionMoves DEF CameBy, Events, Places, Completing, RefundSteps, Undoing,
         Taking, Closing
  <2>2. CASE Key(w)
    BY <2>2, KeyMoves DEF CameBy, Events, Places, Completing, RefundSteps, Undoing, Taking,
         Closing
  <2>3. CASE Group(w)
    BY <2>3, GroupMoves DEF CameBy, Events, Places, Completing, RefundSteps, Undoing, Taking,
         Closing
  <2>4. CASE SplitDone(w)
    <3>1. CASE w \in Jobs
      BY <2>4, <3>1, SplitDoneMoves, CameDone
    <3>2. CASE w \notin Jobs
      BY <2>4, <3>2, SplitDoneMoves DEF CameBy, Events, Places, Completing, RefundSteps,
           Undoing, Taking, Closing
    <3> QED BY <3>1, <3>2
  <2>5. CASE CreditGoods(w)
    BY <2>5, CreditGoodsMoves DEF CameBy, Events, Places, Completing, RefundSteps, Undoing,
         Taking, Closing
  <2>6. CASE Ship(w)
    BY <2>6, ShipMoves DEF CameBy, Events, Places, Completing, RefundSteps, Undoing, Taking,
         Closing
  <2>7. CASE Complete(w)
    BY <2>7, CompleteMoves DEF CameBy, Events, Places, Completing, RefundSteps, Undoing,
         Taking, Closing
  <2>8. CASE Fail(w)
    BY <2>8, AnswerMoves, CameDone
  <2>12. CASE ReadSettled(w)
    BY <2>12, ReadSettledMoves DEF CameBy, Events, Places, Completing, RefundSteps, Undoing,
         Taking, Closing
  <2>13. CASE OweReceipts(w)
    <3>1. CASE work'[w] = Rest
      BY <3>1, CameDone
    <3>2. CASE work'[w].pc = "receipt"
      BY <2>13, <3>2 DEF CameBy, Events, Places, Completing, RefundSteps, Undoing, Taking,
           Closing
    <3> QED BY <2>13, <3>1, <3>2, OweReceiptsMoves
  <2>9. ASSUME NEW k \in Creators, SkipCreator(w, k) \/ KeyRefused(w, k) PROVE CameBy(w)
    BY <2>9, PassCreatorMoves DEF CameBy, Events, Places, Completing, RefundSteps, Undoing,
         Taking, Closing
  <2>10. ASSUME NEW k \in Creators, Transfer(w, k) PROVE CameBy(w)
    BY <2>10, TransferMoves DEF CameBy, Events, Places, Completing, RefundSteps, Undoing,
         Taking, Closing
  <2>11. CASE Stamp(w)
    BY <2>11, StampMoves DEF CameBy, Events, Places, Completing, RefundSteps, Undoing, Taking,
         Closing
  <2> QED BY <1>1, <2>1, <2>2, <2>3, <2>4, <2>5, <2>6, <2>7, <2>8, <2>9, <2>10, <2>11,
         <2>12, <2>13 DEF Completion
<1>2. ASSUME Refunding(w) PROVE CameBy(w)
  <2>1. CASE IssueRefund(w)
    <3>1. CASE work'[w] = Rest
      BY <3>1, CameDone
    <3>2. CASE work'[w].pc = "hold"
      BY <2>1, <3>2 DEF CameBy, Events, Places, Completing, RefundSteps, Undoing, Taking,
           Closing
    <3> QED BY <2>1, <3>1, <3>2, IssueRefundMoves
  <2>2. CASE ReadHold(w)
    <3>1. work'[w].pc \in {"claw", "drop", "settle"}
      BY <2>2, ReadHoldMoves
    <3> QED BY <2>2, <3>1 DEF CameBy, Events, Places, Completing, RefundSteps, Undoing,
                 Taking, Closing
  <2>3. CASE DropHold(w)
    BY <2>3, DropHoldMoves DEF CameBy, Events, Places, Completing, RefundSteps, Undoing,
         Taking, Closing
  <2>4. CASE ReadCharge(w)
    BY <2>4, ReadChargeMoves DEF CameBy, Events, Places, Completing, RefundSteps, Undoing,
         Taking, Closing
  <2>5. CASE NextRow(w)
    <3>1. CASE work'[w] = Rest
      BY <3>1, CameDone
    <3>2. CASE work'[w].pc = "claw"
      BY <2>5, <3>2 DEF CameBy, Events, Places, Completing, RefundSteps, Undoing, Taking,
           Closing
    <3> QED BY <2>5, <3>1, <3>2, NextRowMoves
  <2>6. CASE NothingToReverse(w) \/ Reverse(w)
    BY <2>6, ClawMoves DEF CameBy, Events, Places, Completing, RefundSteps, Undoing, Taking,
         Closing
  <2>7. CASE Settle(w)
    BY <2>7, SettleMoves DEF CameBy, Events, Places, Completing, RefundSteps, Undoing, Taking,
         Closing
  <2>8. CASE OweRefund(w)
    <3>1. CASE work[w].first
      BY <2>8, <3>1, OweRefundMoves DEF CameBy, Events, Places, Completing, RefundSteps,
           Undoing, Taking, Closing
    <3>2. CASE ~work[w].first
      BY <2>8, <3>2, OweRefundMoves, CameAfter
    <3> QED BY <3>1, <3>2
  <2>9. CASE NetRefund(w)
    BY <2>9, NetRefundMoves DEF CameBy, Events, Places, Completing, RefundSteps, Undoing,
         Taking, Closing
  <2>10. CASE Book(w)
    BY <2>10, BookMoves, CameAfter
  <2> QED BY <1>2, <2>1, <2>2, <2>3, <2>4, <2>5, <2>6, <2>7, <2>8, <2>9, <2>10 DEF Refunding
<1>3. ASSUME Disputing(w) PROVE CameBy(w)
  <2>1. CASE ReadDisputed(w)
    BY <2>1, ReadDisputedMoves DEF CameBy, Events, Places, Completing, RefundSteps, Undoing,
         Taking, Closing
  <2>2. CASE InsertDispute(w)
    BY <2>2, InsertDisputeMoves DEF CameBy, Events, Places, Completing, RefundSteps, Undoing,
         Taking, Closing
  <2>3. CASE FlipDisputed(w)
    BY <2>3, FlipDisputedMoves DEF CameBy, Events, Places, Completing, RefundSteps, Undoing,
         Taking, Closing
  <2>4. CASE NetDispute(w) \/ CancelNetting(w)
    BY <2>4, AnswerMoves, CameDone
  <2>5. CASE UpsertDispute(w)
    <3>1. CASE dispute = "won"
      BY <2>5, <3>1, UpsertDisputeMoves DEF CameBy, Events, Places, Completing, RefundSteps,
           Undoing, Taking, Closing
    <3>2. CASE dispute # "won"
      BY <2>5, <3>2, UpsertDisputeMoves, CameDone
    <3> QED BY <3>1, <3>2
  <2>6. CASE RestoreDisputed(w)
    BY <2>6, RestoreDisputedMoves DEF CameBy, Events, Places, Completing, RefundSteps,
         Undoing, Taking, Closing
  <2> QED BY <1>3, <2>1, <2>2, <2>3, <2>4, <2>5, <2>6 DEF Disputing
<1>4. CASE StampLost(w)
  BY <1>4, StampMoves DEF CameBy, Events, Places, Completing, RefundSteps, Undoing, Taking,
       Closing
<1>5. CASE ReverseLost(w)
  BY <1>5, ClawMoves DEF CameBy, Events, Places, Completing, RefundSteps, Undoing, Taking,
       Closing
<1>6. CASE Die(w)
  BY <1>6, DieMoves, CameDone
<1>7. ASSUME w \in Hooks, NEW i \in DOMAIN log, Deliver(w, i) PROVE CameBy(w)
  <2>1. work'[w].pc \in Events
    BY <1>7, DeliverMoves DEF WorldOK
  <2> QED BY <1>7, <2>1 DEF CameBy, Events, Places, Completing, RefundSteps, Undoing, Taking,
               Closing, DeliveredTo
<1>8. CASE ReadDebts(w)
  BY <1>8, ReadDebtsMoves DEF CameBy, Events, Places, Completing, RefundSteps, Undoing,
       Taking, Closing
<1>9. ASSUME NEW p \in Purchases, AskRefund(w, p) PROVE CameBy(w)
  BY <1>9, AskRefundMoves DEF CameBy, Events, Places, Completing, RefundSteps, Undoing,
       Taking, Closing
<1> QED BY <1>1, <1>2, <1>3, <1>4, <1>5, <1>6, <1>7, <1>8, <1>9 DEF Acts, Step, Mishap

\* Which action of a worker writes what.
Writes(w) ==
    /\ status' = status \/ Complete(w) \/ Fail(w) \/ Settle(w) \/ FlipDisputed(w)
                        \/ RestoreDisputed(w)
    /\ keyed' = keyed \/ Key(w)
    /\ stamp' = stamp \/ Stamp(w)
    /\ saleCredit' = saleCredit \/ CreditGoods(w) \/ DropHold(w)
    /\ shipment' = shipment \/ Ship(w)
    /\ receipts' = receipts \/ OweReceipts(w) \/ OweRefund(w)
    /\ netting' = netting \/ NetRefund(w) \/ NetDispute(w) \/ CancelNetting(w)
    /\ shortfall' = shortfall \/ Book(w)
    /\ acked' = acked \/ (/\ acked' = acked \cup {work[w].event} /\ work'[w] = Rest
                            /\ work[w].pc \in Answering)
    /\ moved' = moved \/ \E k \in Creators : Transfer(w, k)
    /\ clawback' = clawback \/ Reverse(w) \/ ReverseLost(w)
    /\ UNCHANGED <<refunded, log>> \/ IssueRefund(w)
    /\ UNCHANGED <<dashboard, dispute, goodsPaid, ready>>
    /\ unfit' = unfit
    /\ deaths' = deaths \/ Die(w)
    /\ losses' = losses \/ StampLost(w) \/ ReverseLost(w)

\* What a worker's step writes outside its own record.
LEMMA Writing ==
  ASSUME WorkOK, NEW w \in Workers, Acts(w)
  PROVE  Writes(w)
<1> USE DEF Writes, Answering, rows, tables, stripe, money, mishaps
<1>1. ASSUME Completion(w) PROVE Writes(w)
  <2>1. CASE ReadSession(w) \/ Group(w) \/ SplitDone(w) \/ ReadSettled(w)
    BY <2>1 DEF ReadSession, Group, SplitDone, ReadSettled
  <2>2. CASE Key(w) \/ CreditGoods(w) \/ Ship(w) \/ Complete(w) \/ Stamp(w)
    BY <2>2 DEF Key, CreditGoods, Ship, Complete, Stamp
  <2>3. CASE OweReceipts(w) \/ Fail(w)
    BY <2>3, AnswerMoves, OweReceiptsMoves DEF OweReceipts, Fail
  <2>4. ASSUME NEW k \in Creators, SkipCreator(w, k) \/ KeyRefused(w, k) PROVE Writes(w)
    BY <2>4 DEF SkipCreator, KeyRefused
  <2>5. ASSUME NEW k \in Creators, Transfer(w, k) PROVE Writes(w)
    BY <2>5 DEF Transfer
  <2> QED BY <1>1, <2>1, <2>2, <2>3, <2>4, <2>5 DEF Completion
<1>2. ASSUME Refunding(w) PROVE Writes(w)
  <2>1. CASE IssueRefund(w) \/ ReadHold(w) \/ DropHold(w) \/ ReadCharge(w)
    BY <2>1 DEF IssueRefund, ReadHold, DropHold, ReadCharge
  <2>2. CASE NextRow(w)
    BY <2>2, NextRowMoves DEF NextRow, Answer
  <2>3. CASE NothingToReverse(w) \/ Reverse(w) \/ Settle(w)
    BY <2>3 DEF NothingToReverse, Reverse, Settle
  <2>4. CASE OweRefund(w) \/ NetRefund(w) \/ Book(w)
    BY <2>4 DEF OweRefund, NetRefund, Book
  <2> QED BY <1>2, <2>1, <2>2, <2>3, <2>4 DEF Refunding
<1>3. ASSUME Disputing(w) PROVE Writes(w)
  <2>1. CASE ReadDisputed(w) \/ InsertDispute(w) \/ FlipDisputed(w) \/ RestoreDisputed(w)
    BY <2>1 DEF ReadDisputed, InsertDispute, FlipDisputed, RestoreDisputed
  <2>2. CASE UpsertDispute(w)
    BY <2>2, UpsertDisputeMoves DEF UpsertDispute, Answer
  <2>3. CASE NetDispute(w) \/ CancelNetting(w)
    BY <2>3, AnswerMoves DEF NetDispute, CancelNetting
  <2> QED BY <1>3, <2>1, <2>2, <2>3 DEF Disputing
<1>4. ASSUME Mishap(w) PROVE Writes(w)
  BY <1>4 DEF Mishap, StampLost, ReverseLost, Die
<1>5. ASSUME NEW i, Deliver(w, i) PROVE Writes(w)
  BY <1>5 DEF Deliver
<1>6. CASE ReadDebts(w)
  BY <1>6 DEF ReadDebts
<1>7. ASSUME NEW p \in Purchases, AskRefund(w, p) PROVE Writes(w)
  BY <1>7 DEF AskRefund
<1> QED BY <1>1, <1>2, <1>3, <1>4, <1>5, <1>6, <1>7 DEF Acts, Step

-----------------------------------------------------------------------------
(* Where each kind of worker can be, and on whose behalf.                  *)

\* A delivery is where the handler of its event goes.
Handling(r) ==
    \/ r.event = "succeeded" /\ r.pc \in Completing
    \/ r.event = "failed" /\ r.pc = "failed"
    \/ r.event = "refunded" /\ r.pc \in Undoing
    \/ r.event = "created" /\ r.pc \in Taking
    \/ r.event = "closed" /\ r.pc \in Closing
    \/ r.event = "none" /\ r.pc = "rest"

Role(w, r) ==
    /\ w \in Jobs => r.pc \in {"rest", "split", "stamp"} /\ r.event = "none" /\ r.read = {}
    /\ w \in Routes => r.pc \in RefundSteps \cup {"rest"} /\ r.event = "none"
    /\ w \in Hooks => Handling(r)

\* A refund in progress is of one row, and only who flipped the row goes on to
\* the books.
OneRow(r) ==
    /\ r.pc \in RefundSteps => \E q \in Purchases : r.hand = {q}
    /\ r.pc \in {"net", "book"} => r.first

\* A completion treats rows it read, until it reads back what is completed.
OfRead(w, r) == w \in Hooks /\ r.pc \in Completing \ {"receipt"} => r.todo \subseteq r.read

InPlace(w, r) ==
    /\ Role(w, r) /\ OneRow(r) /\ OfRead(w, r)
    /\ r.event \in Emitted \cup {"none"}
    /\ r.pc = "rest" => r = Rest

\* A delivery that treats rows of the charge.
Treating(w) == w \in Hooks /\ work[w].pc \in {"key", "group", "split", "stamp", "credit", "ship"}

PlaceInv ==
    /\ \A w \in Workers : InPlace(w, work[w])
    /\ acked \subseteq Emitted
    /\ \A p \in Purchases : status[p] # "pending" => p \in keyed
    /\ keyed # {} => "succeeded" \in Emitted
    /\ unfit => keyed = {} /\ \A w \in Workers : ~Treating(w)

\* At the start every worker rests.
LEMMA PlaceInit == Init => PlaceInv
  BY WorkersAssumption DEF Init, PlaceInv, InPlace, Role, OneRow, OfRead, Handling, Rest,
     RefundSteps, Completing, Emitted, Treating

\* At rest a worker has no role to keep.
LEMMA RoleRests ==
  ASSUME NEW w
  PROVE  Role(w, Rest) /\ OneRow(Rest) /\ OfRead(w, Rest)
  BY DEF Role, OneRow, OfRead, Handling, Rest, RefundSteps, Completing

\* An appended event is emitted.
LEMMA EmittedGrows ==
  ASSUME log \in Seq(Events), NEW e \in Events, log' = Append(log, e)
  PROVE  Emitted' = Emitted \cup {e}
<1>1. /\ DOMAIN log' = DOMAIN log \cup {Len(log) + 1}
      /\ \A i \in DOMAIN log : log'[i] = log[i]
      /\ log'[Len(log) + 1] = e
  OBVIOUS
<1> QED BY <1>1 DEF Emitted

\* What the world and the workers append.
LEMMA LogGrows ==
  ASSUME TypeOK, [Next]_vars
  PROVE  log' = log \/ \E e \in Events : log' = Append(log, e)
<1>1. ASSUME NEW w \in Workers, Acts(w) PROVE log' = log \/ \E e \in Events : log' = Append(log, e)
  BY <1>1, Writing DEF TypeOK, Writes, IssueRefund, Events
<1>2. ASSUME World PROVE log' = log \/ \E e \in Events : log' = Append(log, e)
  BY <1>2 DEF World, Decline, Charge, RefundAtStripe, Dispute, CloseDispute, Release,
              AccountUpdated, Emit, Events
<1> QED BY <1>1, <1>2, WhoActs DEF vars, stripe

\* What was emitted stays so.
LEMMA EmittedStays ==
  ASSUME TypeOK, [Next]_vars
  PROVE  Emitted \subseteq Emitted'
  BY LogGrows, EmittedGrows DEF TypeOK, WorldOK, Emitted

\* A worker stays in its role: a delivery with its event, a route with a row, a job
\* with its split.
LEMMA RoleStep ==
  ASSUME TypeOK, PlaceInv, NEW w \in Workers, Acts(w)
  PROVE  Role(w, work'[w])
<1> USE DEF TypeOK
<1> DEFINE r == work[w]
<1>0. Role(w, work[w])
  BY DEF PlaceInv, InPlace
<1>r. work'[w] = Rest => Role(w, work'[w])
  BY RoleRests
<1>a. /\ work[w].event = work'[w].event
      /\ \/ work[w].pc \in Completing /\ work'[w].pc \in Completing
         \/ work[w].pc \in Undoing /\ work'[w].pc \in Undoing
         \/ work[w].pc \in Taking /\ work'[w].pc \in Taking
         \/ work[w].pc \in Closing /\ work'[w].pc \in Closing
      /\ w \in Hooks
      => Role(w, work'[w])
  BY <1>0, WorkersAssumption DEF Role, Handling, Completing, Undoing, Taking, Closing
<1>b. /\ work[w].event = work'[w].event
      /\ work[w].pc \in RefundSteps /\ work'[w].pc \in RefundSteps
      /\ w \in Routes
      => Role(w, work'[w])
  BY <1>0, WorkersAssumption DEF Role
<1>c. /\ work[w].event = work'[w].event /\ work[w].read = work'[w].read
      /\ work'[w].pc \in {"split", "stamp"}
      /\ w \in Jobs
      => Role(w, work'[w])
  BY <1>0, WorkersAssumption DEF Role
<1>j. w \in Jobs => work[w].pc \in {"rest", "split", "stamp"}
  BY <1>0 DEF Role
<1>k. w \in Routes => work[w].pc \in RefundSteps \cup {"rest"}
  BY <1>0 DEF Role
<1>l. work[w].pc \in {"refund", "hold", "drop"} => w \in Routes
  BY <1>0 DEF Role, Workers, Handling, Completing, Undoing, Taking, Closing
<1>h. w \in Hooks \/ w \in Routes \/ w \in Jobs
  BY DEF Workers
<1> USE DEF Completing, Undoing, Taking, Closing, RefundSteps
<1>1. ASSUME Completion(w) \/ StampLost(w) PROVE Role(w, work'[w])
  <2>1. CASE ReadSession(w)
    BY <2>1, ReadSessionMoves, <1>a, <1>h, <1>j, <1>k
  <2>2. CASE Key(w)
    BY <2>2, KeyMoves, <1>a, <1>h, <1>j, <1>k
  <2>3. CASE Group(w)
    BY <2>3, GroupMoves, <1>a, <1>h, <1>j, <1>k
  <2>4. CASE SplitDone(w)
    BY <2>4, SplitDoneMoves, <1>a, <1>h, <1>r, <1>k
  <2>5. CASE CreditGoods(w)
    BY <2>5, CreditGoodsMoves, <1>a, <1>h, <1>j, <1>k
  <2>6. CASE Ship(w)
    BY <2>6, ShipMoves, <1>a, <1>h, <1>j, <1>k
  <2>7. CASE Complete(w)
    BY <2>7, CompleteMoves, <1>a, <1>h, <1>j, <1>k
  <2>8. CASE Fail(w)
    BY <2>8, AnswerMoves, <1>r
  <2>12. CASE ReadSettled(w) \/ OweReceipts(w)
    BY <2>12, ReadSettledMoves, OweReceiptsMoves, <1>a, <1>h, <1>j, <1>k, <1>r
  <2>9. ASSUME NEW k \in Creators, SkipCreator(w, k) \/ KeyRefused(w, k) PROVE Role(w, work'[w])
    BY <2>9, PassCreatorMoves, <1>a, <1>c, <1>h, <1>k
  <2>10. ASSUME NEW k \in Creators, Transfer(w, k) PROVE Role(w, work'[w])
    BY <2>10, TransferMoves, <1>a, <1>c, <1>h, <1>k
  <2>11. CASE Stamp(w) \/ StampLost(w)
    BY <2>11, StampMoves, <1>a, <1>c, <1>h, <1>k
  <2> QED BY <1>1, <2>1, <2>2, <2>3, <2>4, <2>5, <2>6, <2>7, <2>8, <2>9, <2>10, <2>11,
         <2>12 DEF Completion
<1>2. ASSUME Refunding(w) \/ ReverseLost(w) PROVE Role(w, work'[w])
  <2>1. CASE IssueRefund(w)
    BY <2>1, IssueRefundMoves, <1>b, <1>l, <1>r
  <2>2. CASE ReadHold(w)
    <3>1. work'[w].pc \in {"claw", "drop", "settle"} /\ work'[w].event = work[w].event
      BY <2>2, ReadHoldMoves
    <3> QED BY <2>2, <3>1, ReadHoldMoves, <1>b, <1>l
  <2>3. CASE DropHold(w)
    BY <2>3, DropHoldMoves, <1>b, <1>l
  <2>4. CASE ReadCharge(w)
    BY <2>4, ReadChargeMoves, <1>a, <1>h, <1>j, <1>k
  <2>5. CASE NextRow(w)
    BY <2>5, NextRowMoves, <1>a, <1>h, <1>j, <1>k, <1>r
  <2>6. CASE NothingToReverse(w) \/ Reverse(w) \/ ReverseLost(w)
    BY <2>6, ClawMoves, <1>a, <1>b, <1>h, <1>j
  <2>7. CASE Settle(w)
    BY <2>7, SettleMoves, <1>a, <1>b, <1>h, <1>j
  <2>8. ASSUME After(w), work[w].pc \in {"owe", "book"} PROVE Role(w, work'[w])
    BY <2>8, AfterMoves, <1>a, <1>h, <1>j, <1>r
  <2>9. CASE OweRefund(w)
    BY <2>8, <2>9, OweRefundMoves, <1>a, <1>b, <1>h, <1>j
  <2>10. CASE NetRefund(w)
    BY <2>10, NetRefundMoves, <1>a, <1>b, <1>h, <1>j
  <2>11. CASE Book(w)
    BY <2>8, <2>11, BookMoves
  <2> QED BY <1>2, <2>1, <2>2, <2>3, <2>4, <2>5, <2>6, <2>7, <2>9, <2>10, <2>11 DEF Refunding
<1>3. ASSUME Disputing(w) PROVE Role(w, work'[w])
  <2>1. CASE ReadDisputed(w)
    BY <2>1, ReadDisputedMoves, <1>a, <1>h, <1>j, <1>k
  <2>2. CASE InsertDispute(w)
    BY <2>2, InsertDisputeMoves, <1>a, <1>h, <1>j, <1>k
  <2>3. CASE FlipDisputed(w)
    BY <2>3, FlipDisputedMoves, <1>a, <1>h, <1>j, <1>k
  <2>4. CASE NetDispute(w) \/ CancelNetting(w)
    BY <2>4, AnswerMoves, <1>r
  <2>5. CASE UpsertDispute(w)
    BY <2>5, UpsertDisputeMoves, <1>a, <1>h, <1>j, <1>k, <1>r
  <2>6. CASE RestoreDisputed(w)
    BY <2>6, RestoreDisputedMoves, <1>a, <1>h, <1>j, <1>k
  <2> QED BY <1>3, <2>1, <2>2, <2>3, <2>4, <2>5, <2>6 DEF Disputing
<1>4. CASE Die(w)
  BY <1>4, DieMoves, <1>r
<1>5. ASSUME w \in Hooks, NEW i \in DOMAIN log, Deliver(w, i) PROVE Role(w, work'[w])
  <2>1. log[i] \in Events
    BY DEF WorldOK
  <2> QED BY <1>5, <2>1, DeliverMoves, WorkersAssumption DEF Role, Handling, Events
<1>6. CASE w \in Jobs /\ ReadDebts(w)
  BY <1>6, ReadDebtsMoves, WorkersAssumption DEF Role, Rest
<1>7. ASSUME w \in Routes, NEW p \in Purchases, AskRefund(w, p) PROVE Role(w, work'[w])
  BY <1>7, AskRefundMoves, WorkersAssumption DEF Role, Rest
<1> QED BY <1>1, <1>2, <1>3, <1>4, <1>5, <1>6, <1>7 DEF Acts, Step, Mishap

\* In a refund it keeps one row in hand.
LEMMA OneRowStep ==
  ASSUME TypeOK, PlaceInv, NEW w \in Workers, Acts(w)
  PROVE  OneRow(work'[w])
<1> USE DEF TypeOK
<1>0. OneRow(work[w])
  BY DEF PlaceInv, InPlace
<1>1. CameBy(w)
  BY Comes
<1>2. ASSUME work[w].pc \in RefundSteps, work'[w].hand = work[w].hand,
             work'[w].pc \notin {"net", "book"}
      PROVE  OneRow(work'[w])
  BY <1>0, <1>2 DEF OneRow
<1>3. CASE work'[w].pc \in {"refund", "hold"}
  <2>1. ASSUME NEW p \in Purchases, AskRefund(w, p) PROVE OneRow(work'[w])
    BY <2>1, AskRefundMoves DEF OneRow
  <2>2. CASE IssueRefund(w)
    BY <1>2, <1>3, <2>2, IssueRefundMoves DEF RefundSteps, Rest
  <2> QED BY <1>1, <1>3, <2>1, <2>2 DEF CameBy
<1>4. CASE work'[w].pc \in {"drop", "claw", "settle"}
  <2>1. CASE ReadHold(w) \/ DropHold(w) \/ NothingToReverse(w) \/ Reverse(w) \/ ReverseLost(w)
    BY <1>2, <1>4, <2>1, ReadHoldMoves, DropHoldMoves, ClawMoves DEF RefundSteps
  <2>2. CASE NextRow(w)
    BY <1>4, <2>2, NextRowMoves DEF OneRow, Rest, WorkOK, IsWorker
  <2> QED BY <1>1, <1>4, <2>1, <2>2 DEF CameBy
<1>5. CASE work'[w].pc = "owe"
  BY <1>1, <1>2, <1>5, SettleMoves DEF CameBy, RefundSteps
<1>6. CASE work'[w].pc = "net"
  <2>1. OweRefund(w)
    BY <1>1, <1>6 DEF CameBy
  <2>2. ~After(w)
    BY <1>6, AfterMoves DEF Rest
  <2> QED BY <1>0, <2>1, <2>2, OweRefundMoves DEF OneRow, RefundSteps
<1>7. CASE work'[w].pc = "book"
  BY <1>0, <1>1, <1>7, NetRefundMoves DEF CameBy, OneRow, RefundSteps
<1>8. CASE work'[w].pc \notin RefundSteps
  BY <1>8 DEF OneRow, RefundSteps
<1> QED BY <1>3, <1>4, <1>5, <1>6, <1>7, <1>8 DEF RefundSteps

\* And treats only rows it has read.
LEMMA OfReadStep ==
  ASSUME TypeOK, PlaceInv, NEW w \in Workers, Acts(w)
  PROVE  OfRead(w, work'[w])
<1> USE DEF TypeOK
<1> SUFFICES ASSUME w \in Hooks, work'[w].pc \in Completing \ {"receipt"}
             PROVE  work'[w].todo \subseteq work'[w].read
  BY DEF OfRead
<1>0. /\ OfRead(w, work[w]) /\ w \notin Jobs
      /\ work[w].pc \in Completing \ {"receipt"} => work[w].todo \subseteq work[w].read
  BY WorkersAssumption DEF PlaceInv, InPlace, OfRead
<1>1. CameBy(w)
  BY Comes
<1> USE DEF Completing
<1>2. CASE work'[w].pc = "succeeded"
  BY <1>1, <1>2, DeliverMoves DEF CameBy, Events, DeliveredTo, Rest
<1>3. CASE work'[w].pc \in {"key", "group"}
  BY <1>0, <1>1, <1>3, ReadSessionMoves, KeyMoves DEF CameBy
<1>4. CASE work'[w].pc = "split"
  <2>1. CASE Group(w)
    BY <2>1, GroupMoves
  <2>2. CASE Stamp(w) \/ StampLost(w)
    BY <1>0, <2>2, StampMoves
  <2>3. ASSUME NEW k \in Creators, SkipCreator(w, k) \/ KeyRefused(w, k)
        PROVE  work'[w].todo \subseteq work'[w].read
    BY <1>0, <2>3, PassCreatorMoves
  <2> QED BY <1>0, <1>1, <1>4, <2>1, <2>2, <2>3, ReadDebtsMoves DEF CameBy
<1>5. CASE work'[w].pc = "stamp"
  BY <1>0, <1>1, <1>5, TransferMoves DEF CameBy
<1>6. CASE work'[w].pc = "credit"
  BY <1>0, <1>1, <1>6, SplitDoneMoves, CreditGoodsMoves DEF CameBy
<1>7. CASE work'[w].pc = "ship"
  BY <1>0, <1>1, <1>7, CreditGoodsMoves, ShipMoves DEF CameBy
<1>8. CASE work'[w].pc = "complete"
  BY <1>0, <1>1, <1>8, ReadSessionMoves, ShipMoves DEF CameBy
<1>9. CASE work'[w].pc = "settled"
  BY <1>0, <1>1, <1>9, CompleteMoves DEF CameBy
<1> QED BY <1>2, <1>3, <1>4, <1>5, <1>6, <1>7, <1>8, <1>9

\* A worker is on behalf of the same event until it is done.
LEMMA EventMoves ==
  ASSUME TypeOK, NEW w \in Workers, Acts(w)
  PROVE  \/ work'[w] = Rest \/ work'[w].event = work[w].event
         \/ \E i \in DOMAIN log : Deliver(w, i)
<1> USE DEF TypeOK
<1> DEFINE Same == work'[w] = Rest \/ work'[w].event = work[w].event
<1>1. ASSUME Completion(w) \/ StampLost(w) PROVE Same
  <2>1. CASE ReadSession(w) \/ Key(w) \/ Group(w) \/ SplitDone(w)
    BY <2>1, ReadSessionMoves, KeyMoves, GroupMoves, SplitDoneMoves
  <2>2. CASE \/ CreditGoods(w) \/ Ship(w) \/ Complete(w) \/ ReadSettled(w) \/ OweReceipts(w)
             \/ Fail(w)
    BY <2>2, CreditGoodsMoves, ShipMoves, CompleteMoves, ReadSettledMoves, OweReceiptsMoves,
       AnswerMoves
  <2>3. ASSUME NEW k \in Creators, SkipCreator(w, k) \/ KeyRefused(w, k) \/ Transfer(w, k)
        PROVE  Same
    BY <2>3, PassCreatorMoves, TransferMoves
  <2>4. CASE Stamp(w) \/ StampLost(w)
    BY <2>4, StampMoves
  <2> QED BY <1>1, <2>1, <2>2, <2>3, <2>4 DEF Completion
<1>2. ASSUME Refunding(w) \/ ReverseLost(w) PROVE Same
  <2>1. CASE IssueRefund(w) \/ DropHold(w) \/ ReadCharge(w) \/ NextRow(w) \/ Settle(w)
    BY <2>1, IssueRefundMoves, DropHoldMoves, ReadChargeMoves, NextRowMoves, SettleMoves
  <2>2. CASE ReadHold(w)
    BY <2>2, ReadHoldMoves
  <2>3. CASE NothingToReverse(w) \/ Reverse(w) \/ ReverseLost(w)
    BY <2>3, ClawMoves
  <2>4. CASE OweRefund(w) \/ NetRefund(w) \/ Book(w)
    BY <2>4, OweRefundMoves, NetRefundMoves, BookMoves, AfterMoves
  <2> QED BY <1>2, <2>1, <2>2, <2>3, <2>4 DEF Refunding
<1>3. ASSUME Disputing(w) PROVE Same
  BY <1>3, ReadDisputedMoves, InsertDisputeMoves, FlipDisputedMoves, AnswerMoves,
     UpsertDisputeMoves, RestoreDisputedMoves DEF Disputing
<1>4. CASE Die(w)
  BY <1>4, DieMoves
<1>5. CASE ReadDebts(w)
  BY <1>5, ReadDebtsMoves
<1>6. ASSUME NEW p \in Purchases, AskRefund(w, p) PROVE Same
  BY <1>6, AskRefundMoves
<1> QED BY <1>1, <1>2, <1>3, <1>4, <1>5, <1>6 DEF Acts, Step, Mishap

\* A delivery is on behalf of an event that Stripe has emitted.
LEMMA EventStep ==
  ASSUME TypeOK, PlaceInv, NEW w \in Workers, Acts(w)
  PROVE  work'[w].event \in Emitted \cup {"none"}
<1>1. work[w].event \in Emitted \cup {"none"}
  BY DEF PlaceInv, InPlace
<1>2. ASSUME NEW i \in DOMAIN log, Deliver(w, i) PROVE work'[w].event \in Emitted
  BY <1>2, DeliverMoves DEF TypeOK, Emitted
<1> QED BY <1>1, <1>2, EventMoves DEF Rest

\* Who answers an event was delivered it.
LEMMA Answers ==
  ASSUME TypeOK, PlaceInv, NEW w \in Workers, Acts(w), acked' # acked
  PROVE  /\ acked' = acked \cup {work[w].event} /\ work[w].event \in Emitted
         /\ w \in Hooks /\ work[w].pc \in Answering /\ work'[w] = Rest
<1>1. acked' = acked \cup {work[w].event} /\ work[w].pc \in Answering /\ work'[w] = Rest
  BY Writing DEF TypeOK, Writes
<1>2. Role(w, work[w]) /\ work[w].event \in Emitted \cup {"none"}
  BY DEF PlaceInv, InPlace
<1>3. w \in Hooks
  BY <1>1, <1>2 DEF Role, Answering, RefundSteps, Workers
<1>4. work[w].event # "none"
  BY <1>1, <1>2, <1>3 DEF Role, Handling, Answering, Completing, Undoing, Taking, Closing
<1> QED BY <1>1, <1>2, <1>3, <1>4

\* A delivery that comes to its end has answered.
LEMMA Ends ==
  ASSUME TypeOK, PlaceInv, NEW w \in Hooks, Acts(w), ~Die(w), work[w] # Rest, work'[w] = Rest
  PROVE  acked' = acked \cup {work[w].event}
<1> USE DEF TypeOK
<1>0. w \in Workers /\ w \notin Jobs /\ w \notin Routes /\ work'[w].pc = "rest"
  BY WorkersAssumption DEF Workers, Rest
<1>1. LeavesBy(w)
  BY <1>0, Leaves
<1>2. Handling(work[w]) /\ work[w].pc # "rest"
  BY <1>0 DEF PlaceInv, InPlace, Role
<1>3. ~(Key(w) \/ Stamp(w) \/ StampLost(w) \/ ReadSession(w) \/ Group(w) \/ Complete(w) \/ SplitDone(w)
        \/ ReadSettled(w))
  BY <1>0, KeyMoves, StampMoves, ReadSessionMoves, GroupMoves, CompleteMoves, SplitDoneMoves,
     ReadSettledMoves
<1>4. ~(CreditGoods(w) \/ Ship(w))
  BY <1>0, CreditGoodsMoves, ShipMoves
<1>5. ~\E k \in Creators : SkipCreator(w, k) \/ KeyRefused(w, k) \/ Transfer(w, k)
  BY <1>0, PassCreatorMoves, TransferMoves
<1>6. ~(ReadCharge(w) \/ NothingToReverse(w) \/ Reverse(w) \/ ReverseLost(w) \/ Settle(w)
        \/ NetRefund(w))
  BY <1>0, ReadChargeMoves, ClawMoves, SettleMoves, NetRefundMoves
<1>7. ~(OweRefund(w) \/ Book(w))
  BY <1>0, OweRefundMoves, BookMoves, AfterMoves
<1>8. ~(ReadDisputed(w) \/ InsertDispute(w) \/ FlipDisputed(w) \/ RestoreDisputed(w))
  BY <1>0, ReadDisputedMoves, InsertDisputeMoves, FlipDisputedMoves, RestoreDisputedMoves
<1>9. OweReceipts(w) \/ Fail(w) \/ NextRow(w) \/ NetDispute(w) \/ UpsertDispute(w) \/ CancelNetting(w)
  BY <1>1, <1>2, <1>3, <1>4, <1>5, <1>6, <1>7, <1>8 DEF LeavesBy, Handling, Completing, Undoing,
     Taking, Closing
<1>10. OweReceipts(w) \/ Fail(w) \/ NetDispute(w) \/ CancelNetting(w)
       => acked' = acked \cup {work[w].event}
  BY <1>0, AnswerMoves, OweReceiptsMoves
<1>11. NextRow(w) => acked' = acked \cup {work[w].event}
  BY <1>0, NextRowMoves DEF Answer
<1>12. UpsertDispute(w) => acked' = acked \cup {work[w].event}
  BY <1>0, UpsertDisputeMoves DEF Answer
<1> QED BY <1>9, <1>10, <1>11, <1>12

\* Who keys rows is a delivery.
LEMMA KeysDeliver ==
  ASSUME PlaceInv, NEW w \in Workers, work[w].pc = "key"
  PROVE  w \in Hooks
  BY DEF PlaceInv, InPlace, Role, RefundSteps, Workers

\* The delivery of a charge that is refused treats no row.
LEMMA RefusedRests ==
  ASSUME TypeOK, NEW w \in Workers, Acts(w), unfit, ~Treating(w)
  PROVE  ~Treating(w)'
<1> SUFFICES ASSUME w \in Hooks, Treating(w)' PROVE FALSE
  BY DEF Treating
<1> USE DEF TypeOK
<1>0. /\ w \notin Jobs /\ CameBy(w)
      /\ work[w].pc \notin {"key", "group", "split", "stamp", "credit", "ship"}
  BY Comes, WorkersAssumption DEF Treating
<1>1. ~Key(w) /\ ~Group(w) /\ ~Stamp(w) /\ ~StampLost(w) /\ ~SplitDone(w)
  BY <1>0, KeyMoves, GroupMoves, StampMoves, SplitDoneMoves
<1>2. ~CreditGoods(w) /\ ~Ship(w)
  BY <1>0, CreditGoodsMoves, ShipMoves
<1>3. \A k \in Creators : ~SkipCreator(w, k) /\ ~KeyRefused(w, k) /\ ~Transfer(w, k)
  BY <1>0, PassCreatorMoves, TransferMoves
<1>4. ~ReadDebts(w)
  BY <1>0 DEF ReadDebts
<1>5. ReadSession(w) => work'[w].pc = "complete"
  BY ReadSessionMoves DEF Found
<1> QED BY <1>0, <1>1, <1>2, <1>3, <1>4, <1>5 DEF CameBy, Treating

\* So PlaceInv is inductive.
LEMMA PlaceStep == TypeOK /\ PlaceInv /\ [Next]_vars => PlaceInv'
<1> SUFFICES ASSUME TypeOK, PlaceInv, [Next]_vars PROVE PlaceInv'
  OBVIOUS
<1>e. Emitted \subseteq Emitted'
  BY EmittedStays
<1>1. ASSUME NEW w \in Workers, Acts(w) PROVE PlaceInv'
  <2>w. Writes(w)
    BY <1>1, Writing DEF TypeOK
  <2>1. InPlace(w, work[w])'
    <3>1. work'[w].pc = "rest" => work'[w] = Rest
      BY <1>1, Comes DEF CameBy
    <3>2. work'[w].event \in Emitted' \cup {"none"}
      BY <1>1, <1>e, EventStep
    <3>3. Role(w, work'[w]) /\ OneRow(work'[w]) /\ OfRead(w, work'[w])
      BY <1>1, RoleStep, OneRowStep, OfReadStep
    <3> QED BY <3>1, <3>2, <3>3 DEF InPlace, Role, OneRow, OfRead, Handling
  <2>2. ASSUME NEW v \in Workers, v # w PROVE InPlace(v, work[v])'
    <3>1. work'[v] = work[v]
      BY <1>1, <2>2, OthersRest DEF TypeOK
    <3>2. InPlace(v, work[v])
      BY DEF PlaceInv
    <3> QED BY <1>e, <3>1, <3>2 DEF InPlace, Role, OneRow, OfRead, Handling
  <2>3. acked' \subseteq Emitted'
    BY <1>1, <1>e, Answers DEF PlaceInv
  <2>4. keyed' = keyed \/ (keyed \subseteq keyed' /\ "succeeded" \in Emitted)
    <3>1. CASE Key(w)
      <4>1. work[w].event = "succeeded"
        BY <3>1, KeyMoves DEF PlaceInv, InPlace, Role, Handling, Workers, RefundSteps, Undoing,
           Taking, Closing, TypeOK
      <4> QED BY <3>1, <4>1, KeyMoves DEF PlaceInv, InPlace, TypeOK
    <3>2. keyed' = keyed \/ Key(w)
      BY <2>w DEF Writes
    <3> QED BY <3>1, <3>2
  <2>5. \A p \in Purchases : status'[p] # "pending" => p \in keyed \/ status[p] # "pending"
    BY <2>w DEF TypeOK, RowsOK, Writes, Complete, Fail, Settle, With, FlipDisputed,
       RestoreDisputed
  <2>6. \A v \in Workers : InPlace(v, work[v])'
    BY <2>1, <2>2
  <2>7. \A p \in Purchases : status'[p] # "pending" => p \in keyed'
    BY <2>4, <2>5 DEF PlaceInv
  <2>8. keyed' # {} => "succeeded" \in Emitted'
    BY <1>e, <2>4 DEF PlaceInv
  <2>9. unfit' => keyed' = {} /\ \A v \in Workers : ~Treating(v)'
    <3> SUFFICES ASSUME unfit PROVE keyed' = {} /\ \A v \in Workers : ~Treating(v)'
      BY <2>w DEF Writes
    <3>1. keyed = {} /\ \A v \in Workers : ~Treating(v)
      BY DEF PlaceInv
    <3>2. ~Treating(w)'
      BY <1>1, <3>1, RefusedRests
    <3>3. ~Key(w)
      BY <1>1, <3>1, KeyMoves, KeysDeliver DEF Treating, TypeOK
    <3>4. \A v \in Workers : v # w => work'[v] = work[v]
      BY <1>1, OthersRest DEF TypeOK
    <3> QED BY <2>w, <3>1, <3>2, <3>3, <3>4 DEF Writes, Treating
  <2> QED BY <2>3, <2>6, <2>7, <2>8, <2>9 DEF PlaceInv
<1>2. CASE UNCHANGED <<rows, acked, work, unfit>>
  BY <1>2, <1>e DEF PlaceInv, InPlace, Role, OneRow, OfRead, Handling, Treating, rows
<1>3. CASE World
  BY <1>2, <1>3, WorldActs
<1> QED BY <1>1, <1>2, <1>3, WhoActs DEF vars, stripe, mishaps

\* A charge that is refused leaves every row pending.
LEMMA DecidedFit ==
  ASSUME TypeOK, PlaceInv, NEW w \in Workers, Acts(w), NEW p \in Purchases,
         status[p] # "pending" \/ status'[p] # "pending"
  PROVE  ~unfit
<1>1. PlaceInv'
  BY PlaceStep DEF Acts, Next, Workers
<1> QED BY <1>1, Writing DEF PlaceInv, Writes, TypeOK

-----------------------------------------------------------------------------
(* The sunk fee of a refund.                                               *)

\* Worker w is on its way to the books with row p.
Booking(w, p) ==
    work[w].pc \in {"owe", "net", "book"} /\ work[w].first /\ p \in work[w].hand

\* One worker at most books a row: who flipped it, and until then it is not booked.
BookInv ==
    \A p \in Purchases :
        /\ shortfall[p] \in {0, 1}
        /\ shortfall[p] = 1 => status[p] = "refunded"
        /\ \A w \in Workers : Booking(w, p) => shortfall[p] = 0 /\ status[p] = "refunded"
        /\ \A v, w \in Workers : Booking(v, p) /\ Booking(w, p) => v = w
        /\ deaths = 0 /\ status[p] = "refunded" =>
              shortfall[p] = 1 \/ \E w \in Workers : Booking(w, p)

\* At the start nothing is refunded or booked.
LEMMA BookInit == Init => BookInv
  BY DEF Init, BookInv, Booking, Rest

\* A step that touches neither the books nor a refunded row.
LEMMA BookKept ==
  ASSUME TypeOK, BookInv, NEW w \in Workers, Acts(w),
         \A p \in Purchases : Booking(w, p)' <=> Booking(w, p),
         shortfall' = shortfall, deaths' = deaths,
         \A p \in Purchases : status'[p] = "refunded" <=> status[p] = "refunded"
  PROVE  BookInv'
<1>1. \A v \in Workers, p \in Purchases : Booking(v, p)' <=> Booking(v, p)
  BY OthersRest DEF Booking, TypeOK
<1> QED BY <1>1 DEF BookInv

\* Who flips a row books it, once.
LEMMA BookActs ==
  ASSUME TypeOK, PlaceInv, BookInv, NEW w \in Workers, Acts(w)
  PROVE  BookInv'
<1> USE DEF TypeOK
<1>c. CameBy(w)
  BY Comes
<1>w. Writes(w)
  BY Writing
<1>o. \A v \in Workers : v # w => work'[v] = work[v]
  BY OthersRest
<1>1. CASE Settle(w)
  <2>1. PICK q \in Purchases : work[w].hand = {q}
    BY <1>1, SettleMoves DEF PlaceInv, InPlace, OneRow, RefundSteps
  <2>2. /\ \A p \in Purchases : ~Booking(w, p)
        /\ \A p \in Purchases : Booking(w, p)' <=> p = q /\ status[q] = "completed"
    <3>1. /\ work[w].pc = "settle" /\ work'[w].pc = "owe" /\ work'[w].hand = {q}
          /\ work'[w].first = ({q} \cap With("completed") # {})
      BY <1>1, <2>1, SettleMoves
    <3>2. work'[w].first <=> status[q] = "completed"
      BY <3>1 DEF With
    <3> QED BY <3>1, <3>2 DEF Booking
  <2>3. /\ \A p \in Purchases : p # q => status'[p] = status[p]
        /\ status[q] = "completed" => status'[q] = "refunded"
        /\ status[q] # "completed" => status'[q] = status[q]
        /\ shortfall' = shortfall /\ deaths' = deaths
    BY <1>1, <2>1 DEF Settle, With, tables, mishaps
  <2>4. CASE status[q] # "completed"
    BY <2>2, <2>3, <2>4, BookKept
  <2>5. CASE status[q] = "completed"
    <3>1. shortfall[q] = 0 /\ \A v \in Workers : ~Booking(v, q)
      BY <2>5 DEF BookInv
    <3>2. \A v \in Workers, p \in Purchases :
             Booking(v, p)' <=> Booking(v, p) \/ (v = w /\ p = q)
      BY <1>o, <2>2, <2>5 DEF Booking
    <3> QED BY <2>3, <2>5, <3>1, <3>2 DEF BookInv
  <2> QED BY <2>4, <2>5
<1>2. CASE OweRefund(w) \/ NetRefund(w)
  <2>1. shortfall' = shortfall /\ deaths' = deaths /\ status' = status
    BY <1>2 DEF OweRefund, NetRefund, rows, mishaps
  <2>2. ASSUME NEW p \in Purchases PROVE Booking(w, p)' <=> Booking(w, p)
    <3>1. CASE OweRefund(w) /\ ~work[w].first
      BY <3>1, OweRefundMoves, AfterMoves DEF Booking, Rest
    <3>2. CASE OweRefund(w) /\ work[w].first
      BY <3>2, OweRefundMoves DEF Booking
    <3>3. CASE NetRefund(w)
      BY <3>3, NetRefundMoves DEF Booking
    <3> QED BY <1>2, <3>1, <3>2, <3>3
  <2> QED BY <2>1, <2>2, BookKept
<1>3. CASE Book(w)
  <2>1. PICK q \in Purchases : work[w].hand = {q}
    BY <1>3, BookMoves DEF PlaceInv, InPlace, OneRow, RefundSteps
  <2>2. Booking(w, q) /\ shortfall[q] = 0 /\ status[q] = "refunded"
    BY <1>3, <2>1, BookMoves DEF PlaceInv, InPlace, OneRow, Booking, BookInv
  <2>3. \A p \in Purchases : ~Booking(w, p)'
    BY <1>3, BookMoves, AfterMoves DEF Booking, Rest
  <2>4. /\ shortfall' = [p \in Purchases |-> IF p = q THEN shortfall[p] + 1 ELSE shortfall[p]]
        /\ status' = status /\ deaths' = deaths
    BY <1>3, <2>1 DEF Book, rows, mishaps
  <2>5. \A v \in Workers, p \in Purchases : Booking(v, p)' <=> Booking(v, p) /\ v # w
    BY <1>o, <2>3 DEF Booking
  <2>6. \A p \in Purchases : Booking(w, p) <=> p = q
    BY <2>1, <2>2 DEF Booking
  <2> QED BY <2>2, <2>4, <2>5, <2>6 DEF BookInv
<1>4. CASE Die(w)
  <2>1. \A p \in Purchases : ~Booking(w, p)'
    BY <1>4, DieMoves DEF Booking, Rest
  <2>2. \A v \in Workers, p \in Purchases : Booking(v, p)' => Booking(v, p)
    BY <1>o, <2>1 DEF Booking
  <2>3. deaths' # 0 /\ UNCHANGED <<status, shortfall>>
    BY <1>4, WorkersAssumption DEF Die, WorldOK, rows, tables
  <2> QED BY <2>2, <2>3 DEF BookInv
<1>5. CASE ~(Settle(w) \/ OweRefund(w) \/ NetRefund(w) \/ Book(w) \/ Die(w))
  <2>1. \A p \in Purchases : ~Booking(w, p)' /\ ~Booking(w, p)
    <3>1. work'[w].pc \notin {"owe", "net", "book"}
      BY <1>5, <1>c DEF CameBy
    <3>2. work[w].pc \notin {"owe", "net", "book"}
      BY <1>5, Leaves DEF LeavesBy
    <3> QED BY <3>1, <3>2 DEF Booking
  <2>2. \A p \in Purchases : status'[p] = "refunded" <=> status[p] = "refunded"
    BY <1>5, <1>w DEF RowsOK, Writes, Complete, Fail, FlipDisputed, RestoreDisputed
  <2>3. shortfall' = shortfall /\ deaths' = deaths
    BY <1>5, <1>w DEF Writes
  <2> QED BY <2>1, <2>2, <2>3, BookKept
<1> QED BY <1>1, <1>2, <1>3, <1>4, <1>5

\* So BookInv is inductive.
LEMMA BookStep == TypeOK /\ PlaceInv /\ BookInv /\ [Next]_vars => BookInv'
<1> SUFFICES ASSUME TypeOK, PlaceInv, BookInv, [Next]_vars PROVE BookInv'
  OBVIOUS
<1>1. CASE UNCHANGED <<status, shortfall, work, deaths>>
  BY <1>1 DEF BookInv, Booking
<1>2. CASE World
  BY <1>1, <1>2, WorldActs DEF rows
<1> QED BY <1>1, <1>2, BookActs, WhoActs DEF vars, rows, tables, mishaps

\* The sunk fee of a refund is booked once, although the ledger has no unique index
\* and the route and the event its own refund provokes both settle the row; and it
\* is booked, unless somebody died.
THEOREM BookedOnceAlways == Spec => []BookedOnce
<1>1. TypeOK /\ BookInv => BookedOnce
  BY DEF TypeOK, RowsOK, BookInv, BookedOnce, Settled, Booking, Rest
<1> QED
  BY <1>1, TypeInit, TypeStep, PlaceInit, PlaceStep, BookInit, BookStep, PTL DEF Spec

-----------------------------------------------------------------------------
(* What a row goes through.                                                *)

\* The only ways a row changes its status.
LEMMA RowMoves ==
  ASSUME TypeOK, NEW w \in Workers, Acts(w), NEW p \in Purchases, status'[p] # status[p]
  PROVE  \/ Complete(w) /\ status[p] = "pending" /\ status'[p] = "completed" /\ p \in keyed
         \/ Fail(w) /\ status[p] = "pending" /\ status'[p] = "failed" /\ p \in keyed
         \/ Settle(w) /\ status[p] = "completed" /\ status'[p] = "refunded" /\ p \in work[w].hand
         \/ FlipDisputed(w) /\ status[p] = "completed" /\ status'[p] = "disputed"
         \/ RestoreDisputed(w) /\ status[p] = "disputed" /\ status'[p] = "completed"
<1>1. Writes(w)
  BY Writing DEF TypeOK
<1>2. CASE Complete(w)
  BY <1>2 DEF Complete
<1>3. CASE Fail(w)
  BY <1>3 DEF Fail
<1>4. CASE Settle(w)
  BY <1>4 DEF Settle, With
<1>5. CASE FlipDisputed(w)
  BY <1>5 DEF FlipDisputed
<1>6. CASE RestoreDisputed(w)
  BY <1>6 DEF RestoreDisputed
<1> QED BY <1>1, <1>2, <1>3, <1>4, <1>5, <1>6 DEF Writes

\* Completed once, and never failed or pending again.
Bought(p) == status[p] \in {"completed", "disputed", "refunded"}

\* What was bought once stays so.
LEMMA BoughtStays ==
  ASSUME TypeOK, [Next]_vars, NEW p \in Purchases, Bought(p)
  PROVE  Bought(p)'
<1>1. ASSUME NEW w \in Workers, Acts(w) PROVE Bought(p)'
  BY <1>1, RowMoves DEF Bought
<1>2. CASE UNCHANGED status
  BY <1>2 DEF Bought
<1> QED BY <1>1, <1>2, WhoActs, WorldActs DEF vars, rows

\* What is refunded by request was bought; the request is made of a completed row.
AskedInv ==
    /\ \A w \in Routes : \A p \in work[w].hand : Bought(p)
    /\ \A w \in Routes : /\ work[w].pc \in RefundSteps \ {"refund"} => work[w].hand \subseteq refunded
                         /\ work[w].pc # "rest" => "refund" \in May
    /\ \A p \in refunded : Bought(p)
    /\ refunded \subseteq Purchases
    /\ refunded # {} => "refund" \in May

\* At the start nothing is asked for.
LEMMA AskedInit == Init => AskedInv
  BY DEF Init, AskedInv, Rest, RefundSteps, Workers

\* Only a request goes through a route, and its row is the one it asked for.
LEMMA RouteMoves ==
  ASSUME TypeOK, PlaceInv, NEW w \in Routes, Acts(w)
  PROVE  \/ work'[w] = Rest
         \/ \E p \in Purchases : AskRefund(w, p)
         \/ /\ work'[w].hand = work[w].hand /\ work[w].pc \in RefundSteps
            /\ work'[w].pc \in RefundSteps \ {"refund"}
            /\ work[w].pc = "refund" => IssueRefund(w)
<1> USE DEF TypeOK
<1>0. w \in Workers /\ w \notin Hooks /\ w \notin Jobs /\ Role(w, work[w]) /\ Role(w, work'[w])
  BY RoleStep, WorkersAssumption DEF Workers, PlaceInv, InPlace
<1>1. /\ work'[w].pc = "rest" => work'[w] = Rest
      /\ work'[w].pc \in RefundSteps \cup {"rest"}
      /\ work[w].pc \in RefundSteps \cup {"rest"}
  BY <1>0, Comes DEF CameBy, Role
<1>2. LeavesBy(w) \/ Die(w)
  BY <1>0, Leaves
<1>3. CASE Die(w)
  BY <1>0, <1>3, DieMoves
<1>4. CASE IssueRefund(w)
  BY <1>0, <1>4, IssueRefundMoves DEF RefundSteps
<1>5. CASE ReadHold(w)
  <2>1. work'[w].pc \in {"claw", "drop", "settle"}
    BY <1>0, <1>5, ReadHoldMoves
  <2> QED BY <1>0, <1>5, <2>1, ReadHoldMoves DEF RefundSteps
<1>6. CASE DropHold(w)
  BY <1>0, <1>6, DropHoldMoves DEF RefundSteps
<1>7. CASE NothingToReverse(w) \/ Reverse(w) \/ ReverseLost(w)
  BY <1>0, <1>7, ClawMoves DEF RefundSteps
<1>8. CASE Settle(w)
  BY <1>0, <1>8, SettleMoves DEF RefundSteps
<1>9. CASE OweRefund(w) \/ Book(w)
  BY <1>0, <1>9, OweRefundMoves, BookMoves, AfterMoves DEF RefundSteps
<1>10. CASE NetRefund(w)
  BY <1>0, <1>10, NetRefundMoves DEF RefundSteps
<1>11. CASE work[w].pc = "rest"
  <2>1. work'[w].pc # "rest" => work'[w].pc = "refund"
    <3>1. CameBy(w)
      BY <1>0, Comes
    <3>2. work'[w].pc \in {"drop", "claw"} => ReadHold(w) \/ DropHold(w) \/ NextRow(w)
      BY <3>1 DEF CameBy
    <3>3. work'[w].pc = "settle" =>
             ReadHold(w) \/ NothingToReverse(w) \/ Reverse(w) \/ ReverseLost(w)
      BY <3>1 DEF CameBy
    <3>4. /\ work'[w].pc = "hold" => IssueRefund(w)
          /\ work'[w].pc = "owe" => Settle(w)
          /\ work'[w].pc = "net" => OweRefund(w)
          /\ work'[w].pc = "book" => NetRefund(w)
      BY <3>1 DEF CameBy
    <3>5. ~(IssueRefund(w) \/ ReadHold(w) \/ DropHold(w) \/ NextRow(w))
      BY <1>11 DEF IssueRefund, ReadHold, DropHold, NextRow, At
    <3>6. ~(NothingToReverse(w) \/ Reverse(w) \/ ReverseLost(w) \/ Settle(w) \/ OweRefund(w)
            \/ NetRefund(w))
      BY <1>11 DEF NothingToReverse, Reverse, ReverseLost, Settle, OweRefund, NetRefund, At
    <3> QED BY <1>1, <3>2, <3>3, <3>4, <3>5, <3>6 DEF RefundSteps
  <2>2. work'[w].pc = "refund" => \E p \in Purchases : AskRefund(w, p)
    BY <1>0, Comes DEF CameBy
  <2> QED BY <1>1, <2>1, <2>2
<1> QED BY <1>1, <1>2, <1>3, <1>4, <1>5, <1>6, <1>7, <1>8, <1>9, <1>10, <1>11
        DEF LeavesBy, RefundSteps

\* AskedInv is inductive.
LEMMA AskedStep == TypeOK /\ PlaceInv /\ AskedInv /\ [Next]_vars => AskedInv'
<1> SUFFICES ASSUME TypeOK, PlaceInv, AskedInv, [Next]_vars PROVE AskedInv'
  OBVIOUS
<1>b. \A p \in Purchases : Bought(p) => Bought(p)'
  BY BoughtStays
<1>h. \A w \in Workers : work[w].hand \subseteq Purchases
  BY DEF TypeOK, WorkOK, IsWorker
<1>1. ASSUME NEW w \in Workers, Acts(w) PROVE AskedInv'
  <2>w. Writes(w)
    BY <1>1, Writing DEF TypeOK
  <2>1. refunded \subseteq refunded'
    BY <1>1, <2>w, IssueRefundMoves DEF Writes, TypeOK
  <2>2. CASE w \in Routes
    <3>o. \A v \in Workers : v # w => work'[v] = work[v]
      BY <1>1, OthersRest DEF TypeOK
    <3>1. UNCHANGED refunded \/ \E p \in work[w].hand : refunded' = refunded \cup {p}
      <4>1. CASE IssueRefund(w)
        <5>1. \E q \in Purchases : work[w].hand = {q}
          BY <4>1, IssueRefundMoves DEF TypeOK, PlaceInv, InPlace, OneRow, RefundSteps
        <5> QED BY <4>1, <5>1, IssueRefundMoves DEF TypeOK
      <4> QED BY <2>w, <4>1 DEF Writes
    <3>2. \A p \in work'[w].hand : Bought(p)'
      <4>1. CASE work'[w] = Rest
        BY <4>1 DEF Rest
      <4>2. ASSUME NEW p \in Purchases, AskRefund(w, p) PROVE work'[w].hand = {p} /\ Bought(p)
        BY <4>2, AskRefundMoves DEF TypeOK, Bought
      <4>3. CASE work'[w].hand = work[w].hand
        BY <1>b, <1>h, <2>2, <4>3 DEF AskedInv
      <4> QED BY <1>1, <1>b, <2>2, <4>1, <4>2, <4>3, RouteMoves
    <3>3. work'[w].pc \in RefundSteps \ {"refund"} => work'[w].hand \subseteq refunded'
      <4>1. CASE work'[w] = Rest
        BY <4>1 DEF Rest
      <4>2. ASSUME NEW p \in Purchases, AskRefund(w, p) PROVE work'[w].pc = "refund"
        BY <4>2, AskRefundMoves DEF TypeOK
      <4>3. CASE IssueRefund(w)
        <5>1. PICK q \in Purchases : work[w].hand = {q}
          BY <4>3, IssueRefundMoves DEF TypeOK, PlaceInv, InPlace, OneRow, RefundSteps
        <5> QED BY <4>3, <5>1, IssueRefundMoves DEF TypeOK, Rest
      <4>4. CASE work'[w].hand = work[w].hand /\ work[w].pc \in RefundSteps \ {"refund"}
        BY <2>1, <2>2, <4>4 DEF AskedInv
      <4> QED BY <1>1, <2>2, <4>1, <4>2, <4>3, <4>4, RouteMoves
    <3>4. work'[w].pc # "rest" => "refund" \in May
      <4>1. CASE work'[w] = Rest
        BY <4>1 DEF Rest
      <4>2. ASSUME NEW p \in Purchases, AskRefund(w, p) PROVE "refund" \in May
        BY <4>2 DEF AskRefund
      <4>3. CASE work[w].pc \in RefundSteps
        BY <2>2, <4>3 DEF AskedInv, RefundSteps
      <4> QED BY <1>1, <2>2, <4>1, <4>2, <4>3, RouteMoves
    <3>5. \A p \in refunded' : Bought(p)' /\ p \in Purchases
      BY <1>b, <1>h, <2>2, <3>1 DEF AskedInv
    <3>6. refunded' # {} => "refund" \in May
      <4>1. CASE IssueRefund(w)
        BY <2>2, <4>1 DEF IssueRefund, At, AskedInv
      <4> QED BY <2>w, <4>1 DEF Writes, AskedInv
    <3>7. ASSUME NEW v \in Routes, v # w
          PROVE  /\ \A p \in work'[v].hand : Bought(p)'
                 /\ work'[v].pc \in RefundSteps \ {"refund"} => work'[v].hand \subseteq refunded'
                 /\ work'[v].pc # "rest" => "refund" \in May
      <4>1. work'[v] = work[v] /\ v \in Workers
        BY <3>o, <3>7 DEF Workers
      <4> QED BY <1>b, <1>h, <2>1, <4>1 DEF AskedInv
    <3> QED BY <3>2, <3>3, <3>4, <3>5, <3>6, <3>7 DEF AskedInv
  <2>3. CASE w \notin Routes
    <3>1. \A v \in Routes : work'[v] = work[v] /\ v \in Workers
      BY <1>1, <2>3, OthersRest DEF TypeOK, Workers
    <3>2. refunded' = refunded
      <4>1. ~IssueRefund(w)
        BY <2>3 DEF IssueRefund, At, PlaceInv, InPlace, Role, Workers, Handling, Completing,
             Undoing,
           Taking, Closing
      <4> QED BY <2>w, <4>1 DEF Writes
    <3> QED BY <1>b, <1>h, <3>1, <3>2 DEF AskedInv
  <2> QED BY <2>2, <2>3
<1>2. CASE UNCHANGED <<status, refunded, work>>
  BY <1>2 DEF AskedInv, Bought
<1> QED BY <1>1, <1>2, WhoActs, WorldActs DEF vars, rows, stripe, money

-----------------------------------------------------------------------------
(* What Stripe emits, in which order, and in which order it is handled.    *)

\* Event d of a charge can only come before event e.
Earlier(d, e) ==
    \/ d = "failed" /\ e \in {"succeeded", "created", "closed", "refunded"}
    \/ d = "succeeded" /\ e \in {"created", "closed", "refunded"}
    \/ d = "created" /\ e \in {"closed", "refunded"}
    \/ d = "closed" /\ e = "refunded"

LogInv ==
    /\ \A i, j \in DOMAIN log : i < j => Earlier(log[i], log[j])
    /\ Emitted \cap {"created", "closed", "refunded"} # {} => "succeeded" \in Emitted
    /\ dispute # "none" <=> "created" \in Emitted
    /\ dispute \in {"won", "lost"} <=> "closed" \in Emitted
    /\ dashboard \/ (refunded = Purchases /\ refunded # {}) <=> "refunded" \in Emitted
    /\ "refunded" \in Emitted => dispute \in {"none", "won"}
    /\ dispute # "none" => "dispute" \in May
    /\ dashboard => "dashboard" \in May
    /\ dashboard \in BOOLEAN /\ refunded \subseteq Purchases

\* At the start the log is empty.
LEMMA LogInit == Init => LogInv
<1> SUFFICES ASSUME Init PROVE LogInv
  OBVIOUS
<1>1. DOMAIN log = {} /\ Emitted = {}
  BY DEF Init, Emitted
<1>2. dispute = "none" /\ dashboard = FALSE /\ refunded = {}
  BY DEF Init
<1> QED BY <1>1, <1>2 DEF LogInv

\* An event that comes after all that were emitted.
LEMMA OrderGrows ==
  ASSUME log \in Seq(Events), NEW e \in Events, log' = Append(log, e),
         \A d \in Emitted : Earlier(d, e),
         \A i, j \in DOMAIN log : i < j => Earlier(log[i], log[j])
  PROVE  \A i, j \in DOMAIN log' : i < j => Earlier(log'[i], log'[j])
<1>1. /\ DOMAIN log' = 1..(Len(log) + 1) /\ DOMAIN log = 1..Len(log) /\ Len(log) \in Nat
      /\ \A i \in DOMAIN log : log'[i] = log[i]
      /\ log'[Len(log) + 1] = e
  OBVIOUS
<1> SUFFICES ASSUME NEW i \in DOMAIN log', NEW j \in DOMAIN log', i < j
             PROVE  Earlier(log'[i], log'[j])
  OBVIOUS
<1>2. i \in DOMAIN log /\ (j \in DOMAIN log \/ j = Len(log) + 1)
  BY <1>1
<1>3. log[i] \in Emitted
  BY <1>2 DEF Emitted
<1> QED BY <1>1, <1>2, <1>3

\* Only events are emitted.
LEMMA EmittedEvents ==
  ASSUME TypeOK
  PROVE  Emitted \subseteq Events
  BY DEF TypeOK, WorldOK, Emitted

\* An event after all that were emitted keeps the log in order.
LEMMA EmitsLast ==
  ASSUME TypeOK, LogInv, NEW e \in Events, log' = Append(log, e),
         \A d \in Emitted : Earlier(d, e)
  PROVE  /\ \A i, j \in DOMAIN log' : i < j => Earlier(log'[i], log'[j])
         /\ Emitted' = Emitted \cup {e}
<1>1. log \in Seq(Events)
  BY DEF TypeOK, WorldOK
<1>2. \A i, j \in DOMAIN log : i < j => Earlier(log[i], log[j])
  BY DEF LogInv
<1> QED BY <1>1, <1>2, OrderGrows, EmittedGrows

\* What the world does appends in Stripe's order.
LEMMA LogWorld ==
  ASSUME TypeOK, LogInv, World
  PROVE  LogInv'
<1>e. Emitted \subseteq Events
  BY EmittedEvents
<1> USE DEF money
<1>1. CASE Decline
  <2>1. log' = Append(log, "failed") /\ Emitted = {}
    BY <1>1 DEF Decline, Emit, Emitted
  <2>2. "failed" \in Events
    BY DEF Events
  <2> QED BY <1>1, <2>1, <2>2, EmitsLast DEF Decline, LogInv
<1>2. CASE Charge
  <2>1. log' = Append(log, "succeeded") /\ \A d \in Emitted : Earlier(d, "succeeded")
    BY <1>2, <1>e DEF Charge, Emit, LogInv, Earlier, Events
  <2>2. "succeeded" \in Events
    BY DEF Events
  <2> QED BY <1>2, <2>1, <2>2, EmitsLast DEF Charge, LogInv
<1>3. CASE RefundAtStripe
  <2>1. log' = Append(log, "refunded") /\ \A d \in Emitted : Earlier(d, "refunded")
    BY <1>3, <1>e DEF RefundAtStripe, Emit, Earlier, Events
  <2>2. "refunded" \in Events
    BY DEF Events
  <2>3. dispute \in {"none", "won"}
    BY <1>3 DEF RefundAtStripe, TypeOK, WorldOK
  <2>4. /\ "dashboard" \in May /\ "succeeded" \in Emitted /\ dashboard'
        /\ UNCHANGED <<refunded, dispute>>
    BY <1>3 DEF RefundAtStripe
  <2> QED BY <2>1, <2>2, <2>3, <2>4, EmitsLast DEF LogInv
<1>4. CASE Dispute
  <2>1. "refunded" \notin Emitted /\ "closed" \notin Emitted /\ "created" \notin Emitted
    BY <1>4 DEF Dispute, LogInv
  <2>2. log' = Append(log, "created") /\ \A d \in Emitted : Earlier(d, "created")
    BY <1>4, <1>e, <2>1 DEF Dispute, Emit, Earlier, Events
  <2>3. "created" \in Events
    BY DEF Events
  <2>4. /\ "dispute" \in May /\ "succeeded" \in Emitted /\ dispute' = "open"
        /\ UNCHANGED <<refunded, dashboard>>
    BY <1>4 DEF Dispute
  <2> QED BY <2>1, <2>2, <2>3, <2>4, EmitsLast DEF LogInv
<1>5. ASSUME NEW outcome \in {"won", "lost"}, CloseDispute(outcome) PROVE LogInv'
  <2>1. "refunded" \notin Emitted /\ "closed" \notin Emitted /\ "created" \in Emitted
    BY <1>5 DEF CloseDispute, LogInv
  <2>2. log' = Append(log, "closed") /\ \A d \in Emitted : Earlier(d, "closed")
    BY <1>5, <1>e, <2>1 DEF CloseDispute, Emit, Earlier, Events
  <2>3. "closed" \in Events
    BY DEF Events
  <2>4. dispute = "open" /\ dispute' = outcome /\ UNCHANGED <<refunded, dashboard>>
    BY <1>5 DEF CloseDispute
  <2> QED BY <2>1, <2>2, <2>3, <2>4, EmitsLast DEF LogInv
<1>6. ASSUME UNCHANGED <<log, dispute, dashboard, refunded>> PROVE LogInv'
  BY <1>6 DEF LogInv, Emitted
<1> QED BY <1>1, <1>2, <1>3, <1>4, <1>5, <1>6 DEF World, Release, AccountUpdated

\* The refund that empties the charge is the last thing Stripe tells of it.
LEMMA LogRefund ==
  ASSUME TypeOK, PlaceInv, AskedInv, LogInv, NEW w \in Workers, IssueRefund(w)
  PROVE  LogInv'
<1> DEFINE p == CHOOSE q \in Purchases : q \in work[w].hand
<1>1. work[w].pc = "refund"
  BY IssueRefundMoves DEF TypeOK
<1>2. p \in Purchases
  BY <1>1 DEF PlaceInv, InPlace, OneRow, RefundSteps
<1>m. \/ /\ refunded' = refunded \cup {p}
         /\ p \in refunded \/ (~dashboard /\ dispute \notin {"open", "lost"})
         /\ log' = IF refunded' = Purchases /\ "refunded" \notin Emitted
                     THEN Append(log, "refunded") ELSE log
      \/ UNCHANGED <<refunded, log>>
  BY IssueRefundMoves DEF TypeOK
<1>d. UNCHANGED <<dispute, dashboard>>
  BY DEF IssueRefund
<1> HIDE DEF p
<1>e. Emitted \subseteq Events
  BY EmittedEvents
<1>s. "succeeded" \in Emitted
  <2>1. w \in Routes
    BY <1>1 DEF PlaceInv, InPlace, Role, Workers, Handling, Completing, Undoing, Taking, Closing
  <2>2. \E q \in Purchases : q \in work[w].hand
    BY <1>1 DEF PlaceInv, InPlace, OneRow, RefundSteps
  <2> QED BY <2>1, <2>2 DEF AskedInv, Bought, PlaceInv
<1>3. CASE UNCHANGED <<refunded, log>>
  BY <1>3, <1>d DEF LogInv, Emitted
<1>4. CASE log' = Append(log, "refunded") /\ refunded' = refunded \cup {p} /\ refunded' = Purchases
           /\ "refunded" \notin Emitted
  <2>1. \A d \in Emitted : Earlier(d, "refunded")
    BY <1>e, <1>4 DEF Earlier, Events
  <2>2. "refunded" \in Events
    BY DEF Events
  <2>3. p \notin refunded
    BY <1>2, <1>4 DEF LogInv
  <2>4. dispute \in {"none", "won"}
    BY <1>m, <1>2, <1>4, <2>3 DEF TypeOK, WorldOK
  <2> QED BY <1>2, <1>4, <1>d, <1>s, <2>1, <2>2, <2>4, EmitsLast DEF LogInv
<1>5. CASE log' = log /\ refunded' = refunded \cup {p}
           /\ ~(refunded' = Purchases /\ "refunded" \notin Emitted)
  BY <1>2, <1>5, <1>d DEF LogInv, Emitted
<1> QED BY <1>m, <1>3, <1>4, <1>5

\* So LogInv is inductive.
LEMMA LogStep == TypeOK /\ PlaceInv /\ AskedInv /\ LogInv /\ [Next]_vars => LogInv'
<1> SUFFICES ASSUME TypeOK, PlaceInv, AskedInv, LogInv, [Next]_vars PROVE LogInv'
  OBVIOUS
<1>1. ASSUME UNCHANGED <<log, dispute, dashboard, refunded>> PROVE LogInv'
  BY <1>1 DEF LogInv, Emitted
<1>2. ASSUME NEW w \in Workers, Acts(w) PROVE LogInv'
  BY <1>1, <1>2, Writing, LogRefund DEF TypeOK, Writes
<1> QED BY <1>1, <1>2, LogWorld, WhoActs DEF vars, stripe, money

InOrder == "reorder" \notin May

Busy(e) == \E v \in Workers : work[v].event = e

\* The handling of an event was started, and is done.
Begun(e) == e \in acked \/ Busy(e)
Over(e) == e \in acked /\ ~Busy(e)

\* In order, what came before is over when an event is taken up, and stays so.
OrderInv ==
    InOrder => \A d \in Emitted, e \in Events : Earlier(d, e) /\ Begun(e) => Over(d)

\* At the start nothing was emitted.
LEMMA OrderInit == Init => OrderInv
<1> SUFFICES ASSUME Init PROVE OrderInv
  OBVIOUS
<1>1. Emitted = {}
  BY DEF Init, Emitted
<1> QED BY <1>1 DEF OrderInv

\* No event comes before itself, nor two before each other.
LEMMA EarlierOrders ==
  ASSUME NEW d \in Events, NEW e \in Events, Earlier(d, e)
  PROVE  d # e /\ ~Earlier(e, d)
  BY DEF Earlier, Events

\* An event that is taken up was emitted.
LEMMA BegunEmitted ==
  ASSUME PlaceInv, NEW e \in Events, Begun(e)
  PROVE  e \in Emitted
  BY DEF Begun, Busy, PlaceInv, InPlace, Events

\* Only deliveries carry events.
LEMMA BusyHook ==
  ASSUME PlaceInv, NEW v \in Workers, work[v].event # "none"
  PROVE  v \in Hooks
  BY DEF PlaceInv, InPlace, Role, Workers

\* An in-order delivery finds everything earlier over, and nothing later begun.
LEMMA DeliverInOrder ==
  ASSUME TypeOK, PlaceInv, LogInv, InOrder, NEW w, NEW i \in DOMAIN log, Deliver(w, i)
  PROVE  /\ \A d \in Emitted : Earlier(d, log[i]) => Over(d)
         /\ \A e \in Events : Earlier(log[i], e) => ~Begun(e)
<1>1. \A j \in DOMAIN log : j # i =>
         IF j < i THEN log[j] \in acked /\ ~\E v \in Hooks : work[v].event = log[j]
                  ELSE log[j] \notin acked /\ ~\E v \in Hooks : work[v].event = log[j]
  BY DEF Deliver, InOrder
<1>2. \A j \in DOMAIN log : log[j] \in Events /\ log[j] # "none" /\ j \in Int
  BY DEF TypeOK, WorldOK, Events
<1>3. \A j \in DOMAIN log : Busy(log[j]) => \E v \in Hooks : work[v].event = log[j]
  BY <1>2, BusyHook DEF Busy
<1>4. \A j \in DOMAIN log : Earlier(log[j], log[i]) => j < i
  BY <1>2, EarlierOrders DEF LogInv
<1>5. \A j \in DOMAIN log : Earlier(log[i], log[j]) => i < j
  BY <1>2, EarlierOrders DEF LogInv
<1>6. \A d \in Emitted : Earlier(d, log[i]) => Over(d)
  BY <1>1, <1>2, <1>3, <1>4 DEF Emitted, Over
<1>7. ASSUME NEW e \in Events, Earlier(log[i], e), Begun(e) PROVE FALSE
  <2>1. PICK j \in DOMAIN log : e = log[j]
    BY <1>7, BegunEmitted DEF Emitted
  <2> QED BY <1>1, <1>2, <1>3, <1>5, <1>7, <2>1 DEF Begun
<1> QED BY <1>6, <1>7

\* OrderInv is inductive.
LEMMA OrderStep == TypeOK /\ PlaceInv /\ AskedInv /\ LogInv /\ OrderInv /\ [Next]_vars => OrderInv'
<1> SUFFICES ASSUME TypeOK, PlaceInv, AskedInv, LogInv, OrderInv, [Next]_vars, InOrder
             PROVE  \A d \in Emitted', e \in Events : Earlier(d, e) /\ Begun(e)' => Over(d)'
  BY DEF OrderInv
<1>l. LogInv'
  BY LogStep
<1>e. Emitted \subseteq Emitted' /\ Emitted \subseteq Events
  BY EmittedStays, EmittedEvents
\* What was not begun before is emitted after everything that was.
<1>n. ASSUME NEW d \in Emitted', NEW e \in Events, Earlier(d, e), Begun(e) PROVE d \in Emitted
  <2>1. e \in Emitted
    BY <1>n, BegunEmitted
  <2>2. CASE log' = log
    BY <2>2 DEF Emitted
  <2>3. ASSUME NEW f \in Events, log' = Append(log, f) PROVE d \in Emitted
    <3>1. Emitted' = Emitted \cup {f}
      BY <2>3, EmittedGrows DEF TypeOK, WorldOK
    <3>2. CASE d = f
      <4>1. /\ DOMAIN log' = DOMAIN log \cup {Len(log) + 1}
            /\ \A i \in DOMAIN log : log'[i] = log[i] /\ i < Len(log) + 1
            /\ log'[Len(log) + 1] = f
        BY <2>3 DEF TypeOK, WorldOK
      <4>2. PICK i \in DOMAIN log : log[i] = e
        BY <2>1 DEF Emitted
      <4>3. Earlier(e, f)
        BY <1>l, <4>1, <4>2 DEF LogInv
      <4> QED BY <1>n, <2>3, <3>2, <4>3, EarlierOrders
    <3> QED BY <3>1, <3>2
  <2> QED BY <2>2, <2>3, LogGrows
<1>1. ASSUME NEW w \in Workers, Acts(w), NEW d \in Emitted', NEW e \in Events,
             Earlier(d, e), Begun(e)'
      PROVE  Over(d)'
  <2>o. \A v \in Workers : v # w => work'[v] = work[v]
    BY <1>1, OthersRest DEF TypeOK
  <2>d. d \in Events /\ d # "none" /\ e # "none"
    BY <1>1, EmittedEvents DEF Earlier, Events
  <2>1. CASE work'[w].event = work[w].event \/ work'[w] = Rest
    <3>1. \A f \in Events : Busy(f)' => Busy(f)
      BY <2>o, <2>1 DEF Busy, Rest, Events
    <3>2. acked' = acked \/ acked' = acked \cup {work[w].event}
      BY <1>1, Writing DEF Writes, TypeOK
    <3>3. Begun(e)
      BY <1>1, <3>1, <3>2 DEF Begun, Busy
    <3>4. d \in Emitted
      BY <1>1, <1>n, <3>3
    <3>5. Over(d)
      BY <1>1, <3>3, <3>4 DEF OrderInv
    <3> QED BY <2>d, <3>1, <3>2, <3>5 DEF Over
  <2>2. ASSUME NEW i \in DOMAIN log, Deliver(w, i) PROVE Over(d)'
    <3>1. acked' = acked /\ log' = log /\ work'[w].event = log[i] /\ Emitted' = Emitted
      <4>1. work'[w].event = log[i]
        BY <2>2, DeliverMoves DEF TypeOK
      <4>2. acked' = acked /\ log' = log
        BY <2>2 DEF Deliver, stripe
      <4> QED BY <4>1, <4>2 DEF Emitted
    <3>2. \A f \in Events : Busy(f)' <=> Busy(f) \/ f = log[i]
      <4>1. work[w].event = "none"
        BY <2>2 DEF Deliver, Rest
      <4> QED BY <2>o, <3>1, <4>1 DEF Busy, Events
    <3>3. CASE e = log[i]
      BY <1>1, <2>2, <2>d, <3>1, <3>2, <3>3, DeliverInOrder, EarlierOrders DEF Over
    <3>4. CASE e # log[i]
      <4>1. Begun(e)
        BY <1>1, <3>1, <3>2, <3>4 DEF Begun
      <4>2. Over(d)
        BY <1>1, <3>1, <4>1 DEF OrderInv
      <4>3. d # log[i]
        BY <1>1, <2>2, <4>1, DeliverInOrder
      <4> QED BY <2>d, <3>1, <3>2, <4>2, <4>3 DEF Over
    <3> QED BY <3>3, <3>4
  <2> QED BY <1>1, <2>1, <2>2, EventMoves DEF Acts
<1>2. ASSUME UNCHANGED <<acked, work>>, NEW d \in Emitted', NEW e \in Events,
             Earlier(d, e), Begun(e)'
      PROVE  Over(d)'
  BY <1>2, <1>n DEF OrderInv, Over, Begun, Busy
<1> QED BY <1>1, <1>2, WhoActs, WorldActs DEF vars, stripe

-----------------------------------------------------------------------------
(* The receipts.                                                           *)

\* The pending rows are keyed when the delivery of the charge completes them, and
\* there is none when it answers.
KeySound(r) ==
    /\ r.pc = "key" => \A p \in Purchases : status[p] = "pending" => p \in keyed \cup r.todo
    /\ r.pc \in {"group", "split", "stamp", "credit", "ship", "complete"} =>
          \A p \in Purchases : status[p] = "pending" => p \in keyed
    /\ r.pc \in {"settled", "receipt"} => \A p \in Purchases : status[p] # "pending"

KeyInv ==
    ~unfit =>
        /\ \A w \in Hooks : KeySound(work[w])
        /\ "succeeded" \in acked => \A p \in Purchases : status[p] # "pending"

\* At the start no delivery is at work.
LEMMA KeyInit == Init => KeyInv
  BY DEF Init, KeyInv, KeySound, Rest, Workers

\* A row that was decided is never pending again.
LEMMA NeverPending ==
  ASSUME TypeOK, [Next]_vars, NEW p \in Purchases, status[p] # "pending"
  PROVE  status'[p] # "pending"
<1>1. ASSUME NEW w \in Workers, Acts(w) PROVE status'[p] # "pending"
  BY <1>1, RowMoves
<1> QED BY <1>1, WhoActs, WorldActs DEF vars, rows

\* A row that was keyed stays so.
LEMMA KeyedStays ==
  ASSUME TypeOK, [Next]_vars
  PROVE  keyed \subseteq keyed'
<1>1. ASSUME NEW w \in Workers, Acts(w) PROVE keyed \subseteq keyed'
  BY <1>1, Writing, KeyMoves DEF TypeOK, Writes
<1> QED BY <1>1, WhoActs, WorldActs DEF vars, rows

\* A delivery of the charge leaves no row it read without a key.
LEMMA KeyActs ==
  ASSUME TypeOK, PlaceInv, KeyInv, ~unfit, NEW w \in Hooks, Acts(w)
  PROVE  KeySound(work[w])'
<1> USE DEF TypeOK
<1>0. w \in Workers /\ w \notin Jobs /\ KeySound(work[w])
  BY WorkersAssumption DEF Workers, KeyInv
<1>c. CameBy(w)
  BY <1>0, Comes
<1>n. [Next]_vars
  BY <1>0 DEF Acts, Next, Workers
<1>p. \A p \in Purchases : status'[p] = "pending" => status[p] = "pending"
  BY <1>n, NeverPending
<1>k. keyed \subseteq keyed'
  BY <1>n, KeyedStays
<1> DEFINE Keyed == \A p \in Purchases : status'[p] = "pending" => p \in keyed'
<1>1. ASSUME \A p \in Purchases : status[p] = "pending" => p \in keyed PROVE Keyed
  BY <1>1, <1>p, <1>k
<1>2. CASE work'[w].pc = "key"
  <2>1. CASE ReadSession(w)
    BY <1>0, <1>2, <1>p, <1>k, <2>1, ReadSessionMoves DEF KeySound, Found, With
  <2>2. CASE Key(w)
    <3>1. PICK p \in work[w].todo :
             /\ keyed' = IF status[p] = "pending" THEN keyed \cup {p} ELSE keyed
             /\ work'[w].todo = work[w].todo \ {p}
      BY <1>0, <2>2, KeyMoves
    <3> QED BY <1>0, <1>2, <1>p, <2>2, <3>1, KeyMoves DEF KeySound
  <2> QED BY <1>2, <1>c, <2>1, <2>2 DEF CameBy
<1>3. CASE work'[w].pc = "group"
  <2>1. Key(w)
    BY <1>3, <1>c DEF CameBy
  <2>2. PICK p \in work[w].todo :
           /\ keyed' = IF status[p] = "pending" THEN keyed \cup {p} ELSE keyed
           /\ work'[w].pc = IF work[w].todo = {p} THEN "group" ELSE "key"
    BY <1>0, <2>1, KeyMoves
  <2>3. work[w].todo = {p}
    BY <1>3, <2>2
  <2> QED BY <1>0, <1>3, <1>p, <2>1, <2>2, <2>3, KeyMoves DEF KeySound
<1>4. CASE work'[w].pc \in {"split", "stamp", "credit", "ship", "complete"}
  <2>1. CASE ReadSession(w) /\ work'[w].pc = "complete"
    <3>1. With("pending") \ keyed = {}
      BY <1>0, <2>1, ReadSessionMoves DEF Found
    <3>2. Keyed
      BY <1>1, <3>1 DEF With
    <3> QED BY <1>4, <3>2 DEF KeySound
  <2>2. CASE work[w].pc \in {"group", "split", "stamp", "credit", "ship"}
    <3>1. Keyed
      BY <1>0, <1>1, <2>2 DEF KeySound
    <3> QED BY <1>4, <3>1 DEF KeySound
  <2>3. ASSUME NEW k, SkipCreator(w, k) \/ KeyRefused(w, k) \/ Transfer(w, k)
        PROVE  work[w].pc = "split"
    BY <1>0, <2>3, PassCreatorMoves, TransferMoves
  <2>4. Group(w) \/ SplitDone(w) \/ CreditGoods(w) \/ Ship(w) => work[w].pc \in {"group", "split", "credit", "ship"}
    BY <1>0, GroupMoves, SplitDoneMoves, CreditGoodsMoves, ShipMoves
  <2>5. Stamp(w) \/ StampLost(w) => work[w].pc = "stamp"
    BY <1>0, StampMoves
  <2>6. ~ReadDebts(w)
    BY <1>0 DEF ReadDebts
  <2> QED BY <1>4, <1>c, <2>1, <2>2, <2>3, <2>4, <2>5, <2>6 DEF CameBy
<1>7. CASE work'[w].pc = "receipt"
  <2>1. work[w].pc \in {"settled", "receipt"}
    BY <1>0, <1>7, <1>c, ReadSettledMoves, OweReceiptsMoves DEF CameBy
  <2> QED BY <1>0, <1>7, <1>p, <2>1 DEF KeySound
<1>5. CASE work'[w].pc = "settled"
  <2>1. Complete(w)
    BY <1>5, <1>c DEF CameBy
  <2>2. \A p \in Purchases : status'[p] # "pending"
    BY <1>0, <2>1, CompleteMoves DEF Complete, KeySound
  <2> QED BY <1>5, <2>2 DEF KeySound
<1>6. CASE work'[w].pc \notin {"key", "group", "split", "stamp", "credit", "ship", "complete", "settled",
                             "receipt"}
  BY <1>6 DEF KeySound
<1> QED BY <1>2, <1>3, <1>4, <1>5, <1>6, <1>7

\* So KeyInv is inductive.
LEMMA KeyStep == TypeOK /\ PlaceInv /\ KeyInv /\ [Next]_vars => KeyInv'
<1>u. TypeOK /\ [Next]_vars => unfit' = unfit
  BY Writing, WhoActs, WorldActs DEF TypeOK, Writes, vars, mishaps
<1> SUFFICES ASSUME TypeOK, PlaceInv, KeyInv, [Next]_vars, ~unfit PROVE KeyInv'
  BY <1>u DEF KeyInv
<1>p. \A p \in Purchases : status'[p] = "pending" => status[p] = "pending"
  BY NeverPending
<1>k. keyed \subseteq keyed'
  BY KeyedStays
<1>1. ASSUME NEW w \in Workers, Acts(w) PROVE KeyInv'
  <2>1. \A v \in Hooks : KeySound(work[v])'
    <3>1. ASSUME w \in Hooks PROVE KeySound(work[w])'
      BY <1>1, <3>1, KeyActs
    <3>2. ASSUME NEW v \in Hooks, v # w PROVE KeySound(work[v])'
      <4>1. work'[v] = work[v] /\ KeySound(work[v])
        BY <1>1, <3>2, OthersRest DEF TypeOK, Workers, KeyInv
      <4> QED BY <1>p, <1>k, <4>1 DEF KeySound
    <3> QED BY <3>1, <3>2
  <2>2. "succeeded" \in acked' => \A p \in Purchases : status'[p] # "pending"
    <3>1. CASE acked' = acked
      BY <1>p, <3>1 DEF KeyInv
    <3>2. CASE acked' # acked
      <4>1. /\ acked' = acked \cup {work[w].event} /\ w \in Hooks /\ work[w].pc \in Answering
        BY <1>1, <3>2, Answers
      <4>2. work[w].event = "succeeded" => work[w].pc = "receipt"
        BY <1>1, <4>1 DEF PlaceInv, InPlace, Role, Handling, Answering, Completing
      <4> QED BY <1>p, <4>1, <4>2 DEF KeyInv, KeySound
    <3> QED BY <3>1, <3>2
  <2> QED BY <2>1, <2>2 DEF KeyInv
<1>2. CASE UNCHANGED <<rows, acked, work>>
  BY <1>2 DEF KeyInv, KeySound, rows
<1> QED BY <1>1, <1>2, WhoActs, WorldActs DEF vars, stripe

\* A dispute is handled after the charge: it is not reported out of order.
Mild == "reorder" \in May => "dispute" \notin May

\* Who answers has written the receipts, or has them still to write.
OwesRest(r) ==
    \A p \in Purchases : status[p] \in {"completed", "disputed"} =>
        p \in r.todo \/ <<p, "purchase">> \in receipts

ReceiptInv ==
    /\ Mild =>
          /\ "succeeded" \in acked =>
                \A p \in Purchases : status[p] \in {"completed", "disputed"} =>
                    <<p, "purchase">> \in receipts
          /\ (\E p \in Purchases : status[p] = "disputed") => "succeeded" \in acked
          /\ \A w \in Hooks : work[w].pc = "receipt" => OwesRest(work[w])
    /\ deaths = 0 => \A p \in Purchases : status[p] = "refunded" =>
          <<p, "refund">> \in receipts \/ \E w \in Workers : work[w].pc = "owe" /\ p \in work[w].hand

\* At the start no row is completed or refunded.
LEMMA ReceiptInit == Init => ReceiptInv
  BY DEF Init, ReceiptInv, OwesRest

\* Who records a dispute finds the charge completed and answered.
LEMMA DisputedLate ==
  ASSUME PlaceInv, LogInv, OrderInv, Mild, NEW w \in Workers, work[w].event = "created"
  PROVE  "succeeded" \in acked
<1>1. "created" \in Emitted
  BY DEF PlaceInv, InPlace
<1>2. InOrder /\ "succeeded" \in Emitted
  BY <1>1 DEF LogInv, Mild, InOrder
<1>3. Begun("created") /\ Earlier("succeeded", "created") /\ "created" \in Events
  BY DEF Begun, Busy, Earlier, Events
<1> QED BY <1>2, <1>3 DEF OrderInv, Over

\* A worker that completes or refunds a row owes its receipt before it answers.
LEMMA ReceiptActs ==
  ASSUME TypeOK, PlaceInv, LogInv, OrderInv, KeyInv, ReceiptInv, NEW w \in Workers, Acts(w)
  PROVE  ReceiptInv'
<1> USE DEF TypeOK
<1>w. Writes(w)
  BY Writing
<1>r. receipts \subseteq receipts'
  BY <1>w DEF Writes, OweReceipts, OweRefund
<1>a. acked \subseteq acked'
  BY <1>w DEF Writes
<1>f. \A p \in Purchases : status[p] # "pending" \/ status'[p] # "pending" => ~unfit
  BY DecidedFit
<1>1. Mild /\ "succeeded" \in acked' =>
         \A p \in Purchases : status'[p] \in {"completed", "disputed"} =>
             <<p, "purchase">> \in receipts'
  <2> SUFFICES ASSUME Mild, "succeeded" \in acked', NEW p \in Purchases,
                      status'[p] \in {"completed", "disputed"}
               PROVE  <<p, "purchase">> \in receipts'
    OBVIOUS
  <2>1. CASE "succeeded" \in acked
    <3>1. status[p] # "pending"
      BY <1>f, <2>1 DEF KeyInv
    <3>2. status[p] \in {"completed", "disputed"}
      BY <3>1, RowMoves
    <3> QED BY <1>r, <2>1, <3>2 DEF ReceiptInv
  <2>2. CASE "succeeded" \notin acked
    <3>1. w \in Hooks /\ work[w].pc \in Answering /\ work[w].event = "succeeded"
      BY <2>2, Answers
    <3>2. work[w].pc = "receipt"
      BY <3>1 DEF PlaceInv, InPlace, Role, Handling, Answering, Completing
    <3>3. OweReceipts(w)
      <4>1. ~Die(w)
        BY <2>2 DEF Die, stripe
      <4> QED BY <3>2, <4>1, Leaves DEF LeavesBy
    <3>4. status' = status
      BY <3>3 DEF OweReceipts, rows
    <3>5. work[w].todo = {}
      BY <2>2, <3>3, OweReceiptsMoves
    <3> QED BY <1>r, <3>1, <3>2, <3>4, <3>5 DEF ReceiptInv, OwesRest
  <2> QED BY <2>1, <2>2
<1>2. Mild /\ (\E p \in Purchases : status'[p] = "disputed") => "succeeded" \in acked'
  <2> SUFFICES ASSUME Mild, NEW p \in Purchases, status'[p] = "disputed"
               PROVE  "succeeded" \in acked
    BY <1>a
  <2>1. CASE status[p] = "disputed"
    BY <2>1 DEF ReceiptInv
  <2>2. CASE status[p] # "disputed"
    <3>1. work[w].pc = "flip"
      BY <2>2, RowMoves, FlipDisputedMoves
    <3>2. work[w].event = "created"
      BY <3>1 DEF PlaceInv, InPlace, Role, Handling, Workers, RefundSteps, Completing,
           Undoing, Closing
    <3> QED BY <3>2, DisputedLate
  <2> QED BY <2>1, <2>2
<1>3. deaths' = 0 => \A p \in Purchases : status'[p] = "refunded" =>
         <<p, "refund">> \in receipts' \/ \E v \in Workers : work'[v].pc = "owe" /\ p \in work'[v].hand
  <2> SUFFICES ASSUME deaths' = 0, NEW p \in Purchases, status'[p] = "refunded"
               PROVE  \/ <<p, "refund">> \in receipts'
                      \/ \E v \in Workers : work'[v].pc = "owe" /\ p \in work'[v].hand
    OBVIOUS
  <2>0. ~Die(w) /\ deaths = 0
    BY <1>w DEF Die, WorldOK, Writes
  <2>1. CASE status[p] # "refunded"
    <3>1. Settle(w) /\ p \in work[w].hand
      BY <2>1, RowMoves
    <3> QED BY <3>1, SettleMoves
  <2>2. CASE <<p, "refund">> \in receipts
    BY <1>r, <2>2
  <2>3. ASSUME NEW v \in Workers, work[v].pc = "owe", p \in work[v].hand
        PROVE  \/ <<p, "refund">> \in receipts'
               \/ \E u \in Workers : work'[u].pc = "owe" /\ p \in work'[u].hand
    <3>1. CASE v = w
      <4>1. OweRefund(w)
        BY <2>0, <2>3, <3>1, Leaves DEF LeavesBy
      <4> QED BY <2>3, <3>1, <4>1 DEF OweRefund
    <3>2. CASE v # w
      BY <2>3, <3>2, OthersRest
    <3> QED BY <3>1, <3>2
  <2> QED BY <2>0, <2>1, <2>2, <2>3 DEF ReceiptInv
<1>4. ASSUME Mild, NEW v \in Hooks, work'[v].pc = "receipt", NEW p \in Purchases,
             status'[p] \in {"completed", "disputed"}
      PROVE  p \in work'[v].todo \/ <<p, "purchase">> \in receipts'
  <2>0. v \in Workers /\ ~unfit
    BY <1>f, <1>4 DEF Workers
  <2>1. CASE "succeeded" \in acked
    BY <1>1, <1>4, <1>a, <2>1
  <2>2. CASE v # w
    <3>1. work'[v] = work[v]
      BY <1>4, <2>0, <2>2, OthersRest
    <3>2. status[p] # "pending"
      BY <1>4, <2>0, <3>1 DEF KeyInv, KeySound
    <3>3. status[p] \in {"completed", "disputed"}
      BY <1>4, <3>2, RowMoves
    <3> QED BY <1>4, <1>r, <3>1, <3>3 DEF ReceiptInv, OwesRest
  <2>3. CASE v = w /\ OweReceipts(w)
    <3>1. PICK q \in work[w].todo : /\ receipts' = receipts \cup {<<q, "purchase">>}
                                    /\ work'[w].todo = work[w].todo \ {q}
      BY <1>4, <2>3, OweReceiptsMoves DEF Rest
    <3>2. status' = status /\ work[w].pc = "receipt"
      BY <2>3 DEF OweReceipts, At, rows
    <3> QED BY <1>4, <2>3, <3>1, <3>2 DEF ReceiptInv, OwesRest
  <2>4. CASE v = w /\ ReadSettled(w) /\ "succeeded" \notin acked
    <3>1. status' = status /\ work'[w].todo = With("completed") \cap keyed
      BY <2>4, ReadSettledMoves DEF ReadSettled, rows
    <3>2. status[p] = "completed"
      BY <1>4, <2>4, <3>1 DEF ReceiptInv
    <3> QED BY <2>4, <3>1, <3>2 DEF With, PlaceInv
  <2> QED BY <1>4, <2>1, <2>2, <2>3, <2>4, Comes DEF CameBy
<1> QED BY <1>1, <1>2, <1>3, <1>4 DEF ReceiptInv, OwesRest, Mild

\* So ReceiptInv is inductive.
LEMMA ReceiptStep ==
  TypeOK /\ PlaceInv /\ LogInv /\ OrderInv /\ KeyInv /\ ReceiptInv /\ [Next]_vars => ReceiptInv'
<1> SUFFICES ASSUME TypeOK, PlaceInv, LogInv, OrderInv, KeyInv, ReceiptInv, [Next]_vars
             PROVE  ReceiptInv'
  OBVIOUS
<1>1. CASE UNCHANGED <<status, receipts, acked, deaths, work>>
  BY <1>1 DEF ReceiptInv, OwesRest, Mild
<1> QED BY <1>1, ReceiptActs, WhoActs, WorldActs DEF vars, rows, tables, stripe, mishaps

\* When all is answered, a completed row has its purchase receipt and a refunded one
\* its refund receipt, also after a delivery that died was made again: unless Stripe
\* reports a dispute before the charge it disputes.
THEOREM ReceiptsOwedAlways ==
  ASSUME Mild
  PROVE  Spec => []ReceiptsOwed
<1>1. TypeOK /\ PlaceInv /\ ReceiptInv => ReceiptsOwed
  <2> SUFFICES ASSUME TypeOK, PlaceInv, ReceiptInv, Settled, NEW p \in Purchases
               PROVE  /\ status[p] = "completed" => <<p, "purchase">> \in receipts
                      /\ status[p] = "refunded" => deaths > 0 \/ <<p, "refund">> \in receipts
    BY DEF ReceiptsOwed
  <2>1. status[p] = "completed" => "succeeded" \in acked
    BY DEF PlaceInv, Settled
  <2>2. \A w \in Workers : work[w].pc # "owe"
    BY DEF Settled, Rest
  <2>3. deaths = 0 \/ deaths > 0
    BY WorkersAssumption DEF TypeOK, WorldOK
  <2> QED BY <2>1, <2>2, <2>3 DEF ReceiptInv
<1> QED
  BY <1>1, TypeInit, TypeStep, PlaceInit, PlaceStep, AskedInit, AskedStep, LogInit, LogStep,
     OrderInit, OrderStep, KeyInit, KeyStep, ReceiptInit, ReceiptStep, PTL DEF Spec

-----------------------------------------------------------------------------
(* Access follows the money, when the events of the charge are handled in  *)
(* order.                                                                  *)

\* A request that was paid back and has yet to settle its row.
Returning(w, p) ==
    w \in Routes /\ work[w].pc \in {"hold", "drop", "claw", "settle"} /\ p \in work[w].hand

\* What the delivery of a dispute, of its end and of a refund found and did.
UndoneSound(w, r) ==
    /\ r.pc = "insert" => r.read = keyed
    /\ r.pc = "net dispute" /\ dispute # "won" => With("completed") = {}
    /\ r.pc \in {"restore", "cancel"} => dispute = "won"
    /\ r.pc = "cancel" => With("disputed") = {}
    /\ w \in Hooks /\ r.pc \in Undoing \ {"refunded"} => With("completed") \subseteq r.todo
    /\ w \in Hooks /\ r.pc \in {"owe", "net", "book"} => With("completed") \cap r.hand = {}

AccessInv ==
    InOrder /\ deaths = 0 /\ ~unfit =>
        /\ keyed # {} => Begun("succeeded")
        /\ With("failed") = {}
        /\ "created" \in acked /\ dispute # "won" => With("completed") = {}
        /\ "closed" \in acked /\ dispute = "won" => With("disputed") = {}
        /\ "refunded" \in acked => With("completed") = {}
        /\ With("disputed") # {} => dispute # "none"
        /\ \A p \in With("refunded") : p \in refunded \/ dashboard
        /\ dispute = "none" =>
              \A p \in refunded : status[p] = "refunded" \/ \E w \in Workers : Returning(w, p)
        /\ \A w \in Workers : UndoneSound(w, work[w])

\* At the start every row is pending.
LEMMA AccessInit == Init => AccessInv
<1> SUFFICES ASSUME Init PROVE AccessInv
  OBVIOUS
<1>1. With("failed") = {} /\ With("disputed") = {} /\ With("refunded") = {} /\ With("completed") = {}
  BY DEF Init, With
<1>2. keyed = {} /\ acked = {} /\ refunded = {} /\ \A w \in Workers : work[w].pc = "rest"
  BY DEF Init, Rest
<1> QED BY <1>1, <1>2 DEF AccessInv, UndoneSound, Undoing

\* While an event is being handled, none that comes after it was taken up.
LEMMA BusyFirst ==
  ASSUME PlaceInv, OrderInv, InOrder, NEW w \in Workers, NEW e \in Events,
         Earlier(work[w].event, e)
  PROVE  ~Begun(e)
<1>1. work[w].event \in Emitted /\ Busy(work[w].event)
  BY DEF Earlier, PlaceInv, InPlace, Busy
<1> QED BY <1>1 DEF OrderInv, Over

\* A worker at a place of an event has that event in hand.
LEMMA HandledEvent ==
  ASSUME PlaceInv, NEW w \in Workers
  PROVE  /\ work[w].pc \in Completing \ {"split", "stamp"} => w \in Hooks /\ work[w].event = "succeeded"
         /\ work[w].pc = "failed" => w \in Hooks /\ work[w].event = "failed"
         /\ work[w].pc \in {"refunded", "next"} => w \in Hooks /\ work[w].event = "refunded"
         /\ w \in Hooks /\ work[w].pc \in Undoing => work[w].event = "refunded"
         /\ work[w].pc \in Taking => w \in Hooks /\ work[w].event = "created"
         /\ work[w].pc \in Closing => w \in Hooks /\ work[w].event = "closed"
         /\ work[w].pc \in {"refund", "hold", "drop"} => w \in Routes
<1>1. Role(w, work[w]) /\ (w \in Hooks \/ w \in Routes \/ w \in Jobs)
  BY DEF PlaceInv, InPlace, Workers
<1> QED BY <1>1 DEF Role, Handling, Completing, Undoing, Taking, Closing, RefundSteps

\* Once the charge was answered, all its rows are keyed and none is pending.
LEMMA AllKeyed ==
  ASSUME TypeOK, PlaceInv, LogInv, OrderInv, KeyInv, InOrder, ~unfit,
         NEW e \in {"created", "closed", "refunded"}, Begun(e)
  PROVE  keyed = Purchases /\ With("pending") = {}
<1>1. e \in Emitted /\ "succeeded" \in Emitted /\ Earlier("succeeded", e) /\ e \in Events
  BY BegunEmitted DEF LogInv, Earlier, Events
<1>2. "succeeded" \in acked
  BY <1>1 DEF OrderInv, Over
<1> QED BY <1>2 DEF KeyInv, PlaceInv, TypeOK, RowsOK, With

\* A row becomes completed before a dispute or a refund is taken up, or when the
\* dispute is won, before a refund is.
LEMMA CompletedEarly ==
  ASSUME TypeOK, PlaceInv, OrderInv, AccessInv, InOrder, ~unfit, deaths = 0,
         NEW w \in Workers, Acts(w), NEW p \in Purchases, status'[p] = "completed", status[p] # "completed"
  PROVE  ~Begun("refunded") /\ (~Begun("created") \/ dispute = "won")
<1>1. CASE Complete(w)
  <2>1. work[w].event = "succeeded"
    BY <1>1, CompleteMoves, HandledEvent DEF TypeOK, Completing
  <2> QED BY <2>1, BusyFirst DEF Earlier, Events
<1>2. CASE RestoreDisputed(w)
  <2>1. work[w].event = "closed" /\ dispute = "won"
    BY <1>2, RestoreDisputedMoves, HandledEvent DEF TypeOK, Closing, AccessInv, UndoneSound
  <2> QED BY <2>1, BusyFirst DEF Earlier, Events
<1> QED BY <1>1, <1>2, RowMoves

\* A row becomes disputed before the end of the dispute, or a refund, is taken up.
LEMMA DisputedEarly ==
  ASSUME TypeOK, PlaceInv, LogInv, OrderInv, InOrder, NEW w \in Workers, Acts(w),
         NEW p \in Purchases, status'[p] = "disputed", status[p] # "disputed"
  PROVE  ~Begun("closed") /\ dispute # "none"
<1>1. FlipDisputed(w)
  BY RowMoves
<1>2. work[w].event = "created"
  BY <1>1, FlipDisputedMoves, HandledEvent DEF TypeOK, Taking
<1> QED BY <1>2, BusyFirst DEF Earlier, Events, LogInv, PlaceInv, InPlace

\* Who undoes a charge has in hand every row that is still completed.
LEMMA UndoneActs ==
  ASSUME TypeOK, PlaceInv, AskedInv, LogInv, OrderInv, KeyInv, AccessInv, InOrder, ~unfit,
         deaths = 0, NEW w \in Workers, Acts(w), ~Die(w)
  PROVE  UndoneSound(w, work[w])'
<1> USE DEF TypeOK
<1>c. CameBy(w) /\ LeavesBy(w)
  BY Comes, Leaves
<1>w. Writes(w)
  BY Writing
<1>u. UndoneSound(w, work[w])
  BY DEF AccessInv
<1>r. work'[w].pc = work'[w].pc /\ dispute' = dispute
  BY <1>w DEF Writes
<1>1. work'[w].pc = "insert" => work'[w].read = keyed'
  <2> SUFFICES ASSUME work'[w].pc = "insert" PROVE work'[w].read = keyed'
    OBVIOUS
  <2>1. ReadDisputed(w)
    BY <1>c DEF CameBy
  <2> QED BY <2>1, ReadDisputedMoves DEF ReadDisputed, rows
<1>2. work'[w].pc = "net dispute" /\ dispute' # "won" => With("completed")' = {}
  <2> SUFFICES ASSUME work'[w].pc = "net dispute", dispute # "won" PROVE With("completed")' = {}
    BY <1>r
  <2>1. InsertDispute(w) \/ FlipDisputed(w)
    BY <1>c DEF CameBy
  <2>2. work[w].event = "created"
    BY <2>1, InsertDisputeMoves, FlipDisputedMoves, HandledEvent DEF Taking
  <2>3. keyed = Purchases
    BY <2>2, AllKeyed DEF Begun, Busy
  <2>4. CASE InsertDispute(w)
    <3>1. work[w].pc = "insert" /\ work[w].read = {}
      BY <2>4, InsertDisputeMoves
    <3>2. Purchases = {}
      BY <1>u, <2>3, <3>1 DEF UndoneSound
    <3> QED BY <3>2 DEF With
  <2>5. CASE FlipDisputed(w)
    BY <2>3, <2>5 DEF FlipDisputed, With
  <2> QED BY <2>1, <2>4, <2>5
<1>3. work'[w].pc \in {"restore", "cancel"} => dispute' = "won"
  <2>1. CASE UpsertDispute(w)
    BY <1>r, <2>1, UpsertDisputeMoves DEF Rest
  <2>2. CASE RestoreDisputed(w)
    BY <1>r, <1>u, <2>2, RestoreDisputedMoves DEF UndoneSound
  <2> QED BY <1>c, <2>1, <2>2 DEF CameBy
<1>4. work'[w].pc = "cancel" => With("disputed")' = {}
  <2> SUFFICES ASSUME work'[w].pc = "cancel" PROVE With("disputed")' = {}
    OBVIOUS
  <2>1. RestoreDisputed(w)
    BY <1>c DEF CameBy
  <2>2. work[w].event = "closed"
    BY <2>1, RestoreDisputedMoves, HandledEvent DEF Closing
  <2>3. keyed = Purchases
    BY <2>2, AllKeyed DEF Begun, Busy
  <2> QED BY <2>1, <2>3 DEF RestoreDisputed, With
<1>5. w \in Hooks /\ work'[w].pc \in {"owe", "net", "book"} => With("completed")' \cap work'[w].hand = {}
  <2> SUFFICES ASSUME w \in Hooks, work'[w].pc \in {"owe", "net", "book"}
               PROVE  With("completed")' \cap work'[w].hand = {}
    OBVIOUS
  <2>1. CASE Settle(w)
    <3>1. work'[w].hand = work[w].hand
      BY <2>1, SettleMoves
    <3> QED BY <2>1, <3>1 DEF Settle, With
  <2>2. CASE OweRefund(w) \/ NetRefund(w)
    <3>1. work'[w].hand = work[w].hand \/ work'[w].hand = {}
      BY <2>2, OweRefundMoves, NetRefundMoves, AfterMoves DEF Rest
    <3>2. work[w].pc \in {"owe", "net"} /\ status' = status
      BY <2>2, OweRefundMoves, NetRefundMoves DEF OweRefund, NetRefund, rows
    <3> QED BY <1>u, <3>1, <3>2 DEF UndoneSound, With
  <2> QED BY <1>c, <2>1, <2>2 DEF CameBy
<1>6. w \in Hooks /\ work'[w].pc \in Undoing \ {"refunded"} => With("completed")' \subseteq work'[w].todo
  <2> SUFFICES ASSUME w \in Hooks, work'[w].pc \in Undoing \ {"refunded"}
               PROVE  With("completed")' \subseteq work'[w].todo
    OBVIOUS
  <2>0. w \notin Routes
    BY WorkersAssumption
  <2>1. CASE ReadCharge(w)
    <3>1. work'[w].todo = keyed /\ status' = status
      BY <2>1, ReadChargeMoves DEF ReadCharge, rows
    <3> QED BY <3>1 DEF With, PlaceInv
  <2>2. CASE (NextRow(w) /\ work'[w] # Rest) \/ ReadHold(w) \/ DropHold(w) \/ NothingToReverse(w) \/ Reverse(w)
             \/ ReverseLost(w) \/ NetRefund(w)
    <3>1. work'[w].todo = work[w].todo /\ work[w].pc \in (Undoing \ {"refunded"}) \cup {"hold", "drop"}
      BY <2>2, NextRowMoves, ReadHoldMoves, DropHoldMoves, ClawMoves, NetRefundMoves DEF Undoing
    <3>2. work[w].pc \notin {"hold", "drop"}
      BY <2>0, HandledEvent
    <3>3. status' = status
      BY <2>2 DEF NextRow, ReadHold, DropHold, NothingToReverse, Reverse, ReverseLost,
           NetRefund, rows
    <3> QED BY <1>u, <3>1, <3>2, <3>3 DEF UndoneSound, With
  <2>3. CASE Settle(w)
    <3>1. work'[w].todo = work[w].todo /\ work[w].pc = "settle"
      BY <2>3, SettleMoves
    <3>2. With("completed")' \subseteq With("completed")
      BY <2>3 DEF Settle, With
    <3> QED BY <1>u, <3>1, <3>2 DEF UndoneSound, Undoing
  <2>4. CASE OweRefund(w) \/ Book(w)
    <3>1. /\ work[w].pc \in {"owe", "book"} /\ status' = status
          /\ work'[w].todo = work[w].todo \/ work'[w].todo = work[w].todo \ work[w].hand
      BY <2>0, <2>4, OweRefundMoves, BookMoves, AfterMoves DEF OweRefund, Book, rows
    <3>2. With("completed") \subseteq work[w].todo /\ With("completed") \cap work[w].hand = {}
      BY <1>u, <3>1 DEF UndoneSound, Undoing
    <3> QED BY <3>1, <3>2 DEF With
  <2>5. work'[w] = Rest => work'[w].pc = "rest"
    BY DEF Rest
  <2>6. NextRow(w) => work'[w] # Rest
    BY <2>5 DEF Undoing
  <2> QED BY <1>c, <2>1, <2>2, <2>3, <2>4, <2>6 DEF CameBy, Undoing
<1> QED BY <1>1, <1>2, <1>3, <1>4, <1>5, <1>6 DEF UndoneSound

\* What the others found stays so.
LEMMA UndoneStays ==
  ASSUME TypeOK, PlaceInv, AskedInv, LogInv, OrderInv, KeyInv, AccessInv, InOrder, ~unfit,
         deaths = 0, NEW w \in Workers, Acts(w), NEW v \in Workers, v # w
  PROVE  UndoneSound(v, work[v])'
<1> USE DEF TypeOK
<1>n. [Next]_vars
  BY DEF Acts, Next, Workers
<1>s. work'[v] = work[v] /\ UndoneSound(v, work[v])
  BY OthersRest DEF AccessInv
<1>d. dispute' = dispute
  BY Writing DEF Writes
<1>c. /\ work[v].event = "created" => Begun("created") /\ keyed = Purchases
      /\ work[v].event = "closed" => Begun("closed")
      /\ work[v].event = "refunded" => Begun("refunded")
  BY AllKeyed DEF Begun, Busy
<1>1. keyed' = keyed \/ work[v].event # "created"
  BY <1>c, <1>n, KeyedStays, TypeStep DEF RowsOK
<1>2. With("completed")' \subseteq With("completed")
         \/ (~Begun("refunded") /\ (~Begun("created") \/ dispute = "won"))
  BY CompletedEarly DEF With
<1>3. With("disputed")' \subseteq With("disputed") \/ ~Begun("closed")
  BY DisputedEarly DEF With
<1>4. /\ work[v].pc \in {"insert", "net dispute"} => work[v].event = "created"
      /\ work[v].pc = "cancel" => work[v].event = "closed"
      /\ v \in Hooks /\ work[v].pc \in Undoing => work[v].event = "refunded"
  BY HandledEvent DEF Taking, Closing
<1>5. {"owe", "net", "book"} \subseteq Undoing
  BY DEF Undoing
<1>6. work[v].pc = "insert" => work[v].read = keyed'
  BY <1>s, <1>1, <1>4 DEF UndoneSound
<1>7. work[v].pc = "net dispute" /\ dispute # "won" => With("completed")' = {}
  BY <1>s, <1>c, <1>2, <1>4 DEF UndoneSound
<1>8. work[v].pc \in {"restore", "cancel"} => dispute = "won"
  BY <1>s DEF UndoneSound
<1>9. work[v].pc = "cancel" => With("disputed")' = {}
  BY <1>s, <1>c, <1>3, <1>4 DEF UndoneSound
<1>10. v \in Hooks /\ work[v].pc \in Undoing => With("completed")' \subseteq With("completed")
  BY <1>c, <1>2, <1>4
<1>11. v \in Hooks /\ work[v].pc \in Undoing \ {"refunded"} => With("completed")' \subseteq work[v].todo
  BY <1>s, <1>10 DEF UndoneSound
<1>12. v \in Hooks /\ work[v].pc \in {"owe", "net", "book"} => With("completed")' \cap work[v].hand = {}
  BY <1>s, <1>5, <1>10 DEF UndoneSound
<1> QED BY <1>s, <1>d, <1>6, <1>7, <1>8, <1>9, <1>11, <1>12 DEF UndoneSound

\* A worker's step keeps access where the events in order left it.
LEMMA AccessActs ==
  ASSUME TypeOK, PlaceInv, AskedInv, LogInv, OrderInv, KeyInv, AccessInv, InOrder, ~unfit,
         deaths = 0, NEW w \in Workers, Acts(w), ~Die(w)
  PROVE  AccessInv'
<1> USE DEF TypeOK
<1>n. [Next]_vars
  BY DEF Acts, Next, Workers
<1>c. LeavesBy(w)
  BY Leaves
<1>w. Writes(w)
  BY Writing
<1>d. dispute' = dispute /\ dashboard' = dashboard
  BY <1>w DEF Writes
<1>p. PlaceInv' /\ TypeOK'
  BY <1>n, PlaceStep, TypeStep
<1>h. /\ work[w].event = "created" => Begun("created")
      /\ work[w].event = "closed" => Begun("closed")
      /\ work[w].event = "refunded" => Begun("refunded")
  BY DEF Begun, Busy
<1>a. ASSUME NEW e \in Events, e \in acked', e \notin acked
      PROVE  w \in Hooks /\ work[w].pc \in Answering /\ work[w].event = e /\ work'[w] = Rest
  BY <1>a, Answers
<1>2a. With("completed")' \subseteq With("completed")
         \/ (~Begun("refunded") /\ (~Begun("created") \/ dispute = "won"))
  BY CompletedEarly DEF With
<1>3a. With("disputed")' \subseteq With("disputed") \/ (~Begun("closed") /\ dispute # "none")
  BY DisputedEarly DEF With
<1>1. keyed' # {} => Begun("succeeded")'
  <2>1. CASE keyed' = keyed
    <3>1. work[w].event = "succeeded" => work'[w].event = "succeeded" \/ "succeeded" \in acked'
      <4> SUFFICES ASSUME work[w].event = "succeeded"
                   PROVE  work'[w].event = "succeeded" \/ "succeeded" \in acked'
        OBVIOUS
      <4>1. work[w] # Rest /\ w \in Hooks
        BY BusyHook DEF Rest
      <4>2. work'[w] = Rest \/ work'[w].event = work[w].event
        BY <4>1, EventMoves DEF Deliver
      <4> QED BY <4>1, <4>2, Ends
    <3>2. acked \subseteq acked'
      BY <1>w DEF Writes
    <3>3. keyed # {} => Begun("succeeded")
      BY DEF AccessInv
    <3> QED BY <2>1, <3>1, <3>2, <3>3, OthersRest DEF Begun, Busy
  <2>2. CASE Key(w)
    BY <2>2, KeyMoves, HandledEvent DEF Begun, Busy, Completing
  <2> QED BY <1>w, <2>1, <2>2 DEF Writes
<1>2. With("failed")' = {}
  <2> SUFFICES ASSUME NEW p \in Purchases, status'[p] = "failed" PROVE FALSE
    BY DEF With
  <2>1. status[p] # "failed"
    BY DEF AccessInv, With
  <2>2. Fail(w) /\ p \in keyed
    BY <2>1, RowMoves
  <2>3. work[w].event = "failed"
    BY <2>2, AnswerMoves, HandledEvent
  <2>4. Begun("succeeded")
    BY <2>2 DEF AccessInv
  <2> QED BY <2>3, <2>4, BusyFirst DEF Earlier, Events
<1>3. "created" \in acked' /\ dispute' # "won" => With("completed")' = {}
  <2> SUFFICES ASSUME "created" \in acked', dispute # "won" PROVE With("completed")' = {}
    BY <1>d
  <2>1. CASE "created" \in acked
    BY <1>2a, <2>1 DEF AccessInv, Begun
  <2>2. CASE "created" \notin acked
    <3>1. work[w].event = "created" /\ work[w].pc \in Answering /\ w \in Hooks
      BY <1>a, <2>2 DEF Events
    <3>2. work[w].pc = "net dispute"
      BY <3>1 DEF PlaceInv, InPlace, Role, Handling, Answering, Taking
    <3>3. With("completed") = {}
      BY <3>2 DEF AccessInv, UndoneSound
    <3> QED BY <1>h, <1>2a, <3>1, <3>3
  <2> QED BY <2>1, <2>2
<1>4. "closed" \in acked' /\ dispute' = "won" => With("disputed")' = {}
  <2> SUFFICES ASSUME "closed" \in acked', dispute = "won" PROVE With("disputed")' = {}
    BY <1>d
  <2>1. CASE "closed" \in acked
    BY <1>3a, <2>1 DEF AccessInv, Begun
  <2>2. CASE "closed" \notin acked
    <3>1. work[w].event = "closed" /\ work[w].pc \in Answering /\ w \in Hooks /\ work'[w] = Rest
      BY <1>a, <2>2 DEF Events
    <3>2. work[w].pc \in {"closed", "cancel"}
      BY <3>1 DEF PlaceInv, InPlace, Role, Handling, Answering, Closing
    <3>3. work[w].pc # "closed"
      <4>1. UpsertDispute(w) => work'[w].pc = "restore"
        BY <2>2, UpsertDisputeMoves
      <4>2. work'[w].pc # "restore"
        BY <3>1 DEF Rest
      <4> QED BY <1>c, <4>1, <4>2 DEF LeavesBy
    <3>4. With("disputed") = {}
      BY <3>2, <3>3 DEF AccessInv, UndoneSound
    <3> QED BY <1>h, <1>3a, <3>1, <3>4
  <2> QED BY <2>1, <2>2
<1>5. "refunded" \in acked' => With("completed")' = {}
  <2> SUFFICES ASSUME "refunded" \in acked' PROVE With("completed")' = {}
    OBVIOUS
  <2>1. CASE "refunded" \in acked
    BY <1>2a, <2>1 DEF AccessInv, Begun
  <2>2. CASE "refunded" \notin acked
    <3>1. work[w].event = "refunded" /\ work[w].pc \in Answering /\ w \in Hooks /\ work'[w] = Rest
      BY <1>a, <2>2 DEF Events
    <3>2. work[w].pc = "next"
      BY <3>1 DEF PlaceInv, InPlace, Role, Handling, Answering, Undoing
    <3>3. work[w].todo = {}
      <4>1. NextRow(w) /\ work'[w].pc = "rest"
        BY <1>c, <3>1, <3>2 DEF LeavesBy, Rest
      <4> QED BY <4>1, NextRowMoves
    <3>4. With("completed") = {}
      BY <3>1, <3>2, <3>3 DEF AccessInv, UndoneSound, Undoing
    <3> QED BY <1>h, <1>2a, <3>1, <3>4
  <2> QED BY <2>1, <2>2
<1>6. With("disputed")' # {} => dispute' # "none"
  BY <1>d, <1>3a DEF AccessInv
<1>7. \A p \in With("refunded")' : p \in refunded' \/ dashboard'
  <2> SUFFICES ASSUME NEW p \in Purchases, status'[p] = "refunded" PROVE p \in refunded' \/ dashboard
    BY <1>d DEF With
  <2>1. refunded \subseteq refunded'
    BY <1>w, IssueRefundMoves DEF Writes
  <2>2. CASE status[p] = "refunded"
    BY <2>1, <2>2 DEF AccessInv, With
  <2>3. CASE status[p] # "refunded"
    <3>1. Settle(w) /\ p \in work[w].hand
      BY <2>3, RowMoves
    <3>2. work[w].pc = "settle"
      BY <3>1, SettleMoves
    <3>3. CASE w \in Routes
      BY <2>1, <3>1, <3>2, <3>3 DEF AskedInv, RefundSteps
    <3>4. CASE w \in Hooks
      <4>1. "refunded" \in Emitted
        BY <3>2, <3>4, HandledEvent DEF PlaceInv, InPlace, Undoing
      <4> QED BY <2>1, <4>1 DEF LogInv
    <3> QED BY <3>2, <3>3, <3>4 DEF PlaceInv, InPlace, Role, Workers
  <2> QED BY <2>2, <2>3
<1>8. dispute' = "none" =>
         \A p \in refunded' : status'[p] = "refunded" \/ \E v \in Workers : Returning(v, p)'
  <2> SUFFICES ASSUME dispute = "none", NEW p \in refunded', status'[p] # "refunded"
               PROVE  \E v \in Workers : Returning(v, p)'
    BY <1>d
  <2>0. p \in Purchases /\ status[p] # "refunded"
    <3>1. p \in Purchases
      BY <1>n, AskedStep DEF AskedInv
    <3> QED BY <3>1, RowMoves
  <2>1. CASE p \notin refunded
    <3>1. IssueRefund(w) /\ work[w].pc = "refund" /\ w \in Routes
      BY <1>w, <2>1, IssueRefundMoves, HandledEvent DEF Writes
    <3>2. \E q \in Purchases : work[w].hand = {q}
      BY <3>1 DEF PlaceInv, InPlace, OneRow, RefundSteps
    <3>3. work'[w].pc = "hold" /\ work'[w].hand = work[w].hand /\ p \in work[w].hand
      BY <2>1, <3>1, <3>2, IssueRefundMoves
    <3> QED BY <3>1, <3>3 DEF Returning
  <2>2. CASE p \in refunded
    <3>1. PICK v \in Workers : Returning(v, p)
      BY <2>0, <2>2 DEF AccessInv
    <3>2. CASE v # w
      BY <3>1, <3>2, OthersRest DEF Returning
    <3>3. CASE v = w
      <4>1. ~Settle(w)
        <5>1. ASSUME Settle(w) PROVE FALSE
          <6>1. status[p] = "completed"
            BY <2>0, <2>2 DEF AskedInv, Bought, AccessInv, With
          <6> QED BY <2>0, <3>1, <3>3, <5>1, <6>1 DEF Settle, With, Returning
        <5> QED BY <5>1
      <4>2. w \in Routes /\ work[w].pc \in {"hold", "drop", "claw"} /\ p \in work[w].hand
        BY <1>c, <3>1, <3>3, <4>1 DEF Returning, LeavesBy
      <4>3. /\ work'[w].pc \in {"drop", "claw", "settle"} /\ work'[w].hand = work[w].hand
        <5>1. CASE ReadHold(w)
          <6>1. work'[w].pc \in {"claw", "drop", "settle"}
            BY <5>1, ReadHoldMoves
          <6> QED BY <5>1, <6>1, ReadHoldMoves
        <5>2. CASE DropHold(w)
          BY <5>2, DropHoldMoves
        <5>3. CASE NothingToReverse(w) \/ Reverse(w) \/ ReverseLost(w)
          BY <5>3, ClawMoves
        <5> QED BY <1>c, <4>2, <5>1, <5>2, <5>3 DEF LeavesBy
      <4> QED BY <4>2, <4>3 DEF Returning
    <3> QED BY <3>2, <3>3
  <2> QED BY <2>1, <2>2
<1>9. \A v \in Workers : UndoneSound(v, work[v])'
  BY UndoneActs, UndoneStays
<1> QED BY <1>1, <1>2, <1>3, <1>4, <1>5, <1>6, <1>7, <1>8, <1>9 DEF AccessInv

\* The world changes what is disputed and refunded, not the rows.
LEMMA AccessWorld ==
  ASSUME TypeOK, PlaceInv, LogInv, AccessInv, World
  PROVE  AccessInv'
<1> SUFFICES ASSUME InOrder, deaths = 0, ~unfit PROVE AccessInv'
  <2>1. deaths' = deaths /\ unfit' = unfit
    BY WorldActs
  <2> QED BY <2>1 DEF AccessInv
<1>1. UNCHANGED <<keyed, status, acked, refunded, work, deaths>>
  BY WorldActs DEF rows
<1>2. /\ dispute' = dispute \/ (dispute = "none" /\ dispute' = "open")
                            \/ (dispute = "open" /\ dispute' \in {"won", "lost"})
      /\ dashboard => dashboard'
  BY DEF World, Decline, Charge, RefundAtStripe, Dispute, CloseDispute, Release, AccountUpdated,
     money
<1>3. \A s \in {"failed", "completed", "disputed", "refunded"} : With(s)' = With(s)
  BY <1>1 DEF With
<1>4. /\ "created" \in acked => dispute # "none"
      /\ "closed" \in acked => dispute \in {"won", "lost"}
  BY DEF PlaceInv, LogInv
<1>5. ASSUME NEW w \in Workers PROVE UndoneSound(w, work[w])'
  <2>1. work[w].pc = "net dispute" => dispute # "none"
    <3>1. work[w].pc = "net dispute" => work[w].event = "created"
      BY HandledEvent DEF Taking
    <3> QED BY <3>1 DEF LogInv, PlaceInv, InPlace
  <2>2. UndoneSound(w, work[w])
    BY DEF AccessInv
  <2> QED BY <1>1, <1>2, <1>3, <2>1, <2>2 DEF UndoneSound
<1>6. \A v \in Workers, p \in Purchases : Returning(v, p)' <=> Returning(v, p)
  BY <1>1 DEF Returning
<1>7. /\ keyed' # {} => Begun("succeeded")'
      /\ With("failed")' = {}
      /\ "refunded" \in acked' => With("completed")' = {}
  BY <1>1, <1>3 DEF AccessInv, Begun, Busy
<1>8. /\ "created" \in acked' /\ dispute' # "won" => With("completed")' = {}
      /\ "closed" \in acked' /\ dispute' = "won" => With("disputed")' = {}
      /\ With("disputed")' # {} => dispute' # "none"
  BY <1>1, <1>2, <1>3, <1>4 DEF AccessInv
<1>9. /\ \A p \in With("refunded")' : p \in refunded' \/ dashboard'
      /\ dispute' = "none" =>
            \A p \in refunded' : status'[p] = "refunded" \/ \E w \in Workers : Returning(w, p)'
  <2>1. \A p \in With("refunded")' : p \in refunded' \/ dashboard'
    BY <1>1, <1>2, <1>3 DEF AccessInv
  <2>2. dispute' = "none" => dispute = "none"
    BY <1>2
  <2> QED BY <1>1, <1>6, <2>1, <2>2 DEF AccessInv, LogInv
<1> QED BY <1>5, <1>7, <1>8, <1>9 DEF AccessInv

\* So AccessInv is inductive.
LEMMA AccessStep ==
  /\ TypeOK /\ PlaceInv /\ AskedInv /\ LogInv /\ OrderInv /\ KeyInv /\ AccessInv
  /\ [Next]_vars
  => AccessInv'
<1> SUFFICES ASSUME TypeOK, PlaceInv, AskedInv, LogInv, OrderInv, KeyInv, AccessInv, [Next]_vars
             PROVE  AccessInv'
  OBVIOUS
<1>1. ASSUME NEW w \in Workers, Acts(w) PROVE AccessInv'
  <2> SUFFICES ASSUME InOrder, deaths' = 0, ~unfit' PROVE AccessInv'
    BY DEF AccessInv
  <2>2. ~unfit
    BY <1>1, Writing DEF TypeOK, Writes
  <2>1. ~Die(w) /\ deaths = 0
    BY <1>1, Writing DEF Die, TypeOK, WorldOK, Writes
  <2> QED BY <1>1, <2>1, <2>2, AccessActs
<1>2. CASE UNCHANGED vars
  BY <1>2 DEF vars, rows, tables, stripe, money, mishaps, AccessInv, With, Begun, Busy,
       Returning,
              UndoneSound
<1> QED BY <1>1, <1>2, AccessWorld, WhoActs

\* When all is answered and nobody died, the buyer holds what was paid for and not
\* given back, however the charge, its refunds and its dispute interleave: provided
\* that Stripe's events are delivered in the order it emitted them.
THEOREM AccessFollowsMoneyAlways ==
  ASSUME InOrder
  PROVE  Spec => []AccessFollowsMoney
<1>1. TypeOK /\ PlaceInv /\ LogInv /\ KeyInv /\ AccessInv => AccessFollowsMoney
  <2> SUFFICES ASSUME TypeOK, PlaceInv, LogInv, KeyInv, AccessInv, Settled, deaths = 0,
                      NEW p \in Purchases, p \notin refunded \/ dispute = "none"
               PROVE  status[p] = "completed" <=> "succeeded" \in Emitted /\ ~Lost(p) /\ ~unfit
    BY DEF AccessFollowsMoney
  <2>u. status[p] = "completed" => ~unfit
    BY DEF PlaceInv
  <2>1. \A w \in Workers : ~Returning(w, p)
    BY DEF Settled, Returning, Rest
  <2>2. ASSUME status[p] = "completed", ~unfit PROVE "succeeded" \in Emitted /\ ~Lost(p)
    <3>1. p \in keyed
      BY <2>2 DEF PlaceInv
    <3>2. "refunded" \notin acked /\ ("created" \in acked => dispute = "won")
      BY <2>2 DEF AccessInv, With
    <3>3. ~dashboard /\ dispute \notin {"open", "lost"}
      BY <3>2 DEF LogInv, Settled
    <3>4. p \notin refunded
      BY <2>1, <2>2 DEF AccessInv
    <3> QED BY <3>1, <3>3, <3>4 DEF Lost, PlaceInv
  <2>3. ASSUME "succeeded" \in Emitted, ~Lost(p), ~unfit PROVE status[p] = "completed"
    <3>1. p \notin refunded /\ ~dashboard /\ dispute \in {"none", "won"}
      BY <2>3 DEF Lost, TypeOK, WorldOK
    <3>2. status[p] # "pending"
      BY <2>3 DEF KeyInv, Settled
    <3>3. status[p] # "failed"
      BY <2>3 DEF AccessInv, With
    <3>4. status[p] # "refunded"
      BY <2>3, <3>1 DEF AccessInv, With
    <3>5. status[p] # "disputed"
      <4>1. dispute = "won" => "closed" \in acked
        BY DEF LogInv, Settled
      <4> QED BY <2>3, <3>1, <4>1 DEF AccessInv, With
    <3> QED BY <3>2, <3>3, <3>4, <3>5 DEF TypeOK, RowsOK
  <2> QED BY <2>u, <2>2, <2>3
<1> QED
  BY <1>1, TypeInit, TypeStep, PlaceInit, PlaceStep, AskedInit, AskedStep, LogInit, LogStep,
     OrderInit, OrderStep, KeyInit, KeyStep, AccessInit, AccessStep, PTL DEF Spec

-----------------------------------------------------------------------------
(* The held credit of a refunded good.                                     *)

\* One delivery of the charge at a time: a duplicate waits for the first, or for
\* everybody, or one process takes all deliveries.
OneDelivery == ~({"overlap", "duplicate"} \subseteq May) \/ \A v, w \in Hooks : v = w

Charging(w) == w \in Hooks /\ work[w].pc \in {"key", "group", "split", "stamp", "credit"}

\* What the delivery of the charge has yet to credit was not bought before.
FreshInv ==
    OneDelivery =>
        /\ \A v, w \in Workers :
              work[v].event = "succeeded" /\ work[w].event = "succeeded" => v = w
        /\ \A w \in Workers : Charging(w) => \A p \in work[w].read : ~Bought(p)

\* At the start no delivery is at work.
LEMMA FreshInit == Init => FreshInv
  BY DEF Init, FreshInv, Charging, Rest

\* One delivery of a charge at a time finds only rows that were not bought.
LEMMA FreshStep == TypeOK /\ PlaceInv /\ FreshInv /\ [Next]_vars => FreshInv'
<1> SUFFICES ASSUME TypeOK, PlaceInv, FreshInv, [Next]_vars, OneDelivery PROVE FreshInv'
  BY DEF FreshInv
<1> USE DEF TypeOK
<1>1. ASSUME NEW w \in Workers, Acts(w) PROVE FreshInv'
  <2>o. \A v \in Workers : v # w => work'[v] = work[v]
    BY <1>1, OthersRest
  <2>r. \A v \in Workers : work[v].read \subseteq Purchases
    BY DEF WorkOK, IsWorker
  <2>1. \A u, v \in Workers : work'[u].event = "succeeded" /\ work'[v].event = "succeeded" => u = v
    <3>1. CASE work'[w].event = work[w].event \/ work'[w] = Rest
      BY <2>o, <3>1 DEF FreshInv, Rest
    <3>2. ASSUME NEW i \in DOMAIN log, Deliver(w, i)
          PROVE  \A u, v \in Workers : work'[u].event = "succeeded" /\ work'[v].event = "succeeded" => u = v
      <4>1. work'[w].event = log[i]
        BY <3>2, DeliverMoves
      <4>2. CASE "duplicate" \notin May
        <5>1. ~\E v \in Hooks : work[v].event = log[i]
          BY <3>2, <4>2 DEF Deliver
        <5>2. \A v \in Workers : work[v].event = "succeeded" => v \in Hooks
          BY BusyHook
        <5> QED BY <2>o, <4>1, <5>1, <5>2 DEF FreshInv
      <4>3. CASE "overlap" \notin May
        <5>1. \A v \in Workers : v # w => work[v] = Rest
          BY <3>2, <4>3 DEF Deliver, Alone
        <5> QED BY <2>o, <5>1 DEF Rest
      <4>4. CASE \A u, v \in Hooks : u = v
        <5>1. PlaceInv'
          BY PlaceStep
        <5>2. \A v \in Workers : work'[v].event = "succeeded" => v \in Hooks
          BY <5>1 DEF PlaceInv, InPlace, Role, Workers
        <5> QED BY <4>4, <5>2
      <4> QED BY <4>2, <4>3, <4>4 DEF OneDelivery
    <3> QED BY <1>1, <3>1, <3>2, EventMoves
  <2>2. ASSUME NEW v \in Workers, Charging(v)', NEW p \in work'[v].read PROVE ~Bought(p)'
    <3>1. CASE ReadSession(w) /\ v = w
      <4>1. p \in Purchases /\ status[p] = "pending" /\ status' = status
        BY <2>2, <3>1, ReadSessionMoves, ZenonT(40) DEF Found, With, ReadSession, rows
      <4> QED BY <4>1 DEF Bought
    <3>2. (Charging(v) /\ p \in work[v].read) \/ (ReadSession(w) /\ v = w)
      <4>1. CASE v # w
        BY <2>2, <2>o, <4>1 DEF Charging
      <4>2. CASE v = w
        <5>0. w \in Hooks /\ w \notin Jobs
          BY <2>2, <4>2, WorkersAssumption DEF Charging
        <5>1. CASE Key(w) \/ Group(w) \/ Stamp(w) \/ StampLost(w)
          BY <2>2, <4>2, <5>0, <5>1, KeyMoves, GroupMoves, StampMoves DEF Charging
        <5>2. CASE SplitDone(w) \/ CreditGoods(w)
          BY <2>2, <4>2, <5>0, <5>2, SplitDoneMoves, CreditGoodsMoves DEF Charging
        <5>3. ASSUME NEW k \in Creators, SkipCreator(w, k) \/ KeyRefused(w, k) \/ Transfer(w, k)
              PROVE  Charging(w) /\ work'[w].read = work[w].read
          BY <5>0, <5>3, PassCreatorMoves, TransferMoves DEF Charging
        <5>4. CameBy(w) /\ ~ReadDebts(w)
          BY <1>1, <5>0, Comes DEF ReadDebts
        <5> QED BY <2>2, <4>2, <5>1, <5>2, <5>3, <5>4 DEF CameBy, Charging
      <4> QED BY <4>1, <4>2
    <3>3. CASE Charging(v) /\ p \in work[v].read
      <4>1. p \in Purchases /\ ~Bought(p)
        BY <2>r, <3>3 DEF FreshInv
      <4>2. ASSUME Bought(p)' PROVE FALSE
        <5>1. Complete(w)
          BY <1>1, <4>1, <4>2, RowMoves DEF Bought
        <5>2. work[w].event = "succeeded" /\ work[w].pc = "complete"
          BY <5>1, CompleteMoves, HandledEvent DEF Completing
        <5>3. work[v].event = "succeeded"
          BY <3>3 DEF Charging, PlaceInv, InPlace, Role, Handling, Completing, Undoing,
               Taking, Closing
        <5>4. v = w
          BY <5>2, <5>3 DEF FreshInv
        <5> QED BY <3>3, <5>2, <5>4 DEF Charging
      <4> QED BY <4>2
    <3> QED BY <3>1, <3>2, <3>3
  <2> QED BY <2>1, <2>2 DEF FreshInv
<1>2. CASE UNCHANGED <<status, work>>
  BY <1>2 DEF FreshInv, Charging, Bought
<1> QED BY <1>1, <1>2, WhoActs, WorldActs DEF vars, rows

\* A request that has yet to look for the credit, or to drop it.
Dropping(w, p) == w \in Routes /\ work[w].pc \in {"hold", "drop"} /\ p \in work[w].hand

HoldInv ==
    /\ "dashboard" \notin May => \A p \in With("refunded") : p \in refunded
    /\ OneDelivery /\ deaths = 0 =>
          \A p \in refunded \cap Goods :
              saleCredit[p] = "held" => \E w \in Workers : Dropping(w, p)

\* At the start nothing is refunded.
LEMMA HoldInit == Init => HoldInv
  BY DEF Init, HoldInv, With

\* A refund by the route drops the hold, and nobody writes it again.
LEMMA HoldActs ==
  ASSUME TypeOK, PlaceInv, AskedInv, LogInv, FreshInv, HoldInv, NEW w \in Workers, Acts(w)
  PROVE  HoldInv'
<1> USE DEF TypeOK
<1>n. [Next]_vars
  BY DEF Acts, Next, Workers
<1>w. Writes(w)
  BY Writing
<1>m. refunded \subseteq refunded'
  BY <1>w, IssueRefundMoves DEF Writes
<1>1. ASSUME "dashboard" \notin May, NEW p \in Purchases, status'[p] = "refunded" PROVE p \in refunded'
  <2>1. CASE status[p] = "refunded"
    BY <1>1, <1>m, <2>1 DEF HoldInv, With
  <2>2. CASE status[p] # "refunded"
    <3>1. Settle(w) /\ p \in work[w].hand
      BY <1>1, <2>2, RowMoves
    <3>2. work[w].pc = "settle"
      BY <3>1, SettleMoves
    <3>3. CASE w \in Routes
      BY <1>m, <3>1, <3>2, <3>3 DEF AskedInv, RefundSteps
    <3>4. CASE w \in Hooks
      <4>1. "refunded" \in Emitted
        BY <3>2, <3>4, HandledEvent DEF PlaceInv, InPlace, Undoing
      <4> QED BY <1>1, <1>m, <4>1 DEF LogInv
    <3> QED BY <3>2, <3>3, <3>4 DEF PlaceInv, InPlace, Role, Workers
  <2> QED BY <2>1, <2>2
<1>2. ASSUME OneDelivery, deaths' = 0, NEW p \in Goods, p \in refunded', saleCredit'[p] = "held"
      PROVE  \E v \in Workers : Dropping(v, p)'
  <2>0. p \in Purchases /\ ~Die(w) /\ deaths = 0
    BY <1>2, <1>w, RowsAssumption DEF Die, WorldOK, Writes
  <2>c. LeavesBy(w)
    BY <2>0, Leaves
  <2>1. CASE p \notin refunded
    <3>1. IssueRefund(w) /\ work[w].pc = "refund" /\ w \in Routes
      BY <1>w, <1>2, <2>1, IssueRefundMoves, HandledEvent DEF Writes
    <3>2. \E q \in Purchases : work[w].hand = {q}
      BY <3>1 DEF PlaceInv, InPlace, OneRow, RefundSteps
    <3>3. work'[w].pc = "hold" /\ work'[w].hand = work[w].hand /\ p \in work[w].hand
      BY <1>2, <2>1, <3>1, <3>2, IssueRefundMoves
    <3> QED BY <3>1, <3>3 DEF Dropping
  <2>2. CASE p \in refunded /\ saleCredit[p] # "held"
    <3>1. CASE CreditGoods(w)
      <4>1. p \in work[w].todo /\ work[w].pc = "credit"
        BY <1>2, <2>2, <3>1, CreditGoodsMoves DEF RowsOK
      <4>2. w \in Hooks /\ p \in work[w].read
        BY <4>1, HandledEvent DEF Completing, PlaceInv, InPlace, OfRead
      <4>3. ~Bought(p)
        BY <1>2, <4>1, <4>2 DEF FreshInv, Charging
      <4> QED BY <2>2, <4>3 DEF AskedInv
    <3>2. CASE DropHold(w)
      BY <1>2, <2>2, <3>2 DEF DropHold
    <3> QED BY <1>2, <1>w, <2>2, <3>1, <3>2 DEF Writes
  <2>3. CASE p \in refunded /\ saleCredit[p] = "held"
    <3>1. PICK v \in Workers : Dropping(v, p)
      BY <1>2, <2>0, <2>3 DEF HoldInv
    <3>2. CASE v # w
      BY <3>1, <3>2, OthersRest DEF Dropping
    <3>3. CASE v = w
      <4>1. ~DropHold(w)
        <5>1. DropHold(w) => saleCredit'[p] = "none"
          BY <1>2, <3>1, <3>3 DEF DropHold, Dropping
        <5> QED BY <1>2, <5>1
      <4>2. ReadHold(w) /\ w \in Routes /\ p \in work[w].hand
        BY <2>c, <3>1, <3>3, <4>1 DEF Dropping, LeavesBy
      <4>3. PICK q \in Purchases : work[w].hand = {q}
        BY <4>2, ReadHoldMoves DEF PlaceInv, InPlace, OneRow, RefundSteps
      <4>4. p = CHOOSE x \in Purchases : x \in work[w].hand
        BY <4>2, <4>3
      <4>5. work'[w].pc = "drop" /\ work'[w].hand = work[w].hand
        BY <1>2, <2>3, <4>2, <4>4, ReadHoldMoves
      <4> QED BY <4>2, <4>5 DEF Dropping
    <3> QED BY <3>2, <3>3
  <2> QED BY <2>1, <2>2, <2>3
<1> QED BY <1>1, <1>2 DEF HoldInv, With

\* So HoldInv is inductive.
LEMMA HoldStep ==
  TypeOK /\ PlaceInv /\ AskedInv /\ LogInv /\ FreshInv /\ HoldInv /\ [Next]_vars => HoldInv'
<1> SUFFICES ASSUME TypeOK, PlaceInv, AskedInv, LogInv, FreshInv, HoldInv, [Next]_vars
             PROVE  HoldInv'
  OBVIOUS
<1>1. ASSUME UNCHANGED <<status, refunded, work, deaths>>,
             \A p \in Goods : saleCredit'[p] = "held" => saleCredit[p] = "held"
      PROVE  HoldInv'
  BY <1>1 DEF HoldInv, With, Dropping
<1>2. CASE World
  <2>1. ASSUME NEW q, Release(q), NEW p \in Goods, saleCredit'[p] = "held"
        PROVE  saleCredit[p] = "held"
    BY <2>1 DEF Release, TypeOK, RowsOK
  <2> QED BY <1>1, <1>2, <2>1, WorldActs DEF rows
<1> QED BY <1>1, <1>2, HoldActs, WhoActs DEF vars, rows, tables, stripe, money, mishaps

\* The credit of a refunded good does not wait for a parcel, where the transfer job
\* would pay it, unless somebody died: provided that no operator refunds the charge
\* in Stripe's dashboard, and that two deliveries of the charge do not overlap.
THEOREM HoldGoesWithRefundAlways ==
  ASSUME "dashboard" \notin May, OneDelivery
  PROVE  Spec => []HoldGoesWithRefund
<1>1. TypeOK /\ HoldInv => HoldGoesWithRefund
  <2> SUFFICES ASSUME HoldInv, Settled, deaths = 0, NEW p \in With("refunded") \cap Goods,
                      saleCredit[p] = "held"
               PROVE  FALSE
    BY DEF HoldGoesWithRefund
  <2>1. \E w \in Workers : Dropping(w, p)
    BY DEF HoldInv
  <2> QED BY <2>1 DEF Settled, Dropping, Rest
<1> QED
  BY <1>1, TypeInit, TypeStep, PlaceInit, PlaceStep, AskedInit, AskedStep, LogInit, LogStep,
     FreshInit, FreshStep, HoldInit, HoldStep, PTL DEF Spec

-----------------------------------------------------------------------------
(* What a completed good is owed.                                          *)

\* Without overlap one worker is at work at a time.
SerialInv ==
    "overlap" \notin May =>
        \A v, w \in Workers : work[v] # Rest /\ work[w] # Rest => v = w

\* At the start every worker rests.
LEMMA SerialInit == Init => SerialInv
  BY DEF Init, SerialInv

\* A worker starts by a delivery, by the retry's read or by a request.
LEMMA Starts ==
  ASSUME NEW w \in Workers, Acts(w), work[w] = Rest
  PROVE  (\E i \in DOMAIN log : Deliver(w, i)) \/ ReadDebts(w) \/ \E p \in Purchases : AskRefund(w, p)
<1>1. work[w].pc = "rest"
  BY DEF Rest
<1>2. ~Completion(w)
  BY <1>1 DEF Completion, ReadSession, Key, Group, SplitDone, CreditGoods, Ship, Complete,
              ReadSettled, OweReceipts, Fail, SkipCreator, Transfer, KeyRefused, Stamp, At
<1>3. ~Refunding(w)
  BY <1>1 DEF Refunding, IssueRefund, ReadHold, DropHold, ReadCharge, NextRow, NothingToReverse,
              Reverse, Settle, OweRefund, NetRefund, Book, At
<1>4. ~Disputing(w)
  BY <1>1 DEF Disputing, ReadDisputed, InsertDispute, FlipDisputed, NetDispute, UpsertDispute,
              RestoreDisputed, CancelNetting, At
<1>5. ~Mishap(w)
  BY <1>1 DEF Mishap, StampLost, ReverseLost, Die, At
<1> QED BY <1>2, <1>3, <1>4, <1>5 DEF Acts, Step

\* Without overlap there is one worker at a time.
LEMMA SerialStep == TypeOK /\ SerialInv /\ [Next]_vars => SerialInv'
<1> SUFFICES ASSUME TypeOK, SerialInv, [Next]_vars, "overlap" \notin May PROVE SerialInv'
  BY DEF SerialInv
<1>1. ASSUME NEW w \in Workers, Acts(w) PROVE SerialInv'
  <2>1. \A v \in Workers : v # w => work'[v] = work[v]
    BY <1>1, OthersRest DEF TypeOK
  <2>2. \A v \in Workers : v # w => work[v] = Rest
    <3>1. CASE work[w] = Rest
      BY <1>1, <3>1, Starts DEF Deliver, ReadDebts, AskRefund, Alone
    <3>2. CASE work[w] # Rest
      BY <3>2 DEF SerialInv
    <3> QED BY <3>1, <3>2
  <2> QED BY <2>1, <2>2 DEF SerialInv
<1>2. CASE UNCHANGED work
  BY <1>2 DEF SerialInv
<1> QED BY <1>1, <1>2, WhoActs, WorldActs DEF vars

\* No row is disputed while it is being refunded by request: rows are not refunded
\* or not disputed at all, or one worker is at work at a time.
NoRace == ~({"refund", "dispute", "overlap"} \subseteq May)

RaceInv ==
    /\ "dispute" \notin May => With("disputed") = {}
    /\ NoRace => \A w \in Routes : \A p \in work[w].hand : status[p] # "disputed"

\* At the start nothing is disputed and no route is at work.
LEMMA RaceInit == Init => RaceInv
  BY DEF Init, RaceInv, Rest, With, Workers

\* Without a race, a route has no disputed row in hand.
LEMMA RaceStep ==
  TypeOK /\ PlaceInv /\ AskedInv /\ LogInv /\ SerialInv /\ RaceInv /\ [Next]_vars => RaceInv'
<1> SUFFICES ASSUME TypeOK, PlaceInv, AskedInv, LogInv, SerialInv, RaceInv, [Next]_vars
             PROVE  RaceInv'
  OBVIOUS
<1> USE DEF TypeOK
<1>1. ASSUME NEW w \in Workers, Acts(w) PROVE RaceInv'
  <2>f. ASSUME NEW p \in Purchases, status'[p] = "disputed", status[p] # "disputed"
        PROVE  "dispute" \in May /\ FlipDisputed(w) /\ w \in Hooks /\ work[w] # Rest
    <3>1. FlipDisputed(w)
      BY <1>1, <2>f, RowMoves
    <3>2. w \in Hooks /\ work[w].event = "created"
      BY <3>1, FlipDisputedMoves, HandledEvent DEF Taking
    <3>3. work[w].event \in Emitted \cup {"none"}
      BY DEF PlaceInv, InPlace
    <3> QED BY <3>1, <3>2, <3>3 DEF LogInv, Rest
  <2>1. "dispute" \notin May => With("disputed")' = {}
    BY <2>f DEF RaceInv, With
  <2>2. ASSUME NoRace, NEW v \in Routes, NEW p \in work'[v].hand, status'[p] = "disputed" PROVE FALSE
    <3>0. v \in Workers /\ v \notin Hooks
      BY WorkersAssumption DEF Workers
    <3>t. TypeOK'
      BY TypeStep
    <3>1. p \in Purchases
      BY <2>2, <3>0, <3>t DEF WorkOK, IsWorker
    <3>2. CASE v = w
      <4>1. status[p] = "disputed"
        BY <2>2, <2>f, <3>0, <3>1, <3>2
      <4>2. p \in work[v].hand
        <5>1. work'[w] # Rest
          BY <2>2, <3>2 DEF Rest
        <5>2. ASSUME NEW q \in Purchases, AskRefund(w, q) PROVE FALSE
          BY <2>2, <3>2, <4>1, <5>2, AskRefundMoves
        <5> QED BY <1>1, <2>2, <3>2, <5>1, <5>2, RouteMoves
      <4> QED BY <2>2, <4>1, <4>2 DEF RaceInv
    <3>3. CASE v # w
      <4>1. work'[v] = work[v]
        BY <1>1, <3>0, <3>3, OthersRest
      <4>2. status[p] # "disputed"
        BY <2>2, <4>1 DEF RaceInv
      <4>3. "dispute" \in May /\ work[w] # Rest
        BY <2>2, <2>f, <3>1, <4>2
      <4>4. work[v] # Rest
        BY <2>2, <4>1 DEF Rest
      <4>5. "refund" \in May
        BY <2>2, <3>0, <4>4 DEF AskedInv, PlaceInv, InPlace
      <4>6. "overlap" \in May
        BY <3>0, <3>3, <4>3, <4>4 DEF SerialInv
      <4> QED BY <2>2, <4>3, <4>5, <4>6 DEF NoRace
    <3> QED BY <3>2, <3>3
  <2> QED BY <2>1, <2>2 DEF RaceInv
<1>2. CASE UNCHANGED <<status, work>>
  BY <1>2 DEF RaceInv, With
<1> QED BY <1>1, <1>2, WhoActs, WorldActs DEF vars, rows

\* Who has yet to ship p, to credit it, or to settle the refund it lost its credit to.
ToShip(w, p) ==
    /\ w \in Hooks /\ p \in work[w].read
    /\ \/ work[w].pc \in {"key", "group", "split", "stamp", "credit"}
       \/ work[w].pc = "ship" /\ p \in work[w].todo

ToCredit(w, p) ==
    /\ w \in Hooks /\ p \in work[w].read
    /\ \/ work[w].pc \in {"key", "group", "split", "stamp"}
       \/ work[w].pc = "credit" /\ p \in work[w].todo

ToSettle(w, p) ==
    w \in Routes /\ work[w].pc \in {"claw", "settle"} /\ p \in work[w].hand

OwedInv ==
    deaths = 0 => \A p \in keyed \cap Goods :
        /\ p \in shipment \/ \E w \in Workers : ToShip(w, p)
        /\ NoRace /\ status[p] \in {"pending", "completed", "disputed"} =>
              saleCredit[p] # "none" \/ \E w \in Workers : ToCredit(w, p) \/ ToSettle(w, p)

\* At the start no row is keyed.
LEMMA OwedInit == Init => OwedInv
  BY DEF Init, OwedInv

\* A delivery of the charge goes on until it shipped what it read.
LEMMA ShipsOn ==
  ASSUME TypeOK, PlaceInv, NEW w \in Workers, Acts(w), ~Die(w), NEW p \in Goods, ToShip(w, p)
  PROVE  p \in shipment' \/ ToShip(w, p)'
<1> USE DEF TypeOK
<1>0. w \in Hooks /\ w \notin Jobs /\ p \in work[w].read
  BY WorkersAssumption DEF ToShip
<1>1. LeavesBy(w)
  BY Leaves
<1>2. CASE Key(w) \/ Group(w) \/ Stamp(w) \/ StampLost(w) \/ SplitDone(w)
  BY <1>0, <1>2, KeyMoves, GroupMoves, StampMoves, SplitDoneMoves DEF ToShip
<1>3. ASSUME NEW k \in Creators, SkipCreator(w, k) \/ KeyRefused(w, k) \/ Transfer(w, k)
      PROVE  ToShip(w, p)'
  BY <1>0, <1>3, PassCreatorMoves, TransferMoves DEF ToShip
<1>4. CASE CreditGoods(w)
  BY <1>0, <1>4, CreditGoodsMoves DEF ToShip
<1>5. CASE Ship(w)
  BY <1>0, <1>5, ShipMoves DEF ToShip
<1> QED BY <1>1, <1>2, <1>3, <1>4, <1>5 DEF LeavesBy, ToShip

\* And until it credited it.
LEMMA CreditsOn ==
  ASSUME TypeOK, PlaceInv, NEW w \in Workers, Acts(w), ~Die(w), NEW p \in Goods, ToCredit(w, p)
  PROVE  saleCredit'[p] # "none" \/ ToCredit(w, p)'
<1> USE DEF TypeOK
<1>0. w \in Hooks /\ w \notin Jobs /\ p \in work[w].read
  BY WorkersAssumption DEF ToCredit
<1>1. LeavesBy(w)
  BY Leaves
<1>2. CASE Key(w) \/ Group(w) \/ Stamp(w) \/ StampLost(w) \/ SplitDone(w)
  BY <1>0, <1>2, KeyMoves, GroupMoves, StampMoves, SplitDoneMoves DEF ToCredit
<1>3. ASSUME NEW k \in Creators, SkipCreator(w, k) \/ KeyRefused(w, k) \/ Transfer(w, k)
      PROVE  ToCredit(w, p)'
  BY <1>0, <1>3, PassCreatorMoves, TransferMoves DEF ToCredit
<1>4. CASE CreditGoods(w)
  <2>1. p \in work[w].todo
    BY <1>4, CreditGoodsMoves DEF ToCredit
  <2>2. PICK q \in work[w].todo :
           /\ saleCredit' = [saleCredit EXCEPT ![q] = IF @ = "none" THEN "held" ELSE @]
           /\ work'[w].todo = work[w].todo \ {q} /\ work'[w].pc = "credit"
    BY <1>4, <2>1, CreditGoodsMoves
  <2>3. q = p => saleCredit'[p] # "none"
    BY <2>2 DEF RowsOK
  <2> QED BY <1>0, <1>4, <2>1, <2>2, <2>3, CreditGoodsMoves DEF ToCredit
<1> QED BY <1>1, <1>2, <1>3, <1>4 DEF LeavesBy, ToCredit

\* A good that is keyed is shipped and credited, or somebody is about to.
LEMMA OwedActs ==
  ASSUME TypeOK, PlaceInv, AskedInv, RaceInv, OwedInv, NEW w \in Workers, Acts(w)
  PROVE  OwedInv'
<1> USE DEF TypeOK
<1>w. Writes(w)
  BY Writing
<1>o. \A v \in Workers : v # w => work'[v] = work[v]
  BY OthersRest
<1> SUFFICES ASSUME deaths' = 0, NEW p \in keyed' \cap Goods
             PROVE  /\ p \in shipment' \/ \E v \in Workers : ToShip(v, p)'
                    /\ NoRace /\ status'[p] \in {"pending", "completed", "disputed"} =>
                          saleCredit'[p] # "none"
                          \/ \E v \in Workers : ToCredit(v, p)' \/ ToSettle(v, p)'
  BY DEF OwedInv, NoRace
<1>0. deaths = 0 /\ ~Die(w) /\ p \in Purchases
  <2>1. ~Die(w)
    BY DEF Die, WorldOK
  <2> QED BY <1>w, <2>1, RowsAssumption DEF Writes
<1>1. CASE p \notin keyed
  <2>1. Key(w)
    BY <1>1, <1>w DEF Writes
  <2>2. p \in work[w].todo /\ work'[w].pc \in {"key", "group"} /\ work'[w].read = work[w].read
    BY <1>1, <2>1, KeyMoves
  <2>3. w \in Hooks /\ p \in work[w].read
    BY <2>1, <2>2, KeyMoves, HandledEvent DEF Completing, PlaceInv, InPlace, OfRead
  <2> QED BY <2>2, <2>3 DEF ToShip, ToCredit
<1>2. CASE p \in keyed
  <2>1. p \in shipment' \/ \E v \in Workers : ToShip(v, p)'
    <3>1. CASE p \in shipment
      BY <1>w, <3>1, ShipMoves DEF Writes
    <3>2. ASSUME NEW v \in Workers, ToShip(v, p) PROVE p \in shipment' \/ ToShip(v, p)'
      BY <1>0, <1>o, <3>2, ShipsOn DEF ToShip
    <3> QED BY <1>0, <1>2, <3>1, <3>2 DEF OwedInv
  <2>2. ASSUME NoRace, status'[p] \in {"pending", "completed", "disputed"}, saleCredit'[p] = "none"
        PROVE  \E v \in Workers : ToCredit(v, p)' \/ ToSettle(v, p)'
    <3>1. status[p] \in {"pending", "completed", "disputed"}
      BY <1>0, <2>2, RowMoves
    <3>2. CASE saleCredit[p] # "none"
      <4>1. ~CreditGoods(w)
        BY <2>2, <3>2, CreditGoodsMoves DEF RowsOK
      <4>2. DropHold(w)
        BY <1>w, <2>2, <3>2, <4>1 DEF Writes
      <4>3. p \in work[w].hand
        BY <2>2, <3>2, <4>2 DEF DropHold
      <4> QED BY <4>2, <4>3, DropHoldMoves, HandledEvent DEF ToSettle
    <3>3. ASSUME NEW v \in Workers, ToCredit(v, p) PROVE ToCredit(v, p)'
      BY <1>0, <1>o, <2>2, <3>3, CreditsOn DEF ToCredit
    <3>4. ASSUME NEW v \in Workers, ToSettle(v, p) PROVE ToSettle(v, p)'
      <4>1. CASE v # w
        BY <1>o, <3>4, <4>1 DEF ToSettle
      <4>2. CASE v = w
        <5>1. status[p] = "completed"
          BY <1>0, <2>2, <3>1, <3>4 DEF ToSettle, AskedInv, Bought, RaceInv
        <5>2. ~Settle(w)
          BY <1>0, <2>2, <3>4, <4>2, <5>1 DEF Settle, With, ToSettle
        <5>3. NothingToReverse(w) \/ Reverse(w) \/ ReverseLost(w)
          BY <1>0, <3>4, <4>2, <5>2, Leaves DEF LeavesBy, ToSettle
        <5> QED BY <3>4, <4>2, <5>3, ClawMoves DEF ToSettle
      <4> QED BY <4>1, <4>2
    <3> QED BY <1>0, <1>2, <2>2, <3>1, <3>2, <3>3, <3>4 DEF OwedInv
  <2> QED BY <2>1, <2>2
<1> QED BY <1>1, <1>2

\* So OwedInv is inductive.
LEMMA OwedStep ==
  TypeOK /\ PlaceInv /\ AskedInv /\ RaceInv /\ OwedInv /\ [Next]_vars => OwedInv'
<1> SUFFICES ASSUME TypeOK, PlaceInv, AskedInv, RaceInv, OwedInv, [Next]_vars PROVE OwedInv'
  OBVIOUS
<1>1. ASSUME UNCHANGED <<keyed, status, shipment, work, deaths>>,
             \A p \in Goods : saleCredit[p] # "none" => saleCredit'[p] # "none"
      PROVE  OwedInv'
  BY <1>1 DEF OwedInv, ToShip, ToCredit, ToSettle, NoRace
<1>2. CASE World
  <2>1. ASSUME NEW q, Release(q), NEW p \in Goods, saleCredit[p] # "none"
        PROVE  saleCredit'[p] # "none"
    BY <2>1 DEF Release, TypeOK, RowsOK
  <2> QED BY <1>1, <1>2, <2>1, WorldActs DEF rows
<1> QED BY <1>1, <1>2, OwedActs, WhoActs DEF vars, rows, tables, mishaps

\* When all is answered and nobody died, a completed good has its shipment and its
\* credit, which nothing else would ever write: unless a dispute can be recorded
\* while a request refunds the good.
THEOREM GoodsOwedAlways ==
  ASSUME NoRace
  PROVE  Spec => []GoodsOwed
<1>1. TypeOK /\ PlaceInv /\ OwedInv => GoodsOwed
  <2> SUFFICES ASSUME PlaceInv, OwedInv, Settled, deaths = 0, NEW p \in With("completed") \cap Goods
               PROVE  p \in shipment /\ saleCredit[p] # "none"
    BY DEF GoodsOwed
  <2>1. p \in keyed /\ status[p] = "completed"
    BY DEF PlaceInv, With
  <2>2. \A w \in Workers : ~ToShip(w, p) /\ ~ToCredit(w, p) /\ ~ToSettle(w, p)
    BY DEF Settled, ToShip, ToCredit, ToSettle, Rest
  <2> QED BY <2>1, <2>2 DEF OwedInv
<1> QED
  BY <1>1, TypeInit, TypeStep, PlaceInit, PlaceStep, AskedInit, AskedStep, LogInit, LogStep,
     SerialInit, SerialStep, RaceInit, RaceStep, OwedInit, OwedStep, PTL DEF Spec
-----------------------------------------------------------------------------
(* What a refund does to the creator's share.                              *)

\* The environments in which a refund finds the share wherever it went: one worker
\* at a time, and no refund of goods from Stripe's dashboard, whose event leaves
\* their credits alone.
Orderly == "overlap" \notin May /\ ("dashboard" \notin May \/ Goods = {})

\* Who moved p has yet to stamp it.
Stamping(w, p) == work[w].pc = "stamp" /\ p \in work[w].hand

\* A request that refunded p and has yet to flip its row.
Asking(w, p) ==
    w \in Routes /\ work[w].pc \in {"hold", "drop", "claw", "settle"} /\ p \in work[w].hand

\* What a refund knows of the share it is about to call back, up to the flip; and
\* the retry job pays no refunded row.
Recovering(w) ==
    /\ work[w].pc \in RefundSteps \cup {"next"} =>
          \A p \in work[w].todo \cup work[w].hand :
              p \in moved[CreatorOf[p]] => p \in work[w].sent
    /\ work[w].pc = "drop" => \A p \in work[w].hand \cap Goods : saleCredit[p] # "released"
    /\ work[w].pc = "claw" => \A p \in work[w].hand \cap goodsPaid : status[p] # "completed"
    /\ work[w].pc = "settle" =>
          \A p \in work[w].hand :
              Paid(p) /\ status[p] = "completed" => clawback[p] = "done" \/ work[w].owed
    /\ w \in Routes /\ work[w].pc \in {"refund", "hold", "drop", "claw", "settle"} =>
          \A p \in work[w].hand : status[p] = "completed"
    /\ w \in Jobs => \A p \in work[w].todo : status[p] # "refunded"

\* Who flipped the row and has yet to net its share.
ToNet(w, p) ==
    /\ work[w].pc \in {"owe", "net"} /\ work[w].first /\ work[w].owed
    /\ p \in work[w].hand

Recovered(p) == clawback[p] = "done" \/ NettingsOf(p, "refund") # {}

ShareInv ==
    Orderly /\ deaths = 0 /\ losses = 0 =>
        /\ \A k \in Creators : \A p \in moved[k] : p \in stamp \/ \E w \in Workers : Stamping(w, p)
        /\ \A p \in goodsPaid : saleCredit[p] = "released"
        /\ \A p \in refunded : status[p] = "refunded" \/ \E w \in Routes : Asking(w, p)
        /\ \A w \in Workers : Recovering(w)
        /\ \A p \in With("refunded") : Paid(p) => Recovered(p) \/ \E w \in Workers : ToNet(w, p)

\* What ShareInv rests on.
ShareGrounds ==
    TypeOK /\ SplitInv /\ PlaceInv /\ AskedInv /\ LogInv /\ SerialInv /\ FreshInv /\ HoldInv

\* At rest nothing is called back.
LEMMA RecoveringRests ==
  ASSUME NEW w, work[w] = Rest
  PROVE  Recovering(w)
  BY DEF Recovering, Rest, RefundSteps

\* At the start nothing moved and nothing is refunded.
LEMMA ShareInit == Init => ShareInv
<1> SUFFICES ASSUME Init PROVE ShareInv
  OBVIOUS
<1>1. \A w \in Workers : Recovering(w)
  BY RecoveringRests DEF Init
<1> QED BY <1>1 DEF Init, ShareInv, With

\* Nobody died and no answer was lost.
LEMMA Spared ==
  ASSUME TypeOK, NEW w \in Workers, Acts(w), deaths' = 0, losses' = 0
  PROVE  /\ deaths = 0 /\ losses = 0
         /\ ~Die(w) /\ ~StampLost(w) /\ ~ReverseLost(w)
<1>1. ~Die(w) /\ ~StampLost(w) /\ ~ReverseLost(w)
  BY WorkersAssumption DEF Die, StampLost, ReverseLost, TypeOK, WorldOK
<1> QED BY <1>1, Writing DEF Writes, TypeOK

\* A row a transfer carried is stamped, or about to be.
LEMMA ShareStamped ==
  ASSUME ShareGrounds, ShareInv, Orderly, NEW w \in Workers, Acts(w), deaths' = 0, losses' = 0,
         NEW k \in Creators, NEW p \in moved'[k]
  PROVE  p \in stamp' \/ \E v \in Workers : Stamping(v, p)'
<1> USE DEF ShareGrounds, TypeOK
<1>s. /\ deaths = 0 /\ losses = 0
      /\ ~Die(w) /\ ~StampLost(w) /\ ~ReverseLost(w)
  BY Spared
<1>w. Writes(w)
  BY Writing
<1>1. CASE p \notin moved[k]
  <2>1. PICK j \in Creators : Transfer(w, j)
    BY <1>1, <1>w DEF Writes
  <2>2. p \in InGroup(w, j)
    BY <1>1, <2>1 DEF Transfer, RowsOK
  <2> QED BY <2>1, <2>2, TransferMoves DEF Stamping
<1>2. CASE p \in stamp
  BY <1>2, <1>w DEF Writes, Stamp
<1>3. ASSUME NEW v \in Workers, Stamping(v, p) PROVE p \in stamp' \/ Stamping(v, p)'
  <2>1. CASE v # w
    BY <1>3, <2>1, OthersRest DEF Stamping
  <2>2. CASE v = w
    <3>1. Stamp(w)
      BY <1>3, <1>s, <2>2, Leaves DEF LeavesBy, Stamping
    <3> QED BY <1>3, <2>2, <3>1 DEF Stamp, Stamping
  <2> QED BY <2>1, <2>2
<1> QED BY <1>s, <1>1, <1>2, <1>3 DEF ShareInv

\* A good that was paid for keeps its credit.
LEMMA SharePaid ==
  ASSUME ShareGrounds, ShareInv, Orderly, NEW w \in Workers, Acts(w), deaths' = 0, losses' = 0,
         NEW p \in goodsPaid'
  PROVE  saleCredit'[p] = "released"
<1> USE DEF ShareGrounds, TypeOK
<1>s. deaths = 0 /\ losses = 0
  BY Spared
<1>w. Writes(w)
  BY Writing
<1>0. p \in Goods /\ saleCredit[p] = "released"
  BY <1>s, <1>w DEF Writes, ShareInv, RowsOK
<1>1. CASE CreditGoods(w)
  BY <1>0, <1>1, CreditGoodsMoves DEF RowsOK
<1>2. CASE DropHold(w)
  <2>1. p \notin work[w].hand
    BY <1>s, <1>0, <1>2, DropHoldMoves DEF ShareInv, Recovering
  <2> QED BY <1>0, <1>2, <2>1 DEF DropHold
<1> QED BY <1>0, <1>1, <1>2, <1>w DEF Writes

\* What was refunded by request is flipped by the request that refunded it.
LEMMA ShareFlipped ==
  ASSUME ShareGrounds, ShareInv, Orderly, NEW w \in Workers, Acts(w), deaths' = 0, losses' = 0,
         NEW p \in refunded'
  PROVE  status'[p] = "refunded" \/ \E v \in Routes : Asking(v, p)'
<1> USE DEF ShareGrounds, TypeOK
<1>s. /\ deaths = 0 /\ losses = 0
      /\ ~Die(w) /\ ~StampLost(w) /\ ~ReverseLost(w)
  BY Spared
<1>w. Writes(w)
  BY Writing
<1>1. CASE p \notin refunded
  <2>1. IssueRefund(w) /\ work[w].pc = "refund" /\ w \in Routes
    BY <1>w, <1>1, IssueRefundMoves, HandledEvent DEF Writes
  <2>2. \E q \in Purchases : work[w].hand = {q}
    BY <2>1 DEF PlaceInv, InPlace, OneRow, RefundSteps
  <2>3. work'[w].pc = "hold" /\ work'[w].hand = work[w].hand /\ p \in work[w].hand
    BY <1>1, <2>1, <2>2, IssueRefundMoves
  <2> QED BY <2>1, <2>3 DEF Asking
<1>2. CASE p \in refunded /\ status[p] = "refunded"
  BY <1>2, RowMoves DEF AskedInv
<1>3. ASSUME NEW v \in Routes, Asking(v, p) PROVE status'[p] = "refunded" \/ Asking(v, p)'
  <2>0. v \in Workers
    BY DEF Workers
  <2>1. CASE v # w
    BY <1>3, <2>0, <2>1, OthersRest DEF Asking
  <2>2. CASE v = w
    <3>1. CASE Settle(w)
      <4>1. p \in Purchases /\ status[p] = "completed"
        BY <1>s, <1>3, <2>2, <3>1 DEF ShareInv, Recovering, Asking, WorkOK, IsWorker
      <4> QED BY <1>3, <2>2, <3>1, <4>1 DEF Settle, With, Asking
    <3>2. CASE ReadHold(w)
      <4>1. work'[w].pc \in {"claw", "drop", "settle"} /\ work'[w].hand = work[w].hand
        BY <3>2, ReadHoldMoves
      <4> QED BY <1>3, <2>2, <4>1 DEF Asking
    <3>3. CASE DropHold(w) \/ NothingToReverse(w) \/ Reverse(w)
      BY <1>3, <2>2, <3>3, DropHoldMoves, ClawMoves DEF Asking
    <3> QED BY <1>s, <1>3, <2>2, <3>1, <3>2, <3>3, Leaves DEF LeavesBy, Asking
  <2> QED BY <2>1, <2>2
<1> QED BY <1>s, <1>1, <1>2, <1>3 DEF ShareInv

\* One request at a time: the others rest.
LEMMA OthersAtRest ==
  ASSUME TypeOK, SerialInv, "overlap" \notin May, NEW w \in Workers, Acts(w)
  PROVE  \A v \in Workers : v # w => work[v] = Rest /\ work'[v] = Rest
<1>1. \A v \in Workers : v # w => work[v] = Rest
  <2>1. CASE work[w] = Rest
    BY <2>1, Starts DEF Deliver, ReadDebts, AskRefund, Alone
  <2>2. CASE work[w] # Rest
    BY <2>2 DEF SerialInv
  <2> QED BY <2>1, <2>2
<1> QED BY <1>1, OthersRest DEF TypeOK

\* Who starts a refund finds every row of a transfer stamped.
LEMMA AllStamped ==
  ASSUME ShareGrounds, ShareInv, Orderly, deaths = 0, losses = 0, NEW w \in Workers, Acts(w),
         work[w].pc # "stamp", NEW p \in Purchases, p \in moved[CreatorOf[p]]
  PROVE  p \in stamp
<1>1. CreatorOf[p] \in Creators
  BY RowsAssumption
<1>2. \A v \in Workers : ~Stamping(v, p)
  BY OthersAtRest DEF ShareGrounds, Orderly, Stamping, Rest
<1> QED BY <1>1, <1>2 DEF ShareInv

\* The rows a refund has before it keep the transfer ids it read.
LEMMA RecoveringSent ==
  ASSUME ShareGrounds, ShareInv, Orderly, NEW w \in Workers, Acts(w), deaths' = 0, losses' = 0,
         work'[w].pc \in RefundSteps \cup {"next"},
         NEW p \in work'[w].todo \cup work'[w].hand, p \in moved'[CreatorOf[p]]
  PROVE  p \in work'[w].sent
<1> USE DEF ShareGrounds, TypeOK
<1>s. /\ deaths = 0 /\ losses = 0
      /\ ~Die(w) /\ ~StampLost(w) /\ ~ReverseLost(w)
  BY Spared
<1>c. CameBy(w)
  BY Comes
<1>p. p \in Purchases
  <2>1. TypeOK'
    BY TypeStep DEF Acts, Next, Workers
  <2> QED BY <2>1 DEF WorkOK, IsWorker
<1>m. p \in moved[CreatorOf[p]]
  <2>1. ASSUME NEW k \in Creators, Transfer(w, k) PROVE FALSE
    BY <2>1, TransferMoves DEF RefundSteps
  <2> QED BY <2>1, Writing DEF Writes
<1>r. Recovering(w)
  BY <1>s DEF ShareInv
<1>1. ASSUME NEW q \in Purchases, AskRefund(w, q) PROVE p \in work'[w].sent
  BY <1>s, <1>p, <1>m, <1>1, AskRefundMoves, AllStamped DEF Rest
<1>2. CASE ReadCharge(w)
  BY <1>s, <1>p, <1>m, <1>2, ReadChargeMoves, AllStamped
<1>3. ASSUME work[w].pc \in RefundSteps \cup {"next"}, work'[w].sent = work[w].sent,
             work'[w].todo \cup work'[w].hand \subseteq work[w].todo \cup work[w].hand
      PROVE  p \in work'[w].sent
  BY <1>m, <1>r, <1>3 DEF Recovering
<1>d. work'[w] # Rest
  BY DEF Rest, RefundSteps
<1>4. CASE IssueRefund(w) \/ ReadHold(w) \/ DropHold(w)
  BY <1>3, <1>4, <1>d, IssueRefundMoves, ReadHoldMoves, DropHoldMoves DEF RefundSteps
<1>5. CASE NextRow(w)
  BY <1>3, <1>5, <1>d, NextRowMoves
<1>6. CASE NothingToReverse(w) \/ Reverse(w) \/ Settle(w) \/ NetRefund(w)
  BY <1>3, <1>6, ClawMoves, SettleMoves, NetRefundMoves DEF RefundSteps
<1>7. CASE OweRefund(w) \/ Book(w)
  BY <1>3, <1>7, <1>d, OweRefundMoves, BookMoves, AfterMoves DEF RefundSteps
<1> QED BY <1>s, <1>c, <1>1, <1>2, <1>4, <1>5, <1>6, <1>7 DEF CameBy, RefundSteps

\* A hand that reverses a share found no credit that went out with it.
LEMMA RecoveringClaw ==
  ASSUME ShareGrounds, ShareInv, Orderly, NEW w \in Workers, Acts(w), deaths' = 0, losses' = 0,
         work'[w].pc = "claw", NEW p \in work'[w].hand \cap goodsPaid'
  PROVE  status'[p] # "completed"
<1> USE DEF ShareGrounds, TypeOK
<1>s. deaths = 0 /\ losses = 0
  BY Spared
<1>c. CameBy(w)
  BY Comes
<1>0. /\ p \in Goods /\ p \in Purchases /\ saleCredit[p] = "released"
      /\ goodsPaid' = goodsPaid
  BY <1>s, Writing, RowsAssumption DEF Writes, ShareInv, RowsOK
<1>1. ~ReadHold(w)
  <2> SUFFICES ASSUME ReadHold(w) PROVE FALSE
    OBVIOUS
  <2>1. PICK q \in Purchases : work[w].hand = {q}
    BY ReadHoldMoves DEF PlaceInv, InPlace, OneRow, RefundSteps
  <2>2. p = CHOOSE x \in Purchases : x \in work[w].hand
    BY <2>1, ReadHoldMoves
  <2> QED BY <1>0, <2>2, ReadHoldMoves
<1>2. ~DropHold(w)
  BY <1>s, <1>0, DropHoldMoves DEF ShareInv, Recovering
<1>3. NextRow(w) /\ w \in Hooks /\ work[w].event = "refunded" /\ status' = status
  BY <1>c, <1>1, <1>2, NextRowMoves, HandledEvent DEF CameBy, NextRow, rows
<1>4. "refunded" \in Emitted /\ "dashboard" \notin May
  BY <1>0, <1>3 DEF PlaceInv, InPlace, Orderly
<1>5. p \in refunded
  BY <1>0, <1>4 DEF LogInv
<1>6. \A v \in Routes : ~Asking(v, p)
  BY <1>3, OthersAtRest, WorkersAssumption DEF Asking, Rest, Workers, Orderly
<1> QED BY <1>s, <1>3, <1>5, <1>6 DEF ShareInv

\* A hand that settles a paid share has it back, or owed.
LEMMA RecoveringSettle ==
  ASSUME ShareGrounds, ShareInv, Orderly, NEW w \in Workers, Acts(w), deaths' = 0, losses' = 0,
         work'[w].pc = "settle", NEW p \in work'[w].hand, Paid(p)', status'[p] = "completed"
  PROVE  clawback'[p] = "done" \/ work'[w].owed
<1> USE DEF ShareGrounds, TypeOK
<1>s. /\ deaths = 0 /\ losses = 0
      /\ ~Die(w) /\ ~StampLost(w) /\ ~ReverseLost(w)
  BY Spared
<1>c. ReadHold(w) \/ NothingToReverse(w) \/ Reverse(w)
  BY <1>s, Comes DEF CameBy
<1>r. Recovering(w)
  BY <1>s DEF ShareInv
<1>1. CASE ReadHold(w)
  BY <1>1, ReadHoldMoves
<1>2. /\ UNCHANGED <<status, moved, goodsPaid>>
      /\ work'[w].hand = work[w].hand /\ \E q \in Purchases : work[w].hand = {q}
  BY <1>c, ReadHoldMoves, ClawMoves DEF ReadHold, NothingToReverse, Reverse, rows, stripe,
       money,
     PlaceInv, InPlace, OneRow, RefundSteps
<1>3. CASE NothingToReverse(w)
  <2>1. work[w].pc = "claw" /\ p \notin work[w].sent
    BY <1>2, <1>3 DEF NothingToReverse, At
  <2>2. p \notin moved[CreatorOf[p]]
    BY <1>r, <1>2, <2>1 DEF Recovering, RefundSteps
  <2>3. p \notin goodsPaid
    BY <1>r, <1>2, <2>1 DEF Recovering
  <2> QED BY <1>2, <2>2, <2>3 DEF Paid
<1>4. CASE Reverse(w)
  <2>1. p = CHOOSE q \in Purchases : q \in work[w].hand
    BY <1>2
  <2>2. PICK outcome \in {"done", "unfunded"} :
           /\ clawback' = [clawback EXCEPT ![p] = outcome]
           /\ Becomes(w, [work[w] EXCEPT !.owed = (outcome = "unfunded"), !.pc = "settle"])
    BY <1>4, <2>1 DEF Reverse
  <2>3. work'[w] = [work[w] EXCEPT !.owed = (outcome = "unfunded"), !.pc = "settle"]
    BY <2>2, Updated
  <2>4. work'[w].owed = (outcome = "unfunded")
    BY <2>3 DEF WorkOK, IsWorker, Rest
  <2> QED BY <1>2, <2>2, <2>4 DEF RowsOK
<1> QED BY <1>c, <1>1, <1>3, <1>4

\* A refund knows every share that was moved for its rows, up to the flip.
LEMMA RecoveringActs ==
  ASSUME ShareGrounds, ShareInv, Orderly, NEW w \in Workers, Acts(w), deaths' = 0, losses' = 0
  PROVE  Recovering(w)'
<1> USE DEF ShareGrounds, TypeOK
<1>s. deaths = 0 /\ losses = 0
  BY Spared
<1>c. CameBy(w)
  BY Comes
<1>r. Recovering(w)
  BY <1>s DEF ShareInv
<1>1. ASSUME work'[w].pc = "drop", NEW p \in work'[w].hand \cap Goods
      PROVE  saleCredit'[p] # "released"
  <2>1. ReadHold(w)
    BY <1>c, <1>1 DEF CameBy
  <2>2. PICK q \in Purchases : work[w].hand = {q}
    BY <2>1, ReadHoldMoves DEF PlaceInv, InPlace, OneRow, RefundSteps
  <2>3. work'[w].hand = work[w].hand
    BY <2>1, ReadHoldMoves
  <2>4. p = CHOOSE x \in Purchases : x \in work[w].hand
    BY <1>1, <2>2, <2>3
  <2>5. saleCredit[p] # "released"
    BY <1>1, <2>1, <2>4, ReadHoldMoves
  <2> QED BY <2>1, <2>5 DEF ReadHold, tables
<1>2. ASSUME w \in Routes, work'[w].pc \in {"refund", "hold", "drop", "claw", "settle"},
             NEW p \in work'[w].hand
      PROVE  status'[p] = "completed"
  <2>1. ASSUME NEW q \in Purchases, AskRefund(w, q) PROVE status'[p] = "completed"
    <3>1. work'[w].hand = {q} /\ status[q] = "completed"
      BY <2>1, AskRefundMoves
    <3>2. status' = status
      BY <2>1 DEF AskRefund, rows
    <3> QED BY <1>2, <3>1, <3>2
  <2>2. CASE work'[w].hand = work[w].hand /\ IssueRefund(w)
    BY <1>r, <1>2, <2>2, IssueRefundMoves DEF Recovering, IssueRefund, rows
  <2>3. CASE work'[w].hand = work[w].hand /\ (ReadHold(w) \/ DropHold(w) \/ NothingToReverse(w)
                                               \/ Reverse(w) \/ ReverseLost(w))
    <3>1. work[w].pc \in {"hold", "drop", "claw"} /\ status' = status
      BY <2>3, ReadHoldMoves, DropHoldMoves, ClawMoves DEF ReadHold, DropHold, NothingToReverse,
         Reverse, ReverseLost, rows
    <3> QED BY <1>r, <1>2, <2>3, <3>1 DEF Recovering
  <2>4. ~NextRow(w)
    BY <1>2, NextRowMoves, HandledEvent, WorkersAssumption
  <2>5. work'[w].hand = work[w].hand \/ \E q \in Purchases : AskRefund(w, q)
    BY <1>2, RouteMoves DEF Rest
  <2>6. \/ \E q \in Purchases : AskRefund(w, q)
        \/ IssueRefund(w) \/ ReadHold(w) \/ DropHold(w) \/ NothingToReverse(w)
        \/ Reverse(w) \/ ReverseLost(w)
    BY <1>c, <1>2, <2>4 DEF CameBy
  <2> QED BY <2>1, <2>2, <2>3, <2>5, <2>6
<1>3. ASSUME w \in Jobs, NEW p \in work'[w].todo PROVE status'[p] # "refunded"
  <2>0. /\ work[w].pc \in {"rest", "split", "stamp"}
        /\ work[w].pc = "rest" => work[w] = Rest
    BY <1>3 DEF PlaceInv, InPlace, Role
  <2>1. CASE ReadDebts(w)
    BY <1>3, <2>1, ReadDebtsMoves DEF With, ReadDebts, rows
  <2>2. ASSUME ~ReadDebts(w) PROVE work'[w].todo \subseteq work[w].todo
    <3>1. CASE work[w].pc \in {"split", "stamp"}
      <4>1. ASSUME NEW k \in Creators, SkipCreator(w, k) \/ KeyRefused(w, k) \/ Transfer(w, k)
            PROVE  work'[w].todo \subseteq work[w].todo
        BY <4>1, PassCreatorMoves, TransferMoves
      <4>2. CASE SplitDone(w) \/ Stamp(w) \/ StampLost(w) \/ Die(w)
        BY <1>3, <4>2, SplitDoneMoves, StampMoves, DieMoves DEF Rest
      <4> QED BY <3>1, <4>1, <4>2, Leaves DEF LeavesBy
    <3>2. work[w] # Rest
      <4>1. work'[w].pc \in {"rest", "split", "stamp"}
        BY <1>3, RoleStep DEF Role
      <4>2. ASSUME NEW i \in DOMAIN log, Deliver(w, i) PROVE FALSE
        BY <4>1, <4>2, DeliverMoves DEF WorldOK, Events
      <4> QED BY <1>3, <2>2, <4>2, Starts, WorkersAssumption DEF AskRefund
    <3> QED BY <2>0, <3>1, <3>2
  <2>3. CASE ~ReadDebts(w)
    <3>1. p \in Purchases /\ status[p] # "refunded"
      BY <1>r, <1>3, <2>2, <2>3 DEF Recovering, WorkOK, IsWorker
    <3>2. ~Settle(w)
      BY <2>0, SettleMoves
    <3> QED BY <3>1, <3>2, RowMoves
  <2> QED BY <2>1, <2>3
<1> QED
  BY <1>1, <1>2, <1>3, RecoveringSent, RecoveringClaw, RecoveringSettle DEF Recovering

\* No transfer goes out for a refunded row.
LEMMA NoLatePay ==
  ASSUME ShareGrounds, ShareInv, Orderly, NEW w \in Workers, Acts(w), deaths' = 0, losses' = 0,
         NEW p \in Purchases, status[p] = "refunded", Paid(p)'
  PROVE  Paid(p)
<1> USE DEF ShareGrounds, TypeOK
<1>s. deaths = 0 /\ losses = 0
  BY Spared
<1>k. CreatorOf[p] \in Creators
  BY RowsAssumption
<1>1. ASSUME NEW k \in Creators, Transfer(w, k), p \in moved'[CreatorOf[p]], ~Paid(p) PROVE FALSE
  <2>1. work[w].pc = "split" /\ p \in work[w].todo
    BY <1>k, <1>1, TransferMoves DEF Transfer, InGroup, Paid, RowsOK
  <2>2. w \in Hooks \/ w \in Jobs
    BY <2>1 DEF PlaceInv, InPlace, Role, RefundSteps, Workers
  <2>3. CASE w \in Hooks
    <3>1. Charging(w) /\ p \in work[w].read
      BY <2>1, <2>3 DEF Charging, PlaceInv, InPlace, OfRead, Completing
    <3>2. OneDelivery
      BY DEF OneDelivery, Orderly
    <3> QED BY <3>1, <3>2 DEF FreshInv, Bought
  <2>4. CASE w \in Jobs
    BY <1>s, <2>1, <2>4 DEF ShareInv, Recovering
  <2> QED BY <2>2, <2>3, <2>4
<1> QED BY <1>1, Writing DEF Writes, Paid

\* What was recovered stays so.
LEMMA RecoveredStays ==
  ASSUME TypeOK, NEW w \in Workers, Acts(w), ~ReverseLost(w), NEW p \in Purchases, Recovered(p)
  PROVE  Recovered(p)'
<1> USE DEF TypeOK
<1>w. Writes(w)
  BY Writing
<1>1. CASE clawback[p] = "done"
  <2>1. CASE Reverse(w)
    <3> DEFINE q == CHOOSE x \in Purchases : x \in work[w].hand
    <3>1. PICK outcome \in {"done", "unfunded"} :
             clawback[q] \in {"none", outcome} /\ clawback' = [clawback EXCEPT ![q] = outcome]
      BY <2>1 DEF Reverse
    <3> HIDE DEF q
    <3> QED BY <1>1, <3>1 DEF Recovered, RowsOK
  <2> QED BY <1>1, <1>w, <2>1 DEF Writes, Recovered
<1>2. ASSUME NEW n \in NettingsOf(p, "refund") PROVE n \in NettingsOf(p, "refund")'
  <2>1. CASE NetRefund(w) \/ NetDispute(w)
    BY <1>2, <2>1 DEF NetRefund, NetDispute, NettingsOf
  <2>2. CASE CancelNetting(w)
    BY <1>2, <2>2 DEF CancelNetting, NettingsOf
  <2> QED BY <1>2, <1>w, <2>1, <2>2 DEF Writes, NettingsOf
<1> QED BY <1>1, <1>2 DEF Recovered

\* A refunded row whose share was paid is recovered, or about to be.
LEMMA ShareSettled ==
  ASSUME ShareGrounds, ShareInv, Orderly, NEW w \in Workers, Acts(w), deaths' = 0, losses' = 0,
         NEW p \in Purchases, status'[p] = "refunded", Paid(p)'
  PROVE  Recovered(p)' \/ \E v \in Workers : ToNet(v, p)'
<1> USE DEF ShareGrounds, TypeOK
<1>s. /\ deaths = 0 /\ losses = 0
      /\ ~Die(w) /\ ~StampLost(w) /\ ~ReverseLost(w)
  BY Spared
<1>1. CASE status[p] # "refunded"
  <2>1. Settle(w) /\ status[p] = "completed" /\ p \in work[w].hand
    BY <1>1, RowMoves
  <2>2. work[w].pc = "settle" /\ UNCHANGED <<moved, goodsPaid, clawback, netting>>
    BY <2>1, SettleMoves DEF Settle, tables, stripe, money
  <2>3. clawback[p] = "done" \/ work[w].owed
    BY <1>s, <2>1, <2>2 DEF ShareInv, Recovering, Paid
  <2>4. work'[w].first
    BY <2>1, SettleMoves DEF With
  <2> QED BY <2>1, <2>2, <2>3, <2>4, SettleMoves DEF ToNet, Recovered
<1>2. CASE status[p] = "refunded"
  <2>1. Recovered(p) \/ \E v \in Workers : ToNet(v, p)
    BY <1>s, <1>2, NoLatePay DEF ShareInv, With
  <2>2. ASSUME NEW v \in Workers, ToNet(v, p) PROVE Recovered(p)' \/ ToNet(v, p)'
    <3>1. CASE v # w
      BY <2>2, <3>1, OthersRest DEF ToNet
    <3>2. CASE v = w /\ OweRefund(w)
      BY <2>2, <3>2, OweRefundMoves DEF ToNet
    <3>3. CASE v = w /\ NetRefund(w)
      <4> DEFINE n == [for |-> "refund", purchase |-> p, reversed |-> FALSE]
      <4>1. n \in netting'
        BY <2>2, <3>3 DEF NetRefund, ToNet
      <4> QED BY <4>1 DEF Recovered, NettingsOf
    <3> QED BY <1>s, <2>2, <3>1, <3>2, <3>3, Leaves DEF LeavesBy, ToNet
  <2> QED BY <1>s, <2>1, <2>2, RecoveredStays
<1> QED BY <1>1, <1>2

\* A worker's step keeps every moved share stamped, and every refunded one recovered.
LEMMA ShareActs ==
  ASSUME ShareGrounds, ShareInv, NEW w \in Workers, Acts(w)
  PROVE  ShareInv'
<1> SUFFICES ASSUME Orderly, deaths' = 0, losses' = 0
             PROVE  /\ \A k \in Creators : \A p \in moved'[k] :
                          p \in stamp' \/ \E v \in Workers : Stamping(v, p)'
                    /\ \A p \in goodsPaid' : saleCredit'[p] = "released"
                    /\ \A p \in refunded' : status'[p] = "refunded" \/ \E v \in Routes : Asking(v, p)'
                    /\ \A v \in Workers : Recovering(v)'
                    /\ \A p \in With("refunded")' :
                          Paid(p)' => Recovered(p)' \/ \E v \in Workers : ToNet(v, p)'
  BY DEF ShareInv, Orderly
<1>1. ASSUME NEW v \in Workers, v # w, work'[v] = Rest PROVE Recovering(v)'
  BY <1>1 DEF Recovering, Rest, RefundSteps
<1>2. \A v \in Workers : v # w => work'[v] = Rest
  BY OthersAtRest DEF ShareGrounds, Orderly
<1>3. \A p \in With("refunded")' : p \in Purchases /\ status'[p] = "refunded"
  BY DEF With
<1> QED BY <1>1, <1>2, <1>3, ShareStamped, SharePaid, ShareFlipped, RecoveringActs, ShareSettled

\* So ShareInv is inductive.
LEMMA ShareStep == ShareGrounds /\ ShareInv /\ [Next]_vars => ShareInv'
<1> SUFFICES ASSUME ShareGrounds, ShareInv, [Next]_vars PROVE ShareInv'
  OBVIOUS
<1> USE DEF ShareGrounds, TypeOK
<1>1. ASSUME UNCHANGED <<status, stamp, saleCredit, netting, moved, clawback, refunded,
                         goodsPaid, work, deaths, losses>>
      PROVE  ShareInv'
  BY <1>1 DEF ShareInv, Orderly, Stamping, Asking, Recovering, ToNet, With, Paid, Recovered,
     NettingsOf
<1>2. ASSUME World, NEW q \in Goods, Release(q) PROVE ShareInv'
  <2> SUFFICES ASSUME Orderly, deaths = 0, losses = 0 PROVE ShareInv'
    BY <1>2 DEF ShareInv, Orderly, Release, mishaps
  <2>1. /\ UNCHANGED <<status, stamp, netting, moved, clawback, refunded, work>>
        /\ saleCredit[q] = "held" /\ saleCredit' = [saleCredit EXCEPT ![q] = "released"]
        /\ goodsPaid' = goodsPaid \cup {q}
        /\ \A w \in Workers : work[w] = Rest
    BY <1>2 DEF Release, Orderly, rows
  <2>2. \A w \in Workers : Recovering(w)'
    BY <2>1 DEF Recovering, Rest, RefundSteps
  <2>3. status[q] # "refunded"
    <3> SUFFICES ASSUME status[q] = "refunded" PROVE FALSE
      OBVIOUS
    <3>1. q \in refunded /\ OneDelivery
      BY RowsAssumption DEF HoldInv, With, Orderly, OneDelivery
    <3>2. \E w \in Workers : Dropping(w, q)
      BY <2>1, <3>1 DEF HoldInv
    <3> QED BY <2>1, <3>2 DEF Dropping, Rest
  <2>4. \A p \in goodsPaid' : saleCredit'[p] = "released"
    BY <2>1 DEF ShareInv, RowsOK
  <2>5. \A p \in With("refunded") : Paid(p)' => Paid(p)
    BY <2>1, <2>3 DEF Paid, With
  <2> QED BY <2>1, <2>2, <2>4, <2>5
          DEF ShareInv, Orderly, Stamping, Asking, ToNet, With, Recovered, NettingsOf
<1>3. CASE World
  BY <1>1, <1>2, <1>3, WorldActs DEF World, Decline, Charge, RefundAtStripe, Dispute,
     CloseDispute, AccountUpdated, rows, tables, money, mishaps
<1> QED BY <1>1, <1>3, ShareActs, WhoActs DEF vars, rows, tables, stripe, money, mishaps

\* A refunded row whose share was paid out was reversed or is netted, whichever of
\* the two doors settled it, in whatever order Stripe's events arrive and however
\* often: as long as nobody died, no answer was lost, one worker is at work at a
\* time, and no operator refunds goods in Stripe's dashboard.
THEOREM ShareRecoveredAlways ==
  ASSUME Orderly
  PROVE  Spec => []ShareRecovered
<1>1. ShareInv => ShareRecovered
  <2> SUFFICES ASSUME ShareInv, Settled, deaths = 0, losses = 0, NEW p \in With("refunded"), Paid(p)
               PROVE  Recovered(p)
    BY DEF ShareRecovered, Recovered
  <2>1. \A w \in Workers : ~ToNet(w, p)
    BY DEF Settled, ToNet, Rest
  <2> QED BY <2>1 DEF ShareInv
<1> QED
  BY <1>1, TypeInit, TypeStep, SplitInit, SplitStep, PlaceInit, PlaceStep, AskedInit, AskedStep,
     LogInit, LogStep, SerialInit, SerialStep, FreshInit, FreshStep, HoldInit, HoldStep,
     ShareInit, ShareStep, PTL DEF Spec, ShareGrounds

-----------------------------------------------------------------------------
(* What a stamp names.                                                     *)

\* While nobody dies, one delivery at a time reads the whole charge and keys all
\* of it before it splits; so the rows are bought together, and disputed and
\* restored together.
WholeInv ==
    OneDelivery /\ deaths = 0 =>
        /\ With("completed") = {} \/ With("disputed") = {}
        /\ With("pending") # {} => \A p \in Purchases : ~Bought(p)
        /\ \A w \in Hooks : work[w].pc = "key" => Purchases \subseteq keyed \cup work[w].todo
        /\ keyed # {} => Purchases \subseteq keyed \/ \E w \in Hooks : work[w].pc = "key"
        /\ \A w \in Workers : Charging(w) => work[w].read = Purchases

\* At the start nothing is keyed.
LEMMA WholeInit == Init => WholeInv
<1> SUFFICES ASSUME Init PROVE WholeInv
  OBVIOUS
<1>1. \A w \in Workers : work[w].pc = "rest"
  BY DEF Init, Rest
<1>2. With("completed") = {} /\ \A p \in Purchases : ~Bought(p)
  BY DEF Init, With, Bought
<1> QED BY <1>1, <1>2 DEF Init, WholeInv, Charging, Workers

\* What the proof of WholeInv knows of a step of worker w.
WholeStepOf(w) ==
    /\ TypeOK /\ PlaceInv /\ KeyInv /\ FreshInv /\ WholeInv
    /\ OneDelivery /\ deaths' = 0 /\ Acts(w)

\* Nobody died in the step, nor before.
LEMMA NobodyDied ==
  ASSUME TypeOK, NEW w \in Workers, Acts(w), deaths' = 0
  PROVE  deaths = 0 /\ ~Die(w)
<1>1. ~Die(w)
  BY DEF Die, TypeOK, WorldOK
<1> QED BY <1>1, Writing DEF Writes, TypeOK

\* The rows are bought together, disputed together and restored together.
LEMMA WholeFlips ==
  ASSUME NEW w \in Workers, WholeStepOf(w)
  PROVE  /\ With("completed")' = {} \/ With("disputed")' = {}
         /\ With("pending")' # {} => \A p \in Purchases : ~Bought(p)'
<1> USE DEF WholeStepOf
<1>d. deaths = 0
  BY NobodyDied
<1>k. \A p \in Purchases : status[p] # "pending" => p \in keyed
  BY DEF PlaceInv
<1>0. CASE unfit
  <2>1. \A p \in Purchases : status'[p] = "pending"
    BY <1>0, DecidedFit
  <2> QED BY <2>1 DEF With, Bought
<1>1. CASE Complete(w) /\ ~unfit
  <2>1. w \in Hooks /\ work[w].pc = "complete"
    BY <1>1, CompleteMoves, HandledEvent DEF Completing, TypeOK
  <2>2. \A p \in Purchases : status[p] = "pending" => p \in keyed
    BY <1>1, <2>1 DEF KeyInv, KeySound
  <2>3. With("pending")' = {}
    BY <1>1, <2>2 DEF Complete, With
  <2>4. CASE With("pending") = {}
    BY <1>1, <1>d, <2>3, <2>4 DEF Complete, With, WholeInv
  <2>5. CASE With("pending") # {}
    <3>1. With("disputed") = {}
      BY <1>d, <2>5 DEF WholeInv, Bought, With
    <3>2. With("disputed")' = {}
      BY <1>1, <3>1 DEF Complete, With
    <3> QED BY <2>3, <3>2
  <2> QED BY <2>4, <2>5
<1>2. CASE ~Complete(w)
  <2>1. ASSUME NEW p \in Purchases, Bought(p)' PROVE Bought(p)
    BY <1>2, <2>1, RowMoves DEF Bought
  <2>2. With("pending")' # {} => With("pending") # {}
    BY RowMoves DEF With
  <2>3. With("pending")' # {} => \A p \in Purchases : ~Bought(p)'
    BY <1>d, <2>1, <2>2 DEF WholeInv
  <2>4. CASE FlipDisputed(w)
    BY <1>k, <2>3, <2>4 DEF FlipDisputed, With
  <2>5. CASE RestoreDisputed(w)
    BY <1>k, <2>3, <2>5 DEF RestoreDisputed, With
  <2>6. CASE ~FlipDisputed(w) /\ ~RestoreDisputed(w)
    <3>1. With("completed")' \subseteq With("completed") /\ With("disputed")' \subseteq With("disputed")
      BY <1>2, <2>6, RowMoves DEF With
    <3> QED BY <1>d, <2>3, <3>1 DEF WholeInv
  <2> QED BY <2>3, <2>4, <2>5, <2>6
<1> QED BY <1>0, <1>1, <1>2

\* The delivery of the charge that takes it up first keys all of it.
LEMMA WholeKeys ==
  ASSUME NEW w \in Workers, WholeStepOf(w)
  PROVE  /\ \A v \in Hooks : work'[v].pc = "key" => Purchases \subseteq keyed' \cup work'[v].todo
         /\ keyed' # {} => Purchases \subseteq keyed' \/ \E v \in Hooks : work'[v].pc = "key"
         /\ Charging(w)' => work'[w].read = Purchases
<1> USE DEF WholeStepOf
<1>d. deaths = 0 /\ ~Die(w)
  BY NobodyDied
<1>t. WorkOK /\ Hooks \subseteq Workers
  BY DEF TypeOK, Workers
<1>o. \A v \in Workers : v # w => work'[v] = work[v]
  BY <1>t, OthersRest
<1>k. keyed \subseteq keyed'
  BY <1>t, Writing, KeyMoves DEF Writes
<1>1. CASE ReadSession(w)
  <2>1. w \in Hooks /\ work[w].event = "succeeded" /\ work[w].pc = "succeeded"
    BY <1>1, <1>t, ReadSessionMoves, HandledEvent DEF Completing
  <2>2. \A v \in Hooks : work[v].pc # "key"
    <3>1. \A v \in Hooks : work[v].pc = "key" => work[v].event = "succeeded"
      BY <1>t, HandledEvent DEF Completing
    <3> QED BY <1>t, <2>1, <3>1 DEF FreshInv
  <2>3. keyed = {} \/ Purchases \subseteq keyed
    BY <1>d, <2>2 DEF WholeInv
  <2>4. keyed' = keyed
    BY <1>1 DEF ReadSession, rows
  <2>5. work'[w].read = Found /\ work'[w].todo = work'[w].read
    BY <1>1, <1>t, ReadSessionMoves
  <2>6. work'[w].pc = IF work'[w].read = {} THEN "complete" ELSE "key"
    BY <1>1, <1>t, ReadSessionMoves
  <2>9. CASE unfit
    <3>1. keyed = {} /\ work'[w].pc = "complete"
      BY <2>5, <2>6, <2>9 DEF PlaceInv, Found
    <3> QED BY <1>o, <1>t, <2>2, <2>4, <3>1 DEF Charging
  <2>7. CASE keyed = {} /\ ~unfit
    <3>1. work'[w].read = Purchases
      BY <2>5, <2>7 DEF PlaceInv, Found, With
    <3> QED BY <1>o, <1>t, <2>2, <2>4, <2>5, <2>7, <3>1
  <2>8. CASE Purchases \subseteq keyed
    <3>1. work'[w].pc = "complete"
      BY <2>5, <2>6, <2>8 DEF Found, With
    <3> QED BY <1>o, <1>t, <2>2, <2>4, <2>8, <3>1 DEF Charging
  <2> QED BY <2>3, <2>7, <2>8, <2>9
<1>2. CASE Key(w)
  <2>1. w \in Hooks /\ Charging(w) /\ work[w].pc = "key"
    BY <1>2, <1>t, KeyMoves, HandledEvent DEF Completing, Charging
  <2>2. PICK p \in work[w].todo :
           /\ keyed' = IF status[p] = "pending" THEN keyed \cup {p} ELSE keyed
           /\ work'[w].todo = work[w].todo \ {p}
           /\ work'[w].pc = IF work[w].todo = {p} THEN "group" ELSE "key"
    BY <1>2, <1>t, KeyMoves
  <2>3. p \in Purchases
    BY <1>t DEF WorkOK, IsWorker
  <2>4. p \in keyed'
    BY <2>2, <2>3 DEF PlaceInv
  <2>5. Purchases \subseteq keyed \cup work[w].todo
    BY <1>d, <2>1 DEF WholeInv
  <2>6. Purchases \subseteq keyed' \cup work'[w].todo
    BY <1>k, <2>2, <2>4, <2>5
  <2>7. Purchases \subseteq keyed' \/ work'[w].pc = "key"
    BY <1>k, <2>2, <2>4, <2>5
  <2>8. work'[w].read = work[w].read
    BY <1>2, <1>t, KeyMoves
  <2>9. work'[w].read = Purchases
    BY <1>d, <2>1, <2>8 DEF WholeInv
  <2> QED BY <1>d, <1>o, <1>t, <1>k, <2>1, <2>6, <2>7, <2>9 DEF WholeInv
<1>3. CASE ~ReadSession(w) /\ ~Key(w)
  <2>1. keyed' = keyed
    BY <1>3, <1>t, Writing DEF Writes
  <2>2. work[w].pc # "key"
    BY <1>3, <1>d, Leaves DEF LeavesBy
  <2>3. work'[w].pc # "key"
    BY <1>3, Comes DEF CameBy
  <2>4. ASSUME Charging(w)' PROVE work'[w].read = Purchases
    <3>0. w \in Hooks /\ w \notin Jobs
      BY <2>4, WorkersAssumption DEF Charging
    <3>1. CASE Group(w) \/ Stamp(w) \/ StampLost(w)
      BY <1>d, <1>t, <3>0, <3>1, GroupMoves, StampMoves DEF WholeInv, Charging
    <3>2. CASE SplitDone(w) \/ CreditGoods(w)
      BY <1>d, <1>t, <3>0, <3>2, SplitDoneMoves, CreditGoodsMoves DEF WholeInv, Charging
    <3>3. ASSUME NEW k \in Creators, SkipCreator(w, k) \/ KeyRefused(w, k) \/ Transfer(w, k)
          PROVE  work'[w].read = Purchases
      BY <1>d, <1>t, <3>0, <3>3, PassCreatorMoves, TransferMoves DEF WholeInv, Charging
    <3>4. CameBy(w) /\ ~ReadDebts(w)
      BY <3>0, Comes DEF ReadDebts
    <3> QED BY <1>3, <2>4, <3>1, <3>2, <3>3, <3>4 DEF CameBy, Charging
  <2> QED BY <1>d, <1>o, <1>t, <2>1, <2>2, <2>3, <2>4 DEF WholeInv
<1> QED BY <1>1, <1>2, <1>3

\* WholeInv is kept by every step.
LEMMA WholeStep ==
  TypeOK /\ PlaceInv /\ KeyInv /\ FreshInv /\ WholeInv /\ [Next]_vars => WholeInv'
<1> SUFFICES ASSUME TypeOK, PlaceInv, KeyInv, FreshInv, WholeInv, [Next]_vars,
                    OneDelivery, deaths' = 0
             PROVE  WholeInv'
  BY DEF WholeInv
<1>1. ASSUME NEW w \in Workers, Acts(w) PROVE WholeInv'
  <2>1. WholeStepOf(w)
    BY <1>1 DEF WholeStepOf
  <2>2. ASSUME NEW v \in Workers, v # w, Charging(v)' PROVE work'[v].read = Purchases
    <3>1. work'[v] = work[v] /\ deaths = 0
      BY <1>1, <2>2, OthersRest, NobodyDied DEF TypeOK
    <3> QED BY <2>2, <3>1 DEF WholeInv, Charging
  <2> QED BY <2>1, <2>2, WholeFlips, WholeKeys DEF WholeInv
<1>2. CASE UNCHANGED <<rows, work, deaths>>
  BY <1>2 DEF WholeInv, Charging, Bought, With, rows
<1> QED BY <1>1, <1>2, WhoActs, WorldActs DEF vars, mishaps

\* The works of creator k.
Works(k) == Sold(k) \ Goods

\* What a transfer to k made now would be for.
Standing(k) == {p \in Works(k) : status[p] \in {"completed", "disputed"}}

Nested(S, T) == S \subseteq T \/ T \subseteq S

Splitting(w) == work[w].pc \in {"split", "stamp"}

\* What worker w still has to move, of each creator: all that stands, until a transfer
\* is made; then a part of it, or what it is a part of.
GroupSound(w) ==
    /\ w \in Hooks => \A k \in Creators : InGroup(w, k) \in {{}, Works(k)}
    /\ \A k \in Creators :
          /\ moved[k] = {} /\ InGroup(w, k) # {} => Standing(k) \subseteq InGroup(w, k)
          /\ moved[k] # {} => Nested(InGroup(w, k), moved[k])

\* The transfer it has yet to stamp carried what it has in hand.
StampSound(w) == \E k \in Creators : work[w].hand = InGroup(w, k) /\ work[w].hand \subseteq moved[k]

\* The groups of a creator that workers hold at the same time are nested, and so are
\* they and its transfer: of two that are nested and sum to the same, each is the
\* other, and a used key replays for the rows it carried.
CarriedInv ==
    OneDelivery /\ deaths = 0 =>
        /\ StampIsTheTransfer
        /\ \A k \in Creators : moved[k] \subseteq Sold(k)
        /\ \A k \in Creators : moved[k] # {} => Standing(k) \subseteq moved[k]
        /\ With("pending") # {} => \A k \in Creators : moved[k] \in {{}, Works(k)}
        /\ With("pending") # {} => \A w \in Jobs : work[w] = Rest
        /\ \A w \in Workers : Splitting(w) => GroupSound(w)
        /\ \A w \in Workers : work[w].pc = "stamp" => StampSound(w)
        /\ \A k \in Creators : moved[k] = {} =>
              \A v, w \in Workers :
                  Splitting(v) /\ Splitting(w) => Nested(InGroup(v, k), InGroup(w, k))

\* Of two sets of rows, one within the other, the larger is worth more.
LEMMA NestedSumsDiffer ==
  ASSUME NEW S \in SUBSET Purchases, NEW T \in SUBSET Purchases, Nested(S, T),
         Amount(S) = Amount(T)
  PROVE  S = T
<1>t. \A R \in SUBSET Purchases : Amount(R) = Total(Earnings, R)
  BY DEF Amount, Total
<1>1. ASSUME NEW A \in SUBSET Purchases, NEW B \in SUBSET Purchases, A \subseteq B,
             Total(Earnings, A) = Total(Earnings, B), NEW x \in B \ A
      PROVE  FALSE
  <2>f. IsFiniteSet(A) /\ IsFiniteSet(B \ A) /\ IsFiniteSet(B)
    BY RowsAssumption, FS_Subset
  <2>e. \A y \in B : Earnings[y] \in Nat \ {0}
    BY RowsAssumption
  <2>i. \A y \in A \cup (B \ A) : Earnings[y] \in Int
    BY <1>1, <2>e
  <2>1. Total(Earnings, A \cup (B \ A)) = Total(Earnings, A) + Total(Earnings, B \ A)
    BY <2>f, <2>i, SumUnion
  <2>2. Total(Earnings, B \ A) = Earnings[x] + Total(Earnings, (B \ A) \ {x})
    BY <2>f, <2>e, SumRemove
  <2>3. Total(Earnings, (B \ A) \ {x}) \in Nat
    BY <2>f, <2>e, SumOfPart
  <2>4. Total(Earnings, A) \in Int
    BY <2>f, <2>i, SumInt
  <2>5. A \cup (B \ A) = B /\ Earnings[x] \in Nat \ {0}
    BY <1>1, <2>e
  <2> DEFINE a == Total(Earnings, A)
             r == Total(Earnings, (B \ A) \ {x})
  <2>6. a = a + (Earnings[x] + r)
    BY <1>1, <2>1, <2>2, <2>5
  <2>7. a \in Int /\ r \in Nat
    BY <2>3, <2>4
  <2> HIDE DEF a, r
  <2> QED BY <2>5, <2>6, <2>7
<1> QED BY <1>t, <1>1 DEF Nested

\* What the proof of CarriedInv knows of a step of worker w.
CarriedStepOf(w) ==
    /\ TypeOK /\ SplitInv /\ PlaceInv /\ WholeInv /\ CarriedInv
    /\ OneDelivery /\ deaths' = 0 /\ Acts(w)

\* The groups to split and the transfers made are of works, each creator's own.
LEMMA GroupsAreWorks ==
  ASSUME TypeOK, SplitInv, CarriedInv, OneDelivery, deaths = 0, NEW k \in Creators
  PROVE  /\ moved[k] \subseteq Works(k)
         /\ \A w \in Workers : Splitting(w) => InGroup(w, k) \subseteq Works(k)
<1>1. moved[k] \subseteq Works(k)
  BY DEF CarriedInv, SplitInv, GoodsHeld, Works
<1>2. \A w \in Workers : Splitting(w) => InGroup(w, k) \subseteq Works(k)
  BY DEF Splitting, SplitInv, SplitsNoGoods, InGroup, Works, Sold
<1> QED BY <1>1, <1>2

\* A transfer, once made, stays; a new one carries the group of who made it.
LEMMA TransferStays ==
  ASSUME NEW w \in Workers, CarriedStepOf(w), NEW k \in Creators
  PROVE  \/ moved'[k] = moved[k]
         \/ moved[k] = {} /\ moved'[k] = InGroup(w, k) /\ Transfer(w, k)
<1> USE DEF CarriedStepOf
<1>1. ASSUME NEW j \in Creators, Transfer(w, j), moved'[k] # moved[k]
      PROVE  moved[k] = {} /\ moved'[k] = InGroup(w, k) /\ Transfer(w, k)
  BY <1>1 DEF Transfer, TypeOK, RowsOK
<1> QED BY <1>1, Writing DEF Writes, TypeOK

\* Nothing joins what stands, but when the pending rows are completed.
LEMMA StandingShrinks ==
  ASSUME NEW w \in Workers, CarriedStepOf(w), NEW k \in Creators
  PROVE  \/ Standing(k)' \subseteq Standing(k)
         \/ Complete(w) /\ With("pending") # {} /\ moved' = moved
<1> USE DEF CarriedStepOf
<1>1. ASSUME NEW p \in Works(k), status'[p] \in {"completed", "disputed"},
             status[p] \notin {"completed", "disputed"}
      PROVE  Complete(w) /\ With("pending") # {} /\ moved' = moved
  <2>1. p \in Purchases
    BY DEF Works, Sold
  <2>2. Complete(w) /\ status[p] = "pending"
    BY <1>1, <2>1, RowMoves
  <2> QED BY <2>1, <2>2 DEF Complete, With, stripe, money
<1> QED BY <1>1 DEF Standing, Works

\* What a worker that splits after its step has to move of creator k: nothing, what it
\* had before, all the works of the creator, or the debts it has just read.
LEMMA GroupsLeft ==
  ASSUME NEW w \in Workers, CarriedStepOf(w), Splitting(w)', NEW k \in Creators
  PROVE  \/ InGroup(w, k)' = {}
         \/ Splitting(w) /\ InGroup(w, k)' = InGroup(w, k) /\ ~Complete(w)
         \/ w \in Hooks /\ InGroup(w, k)' = Works(k) /\ moved' = moved
         \/ ReadDebts(w)
<1> USE DEF CarriedStepOf
<1>t. WorkOK /\ deaths = 0
  BY NobodyDied DEF TypeOK
<1>1. CASE Group(w)
  <2>1. w \in Hooks /\ work[w].pc = "group"
    BY <1>1, <1>t, GroupMoves, HandledEvent DEF Completing
  <2>2. work[w].read = Purchases
    BY <1>t, <2>1 DEF WholeInv, Charging, Workers
  <2>3. work'[w].todo = Purchases \ Goods
    BY <1>1, <1>t, <2>2, GroupMoves
  <2>4. moved' = moved
    BY <1>1 DEF Group, stripe, money
  <2> QED BY <2>1, <2>3, <2>4 DEF InGroup, Works, Sold
<1>2. CASE Stamp(w) \/ StampLost(w)
  <2>1. work[w].pc = "stamp" /\ work'[w].todo = work[w].todo \ work[w].hand
    BY <1>2, <1>t, StampMoves
  <2>2. PICK j \in Creators : work[w].hand = InGroup(w, j)
    BY <1>t, <2>1 DEF CarriedInv, StampSound
  <2>3. CASE j = k
    BY <2>1, <2>2, <2>3 DEF InGroup
  <2>4. CASE j # k
    <3>1. InGroup(w, k)' = InGroup(w, k)
      BY <2>1, <2>2, <2>4 DEF InGroup, Sold
    <3> QED BY <2>1, <3>1 DEF Splitting, Complete, At
  <2> QED BY <2>3, <2>4
<1>3. ASSUME NEW j \in Creators, SkipCreator(w, j) \/ KeyRefused(w, j)
      PROVE  InGroup(w, k)' = {} \/ (Splitting(w) /\ InGroup(w, k)' = InGroup(w, k) /\ ~Complete(w))
  <2>1. work[w].pc = "split" /\ work'[w].todo = work[w].todo \ Sold(j)
    BY <1>3, <1>t, PassCreatorMoves
  <2>2. CASE j = k
    BY <2>1, <2>2 DEF InGroup, Sold
  <2>3. CASE j # k
    <3>1. InGroup(w, k)' = InGroup(w, k)
      BY <2>1, <2>3 DEF InGroup, Sold
    <3> QED BY <2>1, <3>1 DEF Splitting, Complete, At
  <2> QED BY <2>2, <2>3
<1>4. ASSUME NEW j \in Creators, Transfer(w, j)
      PROVE  Splitting(w) /\ InGroup(w, k)' = InGroup(w, k) /\ ~Complete(w)
  <2>1. work[w].pc = "split" /\ work'[w].todo = work[w].todo
    BY <1>4, <1>t, TransferMoves
  <2> QED BY <2>1 DEF Splitting, Complete, At, InGroup, Sold
<1> QED BY <1>1, <1>2, <1>3, <1>4, Comes DEF CameBy, Splitting

\* The retry job finds debts when no row is pending any more.
LEMMA DebtsAreLate ==
  ASSUME NEW w \in Workers, CarriedStepOf(w), ReadDebts(w)
  PROVE  w \in Jobs /\ With("pending") = {}
<1> USE DEF CarriedStepOf
<1>1. deaths = 0
  BY NobodyDied
<1>2. With("completed") # {}
  BY DEF ReadDebts
<1> QED BY <1>1, <1>2 DEF ReadDebts, WholeInv, With, Bought

\* The debts the retry job reads are what stands, where nothing was moved yet.
LEMMA DebtsStand ==
  ASSUME NEW w \in Workers, CarriedStepOf(w), ReadDebts(w), NEW k \in Creators
  PROVE  /\ InGroup(w, k)' \subseteq Standing(k)
         /\ moved[k] = {} /\ InGroup(w, k)' # {} => InGroup(w, k)' = Standing(k)
         /\ moved' = moved /\ Standing(k)' = Standing(k)
<1> USE DEF CarriedStepOf
<1>t. WorkOK /\ deaths = 0
  BY NobodyDied DEF TypeOK
<1>1. work'[w].todo = (With("completed") \cap keyed) \ (stamp \cup Goods)
  BY <1>t, ReadDebtsMoves
<1>2. InGroup(w, k)' \subseteq Standing(k)
  BY <1>1 DEF InGroup, Standing, Works, With, Sold
<1>3. ASSUME moved[k] = {}, InGroup(w, k)' # {} PROVE Standing(k) \subseteq InGroup(w, k)'
  <2>1. With("disputed") = {}
    BY <1>1, <1>3, <1>t DEF WholeInv, InGroup
  <2>2. \A p \in Sold(k) : p \notin stamp
    BY <1>3, <1>t DEF CarriedInv, StampIsTheTransfer, Sold
  <2>3. \A p \in Standing(k) : p \in With("completed") /\ p \in keyed
    BY <2>1 DEF Standing, Works, Sold, With, PlaceInv
  <2> QED BY <1>1, <2>2, <2>3 DEF InGroup, Standing, Works, Sold
<1>4. moved' = moved /\ status' = status
  BY DEF ReadDebts, rows, stripe, money
<1> QED BY <1>2, <1>3, <1>4 DEF Standing, Works

\* While a row is pending only deliveries split.
LEMMA HooksSplitFirst ==
  ASSUME TypeOK, PlaceInv, CarriedInv, OneDelivery, deaths = 0, With("pending") # {},
         NEW w \in Workers, Splitting(w)
  PROVE  w \in Hooks
<1>1. w \in Routes => ~Splitting(w)
  BY DEF PlaceInv, InPlace, Role, RefundSteps, Splitting
<1>2. w \in Jobs => ~Splitting(w)
  BY DEF CarriedInv, Splitting, Rest
<1> QED BY <1>1, <1>2 DEF Workers

\* A stamp names a transfer that carried its row, and so does one about to be made.
LEMMA CarriedStamps ==
  ASSUME NEW w \in Workers, CarriedStepOf(w)
  PROVE  /\ StampIsTheTransfer'
         /\ \A v \in Workers : work'[v].pc = "stamp" => StampSound(v)'
<1> USE DEF CarriedStepOf
<1>t. WorkOK /\ deaths = 0
  BY NobodyDied DEF TypeOK
<1>m. \A k \in Creators : moved[k] \subseteq moved'[k]
  BY TransferStays
<1>c. \A p \in Purchases : CreatorOf[p] \in Creators
  BY RowsAssumption
<1>1. ASSUME NEW p \in stamp' PROVE p \in moved'[CreatorOf[p]]
  <2>1. CASE p \in stamp
    <3>1. p \in Purchases /\ p \in moved[CreatorOf[p]]
      BY <1>t, <2>1 DEF CarriedInv, StampIsTheTransfer, TypeOK, RowsOK
    <3> QED BY <1>m, <1>c, <3>1
  <2>2. CASE p \notin stamp
    <3>1. Stamp(w) /\ p \in work[w].hand
      BY <1>1, <1>t, <2>2, Writing DEF Writes, Stamp
    <3>2. PICK k \in Creators : work[w].hand = InGroup(w, k) /\ work[w].hand \subseteq moved[k]
      BY <1>t, <3>1, StampMoves DEF CarriedInv, StampSound
    <3>3. CreatorOf[p] = k /\ p \in moved[k]
      BY <3>1, <3>2 DEF InGroup, Sold
    <3> QED BY <1>m, <3>3
  <2> QED BY <2>1, <2>2
<1>2. ASSUME NEW v \in Workers, work'[v].pc = "stamp" PROVE StampSound(v)'
  <2>1. CASE v # w
    <3>1. work'[v] = work[v]
      BY <1>t, <2>1, OthersRest
    <3>2. PICK k \in Creators : work[v].hand = InGroup(v, k) /\ work[v].hand \subseteq moved[k]
      BY <1>t, <1>2, <3>1 DEF CarriedInv, StampSound
    <3>3. work'[v].hand = InGroup(v, k)' /\ work'[v].hand \subseteq moved'[k]
      BY <1>m, <3>1, <3>2 DEF InGroup, Sold
    <3> QED BY <3>3 DEF StampSound
  <2>2. CASE v = w
    <3>1. PICK k \in Creators : Transfer(w, k)
      BY <1>2, <2>2, Comes DEF CameBy
    <3>2. /\ work[w].pc = "split" /\ work'[w].hand = InGroup(w, k)
          /\ work'[w].todo = work[w].todo
      BY <1>t, <3>1, TransferMoves
    <3>3. InGroup(w, k)' = InGroup(w, k)
      BY <3>2 DEF InGroup, Sold
    <3>4. InGroup(w, k) \subseteq moved'[k]
      <4>1. CASE moved[k] = {}
        BY <3>1, <4>1 DEF Transfer, TypeOK, RowsOK
      <4>2. CASE moved[k] # {}
        <5>1. Amount(InGroup(w, k)) = Amount(moved[k])
          BY <3>1, <4>2 DEF Transfer
        <5>2. Nested(InGroup(w, k), moved[k])
          BY <1>t, <3>2, <4>2 DEF CarriedInv, Splitting, GroupSound
        <5>3. InGroup(w, k) \in SUBSET Purchases /\ moved[k] \in SUBSET Purchases
          BY <1>t DEF InGroup, Sold, TypeOK, RowsOK
        <5>4. InGroup(w, k) = moved[k]
          BY <5>1, <5>2, <5>3, NestedSumsDiffer
        <5> QED BY <1>m, <5>4
      <4> QED BY <4>1, <4>2
    <3> QED BY <2>2, <3>2, <3>3, <3>4 DEF StampSound
  <2> QED BY <2>1, <2>2
<1> QED BY <1>1, <1>2 DEF StampIsTheTransfer

\* A transfer is for all that stands, and while a row is pending for all the works.
LEMMA CarriedMoves ==
  ASSUME NEW w \in Workers, CarriedStepOf(w)
  PROVE  /\ \A k \in Creators : moved'[k] \subseteq Sold(k)
         /\ \A k \in Creators : moved'[k] # {} => Standing(k)' \subseteq moved'[k]
         /\ With("pending")' # {} => \A k \in Creators : moved'[k] \in {{}, Works(k)}
         /\ With("pending")' # {} => \A v \in Jobs : work'[v] = Rest
<1> USE DEF CarriedStepOf
<1>t. WorkOK /\ deaths = 0
  BY NobodyDied DEF TypeOK
<1>p. With("pending")' # {} => With("pending") # {}
  BY RowMoves DEF With
<1>s. \A k \in Creators : Transfer(w, k) =>
         Splitting(w) /\ InGroup(w, k) # {} /\ InGroup(w, k) \subseteq Sold(k)
  BY <1>t, TransferMoves DEF Splitting, Transfer, InGroup
<1>1. ASSUME NEW k \in Creators PROVE moved'[k] \subseteq Sold(k)
  BY <1>t, <1>s, TransferStays DEF CarriedInv
<1>2. ASSUME NEW k \in Creators, moved'[k] # {} PROVE Standing(k)' \subseteq moved'[k]
  <2>1. CASE Standing(k)' \subseteq Standing(k) /\ moved'[k] = moved[k]
    BY <1>t, <1>2, <2>1 DEF CarriedInv
  <2>2. CASE Standing(k)' \subseteq Standing(k) /\ Transfer(w, k) /\ moved[k] = {}
             /\ moved'[k] = InGroup(w, k)
    <3>1. Standing(k) \subseteq InGroup(w, k)
      BY <1>t, <1>s, <2>2 DEF CarriedInv, GroupSound
    <3> QED BY <2>2, <3>1
  <2>3. CASE Complete(w) /\ With("pending") # {} /\ moved' = moved
    <3>1. moved'[k] = Works(k)
      BY <1>t, <1>2, <2>3 DEF CarriedInv
    <3> QED BY <3>1 DEF Standing, Works, Sold
  <2> QED BY <2>1, <2>2, <2>3, TransferStays, StandingShrinks DEF Complete, Transfer, At
<1>3. ASSUME NEW k \in Creators, With("pending")' # {} PROVE moved'[k] \in {{}, Works(k)}
  <2>1. CASE moved'[k] = moved[k]
    BY <1>t, <1>p, <1>3, <2>1 DEF CarriedInv
  <2>2. CASE Transfer(w, k) /\ moved'[k] = InGroup(w, k)
    <3>1. w \in Hooks
      BY <1>t, <1>p, <1>s, <1>3, <2>2, HooksSplitFirst
    <3> QED BY <1>t, <1>s, <2>2, <3>1 DEF CarriedInv, GroupSound
  <2> QED BY <2>1, <2>2, TransferStays
<1>4. ASSUME NEW v \in Jobs, With("pending")' # {} PROVE work'[v] = Rest
  <2>1. work[v] = Rest /\ v \in Workers
    BY <1>t, <1>p, <1>4 DEF CarriedInv, Workers
  <2>2. CASE v # w
    BY <1>t, <2>1, <2>2, OthersRest
  <2>3. CASE v = w
    <3>1. ~ReadDebts(w)
      BY <1>p, <1>4, DebtsAreLate
    <3>2. ASSUME NEW i \in DOMAIN log, Deliver(w, i) PROVE FALSE
      <4>1. work'[w].pc = log[i] /\ log[i] \in Events
        BY <1>t, <3>2, DeliverMoves DEF TypeOK, WorldOK
      <4>2. work'[w].pc \in {"rest", "split", "stamp"}
        BY <1>4, <2>3, RoleStep DEF Role
      <4> QED BY <4>1, <4>2 DEF Events
    <3>3. ~ \E p \in Purchases : AskRefund(w, p)
      BY <1>4, <2>3, WorkersAssumption DEF AskRefund
    <3> QED BY <2>1, <2>3, <3>1, <3>2, <3>3, Starts
  <2> QED BY <2>2, <2>3
<1> QED BY <1>1, <1>2, <1>3, <1>4

\* A worker that goes on splitting keeps its groups sound.
LEMMA CarriedGroups ==
  ASSUME NEW w \in Workers, CarriedStepOf(w), NEW v \in Workers, Splitting(v)'
  PROVE  GroupSound(v)'
<1> USE DEF CarriedStepOf
<1>t. WorkOK /\ deaths = 0
  BY NobodyDied DEF TypeOK
<1>1. ASSUME NEW k \in Creators, Splitting(v), InGroup(v, k)' = InGroup(v, k)
      PROVE  /\ v \in Hooks => InGroup(v, k)' \in {{}, Works(k)}
             /\ moved'[k] = {} /\ InGroup(v, k)' # {} => Standing(k)' \subseteq InGroup(v, k)'
             /\ moved'[k] # {} => Nested(InGroup(v, k)', moved'[k])
  <2>1. v \in Hooks => InGroup(v, k)' \in {{}, Works(k)}
    BY <1>t, <1>1 DEF CarriedInv, GroupSound
  <2>2. ASSUME moved'[k] = {}, InGroup(v, k)' # {} PROVE Standing(k)' \subseteq InGroup(v, k)'
    <3>1. moved[k] = {}
      BY <2>2, TransferStays DEF Transfer
    <3>2. Standing(k) \subseteq InGroup(v, k)
      BY <1>t, <1>1, <2>2, <3>1 DEF CarriedInv, GroupSound
    <3>3. ASSUME With("pending") # {} PROVE Standing(k)' \subseteq InGroup(v, k)'
      <4>1. InGroup(v, k)' = Works(k)
        BY <1>t, <1>1, <2>1, <2>2, <3>3, HooksSplitFirst
      <4> QED BY <4>1 DEF Standing, Works, Sold
    <3> QED BY <1>1, <3>2, <3>3, StandingShrinks
  <2>3. ASSUME moved'[k] # {} PROVE Nested(InGroup(v, k)', moved'[k])
    <3>1. CASE moved'[k] = moved[k]
      BY <1>t, <1>1, <2>3, <3>1 DEF CarriedInv, GroupSound
    <3>2. CASE moved[k] = {} /\ moved'[k] = InGroup(w, k) /\ Transfer(w, k)
      <4>1. Splitting(w)
        BY <1>t, <3>2, TransferMoves DEF Splitting
      <4> QED BY <1>t, <1>1, <3>2, <4>1 DEF CarriedInv
    <3> QED BY <3>1, <3>2, TransferStays
  <2> QED BY <2>1, <2>2, <2>3
<1>2. CASE v # w
  <2>1. work'[v] = work[v]
    BY <1>t, <1>2, OthersRest
  <2>2. Splitting(v) /\ \A k \in Creators : InGroup(v, k)' = InGroup(v, k)
    BY <2>1 DEF Splitting, InGroup, Sold
  <2> QED BY <1>1, <2>2 DEF GroupSound, Works, Sold
<1>3. CASE v = w
  <2>1. ASSUME NEW k \in Creators
        PROVE  /\ v \in Hooks => InGroup(v, k)' \in {{}, Works(k)}
               /\ moved'[k] = {} /\ InGroup(v, k)' # {} => Standing(k)' \subseteq InGroup(v, k)'
               /\ moved'[k] # {} => Nested(InGroup(v, k)', moved'[k])
    <3>1. CASE InGroup(w, k)' = {}
      BY <1>3, <3>1 DEF Nested
    <3>2. CASE w \in Hooks /\ InGroup(w, k)' = Works(k) /\ moved' = moved
      <4>1. moved[k] \subseteq Works(k)
        BY <1>t, GroupsAreWorks
      <4> QED BY <1>3, <3>2, <4>1 DEF Nested, Standing, Works, Sold
    <3>3. CASE ReadDebts(w)
      <4>1. w \notin Hooks
        BY <3>3, DebtsAreLate, WorkersAssumption
      <4>2. /\ InGroup(w, k)' \subseteq Standing(k) /\ moved' = moved /\ Standing(k)' = Standing(k)
            /\ moved[k] = {} /\ InGroup(w, k)' # {} => InGroup(w, k)' = Standing(k)
        BY <3>3, DebtsStand
      <4>3. moved[k] # {} => Standing(k) \subseteq moved[k]
        BY <1>t DEF CarriedInv
      <4> QED BY <1>3, <4>1, <4>2, <4>3 DEF Nested
    <3> QED BY <1>1, <1>3, <3>1, <3>2, <3>3, GroupsLeft
  <2> QED BY <2>1 DEF GroupSound, Works, Sold
<1> QED BY <1>2, <1>3

\* The groups of two workers stay nested until the creator's transfer is made.
LEMMA CarriedNested ==
  ASSUME NEW w \in Workers, CarriedStepOf(w), NEW k \in Creators, moved'[k] = {},
         NEW u \in Workers, NEW v \in Workers, Splitting(u)', Splitting(v)'
  PROVE  Nested(InGroup(u, k)', InGroup(v, k)')
<1> USE DEF CarriedStepOf
<1>t. WorkOK /\ deaths = 0
  BY NobodyDied DEF TypeOK
<1>0. moved[k] = {}
  BY TransferStays DEF Transfer
<1>1. \A x \in Workers : x # w /\ Splitting(x)' => Splitting(x) /\ InGroup(x, k)' = InGroup(x, k)
  BY <1>t, OthersRest DEF Splitting, InGroup, Sold
<1>2. ASSUME NEW x \in Workers, x # w, Splitting(x)', Splitting(w)'
      PROVE  Nested(InGroup(x, k)', InGroup(w, k)')
  <2>1. Splitting(x) /\ InGroup(x, k)' = InGroup(x, k)
    BY <1>1, <1>2
  <2>2. CASE InGroup(w, k)' = {}
    BY <2>2 DEF Nested
  <2>3. CASE Splitting(w) /\ InGroup(w, k)' = InGroup(w, k)
    BY <1>t, <1>0, <2>1, <2>3 DEF CarriedInv
  <2>4. CASE InGroup(w, k)' = Works(k)
    BY <1>t, <2>1, <2>4, GroupsAreWorks DEF Nested
  <2>5. CASE ReadDebts(w)
    <3>1. InGroup(w, k)' \subseteq Standing(k)
      BY <2>5, DebtsStand
    <3>2. InGroup(x, k) # {} => Standing(k) \subseteq InGroup(x, k)
      BY <1>t, <1>0, <2>1 DEF CarriedInv, GroupSound
    <3> QED BY <2>1, <3>1, <3>2 DEF Nested
  <2> QED BY <1>2, <2>2, <2>3, <2>4, <2>5, GroupsLeft
<1>3. CASE u # w /\ v # w
  BY <1>t, <1>0, <1>1, <1>3 DEF CarriedInv
<1>4. CASE u = v
  BY <1>4 DEF Nested
<1> QED BY <1>2, <1>3, <1>4 DEF Nested

\* At the start nothing is split.
LEMMA CarriedInit == Init => CarriedInv
<1> SUFFICES ASSUME Init PROVE CarriedInv
  OBVIOUS
<1>1. \A w \in Workers : ~Splitting(w) /\ work[w].pc # "stamp"
  BY DEF Init, Rest, Splitting
<1> QED BY <1>1 DEF Init, CarriedInv, StampIsTheTransfer, Workers

\* CarriedInv is kept by every step.
LEMMA CarriedStep ==
  TypeOK /\ SplitInv /\ PlaceInv /\ WholeInv /\ CarriedInv /\ [Next]_vars => CarriedInv'
<1> SUFFICES ASSUME TypeOK, SplitInv, PlaceInv, WholeInv, CarriedInv, [Next]_vars,
                    OneDelivery, deaths' = 0
             PROVE  CarriedInv'
  BY DEF CarriedInv
<1>1. ASSUME NEW w \in Workers, Acts(w) PROVE CarriedInv'
  <2>1. CarriedStepOf(w)
    BY <1>1 DEF CarriedStepOf
  <2> QED
    BY <2>1, CarriedStamps, CarriedMoves, CarriedGroups, CarriedNested DEF CarriedInv, Works, Sold
<1>2. CASE UNCHANGED <<rows, moved, work, deaths>>
  <2>1. \A k \in Creators : Standing(k)' = Standing(k)
    BY <1>2 DEF Standing, Works, Sold, rows
  <2>2. With("pending")' = With("pending") /\ StampIsTheTransfer' = StampIsTheTransfer
    BY <1>2 DEF With, StampIsTheTransfer, rows
  <2>3. \A w \in Workers : /\ Splitting(w)' = Splitting(w)
                           /\ \A k \in Creators : InGroup(w, k)' = InGroup(w, k)
    BY <1>2 DEF Splitting, InGroup, Sold
  <2>4. \A w \in Workers : /\ GroupSound(w)' = GroupSound(w)
                           /\ StampSound(w)' = StampSound(w)
    BY <1>2, <2>1, <2>3 DEF GroupSound, StampSound, Works, Sold
  <2> QED BY <1>2, <2>1, <2>2, <2>3, <2>4 DEF CarriedInv, Works, Sold
<1> QED BY <1>1, <1>2, WhoActs, WorldActs DEF vars, mishaps, stripe, money

\* A row that names a transfer was carried by it, for any workers, prices and
\* disturbances, lost answers included, until a worker dies: unless two deliveries of
\* the charge overlap.  Where one dies between two statements of the keying, run
\* split_key_reused shows the stamp of a transfer that carried another row.
THEOREM StampIsTheTransferUntilDeath ==
  ASSUME OneDelivery
  PROVE  Spec => [](deaths = 0 => StampIsTheTransfer)
<1>1. CarriedInv => (deaths = 0 => StampIsTheTransfer)
  BY DEF CarriedInv
<1> QED
  BY <1>1, TypeInit, TypeStep, SplitInit, SplitStep, PlaceInit, PlaceStep, KeyInit, KeyStep,
     FreshInit, FreshStep, WholeInit, WholeStep, CarriedInit, CarriedStep, PTL DEF Spec
-----------------------------------------------------------------------------
(* What is recovered while requests overlap.                               *)

\* Accounts stay in order, events come in order, one delivery of the charge is at work
\* at a time, and there are no goods.
Steady == OneDelivery /\ InOrder /\ "restrict" \notin May /\ Goods = {}

\* A delivery of the charge before its works are moved, or while they are.
Moving(w) == w \in Hooks /\ work[w].pc \in {"key", "group", "split", "stamp"}

\* How far the delivery of the charge is with the transfers.
Advances(w) ==
    /\ work[w].pc \in {"key", "group"} => \A k \in Creators : moved[k] = {}
    /\ Splitting(w) =>
          /\ Purchases \subseteq stamp \cup work[w].todo
          /\ \A k \in Creators : InGroup(w, k) # {} /\ moved[k] # {} =>
                work[w].pc = "stamp" /\ work[w].hand = InGroup(w, k)
    /\ ~unfit /\ work[w].pc \in {"credit", "ship", "complete"} => Purchases \subseteq stamp

\* When nothing fails, the delivery of the charge moves and stamps all of it before it
\* completes a row: no debt is left for the retry job.
StampedInv ==
    Steady /\ deaths = 0 /\ losses = 0 =>
        /\ ready = Creators
        /\ \A w \in Jobs : work[w] = Rest
        /\ keyed = {} => \A k \in Creators : moved[k] = {}
        /\ keyed # {} => Purchases \subseteq stamp \/ \E w \in Workers : Moving(w)
        /\ \A w \in Hooks : Advances(w)
        /\ \A p \in Purchases : Bought(p) => p \in stamp

\* What the proof of StampedInv knows of a step of worker w.
StampedStepOf(w) ==
    /\ TypeOK /\ PlaceInv /\ KeyInv /\ FreshInv /\ WholeInv /\ StampedInv
    /\ Steady /\ deaths' = 0 /\ losses' = 0 /\ Acts(w)

\* At the start nothing is keyed, moved or bought.
LEMMA StampedInit == Init => StampedInv
<1> SUFFICES ASSUME Init PROVE StampedInv
  OBVIOUS
<1>1. \A w \in Workers : work[w] = Rest
  BY DEF Init
<1>2. \A w \in Hooks : Advances(w)
  BY <1>1 DEF Advances, Splitting, Rest, Workers
<1> QED BY <1>1, <1>2 DEF Init, StampedInv, Bought, Workers

\* Two workers on the way of the charge are one delivery.
LEMMA OneMoving ==
  ASSUME PlaceInv, FreshInv, Steady, NEW u \in Hooks, NEW v \in Hooks,
         work[u].pc \in Completing, work[v].pc \in Completing
  PROVE  u = v
<1>1. work[u].event = "succeeded" /\ work[v].event = "succeeded"
  BY DEF PlaceInv, InPlace, Role, Handling, Completing, Undoing, Taking, Closing, Workers
<1> QED BY <1>1 DEF FreshInv, Steady, Workers

\* Who splits is a delivery: the retry job finds no debt.
LEMMA HooksSplit ==
  ASSUME PlaceInv, StampedInv, Steady, deaths = 0, losses = 0, NEW w \in Workers, Splitting(w)
  PROVE  w \in Hooks
<1>1. w \in Routes => ~Splitting(w)
  BY DEF PlaceInv, InPlace, Role, RefundSteps, Splitting
<1>2. w \in Jobs => ~Splitting(w)
  BY DEF StampedInv, Splitting, Rest
<1> QED BY <1>1, <1>2 DEF Workers

\* The retry job stays at rest.
LEMMA StampedJobs ==
  ASSUME NEW w \in Workers, StampedStepOf(w), NEW v \in Jobs
  PROVE  work'[v] = Rest
<1> USE DEF StampedStepOf
<1>s. deaths = 0 /\ losses = 0 /\ WorkOK
  BY Spared DEF TypeOK
<1>1. work[v] = Rest /\ v \in Workers
  BY <1>s DEF StampedInv, Workers
<1>2. CASE v # w
  BY <1>s, <1>1, <1>2, OthersRest
<1>3. CASE v = w
  <2>1. ~ReadDebts(w)
    <3>1. \A p \in Purchases : status[p] = "completed" => p \in stamp
      BY <1>s DEF StampedInv, Bought
    <3> QED BY <3>1 DEF ReadDebts, With
  <2>2. ASSUME NEW i \in DOMAIN log, Deliver(w, i) PROVE FALSE
    <3>1. work'[w].pc = log[i] /\ log[i] \in Events
      BY <1>s, <2>2, DeliverMoves DEF TypeOK, WorldOK
    <3>2. work'[w].pc \in {"rest", "split", "stamp"}
      BY <1>3, RoleStep DEF Role
    <3> QED BY <3>1, <3>2 DEF Events
  <2>3. ~ \E p \in Purchases : AskRefund(w, p)
    BY <1>3, WorkersAssumption DEF AskRefund
  <2> QED BY <1>1, <1>3, <2>1, <2>2, <2>3, Starts
<1> QED BY <1>2, <1>3

\* A creator gets one transfer, from a delivery at its groups that has not moved this one.
LEMMA MovesOnce ==
  ASSUME NEW w \in Workers, StampedStepOf(w), NEW k \in Creators, InGroup(w, k) # {},
         work[w].pc = "split"
  PROVE  w \in Hooks /\ moved[k] = {}
<1> USE DEF StampedStepOf
<1>s. deaths = 0 /\ losses = 0
  BY Spared
<1>1. w \in Hooks
  BY <1>s, HooksSplit DEF Splitting
<1> QED BY <1>s, <1>1 DEF StampedInv, Advances, Splitting

\* While nothing is keyed nothing is moved; and once it is, the delivery that keyed it
\* goes on until all is stamped.
LEMMA StampedKeys ==
  ASSUME NEW w \in Workers, StampedStepOf(w)
  PROVE  /\ keyed' = {} => \A k \in Creators : moved'[k] = {}
         /\ keyed' # {} => Purchases \subseteq stamp' \/ \E v \in Workers : Moving(v)'
<1> USE DEF StampedStepOf
<1>s. /\ deaths = 0 /\ losses = 0 /\ WorkOK
      /\ ~Die(w) /\ ~StampLost(w) /\ ~ReverseLost(w)
  BY Spared DEF TypeOK
<1>w. Writes(w)
  BY <1>s, Writing
<1>k. keyed \subseteq keyed' /\ stamp \subseteq stamp'
  BY <1>s, <1>w, KeyMoves DEF Writes, Stamp
<1>1. ASSUME keyed' = {}, NEW k \in Creators PROVE moved'[k] = {}
  <2>1. keyed = {} /\ moved[k] = {}
    BY <1>s, <1>k, <1>1 DEF StampedInv
  <2>2. ASSUME NEW j \in Creators, Transfer(w, j) PROVE FALSE
    <3>1. work[w].pc = "split" /\ InGroup(w, j) # {}
      BY <1>s, <2>2, TransferMoves DEF Transfer
    <3>2. w \in Hooks
      BY <3>1, MovesOnce
    <3>5. ~unfit
      BY <3>1, <3>2 DEF PlaceInv, Treating
    <3>3. \A p \in Purchases : status[p] = "pending" => p \in keyed
      BY <3>1, <3>2, <3>5 DEF KeyInv, KeySound
    <3>4. Purchases = {}
      BY <2>1, <3>3 DEF PlaceInv
    <3> QED BY <3>1, <3>4 DEF InGroup, Sold
  <2> QED BY <1>w, <2>1, <2>2 DEF Writes
<1>2. ASSUME keyed' # {} PROVE Purchases \subseteq stamp' \/ \E v \in Workers : Moving(v)'
  <2>1. CASE Key(w)
    BY <1>s, <2>1, KeyMoves, HandledEvent DEF Moving, Completing
  <2>2. CASE ~Key(w) /\ Purchases \subseteq stamp
    BY <1>k, <2>2
  <2>3. ASSUME ~Key(w), NEW v \in Workers, Moving(v)
        PROVE  Purchases \subseteq stamp' \/ Moving(v)'
    <3>1. CASE v # w
      BY <1>s, <2>3, <3>1, OthersRest DEF Moving
    <3>2. CASE v = w
      <4>0. w \notin Jobs /\ w \in Hooks
        BY <2>3, <3>2, WorkersAssumption DEF Moving
      <4>1. CASE Group(w) \/ Stamp(w)
        BY <1>s, <2>3, <3>2, <4>1, GroupMoves, StampMoves DEF Moving
      <4>2. ASSUME NEW k \in Creators, SkipCreator(w, k) \/ KeyRefused(w, k) \/ Transfer(w, k)
            PROVE  Moving(v)'
        BY <1>s, <2>3, <3>2, <4>2, PassCreatorMoves, TransferMoves DEF Moving
      <4>3. CASE SplitDone(w)
        <5>1. Splitting(w) /\ work[w].todo = {}
          BY <1>s, <4>3, SplitDoneMoves DEF Splitting
        <5>2. Purchases \subseteq stamp
          BY <1>s, <4>0, <5>1 DEF StampedInv, Advances
        <5> QED BY <1>k, <5>2
      <4> QED BY <1>s, <2>3, <3>2, <4>1, <4>2, <4>3, Leaves DEF LeavesBy, Moving
    <3> QED BY <3>1, <3>2
  <2>4. ~Key(w) => keyed # {}
    BY <1>w, <1>2 DEF Writes
  <2> QED BY <1>s, <2>1, <2>2, <2>3, <2>4 DEF StampedInv
<1> QED BY <1>1, <1>2

\* The delivery that acts advances.
LEMMA StampedAdvances ==
  ASSUME NEW w \in Workers, StampedStepOf(w), w \in Hooks
  PROVE  Advances(w)'
<1> USE DEF StampedStepOf
<1>s. /\ deaths = 0 /\ losses = 0 /\ WorkOK /\ w \notin Jobs
      /\ ~Die(w) /\ ~StampLost(w) /\ ~ReverseLost(w)
  BY Spared, WorkersAssumption DEF TypeOK
<1>w. Writes(w)
  BY <1>s, Writing
<1>a. Advances(w)
  BY <1>s DEF StampedInv
<1>c. CameBy(w)
  BY Comes
<1>r. ASSUME ReadSession(w)
      PROVE  /\ \A v \in Workers : ~Moving(v)
             /\ keyed = {} \/ Purchases \subseteq keyed
  <2>1. work[w].pc = "succeeded"
    BY <1>s, <1>r, ReadSessionMoves
  <2>2. \A v \in Workers : ~Moving(v)
    <3> SUFFICES ASSUME NEW v \in Workers, Moving(v) PROVE FALSE
      OBVIOUS
    <3>1. v = w
      BY <2>1, OneMoving DEF Moving, Completing
    <3> QED BY <2>1, <3>1 DEF Moving
  <2> QED BY <1>s, <2>2 DEF WholeInv, Moving, Steady, Workers
<1>1. ASSUME work'[w].pc \in {"key", "group"} PROVE \A k \in Creators : moved'[k] = {}
  <2>1. moved' = moved
    BY <1>s, <1>w, <1>1, TransferMoves DEF Writes
  <2>2. CASE ReadSession(w)
    <3>1. With("pending") \ keyed # {}
      BY <1>s, <1>1, <2>2, ReadSessionMoves DEF Found
    <3>2. keyed = {}
      BY <1>r, <2>2, <3>1 DEF With
    <3> QED BY <1>s, <2>1, <3>2 DEF StampedInv
  <2>3. CASE Key(w)
    BY <1>s, <1>a, <2>1, <2>3, KeyMoves DEF Advances
  <2> QED BY <1>c, <1>1, <2>2, <2>3 DEF CameBy
<1>2. ASSUME Splitting(w)'
      PROVE  /\ Purchases \subseteq stamp' \cup work'[w].todo
             /\ \A k \in Creators : InGroup(w, k)' # {} /\ moved'[k] # {} =>
                   work'[w].pc = "stamp" /\ work'[w].hand = InGroup(w, k)'
  <2>g. \A k \in Creators : InGroup(w, k)' = work'[w].todo \cap Sold(k)
    BY DEF InGroup, Sold
  <2>1. CASE Group(w)
    <3>1. work[w].pc = "group" /\ work'[w].todo = work[w].read \ Goods /\ moved' = moved
      BY <1>s, <2>1, GroupMoves DEF Group, stripe, money
    <3>2. work[w].read = Purchases
      BY <1>s, <3>1 DEF WholeInv, Charging, Steady
    <3>3. \A k \in Creators : moved'[k] = {}
      BY <1>a, <3>1 DEF Advances
    <3> QED BY <3>1, <3>2, <3>3 DEF Steady
  <2>2. ASSUME NEW j \in Creators, SkipCreator(w, j) PROVE FALSE
    BY <1>s, <2>2 DEF SkipCreator, StampedInv
  <2>3. ASSUME NEW j \in Creators, KeyRefused(w, j) PROVE FALSE
    BY <2>3, MovesOnce DEF KeyRefused, At
  <2>4. ASSUME NEW j \in Creators, Transfer(w, j)
        PROVE  /\ Purchases \subseteq stamp' \cup work'[w].todo
               /\ \A k \in Creators : InGroup(w, k)' # {} /\ moved'[k] # {} =>
                     work'[w].pc = "stamp" /\ work'[w].hand = InGroup(w, k)'
    <3>1. /\ work[w].pc = "split" /\ work'[w].pc = "stamp"
          /\ work'[w].hand = InGroup(w, j) /\ work'[w].todo = work[w].todo
      BY <1>s, <2>4, TransferMoves
    <3>2. stamp' = stamp /\ \A k \in Creators : k # j => moved'[k] = moved[k]
      BY <2>4 DEF Transfer, rows, TypeOK, RowsOK
    <3>3. \A k \in Creators : InGroup(w, k)' = InGroup(w, k)
      BY <2>g, <3>1 DEF InGroup
    <3>4. \A k \in Creators : k # j /\ InGroup(w, k) # {} => moved'[k] = {}
      BY <3>1, <3>2, MovesOnce
    <3>5. Purchases \subseteq stamp \cup work[w].todo
      BY <1>a, <3>1 DEF Advances, Splitting
    <3> QED BY <3>1, <3>2, <3>3, <3>4, <3>5
  <2>5. CASE Stamp(w)
    <3>1. /\ work[w].pc = "stamp" /\ work'[w].todo = work[w].todo \ work[w].hand
          /\ stamp' = stamp \cup work[w].hand /\ moved' = moved
      BY <1>s, <2>5, StampMoves DEF Stamp, stripe, money
    <3>2. Purchases \subseteq stamp \cup work[w].todo
      BY <1>a, <3>1 DEF Advances, Splitting
    <3>3. ASSUME NEW k \in Creators, InGroup(w, k)' # {}, moved'[k] # {} PROVE FALSE
      <4>1. InGroup(w, k) # {} /\ moved[k] # {}
        BY <2>g, <3>1, <3>3 DEF InGroup
      <4>2. work[w].hand = InGroup(w, k)
        BY <1>a, <3>1, <4>1 DEF Advances, Splitting
      <4> QED BY <2>g, <3>1, <3>3, <4>2 DEF InGroup
    <3> QED BY <3>1, <3>2, <3>3
  <2>6. ~ReadDebts(w)
    BY <1>s DEF ReadDebts
  <2> QED BY <1>s, <1>c, <1>2, <2>1, <2>2, <2>3, <2>4, <2>5, <2>6 DEF CameBy, Splitting
<1>u. unfit' = unfit
  BY <1>w DEF Writes
<1>3. ASSUME ~unfit, work'[w].pc \in {"credit", "ship", "complete"} PROVE Purchases \subseteq stamp'
  <2>1. stamp' = stamp
    BY <1>s, <1>w, <1>3, StampMoves DEF Writes
  <2>2. CASE SplitDone(w)
    <3>1. Splitting(w) /\ work[w].todo = {}
      BY <1>s, <2>2, SplitDoneMoves DEF Splitting
    <3> QED BY <1>a, <2>1, <3>1 DEF Advances
  <2>3. CASE CreditGoods(w) \/ Ship(w)
    BY <1>s, <1>a, <1>3, <2>1, <2>3, CreditGoodsMoves, ShipMoves DEF Advances
  <2>4. CASE ReadSession(w)
    <3>1. With("pending") \ keyed = {}
      BY <1>s, <1>3, <2>4, ReadSessionMoves DEF Found
    <3>2. Purchases \subseteq keyed
      BY <3>1 DEF With, PlaceInv
    <3>3. Purchases = {} \/ keyed # {}
      BY <3>2
    <3> QED BY <1>s, <1>r, <2>1, <2>4, <3>3 DEF StampedInv
  <2> QED BY <1>c, <1>3, <2>2, <2>3, <2>4 DEF CameBy
<1> QED BY <1>u, <1>1, <1>2, <1>3 DEF Advances

\* The step of one delivery moves nothing for another.
LEMMA StampedOthers ==
  ASSUME NEW w \in Workers, StampedStepOf(w), NEW v \in Hooks, v # w
  PROVE  Advances(v)'
<1> USE DEF StampedStepOf
<1>s. /\ deaths = 0 /\ losses = 0 /\ WorkOK /\ v \in Workers
  BY Spared DEF TypeOK, Workers
<1>w. Writes(w)
  BY <1>s, Writing
<1>v. Advances(v) /\ work'[v] = work[v]
  BY <1>s, OthersRest DEF StampedInv
<1>k. stamp \subseteq stamp'
  BY <1>s, <1>w DEF Writes, Stamp
<1>1. CASE moved' = moved
  <2>1. \A k \in Creators : InGroup(v, k)' = InGroup(v, k)
    BY <1>v DEF InGroup, Sold
  <2> QED BY <1>w, <1>v, <1>k, <1>1, <2>1 DEF Advances, Splitting, Writes
<1>2. ASSUME NEW j \in Creators, Transfer(w, j) PROVE Advances(v)'
  <2>1. work[w].pc = "split" /\ InGroup(w, j) # {}
    BY <1>s, <1>2, TransferMoves DEF Transfer
  <2>2. w \in Hooks
    BY <2>1, MovesOnce
  <2>3. work[v].pc \notin Completing
    BY <2>1, <2>2, OneMoving DEF Completing
  <2> QED BY <1>v, <2>3 DEF Advances, Splitting, Completing
<1> QED BY <1>w, <1>1, <1>2 DEF Writes

\* A row is bought when the delivery of its charge has stamped them all.
LEMMA StampedBought ==
  ASSUME NEW w \in Workers, StampedStepOf(w), NEW p \in Purchases, Bought(p)'
  PROVE  p \in stamp'
<1> USE DEF StampedStepOf
<1>s. deaths = 0 /\ losses = 0 /\ WorkOK
  BY Spared DEF TypeOK
<1>k. stamp \subseteq stamp'
  BY <1>s, Writing DEF Writes, Stamp
<1>1. CASE Bought(p)
  BY <1>s, <1>k, <1>1 DEF StampedInv
<1>2. CASE ~Bought(p)
  <2>1. Complete(w)
    BY <1>2, RowMoves DEF Bought
  <2>2. w \in Hooks /\ work[w].pc = "complete"
    BY <1>s, <2>1, CompleteMoves, HandledEvent DEF Completing
  <2>3. ~unfit
    BY <1>2, DecidedFit DEF Bought
  <2> QED BY <1>s, <1>k, <2>2, <2>3 DEF StampedInv, Advances
<1> QED BY <1>1, <1>2

\* StampedInv is kept by every step.
LEMMA StampedStep ==
  TypeOK /\ PlaceInv /\ KeyInv /\ FreshInv /\ WholeInv /\ StampedInv /\ [Next]_vars => StampedInv'
<1> SUFFICES ASSUME TypeOK, PlaceInv, KeyInv, FreshInv, WholeInv, StampedInv, [Next]_vars,
                    Steady, deaths' = 0, losses' = 0
             PROVE  StampedInv'
  BY DEF StampedInv
<1>1. ASSUME NEW w \in Workers, Acts(w) PROVE StampedInv'
  <2>1. StampedStepOf(w)
    BY <1>1 DEF StampedStepOf
  <2>2. ready' = Creators
    BY <1>1, Spared, Writing DEF Writes, StampedInv, TypeOK
  <2>3. \A v \in Hooks : Advances(v)'
    BY <2>1, StampedAdvances, StampedOthers
  <2> QED BY <2>1, <2>2, <2>3, StampedJobs, StampedKeys, StampedBought DEF StampedInv
<1>2. CASE UNCHANGED <<rows, moved, ready, work, deaths, losses, unfit>>
  <2>1. \A w \in Hooks : Advances(w)' = Advances(w)
    BY <1>2 DEF Advances, Splitting, InGroup, Sold, rows
  <2>2. \A w \in Workers : Moving(w)' = Moving(w)
    BY <1>2 DEF Moving
  <2> QED BY <1>2, <2>1, <2>2 DEF StampedInv, Bought, rows
<1>3. World => UNCHANGED ready
  BY DEF World, Decline, Charge, RefundAtStripe, Dispute, CloseDispute, Release, AccountUpdated,
     Steady, money
<1> QED BY <1>1, <1>2, <1>3, WhoActs, WorldActs DEF vars, stripe, money, mishaps
\* What a refund under way knows of its rows, and has done about them.
Knows(w) ==
    /\ work[w].pc \in RefundSteps \cup {"next"} => work[w].todo \subseteq work[w].sent
    /\ work[w].pc \in RefundSteps => work[w].hand \subseteq work[w].sent
    /\ work[w].pc = "settle" => \A p \in work[w].hand : clawback[p] = "done" \/ work[w].owed

\* A refund knows the transfer of its row, reverses it, and whoever flips the row nets
\* what did not come back.
BackInv ==
    Steady /\ deaths = 0 /\ losses = 0 =>
        /\ \A w \in Workers : Knows(w)
        /\ \A p \in With("refunded") : Recovered(p) \/ \E w \in Workers : ToNet(w, p)

\* What the proof of BackInv knows of a step of worker w.
BackStepOf(w) ==
    /\ TypeOK /\ PlaceInv /\ LogInv /\ OrderInv /\ StampedInv /\ BackInv
    /\ Steady /\ deaths' = 0 /\ losses' = 0 /\ Acts(w)

\* At the start nothing is refunded.
LEMMA BackInit == Init => BackInv
<1> SUFFICES ASSUME Init PROVE BackInv
  OBVIOUS
<1>1. \A w \in Workers : Knows(w)
  BY DEF Init, Knows, Rest, RefundSteps
<1> QED BY <1>1 DEF Init, BackInv, With

\* The event of a refund is taken up when the delivery of the charge has stamped all.
LEMMA RefundedLate ==
  ASSUME NEW w \in Workers, BackStepOf(w), ReadCharge(w)
  PROVE  keyed \subseteq stamp
<1> USE DEF BackStepOf
<1>s. deaths = 0 /\ losses = 0 /\ WorkOK /\ keyed \subseteq Purchases
  BY Spared DEF TypeOK, RowsOK
<1>1. work[w].event = "refunded"
  BY <1>s, ReadChargeMoves, HandledEvent
<1>2. Begun("refunded") /\ "refunded" \in Emitted
  BY <1>1 DEF Begun, Busy, PlaceInv, InPlace
<1>3. "succeeded" \in Emitted /\ Earlier("succeeded", "refunded") /\ "refunded" \in Events
  BY <1>2 DEF LogInv, Earlier, Events
<1>4. ~Busy("succeeded")
  BY <1>2, <1>3 DEF OrderInv, Over, Steady
<1>5. \A v \in Workers : ~Moving(v)
  BY <1>4 DEF Moving, Busy, PlaceInv, InPlace, Role, Handling, Completing, Undoing, Taking, Closing
<1> QED BY <1>s, <1>5 DEF StampedInv

\* A share that came back stays back.
LEMMA DoneStays ==
  ASSUME TypeOK, NEW w \in Workers, Acts(w), ~ReverseLost(w), NEW p \in Purchases,
         clawback[p] = "done"
  PROVE  clawback'[p] = "done"
<1>1. CASE Reverse(w)
  <2> DEFINE q == CHOOSE x \in Purchases : x \in work[w].hand
  <2>1. PICK outcome \in {"done", "unfunded"} :
           clawback[q] \in {"none", outcome} /\ clawback' = [clawback EXCEPT ![q] = outcome]
    BY <1>1 DEF Reverse
  <2> HIDE DEF q
  <2> QED BY <2>1 DEF TypeOK, RowsOK
<1> QED BY <1>1, Writing DEF Writes, TypeOK

\* A refund has the transfer ids of the rows it has before it.
LEMMA KnowsSent ==
  ASSUME NEW w \in Workers, BackStepOf(w), work'[w].pc \in RefundSteps \cup {"next"}
  PROVE  /\ work'[w].todo \subseteq work'[w].sent
         /\ work'[w].pc \in RefundSteps => work'[w].hand \subseteq work'[w].sent
<1> USE DEF BackStepOf
<1>s. /\ deaths = 0 /\ losses = 0 /\ WorkOK
      /\ ~Die(w) /\ ~StampLost(w) /\ ~ReverseLost(w)
  BY Spared DEF TypeOK
<1>c. CameBy(w)
  BY Comes
<1>d. work'[w] # Rest
  BY DEF Rest, RefundSteps
<1>h. Knows(w)
  BY <1>s DEF BackInv
<1> DEFINE Kept == /\ work'[w].todo \subseteq work'[w].sent
                   /\ work'[w].pc \in RefundSteps => work'[w].hand \subseteq work'[w].sent
<1>1. ASSUME NEW q \in Purchases, AskRefund(w, q) PROVE Kept
  <2>1. q \in stamp
    BY <1>s, <1>1, AskRefundMoves DEF StampedInv, Bought
  <2> QED BY <1>s, <1>1, <2>1, AskRefundMoves
<1>2. CASE ReadCharge(w)
  BY <1>s, <1>2, RefundedLate, ReadChargeMoves DEF RefundSteps
<1>3. ASSUME work[w].pc \in RefundSteps, work'[w].sent = work[w].sent,
             work'[w].todo = work[w].todo, work'[w].hand = work[w].hand
      PROVE  Kept
  BY <1>h, <1>3 DEF Knows
<1>4. CASE IssueRefund(w) \/ ReadHold(w) \/ DropHold(w)
  BY <1>s, <1>3, <1>4, <1>d, IssueRefundMoves, ReadHoldMoves, DropHoldMoves DEF RefundSteps
<1>5. CASE NextRow(w)
  <2>1. work[w].todo \subseteq work[w].sent
    BY <1>s, <1>5, <1>h, NextRowMoves DEF Knows
  <2> QED BY <1>s, <1>5, <1>d, <2>1, NextRowMoves
<1>6. CASE NothingToReverse(w) \/ Reverse(w) \/ Settle(w) \/ NetRefund(w)
  BY <1>s, <1>3, <1>6, ClawMoves, SettleMoves, NetRefundMoves DEF RefundSteps
<1>7. CASE OweRefund(w) \/ Book(w)
  <2>1. work[w].pc \in RefundSteps
    BY <1>s, <1>7, OweRefundMoves, BookMoves DEF RefundSteps
  <2>2. ASSUME After(w) PROVE Kept
    <3>1. work[w].todo \subseteq work[w].sent
      BY <1>h, <2>1 DEF Knows
    <3> QED BY <1>s, <1>d, <2>2, <3>1, AfterMoves DEF RefundSteps
  <2> QED BY <1>s, <1>3, <1>7, <2>1, <2>2, OweRefundMoves, BookMoves
<1> QED BY <1>s, <1>c, <1>1, <1>2, <1>4, <1>5, <1>6, <1>7 DEF CameBy, RefundSteps

\* It settles a row when the share came back, or is owed.
LEMMA KnowsSettled ==
  ASSUME NEW w \in Workers, BackStepOf(w), work'[w].pc = "settle", NEW p \in work'[w].hand
  PROVE  clawback'[p] = "done" \/ work'[w].owed
<1> USE DEF BackStepOf
<1>s. /\ deaths = 0 /\ losses = 0 /\ WorkOK
      /\ ~Die(w) /\ ~StampLost(w) /\ ~ReverseLost(w)
  BY Spared DEF TypeOK
<1>c. ReadHold(w) \/ NothingToReverse(w) \/ Reverse(w)
  BY <1>s, Comes DEF CameBy
<1>h. Knows(w)
  BY <1>s DEF BackInv
<1>1. CASE ReadHold(w)
  BY <1>1, ReadHoldMoves DEF Steady
<1>2. CASE NothingToReverse(w) \/ Reverse(w)
  <2>1. work[w].pc = "claw" /\ work'[w].hand = work[w].hand
    BY <1>s, <1>2, ClawMoves
  <2>2. PICK q \in Purchases : work[w].hand = {q}
    BY <2>1 DEF PlaceInv, InPlace, OneRow, RefundSteps
  <2>3. ~NothingToReverse(w)
    BY <1>h, <2>1, <2>2 DEF Knows, RefundSteps, NothingToReverse
  <2>4. p = CHOOSE x \in Purchases : x \in work[w].hand
    BY <2>1, <2>2
  <2>5. PICK outcome \in {"done", "unfunded"} :
           /\ clawback' = [clawback EXCEPT ![p] = outcome]
           /\ Becomes(w, [work[w] EXCEPT !.owed = (outcome = "unfunded"), !.pc = "settle"])
    BY <1>2, <2>3, <2>4 DEF Reverse
  <2>6. work'[w] = [work[w] EXCEPT !.owed = (outcome = "unfunded"), !.pc = "settle"]
    BY <1>s, <2>5, Updated
  <2>7. work'[w].owed = (outcome = "unfunded")
    BY <1>s, <2>6 DEF WorkOK, IsWorker, Rest
  <2> QED BY <2>1, <2>2, <2>5, <2>7 DEF TypeOK, RowsOK
<1> QED BY <1>c, <1>1, <1>2

\* What a step of w leaves of what another refund knows.
LEMMA KnowsStays ==
  ASSUME NEW w \in Workers, BackStepOf(w), NEW v \in Workers, v # w
  PROVE  Knows(v)'
<1> USE DEF BackStepOf
<1>s. /\ deaths = 0 /\ losses = 0 /\ WorkOK
      /\ ~Die(w) /\ ~StampLost(w) /\ ~ReverseLost(w)
  BY Spared DEF TypeOK
<1>1. Knows(v) /\ work'[v] = work[v]
  BY <1>s, OthersRest DEF BackInv
<1>2. \A p \in work[v].hand : p \in Purchases
  BY <1>s DEF WorkOK, IsWorker
<1> QED BY <1>s, <1>1, <1>2, DoneStays DEF Knows

\* A refunded row is recovered, or about to be by who flipped it.
LEMMA BackSettled ==
  ASSUME NEW w \in Workers, BackStepOf(w), NEW p \in Purchases, status'[p] = "refunded"
  PROVE  Recovered(p)' \/ \E v \in Workers : ToNet(v, p)'
<1> USE DEF BackStepOf
<1>s. /\ deaths = 0 /\ losses = 0 /\ WorkOK
      /\ ~Die(w) /\ ~StampLost(w) /\ ~ReverseLost(w)
  BY Spared DEF TypeOK
<1>1. CASE status[p] # "refunded"
  <2>1. Settle(w) /\ status[p] = "completed" /\ p \in work[w].hand
    BY <1>1, RowMoves
  <2>2. work[w].pc = "settle" /\ UNCHANGED <<clawback, netting>>
    BY <1>s, <2>1, SettleMoves DEF Settle, tables, stripe, money
  <2>3. clawback[p] = "done" \/ work[w].owed
    BY <1>s, <2>1, <2>2 DEF BackInv, Knows
  <2>4. work'[w].first
    BY <1>s, <2>1, SettleMoves DEF With
  <2> QED BY <1>s, <2>1, <2>2, <2>3, <2>4, SettleMoves DEF ToNet, Recovered
<1>2. CASE status[p] = "refunded"
  <2>1. Recovered(p) \/ \E v \in Workers : ToNet(v, p)
    BY <1>s, <1>2 DEF BackInv, With
  <2>2. ASSUME NEW v \in Workers, ToNet(v, p) PROVE Recovered(p)' \/ ToNet(v, p)'
    <3>1. CASE v # w
      BY <1>s, <2>2, <3>1, OthersRest DEF ToNet
    <3>2. CASE v = w /\ OweRefund(w)
      BY <1>s, <2>2, <3>2, OweRefundMoves DEF ToNet
    <3>3. CASE v = w /\ NetRefund(w)
      <4> DEFINE n == [for |-> "refund", purchase |-> p, reversed |-> FALSE]
      <4>1. n \in netting'
        BY <2>2, <3>3 DEF NetRefund, ToNet
      <4> QED BY <4>1 DEF Recovered, NettingsOf
    <3> QED BY <1>s, <2>2, <3>1, <3>2, <3>3, Leaves DEF LeavesBy, ToNet
  <2> QED BY <1>s, <2>1, <2>2, RecoveredStays
<1> QED BY <1>1, <1>2

\* So BackInv is inductive.
LEMMA BackStep ==
  TypeOK /\ PlaceInv /\ LogInv /\ OrderInv /\ StampedInv /\ BackInv /\ [Next]_vars => BackInv'
<1> SUFFICES ASSUME TypeOK, PlaceInv, LogInv, OrderInv, StampedInv, BackInv, [Next]_vars,
                    Steady, deaths' = 0, losses' = 0
             PROVE  BackInv'
  BY DEF BackInv
<1>1. ASSUME NEW w \in Workers, Acts(w) PROVE BackInv'
  <2>1. BackStepOf(w)
    BY <1>1 DEF BackStepOf
  <2>2. Knows(w)'
    BY <2>1, KnowsSent, KnowsSettled DEF Knows
  <2>3. \A p \in With("refunded")' : p \in Purchases /\ status'[p] = "refunded"
    BY DEF With
  <2> QED BY <2>1, <2>2, <2>3, KnowsStays, BackSettled DEF BackInv
<1>2. CASE UNCHANGED <<rows, netting, clawback, work, deaths, losses>>
  BY <1>2 DEF BackInv, Knows, With, Recovered, NettingsOf, ToNet, rows
<1> QED BY <1>1, <1>2, WhoActs, WorldActs DEF vars, tables, stripe, money, mishaps

\* A refunded row was reversed or is netted also when its two doors overlap, the route
\* and the event of a refund at Stripe, with disputes and with accounts that cannot fund
\* a reversal: as long as nobody died, no answer was lost, events come in order and one
\* delivery of the charge is at work at a time.  What is bought is then stamped, so that a
\* refund never finds a row without its transfer.
THEOREM ShareRecoveredInOverlap ==
  ASSUME Steady
  PROVE  Spec => []ShareRecovered
<1>1. BackInv => ShareRecovered
  <2> SUFFICES ASSUME BackInv, Settled, deaths = 0, losses = 0, NEW p \in With("refunded")
               PROVE  Recovered(p)
    BY DEF ShareRecovered, Recovered
  <2>1. \A w \in Workers : ~ToNet(w, p)
    BY DEF Settled, ToNet, Rest
  <2> QED BY <2>1 DEF BackInv
<1> QED
  BY <1>1, TypeInit, TypeStep, PlaceInit, PlaceStep, AskedInit, AskedStep, LogInit, LogStep,
     OrderInit, OrderStep, KeyInit, KeyStep, FreshInit, FreshStep, WholeInit, WholeStep,
     StampedInit, StampedStep, BackInit, BackStep, PTL DEF Spec
=============================================================================
