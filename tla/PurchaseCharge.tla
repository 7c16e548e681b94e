----------------------------- MODULE PurchaseCharge -----------------------------
(***************************************************************************)
(* One charge and the purchases it paid for, from the open Checkout        *)
(* Session to the refund or the chargeback: the webhook of                 *)
(* routes/payments.ts, the split and its retry (services/purchase-split),  *)
(* the refund route (services/refunds) and the dispute record              *)
(* (services/disputes), with the rows of the netting ledger they write.    *)
(*                                                                         *)
(* Webhook deliveries, refund requests and the retry job are workers.  A   *)
(* worker keeps what it read in work[w] and runs one statement or one      *)
(* Stripe call per step; only Hooks deliver events, only Routes refund,    *)
(* only Jobs retry.  Nothing is transactional across steps, and a worker   *)
(* that dies forgets everything.                                           *)
(*                                                                         *)
(* Stripe is what it has accepted: the charge, one transfer per creator    *)
(* (its idempotency key names the charge and the creator), one reversal    *)
(* and one refund per purchase, a dispute, and the events it has emitted.  *)
(* What the release of a held sale credit takes is CreatorTransfers; here  *)
(* it is one step of the environment.                                      *)
(***************************************************************************)
EXTENDS Integers, Sequences, FiniteSets, FiniteSetsExt

CONSTANTS
    Purchases,   \* ids of the purchase rows of the charge
    Goods,       \* the physical ones, whose share is held until the parcel lands
    Creators,
    CreatorOf,   \* who sold each purchase
    Earnings,    \* what the creator gets for each, in cents
    Hooks,       \* webhook deliveries that may run at the same time
    Routes,      \* refund requests that may run at the same time
    Jobs,        \* runs of the retry job that may overlap
    May,         \* what the environment may do: a set of Disturbances
    MaxDeaths,   \* bound: workers that die half-way
    MaxLosses    \* bound: answers of Stripe that are lost

Disturbances == {"overlap", "reorder", "duplicate", "decline", "restrict",
                 "underfund", "refund", "dashboard", "dispute", "unfit"}

Workers == Hooks \cup Routes \cup Jobs

None == 0

Events == {"failed", "succeeded", "refunded", "created", "closed"}

NettingRow == [for : {"refund", "dispute"}, purchase : Purchases, reversed : BOOLEAN]

DisputeRow == [known : BOOLEAN, purchase : Purchases \cup {None},
               outcome : {"none", "open", "won", "lost"}]

ASSUME RowsAssumption ==
    /\ Purchases \subseteq Nat \ {None} /\ IsFiniteSet(Purchases)
    /\ Goods \subseteq Purchases
    /\ CreatorOf \in [Purchases -> Creators]
    /\ Earnings \in [Purchases -> Nat \ {0}]

ASSUME WorkersAssumption ==
    /\ Hooks \cap Routes = {} /\ Hooks \cap Jobs = {} /\ Routes \cap Jobs = {}
    /\ May \subseteq Disturbances
    /\ MaxDeaths \in Nat /\ MaxLosses \in Nat

VARIABLES
    \* purchases
    keyed,       \* the rows keyed by the PaymentIntent; the others by the session
    status,
    stamp,       \* the rows whose stripe_transfer_id is set
    \* the other tables
    saleCredit,  \* creator_credits of the goods: none, held, or released
    shipment,    \* the goods that have a shipment
    receipts,    \* purchase_receipts, as <<purchase, kind>>
    netting,     \* creator_nettings
    shortfall,   \* how often the refund of a row was booked
    disputeRow,  \* the disputes row, if any
    \* Stripe and the connected accounts
    log,         \* the events emitted, in order
    acked,       \* the events a delivery has answered 200 to
    moved,       \* what each creator's transfer carried
    clawback,    \* the reversal under each purchase's key
    refunded,    \* the purchases refunded under their own key
    dashboard,   \* an operator refunded the whole charge
    dispute,
    goodsPaid,   \* the goods whose share reached its creator
    ready,       \* the creators whose account can take a transfer
    \* workers
    work,
    deaths,
    losses,
    unfit        \* no session, or no US address: the completion refuses the charge

rows == <<keyed, status, stamp>>
tables == <<saleCredit, shipment, receipts, netting, shortfall, disputeRow>>
money == <<moved, clawback, refunded, dashboard, dispute, goodsPaid, ready>>
stripe == <<log, acked, money>>
mishaps == <<deaths, losses, unfit>>
vars == <<rows, tables, stripe, work, mishaps>>

\* What a worker holds: where it is and on whose behalf, the rows it read, those
\* it has yet to treat, those in hand, those it saw a transfer id on, whether the
\* share it asked back is still with the creator, and whether it flipped the row.
Rest == [pc |-> "rest", event |-> "none", read |-> {}, todo |-> {}, hand |-> {},
         sent |-> {}, owed |-> FALSE, first |-> FALSE]

Init ==
    /\ keyed = {}
    /\ status = [p \in Purchases |-> "pending"]
    /\ stamp = {}
    /\ saleCredit = [p \in Goods |-> "none"]
    /\ shipment = {} /\ receipts = {} /\ netting = {}
    /\ shortfall = [p \in Purchases |-> 0]
    /\ disputeRow = [known |-> FALSE, purchase |-> None, outcome |-> "none"]
    /\ log = <<>> /\ acked = {}
    /\ moved = [k \in Creators |-> {}]
    /\ clawback = [p \in Purchases |-> "none"]
    /\ refunded = {} /\ dashboard = FALSE /\ dispute = "none" /\ goodsPaid = {}
    /\ ready = Creators
    /\ work = [w \in Workers |-> Rest]
    /\ deaths = 0 /\ losses = 0
    /\ unfit \in IF "unfit" \in May THEN BOOLEAN ELSE {FALSE}
-----------------------------------------------------------------------------
Emitted == {log[i] : i \in DOMAIN log}

With(s) == {p \in Purchases : status[p] = s}

Sold(k) == {p \in Purchases : CreatorOf[p] = k}

\* decimal.js sums the rows' earnings; the call carries the sum.
Amount(S) == MapThenSumSet(LAMBDA p : Earnings[p], S)

\* Worker w is in another state, is elsewhere, or is done.
Becomes(w, state) == work' = [work EXCEPT ![w] = state]
Go(w, pc) == Becomes(w, [work[w] EXCEPT !.pc = pc])
Leave(w) == Becomes(w, Rest)

At(w, pc) == work[w].pc = pc

Alone(w) == "overlap" \in May \/ \A v \in Workers : v # w => work[v] = Rest

-----------------------------------------------------------------------------
(* Deliveries.                                                             *)

\* Stripe delivers an event until it is answered.  In order, and once, unless
\* May says otherwise; nothing in the handler remembers an event id.
Deliver(w, i) ==
    /\ work[w] = Rest /\ Alone(w)
    /\ LET e == log[i]
           Busy(d) == \E v \in Hooks : work[v].event = d
       IN  /\ "duplicate" \in May \/ (e \notin acked /\ ~Busy(e))
           /\ "reorder" \in May \/ \A j \in DOMAIN log : j # i =>
                 IF j < i THEN log[j] \in acked /\ ~Busy(log[j])
                          ELSE log[j] \notin acked /\ ~Busy(log[j])
           /\ Becomes(w, [work[w] EXCEPT !.pc = e, !.event = e])
    /\ UNCHANGED <<rows, tables, stripe, mishaps>>

\* The handler ran to its end and answered.
Answer(w) ==
    /\ acked' = acked \cup {work[w].event}
    /\ Leave(w)

\* The rows the session is found to have: none where the completion refuses it
\* (no session is listed for the intent, or its address is not in the US).
Found == IF unfit THEN {} ELSE With("pending") \ keyed

\* Mutated form of ReadSession: the first row found stands for the charge.
ReadFirstOfSession(w) ==
    /\ At(w, "succeeded")
    /\ LET found == Found IN
         \E some \in {S \in SUBSET found : Cardinality(S) = (IF found = {} THEN 0 ELSE 1)} :
            Becomes(w, [work[w] EXCEPT !.pc = IF found = {} THEN "complete" ELSE "key",
                                       !.read = some, !.todo = some])
    /\ UNCHANGED <<rows, tables, stripe, mishaps>>

\* Mutated form of ReadSession: a session without pending rows was done before.
ReadOrAnswer(w) ==
    /\ At(w, "succeeded")
    /\ LET found == Found IN
         IF found = {}
           THEN acked' = acked \cup {work[w].event} /\ Leave(w)
           ELSE /\ Becomes(w, [work[w] EXCEPT !.pc = "key", !.read = found,
                                              !.todo = found])
                /\ UNCHANGED acked
    /\ UNCHANGED <<rows, tables, log, money, mishaps>>

\* payment_intent.succeeded: the rows still pending under the session.  A refusal
\* only returns: the handler goes on, finds no row under the intent and answers.
ReadSession(w) ==
    /\ At(w, "succeeded")
    /\ LET found == Found IN
         Becomes(w, [work[w] EXCEPT !.pc = IF found = {} THEN "complete" ELSE "key",
                                    !.read = found, !.todo = found])
    /\ UNCHANGED <<rows, tables, stripe, mishaps>>

\* The rows move onto the PaymentIntent one statement at a time; only a pending
\* row moves.
Key(w) ==
    /\ At(w, "key")
    /\ \E p \in work[w].todo :
         /\ keyed' = IF status[p] = "pending" THEN keyed \cup {p} ELSE keyed
         /\ Becomes(w, [work[w] EXCEPT !.todo = @ \ {p},
                                       !.pc = IF work[w].todo = {p} THEN "group" ELSE @])
    /\ UNCHANGED <<status, stamp, tables, stripe, mishaps>>

\* splitChargeToCreators groups what was read; goods stay out of the groups.
Group(w) ==
    /\ At(w, "group")
    /\ Becomes(w, [work[w] EXCEPT !.pc = "split", !.todo = work[w].read \ Goods])
    /\ UNCHANGED <<rows, tables, stripe, mishaps>>

\* One group of rows of the same creator, of the groups that are left.
InGroup(w, k) == work[w].todo \cap Sold(k)

\* transferCreatorShare gives up on the account; the retry job owns the debt.
SkipCreator(w, k) ==
    /\ At(w, "split") /\ InGroup(w, k) # {}
    /\ k \notin ready
    /\ Becomes(w, [work[w] EXCEPT !.todo = @ \ Sold(k)])
    /\ UNCHANGED <<rows, tables, stripe, mishaps>>

\* The call goes out under the key of the charge and the creator.  A new key
\* moves the group's earnings, a used one replays if the amount is the same.
Transfer(w, k) ==
    /\ At(w, "split") /\ InGroup(w, k) # {}
    /\ k \in ready
    /\ moved[k] = {} \/ Amount(moved[k]) = Amount(InGroup(w, k))
    /\ moved' = [moved EXCEPT ![k] = IF @ = {} THEN InGroup(w, k) ELSE @]
    /\ Becomes(w, [work[w] EXCEPT !.pc = "stamp", !.hand = InGroup(w, k)])
    /\ UNCHANGED <<rows, tables, log, acked, clawback, refunded, dashboard, dispute,
                   goodsPaid, ready, mishaps>>

\* A used key with another amount is an error, which is caught and logged.
KeyRefused(w, k) ==
    /\ At(w, "split") /\ InGroup(w, k) # {}
    /\ k \in ready
    /\ moved[k] # {} /\ Amount(moved[k]) # Amount(InGroup(w, k))
    /\ Becomes(w, [work[w] EXCEPT !.todo = @ \ Sold(k)])
    /\ UNCHANGED <<rows, tables, stripe, mishaps>>

\* The update names the rows by id, whatever has become of them.
Stamp(w) ==
    /\ At(w, "stamp")
    /\ stamp' = stamp \cup work[w].hand
    /\ Becomes(w, [work[w] EXCEPT !.pc = "split", !.todo = @ \ work[w].hand,
                                  !.hand = {}])
    /\ UNCHANGED <<keyed, status, tables, stripe, mishaps>>

\* The answer of the call is lost, or the stamp throws: caught, logged, skipped.
StampLost(w) ==
    /\ At(w, "stamp")
    /\ losses < MaxLosses
    /\ losses' = losses + 1
    /\ Becomes(w, [work[w] EXCEPT !.pc = "split", !.todo = @ \ work[w].hand,
                                  !.hand = {}])
    /\ UNCHANGED <<rows, tables, stripe, deaths, unfit>>

\* The groups are done: the job ends, the delivery goes on to the goods.
SplitDone(w) ==
    /\ At(w, "split") /\ work[w].todo = {}
    /\ IF w \in Jobs THEN Leave(w)
                      ELSE Becomes(w, [work[w] EXCEPT !.pc = "credit",
                                                      !.todo = work[w].read \cap Goods])
    /\ UNCHANGED <<rows, tables, stripe, mishaps>>

\* Mutated form of CreditGoods: every row of the charge gets a shipment.
CreditThenShipAll(w) ==
    /\ At(w, "credit")
    /\ \/ \E p \in work[w].todo :
            /\ saleCredit' = [saleCredit EXCEPT ![p] = IF @ = "none" THEN "held" ELSE @]
            /\ Becomes(w, [work[w] EXCEPT !.todo = @ \ {p}])
       \/ /\ work[w].todo = {}
          /\ UNCHANGED saleCredit
          /\ Becomes(w, [work[w] EXCEPT !.pc = "ship", !.todo = work[w].read])
    /\ UNCHANGED <<rows, shipment, receipts, netting, shortfall, disputeRow, stripe, mishaps>>

\* Mutated form of CreditGoods: an account that cannot take a transfer is not
\* credited either.
CreditIfReady(w) ==
    /\ At(w, "credit")
    /\ \/ \E p \in work[w].todo :
            /\ saleCredit' = [saleCredit EXCEPT
                  ![p] = IF @ = "none" /\ CreatorOf[p] \in ready THEN "held" ELSE @]
            /\ Becomes(w, [work[w] EXCEPT !.todo = @ \ {p}])
       \/ /\ work[w].todo = {}
          /\ UNCHANGED saleCredit
          /\ Becomes(w, [work[w] EXCEPT !.pc = "ship",
                                        !.todo = work[w].read \cap Goods])
    /\ UNCHANGED <<rows, shipment, receipts, netting, shortfall, disputeRow, stripe, mishaps>>

\* creditGoodsSales: one insert per good, none where the purchase has a credit.
CreditGoods(w) ==
    /\ At(w, "credit")
    /\ \/ \E p \in work[w].todo :
            /\ saleCredit' = [saleCredit EXCEPT ![p] = IF @ = "none" THEN "held" ELSE @]
            /\ Becomes(w, [work[w] EXCEPT !.todo = @ \ {p}])
       \/ /\ work[w].todo = {}
          /\ UNCHANGED saleCredit
          /\ Becomes(w, [work[w] EXCEPT !.pc = "ship",
                                        !.todo = work[w].read \cap Goods])
    /\ UNCHANGED <<rows, shipment, receipts, netting, shortfall, disputeRow, stripe, mishaps>>

\* createShipmentForPurchase: one insert per good, idempotent on the purchase.  With
\* the last, completeSessionPurchases returns and its rows are forgotten.
Ship(w) ==
    /\ At(w, "ship")
    /\ \/ \E p \in work[w].todo :
            /\ shipment' = shipment \cup {p}
            /\ Becomes(w, [work[w] EXCEPT !.todo = @ \ {p}])
       \/ /\ work[w].todo = {}
          /\ Becomes(w, [work[w] EXCEPT !.pc = "complete", !.read = {}])
          /\ UNCHANGED shipment
    /\ UNCHANGED <<rows, saleCredit, receipts, netting, shortfall, disputeRow, stripe, mishaps>>

\* Mutated form of Complete: the rows it flipped are owed a receipt, no others.
CompleteAndReuse(w) ==
    /\ At(w, "complete")
    /\ LET flip == keyed \cap With("pending") IN
         /\ status' = [p \in Purchases |-> IF p \in flip THEN "completed" ELSE status[p]]
         /\ Becomes(w, [work[w] EXCEPT !.pc = "receipt", !.todo = flip])
    /\ UNCHANGED <<keyed, stamp, tables, stripe, mishaps>>

\* One statement completes every pending row of the intent.
Complete(w) ==
    /\ At(w, "complete")
    /\ status' = [p \in Purchases |->
                     IF p \in keyed /\ status[p] = "pending" THEN "completed" ELSE status[p]]
    /\ Go(w, "settled")
    /\ UNCHANGED <<keyed, stamp, tables, stripe, mishaps>>

\* The rows of the intent that are completed by now, whoever completed them.
ReadSettled(w) ==
    /\ At(w, "settled")
    /\ Becomes(w, [work[w] EXCEPT !.pc = "receipt", !.todo = With("completed") \cap keyed])
    /\ UNCHANGED <<rows, tables, stripe, mishaps>>

\* oweAccessReceipt, one insert per row; then the answer.
OweReceipts(w) ==
    /\ At(w, "receipt")
    /\ \/ \E p \in work[w].todo :
            /\ receipts' = receipts \cup {<<p, "purchase">>}
            /\ Becomes(w, [work[w] EXCEPT !.todo = @ \ {p}])
            /\ UNCHANGED acked
       \/ work[w].todo = {} /\ Answer(w) /\ UNCHANGED receipts
    /\ UNCHANGED <<rows, saleCredit, shipment, netting, shortfall, disputeRow, log, money, mishaps>>

\* payment_intent.payment_failed
Fail(w) ==
    /\ At(w, "failed")
    /\ status' = [p \in Purchases |->
                     IF p \in keyed /\ status[p] = "pending" THEN "failed" ELSE status[p]]
    /\ Answer(w)
    /\ UNCHANGED <<keyed, stamp, tables, log, money, mishaps>>

\* Mutated form of ReadDebts: the goods are not left out.
ReadAllDebts(w) ==
    /\ w \in Jobs /\ work[w] = Rest /\ Alone(w)
    /\ LET debts == (With("completed") \cap keyed) \ stamp IN
         /\ debts # {}
         /\ Becomes(w, [work[w] EXCEPT !.pc = "split", !.todo = debts])
    /\ UNCHANGED <<rows, tables, stripe, mishaps>>

\* Mutated form of ReadDebts: only what the latest delivery left behind.
ReadFreshDebts(w) ==
    /\ w \in Jobs /\ work[w] = Rest /\ Alone(w)
    /\ "succeeded" \notin acked
    /\ LET debts == (With("completed") \cap keyed) \ (stamp \cup Goods) IN
         /\ debts # {}
         /\ Becomes(w, [work[w] EXCEPT !.pc = "split", !.todo = debts])
    /\ UNCHANGED <<rows, tables, stripe, mishaps>>

\* retryFailedTransfers: the completed rows without a transfer.  A row still
\* keyed by its session is skipped.
ReadDebts(w) ==
    /\ w \in Jobs /\ work[w] = Rest /\ Alone(w)
    /\ LET debts == (With("completed") \cap keyed) \ (stamp \cup Goods) IN
         /\ debts # {}
         /\ Becomes(w, [work[w] EXCEPT !.pc = "split", !.todo = debts])
    /\ UNCHANGED <<rows, tables, stripe, mishaps>>

-----------------------------------------------------------------------------
(* Refunds: the route's, and the webhook's after one at Stripe.            *)

\* The buyer asks.  The route loads the row once; a row that is not completed is
\* answered without a change.
AskRefund(w, p) ==
    /\ "refund" \in May
    /\ w \in Routes /\ work[w] = Rest /\ Alone(w)
    /\ status[p] = "completed"
    /\ Becomes(w, [work[w] EXCEPT !.pc = "refund", !.hand = {p}, !.todo = {p},
                                  !.sent = stamp \cap {p}])
    /\ UNCHANGED <<rows, tables, stripe, mishaps>>

\* refunds.create under the purchase's key.  Stripe refuses what it no longer
\* has; the refund that empties the charge emits charge.refunded.
IssueRefund(w) ==
    /\ At(w, "refund")
    /\ LET p == CHOOSE q \in Purchases : q \in work[w].hand IN
       \/ /\ p \in refunded \/ (~dashboard /\ dispute \notin {"open", "lost"})
          /\ refunded' = refunded \cup {p}
          /\ log' = IF refunded' = Purchases /\ "refunded" \notin Emitted
                      THEN Append(log, "refunded") ELSE log
          /\ Go(w, "hold")
       \/ /\ p \notin refunded /\ (dashboard \/ dispute \in {"open", "lost"})
          /\ UNCHANGED <<refunded, log>>
          /\ Leave(w)
    /\ UNCHANGED <<rows, tables, acked, moved, clawback, dashboard, dispute, goodsPaid,
                   ready, mishaps>>

\* Mutated form of ReadHold: a parcel that left counts as a credit that did.
ReadHoldByParcel(w) ==
    /\ At(w, "hold")
    /\ LET p == CHOOSE q \in Purchases : q \in work[w].hand
           state == IF p \in shipment THEN "released"
                    ELSE IF p \in Goods THEN saleCredit[p] ELSE "none"
       IN  Becomes(w, [work[w] EXCEPT !.owed = (state = "released"),
                                      !.pc = CASE state = "none"     -> "claw"
                                 [] state = "held"     -> "drop"
                                 [] state = "released" -> "settle"])
    /\ UNCHANGED <<rows, tables, stripe, mishaps>>

\* Mutated form of ReadHold: the reversal is not told of a released credit.
ReadHoldForgetful(w) ==
    /\ At(w, "hold")
    /\ LET p == CHOOSE q \in Purchases : q \in work[w].hand
           state == IF p \in Goods THEN saleCredit[p] ELSE "none"
       IN  Go(w, IF state = "held" THEN "drop" ELSE "claw")
    /\ UNCHANGED <<rows, tables, stripe, mishaps>>

\* settleSaleCreditOnRefund reads the credit and its coverage.
ReadHold(w) ==
    /\ At(w, "hold")
    /\ LET p == CHOOSE q \in Purchases : q \in work[w].hand
           state == IF p \in Goods THEN saleCredit[p] ELSE "none"
       IN  Becomes(w, [work[w] EXCEPT !.owed = (state = "released"),
                                      !.pc = CASE state = "none"     -> "claw"
                                 [] state = "held"     -> "drop"
                                 [] state = "released" -> "settle"])
    /\ UNCHANGED <<rows, tables, stripe, mishaps>>

\* The delete of the credit, a statement of its own.
DropHold(w) ==
    /\ At(w, "drop")
    /\ saleCredit' = [p \in Goods |-> IF p \in work[w].hand THEN "none" ELSE saleCredit[p]]
    /\ Go(w, "claw")
    /\ UNCHANGED <<rows, shipment, receipts, netting, shortfall, disputeRow, stripe, mishaps>>

\* charge.refunded reads every row of the intent.
ReadCharge(w) ==
    /\ At(w, "refunded")
    /\ Becomes(w, [work[w] EXCEPT !.pc = "next", !.todo = keyed, !.sent = stamp])
    /\ UNCHANGED <<rows, tables, stripe, mishaps>>

\* The next row of the charge, or the answer.
NextRow(w) ==
    /\ At(w, "next")
    /\ \/ /\ \E p \in work[w].todo :
              Becomes(w, [work[w] EXCEPT !.pc = "claw", !.hand = {p},
                                         !.owed = FALSE, !.first = FALSE])
          /\ UNCHANGED acked
       \/ work[w].todo = {} /\ Answer(w)
    /\ UNCHANGED <<rows, tables, log, money, mishaps>>

\* reverseCreatorShare goes by the transfer id the worker read.  Without one
\* nothing was paid.
NothingToReverse(w) ==
    /\ At(w, "claw") /\ work[w].hand \cap work[w].sent = {}
    /\ Becomes(w, [work[w] EXCEPT !.owed = FALSE, !.pc = "settle"])
    /\ UNCHANGED <<rows, tables, stripe, mishaps>>

\* Mutated form of Reverse: a throw reads as a share that was never paid.
ReverseOrForget(w) ==
    /\ At(w, "claw") /\ work[w].hand \cap work[w].sent # {}
    /\ LET p == CHOOSE q \in Purchases : q \in work[w].hand IN
         \E outcome \in {"done"} \cup (IF "underfund" \in May THEN {"unfunded"} ELSE {}) :
            /\ clawback[p] \in {"none", outcome}
            /\ clawback' = [clawback EXCEPT ![p] = outcome]
            /\ Becomes(w, [work[w] EXCEPT !.owed = FALSE, !.pc = "settle"])
    /\ UNCHANGED <<rows, tables, log, acked, moved, refunded, dashboard, dispute, goodsPaid,
                   ready, mishaps>>

\* The reversal under the purchase's key: it comes back, or the account cannot
\* fund it.  A used key replays its first answer.
Reverse(w) ==
    /\ At(w, "claw") /\ work[w].hand \cap work[w].sent # {}
    /\ LET p == CHOOSE q \in Purchases : q \in work[w].hand IN
         \E outcome \in {"done"} \cup (IF "underfund" \in May THEN {"unfunded"} ELSE {}) :
            /\ clawback[p] \in {"none", outcome}
            /\ clawback' = [clawback EXCEPT ![p] = outcome]
            /\ Becomes(w, [work[w] EXCEPT !.owed = (outcome = "unfunded"),
                                          !.pc = "settle"])
    /\ UNCHANGED <<rows, tables, log, acked, moved, refunded, dashboard, dispute, goodsPaid,
                   ready, mishaps>>

\* The reversal is made and its answer lost: any throw reads as unfunded.
ReverseLost(w) ==
    /\ At(w, "claw") /\ work[w].hand \cap work[w].sent # {}
    /\ losses < MaxLosses
    /\ losses' = losses + 1
    /\ LET p == CHOOSE q \in Purchases : q \in work[w].hand IN
         clawback' = [clawback EXCEPT ![p] = IF @ = "none" THEN "done" ELSE @]
    /\ Becomes(w, [work[w] EXCEPT !.owed = TRUE, !.pc = "settle"])
    /\ UNCHANGED <<rows, tables, log, acked, moved, refunded, dashboard, dispute, goodsPaid,
                   ready, deaths, unfit>>

\* settleRefundedPurchase: only a completed row is flipped, and only who flipped
\* it goes on to the books.
Settle(w) ==
    /\ At(w, "settle")
    /\ LET flip == work[w].hand \cap With("completed") IN
         /\ status' = [p \in Purchases |-> IF p \in flip THEN "refunded" ELSE status[p]]
         /\ Becomes(w, [work[w] EXCEPT !.first = (flip # {}), !.pc = "owe"])
    /\ UNCHANGED <<keyed, stamp, tables, stripe, mishaps>>

\* A refund is over: the route ends, the delivery takes the next row.
After(w) ==
    IF w \in Routes THEN Leave(w)
    ELSE Becomes(w, [work[w] EXCEPT !.todo = @ \ work[w].hand, !.hand = {},
                                    !.pc = "next"])

\* Mutated form of OweRefund: whoever settles the row goes on to the books.
OweRefundThenBook(w) ==
    /\ At(w, "owe")
    /\ receipts' = receipts \cup {<<p, "refund">> : p \in work[w].hand}
    /\ Go(w, "net")
    /\ UNCHANGED <<rows, saleCredit, shipment, netting, shortfall, disputeRow, stripe, mishaps>>

\* oweAccessReceipt, whoever flipped the row.
OweRefund(w) ==
    /\ At(w, "owe")
    /\ receipts' = receipts \cup {<<p, "refund">> : p \in work[w].hand}
    /\ IF work[w].first THEN Go(w, "net") ELSE After(w)
    /\ UNCHANGED <<rows, saleCredit, shipment, netting, shortfall, disputeRow, stripe, mishaps>>

\* Mutated form of NetRefund: a share that was paid is netted, reversed or not.
NetPaid(w) ==
    /\ At(w, "net")
    /\ netting' = netting \cup {[for |-> "refund", purchase |-> p, reversed |-> FALSE] :
                                  p \in work[w].hand \cap work[w].sent}
    /\ Go(w, "book")
    /\ UNCHANGED <<rows, saleCredit, shipment, receipts, shortfall, disputeRow, stripe, mishaps>>

\* recordNettingForRefund, when the share left and did not come back.
NetRefund(w) ==
    /\ At(w, "net")
    /\ netting' = IF work[w].owed
                    THEN netting \cup {[for |-> "refund", purchase |-> p, reversed |-> FALSE] :
                                         p \in work[w].hand}
                    ELSE netting
    /\ Go(w, "book")
    /\ UNCHANGED <<rows, saleCredit, shipment, receipts, shortfall, disputeRow, stripe, mishaps>>

\* The shortfall goes to the charitable ledger, which has no unique index.
Book(w) ==
    /\ At(w, "book")
    /\ shortfall' = [p \in Purchases |-> IF p \in work[w].hand THEN shortfall[p] + 1
                                          ELSE shortfall[p]]
    /\ After(w)
    /\ UNCHANGED <<rows, saleCredit, shipment, receipts, netting, disputeRow, stripe, mishaps>>

-----------------------------------------------------------------------------
(* Disputes.                                                               *)

\* recordDisputeCreated reads the rows of the intent; the first one names the
\* purchase of the disputes row, and no order is asked for.
ReadDisputed(w) ==
    /\ At(w, "created")
    /\ Becomes(w, [work[w] EXCEPT !.pc = "insert", !.read = keyed])
    /\ UNCHANGED <<rows, tables, stripe, mishaps>>

InsertDispute(w) ==
    /\ At(w, "insert")
    /\ IF disputeRow.known THEN UNCHANGED disputeRow
       ELSE \E p \in (IF work[w].read = {} THEN {None} ELSE work[w].read) :
              disputeRow' = [known |-> TRUE, purchase |-> p, outcome |-> "none"]
    /\ Go(w, IF work[w].read = {} THEN "net dispute" ELSE "flip")
    /\ UNCHANGED <<rows, saleCredit, shipment, receipts, netting, shortfall, stripe, mishaps>>

\* Mutated form of FlipDisputed: only the row the dispute names.
FlipNamed(w) ==
    /\ At(w, "flip")
    /\ status' = [p \in Purchases |->
                     IF p = disputeRow.purchase /\ status[p] = "completed" THEN "disputed"
                     ELSE status[p]]
    /\ Go(w, "net dispute")
    /\ UNCHANGED <<keyed, stamp, tables, stripe, mishaps>>

\* Every completed row of the intent is disputed, whatever the row says.
FlipDisputed(w) ==
    /\ At(w, "flip")
    /\ status' = [p \in Purchases |->
                     IF p \in keyed /\ status[p] = "completed" THEN "disputed" ELSE status[p]]
    /\ Go(w, "net dispute")
    /\ UNCHANGED <<keyed, stamp, tables, stripe, mishaps>>

\* recordNettingForDispute: one netting per dispute, for the purchase its row
\* names.
NetDispute(w) ==
    /\ At(w, "net dispute")
    /\ netting' = IF disputeRow.purchase = None \/ \E n \in netting : n.for = "dispute"
                    THEN netting
                    ELSE netting \cup {[for |-> "dispute", purchase |-> disputeRow.purchase,
                                        reversed |-> FALSE]}
    /\ Answer(w)
    /\ UNCHANGED <<rows, saleCredit, shipment, receipts, shortfall, disputeRow, log, money, mishaps>>

\* recordDisputeClosed: the row is updated, or written without its purchase.
UpsertDispute(w) ==
    /\ At(w, "closed")
    /\ disputeRow' = [known |-> TRUE, purchase |-> disputeRow.purchase, outcome |-> dispute]
    /\ IF dispute = "won" THEN Go(w, "restore") /\ UNCHANGED acked ELSE Answer(w)
    /\ UNCHANGED <<rows, saleCredit, shipment, receipts, netting, shortfall, log, money, mishaps>>

RestoreDisputed(w) ==
    /\ At(w, "restore")
    /\ status' = [p \in Purchases |->
                     IF p \in keyed /\ status[p] = "disputed" THEN "completed" ELSE status[p]]
    /\ Go(w, "cancel")
    /\ UNCHANGED <<keyed, stamp, tables, stripe, mishaps>>

\* reverseNettingForWonDispute
CancelNetting(w) ==
    /\ At(w, "cancel")
    /\ netting' = {IF n.for = "dispute" THEN [n EXCEPT !.reversed = TRUE] ELSE n : n \in netting}
    /\ Answer(w)
    /\ UNCHANGED <<rows, saleCredit, shipment, receipts, shortfall, disputeRow, log, money, mishaps>>

-----------------------------------------------------------------------------
(* The world.                                                              *)

Emit(e) == log' = Append(log, e)

\* The buyer's card is declined once before it is charged.
Decline ==
    /\ "decline" \in May /\ log = <<>>
    /\ Emit("failed")
    /\ UNCHANGED <<rows, tables, acked, money, work, mishaps>>

Charge ==
    /\ "succeeded" \notin Emitted
    /\ Emit("succeeded")
    /\ UNCHANGED <<rows, tables, acked, money, work, mishaps>>

\* An operator refunds the whole charge in Stripe's dashboard.
RefundAtStripe ==
    /\ "dashboard" \in May
    /\ "succeeded" \in Emitted /\ "refunded" \notin Emitted
    /\ dispute \notin {"open", "lost"}
    /\ dashboard' = TRUE
    /\ Emit("refunded")
    /\ UNCHANGED <<rows, tables, acked, moved, clawback, refunded, dispute, goodsPaid,
                   ready, work, mishaps>>

\* The cardholder's bank takes the charge back, and later decides.
Dispute ==
    /\ "dispute" \in May
    /\ "succeeded" \in Emitted /\ dispute = "none" /\ ~dashboard /\ refunded # Purchases
    /\ dispute' = "open"
    /\ Emit("created")
    /\ UNCHANGED <<rows, tables, acked, moved, clawback, refunded, dashboard, goodsPaid,
                   ready, work, mishaps>>

CloseDispute(outcome) ==
    /\ dispute = "open"
    /\ dispute' = outcome
    /\ Emit("closed")
    /\ UNCHANGED <<rows, tables, acked, moved, clawback, refunded, dashboard, goodsPaid,
                   ready, work, mishaps>>

\* The parcel landed and its window closed, and the transfer job moved the credit.
Release(p) ==
    /\ saleCredit[p] = "held" /\ p \in shipment
    /\ "overlap" \in May \/ \A w \in Workers : work[w] = Rest
    /\ saleCredit' = [saleCredit EXCEPT ![p] = "released"]
    /\ goodsPaid' = goodsPaid \cup {p}
    /\ UNCHANGED <<rows, shipment, receipts, netting, shortfall, disputeRow, log, acked, moved,
                   clawback, refunded, dashboard, dispute, ready, work, mishaps>>

\* account.updated
AccountUpdated(k) ==
    /\ "restrict" \in May
    /\ ready' = IF k \in ready THEN ready \ {k} ELSE ready \cup {k}
    /\ UNCHANGED <<rows, tables, log, acked, moved, clawback, refunded, dashboard, dispute,
                   goodsPaid, work, mishaps>>

\* A worker dies, or one of its statements throws.
Die(w) ==
    /\ work[w] # Rest /\ deaths < MaxDeaths
    /\ deaths' = deaths + 1
    /\ Leave(w)
    /\ UNCHANGED <<rows, tables, stripe, losses, unfit>>

-----------------------------------------------------------------------------
Completion(w) ==
    \/ ReadSession(w) \/ Key(w) \/ Group(w) \/ SplitDone(w) \/ CreditGoods(w) \/ Ship(w)
    \/ Complete(w) \/ ReadSettled(w) \/ OweReceipts(w) \/ Fail(w)
    \/ \E k \in Creators : SkipCreator(w, k) \/ Transfer(w, k) \/ KeyRefused(w, k)
    \/ Stamp(w)

Refunding(w) ==
    \/ IssueRefund(w) \/ ReadHold(w) \/ DropHold(w) \/ ReadCharge(w) \/ NextRow(w)
    \/ NothingToReverse(w) \/ Reverse(w) \/ Settle(w) \/ OweRefund(w) \/ NetRefund(w)
    \/ Book(w)

Disputing(w) ==
    \/ ReadDisputed(w) \/ InsertDispute(w) \/ FlipDisputed(w) \/ NetDispute(w)
    \/ UpsertDispute(w) \/ RestoreDisputed(w) \/ CancelNetting(w)

\* A worker that started goes on until it ends.
Step(w) == Completion(w) \/ Refunding(w) \/ Disputing(w)

Mishap(w) == StampLost(w) \/ ReverseLost(w) \/ Die(w)

World ==
    \/ Decline \/ Charge \/ RefundAtStripe \/ Dispute
    \/ \E outcome \in {"won", "lost"} : CloseDispute(outcome)
    \/ \E p \in Goods : Release(p)
    \/ \E k \in Creators : AccountUpdated(k)

Next ==
    \/ \E w \in Workers : Step(w) \/ Mishap(w)
    \/ \E w \in Hooks : \E i \in DOMAIN log : Deliver(w, i)
    \/ \E w \in Jobs : ReadDebts(w)
    \/ \E w \in Routes, p \in Purchases : AskRefund(w, p)
    \/ World

Spec == Init /\ [][Next]_vars

\* Stripe redelivers what was not answered and the cron fires the retry job, both
\* however often another request takes the worker first; whatever started goes on.
\* Nothing else is promised.
FairSpec ==
    /\ Spec
    /\ \A w \in Workers : WF_vars(Step(w))
    /\ \A e \in Events :
          SF_vars(\E w \in Hooks, i \in DOMAIN log :
                     log[i] = e /\ e \notin acked /\ Deliver(w, i))
    /\ SF_vars(\E w \in Jobs : ReadDebts(w))

-----------------------------------------------------------------------------
(* Properties.                                                             *)

\* The rows of the tables, and what Stripe holds of them.
RowsOK ==
    /\ keyed \subseteq Purchases /\ stamp \subseteq Purchases
    /\ status \in [Purchases -> {"pending", "completed", "failed", "refunded", "disputed"}]
    /\ saleCredit \in [Goods -> {"none", "held", "released"}]
    /\ shipment \subseteq Goods /\ goodsPaid \subseteq Goods
    /\ receipts \subseteq Purchases \X {"purchase", "refund"}
    /\ netting \subseteq NettingRow
    /\ shortfall \in [Purchases -> Nat]
    /\ disputeRow \in DisputeRow
    /\ moved \in [Creators -> SUBSET Purchases]
    /\ clawback \in [Purchases -> {"none", "done", "unfunded"}]

\* What a worker carries: its fields, and rows of the charge only; what it ships
\* are goods.
IsWorker(r) ==
    /\ DOMAIN r = DOMAIN Rest
    /\ r.read \subseteq Purchases /\ r.todo \subseteq Purchases
    /\ r.hand \subseteq Purchases /\ r.sent \subseteq Purchases
    /\ r.pc = "ship" => r.todo \subseteq Goods

WorkOK == DOMAIN work = Workers /\ \A w \in Workers : IsWorker(work[w])

WorldOK ==
    /\ log \in Seq(Events)
    /\ dispute \in {"none", "open", "won", "lost"}
    /\ losses \in 0..MaxLosses /\ deaths \in 0..MaxDeaths /\ unfit \in BOOLEAN

\* The shape of every variable: the tables and the workers name rows of the
\* charge only, whatever the webhook, the route and the job interleave.
TypeOK == RowsOK /\ WorkOK /\ WorldOK

\* Every event was answered and nobody is at work.
Settled == Emitted \subseteq acked /\ \A w \in Workers : work[w] = Rest

\* The share of p reached its creator.
Paid(p) == p \in goodsPaid \/ p \in moved[CreatorOf[p]]

\* The buyer's money for p went back, or the bank holds it.
Lost(p) == p \in refunded \/ dashboard \/ dispute \in {"open", "lost"}

NettingsOf(p, for) == {n \in netting : n.purchase = p /\ n.for = for /\ ~n.reversed}

\* No transfer of the charge carries a good: its share waits for the parcel,
\* whichever of the split and the retry job makes the transfer.
GoodsHeld == \A k \in Creators : moved[k] \cap Goods = {}

\* A row that names a transfer was carried by it, so the reversal that goes by
\* the row's stripe_transfer_id takes back money that really moved.
StampIsTheTransfer == \A p \in stamp : p \in moved[CreatorOf[p]]

\* When all is answered and nobody died on the way, a completed good has its
\* shipment and its credit: nothing else would ever write them.
GoodsOwed ==
    Settled /\ deaths = 0 =>
        \A p \in With("completed") \cap Goods : p \in shipment /\ saleCredit[p] # "none"

\* When all is answered, a completed row has its purchase receipt and a refunded
\* one its refund receipt, also after a delivery that died was made again.
ReceiptsOwed ==
    Settled => \A p \in Purchases :
        /\ status[p] = "completed" => <<p, "purchase">> \in receipts
        /\ status[p] = "refunded" => deaths > 0 \/ <<p, "refund">> \in receipts

\* When all is answered, the buyer holds what the platform was paid for and kept
\* (services/disputes: "access follows the money"), and nothing of a charge that
\* the completion refuses.  Where the same purchase was both refunded and disputed,
\* the order of the two events decides, so that case is left out.
AccessFollowsMoney ==
    Settled /\ deaths = 0 => \A p \in Purchases :
        p \notin refunded \/ dispute = "none" =>
            (status[p] = "completed" <=> "succeeded" \in Emitted /\ ~Lost(p) /\ ~unfit)

\* A refund recovers the creator's share one way: the reversal brought it back,
\* or a netting will, never both.
RecoveredOneWay ==
    losses = 0 =>
        \A p \in Purchases : clawback[p] = "done" => NettingsOf(p, "refund") = {}

\* And it does recover it: a refunded row whose share was paid out was reversed or
\* is netted, whichever of the two doors settled it.
ShareRecovered ==
    Settled /\ deaths = 0 /\ losses = 0 =>
        \A p \in With("refunded") :
            Paid(p) => clawback[p] = "done" \/ NettingsOf(p, "refund") # {}

\* The sunk fee of a refund is booked once, though the ledger has no unique index
\* and the route and the event it provokes both settle the row.
BookedOnce ==
    /\ \A p \in Purchases : shortfall[p] <= 1
    /\ Settled /\ deaths = 0 =>
          \A p \in Purchases : shortfall[p] = 1 <=> status[p] = "refunded"

\* The credit of a refunded good is not left waiting for its parcel, where the
\* transfer job would pay it.
HoldGoesWithRefund ==
    Settled /\ deaths = 0 => \A p \in With("refunded") \cap Goods : saleCredit[p] # "held"

\* A charge that went through is completed: the delivery of the event is repeated
\* until it is, however often it dies.  A charge that completeSessionPurchases
\* refuses is not: its rows stay pending and the money goes back by hand.
ChargeCompletes ==
    \A p \in Purchases : "succeeded" \in Emitted /\ ~unfit ~> status[p] # "pending"

\* A creator whose account is in order for good gets a transfer for every charge
\* with a completed work, unless it is undone first: what the split could not move,
\* the retry job does.  (That the transfer carried the row is StampIsTheTransfer.)
DebtsArePaid ==
    \A k \in Creators : <>[](k \in ready) =>
        \A p \in Sold(k) \ Goods :
            status[p] = "completed" ~> moved[k] # {} \/ status[p] # "completed"
=============================================================================
