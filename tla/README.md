# Anthers: money, goods and reader data, specified and checked

Anthers is a Bun/Hono API over Postgres (Drizzle) that sells creators' work, collects
support, pays creators through Stripe Connect, and writes what readers keep into their own
data spaces. This directory holds TLA+ modules of the parts that move money, goods and
those writes, the TLC runs that check them, and proofs checked by TLAPS. All source paths below are relative to the repository root; `payments.ts` alone
means `apps/api/src/routes/payments.ts`.

What makes this code hard is common to all of it. There is almost no locking and few
transactions: a handler is a list of separate SQL statements and Stripe calls, any of
which may throw, with the process able to die between two. Stripe delivers events at
least once, and nothing stores an event id. Recovery is by *latches* (an
`UPDATE ... WHERE status = 'completed'`, a unique index, a Stripe idempotency key) and by
jobs that come back and look for what is missing. The properties here ask whether the
latches and the jobs add up.

## 1. Inventory

| component | source (under `apps/api/src`) | state | operations | hard part | correct when |
|---|---|---|---|---|---|
| held-credit transfer job | `jobs/transfer-held-credits.ts`, `services/payouts.ts` | `creator_credits`, `creator_transfers`, coverage rows; Stripe's transfers | daily run: select, standing, suspension, plan, call, record | crash between the call and the record; the key *is* the selected set | a credit leaves once; the books say what Stripe moved |
| netting ledger | `services/netting.ts` | `creator_nettings`, `creator_netting_applications` | open (dispute, refund), plan, apply, reverse with compensation | plan is made before a remote call, applied after it | recovers no more than the share; a won dispute gives it back |
| charge split and retry | `services/purchase-split.ts`, `jobs/purchase-transfer-retry.ts` | `purchases.stripe_transfer_id`, sale credits | split at completion, credit goods, retry every 15 min, settle credit on refund | two writers use one idempotency key | each share moves once; goods wait for delivery |
| refunds | `services/refunds.ts` | `purchases.status`, reversals, charitable ledger | refund by route; the same unwinding by webhook | two doors, one of them triggered by the other | a share is recovered, one way, booked once |
| disputes | `services/disputes.ts`, `services/admin-disputes.ts` | `disputes` | created, closed, contest | events repeated and out of order | access and nettings follow the bank's decision |
| payments webhook and checkout routes | `routes/payments.ts` | `purchases`, `purchase_receipts` | 11 event branches, checkout, refund route | duplicated, overlapping and dying deliveries | what was charged is completed, and nothing twice |
| payout standing | `services/payouts.ts` | `users.stripe_*` | onboarding, `account.updated`, reconcile on read | changes between a check and a call | a transfer waits for an account that can take it |
| access receipts | `services/access-receipts.ts`, `jobs/access-receipts.ts` | `purchase_receipts` | owe, sign and write, sweep | owed by whoever gets there | nobody's receipt is forgotten |
| shipments and orders | `services/shipments.ts`, `services/orders.ts`, `jobs/shipment-clock.ts` | `shipments`, `shipment_complaints` | ship, confirm, daily fallback, complain, release | the buyer, the clock and the transfer job read before they write, and the write is by id | a complaint in time holds the money; a parcel settles |
| physical stock | `services/physical-stock.ts`, `services/physical-sales.ts` | stock counters on variants | reserve, release, sweep | sweep against a late payment | never oversold, never lost |
| basket and checkout sessions | `services/basket.ts`, `routes/payments.ts` | `basket_items`, pending purchases, open session | add, check out, resume, expire | session paid while it is expired | one charge per basket |
| settlement cycle and pool | `jobs/settle-cycle.ts`, `jobs/distribute-pool.ts` | `creator_credits` of a month | settle, correct, distribute, mark the month; void Stickers | reads outside the transaction, re-runs after invoices changed | credits follow payments and Stickers, and late ones arrive |
| subscriptions and invoices | `routes/payments.ts`, `routes/subscriptions.ts`, `services/billing.ts`, `services/invoices.ts` | `invoices`, `subscriptions` | the invoice events | event order | a support month is counted once |
| space outbox | `services/space-outbox.ts`, `space-writer.ts`, `space-projection.ts`, `reader-state-migration.ts`, `jobs/space-outbox.ts` | `space_outbox` rows, the reader's space | queue, claim, put, verify, project, clear or park | a new write beside one in flight; a worker dies with claimed rows | the space ends as the reader left it |
| space backup, move and restore | `services/space-backup.ts`, `space-move.ts`, `space-restore.ts` | `space_backups`, object storage | capture, move, restore | bulk I/O | — |
| job queue | `jobs/queue.ts`, `jobs/worker.ts`, `jobs/advisory-lock.ts` | pg-boss | schedules, retries, expiry | a run retried while alive | (assumed by the others) |
| media pipeline | `jobs/transcode-video.ts`, `jobs/ingest-ebook.ts`, sweeps | uploads, object storage | upload, transcode, sweep | sweep against a live upload | no live object is swept |
| accounts, sign-up, deletion, moderation, content, search, records | `services/…`, `routes/…` | their tables | — | mostly single statements over rows | — |
| web, admin, shared UI packages | `apps/web`, `apps/admin`, `packages/*` | — | — | clients of the API | — |

Interactions. A charge's `payment_intent.succeeded` starts the split, which pays digital
works at once and writes a *sale credit* for a good. `shipments` releases that credit,
the transfer job pays it together with the support credits of the settlement cycle. A
refund or a dispute takes a share back by reversing the transfer, by deleting a credit
that is still held, or by opening a *netting*, which the transfer job recovers from the
next credits of the same creator. So two modules meet in three tables:
`creator_credits`, `creator_nettings` and `purchases.stripe_transfer_id`. Before the
charge stands the basket checkout, which takes a good's units off the shelf and builds the
session; its webhook is the same `completeSessionPurchases`, seen there from the side of
the stock and the basket. The settlement cycle writes the support credits of an ended month
from recorded invoices, Public Access time and Stickers. The space outbox shares nothing
with the money: it carries Library entries, positions and saves into a reader's space.

`PROJECT.json` lists every component with its status and 40 hazards with their lines.

## 2. Modules

| module | what it is |
|---|---|
| `NettingPlan` | the recovery plan as a closed form: `nettingPlanFor` as overlap of two lines laid end to end |
| `PayoutLedger` | the abstract promise of the transfer job: batches of credits that leave, are entered, and share nothing |
| `CreatorTransfers` | the transfer job of one creator, the netting ledger, and everything that acts beside them |
| `SetSums` | lemmas about sums over finite sets, for `CreatorTransfersProofs` and `PurchaseChargeProofs` |
| `CreatorTransfersProofs` | theorems about the job and the plan |
| `PurchaseCharge` | one charge: webhook deliveries, split, retry, refund route, disputes |
| `PurchaseChargeProofs` | theorems about it |
| `Checkout` | the basket, its sessions and the stock they hold: visits, webhook, sweep |
| `Shipments` | a parcel from the sale to the creator's money: two daily jobs and the requests between |
| `SpaceOutbox` | the queue of writes to a reader's space and its drain |
| `Settlement` | one ended month: invoices, Stickers, suspensions and the job that credits it |
| `CheckoutProofs`, `ShipmentsProofs`, `SpaceOutboxProofs`, `SettlementProofs` | theorems about the four |
| `MCBackOffice` | the four side by side, and their instance for TLC |
| `BackOfficeProofs` | the composition keeps what each of the four keeps |
| `MCCreatorTransfers`, `MCPurchaseCharge` | instances for TLC; the first also compares `Plan` with the source's double loop (`PlanIsTheWalk`) |

### CreatorTransfers

All reads of the job filter by creator, so one creator is the whole state. `run` is the
run in flight: the set it selected, its plan, its sum, and where it is. One action per
database read, Stripe call and transaction: `Select` (lines 139–181 of the job),
`CheckStanding`, `CheckSuspension`, `PlanNetting` (255–276), `CloseAtZero` (the branch
where netting takes all), `StripeAccepts` / `StripeReplays` / `StripeRefusesKey` (the
three answers to one call), `Record` and `TransactionFails` (331–353). `Fault` is a death,
a timeout or a lost answer: the run forgets everything, Stripe and the tables keep what
they have. Beside it: `Mature`, `DisputeOpens`, `DisputeWon`, the refund of a sale in its
two statements (`RefundFindsIt…`, `RefundDeletes`), `StandingChanges`.

A Stripe transfer is identified with the set of credits it moves, because the
idempotency key is exactly that sorted set (`transfer-held-credits.ts:213-215, 247`).

`Quiet` is a constant, not a claim: with it, nothing happens to the credits and nettings
between Stripe's yes and the books. The run `money_moves_twice` shows it is needed.

### PurchaseCharge

State: the rows of the charge (`keyed` by PaymentIntent, `status`, `stamp` =
`stripe_transfer_id` is set), the tables their unwinding writes, Stripe's side (`moved`
per creator, `clawback` per purchase, refunds, dispute, the event `log`), and workers.
A worker is a webhook delivery (`Hooks`), a refund request (`Routes`) or a retry job
(`Jobs`), and holds in `work[w]` what it has read. Every SQL statement, and every Stripe
call, is a step: a loop over rows is one step per row. The order of the source is kept:

* `payment_intent.succeeded`: `ReadSession`, `Key` (row by row), `Group`,
  `Transfer`/`Stamp` per creator (or `SkipCreator`, `KeyRefused`, `StampLost`),
  `SplitDone`, `CreditGoods`, `Ship`, `Complete`, `ReadSettled`, `OweReceipts`. `unfit`,
  chosen by the disturbance of the same name, says that `completeSessionPurchases` refuses
  the charge (`payments.ts:909-940`: no session for the intent, an address outside the US,
  an intent that does not match): it finds no rows, and the handler goes on and answers.
* refund route: `AskRefund`, `IssueRefund`, `ReadHold`, `DropHold`, then
  `NothingToReverse`/`Reverse`/`ReverseLost`, `Settle`, `OweRefund`, `NetRefund`, `Book`.
  `charge.refunded` reads the rows (`ReadCharge`, `NextRow`) and joins at the reversal.
* disputes: `ReadDisputed`, `InsertDispute`, `FlipDisputed`, `NetDispute`; `UpsertDispute`,
  `RestoreDisputed`, `CancelNetting`.

What the world does is chosen by `May`, a set of disturbances: deliveries that
`overlap`, are `duplicate`d or `reorder`ed, a card that is `decline`d first, accounts that
are `restrict`ed, reversals the account cannot fund (`underfund`), `refund`s by the route,
by the `dashboard`, a `dispute`. `Release` stands for the whole of CreatorTransfers and
shipments: a held sale credit of a shipped good may be paid at any moment.

Idempotency keys are modelled by what Stripe does with them: a new key acts, a used key
with the same amount replays, a used key with another amount is an error.

### Checkout

A *visit* is one `POST /basket/checkout`: `ResolveBasket` (2149–2163, the refusal for want
of stock), `LookForSessions` and `ReadSession` (`resumeBasketSession`, one Stripe retrieval
per session), `ExpireSession`, the three statements of `failPendingBasketRows` (`FailRows`,
`ReleaseRows`, `StampRows`), `ReserveLines` (one transaction with row locks),
`UndoReservation` / `CreationThrows` / `CreateSession`, `InsertRows`. A session's rows are
written, failed, re-keyed and completed together and share `order[s]`; `returned` is
`stock_released_at`, row by row. The webhook is `DeliverPaid`, `ClearBought`,
`CompleteOrder`; the sweep `SelectStale` and, row by row under its lock, `ReturnStale`. The
world buys (`PaySession`), lets sessions lapse and rows age, and changes baskets. Whether
`completeSessionPurchases` refuses a session is decided by what it was paid with (`unfit`);
its rows then stay pending.

What `ReadSession` does with a session that cannot be read is worth a word, because a comment
says otherwise. `resumeBasketSession` skips a `null` (`payments.ts:1428`), and its doc
(1406–1408) calls that the way an unreachable processor degrades. But
`retrieveCheckoutSession` (`lib/processor.ts:132-134`) answers `null` only where no Stripe key
is set, and the route has returned 503 for that at `payments.ts:2174`, before it looks for
sessions at 2215. An unreachable Stripe, and an id it does not know, make the client *throw*,
nothing catches it, and the request ends without a session. So the skip is unreachable, and
the model's visit ends. Likewise there is no session that is complete but unpaid: sessions
take cards only (the account's configuration, `payments.ts:717-725`), and a card's session
completes when it is paid.

### Shipments

Time is a day counter. Requests (`Clerks`) and both jobs take the time once and read before
they write; `Tick` keeps each of them within `Lag` of its start and lets a daily job be
missed `MaxMissed` times. `markDelivered` is a read (`ReadToConfirm`, `ReadDue`) and a write
by id (`WriteConfirmed`, `WriteFallback`); `releasableOrders` is its two queries
(`ReadShipments`, `ReadComplaints`), and `PayCredits` the transfer that follows: what
CreatorTransfers does with a due credit, in one step. `source` has no carrier because no
code path reports one, and nothing closes a complaint because no route does.

### SpaceOutbox

An entry is its version number; some versions are removals. Three things write Anthers' own
row. A request writes (`ChangeEntry`), its fire-and-forget task re-reads the row (`ReadEntry`; a removal carries
its own payload) and queues (`QueueWrite`, which rewrites the pending row of the entry or
inserts one beside a row in flight). A purchase writes a Library row (`SaveOnPurchase`,
`services/library.ts:173`), and the deletion of a Work, a project or a post removes rows by
cascade (`SubjectDeleted`): neither queues anything. The model keeps, for the properties
only, the entries whose last edit nobody queued or will (`unqueued`). The drain is
`ClaimRows`, `PutRecord`, `VerifyWrite`, `ProjectEntry`, `ClearRow`, and `ParkRow` for what
threw, with the partial unique index that can throw out of `park` itself. A call to the space
may fail, or land and lose its answer; and a row can fail with the space healthy: the put or
the removal that changes nothing may not advance the commit (`VerifyStill`), and a record
whose subject is gone cannot be projected (`ProjectFails`).

### Settlement

One month. A run takes the supporters that are due (`StartRun`), and per supporter reads the
paid charges with their lines (`ReadPaid`), the Stickers (`ReadLive`) and who is suspended
(`ReadStanding`), all outside the transaction `SettleSupporter`, which writes the
difference to what was credited, stamps the invoices, and finalises the estimates. Every
charge, Sticker and month of watching is worth one unit, so a credit is a count. `stamp`
keeps, beside `settled_at`, whether the run had read the invoice's line (`whole`) or not
(`bare`): history for the property only. `late` likewise records the Stickers a takedown or
its reversal reached after the giver's month was read.

### MCBackOffice

The four modules share no row: the stock and the rows of a pending order, the shipment and
its credit's release, the outbox, the books of a month. A joint behaviour is therefore an
interleaving of four independent ones, and a property over one module cannot tell it from
that module's own behaviour. The instance uses this: `part`, chosen at the start, is the
module that moves, the others rest, and the state space is the sum of the four and not
their product. The theorems are about each module's own specification, and
`BackOfficeProofs` carries them over to this one.

## 3. Runs

| run | instance | states | shows |
|---|---|---|---|
| `transfers_open` | 4 credits (support, sale, a negative correction, a compensation), 2 nettings, 2 faults, anything in between | 157 092 | `CoveredOnce`, `RecordMatchesStripe`, `NettedWithTheMove`, `NettingWithinBounds`, `BooksBalance`, `TypeOK` |
| `transfers_quiet` | same, positive prices, `Quiet` | 42 480 | `PaidOnce`, `WonDisputeRepays`, the refinement `LedgerSpec`, liveness `DueCreditsSettle` |
| `charge_duplicated` | 2 works of one creator and a good of another, 2 overlapping deliveries, retry job, a completion that may be refused, 1 death, 1 lost answer | 2 601 712 | `GoodsHeld`, `GoodsOwed`, `ReceiptsOwed`, `AccessFollowsMoney`, `TypeOK` |
| `charge_undone` | 2 works, 1 delivery, 1 route, 1 job overlapping, refunds by both doors, a dispute, unfunded reversals, redelivery, a refused completion, 1 death | 998 762 | `RecoveredOneWay`, `ShareRecovered`, `BookedOnce`, `AccessFollowsMoney` |
| `charge_in_order` | a work and a good, one request at a time, in order, declines, restrictions, refused completions, route refunds, 2 deaths, 1 lost answer, fairness | 148 048 | `HoldGoesWithRefund`, `ShareRecovered`, liveness `ChargeCompletes`, `DebtsArePaid` |
| `back_office` | Checkout: 2 goods (2 and 1 units), 2 buyers, 2 baskets, 2 sessions, 1 sweep, 1 edit, 1 mishap. Shipments: 1 parcel, 2 requests, windows of 2 and 3 days, `Lag` 1, 1 missed day. SpaceOutbox: 2 entries, 3 edits, 2 faults, 1 death. Settlement: 2 supporters, 2 creators, 2 invoices, 1 Sticker, 2 upsets, 1 failure | 1 048 179 | `TypeOK`; `StockIsAccounted`, `PaidOrdersStand`, `NoSecondCharge`, `BoughtLeavesBasket`, `SalesKeepStock`, `OrdersEnd`; `ReportFreezesCredit`, `PaidAfterWindow`, `DeliveryBecomesFinal`, `ParcelsSettle`; `NothingForgotten`, `SpaceMovesForward`, `SpaceCatchesUp`; `CreditsFollowPayments`, `StickersPaidAsDirected`, `PaymentsSettle` |
| `money_moves_twice` | `transfers_open` with 1 fault, not quiet | violated | `MovedOnce` |
| `won_dispute_race` | same | violated | `WonDisputeRepays` |
| `split_key_reused` | two works of one creator at one price, 1 death | violated | `StampIsTheTransfer` |
| `dashboard_refund_keeps_hold` | a work and a good, one delivery at a time, no failure | violated | `HoldGoesWithRefund` |
| `revisit_refused` | Checkout alone, no failure | violated | `RevisitResumes` |
| `delivery_overwritten` | Shipments alone, no failure | violated | `DeliveryKept` |

Every property of a passing run is also checked against a mutant of the code, defined
next to the definition it replaces ("Mutated form of …").

**Bounds.** Purchases, credits, nettings and workers are the sizes of the constants.
`MaxFaults`, `MaxDeaths`, `MaxLosses` bound mishaps; `work` and the tables are finite
without a bound. Three credits are the least that give a set, a subset and a third; two
nettings separate the two ways one is opened, and give the plan a remainder to carry
over. Two works of one creator are the least with a *part* of a group, and one good of
another creator keeps the two payment ways apart. Two deliveries and a job are the three
writers of `stripe_transfer_id`. One death is enough to break each property that breaks
by a death (the mutants and the violations die after one); `charge_in_order` takes two
because liveness has to survive a retry that also dies. `CHECK_DEADLOCK FALSE` is in the
charge and back-office configurations only: a charge that was handled, a parcel that is
paid, an outbox that is empty really end.

In Checkout, one good has a unit for each buyer and the other only one, so that both the
refusal and the sale are reached; two sessions are the least with one that is replaced, two
buyers the least that race for a unit. `Sessions` bounds the sessions ever built, and
`ResolveBasket` starts a visit only when one is left for it. In Shipments, one parcel
suffices because the jobs treat parcels one by one, two requests are the least that
overlap, and `LastDay` leaves time for a parcel that ships on the last day it may. In
SpaceOutbox, `MaxAttempts` 2 separates a retry from the last attempt, two rows are the
least with one pending beside one in flight, and three edits are the least with a purchase, a
change of what was bought and its deletion; of the two entries one is in the Library. In
Settlement, a late second invoice and two upsets give re-runs after a return, a suspension
with its reinstatement, or a takedown with its reversal. Two starts are left out because
others stand for them: the buyers are alike, so of two unequal baskets the first buyer has
the smaller, and at first every creator is suspended or none, from which one upset leads to
the rest.

**Conditions stated in properties.** Where a property is false without a condition, the
condition is in the property and the reason is a hazard:

* `deaths = 0` in `GoodsOwed`, `AccessFollowsMoney`, `ShareRecovered`, `HoldGoesWithRefund`
  and half of `BookedOnce`: the source has no repair for these. After the rows are
  re-keyed, a redelivery returns before it ships and credits (`payments.ts:960`); after the
  row is flipped, nobody nets or books (`refunds.ts:400`).
* `losses = 0` in `RecoveredOneWay`, `ShareRecovered`: any throw of the reversal reads as
  *unfunded* (`refunds.ts:169`).
* `ShareRecovered` is checked where accounts are always ready or requests do not overlap:
  a retry that pays between the refund's read and its flip loses the share, and so does a
  `charge.refunded` that overtakes the route on a released good.
* `~unfit` in `AccessFollowsMoney`, `ChargeCompletes` and `OrdersEnd`: a charge that
  `completeSessionPurchases` refuses keeps its rows pending for good, by design; the money
  goes back by hand.
* `AccessFollowsMoney` leaves out a purchase that was both refunded and disputed, and is
  checked with events in order.
* `HoldGoesWithRefund` holds for refunds by the route and is violated by the dashboard
  (the finding).
* `mishaps = 0` in half of `StockIsAccounted`, in `BoughtLeavesBasket` and in the half of
  `OrdersEnd` about stock: units
  in the hand of a visit that dies, or whose session creation throws
  (`payments.ts:2352`), are on no row; a delivery that dies after re-keying never clears the
  basket (`payments.ts:1073`). `BoughtLeavesBasket` also asks that baskets are not edited:
  a line added again in the meantime is the buyer's to keep.
* `NoSecondCharge` is for a buyer with one request at a time: nothing locks the basket
  against a second tab. `PaidOrdersStand` leaves out rows older than the sweep's horizon,
  where a late webhook completes an order whose stock has gone back.
* `Lag` in `DeliveryBecomesFinal`: a stamped delivery can be overwritten by a signal that read
  the row before (run `delivery_overwritten`), so it is final only once such signals are
  over. `ShipmentsAssumption` asks `2 * Lag < Window`: minutes against days.
* `unqueued` in `NothingForgotten` and `SpaceCatchesUp`: the edits that queue nothing, and
  those whose task died or met an error, which is logged. The properties say that there are no
  others, and hold through deaths. `Stranded` rows in `SpaceCatchesUp`: failed for good, or in
  flight after a drain that died or met the pending index (`space-outbox.ts:231, 338`), and
  never claimed again. `SpaceMovesForward` leaves out the Library, where the projection may
  replace a newer edit (`space-projection.ts:62`).
* `late` in `StickersPaidAsDirected`: a takedown is refused only once the month is marked,
  which is after its supporters were read. `CreditsFollowPayments` counts lines on record
  and is an upper bound for what was returned: a creator the month no longer names keeps
  the credit, since the negative correction skips creators who are not named
  (`settle-cycle.ts:394-398`).

**Fairness.** In `CreatorTransfers`, weak fairness of the job (scheduled daily, retried
once, and its steps answer or throw) and of a refund's pending delete. In
`PurchaseCharge`, weak fairness of each worker's step, strong fairness of the delivery of
each unanswered event and of the retry job: Stripe redelivers and the cron (`*/15`) fires
again however often another request takes the worker first. A death is never fair and is
bounded. No refund, dispute, maturity or change of standing is ever forced to happen;
`DebtsArePaid` and `DueCreditsSettle` assume the account stays in order.
In `MCBackOffice`: weak fairness of each visit under way (an HTTP request answers or
throws), of the webhook, the clock and the daily sweep together (Stripe repeats an event
until it is answered, sessions lapse after a day, rows age); of the day, the two daily jobs
and the requests under way of Shipments; of the drain, scheduled every minute
(`queue.ts:766`), and of each task; of the settlement run, scheduled monthly and retried.
No buyer is made to pay, confirm, report or edit, nobody is suspended or reinstated by
force, and no creator is made to ship.

## 4. What the violations show

Six disagreements between the code and its own comments, with the quoted lines in
`PROJECT.json` under `findings`:

1. `money_moves_twice`: the transfer's key names the *selected set*; after a death, another
   credit that matures changes the set and so the key, and the first credits move again.
2. `won_dispute_race`: a dispute won between the plan and the transaction leaves a live
   application on a reversed netting; the creator is not paid back.
3. `split_key_reused`: rows are re-keyed one at a time; a redelivery or an overlapping
   delivery splits the remainder under the key of the whole, and the retry stamps a row
   with a transfer that did not carry it. With different prices the key is refused for good.
4. `dashboard_refund_keeps_hold`: the webhook's refund branch does not settle the held
   sale credit, which is later released and paid.
5. `revisit_refused`: the basket checkout checks the shelf before it looks for the buyer's
   own open session, so the last unit, reserved by that session, refuses its own buyer.
6. `delivery_overwritten`: `markDelivered` reads, then updates by id, so a delivery that is
   stamped is overwritten by the signal that read the row before. The model, and so
   `ReportFreezesCredit` and `PaidAfterWindow`, count with it.

Disagreements that are in the model and have no run of their own:

* A dispute takes every row of the charge and nets one. `netting.ts:38-42` says a dispute on a
  purchase always writes a netting row; the webhook nets `purchaseRows[0]`
  (`payments.ts:2947-2953`). `NetDispute` of PurchaseCharge.
* The two copies of a Library part without a failure. `reader-state-migration.ts:17` says that
  during the transition both are written; a purchase and a cascade write one. `SaveOnPurchase`
  and `SubjectDeleted` of SpaceOutbox, whose properties carry `unqueued` for it.
* A settlement that is run again does not correct a creator the month no longer names:
  `settle-cycle.ts:391` unites the keys so that what was credited is compared with nothing, and
  399 skips every creator whose standing was not read, and it is read only for those the
  month entitles to something (349-359).
  `NewCredit` of Settlement, for which `CreditsFollowPayments` bounds from above only.
* A session that cannot be read ends the visit and is not skipped, as said in §2
  (`payments.ts:1406-1408`); and a refusal to expire is not read as "nothing left to close"
  (`lib/processor.ts:138-139`), it ends the visit as well. `ReadSession` and `ExpireSession` of
  Checkout.
* A visit whose basket was paid for in a session the completion refused is told that the
  payment is being confirmed, which `payments.ts:1385-1388` expects to end within moments. The
  rows stay pending and it does not end.

## 5. Proofs

All for every value of the constants that satisfies the named assumptions of the modules
(`IdsAssumption`, `LinksAssumption`, `MoneyAssumption`, `EnvironmentAssumption`;
`RowsAssumption`, `WorkersAssumption`; `CheckoutAssumption`, `ShipmentsAssumption`,
`SpaceOutboxAssumption`, `SettlementAssumption`). Every safety invariant and every action
property that a passing run checks is also a theorem. Some theorems have a hypothesis on
the environment (`Quiet`, or what `May` holds), because without it the property is false;
the hypothesis is then as weak as the argument allows, and what lies outside is named
below, with the run that shows it where there is one.

### CreatorTransfers

*Who is paid.* `ShapeAlways` is type correctness without amounts. `RunInv` is what
makes `CoveredOnce`, `RecordMatchesStripe` and `NettedWithTheMove` inductive: no row covers
what the run selected, the plan stays inside the set, and at `record` Stripe has accepted
exactly that sum. None of the three is inductive alone, because the row is written several
steps after the selection. `QuietInv` adds, for `Quiet`, that the one unrecorded transfer
is what the next run would select, with the sum it would plan. From it follow
`PaidOnceWhenQuiet` and `LedgerImplemented`: every step of the job is a step of
`PayoutLedger` or a stutter, under the mapping *batches = accepted or closed sets,
recorded = the sets with a row, withdrawn = deleted credits*. `PromiseKept` proves in turn
what the ledger promises, for whatever implements it.

*Sums.* The amounts are sums over finite sets, a fold of the library. `SetInduction` gives
induction over the subsets of a finite set without a predicate as a parameter: what holds
is given as a set of subsets, and a counterexample that is least under strict inclusion is
refuted. From it come the sum of a set without one element, of two sets, of two functions,
of rows grouped by a key. This is why `IdsAssumption` asks for finite sets. The lemmas
are in `SetSums`; the sums of earnings of PurchaseCharge use them too.

*The plan.* `Plan` is a closed form: nettings and credits are laid end to end on two lines
and a row is their overlap. `PlanOfCredit`, `PlanOfNetting` and `PlanWithinSet` bound what
it takes. `PlanFollowsTheLoop` relates it to the loop of `nettingPlanFor` for every
input: each row is the lesser of what the earlier rows leave of its credit and of its
netting, and is there only when that is positive. This is the body of the loop, stated for
each pair. That the loop, written as a walk over two sequences, returns this set is
`PlanIsTheWalk`, which TLC checks over bounded amounts.

*Amounts.* `TypeOKAlways`, `NettingWithinBoundsAlways` and `BooksBalanceAlways` hold in
every environment, `Quiet` or not. `StageInv` and `Sized` say which steps carry a plan and
that it is finite and positive. `PlanInv` says that the plan in flight, added to what is
applied, stays within every share and every credit, and that the sum in flight is what the
plan leaves; `CompensationInv` and `StampInv` that a dispute won meanwhile, which writes a
compensation and stamps rows, changes no sum in use. `NettingWithinBounds` is not inductive
alone, because the applications are written steps after they were computed.
`WonDisputeRepaysWhenQuiet` does need `Quiet` (run `won_dispute_race`): only then are the
nettings of a plan still open when it is recorded (`PlanOpenInv`).

### PurchaseCharge

`TypeOKAlways`: `TypeOK` is inductive because what a worker ships are
goods, and log entries are event names, never steps. `GoodsHeldAlways` needs
`SplitInv`: a worker at `split` or `stamp` has no goods to treat, and no transfer id was
ever read on a good; both the webhook's grouping and the retry's query enter there.
`RecoveredOneWayAlways` needs `RecoverInv`: whoever calls a share *owed* has one row in
hand, has passed the reversal, and its row is a good or has a reversal that was refused for
good; a good never has a reversal (by `SplitInv`), and a used reversal key replays its first
answer. It holds for any number of overlapping routes, deliveries and deaths as long as
no answer is lost.

The others share a ground: `PlaceInv` (where a worker may be by its kind and its event, and
that a refund treats one row), `AskedInv` (a route refunds rows that were bought), `LogInv`
and `OrderInv` (what Stripe emits in which order, and that without `reorder` an event is
taken up when the earlier ones are over) and `KeyInv` (a delivery of the charge leaves no
pending row without its key, unless it is refused). For each of the steps a lemma (`…Moves`) says what it does to
the worker that takes it, and `Leaves`, `Comes` and `Writing` invert them: from where a
worker is after a step, or from the table that changed, they give the action.

| theorem | hypothesis | invariant | outside the hypothesis |
|---|---|---|---|
| `BookedOnceAlways` | none | `BookInv`: one worker at most is on its way to the books with a row, and it flipped it | – |
| `ReceiptsOwedAlways` | `Mild`: a dispute is not reported before its charge | `ReceiptInv` | a dispute recorded before its charge is answered, and then won, completes a row whose receipt the charge's delivery no longer owes |
| `AccessFollowsMoneyAlways` | `InOrder`, as in the property | `AccessInv`: what the deliveries of a dispute, of its end and of a refund have found and have yet to do | the property speaks of events in order |
| `HoldGoesWithRefundAlways` | no refund from the dashboard; `OneDelivery`: duplicates do not overlap, or one process takes all deliveries | `FreshInv`, `HoldInv` | run `dashboard_refund_keeps_hold`; of two overlapping deliveries, the slower credits a good after its refund |
| `GoodsOwedAlways` | `NoRace`: no dispute is recorded while a route refunds | `SerialInv`, `RaceInv`, `OwedInv` | the route drops the credit of a row that is disputed before its flip, and a won dispute completes it again |
| `ShareRecoveredAlways` | `Orderly`: requests do not overlap, and no good is refunded from the dashboard | `ShareInv`: what was moved is stamped or about to be, and a refund under way knows the transfer of its row | a retry that stamps after a refund read the row; a good's released share, which the dashboard's refund does not look at |
| `ShareRecoveredInOverlap` | `Steady`: `OneDelivery`, events in order, accounts in order, no goods | `StampedInv`, `BackInv` | as above, and a `charge.refunded` that overtakes the charge's delivery |
| `StampIsTheTransferUntilDeath` | `OneDelivery`; nobody died so far | `WholeInv`, `CarriedInv` | run `split_key_reused` |

The two theorems about `ShareRecovered` cover different ground. `ShareInv` follows a share
wherever it goes, goods and late retries included, but for one request at a time. With
overlap the route, the event it provokes and a dispute write the same rows in any order;
`StampedInv` then says that a delivery that nothing disturbs moves and stamps the whole
charge before it completes a row, so that the retry job has nothing to do and every refund
reads the transfer of its row, and `BackInv` follows the two doors from there.

`StampIsTheTransferUntilDeath` is about a key that names the charge and the creator, not
the rows: Stripe replays a used key for any call of the same amount, and the update that
follows stamps the rows of the call. `WholeInv` says that the delivery that keys the charge
reads and keys all of it, so that its rows are bought, disputed and restored together.
`CarriedInv` says that the groups of a creator in flight, and its transfer, are nested.
`NestedSumsDiffer` (a smaller set of positive prices is worth less) then leaves no replay
but one for the rows that were carried. A death between two statements of the keying
leaves two groups that are not nested, and at equal prices the wrong one is stamped.

The passing runs are inside these hypotheses.

### Checkout

`SoundInv` adds to the types what a visit may hold at each place
(`VisitSound`: at `create` exactly its lines, while it releases only units of a failed order
of an expired session), what a session's rows say (`RowSound`: failed only after it expired,
completed only after it was paid, returned or swept only when aged or expired), and that a
session has one maker (`OneMaker`). `PaidOrdersStandAlways` and `SalesKeepStockAlways`
follow from it. `StockIsAccountedAlways` counts: every action changes the shelf, the visits
that hold a unit and the orders it stands on by at most one each, so that the sum stays, or
falls with a mishap; `SoundInv` says that the unit moved was in one place only. It covers
any number of buyers, tabs, sessions and overlapping sweeps.

`BoughtLeavesBasketAlways` rests on `ClearedRow`: rows are re-keyed by a delivery that is
under way or over, and it clears the basket before it completes the order.
`NoSecondChargeAlways` rests on `SearchInv`, for a buyer with one request at a time
(`OneTab`, as in the property): from its look on, a visit has yet to read every live session
of its lines (`SearchSound`), so that when it reserves there is none (`OneLive`). That a visit
which cannot read a session ends, and one that finds a paid session waits, is where the proof
meets the code: with either skipped, `SearchSound` fails at `ReadSession`.

### Shipments, SpaceOutbox, Settlement

*Shipments.* `ClockInv` and `DeliveryInv`: nothing under way is older than `Lag`, and what
may still stamp a delivered parcel read the clock within `Lag` of the stamp it has; hence
`DeliveryBecomesFinalAlways`. With `2 * Lag < Window`, no signal is left to move a window that is
over (`FreezeInv`): what was read as closed stays closed, and a report made after that is
late, so neither `ReportFreezesCreditAlways` nor `PaidAfterWindowAlways` needs a lock.

*SpaceOutbox.* `ShapeInv`: an id names one row, an entry has at most one pending row and one
in the drain's hands. `ForwardInv` orders the versions of an entry outside the Library: what
the space has, then the row in hand, then the pending row, then the local one.
`RecordInv` (with `Remembers`) adds, deaths or not, where a change that is or will be queued
is: with its task (`Told`), else with the pending row, else with the row in the drain's hands
(`RowsTell`), which is cleared only when the space has its version and the local row, or
somebody who still has to speak, agrees (`HandTells`). `NothingForgottenAlways` is its first
part and not inductive alone: what is cleared was written two steps before. A step that leaves
the two copies apart with nobody to say so has to be one of those that set `unqueued`.

*Settlement.* `BooksSound` (a settled invoice was paid once, and one settled whole has its
line), `ReadsSound` and `LiveSound` (what the run has read is still what the tables say, but
for returned payments and `late` Stickers) and `CreditHasSticker` together with the two
properties are `SettlementInv`. Neither property is inductive alone, because a credit is
written two reads after what it is computed from.

### The composition

A step of `MCBackOffice` moves the chosen part by its own `Next` and leaves the others; that
is a matter of how the module is written, and the lemma `EachPartBehaves` says so. What it is
for: the theorems about the parts' own specifications are theorems about the one TLC runs,
`TypeOKAlways`, its type invariant, and `PartsKeepTheirWord`, all that the four promise.

### Only model-checked

The seven liveness properties (`DueCreditsSettle`, `ChargeCompletes`, `DebtsArePaid`,
`OrdersEnd`, `ParcelsSettle`, `SpaceCatchesUp`, `PaymentsSettle`): fairness is `ENABLED`,
which the prover does not treat. `PlanIsTheWalk`: a fold over a sequence needs induction
over data.

## 6. What is left out

* One run of the transfer job in flight. pg-boss retries a run that outlives 30 minutes
  (`jobs/queue.ts:580`), so two can overlap.
* Stripe forgets keys after a day or more; here it never does.
* Ids are assigned in advance; clocks are the choice of when `Mature` and `Release` happen.
* In the webhook: Badge lines, mail, the customer link; merch without a creator
  and rows without earnings in the split; the refusal when payments are not configured; the
  cap on refunds after a download. Of the invoice branches, the recording of a paid invoice
  and of its return; paused renewals of a suspended supporter are left out.
* Contesting a dispute; onboarding and reconcile-on-read of an account; signing receipts.
* In Checkout: digital and Badge lines, prices, tax and the quote, lines of more than one unit, several options of one good, edits of the
  listing (`physical-listings.ts`), the buy-now route of a good.
* In Shipments: tracking data, the address, views; the credit is paid in one step, which
  CreatorTransfers takes apart, and that a refund or dispute removes the credit is
  PurchaseCharge's.
* In SpaceOutbox: sessions and the registry of spaces, the order of a batch, the backoff
  clock (any pending row may be due), two requests of one entry at the same time, two
  drains at the same time, the backfill of an account.
* In Settlement: amounts, fees, rounding and the remainder, who funds a credit, Badge
  charges, the nightly estimate (given at the start), two runs at the same time; a
  takedown's check of the month marker and its write are one step.
* Everything with status `not_modelled` in `PROJECT.json`, with its reason there.

## 7. Plan

Done: `NettingPlan`, `PayoutLedger`, `CreatorTransfers`, `PurchaseCharge`, `Checkout`,
`Shipments`, `SpaceOutbox`, `Settlement` and their proofs. What would come next:

1. A second run of a job in flight (transfer, drain, settlement), as a constant set of runs.
2. The composition of `Shipments` with `CreatorTransfers`: `PayCredits` replaced by the job,
   `Mature` of a sale by the release query; a refund or dispute of a parcel on its way.
3. The contest of a dispute (`disputes.ts:276`) in `PurchaseCharge`.
4. Badge charges with their monthly renewal, in `Settlement`; the pause of a suspended
   supporter's renewals, whose state Stripe keeps.
5. Account deletion, which detaches credits and purchases, beside `CreatorTransfers`; the
   media sweep against a live upload.
