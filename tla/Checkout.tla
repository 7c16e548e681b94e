-------------------------------- MODULE Checkout --------------------------------
(***************************************************************************)
(* The basket, its Checkout Sessions and the stock they hold: the basket   *)
(* checkout of routes/payments.ts, the reservations of                     *)
(* services/physical-stock.ts, the completion that turns a paid session    *)
(* into sales, and the daily sweep that takes stock back from orders       *)
(* nobody paid.                                                            *)
(*                                                                         *)
(* A visit is one POST /basket/checkout; it runs one statement, one        *)
(* transaction or one Stripe call per step and forgets everything when its *)
(* process dies.  The rows of a session are written, failed, re-keyed and  *)
(* completed together, so they share one status; the stamp                 *)
(* stock_released_at is each row's own.  A line takes one unit.            *)
(***************************************************************************)
EXTENDS Integers, FiniteSets

CONSTANTS
    Goods,           \* the values of physical listings that have a stock
    Stock,           \* how many of each there are
    Buyers,
    Baskets,         \* the baskets a buyer may put together
    Visits,          \* checkout requests that may run at the same time
    VisitorOf,       \* whose request it is
    Sessions,        \* bound: Checkout Sessions ever built
    Sweeps,          \* runs of the sweep that may overlap
    MaxEdits,        \* bound: how often baskets are changed
    MaxMishaps       \* bound: processes that die half-way, session creations that throw

ASSUME CheckoutAssumption ==
    /\ IsFiniteSet(Goods) /\ Stock \in [Goods -> Nat]
    /\ Baskets \subseteq (SUBSET Goods) \ {{}}
    /\ VisitorOf \in [Visits -> Buyers] /\ IsFiniteSet(Visits)
    /\ Sessions \subseteq Nat /\ IsFiniteSet(Sessions)
    /\ MaxEdits \in Nat /\ MaxMishaps \in Nat

VARIABLES
    shelf,       \* the stock each value shows
    basket,      \* basket_items of each buyer
    sold,        \* what Stripe holds: for each session its buyer, lines and state
    order,       \* status of the purchase rows of each session
    keyed,       \* the sessions whose rows are keyed by the PaymentIntent
    returned,    \* the rows <<session, good>> with stock_released_at set
    aged,        \* the sessions whose rows are older than ABANDONED_ORDER_HOURS
    visit, sweep,
    hook,        \* where the delivery of payment_intent.succeeded is
    unfit,       \* the paid sessions completeSessionPurchases will not complete
    edits, mishaps

checkoutRows == <<shelf, basket, order, keyed, returned>>
checkoutCounts == <<unfit, edits, mishaps>>
checkoutVars == <<checkoutRows, sold, aged, visit, sweep, hook, checkoutCounts>>

\* What a visit holds: the lines it resolved, the sessions it has yet to read, the
\* one it is at, and the units that are neither on the shelf nor on a row.
Idle == [pc |-> "rest", lines |-> {}, todo |-> {}, at |-> {}, hand |-> {}]

CheckoutInit ==
    /\ shelf = Stock
    /\ basket \in [Buyers -> Baskets]
    /\ sold = [s \in Sessions |-> [buyer |-> {}, lines |-> {}, state |-> "none"]]
    /\ order = [s \in Sessions |-> "none"]
    /\ keyed = {} /\ returned = {} /\ aged = {}
    /\ visit = [v \in Visits |-> Idle]
    /\ sweep = [w \in Sweeps |-> {}]
    /\ hook = [s \in Sessions |-> "rest"]
    /\ unfit = {} /\ edits = 0 /\ mishaps = 0
-----------------------------------------------------------------------------
VisitBecomes(v, state) == visit' = [visit EXCEPT ![v] = state]
VisitGoes(v, pc) == VisitBecomes(v, [visit[v] EXCEPT !.pc = pc])

OrderRows(s) == {s} \X sold[s].lines

\* reserveStock and releaseStockIn, under the listing's row lock.
Taken(units) == [g \in Goods |-> IF g \in units THEN shelf[g] - 1 ELSE shelf[g]]
PutBack(units) == [g \in Goods |-> IF g \in units THEN shelf[g] + 1 ELSE shelf[g]]

InStock(units) == \A g \in units : shelf[g] >= 1

\* The session whose rows visit v treats.
OfVisit(v, s) == visit[v].at = {s}

-----------------------------------------------------------------------------
(* A visit.                                                                *)

\* The stored basket is resolved first, and a line the shelf cannot serve refuses
\* it: the shelf already lacks what the buyer's own open session reserved.
ResolveBasket(v) ==
    /\ visit[v].pc \in {"rest", "refused"}
    /\ basket[VisitorOf[v]] # {}
    \* so that a session id is left for every visit under way
    /\ Cardinality({s \in Sessions : sold[s].state = "none"})
          > Cardinality({u \in Visits : visit[u].pc \notin {"rest", "refused"}})
    /\ IF InStock(basket[VisitorOf[v]])
       THEN VisitBecomes(v, [Idle EXCEPT !.pc = "look", !.lines = basket[VisitorOf[v]]])
       ELSE VisitBecomes(v, [Idle EXCEPT !.pc = "refused", !.lines = basket[VisitorOf[v]]])
    /\ UNCHANGED <<checkoutRows, sold, aged, sweep, hook, checkoutCounts>>

\* resumeBasketSession: the ids under the buyer's pending rows.
LookForSessions(v) ==
    /\ visit[v].pc = "look"
    /\ VisitBecomes(v, [visit[v] EXCEPT !.pc = "read",
           !.todo = {s \in Sessions : sold[s].buyer = {VisitorOf[v]} /\ order[s] = "pending"}])
    /\ UNCHANGED <<checkoutRows, sold, aged, sweep, hook, checkoutCounts>>

\* Mutated form of ReadSession: a paid session does not make the visit wait.
ReadOpenSession(v, s) ==
    /\ visit[v].pc = "read" /\ s \in visit[v].todo
    /\ LET same == sold[s].lines = visit[v].lines
           on == [visit[v] EXCEPT !.todo = @ \ {s}, !.at = {s}]
           left == [visit[v] EXCEPT !.todo = @ \ {s}]
       IN  \/ VisitBecomes(v, Idle)
           \/ /\ s \notin keyed /\ ~(same /\ sold[s].state = "open")
              /\ \/ sold[s].state = "open" /\ VisitBecomes(v, [on EXCEPT !.pc = "expire"])
                 \/ sold[s].state = "expired" /\ VisitBecomes(v, [on EXCEPT !.pc = "fail"])
                 \/ sold[s].state = "paid" /\ VisitBecomes(v, left)
    /\ UNCHANGED <<checkoutRows, sold, aged, sweep, hook, checkoutCounts>>

\* The basket's own session ends the visit: it is resumed when open and waited for when
\* paid; one of another basket is closed.  A session that cannot be read ends it too:
\* retrieveCheckoutSession throws on an unreachable Stripe and on an id it does not know
\* (a PaymentIntent's), nothing on the way catches it, and the null that would be
\* skipped is answered only where no Stripe key is set, which the route refuses first.
ReadSession(v, s) ==
    /\ visit[v].pc = "read" /\ s \in visit[v].todo
    /\ LET same == sold[s].lines = visit[v].lines
           on == [visit[v] EXCEPT !.todo = @ \ {s}, !.at = {s}]
           left == [visit[v] EXCEPT !.todo = @ \ {s}]
       IN  \/ VisitBecomes(v, Idle)
           \/ /\ s \notin keyed /\ ~(same /\ sold[s].state \in {"open", "paid"})
              /\ \/ sold[s].state = "open" /\ VisitBecomes(v, [on EXCEPT !.pc = "expire"])
                 \/ sold[s].state = "expired" /\ VisitBecomes(v, [on EXCEPT !.pc = "fail"])
                 \/ sold[s].state = "paid" /\ VisitBecomes(v, left)
    /\ UNCHANGED <<checkoutRows, sold, aged, sweep, hook, checkoutCounts>>

\* Mutated form of ExpireSession: the refusal reads as a session that is closed.
ExpireOrClosed(v, s) ==
    /\ visit[v].pc = "expire" /\ OfVisit(v, s)
    /\ sold' = [sold EXCEPT ![s].state = IF @ = "open" THEN "expired" ELSE @]
    /\ VisitGoes(v, "fail")
    /\ UNCHANGED <<checkoutRows, aged, sweep, hook, checkoutCounts>>

\* Stripe refuses to expire a session that is no longer open.  No caller reads the
\* refusal as "nothing left to close" (lib/processor.ts): it is thrown and ends the
\* request.
ExpireSession(v, s) ==
    /\ visit[v].pc = "expire" /\ OfVisit(v, s)
    /\ IF sold[s].state = "open"
       THEN /\ sold' = [sold EXCEPT ![s].state = "expired"]
            /\ VisitGoes(v, "fail")
       ELSE VisitBecomes(v, Idle) /\ UNCHANGED sold
    /\ UNCHANGED <<checkoutRows, aged, sweep, hook, checkoutCounts>>

\* Mutated form of FailRows: rows whose stock went back before are released again.
FailAndHoldAll(v, s) ==
    /\ visit[v].pc = "fail" /\ OfVisit(v, s)
    /\ LET open == order[s] = "pending" /\ s \notin keyed
           held == {g \in sold[s].lines : open}
       IN  /\ order' = [order EXCEPT ![s] = IF open THEN "failed" ELSE @]
           /\ VisitBecomes(v, [visit[v] EXCEPT
                  !.pc = IF held = {} THEN "read" ELSE "release", !.hand = held])
    /\ UNCHANGED <<shelf, basket, sold, keyed, returned, aged, sweep, hook, checkoutCounts>>

\* failPendingBasketRows, first statement; it returns the rows it changed.
FailRows(v, s) ==
    /\ visit[v].pc = "fail" /\ OfVisit(v, s)
    /\ LET open == order[s] = "pending" /\ s \notin keyed
           held == {g \in sold[s].lines : open /\ <<s, g>> \notin returned}
       IN  /\ order' = [order EXCEPT ![s] = IF open THEN "failed" ELSE @]
           /\ VisitBecomes(v, [visit[v] EXCEPT
                  !.pc = IF held = {} THEN "read" ELSE "release", !.hand = held])
    /\ UNCHANGED <<shelf, basket, sold, keyed, returned, aged, sweep, hook, checkoutCounts>>

\* Second statement: releaseStock.
ReleaseRows(v) ==
    /\ visit[v].pc = "release"
    /\ shelf' = PutBack(visit[v].hand)
    /\ VisitGoes(v, "stamp")
    /\ UNCHANGED <<basket, order, keyed, returned, sold, aged, sweep, hook, checkoutCounts>>

\* Third: the stamp, by row id.
StampRows(v, s) ==
    /\ visit[v].pc = "stamp" /\ OfVisit(v, s)
    /\ returned' = returned \cup ({s} \X visit[v].hand)
    /\ VisitBecomes(v, [visit[v] EXCEPT !.pc = "read", !.hand = {}])
    /\ UNCHANGED <<shelf, basket, order, keyed, sold, aged, sweep, hook, checkoutCounts>>

\* Mutated form of ReserveLines: the stock was checked when the basket was resolved.
ReserveUnchecked(v) ==
    /\ visit[v].pc = "read" /\ visit[v].todo = {}
    /\ shelf' = Taken(visit[v].lines)
    /\ VisitBecomes(v, [visit[v] EXCEPT !.pc = "create", !.at = {}, !.hand = @ \cup visit[v].lines])
    /\ UNCHANGED <<basket, order, keyed, returned, sold, aged, sweep, hook, checkoutCounts>>

\* All lines or none, in one transaction.
ReserveLines(v) ==
    /\ visit[v].pc = "read" /\ visit[v].todo = {}
    /\ IF InStock(visit[v].lines)
       THEN /\ shelf' = Taken(visit[v].lines)
            /\ VisitBecomes(v, [visit[v] EXCEPT !.pc = "create", !.at = {}, !.hand = @ \cup visit[v].lines])
       ELSE VisitBecomes(v, Idle) /\ UNCHANGED shelf
    /\ UNCHANGED <<basket, order, keyed, returned, sold, aged, sweep, hook, checkoutCounts>>

\* undoReservation: no tax code for a line, or a session without a client secret.
UndoReservation(v) ==
    /\ visit[v].pc = "create"
    /\ shelf' = PutBack(visit[v].hand)
    /\ VisitBecomes(v, Idle)
    /\ UNCHANGED <<basket, order, keyed, returned, sold, aged, sweep, hook, checkoutCounts>>

\* The call throws past undoReservation: the units are on no row.
CreationThrows(v) ==
    /\ visit[v].pc = "create" /\ mishaps < MaxMishaps
    /\ VisitBecomes(v, Idle) /\ mishaps' = mishaps + 1
    /\ UNCHANGED <<checkoutRows, sold, aged, sweep, hook, edits, unfit>>

CreateSession(v, s) ==
    /\ visit[v].pc = "create" /\ sold[s].state = "none"
    /\ \A t \in Sessions : sold[t].state = "none" => s <= t   \* the next id
    /\ sold' = [sold EXCEPT ![s] =
           [buyer |-> {VisitorOf[v]}, lines |-> visit[v].lines, state |-> "open"]]
    /\ VisitBecomes(v, [visit[v] EXCEPT !.pc = "insert", !.at = {s}])
    /\ UNCHANGED <<checkoutRows, aged, sweep, hook, checkoutCounts>>

\* The rows, and with the answer the client secret.
InsertRows(v, s) ==
    /\ visit[v].pc = "insert" /\ OfVisit(v, s)
    /\ order' = [order EXCEPT ![s] = "pending"]
    /\ VisitBecomes(v, Idle)
    /\ UNCHANGED <<shelf, basket, keyed, returned, sold, aged, sweep, hook, checkoutCounts>>

VisitDies(v) ==
    /\ visit[v].pc \notin {"rest", "refused"} /\ mishaps < MaxMishaps
    /\ VisitBecomes(v, Idle) /\ mishaps' = mishaps + 1
    /\ UNCHANGED <<checkoutRows, sold, aged, sweep, hook, edits, unfit>>

-----------------------------------------------------------------------------
(* The completion of a paid session, on the webhook.                       *)

\* Mutated form of DeliverPaid: the basket is left to the buyer.
DeliverAndComplete(s) ==
    /\ hook[s] = "rest" /\ sold[s].state = "paid" /\ order[s] = "pending" /\ s \notin unfit
    /\ keyed' = keyed \cup {s}
    /\ hook' = [hook EXCEPT ![s] = "complete"]
    /\ UNCHANGED <<shelf, basket, order, returned, sold, aged, visit, sweep, checkoutCounts>>

\* Mutated form of DeliverPaid: a redelivery that finds no row under the session stops.
DeliverOnce(s) ==
    /\ hook[s] = "rest" /\ sold[s].state = "paid" /\ order[s] = "pending" /\ s \notin keyed \cup unfit
    /\ keyed' = keyed \cup {s}
    /\ hook' = [hook EXCEPT ![s] = "clear"]
    /\ UNCHANGED <<shelf, basket, order, returned, sold, aged, visit, sweep, checkoutCounts>>

\* Rows still keyed by the session are re-keyed; those re-keyed by an earlier
\* delivery are not found again and the handler goes on to the status.  A refused
\* session is answered with its rows as they are, so its deliveries change nothing.
DeliverPaid(s) ==
    /\ hook[s] = "rest" /\ sold[s].state = "paid" /\ order[s] = "pending" /\ s \notin unfit
    /\ keyed' = keyed \cup {s}
    /\ hook' = [hook EXCEPT ![s] = IF s \in keyed THEN "complete" ELSE "clear"]
    /\ UNCHANGED <<shelf, basket, order, returned, sold, aged, visit, sweep, checkoutCounts>>

ClearBought(s) ==
    /\ hook[s] = "clear"
    /\ basket' = [b \in Buyers |->
           IF sold[s].buyer = {b} THEN basket[b] \ sold[s].lines ELSE basket[b]]
    /\ hook' = [hook EXCEPT ![s] = "complete"]
    /\ UNCHANGED <<shelf, order, keyed, returned, sold, aged, visit, sweep, checkoutCounts>>

CompleteOrder(s) ==
    /\ hook[s] = "complete"
    /\ order' = [order EXCEPT ![s] = IF @ = "pending" THEN "completed" ELSE @]
    /\ hook' = [hook EXCEPT ![s] = "rest"]
    /\ UNCHANGED <<shelf, basket, keyed, returned, sold, aged, visit, sweep, checkoutCounts>>

HookDies(s) ==
    /\ hook[s] # "rest" /\ mishaps < MaxMishaps
    /\ hook' = [hook EXCEPT ![s] = "rest"] /\ mishaps' = mishaps + 1
    /\ UNCHANGED <<checkoutRows, sold, aged, visit, sweep, edits, unfit>>

-----------------------------------------------------------------------------
(* releaseAbandonedStock.                                                  *)

SelectStale(w) ==
    /\ sweep[w] = {}
    /\ sweep' = [sweep EXCEPT ![w] =
           UNION {OrderRows(s) : s \in {t \in aged : order[t] = "pending"}} \ returned]
    /\ sweep'[w] # {}
    /\ UNCHANGED <<checkoutRows, sold, aged, visit, hook, checkoutCounts>>

\* Mutated form of ReturnStale: of what was selected, only the stamp is read again.
ReturnSelected(w, s, g) ==
    /\ <<s, g>> \in sweep[w]
    /\ IF <<s, g>> \notin returned
       THEN /\ shelf' = PutBack({g})
            /\ returned' = returned \cup {<<s, g>>}
       ELSE UNCHANGED <<shelf, returned>>
    /\ sweep' = [sweep EXCEPT ![w] = @ \ {<<s, g>>}]
    /\ UNCHANGED <<basket, order, keyed, sold, aged, visit, hook, checkoutCounts>>

\* One row, re-read under its lock.
ReturnStale(w, s, g) ==
    /\ <<s, g>> \in sweep[w]
    /\ IF order[s] = "pending" /\ <<s, g>> \notin returned
       THEN /\ shelf' = PutBack({g})
            /\ returned' = returned \cup {<<s, g>>}
       ELSE UNCHANGED <<shelf, returned>>
    /\ sweep' = [sweep EXCEPT ![w] = @ \ {<<s, g>>}]
    /\ UNCHANGED <<basket, order, keyed, sold, aged, visit, hook, checkoutCounts>>

SweepDies(w) ==
    /\ sweep[w] # {} /\ mishaps < MaxMishaps
    /\ sweep' = [sweep EXCEPT ![w] = {}] /\ mishaps' = mishaps + 1
    /\ UNCHANGED <<checkoutRows, sold, aged, visit, hook, edits, unfit>>

-----------------------------------------------------------------------------
(* The buyer, Stripe and the clock.                                        *)

ChangeBasket(b) ==
    /\ edits < MaxEdits /\ edits' = edits + 1
    /\ \E lines \in Baskets \ {basket[b]} : basket' = [basket EXCEPT ![b] = lines]
    /\ UNCHANGED <<shelf, order, keyed, returned, sold, aged, visit, sweep, hook, mishaps, unfit>>

\* Only with the client secret, which the answer to the visit carries, and by card, so
\* a session that is complete is paid.  What it was paid with decides for good whether
\* completeSessionPurchases refuses it: an address outside the US, or a session or an
\* intent that does not match.
PaySession(s) ==
    /\ sold[s].state = "open" /\ order[s] # "none"
    /\ sold' = [sold EXCEPT ![s].state = "paid"]
    /\ unfit' \in {unfit, unfit \cup {s}}
    /\ UNCHANGED <<checkoutRows, aged, visit, sweep, hook, edits, mishaps>>

\* A session lives a day.
SessionLapses(s) ==
    /\ sold[s].state = "open"
    /\ sold' = [sold EXCEPT ![s].state = "expired"]
    /\ UNCHANGED <<checkoutRows, aged, visit, sweep, hook, checkoutCounts>>

\* Its rows were inserted after it was built, so they reach the horizon after it.
OrderAges(s) ==
    /\ order[s] = "pending" /\ s \notin aged /\ sold[s].state # "open"
    /\ aged' = aged \cup {s}
    /\ UNCHANGED <<checkoutRows, sold, visit, sweep, hook, checkoutCounts>>

-----------------------------------------------------------------------------
VisitSteps(v) ==
    \/ LookForSessions(v) \/ ReleaseRows(v) \/ ReserveLines(v)
    \/ UndoReservation(v) \/ CreationThrows(v)
    \/ \E s \in Sessions : \/ ReadSession(v, s) \/ ExpireSession(v, s) \/ FailRows(v, s)
                           \/ StampRows(v, s) \/ CreateSession(v, s) \/ InsertRows(v, s)

HookSteps(s) == DeliverPaid(s) \/ ClearBought(s) \/ CompleteOrder(s)

SweepSteps(w) == SelectStale(w) \/ \E s \in Sessions, g \in Goods : ReturnStale(w, s, g)

ClockSteps(s) == SessionLapses(s) \/ OrderAges(s)

CheckoutNext ==
    \/ \E v \in Visits : ResolveBasket(v) \/ VisitSteps(v) \/ VisitDies(v)
    \/ \E s \in Sessions : HookSteps(s) \/ HookDies(s) \/ ClockSteps(s) \/ PaySession(s)
    \/ \E w \in Sweeps : SweepSteps(w) \/ SweepDies(w)
    \/ \E b \in Buyers : ChangeBasket(b)

CheckoutSpec == CheckoutInit /\ [][CheckoutNext]_checkoutVars
-----------------------------------------------------------------------------
(* Properties.                                                             *)

VisitPlaces == {"rest", "refused", "look", "read", "expire", "fail", "release", "stamp",
                "create", "insert"}

SessionType == [buyer : SUBSET Buyers, lines : SUBSET Goods,
                state : {"none", "open", "paid", "expired"}]

VisitType == [pc : VisitPlaces, lines : SUBSET Goods, todo : SUBSET Sessions,
              at : SUBSET Sessions, hand : SUBSET Goods]

CheckoutTypeOK ==
    /\ shelf \in [Goods -> Nat]
    /\ basket \in [Buyers -> SUBSET Goods]
    /\ sold \in [Sessions -> SessionType]
    /\ order \in [Sessions -> {"none", "pending", "failed", "completed"}]
    /\ keyed \subseteq Sessions /\ aged \subseteq Sessions
    /\ returned \subseteq Sessions \X Goods
    /\ visit \in [Visits -> VisitType]
    /\ sweep \in [Sweeps -> SUBSET (Sessions \X Goods)]
    /\ hook \in [Sessions -> {"rest", "clear", "complete"}]
    /\ unfit \subseteq Sessions
    /\ edits \in 0..MaxEdits /\ mishaps \in 0..MaxMishaps

\* The visits that hold a unit of g off the shelf.
Holding(g) == {v \in Visits : g \in visit[v].hand /\ visit[v].pc # "stamp"}

\* The orders a unit of g stands on.
Standing(g) == {s \in Sessions : /\ order[s] \in {"pending", "completed"}
                                 /\ g \in sold[s].lines /\ <<s, g>> \notin returned}

Accounted(g) == shelf[g] + Cardinality(Holding(g)) + Cardinality(Standing(g))

\* No unit is sold or returned twice: what the shelf shows, what visits hold and what
\* orders stand on never exceed the stock (reserveStock's lock, the three statements
\* of failPendingBasketRows, the sweep's re-read).
NoUnitInvented == \A g \in Goods : Accounted(g) <= Stock[g]

\* And none is lost, as long as no process dies and no session creation throws.
NoUnitLost == mishaps = 0 => \A g \in Goods : Accounted(g) = Stock[g]

StockIsAccounted == NoUnitInvented /\ NoUnitLost

\* A session that was paid keeps its rows until they complete: a visit that closes
\* it for another basket neither fails them nor returns their stock
\* (resumeBasketSession), which goes back only when the webhook is later than the
\* sweep's horizon.
PaidOrdersStand ==
    \A s \in Sessions : sold[s].state = "paid" =>
        /\ order[s] # "failed"
        /\ s \in aged \/ returned \cap OrderRows(s) = {}

\* A buyer with one tab never has two sessions for the same basket that are open or
\* being confirmed ("not charged twice", resumeBasketSession).
NoSecondCharge ==
    (\A u, v \in Visits : VisitorOf[u] = VisitorOf[v] => u = v) =>
        \A s, t \in Sessions :
            /\ order[s] = "pending" /\ order[t] = "pending"
            /\ sold[s].state \in {"open", "paid"} /\ sold[t].state \in {"open", "paid"}
            /\ sold[s].buyer = sold[t].buyer /\ sold[s].lines = sold[t].lines
            => s = t

\* What was bought leaves the basket, and with it the offer to pay for it again,
\* unless the delivery died between re-keying and clearing: the next one finds no row
\* under the session and does not clear ("a redelivery finds the rows already gone").
BoughtLeavesBasket ==
    mishaps = 0 /\ edits = 0 => \A s \in Sessions, b \in Buyers :
        order[s] = "completed" /\ sold[s].buyer = {b} => basket[b] \cap sold[s].lines = {}

\* A completed order's stock stays sold (releaseAbandonedStock's re-read).
SalesKeepStock ==
    [][\A s \in Sessions : order[s] = "completed" =>
          returned' \cap OrderRows(s) = returned \cap OrderRows(s)]_checkoutVars

\* What a buyer reserved is sold, or comes back to the shelf, unless a process died
\* on the way: sessions lapse, rows age, and the sweep runs every day.  And what was
\* paid is delivered, deaths or not: Stripe repeats the event until it is answered.
\* Only a session that completeSessionPurchases refuses stays as it is, paid and with
\* its rows pending, and then the sweep takes back what it holds.
OrdersEnd ==
    []<>(\A s \in Sessions :
            LET bought == sold[s].state = "paid" /\ s \notin unfit
            IN  /\ bought => order[s] = "completed"
                /\ order[s] \in {"pending", "failed"} =>
                      OrderRows(s) \subseteq returned \/ mishaps > 0)

\* "A revisit with the same basket gets the same open session back": a visit is not
\* refused for want of the stock its own open session reserved.
RevisitResumes ==
    \A v \in Visits : visit[v].pc = "refused" =>
        ~ \E s \in Sessions : /\ sold[s].state = "open" /\ order[s] = "pending"
                              /\ sold[s].buyer = {VisitorOf[v]}
                              /\ sold[s].lines = visit[v].lines
=============================================================================
