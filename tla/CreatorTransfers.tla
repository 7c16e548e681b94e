--------------------------- MODULE CreatorTransfers ---------------------------
(***************************************************************************)
(* How one creator's held money reaches their connected account:           *)
(* jobs/transfer-held-credits.ts, with the netting ledger it applies       *)
(* (services/netting.ts) and the sale credit a refund takes away           *)
(* (services/purchase-split.ts).  Every read of the job is filtered by the *)
(* creator, so one creator is the whole state.                             *)
(*                                                                         *)
(* The job is a sequence of database reads, one Stripe call and one        *)
(* transaction.  Each read, the call and the transaction is an action of   *)
(* its own; webhooks and refunds act between any two of them, and the      *)
(* process may die at any of them.  An in-flight run is run: the set of    *)
(* credits it selected, the plan and the sum it computed, and where it is. *)
(*                                                                         *)
(* Stripe identifies a transfer by its idempotency key, which is the       *)
(* sorted coverage set.  A Stripe transfer is therefore named by the set   *)
(* of credits it moves, and so is a creator_transfers row, with the branch *)
(* that wrote it.                                                          *)
(***************************************************************************)
EXTENDS NettingPlan

CONSTANTS
    Credits,         \* ids of creator_credits rows, in insertion order
    Sales,           \* the credits of kind "sale": a refund can remove them
    Nettings,        \* ids of creator_nettings rows, in insertion order
    Disputes,        \* the nettings a purchase dispute opens
    Price,           \* what each credit was written for, in cents
    Share,           \* what each netting is to recover, in cents
    CompensationOf,  \* the credit a won dispute writes, for each dispute
    RefundOf,        \* the netting that refunding a paid-out sale opens
    MaxFaults,       \* bound: deaths, timeouts and failed transactions
    Quiet            \* TRUE: nothing disturbs a transfer until it is recorded

Compensations == {CompensationOf[n] : n \in Disputes}

ASSUME IdsAssumption ==
    /\ Credits \subseteq Nat /\ Nettings \subseteq Nat
    /\ IsFiniteSet(Credits) /\ IsFiniteSet(Nettings)
    /\ Sales \subseteq Credits /\ Disputes \subseteq Nettings

ASSUME LinksAssumption ==
    /\ CompensationOf \in [Disputes -> Credits \ Sales]
    /\ \A m, n \in Disputes : CompensationOf[m] = CompensationOf[n] => m = n
    /\ RefundOf \in [Sales -> Nettings \ Disputes]
    /\ \A c, d \in Sales : RefundOf[c] = RefundOf[d] => c = d

ASSUME MoneyAssumption ==
    /\ Price \in [Credits -> Int]
    /\ Share \in [Nettings -> Nat \ {0}]

ASSUME EnvironmentAssumption == MaxFaults \in Nat /\ Quiet \in BOOLEAN

VARIABLES
    credit,        \* creator_credits: whether the row exists and may move
    worth,         \* creator_credits.amount
    netting,       \* creator_nettings: absent, open, or reversed
    applications,  \* creator_netting_applications
    transfers,     \* creator_transfers, with the set its coverage rows name
    stripe,        \* the transfers Stripe has accepted
    run,           \* the run of the job in flight, if any
    refund,        \* how far the refund of each sale has come
    ready,         \* payoutStanding(creator).ready
    suspended,     \* users.suspendedAt is not null
    faults

vars == <<credit, worth, netting, applications, transfers, stripe, run, refund,
          ready, suspended, faults>>

database == <<credit, worth, netting, applications, transfers>>

environment == <<refund, ready, suspended, faults>>

Idle == [pc |-> "idle", set |-> {}, plan |-> {}, sum |-> 0]

Application == [netting : Nettings, credit : Credits, amount : Int,
                reversed : BOOLEAN]

-----------------------------------------------------------------------------
(* What the queries read.                                                  *)

\* The coverage rows that name c.  They are written with their transfer and
\* disappear only with the credit itself (onDelete: cascade).
Covering(c) == {t \in transfers : c \in t.set /\ credit[c] # "deleted"}

\* Mutated form of Held: the anti-join on the coverage rows is left out.
HeldOrCovered == {c \in Credits : credit[c] = "due"}

\* creatorCredits that are old enough, or whose parcel released them, and that
\* no coverage row names.
Held == {c \in Credits : credit[c] = "due" /\ Covering(c) = {}}

Live(n) == {a \in applications : a.netting = n /\ ~a.reversed}

Recovered(n) == Amounts(Live(n))

\* Mutated form of Remaining: the recovered part is not subtracted.
WholeShare == [n \in Nettings |-> IF netting[n] = "open" THEN Share[n] ELSE 0]

\* openNettingFor: what each netting still has to recover, floored at zero.
Remaining == [n \in Nettings |->
                IF netting[n] = "open" THEN Positive(Share[n] - Recovered(n)) ELSE 0]

Open == {n \in Nettings : Remaining[n] > 0}

Accepted == {s.set : s \in stripe}

Recorded == {t.set : t \in {u \in transfers : u.via = "stripe"}}

\* Stripe moved the money and no row says so yet.
Unrecorded == Accepted \ Recorded

-----------------------------------------------------------------------------
\* Every settlement credit has been written by settleSupporterMonth, every sale
\* credit by creditGoodsSales, and each is still held.
Init ==
    /\ credit = [c \in Credits |-> IF c \in Compensations THEN "absent" ELSE "held"]
    /\ worth = Price
    /\ netting = [n \in Nettings |-> "absent"]
    /\ applications = {}
    /\ transfers = {}
    /\ stripe = {}
    /\ run = Idle
    /\ refund = [c \in Sales |-> "none"]
    /\ ready = TRUE
    /\ suspended = FALSE
    /\ faults = 0
-----------------------------------------------------------------------------
(* The run.                                                                *)

\* No transfer is on its way: none in flight, none unrecorded.
Undisturbed == run = Idle /\ Unrecorded = {}

\* Mutated form of Select: a run takes a page of the candidates, so a retry may
\* take another.
SelectPage ==
    /\ run = Idle
    /\ Quiet => \A c \in Sales : refund[c] # "deleting"
    /\ \E S \in (SUBSET Held) \ {{}} : run' = [Idle EXCEPT !.pc = "standing", !.set = S]
    /\ UNCHANGED <<database, stripe, environment>>

\* transferHeldCredits reads the candidates and groups them by creator; a
\* creator with none is not visited.
Select ==
    /\ run = Idle
    /\ Held # {}
    /\ Quiet => \A c \in Sales : refund[c] # "deleting"
    /\ run' = [Idle EXCEPT !.pc = "standing", !.set = Held]
    /\ UNCHANGED <<database, stripe, environment>>

CheckStanding ==
    /\ run.pc = "standing"
    /\ run' = IF ready THEN [run EXCEPT !.pc = "suspension"] ELSE Idle
    /\ UNCHANGED <<database, stripe, environment>>

\* The suspension is read, then the sum before netting: a negative set is left
\* uncovered.
CheckSuspension ==
    /\ run.pc = "suspension"
    /\ run' = IF suspended \/ Total(worth, run.set) < 0
                 THEN Idle
                 ELSE [run EXCEPT !.pc = "plan"]
    /\ UNCHANGED <<database, stripe, environment>>

\* Mutated form of PlanNetting: the plan is committed when it is made.
PlanAndApply ==
    /\ run.pc = "plan"
    /\ LET plan == Plan(Open, Remaining, run.set, worth)
           sum  == PlanSum(plan, run.set, worth)
       IN  /\ run' = [run EXCEPT !.pc = IF sum = 0 THEN "close" ELSE "call",
                                 !.plan = plan, !.sum = sum]
           /\ applications' = applications \cup plan
    /\ UNCHANGED <<credit, worth, netting, transfers, stripe, environment>>

\* Mutated form of PlanNetting: a set nothing is left of is skipped, not closed.
PlanOrSkip ==
    /\ run.pc = "plan"
    /\ LET plan == Plan(Open, Remaining, run.set, worth)
           sum  == PlanSum(plan, run.set, worth)
       IN  run' = IF sum = 0 THEN Idle
                  ELSE [run EXCEPT !.pc = "call", !.plan = plan, !.sum = sum]
    /\ UNCHANGED <<database, stripe, environment>>

\* nettingPlanFor reads the open nettings and writes nothing.  Nothing left to
\* move closes the set without a call.
PlanNetting ==
    /\ run.pc = "plan"
    /\ LET plan == Plan(Open, Remaining, run.set, worth)
           sum  == PlanSum(plan, run.set, worth)
       IN  run' = [run EXCEPT !.pc = IF sum = 0 THEN "close" ELSE "call",
                              !.plan = plan, !.sum = sum]
    /\ UNCHANGED <<database, stripe, environment>>

\* The coverage rows reference their credits: a row for a deleted credit aborts
\* the transaction that writes it.
CanCover == \A c \in run.set : credit[c] # "deleted"

\* insert ... onConflictDoNothing on the (netting, credit) pair.
WithPlan ==
    applications \cup
        {a \in run.plan : \A b \in applications :
                             b.netting # a.netting \/ b.credit # a.credit}

\* insert ... onConflictDoNothing on stripe_transfer_id.
WithRow(via, amount) ==
    IF \E t \in transfers : t.set = run.set /\ t.via = via
      THEN transfers
      ELSE transfers \cup {[set |-> run.set, via |-> via, amount |-> amount]}

\* The transaction that closes a set nothing is left of.
CloseAtZero ==
    /\ run.pc = "close"
    /\ CanCover
    /\ applications' = WithPlan
    /\ transfers' = WithRow("local", 0)
    /\ run' = Idle
    /\ UNCHANGED <<credit, worth, netting, stripe, environment>>

\* stripe.transfers.create under a key Stripe has not seen.
StripeAccepts ==
    /\ run.pc = "call"
    /\ run.set \notin Accepted
    /\ stripe' = stripe \cup {[set |-> run.set, amount |-> run.sum]}
    /\ run' = [run EXCEPT !.pc = "record"]
    /\ UNCHANGED <<database, environment>>

\* The same key with the same parameters replays the first answer.
StripeReplays ==
    /\ run.pc = "call"
    /\ [set |-> run.set, amount |-> run.sum] \in stripe
    /\ run' = [run EXCEPT !.pc = "record"]
    /\ UNCHANGED <<database, stripe, environment>>

\* The same key with another amount is an error, which ends this creator's turn.
StripeRefusesKey ==
    /\ run.pc = "call"
    /\ run.set \in Accepted
    /\ [set |-> run.set, amount |-> run.sum] \notin stripe
    /\ run' = Idle
    /\ UNCHANGED <<database, stripe, environment>>

\* Mutated form of Record: the row carries the sum before netting.
RecordGross ==
    /\ run.pc = "record"
    /\ CanCover
    /\ transfers' = WithRow("stripe", Total(worth, run.set))
    /\ applications' = IF transfers' = transfers THEN applications ELSE WithPlan
    /\ run' = Idle
    /\ UNCHANGED <<credit, worth, netting, stripe, environment>>

\* Mutated form of Record: the plan is applied only when nothing moves.
RecordWithoutPlan ==
    /\ run.pc = "record"
    /\ CanCover
    /\ transfers' = WithRow("stripe", run.sum)
    /\ run' = Idle
    /\ UNCHANGED <<credit, worth, netting, applications, stripe, environment>>

\* The transaction that writes the row, its coverage and the plan.
Record ==
    /\ run.pc = "record"
    /\ CanCover
    /\ transfers' = WithRow("stripe", run.sum)
    /\ applications' = IF transfers' = transfers THEN applications ELSE WithPlan
    /\ run' = Idle
    /\ UNCHANGED <<credit, worth, netting, stripe, environment>>

\* A transaction that names a deleted credit fails; transferHeldCredits catches
\* what one creator throws.
TransactionFails ==
    /\ run.pc \in {"close", "record"}
    /\ ~CanCover
    /\ run' = Idle
    /\ UNCHANGED <<database, stripe, environment>>

\* The process dies, a statement or the call throws, or the answer is lost.
Fault ==
    /\ run # Idle
    /\ faults < MaxFaults
    /\ faults' = faults + 1
    /\ run' = Idle
    /\ UNCHANGED <<database, stripe, refund, ready, suspended>>

-----------------------------------------------------------------------------
(* What happens beside the run.                                            *)

Calm == Quiet => Undisturbed

\* Fourteen days pass since settledAt, or the parcel's complaint window closes.
Mature(c) ==
    /\ Calm
    /\ credit[c] = "held"
    /\ credit' = [credit EXCEPT ![c] = "due"]
    /\ UNCHANGED <<worth, netting, applications, transfers, stripe, run, environment>>

\* recordNettingForDispute, from charge.dispute.created on another sale.
DisputeOpens(n) ==
    /\ Calm
    /\ netting[n] = "absent"
    /\ netting' = [netting EXCEPT ![n] = "open"]
    /\ UNCHANGED <<credit, worth, applications, transfers, stripe, run, environment>>

\* Mutated form of DisputeWon: the whole share is handed back.
DisputeWonInFull(n) ==
    /\ Calm
    /\ netting[n] = "open"
    /\ netting' = [netting EXCEPT ![n] = "reversed"]
    /\ applications' = (applications \ Live(n))
                           \cup {[a EXCEPT !.reversed = TRUE] : a \in Live(n)}
    /\ worth' = [worth EXCEPT ![CompensationOf[n]] = Share[n]]
    /\ credit' = [credit EXCEPT ![CompensationOf[n]] = "held"]
    /\ UNCHANGED <<transfers, stripe, run, environment>>

\* reverseNettingForWonDispute: one transaction.  What was recovered is stamped
\* reversed and comes back as a credit of its own, with its own hold.
DisputeWon(n) ==
    /\ Calm
    /\ netting[n] = "open"
    /\ netting' = [netting EXCEPT ![n] = "reversed"]
    /\ applications' = (applications \ Live(n))
                           \cup {[a EXCEPT !.reversed = TRUE] : a \in Live(n)}
    /\ LET c == CompensationOf[n] IN
         /\ worth' = [worth EXCEPT ![c] = Recovered(n)]
         /\ credit' = [credit EXCEPT ![c] = IF Recovered(n) > 0 THEN "held" ELSE @]
    /\ UNCHANGED <<transfers, stripe, run, environment>>

\* settleSaleCreditOnRefund reads the coverage of the sale's credit.  Covered,
\* the share has left, and the refund opens a netting for it.
RefundFindsItPaid(c) ==
    /\ Calm
    /\ refund[c] = "none"
    /\ Covering(c) # {}
    /\ refund' = [refund EXCEPT ![c] = "done"]
    /\ netting' = [netting EXCEPT ![RefundOf[c]] = "open"]
    /\ UNCHANGED <<credit, worth, applications, transfers, stripe, run, ready,
                   suspended, faults>>

\* Mutated form of RefundFindsItHeld: the coverage is not read.
RefundTakesIt(c) ==
    /\ Calm
    /\ refund[c] = "none"
    /\ refund' = [refund EXCEPT ![c] = "deleting"]
    /\ UNCHANGED <<database, stripe, run, ready, suspended, faults>>

\* Not covered, the credit is to go.
RefundFindsItHeld(c) ==
    /\ Calm
    /\ refund[c] = "none"
    /\ Covering(c) = {}
    /\ refund' = [refund EXCEPT ![c] = "deleting"]
    /\ UNCHANGED <<database, stripe, run, ready, suspended, faults>>

\* The delete is a statement of its own and names nothing but the id; the
\* credit's coverage and applications go with it.
RefundDeletes(c) ==
    /\ refund[c] = "deleting"
    /\ refund' = [refund EXCEPT ![c] = "done"]
    /\ credit' = [credit EXCEPT ![c] = "deleted"]
    /\ applications' = {a \in applications : a.credit # c}
    /\ UNCHANGED <<worth, netting, transfers, stripe, run, ready, suspended, faults>>

\* account.updated, and the moderation actions on the account.
StandingChanges ==
    /\ \/ ready' = ~ready /\ UNCHANGED suspended
       \/ suspended' = ~suspended /\ UNCHANGED ready
    /\ UNCHANGED <<database, stripe, run, refund, faults>>

-----------------------------------------------------------------------------
Job ==
    \/ Select \/ CheckStanding \/ CheckSuspension \/ PlanNetting
    \/ CloseAtZero \/ StripeAccepts \/ StripeReplays \/ StripeRefusesKey
    \/ Record \/ TransactionFails

Next ==
    \/ Job
    \/ Fault
    \/ \E c \in Credits : Mature(c)
    \/ \E n \in Disputes : DisputeOpens(n) \/ DisputeWon(n)
    \/ \E c \in Sales : RefundFindsItPaid(c) \/ RefundFindsItHeld(c) \/ RefundDeletes(c)
    \/ StandingChanges

Spec == Init /\ [][Next]_vars

\* The scheduler starts the job every day and each of its steps answers or
\* throws; a refund that began ends.  Nothing else is promised.
FairSpec == Spec /\ WF_vars(Job) /\ \A c \in Sales : WF_vars(RefundDeletes(c))
-----------------------------------------------------------------------------
(* Properties.                                                             *)

Row == [set : SUBSET Credits, via : {"stripe", "local"}, amount : Int]

IsApplication(a) ==
    /\ a = [netting |-> a.netting, credit |-> a.credit, amount |-> a.amount,
            reversed |-> a.reversed]
    /\ a.netting \in Nettings
    /\ a.credit \in Credits

IsRun ==
    /\ run = [pc |-> run.pc, set |-> run.set, plan |-> run.plan, sum |-> run.sum]
    /\ run.pc \in {"idle", "standing", "suspension", "plan", "close", "call", "record"}
    /\ run.set \subseteq Credits
    /\ \A a \in run.plan : IsApplication(a)

\* The shape of the state, amounts aside: every row names rows that exist.
ShapeOK ==
    /\ credit \in [Credits -> {"absent", "held", "due", "deleted"}]
    /\ netting \in [Nettings -> {"absent", "open", "reversed"}]
    /\ \A a \in applications : IsApplication(a)
    /\ \A t \in transfers : t.set \subseteq Credits /\ t.via \in {"stripe", "local"}
    /\ \A s \in stripe : s.set \subseteq Credits
    /\ IsRun
    /\ refund \in [Sales -> {"none", "deleting", "done"}]
    /\ ready \in BOOLEAN /\ suspended \in BOOLEAN
    /\ faults \in 0..MaxFaults

\* Type invariant: every row names rows that exist, every amount is whole cents.
TypeOK ==
    /\ ShapeOK
    /\ worth \in [Credits -> Int]
    /\ applications \cup run.plan \subseteq Application
    /\ transfers \subseteq Row
    /\ stripe \subseteq [set : SUBSET Credits, amount : Nat \ {0}]
    /\ run.sum \in Nat

\* A credit is covered at most once, whatever happens around a run: "a re-run
\* ... finds credits already covered, and transfers only the rest".  No unique
\* index says it; only the selection and the run's own order do.
CoveredOnce == \A t, u \in transfers : t # u => t.set \cap u.set = {}

\* The amount on the books is the amount Stripe moved, also when the netting
\* changed between a first call and its replay.
RecordMatchesStripe ==
    \A t \in transfers :
        t.via = "stripe" => [set |-> t.set, amount |-> t.amount] \in stripe

\* Netting is recovered only from money that moved or was closed with it: an
\* application and its credit's coverage are one decision.
NettedWithTheMove == \A a \in applications : Covering(a.credit) # {}

\* No netting recovers more than the share that came back, and no credit gives
\* up more than it is worth.
NettingWithinBounds ==
    /\ \A n \in Nettings : Recovered(n) <= Share[n]
    /\ \A c \in Credits :
          Amounts({a \in applications : a.credit = c}) <= Positive(worth[c])

\* What a row moved and what was netted from its credits add up to what the
\* credits were worth, unless one of them is a correction.
BooksBalance ==
    \A t \in transfers :
        (\A c \in t.set : worth[c] >= 0 /\ credit[c] # "deleted") =>
            t.amount + Amounts({a \in applications : a.credit \in t.set})
                = Total(worth, t.set)

Closed == {t.set : t \in {u \in transfers : u.via = "local"}}

\* "The money moves once however many times the job runs" (jobs/queue.ts): no
\* credit is in two Stripe transfers.
MovedOnce == \A s, u \in stripe : s # u => s.set \cap u.set = {}

\* Nor is a credit in a Stripe transfer and also in a set that was closed at
\* zero, where netting took it: a credit leaves in one way, once.
PaidOnce ==
    /\ MovedOnce
    /\ \A S \in Accepted, C \in Closed : S \cap C = {}

\* A won dispute hands back exactly what was recovered for it, and nothing goes
\* on being recovered: "no application row will ever name it".
WonDisputeRepays ==
    \A n \in Disputes :
        netting[n] = "reversed" =>
            /\ Live(n) = {}
            /\ Amounts({a \in applications : a.netting = n})
                 = IF credit[CompensationOf[n]] = "absent" THEN 0
                   ELSE worth[CompensationOf[n]]

\* Money that may move does move, once the creator stays payable: "Money is
\* never dropped".
DueCreditsSettle ==
    <>[](ready /\ ~suspended) =>
        \A c \in Credits :
            credit[c] = "due" ~> (Covering(c) # {} \/ credit[c] = "deleted")

\* The run implements the abstract ledger: money leaves in batches that share
\* no credit, a batch is recorded after it left, and a withdrawn credit stays.
Ledger == INSTANCE PayoutLedger WITH
            batches   <- Accepted \cup Closed,
            recorded  <- Recorded \cup Closed,
            withdrawn <- {c \in Credits : credit[c] = "deleted"}

LedgerSpec == Ledger!Spec
-----------------------------------------------------------------------------
(* The inductive strengthenings, used by CreatorTransfersProofs.           *)

\* What a run carries: the credits it selected are covered by no row, its plan
\* stays inside them, and before it records, Stripe has said yes to its sum.
RunInv ==
    /\ run.pc = "idle" <=> run = Idle
    /\ run # Idle => run.set # {}
    /\ \A t \in transfers : t.set \cap run.set = {}
    /\ \A a \in run.plan : a.credit \in run.set
    /\ run.pc = "record" => [set |-> run.set, amount |-> run.sum] \in stripe

\* A compensation is not there before its dispute is won, and until it is there
\* no run and no row has it: what a won dispute writes changes no sum in use.
CompensationInv ==
    /\ \A n \in Disputes :
          netting[n] # "reversed" => credit[CompensationOf[n]] = "absent"
    /\ \A c \in run.set : credit[c] # "absent"
    /\ \A t \in transfers : \A c \in t.set : credit[c] # "absent"

\* A row is stamped reversed only with its netting, which is a won dispute's, and
\* a plan's rows never are.
StampInv ==
    /\ \A n \in Nettings : netting[n] = "reversed" => n \in Disputes
    /\ \A a \in applications : a.reversed => netting[a.netting] = "reversed"
    /\ \A a \in run.plan : ~a.reversed

\* What the plan in flight would take, added to what is applied already, stays
\* within the nettings' shares and the credits' worth; and the sum the run
\* carries is what the plan leaves.
PlanInv ==
    /\ \A n \in Nettings :
          Recovered(n) + Amounts({a \in run.plan : a.netting = n}) <= Share[n]
    /\ \A c \in run.set : Amounts({a \in run.plan : a.credit = c}) <= Positive(worth[c])
    /\ run.pc \in {"close", "call", "record"} =>
          /\ run.sum = PlanSum(run.plan, run.set, worth)
          /\ (\A c \in run.set : worth[c] >= 0) =>
                Amounts(run.plan) <= Total(worth, run.set)

\* Only a run that has planned carries a plan and a sum, and a set it is to
\* close has nothing left of it.
StageInv ==
    /\ run.pc \notin {"close", "call", "record"} => run.plan = {} /\ run.sum = 0
    /\ run.pc = "close" => run.sum = 0
    /\ run.pc \in {"call", "record"} => run.sum # 0

\* When nothing disturbs a transfer, the nettings a run planned for stay open.
PlanOpenInv == \A a \in run.plan : netting[a.netting] = "open"

\* What the job would ask Stripe to move for S if it planned now.
SumNow(S) == PlanSum(Plan(Open, Remaining, S, worth), S, worth)

\* When nothing disturbs a transfer, a run's set is what the next run would
\* select, and so is the one transfer that is not yet recorded, with its sum.
QuietInv ==
    /\ run # Idle => run.set = Held
    /\ run.pc \in {"close", "call", "record"} => run.sum = SumNow(run.set)
    /\ run.pc = "close" => run.sum = 0
    /\ run.pc \in {"call", "record"} => run.sum # 0
    /\ \A s \in stripe :
          s.set \in Unrecorded => s.set = Held /\ s.amount = SumNow(Held) /\ s.amount # 0
    /\ (\E c \in Sales : refund[c] = "deleting") => Undisturbed
    /\ \A c \in Credits : credit[c] = "deleted" => c \in Sales /\ refund[c] = "done"
    /\ \A c \in Sales : refund[c] = "deleting" => Covering(c) = {}
    /\ \A t \in transfers : \A c \in t.set : credit[c] # "deleted"
    /\ \A s \in stripe : s.set # {}
=============================================================================
