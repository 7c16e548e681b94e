------------------------------ MODULE MCBackOffice ------------------------------
(***************************************************************************)
(* Checkout, Shipments, SpaceOutbox and Settlement for TLC.  They share no *)
(* row, so a behaviour moves in one of them, its part, and rests in the    *)
(* others.                                                                 *)
(***************************************************************************)
EXTENDS Checkout, Shipments, SpaceOutbox, Settlement

CONSTANT Parts

VARIABLE part

backOfficeVars == <<part, checkoutVars, shipmentsVars, outboxVars, settlementVars>>

TwoTeesOneMug == [g \in Goods |-> IF g = "tee" THEN 2 ELSE 1]
SmallAndBig == {{"tee"}, {"tee", "mug"}}
OneTabEach == [v \in Visits |-> v]

SamPays == [i \in Invoices |-> "sam"]
AnnThenBob == [i \in Invoices |-> IF i = 1 THEN "ann" ELSE "bob"]
SamGives == [s \in Stickers |-> "sam"]
ToBob == [s \in Stickers |-> "bob"]
TheyWatch == {<<"tom", "ann">>, <<"sam", "bob">>}

Init ==
    /\ part \in Parts
    /\ CheckoutInit /\ ShipmentsInit /\ OutboxInit /\ SettlementInit
    /\ part # "checkout" => \A b \in Buyers : basket[b] = {"tee"}
    /\ part # "settlement" => suspended = {}
    \* Fewer starts: the buyers are alike, and of the suspensions all or none.
    /\ \A b, c \in Buyers : b < c => basket[b] \subseteq basket[c]
    /\ suspended \in {{}, Creators}

Next ==
    \/ /\ part = "checkout" /\ CheckoutNext
       /\ UNCHANGED <<part, shipmentsVars, outboxVars, settlementVars>>
    \/ /\ part = "shipments" /\ ShipmentsNext
       /\ UNCHANGED <<part, checkoutVars, outboxVars, settlementVars>>
    \/ /\ part = "outbox" /\ OutboxNext
       /\ UNCHANGED <<part, checkoutVars, shipmentsVars, settlementVars>>
    \/ /\ part = "settlement" /\ SettlementNext
       /\ UNCHANGED <<part, checkoutVars, shipmentsVars, outboxVars>>

\* A request runs to its end or its process dies; Stripe repeats an event until it is
\* answered; sessions lapse, rows age, and the sweep is daily.
Daemons ==
    \/ \E s \in Sessions : HookSteps(s) \/ ClockSteps(s)
    \/ \E w \in Sweeps : SweepSteps(w)

CheckoutFairness ==
    /\ \A v \in Visits : WF_checkoutVars(part = "checkout" /\ VisitSteps(v))
    /\ WF_checkoutVars(part = "checkout" /\ Daemons)

\* Days pass, the two daily jobs and the requests under way go on.
ShipmentsFairness ==
    /\ WF_shipmentsVars(part = "shipments" /\ Tick)
    /\ WF_shipmentsVars(part = "shipments" /\ PaydaySteps)
    /\ WF_shipmentsVars(part = "shipments" /\ RoundSteps)
    /\ \A c \in Clerks :
          WF_shipmentsVars(part = "shipments" /\ \E p \in Parcels : ClerkWrites(c, p))

\* The drain is scheduled every minute; a task goes on while its process lives.
OutboxFairness ==
    /\ WF_outboxVars(part = "outbox" /\ DrainSteps)
    /\ \A k \in Entries : WF_outboxVars(part = "outbox" /\ TaskSteps(k))

\* The job is scheduled every month and retried.
SettlementFairness == WF_settlementVars(part = "settlement" /\ RunSteps)

Spec == Init /\ [][Next]_backOfficeVars

FairSpec ==
    /\ Spec
    /\ CheckoutFairness /\ ShipmentsFairness /\ OutboxFairness /\ SettlementFairness
-----------------------------------------------------------------------------
\* Every variable has its type.
TypeOK == CheckoutTypeOK /\ ShipmentsTypeOK /\ OutboxTypeOK /\ SettlementTypeOK
=============================================================================
