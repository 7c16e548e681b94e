---------------------------- MODULE BackOfficeProofs ----------------------------
(***************************************************************************)
(* The four components of MCBackOffice, run in one behaviour, keep what    *)
(* each of them keeps alone: a behaviour of the back office is a behaviour *)
(* of each component, so whatever is proved of a component's specification *)
(* holds of the specification that TLC runs.                               *)
(***************************************************************************)
EXTENDS MCBackOffice, CheckoutProofs, ShipmentsProofs, SpaceOutboxProofs, SettlementProofs

\* A step of the back office is a step of one component and leaves the others alone,
\* so its behaviours implement every one of the components.
LEMMA EachPartBehaves ==
  Spec => CheckoutSpec /\ ShipmentsSpec /\ OutboxSpec /\ SettlementSpec
<1>1. Init => CheckoutInit /\ ShipmentsInit /\ OutboxInit /\ SettlementInit
  BY DEF Init
<1>2. [Next]_backOfficeVars => [CheckoutNext]_checkoutVars
  BY DEF Next, backOfficeVars
<1>3. [Next]_backOfficeVars => [ShipmentsNext]_shipmentsVars
  BY DEF Next, backOfficeVars
<1>4. [Next]_backOfficeVars => [OutboxNext]_outboxVars
  BY DEF Next, backOfficeVars
<1>5. [Next]_backOfficeVars => [SettlementNext]_settlementVars
  BY DEF Next, backOfficeVars
<1> QED
  BY <1>1, <1>2, <1>3, <1>4, <1>5, PTL
  DEF Spec, CheckoutSpec, ShipmentsSpec, OutboxSpec, SettlementSpec

\* Every variable of the back office keeps its type.
THEOREM TypeOKAlways == Spec => []TypeOK
  BY EachPartBehaves, CheckoutTypeOKAlways, ShipmentsTypeOKAlways, OutboxTypeOKAlways,
     SettlementTypeOKAlways, PTL DEF TypeOK

\* And what each component keeps, it keeps here: no stock is lost or sold twice and a
\* paid order stands, a report freezes its credit and a parcel is paid after its
\* window, no queued change of a library is forgotten, and the settlement credits
\* what was paid.
THEOREM PartsKeepTheirWord ==
  Spec => /\ [](StockIsAccounted /\ PaidOrdersStand /\ NoSecondCharge /\ BoughtLeavesBasket)
          /\ [](ReportFreezesCredit /\ PaidAfterWindow)
          /\ []NothingForgotten
          /\ [](CreditsFollowPayments /\ StickersPaidAsDirected)
          /\ SalesKeepStock /\ DeliveryBecomesFinal /\ SpaceMovesForward
<1>1. CheckoutSpec => /\ [](StockIsAccounted /\ PaidOrdersStand /\ NoSecondCharge /\ BoughtLeavesBasket)
                      /\ SalesKeepStock
  BY StockIsAccountedAlways, PaidOrdersStandAlways, NoSecondChargeAlways,
     BoughtLeavesBasketAlways, SalesKeepStockAlways, PTL
<1>2. ShipmentsSpec => [](ReportFreezesCredit /\ PaidAfterWindow) /\ DeliveryBecomesFinal
  BY ReportFreezesCreditAlways, PaidAfterWindowAlways, DeliveryBecomesFinalAlways, PTL
<1>3. OutboxSpec => []NothingForgotten /\ SpaceMovesForward
  BY NothingForgottenAlways, SpaceMovesForwardAlways
<1>4. SettlementSpec => [](CreditsFollowPayments /\ StickersPaidAsDirected)
  BY CreditsFollowPaymentsAlways, StickersPaidAsDirectedAlways, PTL
<1> QED BY <1>1, <1>2, <1>3, <1>4, EachPartBehaves
=============================================================================
