------------------------------- MODULE Shipments -------------------------------
(***************************************************************************)
(* A parcel from the sale to the creator's money: the creator marks it     *)
(* shipped, the buyer or the daily clock marks it delivered, the buyer may *)
(* report a problem inside the window, and the transfer job pays the held  *)
(* credit once the window has closed and nothing is open                   *)
(* (services/shipments.ts, services/orders.ts, jobs/shipment-clock.ts, the *)
(* selection of jobs/transfer-held-credits.ts).                            *)
(*                                                                         *)
(* Requests and runs take the time once, at their start, and read before   *)
(* they write: the write is by id and checks nothing again.  The clock may *)
(* move between the two by at most Lag.  Nothing resolves a complaint in   *)
(* this code, and no carrier reports a delivery.                           *)
(***************************************************************************)
EXTENDS Integers, FiniteSets

CONSTANTS
    Parcels,     \* purchase ids of the goods, each with its shipment row
    Clerks,      \* requests that may run at the same time
    Fallback,    \* SHIPMENT_DELIVERY_FALLBACK_DAYS
    Window,      \* SHIPMENT_COMPLAINT_WINDOW_DAYS
    Lag,         \* how long a request or a run may take
    MaxMissed,   \* bound: days on which a daily job does not start
    LastDay      \* bound: the clock stops here

Never == -1
Days == 0..LastDay

\* A request takes minutes, the window is days.
ASSUME ShipmentsAssumption ==
    /\ Fallback \in Nat /\ Window \in Nat /\ Lag \in Nat /\ MaxMissed \in Nat /\ LastDay \in Nat
    /\ 2 * Lag < Window
    /\ Never \notin Parcels

VARIABLES
    today,
    shippedAt, deliveredAt, windowEnds, source,   \* the shipments row
    reportedAt,  \* created_at of the open shipment_complaints row
    paidAt,      \* when a transfer covered the sale credit
    clerk,       \* the requests
    rounds,      \* the shipment clock: its time, what it found due, the row it read
    payday,      \* the transfer run: its time and what it found releasable
    missed

parcelRows == <<shippedAt, deliveredAt, windowEnds, source>>
shipmentsVars == <<today, parcelRows, reportedAt, paidAt, clerk, rounds, payday, missed>>

OffDuty == [doing |-> "nothing", parcel |-> Never, at |-> 0]
NoRound == [on |-> FALSE, at |-> 0, due |-> {}, row |-> Never]
NoPayday == [stage |-> "off", at |-> 0, due |-> {}]

ShipmentsInit ==
    /\ today = 0
    /\ shippedAt = [p \in Parcels |-> Never]
    /\ deliveredAt = [p \in Parcels |-> Never]
    /\ windowEnds = [p \in Parcels |-> Never]
    /\ source = [p \in Parcels |-> "none"]
    /\ reportedAt = [p \in Parcels |-> Never]
    /\ paidAt = [p \in Parcels |-> Never]
    /\ clerk = [c \in Clerks |-> OffDuty]
    /\ rounds = NoRound /\ payday = NoPayday /\ missed = 0
-----------------------------------------------------------------------------
Shipped(p) == shippedAt[p] # Never
Delivered(p) == deliveredAt[p] # Never
Reported(p) == reportedAt[p] # Never
Paid(p) == paidAt[p] # Never

\* Request c read the row of p now and will act on it.
Takes(c, doing, p) ==
    /\ clerk[c] = OffDuty
    /\ clerk' = [clerk EXCEPT ![c] = [doing |-> doing, parcel |-> p, at |-> today]]
    /\ UNCHANGED <<today, parcelRows, reportedAt, paidAt, rounds, payday, missed>>

Does(c, doing, p) ==
    /\ clerk[c].doing = doing /\ clerk[c].parcel = p
    /\ clerk' = [clerk EXCEPT ![c] = OffDuty]

\* The update of markDelivered.
StampDelivery(p, from, at) ==
    /\ deliveredAt' = [deliveredAt EXCEPT ![p] = at]
    /\ windowEnds' = [windowEnds EXCEPT ![p] = at + Window]
    /\ source' = [source EXCEPT ![p] = from]

-----------------------------------------------------------------------------
\* markShipped: read, then write.  Not so late that the story cannot end.
ReadToShip(c, p) ==
    /\ ~ Shipped(p) /\ today + Fallback + Window + 2 * Lag + MaxMissed <= LastDay
    /\ Takes(c, "ship", p)

WriteShipped(c, p) ==
    /\ Does(c, "ship", p)
    /\ shippedAt' = [shippedAt EXCEPT ![p] = clerk[c].at]
    /\ UNCHANGED <<today, deliveredAt, windowEnds, source, reportedAt, paidAt, rounds, payday, missed>>

\* Mutated form of ReadToConfirm: a delivery on record may be confirmed again.
ReadToReconfirm(c, p) == Shipped(p) /\ Takes(c, "confirm", p)

\* confirmReceipt, through the route's own look at the order.
ReadToConfirm(c, p) ==
    /\ Shipped(p) /\ ~ Delivered(p)
    /\ Takes(c, "confirm", p)

WriteConfirmed(c, p) ==
    /\ Does(c, "confirm", p)
    /\ StampDelivery(p, "buyer", clerk[c].at)
    /\ UNCHANGED <<today, shippedAt, reportedAt, paidAt, rounds, payday, missed>>

\* openComplaint: delivered, and the window stamped on the row is still open.
ReadToReport(c, p) ==
    /\ Delivered(p) /\ today < windowEnds[p]
    /\ Takes(c, "report", p)

\* A second press finds the partial unique index and changes nothing.
WriteReport(c, p) ==
    /\ Does(c, "report", p)
    /\ reportedAt' = [reportedAt EXCEPT ![p] = IF Reported(p) THEN @ ELSE today]
    /\ UNCHANGED <<today, parcelRows, paidAt, rounds, payday, missed>>

\* Mutated form of Overdue: the day must be met exactly.
OverdueToday == {p \in Parcels : Shipped(p) /\ ~ Delivered(p) /\ shippedAt[p] + Fallback = today}

\* advanceFallbackDeliveries: what is due, then one parcel at a time.
Overdue == {p \in Parcels : Shipped(p) /\ ~ Delivered(p) /\ shippedAt[p] + Fallback <= today}

StartRound ==
    /\ ~ rounds.on /\ Overdue # {}
    /\ rounds' = [on |-> TRUE, at |-> today, due |-> Overdue, row |-> Never]
    /\ UNCHANGED <<today, parcelRows, reportedAt, paidAt, clerk, payday, missed>>

\* markDelivered reads the row again: a delivery known by now is left alone.
ReadDue(p) ==
    /\ rounds.on /\ rounds.row = Never /\ p \in rounds.due
    /\ rounds' = [rounds EXCEPT !.due = @ \ {p}, !.row = IF Delivered(p) THEN Never ELSE p]
    /\ UNCHANGED <<today, parcelRows, reportedAt, paidAt, clerk, payday, missed>>

WriteFallback(p) ==
    /\ rounds.row = p
    /\ StampDelivery(p, "fallback", rounds.at)
    /\ rounds' = [rounds EXCEPT !.row = Never]
    /\ UNCHANGED <<today, shippedAt, reportedAt, paidAt, clerk, payday, missed>>

EndRound ==
    /\ rounds.on /\ rounds.due = {} /\ rounds.row = Never
    /\ rounds' = NoRound
    /\ UNCHANGED <<today, parcelRows, reportedAt, paidAt, clerk, payday, missed>>

\* Mutated form of Closed: delivered is enough.
Landed == {p \in Parcels : ~ Paid(p) /\ Delivered(p) /\ deliveredAt[p] <= today}

\* releasableOrders: the shipments, then the complaints; then the credits are paid.
Closed == {p \in Parcels : ~ Paid(p) /\ Delivered(p) /\ windowEnds[p] <= today}

ReadShipments ==
    /\ payday.stage = "off" /\ Closed # {}
    /\ payday' = [stage |-> "complaints", at |-> today, due |-> Closed]
    /\ UNCHANGED <<today, parcelRows, reportedAt, paidAt, clerk, rounds, missed>>

\* Mutated form of ReadComplaints: complaints freeze nothing.
ReadNoComplaints ==
    /\ payday.stage = "complaints"
    /\ payday' = [payday EXCEPT !.stage = "pay"]
    /\ UNCHANGED <<today, parcelRows, reportedAt, paidAt, clerk, rounds, missed>>

ReadComplaints ==
    /\ payday.stage = "complaints"
    /\ payday' = [payday EXCEPT !.stage = "pay", !.due = {p \in @ : ~ Reported(p)}]
    /\ UNCHANGED <<today, parcelRows, reportedAt, paidAt, clerk, rounds, missed>>

PayCredits ==
    /\ payday.stage = "pay"
    /\ paidAt' = [p \in Parcels |-> IF p \in payday.due THEN today ELSE paidAt[p]]
    /\ payday' = NoPayday
    /\ UNCHANGED <<today, parcelRows, reportedAt, clerk, rounds, missed>>

\* Both jobs are daily; nothing under way is older than Lag.
OwesRun ==
    \/ Overdue # {} /\ ~ rounds.on
    \/ Closed \ {p \in Parcels : Reported(p)} # {} /\ payday.stage = "off"

Tick ==
    /\ today < LastDay
    /\ OwesRun => missed < MaxMissed
    /\ missed' = IF OwesRun THEN missed + 1 ELSE missed
    /\ \A c \in Clerks : clerk[c] # OffDuty => today < clerk[c].at + Lag
    /\ rounds.on => today < rounds.at + Lag
    /\ payday.stage # "off" => today < payday.at + Lag
    /\ today' = today + 1
    /\ UNCHANGED <<parcelRows, reportedAt, paidAt, clerk, rounds, payday>>

-----------------------------------------------------------------------------
ClerkWrites(c, p) == WriteShipped(c, p) \/ WriteConfirmed(c, p) \/ WriteReport(c, p)

RoundSteps == StartRound \/ EndRound \/ \E p \in Parcels : ReadDue(p) \/ WriteFallback(p)

PaydaySteps == ReadShipments \/ ReadComplaints \/ PayCredits

ShipmentsNext ==
    \/ \E c \in Clerks, p \in Parcels :
          \/ ReadToShip(c, p) \/ ReadToConfirm(c, p) \/ ReadToReport(c, p)
          \/ ClerkWrites(c, p)
    \/ RoundSteps \/ PaydaySteps \/ Tick

ShipmentsSpec == ShipmentsInit /\ [][ShipmentsNext]_shipmentsVars
-----------------------------------------------------------------------------
(* Properties.                                                             *)

Times == Days \cup {Never}

ShipmentsTypeOK ==
    /\ today \in Days /\ missed \in 0..MaxMissed
    /\ shippedAt \in [Parcels -> Times] /\ deliveredAt \in [Parcels -> Times]
    /\ windowEnds \in [Parcels -> Int]
    /\ source \in [Parcels -> {"none", "buyer", "fallback"}]
    /\ reportedAt \in [Parcels -> Times] /\ paidAt \in [Parcels -> Times]
    /\ clerk \in [Clerks -> [doing : {"nothing", "ship", "confirm", "report"},
                             parcel : Parcels \cup {Never}, at : Days]]
    /\ rounds \in [on : BOOLEAN, at : Days, due : SUBSET Parcels, row : Parcels \cup {Never}]
    /\ payday \in [stage : {"off", "complaints", "pay"}, at : Days, due : SUBSET Parcels]

\* "An open complaint freezes the release": a report on record before the window that
\* stands on the row ends keeps the credit, whatever a transfer run had read by then
\* (releasableOrders reads the shipments and the complaints apart).
ReportFreezesCredit ==
    \A p \in Parcels : Reported(p) /\ reportedAt[p] < windowEnds[p] => ~ Paid(p)

\* Money leaves only for a parcel that landed, and not before the window on the row is
\* over: no other delivery signal can be under way by then, to move it once more.
PaidAfterWindow ==
    \A p \in Parcels : Paid(p) => Delivered(p) /\ windowEnds[p] <= paidAt[p]

\* The delivery on record: when, until when its buyer may report, and who said so.
SameDelivery(p) == UNCHANGED <<deliveredAt[p], windowEnds[p], source[p]>>

\* "A delivery already stamped is never overwritten."  It is, by a signal whose request or
\* sweep read the row before the stamp (markDelivered reads, then writes by id).
DeliveryKept == [][\A p \in Parcels : Delivered(p) => SameDelivery(p)]_shipmentsVars

\* But not for long: a delivery on record for two requests' length stands, however many
\* signals were under way when it was stamped, and no deadline moves once its buyer has
\* come to rely on it.
DeliveryBecomesFinal ==
    [][\A p \in Parcels : Delivered(p) /\ deliveredAt[p] + 2 * Lag < today =>
          SameDelivery(p)]_shipmentsVars

\* A parcel that left is paid for or reported in the end, though its buyer never
\* answers and no carrier is read.
ParcelsSettle == []<>(\A p \in Parcels : Shipped(p) => Paid(p) \/ Reported(p))
=============================================================================
