---------------------------- MODULE ShipmentsProofs ----------------------------
(***************************************************************************)
(* Theorems about Shipments, for any number of parcels and requests and    *)
(* any lengths of the fallback, the window and the lag: a reported parcel  *)
(* is not paid, a paid one waited for its window, and a delivery on record *)
(* becomes final, at the latest when the lag is over.                      *)
(***************************************************************************)
EXTENDS Shipments, TLAPS

-----------------------------------------------------------------------------
(* Type correctness.                                                       *)

ClerkType == [doing : {"nothing", "ship", "confirm", "report"},
              parcel : Parcels \cup {Never}, at : Days]
RoundType == [on : BOOLEAN, at : Days, due : SUBSET Parcels, row : Parcels \cup {Never}]
PaydayType == [stage : {"off", "complaints", "pay"}, at : Days, due : SUBSET Parcels]

\* Days are numbers, and times are days or Never.
LEMMA DaysFacts == 0 \in Days /\ Days \subseteq Times /\ Never \in Times /\ Days \subseteq Nat /\ Days \subseteq Int
             /\ Times \subseteq Int
  BY ShipmentsAssumption DEF Days, Times, Never

\* Who is off duty has the types of clerks and jobs.
LEMMA OffDutyTypes == OffDuty \in ClerkType /\ NoRound \in RoundType /\ NoPayday \in PaydayType
  BY DaysFacts DEF OffDuty, NoRound, NoPayday, ClerkType, RoundType, PaydayType

\* The types hold at the start.
LEMMA ShipmentsTypeInit == ShipmentsInit => ShipmentsTypeOK
<1> SUFFICES ASSUME ShipmentsInit PROVE ShipmentsTypeOK
  OBVIOUS
<1>1. Never \in Int /\ 0 \in 0..MaxMissed
  BY ShipmentsAssumption DEF Never
<1> QED BY <1>1, DaysFacts, OffDutyTypes
       DEF ShipmentsInit, ShipmentsTypeOK, ClerkType, RoundType, PaydayType

\* So do the records the requests and jobs write when they begin.
LEMMA RecordTypes ==
  ASSUME ShipmentsTypeOK
  PROVE  /\ \A doing \in {"ship", "confirm", "report"}, p \in Parcels :
               [doing |-> doing, parcel |-> p, at |-> today] \in ClerkType
         /\ \A due \in SUBSET Parcels :
               [on |-> TRUE, at |-> today, due |-> due, row |-> Never] \in RoundType
         /\ \A p \in Parcels, row \in Parcels \cup {Never} :
               [rounds EXCEPT !.due = @ \ {p}, !.row = row] \in RoundType
         /\ [rounds EXCEPT !.row = Never] \in RoundType
         /\ \A due \in SUBSET Parcels :
               [stage |-> "complaints", at |-> today, due |-> due] \in PaydayType
         /\ \A due \in SUBSET Parcels : [payday EXCEPT !.stage = "pay", !.due = due] \in PaydayType
  BY DEF ShipmentsTypeOK, ClerkType, RoundType, PaydayType

\* A delivery stamp keeps the types.
LEMMA StampTypes ==
  ASSUME ShipmentsTypeOK, NEW p \in Parcels, NEW from \in {"buyer", "fallback"},
         NEW at \in Days, StampDelivery(p, from, at)
  PROVE  /\ deliveredAt' \in [Parcels -> Times] /\ windowEnds' \in [Parcels -> Int]
         /\ source' \in [Parcels -> {"none", "buyer", "fallback"}]
<1>1. at + Window \in Int /\ at \in Times
  BY DaysFacts, ShipmentsAssumption
<1> QED BY <1>1 DEF StampDelivery, ShipmentsTypeOK

\* And every step keeps them.
LEMMA ShipmentsTypeStep == ShipmentsTypeOK /\ [ShipmentsNext]_shipmentsVars => ShipmentsTypeOK'
<1> SUFFICES ASSUME ShipmentsTypeOK, [ShipmentsNext]_shipmentsVars PROVE ShipmentsTypeOK'
  OBVIOUS
<1> USE DEF ClerkType, RoundType, PaydayType
<1>t. today \in Days /\ today \in Times
  BY DaysFacts DEF ShipmentsTypeOK
<1>1. ASSUME NEW c \in Clerks, NEW p \in Parcels, NEW doing \in {"ship", "confirm", "report"},
             Takes(c, doing, p)
      PROVE  ShipmentsTypeOK'
  BY <1>1, RecordTypes DEF Takes, ShipmentsTypeOK, parcelRows
<1>2. ASSUME NEW c \in Clerks, NEW p \in Parcels, ReadToShip(c, p) \/ ReadToConfirm(c, p) \/ ReadToReport(c, p)
      PROVE  ShipmentsTypeOK'
  BY <1>1, <1>2 DEF ReadToShip, ReadToConfirm, ReadToReport
<1>3. ASSUME NEW c \in Clerks, NEW p \in Parcels, ClerkWrites(c, p)
      PROVE  ShipmentsTypeOK'
  <2>1. ASSUME NEW doing, Does(c, doing, p) PROVE clerk' \in [Clerks -> ClerkType]
    BY <2>1, OffDutyTypes DEF Does, ShipmentsTypeOK
  <2>2. clerk[c].at \in Days /\ clerk[c].at \in Times
    BY DaysFacts DEF ShipmentsTypeOK
  <2>3. CASE WriteShipped(c, p)
    BY <2>1, <2>2, <2>3 DEF WriteShipped, ShipmentsTypeOK
  <2>4. CASE WriteConfirmed(c, p)
    BY <2>1, <2>2, <2>4, StampTypes DEF WriteConfirmed, ShipmentsTypeOK
  <2>5. CASE WriteReport(c, p)
    BY <2>1, <2>5, <1>t DEF WriteReport, ShipmentsTypeOK, parcelRows
  <2> QED BY <1>3, <2>3, <2>4, <2>5 DEF ClerkWrites
<1>4. CASE RoundSteps
  <2>1. Overdue \subseteq Parcels
    BY DEF Overdue
  <2>2. CASE StartRound
    BY <2>1, <2>2, RecordTypes DEF StartRound, ShipmentsTypeOK, parcelRows
  <2>3. CASE EndRound
    BY <2>3, OffDutyTypes DEF EndRound, ShipmentsTypeOK, parcelRows
  <2>4. ASSUME NEW p \in Parcels, ReadDue(p) PROVE ShipmentsTypeOK'
    <3> DEFINE row == IF Delivered(p) THEN Never ELSE p
    <3>1. rounds' = [rounds EXCEPT !.due = @ \ {p}, !.row = row] /\ row \in Parcels \cup {Never}
      BY <2>4 DEF ReadDue
    <3>2. rounds' \in RoundType
      BY <3>1, RecordTypes
    <3> QED BY <2>4, <3>2 DEF ReadDue, ShipmentsTypeOK, parcelRows
  <2>5. ASSUME NEW p \in Parcels, WriteFallback(p) PROVE ShipmentsTypeOK'
    <3>1. rounds.at \in Days
      BY DEF ShipmentsTypeOK
    <3> QED BY <2>5, <3>1, StampTypes, RecordTypes DEF WriteFallback, ShipmentsTypeOK
  <2> QED BY <1>4, <2>2, <2>3, <2>4, <2>5 DEF RoundSteps
<1>5. CASE PaydaySteps
  <2>1. Closed \subseteq Parcels /\ {p \in payday.due : ~ Reported(p)} \subseteq Parcels
    BY DEF Closed, ShipmentsTypeOK
  <2>2. CASE ReadShipments
    BY <2>1, <2>2, RecordTypes DEF ReadShipments, ShipmentsTypeOK, parcelRows
  <2>3. CASE ReadComplaints
    BY <2>1, <2>3, RecordTypes DEF ReadComplaints, ShipmentsTypeOK, parcelRows
  <2>4. CASE PayCredits
    BY <2>4, <1>t, OffDutyTypes DEF PayCredits, ShipmentsTypeOK, parcelRows
  <2> QED BY <1>5, <2>2, <2>3, <2>4 DEF PaydaySteps
<1>6. CASE Tick
  BY <1>6, ShipmentsAssumption DEF Tick, ShipmentsTypeOK, parcelRows, Days
<1>7. CASE UNCHANGED shipmentsVars
  BY <1>7 DEF shipmentsVars, parcelRows, ShipmentsTypeOK
<1> QED BY <1>2, <1>3, <1>4, <1>5, <1>6, <1>7 DEF ShipmentsNext

\* Every behaviour has its types: no date leaves the calendar.
THEOREM ShipmentsTypeOKAlways == ShipmentsSpec => []ShipmentsTypeOK
<1> QED BY ShipmentsTypeInit, ShipmentsTypeStep, PTL DEF ShipmentsSpec

-----------------------------------------------------------------------------
(* Nothing under way is older than Lag, and what may still stamp a parcel  *)
(* that landed read the clock within Lag of the stamp it has.              *)

Near(a, b) == a <= b + Lag /\ b <= a + Lag

ClockInv ==
    /\ \A c \in Clerks : clerk[c].doing = "confirm" => clerk[c].at <= today /\ today <= clerk[c].at + Lag
    /\ rounds.on => rounds.at <= today /\ today <= rounds.at + Lag
    /\ rounds.row # Never => rounds.on
    /\ payday.stage # "off" => payday.at <= today

DeliveryInv ==
    \A p \in Parcels : Delivered(p) =>
        /\ deliveredAt[p] <= today /\ windowEnds[p] = deliveredAt[p] + Window
        /\ \A c \in Clerks : clerk[c].doing = "confirm" /\ clerk[c].parcel = p =>
              Near(clerk[c].at, deliveredAt[p])
        /\ rounds.row = p => Near(rounds.at, deliveredAt[p])

StampInv == ShipmentsTypeOK /\ ClockInv /\ DeliveryInv

\* Nothing under way gets older than Lag.
LEMMA ClockStep == StampInv /\ [ShipmentsNext]_shipmentsVars => ClockInv'
<1> SUFFICES ASSUME StampInv, [ShipmentsNext]_shipmentsVars PROVE ClockInv'
  OBVIOUS
<1> USE DEF StampInv, ClockInv
<1>t. today \in Int /\ today <= today + Lag
  BY ShipmentsAssumption, DaysFacts DEF ShipmentsTypeOK
<1>1. ASSUME NEW c \in Clerks, NEW p \in Parcels, ReadToShip(c, p) \/ ReadToConfirm(c, p) \/ ReadToReport(c, p)
      PROVE  ClockInv'
  BY <1>1, <1>t DEF ReadToShip, ReadToConfirm, ReadToReport, Takes, ShipmentsTypeOK
<1>2. ASSUME NEW c \in Clerks, NEW p \in Parcels, ClerkWrites(c, p)
      PROVE  ClockInv'
  BY <1>2 DEF ClerkWrites, WriteShipped, WriteConfirmed, WriteReport, Does, OffDuty,
       ShipmentsTypeOK
<1>3. CASE RoundSteps
  <2>1. CASE StartRound
    BY <2>1, <1>t DEF StartRound
  <2>2. CASE EndRound
    BY <2>2 DEF EndRound, NoRound
  <2>3. ASSUME NEW p \in Parcels, ReadDue(p) PROVE ClockInv'
    BY <2>3 DEF ReadDue, ShipmentsTypeOK
  <2>4. ASSUME NEW p \in Parcels, WriteFallback(p) PROVE ClockInv'
    BY <2>4 DEF WriteFallback, ShipmentsTypeOK
  <2> QED BY <1>3, <2>1, <2>2, <2>3, <2>4 DEF RoundSteps
<1>4. CASE PaydaySteps
  <2>1. CASE ReadShipments
    BY <2>1, <1>t DEF ReadShipments
  <2>2. CASE ReadComplaints
    BY <2>2 DEF ReadComplaints, ShipmentsTypeOK
  <2>3. CASE PayCredits
    BY <2>3 DEF PayCredits, NoPayday
  <2> QED BY <1>4, <2>1, <2>2, <2>3 DEF PaydaySteps
<1>5. CASE Tick
  <2>1. \A c \in Clerks : clerk[c].doing = "confirm" => clerk[c] # OffDuty
    BY DEF OffDuty
  <2>2. \A c \in Clerks : clerk[c].at \in Days
    BY DEF ShipmentsTypeOK
  <2>3. rounds.at \in Days /\ payday.at \in Days
    BY DEF ShipmentsTypeOK
  <2>4. Lag \in Int
    BY ShipmentsAssumption
  <2>5. (\A c \in Clerks : clerk[c].at \in Int) /\ rounds.at \in Int /\ payday.at \in Int
    BY <2>2, <2>3, DaysFacts
  <2> QED BY <1>5, <2>1, <2>4, <2>5, <1>t DEF Tick
<1>6. CASE UNCHANGED shipmentsVars
  BY <1>6 DEF shipmentsVars
<1> QED BY <1>1, <1>2, <1>3, <1>4, <1>5, <1>6 DEF ShipmentsNext

\* Two stampers of the same moment are near each other.
LEMMA BothRecent ==
  ASSUME NEW a \in Int, NEW b \in Int, NEW t \in Int,
         a <= t, t <= a + Lag, b <= t, t <= b + Lag
  PROVE  Near(a, b)
  BY ShipmentsAssumption DEF Near

\* A stamp made now is near whatever may be made after it.
LEMMA StampKeeps ==
  ASSUME StampInv, NEW p \in Parcels, NEW from, NEW at \in Days, StampDelivery(p, from, at),
         at <= today, today <= at + Lag, today' = today,
         \A c \in Clerks : clerk'[c] = clerk[c] \/ clerk'[c] = OffDuty,
         rounds'.row = rounds.row \/ rounds'.row = Never, rounds'.at = rounds.at
  PROVE  DeliveryInv'
<1> SUFFICES ASSUME NEW q \in Parcels, Delivered(q)'
             PROVE  /\ (deliveredAt[q] <= today)' /\ (windowEnds[q] = deliveredAt[q] + Window)'
                    /\ \A c \in Clerks : (clerk[c].doing = "confirm" /\ clerk[c].parcel = q)' =>
                          Near(clerk'[c].at, deliveredAt'[q])
                    /\ (rounds.row = q)' => Near(rounds'.at, deliveredAt'[q])
  BY DEF DeliveryInv
<1>1. \A c \in Clerks : (clerk[c].doing = "confirm" /\ clerk[c].parcel = q)' =>
          clerk[c].doing = "confirm" /\ clerk[c].parcel = q /\ clerk'[c].at = clerk[c].at
  BY DEF OffDuty
<1>2. (rounds.row = q)' => rounds.row = q
  BY ShipmentsAssumption
<1>3. CASE q # p
  <2>1. deliveredAt'[q] = deliveredAt[q] /\ windowEnds'[q] = windowEnds[q] /\ Delivered(q)
    BY <1>3 DEF StampDelivery, Delivered, StampInv, ShipmentsTypeOK
  <2> QED BY <1>1, <1>2, <2>1 DEF StampInv, DeliveryInv
<1>4. CASE q = p
  <2>1. deliveredAt'[q] = at /\ windowEnds'[q] = at + Window
    BY <1>4 DEF StampDelivery, StampInv, ShipmentsTypeOK
  <2>2. /\ \A c \in Clerks : clerk[c].at \in Int
        /\ rounds.at \in Int /\ today \in Int /\ at \in Int
    BY DaysFacts DEF StampInv, ShipmentsTypeOK
  <2>3. \A c \in Clerks : clerk[c].doing = "confirm" => Near(clerk[c].at, at)
    BY <2>2, BothRecent DEF StampInv, ClockInv
  <2>4. rounds.row # Never => Near(rounds.at, at)
    BY <2>2, BothRecent DEF StampInv, ClockInv
  <2> QED BY <1>1, <1>2, <2>1, <2>3, <2>4, ShipmentsAssumption
<1> QED BY <1>3, <1>4

\* What may still stamp a delivered parcel read the clock within Lag of its stamp.
LEMMA DeliveryStep == StampInv /\ [ShipmentsNext]_shipmentsVars => DeliveryInv'
<1> SUFFICES ASSUME StampInv, [ShipmentsNext]_shipmentsVars PROVE DeliveryInv'
  OBVIOUS
<1> USE DEF StampInv
<1>1. ASSUME NEW c \in Clerks, NEW p \in Parcels, ReadToShip(c, p) \/ ReadToConfirm(c, p) \/ ReadToReport(c, p)
      PROVE  DeliveryInv'
  <2>1. /\ UNCHANGED <<today, parcelRows, rounds>>
        /\ \A d \in Clerks : clerk'[d].doing = "confirm" =>
              clerk'[d] = clerk[d] \/ ~ Delivered(clerk'[d].parcel)
    BY <1>1 DEF ReadToShip, ReadToConfirm, ReadToReport, Takes, ShipmentsTypeOK
  <2> QED BY <2>1 DEF DeliveryInv, Delivered, parcelRows
<1>2. ASSUME NEW c \in Clerks, NEW p \in Parcels, ClerkWrites(c, p)
      PROVE  DeliveryInv'
  <2>1. \A d \in Clerks : clerk'[d] = clerk[d] \/ clerk'[d] = OffDuty
    BY <1>2 DEF ClerkWrites, WriteShipped, WriteConfirmed, WriteReport, Does, ShipmentsTypeOK
  <2>2. CASE WriteConfirmed(c, p)
    <3>1. clerk[c].at \in Days /\ clerk[c].at <= today /\ today <= clerk[c].at + Lag
      BY <2>2 DEF WriteConfirmed, Does, ClockInv, ShipmentsTypeOK
    <3> QED BY <2>1, <2>2, <3>1, StampKeeps DEF WriteConfirmed
  <2>3. CASE WriteShipped(c, p) \/ WriteReport(c, p)
    <3>1. UNCHANGED <<today, deliveredAt, windowEnds, rounds>>
      BY <2>3 DEF WriteShipped, WriteReport, parcelRows
    <3>2. \A d \in Clerks : clerk'[d].doing = "confirm" => clerk'[d] = clerk[d]
      BY <2>1 DEF OffDuty
    <3> QED BY <3>1, <3>2 DEF DeliveryInv, Delivered
  <2> QED BY <1>2, <2>2, <2>3 DEF ClerkWrites
<1>3. CASE RoundSteps
  <2>1. CASE StartRound \/ EndRound
    <3>1. UNCHANGED <<today, parcelRows, clerk>> /\ rounds'.row = Never
      BY <2>1 DEF StartRound, EndRound, NoRound
    <3> QED BY <3>1, ShipmentsAssumption DEF DeliveryInv, Delivered, parcelRows
  <2>2. ASSUME NEW p \in Parcels, ReadDue(p) PROVE DeliveryInv'
    <3>1. /\ UNCHANGED <<today, parcelRows, clerk>>
          /\ rounds'.row = Never \/ ~ Delivered(rounds'.row)
      BY <2>2 DEF ReadDue, ShipmentsTypeOK
    <3> QED BY <3>1, ShipmentsAssumption DEF DeliveryInv, Delivered, parcelRows
  <2>3. ASSUME NEW p \in Parcels, WriteFallback(p) PROVE DeliveryInv'
    <3>1. /\ rounds.at \in Days /\ rounds.at <= today /\ today <= rounds.at + Lag
          /\ rounds'.row = Never /\ rounds'.at = rounds.at /\ clerk' = clerk
      BY <2>3, ShipmentsAssumption DEF WriteFallback, ClockInv, ShipmentsTypeOK
    <3> QED BY <2>3, <3>1, StampKeeps DEF WriteFallback
  <2> QED BY <1>3, <2>1, <2>2, <2>3 DEF RoundSteps
<1>4. CASE PaydaySteps
  BY <1>4 DEF PaydaySteps, ReadShipments, ReadComplaints, PayCredits, DeliveryInv, Delivered,
       parcelRows
<1>5. CASE Tick
  <2>1. UNCHANGED <<parcelRows, clerk, rounds>> /\ today' = today + 1
    BY <1>5 DEF Tick
  <2>2. today \in Int /\ \A p \in Parcels : deliveredAt[p] \in Int
    BY DaysFacts DEF ShipmentsTypeOK
  <2> QED BY <2>1, <2>2 DEF DeliveryInv, Delivered, parcelRows
<1>6. CASE UNCHANGED shipmentsVars
  BY <1>6 DEF shipmentsVars, parcelRows, DeliveryInv, Delivered
<1> QED BY <1>1, <1>2, <1>3, <1>4, <1>5, <1>6 DEF ShipmentsNext

\* At the start nothing is under way.
LEMMA StampInit == ShipmentsInit => StampInv
<1>1. ShipmentsInit => ClockInv /\ DeliveryInv
  BY DEF ShipmentsInit, ClockInv, DeliveryInv, OffDuty, NoRound, NoPayday, Delivered
<1> QED BY <1>1, ShipmentsTypeInit DEF StampInv

\* So StampInv is inductive.
LEMMA StampStep == StampInv /\ [ShipmentsNext]_shipmentsVars => StampInv'
  BY ShipmentsTypeStep, ClockStep, DeliveryStep DEF StampInv

-----------------------------------------------------------------------------
(* Once the window on the row is over no signal is left to move it: what   *)
(* is shut stays shut, and a report made from then on is late.             *)

Shut(p) == Delivered(p) /\ windowEnds[p] <= today

Timely(p) == Reported(p) /\ reportedAt[p] < windowEnds[p]

FreezeInv ==
    /\ \A p \in Parcels : Paid(p) => Shut(p) /\ windowEnds[p] <= paidAt[p] /\ ~ Timely(p)
    /\ payday.stage # "off" => \A p \in payday.due : Shut(p) /\ (payday.stage = "pay" => ~ Timely(p))

PaidInv == StampInv /\ FreezeInv

\* Once a window is over, nobody is left who would move it.
LEMMA NoStampPending ==
  ASSUME StampInv, NEW p \in Parcels, Shut(p)
  PROVE  /\ \A c \in Clerks : ~ (clerk[c].doing = "confirm" /\ clerk[c].parcel = p)
         /\ rounds.row # p
<1> DEFINE d == deliveredAt[p]
<1>1. d \in Int /\ today \in Int /\ Lag \in Int /\ Window \in Int /\ 2 * Lag < Window
  <2>1. d \in Times /\ today \in Days
    BY DEF StampInv, ShipmentsTypeOK
  <2>2. Lag \in Int /\ Window \in Int /\ 2 * Lag < Window
    BY ShipmentsAssumption
  <2> QED BY <2>1, <2>2, DaysFacts
<1>2. d + Window <= today
  BY DEF StampInv, DeliveryInv, Shut
<1>3. \A a \in Int : today <= a + Lag => ~ Near(a, d)
  BY <1>1, <1>2 DEF Near
<1>4. ASSUME NEW c \in Clerks, clerk[c].doing = "confirm", clerk[c].parcel = p
      PROVE  FALSE
  <2>1. clerk[c].at \in Int
    BY DaysFacts DEF StampInv, ShipmentsTypeOK
  <2>2. today <= clerk[c].at + Lag /\ Near(clerk[c].at, d)
    BY <1>4 DEF StampInv, ClockInv, DeliveryInv, Shut
  <2> QED BY <1>3, <2>1, <2>2
<1>5. ASSUME rounds.row = p
      PROVE  FALSE
  <2>1. rounds.at \in Int
    BY DaysFacts DEF StampInv, ShipmentsTypeOK
  <2>2. rounds.row # Never
    BY <1>5, ShipmentsAssumption
  <2>3. today <= rounds.at + Lag /\ Near(rounds.at, d)
    BY <1>5, <2>2 DEF StampInv, ClockInv, DeliveryInv, Shut
  <2> QED BY <1>3, <2>1, <2>3
<1> QED BY <1>4, <1>5

\* So it stays over, and a report made after it is late.
LEMMA ShutStays ==
  ASSUME StampInv, [ShipmentsNext]_shipmentsVars, NEW p \in Parcels, Shut(p)
  PROVE  Shut(p)' /\ windowEnds'[p] = windowEnds[p] /\ (Timely(p)' => Timely(p))
<1>t. today \in Int /\ windowEnds[p] \in Int
  BY DaysFacts DEF StampInv, ShipmentsTypeOK
<1>1. CASE UNCHANGED <<today, parcelRows, reportedAt>>
  BY <1>1 DEF parcelRows, Shut, Timely, Delivered, Reported
<1>2. ASSUME NEW q \in Parcels, NEW from, NEW at, StampDelivery(q, from, at), q # p,
             UNCHANGED <<today, reportedAt>>
      PROVE  Shut(p)' /\ windowEnds'[p] = windowEnds[p] /\ (Timely(p)' => Timely(p))
  <2>1. deliveredAt'[p] = deliveredAt[p] /\ windowEnds'[p] = windowEnds[p]
    BY <1>2 DEF StampDelivery, StampInv, ShipmentsTypeOK
  <2> QED BY <1>2, <2>1 DEF Shut, Timely, Delivered, Reported
<1>3. ASSUME NEW c \in Clerks, NEW q \in Parcels, ClerkWrites(c, q)
      PROVE  Shut(p)' /\ windowEnds'[p] = windowEnds[p] /\ (Timely(p)' => Timely(p))
  <2>1. CASE WriteShipped(c, q)
    BY <2>1 DEF WriteShipped, Shut, Timely, Delivered, Reported
  <2>2. CASE WriteConfirmed(c, q)
    BY <2>2, <1>2, NoStampPending DEF WriteConfirmed, Does
  <2>3. CASE WriteReport(c, q)
    <3>1. UNCHANGED <<today, deliveredAt, windowEnds>>
      BY <2>3 DEF WriteReport, parcelRows
    <3>2. reportedAt'[p] = reportedAt[p] \/ reportedAt'[p] = today
      BY <2>3 DEF WriteReport, StampInv, ShipmentsTypeOK
    <3> QED BY <3>1, <3>2, <1>t DEF Shut, Timely, Delivered, Reported
  <2> QED BY <1>3, <2>1, <2>2, <2>3 DEF ClerkWrites
<1>4. CASE RoundSteps
  <2>1. ASSUME NEW q \in Parcels, WriteFallback(q)
        PROVE  Shut(p)' /\ windowEnds'[p] = windowEnds[p] /\ (Timely(p)' => Timely(p))
    BY <2>1, <1>2, NoStampPending DEF WriteFallback
  <2>2. ASSUME NEW q \in Parcels, ReadDue(q) PROVE UNCHANGED <<today, parcelRows, reportedAt>>
    BY <2>2 DEF ReadDue
  <2>3. CASE StartRound \/ EndRound
    BY <2>3, <1>1 DEF StartRound, EndRound
  <2> QED BY <1>1, <1>4, <2>1, <2>2, <2>3 DEF RoundSteps
<1>5. CASE Tick
  BY <1>5, <1>t DEF Tick, parcelRows, Shut, Timely, Delivered, Reported
<1>6. ASSUME NEW c \in Clerks, NEW q \in Parcels,
             ReadToShip(c, q) \/ ReadToConfirm(c, q) \/ ReadToReport(c, q)
      PROVE  UNCHANGED <<today, parcelRows, reportedAt>>
  BY <1>6 DEF ReadToShip, ReadToConfirm, ReadToReport, Takes
<1>7. ASSUME PaydaySteps PROVE UNCHANGED <<today, parcelRows, reportedAt>>
  BY <1>7 DEF PaydaySteps, ReadShipments, ReadComplaints, PayCredits
<1> QED BY <1>1, <1>3, <1>4, <1>5, <1>6, <1>7 DEF ShipmentsNext, shipmentsVars

\* What the payday read as closed and not reported in time stays so.
LEMMA FreezeStep == PaidInv /\ [ShipmentsNext]_shipmentsVars => FreezeInv'
<1> SUFFICES ASSUME PaidInv, [ShipmentsNext]_shipmentsVars PROVE FreezeInv'
  OBVIOUS
<1> USE DEF PaidInv
<1>s. \A p \in Parcels : Shut(p) => Shut(p)' /\ windowEnds'[p] = windowEnds[p] /\ (Timely(p)' => Timely(p))
  BY ShutStays
<1>t. today \in Int /\ Never \in Int /\ payday.due \subseteq Parcels
  BY DaysFacts DEF StampInv, ShipmentsTypeOK, Never
<1>1. CASE UNCHANGED <<paidAt, payday>>
  BY <1>1, <1>s, <1>t DEF FreezeInv, Paid
<1>2. CASE ReadShipments
  <2>1. \A p \in Closed : p \in Parcels /\ Shut(p)
    BY DEF Closed, Shut
  <2> QED BY <1>2, <1>s, <2>1 DEF ReadShipments, FreezeInv, Paid
<1>3. CASE ReadComplaints
  <2>1. /\ payday.stage = "complaints" /\ payday'.due = {p \in payday.due : ~ Reported(p)}
        /\ paidAt' = paidAt
    BY <1>3 DEF ReadComplaints, StampInv, ShipmentsTypeOK
  <2>2. \A p \in payday'.due : p \in Parcels /\ Shut(p) /\ ~ Timely(p)
    BY <1>t, <2>1 DEF FreezeInv, Timely
  <2> QED BY <1>s, <2>1, <2>2 DEF FreezeInv, Paid
<1>4. CASE PayCredits
  <2>1. payday'.stage = "off" /\ payday.stage = "pay"
    BY <1>4 DEF PayCredits, NoPayday
  <2>2. \A p \in Parcels : paidAt'[p] = IF p \in payday.due THEN today ELSE paidAt[p]
    BY <1>4 DEF PayCredits
  <2>3. ASSUME NEW p \in Parcels, p \in payday.due
        PROVE  (Shut(p) /\ windowEnds[p] <= paidAt[p] /\ ~ Timely(p))'
    BY <1>s, <2>1, <2>2, <2>3 DEF FreezeInv, Shut
  <2>4. ASSUME NEW p \in Parcels, p \notin payday.due, Paid(p)'
        PROVE  (Shut(p) /\ windowEnds[p] <= paidAt[p] /\ ~ Timely(p))'
    BY <1>s, <2>2, <2>4 DEF FreezeInv, Paid
  <2> QED BY <2>1, <2>3, <2>4 DEF FreezeInv
<1>5. ASSUME NEW c \in Clerks, NEW p \in Parcels,
             \/ ReadToShip(c, p) \/ ReadToConfirm(c, p) \/ ReadToReport(c, p)
             \/ ClerkWrites(c, p)
      PROVE  UNCHANGED <<paidAt, payday>>
  BY <1>5 DEF ReadToShip, ReadToConfirm, ReadToReport, Takes, ClerkWrites, WriteShipped,
              WriteConfirmed, WriteReport
<1>6. ASSUME RoundSteps PROVE UNCHANGED <<paidAt, payday>>
  BY <1>6 DEF RoundSteps, StartRound, EndRound, ReadDue, WriteFallback
<1>7. ASSUME Tick PROVE UNCHANGED <<paidAt, payday>>
  BY <1>7 DEF Tick
<1> QED BY <1>1, <1>2, <1>3, <1>4, <1>5, <1>6, <1>7 DEF ShipmentsNext, PaydaySteps,
             shipmentsVars

\* At the start nothing is paid.
LEMMA PaidInit == ShipmentsInit => PaidInv
<1>1. ShipmentsInit => FreezeInv
  BY DEF ShipmentsInit, FreezeInv, Paid, NoPayday
<1> QED BY <1>1, StampInit DEF PaidInv

\* So PaidInv is inductive.
LEMMA PaidStep == PaidInv /\ [ShipmentsNext]_shipmentsVars => PaidInv'
  BY StampStep, FreezeStep DEF PaidInv

\* A report that came in time keeps the money, whatever the run had read before it.
THEOREM ReportFreezesCreditAlways == ShipmentsSpec => []ReportFreezesCredit
<1>1. PaidInv => ReportFreezesCredit
  BY DEF PaidInv, FreezeInv, ReportFreezesCredit, Timely
<1> QED BY <1>1, PaidInit, PaidStep, PTL DEF ShipmentsSpec

\* Money leaves for a parcel that landed, once the window on its row is over.
THEOREM PaidAfterWindowAlways == ShipmentsSpec => []PaidAfterWindow
<1>1. PaidInv => PaidAfterWindow
  BY DEF PaidInv, FreezeInv, PaidAfterWindow, Shut
<1> QED BY <1>1, PaidInit, PaidStep, PTL DEF ShipmentsSpec

\* A delivery old enough has no signal left that was read before it.
LEMMA NoStampLeft ==
  ASSUME StampInv, NEW p \in Parcels, Delivered(p), deliveredAt[p] + 2 * Lag < today
  PROVE  /\ \A c \in Clerks : ~ (clerk[c].doing = "confirm" /\ clerk[c].parcel = p)
         /\ rounds.row # p
<1> DEFINE d == deliveredAt[p]
<1>1. d \in Int /\ today \in Int /\ Lag \in Int
  <2>1. d \in Times /\ today \in Days
    BY DEF StampInv, ShipmentsTypeOK
  <2>2. Lag \in Int
    BY ShipmentsAssumption
  <2> QED BY <2>1, <2>2, DaysFacts
<1>2. \A a \in Int : today <= a + Lag => ~ Near(a, d)
  BY <1>1 DEF Near
<1>3. ASSUME NEW c \in Clerks, clerk[c].doing = "confirm", clerk[c].parcel = p
      PROVE  FALSE
  <2>1. clerk[c].at \in Int
    BY DaysFacts DEF StampInv, ShipmentsTypeOK
  <2>2. today <= clerk[c].at + Lag /\ Near(clerk[c].at, d)
    BY <1>3 DEF StampInv, ClockInv, DeliveryInv
  <2> QED BY <1>2, <2>1, <2>2
<1>4. ASSUME rounds.row = p
      PROVE  FALSE
  <2>1. rounds.at \in Int
    BY DaysFacts DEF StampInv, ShipmentsTypeOK
  <2>2. rounds.row # Never
    BY <1>4, ShipmentsAssumption
  <2>3. today <= rounds.at + Lag /\ Near(rounds.at, d)
    BY <1>4, <2>2 DEF StampInv, ClockInv, DeliveryInv
  <2> QED BY <1>2, <2>1, <2>3
<1> QED BY <1>3, <1>4

\* Only a signal of p stamps p.
LEMMA StampMoves ==
  ASSUME StampInv, [ShipmentsNext]_shipmentsVars, NEW p \in Parcels,
         \A c \in Clerks : ~ (clerk[c].doing = "confirm" /\ clerk[c].parcel = p), rounds.row # p
  PROVE  SameDelivery(p)
<1> USE DEF StampInv
<1>1. ASSUME NEW q \in Parcels, q # p, NEW from, NEW at, StampDelivery(q, from, at)
      PROVE  SameDelivery(p)
  BY <1>1 DEF StampDelivery, SameDelivery, ShipmentsTypeOK
<1>2. ASSUME NEW c \in Clerks, NEW q \in Parcels, WriteConfirmed(c, q)
      PROVE  SameDelivery(p)
  <2>1. q # p
    BY <1>2 DEF WriteConfirmed, Does
  <2> QED BY <1>1, <1>2, <2>1 DEF WriteConfirmed
<1>3. ASSUME NEW q \in Parcels, WriteFallback(q)
      PROVE  SameDelivery(p)
  <2>1. q # p
    BY <1>3 DEF WriteFallback
  <2> QED BY <1>1, <1>3, <2>1 DEF WriteFallback
<1>4. ASSUME NEW c \in Clerks, NEW q \in Parcels,
             \/ ReadToShip(c, q) \/ ReadToConfirm(c, q) \/ ReadToReport(c, q)
             \/ WriteShipped(c, q) \/ WriteReport(c, q)
      PROVE  SameDelivery(p)
  BY <1>4 DEF ReadToShip, ReadToConfirm, ReadToReport, Takes, WriteShipped, WriteReport,
       parcelRows, SameDelivery
<1>5. ASSUME \/ StartRound \/ EndRound \/ (\E q \in Parcels : ReadDue(q))
             \/ PaydaySteps \/ Tick \/ UNCHANGED shipmentsVars
      PROVE  SameDelivery(p)
  BY <1>5 DEF StartRound, EndRound, ReadDue, PaydaySteps, ReadShipments, ReadComplaints,
       PayCredits, Tick, parcelRows, shipmentsVars, SameDelivery
<1> QED BY <1>2, <1>3, <1>4, <1>5 DEF ShipmentsNext, ClerkWrites, RoundSteps

\* A delivery on record for two requests' length is not written again.
THEOREM DeliveryBecomesFinalAlways == ShipmentsSpec => DeliveryBecomesFinal
<1> DEFINE Final == \A p \in Parcels : Delivered(p) /\ deliveredAt[p] + 2 * Lag < today => SameDelivery(p)
<1>1. StampInv /\ [ShipmentsNext]_shipmentsVars => Final
  <2> SUFFICES ASSUME StampInv, [ShipmentsNext]_shipmentsVars, NEW p \in Parcels, Delivered(p),
                      deliveredAt[p] + 2 * Lag < today
               PROVE  SameDelivery(p)
    OBVIOUS
  <2> QED BY NoStampLeft, StampMoves
<1> QED BY <1>1, StampInit, StampStep, PTL DEF ShipmentsSpec, DeliveryBecomesFinal

=============================================================================
