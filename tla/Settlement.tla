------------------------------- MODULE Settlement -------------------------------
(***************************************************************************)
(* One ended month and the job that credits it: settle-cycle.ts, the part  *)
(* of distribute-pool.ts that says who is owed what, the recording of paid *)
(* invoices (services/invoices.ts) and the takedown that voids Stickers    *)
(* until the month is marked (services/sticker-void.ts).                   *)
(*                                                                         *)
(* Every charge, Sticker and month of watching is worth one unit; fees,    *)
(* rounding, the remainder and who funds a credit are left out.  One run   *)
(* of the job at a time; a supporter's reads are outside the transaction   *)
(* that writes the credits.                                                *)
(***************************************************************************)
EXTENDS Integers, FiniteSets

CONSTANTS
    Supporters, Creators,
    Invoices, PayerOf, PaysTo,          \* whose invoice it is, the creator on its line
    Stickers, GiverOf, RecipientOf,
    Watched,         \* <<supporter, creator>>: Public Access time of the month
    MaxUpsets,      \* bound: refunds, takedowns, restores, suspensions, reinstatements
    MaxFailures      \* bound: supporters that throw, processes that die

ASSUME SettlementAssumption ==
    /\ IsFiniteSet(Invoices) /\ IsFiniteSet(Stickers)
    /\ PayerOf \in [Invoices -> Supporters] /\ PaysTo \in [Invoices -> Creators]
    /\ GiverOf \in [Stickers -> Supporters] /\ RecipientOf \in [Stickers -> Creators]
    /\ Watched \subseteq Supporters \X Creators
    /\ MaxUpsets \in Nat /\ MaxFailures \in Nat

Kinds == {"support", "time_pool", "sticker"}

VARIABLES
    invoice,     \* the status of each invoice of the month
    recording,   \* the invoices whose webhook is between the row and its lines
    lines,       \* the invoices with their line
    stamp,       \* invoices.settled_at: not set, set by a run that read the line or not
    voided,      \* the Stickers with voided_at
    suspended,   \* the creators with suspended_at
    estimate,    \* the pool_distributions rows that are not final
    credit,      \* the sum of creator_credits by supporter, creator and kind
    closed,      \* the month's row in settlement_months
    run,
    late,        \* Stickers a takedown or its reversal reached after their month was read
    upsets, failures

monthMoney == <<invoice, recording, lines>>
monthBooks == <<stamp, estimate, credit, closed>>
settlementVars ==
    <<monthMoney, monthBooks, voided, suspended, run, late, upsets, failures>>

NoRun == [pc |-> "off", todo |-> {}, at |-> {}, paid |-> {}, bare |-> {}, live |-> {},
          barred |-> {}, failed |-> FALSE]

\* What the nightly estimate named.
Estimated == Watched \cup {<<PayerOf[i], PaysTo[i]>> : i \in Invoices}
                     \cup {<<GiverOf[s], RecipientOf[s]>> : s \in Stickers}

SettlementInit ==
    /\ invoice = [i \in Invoices |-> "none"]
    /\ recording = {} /\ lines = {} /\ voided = {} /\ late = {}
    /\ stamp = [i \in Invoices |-> "none"]
    /\ suspended \in SUBSET Creators
    /\ estimate = Estimated
    /\ credit = [u \in Supporters |-> [c \in Creators |-> [k \in Kinds |-> 0]]]
    /\ closed = FALSE
    /\ run = NoRun
    /\ upsets = 0 /\ failures = 0
-----------------------------------------------------------------------------
(* The run.                                                                *)

\* Mutated form of Due: only the estimates are looked at.
DueByEstimate == {u \in Supporters : \E c \in Creators : <<u, c>> \in estimate}

\* supportersIn.
Due == {u \in Supporters :
           \/ \E i \in Invoices : PayerOf[i] = u /\ invoice[i] = "paid" /\ stamp[i] = "none"
           \/ \E c \in Creators : <<u, c>> \in estimate}

\* The month just ended is taken even when nothing in it is due.
StartRun ==
    /\ run = NoRun /\ (Due # {} \/ ~ closed)
    /\ run' = [NoRun EXCEPT !.pc = "next", !.todo = Due]
    /\ UNCHANGED <<monthMoney, monthBooks, voided, suspended, late, upsets, failures>>

\* paidChargesFor: an invoice without lines is a charge that directs nothing.
ReadPaid(u) ==
    /\ run.pc = "next" /\ u \in run.todo
    /\ LET paid == {i \in Invoices : PayerOf[i] = u /\ invoice[i] = "paid"}
       IN  run' = [run EXCEPT !.pc = "stickers", !.at = {u}, !.todo = @ \ {u},
                              !.paid = paid, !.bare = paid \ lines]
    /\ UNCHANGED <<monthMoney, monthBooks, voided, suspended, late, upsets, failures>>

\* Mutated form of ReadLive: a voided Sticker is read with the others.
ReadGiven ==
    /\ run.pc = "stickers"
    /\ run' = [run EXCEPT !.pc = "standing",
           !.live = {s \in Stickers : GiverOf[s] \in run.at /\ run.paid # {}}]
    /\ UNCHANGED <<monthMoney, monthBooks, voided, suspended, late, upsets, failures>>

\* computeMonth: a month with no paid charge pays no Sticker, nor does a voided one.
ReadLive ==
    /\ run.pc = "stickers"
    /\ run' = [run EXCEPT !.pc = "standing",
           !.live = {s \in Stickers \ voided : GiverOf[s] \in run.at /\ run.paid # {}}]
    /\ UNCHANGED <<monthMoney, monthBooks, voided, suspended, late, upsets, failures>>

\* What the month read entitles creator c to.
Entitled(c, kind) ==
    CASE kind = "support" -> Cardinality({i \in run.paid \ run.bare : PaysTo[i] = c})
      [] kind = "sticker" -> Cardinality({s \in run.live : RecipientOf[s] = c})
      [] kind = "time_pool" -> Cardinality({u \in run.at : <<u, c>> \in Watched})

Named == {c \in Creators : \E kind \in Kinds : Entitled(c, kind) > 0}

ReadStanding ==
    /\ run.pc = "standing"
    /\ run' = [run EXCEPT !.pc = "commit", !.barred = Named \cap suspended]
    /\ UNCHANGED <<monthMoney, monthBooks, voided, suspended, late, upsets, failures>>

\* The difference to what was credited: for the creators the month names, and none who
\* is suspended.  A creator whom the month no longer names keeps what was credited.
NewCredit(u, c, kind) ==
    IF u \in run.at /\ c \in Named \ run.barred THEN Entitled(c, kind) ELSE credit[u][c][kind]

\* Mutated form of NewStamp: whoever was withheld from.
StampAnyway(i) ==
    IF i \in run.paid /\ stamp[i] = "none"
    THEN IF i \in run.bare THEN "bare" ELSE "whole"
    ELSE stamp[i]

\* Not while a suspended creator's money was withheld from it.
NewStamp(i) ==
    IF i \in run.paid /\ run.barred = {} /\ stamp[i] = "none"
    THEN IF i \in run.bare THEN "bare" ELSE "whole"
    ELSE stamp[i]

\* The transaction of settleSupporterMonth.
SettleSupporter ==
    /\ run.pc = "commit"
    /\ credit' = [u \in Supporters |-> [c \in Creators |-> [k \in Kinds |-> NewCredit(u, c, k)]]]
    /\ stamp' = [i \in Invoices |-> NewStamp(i)]
    /\ estimate' = {e \in estimate : e[1] \in run.at => e[2] \in run.barred}
    /\ run' = [NoRun EXCEPT !.pc = "next", !.todo = run.todo, !.failed = run.failed]
    /\ UNCHANGED <<monthMoney, closed, voided, suspended, late, upsets, failures>>

\* What throws for one supporter is caught: the others go on.
SupporterFails ==
    /\ run.pc \in {"stickers", "standing", "commit"}
    /\ failures < MaxFailures /\ failures' = failures + 1
    /\ run' = [NoRun EXCEPT !.pc = "next", !.todo = run.todo, !.failed = TRUE]
    /\ UNCHANGED <<monthMoney, monthBooks, voided, suspended, late, upsets>>

\* The month is marked unless a supporter failed.
EndRun ==
    /\ run.pc = "next" /\ run.todo = {}
    /\ closed' = (closed \/ ~ run.failed)
    /\ run' = NoRun
    /\ UNCHANGED <<monthMoney, stamp, estimate, credit, voided, suspended, late, upsets, failures>>

RunDies ==
    /\ run # NoRun
    /\ failures < MaxFailures /\ failures' = failures + 1
    /\ run' = NoRun
    /\ UNCHANGED <<monthMoney, monthBooks, voided, suspended, late, upsets>>

-----------------------------------------------------------------------------
(* Payments, takedowns and suspensions beside it.                          *)

\* recordPaidInvoice: the row, and after two calls to Stripe its lines.
InsertInvoice(i) ==
    /\ invoice[i] = "none"
    /\ invoice' = [invoice EXCEPT ![i] = "paid"]
    /\ recording' = recording \cup {i}
    /\ UNCHANGED <<lines, monthBooks, voided, suspended, run, late, upsets, failures>>

RecordLines(i) ==
    /\ i \in recording
    /\ lines' = lines \cup {i} /\ recording' = recording \ {i}
    /\ UNCHANGED <<invoice, monthBooks, voided, suspended, run, late, upsets, failures>>

\* The next delivery finds the row and records nothing.
RecordingDies(i) ==
    /\ i \in recording
    /\ failures < MaxFailures /\ failures' = failures + 1
    /\ recording' = recording \ {i}
    /\ UNCHANGED <<invoice, lines, monthBooks, voided, suspended, run, late, upsets>>

Upset == upsets < MaxUpsets /\ upsets' = upsets + 1

\* markInvoiceMoneyReturned.
MoneyReturned(i) ==
    /\ Upset /\ invoice[i] = "paid"
    /\ invoice' = [invoice EXCEPT ![i] = "returned"]
    /\ UNCHANGED <<recording, lines, monthBooks, voided, suspended, run, late, failures>>

\* The giver's month was read, by the run under way or by one that credited it.
AlreadyRead(s) ==
    \/ GiverOf[s] \in run.at
    \/ credit[GiverOf[s]][RecipientOf[s]]["sticker"] > 0
    \/ \E i \in Invoices : PayerOf[i] = GiverOf[s] /\ stamp[i] # "none"

Reached(s) == late' = IF AlreadyRead(s) THEN late \cup {s} ELSE late

\* voidStickersOnSubject and its reversal: "only ever on a month that has not settled".
VoidSticker(s) ==
    /\ Upset /\ ~ closed /\ s \notin voided
    /\ voided' = voided \cup {s} /\ Reached(s)
    /\ UNCHANGED <<monthMoney, monthBooks, suspended, run, failures>>

RestoreSticker(s) ==
    /\ Upset /\ ~ closed /\ s \in voided
    /\ voided' = voided \ {s} /\ Reached(s)
    /\ UNCHANGED <<monthMoney, monthBooks, suspended, run, failures>>

Suspend(c) ==
    /\ Upset /\ c \notin suspended /\ suspended' = suspended \cup {c}
    /\ UNCHANGED <<monthMoney, monthBooks, voided, run, late, failures>>

Reinstate(c) ==
    /\ Upset /\ c \in suspended /\ suspended' = suspended \ {c}
    /\ UNCHANGED <<monthMoney, monthBooks, voided, run, late, failures>>

-----------------------------------------------------------------------------
RunSteps ==
    \/ StartRun \/ ReadLive \/ ReadStanding \/ SettleSupporter \/ EndRun
    \/ \E u \in Supporters : ReadPaid(u)

SettlementNext ==
    \/ RunSteps \/ SupporterFails \/ RunDies
    \/ \E i \in Invoices : \/ InsertInvoice(i) \/ RecordLines(i) \/ RecordingDies(i)
                           \/ MoneyReturned(i)
    \/ \E s \in Stickers : VoidSticker(s) \/ RestoreSticker(s)
    \/ \E c \in Creators : Suspend(c) \/ Reinstate(c)

SettlementSpec == SettlementInit /\ [][SettlementNext]_settlementVars
-----------------------------------------------------------------------------
(* Properties.                                                             *)

RunType == [pc : {"off", "next", "stickers", "standing", "commit"},
            todo : SUBSET Supporters, at : SUBSET Supporters, paid : SUBSET Invoices,
            bare : SUBSET Invoices, live : SUBSET Stickers, barred : SUBSET Creators,
            failed : BOOLEAN]

SettlementTypeOK ==
    /\ invoice \in [Invoices -> {"none", "paid", "returned"}]
    /\ recording \subseteq Invoices /\ lines \subseteq Invoices
    /\ stamp \in [Invoices -> {"none", "bare", "whole"}]
    /\ voided \subseteq Stickers /\ late \subseteq Stickers /\ suspended \subseteq Creators
    /\ estimate \subseteq Supporters \X Creators
    /\ credit \in [Supporters -> [Creators -> [Kinds -> Nat]]]
    /\ closed \in BOOLEAN /\ run \in RunType
    /\ upsets \in 0..MaxUpsets /\ failures \in 0..MaxFailures

Directed(u, c) == {i \in lines : PayerOf[i] = u /\ PaysTo[i] = c}

\* Over any number of runs, retries, returned payments and suspensions, a creator is
\* credited for every settled payment whose line was on record and still stands, and
\* never for more than a supporter ever directed at them.
CreditsFollowPayments ==
    \A u \in Supporters, c \in Creators :
        /\ credit[u][c]["support"] <= Cardinality(Directed(u, c))
        /\ Cardinality({i \in Directed(u, c) : stamp[i] = "whole" /\ invoice[i] = "paid"})
              <= credit[u][c]["support"]

Given(u, c) == {s \in Stickers : GiverOf[s] = u /\ RecipientOf[s] = c}

\* While a settled payment of a supporter stands their Stickers are paid, but for those
\* a takedown voided, unless it came after the month was read: the marker that stops
\* takedowns is set when the last supporter is done, and not while one failed.
StickersPaidAsDirected ==
    \A u \in Supporters, c \in Creators :
        /\ \E i \in Invoices : PayerOf[i] = u /\ stamp[i] # "none" /\ invoice[i] = "paid"
        /\ Given(u, c) \cap late = {}
        => credit[u][c]["sticker"] = Cardinality(Given(u, c) \ voided)

\* A month of which anything was made final is marked, by that run or by a later one,
\* and a payment, however late, is settled while no creator is suspended: what a
\* suspension withheld is paid after it.
PaymentsSettle ==
    []<>(/\ estimate # Estimated => closed
         /\ \A i \in Invoices : invoice[i] = "paid" => stamp[i] # "none" \/ suspended # {})
=============================================================================
