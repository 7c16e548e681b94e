---------------------------- MODULE SettlementProofs ----------------------------
(***************************************************************************)
(* Theorems about Settlement, for any finite number of invoices and        *)
(* Stickers and any number of refunds, takedowns, suspensions and          *)
(* failures: credits follow the payments that were settled, and Stickers   *)
(* are paid as they were directed.                                         *)
(***************************************************************************)
EXTENDS Settlement, TLAPS, FiniteSetTheorems

Reading == run.pc \in {"stickers", "standing", "commit"}

\* Only a paid invoice is stamped, and "whole" only one whose line was read.
BooksSound ==
    \A i \in Invoices : /\ stamp[i] # "none" => invoice[i] # "none"
                        /\ stamp[i] = "whole" => i \in lines

\* One supporter at a time; what was settled before and still stands was read again.
ReadsSound ==
    IF Reading
    THEN /\ \E u \in Supporters : run.at = {u}
         /\ run.paid \ run.bare \subseteq lines
         /\ \A i \in run.paid : PayerOf[i] \in run.at /\ invoice[i] # "none"
         /\ \A i \in Invoices :
               /\ PayerOf[i] \in run.at /\ stamp[i] # "none" /\ invoice[i] = "paid" => i \in run.paid
               /\ stamp[i] = "whole" => i \notin run.bare
    ELSE run.at = {}

\* The Stickers read are those not voided, but for the late ones.
LiveSound ==
    run.pc \in {"standing", "commit"} =>
        /\ \A s \in run.live : GiverOf[s] \in run.at /\ run.paid # {}
        /\ run.paid # {} =>
              \A s \in Stickers \ late : GiverOf[s] \in run.at => (s \in run.live <=> s \notin voided)

\* Without a late takedown a Sticker credit has a Sticker that was not voided.
CreditHasSticker ==
    \A u \in Supporters, c \in Creators :
        credit[u][c]["sticker"] > 0 /\ Given(u, c) \cap late = {} => Given(u, c) \ voided # {}

SettlementInv ==
    /\ SettlementTypeOK /\ BooksSound /\ ReadsSound /\ LiveSound /\ CreditHasSticker
    /\ CreditsFollowPayments /\ StickersPaidAsDirected

-----------------------------------------------------------------------------
(* Facts about the sets that are counted.                                  *)

\* The invoices and Stickers are finitely many, and so are parts of them.
LEMMA Counted ==
  /\ \A S \in SUBSET Invoices : IsFiniteSet(S) /\ Cardinality(S) \in Nat
  /\ \A S \in SUBSET Stickers : IsFiniteSet(S) /\ Cardinality(S) \in Nat
<1>1. IsFiniteSet(Invoices) /\ IsFiniteSet(Stickers)
  BY SettlementAssumption
<1>2. ASSUME NEW S \in SUBSET Invoices PROVE IsFiniteSet(S) /\ Cardinality(S) \in Nat
  BY <1>1, FS_Subset, FS_CardinalityType
<1>3. ASSUME NEW S \in SUBSET Stickers PROVE IsFiniteSet(S) /\ Cardinality(S) \in Nat
  BY <1>1, FS_Subset, FS_CardinalityType
<1> QED BY <1>2, <1>3

\* Part of the invoices is not more than they are.
LEMMA Fewer == \A S \in SUBSET Invoices : \A T \in SUBSET S : Cardinality(T) <= Cardinality(S)
  BY Counted, FS_Subset

\* A count above zero is of something.
LEMMA NothingCounted ==
  /\ \A S \in SUBSET Invoices : Cardinality(S) > 0 <=> S # {}
  /\ \A S \in SUBSET Stickers : Cardinality(S) > 0 <=> S # {}
  BY Counted, FS_EmptySet

\* What a month read entitles a creator to is a count.
LEMMA EntitledType ==
  ASSUME SettlementTypeOK, ReadsSound, Reading, NEW c \in Creators, NEW kind \in Kinds
  PROVE  Entitled(c, kind) \in Nat
<1>1. PICK u \in Supporters : run.at = {u}
  BY DEF ReadsSound
<1>2. IsFiniteSet(run.at)
  BY <1>1, FS_Singleton
<1>3. Cardinality({v \in run.at : <<v, c>> \in Watched}) \in Nat
  BY <1>2, FS_Subset, FS_CardinalityType
<1>4. run.paid \subseteq Invoices /\ run.live \subseteq Stickers
  BY DEF SettlementTypeOK, RunType
<1>5. Cardinality({i \in run.paid \ run.bare : PaysTo[i] = c}) \in Nat
  BY <1>4, Counted
<1>6. Cardinality({s \in run.live : RecipientOf[s] = c}) \in Nat
  BY <1>4, Counted
<1>7. CASE kind = "support"
  BY <1>5, <1>7 DEF Entitled
<1>8. CASE kind = "sticker"
  BY <1>6, <1>8 DEF Entitled
<1>9. CASE kind = "time_pool"
  BY <1>3, <1>9 DEF Entitled
<1> QED BY <1>7, <1>8, <1>9 DEF Kinds

\* What the transaction leaves as the credit.
LEMMA CreditBecomes ==
  ASSUME SettleSupporter, NEW u \in Supporters, NEW c \in Creators, NEW kind \in Kinds
  PROVE  credit'[u][c][kind] =
            IF u \in run.at /\ c \in Named \ run.barred THEN Entitled(c, kind) ELSE credit[u][c][kind]
  BY DEF SettleSupporter, NewCredit

-----------------------------------------------------------------------------
(* Type correctness.                                                       *)

\* A run that has not begun has the type of runs.
LEMMA IdleRun == NoRun \in RunType /\ NoRun.pc = "off" /\ NoRun.at = {}
  BY DEF NoRun, RunType

\* At the start nothing is settled.
LEMMA InvInit == SettlementInit => SettlementInv
<1> SUFFICES ASSUME SettlementInit PROVE SettlementInv
  OBVIOUS
<1>1. SettlementTypeOK
  <2>1. Estimated \subseteq Supporters \X Creators
    BY SettlementAssumption DEF Estimated
  <2>2. credit \in [Supporters -> [Creators -> [Kinds -> Nat]]]
    BY DEF SettlementInit
  <2>3. 0 \in 0..MaxUpsets /\ 0 \in 0..MaxFailures
    BY SettlementAssumption
  <2> QED BY <2>1, <2>2, <2>3, IdleRun DEF SettlementInit, SettlementTypeOK
<1>2. BooksSound /\ ReadsSound /\ LiveSound
  BY IdleRun DEF SettlementInit, BooksSound, ReadsSound, LiveSound, Reading
<1>3. \A u \in Supporters, c \in Creators, kind \in Kinds : credit[u][c][kind] = 0
  BY DEF SettlementInit
<1>4. CreditHasSticker
  BY <1>3 DEF CreditHasSticker, Kinds
<1>5. CreditsFollowPayments
  <2> SUFFICES ASSUME NEW u \in Supporters, NEW c \in Creators
               PROVE  /\ 0 <= Cardinality(Directed(u, c))
                      /\ Cardinality({i \in Directed(u, c) : stamp[i] = "whole" /\ invoice[i] = "paid"}) <= 0
    BY <1>3 DEF CreditsFollowPayments, Kinds
  <2>1. Directed(u, c) = {} /\ {i \in Directed(u, c) : stamp[i] = "whole" /\ invoice[i] = "paid"} = {}
    BY DEF SettlementInit, Directed
  <2> QED BY <2>1, FS_EmptySet
<1>6. StickersPaidAsDirected
  BY DEF SettlementInit, StickersPaidAsDirected
<1> QED BY <1>1, <1>2, <1>4, <1>5, <1>6 DEF SettlementInv

\* The fields of the run after each of its steps.
LEMMA RunBecomes ==
  ASSUME SettlementTypeOK
  PROVE  /\ StartRun => /\ run' \in RunType /\ run'.pc = "next" /\ run'.at = {}
         /\ \A u \in Supporters : ReadPaid(u) =>
               /\ run' \in RunType /\ run'.pc = "stickers" /\ run'.at = {u}
               /\ run'.paid = {i \in Invoices : PayerOf[i] = u /\ invoice[i] = "paid"}
               /\ run'.bare = run'.paid \ lines
         /\ ReadLive =>
               /\ run' \in RunType /\ run'.pc = "standing" /\ run'.at = run.at
               /\ run'.paid = run.paid /\ run'.bare = run.bare
               /\ run'.live = {s \in Stickers \ voided : GiverOf[s] \in run.at /\ run.paid # {}}
         /\ ReadStanding =>
               /\ run' \in RunType /\ run'.pc = "commit" /\ run'.at = run.at
               /\ run'.paid = run.paid /\ run'.bare = run.bare /\ run'.live = run.live
         /\ SettleSupporter \/ SupporterFails =>
               run' \in RunType /\ run'.pc = "next" /\ run'.at = {}
         /\ EndRun \/ RunDies => run' \in RunType /\ run'.pc = "off" /\ run'.at = {}
<1>r. run \in RunType
  BY DEF SettlementTypeOK
<1>1. StartRun => run' \in RunType /\ run'.pc = "next" /\ run'.at = {}
  <2>1. Due \subseteq Supporters
    BY DEF Due
  <2> HIDE DEF Due
  <2> QED BY <2>1 DEF StartRun, NoRun, RunType
<1>2. ASSUME NEW u \in Supporters, ReadPaid(u)
      PROVE  /\ run' \in RunType /\ run'.pc = "stickers" /\ run'.at = {u}
             /\ run'.paid = {i \in Invoices : PayerOf[i] = u /\ invoice[i] = "paid"}
             /\ run'.bare = run'.paid \ lines
  <2> DEFINE paid == {i \in Invoices : PayerOf[i] = u /\ invoice[i] = "paid"}
  <2>1. run' = [run EXCEPT !.pc = "stickers", !.at = {u}, !.todo = @ \ {u},
                           !.paid = paid, !.bare = paid \ lines]
    BY <1>2 DEF ReadPaid
  <2>2. paid \subseteq Invoices
    OBVIOUS
  <2>3. run'.paid = paid
    <3> HIDE DEF paid
    <3> QED BY <1>r, <2>1 DEF RunType
  <2>4. run' \in RunType /\ run'.pc = "stickers" /\ run'.at = {u} /\ run'.bare = paid \ lines
    <3> HIDE DEF paid
    <3> QED BY <1>r, <2>1, <2>2 DEF RunType
  <2> QED BY <2>3, <2>4
<1>3. ASSUME ReadLive
      PROVE  /\ run' \in RunType /\ run'.pc = "standing" /\ run'.at = run.at
             /\ run'.paid = run.paid /\ run'.bare = run.bare
             /\ run'.live = {s \in Stickers \ voided : GiverOf[s] \in run.at /\ run.paid # {}}
  <2> DEFINE live == {s \in Stickers \ voided : GiverOf[s] \in run.at /\ run.paid # {}}
  <2>1. run' = [run EXCEPT !.pc = "standing", !.live = live] /\ live \subseteq Stickers
    BY <1>3 DEF ReadLive
  <2>2. run'.live = live
    <3> HIDE DEF live
    <3> QED BY <1>r, <2>1 DEF RunType
  <2>3. /\ run' \in RunType /\ run'.pc = "standing" /\ run'.at = run.at
        /\ run'.paid = run.paid /\ run'.bare = run.bare
    <3> HIDE DEF live
    <3> QED BY <1>r, <2>1 DEF RunType
  <2> QED BY <2>2, <2>3
<1>4. ASSUME ReadStanding
      PROVE  /\ run' \in RunType /\ run'.pc = "commit" /\ run'.at = run.at
             /\ run'.paid = run.paid /\ run'.bare = run.bare /\ run'.live = run.live
  <2>1. run' = [run EXCEPT !.pc = "commit", !.barred = Named \cap suspended]
        /\ Named \cap suspended \subseteq Creators
    BY <1>4 DEF ReadStanding, Named
  <2> QED BY <1>r, <2>1 DEF RunType
<1>5. SettleSupporter => run' \in RunType /\ run'.pc = "next" /\ run'.at = {}
  BY <1>r DEF SettleSupporter, NoRun, RunType
<1>6. SupporterFails => run' \in RunType /\ run'.pc = "next" /\ run'.at = {}
  BY <1>r DEF SupporterFails, NoRun, RunType
<1>7. EndRun \/ RunDies => run' \in RunType /\ run'.pc = "off" /\ run'.at = {}
  BY IdleRun DEF EndRun, RunDies
<1> QED BY <1>1, <1>2, <1>3, <1>4, <1>5, <1>6, <1>7

RunOnly == StartRun \/ ReadLive \/ ReadStanding \/ EndRun \/ SupporterFails \/ RunDies

PaymentStep(i) == InsertInvoice(i) \/ RecordLines(i) \/ RecordingDies(i) \/ MoneyReturned(i)
StickerStep(s) == VoidSticker(s) \/ RestoreSticker(s)
StandingStep(c) == Suspend(c) \/ Reinstate(c)

\* The steps, by the tables they write.
LEMMA StepCases ==
  ASSUME SettlementNext
  PROVE  \/ RunOnly \/ SettleSupporter \/ \E u \in Supporters : ReadPaid(u)
         \/ \E i \in Invoices : PaymentStep(i)
         \/ \E s \in Stickers : StickerStep(s)
         \/ \E c \in Creators : StandingStep(c)
  BY DEF SettlementNext, RunSteps, RunOnly, PaymentStep, StickerStep, StandingStep

\* Every step keeps the types.
LEMMA SettlementTypeStep == SettlementTypeOK /\ ReadsSound /\ SettlementNext => SettlementTypeOK'
<1> SUFFICES ASSUME SettlementTypeOK, ReadsSound, SettlementNext PROVE SettlementTypeOK'
  OBVIOUS
<1>n. MaxUpsets \in Nat /\ MaxFailures \in Nat
  BY SettlementAssumption
<1>1. CASE RunOnly
  <2>1. run' \in RunType
    BY <1>1, RunBecomes DEF RunOnly
  <2>c. closed' \in BOOLEAN
    BY <1>1 DEF RunOnly, StartRun, ReadLive, ReadStanding, EndRun, SupporterFails, RunDies,
                SettlementTypeOK, RunType, monthBooks
  <2>f. failures' = failures \/ (failures < MaxFailures /\ failures' = failures + 1)
    BY <1>1 DEF RunOnly, StartRun, ReadLive, ReadStanding, EndRun, SupporterFails, RunDies
  <2>2. closed' \in BOOLEAN /\ failures' \in 0..MaxFailures
    BY <1>n, <2>c, <2>f DEF SettlementTypeOK
  <2>3. UNCHANGED <<invoice, recording, lines, stamp, voided, late, suspended, estimate, credit, upsets>>
    BY <1>1 DEF RunOnly, StartRun, ReadLive, ReadStanding, EndRun, SupporterFails, RunDies,
                monthMoney, monthBooks
  <2> QED BY <2>1, <2>2, <2>3 DEF SettlementTypeOK
<1>2. ASSUME NEW u \in Supporters, ReadPaid(u) PROVE SettlementTypeOK'
  <2>1. run' \in RunType
    BY <1>2, RunBecomes
  <2>2. UNCHANGED <<monthMoney, monthBooks, voided, suspended, late, upsets, failures>>
    BY <1>2 DEF ReadPaid
  <2> QED BY <2>1, <2>2 DEF SettlementTypeOK, monthMoney, monthBooks
<1>3. CASE SettleSupporter
  <2>1. run' \in RunType
    BY <1>3, RunBecomes
  <2>2. /\ credit' = [u \in Supporters |-> [c \in Creators |-> [k \in Kinds |-> NewCredit(u, c, k)]]]
        /\ stamp' = [i \in Invoices |-> NewStamp(i)]
        /\ estimate' \subseteq estimate /\ Reading
        /\ UNCHANGED <<monthMoney, closed, voided, suspended, late, upsets, failures>>
    BY <1>3 DEF SettleSupporter, Reading
  <2>3. ASSUME NEW u \in Supporters, NEW c \in Creators, NEW k \in Kinds PROVE NewCredit(u, c, k) \in Nat
    <3>1. Entitled(c, k) \in Nat
      BY <2>2, EntitledType
    <3>2. credit[u][c][k] \in Nat
      BY DEF SettlementTypeOK
    <3> QED BY <3>1, <3>2 DEF NewCredit
  <2>4. ASSUME NEW i \in Invoices PROVE NewStamp(i) \in {"none", "bare", "whole"}
    BY DEF NewStamp, SettlementTypeOK
  <2>5. credit' \in [Supporters -> [Creators -> [Kinds -> Nat]]]
    BY <2>2, <2>3
  <2>6. stamp' \in [Invoices -> {"none", "bare", "whole"}]
    BY <2>2, <2>4
  <2> QED BY <2>1, <2>2, <2>5, <2>6 DEF SettlementTypeOK, monthMoney
<1>4. ASSUME NEW i \in Invoices, PaymentStep(i) PROVE SettlementTypeOK'
  <2>1. CASE InsertInvoice(i)
    BY <2>1 DEF InsertInvoice, SettlementTypeOK, monthBooks
  <2>2. CASE RecordLines(i)
    BY <2>2 DEF RecordLines, SettlementTypeOK, monthBooks
  <2>3. CASE RecordingDies(i)
    BY <1>n, <2>3 DEF RecordingDies, SettlementTypeOK, monthBooks
  <2>4. CASE MoneyReturned(i)
    BY <1>n, <2>4 DEF MoneyReturned, Upset, SettlementTypeOK, monthBooks
  <2> QED BY <1>4, <2>1, <2>2, <2>3, <2>4 DEF PaymentStep
<1>5. ASSUME NEW s \in Stickers, StickerStep(s) PROVE SettlementTypeOK'
  BY <1>n, <1>5 DEF StickerStep, VoidSticker, RestoreSticker, Upset, Reached, SettlementTypeOK,
                    monthMoney, monthBooks
<1>6. ASSUME NEW c \in Creators, StandingStep(c) PROVE SettlementTypeOK'
  BY <1>n, <1>6 DEF StandingStep, Suspend, Reinstate, Upset, SettlementTypeOK, monthMoney,
       monthBooks
<1> QED BY <1>1, <1>2, <1>3, <1>4, <1>5, <1>6, StepCases

-----------------------------------------------------------------------------
(* The books and what a run has read of them.                              *)

\* A settled invoice was paid once, and one settled whole has its line.
LEMMA BooksStep == SettlementInv /\ SettlementNext => BooksSound'
<1> SUFFICES ASSUME SettlementInv, SettlementNext, NEW i \in Invoices
             PROVE  /\ stamp'[i] # "none" => invoice'[i] # "none"
                    /\ stamp'[i] = "whole" => i \in lines'
  BY DEF BooksSound
<1>t. SettlementTypeOK /\ (stamp[i] # "none" => invoice[i] # "none") /\ (stamp[i] = "whole" => i \in lines)
  BY DEF SettlementInv, BooksSound
<1>1. CASE RunOnly \/ \E u \in Supporters : ReadPaid(u)
  BY <1>1, <1>t DEF RunOnly, StartRun, ReadPaid, ReadLive, ReadStanding, EndRun,
       SupporterFails, RunDies,
              monthMoney, monthBooks
<1>2. CASE SettleSupporter
  <2>1. stamp'[i] = NewStamp(i) /\ UNCHANGED monthMoney /\ Reading
    BY <1>2 DEF SettleSupporter, Reading
  <2>2. /\ i \in run.paid => invoice[i] # "none"
        /\ i \in run.paid \ run.bare => i \in lines
    BY <2>1 DEF SettlementInv, ReadsSound
  <2> QED BY <1>t, <2>1, <2>2 DEF NewStamp, monthMoney
<1>3. ASSUME NEW j \in Invoices, PaymentStep(j)
      PROVE  stamp' = stamp /\ (invoice[i] # "none" => invoice'[i] # "none") /\ lines \subseteq lines'
  BY <1>3, <1>t DEF PaymentStep, InsertInvoice, RecordLines, RecordingDies, MoneyReturned,
       Upset,
                    monthBooks, SettlementTypeOK
<1>4. CASE (\E s \in Stickers : StickerStep(s)) \/ \E c \in Creators : StandingStep(c)
  BY <1>4, <1>t DEF StickerStep, StandingStep, VoidSticker, RestoreSticker, Suspend, Reinstate,
              monthMoney, monthBooks
<1> QED BY <1>t, <1>1, <1>2, <1>3, <1>4, StepCases

\* What the run has read stays what the tables said of paid invoices.
LEMMA ReadsStep == SettlementInv /\ SettlementNext => ReadsSound'
<1> SUFFICES ASSUME SettlementInv, SettlementNext PROVE ReadsSound'
  OBVIOUS
<1>t. SettlementTypeOK /\ BooksSound /\ ReadsSound
  BY DEF SettlementInv
<1>1. CASE StartRun \/ EndRun \/ RunDies \/ SupporterFails \/ SettleSupporter
  BY <1>1, <1>t, RunBecomes DEF ReadsSound, Reading
<1>2. ASSUME NEW u \in Supporters, ReadPaid(u) PROVE ReadsSound'
  <2>1. /\ run'.pc = "stickers" /\ run'.at = {u}
        /\ run'.paid = {i \in Invoices : PayerOf[i] = u /\ invoice[i] = "paid"}
        /\ run'.bare = run'.paid \ lines
    BY <1>2, <1>t, RunBecomes
  <2>2. UNCHANGED <<invoice, lines, stamp>>
    BY <1>2 DEF ReadPaid, monthMoney, monthBooks
  <2>3. run'.paid \ run'.bare \subseteq lines
    BY <2>1
  <2>4. \A i \in run'.paid : PayerOf[i] \in run'.at /\ invoice[i] # "none"
    BY <2>1
  <2>5. \A i \in Invoices : PayerOf[i] \in run'.at /\ invoice[i] = "paid" => i \in run'.paid
    BY <2>1
  <2>6. \A i \in Invoices : stamp[i] = "whole" => i \notin run'.bare
    BY <1>t, <2>1 DEF BooksSound
  <2> QED BY <2>1, <2>2, <2>3, <2>4, <2>5, <2>6 DEF ReadsSound, Reading
<1>3. CASE ReadLive \/ ReadStanding
  <2>1. Reading /\ Reading' /\ run'.at = run.at /\ run'.paid = run.paid /\ run'.bare = run.bare
    BY <1>3, <1>t, RunBecomes DEF Reading, ReadLive, ReadStanding
  <2>2. UNCHANGED <<invoice, lines, stamp>>
    BY <1>3 DEF ReadLive, ReadStanding, monthMoney, monthBooks
  <2> QED BY <1>t, <2>1, <2>2 DEF ReadsSound
<1>4. ASSUME NEW j \in Invoices, PaymentStep(j) PROVE ReadsSound'
  <2>1. UNCHANGED <<run, stamp>> /\ lines \subseteq lines'
    BY <1>4 DEF PaymentStep, InsertInvoice, RecordLines, RecordingDies, MoneyReturned,
         monthBooks
  <2>2. \A i \in Invoices : /\ invoice[i] # "none" => invoice'[i] # "none"
                            /\ invoice'[i] = "paid" => invoice[i] = "paid" \/ invoice[i] = "none"
    BY <1>4, <1>t DEF PaymentStep, InsertInvoice, RecordLines, RecordingDies, MoneyReturned,
         SettlementTypeOK
  <2>3. Reading' <=> Reading
    BY <2>1 DEF Reading
  <2>4. run.paid \subseteq Invoices
    BY <1>t DEF SettlementTypeOK, RunType
  <2> QED BY <1>t, <2>1, <2>2, <2>3, <2>4 DEF ReadsSound, BooksSound
<1>5. CASE (\E s \in Stickers : StickerStep(s)) \/ \E c \in Creators : StandingStep(c)
  <2>1. UNCHANGED <<run, stamp, invoice, lines>>
    BY <1>5 DEF StickerStep, StandingStep, VoidSticker, RestoreSticker, Suspend, Reinstate,
                monthMoney, monthBooks
  <2> QED BY <1>t, <2>1 DEF ReadsSound, Reading
<1> QED BY <1>1, <1>2, <1>3, <1>4, <1>5, StepCases DEF RunOnly

\* And of Stickers, but for those a takedown reaches late.
LEMMA LiveStep == SettlementInv /\ SettlementNext => LiveSound'
<1> SUFFICES ASSUME SettlementInv, SettlementNext PROVE LiveSound'
  OBVIOUS
<1>t. SettlementTypeOK /\ LiveSound
  BY DEF SettlementInv
<1>1. CASE StartRun \/ EndRun \/ RunDies \/ SupporterFails \/ SettleSupporter \/ \E u \in Supporters : ReadPaid(u)
  <2>1. run'.pc \in {"off", "next", "stickers"}
    BY <1>1, <1>t, RunBecomes
  <2> QED BY <2>1 DEF LiveSound
<1>2. CASE ReadLive
  BY <1>2, <1>t, RunBecomes DEF ReadLive, LiveSound
<1>3. CASE ReadStanding
  BY <1>3, <1>t, RunBecomes DEF ReadStanding, LiveSound
<1>4. CASE (\E i \in Invoices : PaymentStep(i)) \/ \E c \in Creators : StandingStep(c)
  <2>1. UNCHANGED <<run, voided, late>>
    BY <1>4 DEF PaymentStep, StandingStep, InsertInvoice, RecordLines, RecordingDies,
         MoneyReturned,
                Suspend, Reinstate
  <2> QED BY <1>t, <2>1 DEF LiveSound
<1>5. ASSUME NEW s \in Stickers, StickerStep(s) PROVE LiveSound'
  <2>1. run' = run /\ Reached(s)
    BY <1>5 DEF StickerStep, VoidSticker, RestoreSticker
  <2>2. \A q \in Stickers \ {s} : q \in voided' <=> q \in voided
    BY <1>5 DEF StickerStep, VoidSticker, RestoreSticker
  <2>3. late \subseteq late' /\ (GiverOf[s] \in run.at => s \in late')
    BY <2>1 DEF Reached, AlreadyRead
  <2> QED BY <1>t, <2>1, <2>2, <2>3 DEF LiveSound
<1> QED BY <1>1, <1>2, <1>3, <1>4, <1>5, StepCases DEF RunOnly

-----------------------------------------------------------------------------
(* The credits.                                                            *)

\* What the transaction of a run changes.
LEMMA SettleEffect ==
  ASSUME SettlementInv, SettleSupporter
  PROVE  /\ Reading /\ run.pc = "commit"
         /\ UNCHANGED <<invoice, lines, voided, late>>
         /\ \A i \in Invoices : stamp'[i] = NewStamp(i)
         /\ run.paid \subseteq Invoices /\ run.live \subseteq Stickers
  BY DEF SettlementInv, SettleSupporter, Reading, monthMoney, SettlementTypeOK, RunType

\* A creator who earned something the month names is one of Named.
LEMMA NamedBy ==
  ASSUME NEW c \in Creators
  PROVE  /\ Entitled(c, "support") > 0 => c \in Named
         /\ Entitled(c, "sticker") > 0 => c \in Named
  BY DEF Named, Kinds

\* A Sticker credit has a Sticker that was given.
LEMMA CreditHasStickerStep == SettlementInv /\ SettlementNext => CreditHasSticker'
<1> SUFFICES ASSUME SettlementInv, SettlementNext, NEW u \in Supporters, NEW c \in Creators,
                    credit'[u][c]["sticker"] > 0, Given(u, c) \cap late' = {}
             PROVE  Given(u, c) \ voided' # {}
  BY DEF CreditHasSticker, Given
<1>t. credit[u][c]["sticker"] > 0 /\ Given(u, c) \cap late = {} => Given(u, c) \ voided # {}
  BY DEF SettlementInv, CreditHasSticker
<1>1. CASE SettleSupporter
  <2>1. Given(u, c) \cap late = {} /\ voided' = voided
    BY <1>1, SettleEffect
  <2>2. CASE u \in run.at /\ c \in Named \ run.barred
    <3>1. credit'[u][c]["sticker"] = Cardinality({s \in run.live : RecipientOf[s] = c})
      BY <1>1, <2>2, CreditBecomes DEF Entitled, Kinds
    <3>2. PICK s \in run.live : RecipientOf[s] = c
      BY <1>1, <3>1, SettleEffect, NothingCounted
    <3>3. s \in Stickers /\ GiverOf[s] \in run.at /\ run.paid # {}
      BY <1>1, SettleEffect DEF SettlementInv, LiveSound
    <3>4. GiverOf[s] = u
      BY <1>1, <2>2, <3>3, SettleEffect DEF SettlementInv, ReadsSound
    <3>5. s \in Given(u, c) /\ s \notin late
      BY <2>1, <3>2, <3>3, <3>4 DEF Given
    <3>6. s \notin voided
      BY <1>1, <3>2, <3>3, <3>5, SettleEffect DEF SettlementInv, LiveSound
    <3> QED BY <2>1, <3>5, <3>6
  <2>3. CASE ~ (u \in run.at /\ c \in Named \ run.barred)
    BY <1>1, <1>t, <2>1, <2>3, CreditBecomes DEF Kinds
  <2> QED BY <2>2, <2>3
<1>2. ASSUME NEW s \in Stickers, StickerStep(s) PROVE Given(u, c) \ voided' # {}
  <2>1. credit' = credit /\ late \subseteq late' /\ Reached(s)
    BY <1>2 DEF StickerStep, VoidSticker, RestoreSticker, Reached, monthBooks
  <2>2. Given(u, c) \ voided # {}
    BY <1>t, <2>1
  <2>3. s \notin Given(u, c)
    <3>1. SUFFICES ASSUME s \in Given(u, c) PROVE FALSE
      OBVIOUS
    <3>2. GiverOf[s] = u /\ RecipientOf[s] = c
      BY <3>1 DEF Given
    <3>3. AlreadyRead(s)
      BY <2>1, <3>2 DEF AlreadyRead
    <3> QED BY <2>1, <3>1, <3>3 DEF Reached
  <2>4. \A q \in Stickers \ {s} : q \in voided' <=> q \in voided
    BY <1>2 DEF StickerStep, VoidSticker, RestoreSticker
  <2> QED BY <2>2, <2>3, <2>4 DEF Given
<1>3. CASE \/ RunOnly \/ \E v \in Supporters : ReadPaid(v)
           \/ \E i \in Invoices : PaymentStep(i)
           \/ \E d \in Creators : StandingStep(d)
  <2>1. UNCHANGED <<credit, voided, late>>
    BY <1>3 DEF RunOnly, StartRun, ReadPaid, ReadLive, ReadStanding, EndRun, SupporterFails,
         RunDies,
                PaymentStep, InsertInvoice, RecordLines, RecordingDies, MoneyReturned,
                StandingStep, Suspend, Reinstate, monthBooks
  <2> QED BY <1>t, <2>1
<1> QED BY <1>1, <1>2, <1>3, StepCases

\* What the creator is owed support for at the least.
StillPaid(u, c) == {i \in Directed(u, c) : stamp[i] = "whole" /\ invoice[i] = "paid"}

\* Credits stay within what was paid.
LEMMA CreditsStep == SettlementInv /\ SettlementNext => CreditsFollowPayments'
<1> SUFFICES ASSUME SettlementInv, SettlementNext, NEW u \in Supporters, NEW c \in Creators
             PROVE  /\ credit'[u][c]["support"] <= Cardinality(Directed(u, c)')
                    /\ Cardinality(StillPaid(u, c)') <= credit'[u][c]["support"]
  BY DEF CreditsFollowPayments, StillPaid, Directed
<1>t. /\ credit[u][c]["support"] <= Cardinality(Directed(u, c))
      /\ Cardinality(StillPaid(u, c)) <= credit[u][c]["support"]
      /\ credit[u][c]["support"] \in Nat
  BY DEF SettlementInv, CreditsFollowPayments, StillPaid, SettlementTypeOK, Kinds
<1>d. /\ Directed(u, c) \subseteq Invoices /\ StillPaid(u, c) \subseteq Invoices
      /\ Directed(u, c)' \subseteq Invoices /\ StillPaid(u, c)' \subseteq Invoices
  <2>1. lines \subseteq Invoices /\ lines' \subseteq Invoices
    BY SettlementTypeStep DEF SettlementInv, SettlementTypeOK
  <2> QED BY <2>1 DEF Directed, StillPaid
\* While the credit stays, it is enough that no payment that counts is added.
<1>s. ASSUME credit'[u][c]["support"] = credit[u][c]["support"], lines \subseteq lines',
             StillPaid(u, c)' \subseteq StillPaid(u, c)
      PROVE  /\ credit'[u][c]["support"] <= Cardinality(Directed(u, c)')
             /\ Cardinality(StillPaid(u, c)') <= credit'[u][c]["support"]
  <2>1. Directed(u, c) \subseteq Directed(u, c)'
    BY <1>s DEF Directed
  <2>2. Cardinality(Directed(u, c)) <= Cardinality(Directed(u, c)')
    BY <1>d, <2>1, Fewer
  <2>3. Cardinality(StillPaid(u, c)') <= Cardinality(StillPaid(u, c))
    BY <1>d, <1>s, Fewer
  <2>4. /\ Cardinality(Directed(u, c)) \in Nat /\ Cardinality(Directed(u, c)') \in Nat
        /\ Cardinality(StillPaid(u, c)) \in Nat /\ Cardinality(StillPaid(u, c)') \in Nat
    BY <1>d, Counted
  <2> QED BY <1>s, <1>t, <2>2, <2>3, <2>4
<1>1. CASE SettleSupporter
  <2> DEFINE earned == {i \in run.paid \ run.bare : PaysTo[i] = c}
  <2>1. /\ UNCHANGED <<invoice, lines>> /\ \A i \in Invoices : stamp'[i] = NewStamp(i)
        /\ run.paid \subseteq Invoices
    BY <1>1, SettleEffect
  <2>2. /\ run.paid \ run.bare \subseteq lines
        /\ \A i \in run.paid : PayerOf[i] \in run.at
        /\ \A i \in Invoices :
              /\ PayerOf[i] \in run.at /\ stamp[i] # "none" /\ invoice[i] = "paid" => i \in run.paid
              /\ stamp[i] = "whole" => i \notin run.bare
    BY <1>1, SettleEffect DEF SettlementInv, ReadsSound
  <2>3. earned \subseteq Invoices /\ Directed(u, c)' = Directed(u, c)
    BY <2>1 DEF Directed
  <2>4. CASE u \in run.at /\ c \in Named \ run.barred
    <3>1. credit'[u][c]["support"] = Cardinality(earned)
      BY <1>1, <2>4, CreditBecomes DEF Entitled, Kinds
    <3>2. run.at = {u}
      BY <1>1, <2>4, SettleEffect DEF SettlementInv, ReadsSound
    <3>3. earned \subseteq Directed(u, c)
      BY <2>2, <3>2 DEF Directed
    <3>4. StillPaid(u, c)' \subseteq earned
      <4> SUFFICES ASSUME NEW i \in StillPaid(u, c)' PROVE i \in earned
        OBVIOUS
      <4>1. i \in Directed(u, c) /\ i \in Invoices /\ NewStamp(i) = "whole" /\ invoice[i] = "paid"
        BY <1>d, <2>1, <2>3 DEF StillPaid
      <4>2. PayerOf[i] = u /\ PaysTo[i] = c
        BY <4>1 DEF Directed
      <4>3. i \in run.paid \ run.bare
        BY <2>2, <3>2, <4>1, <4>2 DEF NewStamp
      <4> QED BY <4>2, <4>3
    <3> HIDE DEF earned
    <3>5. Cardinality(earned) <= Cardinality(Directed(u, c)) /\ Cardinality(StillPaid(u, c)') <= Cardinality(earned)
      BY <1>d, <2>3, <3>3, <3>4, Fewer
    <3> QED BY <2>3, <3>1, <3>5
  <2>5. CASE ~ (u \in run.at /\ c \in Named \ run.barred)
    <3>1. credit'[u][c]["support"] = credit[u][c]["support"]
      BY <1>1, <2>5, CreditBecomes DEF Kinds
    <3>2. ASSUME NEW i \in StillPaid(u, c)' PROVE i \in StillPaid(u, c)
      <4>1. i \in Directed(u, c) /\ i \in Invoices /\ NewStamp(i) = "whole" /\ invoice[i] = "paid"
        BY <1>d, <2>1, <2>3, <3>2 DEF StillPaid
      <4>2. PayerOf[i] = u /\ PaysTo[i] = c
        BY <4>1 DEF Directed
      <4>3. ASSUME stamp[i] # "whole" PROVE FALSE
        \* Newly stamped, it is earned, so its creator is named and nobody is barred.
        <5>1. i \in run.paid \ run.bare /\ run.barred = {}
          BY <4>1, <4>3 DEF NewStamp
        <5>2. u \in run.at /\ earned # {}
          BY <2>2, <4>2, <5>1
        <5>3. Entitled(c, "support") > 0
          BY <2>3, <5>2, NothingCounted DEF Entitled
        <5> QED BY <2>5, <5>1, <5>2, <5>3, NamedBy
      <4> QED BY <4>1, <4>3 DEF StillPaid
    <3> QED BY <1>s, <2>1, <3>1, <3>2
  <2> QED BY <2>4, <2>5
<1>2. ASSUME NEW j \in Invoices, PaymentStep(j)
      PROVE  credit' = credit /\ lines \subseteq lines' /\ StillPaid(u, c)' \subseteq StillPaid(u, c)
  <2>1. credit' = credit /\ stamp' = stamp /\ lines \subseteq lines'
    BY <1>2 DEF PaymentStep, InsertInvoice, RecordLines, RecordingDies, MoneyReturned,
         monthBooks
  <2>2. \A i \in Invoices : invoice'[i] = "paid" => invoice[i] = "paid" \/ invoice[i] = "none"
    BY <1>2 DEF PaymentStep, InsertInvoice, RecordLines, RecordingDies, MoneyReturned,
         SettlementInv, SettlementTypeOK
  <2>3. \A i \in Invoices : (stamp[i] # "none" => invoice[i] # "none") /\ (stamp[i] = "whole" => i \in lines)
    BY DEF SettlementInv, BooksSound
  <2> QED BY <1>d, <2>1, <2>2, <2>3 DEF StillPaid, Directed
<1>3. CASE \/ RunOnly \/ \E v \in Supporters : ReadPaid(v)
           \/ \E s \in Stickers : StickerStep(s)
           \/ \E d \in Creators : StandingStep(d)
  <2>1. UNCHANGED <<credit, lines, stamp, invoice>>
    BY <1>3 DEF RunOnly, StartRun, ReadPaid, ReadLive, ReadStanding, EndRun, SupporterFails,
         RunDies,
                StickerStep, VoidSticker, RestoreSticker,
                StandingStep, Suspend, Reinstate, monthBooks, monthMoney
  <2> QED BY <1>s, <2>1 DEF StillPaid, Directed
<1> QED BY <1>1, <1>s, <1>2, <1>3, StepCases

Settled(u) == \E i \in Invoices : PayerOf[i] = u /\ stamp[i] # "none" /\ invoice[i] = "paid"

\* A settled giver's Stickers stay credited as directed.
LEMMA StickersStep == SettlementInv /\ SettlementNext => StickersPaidAsDirected'
<1> SUFFICES ASSUME SettlementInv, SettlementNext, NEW u \in Supporters, NEW c \in Creators,
                    Settled(u)', Given(u, c) \cap late' = {}
             PROVE  credit'[u][c]["sticker"] = Cardinality(Given(u, c) \ voided')
  BY DEF StickersPaidAsDirected, Settled, Given
<1>t. Settled(u) /\ Given(u, c) \cap late = {} => credit[u][c]["sticker"] = Cardinality(Given(u, c) \ voided)
  BY DEF SettlementInv, StickersPaidAsDirected, Settled
<1>1. CASE SettleSupporter
  <2> DEFINE paidTo == {s \in run.live : RecipientOf[s] = c}
  <2>1. /\ UNCHANGED <<invoice, voided, late>> /\ \A i \in Invoices : stamp'[i] = NewStamp(i)
        /\ run.paid \subseteq Invoices /\ run.live \subseteq Stickers
    BY <1>1, SettleEffect
  <2>2. PICK i \in Invoices : PayerOf[i] = u /\ NewStamp(i) # "none" /\ invoice[i] = "paid"
    BY <2>1 DEF Settled
  <2>3. Given(u, c) \cap late = {}
    BY <2>1
  \* The Stickers read are the ones to be paid, once the month has a paid charge.
  <2>4. ASSUME u \in run.at, run.paid # {} PROVE paidTo = Given(u, c) \ voided
    <3>1. run.at = {u}
      BY <1>1, <2>4, SettleEffect DEF SettlementInv, ReadsSound
    <3>2. /\ \A s \in run.live : GiverOf[s] \in run.at
          /\ \A s \in Stickers \ late : GiverOf[s] \in run.at => (s \in run.live <=> s \notin voided)
      BY <1>1, <2>4, SettleEffect DEF SettlementInv, LiveSound
    <3> QED BY <2>1, <2>3, <3>1, <3>2 DEF Given
  <2>5. stamp[i] = "none" => i \in run.paid /\ run.barred = {}
    BY <2>2 DEF NewStamp
  <2>6. CASE u \in run.at /\ c \in Named \ run.barred
    <3>1. credit'[u][c]["sticker"] = Cardinality(paidTo)
      BY <1>1, <2>6, CreditBecomes DEF Entitled, Kinds
    <3>2. stamp[i] # "none" => i \in run.paid
      BY <1>1, <2>2, <2>6, SettleEffect DEF SettlementInv, ReadsSound
    <3>3. run.paid # {}
      BY <2>5, <3>2
    <3> HIDE DEF paidTo
    <3> QED BY <2>1, <2>4, <2>6, <3>1, <3>3
  <2>7. CASE ~ (u \in run.at /\ c \in Named \ run.barred)
    <3>1. credit'[u][c]["sticker"] = credit[u][c]["sticker"]
      BY <1>1, <2>7, CreditBecomes DEF Kinds
    <3>2. CASE Settled(u)
      BY <1>t, <2>1, <2>3, <3>1, <3>2
    <3>3. CASE ~ Settled(u)
      <4>1. stamp[i] = "none"
        BY <2>2, <3>3 DEF Settled
      <4>2. i \in run.paid /\ run.barred = {} /\ u \in run.at
        BY <1>1, <2>2, <2>5, <4>1, SettleEffect DEF SettlementInv, ReadsSound
      <4>3. c \notin Named
        BY <2>7, <4>2
      <4>4. paidTo = {}
        BY <2>1, <4>3, NamedBy, NothingCounted DEF Entitled
      <4>5. Given(u, c) \ voided = {}
        <5> HIDE DEF paidTo
        <5> QED BY <2>4, <4>2, <4>4
      <4>6. credit[u][c]["sticker"] \in Nat /\ ~ (credit[u][c]["sticker"] > 0)
        <5>1. credit[u][c]["sticker"] \in Nat
          BY DEF SettlementInv, SettlementTypeOK, Kinds
        <5>2. ~ (credit[u][c]["sticker"] > 0)
          BY <2>3, <4>5 DEF SettlementInv, CreditHasSticker
        <5> QED BY <5>1, <5>2
      <4>7. credit'[u][c]["sticker"] = 0
        BY <3>1, <4>6
      <4>8. Given(u, c) \ voided' = {}
        BY <2>1, <4>5
      <4> QED BY <4>7, <4>8, FS_EmptySet
    <3> QED BY <3>2, <3>3
  <2> QED BY <2>6, <2>7
<1>2. ASSUME NEW s \in Stickers, StickerStep(s)
      PROVE  credit'[u][c]["sticker"] = Cardinality(Given(u, c) \ voided')
  <2>1. UNCHANGED <<credit, stamp, invoice>> /\ Reached(s) /\ late \subseteq late'
    BY <1>2 DEF StickerStep, VoidSticker, RestoreSticker, Reached, monthBooks, monthMoney
  <2>2. Settled(u)
    BY <2>1 DEF Settled
  <2>3. s \notin Given(u, c)
    <3>1. SUFFICES ASSUME s \in Given(u, c) PROVE FALSE
      OBVIOUS
    <3>2. AlreadyRead(s)
      BY <2>2, <3>1 DEF AlreadyRead, Settled, Given
    <3> QED BY <2>1, <3>1, <3>2 DEF Reached
  <2>4. \A q \in Stickers \ {s} : q \in voided' <=> q \in voided
    BY <1>2 DEF StickerStep, VoidSticker, RestoreSticker
  <2>5. Given(u, c) \ voided' = Given(u, c) \ voided
    BY <2>3, <2>4 DEF Given
  <2> QED BY <1>t, <2>1, <2>2, <2>5
<1>3. ASSUME NEW j \in Invoices, PaymentStep(j) PROVE Settled(u) /\ UNCHANGED <<credit, voided, late>>
  <2>1. UNCHANGED <<credit, voided, late, stamp>>
    BY <1>3 DEF PaymentStep, InsertInvoice, RecordLines, RecordingDies, MoneyReturned,
         monthBooks
  <2>2. \A i \in Invoices : invoice'[i] = "paid" => invoice[i] = "paid" \/ invoice[i] = "none"
    BY <1>3 DEF PaymentStep, InsertInvoice, RecordLines, RecordingDies, MoneyReturned,
         SettlementInv, SettlementTypeOK
  <2>3. \A i \in Invoices : stamp[i] # "none" => invoice[i] # "none"
    BY DEF SettlementInv, BooksSound
  <2> QED BY <2>1, <2>2, <2>3 DEF Settled
<1>4. CASE \/ RunOnly \/ \E v \in Supporters : ReadPaid(v)
           \/ \E d \in Creators : StandingStep(d)
  <2>1. UNCHANGED <<credit, voided, late, stamp, invoice>>
    BY <1>4 DEF RunOnly, StartRun, ReadPaid, ReadLive, ReadStanding, EndRun, SupporterFails,
         RunDies,
                StandingStep, Suspend, Reinstate, monthBooks, monthMoney
  <2> QED BY <1>t, <2>1 DEF Settled
<1> QED BY <1>t, <1>1, <1>2, <1>3, <1>4, StepCases

-----------------------------------------------------------------------------
(* The theorems.                                                           *)

\* So SettlementInv is inductive.
LEMMA InvStep == SettlementInv /\ [SettlementNext]_settlementVars => SettlementInv'
<1> SUFFICES ASSUME SettlementInv, [SettlementNext]_settlementVars PROVE SettlementInv'
  OBVIOUS
<1>1. CASE SettlementNext
  <2>1. SettlementTypeOK' /\ BooksSound' /\ ReadsSound' /\ LiveSound'
    BY <1>1, SettlementTypeStep, BooksStep, ReadsStep, LiveStep DEF SettlementInv
  <2>2. CreditHasSticker' /\ CreditsFollowPayments' /\ StickersPaidAsDirected'
    BY <1>1, CreditHasStickerStep, CreditsStep, StickersStep
  <2> QED BY <2>1, <2>2 DEF SettlementInv
<1>2. CASE UNCHANGED settlementVars
  <2>1. UNCHANGED <<invoice, recording, lines, stamp, voided, suspended, estimate, credit, closed, run,
                    late, upsets, failures>>
    BY <1>2 DEF settlementVars, monthMoney, monthBooks
  <2>2. SettlementTypeOK' /\ BooksSound' /\ ReadsSound' /\ LiveSound'
    BY <2>1 DEF SettlementInv, SettlementTypeOK, BooksSound, ReadsSound, LiveSound, Reading
  <2>3. CreditHasSticker' /\ StickersPaidAsDirected'
    BY <2>1 DEF SettlementInv, CreditHasSticker, StickersPaidAsDirected, Given
  <2>4. CreditsFollowPayments'
    BY <2>1 DEF SettlementInv, CreditsFollowPayments, Directed
  <2> QED BY <2>2, <2>3, <2>4 DEF SettlementInv
<1> QED BY <1>1, <1>2

\* So it always holds.
LEMMA InvAlways == SettlementSpec => []SettlementInv
  BY InvInit, InvStep, PTL DEF SettlementSpec

\* Every variable of the month's settlement keeps its type.
THEOREM SettlementTypeOKAlways == SettlementSpec => []SettlementTypeOK
<1>1. SettlementInv => SettlementTypeOK
  BY DEF SettlementInv
<1> QED BY <1>1, InvAlways, PTL

\* However often the job runs, dies and is repeated, and whatever is paid, returned or
\* suspended beside it, a creator's support credit is never above what the recorded
\* invoices directed at them and never below the settled ones that still stand.
THEOREM CreditsFollowPaymentsAlways == SettlementSpec => []CreditsFollowPayments
<1>1. SettlementInv => CreditsFollowPayments
  BY DEF SettlementInv
<1> QED BY <1>1, InvAlways, PTL

\* While a settled payment of a supporter stands, the Sticker credit is the number of
\* their Stickers no takedown voided, unless a takedown came after the month was read.
THEOREM StickersPaidAsDirectedAlways == SettlementSpec => []StickersPaidAsDirected
<1>1. SettlementInv => StickersPaidAsDirected
  BY DEF SettlementInv
<1> QED BY <1>1, InvAlways, PTL

=============================================================================
