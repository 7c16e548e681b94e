----------------------------- MODULE CheckoutProofs -----------------------------
(***************************************************************************)
(* Theorems about Checkout, for any goods and stocks, any number of        *)
(* buyers, visits, sessions and sweeps: an order that was paid keeps its   *)
(* rows and its stock, and every unit is on the shelf, in the hands of a   *)
(* visit or on an order.                                                   *)
(***************************************************************************)
EXTENDS Checkout, FiniteSetTheorems, TLAPS

-----------------------------------------------------------------------------
(* Type correctness.                                                       *)

\* A visit that has not begun has the type of visits.
LEMMA IdleType == Idle \in VisitType
  BY DEF Idle, VisitType, VisitPlaces

\* Every record the visits' steps write is one of VisitType.
LEMMA VisitUpdates ==
  ASSUME NEW r \in VisitType
  PROVE  /\ \A pc \in VisitPlaces : [r EXCEPT !.pc = pc] \in VisitType
         /\ \A pc \in VisitPlaces, lines \in SUBSET Goods :
               [Idle EXCEPT !.pc = pc, !.lines = lines] \in VisitType
         /\ \A todo \in SUBSET Sessions : [r EXCEPT !.pc = "read", !.todo = todo] \in VisitType
         /\ \A s \in Sessions : [r EXCEPT !.todo = @ \ {s}] \in VisitType
         /\ \A s \in Sessions : [r EXCEPT !.todo = @ \ {s}, !.at = {s}] \in VisitType
         /\ \A pc \in VisitPlaces, hand \in SUBSET Goods :
               [r EXCEPT !.pc = pc, !.hand = hand] \in VisitType
         /\ [r EXCEPT !.pc = "create", !.at = {}, !.hand = @ \cup r.lines] \in VisitType
         /\ \A s \in Sessions : [r EXCEPT !.pc = "insert", !.at = {s}] \in VisitType
  BY DEF VisitType, VisitPlaces, Idle

\* A step writes the record of its own visit and no other.
LEMMA Becomes ==
  ASSUME CheckoutTypeOK, NEW v \in Visits, NEW r, VisitBecomes(v, r)
  PROVE  /\ visit'[v] = r
         /\ \A u \in Visits \ {v} : visit'[u] = visit[u]
         /\ r \in VisitType => visit' \in [Visits -> VisitType]
  BY DEF VisitBecomes, CheckoutTypeOK

\* The shelf stays a number of units, put back or taken within the stock.
LEMMA ShelfTypes ==
  ASSUME CheckoutTypeOK, NEW units \in SUBSET Goods
  PROVE  /\ PutBack(units) \in [Goods -> Nat]
         /\ InStock(units) => Taken(units) \in [Goods -> Nat]
<1>1. \A g \in Goods : shelf[g] \in Nat
  BY DEF CheckoutTypeOK
<1>2. PutBack(units) \in [Goods -> Nat]
  BY <1>1 DEF PutBack
<1>3. ASSUME InStock(units) PROVE Taken(units) \in [Goods -> Nat]
  <2>1. \A g \in Goods : g \in units => shelf[g] - 1 \in Nat
    BY <1>1, <1>3 DEF InStock
  <2> QED BY <1>1, <2>1 DEF Taken
<1> QED BY <1>2, <1>3

\* A session that is opened, paid or expired has the type of sessions.
LEMMA SoldTypes ==
  ASSUME CheckoutTypeOK, NEW s \in Sessions
  PROVE  /\ \A b \in Buyers, lines \in SUBSET Goods :
               [sold EXCEPT ![s] = [buyer |-> {b}, lines |-> lines, state |-> "open"]]
                  \in [Sessions -> SessionType]
         /\ \A state \in {"paid", "expired"} :
               [sold EXCEPT ![s].state = state] \in [Sessions -> SessionType]
  BY DEF CheckoutTypeOK, SessionType

\* The types hold at the start: no visit, no session, the whole stock on the shelf.
LEMMA CheckoutTypeInit == CheckoutInit => CheckoutTypeOK
<1> SUFFICES ASSUME CheckoutInit PROVE CheckoutTypeOK
  OBVIOUS
<1>1. Baskets \subseteq SUBSET Goods /\ Stock \in [Goods -> Nat]
  BY CheckoutAssumption
<1>2. basket \in [Buyers -> SUBSET Goods]
  BY <1>1 DEF CheckoutInit
<1>3. sold \in [Sessions -> SessionType]
  BY DEF CheckoutInit, SessionType
<1>4. edits \in 0..MaxEdits /\ mishaps \in 0..MaxMishaps
  BY CheckoutAssumption DEF CheckoutInit
<1> QED BY <1>1, <1>2, <1>3, <1>4, IdleType DEF CheckoutInit, CheckoutTypeOK

\* What a visit's step may change, each with its type.
LEMMA VisitTypes ==
  ASSUME CheckoutTypeOK, NEW v \in Visits, ResolveBasket(v) \/ VisitSteps(v) \/ VisitDies(v)
  PROVE  CheckoutTypeOK'
<1> DEFINE r == visit[v]
<1>r. r \in VisitType /\ r.lines \subseteq Goods /\ r.todo \subseteq Sessions /\ r.hand \subseteq Goods
  BY DEF CheckoutTypeOK, VisitType
<1>u. VisitorOf[v] \in Buyers /\ basket[VisitorOf[v]] \subseteq Goods
  BY CheckoutAssumption DEF CheckoutTypeOK
<1>m. mishaps < MaxMishaps => mishaps + 1 \in 0..MaxMishaps
  BY CheckoutAssumption DEF CheckoutTypeOK
<1>p. VisitPlaces = {"rest", "refused", "look", "read", "expire", "fail", "release", "stamp",
                     "create", "insert"}
  BY DEF VisitPlaces
<1>q. ASSUME visit' \in [Visits -> VisitType],
             UNCHANGED <<checkoutRows, sold, aged, sweep, hook, checkoutCounts>>
      PROVE  CheckoutTypeOK'
  BY <1>q DEF CheckoutTypeOK, checkoutRows, checkoutCounts
<1>1. CASE ResolveBasket(v)
  <2>1. \/ VisitBecomes(v, [Idle EXCEPT !.pc = "look", !.lines = basket[VisitorOf[v]]])
        \/ VisitBecomes(v, [Idle EXCEPT !.pc = "refused", !.lines = basket[VisitorOf[v]]])
    BY <1>1 DEF ResolveBasket
  <2>2. visit' \in [Visits -> VisitType]
    BY <2>1, <1>r, <1>u, <1>p, VisitUpdates, Becomes
  <2> QED BY <1>1, <1>q, <2>2 DEF ResolveBasket
<1>2. CASE LookForSessions(v)
  <2> DEFINE found == {s \in Sessions : sold[s].buyer = {VisitorOf[v]} /\ order[s] = "pending"}
  <2>1. VisitBecomes(v, [r EXCEPT !.pc = "read", !.todo = found]) /\ found \in SUBSET Sessions
    BY <1>2 DEF LookForSessions
  <2>2. visit' \in [Visits -> VisitType]
    BY <2>1, <1>r, VisitUpdates, Becomes
  <2> QED BY <1>2, <1>q, <2>2 DEF LookForSessions
<1>3. ASSUME NEW s \in Sessions, ReadSession(v, s) PROVE CheckoutTypeOK'
  <2> DEFINE on == [r EXCEPT !.todo = @ \ {s}, !.at = {s}]
             left == [r EXCEPT !.todo = @ \ {s}]
  <2>1. \/ VisitBecomes(v, Idle) \/ VisitBecomes(v, left)
        \/ VisitBecomes(v, [on EXCEPT !.pc = "expire"]) \/ VisitBecomes(v, [on EXCEPT !.pc = "fail"])
    BY <1>3 DEF ReadSession
  <2>2. on \in VisitType /\ left \in VisitType
    BY <1>r, VisitUpdates
  <2>3. [on EXCEPT !.pc = "expire"] \in VisitType /\ [on EXCEPT !.pc = "fail"] \in VisitType
    BY <2>2, <1>p, VisitUpdates
  <2>4. visit' \in [Visits -> VisitType]
    BY <2>1, <2>2, <2>3, IdleType, Becomes
  <2> QED BY <1>3, <1>q, <2>4 DEF ReadSession
<1>4. ASSUME NEW s \in Sessions, ExpireSession(v, s) PROVE CheckoutTypeOK'
  <2>1. VisitBecomes(v, [r EXCEPT !.pc = "fail"]) \/ VisitBecomes(v, Idle)
    BY <1>4 DEF ExpireSession, VisitGoes
  <2>2. visit' \in [Visits -> VisitType]
    BY <2>1, <1>r, <1>p, VisitUpdates, IdleType, Becomes
  <2>3. sold' \in [Sessions -> SessionType]
    BY <1>4, SoldTypes DEF ExpireSession, CheckoutTypeOK
  <2> QED BY <1>4, <2>2, <2>3 DEF ExpireSession, CheckoutTypeOK, checkoutRows, checkoutCounts
<1>5. ASSUME NEW s \in Sessions, FailRows(v, s) PROVE CheckoutTypeOK'
  <2> DEFINE open == order[s] = "pending" /\ s \notin keyed
             held == {g \in sold[s].lines : open /\ <<s, g>> \notin returned}
             pc == IF held = {} THEN "read" ELSE "release"
  <2>1. VisitBecomes(v, [r EXCEPT !.pc = pc, !.hand = held])
    BY <1>5 DEF FailRows
  <2>2. held \in SUBSET Goods /\ pc \in VisitPlaces
    BY <1>p DEF CheckoutTypeOK, SessionType
  <2>3. visit' \in [Visits -> VisitType]
    BY <2>1, <2>2, <1>r, VisitUpdates, Becomes
  <2>4. order' \in [Sessions -> {"none", "pending", "failed", "completed"}]
    BY <1>5 DEF FailRows, CheckoutTypeOK
  <2> QED BY <1>5, <2>3, <2>4 DEF FailRows, CheckoutTypeOK, checkoutCounts
<1>6. CASE ReleaseRows(v)
  <2>1. visit' \in [Visits -> VisitType]
    BY <1>6, <1>r, <1>p, VisitUpdates, Becomes DEF ReleaseRows, VisitGoes
  <2>2. shelf' \in [Goods -> Nat]
    BY <1>6, <1>r, ShelfTypes DEF ReleaseRows
  <2> QED BY <1>6, <2>1, <2>2 DEF ReleaseRows, CheckoutTypeOK, checkoutCounts
<1>7. ASSUME NEW s \in Sessions, StampRows(v, s) PROVE CheckoutTypeOK'
  <2>1. visit' \in [Visits -> VisitType]
    BY <1>7, <1>r, <1>p, VisitUpdates, Becomes DEF StampRows
  <2>2. returned' \subseteq Sessions \X Goods
    BY <1>7, <1>r DEF StampRows, CheckoutTypeOK
  <2> QED BY <1>7, <2>1, <2>2 DEF StampRows, CheckoutTypeOK, checkoutCounts
<1>8. CASE ReserveLines(v)
  <2>1. visit' \in [Visits -> VisitType]
    BY <1>8, <1>r, VisitUpdates, IdleType, Becomes DEF ReserveLines
  <2>2. shelf' \in [Goods -> Nat]
    BY <1>8, <1>r, ShelfTypes DEF ReserveLines, CheckoutTypeOK
  <2> QED BY <1>8, <2>1, <2>2 DEF ReserveLines, CheckoutTypeOK, checkoutCounts
<1>9. CASE UndoReservation(v)
  <2>1. visit' \in [Visits -> VisitType]
    BY <1>9, IdleType, Becomes DEF UndoReservation
  <2>2. shelf' \in [Goods -> Nat]
    BY <1>9, <1>r, ShelfTypes DEF UndoReservation
  <2> QED BY <1>9, <2>1, <2>2 DEF UndoReservation, CheckoutTypeOK, checkoutCounts
<1>10. CASE CreationThrows(v) \/ VisitDies(v)
  <2>1. visit' \in [Visits -> VisitType]
    BY <1>10, IdleType, Becomes DEF CreationThrows, VisitDies
  <2> QED BY <1>10, <1>m, <2>1 DEF CreationThrows, VisitDies, CheckoutTypeOK, checkoutRows
<1>11. ASSUME NEW s \in Sessions, CreateSession(v, s) PROVE CheckoutTypeOK'
  <2>1. visit' \in [Visits -> VisitType]
    BY <1>11, <1>r, VisitUpdates, Becomes DEF CreateSession
  <2>2. sold' \in [Sessions -> SessionType]
    BY <1>11, <1>r, <1>u, SoldTypes DEF CreateSession
  <2> QED BY <1>11, <2>1, <2>2 DEF CreateSession, CheckoutTypeOK, checkoutRows, checkoutCounts
<1>12. ASSUME NEW s \in Sessions, InsertRows(v, s) PROVE CheckoutTypeOK'
  <2>1. visit' \in [Visits -> VisitType]
    BY <1>12, IdleType, Becomes DEF InsertRows
  <2>2. order' \in [Sessions -> {"none", "pending", "failed", "completed"}]
    BY <1>12 DEF InsertRows, CheckoutTypeOK
  <2> QED BY <1>12, <2>1, <2>2 DEF InsertRows, CheckoutTypeOK, checkoutCounts
<1> QED BY <1>1, <1>2, <1>3, <1>4, <1>5, <1>6, <1>7, <1>8, <1>9, <1>10, <1>11, <1>12
             DEF VisitSteps

\* And every step keeps them, action by action.
LEMMA CheckoutTypeStep == CheckoutTypeOK /\ [CheckoutNext]_checkoutVars => CheckoutTypeOK'
<1> SUFFICES ASSUME CheckoutTypeOK, [CheckoutNext]_checkoutVars PROVE CheckoutTypeOK'
  OBVIOUS
<1>m. /\ mishaps < MaxMishaps => mishaps + 1 \in 0..MaxMishaps
      /\ edits < MaxEdits => edits + 1 \in 0..MaxEdits
  BY CheckoutAssumption DEF CheckoutTypeOK
<1>1. ASSUME NEW v \in Visits, ResolveBasket(v) \/ VisitSteps(v) \/ VisitDies(v) PROVE CheckoutTypeOK'
  BY <1>1, VisitTypes
<1>2. ASSUME NEW s \in Sessions, HookSteps(s) \/ HookDies(s) PROVE CheckoutTypeOK'
  <2>1. CASE DeliverPaid(s)
    BY <2>1 DEF DeliverPaid, CheckoutTypeOK, checkoutCounts
  <2>2. CASE ClearBought(s)
    <3>1. basket' \in [Buyers -> SUBSET Goods]
      BY <2>2 DEF ClearBought, CheckoutTypeOK
    <3> QED BY <2>2, <3>1 DEF ClearBought, CheckoutTypeOK, checkoutCounts
  <2>3. CASE CompleteOrder(s)
    BY <2>3 DEF CompleteOrder, CheckoutTypeOK, checkoutCounts
  <2>4. CASE HookDies(s)
    BY <2>4, <1>m DEF HookDies, CheckoutTypeOK, checkoutRows
  <2> QED BY <1>2, <2>1, <2>2, <2>3, <2>4 DEF HookSteps
<1>3. ASSUME NEW s \in Sessions, ClockSteps(s) \/ PaySession(s) PROVE CheckoutTypeOK'
  <2>1. CASE SessionLapses(s) \/ PaySession(s)
    <3>1. sold' \in [Sessions -> SessionType]
      BY <2>1, SoldTypes DEF SessionLapses, PaySession
    <3>2. unfit' \subseteq Sessions
      BY <2>1 DEF SessionLapses, PaySession, CheckoutTypeOK, checkoutCounts
    <3> QED BY <2>1, <3>1, <3>2 DEF SessionLapses, PaySession, CheckoutTypeOK, checkoutRows,
                 checkoutCounts
  <2>2. CASE OrderAges(s)
    BY <2>2 DEF OrderAges, CheckoutTypeOK, checkoutRows, checkoutCounts
  <2> QED BY <1>3, <2>1, <2>2 DEF ClockSteps
<1>4. ASSUME NEW w \in Sweeps, SweepSteps(w) \/ SweepDies(w) PROVE CheckoutTypeOK'
  <2>1. CASE SelectStale(w)
    <3> DEFINE stale == UNION {OrderRows(s) : s \in {t \in aged : order[t] = "pending"}} \ returned
    <3>1. \A s \in Sessions : OrderRows(s) \subseteq Sessions \X Goods
      BY DEF OrderRows, CheckoutTypeOK, SessionType
    <3>2. stale \subseteq Sessions \X Goods
      BY <3>1 DEF CheckoutTypeOK
    <3>3. sweep' = [sweep EXCEPT ![w] = stale]
      BY <2>1 DEF SelectStale
    <3>4. sweep' \in [Sweeps -> SUBSET (Sessions \X Goods)]
      BY <3>2, <3>3 DEF CheckoutTypeOK
    <3> QED BY <2>1, <3>4 DEF SelectStale, CheckoutTypeOK, checkoutRows, checkoutCounts
  <2>2. ASSUME NEW s \in Sessions, NEW g \in Goods, ReturnStale(w, s, g) PROVE CheckoutTypeOK'
    <3>1. shelf' \in [Goods -> Nat]
      BY <2>2, ShelfTypes DEF ReturnStale, CheckoutTypeOK
    <3>2. returned' \subseteq Sessions \X Goods /\ sweep' \in [Sweeps -> SUBSET (Sessions \X Goods)]
      BY <2>2 DEF ReturnStale, CheckoutTypeOK
    <3> QED BY <2>2, <3>1, <3>2 DEF ReturnStale, CheckoutTypeOK, checkoutCounts
  <2>3. CASE SweepDies(w)
    BY <2>3, <1>m DEF SweepDies, CheckoutTypeOK, checkoutRows
  <2> QED BY <1>4, <2>1, <2>2, <2>3 DEF SweepSteps
<1>5. ASSUME NEW b \in Buyers, ChangeBasket(b) PROVE CheckoutTypeOK'
  <2>1. PICK lines \in Baskets : basket' = [basket EXCEPT ![b] = lines]
    BY <1>5 DEF ChangeBasket
  <2>2. lines \subseteq Goods
    BY CheckoutAssumption
  <2> QED BY <1>5, <1>m, <2>1, <2>2 DEF ChangeBasket, CheckoutTypeOK
<1>6. CASE UNCHANGED checkoutVars
  BY <1>6 DEF checkoutVars, checkoutRows, checkoutCounts, CheckoutTypeOK
<1> QED BY <1>1, <1>2, <1>3, <1>4, <1>5, <1>6 DEF CheckoutNext

\* Every behaviour has its types: no shelf shows fewer than no units.
THEOREM CheckoutTypeOKAlways == CheckoutSpec => []CheckoutTypeOK
<1> QED BY CheckoutTypeInit, CheckoutTypeStep, PTL DEF CheckoutSpec

-----------------------------------------------------------------------------
(* What visits hold and where their sessions stand; what rows stand on.    *)

VisitSound(v) ==
    /\ visit[v].hand # {} => visit[v].pc \in {"create", "insert", "release", "stamp"}
    /\ visit[v].pc = "create" => visit[v].hand = visit[v].lines
    /\ \A s \in visit[v].at :
          /\ visit[v].pc \in {"fail", "release", "stamp"} => sold[s].state = "expired"
          /\ visit[v].pc \in {"release", "stamp"} => order[s] = "failed"
          /\ visit[v].pc = "insert" =>
                order[s] = "none" /\ sold[s].state # "none" /\ visit[v].hand = sold[s].lines

RowSound(s) ==
    /\ order[s] = "failed" => sold[s].state = "expired"
    /\ order[s] = "completed" => sold[s].state = "paid"
    /\ hook[s] # "rest" => sold[s].state = "paid"
    /\ sold[s].state = "none" => order[s] = "none"
    /\ \A g \in Goods : <<s, g>> \in returned =>
          order[s] # "none" /\ (s \in aged \/ sold[s].state = "expired")
    /\ \A w \in Sweeps, g \in Goods : <<s, g>> \in sweep[w] =>
          s \in aged /\ order[s] # "none" /\ g \in sold[s].lines

\* No two visits write the rows of one session.
OneMaker ==
    \A u, v \in Visits :
        visit[u].pc = "insert" /\ visit[v].pc = "insert" /\ visit[u].at \cap visit[v].at # {} => u = v

SoundInv ==
    /\ CheckoutTypeOK
    /\ \A v \in Visits : VisitSound(v)
    /\ \A s \in Sessions : RowSound(s)
    /\ OneMaker

\* What no step undoes about a session.
Moves(s) ==
    /\ sold[s].state = "expired" => sold'[s].state = "expired"
    /\ sold[s].state = "paid" => sold'[s].state = "paid"
    /\ sold[s].state # "none" => sold'[s].state # "none" /\ sold'[s].lines = sold[s].lines
    /\ order[s] = "failed" => order'[s] = "failed"
    /\ order[s] # "none" => order'[s] # "none"
    /\ s \in aged => s \in aged'

\* Paying or expiring a session changes its state alone, and no other session.
LEMMA StateMoves ==
  ASSUME CheckoutTypeOK, NEW t \in Sessions, NEW state \in {"paid", "expired"},
         sold[t].state = "open", sold' = [sold EXCEPT ![t].state = state]
  PROVE  /\ sold'[t].state = state /\ sold'[t].lines = sold[t].lines
         /\ \A s \in Sessions : s # t => sold'[s] = sold[s]
  BY DEF CheckoutTypeOK, SessionType

\* No step undoes what became of a session: paid stays paid, expired expired, failed
\* failed.
LEMMA SessionsMove ==
  ASSUME SoundInv, [CheckoutNext]_checkoutVars, NEW s \in Sessions
  PROVE  Moves(s)
<1> USE DEF SoundInv, Moves
<1>k. ASSUME UNCHANGED <<sold, order, aged>> PROVE Moves(s)
  BY <1>k
<1>t. ASSUME NEW t \in Sessions, NEW state \in {"paid", "expired"}, sold[t].state = "open",
             sold' = [sold EXCEPT ![t].state = state], UNCHANGED <<order, aged>>
      PROVE  Moves(s)
  BY <1>t, StateMoves
<1>o. ASSUME NEW t \in Sessions, NEW status, status # "none",
             order' = [order EXCEPT ![t] = status], UNCHANGED <<sold, aged>>,
             order[t] = "failed" => status = "failed"
      PROVE  Moves(s)
  BY <1>o DEF CheckoutTypeOK
<1>1. ASSUME NEW v \in Visits, ResolveBasket(v) \/ VisitSteps(v) \/ VisitDies(v) PROVE Moves(s)
  <2>1. CASE ResolveBasket(v) \/ LookForSessions(v) \/ CreationThrows(v) \/ VisitDies(v)
    BY <2>1, <1>k DEF ResolveBasket, LookForSessions, CreationThrows, VisitDies, checkoutRows
  <2>2. CASE ReleaseRows(v) \/ ReserveLines(v) \/ UndoReservation(v)
    BY <2>2, <1>k DEF ReleaseRows, ReserveLines, UndoReservation
  <2>3. ASSUME NEW t \in Sessions, ReadSession(v, t) \/ StampRows(v, t) PROVE Moves(s)
    BY <2>3, <1>k DEF ReadSession, StampRows, checkoutRows
  <2>4. ASSUME NEW t \in Sessions, ExpireSession(v, t) PROVE Moves(s)
    BY <2>4, <1>k, <1>t DEF ExpireSession, checkoutRows
  <2>5. ASSUME NEW t \in Sessions, FailRows(v, t) PROVE Moves(s)
    <3>1. /\ order' = order \/ order' = [order EXCEPT ![t] = "failed"]
          /\ UNCHANGED <<sold, aged>>
      BY <2>5 DEF FailRows, CheckoutTypeOK
    <3> QED BY <3>1, <1>k, <1>o
  <2>6. ASSUME NEW t \in Sessions, CreateSession(v, t) PROVE Moves(s)
    <3>1. /\ sold[t].state = "none" /\ sold'[t].state = "open" /\ UNCHANGED <<order, aged>>
          /\ s # t => sold'[s] = sold[s]
      BY <2>6 DEF CreateSession, CheckoutTypeOK, checkoutRows
    <3> QED BY <3>1
  <2>7. ASSUME NEW t \in Sessions, InsertRows(v, t) PROVE Moves(s)
    <3>1. /\ order' = [order EXCEPT ![t] = "pending"] /\ UNCHANGED <<sold, aged>>
          /\ visit[v].pc = "insert" /\ t \in visit[v].at
      BY <2>7 DEF InsertRows, OfVisit
    <3>2. order[t] = "none"
      BY <3>1 DEF VisitSound
    <3> QED BY <3>1, <3>2, <1>o
  <2> QED BY <1>1, <2>1, <2>2, <2>3, <2>4, <2>5, <2>6, <2>7 DEF VisitSteps
<1>2. ASSUME NEW t \in Sessions, HookSteps(t) \/ HookDies(t) PROVE Moves(s)
  <2>1. CASE DeliverPaid(t) \/ ClearBought(t) \/ HookDies(t)
    BY <2>1, <1>k DEF DeliverPaid, ClearBought, HookDies, checkoutRows
  <2>2. CASE CompleteOrder(t)
    <3>1. /\ order' = order \/ (order[t] = "pending" /\ order' = [order EXCEPT ![t] = "completed"])
          /\ UNCHANGED <<sold, aged>>
      BY <2>2 DEF CompleteOrder, CheckoutTypeOK
    <3> QED BY <3>1, <1>k, <1>o
  <2> QED BY <1>2, <2>1, <2>2 DEF HookSteps
<1>3. ASSUME NEW t \in Sessions, ClockSteps(t) \/ PaySession(t) PROVE Moves(s)
  <2>1. CASE SessionLapses(t) \/ PaySession(t)
    BY <2>1, <1>t DEF SessionLapses, PaySession, checkoutRows
  <2>2. CASE OrderAges(t)
    BY <2>2 DEF OrderAges, checkoutRows
  <2> QED BY <1>3, <2>1, <2>2 DEF ClockSteps
<1>4. ASSUME NEW w \in Sweeps, SweepSteps(w) \/ SweepDies(w) PROVE Moves(s)
  BY <1>4, <1>k DEF SweepSteps, SelectStale, ReturnStale, SweepDies, checkoutRows
<1>5. ASSUME NEW b \in Buyers, ChangeBasket(b) PROVE Moves(s)
  BY <1>5, <1>k DEF ChangeBasket
<1>6. CASE UNCHANGED checkoutVars
  BY <1>6, <1>k DEF checkoutVars, checkoutRows
<1> QED BY <1>1, <1>2, <1>3, <1>4, <1>5, <1>6 DEF CheckoutNext

\* A visit that does not move keeps what it stands on.
LEMMA StillSound ==
  ASSUME SoundInv, NEW v \in Visits, visit'[v] = visit[v],
         \A s \in Sessions : Moves(s),
         visit[v].pc = "insert" => \A s \in visit[v].at : order'[s] = order[s]
  PROVE  VisitSound(v)'
<1>1. visit[v].at \subseteq Sessions
  BY DEF SoundInv, CheckoutTypeOK, VisitType
<1>2. VisitSound(v)
  BY DEF SoundInv
<1> QED BY <1>1, <1>2 DEF VisitSound, Moves

\* A visit goes on holding only what its place allows, and a session keeps one maker.
LEMMA VisitsSound ==
  SoundInv /\ [CheckoutNext]_checkoutVars => (\A v \in Visits : VisitSound(v))' /\ OneMaker'
<1> SUFFICES ASSUME SoundInv, [CheckoutNext]_checkoutVars
             PROVE  (\A v \in Visits : VisitSound(v)') /\ OneMaker'
  OBVIOUS
<1>m. \A s \in Sessions : Moves(s)
  BY SessionsMove
<1>t. CheckoutTypeOK /\ \A v \in Visits : visit[v] \in VisitType /\ VisitSound(v)
  BY DEF SoundInv, CheckoutTypeOK
<1>o. OneMaker
  BY DEF SoundInv
<1>k. ASSUME UNCHANGED visit, \A s \in Sessions : order[s] = "none" => order'[s] = "none"
      PROVE  (\A v \in Visits : VisitSound(v)') /\ OneMaker'
  <2>1. \A v \in Visits : visit[v].pc = "insert" => \A s \in visit[v].at : s \in Sessions /\ order[s] = "none"
    BY <1>t DEF VisitSound, VisitType
  <2>2. \A v \in Visits : VisitSound(v)'
    BY <1>k, <1>m, <2>1, StillSound
  <2> QED BY <1>k, <1>o, <2>2 DEF OneMaker
<1>l. ASSUME NEW v \in Visits, NEW r, VisitBecomes(v, r), UNCHANGED order, VisitSound(v)',
             r.pc # "insert"
      PROVE  (\A u \in Visits : VisitSound(u)') /\ OneMaker'
  <2>1. visit'[v] = r /\ \A u \in Visits : u # v => visit'[u] = visit[u]
    BY <1>l, <1>t, Becomes
  <2>2. \A u \in Visits : VisitSound(u)'
    BY <1>l, <1>m, <2>1, StillSound
  <2> QED BY <1>l, <1>o, <2>1, <2>2 DEF OneMaker
<1>i. ASSUME NEW v \in Visits, VisitBecomes(v, Idle) PROVE VisitSound(v)'
  <2>1. visit'[v] = Idle
    BY <1>i, <1>t, Becomes
  <2> QED BY <2>1 DEF VisitSound, Idle
<1>1. ASSUME NEW v \in Visits, ResolveBasket(v) \/ VisitSteps(v) \/ VisitDies(v)
      PROVE  (\A u \in Visits : VisitSound(u)') /\ OneMaker'
  <2> DEFINE r == visit[v]
  <2>r. r \in VisitType /\ VisitSound(v)
    BY <1>t
  <2>c. Idle.pc # "insert"
    BY DEF Idle
  <2>1. CASE ResolveBasket(v)
    <3> DEFINE goes(pc) == [Idle EXCEPT !.pc = pc, !.lines = basket[VisitorOf[v]]]
    <3>a. VisitBecomes(v, goes("look")) \/ VisitBecomes(v, goes("refused"))
      BY <2>1 DEF ResolveBasket
    <3>b. \A pc \in {"look", "refused"} : goes(pc).pc = pc /\ goes(pc).at = {} /\ goes(pc).hand = {}
      BY DEF Idle
    <3> HIDE DEF goes
    <3>1. PICK q : /\ VisitBecomes(v, q) /\ q.pc \in {"look", "refused"} /\ q.at = {} /\ q.hand = {}
      BY <3>a, <3>b
    <3>2. visit'[v] = q
      BY <3>1, <1>t, Becomes
    <3>3. VisitSound(v)'
      BY <3>1, <3>2 DEF VisitSound
    <3> QED BY <2>1, <3>1, <3>3, <1>l DEF ResolveBasket, checkoutRows
  <2>2. CASE LookForSessions(v)
    <3>1. PICK q : /\ VisitBecomes(v, q) /\ q.pc = "read" /\ q.hand = r.hand /\ r.pc = "look"
      BY <2>2, <2>r DEF LookForSessions, VisitType
    <3>2. visit'[v] = q
      BY <3>1, <1>t, Becomes
    <3>3. VisitSound(v)'
      BY <3>1, <3>2, <2>r DEF VisitSound
    <3> QED BY <2>2, <3>1, <3>3, <1>l DEF LookForSessions, checkoutRows
  <2>3. ASSUME NEW s \in Sessions, ReadSession(v, s) PROVE (\A u \in Visits : VisitSound(u)') /\ OneMaker'
    <3>1. r.pc = "read" /\ r.hand = {} /\ UNCHANGED <<order, sold>>
      BY <2>3, <2>r DEF ReadSession, VisitSound, checkoutRows
    <3>2. CASE VisitBecomes(v, Idle)
      BY <3>1, <3>2, <2>c, <1>i, <1>l
    <3>3. ASSUME NEW q, VisitBecomes(v, q), q.hand = {}, q.pc \in {"read", "expire"}
          PROVE  (\A u \in Visits : VisitSound(u)') /\ OneMaker'
      <4>1. visit'[v] = q
        BY <3>3, <1>t, Becomes
      <4>2. VisitSound(v)'
        BY <3>3, <4>1 DEF VisitSound
      <4> QED BY <3>1, <3>3, <4>2, <1>l
    <3>4. ASSUME NEW q, VisitBecomes(v, q), q.hand = {}, q.pc = "fail", q.at = {s}, sold[s].state = "expired"
          PROVE  (\A u \in Visits : VisitSound(u)') /\ OneMaker'
      <4>1. visit'[v] = q
        BY <3>4, <1>t, Becomes
      <4>2. VisitSound(v)'
        BY <3>1, <3>4, <4>1 DEF VisitSound
      <4> QED BY <3>1, <3>4, <4>2, <1>l
    <3> DEFINE on == [r EXCEPT !.todo = @ \ {s}, !.at = {s}]
               left == [r EXCEPT !.todo = @ \ {s}]
    <3>5. \/ VisitBecomes(v, Idle) \/ VisitBecomes(v, left)
          \/ VisitBecomes(v, [on EXCEPT !.pc = "expire"])
          \/ (VisitBecomes(v, [on EXCEPT !.pc = "fail"]) /\ sold[s].state = "expired")
      BY <2>3 DEF ReadSession
    <3>6. /\ left.hand = {} /\ left.pc = "read"
          /\ [on EXCEPT !.pc = "expire"].hand = {} /\ [on EXCEPT !.pc = "expire"].pc = "expire"
          /\ [on EXCEPT !.pc = "fail"].hand = {} /\ [on EXCEPT !.pc = "fail"].pc = "fail"
          /\ [on EXCEPT !.pc = "fail"].at = {s}
      BY <2>r, <3>1 DEF VisitType
    <3> HIDE DEF on, left
    <3> QED BY <3>2, <3>3, <3>4, <3>5, <3>6
  <2>4. ASSUME NEW s \in Sessions, ExpireSession(v, s) PROVE (\A u \in Visits : VisitSound(u)') /\ OneMaker'
    <3>1. r.pc = "expire" /\ r.at = {s} /\ r.hand = {} /\ UNCHANGED order
      BY <2>4, <2>r DEF ExpireSession, OfVisit, VisitSound, checkoutRows
    <3>2. CASE VisitBecomes(v, Idle)
      BY <3>1, <3>2, <2>c, <1>i, <1>l
    <3>3. CASE sold' = [sold EXCEPT ![s].state = "expired"] /\ VisitGoes(v, "fail")
      <4> DEFINE q == [r EXCEPT !.pc = "fail"]
      <4>1. VisitBecomes(v, q) /\ q.pc = "fail" /\ q.at = {s} /\ q.hand = {}
        BY <3>1, <3>3, <2>r DEF VisitGoes, VisitType
      <4>2. visit'[v] = q
        BY <4>1, <1>t, Becomes
      <4>3. sold'[s].state = "expired"
        BY <3>3, <1>t DEF CheckoutTypeOK, SessionType
      <4> HIDE DEF q
      <4>4. VisitSound(v)'
        BY <4>1, <4>2, <4>3 DEF VisitSound
      <4> QED BY <3>1, <4>1, <4>4, <1>l
    <3> QED BY <2>4, <3>2, <3>3 DEF ExpireSession
  <2>5. ASSUME NEW s \in Sessions, FailRows(v, s) PROVE (\A u \in Visits : VisitSound(u)') /\ OneMaker'
    <3> DEFINE open == order[s] = "pending" /\ s \notin keyed
               held == {g \in sold[s].lines : open /\ <<s, g>> \notin returned}
               pc == IF held = {} THEN "read" ELSE "release"
               q == [r EXCEPT !.pc = pc, !.hand = held]
    <3>1. /\ r.pc = "fail" /\ r.at = {s} /\ VisitBecomes(v, q) /\ sold' = sold
          /\ order' = [order EXCEPT ![s] = IF open THEN "failed" ELSE @]
      BY <2>5 DEF FailRows, OfVisit
    <3>2. q.pc = pc /\ q.at = {s} /\ q.hand = held
      BY <3>1, <2>r DEF VisitType
    <3>3. visit'[v] = q /\ \A u \in Visits : u # v => visit'[u] = visit[u]
      BY <3>1, <1>t, Becomes
    <3>4. held # {} => order'[s] = "failed"
      BY <3>1, <1>t DEF CheckoutTypeOK
    <3>5. sold[s].state = "expired"
      BY <3>1, <2>r DEF VisitSound
    <3>6. \A t \in Sessions : order[t] = "none" => order'[t] = "none"
      BY <3>1, <1>t DEF CheckoutTypeOK
    <3> HIDE DEF held, q
    <3>7. VisitSound(v)'
      BY <3>1, <3>2, <3>3, <3>4, <3>5 DEF VisitSound
    <3>8. \A u \in Visits : u # v => VisitSound(u)'
      <4>1. \A u \in Visits : visit[u].pc = "insert" => \A t \in visit[u].at : order'[t] = order[t]
        BY <3>6, <1>t DEF VisitSound, VisitType
      <4> QED BY <3>3, <4>1, <1>m, StillSound
    <3>9. OneMaker'
      BY <3>2, <3>3, <1>o DEF OneMaker
    <3> QED BY <3>7, <3>8, <3>9
  <2>6. CASE ReleaseRows(v)
    <3> DEFINE q == [r EXCEPT !.pc = "stamp"]
    <3>1. /\ r.pc = "release" /\ VisitBecomes(v, q) /\ UNCHANGED <<order, sold>>
          /\ q.pc = "stamp" /\ q.at = r.at
      BY <2>6, <2>r DEF ReleaseRows, VisitGoes, VisitType
    <3>2. visit'[v] = q
      BY <3>1, <1>t, Becomes
    <3> HIDE DEF q
    <3>3. VisitSound(v)'
      BY <3>1, <3>2, <2>r DEF VisitSound
    <3> QED BY <3>1, <3>3, <1>l
  <2>7. ASSUME NEW s \in Sessions, StampRows(v, s) PROVE (\A u \in Visits : VisitSound(u)') /\ OneMaker'
    <3> DEFINE q == [r EXCEPT !.pc = "read", !.hand = {}]
    <3>1. VisitBecomes(v, q) /\ UNCHANGED <<order, sold>> /\ q.pc = "read" /\ q.hand = {}
      BY <2>7, <2>r DEF StampRows, VisitType
    <3>2. visit'[v] = q
      BY <3>1, <1>t, Becomes
    <3> HIDE DEF q
    <3>3. VisitSound(v)'
      BY <3>1, <3>2 DEF VisitSound
    <3> QED BY <3>1, <3>3, <1>l
  <2>8. CASE ReserveLines(v)
    <3>1. r.pc = "read" /\ r.hand = {} /\ UNCHANGED <<order, sold>>
      BY <2>8, <2>r DEF ReserveLines, VisitSound
    <3>2. CASE VisitBecomes(v, Idle)
      BY <3>1, <3>2, <2>c, <1>i, <1>l
    <3> DEFINE q == [r EXCEPT !.pc = "create", !.at = {}, !.hand = @ \cup r.lines]
    <3>3. CASE VisitBecomes(v, q)
      <4>1. q.pc = "create" /\ q.at = {} /\ q.hand = q.lines
        BY <3>1, <2>r DEF VisitType
      <4>2. visit'[v] = q
        BY <3>3, <1>t, Becomes
      <4> HIDE DEF q
      <4>3. VisitSound(v)'
        BY <4>1, <4>2 DEF VisitSound
      <4> QED BY <3>1, <3>3, <4>1, <4>3, <1>l
    <3> QED BY <2>8, <3>2, <3>3 DEF ReserveLines
  <2>9. CASE UndoReservation(v) \/ CreationThrows(v) \/ VisitDies(v)
    <3>1. VisitBecomes(v, Idle) /\ UNCHANGED order
      BY <2>9 DEF UndoReservation, CreationThrows, VisitDies, checkoutRows
    <3> QED BY <3>1, <2>c, <1>i, <1>l
  <2>10. ASSUME NEW s \in Sessions, CreateSession(v, s) PROVE (\A u \in Visits : VisitSound(u)') /\ OneMaker'
    <3> DEFINE q == [r EXCEPT !.pc = "insert", !.at = {s}]
    <3>1. /\ r.pc = "create" /\ sold[s].state = "none" /\ VisitBecomes(v, q) /\ UNCHANGED order
          /\ sold'[s].lines = r.lines /\ sold'[s].state = "open"
      BY <2>10, <1>t DEF CreateSession, checkoutRows, CheckoutTypeOK
    <3>2. q.pc = "insert" /\ q.at = {s} /\ q.hand = r.lines
      BY <3>1, <2>r DEF VisitType, VisitSound
    <3>3. visit'[v] = q /\ \A u \in Visits : u # v => visit'[u] = visit[u]
      BY <3>1, <1>t, Becomes
    <3>4. order[s] = "none"
      BY <3>1 DEF SoundInv, RowSound
    <3> HIDE DEF q
    <3>5. VisitSound(v)'
      BY <3>1, <3>2, <3>3, <3>4 DEF VisitSound
    <3>6. \A u \in Visits : u # v => VisitSound(u)'
      BY <3>1, <3>3, <1>m, StillSound
    <3>7. \A u \in Visits : visit[u].pc = "insert" => s \notin visit[u].at
      BY <3>1, <1>t DEF VisitSound
    <3>8. OneMaker'
      BY <3>2, <3>3, <3>7, <1>o DEF OneMaker
    <3> QED BY <3>5, <3>6, <3>8
  <2>11. ASSUME NEW s \in Sessions, InsertRows(v, s) PROVE (\A u \in Visits : VisitSound(u)') /\ OneMaker'
    <3>1. /\ r.pc = "insert" /\ r.at = {s} /\ VisitBecomes(v, Idle)
          /\ order' = [order EXCEPT ![s] = "pending"]
      BY <2>11 DEF InsertRows, OfVisit
    <3>2. visit'[v] = Idle /\ \A u \in Visits : u # v => visit'[u] = visit[u]
      BY <3>1, <1>t, Becomes
    <3>3. \A u \in Visits : u # v /\ visit[u].pc = "insert" =>
             \A t \in visit[u].at : t \in Sessions /\ t # s /\ order'[t] = order[t]
      <4>1. \A u \in Visits : u # v /\ visit[u].pc = "insert" => s \notin visit[u].at
        BY <3>1, <1>o DEF OneMaker
      <4> QED BY <3>1, <4>1, <1>t DEF CheckoutTypeOK, VisitType
    <3>4. \A u \in Visits : u # v => VisitSound(u)'
      BY <3>2, <3>3, <1>m, StillSound
    <3>5. OneMaker'
      BY <3>2, <2>c, <1>o DEF OneMaker
    <3> QED BY <3>1, <3>4, <3>5, <1>i
  <2> QED BY <1>1, <2>1, <2>2, <2>3, <2>4, <2>5, <2>6, <2>7, <2>8, <2>9, <2>10, <2>11
               DEF VisitSteps
<1>2. ASSUME NEW s \in Sessions, HookSteps(s) \/ HookDies(s) \/ ClockSteps(s) \/ PaySession(s)
      PROVE  UNCHANGED visit /\ \A t \in Sessions : order[t] = "none" => order'[t] = "none"
  <2>1. CASE CompleteOrder(s)
    BY <2>1, <1>t DEF CompleteOrder, CheckoutTypeOK
  <2>2. CASE DeliverPaid(s) \/ ClearBought(s) \/ HookDies(s) \/ SessionLapses(s) \/ OrderAges(s) \/ PaySession(s)
    BY <2>2 DEF DeliverPaid, ClearBought, HookDies, SessionLapses, OrderAges, PaySession,
         checkoutRows
  <2> QED BY <1>2, <2>1, <2>2 DEF HookSteps, ClockSteps
<1>3. ASSUME NEW w \in Sweeps, SweepSteps(w) \/ SweepDies(w) PROVE UNCHANGED <<visit, order>>
  BY <1>3 DEF SweepSteps, SelectStale, ReturnStale, SweepDies, checkoutRows
<1>4. ASSUME NEW b \in Buyers, ChangeBasket(b) PROVE UNCHANGED <<visit, order>>
  BY <1>4 DEF ChangeBasket
<1>5. ASSUME UNCHANGED checkoutVars PROVE UNCHANGED <<visit, order>>
  BY <1>5 DEF checkoutVars, checkoutRows
<1> QED BY <1>1, <1>2, <1>3, <1>4, <1>5, <1>k DEF CheckoutNext

\* A session's rows go on saying only what happened to the session.
LEMMA RowsSound == SoundInv /\ [CheckoutNext]_checkoutVars => (\A s \in Sessions : RowSound(s))'
<1> SUFFICES ASSUME SoundInv, [CheckoutNext]_checkoutVars, NEW s \in Sessions
             PROVE  RowSound(s)'
  OBVIOUS
<1>m. Moves(s)
  BY SessionsMove
<1>t. CheckoutTypeOK /\ RowSound(s) /\ \A v \in Visits : visit[v] \in VisitType /\ VisitSound(v)
  BY DEF SoundInv, CheckoutTypeOK
<1> DEFINE OrderMoves ==
              /\ order'[s] = order[s] \/ sold'[s].state # "none"
              /\ order'[s] = "failed" => order[s] = "failed" \/ sold'[s].state = "expired"
              /\ order'[s] = "completed" => order[s] = "completed" \/ sold'[s].state = "paid"
           HookMoves == hook'[s] # "rest" => hook[s] # "rest" \/ sold'[s].state = "paid"
           ReturnMoves ==
              \A g \in Goods : <<s, g>> \in returned' => <<s, g>> \in returned \/
                 (order'[s] # "none" /\ (s \in aged' \/ sold'[s].state = "expired"))
           SweepMoves ==
              \A w \in Sweeps, g \in Goods : <<s, g>> \in sweep'[w] => <<s, g>> \in sweep[w] \/
                 (s \in aged' /\ order'[s] # "none" /\ g \in sold'[s].lines)
<1>k. ASSUME OrderMoves, HookMoves, ReturnMoves, SweepMoves
      PROVE  RowSound(s)'
  BY <1>k, <1>m, <1>t DEF RowSound, Moves
<1>s. \A w \in Sweeps, g \in Goods : <<s, g>> \in sweep[w] =>
         s \in aged /\ order[s] # "none" /\ g \in sold[s].lines /\ sold[s].state # "none"
  BY <1>t DEF RowSound
<1>1. ASSUME NEW v \in Visits, ResolveBasket(v) \/ VisitSteps(v) \/ VisitDies(v) PROVE RowSound(s)'
  <2>h. UNCHANGED <<hook, sweep>>
    BY <1>1 DEF ResolveBasket, VisitSteps, VisitDies, LookForSessions, ReleaseRows,
         ReserveLines,
                UndoReservation, CreationThrows, ReadSession, ExpireSession, FailRows, StampRows,
                CreateSession, InsertRows
  <2>1. CASE UNCHANGED <<order, returned>>
    BY <2>h, <2>1, <1>k
  <2>2. ASSUME NEW t \in Sessions, FailRows(v, t) PROVE RowSound(s)'
    <3>1. sold' = sold /\ returned' = returned /\ visit[v].pc = "fail" /\ t \in visit[v].at
      BY <2>2 DEF FailRows, OfVisit
    <3>2. order'[s] = order[s] \/ (s = t /\ order'[s] = "failed")
      BY <2>2, <1>t DEF FailRows, CheckoutTypeOK
    <3>3. sold[t].state = "expired"
      BY <3>1, <1>t DEF VisitSound
    <3>4. OrderMoves
      BY <3>1, <3>2, <3>3
    <3> QED BY <2>h, <3>1, <3>4, <1>k
  <2>3. ASSUME NEW t \in Sessions, StampRows(v, t) PROVE RowSound(s)'
    <3>1. /\ sold' = sold /\ order' = order /\ visit[v].pc = "stamp" /\ t \in visit[v].at
          /\ returned' = returned \cup ({t} \X visit[v].hand)
      BY <2>3 DEF StampRows, OfVisit
    <3>2. sold[t].state = "expired" /\ order[t] = "failed"
      BY <3>1, <1>t DEF VisitSound
    <3>3. ReturnMoves
      BY <3>1, <3>2
    <3> QED BY <2>h, <3>1, <3>3, <1>k
  <2>4. ASSUME NEW t \in Sessions, InsertRows(v, t) PROVE RowSound(s)'
    <3>1. /\ sold' = sold /\ returned' = returned /\ visit[v].pc = "insert" /\ t \in visit[v].at
          /\ order' = [order EXCEPT ![t] = "pending"]
      BY <2>4 DEF InsertRows, OfVisit
    <3>2. sold[t].state # "none"
      BY <3>1, <1>t DEF VisitSound
    <3>3. order'[s] = order[s] \/ (s = t /\ order'[s] = "pending")
      BY <3>1, <1>t DEF CheckoutTypeOK
    <3>4. OrderMoves
      BY <3>1, <3>2, <3>3
    <3> QED BY <2>h, <3>1, <3>4, <1>k
  <2>5. CASE \/ ResolveBasket(v) \/ VisitDies(v) \/ LookForSessions(v) \/ ReleaseRows(v) \/ ReserveLines(v)
             \/ UndoReservation(v) \/ CreationThrows(v)
             \/ \E t \in Sessions : ReadSession(v, t) \/ ExpireSession(v, t) \/ CreateSession(v, t)
    BY <2>5, <2>1 DEF ResolveBasket, VisitDies, LookForSessions, ReleaseRows, ReserveLines,
                      UndoReservation, CreationThrows, ReadSession, ExpireSession, CreateSession,
                      checkoutRows
  <2> QED BY <1>1, <2>2, <2>3, <2>4, <2>5 DEF VisitSteps
<1>2. ASSUME NEW t \in Sessions, HookSteps(t) \/ HookDies(t) PROVE RowSound(s)'
  <2>h. UNCHANGED <<sold, returned, sweep>>
    BY <1>2 DEF HookSteps, DeliverPaid, ClearBought, CompleteOrder, HookDies, checkoutRows
  <2>1. HookMoves
    <3>1. CASE DeliverPaid(t)
      BY <3>1 DEF DeliverPaid, CheckoutTypeOK
    <3>2. CASE ClearBought(t)
      BY <3>2, <1>t DEF ClearBought, RowSound, CheckoutTypeOK
    <3>3. CASE CompleteOrder(t) \/ HookDies(t)
      BY <3>3, <1>t DEF CompleteOrder, HookDies, CheckoutTypeOK
    <3> QED BY <1>2, <3>1, <3>2, <3>3 DEF HookSteps
  <2>2. OrderMoves
    <3>1. CASE CompleteOrder(t)
      <4>1. hook[t] = "complete" /\ order' = [order EXCEPT ![t] = IF @ = "pending" THEN "completed" ELSE @]
        BY <3>1 DEF CompleteOrder
      <4>2. sold[t].state = "paid"
        BY <4>1 DEF SoundInv, RowSound
      <4>3. order'[s] = order[s] \/ (s = t /\ order'[s] = "completed")
        BY <4>1, <1>t DEF CheckoutTypeOK
      <4> QED BY <2>h, <4>2, <4>3
    <3>2. CASE DeliverPaid(t) \/ ClearBought(t) \/ HookDies(t)
      BY <3>2 DEF DeliverPaid, ClearBought, HookDies, checkoutRows
    <3> QED BY <1>2, <3>1, <3>2 DEF HookSteps
  <2> QED BY <2>h, <2>1, <2>2, <1>k
<1>3. ASSUME NEW t \in Sessions, ClockSteps(t) \/ PaySession(t) PROVE RowSound(s)'
  <2>1. UNCHANGED <<order, hook, returned, sweep>>
    BY <1>3 DEF ClockSteps, SessionLapses, OrderAges, PaySession, checkoutRows
  <2> QED BY <2>1, <1>k
<1>4. ASSUME NEW w \in Sweeps, SweepSteps(w) \/ SweepDies(w) PROVE RowSound(s)'
  <2>h. UNCHANGED <<sold, order, hook, aged>>
    BY <1>4 DEF SweepSteps, SelectStale, ReturnStale, SweepDies, checkoutRows
  <2>1. CASE SelectStale(w)
    <3>1. \A g \in Goods : <<s, g>> \in sweep'[w] =>
             s \in aged /\ order[s] = "pending" /\ g \in sold[s].lines
      BY <2>1, <1>t DEF SelectStale, OrderRows, CheckoutTypeOK
    <3>2. \A u \in Sweeps : u # w => sweep'[u] = sweep[u]
      BY <2>1, <1>t DEF SelectStale, CheckoutTypeOK
    <3>3. SweepMoves
      BY <3>1, <3>2, <2>h
    <3>4. returned' = returned
      BY <2>1 DEF SelectStale, checkoutRows
    <3> QED BY <3>3, <3>4, <2>h, <1>k
  <2>2. ASSUME NEW t \in Sessions, NEW h \in Goods, ReturnStale(w, t, h) PROVE RowSound(s)'
    <3>1. <<t, h>> \in sweep[w] /\ (returned' = returned \/ returned' = returned \cup {<<t, h>>})
      BY <2>2 DEF ReturnStale
    <3>2. \A g \in Goods : <<s, g>> \in returned' => <<s, g>> \in returned \/ <<s, g>> \in sweep[w]
      BY <3>1
    <3>3. ReturnMoves
      BY <3>2, <2>h, <1>s
    <3>4. \A u \in Sweeps : sweep'[u] \subseteq sweep[u]
      BY <2>2, <1>t DEF ReturnStale, CheckoutTypeOK
    <3>5. SweepMoves
      BY <3>4
    <3> QED BY <3>3, <3>5, <2>h, <1>k
  <2>3. CASE SweepDies(w)
    <3>1. \A u \in Sweeps : sweep'[u] \subseteq sweep[u]
      BY <2>3, <1>t DEF SweepDies, CheckoutTypeOK
    <3>2. SweepMoves /\ returned' = returned
      BY <2>3, <3>1 DEF SweepDies, checkoutRows
    <3> QED BY <3>2, <2>h, <1>k
  <2> QED BY <1>4, <2>1, <2>2, <2>3 DEF SweepSteps
<1>5. ASSUME NEW b \in Buyers, ChangeBasket(b) PROVE RowSound(s)'
  BY <1>5, <1>k DEF ChangeBasket
<1>6. CASE UNCHANGED checkoutVars
  BY <1>6, <1>k DEF checkoutVars, checkoutRows
<1> QED BY <1>1, <1>2, <1>3, <1>4, <1>5, <1>6 DEF CheckoutNext

\* At the start no visit is under way and no session has rows.
LEMMA SoundInit == CheckoutInit => SoundInv
<1>1. ASSUME CheckoutInit PROVE /\ \A v \in Visits : VisitSound(v)
                                /\ \A s \in Sessions : RowSound(s)
                                /\ OneMaker
  <2>1. \A v \in Visits : visit[v] = Idle
    BY <1>1 DEF CheckoutInit
  <2>2. \A v \in Visits : visit[v].pc = "rest" /\ visit[v].at = {} /\ visit[v].hand = {}
    BY <2>1 DEF Idle
  <2>3. \A s \in Sessions : RowSound(s)
    BY <1>1 DEF CheckoutInit, RowSound
  <2> QED BY <2>2, <2>3 DEF VisitSound, OneMaker
<1> QED BY <1>1, CheckoutTypeInit DEF SoundInv

\* SoundInv is inductive.
LEMMA SoundStep == SoundInv /\ [CheckoutNext]_checkoutVars => SoundInv'
<1>1. SoundInv => CheckoutTypeOK
  BY DEF SoundInv
<1>2. SoundInv /\ [CheckoutNext]_checkoutVars => (\A v \in Visits : VisitSound(v))' /\ OneMaker'
  BY VisitsSound
<1>3. SoundInv /\ [CheckoutNext]_checkoutVars => (\A s \in Sessions : RowSound(s))'
  BY RowsSound
<1> QED BY <1>1, <1>2, <1>3, CheckoutTypeStep DEF SoundInv

\* An order that was paid is not failed by a visit that closes it for another basket.
THEOREM PaidOrdersStandAlways == CheckoutSpec => []PaidOrdersStand
<1>1. SoundInv => PaidOrdersStand
  BY DEF SoundInv, RowSound, PaidOrdersStand, OrderRows, CheckoutTypeOK, SessionType
<1> QED BY <1>1, SoundInit, SoundStep, PTL DEF CheckoutSpec

\* What was sold stays off the shelf: neither a visit nor a sweep returns it.
THEOREM SalesKeepStockAlways == CheckoutSpec => SalesKeepStock
<1> DEFINE Keeps == \A s \in Sessions : order[s] = "completed" =>
                       returned' \cap OrderRows(s) = returned \cap OrderRows(s)
<1>1. SoundInv /\ [CheckoutNext]_checkoutVars => Keeps
  <2> SUFFICES ASSUME SoundInv, [CheckoutNext]_checkoutVars, NEW s \in Sessions, order[s] = "completed"
               PROVE  \A g : <<s, g>> \in returned' <=> <<s, g>> \in returned
    BY DEF OrderRows
  <2>1. ASSUME NEW v \in Visits, NEW t \in Sessions, StampRows(v, t)
        PROVE  \A g : <<s, g>> \in returned' <=> <<s, g>> \in returned
    <3>1. /\ returned' = returned \cup ({t} \X visit[v].hand)
          /\ visit[v].pc = "stamp" /\ t \in visit[v].at
      BY <2>1 DEF StampRows, OfVisit
    <3>2. order[t] = "failed"
      BY <3>1 DEF SoundInv, VisitSound
    <3> QED BY <3>1, <3>2
  <2>2. ASSUME NEW v \in Visits,
               \/ ResolveBasket(v) \/ VisitDies(v) \/ LookForSessions(v) \/ ReleaseRows(v) \/ ReserveLines(v)
               \/ UndoReservation(v) \/ CreationThrows(v)
               \/ \E t \in Sessions : \/ ReadSession(v, t) \/ ExpireSession(v, t) \/ FailRows(v, t)
                                      \/ CreateSession(v, t) \/ InsertRows(v, t)
        PROVE  returned' = returned
    BY <2>2 DEF ResolveBasket, VisitDies, LookForSessions, ReleaseRows, ReserveLines,
                UndoReservation, CreationThrows, ReadSession, ExpireSession, FailRows, CreateSession,
                InsertRows, checkoutRows
  <2>3. ASSUME NEW t \in Sessions, HookSteps(t) \/ HookDies(t) \/ ClockSteps(t) \/ PaySession(t)
        PROVE  returned' = returned
    BY <2>3 DEF HookSteps, DeliverPaid, ClearBought, CompleteOrder, HookDies, ClockSteps,
                SessionLapses, OrderAges, PaySession, checkoutRows
  <2>4. ASSUME NEW w \in Sweeps, SweepSteps(w) \/ SweepDies(w)
        PROVE  \A g : <<s, g>> \in returned' <=> <<s, g>> \in returned
    <3>1. ASSUME NEW t \in Sessions, NEW h \in Goods, ReturnStale(w, t, h)
          PROVE  \A g : <<s, g>> \in returned' <=> <<s, g>> \in returned
      <4>1. returned' = returned \/ (order[t] = "pending" /\ returned' = returned \cup {<<t, h>>})
        BY <3>1 DEF ReturnStale
      <4> QED BY <4>1
    <3>2. ASSUME SelectStale(w) \/ SweepDies(w) PROVE returned' = returned
      BY <3>2 DEF SelectStale, SweepDies, checkoutRows
    <3> QED BY <2>4, <3>1, <3>2 DEF SweepSteps
  <2>5. ASSUME (\E b \in Buyers : ChangeBasket(b)) \/ UNCHANGED checkoutVars PROVE returned' = returned
    BY <2>5 DEF ChangeBasket, checkoutVars, checkoutRows
  <2> QED BY <2>1, <2>2, <2>3, <2>4, <2>5 DEF CheckoutNext, VisitSteps
<1> QED BY <1>1, SoundInit, SoundStep, PTL DEF CheckoutSpec, SalesKeepStock

-----------------------------------------------------------------------------
(* The count of the units: a step moves a unit between the shelf, a visit  *)
(* and an order, and only a process that dies leaves one behind.           *)

\* Sets that differ in one element differ in size by whether each has it.
LEMMA OneMoves ==
  ASSUME NEW S, NEW T, IsFiniteSet(S), IsFiniteSet(T), NEW x,
         \A y : y # x => (y \in S <=> y \in T)
  PROVE  /\ Cardinality(S) \in Nat /\ Cardinality(T) \in Nat
         /\ Cardinality(T) = Cardinality(S) + (IF x \in T THEN 1 ELSE 0) - (IF x \in S THEN 1 ELSE 0)
<1>0. Cardinality(S) \in Nat /\ Cardinality(T) \in Nat
  BY FS_CardinalityType
<1>1. CASE x \in S <=> x \in T
  <2>1. S = T
    BY <1>1
  <2> QED BY <1>0, <1>1, <2>1
<1>2. CASE x \in T /\ x \notin S
  <2>1. T = S \cup {x}
    BY <1>2
  <2>2. Cardinality(T) = Cardinality(S) + 1
    BY <1>2, <2>1, FS_AddElement
  <2> QED BY <1>0, <1>2, <2>2
<1>3. CASE x \in S /\ x \notin T
  <2>1. S = T \cup {x}
    BY <1>3
  <2>2. Cardinality(S) = Cardinality(T) + 1
    BY <1>3, <2>1, FS_AddElement
  <2> QED BY <1>0, <1>3, <2>2
<1> QED BY <1>1, <1>2, <1>3

Holds(v, g) == g \in visit[v].hand /\ visit[v].pc # "stamp"

Stands(s, g) ==
    order[s] \in {"pending", "completed"} /\ g \in sold[s].lines /\ <<s, g>> \notin returned

\* The visits that hold a unit, and the orders it stands on, are finitely many.
LEMMA CountsFinite ==
  ASSUME NEW g
  PROVE  /\ IsFiniteSet(Holding(g)) /\ IsFiniteSet(Holding(g))'
         /\ IsFiniteSet(Standing(g)) /\ IsFiniteSet(Standing(g))'
<1>1. /\ Holding(g) \subseteq Visits /\ Holding(g)' \subseteq Visits
      /\ Standing(g) \subseteq Sessions /\ Standing(g)' \subseteq Sessions
  BY DEF Holding, Standing
<1> QED BY <1>1, FS_Subset, CheckoutAssumption

\* A visit that moves changes the number of hands with a unit by its own hand only.
LEMMA HoldCount ==
  ASSUME CheckoutTypeOK, NEW g, NEW v \in Visits, NEW r, VisitBecomes(v, r)
  PROVE  /\ Cardinality(Holding(g)) \in Nat /\ Cardinality(Holding(g))' \in Nat
         /\ Cardinality(Holding(g))' = Cardinality(Holding(g))
               + (IF g \in r.hand /\ r.pc # "stamp" THEN 1 ELSE 0) - (IF Holds(v, g) THEN 1 ELSE 0)
<1>1. visit'[v] = r /\ \A u \in Visits : u # v => visit'[u] = visit[u]
  BY Becomes
<1>2. /\ v \in Holding(g)' <=> g \in r.hand /\ r.pc # "stamp"
      /\ v \in Holding(g) <=> Holds(v, g)
      /\ \A u : u # v => (u \in Holding(g) <=> u \in Holding(g)')
  BY <1>1 DEF Holding, Holds
<1> QED BY <1>2, CountsFinite, OneMoves

\* Where one session's rows change, the number of orders a unit stands on changes by
\* that one.
LEMMA StandCount ==
  ASSUME NEW g, NEW s \in Sessions,
         \A t \in Sessions : t # s => (Stands(t, g) <=> Stands(t, g)')
  PROVE  /\ Cardinality(Standing(g)) \in Nat /\ Cardinality(Standing(g))' \in Nat
         /\ Cardinality(Standing(g))' = Cardinality(Standing(g))
               + (IF Stands(s, g)' THEN 1 ELSE 0) - (IF Stands(s, g) THEN 1 ELSE 0)
<1>1. /\ s \in Standing(g)' <=> Stands(s, g)'
      /\ s \in Standing(g) <=> Stands(s, g)
      /\ \A t : t # s => (t \in Standing(g) <=> t \in Standing(g)')
  BY DEF Standing, Stands
<1> QED BY <1>1, CountsFinite, OneMoves

\* What does not change a visit or a row does not change the counts.
LEMMA CountsSame ==
  ASSUME NEW g
  PROVE  /\ Cardinality(Holding(g)) \in Nat /\ Cardinality(Standing(g)) \in Nat
         /\ visit' = visit => Cardinality(Holding(g))' = Cardinality(Holding(g))
         /\ (\A t \in Sessions : Stands(t, g) <=> Stands(t, g)') =>
               Cardinality(Standing(g))' = Cardinality(Standing(g))
<1>1. visit' = visit => Holding(g)' = Holding(g)
  BY DEF Holding
<1>2. (\A t \in Sessions : Stands(t, g) <=> Stands(t, g)') => Standing(g)' = Standing(g)
  BY DEF Standing, Stands
<1> QED BY <1>1, <1>2, CountsFinite, FS_CardinalityType

\* Units put back or taken change the shelf by one for each good among them.
LEMMA ShelfMoves ==
  ASSUME CheckoutTypeOK, NEW g \in Goods, NEW units
  PROVE  /\ shelf[g] \in Nat
         /\ PutBack(units)[g] = shelf[g] + (IF g \in units THEN 1 ELSE 0)
         /\ Taken(units)[g] = shelf[g] - (IF g \in units THEN 1 ELSE 0)
<1>1. shelf[g] \in Nat
  BY DEF CheckoutTypeOK
<1> QED BY <1>1 DEF PutBack, Taken

StockInv ==
    \A g \in Goods : /\ Accounted(g) <= Stock[g]
                     /\ mishaps = 0 => Accounted(g) = Stock[g]

\* The step of a visit, for one good.
LEMMA VisitCounts ==
  ASSUME SoundInv, NEW g \in Goods, NEW v \in Visits,
         ResolveBasket(v) \/ VisitSteps(v) \/ VisitDies(v)
  PROVE  \/ Accounted(g)' = Accounted(g) /\ mishaps' = mishaps
         \/ Accounted(g)' <= Accounted(g) /\ mishaps' # 0
<1> DEFINE r == visit[v]
<1>t. CheckoutTypeOK /\ r \in VisitType /\ VisitSound(v) /\ shelf[g] \in Nat /\ mishaps \in Nat
  BY CheckoutAssumption DEF SoundInv, CheckoutTypeOK
<1>c. Idle.hand = {} /\ Idle.pc = "rest"
  BY DEF Idle
<1>n. ASSUME NEW q, VisitBecomes(v, q), UNCHANGED <<shelf, mishaps>>,
             (g \in q.hand /\ q.pc # "stamp") <=> Holds(v, g),
             \A t \in Sessions : Stands(t, g) <=> Stands(t, g)'
      PROVE  Accounted(g)' = Accounted(g) /\ mishaps' = mishaps
  BY <1>n, <1>t, HoldCount, CountsSame DEF Accounted
<1>s. ASSUME UNCHANGED <<order, returned, sold>>
      PROVE  \A t \in Sessions : Stands(t, g) <=> Stands(t, g)'
  BY <1>s DEF Stands
<1>1. CASE ResolveBasket(v)
  <2> DEFINE goes(pc) == [Idle EXCEPT !.pc = pc, !.lines = basket[VisitorOf[v]]]
  <2>1. VisitBecomes(v, goes("look")) \/ VisitBecomes(v, goes("refused"))
    BY <1>1 DEF ResolveBasket
  <2>2. goes("look").hand = {} /\ goes("refused").hand = {}
    BY DEF Idle
  <2>3. r.hand = {} /\ UNCHANGED <<order, returned, sold, shelf, mishaps>>
    BY <1>1, <1>t DEF ResolveBasket, VisitSound, checkoutRows, checkoutCounts
  <2> HIDE DEF goes
  <2> QED BY <2>1, <2>2, <2>3, <1>n, <1>s DEF Holds
<1>2. CASE LookForSessions(v)
  <2> DEFINE found == {s \in Sessions : sold[s].buyer = {VisitorOf[v]} /\ order[s] = "pending"}
             q == [r EXCEPT !.pc = "read", !.todo = found]
  <2>1. VisitBecomes(v, q) /\ q.hand = r.hand
    BY <1>2, <1>t DEF LookForSessions, VisitType
  <2>2. r.hand = {} /\ UNCHANGED <<order, returned, sold, shelf, mishaps>>
    BY <1>2, <1>t DEF LookForSessions, VisitSound, checkoutRows, checkoutCounts
  <2> HIDE DEF q
  <2> QED BY <2>1, <2>2, <1>n, <1>s DEF Holds
<1>3. ASSUME NEW s \in Sessions, ReadSession(v, s)
      PROVE  Accounted(g)' = Accounted(g) /\ mishaps' = mishaps
  <2> DEFINE on == [r EXCEPT !.todo = @ \ {s}, !.at = {s}]
             left == [r EXCEPT !.todo = @ \ {s}]
  <2>1. \/ VisitBecomes(v, Idle) \/ VisitBecomes(v, left)
        \/ VisitBecomes(v, [on EXCEPT !.pc = "expire"]) \/ VisitBecomes(v, [on EXCEPT !.pc = "fail"])
    BY <1>3 DEF ReadSession
  <2>2. r.hand = {} /\ UNCHANGED <<order, returned, sold, shelf, mishaps>>
    BY <1>3, <1>t DEF ReadSession, VisitSound, checkoutRows, checkoutCounts
  <2>3. /\ left.hand = {} /\ [on EXCEPT !.pc = "expire"].hand = {}
        /\ [on EXCEPT !.pc = "fail"].hand = {}
    BY <2>2, <1>t DEF VisitType
  <2> HIDE DEF on, left
  <2> QED BY <2>1, <2>2, <2>3, <1>c, <1>n, <1>s DEF Holds
<1>4. ASSUME NEW s \in Sessions, ExpireSession(v, s)
      PROVE  Accounted(g)' = Accounted(g) /\ mishaps' = mishaps
  <2>1. VisitBecomes(v, Idle) \/ VisitBecomes(v, [r EXCEPT !.pc = "fail"])
    BY <1>4 DEF ExpireSession, VisitGoes
  <2>2. r.hand = {} /\ UNCHANGED <<order, returned, shelf, mishaps>>
    BY <1>4, <1>t DEF ExpireSession, VisitSound, checkoutRows, checkoutCounts
  <2>3. [r EXCEPT !.pc = "fail"].hand = {}
    BY <2>2, <1>t DEF VisitType
  <2>4. \A t \in Sessions : sold'[t].lines = sold[t].lines
    BY <1>4, <1>t DEF ExpireSession, CheckoutTypeOK, SessionType
  <2>5. \A t \in Sessions : Stands(t, g) <=> Stands(t, g)'
    BY <2>2, <2>4 DEF Stands
  <2> QED BY <2>1, <2>2, <2>3, <2>5, <1>c, <1>n DEF Holds
<1>5. ASSUME NEW s \in Sessions, FailRows(v, s)
      PROVE  Accounted(g)' = Accounted(g) /\ mishaps' = mishaps
  <2> DEFINE open == order[s] = "pending" /\ s \notin keyed
             held == {h \in sold[s].lines : open /\ <<s, h>> \notin returned}
             pc == IF held = {} THEN "read" ELSE "release"
             q == [r EXCEPT !.pc = pc, !.hand = held]
  <2>1. /\ r.pc = "fail" /\ VisitBecomes(v, q) /\ UNCHANGED <<sold, returned, shelf, mishaps>>
        /\ order' = [order EXCEPT ![s] = IF open THEN "failed" ELSE @]
    BY <1>5 DEF FailRows, checkoutCounts
  <2>2. r.hand = {} /\ q.pc # "stamp" /\ q.hand = held
    BY <2>1, <1>t DEF VisitSound, VisitType
  <2>3. g \in held <=> open /\ Stands(s, g)
    BY DEF Stands
  <2>4. /\ Stands(s, g)' <=> ~ open /\ Stands(s, g)
        /\ \A t \in Sessions : t # s => (Stands(t, g) <=> Stands(t, g)')
    BY <2>1, <1>t DEF Stands, CheckoutTypeOK
  <2> HIDE DEF held, open, q
  <2>5. Cardinality(Holding(g))' = Cardinality(Holding(g)) + (IF g \in held THEN 1 ELSE 0)
    <3>1. ~ Holds(v, g) /\ (g \in q.hand /\ q.pc # "stamp" <=> g \in held)
      BY <2>2 DEF Holds
    <3> QED BY <2>1, <3>1, <1>t, HoldCount
  <2>6. Cardinality(Standing(g))' = Cardinality(Standing(g))
           + (IF Stands(s, g)' THEN 1 ELSE 0) - (IF Stands(s, g) THEN 1 ELSE 0)
    BY <2>4, StandCount
  <2> QED BY <2>1, <2>3, <2>4, <2>5, <2>6, <1>t, CountsSame DEF Accounted
<1>6. CASE ReleaseRows(v)
  <2> DEFINE q == [r EXCEPT !.pc = "stamp"]
  <2>1. /\ r.pc = "release" /\ VisitBecomes(v, q) /\ q.pc = "stamp"
        /\ UNCHANGED <<order, returned, sold, mishaps>> /\ shelf' = PutBack(r.hand)
    BY <1>6, <1>t DEF ReleaseRows, VisitGoes, VisitType, checkoutCounts
  <2> HIDE DEF q
  <2>2. Cardinality(Holding(g))' = Cardinality(Holding(g)) - (IF g \in r.hand THEN 1 ELSE 0)
    BY <2>1, <1>t, HoldCount DEF Holds
  <2>3. Cardinality(Standing(g))' = Cardinality(Standing(g))
    BY <2>1, <1>s, CountsSame
  <2>4. shelf'[g] = shelf[g] + (IF g \in r.hand THEN 1 ELSE 0)
    BY <2>1, <1>t, ShelfMoves
  <2> QED BY <2>1, <2>2, <2>3, <2>4, <1>t, CountsSame DEF Accounted
<1>7. ASSUME NEW s \in Sessions, StampRows(v, s)
      PROVE  Accounted(g)' = Accounted(g) /\ mishaps' = mishaps
  <2> DEFINE q == [r EXCEPT !.pc = "read", !.hand = {}]
  <2>1. /\ r.pc = "stamp" /\ r.at = {s} /\ VisitBecomes(v, q) /\ q.hand = {}
        /\ UNCHANGED <<order, sold, shelf, mishaps>> /\ returned' = returned \cup ({s} \X r.hand)
    BY <1>7, <1>t DEF StampRows, OfVisit, VisitType, checkoutCounts
  <2>2. order[s] = "failed"
    BY <2>1, <1>t DEF VisitSound
  <2>3. \A t \in Sessions : Stands(t, g) <=> Stands(t, g)'
    BY <2>1, <2>2 DEF Stands
  <2> HIDE DEF q
  <2> QED BY <2>1, <2>3, <1>n DEF Holds
<1>8. CASE ReserveLines(v)
  <2>1. r.pc = "read" /\ r.hand = {} /\ UNCHANGED <<order, returned, sold, mishaps>>
    BY <1>8, <1>t DEF ReserveLines, VisitSound, checkoutCounts
  <2>2. CASE VisitBecomes(v, Idle) /\ UNCHANGED shelf
    BY <2>1, <2>2, <1>c, <1>n, <1>s DEF Holds
  <2> DEFINE q == [r EXCEPT !.pc = "create", !.at = {}, !.hand = @ \cup r.lines]
  <2>3. CASE VisitBecomes(v, q) /\ shelf' = Taken(r.lines)
    <3>1. q.pc = "create" /\ q.hand = r.lines
      BY <2>1, <1>t DEF VisitType
    <3> HIDE DEF q
    <3>2. Cardinality(Holding(g))' = Cardinality(Holding(g)) + (IF g \in r.lines THEN 1 ELSE 0)
      <4>1. ~ Holds(v, g) /\ (g \in q.hand /\ q.pc # "stamp" <=> g \in r.lines)
        BY <2>1, <3>1 DEF Holds
      <4> QED BY <2>3, <4>1, <1>t, HoldCount
    <3>3. Cardinality(Standing(g))' = Cardinality(Standing(g))
      BY <2>1, <1>s, CountsSame
    <3>4. shelf'[g] = shelf[g] - (IF g \in r.lines THEN 1 ELSE 0)
      BY <2>3, <1>t, ShelfMoves
    <3> QED BY <2>1, <3>2, <3>3, <3>4, <1>t, CountsSame DEF Accounted
  <2> QED BY <1>8, <2>2, <2>3 DEF ReserveLines
<1>9. CASE UndoReservation(v)
  <2>1. /\ r.pc = "create" /\ VisitBecomes(v, Idle)
        /\ UNCHANGED <<order, returned, sold, mishaps>> /\ shelf' = PutBack(r.hand)
    BY <1>9 DEF UndoReservation, checkoutCounts
  <2>2. Cardinality(Holding(g))' = Cardinality(Holding(g)) - (IF g \in r.hand THEN 1 ELSE 0)
    BY <2>1, <1>c, <1>t, HoldCount DEF Holds
  <2>3. Cardinality(Standing(g))' = Cardinality(Standing(g))
    BY <2>1, <1>s, CountsSame
  <2>4. shelf'[g] = shelf[g] + (IF g \in r.hand THEN 1 ELSE 0)
    BY <2>1, <1>t, ShelfMoves
  <2> QED BY <2>1, <2>2, <2>3, <2>4, <1>t, CountsSame DEF Accounted
<1>10. CASE CreationThrows(v) \/ VisitDies(v)
  <2>1. /\ VisitBecomes(v, Idle) /\ UNCHANGED <<order, returned, sold, shelf>>
        /\ mishaps' = mishaps + 1
    BY <1>10 DEF CreationThrows, VisitDies, checkoutRows
  <2>2. Cardinality(Holding(g))' = Cardinality(Holding(g)) - (IF Holds(v, g) THEN 1 ELSE 0)
    BY <2>1, <1>c, <1>t, HoldCount
  <2>3. Cardinality(Standing(g))' = Cardinality(Standing(g))
    BY <2>1, <1>s, CountsSame
  <2> QED BY <2>1, <2>2, <2>3, <1>t, CountsSame DEF Accounted
<1>11. ASSUME NEW s \in Sessions, CreateSession(v, s)
      PROVE  Accounted(g)' = Accounted(g) /\ mishaps' = mishaps
  <2> DEFINE q == [r EXCEPT !.pc = "insert", !.at = {s}]
  <2>1. /\ r.pc = "create" /\ VisitBecomes(v, q) /\ q.pc = "insert" /\ q.hand = r.hand
        /\ UNCHANGED <<order, returned, shelf, mishaps>> /\ sold[s].state = "none"
        /\ \A t \in Sessions : t # s => sold'[t] = sold[t]
    BY <1>11, <1>t DEF CreateSession, VisitType, checkoutRows, checkoutCounts, CheckoutTypeOK
  <2>2. order[s] = "none"
    BY <2>1 DEF SoundInv, RowSound
  <2>3. \A t \in Sessions : Stands(t, g) <=> Stands(t, g)'
    BY <2>1, <2>2 DEF Stands
  <2> HIDE DEF q
  <2> QED BY <2>1, <2>3, <1>n DEF Holds
<1>12. ASSUME NEW s \in Sessions, InsertRows(v, s)
      PROVE  Accounted(g)' = Accounted(g) /\ mishaps' = mishaps
  <2>1. /\ r.pc = "insert" /\ r.at = {s} /\ VisitBecomes(v, Idle)
        /\ UNCHANGED <<shelf, returned, sold, mishaps>> /\ order' = [order EXCEPT ![s] = "pending"]
    BY <1>12 DEF InsertRows, OfVisit, checkoutCounts
  <2>2. order[s] = "none" /\ r.hand = sold[s].lines
    BY <2>1, <1>t DEF VisitSound
  <2>3. <<s, g>> \notin returned
    BY <2>2 DEF SoundInv, RowSound
  <2>4. /\ Stands(s, g)' <=> g \in r.hand
        /\ ~ Stands(s, g)
        /\ \A t \in Sessions : t # s => (Stands(t, g) <=> Stands(t, g)')
    BY <2>1, <2>2, <2>3, <1>t DEF Stands, CheckoutTypeOK
  <2>5. Cardinality(Standing(g))' = Cardinality(Standing(g)) + (IF g \in r.hand THEN 1 ELSE 0)
    <3>1. Cardinality(Standing(g))' = Cardinality(Standing(g))
             + (IF Stands(s, g)' THEN 1 ELSE 0) - (IF Stands(s, g) THEN 1 ELSE 0)
      BY <2>4, StandCount
    <3> QED BY <2>4, <3>1, CountsSame
  <2>6. Cardinality(Holding(g))' = Cardinality(Holding(g)) - (IF g \in r.hand THEN 1 ELSE 0)
    BY <2>1, <1>c, <1>t, HoldCount DEF Holds
  <2> QED BY <2>1, <2>5, <2>6, <1>t, CountsSame DEF Accounted
<1> QED BY <1>1, <1>2, <1>3, <1>4, <1>5, <1>6, <1>7, <1>8, <1>9, <1>10, <1>11, <1>12, <1>t
             DEF VisitSteps, Accounted

\* The webhook, the clock, the sweep and the buyers lose no unit and add none.
LEMMA OthersCount ==
  ASSUME SoundInv, NEW g \in Goods,
         \/ \E s \in Sessions : HookSteps(s) \/ HookDies(s) \/ ClockSteps(s) \/ PaySession(s)
         \/ \E w \in Sweeps : SweepSteps(w) \/ SweepDies(w)
         \/ \E b \in Buyers : ChangeBasket(b)
         \/ UNCHANGED checkoutVars
  PROVE  Accounted(g)' = Accounted(g) /\ (mishaps' = mishaps \/ mishaps' # 0)
<1>t. CheckoutTypeOK /\ shelf[g] \in Nat /\ mishaps \in Nat
  BY CheckoutAssumption DEF SoundInv, CheckoutTypeOK
<1>n. ASSUME UNCHANGED <<shelf, visit>>, \A t \in Sessions : Stands(t, g) <=> Stands(t, g)'
      PROVE  Accounted(g)' = Accounted(g)
  BY <1>n, CountsSame DEF Accounted
<1>s. ASSUME UNCHANGED <<order, returned, sold>>
      PROVE  \A t \in Sessions : Stands(t, g) <=> Stands(t, g)'
  BY <1>s DEF Stands
<1>1. ASSUME NEW s \in Sessions, HookSteps(s) \/ HookDies(s)
      PROVE  Accounted(g)' = Accounted(g) /\ (mishaps' = mishaps \/ mishaps' # 0)
  <2>1. CASE DeliverPaid(s) \/ ClearBought(s)
    BY <2>1, <1>n, <1>s DEF DeliverPaid, ClearBought, checkoutCounts
  <2>2. CASE CompleteOrder(s)
    <3>1. \A t \in Sessions : Stands(t, g) <=> Stands(t, g)'
      BY <2>2, <1>t DEF CompleteOrder, Stands, CheckoutTypeOK
    <3> QED BY <2>2, <3>1, <1>n DEF CompleteOrder, checkoutCounts
  <2>3. CASE HookDies(s)
    <3>1. UNCHANGED <<shelf, visit, order, returned, sold>> /\ mishaps' = mishaps + 1
      BY <2>3 DEF HookDies, checkoutRows
    <3> QED BY <3>1, <1>n, <1>s, <1>t
  <2> QED BY <1>1, <2>1, <2>2, <2>3 DEF HookSteps
<1>2. ASSUME NEW s \in Sessions, ClockSteps(s) \/ PaySession(s)
      PROVE  Accounted(g)' = Accounted(g) /\ (mishaps' = mishaps \/ mishaps' # 0)
  <2>1. UNCHANGED <<shelf, visit, order, returned, mishaps>>
    BY <1>2 DEF ClockSteps, SessionLapses, OrderAges, PaySession, checkoutRows, checkoutCounts
  <2>2. \A t \in Sessions : sold'[t].lines = sold[t].lines
    <3>1. CASE PaySession(s)
      BY <3>1, <1>t DEF PaySession, CheckoutTypeOK, SessionType
    <3>2. CASE ClockSteps(s)
      BY <3>2, <1>t DEF ClockSteps, SessionLapses, OrderAges, CheckoutTypeOK, SessionType
    <3> QED BY <1>2, <3>1, <3>2
  <2>3. \A t \in Sessions : Stands(t, g) <=> Stands(t, g)'
    BY <2>1, <2>2 DEF Stands
  <2> QED BY <2>1, <2>3, <1>n
<1>3. ASSUME NEW w \in Sweeps, SweepSteps(w) \/ SweepDies(w)
      PROVE  Accounted(g)' = Accounted(g) /\ (mishaps' = mishaps \/ mishaps' # 0)
  <2>1. CASE SelectStale(w)
    <3>1. UNCHANGED <<shelf, visit, order, returned, sold, mishaps>>
      BY <2>1 DEF SelectStale, checkoutRows, checkoutCounts
    <3> QED BY <3>1, <1>n, <1>s
  <2>2. CASE SweepDies(w)
    <3>1. UNCHANGED <<shelf, visit, order, returned, sold>> /\ mishaps' = mishaps + 1
      BY <2>2 DEF SweepDies, checkoutRows
    <3> QED BY <3>1, <1>n, <1>s, <1>t
  <2>3. ASSUME NEW s \in Sessions, NEW h \in Goods, ReturnStale(w, s, h)
        PROVE  Accounted(g)' = Accounted(g) /\ mishaps' = mishaps
    <3>1. <<s, h>> \in sweep[w] /\ UNCHANGED <<visit, order, sold, mishaps>>
      BY <2>3 DEF ReturnStale, checkoutCounts
    <3>2. h \in sold[s].lines
      BY <3>1 DEF SoundInv, RowSound
    <3>3. CASE UNCHANGED <<shelf, returned>>
      BY <3>1, <3>3, <1>n, <1>s
    <3>4. CASE /\ order[s] = "pending" /\ <<s, h>> \notin returned
               /\ shelf' = PutBack({h}) /\ returned' = returned \cup {<<s, h>>}
      <4>1. shelf'[g] = shelf[g] + (IF g = h THEN 1 ELSE 0)
        BY <3>4, <1>t, ShelfMoves
      <4>2. /\ Stands(s, g) /\ ~ Stands(s, g)' <=> g = h
            /\ Stands(s, g)' => Stands(s, g)
            /\ \A t \in Sessions : t # s => (Stands(t, g) <=> Stands(t, g)')
        BY <3>1, <3>2, <3>4 DEF Stands
      <4>3. Cardinality(Standing(g))' = Cardinality(Standing(g))
               + (IF Stands(s, g)' THEN 1 ELSE 0) - (IF Stands(s, g) THEN 1 ELSE 0)
        BY <4>2, StandCount
      <4>4. Cardinality(Standing(g))' = Cardinality(Standing(g)) - (IF g = h THEN 1 ELSE 0)
        BY <4>2, <4>3, CountsSame
      <4>5. Cardinality(Holding(g))' = Cardinality(Holding(g))
        BY <3>1, CountsSame
      <4> QED BY <3>1, <4>1, <4>4, <4>5, <1>t, CountsSame DEF Accounted
    <3> QED BY <2>3, <3>3, <3>4 DEF ReturnStale
  <2> QED BY <1>3, <2>1, <2>2, <2>3 DEF SweepSteps
<1>4. CASE (\E b \in Buyers : ChangeBasket(b)) \/ UNCHANGED checkoutVars
  <2>1. UNCHANGED <<shelf, visit, order, returned, sold, mishaps>>
    BY <1>4 DEF ChangeBasket, checkoutVars, checkoutRows, checkoutCounts
  <2> QED BY <2>1, <1>n, <1>s
<1> QED BY <1>1, <1>2, <1>3, <1>4

\* So every step keeps the units of a good accounted for, or is a mishap.
LEMMA StockStep == SoundInv /\ StockInv /\ [CheckoutNext]_checkoutVars => StockInv'
<1> SUFFICES ASSUME SoundInv, StockInv, [CheckoutNext]_checkoutVars, NEW g \in Goods
             PROVE  /\ Accounted(g)' <= Stock[g]
                    /\ mishaps' = 0 => Accounted(g)' = Stock[g]
  BY DEF StockInv
<1>1. Accounted(g) \in Int /\ Stock[g] \in Int /\ mishaps \in Nat
  <2>1. shelf[g] \in Nat /\ mishaps \in Nat /\ Stock[g] \in Nat
    BY CheckoutAssumption DEF SoundInv, CheckoutTypeOK
  <2> QED BY <2>1, CountsSame DEF Accounted
<1>2. Accounted(g) <= Stock[g] /\ (mishaps = 0 => Accounted(g) = Stock[g])
  BY DEF StockInv
<1>3. ASSUME NEW v \in Visits, ResolveBasket(v) \/ VisitSteps(v) \/ VisitDies(v)
      PROVE  Accounted(g)' \in Int
  <2>1. CheckoutTypeOK'
    BY <1>3, VisitTypes DEF SoundInv
  <2>2. shelf'[g] \in Int
    BY <2>1 DEF CheckoutTypeOK
  <2>3. Cardinality(Holding(g))' \in Int /\ Cardinality(Standing(g))' \in Int
    BY CountsFinite, FS_CardinalityType
  <2> QED BY <2>2, <2>3 DEF Accounted
<1>4. ASSUME NEW v \in Visits, ResolveBasket(v) \/ VisitSteps(v) \/ VisitDies(v)
      PROVE  Accounted(g)' <= Stock[g] /\ (mishaps' = 0 => Accounted(g)' = Stock[g])
  <2>1. \/ Accounted(g)' = Accounted(g) /\ mishaps' = mishaps
        \/ Accounted(g)' <= Accounted(g) /\ mishaps' # 0
    BY <1>4, VisitCounts
  <2> QED BY <1>1, <1>2, <1>3, <1>4, <2>1
<1>5. CASE \/ \E s \in Sessions : HookSteps(s) \/ HookDies(s) \/ ClockSteps(s) \/ PaySession(s)
           \/ \E w \in Sweeps : SweepSteps(w) \/ SweepDies(w)
           \/ \E b \in Buyers : ChangeBasket(b)
           \/ UNCHANGED checkoutVars
  <2>1. Accounted(g)' = Accounted(g) /\ (mishaps' = mishaps \/ mishaps' # 0)
    BY <1>5, OthersCount
  <2> QED BY <1>2, <2>1
<1> QED BY <1>4, <1>5 DEF CheckoutNext

\* At the start the shelf has the stock.
LEMMA StockInit == CheckoutInit => StockInv
<1> SUFFICES ASSUME CheckoutInit, NEW g \in Goods PROVE Accounted(g) = Stock[g] /\ Stock[g] \in Int
  BY DEF StockInv
<1>1. Holding(g) = {} /\ Standing(g) = {} /\ shelf[g] = Stock[g] /\ Stock[g] \in Int
  BY CheckoutAssumption DEF CheckoutInit, Holding, Standing, Idle
<1> QED BY <1>1, FS_EmptySet DEF Accounted

\* No unit is sold or returned twice, and none is lost unless a process died on the way.
THEOREM StockIsAccountedAlways == CheckoutSpec => []StockIsAccounted
<1>1. StockInv => StockIsAccounted
  BY DEF StockInv, StockIsAccounted, NoUnitInvented, NoUnitLost
<1>2. CheckoutInit => SoundInv /\ StockInv
  BY SoundInit, StockInit
<1>3. SoundInv /\ StockInv /\ [CheckoutNext]_checkoutVars => SoundInv' /\ StockInv'
  BY SoundStep, StockStep
<1> QED BY <1>1, <1>2, <1>3, PTL DEF CheckoutSpec

-----------------------------------------------------------------------------
(* What was bought leaves the basket.                                      *)

\* None of the lines of session s is in the basket of its buyer.
Cleared(s) == \A b \in Buyers : sold[s].buyer = {b} => basket[b] \cap sold[s].lines = {}

\* Rows are re-keyed by a delivery that is under way or has ended; between the
\* re-keying and the status it clears the basket, which nobody fills again.
ClearedRow(s) ==
    /\ hook[s] # "rest" => order[s] # "none"
    /\ mishaps = 0 /\ edits = 0 =>
          /\ s \in keyed => hook[s] # "rest" \/ order[s] = "completed"
          /\ hook[s] = "complete" \/ order[s] = "completed" => Cleared(s)

BasketInv == SoundInv /\ \A s \in Sessions : ClearedRow(s)

\* At the start no order is completed, so none has left a line behind.
LEMMA BasketInit == CheckoutInit => BasketInv
<1>1. CheckoutInit => \A s \in Sessions : ClearedRow(s)
  BY DEF CheckoutInit, ClearedRow
<1> QED BY <1>1, SoundInit DEF BasketInv

\* A completed order stays completed, for only pending rows of an expired session fail.
LEMMA CompletedStays ==
  ASSUME SoundInv, [CheckoutNext]_checkoutVars, NEW s \in Sessions, order[s] = "completed"
  PROVE  order'[s] = "completed"
<1>1. /\ sold[s].state = "paid" /\ Moves(s)
      /\ \A t \in Sessions : RowSound(t)'
  BY SessionsMove, RowsSound DEF SoundInv, RowSound
<1>2. order'[s] # "failed" /\ order'[s] # "none"
  BY <1>1 DEF RowSound, Moves
<1>3. ASSUME NEW v \in Visits, ResolveBasket(v) \/ VisitSteps(v) \/ VisitDies(v)
      PROVE  order'[s] # "pending"
  <2>1. ASSUME NEW t \in Sessions, InsertRows(v, t) PROVE order'[s] # "pending"
    <3>1. visit[v].pc = "insert" /\ t \in visit[v].at /\ order' = [order EXCEPT ![t] = "pending"]
      BY <2>1 DEF InsertRows, OfVisit
    <3>2. order[t] = "none"
      BY <3>1 DEF SoundInv, VisitSound
    <3> QED BY <3>1, <3>2 DEF SoundInv, CheckoutTypeOK
  <2>2. ASSUME NEW t \in Sessions, FailRows(v, t) PROVE order'[s] # "pending"
    BY <2>2 DEF FailRows, SoundInv, CheckoutTypeOK
  <2>3. CASE \/ ResolveBasket(v) \/ VisitDies(v) \/ LookForSessions(v) \/ ReleaseRows(v) \/ ReserveLines(v)
             \/ UndoReservation(v) \/ CreationThrows(v)
             \/ \E t \in Sessions : \/ ReadSession(v, t) \/ ExpireSession(v, t) \/ StampRows(v, t)
                                    \/ CreateSession(v, t)
    BY <2>3 DEF ResolveBasket, VisitDies, LookForSessions, ReleaseRows, ReserveLines,
         UndoReservation,
                CreationThrows, ReadSession, ExpireSession, StampRows, CreateSession, checkoutRows
  <2> QED BY <1>3, <2>1, <2>2, <2>3 DEF VisitSteps
<1>4. ASSUME NEW t \in Sessions, HookSteps(t) \/ HookDies(t) \/ ClockSteps(t) \/ PaySession(t)
      PROVE  order'[s] # "pending"
  BY <1>4 DEF HookSteps, DeliverPaid, ClearBought, CompleteOrder, HookDies, ClockSteps,
              SessionLapses, OrderAges, PaySession, checkoutRows, SoundInv, CheckoutTypeOK
<1>5. ASSUME NEW w \in Sweeps, SweepSteps(w) \/ SweepDies(w) PROVE order'[s] # "pending"
  BY <1>5 DEF SweepSteps, SelectStale, ReturnStale, SweepDies, checkoutRows
<1>6. ASSUME (\E b \in Buyers : ChangeBasket(b)) \/ UNCHANGED checkoutVars PROVE order'[s] # "pending"
  BY <1>6 DEF ChangeBasket, checkoutVars, checkoutRows
<1>7. order'[s] # "pending"
  BY <1>3, <1>4, <1>5, <1>6 DEF CheckoutNext
<1>8. CheckoutTypeOK'
  BY CheckoutTypeStep DEF SoundInv
<1> QED BY <1>2, <1>7, <1>8 DEF CheckoutTypeOK

\* What a step leaves of an order's buyer, and of its rows, once they are written.
LEMMA BuyerStays ==
  ASSUME SoundInv, [CheckoutNext]_checkoutVars, NEW s \in Sessions, sold[s].state # "none"
  PROVE  sold'[s].buyer = sold[s].buyer
<1>t. CheckoutTypeOK
  BY DEF SoundInv
<1>1. ASSUME NEW t \in Sessions, NEW state \in {"paid", "expired"},
             sold' = [sold EXCEPT ![t].state = state]
      PROVE  sold'[s].buyer = sold[s].buyer
  BY <1>1, <1>t DEF CheckoutTypeOK, SessionType
<1>2. ASSUME NEW v \in Visits, ResolveBasket(v) \/ VisitSteps(v) \/ VisitDies(v)
      PROVE  sold'[s].buyer = sold[s].buyer
  <2>1. ASSUME NEW t \in Sessions, ExpireSession(v, t) PROVE sold'[s].buyer = sold[s].buyer
    BY <2>1, <1>1 DEF ExpireSession
  <2>2. ASSUME NEW t \in Sessions, CreateSession(v, t) PROVE sold'[s].buyer = sold[s].buyer
    BY <2>2, <1>t DEF CreateSession, CheckoutTypeOK
  <2>3. CASE \/ ResolveBasket(v) \/ VisitDies(v) \/ LookForSessions(v) \/ ReleaseRows(v) \/ ReserveLines(v)
             \/ UndoReservation(v) \/ CreationThrows(v)
             \/ \E t \in Sessions : \/ ReadSession(v, t) \/ FailRows(v, t) \/ StampRows(v, t)
                                    \/ InsertRows(v, t)
    BY <2>3 DEF ResolveBasket, VisitDies, LookForSessions, ReleaseRows, ReserveLines,
         UndoReservation,
                CreationThrows, ReadSession, FailRows, StampRows, InsertRows
  <2> QED BY <1>2, <2>1, <2>2, <2>3 DEF VisitSteps
<1>3. ASSUME NEW t \in Sessions, HookSteps(t) \/ HookDies(t) \/ OrderAges(t)
      PROVE  sold' = sold
  BY <1>3 DEF HookSteps, DeliverPaid, ClearBought, CompleteOrder, HookDies, OrderAges
<1>4. ASSUME NEW t \in Sessions, SessionLapses(t) \/ PaySession(t) PROVE sold'[s].buyer = sold[s].buyer
  BY <1>4, <1>1 DEF SessionLapses, PaySession
<1>5. ASSUME NEW w \in Sweeps, SweepSteps(w) \/ SweepDies(w) PROVE sold' = sold
  BY <1>5 DEF SweepSteps, SelectStale, ReturnStale, SweepDies
<1>6. ASSUME (\E b \in Buyers : ChangeBasket(b)) \/ UNCHANGED checkoutVars PROVE sold' = sold
  BY <1>6 DEF ChangeBasket, checkoutVars
<1> QED BY <1>2, <1>3, <1>4, <1>5, <1>6 DEF CheckoutNext, ClockSteps

\* A completed order's lines leave the basket before it completes, and stay out.
LEMMA BasketStep == BasketInv /\ [CheckoutNext]_checkoutVars => BasketInv'
<1> SUFFICES ASSUME BasketInv, [CheckoutNext]_checkoutVars, NEW s \in Sessions
             PROVE  ClearedRow(s)'
  BY SoundStep DEF BasketInv
<1>t. SoundInv /\ CheckoutTypeOK /\ CheckoutTypeOK' /\ ClearedRow(s)
  BY CheckoutTypeStep DEF BasketInv, SoundInv
<1>m. Moves(s)
  BY <1>t, SessionsMove
<1>l. /\ hook[s] # "rest" => sold[s].state # "none"
      /\ order[s] = "completed" => sold[s].state # "none"
      /\ sold[s].state # "none" => sold'[s].lines = sold[s].lines /\ sold'[s].buyer = sold[s].buyer
  BY <1>t, <1>m, BuyerStays DEF SoundInv, RowSound, Moves
\* The basket only loses lines.
<1>k. ASSUME hook' = hook, keyed' = keyed, order'[s] = "completed" => order[s] = "completed",
             mishaps' = 0 => mishaps = 0, edits' = 0 => edits = 0 /\ basket' = basket
      PROVE  ClearedRow(s)'
  <2>1. hook'[s] # "rest" => order'[s] # "none"
    BY <1>k, <1>t, <1>m DEF ClearedRow, Moves
  <2>2. order[s] = "completed" => order'[s] = "completed"
    BY <1>t, CompletedStays
  <2>3. ASSUME mishaps' = 0, edits' = 0
        PROVE  /\ s \in keyed' => hook'[s] # "rest" \/ order'[s] = "completed"
               /\ hook'[s] = "complete" \/ order'[s] = "completed" => Cleared(s)'
    BY <1>k, <1>t, <1>l, <2>2, <2>3 DEF ClearedRow, Cleared
  <2> QED BY <2>1, <2>3 DEF ClearedRow
<1>1. ASSUME NEW v \in Visits, ResolveBasket(v) \/ VisitSteps(v) \/ VisitDies(v) PROVE ClearedRow(s)'
  <2>1. UNCHANGED <<hook, keyed, basket, edits>> /\ (mishaps' = 0 => mishaps = 0)
    <3>1. CASE CreationThrows(v) \/ VisitDies(v)
      <4>1. UNCHANGED <<hook, keyed, basket, edits>> /\ mishaps' = mishaps + 1
        BY <3>1 DEF CreationThrows, VisitDies, checkoutRows
      <4> QED BY <4>1, <1>t DEF CheckoutTypeOK
    <3>2. CASE UNCHANGED <<hook, keyed, basket, checkoutCounts>>
      BY <3>2 DEF checkoutCounts
    <3> QED BY <1>1, <3>1, <3>2 DEF ResolveBasket, VisitSteps, LookForSessions, ReleaseRows,
         ReserveLines, UndoReservation, ReadSession, ExpireSession, FailRows, StampRows,
         CreateSession, InsertRows, checkoutRows
  <2>2. order'[s] = "completed" => order[s] = "completed"
    <3>1. CASE \E t \in Sessions : FailRows(v, t) \/ InsertRows(v, t)
      BY <3>1, <1>t DEF FailRows, InsertRows, CheckoutTypeOK
    <3>2. CASE order' = order
      BY <3>2
    <3> QED BY <1>1, <3>1, <3>2 DEF ResolveBasket, VisitSteps, VisitDies, LookForSessions,
                 ReleaseRows,
         ReserveLines, UndoReservation, CreationThrows, ReadSession, ExpireSession, StampRows,
         CreateSession, checkoutRows
  <2> QED BY <2>1, <2>2, <1>k
<1>2. ASSUME NEW t \in Sessions, ClockSteps(t) \/ PaySession(t) PROVE ClearedRow(s)'
  BY <1>2, <1>k DEF ClockSteps, SessionLapses, OrderAges, PaySession, checkoutRows,
       checkoutCounts
<1>3. ASSUME NEW w \in Sweeps, SweepSteps(w) \/ SweepDies(w) PROVE ClearedRow(s)'
  <2>1. UNCHANGED <<hook, keyed, order, basket, edits>> /\ (mishaps' = 0 => mishaps = 0)
    <3>1. CASE SweepDies(w)
      <4>1. UNCHANGED <<hook, keyed, order, basket, edits>> /\ mishaps' = mishaps + 1
        BY <3>1 DEF SweepDies, checkoutRows
      <4> QED BY <4>1, <1>t DEF CheckoutTypeOK
    <3>2. CASE SweepSteps(w)
      BY <3>2 DEF SweepSteps, SelectStale, ReturnStale, checkoutRows, checkoutCounts
    <3> QED BY <1>3, <3>1, <3>2
  <2> QED BY <2>1, <1>k
<1>4. ASSUME NEW b \in Buyers, ChangeBasket(b) PROVE ClearedRow(s)'
  <2>1. UNCHANGED <<hook, keyed, order, mishaps>> /\ edits' # 0
    BY <1>4, <1>t DEF ChangeBasket, CheckoutTypeOK
  <2> QED BY <2>1, <1>k
<1>5. ASSUME NEW t \in Sessions, DeliverPaid(t) PROVE ClearedRow(s)'
  <2>1. /\ UNCHANGED <<basket, order, sold, mishaps, edits>> /\ keyed' = keyed \cup {t}
        /\ hook[t] = "rest" /\ order[t] = "pending"
        /\ hook' = [hook EXCEPT ![t] = IF t \in keyed THEN "complete" ELSE "clear"]
    BY <1>5 DEF DeliverPaid, checkoutCounts
  <2>2. mishaps = 0 /\ edits = 0 => t \notin keyed
    BY <2>1 DEF BasketInv, ClearedRow
  <2>3. /\ s # t => hook'[s] = hook[s] /\ (s \in keyed' <=> s \in keyed)
        /\ s = t => hook'[s] \in {"clear", "complete"} /\ (s \notin keyed => hook'[s] = "clear")
    BY <2>1, <1>t DEF CheckoutTypeOK
  <2> QED BY <2>1, <2>2, <2>3, <1>t DEF ClearedRow, Cleared
<1>6. ASSUME NEW t \in Sessions, ClearBought(t) PROVE ClearedRow(s)'
  <2>1. /\ UNCHANGED <<order, keyed, sold, mishaps, edits>> /\ hook[t] = "clear"
        /\ basket' = [b \in Buyers |-> IF sold[t].buyer = {b} THEN basket[b] \ sold[t].lines ELSE basket[b]]
        /\ hook' = [hook EXCEPT ![t] = "complete"]
    BY <1>6 DEF ClearBought, checkoutCounts
  <2>2. /\ s # t => hook'[s] = hook[s]
        /\ s = t => hook'[s] = "complete" /\ Cleared(s)'
    BY <2>1, <1>t DEF CheckoutTypeOK, Cleared
  <2>3. Cleared(s) => Cleared(s)'
    BY <2>1 DEF Cleared
  <2> QED BY <2>1, <2>2, <2>3, <1>t DEF ClearedRow
<1>7. ASSUME NEW t \in Sessions, CompleteOrder(t) PROVE ClearedRow(s)'
  <2>1. /\ UNCHANGED <<basket, keyed, sold, mishaps, edits>> /\ hook[t] = "complete"
        /\ order' = [order EXCEPT ![t] = IF @ = "pending" THEN "completed" ELSE @]
        /\ hook' = [hook EXCEPT ![t] = "rest"]
    BY <1>7 DEF CompleteOrder, checkoutCounts
  <2>2. order[t] \in {"pending", "completed"}
    BY <2>1, <1>t DEF BasketInv, ClearedRow, SoundInv, RowSound, CheckoutTypeOK
  <2>3. /\ s # t => hook'[s] = hook[s] /\ order'[s] = order[s]
        /\ s = t => hook'[s] = "rest" /\ order'[s] = "completed"
    BY <2>1, <2>2, <1>t DEF CheckoutTypeOK
  <2> QED BY <2>1, <2>3, <1>t DEF ClearedRow, Cleared
<1>8. ASSUME NEW t \in Sessions, HookDies(t) PROVE ClearedRow(s)'
  <2>1. mishaps' # 0 /\ order' = order /\ (hook'[s] # "rest" => hook[s] # "rest")
    BY <1>8, <1>t DEF HookDies, CheckoutTypeOK, checkoutRows
  <2> QED BY <2>1, <1>t DEF ClearedRow
<1>9. CASE UNCHANGED checkoutVars
  BY <1>9, <1>k DEF checkoutVars, checkoutRows, checkoutCounts
<1> QED BY <1>1, <1>2, <1>3, <1>4, <1>5, <1>6, <1>7, <1>8, <1>9 DEF CheckoutNext, HookSteps

\* A buyer is not offered again what was bought, unless the delivery died half-way or
\* the basket was filled anew.
THEOREM BoughtLeavesBasketAlways == CheckoutSpec => []BoughtLeavesBasket
<1>1. BasketInv => BoughtLeavesBasket
  BY DEF BasketInv, ClearedRow, Cleared, BoughtLeavesBasket
<1> QED BY <1>1, BasketInit, BasketStep, PTL DEF CheckoutSpec

-----------------------------------------------------------------------------
(* No second charge.                                                       *)

OneTab == \A u, v \in Visits : VisitorOf[u] = VisitorOf[v] => u = v

\* Session s may yet be paid, or its payment is being confirmed.
Live(s) == order[s] = "pending" /\ sold[s].state \in {"open", "paid"}

\* Session s is of the buyer, and of the basket, that visit v resolved.
Mine(v, s) == sold[s].buyer = {VisitorOf[v]} /\ sold[s].lines = visit[v].lines

\* From the look on, a visit has yet to read every live session of its basket; when it
\* reserves there is none left to read, and so none at all.
Searching == {"read", "expire", "fail", "release", "stamp", "create", "insert"}

SearchSound(v) ==
    /\ visit[v].pc \in Searching => \A s \in Sessions : Live(s) /\ Mine(v, s) => s \in visit[v].todo
    /\ visit[v].pc \in {"create", "insert"} => visit[v].todo = {}
    /\ visit[v].pc = "insert" => \A s \in visit[v].at : Mine(v, s)

OneLive ==
    \A s, t \in Sessions :
        Live(s) /\ Live(t) /\ sold[s].buyer = sold[t].buyer /\ sold[s].lines = sold[t].lines => s = t

SearchInv == OneTab => OneLive /\ \A v \in Visits : SearchSound(v)

\* At the start no session is live and no visit is searching.
LEMMA SearchInit == CheckoutInit => SearchInv
<1> SUFFICES ASSUME CheckoutInit PROVE OneLive /\ \A v \in Visits : SearchSound(v)
  BY DEF SearchInv
<1>1. OneLive
  BY DEF CheckoutInit, OneLive, Live
<1>2. \A v \in Visits : visit[v].pc = "rest"
  BY DEF CheckoutInit, Idle
<1> QED BY <1>1, <1>2 DEF SearchSound, Searching

\* A session becomes live by the rows of its own visit alone; one that is stays what it was.
LEMMA BecomesLive ==
  ASSUME SoundInv, [CheckoutNext]_checkoutVars, NEW s \in Sessions, Live(s)',
         ~ \E v \in Visits : InsertRows(v, s)
  PROVE  /\ Live(s) /\ sold[s].state # "none"
         /\ sold'[s].buyer = sold[s].buyer /\ sold'[s].lines = sold[s].lines
<1>t. CheckoutTypeOK /\ Moves(s) /\ RowSound(s)
  BY SessionsMove DEF SoundInv
<1>k. ASSUME order'[s] = order[s] PROVE order[s] = "pending"
  BY <1>k DEF Live
<1>1. ASSUME NEW v \in Visits, ResolveBasket(v) \/ VisitSteps(v) \/ VisitDies(v)
      PROVE  order[s] = "pending"
  <2>1. ASSUME NEW t \in Sessions, InsertRows(v, t) PROVE order[s] = "pending"
    <3>1. t # s /\ order' = [order EXCEPT ![t] = "pending"]
      BY <2>1 DEF InsertRows
    <3> QED BY <3>1, <1>k, <1>t DEF CheckoutTypeOK
  <2>2. ASSUME NEW t \in Sessions, FailRows(v, t) PROVE order[s] = "pending"
    BY <2>2, <1>t DEF FailRows, CheckoutTypeOK, Live
  <2>3. CASE \/ ResolveBasket(v) \/ VisitDies(v) \/ LookForSessions(v) \/ ReleaseRows(v) \/ ReserveLines(v)
             \/ UndoReservation(v) \/ CreationThrows(v)
             \/ \E t \in Sessions : \/ ReadSession(v, t) \/ ExpireSession(v, t) \/ StampRows(v, t)
                                    \/ CreateSession(v, t)
    BY <2>3, <1>k DEF ResolveBasket, VisitDies, LookForSessions, ReleaseRows, ReserveLines,
                UndoReservation, CreationThrows, ReadSession, ExpireSession, StampRows, CreateSession,
                checkoutRows
  <2> QED BY <1>1, <2>1, <2>2, <2>3 DEF VisitSteps
<1>2. ASSUME NEW t \in Sessions, HookSteps(t) \/ HookDies(t) \/ ClockSteps(t) \/ PaySession(t)
      PROVE  order[s] = "pending"
  <2>1. CASE CompleteOrder(t)
    BY <2>1, <1>t DEF CompleteOrder, CheckoutTypeOK, Live
  <2>2. CASE order' = order
    BY <2>2, <1>k
  <2> QED BY <1>2, <2>1, <2>2 DEF HookSteps, DeliverPaid, ClearBought, HookDies, ClockSteps,
              SessionLapses, OrderAges, PaySession, checkoutRows
<1>3. ASSUME NEW w \in Sweeps, SweepSteps(w) \/ SweepDies(w) PROVE order' = order
  BY <1>3 DEF SweepSteps, SelectStale, ReturnStale, SweepDies, checkoutRows
<1>4. ASSUME (\E b \in Buyers : ChangeBasket(b)) \/ UNCHANGED checkoutVars PROVE order' = order
  BY <1>4 DEF ChangeBasket, checkoutVars, checkoutRows
<1>5. order[s] = "pending"
  BY <1>1, <1>2, <1>3, <1>4, <1>k DEF CheckoutNext
<1>6. sold[s].state # "none"
  BY <1>5, <1>t DEF RowSound
<1>7. sold[s].state \in {"none", "open", "paid", "expired"} /\ sold[s].state # "expired"
  BY <1>t DEF CheckoutTypeOK, SessionType, Moves, Live
<1> QED BY <1>5, <1>6, <1>7, <1>t, BuyerStays DEF Live, Moves

\* A visit that stays where it was, or reads on, while no session becomes live.
LEMMA SearchKept ==
  ASSUME SoundInv, [CheckoutNext]_checkoutVars, NEW v \in Visits, SearchSound(v),
         ~ \E u \in Visits, s \in Sessions : InsertRows(u, s),
         visit[v].pc \in Searching,
         visit'[v].lines = visit[v].lines,
         \A s \in Sessions : Live(s) /\ Mine(v, s) /\ s \in visit[v].todo => s \in visit'[v].todo
  PROVE  \A s \in Sessions : Live(s)' /\ Mine(v, s)' => s \in visit'[v].todo
<1> SUFFICES ASSUME NEW s \in Sessions, Live(s)', Mine(v, s)' PROVE s \in visit'[v].todo
  OBVIOUS
<1>1. /\ Live(s) /\ sold'[s].buyer = sold[s].buyer /\ sold'[s].lines = sold[s].lines
  BY BecomesLive
<1>2. Mine(v, s)
  BY <1>1 DEF Mine
<1> QED BY <1>1, <1>2 DEF SearchSound

\* A visit that is at rest, was refused or has yet to look.
LEMMA NotSearching ==
  ASSUME NEW v \in Visits, visit'[v].pc \in {"rest", "refused", "look"}
  PROVE  SearchSound(v)'
  BY DEF SearchSound, Searching

\* Who does not move keeps its search.
LEMMA SearchStands ==
  ASSUME SoundInv, [CheckoutNext]_checkoutVars, NEW v \in Visits, SearchSound(v),
         ~ \E u \in Visits, s \in Sessions : InsertRows(u, s), visit'[v] = visit[v]
  PROVE  SearchSound(v)'
<1>1. visit[v].pc \in Searching => \A s \in Sessions : Live(s)' /\ Mine(v, s)' => s \in visit'[v].todo
  BY SearchKept
<1>2. ASSUME visit[v].pc = "insert", NEW s \in visit[v].at PROVE Mine(v, s)'
  <2>1. s \in Sessions /\ sold[s].state # "none" /\ Mine(v, s)
    BY <1>2 DEF SoundInv, VisitSound, CheckoutTypeOK, VisitType, SearchSound
  <2>2. sold'[s].buyer = sold[s].buyer /\ sold'[s].lines = sold[s].lines
    BY <2>1, BuyerStays, SessionsMove DEF Moves
  <2> QED BY <2>1, <2>2 DEF Mine
<1> QED BY <1>1, <1>2 DEF SearchSound

\* A visit that goes on searching has in hand every live session of its basket.
LEMMA SearchesOn ==
  ASSUME SoundInv, [CheckoutNext]_checkoutVars, NEW v \in Visits, SearchSound(v),
         ~ \E u \in Visits, s \in Sessions : InsertRows(u, s),
         ResolveBasket(v) \/ VisitSteps(v) \/ VisitDies(v)
  PROVE  SearchSound(v)'
<1> DEFINE r == visit[v]
<1>t. CheckoutTypeOK /\ r \in VisitType /\ VisitSound(v)
  BY DEF SoundInv, CheckoutTypeOK
<1>i. ASSUME VisitBecomes(v, Idle) PROVE SearchSound(v)'
  <2>1. visit'[v].pc = "rest"
    BY <1>i, <1>t, Becomes DEF Idle
  <2> QED BY <2>1, NotSearching
\* A step of the search that drops at most sessions that are not its own, or not live.
<1>n. ASSUME NEW q, VisitBecomes(v, q), r.pc \in Searching, q.lines = r.lines,
             q.pc \in {"read", "expire", "fail", "release", "stamp"},
             \A s \in Sessions : Live(s) /\ Mine(v, s) /\ s \in r.todo => s \in q.todo
      PROVE  SearchSound(v)'
  <2>1. visit'[v] = q
    BY <1>n, <1>t, Becomes
  <2>2. \A s \in Sessions : Live(s)' /\ Mine(v, s)' => s \in visit'[v].todo
    BY <1>n, <2>1, SearchKept
  <2> QED BY <1>n, <2>1, <2>2 DEF SearchSound
<1>1. CASE ResolveBasket(v)
  <2> DEFINE goes(pc) == [Idle EXCEPT !.pc = pc, !.lines = basket[VisitorOf[v]]]
  <2>1. VisitBecomes(v, goes("look")) \/ VisitBecomes(v, goes("refused"))
    BY <1>1 DEF ResolveBasket
  <2>2. goes("look").pc = "look" /\ goes("refused").pc = "refused"
    BY DEF Idle
  <2> HIDE DEF goes
  <2>3. visit'[v].pc \in {"look", "refused"}
    BY <2>1, <2>2, <1>t, Becomes
  <2> QED BY <2>3, NotSearching
<1>2. CASE LookForSessions(v)
  <2> DEFINE q == [r EXCEPT !.pc = "read",
                     !.todo = {s \in Sessions : sold[s].buyer = {VisitorOf[v]} /\ order[s] = "pending"}]
  <2>1. VisitBecomes(v, q) /\ UNCHANGED <<order, sold>>
    BY <1>2 DEF LookForSessions, checkoutRows
  <2>2. /\ q.pc = "read"
        /\ q.todo = {s \in Sessions : sold[s].buyer = {VisitorOf[v]} /\ order[s] = "pending"}
    BY <1>t DEF VisitType
  <2> HIDE DEF q
  <2>3. visit'[v] = q
    BY <2>1, <1>t, Becomes
  <2> QED BY <2>1, <2>2, <2>3 DEF SearchSound, Live, Mine
<1>3. ASSUME NEW s \in Sessions, ReadSession(v, s) PROVE SearchSound(v)'
  <2> DEFINE same == sold[s].lines = r.lines
             on == [r EXCEPT !.todo = @ \ {s}, !.at = {s}]
             left == [r EXCEPT !.todo = @ \ {s}]
  <2>1. /\ r.pc = "read"
        /\ \/ VisitBecomes(v, Idle)
           \/ ~(same /\ sold[s].state \in {"open", "paid"}) /\
                 (\/ VisitBecomes(v, left)
                  \/ VisitBecomes(v, [on EXCEPT !.pc = "expire"])
                  \/ VisitBecomes(v, [on EXCEPT !.pc = "fail"]))
    BY <1>3 DEF ReadSession
  <2>2. /\ left.todo = r.todo \ {s} /\ left.pc = r.pc /\ left.lines = r.lines
        /\ \A pc \in {"expire", "fail"} : /\ [on EXCEPT !.pc = pc].todo = r.todo \ {s}
                                          /\ [on EXCEPT !.pc = pc].pc = pc
                                          /\ [on EXCEPT !.pc = pc].lines = r.lines
    BY <1>t DEF VisitType
  <2>3. ~(same /\ sold[s].state \in {"open", "paid"}) => ~(Live(s) /\ Mine(v, s))
    BY DEF Live, Mine
  <2> HIDE DEF on, left, same
  <2> QED BY <1>i, <1>n, <2>1, <2>2, <2>3 DEF Searching
<1>4. ASSUME NEW s \in Sessions, ExpireSession(v, s) PROVE SearchSound(v)'
  <2> DEFINE q == [r EXCEPT !.pc = "fail"]
  <2>1. r.pc = "expire" /\ (VisitBecomes(v, Idle) \/ VisitBecomes(v, q))
    BY <1>4 DEF ExpireSession, VisitGoes
  <2>2. q.pc = "fail" /\ q.lines = r.lines /\ q.todo = r.todo
    BY <1>t DEF VisitType
  <2> HIDE DEF q
  <2> QED BY <1>i, <1>n, <2>1, <2>2 DEF Searching
<1>5. ASSUME NEW s \in Sessions, FailRows(v, s) PROVE SearchSound(v)'
  <2> DEFINE q(pc, hand) == [r EXCEPT !.pc = pc, !.hand = hand]
  <2>1. r.pc = "fail" /\ \E pc \in {"read", "release"} : \E hand : VisitBecomes(v, q(pc, hand))
    BY <1>5 DEF FailRows
  <2>2. \A pc \in {"read", "release"} : \A hand :
           q(pc, hand).pc = pc /\ q(pc, hand).lines = r.lines /\ q(pc, hand).todo = r.todo
    BY <1>t DEF VisitType
  <2> HIDE DEF q
  <2> QED BY <1>n, <2>1, <2>2 DEF Searching
<1>6. CASE ReleaseRows(v) \/ \E s \in Sessions : StampRows(v, s)
  <2> DEFINE p == [r EXCEPT !.pc = "stamp"]
             q == [r EXCEPT !.pc = "read", !.hand = {}]
  <2>1. r.pc \in {"release", "stamp"} /\ (VisitBecomes(v, p) \/ VisitBecomes(v, q))
    BY <1>6 DEF ReleaseRows, StampRows, VisitGoes
  <2>2. /\ p.pc = "stamp" /\ p.lines = r.lines /\ p.todo = r.todo
        /\ q.pc = "read" /\ q.lines = r.lines /\ q.todo = r.todo
    BY <1>t DEF VisitType
  <2> HIDE DEF p, q
  <2> QED BY <1>n, <2>1, <2>2 DEF Searching
<1>7. CASE ReserveLines(v)
  <2> DEFINE q == [r EXCEPT !.pc = "create", !.at = {}, !.hand = @ \cup r.lines]
  <2>1. r.pc = "read" /\ r.todo = {} /\ (VisitBecomes(v, Idle) \/ VisitBecomes(v, q))
    BY <1>7 DEF ReserveLines
  <2>2. q.pc = "create" /\ q.lines = r.lines /\ q.todo = r.todo
    BY <1>t DEF VisitType
  <2> HIDE DEF q
  <2>3. ASSUME VisitBecomes(v, q) PROVE SearchSound(v)'
    <3>1. visit'[v] = q
      BY <2>3, <1>t, Becomes
    <3>2. \A s \in Sessions : Live(s)' /\ Mine(v, s)' => s \in visit'[v].todo
      BY <2>1, <2>2, <3>1, SearchKept DEF Searching
    <3> QED BY <2>1, <2>2, <3>1, <3>2 DEF SearchSound
  <2> QED BY <1>i, <2>1, <2>3
<1>8. CASE UndoReservation(v) \/ CreationThrows(v) \/ VisitDies(v)
  BY <1>8, <1>i DEF UndoReservation, CreationThrows, VisitDies
<1>9. ASSUME NEW s \in Sessions, CreateSession(v, s) PROVE SearchSound(v)'
  <2> DEFINE q == [r EXCEPT !.pc = "insert", !.at = {s}]
  <2>1. /\ r.pc = "create" /\ VisitBecomes(v, q)
        /\ sold'[s].buyer = {VisitorOf[v]} /\ sold'[s].lines = r.lines
    BY <1>9, <1>t DEF CreateSession, CheckoutTypeOK
  <2>2. q.pc = "insert" /\ q.lines = r.lines /\ q.todo = r.todo /\ q.at = {s}
    BY <1>t DEF VisitType
  <2> HIDE DEF q
  <2>3. visit'[v] = q
    BY <2>1, <1>t, Becomes
  <2>4. \A t \in Sessions : Live(t)' /\ Mine(v, t)' => t \in visit'[v].todo
    BY <2>1, <2>2, <2>3, SearchKept DEF Searching
  <2>5. r.todo = {}
    BY <2>1 DEF SearchSound
  <2>6. Mine(v, s)'
    BY <2>1, <2>2, <2>3 DEF Mine
  <2> QED BY <2>2, <2>3, <2>4, <2>5, <2>6 DEF SearchSound
<1> QED BY <1>1, <1>2, <1>3, <1>4, <1>5, <1>6, <1>7, <1>8, <1>9 DEF VisitSteps

\* The rows of a session are written when no other session of the basket is live, and
\* with one tab no other visit of the buyer is searching.
LEMMA InsertedAlone ==
  ASSUME SoundInv, OneTab, OneLive, \A v \in Visits : SearchSound(v),
         NEW v \in Visits, NEW s \in Sessions, InsertRows(v, s)
  PROVE  OneLive' /\ \A u \in Visits : SearchSound(u)'
<1>t. CheckoutTypeOK
  BY DEF SoundInv
<1>1. /\ visit[v].pc = "insert" /\ visit[v].at = {s} /\ VisitBecomes(v, Idle)
      /\ order' = [order EXCEPT ![s] = "pending"] /\ sold' = sold
  BY DEF InsertRows, OfVisit
<1>2. Mine(v, s) /\ visit[v].todo = {}
  BY <1>1 DEF SearchSound
<1>3. ASSUME NEW t \in Sessions, t # s PROVE Live(t)' <=> Live(t)
  BY <1>1, <1>3, <1>t DEF Live, CheckoutTypeOK
<1>4. ASSUME NEW t \in Sessions, Live(t), sold[t].buyer = sold[s].buyer, sold[t].lines = sold[s].lines
      PROVE  FALSE
  <2>1. Mine(v, t)
    BY <1>2, <1>4 DEF Mine
  <2> QED BY <1>1, <1>2, <1>4, <2>1 DEF SearchSound, Searching
<1>5. OneLive'
  BY <1>1, <1>3, <1>4 DEF OneLive
<1>6. SearchSound(v)'
  <2>1. visit'[v].pc = "rest"
    BY <1>1, <1>t, Becomes DEF Idle
  <2> QED BY <2>1, NotSearching
<1>7. ASSUME NEW u \in Visits, u # v PROVE SearchSound(u)'
  <2>1. visit'[u] = visit[u]
    BY <1>1, <1>7, <1>t, Becomes
  <2>2. ~Mine(u, s)
    BY <1>2, <1>7 DEF Mine, OneTab
  <2> QED BY <1>1, <1>3, <2>1, <2>2 DEF SearchSound, Mine
<1> QED BY <1>5, <1>6, <1>7

\* So when it opens a session, no other of its basket is live.
LEMMA SearchStep == SoundInv /\ SearchInv /\ [CheckoutNext]_checkoutVars => SearchInv'
<1> SUFFICES ASSUME SoundInv, OneTab, OneLive, \A v \in Visits : SearchSound(v),
                    [CheckoutNext]_checkoutVars
             PROVE  OneLive' /\ \A v \in Visits : SearchSound(v)'
  BY DEF SearchInv, OneTab
<1>1. CASE \E v \in Visits, s \in Sessions : InsertRows(v, s)
  BY <1>1, InsertedAlone
<1>2. CASE ~ \E v \in Visits, s \in Sessions : InsertRows(v, s)
  <2>1. OneLive'
    <3>1. \A s \in Sessions : Live(s)' => /\ Live(s) /\ sold'[s].buyer = sold[s].buyer
                                          /\ sold'[s].lines = sold[s].lines
      BY <1>2, BecomesLive
    <3> QED BY <3>1 DEF OneLive
  <2>2. ASSUME NEW v \in Visits, ResolveBasket(v) \/ VisitSteps(v) \/ VisitDies(v), NEW u \in Visits
        PROVE  SearchSound(u)'
    <3>1. CASE u = v
      BY <1>2, <2>2, <3>1, SearchesOn
    <3>2. CASE u # v
      <4>1. \E r : VisitBecomes(v, r)
        BY <2>2 DEF ResolveBasket, VisitSteps, VisitDies, LookForSessions, ReleaseRows,
             ReserveLines,
             UndoReservation, CreationThrows, ReadSession, ExpireSession, FailRows, StampRows,
             CreateSession, InsertRows, VisitGoes
      <4>2. visit'[u] = visit[u]
        BY <3>2, <4>1, Becomes DEF SoundInv
      <4> QED BY <1>2, <4>2, SearchStands
    <3> QED BY <3>1, <3>2
  <2>3. ASSUME UNCHANGED visit, NEW u \in Visits PROVE SearchSound(u)'
    BY <1>2, <2>3, SearchStands
  <2>4. ASSUME NEW s \in Sessions, HookSteps(s) \/ HookDies(s) \/ ClockSteps(s) \/ PaySession(s)
        PROVE  UNCHANGED visit
    BY <2>4 DEF HookSteps, DeliverPaid, ClearBought, CompleteOrder, HookDies, ClockSteps,
                SessionLapses, OrderAges, PaySession
  <2>5. ASSUME NEW w \in Sweeps, SweepSteps(w) \/ SweepDies(w) PROVE UNCHANGED visit
    BY <2>5 DEF SweepSteps, SelectStale, ReturnStale, SweepDies
  <2>6. ASSUME (\E b \in Buyers : ChangeBasket(b)) \/ UNCHANGED checkoutVars PROVE UNCHANGED visit
    BY <2>6 DEF ChangeBasket, checkoutVars
  <2> QED BY <2>1, <2>2, <2>3, <2>4, <2>5, <2>6 DEF CheckoutNext
<1> QED BY <1>1, <1>2

\* A buyer with one tab is never asked to pay twice for the same basket.
THEOREM NoSecondChargeAlways == CheckoutSpec => []NoSecondCharge
<1>1. SearchInv => NoSecondCharge
  BY DEF SearchInv, OneTab, OneLive, Live, NoSecondCharge
<1>2. CheckoutInit => SoundInv /\ SearchInv
  BY SoundInit, SearchInit
<1>3. SoundInv /\ SearchInv /\ [CheckoutNext]_checkoutVars => SoundInv' /\ SearchInv'
  BY SoundStep, SearchStep
<1> QED BY <1>1, <1>2, <1>3, PTL DEF CheckoutSpec
=============================================================================
