---------------------------- MODULE SpaceOutboxProofs ----------------------------
(***************************************************************************)
(* Theorems about SpaceOutbox, for any entries and any number of edits,    *)
(* rows, attempts, deaths and faults: a difference between Anthers and the *)
(* space is always on record unless its edit was never queued, and outside *)
(* the Library no older version lands on a newer.                          *)
(***************************************************************************)
EXTENDS SpaceOutbox, TLAPS

-----------------------------------------------------------------------------
(* The shape of the outbox: one pending row and one row of the drain for   *)
(* each entry, and the drain holds rows in flight.                         *)

InDrain(r) == r.id \in drain.batch \cup {drain.row}

TaskType == [stage : {"none", "read", "queue"}, version : Versions]
DrainType == [pc : {"off", "put", "verify", "still", "project", "clear", "park"},
              batch : SUBSET RowIds, row : RowIds \cup {NoRow}]

RowsShape ==
    /\ \A r \in outbox : r.id < nextRow /\ r.version <= changes
    /\ \A r \in outbox : r.status # "failed" => r.attempts < MaxAttempts
    /\ \A r, q \in outbox :
          r.entry = q.entry /\ r.status = "pending" /\ q.status = "pending" => r = q

DrainShape ==
    /\ \A r \in outbox : InDrain(r) => r.status = "inflight"
    /\ \A r, q \in outbox : r.entry = q.entry /\ InDrain(r) /\ InDrain(q) => r = q
    /\ \A i \in drain.batch \cup {drain.row} : i < nextRow
    /\ drain.pc = "off" => drain = NoDrain
    /\ drain.pc = "put" => drain.row = NoRow
    /\ drain.pc \notin {"off", "put"} =>
          drain.row \notin drain.batch /\ \E r \in outbox : r.id = drain.row

ReaderShape ==
    /\ \A i \in removals : i <= changes
    /\ \A k \in Entries : local[k] <= changes /\ producer[k].version <= changes

ShapeInv == OutboxTypeOK /\ RowsShape /\ DrainShape /\ ReaderShape

\* The bounds are numbers, and no row has the id NoRow.
LEMMA Numbers ==
  /\ MaxChanges \in Nat /\ MaxQueued \in Nat /\ MaxAttempts \in Nat \ {0}
  /\ Versions \subseteq Nat /\ 0 \in Versions /\ RowIds \subseteq Nat /\ NoRow \notin RowIds
  BY SpaceOutboxAssumption DEF Versions, RowIds, NoRow

\* No task and no drain have their types.
LEMMA RestTypes == NoTask \in TaskType /\ NoDrain \in DrainType
  BY Numbers DEF NoTask, NoDrain, TaskType, DrainType

\* What a row of the outbox carries.
LEMMA RowTypes ==
  ASSUME NEW r \in OutboxRow
  PROVE  /\ r.id \in RowIds /\ r.entry \in Entries /\ r.version \in Versions
         /\ r.attempts \in 0..MaxAttempts /\ r.status \in {"pending", "inflight", "failed"}
         /\ r.id \in Int /\ r.version \in Int /\ r.attempts \in Int
<1>1. /\ r.id \in RowIds /\ r.entry \in Entries /\ r.version \in Versions
      /\ r.attempts \in 0..MaxAttempts /\ r.status \in {"pending", "inflight", "failed"}
  BY DEF OutboxRow
<1>2. 0..MaxAttempts \subseteq Int /\ RowIds \subseteq Int /\ Versions \subseteq Int
  BY Numbers
<1> QED BY <1>1, <1>2

\* A row rewritten, claimed or parked is a row.
LEMMA RowUpdates ==
  ASSUME NEW r \in OutboxRow
  PROVE  /\ \A version \in Versions : [r EXCEPT !.version = version] \in OutboxRow
         /\ [r EXCEPT !.status = "inflight"] \in OutboxRow
         /\ \A attempts \in 0..MaxAttempts, status \in {"pending", "failed"} :
               [r EXCEPT !.attempts = attempts, !.status = status] \in OutboxRow
  BY DEF OutboxRow

\* The records the drain's steps write have its type.
LEMMA DrainUpdates ==
  ASSUME NEW d \in DrainType
  PROVE  /\ \A i \in RowIds, pc \in {"verify", "still", "park"} :
               [d EXCEPT !.pc = pc, !.batch = @ \ {i}, !.row = i] \in DrainType
         /\ \A pc \in {"project", "park", "clear"} : [d EXCEPT !.pc = pc] \in DrainType
         /\ [d EXCEPT !.pc = "put", !.row = NoRow] \in DrainType
  BY DEF DrainType

\* One row takes the place of another.
LEMMA Replaces ==
  ASSUME OutboxTypeOK, NEW h \in outbox, NEW n, n.id = h.id
  PROVE  Updated({n}) = (outbox \ {h}) \cup {n}
  BY DEF OutboxTypeOK, Updated

\* The row in hand is there, and in flight.
LEMMA InHand ==
  ASSUME ShapeInv, drain.pc \notin {"off", "put"}
  PROVE  /\ RowInHand \in outbox /\ RowInHand.id = drain.row /\ InDrain(RowInHand)
         /\ RowInHand \in OutboxRow /\ RowInHand.status = "inflight"
<1>1. \E r \in outbox : r.id = drain.row
  BY DEF ShapeInv, DrainShape
<1>2. RowInHand \in outbox /\ RowInHand.id = drain.row
  BY <1>1 DEF RowInHand
<1> QED BY <1>2 DEF ShapeInv, DrainShape, OutboxTypeOK, InDrain

\* Every step as it treats the outbox and the drain.
LEMMA OnwardShape ==
  ASSUME ShapeInv, drain.pc \notin {"off", "put"}, drain' = Onward
  PROVE  /\ drain' \in DrainType /\ drain'.batch = drain.batch /\ drain'.row = NoRow
         /\ drain' = NoDrain \/ (drain'.pc = "put")
<1>1. drain \in DrainType
  BY DEF ShapeInv, OutboxTypeOK, DrainType
<1>2. CASE drain.batch = {}
  BY <1>2, RestTypes DEF Onward, NoDrain
<1>3. CASE drain.batch # {}
  <2>1. drain' = [drain EXCEPT !.pc = "put", !.row = NoRow]
    BY <1>3 DEF Onward
  <2>2. drain'.pc = "put" /\ drain'.row = NoRow /\ drain'.batch = drain.batch
    BY <1>1, <2>1 DEF DrainType
  <2>3. drain' \in DrainType
    BY <1>1, <2>1, DrainUpdates
  <2> QED BY <2>2, <2>3
<1> QED BY <1>2, <1>3

\* A row that takes another's place, in its entry and under its id.
LEMMA SwapShape ==
  ASSUME ShapeInv, NEW h \in outbox, NEW n \in OutboxRow, n.id = h.id, n.entry = h.entry,
         outbox' = (outbox \ {h}) \cup {n}, UNCHANGED <<nextRow, changes>>,
         n.version <= changes, n.status # "failed" => n.attempts < MaxAttempts,
         n.status = "pending" =>
            \A q \in outbox : q # h /\ q.entry = h.entry => q.status # "pending"
  PROVE  /\ outbox' \subseteq OutboxRow /\ \A r, q \in outbox' : r.id = q.id => r = q
         /\ RowsShape'
<1>1. outbox' \subseteq OutboxRow /\ \A r, q \in outbox' : r.id = q.id => r = q
  BY DEF ShapeInv, OutboxTypeOK
<1>2. h.id < nextRow
  BY DEF ShapeInv, RowsShape
<1>3. RowsShape'
  BY <1>2 DEF ShapeInv, RowsShape
<1> QED BY <1>1, <1>3

\* The drain goes on with no row it did not hold.
LEMMA NarrowDrain ==
  ASSUME ShapeInv, outbox' \subseteq outbox, nextRow' = nextRow,
         drain'.batch \cup {drain'.row} \subseteq drain.batch \cup {drain.row, NoRow},
         drain'.pc = "off" => drain' = NoDrain, drain'.pc = "put" => drain'.row = NoRow,
         drain'.pc \notin {"off", "put"} =>
            drain'.row \notin drain'.batch /\ \E r \in outbox' : r.id = drain'.row
  PROVE  DrainShape'
<1>1. \A r \in outbox : r.id # NoRow
  BY Numbers DEF ShapeInv, OutboxTypeOK, OutboxRow
<1>2. \A r \in outbox' : InDrain(r)' => InDrain(r)
  BY <1>1 DEF InDrain
<1>3. NoRow < nextRow
  BY DEF ShapeInv, OutboxTypeOK, NoRow
<1> QED BY <1>2, <1>3 DEF ShapeInv, DrainShape

\* At the start the outbox is empty.
LEMMA ShapeInit == OutboxInit => ShapeInv
<1> SUFFICES ASSUME OutboxInit PROVE ShapeInv
  OBVIOUS
<1>1. OutboxTypeOK
  <2>1. nextRow \in 1..(MaxQueued + 1) /\ stops \in 0..MaxStops /\ faults \in 0..MaxFaults
    BY SpaceOutboxAssumption DEF OutboxInit
  <2>2. producer \in [Entries -> TaskType] /\ drain \in DrainType
    BY RestTypes DEF OutboxInit
  <2> QED BY <2>1, <2>2, Numbers DEF OutboxInit, OutboxTypeOK, TaskType, DrainType
<1>2. RowsShape /\ ReaderShape
  <2>1. removals \subseteq {0} /\ changes = 0 /\ \A k \in Entries : local[k] = 0
    BY DEF OutboxInit
  <2>2. RowsShape /\ \A k \in Entries : producer[k].version = 0
    BY DEF OutboxInit, RowsShape, NoTask
  <2> QED BY <2>1, <2>2 DEF ReaderShape
<1>3. DrainShape
  BY DEF OutboxInit, DrainShape, InDrain, NoDrain, NoRow
<1> QED BY <1>1, <1>2, <1>3 DEF ShapeInv

\* What a request and its task do outside the outbox keeps the shape.
LEMMA TasksShape ==
  ASSUME ShapeInv, NEW k \in Entries,
         ChangeEntry(k) \/ ReadEntry(k) \/ TaskDies(k) \/ SaveOnPurchase(k) \/ SubjectDeleted(k)
  PROVE  ShapeInv'
<1>t. /\ changes \in Int /\ MaxChanges \in Int
      /\ \A j \in Entries : local[j] \in Versions /\ producer[j] \in TaskType
  BY Numbers DEF ShapeInv, OutboxTypeOK, TaskType, Versions
<1>v. Versions \subseteq Int
  BY Numbers
\* An edit is one version more, and may be a removal.
<1>e. \/ UNCHANGED <<local, removals, changes>>
      \/ /\ changes < MaxChanges /\ changes' = changes + 1
         /\ local' = [local EXCEPT ![k] = changes + 1]
         /\ removals' \subseteq removals \cup {changes + 1}
  BY DEF ChangeEntry, ReadEntry, TaskDies, SaveOnPurchase, SubjectDeleted, editVars
<1>1. /\ UNCHANGED <<outbox, nextRow, drain, space, left>> /\ changes' \in Versions /\ changes <= changes'
      /\ stops' \in 0..MaxStops /\ faults' \in 0..MaxFaults
  <2>1. changes' \in Versions /\ changes <= changes'
    BY <1>e, <1>t DEF ShapeInv, OutboxTypeOK, Versions
  <2>2. UNCHANGED <<outbox, nextRow, drain, space, left>>
    BY DEF ChangeEntry, ReadEntry, TaskDies, SaveOnPurchase, SubjectDeleted, outboxCounts
  <2>3. stops' \in 0..MaxStops /\ faults' \in 0..MaxFaults
    BY SpaceOutboxAssumption DEF ChangeEntry, ReadEntry, TaskDies, SaveOnPurchase, SubjectDeleted,
       outboxCounts, ShapeInv, OutboxTypeOK
  <2> QED BY <2>1, <2>2, <2>3
<1>g. gone' \subseteq Entries /\ unqueued' \subseteq Entries
  BY DEF ChangeEntry, ReadEntry, TaskDies, SaveOnPurchase, SubjectDeleted, editVars, ShapeInv,
     OutboxTypeOK
<1>2. /\ \A i \in removals' : i \in Versions /\ i <= changes'
      /\ local' \in [Entries -> Versions] /\ \A j \in Entries : local'[j] <= changes'
  <2>1. ASSUME changes' = changes + 1, local' = [local EXCEPT ![k] = changes + 1],
               removals' \subseteq removals \cup {changes + 1}
        PROVE  /\ \A i \in removals' : i \in Versions /\ i <= changes'
               /\ local' \in [Entries -> Versions] /\ \A j \in Entries : local'[j] <= changes'
    <3>2. removals \subseteq Versions /\ (\A i \in removals : i <= changes) /\ changes' \in Int
      BY <1>1, <1>v DEF ShapeInv, OutboxTypeOK, ReaderShape
    <3>3. \A i \in removals' : i \in Versions /\ i <= changes'
      BY <2>1, <3>2, <1>1, <1>t, <1>v
    <3>4. \A j \in Entries : local'[j] = changes' \/ (local'[j] = local[j] /\ local[j] <= changes)
      BY <2>1 DEF ShapeInv, OutboxTypeOK, ReaderShape
    <3>5. local' \in [Entries -> Versions]
      BY <2>1, <1>1 DEF ShapeInv, OutboxTypeOK
    <3>6. \A j \in Entries : local'[j] <= changes'
      <4>1. \A j \in Entries : local[j] \in Int
        BY <1>t, <1>v
      <4>2. changes <= changes' /\ changes \in Int /\ changes' \in Int
        BY <1>1, <1>t, <3>2
      <4> QED BY <3>4, <4>1, <4>2
    <3> QED BY <3>3, <3>5, <3>6
  <2>2. CASE UNCHANGED <<local, removals, changes>>
    BY <2>2 DEF ShapeInv, OutboxTypeOK, ReaderShape
  <2> QED BY <1>e, <2>1, <2>2
<1>3. producer' \in [Entries -> TaskType] /\ \A j \in Entries : producer'[j].version <= changes'
  <2>1. PICK task \in TaskType :
           producer' \in {producer, [producer EXCEPT ![k] = task]} /\ task.version <= changes'
    <3>1. CASE ChangeEntry(k)
      <4>1. /\ [stage |-> "read", version |-> 0] \in TaskType
            /\ [stage |-> "queue", version |-> changes'] \in TaskType /\ 0 <= changes'
        BY <1>1, Numbers DEF TaskType, Versions
      <4>2. changes' = changes + 1
        BY <3>1 DEF ChangeEntry
      <4>3. PICK task \in {[stage |-> "read", version |-> 0], [stage |-> "queue", version |-> changes']} :
                producer' = [producer EXCEPT ![k] = task]
        BY <3>1, <4>2 DEF ChangeEntry
      <4>4. task.version \in {0, changes'} /\ task \in TaskType
        BY <4>1, <4>3
      <4>5. task.version <= changes'
        BY <1>1, <1>v, <4>1, <4>4
      <4> QED BY <4>3, <4>4, <4>5
    <3>2. CASE ReadEntry(k) \/ TaskDies(k)
      <4>1. [stage |-> "queue", version |-> local[k]] \in TaskType /\ local[k] <= changes /\ 0 <= changes
        BY <1>t, Numbers DEF TaskType, ShapeInv, ReaderShape, OutboxTypeOK, Versions
      <4>2. PICK task \in {NoTask, [stage |-> "queue", version |-> local[k]]} :
                producer' = [producer EXCEPT ![k] = task]
        BY <3>2 DEF ReadEntry, TaskDies
      <4>3. changes' = changes
        BY <3>2 DEF ReadEntry, TaskDies, editVars
      <4>4. task \in TaskType /\ task.version <= changes
        BY <4>1, <4>2, RestTypes DEF NoTask
      <4> QED BY <4>2, <4>3, <4>4
    <3>3. CASE SaveOnPurchase(k) \/ SubjectDeleted(k)
      <4>1. producer' = producer
        BY <3>3 DEF SaveOnPurchase, SubjectDeleted
      <4>2. NoTask \in TaskType /\ NoTask.version <= changes'
        BY <1>1, RestTypes DEF NoTask, Versions
      <4> QED BY <4>1, <4>2
    <3> QED BY <3>1, <3>2, <3>3
  <2>2. \A j \in Entries : producer'[j] = task \/ producer'[j] = producer[j]
    BY <2>1 DEF ShapeInv, OutboxTypeOK
  <2>3. producer' \in [Entries -> TaskType]
    BY <2>1 DEF ShapeInv, OutboxTypeOK, TaskType
  <2>4. \A j \in Entries : producer[j].version \in Int /\ producer[j].version <= changes
    BY <1>t, <1>v DEF TaskType, ShapeInv, ReaderShape
  <2> QED BY <2>1, <2>2, <2>3, <2>4, <1>1, <1>t, <1>v
<1>4. OutboxTypeOK'
  BY <1>1, <1>2, <1>3, <1>g DEF ShapeInv, OutboxTypeOK, TaskType
<1>5. RowsShape'
  <2>1. \A r \in outbox : r.version \in Int
    BY RowTypes DEF ShapeInv, OutboxTypeOK
  <2> QED BY <1>1, <1>t, <1>v, <2>1 DEF ShapeInv, RowsShape
<1>6. DrainShape'
  BY <1>1 DEF ShapeInv, DrainShape, InDrain
<1>7. ReaderShape'
  BY <1>2, <1>3 DEF ReaderShape
<1> QED BY <1>4, <1>5, <1>6, <1>7 DEF ShapeInv

\* queueSpaceWrite: the pending row of the entry with another version, or a new row.
LEMMA QueueEffect ==
  ASSUME ShapeInv, NEW k \in Entries, QueueWrite(k)
  PROVE  \/ \E p \in Pending(k) :
               /\ nextRow' = nextRow
               /\ outbox' = (outbox \ {p}) \cup {[p EXCEPT !.version = producer[k].version]}
         \/ /\ Pending(k) = {} /\ nextRow <= MaxQueued /\ nextRow' = nextRow + 1
            /\ outbox' = outbox \cup {[id |-> nextRow, entry |-> k, attempts |-> 0,
                                       version |-> producer[k].version, status |-> "pending"]}
<1>1. ASSUME Pending(k) # {}, nextRow' = nextRow,
             outbox' = Updated({[r EXCEPT !.version = producer[k].version] : r \in Pending(k)})
      PROVE  \E p \in Pending(k) :
               /\ nextRow' = nextRow
               /\ outbox' = (outbox \ {p}) \cup {[p EXCEPT !.version = producer[k].version]}
  <2>1. PICK p \in Pending(k) : TRUE
    BY <1>1
  <2>2. p \in outbox /\ p.entry = k /\ p.status = "pending" /\ p \in OutboxRow
    BY <2>1 DEF Pending, ShapeInv, OutboxTypeOK
  <2>3. Pending(k) = {p}
    BY <2>1, <2>2 DEF Pending, ShapeInv, RowsShape
  <2> DEFINE n == [p EXCEPT !.version = producer[k].version]
  <2>4. {[r EXCEPT !.version = producer[k].version] : r \in Pending(k)} = {n}
    BY <2>3
  <2>5. n.id = p.id
    BY <2>2 DEF OutboxRow
  <2> HIDE DEF n
  <2>6. outbox' = (outbox \ {p}) \cup {n}
    BY <1>1, <2>2, <2>4, <2>5, Replaces DEF ShapeInv
  <2> QED BY <1>1, <2>1, <2>6 DEF n
<1> QED BY <1>1 DEF QueueWrite

\* A queued write rewrites the pending row of its entry or adds the only one.
LEMMA QueueShape ==
  ASSUME ShapeInv, NEW k \in Entries, QueueWrite(k)
  PROVE  ShapeInv'
<1> DEFINE v == producer[k].version
<1>t. v \in Versions /\ v <= changes /\ nextRow \in Int
  BY DEF ShapeInv, OutboxTypeOK, ReaderShape
<1>u. UNCHANGED <<readerVars, drain, space, outboxCounts>> /\ producer' = [producer EXCEPT ![k] = NoTask]
  BY DEF QueueWrite
<1>p. producer' \in [Entries -> TaskType] /\ \A j \in Entries : producer'[j].version <= changes
  <2>1. \A j \in Entries : producer'[j] = NoTask \/ producer'[j] = producer[j]
    BY <1>u DEF ShapeInv, OutboxTypeOK
  <2>2. 0 <= changes /\ NoTask.version = 0
    BY Numbers DEF ShapeInv, OutboxTypeOK, Versions, NoTask
  <2>3. producer' \in [Entries -> TaskType]
    BY <1>u, RestTypes DEF ShapeInv, OutboxTypeOK, TaskType
  <2> QED BY <2>1, <2>2, <2>3 DEF ShapeInv, ReaderShape
<1>r. ReaderShape'
  BY <1>u, <1>p DEF ShapeInv, ReaderShape, readerVars
<1>1. ASSUME NEW p \in Pending(k), nextRow' = nextRow,
             outbox' = (outbox \ {p}) \cup {[p EXCEPT !.version = v]}
      PROVE  OutboxTypeOK' /\ RowsShape' /\ DrainShape'
  <2> DEFINE n == [p EXCEPT !.version = v]
  <2>1. p \in outbox /\ p.entry = k /\ p.status = "pending" /\ p \in OutboxRow
    BY <1>1 DEF Pending, ShapeInv, OutboxTypeOK
  <2>2. /\ n \in OutboxRow /\ n.id = p.id /\ n.entry = p.entry /\ n.version = v
        /\ n.status = "pending" /\ n.attempts = p.attempts
    BY <2>1, <1>t, RowUpdates DEF OutboxRow
  <2> HIDE DEF n
  <2>3. \A q \in outbox : q # p /\ q.entry = p.entry => q.status # "pending"
    BY <2>1 DEF ShapeInv, RowsShape
  <2>4. p.attempts < MaxAttempts
    BY <2>1 DEF ShapeInv, RowsShape
  <2>5. outbox' = (outbox \ {p}) \cup {n} /\ UNCHANGED <<nextRow, changes>>
    BY <1>1, <1>u DEF n, readerVars
  <2>6. /\ outbox' \subseteq OutboxRow /\ \A r, q \in outbox' : r.id = q.id => r = q
        /\ RowsShape'
    BY <2>1, <2>2, <2>3, <2>4, <2>5, <1>t, SwapShape
  <2>7. ~ InDrain(p)
    BY <2>1 DEF ShapeInv, DrainShape
  <2>8. \A r \in outbox' : InDrain(r)' => r \in outbox /\ InDrain(r)
    BY <1>u, <2>2, <2>5, <2>7 DEF InDrain
  <2>9. \A r \in outbox : InDrain(r) => r \in outbox'
    BY <2>5, <2>7
  <2>10. DrainShape'
    BY <1>u, <2>5, <2>8, <2>9 DEF ShapeInv, DrainShape, InDrain
  <2>11. OutboxTypeOK'
    BY <1>u, <1>p, <2>5, <2>6 DEF ShapeInv, OutboxTypeOK, TaskType, readerVars, outboxCounts
  <2> QED BY <2>6, <2>10, <2>11
<1>2. ASSUME Pending(k) = {}, nextRow <= MaxQueued, nextRow' = nextRow + 1,
             outbox' = outbox \cup {[id |-> nextRow, entry |-> k, attempts |-> 0,
                                     version |-> v, status |-> "pending"]}
      PROVE  OutboxTypeOK' /\ RowsShape' /\ DrainShape'
  <2> DEFINE n == [id |-> nextRow, entry |-> k, attempts |-> 0, version |-> v, status |-> "pending"]
  <2>1. /\ n.id = nextRow /\ n.entry = k /\ n.attempts = 0 /\ n.version = v /\ n.status = "pending"
        /\ outbox' = outbox \cup {n}
    BY <1>2
  <2>2. n \in OutboxRow /\ nextRow' \in 1..(MaxQueued + 1) /\ 0 < MaxAttempts
    <3>1. nextRow \in RowIds /\ 0 \in 0..MaxAttempts /\ nextRow' \in 1..(MaxQueued + 1) /\ 0 < MaxAttempts
      BY <1>2, Numbers DEF ShapeInv, OutboxTypeOK, RowIds
    <3> QED BY <3>1, <1>t DEF OutboxRow
  <2> HIDE DEF n
  <2>3. \A r \in outbox : r.id \in Int /\ r.id < nextRow /\ (r.entry = k => r.status # "pending")
    BY <1>2, RowTypes DEF ShapeInv, RowsShape, OutboxTypeOK, Pending
  <2>4. \A r, q \in outbox' : r.id = q.id => r = q
    BY <2>1, <2>3, <1>t DEF ShapeInv, OutboxTypeOK
  <2>5. RowsShape'
    BY <1>u, <1>t, <1>2, <2>1, <2>2, <2>3 DEF ShapeInv, RowsShape, readerVars
  <2>6. ~ InDrain(n)
    BY <2>1, <1>t DEF ShapeInv, DrainShape, InDrain
  <2>7. \A r \in outbox' : InDrain(r)' => r \in outbox /\ InDrain(r)
    BY <1>u, <2>1, <2>6 DEF InDrain
  <2>8. \A i \in drain.batch \cup {drain.row} : i < nextRow'
    <3>1. \A i \in drain.batch \cup {drain.row} : i \in Int /\ i < nextRow
      BY Numbers DEF ShapeInv, DrainShape, OutboxTypeOK, NoRow
    <3> QED BY <3>1, <1>t, <1>2
  <2>9. DrainShape'
    BY <1>u, <2>1, <2>7, <2>8 DEF ShapeInv, DrainShape, InDrain
  <2>10. OutboxTypeOK'
    <3>1. outbox' \subseteq OutboxRow
      BY <2>1, <2>2 DEF ShapeInv, OutboxTypeOK
    <3> QED BY <1>u, <1>p, <2>2, <2>4, <3>1 DEF ShapeInv, OutboxTypeOK, TaskType, readerVars,
                 outboxCounts
  <2> QED BY <2>5, <2>9, <2>10
<1>3. OutboxTypeOK' /\ RowsShape' /\ DrainShape'
  BY <1>1, <1>2, QueueEffect
<1> QED BY <1>3, <1>r DEF ShapeInv

\* claimRows: the due rows are the drain's.
LEMMA ClaimEffect ==
  ASSUME ShapeInv, ClaimRows
  PROVE  \E due \in SUBSET {r \in outbox : r.status = "pending"} :
            /\ due # {} /\ drain = NoDrain
            /\ drain' = [pc |-> "put", batch |-> {r.id : r \in due}, row |-> NoRow]
            /\ outbox' = (outbox \ due) \cup {[r EXCEPT !.status = "inflight"] : r \in due}
<1>1. PICK due \in (SUBSET {r \in outbox : r.status = "pending"}) \ {{}} :
         /\ outbox' = Updated({[r EXCEPT !.status = "inflight"] : r \in due})
         /\ drain' = [pc |-> "put", batch |-> {r.id : r \in due}, row |-> NoRow]
  BY DEF ClaimRows
<1> DEFINE claimed == {[r EXCEPT !.status = "inflight"] : r \in due}
<1>2. \A r \in due : r \in outbox /\ [r EXCEPT !.status = "inflight"].id = r.id
  BY DEF ShapeInv, OutboxTypeOK, OutboxRow
<1>3. \A r \in outbox : r \in due <=> \E q \in claimed : q.id = r.id
  <2>1. ASSUME NEW r \in outbox, r \in due PROVE \E q \in claimed : q.id = r.id
    <3>1. [r EXCEPT !.status = "inflight"] \in claimed
      BY <2>1
    <3> QED BY <1>2, <2>1, <3>1
  <2>2. ASSUME NEW r \in outbox, NEW q \in claimed, q.id = r.id PROVE r \in due
    <3>1. PICK o \in due : q = [o EXCEPT !.status = "inflight"]
      BY <2>2
    <3>2. o \in outbox /\ o.id = r.id
      BY <1>2, <2>2, <3>1
    <3> QED BY <2>2, <3>1, <3>2 DEF ShapeInv, OutboxTypeOK
  <2> QED BY <2>1, <2>2
<1> HIDE DEF claimed
<1>4. Updated(claimed) = (outbox \ due) \cup claimed
  BY <1>3 DEF Updated
<1>5. outbox' = (outbox \ due) \cup claimed
  BY <1>1, <1>4 DEF claimed
<1>6. due \in SUBSET {r \in outbox : r.status = "pending"} /\ due # {}
  BY <1>1
<1>7. drain = NoDrain
  BY DEF ClaimRows
<1> QED BY <1>1, <1>5, <1>6, <1>7 DEF claimed

\* A claimed outbox, row by row.
LEMMA ClaimedRows ==
  ASSUME ShapeInv, NEW due \in SUBSET {r \in outbox : r.status = "pending"},
         outbox' = (outbox \ due) \cup {[r EXCEPT !.status = "inflight"] : r \in due},
         drain' = [pc |-> "put", batch |-> {r.id : r \in due}, row |-> NoRow]
  PROVE  /\ \A r \in outbox' : \E q \in outbox :
               /\ r.id = q.id /\ r.entry = q.entry /\ r.version = q.version /\ r.attempts = q.attempts
               /\ r \in OutboxRow
               /\ \/ q \in due /\ q.status = "pending" /\ r.status = "inflight" /\ InDrain(r)'
                  \/ r = q /\ q \notin due /\ ~ InDrain(r)'
         /\ \A q \in outbox : \E r \in outbox' : r.id = q.id /\ r.entry = q.entry
<1>d. drain'.batch = {r.id : r \in due} /\ drain'.row = NoRow
  OBVIOUS
<1>1. ASSUME NEW q \in due
      PROVE  /\ [q EXCEPT !.status = "inflight"] \in OutboxRow
             /\ [q EXCEPT !.status = "inflight"].id = q.id
             /\ [q EXCEPT !.status = "inflight"].entry = q.entry
             /\ [q EXCEPT !.status = "inflight"].version = q.version
             /\ [q EXCEPT !.status = "inflight"].attempts = q.attempts
             /\ [q EXCEPT !.status = "inflight"].status = "inflight"
             /\ q \in outbox /\ q.status = "pending" /\ q.id \in drain'.batch
  <2>1. q \in outbox /\ q.status = "pending" /\ q.id \in drain'.batch /\ q \in OutboxRow
    BY <1>1, <1>d DEF ShapeInv, OutboxTypeOK
  <2>2. [q EXCEPT !.status = "inflight"] \in OutboxRow
    BY <2>1, RowUpdates
  <2> QED BY <2>1, <2>2 DEF OutboxRow
<1>2. ASSUME NEW r \in outbox \ due PROVE r.id \notin drain'.batch \cup {drain'.row}
  <2>1. r.id # NoRow
    BY Numbers, RowTypes DEF ShapeInv, OutboxTypeOK
  <2> QED BY <1>d, <2>1 DEF ShapeInv, OutboxTypeOK
<1>3. ASSUME NEW r \in outbox'
      PROVE  \E q \in outbox :
               /\ r.id = q.id /\ r.entry = q.entry /\ r.version = q.version /\ r.attempts = q.attempts
               /\ r \in OutboxRow
               /\ \/ q \in due /\ q.status = "pending" /\ r.status = "inflight" /\ InDrain(r)'
                  \/ r = q /\ q \notin due /\ ~ InDrain(r)'
  <2>1. CASE r \in outbox \ due
    <3>1. r.id \notin drain'.batch \cup {drain'.row} /\ r \in OutboxRow
      BY <1>2, <2>1 DEF ShapeInv, OutboxTypeOK
    <3> QED BY <2>1, <3>1 DEF InDrain
  <2>2. CASE r \notin outbox \ due
    <3>1. PICK q \in due : r = [q EXCEPT !.status = "inflight"]
      BY <1>3, <2>2
    <3> QED BY <1>1, <3>1 DEF InDrain
  <2> QED BY <2>1, <2>2
<1>4. ASSUME NEW q \in outbox PROVE \E r \in outbox' : r.id = q.id /\ r.entry = q.entry
  <2>1. CASE q \in due
    <3>1. [q EXCEPT !.status = "inflight"] \in outbox'
      BY <2>1
    <3> QED BY <1>1, <2>1, <3>1
  <2>2. CASE q \notin due
    BY <2>2
  <2> QED BY <2>1, <2>2
<1> QED BY <1>3, <1>4

\* Claimed rows are one for each entry.
LEMMA ClaimShape ==
  ASSUME ShapeInv, ClaimRows
  PROVE  ShapeInv'
<1>u. UNCHANGED <<readerVars, producer, nextRow, space, outboxCounts>>
  BY DEF ClaimRows
<1>1. PICK due \in SUBSET {r \in outbox : r.status = "pending"} :
            /\ due # {} /\ drain = NoDrain
            /\ drain' = [pc |-> "put", batch |-> {r.id : r \in due}, row |-> NoRow]
            /\ outbox' = (outbox \ due) \cup {[r EXCEPT !.status = "inflight"] : r \in due}
  BY ClaimEffect
<1> DEFINE From(r, q) ==
             /\ r.id = q.id /\ r.entry = q.entry /\ r.version = q.version /\ r.attempts = q.attempts
             /\ r \in OutboxRow
             /\ \/ q \in due /\ q.status = "pending" /\ r.status = "inflight" /\ InDrain(r)'
                \/ r = q /\ q \notin due /\ ~ InDrain(r)'
<1>2. \A r \in outbox' : \E q \in outbox : From(r, q)
  BY <1>1, ClaimedRows
<1>3. \A r, s \in outbox', q \in outbox : From(r, q) /\ From(s, q) => r = s
  BY DEF OutboxRow
<1>4. \A r, s \in outbox' : r.id = s.id => r = s
  BY <1>2, <1>3 DEF ShapeInv, OutboxTypeOK
<1>5. outbox' \subseteq OutboxRow
  BY <1>2
<1>d. drain' \in DrainType /\ drain'.pc = "put" /\ drain'.row = NoRow /\ drain'.batch = {r.id : r \in due}
  <2>1. \A r \in due : r.id \in RowIds
    BY RowTypes DEF ShapeInv, OutboxTypeOK
  <2> QED BY <1>1, <2>1 DEF DrainType
<1>6. OutboxTypeOK'
  BY <1>u, <1>4, <1>5, <1>d DEF ShapeInv, OutboxTypeOK, DrainType, readerVars, outboxCounts
<1>7. RowsShape'
  <2>1. \A r \in outbox' : r.id < nextRow /\ r.version <= changes /\ (r.status # "failed" => r.attempts < MaxAttempts)
    BY <1>2 DEF ShapeInv, RowsShape
  <2>2. \A r, s \in outbox' : r.entry = s.entry /\ r.status = "pending" /\ s.status = "pending" => r = s
    BY <1>2 DEF ShapeInv, RowsShape
  <2> QED BY <1>u, <2>1, <2>2 DEF RowsShape, readerVars
<1>8. DrainShape'
  <2>1. \A r \in outbox' : InDrain(r)' => r.status = "inflight"
    BY <1>2
  <2>2. \A r, s \in outbox' : r.entry = s.entry /\ InDrain(r)' /\ InDrain(s)' => r = s
    BY <1>2, <1>3 DEF ShapeInv, RowsShape
  <2>3. \A i \in drain'.batch \cup {drain'.row} : i < nextRow'
    <3>1. \A r \in due : r.id < nextRow
      BY DEF ShapeInv, RowsShape
    <3>2. NoRow < nextRow
      BY DEF ShapeInv, OutboxTypeOK, NoRow
    <3> QED BY <1>d, <1>u, <3>1, <3>2
  <2> QED BY <1>d, <2>1, <2>2, <2>3 DEF DrainShape
<1>9. ReaderShape'
  BY <1>u DEF ShapeInv, ReaderShape, readerVars
<1> QED BY <1>6, <1>7, <1>8, <1>9 DEF ShapeInv

\* Carrying a row to the space and clearing it keeps the shape.
LEMMA CarryShape ==
  ASSUME ShapeInv,
         \/ VerifyWrite \/ VerifyStill \/ ProjectEntry \/ ProjectFails \/ ClearRow \/ DrainDies
         \/ \E r \in outbox : PutRecord(r)
  PROVE  ShapeInv'
<1>t. drain \in DrainType /\ local \in [Entries -> Versions] /\ space \in [Entries -> Versions]
  BY DEF ShapeInv, OutboxTypeOK, DrainType
<1>f. /\ faults < MaxFaults => faults + 1 \in 0..MaxFaults
      /\ stops < MaxStops => stops + 1 \in 0..MaxStops
  BY SpaceOutboxAssumption DEF ShapeInv, OutboxTypeOK
<1>1. ASSUME NEW r \in outbox, PutRecord(r) PROVE ShapeInv'
  <2>1. PICK pc \in {"verify", "still", "park"} :
           drain' = [drain EXCEPT !.pc = pc, !.batch = @ \ {r.id}, !.row = r.id]
    BY <1>1 DEF PutRecord
  <2>2. r.id \in RowIds /\ r.entry \in Entries /\ r.version \in Versions /\ r.id \in drain.batch
    BY <1>1, RowTypes DEF PutRecord, ShapeInv, OutboxTypeOK
  <2>3. /\ drain' \in DrainType /\ drain'.pc = pc /\ drain'.batch = drain.batch \ {r.id}
        /\ drain'.row = r.id
    BY <1>t, <2>1, <2>2, DrainUpdates DEF DrainType
  <2>4. space' \in [Entries -> Versions] /\ faults' \in 0..MaxFaults
    BY <1>1, <1>t, <1>f, <2>2 DEF PutRecord, ShapeInv, OutboxTypeOK
  <2>5. UNCHANGED <<readerVars, producer, outbox, nextRow, stops, left>>
    BY <1>1 DEF PutRecord
  <2>6. OutboxTypeOK'
    BY <2>3, <2>4, <2>5 DEF ShapeInv, OutboxTypeOK, DrainType, readerVars
  <2>7. DrainShape'
    BY <2>2, <2>3, <2>5, NarrowDrain
  <2> QED BY <2>5, <2>6, <2>7 DEF ShapeInv, RowsShape, ReaderShape, readerVars
<1>2. CASE VerifyWrite \/ VerifyStill \/ ProjectFails
  <2>1. PICK pc \in {"project", "park"} : drain' = [drain EXCEPT !.pc = pc] /\ drain.pc \notin {"off", "put"}
    BY <1>2 DEF VerifyWrite, VerifyStill, ProjectFails
  <2>2. /\ drain' \in DrainType /\ drain'.pc = pc /\ drain'.batch = drain.batch
        /\ drain'.row = drain.row
    BY <1>t, <2>1, DrainUpdates DEF DrainType
  <2>3. UNCHANGED <<readerVars, producer, outbox, nextRow, space, stops, left>> /\ faults' \in 0..MaxFaults
    BY <1>2, <1>f DEF VerifyWrite, VerifyStill, ProjectFails, outboxCounts, ShapeInv, OutboxTypeOK
  <2>4. OutboxTypeOK'
    BY <2>2, <2>3 DEF ShapeInv, OutboxTypeOK, DrainType, readerVars
  <2>5. DrainShape'
    BY <2>1, <2>2, <2>3, NarrowDrain DEF ShapeInv, DrainShape
  <2> QED BY <2>3, <2>4, <2>5 DEF ShapeInv, RowsShape, ReaderShape, readerVars
<1>3. CASE ProjectEntry
  <2>1. /\ drain' = [drain EXCEPT !.pc = "clear"] /\ drain.pc = "project"
        /\ UNCHANGED <<removals, changes, gone, producer, outbox, nextRow, space, outboxCounts>>
        /\ unqueued' \subseteq unqueued
        /\ local' = [k \in Entries |->
              IF k = RowInHand.entry /\ k \in Library THEN RowInHand.version ELSE local[k]]
    BY <1>3 DEF ProjectEntry
  <2>2. drain' \in DrainType /\ drain'.pc = "clear" /\ drain'.batch = drain.batch /\ drain'.row = drain.row
    BY <1>t, <2>1, DrainUpdates DEF DrainType
  <2>3. RowInHand.version \in Versions /\ RowInHand.version <= changes
    BY <2>1, InHand, RowTypes DEF ShapeInv, RowsShape
  <2>4. local' \in [Entries -> Versions] /\ \A k \in Entries : local'[k] <= changes
    BY <1>t, <2>1, <2>3 DEF ShapeInv, ReaderShape
  <2>5. OutboxTypeOK'
    BY <2>1, <2>2, <2>4 DEF ShapeInv, OutboxTypeOK, DrainType, outboxCounts
  <2>6. DrainShape'
    BY <2>1, <2>2, NarrowDrain DEF ShapeInv, DrainShape
  <2> QED BY <2>1, <2>4, <2>5, <2>6 DEF ShapeInv, RowsShape, ReaderShape
<1>4. CASE ClearRow
  <2>1. /\ outbox' = outbox \ {RowInHand} /\ drain' = Onward /\ drain.pc = "clear"
        /\ UNCHANGED <<readerVars, producer, nextRow, space, outboxCounts>>
    BY <1>4 DEF ClearRow
  <2>2. /\ drain' \in DrainType /\ drain'.batch = drain.batch /\ drain'.row = NoRow
        /\ drain' = NoDrain \/ (drain'.pc = "put")
    BY <2>1, OnwardShape
  <2>3. OutboxTypeOK'
    BY <2>1, <2>2 DEF ShapeInv, OutboxTypeOK, DrainType, readerVars, outboxCounts
  <2>4. DrainShape'
    BY <2>1, <2>2, NarrowDrain DEF NoDrain
  <2> QED BY <2>1, <2>3, <2>4 DEF ShapeInv, RowsShape, ReaderShape, readerVars
<1>5. CASE DrainDies
  <2>1. drain' = NoDrain /\ UNCHANGED <<readerVars, producer, outbox, nextRow, space, faults>>
    BY <1>5 DEF DrainDies
  <2>l. left' \subseteq RowIds \cup {NoRow}
    BY <1>5, <1>t DEF DrainDies, Held, DrainType, ShapeInv, OutboxTypeOK
  <2>2. drain'.batch = {} /\ drain'.row = NoRow /\ drain'.pc = "off" /\ stops' \in 0..MaxStops
    BY <1>5, <1>f, <2>1 DEF DrainDies, NoDrain
  <2>3. OutboxTypeOK'
    BY <2>1, <2>2, <2>l, RestTypes DEF ShapeInv, OutboxTypeOK, DrainType, readerVars
  <2>4. DrainShape'
    BY <2>1, <2>2, NarrowDrain
  <2> QED BY <2>1, <2>3, <2>4 DEF ShapeInv, RowsShape, ReaderShape, readerVars
<1> QED BY <1>1, <1>2, <1>3, <1>4, <1>5

\* park, with the row as it goes back.
LEMMA ParkEffect ==
  ASSUME ShapeInv, ParkRow
  PROVE  \/ drain' = NoDrain /\ outbox' = outbox
         \/ \E n \in OutboxRow :
               /\ outbox' = (outbox \ {RowInHand}) \cup {n} /\ drain' = Onward
               /\ n.id = RowInHand.id /\ n.entry = RowInHand.entry /\ n.version = RowInHand.version
               /\ n.status \in {"pending", "failed"}
               /\ n.status = "pending" => n.attempts < MaxAttempts /\ Pending(RowInHand.entry) = {}
<1> DEFINE h == RowInHand
           tried == h.attempts + 1
           status == IF tried >= MaxAttempts THEN "failed" ELSE "pending"
           n == [h EXCEPT !.attempts = tried, !.status = status]
<1>1. drain.pc = "park" /\ h \in outbox /\ h \in OutboxRow /\ h.status = "inflight"
  BY InHand DEF ParkRow
<1>2. tried \in 0..MaxAttempts /\ (status = "pending" => tried < MaxAttempts) /\ status \in {"pending", "failed"}
  <2>1. h.attempts < MaxAttempts
    BY <1>1 DEF ShapeInv, RowsShape
  <2> QED BY <1>1, <2>1, Numbers, RowTypes
<1>3. n \in OutboxRow
  BY <1>1, <1>2, RowUpdates
<1>4. n.id = h.id /\ n.entry = h.entry /\ n.version = h.version /\ n.status = status /\ n.attempts = tried
  BY <1>1 DEF OutboxRow
<1>5. \/ drain' = NoDrain /\ outbox' = outbox
      \/ /\ outbox' = Updated({n}) /\ drain' = Onward
         /\ status = "pending" => Pending(h.entry) = {}
  BY DEF ParkRow
<1> HIDE DEF n, h, status, tried
<1>6. Updated({n}) = (outbox \ {h}) \cup {n}
  BY <1>1, <1>4, Replaces DEF ShapeInv
<1> QED BY <1>2, <1>3, <1>4, <1>5, <1>6 DEF h

\* A parked row is pending again only where its entry has no other.
LEMMA ParkShape ==
  ASSUME ShapeInv, ParkRow
  PROVE  ShapeInv'
<1>u. /\ UNCHANGED <<readerVars, producer, nextRow, space, stops, faults>> /\ drain.pc = "park"
      /\ left' \subseteq RowIds \cup {NoRow}
  BY DEF ParkRow, Held, ShapeInv, OutboxTypeOK
<1>r. ReaderShape'
  BY <1>u DEF ShapeInv, ReaderShape, readerVars
<1>1. CASE drain' = NoDrain /\ outbox' = outbox
  <2>1. drain'.batch = {} /\ drain'.row = NoRow /\ drain'.pc = "off"
    BY <1>1 DEF NoDrain
  <2>2. OutboxTypeOK'
    BY <1>u, <1>1, RestTypes DEF ShapeInv, OutboxTypeOK, DrainType, readerVars, outboxCounts
  <2>3. DrainShape'
    BY <1>u, <1>1, <2>1, NarrowDrain
  <2> QED BY <1>u, <1>r, <1>1, <2>2, <2>3 DEF ShapeInv, RowsShape, readerVars
<1>2. ASSUME NEW n \in OutboxRow, outbox' = (outbox \ {RowInHand}) \cup {n}, drain' = Onward,
             n.id = RowInHand.id, n.entry = RowInHand.entry, n.version = RowInHand.version,
             n.status \in {"pending", "failed"},
             n.status = "pending" => n.attempts < MaxAttempts /\ Pending(RowInHand.entry) = {}
      PROVE  ShapeInv'
  <2> DEFINE h == RowInHand
  <2>1. h \in outbox /\ h.id = drain.row /\ h.version <= changes /\ h.id # NoRow
    BY <1>u, InHand, RowTypes, Numbers DEF ShapeInv, RowsShape
  <2>2. n.status = "pending" => \A q \in outbox : q # h /\ q.entry = h.entry => q.status # "pending"
    BY <1>2 DEF Pending
  <2>3. UNCHANGED <<nextRow, changes>>
    BY <1>u DEF readerVars
  <2> HIDE DEF h
  <2>4. /\ outbox' \subseteq OutboxRow /\ \A r, q \in outbox' : r.id = q.id => r = q
        /\ RowsShape'
    <3>1. /\ n.id = h.id /\ n.entry = h.entry /\ n.version <= changes
          /\ outbox' = (outbox \ {h}) \cup {n} /\ (n.status # "failed" => n.attempts < MaxAttempts)
      BY <1>2, <2>1 DEF h
    <3> QED BY <2>1, <2>2, <2>3, <3>1, SwapShape
  <2>5. /\ drain' \in DrainType /\ drain'.batch = drain.batch /\ drain'.row = NoRow
        /\ drain' = NoDrain \/ (drain'.pc = "put")
    BY <1>2, <1>u, OnwardShape
  <2>6. OutboxTypeOK'
    BY <1>u, <2>4, <2>5 DEF ShapeInv, OutboxTypeOK, DrainType, readerVars, outboxCounts
  <2>7. n.id \notin drain'.batch \cup {drain'.row}
    BY <1>2, <1>u, <2>1, <2>5 DEF ShapeInv, DrainShape, h
  <2>8. \A r \in outbox' : InDrain(r)' => r \in outbox /\ InDrain(r)
    <3>1. \A r \in outbox : r.id # NoRow
      BY RowTypes, Numbers DEF ShapeInv, OutboxTypeOK
    <3> QED BY <1>2, <2>5, <2>7, <3>1 DEF InDrain
  <2>9. \A i \in drain'.batch \cup {drain'.row} : i < nextRow'
    <3>1. NoRow < nextRow
      BY DEF ShapeInv, OutboxTypeOK, NoRow
    <3> QED BY <2>3, <2>5, <3>1 DEF ShapeInv, DrainShape
  <2>10. DrainShape'
    BY <2>5, <2>8, <2>9 DEF ShapeInv, DrainShape, NoDrain
  <2> QED BY <1>r, <2>4, <2>6, <2>10 DEF ShapeInv
<1> QED BY <1>1, <1>2, ParkEffect

\* So ShapeInv is inductive.
LEMMA ShapeStep == ShapeInv /\ [OutboxNext]_outboxVars => ShapeInv'
<1> SUFFICES ASSUME ShapeInv, [OutboxNext]_outboxVars PROVE ShapeInv'
  OBVIOUS
<1>1. CASE UNCHANGED outboxVars
  BY <1>1 DEF outboxVars, readerVars, outboxCounts, ShapeInv, OutboxTypeOK, RowsShape,
       DrainShape,
              ReaderShape, InDrain
<1> QED BY <1>1, TasksShape, QueueShape, ClaimShape, CarryShape, ParkShape
        DEF OutboxNext, TaskSteps, DrainSteps

\* Every behaviour has its types: no two rows share an id.
THEOREM OutboxTypeOKAlways == OutboxSpec => []OutboxTypeOK
<1>1. ShapeInv => OutboxTypeOK
  BY DEF ShapeInv
<1> QED BY <1>1, ShapeInit, ShapeStep, PTL DEF OutboxSpec

-----------------------------------------------------------------------------
(* Outside the Library nothing is projected over what Anthers holds: what  *)
(* is still to be put is no older than what the space has.                 *)

MovesForward(k) ==
    /\ space[k] <= local[k]
    /\ producer[k].stage = "queue" =>
          /\ space[k] <= producer[k].version /\ producer[k].version <= local[k]
          /\ producer[k].version = local[k] \/ k \in unqueued
          /\ \A r \in outbox : r.entry = k => r.version <= producer[k].version
    /\ \A r \in outbox : r.entry = k =>
          /\ r.version <= local[k]
          /\ r.status = "pending" \/ InDrain(r) => space[k] <= r.version
    /\ \A r, q \in outbox : r.entry = k /\ q.entry = k /\ InDrain(r) /\ q.status = "pending" =>
          r.version <= q.version

ForwardInv == ShapeInv /\ \A k \in Entries \ Library : MovesForward(k)

\* Versions of an entry are numbers that can be compared.
LEMMA EntryTypes ==
  ASSUME ShapeInv, NEW k \in Entries
  PROVE  /\ local[k] \in Int /\ space[k] \in Int /\ changes \in Int /\ producer[k].version \in Int
         /\ local[k] <= changes /\ local[k] \in Versions /\ producer[k] \in TaskType
<1>1. /\ local[k] \in Versions /\ space[k] \in Versions /\ producer[k] \in TaskType
      /\ changes \in Versions /\ local[k] <= changes
  BY DEF ShapeInv, OutboxTypeOK, TaskType, ReaderShape
<1>2. producer[k].version \in Versions
  BY <1>1 DEF TaskType
<1>3. Versions \subseteq Int
  BY Numbers
<1> QED BY <1>1, <1>2, <1>3

\* An entry whose rows, task and versions did not move, and whose drain let go of rows.
LEMMA ForwardStill ==
  ASSUME ForwardInv, NEW k \in Entries \ Library, outbox' \subseteq outbox,
         \A r \in outbox' : InDrain(r)' => InDrain(r),
         local'[k] = local[k], space'[k] = space[k], k \in unqueued => k \in unqueued',
         producer'[k] = producer[k] \/ producer'[k].stage = "none"
  PROVE  MovesForward(k)'
  BY DEF ForwardInv, MovesForward

\* What a request and its task, a purchase or a cascade do keeps the versions in order.
LEMMA ForwardTasks ==
  ASSUME ForwardInv, NEW j \in Entries,
         ChangeEntry(j) \/ ReadEntry(j) \/ TaskDies(j) \/ SaveOnPurchase(j) \/ SubjectDeleted(j),
         NEW k \in Entries \ Library
  PROVE  MovesForward(k)'
<1>u. UNCHANGED <<outbox, drain, space>> /\ (\A r : InDrain(r)' <=> InDrain(r))
  BY DEF ChangeEntry, ReadEntry, TaskDies, SaveOnPurchase, SubjectDeleted, InDrain
<1>t. /\ MovesForward(k) /\ local[k] \in Int /\ space[k] \in Int /\ local[k] <= changes /\ changes \in Int
      /\ producer[k].version \in Int
  BY EntryTypes DEF ForwardInv
<1>v. \A r \in outbox : r.version \in Int
  BY RowTypes DEF ForwardInv, ShapeInv, OutboxTypeOK
<1>p. local \in [Entries -> Versions] /\ producer \in [Entries -> TaskType]
  BY DEF ForwardInv, ShapeInv, OutboxTypeOK, TaskType
<1>1. CASE ChangeEntry(j)
  <2>1. /\ local' = [local EXCEPT ![j] = changes + 1] /\ unqueued' = unqueued \ {j}
        /\ \/ producer' = [producer EXCEPT ![j] = [stage |-> "read", version |-> 0]]
           \/ producer' = [producer EXCEPT ![j] = [stage |-> "queue", version |-> changes + 1]]
    BY <1>1 DEF ChangeEntry
  <2>2. CASE k # j
    <3>1. local'[k] = local[k] /\ producer'[k] = producer[k] /\ (k \in unqueued => k \in unqueued')
      BY <2>1, <2>2, <1>p
    <3> QED BY <1>u, <3>1, ForwardStill
  <2>3. CASE k = j
    <3>1. local'[k] = changes + 1
      BY <2>1, <2>3, <1>p
    <3>2. producer'[k].stage = "queue" => producer'[k].version = changes + 1
      BY <2>1, <2>3, <1>p
    <3>3. space[k] <= changes + 1
      BY <1>t DEF MovesForward
    <3>4. \A r \in outbox : r.entry = k => r.version <= changes + 1
      BY <1>t, <1>v DEF MovesForward
    <3> QED BY <1>u, <1>t, <3>1, <3>2, <3>3, <3>4 DEF MovesForward
  <2> QED BY <2>2, <2>3
<1>2. CASE ReadEntry(j)
  <2>1. /\ local' = local
        /\ \/ producer' = [producer EXCEPT ![j] = NoTask] /\ unqueued' = unqueued
           \/ /\ producer' = [producer EXCEPT ![j] = [stage |-> "queue", version |-> local[j]]]
              /\ unqueued' = unqueued \ {j}
    BY <1>2 DEF ReadEntry, editVars
  <2>2. CASE producer'[k].stage = "queue" /\ producer'[k].version = local[k]
    BY <1>u, <1>t, <2>1, <2>2 DEF MovesForward
  <2>3. CASE ~ (producer'[k].stage = "queue" /\ producer'[k].version = local[k])
    <3>1. /\ producer'[k] = producer[k] \/ producer'[k].stage = "none"
          /\ k \in unqueued => k \in unqueued'
      BY <2>1, <2>3, <1>p DEF NoTask
    <3> QED BY <1>u, <2>1, <3>1, ForwardStill
  <2> QED BY <2>2, <2>3
<1>3. CASE TaskDies(j)
  <2>1. /\ local' = local /\ (k \in unqueued => k \in unqueued')
        /\ producer'[k] = producer[k] \/ producer'[k].stage = "none"
    BY <1>3, <1>p DEF TaskDies, editVars, NoTask
  <2> QED BY <1>u, <2>1, ForwardStill
<1>4. CASE SaveOnPurchase(j)
  <2>1. /\ local'[k] = local[k] /\ (k \in unqueued => k \in unqueued')
        /\ producer'[k] = producer[k]
    BY <1>4, <1>p DEF SaveOnPurchase
  <2> QED BY <1>u, <2>1, ForwardStill
<1>5. CASE SubjectDeleted(j)
  <2>1. CASE local'[k] = local[k]
    <3>1. (k \in unqueued => k \in unqueued') /\ producer'[k] = producer[k]
      BY <1>5 DEF SubjectDeleted
    <3> QED BY <1>u, <2>1, <3>1, ForwardStill
  <2>2. CASE local'[k] # local[k]
    <3>1. local'[k] = changes + 1 /\ k \in unqueued' /\ producer' = producer
      BY <1>5, <2>2, <1>p DEF SubjectDeleted
    <3>2. /\ space[k] <= changes + 1
          /\ producer[k].stage = "queue" => producer[k].version <= changes + 1
      BY <1>t DEF MovesForward
    <3>3. \A r \in outbox : r.entry = k => r.version <= changes + 1
      BY <1>t, <1>v DEF MovesForward
    <3> QED BY <1>u, <1>t, <3>1, <3>2, <3>3 DEF MovesForward
  <2> QED BY <2>1, <2>2
<1> QED BY <1>1, <1>2, <1>3, <1>4, <1>5

\* A queued write is the newest of its entry.
LEMMA ForwardQueue ==
  ASSUME ForwardInv, NEW j \in Entries, QueueWrite(j), NEW k \in Entries \ Library
  PROVE  MovesForward(k)'
<1>u. /\ UNCHANGED <<readerVars, drain, space, outboxCounts>> /\ producer' = [producer EXCEPT ![j] = NoTask]
      /\ producer[j].stage = "queue" /\ (\A r : InDrain(r)' <=> InDrain(r))
  BY DEF QueueWrite, InDrain
<1>t. MovesForward(k) /\ local[k] \in Int /\ space[k] \in Int /\ producer[k].version \in Int
  BY EntryTypes DEF ForwardInv
<1>n. producer'[k] = producer[k] \/ producer'[k].stage = "none"
  BY <1>u DEF NoTask, ForwardInv, ShapeInv, OutboxTypeOK
<1>v. j = k => /\ space[k] <= producer[j].version /\ producer[j].version <= local[k]
                /\ \A r \in outbox : r.entry = k => r.version <= producer[j].version
  BY <1>u, <1>t DEF MovesForward
\* The row that was written, beside rows that stay.
<1>w. ASSUME NEW n, outbox' \subseteq outbox \cup {n}, n.entry = j,
             n.version = producer[j].version, ~ InDrain(n)
      PROVE  MovesForward(k)'
  <2>1. \A r \in outbox' : r.entry = k /\ r \notin outbox =>
           r = n /\ j = k /\ r.version = producer[j].version
    BY <1>w
  <2>2. \A r \in outbox' : r.entry = k =>
           /\ r.version <= local[k]
           /\ r.status = "pending" \/ InDrain(r) => space[k] <= r.version
    BY <1>w, <1>v, <2>1, <1>t DEF MovesForward
  <2>3. \A r, q \in outbox' : r.entry = k /\ q.entry = k /\ InDrain(r) /\ q.status = "pending" =>
           r.version <= q.version
    <3>1. \A r \in outbox' : InDrain(r) => r \in outbox
      BY <1>w
    <3> QED BY <1>v, <2>1, <3>1, <1>t DEF MovesForward
  <2>4. producer'[k].stage = "queue" => \A r \in outbox' : r.entry = k => r.version <= producer[k].version
    <3>1. producer'[k].stage = "queue" => j # k
      BY <1>u DEF NoTask, ForwardInv, ShapeInv, OutboxTypeOK
    <3> QED BY <1>n, <1>t, <2>1, <3>1 DEF MovesForward
  <2> QED BY <1>u, <1>n, <1>t, <2>2, <2>3, <2>4 DEF MovesForward, readerVars
<1>1. ASSUME NEW p \in Pending(j), outbox' = (outbox \ {p}) \cup {[p EXCEPT !.version = producer[j].version]}
      PROVE  MovesForward(k)'
  <2> DEFINE n == [p EXCEPT !.version = producer[j].version]
  <2>1. p \in outbox /\ p.entry = j /\ p.status = "pending" /\ p \in OutboxRow
    BY DEF Pending, ForwardInv, ShapeInv, OutboxTypeOK
  <2>2. n.id = p.id /\ n.entry = j /\ n.version = producer[j].version
    BY <2>1 DEF OutboxRow
  <2>3. ~ InDrain(p)
    BY <2>1 DEF ForwardInv, ShapeInv, DrainShape
  <2> HIDE DEF n
  <2>4. ~ InDrain(n)
    BY <2>2, <2>3 DEF InDrain
  <2>5. outbox' \subseteq outbox \cup {n}
    BY <1>1 DEF n
  <2> QED BY <2>2, <2>4, <2>5, <1>w
<1>2. ASSUME outbox' = outbox \cup {[id |-> nextRow, entry |-> j, attempts |-> 0,
                                     version |-> producer[j].version, status |-> "pending"]}
      PROVE  MovesForward(k)'
  <2> DEFINE n == [id |-> nextRow, entry |-> j, attempts |-> 0, version |-> producer[j].version,
                   status |-> "pending"]
  <2>1. n.id = nextRow /\ n.entry = j /\ n.version = producer[j].version
    OBVIOUS
  <2> HIDE DEF n
  <2>2. nextRow \in Int
    BY DEF ForwardInv, ShapeInv, OutboxTypeOK
  <2>3. ~ InDrain(n)
    BY <2>1, <2>2 DEF ForwardInv, ShapeInv, DrainShape, InDrain
  <2>4. outbox' \subseteq outbox \cup {n}
    BY <1>2 DEF n
  <2> QED BY <2>1, <2>3, <2>4, <1>w
<1> QED BY <1>1, <1>2, QueueEffect DEF ForwardInv

\* A claimed row is not newer than what is pending.
LEMMA ForwardClaim ==
  ASSUME ForwardInv, ClaimRows, NEW k \in Entries \ Library
  PROVE  MovesForward(k)'
<1>u. UNCHANGED <<readerVars, producer, space>>
  BY DEF ClaimRows
<1>t. MovesForward(k)
  BY DEF ForwardInv
<1>1. PICK due \in SUBSET {r \in outbox : r.status = "pending"} :
            /\ drain' = [pc |-> "put", batch |-> {r.id : r \in due}, row |-> NoRow]
            /\ outbox' = (outbox \ due) \cup {[r EXCEPT !.status = "inflight"] : r \in due}
  BY ClaimEffect DEF ForwardInv
<1>2. \A r \in outbox' : \E q \in outbox :
         /\ r.id = q.id /\ r.entry = q.entry /\ r.version = q.version
         /\ \/ q \in due /\ q.status = "pending" /\ r.status = "inflight" /\ InDrain(r)'
            \/ r = q /\ q \notin due /\ ~ InDrain(r)'
  BY <1>1, ClaimedRows DEF ForwardInv
<1>3. \A r \in outbox' : r.entry = k =>
         /\ r.version <= local[k]
         /\ r.status = "pending" \/ InDrain(r)' => space[k] <= r.version
  BY <1>2, <1>t DEF MovesForward
<1>4. \A r, q \in outbox' : r.entry = k /\ q.entry = k /\ InDrain(r)' /\ q.status = "pending" =>
         r.version <= q.version
  \* A claimed row was the pending one.
  <2>1. \A r, q \in outbox : r.entry = q.entry /\ r.status = "pending" /\ q.status = "pending" => r = q
    BY DEF ForwardInv, ShapeInv, RowsShape
  <2> QED BY <1>2, <2>1
<1>5. producer[k].stage = "queue" => \A r \in outbox' : r.entry = k => r.version <= producer[k].version
  BY <1>2, <1>t DEF MovesForward
<1> QED BY <1>u, <1>t, <1>3, <1>4, <1>5 DEF MovesForward, readerVars

\* The drain puts a version that is not older than the space has.
LEMMA ForwardCarry ==
  ASSUME ForwardInv,
         \/ VerifyWrite \/ VerifyStill \/ ProjectEntry \/ ProjectFails \/ ClearRow \/ DrainDies
         \/ \E r \in outbox : PutRecord(r),
         NEW k \in Entries \ Library
  PROVE  MovesForward(k)' /\ space'[k] >= space[k]
<1>t. MovesForward(k) /\ drain \in DrainType /\ space[k] \in Int
  BY EntryTypes DEF ForwardInv, ShapeInv, OutboxTypeOK, DrainType
<1>i. \A r \in outbox : r.id # NoRow
  BY RowTypes, Numbers DEF ForwardInv, ShapeInv, OutboxTypeOK
<1>1. ASSUME NEW h \in outbox, PutRecord(h) PROVE MovesForward(k)' /\ space'[k] >= space[k]
  <2>1. /\ UNCHANGED <<readerVars, producer, outbox>> /\ InDrain(h)
        /\ space' = space \/ space' = [space EXCEPT ![h.entry] = h.version]
    BY <1>1 DEF PutRecord, InDrain
  <2>2. \A r \in outbox : InDrain(r)' => InDrain(r)
    <3>1. PICK pc \in {"verify", "still", "park"} :
             drain' = [drain EXCEPT !.pc = pc, !.batch = @ \ {h.id}, !.row = h.id]
      BY <1>1 DEF PutRecord
    <3>2. drain'.batch = drain.batch \ {h.id} /\ drain'.row = h.id
      BY <3>1, <1>t DEF DrainType
    <3> QED BY <2>1, <3>2 DEF InDrain
  <2>3. CASE space'[k] = space[k]
    BY <2>1, <2>2, <2>3, <1>t, ForwardStill DEF readerVars
  <2>4. CASE space'[k] # space[k]
    <3>1. h.entry = k /\ space'[k] = h.version
      BY <2>1, <2>4 DEF ForwardInv, ShapeInv, OutboxTypeOK
    <3>2. space[k] <= h.version /\ h.version <= local[k] /\ h.version \in Int
      BY <2>1, <3>1, <1>t, RowTypes DEF MovesForward, ForwardInv, ShapeInv, OutboxTypeOK
    <3>3. \A r \in outbox : r.entry = k /\ (r.status = "pending" \/ InDrain(r)') => h.version <= r.version
      <4>1. \A r \in outbox : r.entry = k /\ InDrain(r)' => r = h
        BY <2>1, <2>2, <3>1 DEF ForwardInv, ShapeInv, DrainShape
      <4> QED BY <2>1, <3>1, <3>2, <4>1, <1>t DEF MovesForward
    <3>4. MovesForward(k)'
      <4>1. producer[k].stage = "queue" => h.version <= producer[k].version
        BY <2>1, <3>1, <1>t DEF MovesForward
      <4> QED BY <2>1, <2>2, <3>1, <3>2, <3>3, <4>1, <1>t DEF MovesForward, readerVars
    <3> QED BY <3>1, <3>2, <3>4, <1>t
  <2> QED BY <2>3, <2>4
<1>2. CASE VerifyWrite \/ VerifyStill \/ ProjectEntry \/ ProjectFails
  <2>1. PICK pc \in {"project", "park", "clear"} : drain' = [drain EXCEPT !.pc = pc]
    BY <1>2 DEF VerifyWrite, VerifyStill, ProjectEntry, ProjectFails
  <2>2. \A r : InDrain(r)' <=> InDrain(r)
    BY <2>1, <1>t DEF InDrain, DrainType
  <2>3. UNCHANGED <<producer, outbox, space>> /\ local'[k] = local[k] /\ (k \in unqueued => k \in unqueued')
    BY <1>2 DEF VerifyWrite, VerifyStill, ProjectEntry, ProjectFails, readerVars
  <2> QED BY <2>2, <2>3, <1>t, ForwardStill
<1>3. CASE ClearRow \/ DrainDies
  <2>1. UNCHANGED <<readerVars, producer, space>> /\ outbox' \subseteq outbox
    BY <1>3 DEF ClearRow, DrainDies
  <2>2. drain'.batch \subseteq drain.batch /\ drain'.row = NoRow
    <3>1. CASE ClearRow
      BY <3>1, OnwardShape DEF ClearRow, ForwardInv
    <3>2. CASE DrainDies
      BY <3>2 DEF DrainDies, NoDrain
    <3> QED BY <1>3, <3>1, <3>2
  <2>3. \A r \in outbox' : InDrain(r)' => InDrain(r)
    BY <1>i, <2>1, <2>2 DEF InDrain
  <2> QED BY <2>1, <2>3, <1>t, ForwardStill DEF readerVars
<1> QED BY <1>1, <1>2, <1>3

\* A parked row is not newer than the local version.
LEMMA ForwardPark ==
  ASSUME ForwardInv, ParkRow, NEW k \in Entries \ Library
  PROVE  MovesForward(k)'
<1>u. UNCHANGED <<readerVars, producer, space>> /\ drain.pc = "park"
  BY DEF ParkRow
<1>t. MovesForward(k)
  BY DEF ForwardInv
<1>i. \A r \in outbox : r.id # NoRow
  BY RowTypes, Numbers DEF ForwardInv, ShapeInv, OutboxTypeOK
<1>h. RowInHand \in outbox /\ InDrain(RowInHand)
  BY <1>u, InHand DEF ForwardInv
<1>1. CASE drain' = NoDrain /\ outbox' = outbox
  <2>1. \A r \in outbox' : InDrain(r)' => InDrain(r)
    BY <1>1, <1>i DEF NoDrain, InDrain
  <2> QED BY <1>u, <1>1, <2>1, ForwardStill DEF readerVars
<1>2. ASSUME NEW n \in OutboxRow, outbox' = (outbox \ {RowInHand}) \cup {n}, drain' = Onward,
             n.id = RowInHand.id, n.entry = RowInHand.entry, n.version = RowInHand.version
      PROVE  MovesForward(k)'
  <2> DEFINE h == RowInHand
  <2>1. drain'.batch = drain.batch /\ drain'.row = NoRow /\ h.id = drain.row /\ drain.row \notin drain.batch
    BY <1>2, <1>u, OnwardShape, InHand DEF ForwardInv, ShapeInv, DrainShape
  <2>2. \A r \in outbox' : InDrain(r)' => r \in outbox /\ InDrain(r) /\ r # h
    BY <1>2, <1>i, <1>h, <2>1 DEF InDrain
  <2>3. \A r \in outbox : r.entry = h.entry /\ InDrain(r) => r = h
    BY <1>h DEF ForwardInv, ShapeInv, DrainShape
  <2>4. \A r \in outbox' : r \in outbox \/ (r = n /\ r.entry = h.entry /\ r.version = h.version)
    BY <1>2
  <2>5. h.entry = k => space[k] <= h.version /\ h.version <= local[k]
    BY <1>h, <1>t DEF MovesForward
  <2> HIDE DEF h
  <2>6. \A r \in outbox' : r.entry = k =>
           /\ r.version <= local[k]
           /\ r.status = "pending" \/ InDrain(r)' => space[k] <= r.version
    BY <2>2, <2>4, <2>5, <1>t DEF MovesForward
  <2>7. \A r, q \in outbox' : r.entry = k /\ q.entry = k /\ InDrain(r)' /\ q.status = "pending" =>
           r.version <= q.version
    <3>1. \A r, q \in outbox' : r.entry = q.entry /\ InDrain(r)' => q \in outbox
      BY <2>2, <2>3, <2>4
    <3> QED BY <2>2, <3>1, <1>t DEF MovesForward
  <2>8. producer[k].stage = "queue" => \A r \in outbox' : r.entry = k => r.version <= producer[k].version
    <3>1. h \in outbox
      BY <1>h DEF h
    <3> QED BY <2>4, <3>1, <1>t DEF MovesForward
  <2> QED BY <1>u, <1>t, <2>6, <2>7, <2>8 DEF MovesForward, readerVars
<1> QED BY <1>1, <1>2, ParkEffect DEF ForwardInv

\* So the versions stay in order, and the space never goes back.
LEMMA ForwardStep ==
  ForwardInv /\ [OutboxNext]_outboxVars => ForwardInv' /\ \A k \in Entries \ Library : space'[k] >= space[k]
<1> SUFFICES ASSUME ForwardInv, [OutboxNext]_outboxVars
             PROVE  ForwardInv' /\ \A k \in Entries \ Library : space'[k] >= space[k]
  OBVIOUS
<1>1. ShapeInv'
  BY ShapeStep DEF ForwardInv
<1>2. ASSUME NEW k \in Entries \ Library PROVE MovesForward(k)' /\ space'[k] >= space[k]
  <2>t. space[k] \in Int
    BY EntryTypes DEF ForwardInv
  <2>1. ASSUME NEW j \in Entries,
               \/ ChangeEntry(j) \/ ReadEntry(j) \/ TaskDies(j) \/ QueueWrite(j)
               \/ SaveOnPurchase(j) \/ SubjectDeleted(j)
        PROVE  MovesForward(k)' /\ space'[k] >= space[k]
    <3>1. space' = space
      BY <2>1 DEF ChangeEntry, ReadEntry, TaskDies, QueueWrite, SaveOnPurchase, SubjectDeleted
    <3> QED BY <2>1, <2>t, <3>1, ForwardTasks, ForwardQueue
  <2>2. CASE ClaimRows \/ ParkRow
    <3>1. space' = space
      BY <2>2 DEF ClaimRows, ParkRow
    <3> QED BY <2>2, <2>t, <3>1, ForwardClaim, ForwardPark
  <2>3. CASE \/ VerifyWrite \/ VerifyStill \/ ProjectEntry \/ ProjectFails \/ ClearRow \/ DrainDies
             \/ \E r \in outbox : PutRecord(r)
    BY <2>3, ForwardCarry
  <2>4. CASE UNCHANGED outboxVars
    <3>1. UNCHANGED <<outbox, drain, local, unqueued, space, producer>>
      BY <2>4 DEF outboxVars, readerVars
    <3>2. MovesForward(k)'
      BY <3>1, ForwardStill DEF InDrain
    <3> QED BY <2>t, <3>1, <3>2
  <2> QED BY <2>1, <2>2, <2>3, <2>4 DEF OutboxNext, TaskSteps, DrainSteps
<1> QED BY <1>1, <1>2 DEF ForwardInv

\* At the start there is one version of each entry.
LEMMA ForwardInit == OutboxInit => ForwardInv
<1>1. ASSUME OutboxInit, NEW k \in Entries PROVE MovesForward(k)
  BY <1>1 DEF OutboxInit, MovesForward, NoTask
<1> QED BY <1>1, ShapeInit DEF ForwardInv

\* No older version of a reading position or a cloud save lands on a newer.
THEOREM SpaceMovesForwardAlways == OutboxSpec => SpaceMovesForward
<1> DEFINE Forward == \A k \in Entries \ Library : space'[k] >= space[k]
<1>1. ForwardInv /\ [OutboxNext]_outboxVars => Forward
  BY ForwardStep
<1>2. ForwardInv /\ [OutboxNext]_outboxVars => ForwardInv'
  BY ForwardStep
<1> QED BY <1>1, <1>2, ForwardInit, PTL DEF OutboxSpec, SpaceMovesForward

-----------------------------------------------------------------------------
(* A change that was queued, or will be, is with its task, then with the   *)
(* pending row, then with the row of the drain, until its record was read  *)
(* back.                                                                   *)

\* The task of k will queue what Anthers holds.
Busy(k) ==
    producer[k].stage = "queue" \/ (producer[k].stage = "read" /\ local[k] \notin removals)

\* No row of the outbox has to tell of k.
Told(k) == Busy(k) \/ k \in unqueued

HasPending(k) == \E q \in outbox : q.entry = k /\ q.status = "pending"

OnRecord(k) == local[k] = space[k] \/ (\E r \in outbox : r.entry = k) \/ Told(k)

RowsTell(k) ==
    /\ \A r \in outbox : r.entry = k /\ r.status = "pending" => r.version = local[k] \/ Told(k)
    /\ \A r \in outbox : r.entry = k /\ InDrain(r) =>
          r.version = local[k] \/ Told(k) \/ HasPending(k)

HandTells ==
    /\ drain.pc \in {"project", "clear"} => space[RowInHand.entry] = RowInHand.version
    /\ drain.pc = "clear" =>
          \/ local[RowInHand.entry] = RowInHand.version
          \/ Told(RowInHand.entry) \/ HasPending(RowInHand.entry)

Remembers ==
    /\ \A k \in Entries : OnRecord(k)
    /\ \A k \in Entries \ Library : RowsTell(k)
    /\ HandTells

RecordInv == ForwardInv /\ Remembers

\* The drain goes on with the row it has in hand.
LEMMA HandKept ==
  ASSUME ShapeInv, ShapeInv', drain.pc \notin {"off", "put"}, drain'.pc \notin {"off", "put"},
         drain'.row = drain.row, RowInHand \in outbox'
  PROVE  RowInHand' = RowInHand
<1>1. RowInHand.id = drain.row
  BY InHand
<1>2. RowInHand' \in outbox' /\ (RowInHand').id = drain'.row
  <2>1. \E r \in outbox' : r.id = drain'.row
    BY DEF ShapeInv, DrainShape
  <2> QED BY <2>1 DEF RowInHand
<1> QED BY <1>1, <1>2 DEF ShapeInv, OutboxTypeOK

\* A change that is not queued yet has a task that will, or never will be.
LEMMA RecordTasks ==
  ASSUME RecordInv, ShapeInv', NEW j \in Entries,
         ChangeEntry(j) \/ ReadEntry(j) \/ TaskDies(j) \/ SaveOnPurchase(j) \/ SubjectDeleted(j)
  PROVE  Remembers'
<1>u. UNCHANGED <<outbox, drain, space>> /\ RowInHand' = RowInHand /\ (\A k : HasPending(k)' <=> HasPending(k))
      /\ (\A r : InDrain(r)' <=> InDrain(r))
  BY DEF ChangeEntry, ReadEntry, TaskDies, SaveOnPurchase, SubjectDeleted, RowInHand, HasPending, InDrain
<1>t. /\ \A k \in Entries : OnRecord(k)
      /\ \A k \in Entries \ Library : RowsTell(k)
      /\ HandTells
  BY DEF RecordInv, Remembers
<1>y. \A i \in removals : i \in Int /\ i <= changes
  BY Numbers DEF RecordInv, ForwardInv, ShapeInv, ReaderShape, OutboxTypeOK
<1>c. changes \in Int
  BY EntryTypes DEF RecordInv, ForwardInv
<1>p. local \in [Entries -> Versions] /\ producer \in [Entries -> TaskType]
  BY DEF RecordInv, ForwardInv, ShapeInv, OutboxTypeOK, TaskType
\* The entry of the step is told of, or does not change.
<1>j. Told(j)' \/ (local'[j] = local[j] /\ ~ Told(j))
  <2>1. CASE ChangeEntry(j)
    <3>1. changes + 1 \notin removals
      BY <1>y, <1>c
    <3>2. local'[j] = changes + 1
      BY <2>1, <1>p DEF ChangeEntry
    <3>3. \/ producer'[j].stage = "read" /\ removals' = removals
          \/ producer'[j].stage = "queue"
      BY <2>1, <1>p DEF ChangeEntry
    <3> QED BY <3>1, <3>2, <3>3 DEF Told, Busy
  <2>2. CASE ReadEntry(j)
    <3>1. local' = local /\ removals' = removals /\ producer[j].stage = "read"
      BY <2>2 DEF ReadEntry, editVars
    <3>2. CASE local[j] \in removals
      <4>1. ~ Busy(j) /\ unqueued' = unqueued
        BY <2>2, <3>1, <3>2 DEF ReadEntry, Absent, Busy
      <4> QED BY <3>1, <4>1 DEF Told
    <3>3. CASE local[j] \notin removals
      <4>1. producer'[j].stage = "queue"
        BY <2>2, <3>3, <1>p DEF ReadEntry, Absent
      <4> QED BY <4>1 DEF Told, Busy
    <3> QED BY <3>2, <3>3
  <2>3. CASE TaskDies(j) \/ SaveOnPurchase(j)
    BY <2>3 DEF TaskDies, SaveOnPurchase, Told
  <2>4. CASE SubjectDeleted(j)
    <3>1. CASE Absent(j)
      <4>1. UNCHANGED <<local, removals, producer, unqueued>>
        BY <2>4, <3>1 DEF SubjectDeleted
      <4> QED BY <4>1 DEF Told, Busy
    <3>2. CASE ~ Absent(j)
      BY <2>4, <3>2 DEF SubjectDeleted, Told
    <3> QED BY <3>1, <3>2
  <2> QED BY <2>1, <2>2, <2>3, <2>4
<1>k. ASSUME NEW k \in Entries, k # j PROVE Told(k)' \/ (local'[k] = local[k] /\ ~ Told(k))
  <2>1. /\ local'[k] = local[k] /\ producer'[k] = producer[k] /\ (k \in unqueued' <=> k \in unqueued)
        /\ removals \subseteq removals' /\ removals' \subseteq removals \cup {changes + 1}
    BY <1>k, <1>p DEF ChangeEntry, ReadEntry, TaskDies, SaveOnPurchase, SubjectDeleted, editVars
  <2>2. local[k] \in Int /\ local[k] <= changes
    BY EntryTypes DEF RecordInv, ForwardInv
  <2> QED BY <2>1, <2>2, <1>c DEF Told, Busy
<1>1. \A k \in Entries : Told(k)' \/ (local'[k] = local[k] /\ ~ Told(k))
  BY <1>j, <1>k
<1>2. \A k \in Entries : OnRecord(k)'
  BY <1>u, <1>t, <1>1 DEF OnRecord
<1>3. \A k \in Entries \ Library : RowsTell(k)'
  BY <1>u, <1>t, <1>1 DEF RowsTell
<1>4. HandTells'
  <2>1. CASE drain.pc = "clear"
    <3>1. RowInHand.entry \in Entries
      BY <2>1, InHand, RowTypes DEF RecordInv, ForwardInv
    <3> QED BY <1>u, <1>t, <1>1, <3>1 DEF HandTells
  <2>2. CASE drain.pc # "clear"
    BY <1>u, <1>t, <2>2 DEF HandTells
  <2> QED BY <2>1, <2>2
<1> QED BY <1>2, <1>3, <1>4 DEF Remembers

\* A queued change is the newest row of its entry.
LEMMA RecordQueue ==
  ASSUME RecordInv, ShapeInv', NEW j \in Entries, QueueWrite(j)
  PROVE  Remembers'
<1>u. /\ UNCHANGED <<readerVars, drain, space>> /\ producer' = [producer EXCEPT ![j] = NoTask]
      /\ producer[j].stage = "queue" /\ (\A r : InDrain(r)' <=> InDrain(r))
  BY DEF QueueWrite, InDrain
<1>t. /\ \A k \in Entries : OnRecord(k)
      /\ \A k \in Entries \ Library : RowsTell(k)
      /\ HandTells
  BY DEF RecordInv, Remembers
<1>b. \A k \in Entries : k # j => (Told(k)' <=> Told(k))
  BY <1>u DEF Told, Busy, readerVars, RecordInv, ForwardInv, ShapeInv, OutboxTypeOK
\* One row of j is written; the others stay.
<1>w. \E n \in outbox' :
         /\ n.entry = j /\ n.version = producer[j].version /\ n.status = "pending"
         /\ \A r \in outbox' : r = n \/ (r \in outbox /\ (r.entry = j => r.status # "pending"))
         /\ \A r \in outbox : r \in outbox' \/ (r.entry = j /\ r.status = "pending")
  <2>1. ASSUME NEW p \in Pending(j),
               outbox' = (outbox \ {p}) \cup {[p EXCEPT !.version = producer[j].version]}
        PROVE  \E n \in outbox' :
                  /\ n.entry = j /\ n.version = producer[j].version /\ n.status = "pending"
                  /\ \A r \in outbox' : r = n \/ (r \in outbox /\ (r.entry = j => r.status # "pending"))
                  /\ \A r \in outbox : r \in outbox' \/ (r.entry = j /\ r.status = "pending")
    <3> DEFINE n == [p EXCEPT !.version = producer[j].version]
    <3>1. p \in outbox /\ p.entry = j /\ p.status = "pending" /\ p \in OutboxRow
      BY DEF Pending, RecordInv, ForwardInv, ShapeInv, OutboxTypeOK
    <3>2. n.entry = j /\ n.version = producer[j].version /\ n.status = "pending"
      BY <3>1 DEF OutboxRow
    <3>3. \A r \in outbox : r # p => (r.entry = j => r.status # "pending")
      BY <3>1 DEF RecordInv, ForwardInv, ShapeInv, RowsShape
    <3>4. outbox' = (outbox \ {p}) \cup {n}
      BY <2>1
    <3> HIDE DEF n
    <3> QED BY <3>1, <3>2, <3>3, <3>4
  <2>2. ASSUME Pending(j) = {},
               outbox' = outbox \cup {[id |-> nextRow, entry |-> j, attempts |-> 0,
                                       version |-> producer[j].version, status |-> "pending"]}
        PROVE  \E n \in outbox' :
                  /\ n.entry = j /\ n.version = producer[j].version /\ n.status = "pending"
                  /\ \A r \in outbox' : r = n \/ (r \in outbox /\ (r.entry = j => r.status # "pending"))
                  /\ \A r \in outbox : r \in outbox' \/ (r.entry = j /\ r.status = "pending")
    <3> DEFINE n == [id |-> nextRow, entry |-> j, attempts |-> 0, version |-> producer[j].version,
                     status |-> "pending"]
    <3>1. n.entry = j /\ n.version = producer[j].version /\ n.status = "pending"
      OBVIOUS
    <3>2. outbox' = outbox \cup {n}
      BY <2>2
    <3> HIDE DEF n
    <3> QED BY <2>2, <3>1, <3>2 DEF Pending
  <2> QED BY <2>1, <2>2, QueueEffect DEF RecordInv, ForwardInv
<1>p. \A k : HasPending(k) \/ k = j => HasPending(k)'
  BY <1>w DEF HasPending
<1>1. \A k \in Entries : OnRecord(k)'
  BY <1>u, <1>t, <1>w, <1>b DEF OnRecord, readerVars
<1>2. ASSUME NEW k \in Entries \ Library PROVE RowsTell(k)'
  <2>1. CASE k = j
    <3>1. producer[j].version = local[j] \/ Told(j)'
      BY <1>u, <2>1 DEF RecordInv, ForwardInv, MovesForward, Told, readerVars
    <3> QED BY <1>u, <1>w, <1>p, <2>1, <3>1 DEF RowsTell, readerVars
  <2>2. CASE k # j
    <3>1. \A r \in outbox' : r.entry = k => r \in outbox
      BY <1>w, <2>2
    <3>2. HasPending(k) => HasPending(k)'
      BY <1>p
    <3> QED BY <1>u, <1>t, <1>b, <2>2, <3>1, <3>2 DEF RowsTell, readerVars
  <2> QED BY <2>1, <2>2
<1>3. HandTells'
  <2>1. CASE drain.pc \in {"project", "clear"}
    <3>1. RowInHand \in outbox /\ RowInHand.status = "inflight" /\ RowInHand.entry \in Entries
      BY <2>1, InHand, RowTypes DEF RecordInv, ForwardInv
    <3>2. RowInHand \in outbox'
      BY <1>w, <3>1
    <3>3. RowInHand' = RowInHand
      BY <1>u, <2>1, <3>2, HandKept DEF RecordInv, ForwardInv
    <3>4. CASE RowInHand.entry = j
      BY <1>u, <1>t, <1>p, <3>3, <3>4 DEF HandTells
    <3>5. CASE RowInHand.entry # j
      BY <1>u, <1>t, <1>p, <1>b, <3>1, <3>3, <3>5 DEF HandTells, readerVars
    <3> QED BY <3>4, <3>5
  <2>2. CASE drain.pc \notin {"project", "clear"}
    BY <1>u, <2>2 DEF HandTells
  <2> QED BY <2>1, <2>2
<1> QED BY <1>1, <1>2, <1>3 DEF Remembers

\* Claiming forgets nothing.
LEMMA RecordClaim ==
  ASSUME RecordInv, ShapeInv', ClaimRows
  PROVE  Remembers'
<1>u. UNCHANGED <<readerVars, producer, space>>
  BY DEF ClaimRows
<1>t. /\ \A k \in Entries : OnRecord(k)
      /\ \A k \in Entries \ Library : RowsTell(k)
  BY <1>u DEF RecordInv, Remembers
<1>b. \A k : Told(k)' <=> Told(k)
  BY <1>u DEF Told, Busy, readerVars
<1>1. PICK due \in SUBSET {r \in outbox : r.status = "pending"} :
            /\ drain' = [pc |-> "put", batch |-> {r.id : r \in due}, row |-> NoRow]
            /\ outbox' = (outbox \ due) \cup {[r EXCEPT !.status = "inflight"] : r \in due}
  BY ClaimEffect DEF RecordInv, ForwardInv
<1>r. \A r \in outbox' : \E q \in outbox :
         /\ r.id = q.id /\ r.entry = q.entry /\ r.version = q.version
         /\ \/ q \in due /\ q.status = "pending" /\ r.status = "inflight" /\ InDrain(r)'
            \/ r = q /\ q \notin due /\ ~ InDrain(r)'
  BY <1>1, ClaimedRows DEF RecordInv, ForwardInv
<1>2. \A r \in outbox' : \E q \in outbox :
         /\ r.entry = q.entry /\ r.version = q.version
         /\ \/ q.status = "pending" /\ r.status = "inflight"
            \/ r = q /\ ~ InDrain(r)'
  BY <1>r
<1>3. \A q \in outbox : \E r \in outbox' : r.entry = q.entry
  BY <1>1, ClaimedRows DEF RecordInv, ForwardInv
<1>4. \A k \in Entries : OnRecord(k)'
  BY <1>u, <1>t, <1>b, <1>3 DEF OnRecord, readerVars
<1>5. \A k \in Entries \ Library : RowsTell(k)'
  BY <1>u, <1>t, <1>b, <1>2 DEF RowsTell, readerVars
<1>6. HandTells'
  BY <1>1 DEF HandTells
<1> QED BY <1>4, <1>5, <1>6 DEF Remembers

\* Nor does carrying a row to the space.
LEMMA RecordCarry ==
  ASSUME RecordInv, ShapeInv',
         \/ VerifyWrite \/ VerifyStill \/ ProjectEntry \/ ProjectFails
         \/ \E r \in outbox : PutRecord(r)
  PROVE  Remembers'
<1>s. ShapeInv /\ drain \in DrainType
  BY DEF RecordInv, ForwardInv, ShapeInv, OutboxTypeOK, DrainType
<1>t. /\ \A k \in Entries : OnRecord(k)
      /\ \A k \in Entries \ Library : RowsTell(k)
      /\ HandTells
  BY DEF RecordInv, Remembers
<1>p. outbox' = outbox /\ UNCHANGED <<producer, removals>> /\ (\A k : HasPending(k)' <=> HasPending(k))
  BY DEF VerifyWrite, VerifyStill, ProjectEntry, ProjectFails, PutRecord, HasPending, readerVars
<1>1. ASSUME NEW h \in outbox, PutRecord(h) PROVE Remembers'
  <2>1. /\ UNCHANGED readerVars /\ InDrain(h) /\ h.entry \in Entries
        /\ space' = space \/ space' = [space EXCEPT ![h.entry] = h.version]
    BY <1>1, <1>s, RowTypes DEF PutRecord, InDrain, ShapeInv, OutboxTypeOK
  <2>2. PICK pc \in {"verify", "still", "park"} :
           drain' = [drain EXCEPT !.pc = pc, !.batch = @ \ {h.id}, !.row = h.id]
    BY <1>1 DEF PutRecord
  <2>3. drain'.pc = pc /\ drain'.batch = drain.batch \ {h.id} /\ drain'.row = h.id
    BY <2>2, <1>s DEF DrainType
  <2>4. \A r \in outbox : InDrain(r)' => InDrain(r)
    BY <2>1, <2>3 DEF InDrain
  <2>5. \A k : Told(k)' <=> Told(k)
    BY <1>p, <2>1 DEF Told, Busy, readerVars
  <2>6. ASSUME NEW k \in Entries PROVE OnRecord(k)'
    <3>1. CASE k = h.entry
      BY <1>p, <3>1 DEF OnRecord
    <3>2. CASE k # h.entry
      <4>1. space'[k] = space[k]
        BY <2>1, <3>2 DEF RecordInv, ForwardInv, ShapeInv, OutboxTypeOK
      <4> QED BY <1>p, <1>t, <2>1, <2>5, <4>1 DEF OnRecord, readerVars
    <3> QED BY <3>1, <3>2
  <2>7. \A k \in Entries \ Library : RowsTell(k)'
    BY <1>p, <1>t, <2>1, <2>4, <2>5 DEF RowsTell, readerVars
  <2>8. HandTells'
    BY <2>3 DEF HandTells
  <2> QED BY <2>6, <2>7, <2>8 DEF Remembers
<1>2. CASE VerifyWrite \/ VerifyStill \/ ProjectFails
  <2>1. /\ UNCHANGED <<readerVars, space>> /\ drain.pc \notin {"off", "put"}
        /\ \/ space[RowInHand.entry] = RowInHand.version /\ drain' = [drain EXCEPT !.pc = "project"]
           \/ drain' = [drain EXCEPT !.pc = "park"]
    BY <1>2 DEF VerifyWrite, VerifyStill, ProjectFails
  <2>2. drain'.batch = drain.batch /\ drain'.row = drain.row /\ drain'.pc \in {"project", "park"}
    BY <2>1, <1>s DEF DrainType
  <2>3. (\A r : InDrain(r)' <=> InDrain(r)) /\ RowInHand' = RowInHand /\ (\A k : Told(k)' <=> Told(k))
    BY <1>p, <2>1, <2>2 DEF InDrain, RowInHand, Told, Busy, readerVars
  <2>4. \A k \in Entries : OnRecord(k)'
    BY <1>p, <1>t, <2>1, <2>3 DEF OnRecord, readerVars
  <2>5. \A k \in Entries \ Library : RowsTell(k)'
    BY <1>p, <1>t, <2>1, <2>3 DEF RowsTell, readerVars
  <2>6. HandTells'
    <3>1. drain'.pc = "project" => space[RowInHand.entry] = RowInHand.version
      BY <2>1, <1>s DEF DrainType
    <3> QED BY <2>1, <2>2, <2>3, <3>1 DEF HandTells
  <2> QED BY <2>4, <2>5, <2>6 DEF Remembers
<1>3. CASE ProjectEntry
  <2> DEFINE h == RowInHand
  <2>1. /\ drain.pc = "project" /\ drain' = [drain EXCEPT !.pc = "clear"] /\ space' = space
        /\ local' = [k \in Entries |-> IF k = h.entry /\ k \in Library THEN h.version ELSE local[k]]
        /\ unqueued' = unqueued \ ({h.entry} \cap Library)
    BY <1>3 DEF ProjectEntry
  <2>2. drain'.batch = drain.batch /\ drain'.row = drain.row /\ drain'.pc = "clear"
    BY <2>1, <1>s DEF DrainType
  <2>3. (\A r : InDrain(r)' <=> InDrain(r)) /\ RowInHand' = RowInHand
    BY <1>p, <2>2 DEF InDrain, RowInHand
  <2>4. h \in outbox /\ InDrain(h) /\ h.entry \in Entries /\ space[h.entry] = h.version
    BY <1>s, <1>t, <2>1, InHand, RowTypes DEF HandTells
  <2>5. \A k \in Entries : k # h.entry \/ k \notin Library => local'[k] = local[k] /\ (Told(k)' <=> Told(k))
    BY <1>p, <2>1 DEF Told, Busy
  <2>6. h.entry \in Library => local'[h.entry] = h.version
    BY <2>1, <2>4
  <2> HIDE DEF h
  <2>7. \A k \in Entries : OnRecord(k)'
    BY <1>p, <1>t, <2>1, <2>4, <2>5 DEF OnRecord
  <2>8. \A k \in Entries \ Library : RowsTell(k)'
    BY <1>p, <1>t, <2>3, <2>5 DEF RowsTell
  <2>9. HandTells'
    <3>1. CASE h.entry \in Library
      BY <2>1, <2>2, <2>3, <2>4, <2>6, <3>1 DEF HandTells, h
    <3>2. CASE h.entry \notin Library
      <4>1. h.version = local[h.entry] \/ Told(h.entry) \/ HasPending(h.entry)
        BY <1>t, <2>4, <3>2 DEF RowsTell
      <4>2. PICK k \in Entries \ Library : k = h.entry
        BY <2>4, <3>2
      <4>3. local'[k] = local[k] /\ (Told(k)' <=> Told(k)) /\ (HasPending(k)' <=> HasPending(k))
        BY <1>p, <2>5
      <4>4. h.version = local'[k] \/ Told(k)' \/ HasPending(k)'
        BY <4>1, <4>2, <4>3
      <4>5. RowInHand' = h /\ h.entry = k /\ space' = space /\ space[k] = h.version
        BY <2>1, <2>3, <2>4, <4>2 DEF h
      <4>6. RowInHand'.entry = k /\ RowInHand'.version = h.version
        BY <4>5
      <4> QED BY <2>2, <4>4, <4>5, <4>6 DEF HandTells
    <3> QED BY <3>1, <3>2
  <2> QED BY <2>7, <2>8, <2>9 DEF Remembers
<1> QED BY <1>1, <1>2, <1>3

\* A row is cleared only when the space has its version.
LEMMA RecordEnd ==
  ASSUME RecordInv, ShapeInv', ClearRow \/ ParkRow \/ DrainDies
  PROVE  Remembers'
<1> DEFINE h == RowInHand
<1>s. ShapeInv
  BY DEF RecordInv, ForwardInv
<1>u. UNCHANGED <<readerVars, producer, space>>
  BY DEF ClearRow, ParkRow, DrainDies
<1>t. /\ \A k \in Entries : OnRecord(k)
      /\ \A k \in Entries \ Library : RowsTell(k)
      /\ HandTells
  BY DEF RecordInv, Remembers
<1>b. \A k : Told(k)' <=> Told(k)
  BY <1>u DEF Told, Busy, readerVars
<1>h. ClearRow \/ ParkRow =>
        h \in outbox /\ InDrain(h) /\ h.status = "inflight" /\ h.entry \in Entries /\ h.id = drain.row
  BY <1>s, InHand, RowTypes DEF ClearRow, ParkRow
<1>i. \A r \in outbox : r.id # NoRow
  BY <1>s, RowTypes, Numbers DEF ShapeInv, OutboxTypeOK
<1>o. ClearRow \/ ParkRow => \A r \in outbox : r.entry = h.entry /\ InDrain(r) => r = h
  BY <1>s, <1>h DEF ShapeInv, DrainShape
<1>d. (ClearRow \/ ParkRow) /\ drain' = Onward =>
                         /\ drain'.batch = drain.batch /\ drain'.row = NoRow
                         /\ drain' = NoDrain \/ drain'.pc = "put"
                         /\ drain.row \notin drain.batch
  BY <1>s, OnwardShape DEF ShapeInv, DrainShape, ClearRow, ParkRow
<1>f. (ClearRow \/ ParkRow) /\ drain' = Onward => HandTells'
  BY <1>d DEF HandTells, NoDrain
<1>1. CASE ClearRow
  <2>1. outbox' = outbox \ {h} /\ drain' = Onward /\ drain.pc = "clear"
    BY <1>1 DEF ClearRow
  <2>2. \A r \in outbox' : InDrain(r)' => InDrain(r) /\ r.entry # h.entry
    BY <1>1, <1>d, <1>i, <1>o, <2>1 DEF InDrain
  <2>3. \A k : HasPending(k) => HasPending(k)'
    BY <1>1, <1>h, <2>1 DEF HasPending
  <2> HIDE DEF h
  <2>4. ASSUME NEW k \in Entries PROVE OnRecord(k)'
    <3>1. CASE k = h.entry
      <4>1. \/ local[k] = space[k] \/ Told(k) \/ HasPending(k)
        BY <1>t, <2>1, <3>1 DEF HandTells, h
      <4>2. HasPending(k)' => \E r \in outbox' : r.entry = k
        BY DEF HasPending
      <4> QED BY <1>u, <1>b, <2>3, <4>1, <4>2 DEF OnRecord, readerVars
    <3>2. CASE k # h.entry
      BY <1>u, <1>b, <1>t, <2>1, <3>2 DEF OnRecord, readerVars
    <3> QED BY <3>1, <3>2
  <2>5. \A k \in Entries \ Library : RowsTell(k)'
    BY <1>u, <1>b, <1>t, <2>1, <2>2, <2>3 DEF RowsTell, readerVars
  <2> QED BY <1>f, <1>1, <2>1, <2>4, <2>5 DEF Remembers
<1>2. ASSUME drain' = NoDrain, outbox' = outbox PROVE Remembers'
  <2>1. \A r \in outbox' : ~ InDrain(r)'
    BY <1>2, <1>i DEF InDrain, NoDrain
  <2>2. HandTells'
    BY <1>2 DEF HandTells, NoDrain
  <2>3. \A k \in Entries : OnRecord(k)'
    BY <1>u, <1>b, <1>t, <1>2 DEF OnRecord, readerVars
  <2>4. \A k \in Entries \ Library : RowsTell(k)'
    BY <1>u, <1>b, <1>t, <1>2, <2>1 DEF RowsTell, readerVars
  <2> QED BY <2>2, <2>3, <2>4 DEF Remembers
<1>3. ASSUME ParkRow, NEW n \in OutboxRow, outbox' = (outbox \ {h}) \cup {n}, drain' = Onward,
             n.id = h.id, n.entry = h.entry, n.version = h.version,
             n.status = "pending" => Pending(h.entry) = {}
      PROVE  Remembers'
  <2>1. \A r \in outbox' : InDrain(r)' => r \in outbox /\ InDrain(r) /\ r.entry # h.entry
    BY <1>3, <1>d, <1>h, <1>i, <1>o DEF InDrain
  <2>2. \A k : HasPending(k) => HasPending(k)'
    BY <1>3, <1>h DEF HasPending
  <2> HIDE DEF h
  <2>3. n.status = "pending" => ~ HasPending(h.entry)
    BY <1>3 DEF HasPending, Pending
  <2>4. \A q \in outbox : \E r \in outbox' : r.entry = q.entry
    BY <1>3
  <2>5. \A k \in Entries : OnRecord(k)'
    BY <1>u, <1>b, <1>t, <2>4 DEF OnRecord, readerVars
  <2>6. ASSUME NEW k \in Entries \ Library PROVE RowsTell(k)'
    <3>1. k = h.entry /\ n.status = "pending" => n.version = local[k] \/ Told(k)
      BY <1>3, <1>h, <1>t, <2>3 DEF RowsTell
    <3>2. \A r \in outbox' : r \in outbox \/ r = n
      BY <1>3
    <3>3. \A r \in outbox' : r.entry = k /\ r.status = "pending" => r.version = local[k] \/ Told(k)
      BY <1>3, <1>t, <3>1, <3>2 DEF RowsTell
    <3>4. \A r \in outbox' : r.entry = k /\ InDrain(r)' => r.version = local[k] \/ Told(k) \/ HasPending(k)
      BY <1>t, <2>1 DEF RowsTell
    <3> QED BY <1>u, <1>b, <2>2, <3>3, <3>4 DEF RowsTell, readerVars
  <2> QED BY <1>f, <1>3, <2>5, <2>6 DEF Remembers
<1>4. CASE DrainDies
  <2>1. drain' = NoDrain /\ outbox' = outbox
    BY <1>4 DEF DrainDies
  <2> QED BY <1>2, <2>1
<1> QED BY <1>s, <1>1, <1>2, <1>3, <1>4, ParkEffect

\* So nothing is forgotten by a step.
LEMMA RecordStep == RecordInv /\ [OutboxNext]_outboxVars => RecordInv'
<1> SUFFICES ASSUME RecordInv, [OutboxNext]_outboxVars PROVE RecordInv'
  OBVIOUS
<1>1. ForwardInv' /\ ShapeInv'
  BY ForwardStep DEF RecordInv, ForwardInv
<1>2. CASE UNCHANGED outboxVars
  <2>1. UNCHANGED <<outbox, drain, local, removals, unqueued, space, producer>>
    BY <1>2 DEF outboxVars, readerVars
  <2>2. RowInHand' = RowInHand
    BY <2>1 DEF RowInHand
  <2>3. Remembers'
    BY <2>1, <2>2 DEF RecordInv, Remembers, OnRecord, RowsTell, HandTells, Told, Busy, HasPending,
         InDrain
  <2> QED BY <1>1, <2>3 DEF RecordInv
<1>3. CASE OutboxNext
  <2>1. Remembers'
    BY <1>1, <1>3, RecordTasks, RecordQueue, RecordClaim, RecordCarry, RecordEnd
       DEF OutboxNext, TaskSteps, DrainSteps
  <2> QED BY <1>1, <2>1 DEF RecordInv
<1> QED BY <1>2, <1>3

\* What the space lacks has a row or a task, unless nobody queued it.
THEOREM NothingForgottenAlways == OutboxSpec => []NothingForgotten
<1>1. OutboxInit => RecordInv
  <2>1. OutboxInit => Remembers
    BY DEF OutboxInit, Remembers, OnRecord, RowsTell, HandTells, NoDrain
  <2> QED BY <2>1, ForwardInit DEF RecordInv
<1>2. RecordInv => NothingForgotten
  BY DEF RecordInv, Remembers, OnRecord, NothingForgotten, RowsOf, Told, Busy, NoTask
<1> QED BY <1>1, <1>2, RecordStep, PTL DEF OutboxSpec

=============================================================================
