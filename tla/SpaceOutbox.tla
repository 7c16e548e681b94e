------------------------------ MODULE SpaceOutbox ------------------------------
(***************************************************************************)
(* The writes Anthers owes a reader's own space: a request changes a row   *)
(* and queues the change (services/reader-state-migration.ts), a drain     *)
(* claims due rows, puts each into the space, reads it back, projects it   *)
(* onto the read model and deletes the row, or parks it for another try    *)
(* (services/space-outbox.ts, space-writer.ts, space-projection.ts).       *)
(*                                                                         *)
(* An entry is its version: the edits of the model are numbered, and some  *)
(* are removals.  Not every edit is queued: a purchase writes a row of the *)
(* Library, and the deletion of a Work, a project or a post removes rows,  *)
(* without a word to the outbox.  The drain's job is scheduled every       *)
(* minute, one at a time; a process that dies leaves its rows as they are. *)
(* The requests of one entry queue in the order they came.                 *)
(***************************************************************************)
EXTENDS Integers, FiniteSets

CONSTANTS
    Entries,     \* (collection, rkey) of one account
    Library,     \* those of the Library, which are projected back
    MaxAttempts, \* failures before a row is parked for good
    MaxChanges,  \* bound: edits of the entries
    MaxQueued,   \* bound: rows ever inserted
    MaxStops,    \* bound: processes that die half-way
    MaxFaults    \* bound: calls to the PDS that fail or whose answer is lost

Versions == 0..MaxChanges
RowIds == 1..MaxQueued
NoRow == 0

ASSUME SpaceOutboxAssumption ==
    /\ Library \subseteq Entries
    /\ MaxAttempts \in Nat \ {0}
    /\ MaxChanges \in Nat /\ MaxQueued \in Nat /\ MaxStops \in Nat /\ MaxFaults \in Nat

VARIABLES
    local,       \* the version of each entry in Anthers' own tables
    removals,    \* the versions that are removals
    changes,
    gone,        \* the entries whose Work, project or post was deleted
    unqueued,    \* the entries whose last edit nobody queued, or will (history)
    producer,    \* the fire-and-forget task of each entry's last request
    outbox,      \* the rows of space_outbox
    nextRow,
    drain,
    space,       \* the version of each entry in the reader's space
    left,        \* rows in flight that a drain left when it ended early (history)
    stops, faults

outboxCounts == <<stops, faults, left>>
editVars == <<local, removals, changes, gone>>
readerVars == <<local, removals, changes, gone, unqueued>>
outboxVars == <<readerVars, producer, outbox, nextRow, drain, space, outboxCounts>>

NoTask == [stage |-> "none", version |-> 0]
NoDrain == [pc |-> "off", batch |-> {}, row |-> NoRow]

OutboxInit ==
    /\ local = [k \in Entries |-> 0] /\ space = [k \in Entries |-> 0]
    /\ removals \in {{}, {0}} /\ changes = 0 /\ gone = {} /\ unqueued = {}
    /\ producer = [k \in Entries |-> NoTask]
    /\ outbox = {} /\ nextRow = 1
    /\ drain = NoDrain /\ left = {}
    /\ stops = 0 /\ faults = 0
-----------------------------------------------------------------------------
Pending(k) == {r \in outbox : r.entry = k /\ r.status = "pending"}

\* Anthers has no row of the entry.
Absent(k) == local[k] \in removals

RowInHand == CHOOSE r \in outbox : r.id = drain.row

\* What the drain claimed and has not done with.
Held == drain.batch \cup {drain.row}

\* rows take the place of those of the same id.
Updated(rows) == {r \in outbox : \A q \in rows : q.id # r.id} \cup rows

-----------------------------------------------------------------------------
(* The reader's requests and their tasks.                                  *)

Tasks == {k \in Entries : producer[k] # NoTask}

\* The row is written, or removed if there is one, and the answer sent, before anything
\* is queued.
ChangeEntry(k) ==
    /\ changes < MaxChanges /\ producer[k] = NoTask /\ k \notin gone
    /\ nextRow + Cardinality(Tasks) <= MaxQueued
    /\ changes' = changes + 1
    /\ local' = [local EXCEPT ![k] = changes + 1]
    /\ \/ /\ producer' = [producer EXCEPT ![k] = [stage |-> "read", version |-> 0]]
          /\ UNCHANGED removals
       \/ /\ ~ Absent(k)
          /\ producer' = [producer EXCEPT ![k] = [stage |-> "queue", version |-> changes + 1]]
          /\ removals' = removals \cup {changes + 1}
    /\ unqueued' = unqueued \ {k}
    /\ UNCHANGED <<gone, outbox, nextRow, drain, space, outboxCounts>>

\* saveOnPurchase: what was bought is in the Library, unless it was there, and nothing
\* is queued.
SaveOnPurchase(k) ==
    /\ changes < MaxChanges /\ k \in Library \ gone /\ Absent(k)
    /\ changes' = changes + 1
    /\ local' = [local EXCEPT ![k] = changes + 1]
    /\ unqueued' = unqueued \cup {k}
    /\ UNCHANGED <<removals, gone, producer, outbox, nextRow, drain, space, outboxCounts>>

\* The foreign keys cascade: the reader's row goes with its subject, and nothing is queued.
SubjectDeleted(k) ==
    /\ changes < MaxChanges /\ k \notin gone
    /\ gone' = gone \cup {k}
    /\ IF Absent(k)
       THEN UNCHANGED <<local, removals, changes, unqueued>>
       ELSE /\ changes' = changes + 1
            /\ local' = [local EXCEPT ![k] = changes + 1]
            /\ removals' = removals \cup {changes + 1}
            /\ unqueued' = unqueued \cup {k}
    /\ UNCHANGED <<producer, outbox, nextRow, drain, space, outboxCounts>>

\* queueLibraryEntry, queuePosition, queueWorkSave: the row is read again, as it is by
\* now, and a row that is gone queues nothing.
ReadEntry(k) ==
    /\ producer[k].stage = "read"
    /\ IF Absent(k)
       THEN producer' = [producer EXCEPT ![k] = NoTask] /\ UNCHANGED unqueued
       ELSE /\ producer' = [producer EXCEPT ![k] = [stage |-> "queue", version |-> local[k]]]
            /\ unqueued' = unqueued \ {k}
    /\ UNCHANGED <<editVars, outbox, nextRow, drain, space, outboxCounts>>

\* queueSpaceWrite: the pending row of the entry takes the new payload, or one is
\* inserted beside a row in flight.
QueueWrite(k) ==
    /\ producer[k].stage = "queue"
    /\ \/ /\ Pending(k) # {}
          /\ outbox' = Updated({[r EXCEPT !.version = producer[k].version] : r \in Pending(k)})
          /\ UNCHANGED nextRow
       \/ /\ Pending(k) = {} /\ nextRow <= MaxQueued
          /\ outbox' = outbox \cup {[id |-> nextRow, entry |-> k, attempts |-> 0,
                                     version |-> producer[k].version, status |-> "pending"]}
          /\ nextRow' = nextRow + 1
    /\ producer' = [producer EXCEPT ![k] = NoTask]
    /\ UNCHANGED <<readerVars, drain, space, outboxCounts>>

\* The process dies, or the task's query fails, which is logged (queueReaderWrite).
TaskDies(k) ==
    /\ producer[k] # NoTask /\ stops < MaxStops
    /\ producer' = [producer EXCEPT ![k] = NoTask] /\ stops' = stops + 1
    /\ unqueued' = unqueued \cup {k}
    /\ UNCHANGED <<editVars, outbox, nextRow, drain, space, faults, left>>

-----------------------------------------------------------------------------
(* The drain.                                                              *)

\* claimRows: some of the pending rows are due, the others wait for their backoff.
ClaimRows ==
    /\ drain = NoDrain
    /\ \E due \in (SUBSET {r \in outbox : r.status = "pending"}) \ {{}} :
          /\ outbox' = Updated({[r EXCEPT !.status = "inflight"] : r \in due})
          /\ drain' = [pc |-> "put", batch |-> {r.id : r \in due}, row |-> NoRow]
    /\ UNCHANGED <<readerVars, producer, nextRow, space, outboxCounts>>

\* The space is left as it was by the put of a record it has or the removal of one it has not.
Same(v, w) == v = w \/ {v, w} \subseteq removals

\* carryOut, up to the put or the delete: it lands and is answered, it lands and the
\* answer is lost, or it does not land.  A server may answer a write that changes
\* nothing without a commit.
PutRecord(r) ==
    /\ drain.pc = "put" /\ r.id \in drain.batch
    /\ \/ /\ space' = [space EXCEPT ![r.entry] = r.version]
          /\ \E pc \in IF Same(space[r.entry], r.version) THEN {"verify", "still"} ELSE {"verify"} :
                drain' = [drain EXCEPT !.pc = pc, !.batch = @ \ {r.id}, !.row = r.id]
          /\ UNCHANGED faults
       \/ /\ faults < MaxFaults /\ faults' = faults + 1
          /\ space' \in {space, [space EXCEPT ![r.entry] = r.version]}
          /\ drain' = [drain EXCEPT !.pc = "park", !.batch = @ \ {r.id}, !.row = r.id]
    /\ UNCHANGED <<readerVars, producer, outbox, nextRow, stops, left>>

\* verifySpaceWrite: what is read back is what was sent, the commit has moved on and the
\* log names the write.  Any of the three calls may fail.
VerifyWrite ==
    /\ drain.pc = "verify"
    /\ \/ /\ space[RowInHand.entry] = RowInHand.version
          /\ drain' = [drain EXCEPT !.pc = "project"]
          /\ UNCHANGED faults
       \/ /\ faults < MaxFaults /\ faults' = faults + 1
          /\ drain' = [drain EXCEPT !.pc = "park"]
    /\ UNCHANGED <<readerVars, producer, outbox, nextRow, space, stops, left>>

\* "commit did not advance", though the space has the record.
VerifyStill ==
    /\ drain.pc = "still"
    /\ drain' = [drain EXCEPT !.pc = "park"]
    /\ UNCHANGED <<readerVars, producer, outbox, nextRow, space, outboxCounts>>

\* projectLibraryItem does not bring back what was deleted from Anthers.
Unprojectable(r) == r.entry \in Library \cap gone /\ r.version \notin removals

\* projectLibraryItem and removeProjectedLibraryItem write the record over whatever the
\* row says by now.
ProjectEntry ==
    /\ drain.pc = "project" /\ ~ Unprojectable(RowInHand)
    /\ local' = [k \in Entries |->
           IF k = RowInHand.entry /\ k \in Library THEN RowInHand.version ELSE local[k]]
    /\ unqueued' = unqueued \ ({RowInHand.entry} \cap Library)
    /\ drain' = [drain EXCEPT !.pc = "clear"]
    /\ UNCHANGED <<removals, changes, gone, producer, outbox, nextRow, space, outboxCounts>>

\* Its problem is an error of the row, though the space has the record.
ProjectFails ==
    /\ drain.pc = "project" /\ Unprojectable(RowInHand)
    /\ drain' = [drain EXCEPT !.pc = "park"]
    /\ UNCHANGED <<readerVars, producer, outbox, nextRow, space, outboxCounts>>

\* Mutated form of Onward: one row a run.
Homeward == NoDrain

\* The next row of the batch, or the end of the run.
Onward == IF drain.batch = {} THEN NoDrain ELSE [drain EXCEPT !.pc = "put", !.row = NoRow]

\* Mutated form of ClearRow: by entry, not by row.
ClearEntry ==
    /\ drain.pc = "clear"
    /\ outbox' = {r \in outbox : r.entry # RowInHand.entry}
    /\ drain' = Onward
    /\ UNCHANGED <<readerVars, producer, nextRow, space, outboxCounts>>

ClearRow ==
    /\ drain.pc = "clear"
    /\ outbox' = outbox \ {RowInHand}
    /\ drain' = Onward
    /\ UNCHANGED <<readerVars, producer, nextRow, space, outboxCounts>>

\* Mutated form of ParkRow: without the pending index.
ParkBeside ==
    LET tried == RowInHand.attempts + 1
        status == IF tried >= MaxAttempts THEN "failed" ELSE "pending"
    IN  /\ drain.pc = "park"
        /\ outbox' = Updated({[RowInHand EXCEPT !.attempts = tried, !.status = status]})
        /\ drain' = Onward
        /\ UNCHANGED <<readerVars, producer, nextRow, space, outboxCounts>>

\* park: back to pending or, after the last attempt, failed.  A second pending row for
\* the entry breaks uq_space_outbox_pending: the update throws out of the drain, and
\* the row and the rest of the batch stay in flight.
ParkRow ==
    LET tried == RowInHand.attempts + 1
        status == IF tried >= MaxAttempts THEN "failed" ELSE "pending"
    IN  /\ drain.pc = "park"
        /\ IF status = "pending" /\ Pending(RowInHand.entry) # {}
           THEN drain' = NoDrain /\ left' = left \cup Held /\ UNCHANGED outbox
           ELSE /\ outbox' = Updated({[RowInHand EXCEPT !.attempts = tried, !.status = status]})
                /\ drain' = Onward /\ UNCHANGED left
        /\ UNCHANGED <<readerVars, producer, nextRow, space, stops, faults>>

DrainDies ==
    /\ drain # NoDrain /\ stops < MaxStops
    /\ drain' = NoDrain /\ left' = left \cup Held /\ stops' = stops + 1
    /\ UNCHANGED <<readerVars, producer, outbox, nextRow, space, faults>>

-----------------------------------------------------------------------------
TaskSteps(k) == ReadEntry(k) \/ QueueWrite(k)

DrainSteps ==
    \/ ClaimRows \/ VerifyWrite \/ VerifyStill \/ ProjectEntry \/ ProjectFails
    \/ ClearRow \/ ParkRow
    \/ \E r \in outbox : PutRecord(r)

OutboxNext ==
    \/ \E k \in Entries :
          \/ ChangeEntry(k) \/ TaskSteps(k) \/ TaskDies(k)
          \/ SaveOnPurchase(k) \/ SubjectDeleted(k)
    \/ DrainSteps \/ DrainDies

OutboxSpec == OutboxInit /\ [][OutboxNext]_outboxVars
-----------------------------------------------------------------------------
(* Properties.                                                             *)

OutboxRow == [id : RowIds, entry : Entries, version : Versions, attempts : 0..MaxAttempts,
              status : {"pending", "inflight", "failed"}]

OutboxTypeOK ==
    /\ local \in [Entries -> Versions] /\ space \in [Entries -> Versions]
    /\ removals \subseteq Versions /\ changes \in Versions
    /\ gone \subseteq Entries /\ unqueued \subseteq Entries
    /\ producer \in [Entries -> [stage : {"none", "read", "queue"}, version : Versions]]
    /\ outbox \subseteq OutboxRow /\ nextRow \in 1..(MaxQueued + 1)
    /\ \A r, q \in outbox : r.id = q.id => r = q
    /\ drain \in [pc : {"off", "put", "verify", "still", "project", "clear", "park"},
                  batch : SUBSET RowIds, row : RowIds \cup {NoRow}]
    /\ left \subseteq RowIds \cup {NoRow}
    /\ stops \in 0..MaxStops /\ faults \in 0..MaxFaults

RowsOf(k) == {r \in outbox : r.entry = k}

\* A space that differs from Anthers' own row has a row of the outbox or a task that says
\* so, whoever dies, whatever fails and whatever is deleted: a row is deleted only once its
\* record was read back and projected.  Beside it there are the edits nobody queued, the
\* only ones: a purchase's, a cascade's, and that of a request whose task did not live.
NothingForgotten ==
    \A k \in Entries :
        local[k] = space[k] \/ RowsOf(k) # {} \/ producer[k] # NoTask \/ k \in unqueued

\* "Last write wins": no older version of a reading position or a cloud save lands on
\* a newer.  A row that failed meets the pending one of a later change and is not tried
\* again.  Not so in the Library: a record projected between the request's write and
\* its task's read takes the request's place.
SpaceMovesForward == [][\A k \in Entries \ Library : space'[k] >= space[k]]_outboxVars

\* Given up after the last attempt, or left in flight by a drain that died or met the
\* pending index: claimRows takes pending rows only.
Stranded(k) == \E r \in RowsOf(k) :
    r.status = "failed" \/ (r.status = "inflight" /\ r.id \in left)

\* What Anthers holds reaches the space, unless nobody queued it or its row was stranded.
SpaceCatchesUp ==
    []<>(\A k \in Entries : local[k] = space[k] \/ Stranded(k) \/ k \in unqueued)
=============================================================================
