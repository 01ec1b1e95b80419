-------------------------- MODULE EntityProjection --------------------------
(***************************************************************************)
(* The AI Search index kept behind the entity snapshots of ontology-store. *)
(* A writer saves a snapshot and then schedules a row of reindex_queue; a  *)
(* drain (the worker's cron, or an operator) pulls the rows that are due,  *)
(* loads each row's snapshot, uploads it and deletes the row, or counts a  *)
(* failed attempt and moves a row that failed three times to the dead      *)
(* letters.  Each D1 statement or batch and each upload is one step; the   *)
(* rows of a drain, and drains, run side by side.                          *)
(*                                                                         *)
(* A payload is its version: how often the snapshot was saved.  Time is    *)
(* kept relative to now, in ticks of a second: a row waits for its         *)
(* next_attempt_at, and is open while its coalescing bucket is current.    *)
(***************************************************************************)
EXTENDS Naturals, FiniteSets

CONSTANTS
  Entities,   \* iris, each of one entity type
  Drains,     \* drains that may run at a time
  Limit,      \* Limit[d]: rows that drain d takes at most
  Concurrency, \* Concurrency[d]: rows of them that it works on at a time
  Requests,   \* what a writer may ask of schedule()
  Window,     \* ticks of a coalescing window (COALESCE_WINDOW_MS)
  MaxVersion, \* bound: saves of one snapshot
  FaultKinds, \* the faults a behaviour may have: "writer", "drain", "write"
  MaxFaults   \* bound: the number of faults in a behaviour

ASSUME ProjectionAssumption ==
  /\ Window \in Nat \ {0}
  /\ Limit \in [Drains -> Nat \ {0}]
  /\ Concurrency \in [Drains -> Nat \ {0}]
  /\ MaxVersion \in Nat
  /\ MaxFaults \in Nat
  /\ Requests \subseteq [cause : STRING, priority : Nat, depth : Nat, delay : Nat]

VARIABLES
  snapshot,   \* snapshot[e]: version in entity_snapshots, 0 before the first
  saved,      \* writers between snapshots.save and queue.schedule
  queue,      \* rows of reindex_queue
  dead,       \* rows of reindex_queue_dlq, reduced to whose they are
  tasks,      \* rows in the hands of a drain
  index,      \* index[e]: version AI Search holds
  reached,    \* reached[e]: newest version ever uploaded
  issued,     \* queue ids handed out
  left,       \* ticks left of the current coalescing window
  faults      \* faults so far

vars == <<snapshot, saved, queue, dead, tasks, index, reached, issued, left, faults>>

MaxDepth == 1     \* REINDEX_MAX_PROPAGATION_DEPTH
MaxAttempts == 3

(* Seconds to wait after a failure. *)
Backoff(attempts) == CASE attempts = 1 -> 1 [] attempts = 2 -> 2 [] OTHER -> 4

(* merged, asked: the requests a row answers, and the version of the first. *)
Row == [id : Nat, entity : Entities, open : BOOLEAN, cause : {q.cause : q \in Requests},
        priority : Nat, depth : Nat, attempts : 0..MaxAttempts, wait : Nat,
        asked : 1..MaxVersion, merged : SUBSET Requests]

TaskPhases == {"pulled", "loaded", "uploaded", "failing", "burying"}

WorkItem == [drain : Drains, id : Nat, entity : Entities, at : TaskPhases,
             version : 0..MaxVersion]
Letter == [id : Nat, entity : Entities]

Fault(kind) ==
  /\ kind \in FaultKinds
  /\ faults < MaxFaults
  /\ faults' = faults + 1

-----------------------------------------------------------------------------
(***************************************************************************)
(* Writers                                                                 *)
(***************************************************************************)
NewRow(e, q, v) ==
  [id |-> issued + 1, entity |-> e, open |-> TRUE, cause |-> q.cause, priority |-> q.priority,
   depth |-> q.depth, attempts |-> 0, wait |-> q.delay, asked |-> v, merged |-> {q}]

(* Mutant: the row keeps the first request's cause, priority and depth. *)
FirstRequestWins(row, q) ==
  [row EXCEPT !.wait = IF q.delay < @ THEN q.delay ELSE @, !.attempts = 0,
              !.merged = @ \cup {q}]

(* REINDEX_QUEUE_UPSERT_SET_CLAUSE. *)
Coalesced(row, q) ==
  [row EXCEPT !.depth = IF q.depth > @ THEN q.depth ELSE @,
              !.priority = IF q.priority > @ THEN q.priority ELSE @,
              !.cause = IF q.priority >= row.priority THEN q.cause ELSE @,
              !.wait = IF q.delay < @ THEN q.delay ELSE @,
              !.attempts = 0,
              !.merged = @ \cup {q}]

(* INSERT ... ON CONFLICT(coalesce_key): entity and bucket are the key. *)
Upsert(e, q, v) ==
  LET same == {row \in queue : row.entity = e /\ row.open}
  IN  IF same = {}
        THEN queue' = queue \cup {NewRow(e, q, v)} /\ issued' = issued + 1
        ELSE /\ queue' = (queue \ same) \cup {Coalesced(row, q) : row \in same}
             /\ UNCHANGED issued

(* snapshots.save: the entity and its snapshot in one batch. *)
Save(e, q) ==
  /\ snapshot[e] < MaxVersion
  /\ snapshot' = [snapshot EXCEPT ![e] = @ + 1]
  /\ saved' = saved \cup {[entity |-> e, version |-> snapshot[e] + 1, request |-> q]}
  /\ UNCHANGED <<queue, dead, tasks, index, reached, issued, left, faults>>

(* schedule() after the save; it refuses what is too deep. *)
Schedule(w) ==
  /\ saved' = saved \ {w}
  /\ IF w.request.depth > MaxDepth
       THEN UNCHANGED <<queue, issued>>
       ELSE Upsert(w.entity, w.request, w.version)
  /\ UNCHANGED <<snapshot, dead, tasks, index, reached, left, faults>>

(* The post backfill saves and schedules in one batch. *)
SaveAndSchedule(e, q) ==
  /\ q.depth = 0 /\ q.priority = 0 /\ q.delay = 0
  /\ snapshot[e] < MaxVersion
  /\ snapshot' = [snapshot EXCEPT ![e] = @ + 1]
  /\ Upsert(e, q, snapshot[e] + 1)
  /\ UNCHANGED <<saved, dead, tasks, index, reached, left, faults>>

(* The worker dies, or the insert fails, after the save. *)
WriterDies(w) ==
  /\ saved' = saved \ {w}
  /\ Fault("writer")
  /\ UNCHANGED <<snapshot, queue, dead, tasks, index, reached, issued, left>>

-----------------------------------------------------------------------------
(***************************************************************************)
(* Drains                                                                  *)
(***************************************************************************)
(* Mutant: a row is given up one attempt before it is buried. *)
DueEarly == {row \in queue : row.wait = 0 /\ row.attempts + 1 < MaxAttempts}

Due == {row \in queue : row.wait = 0 /\ row.attempts < MaxAttempts}

(* nextBatch takes as many of the due rows as the limit allows; which ones *)
(* it takes first is left open.                                            *)
Batches(d) ==
  {batch \in SUBSET Due : \/ batch = Due /\ Cardinality(Due) <= Limit[d]
                          \/ Cardinality(batch) = Limit[d]}

DrainNext(d) ==
  /\ \A t \in tasks : t.drain # d
  /\ Due # {}
  /\ \E batch \in Batches(d) :
       tasks' = tasks \cup {[drain |-> d, id |-> row.id, entity |-> row.entity,
                             at |-> "pulled", version |-> 0] : row \in batch}
  /\ UNCHANGED <<snapshot, saved, queue, dead, index, reached, issued, left, faults>>

Move(t, next) == tasks' = (tasks \ {t}) \cup {next}

(* Effect.forEach with a concurrency: a row starts when another has ended. *)
MayStart(t) ==
  Cardinality({o \in tasks : o.drain = t.drain /\ o.at # "pulled"}) < Concurrency[t.drain]

Load(t) ==
  /\ t.at = "pulled"
  /\ MayStart(t)
  /\ Move(t, [t EXCEPT !.at = "loaded", !.version = snapshot[t.entity]])
  /\ UNCHANGED <<snapshot, saved, queue, dead, index, reached, issued, left, faults>>

(* The upload, after which its reply may still be lost. *)
Upload(t) ==
  /\ t.at = "loaded"
  /\ index' = [index EXCEPT ![t.entity] = t.version]
  /\ reached' = [reached EXCEPT ![t.entity] = IF t.version > @ THEN t.version ELSE @]
  /\ \E next \in {"uploaded", "failing"} : Move(t, [t EXCEPT !.at = next])
  /\ UNCHANGED <<snapshot, saved, queue, dead, issued, left, faults>>

(* The snapshot cannot be read or rendered, or the upload is refused. *)
ProjectFails(t) ==
  /\ \/ t.at = "pulled" /\ MayStart(t)
     \/ t.at = "loaded"
  /\ Move(t, [t EXCEPT !.at = "failing"])
  /\ UNCHANGED <<snapshot, saved, queue, dead, index, reached, issued, left, faults>>

(* Mutant: the row is deleted without waiting for the upload. *)
CompleteUnanswered(t) ==
  /\ t.at \in {"loaded", "uploaded"}
  /\ queue' = {row \in queue : row.id # t.id}
  /\ tasks' = tasks \ {t}
  /\ UNCHANGED <<snapshot, saved, dead, index, reached, issued, left, faults>>

(* DELETE ... WHERE queue_id, whatever was coalesced into the row since. *)
MarkComplete(t) ==
  /\ t.at = "uploaded"
  /\ queue' = {row \in queue : row.id # t.id}
  /\ tasks' = tasks \ {t}
  /\ UNCHANGED <<snapshot, saved, dead, index, reached, issued, left, faults>>

CompleteFails(t) ==
  /\ t.at = "uploaded"
  /\ Move(t, [t EXCEPT !.at = "failing"])
  /\ Fault("write")
  /\ UNCHANGED <<snapshot, saved, queue, dead, index, reached, issued, left>>

(* The UPDATE of markFailed on one row. *)
FailedOnce(row) ==
  [row EXCEPT !.attempts = @ + 1,
              !.wait = IF row.attempts + 1 >= MaxAttempts THEN @ ELSE Backoff(row.attempts + 1)]

(* Mutant: a spent row may fail again. *)
FailSpent(t) ==
  /\ t.at = "failing"
  /\ LET hit == {row \in queue : row.id = t.id}
         now == {FailedOnce(row) : row \in hit}
         spent == {row \in now : row.attempts >= MaxAttempts}
     IN  /\ queue' = (queue \ hit) \cup now
         /\ tasks' = (tasks \ {t}) \cup {[t EXCEPT !.at = "burying"] : row \in spent}
  /\ UNCHANGED <<snapshot, saved, dead, index, reached, issued, left, faults>>

(* Mutant: the third failure only marks the row. *)
FailUnburied(t) ==
  /\ t.at = "failing"
  /\ LET hit == {row \in queue : row.id = t.id /\ row.attempts < MaxAttempts}
     IN  queue' = (queue \ hit) \cup {FailedOnce(row) : row \in hit}
  /\ tasks' = tasks \ {t}
  /\ UNCHANGED <<snapshot, saved, dead, index, reached, issued, left, faults>>

MarkFailed(t) ==
  /\ t.at = "failing"
  /\ LET hit == {row \in queue : row.id = t.id /\ row.attempts < MaxAttempts}
         now == {FailedOnce(row) : row \in hit}
         spent == {row \in now : row.attempts = MaxAttempts}
     IN  /\ queue' = (queue \ hit) \cup now
         /\ tasks' = (tasks \ {t}) \cup {[t EXCEPT !.at = "burying"] : row \in spent}
  /\ UNCHANGED <<snapshot, saved, dead, index, reached, issued, left, faults>>

(* Mutant: the dead letter is written, the row stays. *)
BuryCopy(t) ==
  /\ t.at = "burying"
  /\ dead' = dead \cup {[id |-> t.id, entity |-> t.entity]}
  /\ tasks' = tasks \ {t}
  /\ UNCHANGED <<snapshot, saved, queue, index, reached, issued, left, faults>>

(* moveToDlqWithD1Batch: insert and delete in one batch. *)
Bury(t) ==
  /\ t.at = "burying"
  /\ dead' = dead \cup {[id |-> t.id, entity |-> t.entity]}
  /\ queue' = {row \in queue : row.id # t.id}
  /\ tasks' = tasks \ {t}
  /\ UNCHANGED <<snapshot, saved, index, reached, issued, left, faults>>

(* The worker is evicted, or a write of markFailed fails: either ends the *)
(* whole drain, the rows it works on beside this one included.            *)
DrainDies(d) ==
  /\ \E t \in tasks : t.drain = d
  /\ tasks' = {t \in tasks : t.drain # d}
  /\ Fault("drain")
  /\ UNCHANGED <<snapshot, saved, queue, dead, index, reached, issued, left>>

TaskStep(t) ==
  \/ Load(t) \/ Upload(t) \/ ProjectFails(t)
  \/ MarkComplete(t) \/ MarkFailed(t) \/ Bury(t)

-----------------------------------------------------------------------------
(* A second passes; at the end of a window its rows stop taking requests. *)
Tick ==
  /\ left' = IF left = 1 THEN Window ELSE left - 1
  /\ queue' = {[row EXCEPT !.wait = IF @ = 0 THEN 0 ELSE @ - 1,
                           !.open = @ /\ left # 1] : row \in queue}
  /\ UNCHANGED <<snapshot, saved, dead, tasks, index, reached, issued, faults>>

Init ==
  /\ snapshot = [e \in Entities |-> 0]
  /\ saved = {} /\ queue = {} /\ dead = {} /\ tasks = {}
  /\ index = [e \in Entities |-> 0]
  /\ reached = [e \in Entities |-> 0]
  /\ issued = 0 /\ left = Window /\ faults = 0

WriterStep ==
  \/ \E e \in Entities, q \in Requests : Save(e, q) \/ SaveAndSchedule(e, q)
  \/ \E w \in saved : Schedule(w) \/ WriterDies(w)

DrainStep(d) ==
  \/ DrainNext(d) \/ DrainDies(d)
  \/ \E t \in tasks : t.drain = d /\ (TaskStep(t) \/ CompleteFails(t))

Next == WriterStep \/ (\E d \in Drains : DrainStep(d)) \/ Tick

Spec == Init /\ [][Next]_vars

(* Time passes, the cron keeps draining, and each row of a drain gets its *)
(* answer: every request has a timeout.                                   *)
Fairness ==
  /\ WF_vars(Tick)
  /\ WF_vars(\E w \in saved : Schedule(w))
  /\ \A d \in Drains :
       WF_vars(DrainNext(d)) /\ WF_vars(\E t \in tasks : t.drain = d /\ TaskStep(t))

FairSpec == Spec /\ Fairness
-----------------------------------------------------------------------------
(***************************************************************************)
(* Properties                                                              *)
(***************************************************************************)
(* Every table, every row of a drain and the index have their types, and a *)
(* row that waits for another attempt has failed less than three times.    *)
TypeOK ==
  /\ snapshot \in [Entities -> 0..MaxVersion]
  /\ saved \subseteq [entity : Entities, version : 1..MaxVersion, request : Requests]
  /\ queue \subseteq Row
  /\ dead \subseteq Letter
  /\ tasks \subseteq WorkItem
  /\ index \in [Entities -> 0..MaxVersion]
  /\ reached \in [Entities -> 0..MaxVersion]
  /\ issued \in Nat /\ left \in 1..Window /\ faults \in 0..MaxFaults

(* A request is answered by one row: no two rows share an id or take the   *)
(* requests of one entity, and a dead letter is not in the queue as well,  *)
(* however two drains and the writers meet on it.                          *)
OneRowPerKey ==
  /\ \A row, other \in queue :
       row.id = other.id \/ (row.entity = other.entity /\ row.open /\ other.open) => row = other
  /\ \A row \in queue, letter \in dead : row.id # letter.id

(* "The queue never silently keeps weaker work just because it arrived     *)
(* first": a row is at least as urgent and as deep as all it answers, and  *)
(* carries the cause of one of the most urgent.                            *)
NoWeakerWork ==
  \A row \in queue :
    /\ \A q \in row.merged : q.priority <= row.priority /\ q.depth <= row.depth
    /\ \E q \in row.merged : q.priority = row.priority /\ q.cause = row.cause

Stranded(row) == row.attempts = MaxAttempts /\ \A t \in tasks : t.at = "burying" => t.id # row.id

(* nextBatch skips a row that failed three times, so somebody must be      *)
(* moving it to the dead letters; only a drain cut short leaves it behind. *)
SpentIsBuried == (\E row \in queue : Stranded(row)) => faults > 0

(* A row leaves the queue only once the index has held what it was written *)
(* for, or as a dead letter: markComplete may delete a row that another    *)
(* drain, or a later request, changed since it was pulled.                 *)
UploadedBeforeDropped ==
  [][\A row \in queue :
       (\A kept \in queue' : kept.id # row.id)
         => \/ reached[row.entity] >= row.asked
            \/ \E letter \in dead' : letter.id = row.id]_vars

(* An entity with a row that no drain has begun to work on ends in the     *)
(* index for good, at the version the row was written for or a newer one,  *)
(* unless one of its rows goes to the dead letters or is stranded.         *)
IndexCatchesUp ==
  \A e \in Entities, v \in 1..MaxVersion :
    /\ \E row \in queue : row.entity = e /\ row.asked = v
    /\ \A t \in tasks : t.entity = e => t.at = "pulled"
    ~> \/ [](index[e] >= v)
       \/ \E letter \in dead : letter.entity = e
       \/ \E row \in queue : row.entity = e /\ Stranded(row)
=============================================================================
