----------------------------- MODULE PollTasks -----------------------------
(***************************************************************************)
(* The task queue of one expert's coordinator, as the pure functions of    *)
(* src/ingest/ExpertPollCoordinatorState.ts: what is queued, how requests  *)
(* coalesce, which task is next, where an unfinished task goes back.       *)
(*                                                                         *)
(* A run polls in one mode (and, for reconcile, one depth), so the run     *)
(* determines the task it asks for: task keys "head", "backfill:<run>" and *)
(* "reconcile:<run>:<depth>" are the pair (mode, runIds) below.  Request   *)
(* times, page and post totals and maxAgeDays are left out: nothing in     *)
(* the coordinator branches on them.  lastCompletedRunId and lastFailure   *)
(* are write-only and left out as well.                                    *)
(***************************************************************************)
EXTENDS Naturals, Sequences, SequencesExt

CONSTANTS
  Runs,        \* ids of the ingest runs
  Kind,        \* Kind[r]: the poll mode of run r's tasks
  MaxPosts,    \* post budget of a backfill request (maxPosts, default 300)
  ChunkPosts,  \* posts one alarm may process (BULK_CHUNK_MAX_POSTS)
  MaxCursor    \* length of the history a reconcile walks, in chunks

Modes == {"head", "backfill", "reconcile"}

ASSUME TaskConstants ==
  /\ Kind \in [Runs -> Modes]
  /\ MaxPosts \in Nat
  /\ ChunkPosts \in Nat \ {0}
  /\ MaxCursor \in Nat

(* A task; runIds holds one run for bulk tasks, one or more for a head.    *)
Task == [mode: Modes, runIds: Seq(Runs), remaining: 0..MaxPosts, cursor: 0..MaxCursor]

(* current = null *)
NoTask == [mode |-> "none", runIds |-> <<>>, remaining |-> 0, cursor |-> 0]

QueueState == [current: Task \cup {NoTask}, pending: Seq(Task)]

EmptyQueue == [current |-> NoTask, pending |-> <<>>]

IsHead(t) == t.mode = "head"

IsBulk(t) == t.mode # "head"

(* The two tasks have the same key. *)
SameKey(t, u) == t.mode = u.mode /\ (IsHead(t) \/ t.runIds = u.runIds)

HasWork(q) == q.current # NoTask \/ q.pending # <<>>

(* No two tasks of the queue have one key, the current one included. *)
DistinctKeys(q) ==
  /\ \A i \in DOMAIN q.pending : ~SameKey(q.current, q.pending[i])
  /\ \A i, j \in DOMAIN q.pending : SameKey(q.pending[i], q.pending[j]) => i = j

(* Run r waits in the queue, or is being worked on. *)
Holds(q, r) ==
  \/ r \in ToSet(q.current.runIds)
  \/ \E i \in DOMAIN q.pending : r \in ToSet(q.pending[i].runIds)

-----------------------------------------------------------------------------
NewTask(r) ==
  [mode |-> Kind[r], runIds |-> <<r>>, cursor |-> 0,
   remaining |-> IF Kind[r] = "backfill" THEN MaxPosts ELSE 0]

AppendRun(t, r) ==
  IF r \in ToSet(t.runIds) THEN t ELSE [t EXCEPT !.runIds = Append(@, r)]

(* Mutant: a head request takes the place of a bulk task at work. *)
EnqueueHeadFirst(q, r) ==
  IF IsBulk(q.current) /\ q.current # NoTask
  THEN [current |-> NewTask(r), pending |-> <<q.current>> \o q.pending]
  ELSE [q EXCEPT !.pending = Append(@, NewTask(r))]

(* A head request joins the head task, current before pending, if any. *)
EnqueueHeadTask(q, r) ==
  LET i == SelectInSeq(q.pending, IsHead)
  IN  IF IsHead(q.current) THEN [q EXCEPT !.current = AppendRun(@, r)]
      ELSE IF i # 0 THEN [q EXCEPT !.pending = ReplaceAt(@, i, AppendRun(@[i], r))]
      ELSE [q EXCEPT !.pending = Append(@, NewTask(r))]

(* Mutant: only the pending tasks are looked at. *)
EnqueueBulkUnlessPending(q, r) ==
  IF \E i \in DOMAIN q.pending : SameKey(q.pending[i], NewTask(r))
  THEN q
  ELSE [q EXCEPT !.pending = Append(@, NewTask(r))]

(* Mutant: a repeated request replaces the pending task. *)
EnqueueBulkAnew(q, r) ==
  IF SameKey(q.current, NewTask(r)) THEN q
  ELSE [q EXCEPT !.pending = Append(SelectSeq(@, LAMBDA t : ~SameKey(t, NewTask(r))), NewTask(r))]

(* A bulk request is dropped when its task is already there. *)
EnqueueBulkTask(q, r) ==
  IF \/ SameKey(q.current, NewTask(r))
     \/ \E i \in DOMAIN q.pending : SameKey(q.pending[i], NewTask(r))
  THEN q
  ELSE [q EXCEPT !.pending = Append(@, NewTask(r))]

EnqueueTask(q, r) ==
  IF Kind[r] = "head" THEN EnqueueHeadTask(q, r) ELSE EnqueueBulkTask(q, r)

(* Mutant: the next task is taken although one is current. *)
CanTakeAlways(q) == q.pending # <<>>

CanTake(q) == q.current = NoTask /\ q.pending # <<>>

TakeNextTask(q) == [current |-> Head(q.pending), pending |-> Tail(q.pending)]

ClearCurrentTask(q) == [q EXCEPT !.current = NoTask]

(* Mutant: an unfinished task stays first. *)
InsertContinuationFirst(q, t) == [q EXCEPT !.pending = <<t>> \o @]

(* An unfinished task goes back behind the leading head tasks only. *)
InsertContinuationTask(q, t) ==
  LET firstBulk == SelectInSeq(q.pending, IsBulk)
      at == IF firstBulk = 0 THEN Len(q.pending) + 1 ELSE firstBulk
  IN  [q EXCEPT !.pending = InsertAt(@, at, t)]

-----------------------------------------------------------------------------
(***************************************************************************)
(* What ExpertPollExecutor.runDid may report for one chunk of task t.      *)
(* - head: always completed.                                               *)
(* - backfill: a chunk that reaches its post limit min(ChunkPosts,         *)
(*   remaining) is completed; one that is not has processed at least one   *)
(*   record (a page without records completes the window).                 *)
(* - reconcile: an uncompleted chunk has moved the cursor on.              *)
(* A completed task is dropped, so its counts do not matter.               *)
(***************************************************************************)
Outcome == [completed: BOOLEAN, processed: Nat, cursor: 0..MaxCursor]

NoOutcome == [completed |-> FALSE, processed |-> 0, cursor |-> 0]

Completed == [completed |-> TRUE, processed |-> 0, cursor |-> 0]

ChunkLimit(t) == IF t.remaining < ChunkPosts THEN t.remaining ELSE ChunkPosts

Outcomes(t) ==
  {Completed} \cup
  {o \in [completed: {FALSE}, processed: 0..ChunkPosts, cursor: 0..MaxCursor] :
     \/ t.mode = "backfill" /\ o.processed > 0 /\ o.processed < ChunkLimit(t) /\ o.cursor = 0
     \/ t.mode = "reconcile" /\ o.processed = 0 /\ o.cursor > t.cursor}

(* Mutant: the cursor is taken for an offset. *)
ProgressedByOffset(t, o) ==
  [t EXCEPT !.remaining = IF o.processed < @ THEN @ - o.processed ELSE 0,
            !.cursor    = @ + o.cursor]

(* Mutant: the post budget is not counted down. *)
ProgressedWithoutBudget(t, o) ==
  [t EXCEPT !.cursor = IF t.mode = "reconcile" THEN o.cursor ELSE @]

(* updateBackfillRemaining(updateTaskCursor(task, nextCursor), processed) *)
Progressed(t, o) ==
  [t EXCEPT !.remaining = IF t.mode # "backfill" THEN @
                          ELSE IF o.processed < @ THEN @ - o.processed ELSE 0,
            !.cursor    = IF t.mode = "reconcile" THEN o.cursor ELSE @]
=============================================================================
