----------------------- MODULE ExpertPollCoordinator -----------------------
(***************************************************************************)
(* ExpertPollCoordinatorDo: one Durable Object per expert, which queues    *)
(* poll tasks in its storage and works them off one chunk per alarm, and   *)
(* the rows of ingest_run_items it writes in D1 while doing so.            *)
(*                                                                         *)
(* An enqueue call only awaits storage, which closes the object's input    *)
(* gate: it is one step.  alarm() awaits D1 and the expert's PDS, and any  *)
(* enqueue may run at each of those awaits: it is one step per await.      *)
(* The runtime runs at most one alarm() of an object at a time, drops the  *)
(* alarm when it starts and sets it again when alarm() throws or dies.     *)
(***************************************************************************)
EXTENDS PollTasks, FiniteSets

CONSTANTS
  Dids,       \* the experts, one coordinator each
  FaultKinds, \* the faults a behaviour may have: "eviction", "write", ...
  MaxFaults   \* bound: the number of faults in a behaviour

ASSUME FaultBound == MaxFaults \in Nat

VARIABLES
  store,      \* store[d]: stored queue state (ctx.storage, survives eviction)
  alarm,      \* alarm[d]: an alarm is scheduled
  pc,         \* pc[d]: where alarm() is
  claimed,    \* claimed[d]: the task alarm() took
  latest,     \* latest[d]: the state alarm() reloaded after executing
  outcome,    \* outcome[d]: the executor's result
  todo,       \* todo[d]: run ids whose item row is still to be written
  items,      \* items[r][d]: row of ingest_run_items
  faults      \* faults so far

doVars == <<store, alarm, pc, claimed, latest, outcome, todo>>
vars == <<doVars, items, faults>>

Statuses == {"absent", "queued", "dispatched", "running", "complete", "failed"}
Terminal == {"complete", "failed"}

(* stale: last_progress_at is older than the repair service's threshold    *)
Item == [status: Statuses, stale: BOOLEAN]

Phases == {"idle", "starting", "executing", "progress", "completing", "saving",
           "failing", "savingFailure"}

(* alarm() has reloaded the stored state and will overwrite it. *)
Settling == {"progress", "completing", "saving", "failing", "savingFailure"}

(***************************************************************************)
(* Shared pieces                                                           *)
(***************************************************************************)
(* An UPDATE of one row by key, which touches last_progress_at. *)
SetItem(r, d, status) ==
  items' = [items EXCEPT ![r][d] =
              IF @.status = "absent" THEN @ ELSE [status |-> status, stale |-> FALSE]]

(* The local variables of alarm() after it returned, threw or died. *)
ForgetHandler(d) ==
  /\ pc' = [pc EXCEPT ![d] = "idle"]
  /\ claimed' = [claimed EXCEPT ![d] = NoTask]
  /\ latest' = [latest EXCEPT ![d] = EmptyQueue]
  /\ outcome' = [outcome EXCEPT ![d] = NoOutcome]
  /\ todo' = [todo EXCEPT ![d] = <<>>]

(* Mutant: the claim, without the runs that joined it since. *)
TaskAsClaimed(q, t) == t

(* latest.state.current if it still is the claimed task, else the claim. *)
TaskOf(q, t) == IF SameKey(q.current, t) THEN q.current ELSE t

SettledTask(d) == TaskOf(latest[d], claimed[d])

(* Mutant: an alarm only for a task that is being worked on. *)
SetAlarmIfCurrent(d, q) == alarm' = [alarm EXCEPT ![d] = @ \/ q.current # NoTask]

SetAlarmIfPending(d, q) == alarm' = [alarm EXCEPT ![d] = @ \/ HasWork(q)]

Fault(kind) ==
  /\ kind \in FaultKinds
  /\ faults < MaxFaults
  /\ faults' = faults + 1

(* Write the next row of todo, then go on to phase next with list rest. *)
WriteNextItem(d, status, next, rest) ==
  /\ SetItem(Head(todo[d]), d, status)
  /\ IF Len(todo[d]) = 1
       THEN pc' = [pc EXCEPT ![d] = next] /\ todo' = [todo EXCEPT ![d] = rest]
       ELSE pc' = pc /\ todo' = [todo EXCEPT ![d] = Tail(@)]
  /\ UNCHANGED <<store, alarm, claimed, latest, outcome, faults>>

-----------------------------------------------------------------------------
(* enqueueHead, enqueueBackfill, enqueueReconcile: load, enqueue, save and *)
(* setAlarmIfPending.                                                      *)
Enqueue(d, r) ==
  /\ store' = [store EXCEPT ![d] = EnqueueTask(@, r)]
  /\ SetAlarmIfPending(d, EnqueueTask(store[d], r))
  /\ UNCHANGED <<pc, claimed, latest, outcome, todo, items>>

(* The object is evicted between the save and setAlarm; the caller sees an *)
(* error.                                                                  *)
EnqueueCutShort(d, r) ==
  /\ pc[d] = "idle"
  /\ store' = [store EXCEPT ![d] = EnqueueTask(@, r)]
  /\ UNCHANGED <<alarm, pc, claimed, latest, outcome, todo, items>>

(* alarm() with nothing to take: current is set already, or no work. *)
AlarmIgnored(d) ==
  /\ pc[d] = "idle" /\ alarm[d] /\ ~CanTake(store[d])
  /\ alarm' = [alarm EXCEPT ![d] = FALSE]
  /\ UNCHANGED <<store, pc, claimed, latest, outcome, todo, items, faults>>

(* alarm() takes the next task and saves the claim. *)
AlarmClaims(d) ==
  /\ pc[d] = "idle" /\ alarm[d] /\ CanTake(store[d])
  /\ alarm' = [alarm EXCEPT ![d] = FALSE]
  /\ store' = [store EXCEPT ![d] = TakeNextTask(@)]
  /\ claimed' = [claimed EXCEPT ![d] = Head(store[d].pending)]
  /\ todo' = [todo EXCEPT ![d] = Head(store[d].pending).runIds]
  /\ pc' = [pc EXCEPT ![d] = "starting"]
  /\ UNCHANGED <<latest, outcome, items, faults>>

MarkRunning(d) ==
  /\ pc[d] = "starting"
  /\ WriteNextItem(d, "running", "executing", <<>>)

(* The executor returns; alarm() reloads the state and computes the task. *)
ExecuteChunk(d) ==
  /\ pc[d] = "executing"
  /\ \E o \in Outcomes(claimed[d]) : outcome' = [outcome EXCEPT ![d] = o]
  /\ latest' = [latest EXCEPT ![d] = store[d]]
  /\ todo' = [todo EXCEPT ![d] = TaskOf(store[d], claimed[d]).runIds]
  /\ pc' = [pc EXCEPT ![d] = "progress"]
  /\ UNCHANGED <<store, alarm, claimed, items, faults>>

MarkProgress(d) ==
  /\ pc[d] = "progress"
  /\ IF outcome[d].completed
       THEN WriteNextItem(d, "running", "completing", SettledTask(d).runIds)
       ELSE WriteNextItem(d, "running", "saving", <<>>)

MarkComplete(d) ==
  /\ pc[d] = "completing"
  /\ WriteNextItem(d, "complete", "saving", <<>>)

(* Save the state reloaded before the D1 writes, without its current task: *)
(* what was enqueued since then is overwritten.                            *)
SaveSettled(d) ==
  /\ pc[d] = "saving"
  /\ LET cleared == ClearCurrentTask(latest[d])
         next == IF outcome[d].completed THEN cleared
                 ELSE InsertContinuationTask(cleared, Progressed(SettledTask(d), outcome[d]))
     IN  store' = [store EXCEPT ![d] = next] /\ SetAlarmIfPending(d, next)
  /\ ForgetHandler(d)
  /\ UNCHANGED <<items, faults>>

(* The catch block: reload the state, then mark the task's items failed. *)
Catch(d) ==
  /\ latest' = [latest EXCEPT ![d] = store[d]]
  /\ todo' = [todo EXCEPT ![d] = TaskOf(store[d], claimed[d]).runIds]
  /\ pc' = [pc EXCEPT ![d] = "failing"]
  /\ outcome' = [outcome EXCEPT ![d] = NoOutcome]
  /\ UNCHANGED <<store, alarm, claimed, items>>

ExecuteFails(d) ==
  /\ pc[d] = "executing"
  /\ Catch(d)
  /\ UNCHANGED faults

SettleWriteFails(d) ==
  /\ pc[d] \in {"progress", "completing", "saving"}
  /\ Catch(d)
  /\ Fault("write")

MarkFailed(d) ==
  /\ pc[d] = "failing"
  /\ WriteNextItem(d, "failed", "savingFailure", <<>>)

SaveFailed(d) ==
  /\ pc[d] = "savingFailure"
  /\ store' = [store EXCEPT ![d] = ClearCurrentTask(latest[d])]
  /\ SetAlarmIfPending(d, ClearCurrentTask(latest[d]))
  /\ ForgetHandler(d)
  /\ UNCHANGED <<items, faults>>

(* markRunning or markFailed throws out of alarm(), or the object dies at  *)
(* any await: the runtime retries the alarm, the claim stays in storage.   *)
HandlerDies(d) ==
  /\ pc[d] # "idle"
  /\ ForgetHandler(d)
  /\ alarm' = [alarm EXCEPT ![d] = TRUE]
  /\ Fault("eviction")
  /\ UNCHANGED <<store, items>>

-----------------------------------------------------------------------------
Init ==
  /\ store = [d \in Dids |-> EmptyQueue]
  /\ alarm = [d \in Dids |-> FALSE]
  /\ pc = [d \in Dids |-> "idle"]
  /\ claimed = [d \in Dids |-> NoTask]
  /\ latest = [d \in Dids |-> EmptyQueue]
  /\ outcome = [d \in Dids |-> NoOutcome]
  /\ todo = [d \in Dids |-> <<>>]
  /\ items = [r \in Runs |-> [d \in Dids |-> [status |-> "queued", stale |-> FALSE]]]
  /\ faults = 0

(* What the object does on its own: the alarm and its handler. *)
AlarmStep(d) ==
  \/ AlarmIgnored(d) \/ AlarmClaims(d) \/ MarkRunning(d)
  \/ ExecuteChunk(d) \/ ExecuteFails(d)
  \/ MarkProgress(d) \/ MarkComplete(d) \/ SaveSettled(d)
  \/ MarkFailed(d) \/ SaveFailed(d)

FaultStep(d) == SettleWriteFails(d) \/ HandlerDies(d)

Request(d, r) ==
  \/ Enqueue(d, r) /\ UNCHANGED faults
  \/ EnqueueCutShort(d, r) /\ Fault("eviction")

Next ==
  \E d \in Dids :
    \/ \E r \in Runs : Request(d, r)
    \/ AlarmStep(d)
    \/ FaultStep(d)

Spec == Init /\ [][Next]_vars

(* The runtime fires due alarms, and an await on D1 or a PDS ends. *)
Fairness == \A d \in Dids : WF_vars(AlarmStep(d))

FairSpec == Spec /\ Fairness

-----------------------------------------------------------------------------
(***************************************************************************)
(* Properties                                                              *)
(***************************************************************************)
(* The tasks of a queue in the order in which they will be worked on. *)
Line(q) == IF q.current = NoTask THEN q.pending ELSE <<q.current>> \o q.pending

(* The task that carries run r, for a run the queue holds. *)
Place(q, r) == SelectInSeq(Line(q), LAMBDA t : r \in ToSet(t.runIds))

(* Every variable has its type. *)
TypeOK ==
  /\ store \in [Dids -> QueueState]
  /\ alarm \in [Dids -> BOOLEAN]
  /\ pc \in [Dids -> Phases]
  /\ claimed \in [Dids -> Task \cup {NoTask}]
  /\ latest \in [Dids -> QueueState]
  /\ outcome \in [Dids -> Outcome]
  /\ todo \in [Dids -> Seq(Runs)]
  /\ items \in [Runs -> [Dids -> Item]]
  /\ faults \in 0..MaxFaults

(* However requests, chunks, failures and crashes interleave, a queue never *)
(* holds two tasks with one key, the current one included: there is at most *)
(* one head task, and a bulk request that comes in while its task is being  *)
(* worked on does not meet the continuation of it later.                    *)
UniqueTasks == \A d \in Dids : DistinctKeys(store[d])

(* While alarm() runs, the stored current task is the one it claimed, so    *)
(* what it reloads and clears at the end is never somebody else's task.     *)
CurrentIsClaimed ==
  \A d \in Dids : pc[d] # "idle" => SameKey(store[d].current, claimed[d])

(* A row says "running" only while the expert's queue holds the run: no row *)
(* is left running for a coordinator that has forgotten it.                 *)
RunningIsHeld ==
  \A d \in Dids, r \in Runs : items[r][d].status = "running" => Holds(store[d], r)

(* A run that alarm() saw when it reloaded its queue leaves the queue only  *)
(* with its row complete or failed, whoever joined the task meanwhile.      *)
SettledBeforeDropped ==
  [][\A d \in Dids, r \in Runs :
       Holds(latest[d], r) /\ Holds(store[d], r) /\ ~Holds(store'[d], r)
         => items[r][d].status \in Terminal]_vars

(* The progress of a bulk run that stays queued is kept: a repeated request *)
(* or the way back into the queue neither refills the post budget nor moves *)
(* the cursor back.                                                         *)
ProgressKept ==
  [][\A d \in Dids, r \in Runs :
       Holds(store[d], r) /\ Holds(store'[d], r) =>
         LET before == Line(store[d])[Place(store[d], r)]
             after  == Line(store'[d])[Place(store'[d], r)]
         IN  after.remaining <= before.remaining /\ after.cursor >= before.cursor]_vars

(* Run r waits for a head poll that is next in line. *)
HeadIsNext(q, r) == q.pending # <<>> /\ IsHead(q.pending[1]) /\ r \in ToSet(q.pending[1].runIds)

(* No task overtakes a run that waits for a head poll: the number of tasks  *)
(* in front of it never grows, and once it is next it stays next until it   *)
(* is worked on, so that it waits for one chunk of a bulk task at most.     *)
HeadNotOvertaken ==
  [][\A d \in Dids, r \in Runs :
       Kind[r] = "head" /\ Holds(store[d], r) /\ Holds(store'[d], r)
         => /\ Place(store'[d], r) <= Place(store[d], r)
            /\ HeadIsNext(store[d], r)
                 => HeadIsNext(store'[d], r) \/ r \in ToSet(store'[d].current.runIds)]_vars

(* Unless there was a crash a queue with work has an alarm, or is being     *)
(* worked on: nothing waits for a wake-up that was not scheduled.           *)
WorkHasAlarm ==
  faults = 0 => \A d \in Dids : HasWork(store[d]) => alarm[d] \/ pc[d] # "idle"

(* Unless there is a crash whatever is queued leaves the queue, however     *)
(* many requests keep coming: neither head nor bulk tasks starve.           *)
QueueDrains ==
  \A d \in Dids, r \in Runs : Holds(store[d], r) ~> ~Holds(store[d], r) \/ faults > 0

(* "persist pending work across Worker/DO restarts or evictions": a run     *)
(* that was accepted leaves the queue only when its row says how it ended.  *)
(* The save at the end of alarm() writes a state it read before its D1      *)
(* writes, and drops what was enqueued since.                               *)
AcceptedWorkKept ==
  [][\A d \in Dids, r \in Runs :
       Holds(store[d], r) /\ ~Holds(store'[d], r)
         => items[r][d].status \in Terminal]_vars

(* "recover after eviction or restart": a claim that a dead alarm() left in *)
(* storage is worked on or cleared again.  The retried alarm finds current  *)
(* set and returns.                                                         *)
ClaimRecovered ==
  \A d \in Dids :
    (store[d].current # NoTask /\ pc[d] = "idle")
      ~> (store[d].current = NoTask \/ pc[d] # "idle")
=============================================================================
