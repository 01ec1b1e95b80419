--------------------- MODULE ExpertPollCoordinatorProofs ---------------------
(***************************************************************************)
(* Proofs about ExpertPollCoordinator, for any number of experts, runs and *)
(* faults and any post budget, chunk size and history length.              *)
(***************************************************************************)
EXTENDS ExpertPollCoordinator, PollTasksProofs

(* alarm() is in one of its loops over the runs of a task. *)
Writing == {"starting", "progress", "completing", "failing"}

(* What holds of one coordinator between any two awaits: both copies of    *)
(* its queue are sound, the task it works on is live and has the key of    *)
(* the stored current task and, once reloaded, of the reloaded one, and a  *)
(* loop over runs has a run left.                                          *)
ObjectInv(d) ==
  /\ SoundQueue(store[d])
  /\ SoundQueue(latest[d])
  /\ pc[d] # "idle" => LiveTask(claimed[d]) /\ SameKey(store[d].current, claimed[d])
  /\ pc[d] \in Settling => SameKey(latest[d].current, claimed[d])
  /\ pc[d] \in Writing => todo[d] # <<>>

IInv == TypeOK /\ \A d \in Dids : ObjectInv(d)

-----------------------------------------------------------------------------
(***************************************************************************)
(* Lemmas about the pieces actions share                                   *)
(***************************************************************************)
LEMMA EmptyQueueSound == SoundQueue(EmptyQueue)
<1>1. <<>> \in Seq(Task) /\ DOMAIN <<>> = {}
  BY EmptySeq
<1>2. EmptyQueue \in QueueState
  BY <1>1 DEF EmptyQueue, QueueState
<1> QED
  BY <1>1, <1>2 DEF SoundQueue, EmptyQueue, DistinctKeys

(* The task alarm() settles is the reloaded current task, runs that joined *)
(* it included.                                                            *)
LEMMA TaskOfCurrent ==
  ASSUME NEW q, SoundQueue(q), NEW t, LiveTask(t), SameKey(q.current, t)
  PROVE  q.current # NoTask /\ TaskOf(q, t) = q.current /\ LiveTask(q.current)
<1>1. t \in Task
  BY DEF LiveTask
<1>2. q.current # NoTask
  BY <1>1, NoTaskKey
<1> QED
  BY <1>2 DEF TaskOf, SoundQueue

LEMMA OutcomesTyped ==
  ASSUME NEW t, NEW o \in Outcomes(t)
  PROVE  o \in Outcome
<1>1. 0 \in 0..MaxCursor /\ 0..ChunkPosts \subseteq Nat
  BY TaskConstants
<1>2. Completed \in Outcome
  BY <1>1 DEF Completed, Outcome
<1>3. [completed: {FALSE}, processed: 0..ChunkPosts, cursor: 0..MaxCursor] \subseteq Outcome
  BY <1>1 DEF Outcome
<1> QED
  BY <1>2, <1>3 DEF Outcomes

LEMMA NoOutcomeTyped == NoOutcome \in Outcome
<1>1. 0 \in 0..MaxCursor
  BY TaskConstants
<1> QED
  BY <1>1 DEF NoOutcome, Outcome

LEMMA SetItemTyped ==
  ASSUME TypeOK, NEW r \in Runs, NEW d \in Dids, NEW status \in Statuses,
         SetItem(r, d, status)
  PROVE  items' \in [Runs -> [Dids -> Item]]
<1> DEFINE row == IF items[r][d].status = "absent" THEN items[r][d]
                  ELSE [status |-> status, stale |-> FALSE]
<1>1. items \in [Runs -> [Dids -> Item]]
  BY DEF TypeOK
<1>2. row \in Item
  BY <1>1 DEF Item
<1>3. items' = [items EXCEPT ![r][d] = row]
  BY DEF SetItem
<1> HIDE DEF row
<1> QED
  BY <1>1, <1>2, <1>3

(* One more row written: the loop goes on, or alarm() does.                *)
LEMMA WriteStep ==
  ASSUME IInv, NEW d \in Dids, pc[d] \in Writing, NEW status \in Statuses,
         NEW next \in Phases, NEW rest \in Seq(Runs),
         next # "idle", next \in Writing => rest # <<>>,
         next \in Settling => pc[d] \in Settling,
         WriteNextItem(d, status, next, rest)
  PROVE  IInv'
<1>1. /\ TypeOK /\ ObjectInv(d)
      /\ todo[d] \in Seq(Runs) /\ todo[d] # <<>> /\ pc[d] # "idle"
  BY DEF IInv, ObjectInv, TypeOK, Writing
<1>2. Head(todo[d]) \in Runs /\ Tail(todo[d]) \in Seq(Runs)
  BY <1>1, HeadTailProperties
<1>3. Len(todo[d]) # 1 => Tail(todo[d]) # <<>>
  <2>1. Len(Tail(todo[d])) = Len(todo[d]) - 1 /\ Len(todo[d]) \in Nat
    BY <1>1, HeadTailProperties, LenProperties
  <2>2. ASSUME Tail(todo[d]) = <<>> PROVE Len(Tail(todo[d])) = 0
    BY <2>2, EmptySeq
  <2> QED
    BY <2>1, <2>2
<1>4. items' \in [Runs -> [Dids -> Item]]
  BY <1>1, <1>2, SetItemTyped DEF WriteNextItem
<1>5. /\ pc' \in [Dids -> Phases] /\ todo' \in [Dids -> Seq(Runs)]
      /\ \A e \in Dids \ {d} : pc'[e] = pc[e] /\ todo'[e] = todo[e]
      /\ pc'[d] # "idle"
      /\ pc'[d] \in Settling => pc[d] \in Settling
      /\ pc'[d] \in Writing => todo'[d] # <<>>
  BY <1>1, <1>2, <1>3 DEF WriteNextItem, TypeOK
<1>6. UNCHANGED <<store, alarm, claimed, latest, outcome, faults>>
  BY DEF WriteNextItem
<1>7. TypeOK'
  BY <1>1, <1>4, <1>5, <1>6 DEF TypeOK
<1>8. ASSUME NEW e \in Dids PROVE ObjectInv(e)'
  <2>1. ObjectInv(e)
    BY DEF IInv
  <2>2. CASE e = d
    BY <2>2, <1>1, <1>5, <1>6 DEF ObjectInv
  <2>3. CASE e # d
    BY <2>1, <2>3, <1>5, <1>6 DEF ObjectInv
  <2> QED
    BY <2>2, <2>3
<1> QED
  BY <1>7, <1>8 DEF IInv

(* alarm() ends, whatever queue it leaves behind.                          *)
LEMMA ForgetStep ==
  ASSUME IInv, NEW d \in Dids, ForgetHandler(d),
         NEW q, SoundQueue(q), store' = [store EXCEPT ![d] = q],
         alarm' \in [Dids -> BOOLEAN], items' = items, faults' \in 0..MaxFaults
  PROVE  IInv'
<1>1. TypeOK /\ q \in QueueState /\ EmptyQueue \in QueueState /\ NoOutcome \in Outcome
  BY EmptyQueueSound, NoOutcomeTyped DEF IInv, SoundQueue
<1>2. "idle" \in Phases /\ <<>> \in Seq(Runs)
  BY EmptySeq DEF Phases
<1>3. TypeOK'
  BY <1>1, <1>2 DEF TypeOK, ForgetHandler
<1>4. ASSUME NEW e \in Dids PROVE ObjectInv(e)'
  <2>1. ObjectInv(e)
    BY DEF IInv
  <2>2. CASE e = d
    <3>1. store'[e] = q /\ latest'[e] = EmptyQueue /\ pc'[e] = "idle"
      BY <2>2, <1>1 DEF TypeOK, ForgetHandler
    <3> QED
      BY <3>1, EmptyQueueSound DEF ObjectInv, Settling, Writing
  <2>3. CASE e # d
    <3>1. /\ store'[e] = store[e] /\ latest'[e] = latest[e] /\ pc'[e] = pc[e]
          /\ claimed'[e] = claimed[e] /\ todo'[e] = todo[e]
      BY <2>3, <1>1 DEF TypeOK, ForgetHandler
    <3> QED
      BY <2>1, <3>1 DEF ObjectInv
  <2> QED
    BY <2>2, <2>3
<1> QED
  BY <1>3, <1>4 DEF IInv

(* alarm() reloads the queue, in the order of its code or in its catch     *)
(* block, and starts a loop over the runs of its task.                     *)
LEMMA ReloadStep ==
  ASSUME IInv, NEW d \in Dids, pc[d] # "idle", NEW next \in Writing \ {"starting"},
         NEW o \in Outcome,
         outcome' = [outcome EXCEPT ![d] = o],
         latest' = [latest EXCEPT ![d] = store[d]],
         todo' = [todo EXCEPT ![d] = TaskOf(store[d], claimed[d]).runIds],
         pc' = [pc EXCEPT ![d] = next],
         UNCHANGED <<store, alarm, claimed, items>>, faults' \in 0..MaxFaults
  PROVE  IInv'
<1>1. TypeOK /\ ObjectInv(d) /\ next \in Phases /\ next # "idle"
  BY DEF IInv, Writing, Phases
<1>2. SoundQueue(store[d]) /\ LiveTask(claimed[d]) /\ SameKey(store[d].current, claimed[d])
  BY <1>1 DEF ObjectInv
<1>3. TaskOf(store[d], claimed[d]) = store[d].current /\ LiveTask(store[d].current)
  BY <1>2, TaskOfCurrent
<1>4. store[d].current.runIds \in Seq(Runs) /\ store[d].current.runIds # <<>>
  BY <1>3 DEF LiveTask, Task
<1>5. TypeOK'
  BY <1>1, <1>3, <1>4 DEF TypeOK
<1>6. ASSUME NEW e \in Dids PROVE ObjectInv(e)'
  <2>1. ObjectInv(e)
    BY DEF IInv
  <2>2. CASE e = d
    <3>1. /\ store'[e] = store[d] /\ latest'[e] = store[d] /\ claimed'[e] = claimed[d]
          /\ todo'[e] = store[d].current.runIds
      BY <2>2, <1>1, <1>3 DEF TypeOK
    <3> QED
      BY <3>1, <1>2, <1>4 DEF ObjectInv
  <2>3. CASE e # d
    <3>1. /\ store'[e] = store[e] /\ latest'[e] = latest[e] /\ pc'[e] = pc[e]
          /\ claimed'[e] = claimed[e] /\ todo'[e] = todo[e]
      BY <2>3, <1>1 DEF TypeOK
    <3> QED
      BY <2>1, <3>1 DEF ObjectInv
  <2> QED
    BY <2>2, <2>3
<1> QED
  BY <1>5, <1>6 DEF IInv

(* A step that changes only the stored queue, by a request.                *)
LEMMA RequestStep ==
  ASSUME IInv, NEW d \in Dids, NEW r \in Runs,
         store' = [store EXCEPT ![d] = EnqueueTask(@, r)],
         alarm' \in [Dids -> BOOLEAN], faults' \in 0..MaxFaults,
         UNCHANGED <<pc, claimed, latest, outcome, todo, items>>
  PROVE  IInv'
<1>1. TypeOK /\ ObjectInv(d)
  BY DEF IInv
<1>2. /\ SoundQueue(EnqueueTask(store[d], r))
      /\ SameKey(EnqueueTask(store[d], r).current, store[d].current)
  BY <1>1, EnqueueQueue DEF ObjectInv
<1>3. EnqueueTask(store[d], r) \in QueueState
  BY <1>2 DEF SoundQueue
<1>4. TypeOK'
  BY <1>1, <1>3 DEF TypeOK
<1>5. ASSUME NEW e \in Dids PROVE ObjectInv(e)'
  <2>1. ObjectInv(e)
    BY DEF IInv
  <2>2. CASE e = d
    <3>1. store'[e] = EnqueueTask(store[d], r)
      BY <2>2, <1>1 DEF TypeOK
    <3>2. \A t : SameKey(store[d].current, t) => SameKey(EnqueueTask(store[d], r).current, t)
      BY <1>2 DEF SameKey, IsHead
    <3> QED
      BY <2>1, <2>2, <3>1, <3>2, <1>2 DEF ObjectInv
  <2>3. CASE e # d
    <3>1. store'[e] = store[e]
      BY <2>3, <1>1 DEF TypeOK
    <3> QED
      BY <2>1, <3>1 DEF ObjectInv
  <2> QED
    BY <2>2, <2>3
<1> QED
  BY <1>4, <1>5 DEF IInv

-----------------------------------------------------------------------------
(***************************************************************************)
(* The inductive invariant                                                 *)
(***************************************************************************)
LEMMA InitInv == Init => IInv
<1> SUFFICES ASSUME Init PROVE IInv
  OBVIOUS
<1>1. /\ EmptyQueue \in QueueState /\ NoOutcome \in Outcome /\ <<>> \in Seq(Runs)
      /\ [status |-> "queued", stale |-> FALSE] \in Item
  BY EmptyQueueSound, NoOutcomeTyped, EmptySeq DEF SoundQueue, Item, Statuses
<1>2. 0 \in 0..MaxFaults
  BY FaultBound
<1>3. TypeOK
  BY <1>1, <1>2 DEF Init, TypeOK, Phases
<1>4. \A d \in Dids : ObjectInv(d)
  BY EmptyQueueSound DEF Init, ObjectInv, Settling, Writing
<1> QED
  BY <1>3, <1>4 DEF IInv

LEMMA NextInv == IInv /\ [Next]_vars => IInv'
<1> SUFFICES ASSUME IInv, [Next]_vars PROVE IInv'
  OBVIOUS
<1> USE DEF IInv
<1>1. \A k : Fault(k) => faults' \in 0..MaxFaults
  BY FaultBound DEF Fault, TypeOK
<1>2. faults' = faults => faults' \in 0..MaxFaults
  BY DEF TypeOK
<1>3. ASSUME NEW d \in Dids, NEW q, SetAlarmIfPending(d, q)
      PROVE  alarm' \in [Dids -> BOOLEAN]
  BY <1>3 DEF SetAlarmIfPending, HasWork, TypeOK
<1>4. ASSUME NEW d \in Dids, NEW r \in Runs, Request(d, r)
      PROVE  IInv'
  <2>1. CASE Enqueue(d, r) /\ UNCHANGED faults
    BY <2>1, <1>2, <1>3, RequestStep DEF Enqueue
  <2>2. CASE EnqueueCutShort(d, r) /\ Fault("eviction")
    <3>1. alarm' \in [Dids -> BOOLEAN]
      BY <2>2 DEF EnqueueCutShort, TypeOK
    <3> QED
      BY <2>2, <3>1, <1>1, RequestStep DEF EnqueueCutShort
  <2> QED
    BY <1>4, <2>1, <2>2 DEF Request
<1>5. ASSUME NEW d \in Dids, AlarmStep(d)
      PROVE  IInv'
  <2>1. TypeOK /\ ObjectInv(d)
    OBVIOUS
  <2>2. CASE AlarmIgnored(d)
    <3>1. TypeOK'
      BY <2>2 DEF AlarmIgnored, TypeOK
    <3> QED
      BY <2>2, <3>1 DEF AlarmIgnored, ObjectInv
  <2>3. CASE AlarmClaims(d)
    <3> DEFINE t == Head(store[d].pending)
    <3>1. SoundQueue(TakeNextTask(store[d])) /\ LiveTask(t)
      BY <2>1, <2>3, TakeQueue DEF AlarmClaims, ObjectInv
    <3>2. t.runIds \in Seq(Runs) /\ t.runIds # <<>> /\ t \in Task
      BY <3>1 DEF LiveTask, Task
    <3>3. TakeNextTask(store[d]).current = t /\ TakeNextTask(store[d]) \in QueueState
      BY <3>1 DEF TakeNextTask, SoundQueue
    <3> HIDE DEF t
    <3>4. /\ store' = [store EXCEPT ![d] = TakeNextTask(store[d])]
          /\ claimed' = [claimed EXCEPT ![d] = t]
          /\ todo' = [todo EXCEPT ![d] = t.runIds]
          /\ pc' = [pc EXCEPT ![d] = "starting"]
          /\ alarm' = [alarm EXCEPT ![d] = FALSE]
          /\ UNCHANGED <<latest, outcome, items, faults>>
      BY <2>3 DEF AlarmClaims, t
    <3>5. TypeOK'
      BY <2>1, <3>2, <3>3, <3>4 DEF TypeOK, Phases
    <3>6. ASSUME NEW e \in Dids PROVE ObjectInv(e)'
      <4>1. CASE e = d
        <5>1. /\ store'[e] = TakeNextTask(store[d]) /\ claimed'[e] = t
              /\ todo'[e] = t.runIds /\ pc'[e] = "starting" /\ latest'[e] = latest[d]
          BY <4>1, <2>1, <3>4 DEF TypeOK
        <5> QED
          BY <5>1, <2>1, <3>1, <3>2, <3>3 DEF ObjectInv, Settling, SameKey
      <4>2. CASE e # d
        <5>1. /\ store'[e] = store[e] /\ latest'[e] = latest[e] /\ pc'[e] = pc[e]
              /\ claimed'[e] = claimed[e] /\ todo'[e] = todo[e]
          BY <4>2, <2>1, <3>4 DEF TypeOK
        <5>2. ObjectInv(e)
          OBVIOUS
        <5> QED
          BY <5>1, <5>2 DEF ObjectInv
      <4> QED
        BY <4>1, <4>2
    <3> QED
      BY <3>5, <3>6
  <2>4. CASE MarkRunning(d)
    <3>1. <<>> \in Seq(Runs)
      BY EmptySeq
    <3> QED
      BY <2>4, <3>1, WriteStep DEF MarkRunning, Writing, Settling, Statuses, Phases
  <2>5. CASE ExecuteChunk(d)
    <3>1. PICK o \in Outcomes(claimed[d]) : outcome' = [outcome EXCEPT ![d] = o]
      BY <2>5 DEF ExecuteChunk
    <3>2. o \in Outcome
      BY <3>1, OutcomesTyped
    <3> QED
      BY <2>5, <3>1, <3>2, <1>2, ReloadStep DEF ExecuteChunk, Writing
  <2>6. CASE ExecuteFails(d)
    BY <2>6, <1>2, NoOutcomeTyped, ReloadStep DEF ExecuteFails, Catch, Writing
  <2>7. CASE MarkProgress(d)
    <3>1. SettledTask(d).runIds \in Seq(Runs) /\ SettledTask(d).runIds # <<>>
      <4>1. /\ SoundQueue(latest[d]) /\ LiveTask(claimed[d])
            /\ SameKey(latest[d].current, claimed[d])
        BY <2>1, <2>7 DEF ObjectInv, MarkProgress, Settling
      <4>2. SettledTask(d) = latest[d].current /\ LiveTask(latest[d].current)
        BY <4>1, TaskOfCurrent DEF SettledTask
      <4> QED
        BY <4>2 DEF LiveTask, Task
    <3>2. <<>> \in Seq(Runs)
      BY EmptySeq
    <3>3. CASE outcome[d].completed
      BY <2>7, <3>1, <3>3, WriteStep DEF MarkProgress, Writing, Settling, Statuses, Phases
    <3>4. CASE ~outcome[d].completed
      BY <2>7, <3>2, <3>4, WriteStep DEF MarkProgress, Writing, Settling, Statuses, Phases
    <3> QED
      BY <3>3, <3>4
  <2>8. CASE MarkComplete(d)
    <3>1. <<>> \in Seq(Runs)
      BY EmptySeq
    <3> QED
      BY <2>8, <3>1, WriteStep DEF MarkComplete, Writing, Settling, Statuses, Phases
  <2>9. CASE SaveSettled(d)
    <3> DEFINE cleared == ClearCurrentTask(latest[d])
               next == IF outcome[d].completed THEN cleared
                       ELSE InsertContinuationTask(cleared, Progressed(SettledTask(d), outcome[d]))
    <3>1. /\ SoundQueue(latest[d]) /\ LiveTask(claimed[d])
          /\ SameKey(latest[d].current, claimed[d]) /\ outcome[d] \in Outcome
      BY <2>1, <2>9 DEF ObjectInv, SaveSettled, Settling, TypeOK
    <3>2. latest[d].current # NoTask /\ SettledTask(d) = latest[d].current
      BY <3>1, TaskOfCurrent DEF SettledTask
    <3>3. SoundQueue(next)
      BY <3>1, <3>2, ClearQueue, ContinueQueue
    <3>4. /\ store' = [store EXCEPT ![d] = next] /\ SetAlarmIfPending(d, next)
          /\ ForgetHandler(d) /\ UNCHANGED <<items, faults>>
      BY <2>9 DEF SaveSettled
    <3> HIDE DEF next
    <3> QED
      BY <3>3, <3>4, <1>2, <1>3, ForgetStep
  <2>10. CASE MarkFailed(d)
    <3>1. <<>> \in Seq(Runs)
      BY EmptySeq
    <3> QED
      BY <2>10, <3>1, WriteStep DEF MarkFailed, Writing, Settling, Statuses, Phases
  <2>11. CASE SaveFailed(d)
    <3>1. SoundQueue(ClearCurrentTask(latest[d]))
      BY <2>1, ClearQueue DEF ObjectInv
    <3> QED
      BY <2>11, <3>1, <1>2, <1>3, ForgetStep DEF SaveFailed
  <2> QED
    BY <1>5, <2>2, <2>3, <2>4, <2>5, <2>6, <2>7, <2>8, <2>9, <2>10, <2>11 DEF AlarmStep
<1>6. ASSUME NEW d \in Dids, FaultStep(d)
      PROVE  IInv'
  <2>1. CASE SettleWriteFails(d)
    BY <2>1, <1>1, NoOutcomeTyped, ReloadStep DEF SettleWriteFails, Catch, Writing
  <2>2. CASE HandlerDies(d)
    <3>1. SoundQueue(store[d]) /\ store' = [store EXCEPT ![d] = store[d]]
      BY <2>2 DEF HandlerDies, ObjectInv, TypeOK
    <3>2. alarm' \in [Dids -> BOOLEAN]
      BY <2>2 DEF HandlerDies, TypeOK
    <3> QED
      BY <2>2, <3>1, <3>2, <1>1, ForgetStep DEF HandlerDies
  <2> QED
    BY <1>6, <2>1, <2>2 DEF FaultStep
<1>7. CASE UNCHANGED vars
  BY <1>7 DEF vars, doVars, TypeOK, ObjectInv
<1> QED
  BY <1>4, <1>5, <1>6, <1>7 DEF Next

(* The inductive invariant holds throughout.                               *)
THEOREM Invariant == Spec => []IInv
<1> QED
  BY InitInv, NextInv, PTL DEF Spec

(* Every variable has its type, whatever requests, chunks, failures and    *)
(* crashes a coordinator goes through.                                     *)
THEOREM TypeCorrect == Spec => []TypeOK
<1>1. IInv => TypeOK
  BY DEF IInv
<1> QED
  BY Invariant, <1>1, PTL

(* A coordinator's queue never holds two tasks with one key, the current   *)
(* one included: enqueueing coalesces, and the continuation of a bulk task *)
(* that was cleared from a copy of the queue never meets its own key there. *)
THEOREM TasksStayUnique == Spec => []UniqueTasks
<1>1. IInv => UniqueTasks
  BY DEF IInv, ObjectInv, SoundQueue, UniqueTasks
<1> QED
  BY Invariant, <1>1, PTL

(* While alarm() runs, the stored current task has the key of the one it   *)
(* claimed: what it reloads, settles and clears is its own task.           *)
THEOREM ClaimStaysCurrent == Spec => []CurrentIsClaimed
<1>1. IInv => CurrentIsClaimed
  BY DEF IInv, ObjectInv, CurrentIsClaimed
<1> QED
  BY Invariant, <1>1, PTL

-----------------------------------------------------------------------------
(***************************************************************************)
(* Wake-ups                                                                *)
(***************************************************************************)
(* Without a crash an idle object has no claim (so that its next alarm     *)
(* takes a task), and one with work is awake or will be woken.             *)
Awake(d) ==
  /\ pc[d] = "idle" => store[d].current = NoTask
  /\ HasWork(store[d]) => alarm[d] \/ pc[d] # "idle"

AwakeInv == IInv /\ (faults = 0 => \A d \in Dids : Awake(d))

LEMMA InitAwake == Init => AwakeInv
<1> SUFFICES ASSUME Init PROVE AwakeInv
  OBVIOUS
<1>1. IInv
  BY InitInv
<1>2. \A d \in Dids : Awake(d)
  BY DEF Init, Awake, HasWork, EmptyQueue
<1> QED
  BY <1>1, <1>2 DEF AwakeInv

(* The alarm is set whenever a queue with pending work is saved.           *)
LEMMA SavedAwake ==
  ASSUME IInv, NEW d \in Dids, NEW q, q.current = NoTask,
         store' = [store EXCEPT ![d] = q], SetAlarmIfPending(d, q)
  PROVE  Awake(d)'
<1>1. store'[d] = q /\ alarm'[d] = (alarm[d] \/ HasWork(q))
  BY DEF IInv, TypeOK, SetAlarmIfPending
<1> QED
  BY <1>1 DEF Awake

LEMMA NextAwake == AwakeInv /\ [Next]_vars => AwakeInv'
<1> SUFFICES ASSUME AwakeInv, [Next]_vars PROVE AwakeInv'
  OBVIOUS
<1>1. IInv /\ IInv' /\ TypeOK
  BY NextInv DEF AwakeInv, IInv
<1>2. SUFFICES ASSUME faults' = 0, NEW d \in Dids PROVE Awake(d)'
  BY <1>1 DEF AwakeInv
<1>3. faults \in Nat /\ \A k : ~Fault(k)
  BY <1>1, <1>2, FaultBound DEF TypeOK, Fault
<1>4. CASE UNCHANGED vars
  BY <1>2, <1>4 DEF AwakeInv, Awake, vars, doVars
<1>5. ASSUME NEW e \in Dids, \E r \in Runs : Request(e, r)
      PROVE  Awake(d)'
  <2>1. PICK r \in Runs : Enqueue(e, r) /\ UNCHANGED faults
    BY <1>3, <1>5 DEF Request
  <2> DEFINE q == EnqueueTask(store[e], r)
  <2>2. /\ store' = [store EXCEPT ![e] = q] /\ SetAlarmIfPending(e, q)
        /\ UNCHANGED <<pc, claimed, latest, outcome, todo, items, faults>>
    BY <2>1 DEF Enqueue
  <2>3. Awake(d) /\ Awake(e)
    BY <1>2, <2>2 DEF AwakeInv
  <2>4. SoundQueue(store[e]) /\ SoundQueue(q) /\ SameKey(q.current, store[e].current)
    BY <1>1, EnqueueQueue DEF IInv, ObjectInv
  <2> HIDE DEF q
  <2>5. store[e].current = NoTask => q.current = NoTask
    BY <2>4, NoTaskKey DEF SoundQueue, QueueState
  <2>6. store'[e] = q /\ alarm'[e] = (alarm[e] \/ HasWork(q))
    BY <1>1, <2>2 DEF TypeOK, SetAlarmIfPending
  <2>7. CASE d = e
    BY <2>2, <2>3, <2>5, <2>6, <2>7 DEF Awake
  <2>8. CASE d # e
    BY <1>1, <2>2, <2>3, <2>8 DEF Awake, TypeOK, SetAlarmIfPending
  <2> QED
    BY <2>7, <2>8
<1>6. ASSUME NEW e \in Dids, AlarmStep(e)
      PROVE  Awake(d)'
  <2>1. faults' = faults /\ Awake(d) /\ Awake(e)
    <3>1. faults' = faults
      BY <1>6 DEF AlarmStep, AlarmIgnored, AlarmClaims, MarkRunning, ExecuteChunk, ExecuteFails,
        MarkProgress, MarkComplete, SaveSettled, MarkFailed, SaveFailed, WriteNextItem
    <3> QED
      BY <1>2, <3>1 DEF AwakeInv
  <2>2. CASE d # e
    <3>1. store'[d] = store[d] /\ alarm'[d] = alarm[d] /\ pc'[d] = pc[d]
      BY <1>1, <1>6, <2>2 DEF TypeOK, AlarmStep, AlarmIgnored, AlarmClaims, MarkRunning,
        ExecuteChunk, ExecuteFails, MarkProgress, MarkComplete, SaveSettled, MarkFailed,
        SaveFailed, WriteNextItem, Catch, ForgetHandler, SetAlarmIfPending
    <3> QED
      BY <2>1, <3>1 DEF Awake
  <2>3. CASE AlarmIgnored(e) /\ d = e
    BY <2>1, <2>3 DEF AlarmIgnored, Awake, CanTake, HasWork
  <2>4. CASE AlarmClaims(e) /\ d = e
    <3>1. pc'[d] = "starting"
      BY <1>1, <2>4 DEF AlarmClaims, TypeOK
    <3> QED
      BY <3>1 DEF Awake
  <2>5. CASE (ExecuteChunk(e) \/ ExecuteFails(e)) /\ d = e
    <3>1. pc'[d] \in {"progress", "failing"}
      BY <1>1, <2>5 DEF ExecuteChunk, ExecuteFails, Catch, TypeOK
    <3> QED
      BY <3>1 DEF Awake
  <2>6. CASE (MarkRunning(e) \/ MarkProgress(e) \/ MarkComplete(e) \/ MarkFailed(e)) /\ d = e
    <3>1. pc'[d] # "idle"
      BY <1>1, <2>6 DEF MarkRunning, MarkProgress, MarkComplete, MarkFailed, WriteNextItem, TypeOK
    <3> QED
      BY <3>1 DEF Awake
  <2>7. CASE SaveSettled(e) /\ d = e
    <3> DEFINE cleared == ClearCurrentTask(latest[d])
               next == IF outcome[d].completed THEN cleared
                       ELSE InsertContinuationTask(cleared, Progressed(SettledTask(d), outcome[d]))
    <3>1. store' = [store EXCEPT ![d] = next] /\ SetAlarmIfPending(d, next)
      BY <2>7 DEF SaveSettled
    <3>2. cleared = [current |-> NoTask, pending |-> latest[d].pending]
      BY <1>1, ClearQueue DEF IInv, ObjectInv
    <3>3. next.current = NoTask
      BY <3>2 DEF InsertContinuationTask
    <3> HIDE DEF next
    <3> QED
      BY <1>1, <3>1, <3>3, SavedAwake
  <2>8. CASE SaveFailed(e) /\ d = e
    <3>1. ClearCurrentTask(latest[d]).current = NoTask
      BY <1>1, ClearQueue DEF IInv, ObjectInv
    <3> QED
      BY <1>1, <2>8, <3>1, SavedAwake DEF SaveFailed
  <2> QED
    BY <1>6, <2>2, <2>3, <2>4, <2>5, <2>6, <2>7, <2>8 DEF AlarmStep
<1>7. ASSUME NEW e \in Dids PROVE ~FaultStep(e)
  BY <1>3 DEF FaultStep, SettleWriteFails, HandlerDies
<1> QED
  BY <1>4, <1>5, <1>6, <1>7 DEF Next

(* As long as nothing crashed, a queue with work has an alarm or is being  *)
(* worked on: an alarm that finds nothing to take is not the last one that *)
(* some waiting task was counting on.                                      *)
THEOREM WorkStaysAwake == Spec => []WorkHasAlarm
<1>1. AwakeInv => WorkHasAlarm
  BY DEF AwakeInv, Awake, WorkHasAlarm
<1> QED
  BY InitAwake, NextAwake, <1>1, PTL DEF Spec

-----------------------------------------------------------------------------
(***************************************************************************)
(* The line of a queue                                                     *)
(***************************************************************************)
(* The runs of a task are of its mode; a bulk task has one.                *)
Owned(t) ==
  /\ \A r \in ToSet(t.runIds) : Kind[r] = t.mode
  /\ IsBulk(t) => \E r \in Runs : t.runIds = <<r>>

OwnedQueue(q) == SoundQueue(q) /\ \A i \in 1..Len(Line(q)) : Owned(Line(q)[i])

Progress(t) == <<t.mode, t.remaining, t.cursor>>

(* Queue n has the tasks of q at their places, with their progress, and    *)
(* maybe with more runs; other tasks come after them.                      *)
Keeps(q, n) ==
  /\ n.current = NoTask <=> q.current = NoTask
  /\ Len(Line(q)) <= Len(Line(n))
  /\ \A i \in 1..Len(Line(q)) :
       /\ Progress(Line(n)[i]) = Progress(Line(q)[i])
       /\ ToSet(Line(q)[i].runIds) \subseteq ToSet(Line(n)[i].runIds)

(* What the two action properties ask of a step from queue q to queue n    *)
(* for a run r that both hold.                                             *)
NotWorse(q, n, r) ==
  /\ Line(n)[Place(n, r)].remaining <= Line(q)[Place(q, r)].remaining
  /\ Line(n)[Place(n, r)].cursor >= Line(q)[Place(q, r)].cursor
  /\ Kind[r] = "head" =>
       /\ Place(n, r) <= Place(q, r)
       /\ HeadIsNext(q, r) => HeadIsNext(n, r) \/ r \in ToSet(n.current.runIds)

(* The line is the current task, if there is one, and the pending ones.    *)
LEMMA LineShape ==
  ASSUME NEW q, SoundQueue(q)
  PROVE  /\ Line(q) \in Seq(Task) /\ Len(Line(q)) \in Nat
         /\ q.pending \in Seq(Task) /\ Len(q.pending) \in Nat
         /\ DOMAIN q.pending = 1..Len(q.pending)
         /\ q.current = NoTask => Line(q) = q.pending
         /\ q.current # NoTask =>
              /\ Len(Line(q)) = Len(q.pending) + 1
              /\ Line(q)[1] = q.current
              /\ \A i \in 1..Len(q.pending) : Line(q)[i + 1] = q.pending[i]
<1>1. /\ q.pending \in Seq(Task) /\ Len(q.pending) \in Nat
      /\ DOMAIN q.pending = 1..Len(q.pending)
  BY LenProperties DEF SoundQueue, QueueState
<1>2. CASE q.current = NoTask
  BY <1>1, <1>2 DEF Line
<1>3. CASE q.current # NoTask
  <2> DEFINE one == <<q.current>>
  <2>1. q.current \in Task
    BY <1>3 DEF SoundQueue, LiveTask
  <2>2. one \in Seq(Task) /\ Len(one) = 1 /\ one[1] = q.current
    BY <2>1
  <2> HIDE DEF one
  <2>3. /\ one \o q.pending \in Seq(Task)
        /\ Len(one \o q.pending) = 1 + Len(q.pending)
        /\ \A i \in 1..(1 + Len(q.pending)) :
             (one \o q.pending)[i] = IF i <= 1 THEN one[i] ELSE q.pending[i - 1]
    BY <1>1, <2>2, ConcatProperties
  <2>4. Line(q) = one \o q.pending
    BY <1>3 DEF Line, one
  <2>5. Line(q)[1] = q.current
    <3>1. 1 \in 1..(1 + Len(q.pending))
      BY <1>1
    <3> QED
      BY <3>1, <2>2, <2>3, <2>4
  <2>6. ASSUME NEW i \in 1..Len(q.pending) PROVE Line(q)[i + 1] = q.pending[i]
    <3>1. i + 1 \in 1..(1 + Len(q.pending)) /\ ~(i + 1 <= 1) /\ (i + 1) - 1 = i
      BY <1>1
    <3> QED
      BY <3>1, <2>3, <2>4
  <2> QED
    BY <1>1, <1>3, <2>3, <2>4, <2>5, <2>6
<1> QED
  BY <1>2, <1>3

(* The tasks in the line are live and no two have one key.                 *)
LEMMA LineSound ==
  ASSUME NEW q, SoundQueue(q)
  PROVE  /\ \A i \in 1..Len(Line(q)) : LiveTask(Line(q)[i])
         /\ \A i, j \in 1..Len(Line(q)) : SameKey(Line(q)[i], Line(q)[j]) => i = j
<1>1. CASE q.current = NoTask
  BY <1>1, LineShape DEF SoundQueue, DistinctKeys
<1>2. CASE q.current # NoTask
  <2>1. /\ Len(q.pending) \in Nat /\ DOMAIN q.pending = 1..Len(q.pending)
        /\ Len(Line(q)) = Len(q.pending) + 1
        /\ Line(q)[1] = q.current
        /\ \A i \in 1..Len(q.pending) : Line(q)[i + 1] = q.pending[i]
    BY <1>2, LineShape
  <2>2. \A i \in 1..Len(Line(q)) :
          i = 1 \/ (i - 1 \in DOMAIN q.pending /\ Line(q)[i] = q.pending[i - 1])
    <3> SUFFICES ASSUME NEW i \in 1..Len(Line(q)), i # 1
                 PROVE  i - 1 \in DOMAIN q.pending /\ Line(q)[i] = q.pending[i - 1]
      OBVIOUS
    <3>1. i - 1 \in 1..Len(q.pending) /\ (i - 1) + 1 = i
      BY <2>1
    <3> QED
      BY <2>1, <3>1
  <2>3. ASSUME NEW i \in 1..Len(Line(q)) PROVE LiveTask(Line(q)[i])
    BY <1>2, <2>1, <2>2 DEF SoundQueue
  <2>4. ASSUME NEW i \in 1..Len(Line(q)), NEW j \in 1..Len(Line(q)),
               SameKey(Line(q)[i], Line(q)[j])
        PROVE  i = j
    <3>1. \A k \in DOMAIN q.pending :
            ~SameKey(q.current, q.pending[k]) /\ ~SameKey(q.pending[k], q.current)
      BY DEF SoundQueue, DistinctKeys, SameKey, IsHead
    <3>2. CASE i = 1 \/ j = 1
      BY <2>1, <2>2, <2>4, <3>1, <3>2
    <3>3. CASE i # 1 /\ j # 1
      <4>1. i - 1 = j - 1
        BY <2>2, <2>4, <3>3 DEF SoundQueue, DistinctKeys
      <4> QED
        BY <4>1, <2>1
    <3> QED
      BY <3>2, <3>3
  <2> QED
    BY <2>3, <2>4
<1> QED
  BY <1>1, <1>2

(* What a queue holds is in its line.                                      *)
LEMMA LineHolds ==
  ASSUME NEW q, SoundQueue(q), NEW r
  PROVE  Holds(q, r) <=> \E i \in 1..Len(Line(q)) : r \in ToSet(Line(q)[i].runIds)
<1>1. CASE q.current = NoTask
  <2>1. ToSet(NoTask.runIds) = {}
    BY DEF NoTask, ToSet
  <2> QED
    BY <1>1, <2>1, LineShape DEF Holds
<1>2. CASE q.current # NoTask
  <2>1. /\ Len(q.pending) \in Nat /\ DOMAIN q.pending = 1..Len(q.pending)
        /\ Len(Line(q)) = Len(q.pending) + 1
        /\ Line(q)[1] = q.current
        /\ \A i \in 1..Len(q.pending) : Line(q)[i + 1] = q.pending[i]
    BY <1>2, LineShape
  <2>2. 1 \in 1..Len(Line(q)) /\ \A i \in DOMAIN q.pending : i + 1 \in 1..Len(Line(q))
    BY <2>1
  <2>3. Holds(q, r) => \E i \in 1..Len(Line(q)) : r \in ToSet(Line(q)[i].runIds)
    BY <2>1, <2>2 DEF Holds
  <2>4. ASSUME NEW i \in 1..Len(Line(q)), r \in ToSet(Line(q)[i].runIds)
        PROVE  Holds(q, r)
    <3>1. CASE i = 1
      BY <2>1, <2>4, <3>1 DEF Holds
    <3>2. CASE i # 1
      <4>1. i - 1 \in 1..Len(q.pending) /\ (i - 1) + 1 = i
        BY <2>1, <3>2
      <4> QED
        BY <2>1, <2>4, <4>1 DEF Holds
    <3> QED
      BY <3>1, <3>2
  <2> QED
    BY <2>3, <2>4
<1> QED
  BY <1>1, <1>2

(* A run is in one task of the line, and that is its place.                *)
LEMMA PlaceOf ==
  ASSUME NEW q, OwnedQueue(q), NEW r \in Runs, NEW i \in 1..Len(Line(q)),
         r \in ToSet(Line(q)[i].runIds)
  PROVE  Place(q, r) = i
<1> DEFINE L == Line(q)
           I == {j \in 1..Len(L) : r \in ToSet(L[j].runIds)}
<1>1. \A j, k \in 1..Len(L) : SameKey(L[j], L[k]) => j = k
  BY LineSound DEF OwnedQueue
<1>2. \A j \in 1..Len(L) : Owned(L[j])
  BY DEF OwnedQueue
<1>3. ASSUME NEW j \in 1..Len(L), r \in ToSet(L[j].runIds) PROVE j = i
  <2>1. L[j].mode = Kind[r] /\ L[i].mode = Kind[r]
    BY <1>2, <1>3 DEF Owned
  <2>2. CASE IsHead(L[i])
    BY <1>1, <2>1, <2>2 DEF SameKey, IsHead
  <2>3. CASE ~IsHead(L[i])
    <3>1. PICK x \in Runs : L[i].runIds = <<x>>
      BY <1>2, <2>3 DEF Owned, IsHead, IsBulk
    <3>2. PICK y \in Runs : L[j].runIds = <<y>>
      BY <1>2, <2>1, <2>3 DEF Owned, IsHead, IsBulk
    <3>3. ToSet(<<x>>) = {x} /\ ToSet(<<y>>) = {y}
      BY DEF ToSet
    <3>4. x = r /\ y = r
      BY <3>1, <3>2, <3>3, <1>3
    <3> QED
      BY <1>1, <2>1, <3>1, <3>2, <3>4 DEF SameKey
  <2> QED
    BY <2>2, <2>3
<1>4. I = {i}
  BY <1>3
<1>5. Place(q, r) = IF I # {} THEN Min(I) ELSE 0
  BY DEF Place, SelectInSeq
<1>6. I \subseteq Nat
  OBVIOUS
<1>7. Min(I) \in I
  BY <1>4, <1>6, MinOfNats
<1> QED
  BY <1>4, <1>5, <1>7

(* A queue that keeps the tasks of another is not worse for any run of it. *)
LEMMA KeptPlace ==
  ASSUME NEW q, NEW n, OwnedQueue(q), OwnedQueue(n), Keeps(q, n), NEW r \in Runs, Holds(q, r)
  PROVE  NotWorse(q, n, r)
<1>1. SoundQueue(q) /\ SoundQueue(n)
  BY DEF OwnedQueue
<1>2. Len(Line(q)) \in Nat /\ Len(Line(n)) \in Nat /\ Len(Line(q)) <= Len(Line(n))
  BY <1>1, LineShape DEF Keeps
<1>3. PICK i \in 1..Len(Line(q)) : r \in ToSet(Line(q)[i].runIds)
  BY <1>1, LineHolds
<1>4. /\ i \in 1..Len(Line(n)) /\ r \in ToSet(Line(n)[i].runIds)
      /\ Progress(Line(n)[i]) = Progress(Line(q)[i])
  BY <1>2, <1>3 DEF Keeps
<1>5. Place(q, r) = i /\ Place(n, r) = i
  BY <1>3, <1>4, PlaceOf
<1>6. LiveTask(Line(q)[i])
  BY <1>1, <1>3, LineSound
<1>7. Line(q)[i].remaining \in Nat /\ Line(q)[i].cursor \in Nat /\ i \in Nat
  BY <1>2, <1>3, <1>6, TaskConstants DEF LiveTask, Task
<1>8. ASSUME HeadIsNext(q, r) PROVE HeadIsNext(n, r)
  <2>1. /\ Len(q.pending) \in Nat /\ q.pending # <<>> /\ q.pending \in Seq(Task)
    BY <1>1, <1>8, LineShape DEF HeadIsNext
  <2>2. 1 \in 1..Len(q.pending)
    BY <2>1, EmptySeq
  <2>3. \A x : x \in Seq(Task) /\ 1 \in 1..Len(x) => x # <<>>
    OBVIOUS
  <2>4. CASE q.current = NoTask
    <3>1. /\ Line(q) = q.pending /\ Line(n) = n.pending
          /\ n.pending \in Seq(Task)
      BY <1>1, <2>4, LineShape DEF Keeps
    <3>2. 1 \in 1..Len(n.pending)
      BY <1>2, <2>2, <3>1
    <3> QED
      BY <1>8, <2>2, <2>3, <3>1, <3>2 DEF Keeps, HeadIsNext, Progress, IsHead
  <2>5. CASE q.current # NoTask
    <3>1. /\ Len(Line(q)) = Len(q.pending) + 1 /\ Line(q)[1 + 1] = q.pending[1]
      BY <1>1, <2>2, <2>5, LineShape
    <3>2. /\ Len(Line(n)) = Len(n.pending) + 1
          /\ n.pending \in Seq(Task) /\ Len(n.pending) \in Nat
          /\ \A j \in 1..Len(n.pending) : Line(n)[j + 1] = n.pending[j]
      BY <1>1, <2>5, LineShape DEF Keeps
    <3>3. 1 + 1 \in 1..Len(Line(q)) /\ 1 \in 1..Len(n.pending)
      BY <1>2, <2>1, <2>2, <3>1, <3>2
    <3>4. Line(n)[1 + 1] = n.pending[1]
      BY <3>2, <3>3
    <3>5. /\ Progress(Line(n)[1 + 1]) = Progress(Line(q)[1 + 1])
          /\ ToSet(Line(q)[1 + 1].runIds) \subseteq ToSet(Line(n)[1 + 1].runIds)
      BY <3>3 DEF Keeps
    <3> QED
      BY <1>8, <2>3, <3>1, <3>2, <3>3, <3>4, <3>5 DEF HeadIsNext, Progress, IsHead
  <2> QED
    BY <2>4, <2>5
<1> QED
  BY <1>4, <1>5, <1>7, <1>8 DEF NotWorse, Progress

(* A queue keeps its own tasks, and keeping is transitive.                 *)
LEMMA KeepsSelf ==
  ASSUME NEW q, SoundQueue(q)
  PROVE  Keeps(q, q)
BY LineShape DEF Keeps

LEMMA KeepsKept ==
  ASSUME NEW q, NEW n, NEW m, SoundQueue(q), SoundQueue(n), SoundQueue(m),
         Keeps(q, n), Keeps(n, m)
  PROVE  Keeps(q, m)
<1>1. /\ Len(Line(q)) \in Nat /\ Len(Line(n)) \in Nat /\ Len(Line(m)) \in Nat
      /\ Len(Line(q)) <= Len(Line(n)) /\ Len(Line(n)) <= Len(Line(m))
  BY LineShape DEF Keeps
<1>2. \A i \in 1..Len(Line(q)) : i \in 1..Len(Line(n))
  BY <1>1
<1>3. ASSUME NEW i \in 1..Len(Line(q))
      PROVE  /\ Progress(Line(m)[i]) = Progress(Line(q)[i])
             /\ ToSet(Line(q)[i].runIds) \subseteq ToSet(Line(m)[i].runIds)
  <2>1. /\ ToSet(Line(q)[i].runIds) \subseteq ToSet(Line(n)[i].runIds)
        /\ ToSet(Line(n)[i].runIds) \subseteq ToSet(Line(m)[i].runIds)
    BY <1>2 DEF Keeps
  <2>2. Progress(Line(m)[i]) = Progress(Line(q)[i])
    BY <1>2 DEF Keeps
  <2> QED
    BY <2>1, <2>2
<1>4. m.current = NoTask <=> q.current = NoTask
  BY DEF Keeps
<1>5. Len(Line(q)) <= Len(Line(m))
  BY <1>1
<1> QED
  BY <1>3, <1>4, <1>5 DEF Keeps

LEMMA NewTaskOwned ==
  ASSUME NEW r \in Runs
  PROVE  Owned(NewTask(r))
<1>1. NewTask(r).runIds = <<r>> /\ NewTask(r).mode = Kind[r]
  BY DEF NewTask
<1>2. ToSet(<<r>>) = {r}
  BY DEF ToSet
<1> QED
  BY <1>1, <1>2 DEF Owned

(* The runs of a head task that one more run joins are its own.            *)
LEMMA AppendRunOwned ==
  ASSUME NEW t, LiveTask(t), Owned(t), IsHead(t), NEW r \in Runs, Kind[r] = "head"
  PROVE  Owned(AppendRun(t, r)) /\ Progress(AppendRun(t, r)) = Progress(t)
<1>1. t \in Task /\ t.runIds \in Seq(Runs)
  BY DEF LiveTask, Task
<1>2. CASE r \in ToSet(t.runIds)
  BY <1>2 DEF AppendRun
<1>3. CASE r \notin ToSet(t.runIds)
  <2> DEFINE s == t.runIds
             u == Append(s, r)
             v == AppendRun(t, r)
  <2>1. v = [t EXCEPT !.runIds = u]
    BY <1>3 DEF AppendRun
  <2>2. v.runIds = u /\ v.mode = t.mode /\ v.remaining = t.remaining /\ v.cursor = t.cursor
    BY <1>1, <2>1 DEF Task
  <2>3. /\ Len(s) \in Nat /\ DOMAIN s = 1..Len(s) /\ DOMAIN u = 1..(Len(s) + 1)
        /\ \A i \in 1..Len(s) : u[i] = s[i]
        /\ u[Len(s) + 1] = r
    BY <1>1, LenProperties, AppendProperties
  <2> HIDE DEF s, u, v
  <2>4. \A i \in 1..(Len(s) + 1) : i \in 1..Len(s) \/ i = Len(s) + 1
    BY <2>3
  <2>5. ToSet(u) \subseteq ToSet(s) \cup {r}
    BY <2>3, <2>4 DEF ToSet
  <2>6. \A x \in ToSet(s) : Kind[x] = t.mode
    BY DEF Owned, s
  <2>7. \A x \in ToSet(u) : Kind[x] = t.mode
    BY <2>5, <2>6 DEF IsHead
  <2>8. Owned(v)
    BY <2>2, <2>7 DEF Owned, IsHead, IsBulk
  <2> QED
    BY <2>2, <2>8 DEF Progress, v
<1> QED
  BY <1>2, <1>3

(* A request keeps the line in order: it joins a head task, is there       *)
(* already, or comes last.                                                 *)
LEMMA EnqueueLine ==
  ASSUME NEW q, OwnedQueue(q), NEW r \in Runs
  PROVE  OwnedQueue(EnqueueTask(q, r)) /\ Keeps(q, EnqueueTask(q, r))
<1> DEFINE t == NewTask(r)
           i == SelectInSeq(q.pending, IsHead)
           n == EnqueueTask(q, r)
<1>1. /\ q \in QueueState /\ q.pending \in Seq(Task)
      /\ Len(q.pending) \in Nat /\ DOMAIN q.pending = 1..Len(q.pending)
      /\ SoundQueue(q) /\ SoundQueue(n) /\ SameKey(n.current, q.current)
  BY EnqueueQueue, LenProperties DEF OwnedQueue, SoundQueue, QueueState
<1>2. /\ i = 0 => \A j \in 1..Len(q.pending) : ~IsHead(q.pending[j])
      /\ i # 0 => i \in 1..Len(q.pending) /\ IsHead(q.pending[i])
  BY <1>1, SelectHead
<1>3. n.current = NoTask <=> q.current = NoTask
  BY <1>1, NoTaskKey DEF QueueState, SoundQueue
<1>4. t \in Task /\ Owned(t)
  BY NewTaskLive, NewTaskOwned DEF LiveTask
<1>5. \A j \in 1..Len(Line(q)) : LiveTask(Line(q)[j]) /\ Owned(Line(q)[j])
  BY <1>1, LineSound DEF OwnedQueue
<1>6. Len(Line(q)) \in Nat
  BY <1>1, LineShape
<1> HIDE DEF t, i, n
<1> SUFFICES OwnedQueue(n) /\ Keeps(q, n)
  BY DEF n
<1>7. ASSUME NEW k \in 1..Len(Line(q)), IsHead(Line(q)[k]), Kind[r] = "head",
             Len(Line(n)) = Len(Line(q)), Line(n)[k] = AppendRun(Line(q)[k], r),
             \A j \in 1..Len(Line(q)) : j # k => Line(n)[j] = Line(q)[j]
      PROVE  OwnedQueue(n) /\ Keeps(q, n)
  <2>1. /\ Owned(Line(n)[k]) /\ Progress(Line(n)[k]) = Progress(Line(q)[k])
        /\ ToSet(Line(q)[k].runIds) \subseteq ToSet(Line(n)[k].runIds)
    BY <1>5, <1>7, AppendRunOwned, AppendRunSet
  <2> QED
    BY <1>1, <1>3, <1>5, <1>6, <1>7, <2>1 DEF OwnedQueue, Keeps
<1>8. CASE n = [q EXCEPT !.pending = Append(q.pending, t)]
  <2>1. n.current = q.current /\ n.pending = Append(q.pending, t)
    BY <1>1, <1>8 DEF QueueState
  <2>2. /\ Len(n.pending) = Len(q.pending) + 1
        /\ \A j \in 1..Len(q.pending) : n.pending[j] = q.pending[j]
        /\ n.pending[Len(q.pending) + 1] = t
    BY <1>1, <1>4, <2>1, AppendProperties
  <2>3. /\ Len(Line(n)) = Len(Line(q)) + 1
        /\ \A j \in 1..Len(Line(q)) : Line(n)[j] = Line(q)[j]
        /\ Line(n)[Len(Line(q)) + 1] = t
    <3>1. CASE q.current = NoTask
      BY <1>1, <2>1, <2>2, <3>1, LineShape
    <3>2. CASE q.current # NoTask
      <4>1. /\ Len(Line(q)) = Len(q.pending) + 1 /\ Line(q)[1] = q.current
            /\ \A j \in 1..Len(q.pending) : Line(q)[j + 1] = q.pending[j]
        BY <1>1, <3>2, LineShape
      <4>2. /\ Len(Line(n)) = Len(n.pending) + 1 /\ Line(n)[1] = q.current
            /\ \A j \in 1..Len(n.pending) : Line(n)[j + 1] = n.pending[j]
        BY <1>1, <2>1, <3>2, LineShape
      <4>3. ASSUME NEW j \in 1..Len(Line(q)) PROVE Line(n)[j] = Line(q)[j]
        <5>1. CASE j = 1
          BY <4>1, <4>2, <5>1
        <5>2. CASE j # 1
          <6>1. j - 1 \in 1..Len(q.pending) /\ j - 1 \in 1..Len(n.pending) /\ (j - 1) + 1 = j
            BY <1>1, <2>2, <4>1, <5>2
          <6> QED
            BY <2>2, <4>1, <4>2, <6>1
        <5> QED
          BY <5>1, <5>2
      <4>4. Line(n)[Len(Line(q)) + 1] = t
        <5>1. Len(q.pending) + 1 \in 1..Len(n.pending)
          BY <1>1, <2>2
        <5> QED
          BY <2>2, <4>1, <4>2, <5>1
      <4> QED
        BY <1>1, <2>2, <4>1, <4>2, <4>3, <4>4
    <3> QED
      BY <3>1, <3>2
  <2>4. \A j \in 1..Len(Line(n)) : j \in 1..Len(Line(q)) \/ j = Len(Line(q)) + 1
    BY <1>6, <2>3
  <2>5. \A j \in 1..Len(Line(n)) : Owned(Line(n)[j])
    BY <1>4, <1>5, <2>3, <2>4
  <2> QED
    BY <1>1, <1>3, <1>6, <2>3, <2>5 DEF OwnedQueue, Keeps
<1>9. CASE n = q
  BY <1>1, <1>9, KeepsSelf
<1>10. CASE Kind[r] = "head" /\ IsHead(q.current)
  <2>1. n = [q EXCEPT !.current = AppendRun(q.current, r)]
    BY <1>10 DEF n, EnqueueTask, EnqueueHeadTask
  <2>2. n.current = AppendRun(q.current, r) /\ n.pending = q.pending
    BY <1>1, <2>1 DEF QueueState
  <2>3. q.current # NoTask
    BY <1>10 DEF IsHead, NoTask
  <2>4. /\ Len(Line(q)) = Len(q.pending) + 1 /\ Line(q)[1] = q.current
        /\ \A j \in 1..Len(q.pending) : Line(q)[j + 1] = q.pending[j]
    BY <1>1, <2>3, LineShape
  <2>5. /\ Len(Line(n)) = Len(q.pending) + 1 /\ Line(n)[1] = n.current
        /\ \A j \in 1..Len(q.pending) : Line(n)[j + 1] = q.pending[j]
    BY <1>1, <1>3, <2>2, <2>3, LineShape
  <2>6. ASSUME NEW j \in 1..Len(Line(q)), j # 1 PROVE Line(n)[j] = Line(q)[j]
    <3>1. j - 1 \in 1..Len(q.pending) /\ (j - 1) + 1 = j
      BY <1>1, <2>4, <2>6
    <3> QED
      BY <2>4, <2>5, <3>1
  <2>7. 1 \in 1..Len(Line(q))
    BY <1>1, <2>4
  <2> QED
    BY <1>7, <1>10, <2>2, <2>4, <2>5, <2>6, <2>7
<1>11. CASE Kind[r] = "head" /\ ~IsHead(q.current) /\ i # 0
  <2>1. n = [q EXCEPT !.pending = ReplaceAt(q.pending, i, AppendRun(q.pending[i], r))]
    BY <1>11 DEF n, i, EnqueueTask, EnqueueHeadTask
  <2>2. i \in 1..Len(q.pending) /\ IsHead(q.pending[i])
    BY <1>2, <1>11
  <2>3. LiveTask(q.pending[i])
    BY <1>1, <2>2 DEF SoundQueue
  <2> DEFINE u == AppendRun(q.pending[i], r)
  <2>4. u \in Task
    BY <2>3, AppendRunLive DEF LiveTask
  <2> HIDE DEF u
  <2>5. /\ n.current = q.current
        /\ n.pending = [q.pending EXCEPT ![i] = u]
    BY <1>1, <2>1 DEF QueueState, ReplaceAt, u
  <2>6. /\ Len(n.pending) = Len(q.pending) /\ n.pending[i] = u
        /\ \A j \in 1..Len(q.pending) : j # i => n.pending[j] = q.pending[j]
    BY <1>1, <2>2, <2>4, <2>5, ExceptSeq
  <2>7. CASE q.current = NoTask
    <3>1. Line(q) = q.pending /\ Line(n) = n.pending
      BY <1>1, <2>5, <2>7, LineShape
    <3> QED
      BY <1>7, <1>11, <2>2, <2>6, <3>1 DEF u
  <2>8. CASE q.current # NoTask
    <3>1. /\ Len(Line(q)) = Len(q.pending) + 1 /\ Line(q)[1] = q.current
          /\ \A j \in 1..Len(q.pending) : Line(q)[j + 1] = q.pending[j]
      BY <1>1, <2>8, LineShape
    <3>2. /\ Len(Line(n)) = Len(q.pending) + 1 /\ Line(n)[1] = q.current
          /\ \A j \in 1..Len(q.pending) : Line(n)[j + 1] = n.pending[j]
      BY <1>1, <2>5, <2>6, <2>8, LineShape
    <3>3. ASSUME NEW j \in 1..Len(Line(q)), j # i + 1 PROVE Line(n)[j] = Line(q)[j]
      <4>1. CASE j = 1
        BY <3>1, <3>2, <4>1
      <4>2. CASE j # 1
        <5>1. j - 1 \in 1..Len(q.pending) /\ (j - 1) + 1 = j /\ j - 1 # i
          BY <1>1, <2>2, <3>1, <3>3, <4>2
        <5> QED
          BY <2>6, <3>1, <3>2, <5>1
      <4> QED
        BY <4>1, <4>2
    <3>4. i + 1 \in 1..Len(Line(q)) /\ Line(n)[i + 1] = u /\ Line(q)[i + 1] = q.pending[i]
      BY <1>1, <2>2, <2>6, <3>1, <3>2
    <3> QED
      BY <1>7, <1>11, <2>2, <3>1, <3>2, <3>3, <3>4 DEF u
  <2> QED
    BY <2>7, <2>8
<1>12. CASE Kind[r] = "head" /\ ~IsHead(q.current) /\ i = 0
  BY <1>8, <1>12 DEF n, i, t, EnqueueTask, EnqueueHeadTask
<1>13. CASE Kind[r] # "head"
  BY <1>8, <1>9, <1>13 DEF n, t, EnqueueTask, EnqueueBulkTask
<1> QED
  BY <1>10, <1>11, <1>12, <1>13 DEF n

(* A run's tasks in two queues, where they are.                            *)
LEMMA NotWorseAt ==
  ASSUME NEW q, NEW n, OwnedQueue(q), OwnedQueue(n), NEW r \in Runs,
         NEW i \in 1..Len(Line(q)), r \in ToSet(Line(q)[i].runIds),
         NEW j \in 1..Len(Line(n)), r \in ToSet(Line(n)[j].runIds),
         Line(n)[j].remaining <= Line(q)[i].remaining,
         Line(n)[j].cursor >= Line(q)[i].cursor,
         Kind[r] = "head" => j <= i,
         HeadIsNext(q, r) => HeadIsNext(n, r) \/ r \in ToSet(n.current.runIds)
  PROVE  NotWorse(q, n, r)
<1>1. Place(q, r) = i /\ Place(n, r) = j
  BY PlaceOf
<1> QED
  BY <1>1 DEF NotWorse

LEMMA LineProgress ==
  ASSUME NEW q, OwnedQueue(q), NEW i \in 1..Len(Line(q))
  PROVE  Line(q)[i].remaining \in Nat /\ Line(q)[i].cursor \in Nat
<1>1. LiveTask(Line(q)[i])
  BY LineSound DEF OwnedQueue
<1> QED
  BY <1>1, TaskConstants DEF LiveTask, Task

(* Claiming the first task leaves the line as it is.                       *)
LEMMA TakeLine ==
  ASSUME NEW q, OwnedQueue(q), CanTake(q)
  PROVE  /\ OwnedQueue(TakeNextTask(q))
         /\ \A r \in Runs : Holds(q, r) => NotWorse(q, TakeNextTask(q), r)
<1> DEFINE n == TakeNextTask(q)
<1>1. /\ SoundQueue(q) /\ SoundQueue(n) /\ LiveTask(Head(q.pending))
      /\ q.current = NoTask /\ q.pending # <<>>
  BY TakeQueue DEF OwnedQueue, CanTake
<1>2. /\ q.pending \in Seq(Task) /\ Len(q.pending) \in Nat /\ Line(q) = q.pending
  BY <1>1, LineShape
<1>3. /\ n.current = q.pending[1] /\ n.pending = Tail(q.pending)
      /\ Len(n.pending) = Len(q.pending) - 1
      /\ \A i \in 1..Len(n.pending) : n.pending[i] = q.pending[i + 1]
  BY <1>1, <1>2, HeadTailProperties DEF TakeNextTask
<1>4. n.current # NoTask
  BY <1>1, NoTaskKey DEF LiveTask, TakeNextTask
<1> HIDE DEF n
<1>5. /\ Len(Line(n)) = Len(n.pending) + 1 /\ Line(n)[1] = n.current
      /\ \A i \in 1..Len(n.pending) : Line(n)[i + 1] = n.pending[i]
  BY <1>1, <1>4, LineShape
<1>6. Len(Line(n)) = Len(Line(q))
  BY <1>2, <1>3, <1>5
<1>7. ASSUME NEW i \in 1..Len(Line(q)) PROVE Line(n)[i] = Line(q)[i]
  <2>1. CASE i = 1
    BY <1>2, <1>3, <1>5, <2>1
  <2>2. CASE i # 1
    <3>1. i - 1 \in 1..Len(n.pending) /\ (i - 1) + 1 = i
      BY <1>2, <1>3, <2>2
    <3> QED
      BY <1>2, <1>3, <1>5, <3>1
  <2> QED
    BY <2>1, <2>2
<1>8. OwnedQueue(n)
  BY <1>1, <1>6, <1>7 DEF OwnedQueue
<1>9. ASSUME NEW r \in Runs, Holds(q, r) PROVE NotWorse(q, n, r)
  <2>1. PICK i \in 1..Len(Line(q)) : r \in ToSet(Line(q)[i].runIds)
    BY <1>1, <1>9, LineHolds
  <2>2. i \in 1..Len(Line(n)) /\ Line(n)[i] = Line(q)[i] /\ i \in Nat
    BY <1>2, <1>6, <1>7
  <2>3. Line(q)[i].remaining \in Nat /\ Line(q)[i].cursor \in Nat
    BY LineProgress
  <2>4. HeadIsNext(q, r) => r \in ToSet(n.current.runIds)
    BY <1>3 DEF HeadIsNext
  <2> QED
    BY <1>8, <2>1, <2>2, <2>3, <2>4, NotWorseAt
<1> QED
  BY <1>8, <1>9 DEF n

(* Without its current task a queue has a shorter line.                    *)
LEMMA ClearLine ==
  ASSUME NEW q, OwnedQueue(q), q.current # NoTask
  PROVE  /\ OwnedQueue(ClearCurrentTask(q))
         /\ Line(ClearCurrentTask(q)) = q.pending
         /\ \A i \in 1..Len(q.pending) :
              i + 1 \in 1..Len(Line(q)) /\ Line(q)[i + 1] = q.pending[i]
<1> DEFINE n == ClearCurrentTask(q)
<1>1. SoundQueue(q) /\ SoundQueue(n) /\ n = [current |-> NoTask, pending |-> q.pending]
  BY ClearQueue DEF OwnedQueue
<1>2. n.current = NoTask /\ n.pending = q.pending
  BY <1>1
<1> HIDE DEF n
<1>3. Line(n) = q.pending
  BY <1>1, <1>2, LineShape
<1>4. /\ Len(q.pending) \in Nat /\ Len(Line(q)) = Len(q.pending) + 1
      /\ \A i \in 1..Len(q.pending) : Line(q)[i + 1] = q.pending[i]
  BY <1>1, LineShape
<1>5. \A i \in 1..Len(q.pending) : i + 1 \in 1..Len(Line(q))
  BY <1>4
<1>6. OwnedQueue(n)
  BY <1>1, <1>3, <1>4, <1>5 DEF OwnedQueue
<1> QED
  BY <1>3, <1>4, <1>5, <1>6 DEF n

(* The line with the continuation of the current task, which goes behind   *)
(* the head tasks that lead it.                                            *)
LEMMA ContinueLine ==
  ASSUME NEW q, OwnedQueue(q), q.current # NoTask, NEW o \in Outcome, NEW n,
         n = InsertContinuationTask(ClearCurrentTask(q), Progressed(q.current, o))
  PROVE  /\ OwnedQueue(n) /\ n.current = NoTask
         /\ \E k \in 1..(Len(q.pending) + 1) :
              /\ k # Len(q.pending) + 1 => IsBulk(q.pending[k])
              /\ Len(Line(n)) = Len(q.pending) + 1
              /\ \A j \in 1..(Len(q.pending) + 1) :
                   Line(n)[j] = IF j < k THEN q.pending[j]
                                ELSE IF j = k THEN Progressed(q.current, o) ELSE q.pending[j - 1]
<1> DEFINE s == q.pending
           t == Progressed(q.current, o)
           c == ClearCurrentTask(q)
           k == IF SelectInSeq(s, IsBulk) = 0 THEN Len(s) + 1 ELSE SelectInSeq(s, IsBulk)
           p == InsertAt(s, k, t)
<1>1. SoundQueue(q) /\ s \in Seq(Task) /\ Len(s) \in Nat /\ DOMAIN s = 1..Len(s)
  BY LineShape DEF OwnedQueue
<1>2. SoundQueue(n)
  BY <1>1, ContinueQueue
<1>3. LiveTask(t) /\ t.mode = q.current.mode /\ t.runIds = q.current.runIds
  BY <1>1, ProgressedTask DEF SoundQueue
<1>4. c = [current |-> NoTask, pending |-> s]
  BY <1>1, ClearQueue
<1>5. k \in 1..(Len(s) + 1) /\ (k # Len(s) + 1 => IsBulk(s[k]))
  <2> DEFINE b == SelectInSeq(s, IsBulk)
  <2>1. b = 0 \/ (b \in 1..Len(s) /\ IsBulk(s[b]))
    BY <1>1, SelectBulk
  <2>2. k = IF b = 0 THEN Len(s) + 1 ELSE b
    OBVIOUS
  <2> HIDE DEF b, k
  <2> QED
    BY <1>1, <2>1, <2>2
<1>6. n = [current |-> NoTask, pending |-> p]
  BY <1>4 DEF InsertContinuationTask
<1> HIDE DEF t, c, k, s
<1>7. /\ p \in Seq(Task) /\ Len(p) = Len(s) + 1
      /\ \A j \in 1..(Len(s) + 1) :
           p[j] = IF j < k THEN s[j] ELSE IF j = k THEN t ELSE s[j - 1]
  <2>1. s \in Seq(Task) /\ t \in Task /\ k \in 1..(Len(s) + 1)
    BY <1>1, <1>3, <1>5 DEF LiveTask
  <2>2. p \in Seq(Task) /\ Inserted(p, s, k, t)
    BY <2>1, InsertAtProperties
  <2> QED
    BY <2>2 DEF Inserted
<1> HIDE DEF p
<1>8. n.current = NoTask /\ n.pending = p
  BY <1>6
<1>9. Line(n) = p
  BY <1>2, <1>8, LineShape
<1>10. Owned(q.current)
  <2>1. Line(q)[1] = q.current /\ 1 \in 1..Len(Line(q))
    BY <1>1, LineShape
  <2> QED
    BY <2>1 DEF OwnedQueue
<1>11. Owned(t)
  BY <1>3, <1>10 DEF Owned, IsBulk
<1>12. \A i \in 1..Len(s) : Owned(s[i])
  <2>1. \A i \in 1..Len(s) : i + 1 \in 1..Len(Line(q)) /\ Line(q)[i + 1] = s[i]
    BY ClearLine DEF s
  <2> QED
    BY <2>1 DEF OwnedQueue
<1>13. ASSUME NEW j \in 1..Len(Line(n)) PROVE Owned(Line(n)[j])
  <2>1. CASE j < k
    <3>1. j \in 1..Len(s) /\ Line(n)[j] = s[j]
      BY <1>1, <1>5, <1>7, <1>9, <2>1
    <3> QED
      BY <1>12, <3>1
  <2>2. CASE j = k
    BY <1>5, <1>7, <1>9, <1>11, <2>2
  <2>3. CASE j > k
    <3>1. j - 1 \in 1..Len(s) /\ Line(n)[j] = s[j - 1]
      BY <1>1, <1>5, <1>7, <1>9, <2>3
    <3> QED
      BY <1>12, <3>1
  <2> QED
    BY <1>1, <1>5, <1>7, <1>9, <2>1, <2>2, <2>3
<1>14. OwnedQueue(n)
  BY <1>2, <1>13 DEF OwnedQueue
<1> QED
  BY <1>5, <1>7, <1>8, <1>9, <1>14 DEF s, t

(* The save at the end of alarm(), of a queue that was reloaded before its *)
(* D1 writes: what joined the stored queue since does not matter for the   *)
(* runs that both hold.                                                    *)
LEMMA ClearNotWorse ==
  ASSUME NEW q, NEW s, OwnedQueue(q), OwnedQueue(s), Keeps(q, s), q.current # NoTask,
         NEW r \in Runs, Holds(ClearCurrentTask(q), r)
  PROVE  NotWorse(s, ClearCurrentTask(q), r)
<1> DEFINE n == ClearCurrentTask(q)
<1>1. /\ OwnedQueue(n) /\ SoundQueue(n) /\ Line(n) = q.pending
      /\ \A i \in 1..Len(q.pending) :
           i + 1 \in 1..Len(Line(q)) /\ Line(q)[i + 1] = q.pending[i]
  BY ClearLine DEF OwnedQueue
<1>2. n = [current |-> NoTask, pending |-> q.pending]
  BY ClearQueue DEF OwnedQueue
<1> HIDE DEF n
<1>3. PICK j \in 1..Len(Line(n)) : r \in ToSet(Line(n)[j].runIds)
  BY <1>1, LineHolds DEF n
<1>4. /\ j + 1 \in 1..Len(Line(q)) /\ Line(q)[j + 1] = Line(n)[j]
      /\ r \in ToSet(Line(q)[j + 1].runIds)
  BY <1>1, <1>3
<1>5. /\ Len(Line(q)) \in Nat /\ Len(Line(s)) \in Nat /\ Len(Line(q)) <= Len(Line(s))
      /\ s.current # NoTask /\ Len(q.pending) \in Nat
  BY LineShape DEF Keeps, OwnedQueue
<1>6. /\ j + 1 \in 1..Len(Line(s))
      /\ Progress(Line(s)[j + 1]) = Progress(Line(n)[j])
      /\ r \in ToSet(Line(s)[j + 1].runIds)
  BY <1>4, <1>5 DEF Keeps
<1>7. Line(n)[j].remaining \in Nat /\ Line(n)[j].cursor \in Nat
  BY <1>1, <1>3, LineProgress
<1>8. ASSUME HeadIsNext(s, r) PROVE HeadIsNext(n, r)
  <2>1. /\ s.pending \in Seq(Task) /\ s.pending # <<>> /\ Len(s.pending) \in Nat
        /\ Len(Line(s)) = Len(s.pending) + 1
        /\ \A i \in 1..Len(s.pending) : Line(s)[i + 1] = s.pending[i]
    BY <1>5, <1>8, LineShape DEF HeadIsNext, OwnedQueue
  <2>2. 1 \in 1..Len(s.pending)
    BY <2>1, EmptySeq
  <2>3. 2 \in 1..Len(Line(s)) /\ Line(s)[2] = s.pending[1]
    <3>1. Line(s)[1 + 1] = s.pending[1] /\ 1 + 1 = 2
      BY <2>1, <2>2
    <3> QED
      BY <2>1, <2>2, <3>1
  <2>4. Place(s, r) = 2 /\ Place(s, r) = j + 1
    BY <1>6, <1>8, <2>3, PlaceOf DEF HeadIsNext
  <2>5. j = 1
    BY <1>3, <1>1, <1>5, <2>4
  <2>6. IsHead(Line(n)[1])
    BY <1>6, <1>8, <2>3, <2>5 DEF Progress, IsHead, HeadIsNext
  <2>7. n.pending = Line(n) /\ n.pending \in Seq(Task)
    BY <1>1, <1>2, LineShape
  <2>8. n.pending # <<>>
    BY <1>3, <2>7
  <2> QED
    BY <1>3, <2>5, <2>6, <2>7, <2>8 DEF HeadIsNext
<1>9. j <= j + 1
  BY <1>1, <1>3, <1>5
<1> QED
  BY <1>1, <1>3, <1>6, <1>7, <1>8, <1>9, NotWorseAt DEF Progress, n

(* An unfinished chunk has used up no budget it did not have, and moved no *)
(* cursor back.                                                            *)
LEMMA OutcomeProgress ==
  ASSUME NEW t, LiveTask(t), NEW c, Progress(c) = Progress(t),
         NEW o \in Outcomes(c), ~o.completed
  PROVE  /\ ~IsHead(t)
         /\ Progressed(t, o).remaining <= t.remaining
         /\ Progressed(t, o).cursor >= t.cursor
         /\ Progressed(t, o).runIds = t.runIds
<1>1. /\ t \in Task /\ t.remaining \in Nat /\ t.cursor \in Nat
      /\ c.mode = t.mode /\ c.cursor = t.cursor /\ c.remaining = t.remaining
  BY TaskConstants DEF LiveTask, Task, Progress
<1>2. /\ o.processed \in Nat /\ o.cursor \in Nat
      /\ t.mode = "backfill" \/ (t.mode = "reconcile" /\ o.cursor > t.cursor)
  <2>1. o \notin {Completed}
    BY DEF Completed
  <2>2. /\ o \in [completed: {FALSE}, processed: 0..ChunkPosts, cursor: 0..MaxCursor]
        /\ \/ c.mode = "backfill"
           \/ c.mode = "reconcile" /\ o.cursor > c.cursor
    BY <2>1 DEF Outcomes
  <2>3. o.processed \in Nat /\ o.cursor \in Nat
    BY <2>2, TaskConstants
  <2> QED
    BY <1>1, <2>2, <2>3
<1>3. o \in Outcome
  BY OutcomesTyped
<1>4. Progressed(t, o).runIds = t.runIds
  BY <1>3, ProgressedTask
<1>5. /\ Progressed(t, o).remaining =
           IF t.mode # "backfill" THEN t.remaining
           ELSE IF o.processed < t.remaining THEN t.remaining - o.processed ELSE 0
      /\ Progressed(t, o).cursor = IF t.mode = "reconcile" THEN o.cursor ELSE t.cursor
  BY <1>1 DEF Progressed, Task
<1> QED
  BY <1>1, <1>2, <1>4, <1>5 DEF IsHead

LEMMA ContinueNotWorse ==
  ASSUME NEW q, NEW s, OwnedQueue(q), OwnedQueue(s), Keeps(q, s), q.current # NoTask,
         NEW c, Progress(c) = Progress(q.current), NEW o \in Outcomes(c), ~o.completed,
         NEW n, n = InsertContinuationTask(ClearCurrentTask(q), Progressed(q.current, o)),
         NEW r \in Runs, Holds(n, r)
  PROVE  NotWorse(s, n, r)
<1>1. o \in Outcome /\ SoundQueue(q) /\ LiveTask(q.current)
  BY OutcomesTyped DEF OwnedQueue, SoundQueue
<1>2. /\ OwnedQueue(n) /\ SoundQueue(n) /\ n.current = NoTask
  BY <1>1, ContinueLine DEF OwnedQueue
<1>3. PICK k \in 1..(Len(q.pending) + 1) :
        /\ k # Len(q.pending) + 1 => IsBulk(q.pending[k])
        /\ Len(Line(n)) = Len(q.pending) + 1
        /\ \A j \in 1..(Len(q.pending) + 1) :
             Line(n)[j] = IF j < k THEN q.pending[j]
                          ELSE IF j = k THEN Progressed(q.current, o) ELSE q.pending[j - 1]
  BY <1>1, ContinueLine
<1>4. /\ Len(q.pending) \in Nat /\ Len(Line(q)) = Len(q.pending) + 1 /\ Line(q)[1] = q.current
      /\ \A i \in 1..Len(q.pending) : Line(q)[i + 1] = q.pending[i]
  BY <1>1, LineShape
<1>5. /\ Len(Line(s)) \in Nat /\ Len(Line(q)) <= Len(Line(s)) /\ s.current # NoTask
      /\ s.pending \in Seq(Task) /\ Len(s.pending) \in Nat
      /\ Len(Line(s)) = Len(s.pending) + 1
      /\ \A i \in 1..Len(s.pending) : Line(s)[i + 1] = s.pending[i]
  BY LineShape DEF Keeps, OwnedQueue
<1>6. PICK j \in 1..Len(Line(n)) : r \in ToSet(Line(n)[j].runIds)
  BY <1>2, LineHolds
<1>7. j \in 1..(Len(q.pending) + 1)
  BY <1>3, <1>6
<1>8. Line(n)[j].remaining \in Nat /\ Line(n)[j].cursor \in Nat
  BY <1>2, <1>6, LineProgress
<1>9. CASE j = k
  <2>1. Line(n)[j] = Progressed(q.current, o)
    BY <1>3, <1>7, <1>9
  <2>2. /\ ~IsHead(q.current)
        /\ Line(n)[j].remaining <= q.current.remaining
        /\ Line(n)[j].cursor >= q.current.cursor
        /\ r \in ToSet(q.current.runIds)
    BY <1>1, <1>6, <2>1, OutcomeProgress
  <2>3. 1 \in 1..Len(Line(q)) /\ 1 \in 1..Len(Line(s))
    BY <1>4, <1>5
  <2>4. /\ Progress(Line(s)[1]) = Progress(q.current)
        /\ r \in ToSet(Line(s)[1].runIds)
    BY <1>4, <2>2, <2>3 DEF Keeps
  <2>5. Owned(q.current)
    BY <1>4, <2>3 DEF OwnedQueue
  <2>6. Kind[r] # "head"
    BY <2>2, <2>5 DEF Owned, IsHead
  <2>7. ~HeadIsNext(s, r)
    <3>1. SUFFICES ASSUME HeadIsNext(s, r) PROVE FALSE
      OBVIOUS
    <3>2. 1 \in 1..Len(s.pending)
      BY <1>5, <3>1, EmptySeq DEF HeadIsNext
    <3>3. Line(s)[1 + 1] = s.pending[1] /\ 1 + 1 \in 1..Len(Line(s))
      BY <1>5, <3>2
    <3>4. Owned(Line(s)[1 + 1])
      BY <3>3 DEF OwnedQueue
    <3> QED
      BY <2>6, <3>1, <3>3, <3>4 DEF HeadIsNext, Owned, IsHead
  <2> QED
    BY <1>2, <1>6, <2>2, <2>3, <2>4, <2>6, <2>7, NotWorseAt DEF Progress
<1>10. ASSUME NEW i \in 1..Len(q.pending), Line(n)[j] = q.pending[i],
              (i = j /\ j < k) \/ (i = j - 1 /\ j > k)
       PROVE  NotWorse(s, n, r)
  <2>1. i + 1 \in 1..Len(Line(q)) /\ Line(q)[i + 1] = q.pending[i] /\ i + 1 \in 1..Len(Line(s))
    BY <1>4, <1>5
  <2>2. /\ Progress(Line(s)[i + 1]) = Progress(Line(n)[j])
        /\ r \in ToSet(Line(s)[i + 1].runIds)
    BY <1>6, <1>10, <2>1 DEF Keeps
  <2>3. j <= i + 1
    BY <1>3, <1>4, <1>7, <1>10
  <2>4. ASSUME HeadIsNext(s, r) PROVE HeadIsNext(n, r)
    <3>1. 1 \in 1..Len(s.pending)
      BY <1>5, <2>4, EmptySeq DEF HeadIsNext
    <3>2. Line(s)[1 + 1] = s.pending[1] /\ 1 + 1 \in 1..Len(Line(s))
      BY <1>5, <3>1
    <3>3. Place(s, r) = 1 + 1 /\ Place(s, r) = i + 1
      BY <2>1, <2>2, <2>4, <3>2, PlaceOf DEF HeadIsNext
    <3>4. i = 1
      BY <1>4, <3>3
    <3>5. IsHead(q.pending[1]) /\ IsHead(Line(n)[j])
      BY <1>10, <2>2, <2>4, <3>2, <3>4 DEF Progress, IsHead, HeadIsNext
    <3>6. k # 1
      BY <1>3, <1>4, <3>4, <3>5 DEF IsHead, IsBulk
    <3>7. j = 1
      BY <1>3, <1>4, <1>7, <1>10, <3>4, <3>6
    <3>8. n.pending = Line(n) /\ n.pending \in Seq(Task)
      BY <1>2, LineShape
    <3>9. n.pending # <<>>
      BY <1>6, <3>8
    <3> QED
      BY <1>6, <3>5, <3>7, <3>8, <3>9 DEF HeadIsNext
  <2>5. /\ Line(n)[j].remaining <= Line(s)[i + 1].remaining
        /\ Line(n)[j].cursor >= Line(s)[i + 1].cursor
    BY <1>8, <2>2 DEF Progress
  <2> DEFINE l == i + 1
  <2> HIDE DEF l
  <2>6. /\ l \in 1..Len(Line(s)) /\ r \in ToSet(Line(s)[l].runIds) /\ j <= l
        /\ Line(n)[j].remaining <= Line(s)[l].remaining
        /\ Line(n)[j].cursor >= Line(s)[l].cursor
    BY <2>1, <2>2, <2>3, <2>5 DEF l
  <2> QED
    BY <1>2, <1>6, <2>4, <2>6, NotWorseAt
<1>11. CASE j < k
  <2>1. j \in 1..Len(q.pending) /\ Line(n)[j] = q.pending[j]
    BY <1>3, <1>4, <1>7, <1>11
  <2> QED
    BY <1>10, <1>11, <2>1
<1>12. CASE j > k
  <2>1. j - 1 \in 1..Len(q.pending) /\ Line(n)[j] = q.pending[j - 1]
    BY <1>3, <1>4, <1>7, <1>12
  <2> QED
    BY <1>10, <1>12, <2>1
<1> QED
  BY <1>3, <1>4, <1>7, <1>9, <1>11, <1>12

-----------------------------------------------------------------------------
(***************************************************************************)
(* The order of the tasks                                                  *)
(***************************************************************************)
Executed == {"progress", "completing", "saving"}

(* Every task has runs of its own kind; the claimed task has the progress  *)
(* of the stored current one; the reloaded queue differs from the stored   *)
(* one by requests only; and the outcome alarm() is about to save is one   *)
(* of its claimed task.                                                    *)
OrderInv(d) ==
  /\ OwnedQueue(store[d])
  /\ OwnedQueue(latest[d])
  /\ pc[d] # "idle" => Progress(store[d].current) = Progress(claimed[d])
  /\ pc[d] \in Settling => Keeps(latest[d], store[d])
  /\ pc[d] \in Executed => outcome[d] \in Outcomes(claimed[d])

OrderedInv == IInv /\ \A d \in Dids : OrderInv(d)

LEMMA EmptyQueueOwned == OwnedQueue(EmptyQueue)
<1>1. SoundQueue(EmptyQueue) /\ Line(EmptyQueue) = <<>>
  BY EmptyQueueSound DEF Line, EmptyQueue
<1>2. Len(<<>>) = 0
  OBVIOUS
<1> QED
  BY <1>1, <1>2 DEF OwnedQueue

LEMMA KeepsCurrent ==
  ASSUME NEW q, NEW n, SoundQueue(q), SoundQueue(n), Keeps(q, n), q.current # NoTask
  PROVE  Progress(n.current) = Progress(q.current)
<1>1. /\ Line(q)[1] = q.current /\ Line(n)[1] = n.current
      /\ Len(Line(q)) = Len(q.pending) + 1 /\ Len(q.pending) \in Nat
  BY LineShape DEF Keeps
<1>2. 1 \in 1..Len(Line(q))
  BY <1>1
<1> QED
  BY <1>1, <1>2 DEF Keeps

LEMMA InitOrder == Init => OrderedInv
<1> SUFFICES ASSUME Init PROVE OrderedInv
  OBVIOUS
<1>1. IInv
  BY InitInv
<1>2. ASSUME NEW d \in Dids PROVE OrderInv(d)
  BY EmptyQueueOwned DEF Init, OrderInv, Settling, Executed
<1> QED
  BY <1>1, <1>2 DEF OrderedInv

(* One step: the invariant holds again, and no run that stays in the queue *)
(* is worse off.                                                           *)
OrderKept(d) ==
  /\ OrderInv(d)'
  /\ \A r \in Runs : Holds(store[d], r) /\ Holds(store'[d], r) => NotWorse(store[d], store'[d], r)

LEMMA SameStore ==
  ASSUME OrderedInv, NEW d \in Dids, store'[d] = store[d], OrderInv(d)'
  PROVE  OrderKept(d)
BY KeptPlace, KeepsSelf DEF OrderedInv, OrderInv, OwnedQueue, OrderKept

(* A step that leaves the queue's copies alone.                            *)
LEMMA QuietStep ==
  ASSUME OrderedInv, NEW d \in Dids,
         store'[d] = store[d], latest'[d] = latest[d],
         claimed'[d] = claimed[d], outcome'[d] = outcome[d],
         \/ pc'[d] = pc[d]
         \/ /\ pc[d] # "idle"
            /\ pc'[d] \in Settling => pc[d] \in Settling
            /\ pc'[d] \in Executed => pc[d] \in Executed
  PROVE  OrderKept(d)
<1>1. OrderInv(d)'
  BY DEF OrderedInv, OrderInv
<1> QED
  BY <1>1, SameStore

(* A step that reloads the queue.                                          *)
LEMMA ReloadOrder ==
  ASSUME OrderedInv, NEW d \in Dids, pc[d] # "idle", pc'[d] # "idle",
         store'[d] = store[d], latest'[d] = store[d], claimed'[d] = claimed[d],
         pc'[d] \in Executed => outcome'[d] \in Outcomes(claimed[d])
  PROVE  OrderKept(d)
<1>1. OwnedQueue(store[d]) /\ SoundQueue(store[d])
  BY DEF OrderedInv, OrderInv, OwnedQueue
<1>2. OrderInv(d)'
  BY <1>1, KeepsSelf DEF OrderedInv, OrderInv
<1> QED
  BY <1>2, SameStore

(* alarm() ends and leaves a queue that is not worse.                      *)
LEMMA ForgetOrder ==
  ASSUME OrderedInv, NEW d \in Dids, ForgetHandler(d), NEW q, OwnedQueue(q),
         store' = [store EXCEPT ![d] = q],
         \A r \in Runs : Holds(store[d], r) /\ Holds(q, r) => NotWorse(store[d], q, r)
  PROVE  OrderKept(d)
<1>1. store'[d] = q /\ pc'[d] = "idle" /\ latest'[d] = EmptyQueue
  BY DEF OrderedInv, IInv, TypeOK, ForgetHandler
<1>2. OrderInv(d)'
  BY <1>1, EmptyQueueOwned DEF OrderInv, Settling, Executed
<1> QED
  BY <1>1, <1>2 DEF OrderKept

LEMMA RequestOrder ==
  ASSUME OrderedInv, NEW d \in Dids, NEW r \in Runs,
         store' = [store EXCEPT ![d] = EnqueueTask(store[d], r)],
         UNCHANGED <<pc, claimed, latest, outcome>>
  PROVE  OrderKept(d)
<1> DEFINE q == store[d]
           n == EnqueueTask(store[d], r)
<1>1. TypeOK /\ ObjectInv(d) /\ OrderInv(d)
  BY DEF OrderedInv, IInv
<1>2. store'[d] = n /\ OwnedQueue(q) /\ OwnedQueue(n) /\ Keeps(q, n)
  BY <1>1, EnqueueLine DEF TypeOK, OrderInv
<1> HIDE DEF n
<1>3. SoundQueue(q) /\ SoundQueue(n) /\ SoundQueue(latest[d])
  BY <1>1, <1>2 DEF OwnedQueue, OrderInv
<1>4. pc[d] # "idle" => Progress(n.current) = Progress(claimed[d])
  <2>1. pc[d] # "idle" => q.current # NoTask
    BY <1>1, NoTaskKey DEF ObjectInv, LiveTask
  <2> QED
    BY <1>1, <1>2, <1>3, <2>1, KeepsCurrent DEF OrderInv
<1>5. pc[d] \in Settling => Keeps(latest[d], n)
  BY <1>1, <1>2, <1>3, KeepsKept DEF OrderInv
<1>6. OrderInv(d)'
  BY <1>1, <1>2, <1>4, <1>5 DEF OrderInv
<1>7. \A x \in Runs : Holds(q, x) => NotWorse(q, n, x)
  BY <1>2, KeptPlace
<1> QED
  BY <1>2, <1>6, <1>7 DEF OrderKept

LEMMA NextOrder ==
  ASSUME OrderedInv, [Next]_vars, NEW d \in Dids
  PROVE  OrderKept(d)
<1>1. TypeOK /\ ObjectInv(d) /\ OrderInv(d) /\ OwnedQueue(store[d]) /\ OwnedQueue(latest[d])
  BY DEF OrderedInv, IInv, OrderInv
<1>2. CASE UNCHANGED vars
  BY <1>2, QuietStep DEF vars, doVars
<1>3. ASSUME NEW e \in Dids, e # d,
             (\E r \in Runs : Request(e, r)) \/ AlarmStep(e) \/ FaultStep(e)
      PROVE  OrderKept(d)
  <2>1. /\ store'[d] = store[d] /\ latest'[d] = latest[d] /\ pc'[d] = pc[d]
        /\ claimed'[d] = claimed[d] /\ outcome'[d] = outcome[d]
    BY <1>1, <1>3 DEF TypeOK, Request, Enqueue, EnqueueCutShort, AlarmStep, FaultStep,
      AlarmIgnored, AlarmClaims, MarkRunning, ExecuteChunk, ExecuteFails, MarkProgress,
      MarkComplete, SaveSettled, MarkFailed, SaveFailed, SettleWriteFails, HandlerDies,
      WriteNextItem, Catch, ForgetHandler
  <2> QED
    BY <2>1, QuietStep
<1>4. ASSUME NEW r \in Runs, Request(d, r) PROVE OrderKept(d)
  BY <1>4, RequestOrder DEF Request, Enqueue, EnqueueCutShort
<1>5. ASSUME AlarmStep(d) PROVE OrderKept(d)
  <2>1. CASE AlarmIgnored(d)
    BY <2>1, QuietStep DEF AlarmIgnored
  <2>2. CASE AlarmClaims(d)
    <3> DEFINE n == TakeNextTask(store[d])
    <3>1. /\ store'[d] = n /\ claimed'[d] = n.current /\ latest'[d] = latest[d]
          /\ pc'[d] = "starting" /\ CanTake(store[d])
      BY <1>1, <2>2 DEF AlarmClaims, TypeOK, TakeNextTask
    <3>2. OwnedQueue(n) /\ \A r \in Runs : Holds(store[d], r) => NotWorse(store[d], n, r)
      BY <1>1, <3>1, TakeLine
    <3> HIDE DEF n
    <3>3. OrderInv(d)'
      BY <1>1, <3>1, <3>2 DEF OrderInv, Settling, Executed
    <3> QED
      BY <3>1, <3>2, <3>3 DEF OrderKept
  <2>3. CASE MarkRunning(d)
    <3>1. pc[d] = "starting" /\ (pc'[d] = pc[d] \/ pc'[d] = "executing")
      BY <1>1, <2>3 DEF MarkRunning, WriteNextItem, TypeOK
    <3> QED
      BY <2>3, <3>1, QuietStep DEF MarkRunning, WriteNextItem, Settling, Executed
  <2>4. CASE ExecuteChunk(d)
    <3>1. /\ pc[d] = "executing" /\ pc'[d] = "progress" /\ store' = store /\ claimed' = claimed
          /\ latest'[d] = store[d] /\ outcome'[d] \in Outcomes(claimed[d])
      BY <1>1, <2>4 DEF ExecuteChunk, TypeOK
    <3> QED
      BY <3>1, ReloadOrder
  <2>5. CASE ExecuteFails(d)
    <3>1. /\ pc[d] = "executing" /\ pc'[d] = "failing" /\ store' = store /\ claimed' = claimed
          /\ latest'[d] = store[d]
      BY <1>1, <2>5 DEF ExecuteFails, Catch, TypeOK
    <3> QED
      BY <3>1, ReloadOrder DEF Executed
  <2>6. CASE MarkProgress(d)
    <3>1. pc[d] = "progress" /\ (pc'[d] = pc[d] \/ pc'[d] \in {"completing", "saving"})
      BY <1>1, <2>6 DEF MarkProgress, WriteNextItem, TypeOK
    <3> QED
      BY <2>6, <3>1, QuietStep DEF MarkProgress, WriteNextItem, Settling, Executed
  <2>7. CASE MarkComplete(d)
    <3>1. pc[d] = "completing" /\ (pc'[d] = pc[d] \/ pc'[d] = "saving")
      BY <1>1, <2>7 DEF MarkComplete, WriteNextItem, TypeOK
    <3> QED
      BY <2>7, <3>1, QuietStep DEF MarkComplete, WriteNextItem, Settling, Executed
  <2>8. CASE SaveSettled(d)
    <3> DEFINE q == latest[d]
               next == IF outcome[d].completed THEN ClearCurrentTask(q)
                       ELSE InsertContinuationTask(ClearCurrentTask(q),
                                                   Progressed(SettledTask(d), outcome[d]))
    <3>1. /\ store' = [store EXCEPT ![d] = next] /\ ForgetHandler(d)
          /\ pc[d] \in Settling /\ pc[d] \in Executed /\ pc[d] # "idle"
      BY <2>8 DEF SaveSettled, Settling, Executed
    <3>2. /\ Keeps(q, store[d]) /\ outcome[d] \in Outcomes(claimed[d])
          /\ Progress(store[d].current) = Progress(claimed[d])
          /\ SoundQueue(q) /\ SoundQueue(store[d])
      BY <1>1, <3>1 DEF OrderInv, OwnedQueue
    <3>3. /\ LiveTask(claimed[d]) /\ SameKey(q.current, claimed[d])
      BY <1>1, <3>1 DEF ObjectInv
    <3>4. q.current # NoTask /\ SettledTask(d) = q.current
      BY <3>2, <3>3, TaskOfCurrent DEF SettledTask
    <3>5. Progress(claimed[d]) = Progress(q.current)
      BY <3>2, <3>4, KeepsCurrent
    <3>6. CASE outcome[d].completed
      <4>1. next = ClearCurrentTask(q)
        BY <3>6
      <4>2. OwnedQueue(next)
        BY <1>1, <3>4, <4>1, ClearLine
      <4>3. \A r \in Runs : Holds(next, r) => NotWorse(store[d], next, r)
        BY <1>1, <3>2, <3>4, <4>1, ClearNotWorse
      <4> HIDE DEF next
      <4> QED
        BY <3>1, <4>2, <4>3, ForgetOrder
    <3>7. CASE ~outcome[d].completed
      <4>1. next = InsertContinuationTask(ClearCurrentTask(q), Progressed(q.current, outcome[d]))
        BY <3>4, <3>7
      <4>2. OwnedQueue(next)
        BY <1>1, <3>2, <3>4, <4>1, OutcomesTyped, ContinueLine
      <4>3. \A r \in Runs : Holds(next, r) => NotWorse(store[d], next, r)
        BY <1>1, <3>2, <3>4, <3>5, <3>7, <4>1, ContinueNotWorse
      <4> HIDE DEF next
      <4> QED
        BY <3>1, <4>2, <4>3, ForgetOrder
    <3> QED
      BY <3>6, <3>7
  <2>9. CASE MarkFailed(d)
    <3>1. pc[d] = "failing" /\ (pc'[d] = pc[d] \/ pc'[d] = "savingFailure")
      BY <1>1, <2>9 DEF MarkFailed, WriteNextItem, TypeOK
    <3> QED
      BY <2>9, <3>1, QuietStep DEF MarkFailed, WriteNextItem, Settling, Executed
  <2>10. CASE SaveFailed(d)
    <3> DEFINE next == ClearCurrentTask(latest[d])
    <3>1. /\ store' = [store EXCEPT ![d] = next] /\ ForgetHandler(d)
          /\ pc[d] \in Settling
      BY <2>10 DEF SaveFailed, Settling
    <3>2. /\ Keeps(latest[d], store[d]) /\ LiveTask(claimed[d])
          /\ SameKey(latest[d].current, claimed[d]) /\ SoundQueue(latest[d])
      BY <1>1, <3>1 DEF OrderInv, ObjectInv, Settling
    <3>3. latest[d].current # NoTask
      BY <3>2, TaskOfCurrent
    <3>4. OwnedQueue(next)
      BY <1>1, <3>3, ClearLine
    <3>5. \A r \in Runs : Holds(next, r) => NotWorse(store[d], next, r)
      BY <1>1, <3>2, <3>3, ClearNotWorse
    <3> HIDE DEF next
    <3> QED
      BY <3>1, <3>4, <3>5, ForgetOrder
  <2> QED
    BY <1>5, <2>1, <2>2, <2>3, <2>4, <2>5, <2>6, <2>7, <2>8, <2>9, <2>10 DEF AlarmStep
<1>6. ASSUME FaultStep(d) PROVE OrderKept(d)
  <2>1. CASE SettleWriteFails(d)
    <3>1. /\ pc[d] # "idle" /\ pc'[d] = "failing" /\ store' = store /\ claimed' = claimed
          /\ latest'[d] = store[d]
      BY <1>1, <2>1 DEF SettleWriteFails, Catch, TypeOK
    <3> QED
      BY <3>1, ReloadOrder DEF Executed
  <2>2. CASE HandlerDies(d)
    <3>1. /\ ForgetHandler(d) /\ store' = [store EXCEPT ![d] = store[d]]
      BY <1>1, <2>2 DEF HandlerDies, TypeOK
    <3>2. \A r \in Runs : Holds(store[d], r) => NotWorse(store[d], store[d], r)
      BY <1>1, KeptPlace, KeepsSelf DEF OwnedQueue
    <3> QED
      BY <1>1, <3>1, <3>2, ForgetOrder
  <2> QED
    BY <1>6, <2>1, <2>2 DEF FaultStep
<1> QED
  BY <1>2, <1>3, <1>4, <1>5, <1>6 DEF Next

THEOREM OrderInvariant == Spec => []OrderedInv
<1>1. OrderedInv /\ [Next]_vars => OrderedInv'
  BY NextInv, NextOrder DEF OrderedInv, OrderKept
<1> QED
  BY InitOrder, <1>1, PTL DEF Spec

(* A bulk run that stays queued keeps its progress: neither a repeated     *)
(* request nor the way back into the queue, with a queue that was reloaded *)
(* before requests came in, refills its budget or moves its cursor back.   *)
THEOREM ProgressStays == Spec => ProgressKept
<1>1. OrderedInv /\ [Next]_vars =>
        [\A d \in Dids, r \in Runs :
           Holds(store[d], r) /\ Holds(store'[d], r) =>
             LET before == Line(store[d])[Place(store[d], r)]
                 after  == Line(store'[d])[Place(store'[d], r)]
             IN  after.remaining <= before.remaining /\ after.cursor >= before.cursor]_vars
  BY NextOrder DEF OrderKept, NotWorse
<1> QED
  BY OrderInvariant, <1>1, PTL DEF Spec, ProgressKept

(* No task overtakes a run that waits for a head poll, and a head poll     *)
(* that is next stays next until it is worked on.                          *)
THEOREM HeadStaysAhead == Spec => HeadNotOvertaken
<1>1. OrderedInv /\ [Next]_vars =>
        [\A d \in Dids, r \in Runs :
           Kind[r] = "head" /\ Holds(store[d], r) /\ Holds(store'[d], r)
             => /\ Place(store'[d], r) <= Place(store[d], r)
                /\ HeadIsNext(store[d], r)
                     => HeadIsNext(store'[d], r) \/ r \in ToSet(store'[d].current.runIds)]_vars
  BY NextOrder DEF OrderKept, NotWorse
<1> QED
  BY OrderInvariant, <1>1, PTL DEF Spec, HeadNotOvertaken
==============================================================================
