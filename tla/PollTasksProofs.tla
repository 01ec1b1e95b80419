-------------------------- MODULE PollTasksProofs --------------------------
(***************************************************************************)
(* What the queue operations of PollTasks return, for every queue a        *)
(* coordinator may hold: a sound queue again, and what they do to the keys *)
(* of its tasks.                                                           *)
(***************************************************************************)
EXTENDS PollTasks, TLAPS, SequenceTheorems, WellFoundedInduction

(* A task that some run waits for. *)
LiveTask(t) == t \in Task /\ t.runIds # <<>>

(* A queue of live tasks with distinct keys. *)
SoundQueue(q) ==
  /\ q \in QueueState
  /\ q.current # NoTask => LiveTask(q.current)
  /\ \A i \in DOMAIN q.pending : LiveTask(q.pending[i])
  /\ DistinctKeys(q)

-----------------------------------------------------------------------------
(***************************************************************************)
(* Searching a sequence                                                    *)
(***************************************************************************)
(* A set of naturals that is not empty has a least element.                *)
LEMMA MinOfNats ==
  ASSUME NEW I, I \subseteq Nat, I # {}
  PROVE  Min(I) \in I /\ \A y \in I : Min(I) <= y
<1>1. PICK x \in I : \A y \in I : ~ (<<y, x>> \in OpToRel(<, Nat))
  BY NatLessThanWellFounded, WFMin
<1>2. ASSUME NEW y \in I PROVE ~ (y < x)
  BY <1>1, Zenon DEF OpToRel
<1>3. \A y \in I : x <= y
  BY <1>2
<1> QED
  BY <1>3 DEF Min

(* SelectInSeq finds a head task if the sequence has one, and 0 if not.    *)
LEMMA SelectHead ==
  ASSUME NEW s \in Seq(Task), NEW i, i = SelectInSeq(s, IsHead)
  PROVE  /\ i = 0 => \A j \in 1..Len(s) : ~IsHead(s[j])
         /\ i # 0 => i \in 1..Len(s) /\ IsHead(s[i])
<1> DEFINE I == {j \in 1..Len(s) : IsHead(s[j])}
<1>1. i = IF I # {} THEN Min(I) ELSE 0
  BY DEF SelectInSeq
<1>2. Len(s) \in Nat
  BY LenProperties
<1>3. I \subseteq Nat /\ 0 \notin I
  BY <1>2
<1>4. CASE I = {}
  <2>1. i = 0
    BY <1>1, <1>4
  <2>2. \A j \in 1..Len(s) : ~IsHead(s[j])
    BY <1>4
  <2> QED
    BY <2>1, <2>2
<1>5. CASE I # {}
  <2>1. i = Min(I)
    BY <1>1, <1>5
  <2>2. i \in I
    BY <2>1, <1>3, <1>5, MinOfNats
  <2> QED
    BY <2>2, <1>3
<1> QED
  BY <1>4, <1>5

(* SelectInSeq finds a bulk task, or 0.                                    *)
LEMMA SelectBulk ==
  ASSUME NEW s \in Seq(Task), NEW i, i = SelectInSeq(s, IsBulk)
  PROVE  i = 0 \/ (i \in 1..Len(s) /\ IsBulk(s[i]))
<1> DEFINE I == {j \in 1..Len(s) : IsBulk(s[j])}
<1>1. i = IF I # {} THEN Min(I) ELSE 0
  BY DEF SelectInSeq
<1>2. I \subseteq Nat
  BY LenProperties
<1>3. CASE I = {}
  BY <1>1, <1>3
<1>4. CASE I # {}
  <2>1. i = Min(I)
    BY <1>1, <1>4
  <2> QED
    BY <2>1, <1>2, <1>4, MinOfNats
<1> QED
  BY <1>3, <1>4

(* Sequence p is s with e inserted at place k: it holds that element once   *)
(* more and the others in their order.                                     *)
Inserted(p, s, k, e) ==
  /\ Len(p) = Len(s) + 1
  /\ \A j \in 1..(Len(s) + 1) :
       p[j] = IF j < k THEN s[j] ELSE IF j = k THEN e ELSE s[j - 1]

LEMMA InsertAtProperties ==
  ASSUME NEW S, NEW s \in Seq(S), NEW e \in S, NEW k \in 1..(Len(s) + 1)
  PROVE  InsertAt(s, k, e) \in Seq(S) /\ Inserted(InsertAt(s, k, e), s, k, e)
<1> DEFINE before == SubSeq(s, 1, k - 1)
           after == SubSeq(s, k, Len(s))
<1>1. /\ Len(s) \in Nat /\ k \in Nat
      /\ \A j \in 1..Len(s) : s[j] \in S
  BY LenProperties, ElementOfSeq
<1>2. /\ before \in Seq(S) /\ Len(before) = k - 1
      /\ \A j \in 1..(k - 1) : before[j] = s[j]
  <2>1. \A j \in 1..(k - 1) : s[j] \in S
    BY <1>1
  <2>2. /\ before \in Seq(S)
        /\ Len(before) = IF 1 <= k - 1 THEN k - 1 - 1 + 1 ELSE 0
        /\ \A j \in 1..(k - 1 - 1 + 1) : before[j] = s[1 + j - 1]
    BY <2>1, <1>1, SubSeqProperties
  <2> QED
    BY <2>2, <1>1
<1>3. /\ after \in Seq(S) /\ Len(after) = Len(s) - k + 1
      /\ \A j \in 1..(Len(s) - k + 1) : after[j] = s[k + j - 1]
  <2>1. \A j \in k..Len(s) : s[j] \in S
    BY <1>1
  <2>2. /\ after \in Seq(S)
        /\ Len(after) = IF k <= Len(s) THEN Len(s) - k + 1 ELSE 0
        /\ \A j \in 1..(Len(s) - k + 1) : after[j] = s[k + j - 1]
    BY <2>1, <1>1, SubSeqProperties
  <2> QED
    BY <2>2, <1>1
<1>4. <<e>> \in Seq(S) /\ Len(<<e>>) = 1 /\ <<e>>[1] = e
  OBVIOUS
<1> DEFINE front == before \o <<e>>
<1> HIDE DEF before, after
<1>5. /\ front \in Seq(S) /\ Len(front) = k
      /\ \A j \in 1..k : front[j] = IF j <= k - 1 THEN before[j] ELSE e
  <2>1. /\ front \in Seq(S) /\ Len(front) = (k - 1) + 1
        /\ \A j \in 1..((k - 1) + 1) : front[j] = IF j <= k - 1 THEN before[j] ELSE <<e>>[j - (k - 1)]
    BY <1>2, <1>4, ConcatProperties
  <2> QED
    BY <2>1, <1>1
<1> HIDE DEF front
<1>6. /\ front \o after \in Seq(S) /\ Len(front \o after) = k + (Len(s) - k + 1)
      /\ \A j \in 1..(k + (Len(s) - k + 1)) :
           (front \o after)[j] = IF j <= k THEN front[j] ELSE after[j - k]
  BY <1>3, <1>5, ConcatProperties
<1>7. InsertAt(s, k, e) = front \o after
  BY DEF InsertAt, front, before, after
<1>8. ASSUME NEW j \in 1..(Len(s) + 1)
      PROVE  (front \o after)[j] = IF j < k THEN s[j] ELSE IF j = k THEN e ELSE s[j - 1]
  <2>1. j \in 1..(k + (Len(s) - k + 1))
    BY <1>1
  <2>2. CASE j < k
    BY <2>1, <2>2, <1>1, <1>2, <1>5, <1>6
  <2>3. CASE j = k
    BY <2>1, <2>3, <1>1, <1>5, <1>6
  <2>4. CASE j > k
    <3>1. j - k \in 1..(Len(s) - k + 1) /\ k + (j - k) - 1 = j - 1
      BY <2>1, <2>4, <1>1
    <3> QED
      BY <3>1, <2>1, <2>4, <1>1, <1>3, <1>6
  <2>5. j < k \/ j = k \/ j > k
    BY <1>1
  <2> QED
    BY <2>2, <2>3, <2>4, <2>5
<1> QED
  BY <1>6, <1>7, <1>8, <1>1 DEF Inserted

-----------------------------------------------------------------------------
(***************************************************************************)
(* Enqueueing                                                              *)
(***************************************************************************)
(* A request's task is live, and of its run's mode.                        *)
LEMMA NewTaskLive ==
  ASSUME NEW r \in Runs
  PROVE  LiveTask(NewTask(r)) /\ NewTask(r).mode = Kind[r]
<1>1. Kind[r] \in Modes /\ MaxPosts \in Nat /\ MaxCursor \in Nat
  BY TaskConstants
<1>2. <<r>> \in Seq(Runs) /\ <<r>> # <<>>
  OBVIOUS
<1>3. /\ 0 \in 0..MaxCursor
      /\ (IF Kind[r] = "backfill" THEN MaxPosts ELSE 0) \in 0..MaxPosts
  BY <1>1
<1> QED
  BY <1>1, <1>2, <1>3 DEF LiveTask, NewTask, Task

(* A task that one more run joins is live, in its mode.                    *)
LEMMA AppendRunLive ==
  ASSUME NEW t, LiveTask(t), NEW r \in Runs
  PROVE  LiveTask(AppendRun(t, r)) /\ AppendRun(t, r).mode = t.mode
<1>1. t \in Task /\ t.runIds \in Seq(Runs) /\ t.runIds # <<>>
  BY DEF LiveTask, Task
<1>2. Append(t.runIds, r) \in Seq(Runs) /\ Append(t.runIds, r) # <<>>
  <2>1. Append(t.runIds, r) \in Seq(Runs) /\ Len(Append(t.runIds, r)) = Len(t.runIds) + 1
    BY <1>1, AppendProperties
  <2>2. Len(t.runIds) \in Nat /\ Len(<<>>) = 0
    BY <1>1, LenProperties
  <2> QED
    BY <2>1, <2>2
<1>3. CASE r \in ToSet(t.runIds)
  BY <1>3 DEF AppendRun
<1>4. CASE r \notin ToSet(t.runIds)
  <2>1. AppendRun(t, r) = [t EXCEPT !.runIds = Append(t.runIds, r)]
    BY <1>4 DEF AppendRun
  <2> QED
    BY <2>1, <1>1, <1>2 DEF LiveTask, Task
<1> QED
  BY <1>3, <1>4

(* A task with a key of its own may be appended to a sound queue.          *)
LEMMA AppendTask ==
  ASSUME NEW q, SoundQueue(q), NEW t, LiveTask(t),
         ~SameKey(q.current, t),
         \A i \in DOMAIN q.pending : ~SameKey(q.pending[i], t)
  PROVE  SoundQueue([q EXCEPT !.pending = Append(q.pending, t)])
<1> DEFINE p == Append(q.pending, t)
           n == Len(q.pending)
<1>1. q \in QueueState /\ q.pending \in Seq(Task) /\ t \in Task
  BY DEF SoundQueue, QueueState, LiveTask
<1>2. /\ n \in Nat /\ DOMAIN q.pending = 1..n
      /\ p \in Seq(Task) /\ DOMAIN p = 1..(n + 1)
      /\ \A i \in 1..n : p[i] = q.pending[i]
      /\ p[n + 1] = t
  BY <1>1, LenProperties, AppendProperties
<1> HIDE DEF p, n
<1>3. \A i \in 1..(n + 1) : i \in 1..n \/ i = n + 1
  BY <1>2
<1>4. [q EXCEPT !.pending = p] = [current |-> q.current, pending |-> p]
  BY <1>1 DEF QueueState
<1>5. \A i \in DOMAIN p : LiveTask(p[i]) /\ ~SameKey(q.current, p[i])
  BY <1>2, <1>3 DEF SoundQueue, DistinctKeys
<1>6. ASSUME NEW i \in DOMAIN p, NEW j \in DOMAIN p, SameKey(p[i], p[j])
      PROVE  i = j
  <2>1. CASE i \in 1..n /\ j \in 1..n
    BY <2>1, <1>2, <1>6 DEF SoundQueue, DistinctKeys
  <2>2. CASE i \in 1..n /\ j = n + 1
    BY <2>2, <1>2, <1>6
  <2>3. CASE i = n + 1 /\ j \in 1..n
    BY <2>3, <1>2, <1>6 DEF SameKey, IsHead
  <2> QED
    BY <2>1, <2>2, <2>3, <1>2, <1>3
<1>7. [current |-> q.current, pending |-> p] \in QueueState
  BY <1>1, <1>2 DEF QueueState
<1>8. SoundQueue([current |-> q.current, pending |-> p])
  BY <1>5, <1>6, <1>7 DEF SoundQueue, DistinctKeys
<1> QED
  BY <1>4, <1>8 DEF p

(* A pending head task may be replaced by another head task.               *)
LEMMA ReplaceHead ==
  ASSUME NEW q, SoundQueue(q), NEW i \in 1..Len(q.pending), IsHead(q.pending[i]),
         NEW u, LiveTask(u), IsHead(u)
  PROVE  SoundQueue([q EXCEPT !.pending = ReplaceAt(q.pending, i, u)])
<1> DEFINE p == [q.pending EXCEPT ![i] = u]
           n == Len(q.pending)
<1>1. q \in QueueState /\ q.pending \in Seq(Task) /\ u \in Task
  BY DEF SoundQueue, QueueState, LiveTask
<1>2. n \in Nat /\ DOMAIN q.pending = 1..n
  BY <1>1, LenProperties
<1>3. /\ p \in Seq(Task) /\ DOMAIN p = 1..n
      /\ p[i] = u
      /\ \A j \in 1..n : j # i => p[j] = q.pending[j]
  BY <1>1, <1>2, ExceptSeq
<1> HIDE DEF p, n
<1>4. [q EXCEPT !.pending = p] = [current |-> q.current, pending |-> p]
  BY <1>1 DEF QueueState
<1>5. \A j \in 1..n : /\ LiveTask(p[j])
                      /\ IsHead(p[j]) <=> IsHead(q.pending[j])
                      /\ ~IsHead(p[j]) => p[j] = q.pending[j]
  <2>1. \A j \in 1..n : LiveTask(q.pending[j])
    BY <1>2 DEF SoundQueue
  <2> QED
    BY <2>1, <1>3
<1>6. ASSUME NEW j \in 1..n PROVE ~SameKey(q.current, p[j])
  <2>1. ~SameKey(q.current, q.pending[j])
    BY <1>2 DEF SoundQueue, DistinctKeys
  <2>2. CASE IsHead(p[j])
    BY <2>1, <2>2, <1>5 DEF SameKey, IsHead
  <2>3. CASE ~IsHead(p[j])
    BY <2>1, <2>3, <1>5
  <2> QED
    BY <2>2, <2>3
<1>7. ASSUME NEW j \in 1..n, NEW k \in 1..n, SameKey(p[j], p[k])
      PROVE  j = k
  <2>1. SameKey(q.pending[j], q.pending[k])
    <3>1. CASE IsHead(p[j])
      BY <3>1, <1>7, <1>5 DEF SameKey, IsHead
    <3>2. CASE ~IsHead(p[j])
      BY <3>2, <1>7, <1>5 DEF SameKey, IsHead
    <3> QED
      BY <3>1, <3>2
  <2> QED
    BY <2>1, <1>2 DEF SoundQueue, DistinctKeys
<1>8. [current |-> q.current, pending |-> p] \in QueueState
  BY <1>1, <1>3 DEF QueueState
<1>9. SoundQueue([current |-> q.current, pending |-> p])
  BY <1>3, <1>5, <1>6, <1>7, <1>8 DEF SoundQueue, DistinctKeys
<1> QED
  BY <1>4, <1>9 DEF p, ReplaceAt

(* A current head task may be replaced by another head task.               *)
LEMMA ReplaceCurrentHead ==
  ASSUME NEW q, SoundQueue(q), IsHead(q.current), NEW u, LiveTask(u), IsHead(u)
  PROVE  SoundQueue([q EXCEPT !.current = u])
<1>1. q \in QueueState /\ u \in Task
  BY DEF SoundQueue, LiveTask
<1>2. [q EXCEPT !.current = u] = [current |-> u, pending |-> q.pending]
  BY <1>1 DEF QueueState
<1>3. \A i \in DOMAIN q.pending : ~SameKey(u, q.pending[i])
  BY DEF SoundQueue, DistinctKeys, SameKey, IsHead
<1>4. [current |-> u, pending |-> q.pending] \in QueueState
  BY <1>1 DEF QueueState
<1>5. SoundQueue([current |-> u, pending |-> q.pending])
  BY <1>3, <1>4 DEF SoundQueue, DistinctKeys
<1> QED
  BY <1>2, <1>5

(* Any request leaves a sound queue sound, and its current task in place.  *)
LEMMA EnqueueQueue ==
  ASSUME NEW q, SoundQueue(q), NEW r \in Runs
  PROVE  /\ SoundQueue(EnqueueTask(q, r))
         /\ SameKey(EnqueueTask(q, r).current, q.current)
<1> DEFINE t == NewTask(r)
           i == SelectInSeq(q.pending, IsHead)
<1>1. /\ q \in QueueState /\ q.pending \in Seq(Task)
      /\ Len(q.pending) \in Nat /\ DOMAIN q.pending = 1..Len(q.pending)
  BY LenProperties DEF SoundQueue, QueueState
<1>2. LiveTask(t) /\ t.mode = Kind[r]
  BY NewTaskLive
<1>3. /\ i = 0 => \A j \in 1..Len(q.pending) : ~IsHead(q.pending[j])
      /\ i # 0 => i \in 1..Len(q.pending) /\ IsHead(q.pending[i])
  BY <1>1, SelectHead
<1>4. \A x : SameKey(x, x)
  BY DEF SameKey
<1> HIDE DEF t, i
<1>5. CASE Kind[r] = "head" /\ IsHead(q.current)
  <2> DEFINE u == AppendRun(q.current, r)
  <2>1. EnqueueTask(q, r) = [q EXCEPT !.current = u]
    BY <1>5 DEF EnqueueTask, EnqueueHeadTask
  <2>2. LiveTask(q.current)
    BY <1>5 DEF SoundQueue, NoTask, IsHead
  <2>3. LiveTask(u) /\ IsHead(u)
    BY <2>2, <1>5, AppendRunLive DEF IsHead
  <2> HIDE DEF u
  <2>4. [q EXCEPT !.current = u].current = u
    BY <1>1 DEF QueueState
  <2>5. SameKey(u, q.current)
    BY <2>3, <1>5 DEF SameKey, IsHead
  <2> QED
    BY <2>1, <2>3, <2>4, <2>5, <1>5, ReplaceCurrentHead
<1>6. CASE Kind[r] = "head" /\ ~IsHead(q.current) /\ i # 0
  <2> DEFINE u == AppendRun(q.pending[i], r)
  <2>1. EnqueueTask(q, r) = [q EXCEPT !.pending = ReplaceAt(q.pending, i, u)]
    BY <1>6 DEF EnqueueTask, EnqueueHeadTask, i
  <2>2. i \in 1..Len(q.pending) /\ IsHead(q.pending[i])
    BY <1>6, <1>3
  <2>3. LiveTask(q.pending[i])
    BY <2>2, <1>1 DEF SoundQueue
  <2>4. LiveTask(u) /\ IsHead(u)
    BY <2>2, <2>3, AppendRunLive DEF IsHead
  <2> HIDE DEF u
  <2>5. [q EXCEPT !.pending = ReplaceAt(q.pending, i, u)].current = q.current
    BY <1>1 DEF QueueState
  <2> QED
    BY <2>1, <2>2, <2>4, <2>5, <1>4, ReplaceHead
<1>7. CASE Kind[r] = "head" /\ ~IsHead(q.current) /\ i = 0
  <2>1. EnqueueTask(q, r) = [q EXCEPT !.pending = Append(q.pending, t)]
    BY <1>7 DEF EnqueueTask, EnqueueHeadTask, i, t
  <2>2. IsHead(t)
    BY <1>2, <1>7 DEF IsHead
  <2>3. /\ ~SameKey(q.current, t)
        /\ \A j \in DOMAIN q.pending : ~SameKey(q.pending[j], t)
    BY <2>2, <1>1, <1>3, <1>7 DEF SameKey, IsHead
  <2>4. [q EXCEPT !.pending = Append(q.pending, t)].current = q.current
    BY <1>1 DEF QueueState
  <2> QED
    BY <2>1, <2>3, <2>4, <1>2, <1>4, AppendTask
<1>8. CASE Kind[r] # "head"
  <2>1. CASE \/ SameKey(q.current, t)
             \/ \E j \in DOMAIN q.pending : SameKey(q.pending[j], t)
    <3>1. EnqueueTask(q, r) = q
      BY <2>1, <1>8 DEF EnqueueTask, EnqueueBulkTask, t
    <3> QED
      BY <3>1, <1>4
  <2>2. CASE /\ ~SameKey(q.current, t)
             /\ \A j \in DOMAIN q.pending : ~SameKey(q.pending[j], t)
    <3>1. EnqueueTask(q, r) = [q EXCEPT !.pending = Append(q.pending, t)]
      BY <2>2, <1>8 DEF EnqueueTask, EnqueueBulkTask, t
    <3>2. [q EXCEPT !.pending = Append(q.pending, t)].current = q.current
      BY <1>1 DEF QueueState
    <3> QED
      BY <3>1, <3>2, <2>2, <1>2, <1>4, AppendTask
  <2> QED
    BY <2>1, <2>2
<1> QED
  BY <1>5, <1>6, <1>7, <1>8

-----------------------------------------------------------------------------
(***************************************************************************)
(* Claiming, clearing and continuing the current task                      *)
(***************************************************************************)
(* No task has the key of "no task".                                       *)
LEMMA NoTaskKey ==
  ASSUME NEW t \in Task
  PROVE  ~SameKey(NoTask, t) /\ ~SameKey(t, NoTask) /\ t # NoTask
<1>1. t.mode \in Modes
  BY DEF Task
<1>2. NoTask.mode = "none" /\ "none" \notin Modes
  BY DEF NoTask, Modes
<1> QED
  BY <1>1, <1>2 DEF SameKey

(* The head of a queue that can take becomes current; the queue stays      *)
(* sound.                                                                  *)
LEMMA TakeQueue ==
  ASSUME NEW q, SoundQueue(q), CanTake(q)
  PROVE  SoundQueue(TakeNextTask(q)) /\ LiveTask(Head(q.pending))
<1> DEFINE t == Head(q.pending)
           p == Tail(q.pending)
           n == Len(q.pending)
<1>1. q.pending \in Seq(Task) /\ q.pending # <<>>
  BY DEF SoundQueue, QueueState, CanTake
<1>2. n \in Nat /\ n # 0 /\ DOMAIN q.pending = 1..n
  BY <1>1, LenProperties, EmptySeq
<1>3. /\ t \in Task /\ t = q.pending[1]
      /\ p \in Seq(Task) /\ DOMAIN p = 1..(n - 1)
      /\ \A i \in 1..(n - 1) : p[i] = q.pending[i + 1]
  <2>1. /\ t \in Task /\ p \in Seq(Task) /\ Len(p) = n - 1
        /\ \A i \in 1..Len(p) : p[i] = q.pending[i + 1]
    BY <1>1, HeadTailProperties
  <2>2. DOMAIN p = 1..Len(p)
    BY <2>1, LenProperties
  <2>3. t = q.pending[1]
    BY <1>1
  <2> QED
    BY <2>1, <2>2, <2>3
<1> HIDE DEF t, p, n
<1>4. 1 \in 1..n /\ \A i \in 1..(n - 1) : i + 1 \in 1..n /\ i + 1 # 1
  BY <1>2
<1>5. LiveTask(t) /\ \A i \in DOMAIN p : LiveTask(p[i])
  BY <1>2, <1>3, <1>4 DEF SoundQueue
<1>6. \A i \in DOMAIN p : ~SameKey(t, p[i])
  BY <1>2, <1>3, <1>4 DEF SoundQueue, DistinctKeys
<1>7. ASSUME NEW i \in DOMAIN p, NEW j \in DOMAIN p, SameKey(p[i], p[j])
      PROVE  i = j
  <2>1. i + 1 = j + 1
    BY <1>2, <1>3, <1>4, <1>7 DEF SoundQueue, DistinctKeys
  <2>2. i \in 1..(n - 1) /\ j \in 1..(n - 1)
    BY <1>3
  <2> QED
    BY <2>1, <2>2, <1>2
<1>8. [current |-> t, pending |-> p] \in QueueState
  BY <1>3 DEF QueueState
<1>9. SoundQueue([current |-> t, pending |-> p])
  BY <1>5, <1>6, <1>7, <1>8 DEF SoundQueue, DistinctKeys
<1> QED
  BY <1>5, <1>9 DEF TakeNextTask, t, p

(* Clearing the current task leaves the pending ones.                      *)
LEMMA ClearQueue ==
  ASSUME NEW q, SoundQueue(q)
  PROVE  /\ SoundQueue(ClearCurrentTask(q))
         /\ ClearCurrentTask(q) = [current |-> NoTask, pending |-> q.pending]
<1>1. q \in QueueState
  BY DEF SoundQueue
<1>2. ClearCurrentTask(q) = [current |-> NoTask, pending |-> q.pending]
  BY <1>1 DEF ClearCurrentTask, QueueState
<1>3. [current |-> NoTask, pending |-> q.pending] \in QueueState
  BY <1>1 DEF QueueState
<1>4. \A i \in DOMAIN q.pending : ~SameKey(NoTask, q.pending[i])
  BY NoTaskKey DEF SoundQueue, LiveTask
<1>5. SoundQueue([current |-> NoTask, pending |-> q.pending])
  BY <1>3, <1>4 DEF SoundQueue, DistinctKeys
<1> QED
  BY <1>2, <1>5

(* A chunk's progress changes neither a task's key nor who waits for it.   *)
LEMMA ProgressedTask ==
  ASSUME NEW t, LiveTask(t), NEW o \in Outcome
  PROVE  /\ LiveTask(Progressed(t, o))
         /\ Progressed(t, o).mode = t.mode
         /\ Progressed(t, o).runIds = t.runIds
<1>1. t \in Task /\ t.remaining \in 0..MaxPosts /\ t.cursor \in 0..MaxCursor
  BY DEF LiveTask, Task
<1>2. o.processed \in Nat /\ o.cursor \in 0..MaxCursor
  BY DEF Outcome
<1> DEFINE rem == IF t.mode # "backfill" THEN t.remaining
                  ELSE IF o.processed < t.remaining THEN t.remaining - o.processed ELSE 0
           cur == IF t.mode = "reconcile" THEN o.cursor ELSE t.cursor
<1>3. rem \in 0..MaxPosts /\ cur \in 0..MaxCursor
  BY <1>1, <1>2, TaskConstants
<1>4. Progressed(t, o) = [t EXCEPT !.remaining = rem, !.cursor = cur]
  BY DEF Progressed
<1> HIDE DEF rem, cur
<1>5. [t EXCEPT !.remaining = rem, !.cursor = cur]
        = [mode |-> t.mode, runIds |-> t.runIds, remaining |-> rem, cursor |-> cur]
  <2>1. [t EXCEPT !.remaining = rem]
          = [mode |-> t.mode, runIds |-> t.runIds, remaining |-> rem, cursor |-> t.cursor]
    BY <1>1 DEF Task
  <2>2. [t EXCEPT !.remaining = rem, !.cursor = cur]
          = [[t EXCEPT !.remaining = rem] EXCEPT !.cursor = cur]
    OBVIOUS
  <2>3. [[mode |-> t.mode, runIds |-> t.runIds, remaining |-> rem, cursor |-> t.cursor]
           EXCEPT !.cursor = cur]
          = [mode |-> t.mode, runIds |-> t.runIds, remaining |-> rem, cursor |-> cur]
    OBVIOUS
  <2> QED
    BY <2>1, <2>2, <2>3
<1>6. [mode |-> t.mode, runIds |-> t.runIds, remaining |-> rem, cursor |-> cur] \in Task
  BY <1>1, <1>3 DEF Task
<1> QED
  BY <1>4, <1>5, <1>6 DEF LiveTask

(* A live task with a key of its own may be inserted among live tasks with *)
(* distinct keys.                                                          *)
LEMMA InsertTask ==
  ASSUME NEW s \in Seq(Task), NEW t, LiveTask(t), NEW k \in 1..(Len(s) + 1),
         \A i \in 1..Len(s) : LiveTask(s[i]) /\ ~SameKey(t, s[i]),
         \A i, j \in 1..Len(s) : SameKey(s[i], s[j]) => i = j
  PROVE  /\ InsertAt(s, k, t) \in Seq(Task)
         /\ \A i \in DOMAIN InsertAt(s, k, t) : LiveTask(InsertAt(s, k, t)[i])
         /\ \A i, j \in DOMAIN InsertAt(s, k, t) :
              SameKey(InsertAt(s, k, t)[i], InsertAt(s, k, t)[j]) => i = j
<1> DEFINE n == Len(s)
           p == InsertAt(s, k, t)
           Old(i) == IF i < k THEN i ELSE i - 1
<1>1. t \in Task /\ n \in Nat /\ k \in Nat
  BY LenProperties DEF LiveTask
<1>2. /\ p \in Seq(Task) /\ Len(p) = n + 1
      /\ \A i \in 1..(n + 1) :
           p[i] = IF i < k THEN s[i] ELSE IF i = k THEN t ELSE s[i - 1]
  <2>1. p \in Seq(Task) /\ Inserted(p, s, k, t)
    BY <1>1, InsertAtProperties
  <2> QED
    BY <2>1 DEF Inserted
<1> HIDE DEF p
<1>3. DOMAIN p = 1..(n + 1)
  BY <1>2, LenProperties
<1>4. /\ p[k] = t
      /\ \A i \in 1..(n + 1) : i # k => Old(i) \in 1..n /\ p[i] = s[Old(i)]
  BY <1>1, <1>2
<1>5. \A i \in 1..(n + 1) : LiveTask(p[i])
  BY <1>4
<1>6. ASSUME NEW i \in 1..(n + 1), NEW j \in 1..(n + 1), SameKey(p[i], p[j])
      PROVE  i = j
  <2>1. SameKey(p[j], p[i])
    BY <1>6 DEF SameKey, IsHead
  <2>2. CASE i # k /\ j # k
    <3>1. Old(i) = Old(j)
      BY <1>4, <1>6, <2>2
    <3> QED
      BY <3>1, <1>1, <2>2
  <2>3. CASE i = k /\ j # k
    BY <1>4, <1>6, <2>3
  <2>4. CASE i # k /\ j = k
    BY <1>4, <2>1, <2>4
  <2> QED
    BY <2>2, <2>3, <2>4
<1> QED
  BY <1>2, <1>3, <1>5, <1>6 DEF p

(* An unfinished task goes back into the queue without meeting a task with *)
(* its key.                                                                *)
LEMMA ContinueQueue ==
  ASSUME NEW q, SoundQueue(q), q.current # NoTask, NEW o \in Outcome
  PROVE  SoundQueue(InsertContinuationTask(ClearCurrentTask(q), Progressed(q.current, o)))
<1> DEFINE s == q.pending
           t == Progressed(q.current, o)
           c == ClearCurrentTask(q)
           k == IF SelectInSeq(s, IsBulk) = 0 THEN Len(s) + 1 ELSE SelectInSeq(s, IsBulk)
           p == InsertAt(s, k, t)
<1>1. s \in Seq(Task) /\ Len(s) \in Nat /\ DOMAIN s = 1..Len(s)
  BY LenProperties DEF SoundQueue, QueueState
<1>2. LiveTask(t) /\ t.mode = q.current.mode /\ t.runIds = q.current.runIds
  BY ProgressedTask DEF SoundQueue
<1>3. c = [current |-> NoTask, pending |-> s]
  BY ClearQueue
<1> HIDE DEF t
<1>4. \A i \in 1..Len(s) : LiveTask(s[i]) /\ ~SameKey(t, s[i])
  BY <1>1, <1>2 DEF SoundQueue, DistinctKeys, SameKey, IsHead
<1>5. \A i, j \in 1..Len(s) : SameKey(s[i], s[j]) => i = j
  BY <1>1 DEF SoundQueue, DistinctKeys
<1>6. k \in 1..(Len(s) + 1)
  <2>1. SelectInSeq(s, IsBulk) = 0 \/ SelectInSeq(s, IsBulk) \in 1..Len(s)
    BY <1>1, SelectBulk, Zenon
  <2> QED
    BY <1>1, <2>1
<1>7. InsertContinuationTask(c, t) = [current |-> NoTask, pending |-> p]
  BY <1>3 DEF InsertContinuationTask
<1> HIDE DEF c, k, s
<1>8. /\ p \in Seq(Task)
      /\ \A i \in DOMAIN p : LiveTask(p[i])
      /\ \A i, j \in DOMAIN p : SameKey(p[i], p[j]) => i = j
  BY <1>1, <1>2, <1>4, <1>5, <1>6, InsertTask
<1> HIDE DEF p
<1>9. \A i \in DOMAIN p : ~SameKey(NoTask, p[i])
  BY <1>8, NoTaskKey DEF LiveTask
<1>10. [current |-> NoTask, pending |-> p] \in QueueState
  BY <1>8 DEF QueueState
<1>11. SoundQueue([current |-> NoTask, pending |-> p])
  BY <1>8, <1>9, <1>10 DEF SoundQueue, DistinctKeys
<1> QED
  BY <1>7, <1>11 DEF t, c

-----------------------------------------------------------------------------
(***************************************************************************)
(* Who is held                                                             *)
(***************************************************************************)
(* A task keeps its runs when one joins, and has that one.                 *)
LEMMA AppendRunSet ==
  ASSUME NEW t, LiveTask(t), NEW r \in Runs
  PROVE  ToSet(t.runIds) \cup {r} \subseteq ToSet(AppendRun(t, r).runIds)
<1>1. t \in Task /\ t.runIds \in Seq(Runs)
  BY DEF LiveTask, Task
<1>2. CASE r \in ToSet(t.runIds)
  BY <1>2 DEF AppendRun
<1>3. CASE r \notin ToSet(t.runIds)
  <2> DEFINE s == t.runIds
             u == Append(s, r)
  <2>1. AppendRun(t, r).runIds = u
    BY <1>1, <1>3 DEF AppendRun, Task
  <2>2. /\ Len(s) \in Nat /\ DOMAIN s = 1..Len(s) /\ DOMAIN u = 1..(Len(s) + 1)
        /\ \A i \in 1..Len(s) : u[i] = s[i]
        /\ u[Len(s) + 1] = r
    BY <1>1, LenProperties, AppendProperties
  <2> HIDE DEF s, u
  <2>3. ToSet(s) \subseteq ToSet(u)
    BY <2>2 DEF ToSet
  <2>4. r \in ToSet(u)
    <3>1. Len(s) + 1 \in DOMAIN u
      BY <2>2
    <3> QED
      BY <2>2, <3>1 DEF ToSet
  <2> QED
    BY <2>1, <2>3, <2>4 DEF s
<1> QED
  BY <1>2, <1>3

(* A request drops no run from the queue nor from its current task, and    *)
(* its own run is held afterwards.                                         *)
LEMMA EnqueueHolds ==
  ASSUME NEW q, SoundQueue(q), NEW r \in Runs
  PROVE  /\ ToSet(q.current.runIds) \subseteq ToSet(EnqueueTask(q, r).current.runIds)
         /\ \A x : Holds(q, x) => Holds(EnqueueTask(q, r), x)
         /\ Holds(EnqueueTask(q, r), r)
<1> DEFINE t == NewTask(r)
           i == SelectInSeq(q.pending, IsHead)
           s == q.pending
<1>1. /\ q \in QueueState /\ s \in Seq(Task)
      /\ Len(s) \in Nat /\ DOMAIN s = 1..Len(s)
  BY LenProperties DEF SoundQueue, QueueState
<1>2. t.runIds = <<r>> /\ t.mode = Kind[r]
  BY DEF NewTask
<1>3. r \in ToSet(<<r>>)
  BY DEF ToSet
<1>4. i # 0 => i \in 1..Len(s) /\ IsHead(s[i])
  BY <1>1, SelectHead
<1>5. t \in Task
  BY NewTaskLive DEF LiveTask
<1> HIDE DEF t, i
<1>6. CASE Kind[r] = "head" /\ IsHead(q.current)
  <2> DEFINE u == AppendRun(q.current, r)
  <2>1. EnqueueTask(q, r) = [q EXCEPT !.current = u]
    BY <1>6 DEF EnqueueTask, EnqueueHeadTask
  <2>2. LiveTask(q.current)
    BY <1>6 DEF SoundQueue, NoTask, IsHead
  <2>3. ToSet(q.current.runIds) \cup {r} \subseteq ToSet(u.runIds)
    BY <2>2, AppendRunSet
  <2> HIDE DEF u
  <2>4. EnqueueTask(q, r).current = u /\ EnqueueTask(q, r).pending = q.pending
    BY <2>1, <1>1 DEF QueueState
  <2> QED
    BY <2>3, <2>4 DEF Holds
<1>7. CASE Kind[r] = "head" /\ ~IsHead(q.current) /\ i # 0
  <2> DEFINE u == AppendRun(s[i], r)
             p == [s EXCEPT ![i] = u]
  <2>1. EnqueueTask(q, r) = [q EXCEPT !.pending = p]
    BY <1>7 DEF EnqueueTask, EnqueueHeadTask, ReplaceAt, i
  <2>2. i \in 1..Len(s) /\ LiveTask(s[i])
    BY <1>1, <1>4, <1>7 DEF SoundQueue
  <2>3. ToSet(s[i].runIds) \cup {r} \subseteq ToSet(u.runIds)
    BY <2>2, AppendRunSet
  <2>4. /\ DOMAIN p = DOMAIN s /\ p[i] = u
        /\ \A j \in DOMAIN s : j # i => p[j] = s[j]
    BY <1>1, <2>2
  <2> HIDE DEF u, p
  <2>5. EnqueueTask(q, r).current = q.current /\ EnqueueTask(q, r).pending = p
    BY <2>1, <1>1 DEF QueueState
  <2>6. \A j \in DOMAIN s : j \in DOMAIN p /\ ToSet(s[j].runIds) \subseteq ToSet(p[j].runIds)
    BY <2>3, <2>4
  <2>7. i \in DOMAIN p /\ r \in ToSet(p[i].runIds)
    BY <2>2, <2>3, <2>4, <1>1
  <2> QED
    BY <2>5, <2>6, <2>7 DEF Holds
<1>8. ASSUME EnqueueTask(q, r) = [q EXCEPT !.pending = Append(s, t)]
      PROVE  /\ EnqueueTask(q, r).current = q.current
             /\ \A x : Holds(q, x) => Holds(EnqueueTask(q, r), x)
             /\ Holds(EnqueueTask(q, r), r)
  <2> DEFINE p == Append(s, t)
  <2>1. /\ DOMAIN p = 1..(Len(s) + 1)
        /\ \A j \in 1..Len(s) : p[j] = s[j]
        /\ p[Len(s) + 1] = t
    BY <1>1, <1>5, AppendProperties, LenProperties
  <2>2. EnqueueTask(q, r) = [q EXCEPT !.pending = p]
    BY <1>8
  <2> HIDE DEF p
  <2>3. EnqueueTask(q, r).current = q.current /\ EnqueueTask(q, r).pending = p
    BY <2>2, <1>1 DEF QueueState
  <2>4. \A j \in DOMAIN s : j \in DOMAIN p /\ p[j] = s[j]
    BY <2>1, <1>1
  <2>5. Len(s) + 1 \in DOMAIN p
    BY <2>1, <1>1
  <2>6. \E j \in DOMAIN p : r \in ToSet(p[j].runIds)
    BY <2>1, <2>5, <1>2, <1>3
  <2> QED
    BY <2>3, <2>4, <2>6 DEF Holds
<1>9. CASE Kind[r] = "head" /\ ~IsHead(q.current) /\ i = 0
  <2>1. EnqueueTask(q, r) = [q EXCEPT !.pending = Append(s, t)]
    BY <1>9 DEF EnqueueTask, EnqueueHeadTask, i, t
  <2> QED
    BY <1>8, <2>1
<1>10. CASE Kind[r] # "head"
  <2>1. ~IsHead(t)
    BY <1>2, <1>10 DEF IsHead
  <2>2. CASE SameKey(q.current, t)
    <3>1. EnqueueTask(q, r) = q
      BY <2>2, <1>10 DEF EnqueueTask, EnqueueBulkTask, t
    <3>2. q.current.runIds = <<r>>
      BY <2>1, <2>2, <1>2 DEF SameKey, IsHead
    <3> QED
      BY <3>1, <3>2, <1>3 DEF Holds
  <2>3. CASE \E j \in DOMAIN s : SameKey(s[j], t)
    <3>1. EnqueueTask(q, r) = q
      BY <2>3, <1>10 DEF EnqueueTask, EnqueueBulkTask, t
    <3>2. \E j \in DOMAIN s : s[j].runIds = <<r>>
      BY <2>1, <2>3, <1>2 DEF SameKey, IsHead
    <3> QED
      BY <3>1, <3>2, <1>3 DEF Holds
  <2>4. CASE ~SameKey(q.current, t) /\ \A j \in DOMAIN s : ~SameKey(s[j], t)
    <3>1. EnqueueTask(q, r) = [q EXCEPT !.pending = Append(s, t)]
      BY <2>4, <1>10 DEF EnqueueTask, EnqueueBulkTask, t
    <3> QED
      BY <1>8, <3>1
  <2> QED
    BY <2>2, <2>3, <2>4
<1> QED
  BY <1>6, <1>7, <1>9, <1>10

(* Claiming a task drops no run.                                           *)
LEMMA TakeHolds ==
  ASSUME NEW q, SoundQueue(q), CanTake(q), NEW x, Holds(q, x)
  PROVE  Holds(TakeNextTask(q), x)
<1> DEFINE s == q.pending
           p == Tail(s)
<1>1. s \in Seq(Task) /\ s # <<>> /\ q.current = NoTask
  BY DEF SoundQueue, QueueState, CanTake
<1>2. /\ Len(s) \in Nat /\ DOMAIN s = 1..Len(s)
      /\ Head(s) = s[1]
      /\ Len(p) = Len(s) - 1 /\ p \in Seq(Task)
      /\ \A i \in 1..Len(p) : p[i] = s[i + 1]
  BY <1>1, LenProperties, HeadTailProperties
<1>3. DOMAIN p = 1..Len(p)
  BY <1>2, LenProperties
<1> HIDE DEF p, s
<1>4. ToSet(NoTask.runIds) = {}
  BY DEF NoTask, ToSet
<1>5. PICK j \in DOMAIN s : x \in ToSet(s[j].runIds)
  BY <1>1, <1>4 DEF Holds, s
<1>6. CASE j = 1
  BY <1>2, <1>5, <1>6 DEF Holds, TakeNextTask, s
<1>7. CASE j # 1
  <2>1. j - 1 \in DOMAIN p /\ p[j - 1] = s[j]
    BY <1>2, <1>3, <1>5, <1>7
  <2> QED
    BY <2>1, <1>5 DEF Holds, TakeNextTask, p, s
<1> QED
  BY <1>6, <1>7

(* Clearing drops the runs of the current task at most.                    *)
LEMMA ClearHolds ==
  ASSUME NEW q, SoundQueue(q), NEW x, Holds(q, x), x \notin ToSet(q.current.runIds)
  PROVE  Holds(ClearCurrentTask(q), x)
<1>1. ClearCurrentTask(q) = [current |-> NoTask, pending |-> q.pending]
  BY ClearQueue
<1> QED
  BY <1>1 DEF Holds

(* Putting the current task back drops no run.                             *)
LEMMA ContinueHolds ==
  ASSUME NEW q, SoundQueue(q), q.current # NoTask, NEW o \in Outcome, NEW x, Holds(q, x)
  PROVE  Holds(InsertContinuationTask(ClearCurrentTask(q), Progressed(q.current, o)), x)
<1> DEFINE s == q.pending
           t == Progressed(q.current, o)
           c == ClearCurrentTask(q)
           k == IF SelectInSeq(s, IsBulk) = 0 THEN Len(s) + 1 ELSE SelectInSeq(s, IsBulk)
           p == InsertAt(s, k, t)
<1>1. s \in Seq(Task) /\ Len(s) \in Nat /\ DOMAIN s = 1..Len(s)
  BY LenProperties DEF SoundQueue, QueueState
<1>2. t \in Task /\ t.runIds = q.current.runIds
  BY ProgressedTask DEF SoundQueue, LiveTask
<1>3. c = [current |-> NoTask, pending |-> s]
  BY ClearQueue
<1> HIDE DEF t
<1>4. k \in 1..(Len(s) + 1)
  <2>1. SelectInSeq(s, IsBulk) = 0 \/ SelectInSeq(s, IsBulk) \in 1..Len(s)
    BY <1>1, SelectBulk, Zenon
  <2> QED
    BY <1>1, <2>1
<1>5. InsertContinuationTask(c, t) = [current |-> NoTask, pending |-> p]
  BY <1>3 DEF InsertContinuationTask
<1> HIDE DEF c, k, s
<1>6. /\ p \in Seq(Task) /\ Len(p) = Len(s) + 1
      /\ \A i \in 1..(Len(s) + 1) :
           p[i] = IF i < k THEN s[i] ELSE IF i = k THEN t ELSE s[i - 1]
  <2>1. p \in Seq(Task) /\ Inserted(p, s, k, t)
    BY <1>1, <1>2, <1>4, InsertAtProperties
  <2> QED
    BY <2>1 DEF Inserted
<1>7. DOMAIN p = 1..(Len(s) + 1)
  BY <1>6, LenProperties
<1> HIDE DEF p
<1>8. \E i \in DOMAIN p : x \in ToSet(p[i].runIds)
  <2>1. CASE x \in ToSet(q.current.runIds)
    <3>1. k \in DOMAIN p /\ p[k] = t
      BY <1>1, <1>4, <1>6, <1>7
    <3> QED
      BY <3>1, <2>1, <1>2
  <2>2. CASE x \notin ToSet(q.current.runIds)
    <3>1. PICK j \in DOMAIN s : x \in ToSet(s[j].runIds)
      BY <2>2 DEF Holds, s
    <3>2. CASE j < k
      <4>1. j \in DOMAIN p /\ p[j] = s[j]
        BY <1>1, <1>6, <1>7, <3>1, <3>2
      <4> QED
        BY <4>1, <3>1
    <3>3. CASE ~(j < k)
      <4>1. /\ j + 1 \in 1..(Len(s) + 1) /\ ~(j + 1 < k) /\ j + 1 # k
            /\ (j + 1) - 1 = j
        BY <1>1, <1>4, <3>1, <3>3
      <4>2. j + 1 \in DOMAIN p /\ p[j + 1] = s[j]
        BY <4>1, <1>6, <1>7
      <4> QED
        BY <4>2, <3>1
    <3> QED
      BY <3>2, <3>3
  <2> QED
    BY <2>1, <2>2
<1> QED
  BY <1>5, <1>8 DEF Holds, t, c

-----------------------------------------------------------------------------
(***************************************************************************)
(* Who else is held                                                        *)
(***************************************************************************)
(* Nobody else joins a task.                                               *)
LEMMA AppendRunOnly ==
  ASSUME NEW t, LiveTask(t), NEW r \in Runs
  PROVE  ToSet(AppendRun(t, r).runIds) \subseteq ToSet(t.runIds) \cup {r}
<1>1. t \in Task /\ t.runIds \in Seq(Runs)
  BY DEF LiveTask, Task
<1>2. CASE r \in ToSet(t.runIds)
  BY <1>2 DEF AppendRun
<1>3. CASE r \notin ToSet(t.runIds)
  <2> DEFINE s == t.runIds
             u == Append(s, r)
  <2>1. AppendRun(t, r).runIds = u
    BY <1>1, <1>3 DEF AppendRun, Task
  <2>2. /\ Len(s) \in Nat /\ DOMAIN s = 1..Len(s) /\ DOMAIN u = 1..(Len(s) + 1)
        /\ \A i \in 1..Len(s) : u[i] = s[i]
        /\ u[Len(s) + 1] = r
    BY <1>1, LenProperties, AppendProperties
  <2> HIDE DEF s, u
  <2>3. ASSUME NEW i \in DOMAIN u PROVE u[i] = r \/ (i \in DOMAIN s /\ u[i] = s[i])
    BY <2>2
  <2>4. ToSet(u) \subseteq ToSet(s) \cup {r}
    BY <2>3 DEF ToSet
  <2> QED
    BY <2>1, <2>4 DEF s
<1> QED
  BY <1>2, <1>3

(* A request brings its own run into the queue, and no other.              *)
LEMMA EnqueueHoldsOnly ==
  ASSUME NEW q, SoundQueue(q), NEW r \in Runs, NEW x, Holds(EnqueueTask(q, r), x), x # r
  PROVE  Holds(q, x)
<1> DEFINE t == NewTask(r)
           i == SelectInSeq(q.pending, IsHead)
           s == q.pending
<1>1. /\ q \in QueueState /\ s \in Seq(Task)
      /\ Len(s) \in Nat /\ DOMAIN s = 1..Len(s)
  BY LenProperties DEF SoundQueue, QueueState
<1>2. i # 0 => i \in 1..Len(s) /\ IsHead(s[i])
  BY <1>1, SelectHead
<1>3. t \in Task /\ ToSet(t.runIds) = {r}
  <2>1. t.runIds = <<r>>
    BY DEF NewTask
  <2>2. ToSet(<<r>>) = {r}
    BY DEF ToSet
  <2> QED
    BY <2>1, <2>2, NewTaskLive DEF LiveTask
<1> HIDE DEF t, i
<1>4. CASE Kind[r] = "head" /\ IsHead(q.current)
  <2> DEFINE u == AppendRun(q.current, r)
  <2>1. EnqueueTask(q, r) = [q EXCEPT !.current = u]
    BY <1>4 DEF EnqueueTask, EnqueueHeadTask
  <2>2. LiveTask(q.current)
    BY <1>4 DEF SoundQueue, NoTask, IsHead
  <2>3. ToSet(u.runIds) \subseteq ToSet(q.current.runIds) \cup {r}
    BY <2>2, AppendRunOnly
  <2> HIDE DEF u
  <2>4. EnqueueTask(q, r).current = u /\ EnqueueTask(q, r).pending = q.pending
    BY <2>1, <1>1 DEF QueueState
  <2> QED
    BY <2>3, <2>4 DEF Holds
<1>5. CASE Kind[r] = "head" /\ ~IsHead(q.current) /\ i # 0
  <2> DEFINE u == AppendRun(s[i], r)
             p == [s EXCEPT ![i] = u]
  <2>1. EnqueueTask(q, r) = [q EXCEPT !.pending = p]
    BY <1>5 DEF EnqueueTask, EnqueueHeadTask, ReplaceAt, i
  <2>2. i \in 1..Len(s) /\ LiveTask(s[i])
    BY <1>1, <1>2, <1>5 DEF SoundQueue
  <2>3. ToSet(u.runIds) \subseteq ToSet(s[i].runIds) \cup {r}
    BY <2>2, AppendRunOnly
  <2>4. /\ DOMAIN p = DOMAIN s /\ p[i] = u
        /\ \A j \in DOMAIN s : j # i => p[j] = s[j]
    BY <1>1, <2>2
  <2> HIDE DEF u, p
  <2>5. EnqueueTask(q, r).current = q.current /\ EnqueueTask(q, r).pending = p
    BY <2>1, <1>1 DEF QueueState
  <2>6. \A j \in DOMAIN p : j \in DOMAIN s /\ ToSet(p[j].runIds) \subseteq ToSet(s[j].runIds) \cup {r}
    BY <2>3, <2>4
  <2> QED
    BY <2>5, <2>6 DEF Holds
<1>6. CASE EnqueueTask(q, r) = [q EXCEPT !.pending = Append(s, t)]
  <2> DEFINE p == Append(s, t)
  <2>1. /\ DOMAIN p = 1..(Len(s) + 1)
        /\ \A j \in 1..Len(s) : p[j] = s[j]
        /\ p[Len(s) + 1] = t
    BY <1>1, <1>3, AppendProperties, LenProperties
  <2>2. EnqueueTask(q, r) = [q EXCEPT !.pending = p]
    BY <1>6
  <2> HIDE DEF p
  <2>3. EnqueueTask(q, r).current = q.current /\ EnqueueTask(q, r).pending = p
    BY <2>2, <1>1 DEF QueueState
  <2>4. \A j \in DOMAIN p : p[j] = t \/ (j \in DOMAIN s /\ p[j] = s[j])
    BY <2>1, <1>1
  <2> QED
    BY <2>3, <2>4, <1>3 DEF Holds
<1>7. CASE EnqueueTask(q, r) = q
  BY <1>7
<1> QED
  BY <1>4, <1>5, <1>6, <1>7 DEF EnqueueTask, EnqueueHeadTask, EnqueueBulkTask, i, t

(* Claiming a task brings in nobody.                                       *)
LEMMA TakeHoldsOnly ==
  ASSUME NEW q, SoundQueue(q), CanTake(q), NEW x, Holds(TakeNextTask(q), x)
  PROVE  Holds(q, x)
<1> DEFINE s == q.pending
           p == Tail(s)
<1>1. s \in Seq(Task) /\ s # <<>>
  BY DEF SoundQueue, QueueState, CanTake
<1>2. /\ Len(s) \in Nat /\ DOMAIN s = 1..Len(s) /\ 1 \in DOMAIN s
      /\ Head(s) = s[1]
      /\ Len(p) = Len(s) - 1 /\ p \in Seq(Task)
      /\ \A i \in 1..Len(p) : p[i] = s[i + 1]
  BY <1>1, LenProperties, HeadTailProperties, EmptySeq
<1>3. DOMAIN p = 1..Len(p)
  BY <1>2, LenProperties
<1> HIDE DEF p, s
<1>4. \A i \in DOMAIN p : i + 1 \in DOMAIN s /\ p[i] = s[i + 1]
  BY <1>2, <1>3
<1>5. x \in ToSet(Head(s).runIds) \/ \E i \in DOMAIN p : x \in ToSet(p[i].runIds)
  BY DEF Holds, TakeNextTask, p, s
<1>6. \E i \in DOMAIN s : x \in ToSet(s[i].runIds)
  BY <1>2, <1>4, <1>5
<1> QED
  BY <1>6 DEF Holds, s

(* Clearing, and putting the current task back, bring in nobody.           *)
LEMMA ClearHoldsOnly ==
  ASSUME NEW q, SoundQueue(q), NEW x, Holds(ClearCurrentTask(q), x)
  PROVE  \E i \in DOMAIN q.pending : x \in ToSet(q.pending[i].runIds)
<1>1. ClearCurrentTask(q) = [current |-> NoTask, pending |-> q.pending]
  BY ClearQueue
<1>2. ToSet(NoTask.runIds) = {}
  BY DEF NoTask, ToSet
<1> QED
  BY <1>1, <1>2 DEF Holds

LEMMA ContinueHoldsOnly ==
  ASSUME NEW q, SoundQueue(q), q.current # NoTask, NEW o \in Outcome, NEW x,
         Holds(InsertContinuationTask(ClearCurrentTask(q), Progressed(q.current, o)), x)
  PROVE  Holds(q, x)
<1> DEFINE s == q.pending
           t == Progressed(q.current, o)
           c == ClearCurrentTask(q)
           k == IF SelectInSeq(s, IsBulk) = 0 THEN Len(s) + 1 ELSE SelectInSeq(s, IsBulk)
           p == InsertAt(s, k, t)
<1>1. s \in Seq(Task) /\ Len(s) \in Nat /\ DOMAIN s = 1..Len(s)
  BY LenProperties DEF SoundQueue, QueueState
<1>2. t \in Task /\ t.runIds = q.current.runIds
  BY ProgressedTask DEF SoundQueue, LiveTask
<1>3. c = [current |-> NoTask, pending |-> s]
  BY ClearQueue
<1> HIDE DEF t
<1>4. k \in 1..(Len(s) + 1)
  <2>1. SelectInSeq(s, IsBulk) = 0 \/ SelectInSeq(s, IsBulk) \in 1..Len(s)
    BY <1>1, SelectBulk, Zenon
  <2> QED
    BY <1>1, <2>1
<1>5. InsertContinuationTask(c, t) = [current |-> NoTask, pending |-> p]
  BY <1>3 DEF InsertContinuationTask
<1> HIDE DEF c, k, s
<1>6. /\ p \in Seq(Task) /\ Len(p) = Len(s) + 1
      /\ \A i \in 1..(Len(s) + 1) :
           p[i] = IF i < k THEN s[i] ELSE IF i = k THEN t ELSE s[i - 1]
  <2>1. p \in Seq(Task) /\ Inserted(p, s, k, t)
    BY <1>1, <1>2, <1>4, InsertAtProperties
  <2> QED
    BY <2>1 DEF Inserted
<1>7. DOMAIN p = 1..(Len(s) + 1)
  BY <1>6, LenProperties
<1> HIDE DEF p
<1>8. ASSUME NEW i \in DOMAIN p
      PROVE  p[i] = t \/ \E j \in DOMAIN s : p[i] = s[j]
  <2>1. CASE i < k
    BY <1>1, <1>4, <1>6, <1>7, <2>1
  <2>2. CASE i = k
    BY <1>6, <1>7, <2>2
  <2>3. CASE ~(i < k) /\ i # k
    <3>1. i - 1 \in DOMAIN s /\ p[i] = s[i - 1]
      BY <1>1, <1>4, <1>6, <1>7, <2>3
    <3> QED
      BY <3>1
  <2> QED
    BY <2>1, <2>2, <2>3
<1>9. ToSet(NoTask.runIds) = {}
  BY DEF NoTask, ToSet
<1>10. \E i \in DOMAIN p : x \in ToSet(p[i].runIds)
  BY <1>5, <1>9 DEF Holds, c, t
<1> QED
  BY <1>2, <1>8, <1>10 DEF Holds, s
==============================================================================
