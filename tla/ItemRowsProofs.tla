---------------------------- MODULE ItemRowsProofs ----------------------------
(***************************************************************************)
(* Proofs about the two places where a coordinator keeps what it owes: the *)
(* queue in its storage and the rows of ingest_run_items.                  *)
(***************************************************************************)
EXTENDS ExpertPollCoordinatorProofs

(* The runs of the task that alarm() is about to settle. *)
Carried(d) == ToSet(latest[d].current.runIds)

Settled(r, d) == items[r][d].status \in Terminal

(* What holds of one expert's rows between any two awaits.  Loops write    *)
(* rows of the current task only, the reloaded queue lags behind the       *)
(* stored one by requests at most, a row says running for a run in both,   *)
(* and when alarm() is about to drop its task the rows of all its runs are *)
(* written, but for those the loop has yet to come to.                     *)
RowsInv(d) ==
  /\ pc[d] = "starting" => ToSet(todo[d]) \subseteq ToSet(store[d].current.runIds)
  /\ pc[d] \in Settling => Carried(d) \subseteq ToSet(store[d].current.runIds)
  /\ pc[d] \in {"progress", "completing", "failing"} => ToSet(todo[d]) \subseteq Carried(d)
  /\ \A r \in Runs : items[r][d].status = "running" =>
       Holds(store[d], r) /\ (pc[d] \in Settling => Holds(latest[d], r))
  /\ pc[d] \in {"completing", "failing"} =>
       \A r \in Runs : r \in Carried(d) => r \in ToSet(todo[d]) \/ Settled(r, d)
  /\ pc[d] = "completing" => outcome[d].completed
  /\ (pc[d] = "savingFailure" \/ (pc[d] = "saving" /\ outcome[d].completed)) =>
       \A r \in Runs : r \in Carried(d) => Settled(r, d)

(* The workflow has created all rows. *)
RowsPresent == \A r \in Runs, d \in Dids : items[r][d].status # "absent"

RInv == IInv /\ RowsPresent /\ \A d \in Dids : RowsInv(d)

-----------------------------------------------------------------------------
(***************************************************************************)
(* Lemmas                                                                  *)
(***************************************************************************)
(* The runs of a list are its head and those of its tail.                  *)
LEMMA HeadAndTail ==
  ASSUME NEW s \in Seq(Runs), s # <<>>
  PROVE  /\ Head(s) \in Runs /\ Head(s) \in ToSet(s)
         /\ ToSet(s) = {Head(s)} \cup ToSet(Tail(s))
         /\ Len(s) = 1 => ToSet(s) = {Head(s)}
<1> DEFINE t == Tail(s)
           n == Len(s)
<1>1. /\ n \in Nat /\ DOMAIN s = 1..n /\ n # 0
      /\ Head(s) \in Runs /\ Head(s) = s[1]
      /\ t \in Seq(Runs) /\ Len(t) = n - 1
      /\ \A i \in 1..Len(t) : t[i] = s[i + 1]
  BY LenProperties, EmptySeq, HeadTailProperties
<1>2. DOMAIN t = 1..(n - 1)
  BY <1>1, LenProperties
<1> HIDE DEF t, n
<1>3. 1 \in DOMAIN s
  BY <1>1
<1>4. Head(s) \in ToSet(s)
  BY <1>1, <1>3 DEF ToSet
<1>5. ToSet(t) \subseteq ToSet(s)
  <2>1. \A i \in 1..(n - 1) : i + 1 \in DOMAIN s /\ t[i] = s[i + 1]
    BY <1>1
  <2> QED
    BY <2>1, <1>2 DEF ToSet
<1>6. ASSUME NEW x \in ToSet(s) PROVE x = Head(s) \/ (n # 1 /\ x \in ToSet(t))
  <2>1. PICK i \in DOMAIN s : x = s[i]
    BY DEF ToSet
  <2>2. CASE i = 1
    BY <2>1, <2>2, <1>1
  <2>3. CASE i # 1
    <3>1. i - 1 \in 1..(n - 1) /\ (i - 1) + 1 = i /\ n # 1
      BY <2>3, <1>1
    <3>2. t[i - 1] = x /\ i - 1 \in DOMAIN t
      BY <3>1, <2>1, <1>1, <1>2
    <3> QED
      BY <3>1, <3>2 DEF ToSet
  <2> QED
    BY <2>2, <2>3
<1> QED
  BY <1>1, <1>4, <1>5, <1>6 DEF t, n

(* What one turn of a loop over runs changes.                              *)
RowWritten(d, status, next, rest) ==
  LET h == Head(todo[d])
  IN  /\ h \in Runs /\ h \in ToSet(todo[d])
      /\ items'[h][d].status = status
      /\ \A r \in Runs, e \in Dids : (r # h \/ e # d) => items'[r][e] = items[r][e]
      /\ \/ pc'[d] = next /\ todo'[d] = rest /\ ToSet(todo[d]) = {h}
         \/ pc'[d] = pc[d] /\ ToSet(todo[d]) = {h} \cup ToSet(todo'[d])
      /\ \A e \in Dids : e # d => pc'[e] = pc[e] /\ todo'[e] = todo[e]
      /\ UNCHANGED <<store, claimed, latest, outcome>>

(* The same, for a row the workflow may not have created: that one stays   *)
(* as it is.                                                               *)
NextWritten(d, status, next, rest) ==
  LET h == Head(todo[d])
  IN  /\ h \in Runs /\ h \in ToSet(todo[d])
      /\ items'[h][d] = IF items[h][d].status = "absent" THEN items[h][d]
                        ELSE [status |-> status, stale |-> FALSE]
      /\ \A r \in Runs, e \in Dids : (r # h \/ e # d) => items'[r][e] = items[r][e]
      /\ \/ pc'[d] = next /\ todo'[d] = rest /\ ToSet(todo[d]) = {h}
         \/ pc'[d] = pc[d] /\ ToSet(todo[d]) = {h} \cup ToSet(todo'[d])
      /\ \A e \in Dids : e # d => pc'[e] = pc[e] /\ todo'[e] = todo[e]
      /\ UNCHANGED <<store, claimed, latest, outcome>>

LEMMA NextItemFacts ==
  ASSUME IInv, NEW d \in Dids, pc[d] \in Writing,
         NEW status \in Statuses \ {"absent"}, NEW next \in Phases, NEW rest \in Seq(Runs),
         WriteNextItem(d, status, next, rest)
  PROVE  NextWritten(d, status, next, rest)
<1> DEFINE h == Head(todo[d])
           row == IF items[h][d].status = "absent" THEN items[h][d]
                  ELSE [status |-> status, stale |-> FALSE]
<1>1. /\ TypeOK /\ todo[d] \in Seq(Runs) /\ todo[d] # <<>>
  BY DEF IInv, ObjectInv, TypeOK
<1>2. /\ h \in Runs /\ h \in ToSet(todo[d])
      /\ ToSet(todo[d]) = {h} \cup ToSet(Tail(todo[d]))
      /\ Len(todo[d]) = 1 => ToSet(todo[d]) = {h}
  BY <1>1, HeadAndTail
<1>3. items \in [Runs -> [Dids -> Item]]
  BY <1>1 DEF TypeOK
<1>4. items' = [items EXCEPT ![h][d] = row]
  BY DEF WriteNextItem, SetItem
<1> HIDE DEF h, row
<1>5. /\ items'[h][d] = row
      /\ \A r \in Runs, e \in Dids : (r # h \/ e # d) => items'[r][e] = items[r][e]
  BY <1>2, <1>3, <1>4
<1>6. \/ /\ Len(todo[d]) = 1 /\ pc' = [pc EXCEPT ![d] = next]
         /\ todo' = [todo EXCEPT ![d] = rest]
      \/ pc' = pc /\ todo' = [todo EXCEPT ![d] = Tail(todo[d])]
  BY DEF WriteNextItem
<1>7. pc \in [Dids -> Phases] /\ todo \in [Dids -> Seq(Runs)]
  BY <1>1 DEF TypeOK
<1>8. /\ \/ pc'[d] = next /\ todo'[d] = rest /\ ToSet(todo[d]) = {h}
         \/ pc'[d] = pc[d] /\ ToSet(todo[d]) = {h} \cup ToSet(todo'[d])
      /\ \A e \in Dids : e # d => pc'[e] = pc[e] /\ todo'[e] = todo[e]
  BY <1>2, <1>6, <1>7
<1>9. UNCHANGED <<store, claimed, latest, outcome>>
  BY DEF WriteNextItem
<1> QED
  BY <1>2, <1>5, <1>8, <1>9 DEF h, row, NextWritten

LEMMA WriteFacts ==
  ASSUME IInv, RowsPresent, NEW d \in Dids, pc[d] \in Writing,
         NEW status \in Statuses \ {"absent"}, NEW next \in Phases, NEW rest \in Seq(Runs),
         WriteNextItem(d, status, next, rest)
  PROVE  RowWritten(d, status, next, rest)
<1>1. NextWritten(d, status, next, rest)
  BY NextItemFacts
<1> QED
  BY <1>1 DEF NextWritten, RowWritten, RowsPresent

(* A step that does not touch an expert preserves what holds of its rows.  *)
LEMMA Elsewhere ==
  ASSUME NEW e \in Dids, RowsInv(e),
         store'[e] = store[e], latest'[e] = latest[e], pc'[e] = pc[e],
         todo'[e] = todo[e], outcome'[e] = outcome[e],
         \A r \in Runs : items'[r][e] = items[r][e]
  PROVE  RowsInv(e)'
  BY DEF RowsInv, Carried, Settled

(* The task alarm() settles is the reloaded current task.                  *)
LEMMA SettledTaskCurrent ==
  ASSUME IInv, NEW d \in Dids, pc[d] \in Settling
  PROVE  /\ SettledTask(d) = latest[d].current /\ latest[d].current # NoTask
         /\ latest[d].current.runIds \in Seq(Runs)
<1>1. /\ SoundQueue(latest[d]) /\ LiveTask(claimed[d])
      /\ SameKey(latest[d].current, claimed[d])
  BY DEF IInv, ObjectInv, Settling
<1>2. /\ SettledTask(d) = latest[d].current /\ latest[d].current # NoTask
      /\ LiveTask(latest[d].current)
  BY <1>1, TaskOfCurrent DEF SettledTask
<1> QED
  BY <1>2 DEF LiveTask, Task

-----------------------------------------------------------------------------
(***************************************************************************)
(* The steps                                                               *)
(***************************************************************************)
LEMMA RequestRows ==
  ASSUME RInv, NEW d \in Dids, NEW r \in Runs,
         store' = [store EXCEPT ![d] = EnqueueTask(@, r)],
         UNCHANGED <<pc, claimed, latest, outcome, todo, items>>
  PROVE  \A e \in Dids : RowsInv(e)'
<1>1. TypeOK /\ SoundQueue(store[d]) /\ RowsInv(d)
  BY DEF RInv, IInv, ObjectInv
<1>2. store'[d] = EnqueueTask(store[d], r) /\ \A e \in Dids : e # d => store'[e] = store[e]
  BY <1>1 DEF TypeOK
<1>3. /\ ToSet(store[d].current.runIds) \subseteq ToSet(store'[d].current.runIds)
      /\ \A x : Holds(store[d], x) => Holds(store'[d], x)
  BY <1>1, <1>2, EnqueueHolds
<1>4. RowsInv(d)'
  BY <1>1, <1>3 DEF RowsInv, Carried, Settled
<1>5. ASSUME NEW e \in Dids, e # d PROVE RowsInv(e)'
  BY <1>2, <1>5, Elsewhere DEF RInv
<1> QED
  BY <1>4, <1>5

(* A reload takes over the whole stored queue.                             *)
LEMMA ReloadRows ==
  ASSUME RInv, NEW d \in Dids, pc[d] # "idle", NEW next \in {"progress", "failing"},
         NEW o,
         outcome' = [outcome EXCEPT ![d] = o],
         latest' = [latest EXCEPT ![d] = store[d]],
         todo' = [todo EXCEPT ![d] = TaskOf(store[d], claimed[d]).runIds],
         pc' = [pc EXCEPT ![d] = next],
         UNCHANGED <<store, claimed, items>>
  PROVE  \A e \in Dids : RowsInv(e)'
<1>1. /\ TypeOK /\ RowsInv(d)
      /\ SoundQueue(store[d]) /\ LiveTask(claimed[d]) /\ SameKey(store[d].current, claimed[d])
  BY DEF RInv, IInv, ObjectInv
<1>2. TaskOf(store[d], claimed[d]) = store[d].current
  BY <1>1, TaskOfCurrent
<1>3. /\ latest'[d] = store[d] /\ todo'[d] = store[d].current.runIds /\ pc'[d] = next
      /\ \A e \in Dids : e # d =>
           /\ latest'[e] = latest[e] /\ todo'[e] = todo[e] /\ pc'[e] = pc[e]
           /\ outcome'[e] = outcome[e]
  BY <1>1, <1>2 DEF TypeOK
<1>4. RowsInv(d)'
  BY <1>1, <1>3 DEF RowsInv, Carried, Settled
<1>5. ASSUME NEW e \in Dids, e # d PROVE RowsInv(e)'
  BY <1>3, <1>5, Elsewhere DEF RInv
<1> QED
  BY <1>4, <1>5

(* alarm() ends: the rows agree with the queue it leaves behind.           *)
LEMMA ForgetRows ==
  ASSUME RInv, NEW d \in Dids, ForgetHandler(d), items' = items,
         NEW q, store' = [store EXCEPT ![d] = q],
         \A r \in Runs : items[r][d].status = "running" => Holds(q, r)
  PROVE  \A e \in Dids : RowsInv(e)'
<1>1. TypeOK
  BY DEF RInv, IInv
<1>2. /\ store'[d] = q /\ pc'[d] = "idle"
      /\ \A e \in Dids : e # d =>
           /\ store'[e] = store[e] /\ latest'[e] = latest[e] /\ todo'[e] = todo[e]
           /\ pc'[e] = pc[e] /\ outcome'[e] = outcome[e]
  BY <1>1 DEF TypeOK, ForgetHandler
<1>3. RowsInv(d)'
  BY <1>2 DEF RowsInv, Settling
<1>4. ASSUME NEW e \in Dids, e # d PROVE RowsInv(e)'
  BY <1>2, <1>4, Elsewhere DEF RInv
<1> QED
  BY <1>3, <1>4

(* What the save at the end of alarm() may drop.                           *)
LEMMA SettledSave ==
  ASSUME RInv, NEW d \in Dids, pc[d] = "saving", NEW next,
         next = IF outcome[d].completed THEN ClearCurrentTask(latest[d])
                ELSE InsertContinuationTask(ClearCurrentTask(latest[d]),
                                            Progressed(SettledTask(d), outcome[d])),
         NEW r \in Runs, Holds(latest[d], r), ~Holds(next, r)
  PROVE  Settled(r, d)
<1>1. /\ TypeOK /\ IInv /\ RowsInv(d) /\ SoundQueue(latest[d]) /\ outcome[d] \in Outcome
  BY DEF RInv, IInv, ObjectInv, TypeOK
<1>2. SettledTask(d) = latest[d].current /\ latest[d].current # NoTask
  BY <1>1, SettledTaskCurrent DEF Settling
<1>3. outcome[d].completed
  BY <1>1, <1>2, ContinueHolds
<1>4. r \in Carried(d)
  BY <1>1, <1>3, ClearHolds DEF Carried
<1> QED
  BY <1>1, <1>3, <1>4 DEF RowsInv

LEMMA FailedSave ==
  ASSUME RInv, NEW d \in Dids, pc[d] = "savingFailure",
         NEW r \in Runs, Holds(latest[d], r), ~Holds(ClearCurrentTask(latest[d]), r)
  PROVE  Settled(r, d)
<1>1. RowsInv(d) /\ SoundQueue(latest[d])
  BY DEF RInv, IInv, ObjectInv
<1>2. r \in Carried(d)
  BY <1>1, ClearHolds DEF Carried
<1> QED
  BY <1>1, <1>2 DEF RowsInv

(* The loops, and the rows they write for one run after the other.         *)
LEMMA RunningRow ==
  ASSUME RInv, NEW d \in Dids, MarkRunning(d)
  PROVE  RowsInv(d)' /\ RowWritten(d, "running", "executing", <<>>)
<1>1. IInv /\ RowsPresent /\ RowsInv(d)
  BY DEF RInv
<1>2. pc[d] = "starting" /\ WriteNextItem(d, "running", "executing", <<>>)
  BY DEF MarkRunning
<1>3. "running" \in Statuses \ {"absent"} /\ "executing" \in Phases /\ <<>> \in Seq(Runs)
  BY EmptySeq DEF Statuses, Phases
<1>4. RowWritten(d, "running", "executing", <<>>)
  BY <1>1, <1>2, <1>3, WriteFacts DEF Writing
<1>5. Holds(store[d], Head(todo[d]))
  BY <1>1, <1>2, <1>4 DEF RowWritten, RowsInv, Holds
<1>6. RowsInv(d)'
  BY <1>1, <1>2, <1>4, <1>5 DEF RowWritten, RowsInv, Settling
<1> QED
  BY <1>4, <1>6

LEMMA ProgressRow ==
  ASSUME RInv, NEW d \in Dids, NEW next \in {"completing", "saving"}, NEW rest \in Seq(Runs),
         pc[d] = "progress", WriteNextItem(d, "running", next, rest),
         next = "completing" => outcome[d].completed /\ rest = latest[d].current.runIds,
         next = "saving" => ~outcome[d].completed
  PROVE  RowsInv(d)' /\ RowWritten(d, "running", next, rest)
<1>1. IInv /\ RowsPresent /\ RowsInv(d)
  BY DEF RInv
<1>2. "running" \in Statuses \ {"absent"} /\ next \in Phases /\ pc[d] \in Writing
  BY DEF Statuses, Phases, Writing
<1>3. RowWritten(d, "running", next, rest)
  BY <1>1, <1>2, WriteFacts
<1> DEFINE h == Head(todo[d])
<1>4. /\ Holds(store[d], h) /\ Holds(latest[d], h)
      /\ Carried(d)' = Carried(d) /\ Carried(d) = ToSet(latest[d].current.runIds)
  BY <1>1, <1>3 DEF RowWritten, RowsInv, Carried, Holds, Settling
<1>5. /\ \A r \in Runs : r # h => items'[r][d] = items[r][d]
      /\ UNCHANGED <<store, latest, outcome>>
      /\ \/ pc'[d] = next /\ todo'[d] = rest
         \/ pc'[d] = pc[d] /\ ToSet(todo[d]) = {h} \cup ToSet(todo'[d])
  BY <1>3 DEF RowWritten
<1> HIDE DEF h
<1>6. \A r \in Runs : items'[r][d].status = "running" =>
        Holds(store[d], r) /\ Holds(latest[d], r)
  BY <1>1, <1>4, <1>5 DEF RowsInv, Settling
<1>7. RowsInv(d)'
  <2>1. CASE pc'[d] = pc[d] /\ ToSet(todo[d]) = {h} \cup ToSet(todo'[d])
    BY <2>1, <1>1, <1>4, <1>5, <1>6 DEF RowsInv, Settling
  <2>2. CASE pc'[d] = next /\ todo'[d] = rest /\ next = "completing"
    BY <2>2, <1>1, <1>4, <1>5, <1>6 DEF RowsInv, Settling
  <2>3. CASE pc'[d] = next /\ next = "saving"
    BY <2>3, <1>1, <1>4, <1>5, <1>6 DEF RowsInv, Settling
  <2> QED
    BY <2>1, <2>2, <2>3, <1>5
<1> QED
  BY <1>3, <1>7

LEMMA FinalRow ==
  ASSUME RInv, NEW d \in Dids, NEW status \in Terminal, NEW next,
         \/ pc[d] = "completing" /\ next = "saving"
         \/ pc[d] = "failing" /\ next = "savingFailure",
         WriteNextItem(d, status, next, <<>>)
  PROVE  RowsInv(d)' /\ RowWritten(d, status, next, <<>>)
<1>1. IInv /\ RowsPresent /\ RowsInv(d)
  BY DEF RInv
<1>2. /\ status \in Statuses \ {"absent"} /\ status # "running"
      /\ next \in Phases /\ pc[d] \in Writing /\ <<>> \in Seq(Runs)
  BY EmptySeq DEF Terminal, Statuses, Phases, Writing
<1>3. RowWritten(d, status, next, <<>>)
  BY <1>1, <1>2, WriteFacts
<1> DEFINE h == Head(todo[d])
<1>4. /\ Carried(d)' = Carried(d) /\ UNCHANGED <<store, latest, outcome>>
      /\ \A r \in Runs : Settled(r, d)' <=> (r = h \/ Settled(r, d))
      /\ \A r \in Runs : items'[r][d].status = "running" => items[r][d].status = "running"
      /\ \/ pc'[d] = next /\ ToSet(todo[d]) = {h}
         \/ pc'[d] = pc[d] /\ ToSet(todo[d]) = {h} \cup ToSet(todo'[d])
  BY <1>2, <1>3 DEF RowWritten, Carried, Settled
<1> HIDE DEF h
<1>5. RowsInv(d)'
  <2>1. CASE pc'[d] = pc[d] /\ ToSet(todo[d]) = {h} \cup ToSet(todo'[d])
    BY <2>1, <1>1, <1>4 DEF RowsInv, Settling
  <2>2. CASE pc'[d] = next /\ ToSet(todo[d]) = {h}
    <3>1. \A r \in Runs : r \in Carried(d) => r = h \/ Settled(r, d)
      BY <2>2, <1>1 DEF RowsInv
    <3>2. pc[d] \in Settling /\ pc'[d] \in {"saving", "savingFailure"}
      BY <2>2 DEF Settling
    <3> QED
      BY <1>1, <1>4, <3>1, <3>2 DEF RowsInv
  <2> QED
    BY <2>1, <2>2, <1>4
<1> QED
  BY <1>3, <1>5

(* A row written for one expert is none of the others' business.           *)
LEMMA WriteElsewhere ==
  ASSUME RInv, NEW d \in Dids, NEW status \in Statuses \ {"absent"}, NEW next, NEW rest,
         RowWritten(d, status, next, rest), RowsInv(d)'
  PROVE  RowsPresent' /\ \A e \in Dids : RowsInv(e)'
<1>1. ASSUME NEW e \in Dids, e # d PROVE RowsInv(e)'
  BY <1>1, Elsewhere DEF RInv, RowWritten
<1>2. RowsPresent'
  BY DEF RInv, RowsPresent, RowWritten
<1> QED
  BY <1>1, <1>2

-----------------------------------------------------------------------------
(***************************************************************************)
(* The inductive invariant and the theorems                                *)
(***************************************************************************)
LEMMA InitRows == Init => RInv
<1> SUFFICES ASSUME Init PROVE RInv
  OBVIOUS
<1>1. RowsPresent /\ \A d \in Dids : RowsInv(d)
  BY DEF Init, RowsPresent, RowsInv, Settling
<1> QED
  BY <1>1, InitInv DEF RInv

LEMMA NextRows == RInv /\ [Next]_vars => RInv'
<1> SUFFICES ASSUME RInv, [Next]_vars PROVE RowsPresent' /\ \A e \in Dids : RowsInv(e)'
  BY NextInv DEF RInv
<1>1. items' = items => RowsPresent'
  BY DEF RInv, RowsPresent
<1>2. ASSUME NEW d \in Dids, NEW r \in Runs, Request(d, r)
      PROVE  RowsPresent' /\ \A e \in Dids : RowsInv(e)'
  BY <1>2, <1>1, RequestRows DEF Request, Enqueue, EnqueueCutShort
<1>3. ASSUME NEW d \in Dids, AlarmStep(d)
      PROVE  RowsPresent' /\ \A e \in Dids : RowsInv(e)'
  <2>1. IInv /\ TypeOK /\ RowsInv(d) /\ SoundQueue(store[d]) /\ SoundQueue(latest[d])
    BY DEF RInv, IInv, ObjectInv
  <2>2. CASE AlarmIgnored(d)
    <3>1. UNCHANGED <<store, pc, claimed, latest, outcome, todo, items>>
      BY <2>2 DEF AlarmIgnored
    <3> QED
      BY <3>1, <1>1, Elsewhere DEF RInv
  <2>3. CASE AlarmClaims(d)
    <3>1. /\ store'[d] = TakeNextTask(store[d]) /\ pc'[d] = "starting"
          /\ todo'[d] = store'[d].current.runIds
          /\ \A e \in Dids : e # d =>
               store'[e] = store[e] /\ todo'[e] = todo[e] /\ pc'[e] = pc[e]
          /\ UNCHANGED <<latest, outcome, items>>
      BY <2>1, <2>3 DEF AlarmClaims, TypeOK, TakeNextTask
    <3>2. \A x : Holds(store[d], x) => Holds(store'[d], x)
      BY <2>1, <2>3, <3>1, TakeHolds DEF AlarmClaims
    <3>3. RowsInv(d)'
      BY <2>1, <3>1, <3>2 DEF RowsInv, Settling
    <3>4. ASSUME NEW e \in Dids, e # d PROVE RowsInv(e)'
      BY <3>1, <3>4, Elsewhere DEF RInv
    <3> QED
      BY <3>1, <3>3, <3>4, <1>1
  <2>4. CASE MarkRunning(d)
    BY <2>4, RunningRow, WriteElsewhere DEF Statuses
  <2>5. CASE ExecuteChunk(d)
    <3>1. PICK o \in Outcomes(claimed[d]) : outcome' = [outcome EXCEPT ![d] = o]
      BY <2>5 DEF ExecuteChunk
    <3> QED
      BY <2>5, <3>1, <1>1, ReloadRows DEF ExecuteChunk
  <2>6. CASE ExecuteFails(d)
    BY <2>6, <1>1, ReloadRows DEF ExecuteFails, Catch
  <2>7. CASE MarkProgress(d)
    <3>1. SettledTask(d) = latest[d].current /\ latest[d].current.runIds \in Seq(Runs)
      BY <2>1, <2>7, SettledTaskCurrent DEF MarkProgress, Settling
    <3>2. <<>> \in Seq(Runs) /\ pc[d] = "progress"
      BY <2>7, EmptySeq DEF MarkProgress
    <3>3. CASE outcome[d].completed
      <4>1. WriteNextItem(d, "running", "completing", latest[d].current.runIds)
        BY <2>7, <3>1, <3>3 DEF MarkProgress
      <4>2. RowsInv(d)' /\ RowWritten(d, "running", "completing", latest[d].current.runIds)
        BY <3>1, <3>2, <3>3, <4>1, ProgressRow
      <4> QED
        BY <4>2, WriteElsewhere DEF Statuses
    <3>4. CASE ~outcome[d].completed
      <4>1. WriteNextItem(d, "running", "saving", <<>>)
        BY <2>7, <3>4 DEF MarkProgress
      <4>2. RowsInv(d)' /\ RowWritten(d, "running", "saving", <<>>)
        BY <3>2, <3>4, <4>1, ProgressRow
      <4> QED
        BY <4>2, WriteElsewhere DEF Statuses
    <3> QED
      BY <3>3, <3>4
  <2>8. CASE MarkComplete(d)
    <3>1. RowsInv(d)' /\ RowWritten(d, "complete", "saving", <<>>)
      BY <2>8, FinalRow DEF MarkComplete, Terminal
    <3> QED
      BY <3>1, WriteElsewhere DEF Statuses
  <2>9. CASE SaveSettled(d)
    <3> DEFINE next == IF outcome[d].completed THEN ClearCurrentTask(latest[d])
                       ELSE InsertContinuationTask(ClearCurrentTask(latest[d]),
                                                   Progressed(SettledTask(d), outcome[d]))
    <3>1. /\ pc[d] = "saving" /\ ForgetHandler(d) /\ items' = items
          /\ store' = [store EXCEPT ![d] = next]
      BY <2>9 DEF SaveSettled
    <3>2. ASSUME NEW r \in Runs, items[r][d].status = "running" PROVE Holds(next, r)
      <4>1. Holds(latest[d], r) /\ ~Settled(r, d)
        BY <2>1, <3>1, <3>2 DEF RowsInv, Settling, Settled, Terminal
      <4> QED
        BY <4>1, <3>1, SettledSave
    <3> HIDE DEF next
    <3> QED
      BY <3>1, <3>2, <1>1, ForgetRows
  <2>10. CASE MarkFailed(d)
    <3>1. RowsInv(d)' /\ RowWritten(d, "failed", "savingFailure", <<>>)
      BY <2>10, FinalRow DEF MarkFailed, Terminal
    <3> QED
      BY <3>1, WriteElsewhere DEF Statuses
  <2>11. CASE SaveFailed(d)
    <3>1. /\ pc[d] = "savingFailure" /\ ForgetHandler(d) /\ items' = items
          /\ store' = [store EXCEPT ![d] = ClearCurrentTask(latest[d])]
      BY <2>11 DEF SaveFailed
    <3>2. ASSUME NEW r \in Runs, items[r][d].status = "running"
          PROVE  Holds(ClearCurrentTask(latest[d]), r)
      <4>1. Holds(latest[d], r) /\ ~Settled(r, d)
        BY <2>1, <3>1, <3>2 DEF RowsInv, Settling, Settled, Terminal
      <4> QED
        BY <4>1, <3>1, FailedSave
    <3> QED
      BY <3>1, <3>2, <1>1, ForgetRows
  <2> QED
    BY <1>3, <2>2, <2>3, <2>4, <2>5, <2>6, <2>7, <2>8, <2>9, <2>10, <2>11 DEF AlarmStep
<1>4. ASSUME NEW d \in Dids, FaultStep(d)
      PROVE  RowsPresent' /\ \A e \in Dids : RowsInv(e)'
  <2>1. CASE SettleWriteFails(d)
    BY <2>1, <1>1, ReloadRows DEF SettleWriteFails, Catch
  <2>2. CASE HandlerDies(d)
    <3>1. store' = [store EXCEPT ![d] = store[d]] /\ ForgetHandler(d) /\ items' = items
      BY <2>2 DEF HandlerDies, RInv, IInv, TypeOK
    <3>2. \A r \in Runs : items[r][d].status = "running" => Holds(store[d], r)
      BY DEF RInv, RowsInv
    <3> QED
      BY <3>1, <3>2, <1>1, ForgetRows
  <2> QED
    BY <1>4, <2>1, <2>2 DEF FaultStep
<1>5. CASE UNCHANGED vars
  <2>1. UNCHANGED <<store, pc, latest, outcome, todo, items>>
    BY <1>5 DEF vars, doVars
  <2> QED
    BY <2>1, <1>1, Elsewhere DEF RInv
<1> QED
  BY <1>2, <1>3, <1>4, <1>5 DEF Next

(* A coordinator's step drops only runs whose rows it has settled.         *)
LEMMA NextSettles ==
  ASSUME RInv, [Next]_vars, NEW d \in Dids, NEW r \in Runs,
         Holds(latest[d], r), Holds(store[d], r), ~Holds(store'[d], r)
  PROVE  Settled(r, d)
<1>1. TypeOK /\ SoundQueue(store[d])
  BY DEF RInv, IInv, ObjectInv
<1>2. store'[d] # store[d]
  OBVIOUS
<1>3. ASSUME NEW e \in Dids, NEW q, store' = [store EXCEPT ![e] = q]
      PROVE  e = d /\ store'[d] = q
  BY <1>1, <1>2, <1>3 DEF TypeOK
<1>4. ASSUME NEW e \in Dids, NEW x \in Runs, Request(e, x) PROVE FALSE
  <2>1. store' = [store EXCEPT ![e] = EnqueueTask(store[e], x)]
    BY <1>4 DEF Request, Enqueue, EnqueueCutShort
  <2>2. e = d /\ store'[d] = EnqueueTask(store[d], x)
    BY <2>1, <1>3
  <2> QED
    BY <2>2, <1>1, EnqueueHolds
<1>5. ASSUME NEW e \in Dids, AlarmStep(e) \/ FaultStep(e) PROVE Settled(r, d)
  <2>1. CASE AlarmClaims(e)
    <3>1. store' = [store EXCEPT ![e] = TakeNextTask(store[e])] /\ CanTake(store[e])
      BY <2>1 DEF AlarmClaims
    <3>2. e = d /\ store'[d] = TakeNextTask(store[d])
      BY <3>1, <1>3
    <3> QED
      BY <3>1, <3>2, <1>1, TakeHolds
  <2>2. CASE SaveSettled(e)
    <3> DEFINE next == IF outcome[e].completed THEN ClearCurrentTask(latest[e])
                       ELSE InsertContinuationTask(ClearCurrentTask(latest[e]),
                                                   Progressed(SettledTask(e), outcome[e]))
    <3>1. pc[e] = "saving" /\ store' = [store EXCEPT ![e] = next]
      BY <2>2 DEF SaveSettled
    <3>2. e = d /\ store'[d] = next
      BY <3>1, <1>3
    <3> QED
      BY <3>1, <3>2, SettledSave
  <2>3. CASE SaveFailed(e)
    <3>1. pc[e] = "savingFailure" /\ store' = [store EXCEPT ![e] = ClearCurrentTask(latest[e])]
      BY <2>3 DEF SaveFailed
    <3>2. e = d /\ store'[d] = ClearCurrentTask(latest[d])
      BY <3>1, <1>3
    <3> QED
      BY <3>1, <3>2, FailedSave
  <2>4. CASE ~AlarmClaims(e) /\ ~SaveSettled(e) /\ ~SaveFailed(e)
    <3>1. store' = store
      BY <1>5, <2>4 DEF AlarmStep, FaultStep, AlarmIgnored, MarkRunning, ExecuteChunk,
        ExecuteFails, MarkProgress, MarkComplete, MarkFailed, SettleWriteFails, HandlerDies,
        Catch, WriteNextItem
    <3> QED
      BY <3>1, <1>2
  <2> QED
    BY <2>1, <2>2, <2>3, <2>4
<1>6. CASE UNCHANGED vars
  BY <1>6, <1>2 DEF vars, doVars
<1> QED
  BY <1>4, <1>5, <1>6 DEF Next

THEOREM RowsInvariant == Spec => []RInv
<1> QED
  BY InitRows, NextRows, PTL DEF Spec

(* No row is left running for a coordinator that has forgotten the run.    *)
THEOREM RunningStaysHeld == Spec => []RunningIsHeld
<1>1. RInv => RunningIsHeld
  BY DEF RInv, RowsInv, RunningIsHeld
<1> QED
  BY RowsInvariant, <1>1, PTL

(* A run that alarm() saw when it reloaded its queue leaves the queue only *)
(* with its row complete or failed.                                        *)
THEOREM NoneDroppedUnsettled == Spec => SettledBeforeDropped
<1>1. RInv /\ [Next]_vars =>
        [\A d \in Dids, r \in Runs :
           Holds(latest[d], r) /\ Holds(store[d], r) /\ ~Holds(store'[d], r)
             => items[r][d].status \in Terminal]_vars
  BY NextSettles DEF Settled
<1> QED
  BY RowsInvariant, <1>1, PTL DEF Spec, SettledBeforeDropped
=============================================================================
