----------------------- MODULE EntityProjectionProofs -----------------------
(***************************************************************************)
(* Proofs about EntityProjection, for any entities, drains, requests,      *)
(* limits, window and faults.                                              *)
(***************************************************************************)
EXTENDS EntityProjection, FiniteSetTheorems, TLAPS

(* Ids are handed out once, so nothing in the tables or in the hands of a  *)
(* drain has one that a new row could still get.                           *)
IdsIssued ==
  /\ \A row \in queue : row.id <= issued
  /\ \A letter \in dead : letter.id <= issued
  /\ \A t \in tasks : t.id <= issued

(* A row, and a writer that is about to schedule, are never ahead of the   *)
(* snapshot they stand for.                                                *)
AskedIsSaved ==
  /\ \A row \in queue : row.asked <= snapshot[row.entity]
  /\ \A w \in saved : w.version <= snapshot[w.entity]

(* What a drain has loaded for a row is as new as the row's first request, *)
(* whatever was coalesced into the row since, and once the upload is       *)
(* answered the index has held it.                                         *)
LoadedIsRecent ==
  /\ \A t \in tasks, row \in queue :
       t.id = row.id => /\ t.entity = row.entity
                        /\ t.at \in {"loaded", "uploaded"} => t.version >= row.asked
  /\ \A t \in tasks : t.at = "uploaded" => reached[t.entity] >= t.version

IInv ==
  TypeOK /\ OneRowPerKey /\ NoWeakerWork /\ SpentIsBuried
  /\ IdsIssued /\ AskedIsSaved /\ LoadedIsRecent

-----------------------------------------------------------------------------
LEMMA InitInv == Init => IInv
<1> SUFFICES ASSUME Init PROVE IInv
  OBVIOUS
<1>1. TypeOK
  BY ProjectionAssumption DEF Init, TypeOK
<1> QED
  BY <1>1 DEF Init, IInv, OneRowPerKey, NoWeakerWork, SpentIsBuried, IdsIssued, AskedIsSaved,
     LoadedIsRecent

(* Coalescing keeps whose the row is and what it was first written for.    *)
LEMMA CoalescedRow ==
  ASSUME NEW row \in Row, NEW q \in Requests,
         \A r \in row.merged : r.priority <= row.priority /\ r.depth <= row.depth,
         \E r \in row.merged : r.priority = row.priority /\ r.cause = row.cause
  PROVE  LET new == Coalesced(row, q) IN
         /\ new \in Row
         /\ new.id = row.id /\ new.entity = row.entity /\ new.open = row.open
         /\ new.asked = row.asked /\ new.attempts = 0
         /\ \A r \in new.merged : r.priority <= new.priority /\ r.depth <= new.depth
         /\ \E r \in new.merged : r.priority = new.priority /\ r.cause = new.cause
<1> DEFINE new == Coalesced(row, q)
<1>1. /\ q.priority \in Nat /\ q.depth \in Nat /\ q.delay \in Nat
      /\ q.cause \in {r.cause : r \in Requests}
  BY ProjectionAssumption
<1>2. /\ row.priority \in Nat /\ row.depth \in Nat /\ row.wait \in Nat
      /\ row.merged \subseteq Requests
      /\ row.cause \in {r.cause : r \in Requests}
  BY DEF Row
<1>3. 0 \in 0..MaxAttempts
  BY DEF MaxAttempts
<1>4. /\ new.id = row.id /\ new.entity = row.entity /\ new.open = row.open
      /\ new.asked = row.asked /\ new.attempts = 0
      /\ new.depth = IF q.depth > row.depth THEN q.depth ELSE row.depth
      /\ new.priority = IF q.priority > row.priority THEN q.priority ELSE row.priority
      /\ new.cause = IF q.priority >= row.priority THEN q.cause ELSE row.cause
      /\ new.merged = row.merged \cup {q}
  BY DEF Coalesced, Row
<1>5. new \in Row
  BY <1>1, <1>2, <1>3 DEF Coalesced, Row
<1>6. \A r \in row.merged : r.priority \in Nat /\ r.depth \in Nat
  BY <1>2, ProjectionAssumption
<1>7. \A r \in new.merged : r.priority <= new.priority /\ r.depth <= new.depth
  BY <1>1, <1>2, <1>4, <1>6
<1>8. \E r \in new.merged : r.priority = new.priority /\ r.cause = new.cause
  <2>1. CASE q.priority >= row.priority
    BY <2>1, <1>1, <1>2, <1>4
  <2>2. CASE ~(q.priority >= row.priority)
    BY <2>2, <1>1, <1>2, <1>4
  <2> QED
    BY <2>1, <2>2
<1> QED
  BY <1>4, <1>5, <1>7, <1>8

(* A row of a request of its own.                                          *)
LEMMA FreshRow ==
  ASSUME TypeOK, NEW e \in Entities, NEW q \in Requests, NEW v \in 1..MaxVersion
  PROVE  LET new == NewRow(e, q, v) IN
         /\ new \in Row
         /\ new.id = issued + 1 /\ new.entity = e /\ new.open
         /\ new.asked = v /\ new.attempts = 0
         /\ \A r \in new.merged : r.priority <= new.priority /\ r.depth <= new.depth
         /\ \E r \in new.merged : r.priority = new.priority /\ r.cause = new.cause
<1>1. /\ q.priority \in Nat /\ q.depth \in Nat /\ q.delay \in Nat
      /\ q.cause \in {r.cause : r \in Requests}
  BY ProjectionAssumption
<1>2. issued + 1 \in Nat /\ 0 \in 0..MaxAttempts
  BY DEF TypeOK, MaxAttempts
<1> QED
  BY <1>1, <1>2 DEF NewRow, Row

(* What schedule() leaves in the queue.                                    *)
LEMMA UpsertQueue ==
  ASSUME IInv, NEW e \in Entities, NEW q \in Requests, NEW v \in 1..MaxVersion,
         Upsert(e, q, v)
  PROVE  /\ queue' \subseteq Row /\ issued' \in Nat /\ issued' >= issued
         /\ \A row \in queue' :
              /\ row.id <= issued'
              /\ \A r \in row.merged : r.priority <= row.priority /\ r.depth <= row.depth
              /\ \E r \in row.merged : r.priority = row.priority /\ r.cause = row.cause
         /\ \A row \in queue' :
              \/ row.id = issued + 1 /\ row.entity = e /\ row.asked = v /\ row.attempts = 0
              \/ \E old \in queue : /\ old.id = row.id /\ old.entity = row.entity
                                    /\ old.asked = row.asked
                                    /\ row = old \/ row.attempts = 0
         /\ \A row, other \in queue' :
              row.id = other.id \/ (row.entity = other.entity /\ row.open /\ other.open)
                => row = other
         /\ \A row \in queue : \E kept \in queue' : kept.id = row.id
<1> DEFINE same == {row \in queue : row.entity = e /\ row.open}
           fresh == NewRow(e, q, v)
<1>1. /\ queue \subseteq Row /\ issued \in Nat
      /\ \A row \in queue : row.id \in Nat /\ row.id <= issued
      /\ \A row \in queue : /\ \A r \in row.merged : r.priority <= row.priority /\ r.depth <= row.depth
                            /\ \E r \in row.merged : r.priority = row.priority /\ r.cause = row.cause
      /\ \A row, other \in queue :
           row.id = other.id \/ (row.entity = other.entity /\ row.open /\ other.open) => row = other
  BY DEF IInv, TypeOK, IdsIssued, NoWeakerWork, OneRowPerKey, Row
<1>2. CASE same = {}
  <2>1. queue' = queue \cup {fresh} /\ issued' = issued + 1
    BY <1>2 DEF Upsert
  <2>2. /\ fresh \in Row /\ fresh.id = issued + 1 /\ fresh.entity = e
        /\ fresh.asked = v /\ fresh.attempts = 0
        /\ \A r \in fresh.merged : r.priority <= fresh.priority /\ r.depth <= fresh.depth
        /\ \E r \in fresh.merged : r.priority = fresh.priority /\ r.cause = fresh.cause
    BY FreshRow DEF IInv
  <2>3. \A row \in queue : row.id # fresh.id /\ ~(row.entity = e /\ row.open)
    BY <1>1, <1>2, <2>2
  <2> HIDE DEF fresh, same
  <2> QED
    BY <1>1, <2>1, <2>2, <2>3
<1>3. CASE same # {}
  <2>1. PICK old \in queue : old.entity = e /\ old.open
    BY <1>3
  <2>2. same = {old}
    BY <1>1, <2>1
  <2> DEFINE new == Coalesced(old, q)
  <2>3. queue' = (queue \ {old}) \cup {new} /\ issued' = issued
    BY <1>3, <2>2 DEF Upsert
  <2>4. /\ new \in Row /\ new.id = old.id /\ new.entity = old.entity /\ new.open = old.open
        /\ new.asked = old.asked /\ new.attempts = 0
        /\ \A r \in new.merged : r.priority <= new.priority /\ r.depth <= new.depth
        /\ \E r \in new.merged : r.priority = new.priority /\ r.cause = new.cause
    BY <1>1, <2>1, CoalescedRow
  <2> HIDE DEF new, same
  <2> QED
    BY <1>1, <2>1, <2>3, <2>4
<1> QED
  BY <1>2, <1>3

(* Scheduling keeps what holds of the queue, the drains and the letters.   *)
LEMMA UpsertStep ==
  ASSUME IInv, NEW e \in Entities, NEW q \in Requests, NEW v \in 1..MaxVersion,
         Upsert(e, q, v),
         snapshot' \in [Entities -> 0..MaxVersion], v <= snapshot'[e],
         \A x \in Entities : snapshot[x] <= snapshot'[x],
         UNCHANGED <<dead, tasks, reached, faults>>
  PROVE  /\ queue' \subseteq Row /\ issued' \in Nat
         /\ OneRowPerKey' /\ NoWeakerWork' /\ SpentIsBuried' /\ IdsIssued' /\ LoadedIsRecent'
         /\ \A row \in queue' : row.asked <= snapshot'[row.entity]
<1>1. /\ queue \subseteq Row /\ issued \in Nat /\ tasks \subseteq WorkItem /\ dead \subseteq Letter
      /\ snapshot \in [Entities -> 0..MaxVersion] /\ MaxVersion \in Nat
      /\ \A row \in queue : /\ row.entity \in Entities /\ row.asked \in Nat /\ row.id \in Nat
                            /\ row.asked <= snapshot[row.entity]
  BY ProjectionAssumption DEF IInv, TypeOK, AskedIsSaved, Row
<1>2. /\ \A t \in tasks : t.id \in Nat /\ t.id <= issued
      /\ \A letter \in dead : letter.id \in Nat /\ letter.id <= issued
  BY <1>1 DEF IInv, IdsIssued, WorkItem, Letter
<1>3. /\ queue' \subseteq Row /\ issued' \in Nat /\ issued' >= issued
      /\ \A row \in queue' :
           /\ row.id <= issued'
           /\ \A r \in row.merged : r.priority <= row.priority /\ r.depth <= row.depth
           /\ \E r \in row.merged : r.priority = row.priority /\ r.cause = row.cause
      /\ \A row, other \in queue' :
           row.id = other.id \/ (row.entity = other.entity /\ row.open /\ other.open)
             => row = other
  BY UpsertQueue
<1>r. \A row \in queue' :
        \/ row.id = issued + 1 /\ row.entity = e /\ row.asked = v /\ row.attempts = 0
        \/ \E old \in queue : /\ old.id = row.id /\ old.entity = row.entity
                              /\ old.asked = row.asked
                              /\ row = old \/ row.attempts = 0
  BY UpsertQueue
<1>4. OneRowPerKey'
  <2>1. ASSUME NEW row \in queue', NEW letter \in dead PROVE row.id # letter.id
    <3>1. CASE row.id = issued + 1
      BY <1>1, <1>2, <3>1
    <3>2. CASE \E old \in queue : old.id = row.id
      BY <3>2 DEF IInv, OneRowPerKey
    <3> QED
      BY <3>1, <3>2, <1>r
  <2> QED
    BY <1>3, <2>1 DEF OneRowPerKey
<1>5. NoWeakerWork'
  BY <1>3 DEF NoWeakerWork
<1>6. SpentIsBuried'
  <2>1. ASSUME NEW row \in queue', row.attempts = MaxAttempts PROVE row \in queue
    BY <1>r, <2>1 DEF MaxAttempts
  <2> QED
    BY <2>1 DEF IInv, SpentIsBuried, Stranded
<1>7. IdsIssued'
  BY <1>1, <1>2, <1>3 DEF IdsIssued
<1>8. LoadedIsRecent'
  <2>1. ASSUME NEW t \in tasks, NEW row \in queue', t.id = row.id
        PROVE  /\ t.entity = row.entity
               /\ t.at \in {"loaded", "uploaded"} => t.version >= row.asked
    <3>1. row.id # issued + 1
      BY <1>1, <1>2, <2>1
    <3>2. \E old \in queue : old.id = row.id /\ old.entity = row.entity /\ old.asked = row.asked
      BY <1>r, <3>1
    <3>3. PICK old \in queue : old.id = row.id /\ old.entity = row.entity /\ old.asked = row.asked
      BY <3>2
    <3> QED
      BY <2>1, <3>3 DEF IInv, LoadedIsRecent
  <2>2. \A t \in tasks : t.at = "uploaded" => reached[t.entity] >= t.version
    BY DEF IInv, LoadedIsRecent
  <2> QED
    BY <2>1, <2>2 DEF LoadedIsRecent
<1>9. ASSUME NEW row \in queue' PROVE row.asked <= snapshot'[row.entity]
  <2>1. CASE row.entity = e /\ row.asked = v
    BY <2>1
  <2>2. CASE \E old \in queue : old.entity = row.entity /\ old.asked = row.asked
    <3>1. PICK old \in queue : old.entity = row.entity /\ old.asked = row.asked
      BY <2>2
    <3>2. snapshot[old.entity] \in Nat /\ snapshot'[old.entity] \in Nat
      BY <1>1
    <3> QED
      BY <1>1, <3>1, <3>2
  <2>3. \/ row.entity = e /\ row.asked = v
        \/ \E old \in queue : old.entity = row.entity /\ old.asked = row.asked
    BY <1>r
  <2> QED
    BY <2>1, <2>2, <2>3
<1> QED
  BY <1>3, <1>4, <1>5, <1>6, <1>7, <1>8, <1>9

-----------------------------------------------------------------------------
(***************************************************************************)
(* Writers                                                                 *)
(***************************************************************************)
LEMMA SaveStep ==
  ASSUME IInv, NEW e \in Entities, NEW q \in Requests, Save(e, q)
  PROVE  IInv'
<1>1. /\ snapshot \in [Entities -> 0..MaxVersion] /\ MaxVersion \in Nat
      /\ saved \subseteq [entity : Entities, version : 1..MaxVersion, request : Requests]
      /\ \A row \in queue : row.entity \in Entities /\ row.asked \in Nat
  BY ProjectionAssumption DEF IInv, TypeOK, Row
<1> DEFINE w == [entity |-> e, version |-> snapshot[e] + 1, request |-> q]
<1>2. /\ snapshot[e] < MaxVersion /\ snapshot[e] \in Nat
      /\ snapshot' = [snapshot EXCEPT ![e] = snapshot[e] + 1]
      /\ saved' = saved \cup {w}
      /\ UNCHANGED <<queue, dead, tasks, index, reached, issued, left, faults>>
  BY <1>1 DEF Save
<1>3. /\ snapshot' \in [Entities -> 0..MaxVersion] /\ snapshot'[e] = snapshot[e] + 1
      /\ w \in [entity : Entities, version : 1..MaxVersion, request : Requests]
  BY <1>1, <1>2
<1>4. \A x \in Entities : snapshot[x] <= snapshot'[x] /\ snapshot[x] \in Nat /\ snapshot'[x] \in Nat
  BY <1>1, <1>2, <1>3
<1>5. TypeOK'
  BY <1>2, <1>3 DEF IInv, TypeOK
<1>6. AskedIsSaved'
  <2>1. ASSUME NEW row \in queue PROVE row.asked <= snapshot'[row.entity]
    BY <1>1, <1>4 DEF IInv, AskedIsSaved
  <2>2. ASSUME NEW o \in saved PROVE o.version <= snapshot'[o.entity]
    <3>1. o.entity \in Entities /\ o.version \in Nat /\ o.version <= snapshot[o.entity]
      BY <1>1 DEF IInv, AskedIsSaved
    <3> QED
      BY <1>4, <3>1
  <2>3. w.version <= snapshot'[w.entity]
    BY <1>2, <1>3
  <2> HIDE DEF w
  <2> QED
    BY <1>2, <2>1, <2>2, <2>3 DEF AskedIsSaved
<1> QED
  BY <1>2, <1>5, <1>6 DEF IInv, OneRowPerKey, NoWeakerWork, SpentIsBuried, Stranded, IdsIssued,
     LoadedIsRecent

LEMMA ScheduleStep ==
  ASSUME IInv, NEW w \in saved, Schedule(w)
  PROVE  IInv'
<1>1. /\ w.entity \in Entities /\ w.version \in 1..MaxVersion /\ w.request \in Requests
      /\ w.version <= snapshot[w.entity]
      /\ snapshot \in [Entities -> 0..MaxVersion]
      /\ UNCHANGED <<snapshot, dead, tasks, index, reached, left, faults>>
      /\ saved' = saved \ {w}
  BY DEF IInv, TypeOK, AskedIsSaved, Schedule
<1>2. CASE w.request.depth > MaxDepth
  BY <1>1, <1>2 DEF Schedule, IInv, TypeOK, OneRowPerKey, NoWeakerWork, SpentIsBuried, Stranded,
     IdsIssued, AskedIsSaved, LoadedIsRecent
<1>3. CASE ~(w.request.depth > MaxDepth)
  <2>1. Upsert(w.entity, w.request, w.version)
    BY <1>3 DEF Schedule
  <2>2. \A x \in Entities : snapshot[x] <= snapshot'[x]
    BY <1>1, ProjectionAssumption
  <2>3. /\ queue' \subseteq Row /\ issued' \in Nat
        /\ OneRowPerKey' /\ NoWeakerWork' /\ SpentIsBuried' /\ IdsIssued' /\ LoadedIsRecent'
        /\ \A row \in queue' : row.asked <= snapshot'[row.entity]
    BY <1>1, <2>1, <2>2, UpsertStep
  <2>4. TypeOK'
    BY <1>1, <2>3 DEF IInv, TypeOK
  <2>5. AskedIsSaved'
    BY <1>1, <2>3 DEF IInv, AskedIsSaved
  <2> QED
    BY <2>3, <2>4, <2>5 DEF IInv
<1> QED
  BY <1>2, <1>3

LEMMA SaveAndScheduleStep ==
  ASSUME IInv, NEW e \in Entities, NEW q \in Requests, SaveAndSchedule(e, q)
  PROVE  IInv'
<1>1. /\ snapshot \in [Entities -> 0..MaxVersion] /\ MaxVersion \in Nat
      /\ saved \subseteq [entity : Entities, version : 1..MaxVersion, request : Requests]
      /\ snapshot[e] < MaxVersion /\ snapshot[e] \in Nat
      /\ snapshot' = [snapshot EXCEPT ![e] = snapshot[e] + 1]
      /\ Upsert(e, q, snapshot[e] + 1)
      /\ UNCHANGED <<saved, dead, tasks, index, reached, left, faults>>
  BY ProjectionAssumption DEF IInv, TypeOK, SaveAndSchedule
<1>2. /\ snapshot' \in [Entities -> 0..MaxVersion] /\ snapshot'[e] = snapshot[e] + 1
      /\ snapshot[e] + 1 \in 1..MaxVersion
  BY <1>1
<1>3. \A x \in Entities : snapshot[x] <= snapshot'[x] /\ snapshot[x] \in Nat /\ snapshot'[x] \in Nat
  BY <1>1, <1>2
<1>4. /\ queue' \subseteq Row /\ issued' \in Nat
      /\ OneRowPerKey' /\ NoWeakerWork' /\ SpentIsBuried' /\ IdsIssued' /\ LoadedIsRecent'
      /\ \A row \in queue' : row.asked <= snapshot'[row.entity]
  BY <1>1, <1>2, <1>3, UpsertStep
<1>5. TypeOK'
  BY <1>1, <1>2, <1>4 DEF IInv, TypeOK
<1>6. ASSUME NEW w \in saved PROVE w.version <= snapshot'[w.entity]
  <2>1. w.entity \in Entities /\ w.version \in Nat /\ w.version <= snapshot[w.entity]
    BY <1>1 DEF IInv, AskedIsSaved
  <2> QED
    BY <1>3, <2>1
<1> QED
  BY <1>1, <1>4, <1>5, <1>6 DEF IInv, AskedIsSaved

LEMMA WriterDiesStep ==
  ASSUME IInv, NEW w \in saved, WriterDies(w)
  PROVE  IInv'
<1>1. /\ saved' = saved \ {w} /\ faults' = faults + 1 /\ faults < MaxFaults /\ faults \in 0..MaxFaults
      /\ UNCHANGED <<snapshot, queue, dead, tasks, index, reached, issued, left>>
  BY DEF WriterDies, Fault, IInv, TypeOK
<1>2. faults' \in 0..MaxFaults /\ faults' > 0
  BY <1>1, ProjectionAssumption
<1>3. TypeOK'
  BY <1>1, <1>2 DEF IInv, TypeOK
<1> QED
  BY <1>1, <1>2, <1>3 DEF IInv, OneRowPerKey, NoWeakerWork, SpentIsBuried, Stranded, IdsIssued,
     AskedIsSaved, LoadedIsRecent

-----------------------------------------------------------------------------
(***************************************************************************)
(* Drains                                                                  *)
(***************************************************************************)
LEMMA DrainNextStep ==
  ASSUME IInv, NEW d \in Drains, DrainNext(d)
  PROVE  IInv'
<1>1. PICK batch \in Batches(d) :
        tasks' = tasks \cup {[drain |-> d, id |-> row.id, entity |-> row.entity,
                              at |-> "pulled", version |-> 0] : row \in batch}
  BY DEF DrainNext
<1>2. /\ batch \subseteq queue
      /\ UNCHANGED <<snapshot, saved, queue, dead, index, reached, issued, left, faults>>
  BY DEF DrainNext, Batches, Due
<1>3. \A row \in queue : row.id \in Nat /\ row.entity \in Entities /\ row.id <= issued
  BY DEF IInv, TypeOK, IdsIssued, Row
<1>4. ASSUME NEW t \in tasks', t \notin tasks
      PROVE  /\ t \in WorkItem /\ t.at = "pulled"
             /\ \E row \in queue : t.id = row.id /\ t.entity = row.entity
  <2>1. PICK row \in batch : t = [drain |-> d, id |-> row.id, entity |-> row.entity,
                                  at |-> "pulled", version |-> 0]
    BY <1>1, <1>4
  <2> QED
    BY <1>2, <1>3, <2>1, ProjectionAssumption DEF WorkItem, TaskPhases
<1>5. TypeOK'
  BY <1>2, <1>4 DEF IInv, TypeOK
<1>6. SpentIsBuried'
  BY <1>1, <1>2, <1>4 DEF IInv, SpentIsBuried, Stranded
<1>7. IdsIssued'
  BY <1>2, <1>3, <1>4 DEF IInv, IdsIssued
<1>8. LoadedIsRecent'
  <2>1. ASSUME NEW t \in tasks', t \notin tasks, NEW row \in queue, t.id = row.id
        PROVE  t.entity = row.entity
    BY <1>4, <2>1 DEF IInv, OneRowPerKey
  <2> QED
    BY <1>2, <1>4, <2>1 DEF IInv, LoadedIsRecent
<1> QED
  BY <1>2, <1>5, <1>6, <1>7, <1>8 DEF IInv, OneRowPerKey, NoWeakerWork, AskedIsSaved

(* A row of a drain goes on; the queue does not change.                    *)
LEMMA MoveStep ==
  ASSUME IInv, NEW t \in tasks, NEW next \in WorkItem, Move(t, next),
         next.id = t.id, next.entity = t.entity, t.at # "burying",
         next.at \in {"loaded", "uploaded"} =>
           \A row \in queue : row.id = t.id => next.version >= row.asked,
         next.at = "uploaded" => reached'[next.entity] >= next.version,
         reached' \in [Entities -> 0..MaxVersion],
         index' \in [Entities -> 0..MaxVersion],
         \A x \in Entities : reached'[x] >= reached[x],
         faults' \in 0..MaxFaults, faults' >= faults,
         UNCHANGED <<snapshot, saved, queue, dead, issued, left>>
  PROVE  IInv'
<1>1. \A o \in tasks' : o = next \/ o \in tasks
  BY DEF Move
<1>2. TypeOK'
  BY <1>1 DEF IInv, TypeOK
<1>3. SpentIsBuried'
  <2>1. ASSUME NEW row \in queue, Stranded(row)' PROVE Stranded(row)
    BY <2>1 DEF Move, Stranded
  <2>2. faults \in 0..MaxFaults
    BY DEF IInv, TypeOK
  <2> QED
    BY <2>1, <2>2, ProjectionAssumption DEF IInv, SpentIsBuried
<1>4. IdsIssued'
  BY <1>1 DEF IInv, IdsIssued
<1>5. LoadedIsRecent'
  <2>1. ASSUME NEW o \in tasks', NEW row \in queue, o.id = row.id
        PROVE  /\ o.entity = row.entity
               /\ o.at \in {"loaded", "uploaded"} => o.version >= row.asked
    BY <1>1, <2>1 DEF IInv, LoadedIsRecent
  <2>2. ASSUME NEW o \in tasks', o.at = "uploaded" PROVE reached'[o.entity] >= o.version
    <3>1. CASE o = next
      BY <2>2, <3>1
    <3>2. CASE o \in tasks
      <4>1. /\ o.entity \in Entities /\ o.version \in Nat
            /\ reached[o.entity] \in Nat /\ reached'[o.entity] \in Nat
            /\ reached[o.entity] >= o.version
        BY <2>2, <3>2, ProjectionAssumption DEF IInv, TypeOK, WorkItem, LoadedIsRecent
      <4> QED
        BY <4>1
    <3> QED
      BY <1>1, <3>1, <3>2
  <2> QED
    BY <2>1, <2>2 DEF LoadedIsRecent
<1> QED
  BY <1>2, <1>3, <1>4, <1>5 DEF IInv, OneRowPerKey, NoWeakerWork, AskedIsSaved

LEMMA LoadStep ==
  ASSUME IInv, NEW t \in tasks, Load(t)
  PROVE  IInv'
<1> DEFINE next == [t EXCEPT !.at = "loaded", !.version = snapshot[t.entity]]
<1>1. /\ t \in WorkItem /\ t.at = "pulled" /\ Move(t, next)
      /\ UNCHANGED <<snapshot, saved, queue, dead, index, reached, issued, left, faults>>
  BY DEF Load, IInv, TypeOK
<1>2. /\ next \in WorkItem /\ next.id = t.id /\ next.entity = t.entity
      /\ next.at = "loaded" /\ next.version = snapshot[t.entity]
  BY <1>1 DEF IInv, TypeOK, WorkItem, TaskPhases
<1>3. \A row \in queue : row.id = t.id => next.version >= row.asked
  <2> SUFFICES ASSUME NEW row \in queue, row.id = t.id PROVE snapshot[t.entity] >= row.asked
    BY <1>2
  <2>1. row.entity = t.entity /\ row.asked <= snapshot[row.entity]
    BY DEF IInv, LoadedIsRecent, AskedIsSaved
  <2>2. row.asked \in Nat /\ snapshot[row.entity] \in Nat
    BY ProjectionAssumption DEF IInv, TypeOK, Row
  <2> QED
    BY <2>1, <2>2
<1>4. /\ reached' \in [Entities -> 0..MaxVersion] /\ index' \in [Entities -> 0..MaxVersion]
      /\ \A x \in Entities : reached'[x] >= reached[x]
      /\ faults' \in 0..MaxFaults /\ faults' >= faults
  BY <1>1, ProjectionAssumption DEF IInv, TypeOK
<1> HIDE DEF next
<1> QED
  BY <1>1, <1>2, <1>3, <1>4, MoveStep

LEMMA UploadStep ==
  ASSUME IInv, NEW t \in tasks, Upload(t)
  PROVE  IInv'
<1>1. PICK at \in {"uploaded", "failing"} : Move(t, [t EXCEPT !.at = at])
  BY DEF Upload
<1> DEFINE next == [t EXCEPT !.at = at]
<1>2. /\ t \in WorkItem /\ t.at = "loaded" /\ MaxVersion \in Nat
      /\ t.entity \in Entities /\ t.version \in 0..MaxVersion
      /\ index' = [index EXCEPT ![t.entity] = t.version]
      /\ reached' = [reached EXCEPT ![t.entity] =
                       IF t.version > reached[t.entity] THEN t.version ELSE reached[t.entity]]
      /\ index \in [Entities -> 0..MaxVersion] /\ reached \in [Entities -> 0..MaxVersion]
      /\ UNCHANGED <<snapshot, saved, queue, dead, issued, left, faults>>
  BY ProjectionAssumption DEF Upload, IInv, TypeOK, WorkItem
<1>3. /\ next \in WorkItem /\ next.id = t.id /\ next.entity = t.entity
      /\ next.at = at /\ next.version = t.version
  BY <1>2 DEF WorkItem, TaskPhases
<1>4. \A row \in queue : row.id = t.id => next.version >= row.asked
  BY <1>2, <1>3 DEF IInv, LoadedIsRecent
<1>5. /\ reached' \in [Entities -> 0..MaxVersion] /\ index' \in [Entities -> 0..MaxVersion]
      /\ \A x \in Entities : reached'[x] >= reached[x]
      /\ reached'[t.entity] >= t.version
  BY <1>2
<1>6. faults' \in 0..MaxFaults /\ faults' >= faults
  BY <1>2, ProjectionAssumption DEF IInv, TypeOK
<1>7. Move(t, next) /\ t.at # "burying"
  BY <1>1, <1>2
<1> HIDE DEF next
<1> QED
  BY <1>2, <1>3, <1>4, <1>5, <1>6, <1>7, MoveStep

LEMMA ToFailingStep ==
  ASSUME IInv, NEW t \in tasks, t.at # "burying", Move(t, [t EXCEPT !.at = "failing"]),
         faults' \in 0..MaxFaults, faults' >= faults,
         UNCHANGED <<snapshot, saved, queue, dead, index, reached, issued, left>>
  PROVE  IInv'
<1> DEFINE next == [t EXCEPT !.at = "failing"]
<1>1. t \in WorkItem
  BY DEF IInv, TypeOK
<1>2. /\ next \in WorkItem /\ next.id = t.id /\ next.entity = t.entity /\ next.at = "failing"
  BY <1>1 DEF WorkItem, TaskPhases
<1>3. /\ reached' \in [Entities -> 0..MaxVersion] /\ index' \in [Entities -> 0..MaxVersion]
      /\ \A x \in Entities : reached'[x] >= reached[x]
  BY ProjectionAssumption DEF IInv, TypeOK
<1>4. Move(t, next)
  OBVIOUS
<1> HIDE DEF next
<1> QED
  BY <1>2, <1>3, <1>4, MoveStep

LEMMA ProjectFailsStep ==
  ASSUME IInv, NEW t \in tasks, ProjectFails(t)
  PROVE  IInv'
<1>1. /\ t.at # "burying" /\ Move(t, [t EXCEPT !.at = "failing"])
      /\ UNCHANGED <<snapshot, saved, queue, dead, index, reached, issued, left, faults>>
  BY DEF ProjectFails
<1>2. faults' \in 0..MaxFaults /\ faults' >= faults
  BY <1>1, ProjectionAssumption DEF IInv, TypeOK
<1> QED
  BY <1>1, <1>2, ToFailingStep

LEMMA CompleteFailsStep ==
  ASSUME IInv, NEW t \in tasks, CompleteFails(t)
  PROVE  IInv'
<1>1. /\ t.at # "burying" /\ Move(t, [t EXCEPT !.at = "failing"])
      /\ faults' = faults + 1 /\ faults < MaxFaults /\ faults \in 0..MaxFaults
      /\ UNCHANGED <<snapshot, saved, queue, dead, index, reached, issued, left>>
  BY DEF CompleteFails, Fault, IInv, TypeOK
<1>2. faults' \in 0..MaxFaults /\ faults' >= faults
  BY <1>1, ProjectionAssumption
<1> QED
  BY <1>1, <1>2, ToFailingStep

(* Deleting the row of a task, and the task: nothing else is disturbed.    *)
LEMMA DropRow ==
  ASSUME IInv, NEW t \in tasks,
         queue' = {row \in queue : row.id # t.id}, tasks' = tasks \ {t},
         UNCHANGED <<snapshot, saved, index, reached, issued, left, faults>>
  PROVE  /\ queue' \subseteq Row /\ tasks' \subseteq WorkItem
         /\ NoWeakerWork' /\ SpentIsBuried' /\ AskedIsSaved' /\ LoadedIsRecent'
         /\ \A row, other \in queue' :
              row.id = other.id \/ (row.entity = other.entity /\ row.open /\ other.open)
                => row = other
<1>1. ASSUME NEW row \in queue', Stranded(row)' PROVE row \in queue /\ Stranded(row)
  BY <1>1 DEF Stranded
<1>2. SpentIsBuried'
  BY <1>1 DEF IInv, SpentIsBuried
<1> QED
  BY <1>2 DEF IInv, TypeOK, OneRowPerKey, NoWeakerWork, AskedIsSaved, LoadedIsRecent

LEMMA MarkCompleteStep ==
  ASSUME IInv, NEW t \in tasks, MarkComplete(t)
  PROVE  IInv'
<1>1. /\ queue' = {row \in queue : row.id # t.id} /\ tasks' = tasks \ {t}
      /\ UNCHANGED <<snapshot, saved, dead, index, reached, issued, left, faults>>
  BY DEF MarkComplete
<1>2. TypeOK'
  BY <1>1 DEF IInv, TypeOK
<1>3. OneRowPerKey' /\ IdsIssued'
  BY <1>1 DEF IInv, OneRowPerKey, IdsIssued
<1> QED
  BY <1>1, <1>2, <1>3, DropRow DEF IInv

LEMMA BuryStep ==
  ASSUME IInv, NEW t \in tasks, Bury(t)
  PROVE  IInv'
<1> DEFINE letter == [id |-> t.id, entity |-> t.entity]
<1>1. /\ queue' = {row \in queue : row.id # t.id} /\ tasks' = tasks \ {t}
      /\ dead' = dead \cup {letter}
      /\ UNCHANGED <<snapshot, saved, index, reached, issued, left, faults>>
  BY DEF Bury
<1>2. letter \in Letter /\ letter.id = t.id /\ letter.id <= issued
  BY DEF IInv, TypeOK, WorkItem, Letter, IdsIssued
<1> HIDE DEF letter
<1>3. TypeOK'
  BY <1>1, <1>2 DEF IInv, TypeOK
<1>4. OneRowPerKey'
  <2>1. \A row \in queue', l \in dead' : row.id # l.id
    BY <1>1, <1>2 DEF IInv, OneRowPerKey
  <2> QED
    BY <1>1, <2>1, DropRow DEF OneRowPerKey
<1>5. IdsIssued'
  BY <1>1, <1>2 DEF IInv, IdsIssued
<1> QED
  BY <1>1, <1>3, <1>4, <1>5, DropRow DEF IInv

(* A failure counts on the row alone.                                      *)
LEMMA FailedRow ==
  ASSUME NEW row \in Row, row.attempts < MaxAttempts
  PROVE  LET new == FailedOnce(row) IN
         /\ new \in Row /\ new.attempts = row.attempts + 1
         /\ new.id = row.id /\ new.entity = row.entity /\ new.open = row.open
         /\ new.asked = row.asked /\ new.merged = row.merged
         /\ new.priority = row.priority /\ new.depth = row.depth /\ new.cause = row.cause
<1>1. row.attempts \in 0..MaxAttempts /\ row.attempts + 1 \in 0..MaxAttempts
  BY DEF Row, MaxAttempts
<1>2. Backoff(row.attempts + 1) \in Nat /\ row.wait \in Nat
  BY DEF Backoff, Row
<1> QED
  BY <1>1, <1>2 DEF FailedOnce, Row

LEMMA MarkFailedStep ==
  ASSUME IInv, NEW t \in tasks, MarkFailed(t)
  PROVE  IInv'
<1> DEFINE hit == {row \in queue : row.id = t.id /\ row.attempts < MaxAttempts}
           bury == [t EXCEPT !.at = "burying"]
<1>1. /\ t \in WorkItem /\ t.at = "failing" /\ queue \subseteq Row /\ tasks \subseteq WorkItem
      /\ UNCHANGED <<snapshot, saved, dead, index, reached, issued, left, faults>>
  BY DEF MarkFailed, IInv, TypeOK
<1>2. /\ bury \in WorkItem /\ bury.id = t.id /\ bury.entity = t.entity /\ bury.at = "burying"
  BY <1>1 DEF WorkItem, TaskPhases
<1>3. CASE hit = {}
  <2>1. queue' = queue /\ tasks' = tasks \ {t}
    BY <1>3 DEF MarkFailed
  <2>2. ASSUME NEW row \in queue', Stranded(row)' PROVE Stranded(row)
    BY <1>1, <2>1, <2>2 DEF Stranded
  <2>3. SpentIsBuried'
    BY <1>1, <2>1, <2>2 DEF IInv, SpentIsBuried
  <2>4. TypeOK'
    BY <1>1, <2>1 DEF IInv, TypeOK
  <2> QED
    BY <1>1, <2>1, <2>3, <2>4 DEF IInv, OneRowPerKey, NoWeakerWork, IdsIssued, AskedIsSaved,
       LoadedIsRecent
<1>4. CASE hit # {}
  <2>1. PICK row \in queue : row.id = t.id /\ row.attempts < MaxAttempts
    BY <1>4
  <2>2. hit = {row}
    BY <2>1 DEF IInv, OneRowPerKey
  <2> DEFINE new == FailedOnce(row)
  <2>3. /\ queue' = (queue \ {row}) \cup {new}
        /\ tasks' = (tasks \ {t}) \cup IF new.attempts = MaxAttempts THEN {bury} ELSE {}
    BY <2>2 DEF MarkFailed
  <2>4. /\ new \in Row
        /\ new.id = row.id /\ new.entity = row.entity /\ new.open = row.open
        /\ new.asked = row.asked /\ new.merged = row.merged
        /\ new.priority = row.priority /\ new.depth = row.depth /\ new.cause = row.cause
    BY <1>1, <2>1, FailedRow
  <2> HIDE DEF new, hit, bury
  <2>5. \A o \in tasks' : o = bury \/ o \in tasks
    BY <2>3
  <2>6. TypeOK'
    BY <1>1, <1>2, <2>3, <2>4, <2>5 DEF IInv, TypeOK
  <2>7. OneRowPerKey'
    BY <1>1, <2>1, <2>3, <2>4 DEF IInv, OneRowPerKey
  <2>8. NoWeakerWork'
    BY <2>1, <2>3, <2>4 DEF IInv, NoWeakerWork
  <2>9. ASSUME NEW r \in queue', Stranded(r)' PROVE r \in queue /\ Stranded(r)
    <3>1. CASE r = new
      <4>1. new.attempts = MaxAttempts
        BY <2>9, <3>1 DEF Stranded
      <4>2. bury \in tasks'
        BY <2>3, <4>1
      <4> QED
        BY <1>2, <2>1, <2>4, <2>9, <3>1, <4>2 DEF Stranded
    <3>2. CASE r \in queue
      BY <1>1, <2>3, <2>9, <3>2 DEF Stranded
    <3> QED
      BY <2>3, <3>1, <3>2
  <2>10. SpentIsBuried'
    BY <1>1, <2>9 DEF IInv, SpentIsBuried
  <2>11. IdsIssued' /\ AskedIsSaved'
    BY <1>1, <1>2, <2>1, <2>3, <2>4, <2>5 DEF IInv, IdsIssued, AskedIsSaved
  <2>12. LoadedIsRecent'
    BY <1>1, <1>2, <2>1, <2>3, <2>4, <2>5 DEF IInv, LoadedIsRecent
  <2> QED
    BY <2>6, <2>7, <2>8, <2>10, <2>11, <2>12 DEF IInv
<1> QED
  BY <1>3, <1>4

LEMMA DrainDiesStep ==
  ASSUME IInv, NEW d \in Drains, DrainDies(d)
  PROVE  IInv'
<1>1. /\ tasks' \subseteq tasks
      /\ faults' = faults + 1 /\ faults < MaxFaults /\ faults \in 0..MaxFaults
      /\ UNCHANGED <<snapshot, saved, queue, dead, index, reached, issued, left>>
  BY DEF DrainDies, Fault, IInv, TypeOK
<1>2. faults' \in 0..MaxFaults /\ faults' > 0
  BY <1>1, ProjectionAssumption
<1>3. TypeOK'
  BY <1>1, <1>2 DEF IInv, TypeOK
<1> QED
  BY <1>1, <1>2, <1>3 DEF IInv, OneRowPerKey, NoWeakerWork, SpentIsBuried, IdsIssued,
     AskedIsSaved, LoadedIsRecent

-----------------------------------------------------------------------------
LEMMA TickStep ==
  ASSUME IInv, Tick
  PROVE  IInv'
<1> DEFINE aged(row) == [row EXCEPT !.wait = IF @ = 0 THEN 0 ELSE @ - 1, !.open = @ /\ left # 1]
<1>1. /\ queue' = {aged(row) : row \in queue}
      /\ left' = IF left = 1 THEN Window ELSE left - 1
      /\ left \in 1..Window /\ queue \subseteq Row
      /\ UNCHANGED <<snapshot, saved, dead, tasks, index, reached, issued, faults>>
  BY DEF Tick, IInv, TypeOK
<1>2. ASSUME NEW row \in queue
      PROVE  /\ aged(row) \in Row
             /\ aged(row).id = row.id /\ aged(row).entity = row.entity
             /\ aged(row).asked = row.asked /\ aged(row).merged = row.merged
             /\ aged(row).attempts = row.attempts
             /\ aged(row).priority = row.priority /\ aged(row).depth = row.depth
             /\ aged(row).cause = row.cause
             /\ aged(row).open => row.open
  <2>1. row \in Row /\ row.wait \in Nat /\ row.open \in BOOLEAN
    BY <1>1 DEF Row
  <2> DEFINE wait == IF row.wait = 0 THEN 0 ELSE row.wait - 1
             open == row.open /\ left # 1
  <2>2. wait \in Nat /\ open \in BOOLEAN /\ (open => row.open)
    BY <2>1
  <2>3. aged(row) = [row EXCEPT !.wait = wait, !.open = open]
    OBVIOUS
  <2> HIDE DEF wait, open, aged
  <2> QED
    BY <2>1, <2>2, <2>3 DEF Row
<1> HIDE DEF aged
<1>3. TypeOK'
  BY <1>1, <1>2, ProjectionAssumption DEF IInv, TypeOK
<1>4. OneRowPerKey'
  <2>1. ASSUME NEW row \in queue', NEW other \in queue',
               row.id = other.id \/ (row.entity = other.entity /\ row.open /\ other.open)
        PROVE  row = other
    <3>1. PICK r \in queue : row = aged(r)
      BY <1>1
    <3>2. PICK o \in queue : other = aged(o)
      BY <1>1
    <3>3. r = o
      BY <1>2, <2>1, <3>1, <3>2 DEF IInv, OneRowPerKey
    <3> QED
      BY <3>1, <3>2, <3>3
  <2> QED
    BY <1>1, <1>2, <2>1 DEF IInv, OneRowPerKey
<1>5. NoWeakerWork'
  BY <1>1, <1>2 DEF IInv, NoWeakerWork
<1>6. SpentIsBuried'
  BY <1>1, <1>2 DEF IInv, SpentIsBuried, Stranded
<1>7. IdsIssued' /\ AskedIsSaved' /\ LoadedIsRecent'
  BY <1>1, <1>2 DEF IInv, IdsIssued, AskedIsSaved, LoadedIsRecent
<1> QED
  BY <1>3, <1>4, <1>5, <1>6, <1>7 DEF IInv

LEMMA StepInv == IInv /\ [Next]_vars => IInv'
<1> SUFFICES ASSUME IInv, [Next]_vars PROVE IInv'
  OBVIOUS
<1>1. ASSUME NEW e \in Entities, NEW q \in Requests, Save(e, q) \/ SaveAndSchedule(e, q)
      PROVE  IInv'
  BY <1>1, SaveStep, SaveAndScheduleStep
<1>2. ASSUME NEW w \in saved, Schedule(w) \/ WriterDies(w)
      PROVE  IInv'
  BY <1>2, ScheduleStep, WriterDiesStep
<1>3. ASSUME NEW d \in Drains, DrainNext(d) \/ DrainDies(d)
      PROVE  IInv'
  BY <1>3, DrainNextStep, DrainDiesStep
<1>4. ASSUME NEW t \in tasks, TaskStep(t) \/ CompleteFails(t)
      PROVE  IInv'
  BY <1>4, LoadStep, UploadStep, ProjectFailsStep, MarkCompleteStep, MarkFailedStep, BuryStep,
     CompleteFailsStep DEF TaskStep
<1>5. CASE Tick
  BY <1>5, TickStep
<1>6. CASE UNCHANGED vars
  BY <1>6 DEF vars, IInv, TypeOK, OneRowPerKey, NoWeakerWork, SpentIsBuried, Stranded, IdsIssued,
     AskedIsSaved, LoadedIsRecent
<1> QED
  BY <1>1, <1>2, <1>3, <1>4, <1>5, <1>6 DEF Next, WriterStep, DrainStep

-----------------------------------------------------------------------------
(* Whatever writers, drains and faults do, the invariant that the rest     *)
(* follows from holds.                                                     *)
THEOREM Invariance == Spec => []IInv
  BY InitInv, StepInv, PTL DEF Spec

(* Tables, tasks and index keep their types.                               *)
THEOREM TypesHold == Spec => []TypeOK
<1>1. IInv => TypeOK
  BY DEF IInv
<1> QED
  BY <1>1, Invariance, PTL

(* However many writers and drains meet on it, an entity has one row that  *)
(* takes requests, and a buried row is gone from the queue.                *)
THEOREM KeysStayUnique == Spec => []OneRowPerKey
<1>1. IInv => OneRowPerKey
  BY DEF IInv
<1> QED
  BY <1>1, Invariance, PTL

(* Coalescing never weakens a row, for any priorities, depths and delays.  *)
THEOREM CoalescingKeepsTheStrongest == Spec => []NoWeakerWork
<1>1. IInv => NoWeakerWork
  BY DEF IInv
<1> QED
  BY <1>1, Invariance, PTL

(* Without a fault no row is left between its third failure and the dead   *)
(* letters.                                                                *)
THEOREM SpentRowsAreBuried == Spec => []SpentIsBuried
<1>1. IInv => SpentIsBuried
  BY DEF IInv
<1> QED
  BY <1>1, Invariance, PTL

(* The steps that take a row out of the queue are markComplete, whose task *)
(* has uploaded what the row was written for, and the move to the dead     *)
(* letters.                                                                *)
LEMMA DroppedStep ==
  IInv /\ [Next]_vars
    => [\A row \in queue :
          (\A kept \in queue' : kept.id # row.id)
            => \/ reached[row.entity] >= row.asked
               \/ \E letter \in dead' : letter.id = row.id]_vars
<1> DEFINE Answered(row) == \/ reached[row.entity] >= row.asked
                            \/ \E letter \in dead' : letter.id = row.id
           Kept(row) == \E kept \in queue' : kept.id = row.id
<1> SUFFICES ASSUME IInv, Next, NEW row \in queue PROVE Kept(row) \/ Answered(row)
  OBVIOUS
<1>1. CASE queue' = queue
  BY <1>1
<1>2. ASSUME NEW e \in Entities, NEW q \in Requests, NEW v \in 1..MaxVersion, Upsert(e, q, v)
      PROVE  Kept(row)
  BY <1>2, UpsertQueue
<1>3. ASSUME NEW t \in tasks, MarkComplete(t) PROVE Kept(row) \/ Answered(row)
  <2>1. CASE row.id # t.id
    BY <1>3, <2>1 DEF MarkComplete
  <2>2. CASE row.id = t.id
    <3>1. /\ t.entity = row.entity /\ t.version >= row.asked /\ reached[t.entity] >= t.version
      BY <1>3, <2>2 DEF MarkComplete, IInv, LoadedIsRecent
    <3>2. t.entity \in Entities /\ t.version \in Nat /\ reached[t.entity] \in Nat /\ row.asked \in Nat
      BY ProjectionAssumption DEF IInv, TypeOK, WorkItem, Row
    <3> QED
      BY <3>1, <3>2
  <2> QED
    BY <2>1, <2>2
<1>4. ASSUME NEW t \in tasks, Bury(t) PROVE Kept(row) \/ Answered(row)
  <2>1. CASE row.id # t.id
    BY <1>4, <2>1 DEF Bury
  <2>2. CASE row.id = t.id
    <3>1. [id |-> t.id, entity |-> t.entity] \in dead'
      BY <1>4 DEF Bury
    <3>2. [id |-> t.id, entity |-> t.entity].id = row.id
      BY <2>2
    <3> QED
      BY <3>1, <3>2
  <2> QED
    BY <2>1, <2>2
<1>5. ASSUME NEW t \in tasks, MarkFailed(t) PROVE Kept(row)
  <2>1. FailedOnce(row).id = row.id
    BY DEF FailedOnce, IInv, TypeOK, Row
  <2> QED
    BY <1>5, <2>1 DEF MarkFailed
<1>6. CASE Tick
  <2> DEFINE aged == [row EXCEPT !.wait = IF @ = 0 THEN 0 ELSE @ - 1, !.open = @ /\ left # 1]
  <2>1. aged \in queue'
    BY <1>6 DEF Tick
  <2>2. aged.id = row.id
    BY DEF IInv, TypeOK, Row
  <2> QED
    BY <2>1, <2>2
<1>7. CASE WriterStep
  <2>1. ASSUME NEW e \in Entities, NEW q \in Requests, SaveAndSchedule(e, q) PROVE Kept(row)
    <3>1. snapshot[e] + 1 \in 1..MaxVersion
      BY <2>1, ProjectionAssumption DEF SaveAndSchedule, IInv, TypeOK
    <3> QED
      BY <1>2, <2>1, <3>1 DEF SaveAndSchedule
  <2>2. ASSUME NEW w \in saved, Schedule(w) PROVE Kept(row)
    <3>1. w.entity \in Entities /\ w.request \in Requests /\ w.version \in 1..MaxVersion
      BY DEF IInv, TypeOK
    <3> QED
      BY <1>2, <2>2, <3>1 DEF Schedule
  <2> QED
    BY <1>1, <1>7, <2>1, <2>2 DEF WriterStep, Save, WriterDies
<1>8. ASSUME NEW d \in Drains, DrainNext(d) \/ DrainDies(d) PROVE queue' = queue
  BY <1>8 DEF DrainNext, DrainDies
<1>9. ASSUME NEW t \in tasks, Load(t) \/ Upload(t) \/ ProjectFails(t) \/ CompleteFails(t)
      PROVE  queue' = queue
  BY <1>9 DEF Load, Upload, ProjectFails, CompleteFails
<1> HIDE DEF Kept, Answered
<1> QED
  BY <1>1, <1>3, <1>4, <1>5, <1>6, <1>7, <1>8, <1>9 DEF Next, DrainStep, TaskStep

(* No row is dropped unanswered, whatever another drain or a later request *)
(* did to it between the pull and the delete.                              *)
THEOREM NoneDroppedUnanswered == Spec => UploadedBeforeDropped
  BY Invariance, DroppedStep, PTL DEF Spec, UploadedBeforeDropped
=============================================================================
