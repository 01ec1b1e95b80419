--------------------------- MODULE IngestRunProofs ---------------------------
(***************************************************************************)
(* Proofs about IngestRun, for any number of runs, experts and faults and  *)
(* any width of the dispatch window.                                       *)
(***************************************************************************)
EXTENDS IngestRun, ItemRowsProofs, FiniteSetTheorems

-----------------------------------------------------------------------------
(***************************************************************************)
(* Types and closed runs                                                   *)
(***************************************************************************)
(* What the position of a workflow says of what it has read and of its     *)
(* row: a dispatch step has an expert left, and a workflow that has closed *)
(* its run, or has given up, leaves a closed row behind.                   *)
Position(r) ==
  /\ at[r] \in {"enqueue", "mark"} => loc[r].batch # {}
  /\ at[r] \in {"optimize", "ended"} => run[r].status \in Terminal

(* An operator's repair has a run at hand, and an item to fail.            *)
RepairAtHand ==
  /\ hist.pc \in {"fail", "summarize", "close"} => hist.runs # {}
  /\ hist.pc = "fail" => hist.dids # {}

RunInv == IInv /\ RunTypeOK /\ (\A r \in Runs : Position(r)) /\ RepairAtHand

(* Counting rows gives a number.                                           *)
LEMMA CountRows ==
  ASSUME NEW S, S \subseteq Dids
  PROVE  IsFiniteSet(S) /\ Cardinality(S) \in Nat
<1> QED
  BY RunConstants, FS_Subset, FS_CardinalityType

(* The first expert of a batch belongs to it.                              *)
LEMMA FirstExpert ==
  ASSUME NEW S, S \subseteq Dids, S # {}
  PROVE  Min(S) \in S /\ Min(S) \in Dids
<1> QED
  BY RunConstants, MinOfNats

(* A step that writes rows, or counts a fault, leaves a coordinator sound. *)
LEMMA RowsOnly ==
  ASSUME IInv, UNCHANGED doVars, items' \in [Runs -> [Dids -> Item]], faults' \in 0..MaxFaults
  PROVE  IInv'
<1> QED
  BY DEF IInv, TypeOK, ObjectInv, doVars

LEMMA InitRun == RunInit => RunInv
<1> SUFFICES ASSUME RunInit PROVE RunInv
  OBVIOUS
<1>1. SoundQueue(EmptyQueue) /\ EmptyQueue \in QueueState /\ NoOutcome \in Outcome
  BY EmptyQueueSound, NoOutcomeTyped DEF SoundQueue
<1>2. <<>> \in Seq(Runs) /\ NoTask \in Task \cup {NoTask}
  BY EmptySeq
<1>3. TypeOK
  BY <1>1, <1>2, FaultBound DEF RunInit, TypeOK, Phases, Item, Statuses
<1>4. \A d \in Dids : ObjectInv(d)
  BY <1>1 DEF RunInit, ObjectInv, Settling, Writing
<1>5. RunTypeOK
  BY <1>3 DEF RunInit, RunTypeOK, RunRow, Locals, NoLocals, History, NoHistory
<1>6. (\A r \in Runs : Position(r)) /\ RepairAtHand
  BY DEF RunInit, Position, RepairAtHand, NoHistory
<1> QED
  BY <1>3, <1>4, <1>5, <1>6 DEF RunInv, IInv

(* A write of one row of ingest_runs.                                      *)
LEMMA SetRunRow ==
  ASSUME RunTypeOK, NEW r \in Runs, NEW status \in {"queued", "running", "complete", "failed"},
         NEW phase \in {"queued", "preparing", "dispatching", "finalizing", "complete", "failed"},
         SetRun(r, status, phase)
  PROVE  /\ run' \in [Runs -> RunRow]
         /\ run'[r].status = status
         /\ \A s \in Runs : s # r => run'[s] = run[s]
<1> QED
  BY DEF RunTypeOK, RunRow, SetRun

LEMMA CloseRunRow ==
  ASSUME RunTypeOK, NEW r \in Runs, NEW failures, CloseRun(r, failures)
  PROVE  /\ run' \in [Runs -> RunRow]
         /\ run'[r].status = IF failures THEN "failed" ELSE "complete"
         /\ \A s \in Runs : s # r => run'[s] = run[s]
<1>1. CASE failures
  BY <1>1, SetRunRow DEF CloseRun
<1>2. CASE ~failures
  BY <1>2, SetRunRow DEF CloseRun
<1> QED
  BY <1>1, <1>2

(* The launcher, and what of a workflow touches neither the rows of the    *)
(* items nor the coordinators.                                             *)
LEMMA RunRowsStep ==
  ASSUME RunInv, NEW r \in Runs,
         \/ Launch(r) \/ LaunchStep(r)
         \/ MarkPreparing(r) \/ MarkDispatching(r) \/ ListStale(r) \/ CountActive(r)
         \/ ListUndispatched(r) \/ Poll(r) \/ MarkFinalizing(r) \/ Summarize(r)
         \/ Finalize(r) \/ OptimizeFts(r) \/ Compensate(r)
  PROVE  RunInv'
<1> USE DEF Goto
<1>1. /\ RunTypeOK /\ RepairAtHand /\ \A s \in Runs : Position(s)
      /\ UNCHANGED <<vars, hist>>
  BY DEF RunInv, Launch, LaunchStep, CreateInstance, ReportLaunchFailure, MarkPreparing,
         MarkDispatching, ListStale, CountActive, ListUndispatched, Poll, MarkFinalizing,
         Summarize, Finalize, OptimizeFts, Compensate
<1>2. IInv' /\ TypeOK'
  BY <1>1 DEF RunInv, IInv, TypeOK, ObjectInv, vars, doVars
<1>3. hist' \in History /\ RepairAtHand'
  BY <1>1 DEF RunTypeOK, RepairAtHand
<1> SUFFICES /\ run' \in [Runs -> RunRow]
             /\ launch' \in [Runs -> {"none", "creating", "failing", "done"}]
             /\ at' \in [Runs -> Steps \cup {"none", "ended", "dead"}]
             /\ loc' \in [Runs -> Locals]
             /\ \A s \in Runs : Position(s)'
  BY <1>2, <1>3 DEF RunInv, RunTypeOK
<1>4. /\ run \in [Runs -> RunRow] /\ launch \in [Runs -> {"none", "creating", "failing", "done"}]
      /\ at \in [Runs -> Steps \cup {"none", "ended", "dead"}] /\ loc \in [Runs -> Locals]
  BY <1>1 DEF RunTypeOK
<1>5. CASE Launch(r)
  BY <1>1, <1>4, <1>5, SetRunRow DEF Launch, Position, Terminal
<1>6. CASE CreateInstance(r)
  BY <1>1, <1>4, <1>6 DEF CreateInstance, Position, Steps
<1>7. CASE ReportLaunchFailure(r)
  BY <1>1, <1>4, <1>7, SetRunRow DEF ReportLaunchFailure, Position, Terminal
<1>8. CASE MarkPreparing(r)
  BY <1>1, <1>4, <1>8, SetRunRow DEF MarkPreparing, Position, Steps
<1>9. CASE MarkDispatching(r)
  BY <1>1, <1>4, <1>9, SetRunRow DEF MarkDispatching, Position, Steps
<1>10. CASE ListStale(r)
  BY <1>1, <1>4, <1>10 DEF ListStale, Stale, Position, Steps, Locals
<1>11. CASE CountActive(r)
  <2>1. Cardinality(Active(r)) \in Nat
    BY CountRows DEF Active, WithStatus
  <2>2. Fanout \in Nat
    BY RunConstants
  <2>3. CASE Cardinality(Active(r)) >= Fanout
    BY <1>1, <1>4, <1>11, <2>3 DEF CountActive, Position, Steps
  <2>4. CASE ~(Cardinality(Active(r)) >= Fanout)
    <3> DEFINE slots == Fanout - Cardinality(Active(r))
    <3>1. slots \in Nat
      BY <2>1, <2>2, <2>4
    <3>2. /\ at' = [at EXCEPT ![r] = "list"] /\ loc' = [loc EXCEPT ![r].slots = slots]
          /\ UNCHANGED <<run, launch>>
      BY <1>11, <2>4 DEF CountActive
    <3> HIDE DEF slots
    <3> QED
      BY <1>1, <1>4, <3>1, <3>2 DEF Position, Steps, Locals
  <2> QED
    BY <2>3, <2>4
<1>12. CASE ListUndispatched(r)
  <2> DEFINE batch == Limit(Undispatched(r), loc[r].slots)
  <2>1. batch \subseteq Dids
    BY DEF Limit, Undispatched, WithStatus
  <2>2. /\ loc' = [loc EXCEPT ![r].batch = batch, ![r].slots = 0]
        /\ at' = [at EXCEPT ![r] = IF batch = {} THEN "poll" ELSE "enqueue"]
        /\ UNCHANGED <<run, launch>>
    BY <1>12 DEF ListUndispatched
  <2> HIDE DEF batch
  <2> QED
    BY <1>1, <1>4, <2>1, <2>2 DEF Position, Steps, Locals
<1>13. CASE Poll(r)
  BY <1>1, <1>4, <1>13 DEF Poll, Position, Steps
<1>14. CASE MarkFinalizing(r)
  BY <1>1, <1>4, <1>14, SetRunRow DEF MarkFinalizing, Position, Steps
<1>15. CASE Summarize(r)
  <2>1. HasFailures(r) \in BOOLEAN
    BY DEF HasFailures
  <2> QED
    BY <1>1, <1>4, <1>15, <2>1 DEF Summarize, Position, Steps, Locals
<1>16. CASE Finalize(r)
  BY <1>1, <1>4, <1>16, CloseRunRow DEF Finalize, Position, Steps, Locals, NoLocals, Terminal
<1>17. CASE OptimizeFts(r)
  BY <1>1, <1>4, <1>17 DEF OptimizeFts, Position, Steps
<1>18. CASE Compensate(r)
  BY <1>1, <1>4, <1>18, SetRunRow DEF Compensate, Position, Terminal
<1> QED
  BY <1>5, <1>6, <1>7, <1>8, <1>9, <1>10, <1>11, <1>12, <1>13, <1>14, <1>15, <1>16, <1>17,
     <1>18 DEF LaunchStep

(* What of a workflow writes rows of items, or calls a coordinator.        *)
LEMMA ItemRowsStep ==
  ASSUME RunInv, NEW r \in Runs,
         \/ CreateItems(r) \/ RequeueStale(r) \/ FailStale(r) \/ DispatchNext(r)
         \/ MarkDispatched(r)
  PROVE  RunInv'
<1> USE DEF Goto
<1>1. /\ RunTypeOK /\ RepairAtHand /\ (\A s \in Runs : Position(s)) /\ TypeOK
      /\ UNCHANGED <<faults, run, launch, hist>>
  BY DEF RunInv, RunTypeOK, CreateItems, RequeueStale, FailStale, DispatchNext, MarkDispatched
<1>2. hist' \in History /\ RepairAtHand'
  BY <1>1 DEF RunTypeOK, RepairAtHand
<1> SUFFICES /\ IInv'
             /\ at' \in [Runs -> Steps \cup {"none", "ended", "dead"}]
             /\ loc' \in [Runs -> Locals]
             /\ \A s \in Runs : Position(s)'
  BY <1>1, <1>2 DEF RunInv, RunTypeOK, IInv
<1>3. /\ run \in [Runs -> RunRow] /\ launch \in [Runs -> {"none", "creating", "failing", "done"}]
      /\ at \in [Runs -> Steps \cup {"none", "ended", "dead"}] /\ loc \in [Runs -> Locals]
      /\ items \in [Runs -> [Dids -> Item]] /\ faults \in 0..MaxFaults
  BY <1>1 DEF RunTypeOK, TypeOK
<1>4. loc[r].requeue \subseteq Dids /\ loc[r].fail \subseteq Dids /\ loc[r].batch \subseteq Dids
  BY <1>3 DEF Locals
<1>5. CASE CreateItems(r)
  <2>1. items' \in [Runs -> [Dids -> Item]]
    BY <1>3, <1>5 DEF CreateItems, Item, Statuses
  <2>2. IInv'
    BY <1>3, <1>5, <2>1, RowsOnly DEF RunInv, CreateItems
  <2> QED
    BY <1>1, <1>3, <1>5, <2>2 DEF CreateItems, Position, Steps
<1>6. CASE RequeueStale(r)
  <2> DEFINE d == Min(loc[r].requeue)
  <2>1. d \in Dids
    BY <1>4, <1>6, FirstExpert DEF RequeueStale
  <2>2. /\ at[r] = "recover" /\ SetItem(r, d, "queued")
        /\ loc' = [loc EXCEPT ![r].requeue = loc[r].requeue \ {d}]
        /\ UNCHANGED <<doVars, faults, run, at>>
    BY <1>6 DEF RequeueStale
  <2> HIDE DEF d
  <2>3. items' \in [Runs -> [Dids -> Item]]
    BY <1>1, <2>1, <2>2, SetItemTyped DEF Statuses
  <2>4. IInv'
    BY <1>3, <2>2, <2>3, RowsOnly DEF RunInv
  <2> QED
    BY <1>1, <1>3, <2>2, <2>4 DEF Position, Steps, Locals
<1>7. CASE FailStale(r)
  <2> DEFINE d == Min(loc[r].fail)
  <2>1. d \in Dids
    BY <1>4, <1>7, FirstExpert DEF FailStale
  <2>2. /\ at[r] = "recover" /\ SetItem(r, d, "failed")
        /\ loc' = [loc EXCEPT ![r].fail = loc[r].fail \ {d}]
        /\ UNCHANGED <<doVars, faults, run, at>>
    BY <1>7 DEF FailStale
  <2> HIDE DEF d
  <2>3. items' \in [Runs -> [Dids -> Item]]
    BY <1>1, <2>1, <2>2, SetItemTyped DEF Statuses
  <2>4. IInv'
    BY <1>3, <2>2, <2>3, RowsOnly DEF RunInv
  <2> QED
    BY <1>1, <1>3, <2>2, <2>4 DEF Position, Steps, Locals
<1>8. CASE DispatchNext(r)
  <2> DEFINE d == Min(loc[r].batch)
  <2>1. d \in Dids
    BY <1>1, <1>4, <1>8, FirstExpert DEF DispatchNext, Position
  <2>2. /\ at[r] = "enqueue" /\ Enqueue(d, r) /\ at' = [at EXCEPT ![r] = "mark"]
        /\ UNCHANGED <<faults, run, loc>>
    BY <1>8 DEF DispatchNext
  <2> HIDE DEF d
  <2>3. Next
    BY <2>1, <2>2 DEF Next, Request
  <2>4. IInv'
    BY <2>3, NextInv DEF RunInv
  <2> QED
    BY <1>1, <1>3, <2>2, <2>4 DEF Position, Steps
<1>9. CASE MarkDispatched(r)
  <2> DEFINE d == Min(loc[r].batch)
  <2>1. d \in Dids
    BY <1>1, <1>4, <1>9, FirstExpert DEF MarkDispatched, Position
  <2>2. /\ at[r] = "mark" /\ SetItem(r, d, "dispatched")
        /\ loc' = [loc EXCEPT ![r].batch = loc[r].batch \ {d}]
        /\ at' = [at EXCEPT ![r] = IF loc[r].batch = {d} THEN "poll" ELSE "enqueue"]
        /\ UNCHANGED <<doVars, faults, run>>
    BY <1>9 DEF MarkDispatched
  <2> HIDE DEF d
  <2>3. items' \in [Runs -> [Dids -> Item]]
    BY <1>1, <2>1, <2>2, SetItemTyped DEF Statuses
  <2>4. IInv'
    BY <1>3, <2>2, <2>3, RowsOnly DEF RunInv
  <2> DEFINE rest == loc[r].batch \ {d}
             next == IF loc[r].batch = {d} THEN "poll" ELSE "enqueue"
  <2>5. rest \subseteq Dids /\ next \in {"poll", "enqueue"} /\ (next = "enqueue" => rest # {})
    BY <1>1, <1>4, <2>2 DEF Position
  <2>6. loc' = [loc EXCEPT ![r].batch = rest] /\ at' = [at EXCEPT ![r] = next] /\ run' = run
    BY <2>2
  <2> HIDE DEF rest, next
  <2>7. loc' \in [Runs -> Locals] /\ loc'[r].batch = rest
    BY <1>3, <2>5, <2>6 DEF Locals
  <2> QED
    BY <1>1, <1>3, <2>4, <2>5, <2>6, <2>7 DEF Position, Steps
<1> QED
  BY <1>5, <1>6, <1>7, <1>8, <1>9

(* A step of a workflow fails, or its launch does.                         *)
LEMMA RunFaultStep ==
  ASSUME RunInv, NEW r \in Runs, RunFault(r)
  PROVE  RunInv'
<1> USE DEF Goto
<1>1. /\ RunTypeOK /\ RepairAtHand /\ (\A s \in Runs : Position(s)) /\ TypeOK
      /\ UNCHANGED <<items, run, hist>>
  BY DEF RunInv, RunTypeOK, RunFault, CreateFails, LauncherDies, StepFails, StepExhausted,
         DispatchCutShort, EnqueueCutShort
<1>2. hist' \in History /\ RepairAtHand'
  BY <1>1 DEF RunTypeOK, RepairAtHand
<1>3. /\ run \in [Runs -> RunRow] /\ launch \in [Runs -> {"none", "creating", "failing", "done"}]
      /\ at \in [Runs -> Steps \cup {"none", "ended", "dead"}] /\ loc \in [Runs -> Locals]
      /\ items \in [Runs -> [Dids -> Item]] /\ NoLocals \in Locals
  BY <1>1 DEF RunTypeOK, TypeOK, NoLocals, Locals
<1>4. \A k : Fault(k) => faults' \in 0..MaxFaults
  BY <1>1, FaultBound DEF Fault, TypeOK
<1>5. \A k : Fault(k) /\ UNCHANGED doVars => IInv'
  BY <1>1, <1>3, <1>4, RowsOnly DEF RunInv
<1> SUFFICES /\ IInv'
             /\ launch' \in [Runs -> {"none", "creating", "failing", "done"}]
             /\ at' \in [Runs -> Steps \cup {"none", "ended", "dead"}]
             /\ loc' \in [Runs -> Locals]
             /\ \A s \in Runs : Position(s)'
  BY <1>1, <1>2, <1>3 DEF RunInv, RunTypeOK, IInv
<1>6. CASE CreateFails(r)
  BY <1>1, <1>3, <1>5, <1>6 DEF CreateFails, Position, Steps
<1>7. CASE LauncherDies(r)
  BY <1>1, <1>3, <1>5, <1>7 DEF LauncherDies, Position
<1>8. CASE StepFails(r)
  <2>1. StepStart(at[r]) \in Steps \ {"enqueue", "mark", "optimize", "ended"}
    BY <1>3, <1>8 DEF StepFails, StepStart, Steps
  <2>2. IInv'
    BY <1>5, <1>8 DEF StepFails
  <2> HIDE DEF Goto
  <2>3. /\ at' = [at EXCEPT ![r] = StepStart(at[r])]
        /\ loc' = [loc EXCEPT ![r] = NoLocals] /\ UNCHANGED launch
    BY <1>8 DEF StepFails, Goto
  <2> QED
    BY <1>1, <1>3, <2>1, <2>2, <2>3 DEF Position
<1>9. CASE StepExhausted(r)
  BY <1>1, <1>3, <1>5, <1>9 DEF StepExhausted, Position, Steps
<1>10. CASE DispatchCutShort(r)
  <2> DEFINE d == Min(loc[r].batch)
  <2>1. d \in Dids
    BY <1>1, <1>3, <1>10, FirstExpert DEF DispatchCutShort, Position, Locals
  <2>2. /\ EnqueueCutShort(d, r) /\ Fault("eviction") /\ at' = [at EXCEPT ![r] = "repair"]
        /\ loc' = [loc EXCEPT ![r] = NoLocals] /\ UNCHANGED <<run, launch>>
    BY <1>10 DEF DispatchCutShort
  <2> HIDE DEF d
  <2>3. Next
    BY <2>1, <2>2 DEF Next, Request
  <2>4. IInv'
    BY <2>3, NextInv DEF RunInv
  <2> QED
    BY <1>1, <1>3, <2>2, <2>4 DEF Position, Steps
<1> QED
  BY <1>6, <1>7, <1>8, <1>9, <1>10 DEF RunFault

(* A statement of an operator's repair, or its end.                        *)
LEMMA RepairRunStep ==
  ASSUME RunInv, RepairStep \/ RepairAborts
  PROVE  RunInv'
<1>1. /\ RunTypeOK /\ RepairAtHand /\ (\A s \in Runs : Position(s)) /\ TypeOK
      /\ UNCHANGED <<doVars, launch, at, loc>>
  BY DEF RunInv, RunTypeOK, RepairStep, RepairAborts, ListRunning, InspectRun, FailAbandoned,
         SummarizeRepaired, FinalizeRepaired, RepairEnds, vars
<1>2. /\ run \in [Runs -> RunRow] /\ hist \in History /\ items \in [Runs -> [Dids -> Item]]
      /\ hist.runs \subseteq Runs /\ hist.dids \subseteq Dids /\ faults \in 0..MaxFaults
  BY <1>1 DEF RunTypeOK, TypeOK, History
<1>3. UNCHANGED <<items, faults>> => IInv'
  BY <1>1, <1>2, RowsOnly DEF RunInv
<1>4. run' = run => \A s \in Runs : Position(s)'
  BY <1>1 DEF Position
<1>5. NoHistory \in History /\ NoHistory.pc = "idle"
  BY DEF NoHistory, History
<1>6. hist.runs # {} => Repaired \in hist.runs /\ Repaired \in Runs
  BY <1>2 DEF Repaired
<1> SUFFICES /\ IInv' /\ run' \in [Runs -> RunRow] /\ hist' \in History
             /\ (\A s \in Runs : Position(s)') /\ RepairAtHand'
  BY <1>1 DEF RunInv, RunTypeOK, IInv
<1>7. CASE ListRunning
  <2> DEFINE found == {r \in Runs : run[r].status = "running"}
  <2>1. hist' = [NoHistory EXCEPT !.pc = "next", !.runs = found] /\ UNCHANGED <<vars, run>>
    BY <1>7 DEF ListRunning
  <2>2. found \subseteq Runs
    OBVIOUS
  <2> HIDE DEF found
  <2>3. hist' \in History /\ hist'.pc = "next"
    BY <2>1, <2>2, <1>5 DEF History, NoHistory
  <2>4. UNCHANGED <<items, faults>>
    BY <2>1 DEF vars
  <2> QED
    BY <1>2, <1>3, <1>4, <2>1, <2>3, <2>4 DEF RepairAtHand
<1>8. CASE InspectRun
  <2> DEFINE open == Incomplete(Repaired)
  <2>1. open \subseteq Dids
    BY DEF Incomplete, WithStatus
  <2>2. /\ UNCHANGED <<items, faults, run>> /\ hist.runs # {}
        /\ \/ hist' = [hist EXCEPT !.pc = "close", !.failures = TRUE]
           \/ hist' = [hist EXCEPT !.pc = "summarize"]
           \/ open # {} /\ hist' = [hist EXCEPT !.pc = "fail", !.dids = open]
           \/ hist.pc = "next" /\ hist' = [hist EXCEPT !.runs = hist.runs \ {Repaired}]
    BY <1>8 DEF InspectRun, vars
  <2> HIDE DEF open
  <2>3. hist' \in History
    BY <1>2, <2>1, <2>2 DEF History
  <2>4. RepairAtHand'
    BY <1>2, <2>2 DEF History, RepairAtHand
  <2> QED
    BY <1>2, <1>3, <1>4, <2>2, <2>3, <2>4
<1>9. CASE FailAbandoned
  <2> DEFINE d == Min(hist.dids)
             rest == hist.dids \ {d}
             next == IF hist.dids = {d} THEN "summarize" ELSE "fail"
  <2>1. hist.runs # {} /\ hist.dids # {} /\ d \in Dids /\ Repaired \in Runs
    BY <1>1, <1>2, <1>6, <1>9, FirstExpert DEF FailAbandoned, RepairAtHand
  <2>2. SetItem(Repaired, d, "failed") /\ UNCHANGED <<faults, run>>
    BY <1>9 DEF FailAbandoned
  <2>3. hist' = [hist EXCEPT !.dids = rest, !.pc = next]
    BY <1>9 DEF FailAbandoned
  <2>4. rest \subseteq Dids /\ next \in {"summarize", "fail"} /\ (next = "fail" => rest # {})
    BY <1>2, <2>1
  <2> HIDE DEF d, rest, next
  <2>5. items' \in [Runs -> [Dids -> Item]]
    BY <1>1, <2>1, <2>2, SetItemTyped DEF Statuses
  <2>6. IInv'
    BY <1>1, <1>2, <2>2, <2>5, RowsOnly DEF RunInv
  <2>7. hist' \in History /\ RepairAtHand'
    BY <1>2, <2>1, <2>3, <2>4 DEF History, RepairAtHand
  <2> QED
    BY <1>2, <1>4, <2>2, <2>6, <2>7
<1>10. CASE SummarizeRepaired
  <2>1. HasFailures(Repaired) \in BOOLEAN
    BY DEF HasFailures
  <2>2. /\ hist' = [hist EXCEPT !.pc = "close", !.failures = HasFailures(Repaired)]
        /\ UNCHANGED <<items, faults, run>> /\ hist.runs # {}
    BY <1>1, <1>10 DEF SummarizeRepaired, RepairAtHand, vars
  <2>3. hist' \in History /\ RepairAtHand'
    BY <1>2, <2>1, <2>2 DEF History, RepairAtHand
  <2> QED
    BY <1>2, <1>3, <1>4, <2>2, <2>3
<1>11. CASE FinalizeRepaired
  <2>1. /\ CloseRun(Repaired, hist.failures) /\ UNCHANGED <<items, faults>>
        /\ hist' = [hist EXCEPT !.pc = "next", !.runs = hist.runs \ {Repaired}, !.failures = FALSE]
    BY <1>11 DEF FinalizeRepaired, vars
  <2>2. Repaired \in Runs
    BY <1>1, <1>6, <1>11 DEF FinalizeRepaired, RepairAtHand
  <2>3. /\ run' \in [Runs -> RunRow] /\ run'[Repaired].status \in Terminal
        /\ \A s \in Runs : s # Repaired => run'[s] = run[s]
    BY <1>1, <2>1, <2>2, CloseRunRow DEF Terminal
  <2>4. \A s \in Runs : Position(s)'
    BY <1>1, <2>2, <2>3 DEF Position
  <2>5. hist' \in History /\ RepairAtHand'
    BY <1>2, <2>1 DEF History, RepairAtHand
  <2> QED
    BY <1>3, <2>1, <2>3, <2>4, <2>5
<1>12. CASE RepairEnds
  BY <1>2, <1>3, <1>4, <1>5, <1>12 DEF RepairEnds, RepairAtHand, vars
<1>13. CASE RepairAborts
  <2>1. faults' \in 0..MaxFaults
    BY <1>2, <1>13, FaultBound DEF RepairAborts, Fault
  <2>2. IInv'
    BY <1>1, <1>2, <1>13, <2>1, RowsOnly DEF RepairAborts, RunInv
  <2> QED
    BY <1>2, <1>4, <1>5, <1>13, <2>2 DEF RepairAborts, RepairAtHand
<1> QED
  BY <1>7, <1>8, <1>9, <1>10, <1>11, <1>12, <1>13 DEF RepairStep

LEMMA NextRun == RunInv /\ [RunNext]_allVars => RunInv'
<1> SUFFICES ASSUME RunInv, [RunNext]_allVars PROVE RunInv'
  OBVIOUS
<1>1. ASSUME IInv', UNCHANGED runVars PROVE RunInv'
  BY <1>1 DEF RunInv, RunTypeOK, Position, RepairAtHand, IInv, runVars
<1>2. ASSUME NEW r \in Runs, Launch(r) \/ LaunchStep(r) \/ WorkflowStep(r) PROVE RunInv'
  BY <1>2, RunRowsStep, ItemRowsStep DEF WorkflowStep
<1>3. ASSUME NEW r \in Runs, RunFault(r) PROVE RunInv'
  BY <1>3, RunFaultStep
<1>4. ASSUME NEW d \in Dids, CoordinatorStep(d) \/ CoordinatorFault(d) PROVE RunInv'
  <2>1. Next /\ UNCHANGED runVars
    BY <1>4 DEF CoordinatorStep, CoordinatorFault, Next
  <2> QED
    BY <1>1, <2>1, NextInv DEF RunInv
<1>5. ASSUME NEW r \in Runs, NEW d \in Dids, AgeItem(r, d) PROVE RunInv'
  <2> DEFINE row == [items[r][d] EXCEPT !.stale = TRUE]
  <2>1. items \in [Runs -> [Dids -> Item]] /\ faults \in 0..MaxFaults
    BY DEF RunInv, IInv, TypeOK
  <2>2. row \in Item
    <3>1. items[r][d] \in Item
      BY <2>1
    <3> QED
      BY <3>1 DEF Item
  <2>3. items' \in [Runs -> [Dids -> Item]] /\ faults' \in 0..MaxFaults
    <3>1. items' = [items EXCEPT ![r][d] = row] /\ faults' = faults
      BY <1>5 DEF AgeItem
    <3> HIDE DEF row
    <3> QED
      BY <2>1, <2>2, <3>1
  <2>4. UNCHANGED doVars /\ UNCHANGED runVars
    BY <1>5 DEF AgeItem
  <2> QED
    BY <1>1, <2>3, <2>4, RowsOnly DEF RunInv
<1>6. CASE RepairStep \/ RepairAborts
  BY <1>6, RepairRunStep
<1>7. CASE UNCHANGED allVars
  <2>1. UNCHANGED vars /\ UNCHANGED runVars
    BY <1>7 DEF allVars
  <2> QED
    BY <1>1, <2>1, NextInv DEF RunInv
<1> QED
  BY <1>2, <1>3, <1>4, <1>5, <1>6, <1>7 DEF RunNext

THEOREM RunInvariant == RunSpec => []RunInv
<1> QED
  BY InitRun, NextRun, PTL DEF RunSpec

(* The tables, the workflows, the launcher and the repair request keep     *)
(* their types, whatever fails.                                            *)
THEOREM RunTypeCorrect == RunSpec => []RunTypeOK
<1>1. RunInv => RunTypeOK
  BY DEF RunInv
<1> QED
  BY <1>1, RunInvariant, PTL

(* A workflow that has ended leaves a closed run behind, whatever failed   *)
(* in between and whatever an operator's repair did meanwhile.             *)
THEOREM EndedRunStaysClosed == RunSpec => []EndedRunIsClosed
<1>1. RunInv => EndedRunIsClosed
  BY DEF RunInv, Position, EndedRunIsClosed
<1> QED
  BY <1>1, RunInvariant, PTL

-----------------------------------------------------------------------------
(***************************************************************************)
(* What a coordinator does to the rows of its expert                       *)
(***************************************************************************)
(* alarm() writes, or has written, how the runs of its task ended.         *)
Closing(d) ==
  \/ pc[d] \in {"completing", "failing", "savingFailure"}
  \/ pc[d] = "saving" /\ outcome[d].completed

(* A loop writes rows of the task alarm() works on, and of no other.       *)
LoopInv(d) ==
  /\ pc[d] = "starting" => ToSet(todo[d]) \subseteq ToSet(store[d].current.runIds)
  /\ pc[d] \in {"progress", "completing", "failing"} =>
       ToSet(todo[d]) \subseteq ToSet(latest[d].current.runIds)
  /\ pc[d] = "completing" => outcome[d].completed

CoordInv == OrderedInv /\ \A d \in Dids : LoopInv(d)

(* A run with a final row is held only by the task alarm() is about to     *)
(* drop.                                                                   *)
RowSettled(r, d) ==
  items[r][d].status \in Terminal /\ Holds(store[d], r)
    => Closing(d) /\ r \in ToSet(latest[d].current.runIds)

(* As long as no write fails, the final row of a run that is still held    *)
(* says what alarm() is writing.                                           *)
RowVerdict(r, d) ==
  items[r][d].status \in Terminal /\ Holds(store[d], r)
    => items[r][d].status = IF pc[d] \in {"completing", "saving"} THEN "complete" ELSE "failed"

(* A coordinator's step takes up no run, and leaves the row of a run alone *)
(* unless it holds the run: then the row becomes running, if it was open,  *)
(* or final, in the loop that settles the run.                             *)
Moved(r, d) ==
  /\ Holds(store'[d], r) => Holds(store[d], r)
  /\ \/ items'[r][d] = items[r][d]
     \/ /\ Holds(store[d], r) /\ items[r][d].status \notin Terminal \cup {"absent"}
        /\ items'[r][d] = [status |-> "running", stale |-> FALSE]
     \/ /\ Holds(store[d], r) /\ items[r][d].status # "absent"
        /\ pc[d] \in {"completing", "failing"} /\ r \in ToSet(todo[d])
        /\ items'[r][d] = [status |-> IF pc[d] = "completing" THEN "complete" ELSE "failed",
                           stale |-> FALSE]
  /\ RowSettled(r, d)'

LEMMA KeepsRuns ==
  ASSUME NEW q, NEW n, SoundQueue(q), SoundQueue(n), Keeps(q, n)
  PROVE  /\ q.current # NoTask => ToSet(q.current.runIds) \subseteq ToSet(n.current.runIds)
         /\ \A x : Holds(q, x) => Holds(n, x)
<1>1. ASSUME q.current # NoTask
      PROVE  ToSet(q.current.runIds) \subseteq ToSet(n.current.runIds)
  <2>1. /\ Line(q)[1] = q.current /\ Line(n)[1] = n.current
        /\ Len(Line(q)) = Len(q.pending) + 1 /\ Len(q.pending) \in Nat
    BY <1>1, LineShape DEF Keeps
  <2>2. 1 \in 1..Len(Line(q))
    BY <2>1
  <2> QED
    BY <2>1, <2>2 DEF Keeps
<1>2. ASSUME NEW x, Holds(q, x) PROVE Holds(n, x)
  <2>1. PICK i \in 1..Len(Line(q)) : x \in ToSet(Line(q)[i].runIds)
    BY <1>2, LineHolds
  <2>2. Len(Line(q)) \in Nat /\ Len(Line(n)) \in Nat
    BY LineShape
  <2>3. i \in 1..Len(Line(n)) /\ x \in ToSet(Line(n)[i].runIds)
    BY <2>1, <2>2 DEF Keeps
  <2> QED
    BY <2>3, LineHolds
<1> QED
  BY <1>1, <1>2

(* The runs of the current task are in no other, and go with it.           *)
LEMMA ClearedGone ==
  ASSUME NEW q, OwnedQueue(q), NEW r \in Runs, r \in ToSet(q.current.runIds)
  PROVE  ~Holds(ClearCurrentTask(q), r)
<1> SUFFICES ASSUME Holds(ClearCurrentTask(q), r) PROVE FALSE
  OBVIOUS
<1>1. SoundQueue(q)
  BY DEF OwnedQueue
<1>2. PICK i \in DOMAIN q.pending : r \in ToSet(q.pending[i].runIds)
  BY <1>1, ClearHoldsOnly
<1>3. ToSet(NoTask.runIds) = {}
  BY DEF NoTask, ToSet
<1>4. q.current # NoTask
  BY <1>3
<1>5. /\ Len(q.pending) \in Nat /\ DOMAIN q.pending = 1..Len(q.pending)
      /\ Len(Line(q)) = Len(q.pending) + 1 /\ Line(q)[1] = q.current
      /\ Line(q)[i + 1] = q.pending[i]
  BY <1>1, <1>2, <1>4, LineShape
<1>6. 1 \in 1..Len(Line(q)) /\ i + 1 \in 1..Len(Line(q)) /\ i + 1 # 1
  BY <1>2, <1>5
<1>7. Place(q, r) = 1 /\ Place(q, r) = i + 1
  BY <1>2, <1>5, <1>6, PlaceOf
<1> QED
  BY <1>6, <1>7

(* What is known of a coordinator before its step.                         *)
LEMMA CoordFacts ==
  ASSUME CoordInv, NEW d \in Dids
  PROVE  /\ IInv /\ TypeOK /\ LoopInv(d)
         /\ OwnedQueue(store[d]) /\ OwnedQueue(latest[d])
         /\ SoundQueue(store[d]) /\ SoundQueue(latest[d])
         /\ pc[d] \in Settling =>
              /\ SettledTask(d) = latest[d].current /\ latest[d].current # NoTask
              /\ latest[d].current.runIds \in Seq(Runs)
              /\ ToSet(latest[d].current.runIds) \subseteq ToSet(store[d].current.runIds)
              /\ \A x : Holds(latest[d], x) => Holds(store[d], x)
         /\ pc[d] # "idle" =>
              TaskOf(store[d], claimed[d]) = store[d].current /\ store[d].current # NoTask
         /\ \A x : x \in ToSet(store[d].current.runIds) => Holds(store[d], x)
<1>1. IInv /\ TypeOK /\ LoopInv(d) /\ OrderInv(d) /\ ObjectInv(d)
  BY DEF CoordInv, OrderedInv, IInv
<1>2. SoundQueue(store[d]) /\ SoundQueue(latest[d])
  BY <1>1 DEF ObjectInv
<1>3. pc[d] \in Settling =>
              /\ SettledTask(d) = latest[d].current /\ latest[d].current # NoTask
              /\ latest[d].current.runIds \in Seq(Runs)
  BY <1>1, SettledTaskCurrent
<1>4. pc[d] \in Settling =>
              /\ ToSet(latest[d].current.runIds) \subseteq ToSet(store[d].current.runIds)
              /\ \A x : Holds(latest[d], x) => Holds(store[d], x)
  BY <1>1, <1>2, <1>3, KeepsRuns DEF OrderInv
<1>5. pc[d] # "idle" =>
              TaskOf(store[d], claimed[d]) = store[d].current /\ store[d].current # NoTask
  BY <1>1, <1>2, TaskOfCurrent DEF ObjectInv
<1> QED
  BY <1>1, <1>2, <1>3, <1>4, <1>5 DEF OrderInv, Holds

(* A loop over runs writes one more row.                                   *)
LEMMA LoopMoves ==
  ASSUME CoordInv, NEW d \in Dids, NEW status, NEW next, NEW rest,
         NextWritten(d, status, next, rest),
         \/ pc[d] = "starting" /\ status = "running" /\ next = "executing"
         \/ /\ pc[d] = "progress" /\ status = "running" /\ next = "completing"
            /\ outcome[d].completed /\ rest = latest[d].current.runIds
         \/ pc[d] = "progress" /\ status = "running" /\ next = "saving" /\ ~outcome[d].completed
         \/ pc[d] = "completing" /\ status = "complete" /\ next = "saving"
         \/ pc[d] = "failing" /\ status = "failed" /\ next = "savingFailure"
  PROVE  /\ LoopInv(d)'
         /\ \A x \in Runs : RowSettled(x, d) =>
              Moved(x, d) /\ (RowVerdict(x, d) => RowVerdict(x, d)')
<1> DEFINE h == Head(todo[d])
<1>1. /\ h \in Runs /\ h \in ToSet(todo[d])
      /\ items'[h][d] = IF items[h][d].status = "absent" THEN items[h][d]
                        ELSE [status |-> status, stale |-> FALSE]
      /\ \A x \in Runs : x # h => items'[x][d] = items[x][d]
      /\ \/ pc'[d] = next /\ todo'[d] = rest
         \/ pc'[d] = pc[d] /\ ToSet(todo'[d]) \subseteq ToSet(todo[d])
      /\ UNCHANGED <<store, latest, outcome>>
  BY DEF NextWritten
<1> HIDE DEF h
<1>2. LoopInv(d) /\ Holds(store[d], h)
  BY <1>1, CoordFacts DEF LoopInv, Settling
<1>3. LoopInv(d)'
  BY <1>1, <1>2 DEF LoopInv
<1>4. pc[d] \in {"completing", "failing"} => h \in ToSet(latest[d].current.runIds)
  BY <1>1, <1>2 DEF LoopInv
<1>5. ASSUME NEW x \in Runs, RowSettled(x, d)
      PROVE  Moved(x, d) /\ (RowVerdict(x, d) => RowVerdict(x, d)')
  <2>1. Closing(d) => Closing(d)'
    BY <1>1, <1>2 DEF Closing, LoopInv
  <2>2. pc[d] \in {"starting", "progress"} => ~(items[x][d].status \in Terminal /\ Holds(store[d], x))
    BY <1>5 DEF RowSettled, Closing
  <2>3. CASE x # h
    <3>1. items'[x][d] = items[x][d]
      BY <1>1, <2>3
    <3>2. RowSettled(x, d)'
      BY <1>1, <1>5, <2>1, <3>1 DEF RowSettled
    <3>3. RowVerdict(x, d) => RowVerdict(x, d)'
      BY <1>1, <2>2, <3>1 DEF RowVerdict
    <3> QED
      BY <1>1, <3>1, <3>2, <3>3 DEF Moved
  <2>4. CASE x = h /\ items[h][d].status = "absent"
    <3>1. items'[x][d] = items[x][d] /\ items[x][d].status \notin Terminal
      BY <1>1, <2>4 DEF Terminal
    <3> QED
      BY <1>1, <3>1 DEF Moved, RowSettled, RowVerdict
  <2>5. CASE x = h /\ items[h][d].status # "absent"
    <3>1. items'[x][d] = [status |-> status, stale |-> FALSE] /\ items'[x][d].status = status
      BY <1>1, <2>5
    <3>2. CASE pc[d] \in {"starting", "progress"}
      <4>1. status = "running" /\ status \notin Terminal /\ items[x][d].status \notin Terminal
        BY <1>2, <2>2, <2>5, <3>2 DEF Terminal
      <4> QED
        BY <1>1, <1>2, <2>5, <3>1, <4>1 DEF Moved, RowSettled, RowVerdict
    <3>3. CASE pc[d] \in {"completing", "failing"}
      <4>1. Closing(d)'
        BY <2>1, <3>3 DEF Closing
      <4>2. status = IF pc[d] = "completing" THEN "complete" ELSE "failed"
        BY <3>3
      <4>3. status = IF pc'[d] \in {"completing", "saving"} THEN "complete" ELSE "failed"
        BY <1>1, <3>3
      <4> QED
        BY <1>1, <1>2, <1>4, <2>5, <3>1, <3>3, <4>1, <4>2, <4>3
           DEF Moved, RowSettled, RowVerdict
    <3> QED
      BY <3>2, <3>3
  <2> QED
    BY <2>3, <2>4, <2>5
<1> QED
  BY <1>3, <1>5

(* Any step of alarm().                                                    *)
LEMMA AlarmMoves ==
  ASSUME CoordInv, NEW d \in Dids, AlarmStep(d)
  PROVE  /\ LoopInv(d)'
         /\ \A x \in Runs : RowSettled(x, d) =>
              Moved(x, d) /\ (RowVerdict(x, d) => RowVerdict(x, d)')
<1>1. IInv /\ TypeOK /\ LoopInv(d) /\ SoundQueue(store[d]) /\ SoundQueue(latest[d])
  BY CoordFacts
<1>2. <<>> \in Seq(Runs)
  BY EmptySeq
<1>3. ASSUME ~Closing(d), items' = items, \A x : Holds(store'[d], x) => Holds(store[d], x)
      PROVE  \A x \in Runs : RowSettled(x, d) =>
               Moved(x, d) /\ (RowVerdict(x, d) => RowVerdict(x, d)')
  BY <1>3 DEF RowSettled, RowVerdict, Moved
<1>4. ASSUME pc[d] \in Settling, items' = items, pc'[d] = "idle",
             store'[d] = ClearCurrentTask(latest[d])
      PROVE  \A x \in Runs : RowSettled(x, d) =>
               Moved(x, d) /\ (RowVerdict(x, d) => RowVerdict(x, d)')
  <2>1. OwnedQueue(latest[d]) /\ \A x : Holds(latest[d], x) => Holds(store[d], x)
    BY <1>4, CoordFacts
  <2>2. \A x : Holds(store'[d], x) => Holds(latest[d], x)
    BY <1>1, <1>4, ClearHoldsOnly DEF Holds
  <2>3. \A x \in Runs : Holds(store'[d], x) => x \notin ToSet(latest[d].current.runIds)
    BY <1>4, <2>1, ClearedGone
  <2> QED
    BY <1>4, <2>1, <2>2, <2>3 DEF RowSettled, RowVerdict, Moved
<1>5. ASSUME NEW status, NEW next, NEW rest, status \in Statuses \ {"absent"}, next \in Phases,
             rest \in Seq(Runs), pc[d] \in Writing, WriteNextItem(d, status, next, rest)
      PROVE  NextWritten(d, status, next, rest)
  BY <1>1, <1>5, NextItemFacts
<1>6. CASE AlarmIgnored(d)
  <2>1. UNCHANGED <<store, pc, latest, outcome, todo, items>>
    BY <1>6 DEF AlarmIgnored
  <2> QED
    BY <1>1, <2>1 DEF LoopInv, RowSettled, RowVerdict, Moved, Closing
<1>7. CASE AlarmClaims(d)
  <2>1. /\ store'[d] = TakeNextTask(store[d]) /\ pc'[d] = "starting" /\ CanTake(store[d])
        /\ todo'[d] = store'[d].current.runIds /\ items' = items /\ pc[d] = "idle"
    BY <1>1, <1>7 DEF AlarmClaims, TypeOK, TakeNextTask
  <2>2. \A x : Holds(store'[d], x) => Holds(store[d], x)
    BY <1>1, <2>1, TakeHoldsOnly
  <2>3. LoopInv(d)' /\ ~Closing(d)
    BY <2>1 DEF LoopInv, Closing
  <2> QED
    BY <1>3, <2>1, <2>2, <2>3
<1>8. CASE MarkRunning(d)
  <2>1. NextWritten(d, "running", "executing", <<>>) /\ pc[d] = "starting"
    BY <1>2, <1>5, <1>8 DEF MarkRunning, Writing, Statuses, Phases
  <2> QED
    BY <2>1, LoopMoves
<1>9. CASE ExecuteChunk(d) \/ ExecuteFails(d)
  <2>1. /\ pc[d] = "executing" /\ UNCHANGED <<store, items>> /\ latest'[d] = store[d]
        /\ pc'[d] \in {"progress", "failing"} /\ todo'[d] = TaskOf(store[d], claimed[d]).runIds
    BY <1>1, <1>9 DEF ExecuteChunk, ExecuteFails, Catch, TypeOK
  <2>2. LoopInv(d)' /\ ~Closing(d)
    BY <2>1, CoordFacts DEF LoopInv, Closing
  <2> QED
    BY <1>3, <2>1, <2>2
<1>10. CASE MarkProgress(d)
  <2>1. /\ pc[d] = "progress" /\ SettledTask(d) = latest[d].current
        /\ latest[d].current.runIds \in Seq(Runs)
    BY <1>10, CoordFacts DEF MarkProgress, Settling
  <2>2. CASE outcome[d].completed
    <3>1. NextWritten(d, "running", "completing", latest[d].current.runIds)
      BY <1>5, <1>10, <2>1, <2>2 DEF MarkProgress, Writing, Statuses, Phases
    <3> QED
      BY <2>1, <2>2, <3>1, LoopMoves
  <2>3. CASE ~outcome[d].completed
    <3>1. NextWritten(d, "running", "saving", <<>>)
      BY <1>2, <1>5, <1>10, <2>1, <2>3 DEF MarkProgress, Writing, Statuses, Phases
    <3> QED
      BY <2>1, <2>3, <3>1, LoopMoves
  <2> QED
    BY <2>2, <2>3
<1>11. CASE MarkComplete(d)
  <2>1. NextWritten(d, "complete", "saving", <<>>) /\ pc[d] = "completing"
    BY <1>2, <1>5, <1>11 DEF MarkComplete, Writing, Statuses, Phases
  <2> QED
    BY <2>1, LoopMoves
<1>12. CASE SaveSettled(d)
  <2> DEFINE cleared == ClearCurrentTask(latest[d])
             next == IF outcome[d].completed THEN cleared
                     ELSE InsertContinuationTask(cleared, Progressed(SettledTask(d), outcome[d]))
  <2>1. pc[d] = "saving" /\ store'[d] = next /\ items' = items /\ pc'[d] = "idle"
    BY <1>1, <1>12 DEF SaveSettled, ForgetHandler, TypeOK
  <2>2. LoopInv(d)'
    BY <2>1 DEF LoopInv
  <2>3. CASE outcome[d].completed
    BY <1>4, <2>1, <2>2, <2>3 DEF Settling
  <2>4. CASE ~outcome[d].completed
    <3>1. /\ SettledTask(d) = latest[d].current /\ latest[d].current # NoTask
          /\ outcome[d] \in Outcome /\ \A x : Holds(latest[d], x) => Holds(store[d], x)
      BY <1>1, <2>1, CoordFacts DEF Settling, TypeOK
    <3>2. \A x : Holds(next, x) => Holds(store[d], x)
      BY <1>1, <2>4, <3>1, ContinueHoldsOnly
    <3>3. ~Closing(d)
      BY <2>1, <2>4 DEF Closing
    <3> HIDE DEF next
    <3> QED
      BY <1>3, <2>1, <2>2, <3>2, <3>3
  <2> QED
    BY <2>3, <2>4
<1>13. CASE MarkFailed(d)
  <2>1. NextWritten(d, "failed", "savingFailure", <<>>) /\ pc[d] = "failing"
    BY <1>2, <1>5, <1>13 DEF MarkFailed, Writing, Statuses, Phases
  <2> QED
    BY <2>1, LoopMoves
<1>14. CASE SaveFailed(d)
  <2>1. /\ pc[d] = "savingFailure" /\ items' = items /\ pc'[d] = "idle"
        /\ store'[d] = ClearCurrentTask(latest[d])
    BY <1>1, <1>14 DEF SaveFailed, ForgetHandler, TypeOK
  <2>2. LoopInv(d)'
    BY <2>1 DEF LoopInv
  <2> QED
    BY <1>4, <2>1, <2>2 DEF Settling
<1> QED
  BY <1>6, <1>7, <1>8, <1>9, <1>10, <1>11, <1>12, <1>13, <1>14 DEF AlarmStep

(* A write fails: the catch block starts over with the stored queue.       *)
LEMMA CatchMoves ==
  ASSUME CoordInv, NEW d \in Dids, SettleWriteFails(d)
  PROVE  LoopInv(d)' /\ \A x \in Runs : RowSettled(x, d) => Moved(x, d)
<1>1. /\ pc[d] \in {"progress", "completing", "saving"} /\ UNCHANGED <<store, items>>
      /\ latest'[d] = store[d] /\ todo'[d] = TaskOf(store[d], claimed[d]).runIds
      /\ pc'[d] = "failing"
  BY CoordFacts DEF SettleWriteFails, Catch, TypeOK
<1>2. /\ TaskOf(store[d], claimed[d]) = store[d].current
      /\ ToSet(latest[d].current.runIds) \subseteq ToSet(store[d].current.runIds)
  BY <1>1, CoordFacts DEF Settling
<1> QED
  BY <1>1, <1>2 DEF LoopInv, Moved, RowSettled, Closing

(* A coordinator's step is its own.                                        *)
LEMMA OnlyOne ==
  ASSUME IInv, NEW d \in Dids, AlarmStep(d) \/ FaultStep(d), NEW e \in Dids, e # d
  PROVE  /\ store'[e] = store[e] /\ latest'[e] = latest[e] /\ pc'[e] = pc[e]
         /\ outcome'[e] = outcome[e] /\ todo'[e] = todo[e]
         /\ \A r \in Runs : items'[r][e] = items[r][e]
<1>1. TypeOK
  BY DEF IInv
<1>2. ASSUME NEW status, NEW next, NEW rest, WriteNextItem(d, status, next, rest)
      PROVE  /\ store'[e] = store[e] /\ latest'[e] = latest[e] /\ pc'[e] = pc[e]
             /\ outcome'[e] = outcome[e] /\ todo'[e] = todo[e]
             /\ \A r \in Runs : items'[r][e] = items[r][e]
  <2> DEFINE h == Head(todo[d])
             row == IF items[h][d].status = "absent" THEN items[h][d]
                    ELSE [status |-> status, stale |-> FALSE]
  <2>1. items' = [items EXCEPT ![h][d] = row]
    BY <1>2 DEF WriteNextItem, SetItem
  <2> HIDE DEF h, row
  <2>2. \A r \in Runs : items'[r][e] = items[r][e]
    BY <1>1, <2>1 DEF TypeOK
  <2>3. /\ store' = store /\ latest' = latest /\ outcome' = outcome
        /\ pc'[e] = pc[e] /\ todo'[e] = todo[e]
    BY <1>1, <1>2 DEF WriteNextItem, TypeOK
  <2> QED
    BY <2>2, <2>3
<1>3. CASE MarkRunning(d) \/ MarkProgress(d) \/ MarkComplete(d) \/ MarkFailed(d)
  BY <1>2, <1>3 DEF MarkRunning, MarkProgress, MarkComplete, MarkFailed
<1>4. CASE AlarmIgnored(d) \/ AlarmClaims(d) \/ ExecuteChunk(d) \/ ExecuteFails(d)
  BY <1>1, <1>4 DEF TypeOK, AlarmIgnored, AlarmClaims, ExecuteChunk, ExecuteFails, Catch
<1>5. CASE SaveSettled(d) \/ SaveFailed(d)
  BY <1>1, <1>5 DEF TypeOK, SaveSettled, SaveFailed, ForgetHandler
<1>6. CASE SettleWriteFails(d) \/ HandlerDies(d)
  BY <1>1, <1>6 DEF TypeOK, SettleWriteFails, HandlerDies, Catch, ForgetHandler
<1> QED
  BY <1>3, <1>4, <1>5, <1>6 DEF AlarmStep, FaultStep

(* Coordinators keep what they need to know of themselves.                 *)
LEMMA QuietCoord ==
  ASSUME CoordInv, UNCHANGED doVars, items' \in [Runs -> [Dids -> Item]],
         faults' \in 0..MaxFaults
  PROVE  CoordInv'
<1>1. IInv'
  BY RowsOnly DEF CoordInv, OrderedInv
<1>2. \A d \in Dids : OrderInv(d)' /\ LoopInv(d)'
  BY DEF CoordInv, OrderedInv, OrderInv, LoopInv, doVars
<1> QED
  BY <1>1, <1>2 DEF CoordInv, OrderedInv

LEMMA NextCoord == CoordInv /\ [Next]_vars => CoordInv'
<1> SUFFICES ASSUME CoordInv, [Next]_vars PROVE CoordInv'
  OBVIOUS
<1>1. IInv /\ TypeOK /\ OrderedInv
  BY DEF CoordInv, OrderedInv, IInv
<1>2. OrderedInv'
  BY <1>1, NextInv, NextOrder DEF OrderedInv, OrderKept
<1> SUFFICES \A e \in Dids : LoopInv(e)'
  BY <1>2 DEF CoordInv
<1>3. ASSUME NEW d \in Dids, NEW r \in Runs, Request(d, r) PROVE \A e \in Dids : LoopInv(e)'
  <2>1. /\ store' = [store EXCEPT ![d] = EnqueueTask(store[d], r)]
        /\ UNCHANGED <<pc, latest, outcome, todo>>
    BY <1>3 DEF Request, Enqueue, EnqueueCutShort
  <2>2. ToSet(store[d].current.runIds) \subseteq ToSet(EnqueueTask(store[d], r).current.runIds)
    BY CoordFacts, EnqueueHolds
  <2>3. \A e \in Dids : ToSet(store[e].current.runIds) \subseteq ToSet(store'[e].current.runIds)
    BY <1>1, <2>1, <2>2 DEF TypeOK
  <2> QED
    BY <2>1, <2>3 DEF CoordInv, LoopInv
<1>4. ASSUME NEW d \in Dids, AlarmStep(d) \/ FaultStep(d) PROVE \A e \in Dids : LoopInv(e)'
  <2>1. LoopInv(d)'
    <3>1. CASE AlarmStep(d)
      BY <3>1, AlarmMoves
    <3>2. CASE SettleWriteFails(d)
      BY <3>2, CatchMoves
    <3>3. CASE HandlerDies(d)
      <4>1. pc'[d] = "idle"
        BY <1>1, <3>3 DEF HandlerDies, ForgetHandler, TypeOK
      <4> QED
        BY <4>1 DEF LoopInv
    <3> QED
      BY <1>4, <3>1, <3>2, <3>3 DEF FaultStep
  <2>2. ASSUME NEW e \in Dids, e # d PROVE LoopInv(e)'
    <3>1. LoopInv(e) /\ IInv
      BY <1>1 DEF CoordInv
    <3> QED
      BY <1>4, <2>2, <3>1, OnlyOne DEF LoopInv
  <2> QED
    BY <2>1, <2>2
<1>5. CASE UNCHANGED vars
  BY <1>5 DEF vars, doVars, CoordInv, LoopInv
<1> QED
  BY <1>3, <1>4, <1>5 DEF Next

-----------------------------------------------------------------------------
(***************************************************************************)
(* The dispatch window                                                     *)
(***************************************************************************)
(* The rows of a query that ORDER BY did puts before d.                    *)
Below(S, d) == {e \in S : e < d}

(* The row of a set with the most rows of it below: no row is above it.    *)
LEMMA LastRow ==
  ASSUME NEW S, S \subseteq Dids, NEW n \in Nat, NEW L, L \subseteq S, L # {},
         \A d \in L : Cardinality(Below(S, d)) < n
  PROVE  \E last \in L : \A d \in L : d <= last
<1> DEFINE gap == [d \in L |-> n - Cardinality(Below(S, d))]
<1>1. /\ Dids \subseteq Nat
      /\ \A d \in Dids : IsFiniteSet(Below(S, d)) /\ Cardinality(Below(S, d)) \in Nat
  BY RunConstants, CountRows DEF Below
<1>2. \A d \in L : gap[d] \in Nat
  BY <1>1
<1>3. \A d, e \in L : gap[d] <= gap[e] => Cardinality(Below(S, e)) <= Cardinality(Below(S, d))
  BY <1>1
<1> HIDE DEF gap
<1>4. PICK last \in L : \A d \in L : gap[last] <= gap[d]
  <2> DEFINE I == {gap[d] : d \in L}
  <2>1. I \subseteq Nat /\ I # {}
    BY <1>2
  <2>2. Min(I) \in I /\ \A g \in I : Min(I) <= g
    BY <2>1, MinOfNats
  <2> QED
    BY <2>2
<1>5. ASSUME NEW d \in L, d > last PROVE FALSE
  <2>1. last \in Nat /\ d \in Nat /\ last \in Dids /\ d \in Dids /\ last \in S
    BY <1>1
  <2>2. Below(S, last) \cup {last} \subseteq Below(S, d)
    <3> SUFFICES ASSUME NEW e \in Below(S, last) \cup {last} PROVE e \in S /\ e < d
      BY DEF Below
    <3>1. e \in S /\ (e = last \/ e < last)
      BY <2>1 DEF Below
    <3>2. e \in Nat /\ last < d
      BY <1>1, <1>5, <2>1, <3>1
    <3> QED
      BY <2>1, <3>1, <3>2
  <2>3. last \notin Below(S, last)
    BY <2>1 DEF Below
  <2>4. Cardinality(Below(S, last) \cup {last}) = Cardinality(Below(S, last)) + 1
    BY <1>1, <2>1, <2>3, FS_AddElement
  <2>5. Cardinality(Below(S, last) \cup {last}) <= Cardinality(Below(S, d))
    BY <1>1, <2>1, <2>2, FS_Subset
  <2>6. Cardinality(Below(S, d)) <= Cardinality(Below(S, last))
    BY <1>3, <1>4
  <2> QED
    BY <1>1, <2>1, <2>4, <2>5, <2>6
<1>6. \A d \in L : d <= last
  <2> SUFFICES ASSUME NEW d \in L PROVE d <= last
    OBVIOUS
  <2>1. last \in Nat /\ d \in Nat /\ ~(d > last)
    BY <1>1, <1>5
  <2> QED
    BY <2>1
<1> QED
  BY <1>6

(* LIMIT n returns n rows at most: those below the last one, which are     *)
(* fewer than n, and the last one.                                         *)
LEMMA LimitSize ==
  ASSUME NEW S, S \subseteq Dids, NEW n \in Nat
  PROVE  Limit(S, n) \subseteq S /\ Cardinality(Limit(S, n)) <= n
<1> DEFINE L == Limit(S, n)
<1>1. L \subseteq S /\ \A d \in L : Cardinality(Below(S, d)) < n
  BY DEF Limit, Below
<1> HIDE DEF L
<1>2. Dids \subseteq Nat
  BY RunConstants
<1>3. CASE L = {}
  BY <1>1, <1>3, FS_EmptySet DEF L
<1>4. CASE L # {}
  <2>1. PICK last \in L : \A d \in L : d <= last
    BY <1>1, <1>4, LastRow
  <2> DEFINE B == Below(S, last)
  <2>2. B \subseteq Dids /\ last \notin B /\ Cardinality(B) < n
    <3>1. last \in Nat /\ Cardinality(Below(S, last)) < n
      BY <1>1, <1>2, <2>1
    <3> QED
      BY <3>1 DEF Below
  <2>3. L \subseteq B \cup {last}
    BY <1>1, <1>2, <2>1 DEF Below
  <2> HIDE DEF B
  <2>7. IsFiniteSet(B) /\ Cardinality(B) \in Nat
    BY <2>2, CountRows
  <2>4. IsFiniteSet(B \cup {last}) /\ Cardinality(B \cup {last}) = Cardinality(B) + 1
    BY <2>2, <2>7, FS_AddElement
  <2>5. Cardinality(L) <= Cardinality(B \cup {last})
    BY <2>3, <2>4, FS_Subset
  <2>6. Cardinality(L) \in Nat
    BY <1>1, CountRows
  <2> QED
    BY <1>1, <2>2, <2>4, <2>5, <2>6, <2>7 DEF L
<1> QED
  BY <1>3, <1>4

(* What ActiveWithinFanout supposes: rows go stale only for lost work, a   *)
(* mark reaches D1 before the chunk it announces ends, no coordinator dies *)
(* and no dispatch step is started over.                                   *)
Undisturbed == Prompt /\ ~AdminRepair /\ FaultKinds \cap {"eviction", "retry"} = {}

(* A workflow in one of these will not mark what it has enqueued.          *)
Stopped == {"compensate", "ended", "dead"}

(* Where the row of an expert may be, given what the workflow is about.    *)
(*  - A stale row is active, and its expert's queue has lost the run.      *)
(*  - A queued row of a run that the queue holds is about to be marked, or *)
(*    never will be.                                                       *)
(*  - A run that has not created its items is in no queue.                 *)
(*  - A batch has queued rows of experts that are still to be called; the  *)
(*    one that was called may have been overtaken by its first chunk.      *)
(*  - What the recover step is about to write is still stale.              *)
RowPlace(r, d) ==
  /\ items[r][d].stale =>
       items[r][d].status \in {"dispatched", "running"} /\ ~Holds(store[d], r)
  /\ items[r][d].status = "queued" /\ Holds(store[d], r) =>
       at[r] \in Stopped \/ (at[r] = "mark" /\ d = Min(loc[r].batch))
  /\ at[r] \in {"none", "prepare", "createItems"} => ~Holds(store[d], r)
  /\ at[r] = "enqueue" /\ d \in loc[r].batch =>
       items[r][d].status = "queued" /\ ~Holds(store[d], r)
  /\ at[r] = "mark" /\ d \in loc[r].batch =>
       \/ items[r][d].status = "queued" /\ ~Holds(store[d], r)
       \/ d = Min(loc[r].batch) /\ items[r][d].status \in {"queued", "running"}
  /\ at[r] = "recover" /\ d \in loc[r].requeue =>
       items[r][d].status = "dispatched" /\ items[r][d].stale
  /\ at[r] = "recover" /\ d \in loc[r].fail =>
       items[r][d].status = "running" /\ items[r][d].stale

(* The experts that are active or may become so without another count: the *)
(* coordinator of an expert that holds the run marks its row running, and  *)
(* the rows of a batch will be marked.                                     *)
Window(r) ==
  Active(r) \cup {d \in Undispatched(r) : Holds(store[d], r)}
            \cup (IF at[r] \in {"enqueue", "mark"} THEN loc[r].batch ELSE {})

WindowInv(r) ==
  /\ launch[r] \in {"none", "creating"} => at[r] = "none"
  /\ run[r].status = "none" => launch[r] = "none"
  /\ Cardinality(Window(r)) <= Fanout
  /\ at[r] = "list" => Cardinality(Active(r)) + loc[r].slots <= Fanout

RunPlace(r) ==
  WindowInv(r) /\ \A d \in Dids : RowPlace(r, d) /\ RowSettled(r, d)

(* No coordinator is left with the claim of a handler that died.           *)
NoneWedged == \A d \in Dids : ~Wedged(d)

FanoutInv ==
  RunInv /\ CoordInv /\ hist.pc = "idle" /\ NoneWedged /\ \A r \in Runs : RunPlace(r)

LEMMA WindowRows ==
  ASSUME RunTypeOK, NEW r \in Runs
  PROVE  /\ Active(r) \subseteq Dids /\ Undispatched(r) \subseteq Dids
         /\ Window(r) \subseteq Dids /\ Active(r) \subseteq Window(r)
<1>1. loc[r].batch \subseteq Dids
  BY DEF RunTypeOK, Locals
<1> QED
  BY <1>1 DEF Window, Active, Undispatched, WithStatus

(* A window that loses experts stays narrow enough.                        *)
LEMMA Narrower ==
  ASSUME NEW S, NEW T, NEW n \in Int, S \subseteq Dids, T \subseteq S, Cardinality(S) <= n
  PROVE  Cardinality(T) <= n
<1>1. IsFiniteSet(S) /\ Cardinality(S) \in Nat /\ Cardinality(T) \in Nat
  BY CountRows
<1>2. Cardinality(T) <= Cardinality(S)
  BY <1>1, FS_Subset
<1> QED
  BY <1>1, <1>2

(* A step that leaves a run's rows, its queues and its workflow alone: a   *)
(* step of another run, or of the run's launcher.                          *)
LEMMA RunApart ==
  ASSUME RunTypeOK, NEW r \in Runs, RunPlace(r),
         items'[r] = items[r], at'[r] = at[r], loc'[r] = loc[r],
         UNCHANGED <<pc, latest, outcome>>,
         \A d \in Dids : Holds(store'[d], r) <=> Holds(store[d], r),
         launch'[r] \in {"none", "creating"} => at[r] = "none",
         run'[r].status = "none" => launch'[r] = "none"
  PROVE  RunPlace(r)'
<1>1. Active(r)' = Active(r) /\ Window(r)' = Window(r)
  BY DEF Window, Active, Undispatched, WithStatus
<1>2. WindowInv(r)'
  BY <1>1 DEF RunPlace, WindowInv
<1>3. \A d \in Dids : RowPlace(r, d)' /\ RowSettled(r, d)'
  BY DEF RunPlace, RowPlace, RowSettled, Closing
<1> QED
  BY <1>2, <1>3 DEF RunPlace

(* A workflow moves on to a position from which it writes no row next.     *)
LEMMA RunMovesOn ==
  ASSUME RunTypeOK, NEW r \in Runs, RunPlace(r),
         UNCHANGED <<items, store, pc, latest, outcome>>,
         at'[r] \notin {"enqueue", "mark", "recover", "list"},
         at'[r] \in {"none", "prepare", "createItems"} =>
           at[r] \in {"none", "prepare", "createItems"},
         at'[r] \in Stopped \/ at[r] \notin Stopped \cup {"mark"},
         launch'[r] \in {"none", "creating"} => at'[r] = "none",
         run'[r].status = "none" => launch'[r] = "none"
  PROVE  RunPlace(r)'
<1>1. Active(r)' = Active(r) /\ Window(r)' \subseteq Window(r)
  BY DEF Window, Active, Undispatched, WithStatus
<1>2. Cardinality(Window(r)') <= Fanout
  BY <1>1, WindowRows, Narrower, RunConstants DEF RunPlace, WindowInv
<1>3. WindowInv(r)'
  BY <1>2 DEF WindowInv
<1>4. \A d \in Dids : RowPlace(r, d)' /\ RowSettled(r, d)'
  BY DEF RunPlace, RowPlace, RowSettled, Closing
<1> QED
  BY <1>3, <1>4 DEF RunPlace

(* A coordinator's step.                                                   *)
LEMMA CoordPlace ==
  ASSUME RunTypeOK, CoordInv, NEW r \in Runs, RunPlace(r), NEW d \in Dids, UNCHANGED runVars,
         (AlarmStep(d) /\ ~OutrunsDispatch(d)) \/ SettleWriteFails(d)
  PROVE  RunPlace(r)'
<1>1. RowPlace(r, d) /\ RowSettled(r, d) /\ WindowInv(r)
  BY DEF RunPlace
<1>2. Moved(r, d)
  BY <1>1, AlarmMoves, CatchMoves
<1>3. ASSUME NEW e \in Dids, e # d
      PROVE  /\ store'[e] = store[e] /\ latest'[e] = latest[e] /\ pc'[e] = pc[e]
             /\ outcome'[e] = outcome[e] /\ items'[r][e] = items[r][e]
  <2>1. IInv /\ (AlarmStep(d) \/ FaultStep(d))
    BY DEF CoordInv, OrderedInv, FaultStep
  <2> QED
    BY <1>3, <2>1, OnlyOne
<1>4. /\ at'[r] = at[r] /\ loc'[r] = loc[r] /\ launch'[r] = launch[r] /\ run'[r] = run[r]
  BY DEF runVars
(* The row of a run that the workflow is about to mark is not settled.     *)
<1>5. ASSUME at[r] = "mark", d = Min(loc[r].batch), items'[r][d] # items[r][d]
      PROVE  items'[r][d].status = "running"
  <2>1. CASE AlarmStep(d) /\ ~OutrunsDispatch(d)
    <3>1. ~(pc[d] \in {"completing", "failing"} /\ r \in ToSet(todo[d]))
      BY <1>5, <2>1 DEF OutrunsDispatch
    <3> QED
      BY <1>2, <1>5, <3>1 DEF Moved
  <2>2. CASE SettleWriteFails(d)
    BY <1>5, <2>2 DEF SettleWriteFails, Catch
  <2> QED
    BY <2>1, <2>2
<1>6. Holds(store'[d], r) => Holds(store[d], r)
  BY <1>2 DEF Moved
<1>7. ASSUME items'[r][d] # items[r][d]
      PROVE  Holds(store[d], r) /\ ~items'[r][d].stale /\ items'[r][d].status # "queued"
  BY <1>2, <1>7 DEF Moved
<1>8. RowPlace(r, d)'
  <2>1. CASE items'[r][d] = items[r][d]
    BY <1>1, <1>4, <1>6, <2>1 DEF RowPlace
  <2>2. CASE items'[r][d] # items[r][d]
    BY <1>1, <1>4, <1>5, <1>6, <1>7, <2>2 DEF RowPlace
  <2> QED
    BY <2>1, <2>2
<1>9. ASSUME NEW e \in Dids PROVE RowPlace(r, e)' /\ RowSettled(r, e)'
  <2>1. CASE e = d
    BY <1>2, <1>8, <2>1 DEF Moved
  <2>2. CASE e # d
    BY <1>3, <1>4, <2>2 DEF RunPlace, RowPlace, RowSettled, Closing
  <2> QED
    BY <2>1, <2>2
<1>10. items'[r][d].status \in {"dispatched", "running"} =>
         \/ items[r][d].status \in {"dispatched", "running"}
         \/ items[r][d].status = "queued" /\ Holds(store[d], r)
  <2>1. items[r][d].status \in Statuses
    BY DEF RunTypeOK, TypeOK, Item
  <2> QED
    BY <1>2, <2>1 DEF Moved, Statuses, Terminal
<1>11. Window(r)' \subseteq Window(r)
  BY <1>3, <1>4, <1>6, <1>7, <1>10 DEF Window, Active, Undispatched, WithStatus
<1>12. at[r] = "list" => Active(r)' \subseteq Active(r)
  <2> SUFFICES ASSUME at[r] = "list" PROVE Active(r)' \subseteq Active(r)
    OBVIOUS
  <2>1. ~(items[r][d].status = "queued" /\ Holds(store[d], r))
    BY <1>1 DEF RowPlace, Stopped
  <2> QED
    BY <1>3, <1>10, <2>1 DEF Active, WithStatus
<1>13. WindowInv(r)'
  <2>1. Cardinality(Window(r)') <= Fanout
    BY <1>1, <1>11, WindowRows, Narrower, RunConstants DEF WindowInv
  <2>2. ASSUME at[r] = "list" PROVE Cardinality(Active(r)') + loc[r].slots <= Fanout
    <3>1. /\ Cardinality(Active(r)) \in Nat /\ loc[r].slots \in Nat /\ Fanout \in Nat
          /\ Cardinality(Active(r)) + loc[r].slots <= Fanout
      BY <1>1, <2>2, WindowRows, CountRows, RunConstants DEF RunTypeOK, Locals, WindowInv
    <3>2. Cardinality(Active(r)') <= Cardinality(Active(r))
      <4>1. /\ Active(r)' \subseteq Active(r) /\ Active(r) \subseteq Dids
            /\ Cardinality(Active(r)) \in Int
            /\ Cardinality(Active(r)) <= Cardinality(Active(r))
        BY <1>12, <2>2, <3>1, WindowRows
      <4> QED
        BY <4>1, Narrower
    <3>3. Cardinality(Active(r)') \in Nat
      BY <1>12, <2>2, WindowRows, CountRows
    <3> QED
      BY <3>1, <3>2, <3>3
  <2> QED
    BY <1>1, <1>4, <2>1, <2>2 DEF WindowInv
<1> QED
  BY <1>9, <1>13 DEF RunPlace

(* The call to the next coordinator of the batch.                          *)
LEMMA DispatchPlace ==
  ASSUME FanoutInv, NEW r \in Runs, DispatchNext(r), NEW s \in Runs
  PROVE  RunPlace(s)'
<1> DEFINE d == Min(loc[r].batch)
<1>1. RunTypeOK /\ TypeOK /\ Position(r) /\ RunPlace(r) /\ RunPlace(s) /\ CoordInv
  BY DEF FanoutInv, RunInv, RunTypeOK
<1>2. at[r] = "enqueue" /\ loc[r].batch \subseteq Dids /\ loc[r].batch # {}
  BY <1>1 DEF DispatchNext, Position, RunTypeOK, Locals
<1>3. d \in loc[r].batch /\ d \in Dids
  BY <1>2, FirstExpert
<1>4. /\ store' = [store EXCEPT ![d] = EnqueueTask(store[d], r)]
      /\ at' = [at EXCEPT ![r] = "mark"]
      /\ UNCHANGED <<pc, latest, outcome, items, run, launch, loc>>
  BY DEF DispatchNext, Enqueue, Goto
<1> HIDE DEF d
<1>5. /\ store'[d] = EnqueueTask(store[d], r) /\ SoundQueue(store[d])
      /\ \A e \in Dids : e # d => store'[e] = store[e]
      /\ at'[r] = "mark" /\ (s # r => at'[s] = at[s])
  BY <1>1, <1>3, <1>4, CoordFacts DEF TypeOK, RunTypeOK
<1>6. \A x : x # r => \A e \in Dids : Holds(store'[e], x) <=> Holds(store[e], x)
  <2>1. \A x : x # r => (Holds(store'[d], x) <=> Holds(store[d], x))
    BY <1>5, EnqueueHolds, EnqueueHoldsOnly
  <2> QED
    BY <1>5, <2>1
<1>7. CASE s # r
  <2>1. launch[s] \in {"none", "creating"} => at[s] = "none"
    BY <1>1 DEF RunPlace, WindowInv
  <2>2. run[s].status = "none" => launch[s] = "none"
    BY <1>1 DEF RunPlace, WindowInv
  <2> QED
    BY <1>1, <1>4, <1>5, <1>6, <1>7, <2>1, <2>2, RunApart
<1>8. CASE s = r
  <2>1. items[r][d].status = "queued" /\ RowPlace(r, d)
    BY <1>1, <1>2, <1>3 DEF RunPlace, RowPlace
  <2>2. Window(r)' \subseteq Window(r)
    BY <1>2, <1>3, <1>4, <1>5 DEF Window, Active, Undispatched, WithStatus
  <2>3. Cardinality(Window(r)') <= Fanout
    BY <1>1, <2>2, WindowRows, Narrower, RunConstants DEF RunPlace, WindowInv
  <2>4. WindowInv(r)'
    BY <1>1, <1>2, <1>4, <1>5, <2>3 DEF RunPlace, WindowInv
  <2>5. ASSUME NEW e \in Dids PROVE RowPlace(r, e)' /\ RowSettled(r, e)'
    <3>1. CASE e = d
      BY <1>2, <1>4, <1>5, <2>1, <3>1 DEF RowPlace, RowSettled, Terminal, d
    <3>2. CASE e # d
      BY <1>1, <1>2, <1>4, <1>5, <3>2 DEF RunPlace, RowPlace, RowSettled, Closing, Stopped
    <3> QED
      BY <3>1, <3>2
  <2>6. RunPlace(r)'
    BY <2>4, <2>5 DEF RunPlace
  <2> QED
    BY <1>8, <2>6
<1> QED
  BY <1>7, <1>8

(* The workflow writes rows of its items.                                  *)
LEMMA RowsPlace ==
  ASSUME FanoutInv, NEW r \in Runs,
         CreateItems(r) \/ RequeueStale(r) \/ FailStale(r) \/ MarkDispatched(r)
  PROVE  RunPlace(r)'
<1>1. /\ RunTypeOK /\ TypeOK /\ Position(r) /\ WindowInv(r)
      /\ \A d \in Dids : RowPlace(r, d) /\ RowSettled(r, d)
  BY DEF FanoutInv, RunInv, RunTypeOK, RunPlace
<1>2. /\ items \in [Runs -> [Dids -> Item]]
      /\ at \in [Runs -> Steps \cup {"none", "ended", "dead"}] /\ loc \in [Runs -> Locals]
      /\ loc[r].requeue \subseteq Dids /\ loc[r].fail \subseteq Dids /\ loc[r].batch \subseteq Dids
  BY <1>1 DEF RunTypeOK, TypeOK, Locals
<1>3. UNCHANGED <<store, pc, latest, outcome, run, launch>>
  BY DEF CreateItems, RequeueStale, FailStale, MarkDispatched, doVars
<1>4. ASSUME Window(r)' \subseteq Window(r), at'[r] \notin {"none", "list"},
             \A d \in Dids : RowPlace(r, d)' /\ RowSettled(r, d)'
      PROVE  RunPlace(r)'
  <2>1. Cardinality(Window(r)') <= Fanout
    BY <1>1, <1>4, WindowRows, Narrower, RunConstants DEF WindowInv
  <2>2. at[r] # "none"
    BY DEF CreateItems, RequeueStale, FailStale, MarkDispatched
  <2>3. WindowInv(r)'
    BY <1>1, <1>3, <1>4, <2>1, <2>2 DEF WindowInv
  <2> QED
    BY <1>4, <2>3 DEF RunPlace
<1>5. CASE CreateItems(r)
  <2>1. /\ at[r] = "createItems" /\ at'[r] = "markDispatching"
        /\ \A d \in Dids :
             items'[r][d] = IF items[r][d].status = "absent"
                              THEN [status |-> "queued", stale |-> FALSE] ELSE items[r][d]
    BY <1>2, <1>5 DEF CreateItems, Goto
  <2>2. \A d \in Dids : ~Holds(store[d], r)
    BY <1>1, <2>1 DEF RowPlace
  <2>3. Window(r)' \subseteq Window(r)
    BY <1>3, <2>1, <2>2 DEF Window, Active, Undispatched, WithStatus
  <2>4. \A d \in Dids : RowPlace(r, d)' /\ RowSettled(r, d)'
    BY <1>1, <1>3, <2>1, <2>2 DEF RowPlace, RowSettled
  <2> QED
    BY <1>4, <2>1, <2>3, <2>4
<1>6. ASSUME NEW d \in Dids, items[r][d].stale, at[r] = "recover", at' = at,
             NEW status \in {"queued", "failed"}, SetItem(r, d, status),
             loc'[r].requeue \subseteq loc[r].requeue, loc'[r].fail \subseteq loc[r].fail,
             loc'[r].batch = loc[r].batch, d \notin loc'[r].requeue, d \notin loc'[r].fail
      PROVE  RunPlace(r)'
  <2>1. ~Holds(store[d], r) /\ items[r][d].status \in {"dispatched", "running"}
    BY <1>1, <1>6 DEF RowPlace
  <2>2. /\ items'[r][d] = [status |-> status, stale |-> FALSE]
        /\ \A e \in Dids : e # d => items'[r][e] = items[r][e]
    <3> DEFINE row == IF items[r][d].status = "absent" THEN items[r][d]
                      ELSE [status |-> status, stale |-> FALSE]
    <3>1. items' = [items EXCEPT ![r][d] = row]
      BY <1>6 DEF SetItem
    <3>2. row = [status |-> status, stale |-> FALSE]
      BY <2>1
    <3> HIDE DEF row
    <3> QED
      BY <1>2, <2>1, <3>1, <3>2
  <2>3. Window(r)' \subseteq Window(r)
    BY <1>3, <1>6, <2>1, <2>2 DEF Window, Active, Undispatched, WithStatus
  <2>4. ASSUME NEW e \in Dids PROVE RowPlace(r, e)' /\ RowSettled(r, e)'
    <3>1. CASE e = d
      <4>1. /\ items'[r][e].status \in {"queued", "failed"} /\ ~items'[r][e].stale
            /\ ~Holds(store'[e], r) /\ e \notin loc'[r].requeue /\ e \notin loc'[r].fail
        BY <1>1, <1>3, <1>6, <2>1, <2>2, <3>1 DEF RowPlace
      <4> QED
        BY <1>6, <4>1 DEF RowPlace, RowSettled
    <3>2. CASE e # d
      BY <1>1, <1>3, <1>6, <2>2, <3>2 DEF RowPlace, RowSettled, Closing, Stopped
    <3> QED
      BY <3>1, <3>2
  <2> QED
    BY <1>4, <1>6, <2>3, <2>4
<1>8. CASE RequeueStale(r)
  <2> DEFINE d == Min(loc[r].requeue)
             rest == loc[r].requeue \ {d}
  <2>1. /\ at[r] = "recover" /\ at' = at /\ SetItem(r, d, "queued")
        /\ d \in loc[r].requeue /\ loc' = [loc EXCEPT ![r].requeue = rest]
    BY <1>2, <1>8, FirstExpert DEF RequeueStale
  <2>2. rest \subseteq loc[r].requeue /\ d \notin rest
    OBVIOUS
  <2> HIDE DEF d, rest
  <2>3. /\ loc'[r].requeue = rest /\ loc'[r].fail = loc[r].fail
        /\ loc'[r].batch = loc[r].batch
    BY <1>2, <2>1 DEF Locals
  <2>4. d \in Dids /\ items[r][d].stale /\ d \notin loc[r].fail
    BY <1>1, <1>2, <2>1 DEF RowPlace
  <2> QED
    BY <1>6, <2>1, <2>2, <2>3, <2>4
<1>9. CASE FailStale(r)
  <2> DEFINE d == Min(loc[r].fail)
             rest == loc[r].fail \ {d}
  <2>1. /\ at[r] = "recover" /\ at' = at /\ SetItem(r, d, "failed") /\ loc[r].requeue = {}
        /\ d \in loc[r].fail /\ loc' = [loc EXCEPT ![r].fail = rest]
    BY <1>2, <1>9, FirstExpert DEF FailStale
  <2>2. rest \subseteq loc[r].fail /\ d \notin rest
    OBVIOUS
  <2> HIDE DEF d, rest
  <2>3. /\ loc'[r].fail = rest /\ loc'[r].requeue = loc[r].requeue
        /\ loc'[r].batch = loc[r].batch
    BY <1>2, <2>1 DEF Locals
  <2>4. d \in Dids /\ items[r][d].stale
    BY <1>1, <1>2, <2>1 DEF RowPlace
  <2> QED
    BY <1>6, <2>1, <2>2, <2>3, <2>4
<1>7. CASE MarkDispatched(r)
  <2> DEFINE d == Min(loc[r].batch)
             rest == loc[r].batch \ {d}
             next == IF loc[r].batch = {d} THEN "poll" ELSE "enqueue"
  <2>1. /\ at[r] = "mark" /\ SetItem(r, d, "dispatched") /\ d \in loc[r].batch /\ d \in Dids
        /\ loc' = [loc EXCEPT ![r].batch = rest] /\ at' = [at EXCEPT ![r] = next]
    BY <1>1, <1>2, <1>7, FirstExpert DEF MarkDispatched, Position, Goto
  <2>2. /\ rest \subseteq loc[r].batch /\ d \notin rest /\ next \in {"poll", "enqueue"}
    OBVIOUS
  <2>3. items[r][d].status \in {"queued", "running"}
    BY <1>1, <2>1 DEF RowPlace
  <2>4. \A e \in Dids : e # d /\ e \in loc[r].batch =>
          items[r][e].status = "queued" /\ ~Holds(store[e], r)
    BY <1>1, <2>1 DEF RowPlace
  <2>5. \A e \in Dids : e # d => ~(items[r][e].status = "queued" /\ Holds(store[e], r))
    BY <1>1, <2>1 DEF RowPlace, Stopped
  <2> HIDE DEF d, rest, next
  <2>6. /\ items'[r][d] = [status |-> "dispatched", stale |-> FALSE]
        /\ \A e \in Dids : e # d => items'[r][e] = items[r][e]
    <3> DEFINE row == IF items[r][d].status = "absent" THEN items[r][d]
                      ELSE [status |-> "dispatched", stale |-> FALSE]
    <3>1. items' = [items EXCEPT ![r][d] = row]
      BY <2>1 DEF SetItem
    <3>2. row = [status |-> "dispatched", stale |-> FALSE]
      BY <2>3
    <3> HIDE DEF row
    <3> QED
      BY <1>2, <2>1, <3>1, <3>2
  <2>7. loc'[r].batch = rest /\ at'[r] = next
    BY <1>2, <2>1 DEF Locals
  <2>8. Window(r)' \subseteq Window(r)
    BY <1>3, <2>1, <2>2, <2>6, <2>7 DEF Window, Active, Undispatched, WithStatus
  <2>9. ASSUME NEW e \in Dids PROVE RowPlace(r, e)' /\ RowSettled(r, e)'
    <3>1. CASE e = d
      <4>1. /\ items'[r][e].status = "dispatched" /\ ~items'[r][e].stale
            /\ e \notin loc'[r].batch
        BY <2>2, <2>6, <2>7, <3>1
      <4> QED
        BY <2>2, <2>7, <4>1 DEF RowPlace, RowSettled, Terminal
    <3>2. CASE e # d
      BY <1>1, <1>3, <2>1, <2>2, <2>4, <2>5, <2>6, <2>7, <3>2
         DEF RowPlace, RowSettled, Closing
    <3> QED
      BY <3>1, <3>2
  <2> QED
    BY <1>4, <2>2, <2>7, <2>8, <2>9
<1> QED
  BY <1>5, <1>7, <1>8, <1>9

(* The workflow reads the rows and decides what to do with them.           *)
LEMMA ReadPlace ==
  ASSUME FanoutInv, NEW r \in Runs, ListStale(r) \/ CountActive(r) \/ ListUndispatched(r)
  PROVE  RunPlace(r)'
<1> USE DEF Goto
<1>1. /\ RunTypeOK /\ WindowInv(r) /\ RunPlace(r)
      /\ \A d \in Dids : RowPlace(r, d) /\ RowSettled(r, d)
  BY DEF FanoutInv, RunInv, RunPlace
<1>2. /\ at \in [Runs -> Steps \cup {"none", "ended", "dead"}] /\ loc \in [Runs -> Locals]
  BY <1>1 DEF RunTypeOK
<1>3. UNCHANGED <<items, store, pc, latest, outcome, run, launch>>
  BY DEF ListStale, CountActive, ListUndispatched, vars, doVars
<1>4. /\ launch[r] \notin {"none", "creating"} /\ run[r].status # "none"
      /\ at[r] \in {"repair", "recover", "list"}
  BY <1>1 DEF WindowInv, ListStale, CountActive, ListUndispatched
<1>5. \A d \in Dids : RowSettled(r, d)'
  BY <1>1, <1>3 DEF RowSettled, Closing
<1>6. Window(r) = Active(r) \cup {d \in Undispatched(r) : Holds(store[d], r)}
  BY <1>4 DEF Window
<1>7. CASE ListStale(r)
  <2> DEFINE requeue == Stale(r, "dispatched")
             fail == Stale(r, "running")
  <2>1. /\ loc' = [loc EXCEPT ![r].requeue = requeue, ![r].fail = fail]
        /\ at' = [at EXCEPT ![r] = "recover"]
    BY <1>7 DEF ListStale
  <2>2. /\ \A d \in requeue : items[r][d].status = "dispatched" /\ items[r][d].stale
        /\ \A d \in fail : items[r][d].status = "running" /\ items[r][d].stale
    BY DEF Stale
  <2> HIDE DEF requeue, fail
  <2>3. at'[r] = "recover" /\ loc'[r].requeue = requeue /\ loc'[r].fail = fail
    BY <1>2, <2>1 DEF Locals
  <2>4. Window(r)' = Window(r)
    BY <1>3, <1>6, <2>3 DEF Window, Active, Undispatched, WithStatus
  <2>5. WindowInv(r)'
    BY <1>1, <1>3, <1>4, <2>3, <2>4 DEF WindowInv
  <2>6. at[r] = "repair"
    BY <1>7 DEF ListStale
  <2>7. \A d \in Dids : RowPlace(r, d)'
    BY <1>1, <1>3, <2>2, <2>3, <2>6 DEF RowPlace, Stopped
  <2> QED
    BY <1>5, <2>5, <2>7 DEF RunPlace
<1>8. CASE CountActive(r)
  <2>1. Cardinality(Active(r)) \in Nat /\ Fanout \in Nat
    BY <1>1, WindowRows, CountRows, RunConstants
  <2>2. at[r] = "recover"
    BY <1>8 DEF CountActive
  <2>3. CASE Cardinality(Active(r)) >= Fanout
    <3>1. at'[r] = "poll"
      BY <1>2, <1>8, <2>3 DEF CountActive
    <3> QED
      BY <1>1, <1>3, <1>4, <2>2, <3>1, RunMovesOn DEF Stopped
  <2>4. CASE ~(Cardinality(Active(r)) >= Fanout)
    <3> DEFINE slots == Fanout - Cardinality(Active(r))
    <3>1. /\ at' = [at EXCEPT ![r] = "list"] /\ loc' = [loc EXCEPT ![r].slots = slots]
          /\ Cardinality(Active(r)) + slots = Fanout
      BY <1>8, <2>1, <2>4 DEF CountActive
    <3> HIDE DEF slots
    <3>2. at'[r] = "list" /\ loc'[r].slots = slots
      BY <1>2, <3>1 DEF Locals
    <3>3. Window(r)' = Window(r) /\ Active(r)' = Active(r)
      BY <1>3, <1>6, <3>2 DEF Window, Active, Undispatched, WithStatus
    <3>4. WindowInv(r)'
      BY <1>1, <1>3, <1>4, <2>1, <3>1, <3>2, <3>3 DEF WindowInv
    <3>5. \A d \in Dids : RowPlace(r, d)'
      BY <1>1, <1>3, <2>2, <3>2 DEF RowPlace, Stopped
    <3> QED
      BY <1>5, <3>4, <3>5 DEF RunPlace
  <2> QED
    BY <2>3, <2>4
<1>9. CASE ListUndispatched(r)
  <2> DEFINE batch == Limit(Undispatched(r), loc[r].slots)
             next == IF batch = {} THEN "poll" ELSE "enqueue"
  <2>1. /\ at[r] = "list" /\ at' = [at EXCEPT ![r] = next]
        /\ loc' = [loc EXCEPT ![r].batch = batch, ![r].slots = 0]
    BY <1>9 DEF ListUndispatched
  <2>2. next \in {"poll", "enqueue"}
    OBVIOUS
  <2>3. loc[r].slots \in Nat
    BY <1>2 DEF Locals
  <2>4. batch \subseteq Undispatched(r) /\ Cardinality(batch) <= loc[r].slots
    BY <1>1, <2>3, WindowRows, LimitSize
  <2> HIDE DEF batch, next
  <2>5. at'[r] = next /\ loc'[r].batch = batch
    BY <1>2, <2>1 DEF Locals
  <2>6. \A d \in Undispatched(r) : items[r][d].status = "queued" /\ ~Holds(store[d], r)
    BY <1>1, <2>1 DEF RowPlace, Undispatched, WithStatus, Stopped
  <2>7. Window(r)' \subseteq Active(r) \cup batch
    BY <1>3, <2>2, <2>5, <2>6 DEF Window, Active, Undispatched, WithStatus
  <2>8. Cardinality(Active(r) \cup batch) <= Fanout
    <3>1. /\ IsFiniteSet(Active(r)) /\ Cardinality(Active(r)) \in Nat
          /\ IsFiniteSet(batch) /\ Cardinality(batch) \in Nat
      BY <1>1, <2>4, WindowRows, CountRows
    <3>2. /\ IsFiniteSet(Active(r) \cap batch) /\ Cardinality(Active(r) \cap batch) \in Nat
          /\ Cardinality(Active(r) \cup batch) =
               Cardinality(Active(r)) + Cardinality(batch) - Cardinality(Active(r) \cap batch)
      BY <3>1, FS_Union, FS_Intersection, FS_CardinalityType
    <3>3. Cardinality(Active(r)) + loc[r].slots <= Fanout /\ Fanout \in Nat
      BY <1>1, <2>1, RunConstants DEF WindowInv
    <3> QED
      BY <2>3, <2>4, <3>1, <3>2, <3>3
  <2>9. Cardinality(Window(r)') <= Fanout
    <3>1. Active(r) \cup batch \subseteq Dids /\ Fanout \in Int
      BY <1>1, <2>4, WindowRows, RunConstants
    <3> QED
      BY <2>7, <2>8, <3>1, Narrower
  <2>10. WindowInv(r)'
    BY <1>3, <1>4, <2>2, <2>5, <2>9 DEF WindowInv
  <2>11. \A d \in Dids : RowPlace(r, d)'
    BY <1>1, <1>3, <2>1, <2>2, <2>4, <2>5, <2>6 DEF RowPlace, Stopped
  <2> QED
    BY <1>5, <2>10, <2>11 DEF RunPlace
<1> QED
  BY <1>7, <1>8, <1>9

(* The launcher, and what of a workflow neither reads nor writes items.    *)
LEMMA ControlPlace ==
  ASSUME FanoutInv, Undisturbed, NEW r \in Runs,
         \/ Launch(r) \/ LaunchStep(r) \/ RunFault(r)
         \/ MarkPreparing(r) \/ MarkDispatching(r) \/ Poll(r) \/ MarkFinalizing(r)
         \/ Summarize(r) \/ Finalize(r) \/ OptimizeFts(r) \/ Compensate(r)
  PROVE  RunPlace(r)'
<1> USE DEF Goto
<1>1. /\ RunTypeOK /\ RunPlace(r)
      /\ launch[r] \in {"none", "creating"} => at[r] = "none"
      /\ run[r].status = "none" => launch[r] = "none"
  BY DEF FanoutInv, RunInv, RunPlace, WindowInv
<1>2. /\ run \in [Runs -> RunRow] /\ launch \in [Runs -> {"none", "creating", "failing", "done"}]
      /\ at \in [Runs -> Steps \cup {"none", "ended", "dead"}] /\ loc \in [Runs -> Locals]
  BY <1>1 DEF RunTypeOK
<1>3. ~DispatchCutShort(r) /\ (StepFails(r) => at[r] = "optimize")
  BY DEF Undisturbed, DispatchCutShort, StepFails, Fault
<1>4. UNCHANGED <<items, store, pc, latest, outcome>>
  BY <1>3 DEF Launch, LaunchStep, CreateInstance, ReportLaunchFailure, RunFault, CreateFails,
         LauncherDies, StepFails, StepExhausted, MarkPreparing, MarkDispatching, Poll,
         MarkFinalizing, Summarize, Finalize, OptimizeFts, Compensate, vars, doVars
<1>5. ASSUME at'[r] = at[r], loc'[r] = loc[r], run'[r].status = "none" => launch'[r] = "none",
             launch'[r] \in {"none", "creating"} => at[r] = "none"
      PROVE  RunPlace(r)'
  BY <1>1, <1>4, <1>5, RunApart
<1>6. ASSUME NEW next, next \notin {"enqueue", "mark", "recover", "list", "none"}, at'[r] = next,
             next \in {"prepare", "createItems"} => at[r] \in {"none", "prepare", "createItems"},
             next \in Stopped \/ at[r] \notin Stopped \cup {"mark"},
             launch'[r] \notin {"none", "creating"}, run'[r].status # "none"
      PROVE  RunPlace(r)'
  BY <1>1, <1>4, <1>6, RunMovesOn
<1>7. CASE Launch(r)
  <2>1. at' = at /\ loc' = loc /\ launch'[r] = "creating" /\ run'[r].status = "queued"
    BY <1>1, <1>2, <1>7, SetRunRow DEF Launch
  <2> QED
    BY <1>1, <1>5, <1>7, <2>1 DEF Launch
<1>8. CASE CreateInstance(r)
  <2>1. /\ at'[r] = "prepare" /\ launch'[r] = "done" /\ run' = run /\ launch[r] = "creating"
    BY <1>2, <1>8 DEF CreateInstance
  <2> QED
    BY <1>1, <1>6, <2>1 DEF Stopped
<1>9. CASE ReportLaunchFailure(r)
  <2>1. at' = at /\ loc' = loc /\ launch'[r] = "done" /\ run'[r].status = "failed"
    BY <1>1, <1>2, <1>9, SetRunRow DEF ReportLaunchFailure
  <2> QED
    BY <1>5, <2>1
<1>10. CASE CreateFails(r)
  <2>1. /\ launch[r] = "creating" /\ launch'[r] = "failing" /\ run' = run /\ loc' = loc
        /\ at' = at \/ at'[r] = "prepare"
    BY <1>2, <1>10 DEF CreateFails
  <2>2. CASE at' = at
    BY <1>1, <1>5, <2>1, <2>2
  <2>3. CASE at'[r] = "prepare"
    BY <1>1, <1>6, <2>1, <2>3 DEF Stopped
  <2> QED
    BY <2>1, <2>2, <2>3
<1>11. CASE LauncherDies(r)
  <2>1. /\ launch[r] # "none" /\ launch'[r] = "done" /\ run' = run /\ loc' = loc /\ at' = at
    BY <1>2, <1>11 DEF LauncherDies
  <2> QED
    BY <1>1, <1>5, <2>1
<1>12. ASSUME at[r] # "none" PROVE launch[r] \notin {"none", "creating"} /\ run[r].status # "none"
  BY <1>1, <1>12
<1>13. CASE StepFails(r) \/ StepExhausted(r)
  <2>1. /\ at[r] \in Steps /\ UNCHANGED <<run, launch>>
        /\ at'[r] \in {"finalize", "compensate", "dead"}
        /\ at'[r] = "finalize" => at[r] = "optimize"
    BY <1>2, <1>3, <1>13 DEF StepFails, StepExhausted, StepStart, Steps
  <2>2. at[r] # "none"
    BY <2>1 DEF Steps
  <2> QED
    BY <1>6, <1>12, <2>1, <2>2 DEF Stopped
<1>14. CASE MarkPreparing(r)
  <2>1. /\ at[r] = "prepare" /\ at'[r] = "createItems" /\ launch' = launch
        /\ run'[r].status # "none"
    <3>1. CASE run[r].status \in {"queued", "running"}
      BY <1>1, <1>2, <1>14, <3>1, SetRunRow DEF MarkPreparing
    <3>2. CASE run[r].status \notin {"queued", "running"}
      BY <1>2, <1>12, <1>14, <3>2 DEF MarkPreparing
    <3> QED
      BY <3>1, <3>2
  <2> QED
    BY <1>6, <1>12, <2>1 DEF Stopped
<1>15. CASE MarkDispatching(r) \/ MarkFinalizing(r) \/ Compensate(r)
  <2>1. /\ at[r] \in {"markDispatching", "finalize", "compensate"}
        /\ at'[r] \in {"repair", "summarize", "ended"}
        /\ at[r] = "compensate" => at'[r] = "ended"
        /\ launch' = launch
    BY <1>2, <1>15 DEF MarkDispatching, MarkFinalizing, Compensate
  <2>2. run'[r].status # "none"
    BY <1>1, <1>15, SetRunRow DEF MarkDispatching, MarkFinalizing, Compensate
  <2> QED
    BY <1>6, <1>12, <2>1, <2>2 DEF Stopped
<1>16. CASE Finalize(r)
  <2>1. at[r] = "close" /\ at'[r] = "optimize" /\ launch' = launch /\ run'[r].status # "none"
    BY <1>1, <1>2, <1>16, CloseRunRow DEF Finalize
  <2> QED
    BY <1>6, <1>12, <2>1 DEF Stopped
<1>17. CASE Poll(r) \/ Summarize(r) \/ OptimizeFts(r)
  <2>1. /\ at[r] \in {"poll", "summarize", "optimize"} /\ UNCHANGED <<run, launch>>
        /\ at'[r] \in {"finalize", "repair", "close", "ended"}
    BY <1>2, <1>17 DEF Poll, Summarize, OptimizeFts
  <2> QED
    BY <1>6, <1>12, <2>1 DEF Stopped
<1> QED
  BY <1>3, <1>7, <1>8, <1>9, <1>10, <1>11, <1>13, <1>14, <1>15, <1>16, <1>17
     DEF LaunchStep, RunFault

(* A row of an expert whose queue has lost the run goes stale.             *)
LEMMA AgePlace ==
  ASSUME FanoutInv, Undisturbed, NEW r \in Runs, NEW d \in Dids, AgeItem(r, d)
  PROVE  RunPlace(r)' /\ \A s \in Runs : s # r => items'[s] = items[s]
<1>1. /\ RunTypeOK /\ WindowInv(r) /\ items \in [Runs -> [Dids -> Item]]
      /\ \A e \in Dids : RowPlace(r, e) /\ RowSettled(r, e)
  BY DEF FanoutInv, RunInv, RunPlace, RunTypeOK, TypeOK
<1>2. /\ ~Holds(store[d], r) /\ items[r][d].status \in {"dispatched", "running"}
      /\ ~items[r][d].stale /\ UNCHANGED <<store, pc, latest, outcome, run, launch, at, loc>>
  BY DEF FanoutInv, NoneWedged, AgeItem, Undisturbed, doVars, runVars
<1>3. /\ items'[r][d].status = items[r][d].status
      /\ \A e \in Dids : e # d => items'[r][e] = items[r][e]
      /\ \A s \in Runs : s # r => items'[s] = items[s]
  <2> DEFINE row == [items[r][d] EXCEPT !.stale = TRUE]
  <2>1. items' = [items EXCEPT ![r][d] = row]
    BY DEF AgeItem
  <2>2. items[r][d] \in Item
    BY <1>1
  <2>3. row.status = items[r][d].status
    BY <2>2 DEF Item
  <2> HIDE DEF row
  <2> QED
    BY <1>1, <2>1, <2>3
<1>4. Window(r)' = Window(r) /\ Active(r)' = Active(r)
  BY <1>2, <1>3 DEF Window, Active, Undispatched, WithStatus
<1>5. WindowInv(r)'
  BY <1>1, <1>2, <1>4 DEF WindowInv
<1>6. ASSUME NEW e \in Dids PROVE RowPlace(r, e)' /\ RowSettled(r, e)'
  <2>1. CASE e = d
    BY <1>1, <1>2, <1>3, <2>1 DEF RowPlace, RowSettled, Terminal
  <2>2. CASE e # d
    BY <1>1, <1>2, <1>3, <2>2 DEF RowPlace, RowSettled, Closing
  <2> QED
    BY <2>1, <2>2
<1> QED
  BY <1>3, <1>5, <1>6 DEF RunPlace

LEMMA InitFanout == RunInit => FanoutInv
<1> SUFFICES ASSUME RunInit PROVE FanoutInv
  OBVIOUS
<1>1. RunInv
  BY InitRun
<1>2. \A d \in Dids : OrderInv(d) /\ LoopInv(d)
  BY EmptyQueueOwned DEF RunInit, OrderInv, LoopInv, Settling, Executed
<1>3. \A r \in Runs, d \in Dids :
        items[r][d].status = "absent" /\ ~items[r][d].stale /\ ~Holds(store[d], r)
  <2>1. \A r : ~Holds(EmptyQueue, r)
    BY DEF Holds, EmptyQueue, NoTask, ToSet
  <2> QED
    BY <2>1 DEF RunInit
<1>4. \A r \in Runs : run[r].status = "none" /\ launch[r] = "none" /\ at[r] = "none"
  BY DEF RunInit
<1>5. ASSUME NEW r \in Runs PROVE RunPlace(r)
  <2>1. \A d \in Dids : RowPlace(r, d) /\ RowSettled(r, d)
    BY <1>3, <1>4 DEF RowPlace, RowSettled
  <2>2. Window(r) = {}
    BY <1>3, <1>4 DEF Window, Active, Undispatched, WithStatus
  <2>3. WindowInv(r)
    BY <1>4, <2>2, FS_EmptySet, RunConstants DEF WindowInv
  <2> QED
    BY <2>1, <2>3 DEF RunPlace
<1>6. hist.pc = "idle"
  BY DEF RunInit, NoHistory
<1>7. NoneWedged
  BY DEF RunInit, NoneWedged, Wedged, EmptyQueue
<1> QED
  BY <1>1, <1>2, <1>5, <1>6, <1>7 DEF FanoutInv, CoordInv, OrderedInv, RunInv

(* A step of a workflow is no step of another run.                         *)
LEMMA OtherRuns ==
  ASSUME RunTypeOK, Undisturbed, NEW r \in Runs,
         Launch(r) \/ LaunchStep(r) \/ WorkflowStep(r) \/ RunFault(r), ~DispatchNext(r)
  PROVE  /\ UNCHANGED <<doVars, hist>>
         /\ \A s \in Runs : s # r =>
              /\ items'[s] = items[s] /\ run'[s] = run[s] /\ launch'[s] = launch[s]
              /\ at'[s] = at[s] /\ loc'[s] = loc[s]
<1>1. /\ run \in [Runs -> RunRow] /\ launch \in [Runs -> {"none", "creating", "failing", "done"}]
      /\ at \in [Runs -> Steps \cup {"none", "ended", "dead"}] /\ loc \in [Runs -> Locals]
      /\ items \in [Runs -> [Dids -> Item]]
  BY DEF RunTypeOK, TypeOK
<1>2. ~DispatchCutShort(r)
  BY DEF Undisturbed, DispatchCutShort, Fault
<1> USE DEF Launch, LaunchStep, CreateInstance, ReportLaunchFailure, WorkflowStep, RunFault,
        CreateFails, LauncherDies, StepFails, StepExhausted, MarkPreparing, CreateItems,
        MarkDispatching, ListStale, RequeueStale, FailStale, CountActive, ListUndispatched,
        MarkDispatched, Poll, MarkFinalizing, Summarize, Finalize, OptimizeFts, Compensate, vars
<1>3. UNCHANGED <<doVars, hist>>
  BY <1>2
<1> SUFFICES ASSUME NEW s \in Runs, s # r
             PROVE  /\ items'[s] = items[s] /\ run'[s] = run[s] /\ launch'[s] = launch[s]
                    /\ at'[s] = at[s] /\ loc'[s] = loc[s]
  BY <1>3
<1>4. run'[s] = run[s]
  BY <1>1, <1>2 DEF SetRun, CloseRun
<1>5. launch'[s] = launch[s]
  BY <1>1, <1>2
<1>6. at'[s] = at[s]
  BY <1>1, <1>2 DEF Goto
<1>7. loc'[s] = loc[s]
  BY <1>1, <1>2
<1>8. items'[s] = items[s]
  BY <1>1, <1>2 DEF SetItem
<1> QED
  BY <1>4, <1>5, <1>6, <1>7, <1>8

(* Where nothing is evicted a handler takes its claim back at its end.     *)
LEMMA NextUnwedged ==
  ASSUME Undisturbed, CoordInv, NoneWedged, UNCHANGED doVars \/ Next
  PROVE  NoneWedged'
<1>1. IInv /\ TypeOK /\ \A k : Fault(k) => k # "eviction"
  BY DEF CoordInv, OrderedInv, IInv, Undisturbed, Fault
<1>2. SUFFICES ASSUME NEW d \in Dids PROVE ~Wedged(d)'
  BY DEF NoneWedged
<1>3. ~Wedged(d) /\ SoundQueue(store[d]) /\ SoundQueue(latest[d])
  BY CoordFacts DEF NoneWedged
<1>4. CASE UNCHANGED doVars
  BY <1>3, <1>4 DEF Wedged, doVars
<1>5. ASSUME NEW e \in Dids, \E r \in Runs : Request(e, r)
      PROVE  ~Wedged(d)'
  <2>1. PICK r \in Runs : Enqueue(e, r)
    BY <1>1, <1>5 DEF Request
  <2> DEFINE q == EnqueueTask(store[e], r)
  <2>2. store' = [store EXCEPT ![e] = q] /\ UNCHANGED pc
    BY <2>1 DEF Enqueue
  <2>3. SoundQueue(store[e]) /\ SoundQueue(q) /\ SameKey(q.current, store[e].current)
    BY CoordFacts, EnqueueQueue
  <2> HIDE DEF q
  <2>4. store[e].current = NoTask => q.current = NoTask
    BY <2>3, NoTaskKey DEF SoundQueue, QueueState
  <2>5. store'[e] = q /\ (d # e => store'[d] = store[d])
    BY <1>1, <2>2 DEF TypeOK
  <2> QED
    BY <1>3, <2>2, <2>4, <2>5 DEF Wedged
<1>6. ASSUME NEW e \in Dids, AlarmStep(e) \/ SettleWriteFails(e), d # e
      PROVE  ~Wedged(d)'
  <2>1. store'[d] = store[d] /\ pc'[d] = pc[d]
    BY <1>1, <1>6 DEF TypeOK, AlarmStep, AlarmIgnored, AlarmClaims, MarkRunning,
      ExecuteChunk, ExecuteFails, MarkProgress, MarkComplete, SaveSettled, MarkFailed,
      SaveFailed, WriteNextItem, SettleWriteFails, Catch, ForgetHandler
  <2> QED
    BY <1>3, <2>1 DEF Wedged
<1>7. ASSUME AlarmStep(d) \/ SettleWriteFails(d)
      PROVE  ~Wedged(d)'
  <2>1. CASE AlarmIgnored(d)
    BY <1>3, <2>1 DEF AlarmIgnored, Wedged
  <2>2. CASE AlarmClaims(d)
    BY <1>1, <2>2 DEF AlarmClaims, TypeOK, Wedged
  <2>3. CASE ExecuteChunk(d) \/ ExecuteFails(d) \/ SettleWriteFails(d)
    BY <1>1, <2>3 DEF ExecuteChunk, ExecuteFails, SettleWriteFails, Catch, TypeOK, Wedged
  <2>4. CASE MarkRunning(d) \/ MarkProgress(d) \/ MarkComplete(d) \/ MarkFailed(d)
    <3>1. pc'[d] # "idle"
      BY <1>1, <2>4 DEF MarkRunning, MarkProgress, MarkComplete, MarkFailed, WriteNextItem, TypeOK
    <3> QED
      BY <3>1 DEF Wedged
  <2>5. CASE SaveSettled(d) \/ SaveFailed(d)
    <3>1. ClearCurrentTask(latest[d]).current = NoTask
      BY <1>3, ClearQueue
    <3> DEFINE cleared == ClearCurrentTask(latest[d])
    <3> HIDE DEF cleared
    <3>2. \E q : store' = [store EXCEPT ![d] = q] /\ q.current = NoTask
      <4>1. CASE SaveFailed(d)
        BY <3>1, <4>1 DEF SaveFailed, cleared
      <4>2. CASE SaveSettled(d)
        <5> DEFINE t == Progressed(SettledTask(d), outcome[d])
        <5>1. /\ cleared = [current |-> NoTask, pending |-> latest[d].pending]
              /\ cleared.current = NoTask
          BY <1>3, ClearQueue DEF cleared
        <5> HIDE DEF t
        <5>2. InsertContinuationTask(cleared, t).current = NoTask
          BY <5>1 DEF InsertContinuationTask
        <5>3. store' = [store EXCEPT ![d] = IF outcome[d].completed THEN cleared
                                            ELSE InsertContinuationTask(cleared, t)]
          BY <4>2 DEF SaveSettled, cleared, t
        <5>4. CASE outcome[d].completed
          BY <5>1, <5>3, <5>4
        <5>5. CASE ~outcome[d].completed
          BY <5>2, <5>3, <5>5
        <5> QED
          BY <5>4, <5>5
      <4> QED
        BY <2>5, <4>1, <4>2
    <3>3. PICK q : store' = [store EXCEPT ![d] = q] /\ q.current = NoTask
      BY <3>2
    <3>4. store'[d] = q
      BY <1>1, <3>3 DEF TypeOK
    <3> QED
      BY <3>3, <3>4 DEF Wedged
  <2> QED
    BY <1>7, <2>1, <2>2, <2>3, <2>4, <2>5 DEF AlarmStep
<1>8. ASSUME NEW e \in Dids PROVE ~HandlerDies(e)
  BY <1>1 DEF HandlerDies
<1> QED
  BY <1>4, <1>5, <1>6, <1>7, <1>8 DEF Next, FaultStep

LEMMA NextFanout ==
  ASSUME Undisturbed, FanoutInv, [RunNext]_allVars
  PROVE  FanoutInv'
<1>1. RunInv /\ RunTypeOK /\ CoordInv /\ hist.pc = "idle" /\ \A s \in Runs : RunPlace(s)
  BY DEF FanoutInv, RunInv
<1>2. RunInv'
  BY <1>1, NextRun
<1>3. items' \in [Runs -> [Dids -> Item]] /\ faults' \in 0..MaxFaults
  BY <1>2 DEF RunInv, RunTypeOK, TypeOK
<1>4. ASSUME UNCHANGED doVars \/ Next, UNCHANGED hist, \A s \in Runs : RunPlace(s)'
      PROVE  FanoutInv'
  <2>1. CoordInv'
    BY <1>1, <1>3, <1>4, QuietCoord, NextCoord
  <2>2. NoneWedged'
    BY <1>1, <1>4, NextUnwedged DEF FanoutInv
  <2> QED
    BY <1>1, <1>2, <1>4, <2>1, <2>2 DEF FanoutInv
(* A run that a step does not touch.                                       *)
<1>5. ASSUME NEW s \in Runs, UNCHANGED doVars, items'[s] = items[s], run'[s] = run[s],
             launch'[s] = launch[s], at'[s] = at[s], loc'[s] = loc[s]
      PROVE  RunPlace(s)'
  <2>1. UNCHANGED <<store, pc, latest, outcome>>
    BY <1>5 DEF doVars
  <2>2. /\ launch[s] \in {"none", "creating"} => at[s] = "none"
        /\ run[s].status = "none" => launch[s] = "none"
    BY <1>1 DEF RunPlace, WindowInv
  <2> QED
    BY <1>1, <1>5, <2>1, <2>2, RunApart
<1>6. ASSUME NEW r \in Runs, Launch(r) \/ LaunchStep(r) \/ WorkflowStep(r) \/ RunFault(r),
             ~DispatchNext(r)
      PROVE  FanoutInv'
  <2>1. RunPlace(r)'
    BY <1>6, ControlPlace, RowsPlace, ReadPlace DEF WorkflowStep
  <2>2. UNCHANGED doVars /\ UNCHANGED hist
    BY <1>1, <1>6, OtherRuns
  <2>3. ASSUME NEW s \in Runs PROVE RunPlace(s)'
    <3>1. CASE s = r
      BY <2>1, <3>1
    <3>2. CASE s # r
      BY <1>1, <1>5, <1>6, <2>2, <3>2, OtherRuns
    <3> QED
      BY <3>1, <3>2
  <2> QED
    BY <1>4, <2>2, <2>3
<1>7. ASSUME NEW r \in Runs, DispatchNext(r) PROVE FanoutInv'
  <2> DEFINE d == Min(loc[r].batch)
  <2>1. d \in Dids
    BY <1>1, <1>7, FirstExpert DEF RunInv, Position, DispatchNext, RunTypeOK, Locals
  <2>2. Enqueue(d, r) /\ UNCHANGED faults /\ UNCHANGED hist
    BY <1>7 DEF DispatchNext
  <2> HIDE DEF d
  <2>3. Next
    BY <2>1, <2>2 DEF Next, Request
  <2> QED
    BY <1>4, <1>7, <2>2, <2>3, DispatchPlace
<1>8. ASSUME NEW d \in Dids, CoordinatorStep(d) \/ CoordinatorFault(d) PROVE FanoutInv'
  <2>1. Next /\ UNCHANGED runVars /\ UNCHANGED hist
    BY <1>8 DEF CoordinatorStep, CoordinatorFault, Next, runVars
  <2>2. (AlarmStep(d) /\ ~OutrunsDispatch(d)) \/ SettleWriteFails(d)
    BY <1>8 DEF CoordinatorStep, CoordinatorFault, FaultStep, HandlerDies, Fault, Undisturbed
  <2> QED
    BY <1>1, <1>4, <2>1, <2>2, CoordPlace
<1>9. ASSUME NEW r \in Runs, NEW d \in Dids, AgeItem(r, d) PROVE FanoutInv'
  <2>1. UNCHANGED doVars /\ UNCHANGED runVars /\ UNCHANGED hist
    BY <1>9 DEF AgeItem, runVars
  <2>2. ASSUME NEW s \in Runs PROVE RunPlace(s)'
    <3>1. CASE s = r
      BY <1>9, <3>1, AgePlace
    <3>2. CASE s # r
      BY <1>5, <1>9, <2>1, <3>2, AgePlace DEF runVars
    <3> QED
      BY <3>1, <3>2
  <2> QED
    BY <1>4, <2>1, <2>2
<1>10. ~RepairStep /\ ~RepairAborts
  BY <1>1 DEF Undisturbed, RepairStep, ListRunning, InspectRun, FailAbandoned,
              SummarizeRepaired, FinalizeRepaired, RepairEnds, RepairAborts
<1>11. CASE UNCHANGED allVars
  <2>1. UNCHANGED doVars /\ UNCHANGED hist /\ UNCHANGED <<items, run, launch, at, loc>>
    BY <1>11 DEF allVars, vars, runVars
  <2> QED
    BY <1>4, <1>5, <2>1
<1> QED
  BY <1>6, <1>7, <1>8, <1>9, <1>10, <1>11 DEF RunNext

(* A run never has more than Fanout experts dispatched or running, however *)
(* many experts and runs there are, although counting, listing, calling    *)
(* and marking are separate statements and coordinators write the rows in  *)
(* between: as long as no row goes stale while its expert's queue has the  *)
(* run, and neither a coordinator nor a dispatch step is cut short.        *)
THEOREM FanoutHolds ==
  ASSUME Undisturbed
  PROVE  RunSpec => []ActiveWithinFanout
<1>1. FanoutInv /\ [RunNext]_allVars => FanoutInv'
  BY NextFanout
<1>2. FanoutInv => ActiveWithinFanout
  <2> SUFFICES ASSUME FanoutInv, NEW r \in Runs PROVE Cardinality(Active(r)) <= Fanout
    BY DEF ActiveWithinFanout
  <2>1. RunTypeOK /\ Cardinality(Window(r)) <= Fanout /\ Fanout \in Int
    BY RunConstants DEF FanoutInv, RunInv, RunPlace, WindowInv
  <2> QED
    BY <2>1, WindowRows, Narrower
<1> QED
  BY <1>1, <1>2, InitFanout, PTL DEF RunSpec

-----------------------------------------------------------------------------
(***************************************************************************)
(* The tables are the ledger their readers rely on                         *)
(***************************************************************************)
(* What LedgerSpec supposes besides: nothing fails once the run is closed, *)
(* no reply of the workflow engine is lost, and alarm() can write its rows.*)
Undoubted == Undisturbed /\ FaultKinds \cap {"late", "reply", "write"} = {}

(* What the launcher and the workflow rely on when they close a run.       *)
(*  - A launch that goes on, or is about to be reported, is of a run that  *)
(*    is queued and has no workflow.                                       *)
(*  - A workflow that has not closed its run finds it open.                *)
(*  - Its rows exist once it has created them, and are final when it       *)
(*    closes the run, with the verdict it has read.                        *)
(*  - A complete run has only complete rows.                               *)
RunClosing(r) ==
  /\ launch[r] \in {"creating", "failing"} => at[r] = "none" /\ run[r].status = "queued"
  /\ at[r] \in Steps \ {"optimize"} => run[r].status \in {"queued", "running"}
  /\ at[r] \in Steps \ {"prepare", "createItems", "compensate"} =>
       \A d \in Dids : items[r][d].status # "absent"
  /\ at[r] \in {"finalize", "summarize", "close"} =>
       \A d \in Dids : items[r][d].status \in Terminal
  /\ at[r] = "close" => loc[r].failures = \E d \in Dids : items[r][d].status = "failed"
  /\ run[r].status = "complete" => \A d \in Dids : items[r][d].status = "complete"

LedgerInv ==
  /\ FanoutInv
  /\ \A r \in Runs : RunClosing(r) /\ \A d \in Dids : RowVerdict(r, d)

(* A step that is not the workflow's changes no final row, and creates or  *)
(* deletes none.                                                           *)
LEMMA ClosingKept ==
  ASSUME NEW r \in Runs, RunClosing(r),
         run'[r] = run[r], launch'[r] = launch[r], at'[r] = at[r], loc'[r] = loc[r],
         \A d \in Dids :
           /\ items[r][d].status \in Terminal => items'[r][d].status = items[r][d].status
           /\ items[r][d].status # "absent" => items'[r][d].status # "absent"
  PROVE  RunClosing(r)'
<1>1. at[r] = "close" => \A d \in Dids : items'[r][d].status = items[r][d].status
  BY DEF RunClosing
<1> QED
  BY <1>1 DEF RunClosing, Terminal

(* The rows of a run in a step of its workflow: those of items are created *)
(* or one of them, which is not final, is written.                         *)
LEMMA RowWriters ==
  ASSUME FanoutInv, NEW r \in Runs, RequeueStale(r) \/ FailStale(r) \/ MarkDispatched(r)
  PROVE  \E d \in Dids, status \in {"queued", "dispatched", "failed"} :
           /\ items[r][d].status \in {"queued", "dispatched", "running"}
           /\ items' = [items EXCEPT ![r][d] = [status |-> status, stale |-> FALSE]]
           /\ status = "failed" => ~Holds(store[d], r)
<1>1. /\ Position(r) /\ loc \in [Runs -> Locals] /\ \A d \in Dids : RowPlace(r, d)
  BY DEF FanoutInv, RunInv, RunTypeOK, RunPlace
<1>2. loc[r].requeue \subseteq Dids /\ loc[r].fail \subseteq Dids /\ loc[r].batch \subseteq Dids
  BY <1>1 DEF Locals
<1>3. ASSUME NEW d \in Dids, NEW status \in {"queued", "dispatched", "failed"},
             SetItem(r, d, status), items[r][d].status \in {"queued", "dispatched", "running"}
      PROVE  items' = [items EXCEPT ![r][d] = [status |-> status, stale |-> FALSE]]
  <2> DEFINE row == IF items[r][d].status = "absent" THEN items[r][d]
                    ELSE [status |-> status, stale |-> FALSE]
  <2>1. items' = [items EXCEPT ![r][d] = row] /\ row = [status |-> status, stale |-> FALSE]
    BY <1>3 DEF SetItem
  <2> HIDE DEF row
  <2> QED
    BY <2>1
<1>4. CASE RequeueStale(r)
  <2> DEFINE d == Min(loc[r].requeue)
  <2>1. d \in Dids /\ d \in loc[r].requeue /\ SetItem(r, d, "queued") /\ at[r] = "recover"
    BY <1>2, <1>4, FirstExpert DEF RequeueStale
  <2> HIDE DEF d
  <2>2. items[r][d].status = "dispatched"
    BY <1>1, <2>1 DEF RowPlace
  <2> QED
    BY <1>3, <2>1, <2>2
<1>5. CASE FailStale(r)
  <2> DEFINE d == Min(loc[r].fail)
  <2>1. d \in Dids /\ d \in loc[r].fail /\ SetItem(r, d, "failed") /\ at[r] = "recover"
    BY <1>2, <1>5, FirstExpert DEF FailStale
  <2> HIDE DEF d
  <2>2. items[r][d].status = "running" /\ ~Holds(store[d], r)
    BY <1>1, <2>1 DEF RowPlace
  <2> QED
    BY <1>3, <2>1, <2>2
<1>6. CASE MarkDispatched(r)
  <2> DEFINE d == Min(loc[r].batch)
  <2>1. d \in Dids /\ d \in loc[r].batch /\ SetItem(r, d, "dispatched") /\ at[r] = "mark"
    BY <1>1, <1>2, <1>6, FirstExpert DEF MarkDispatched, Position
  <2>2. items[r][d].status \in {"queued", "running"}
    BY <1>1, <2>1 DEF RowPlace
  <2> HIDE DEF d
  <2> QED
    BY <1>3, <2>1, <2>2
<1> QED
  BY <1>4, <1>5, <1>6

(* The rows of the run after a step of its workflow.                       *)
LEMMA WorkflowRows ==
  ASSUME LedgerInv, NEW r \in Runs, WorkflowStep(r)
  PROVE  \A d \in Dids :
           /\ items[r][d].status \in Terminal => items'[r][d].status = items[r][d].status
           /\ items[r][d].status # "absent" => items'[r][d].status # "absent"
           /\ RowVerdict(r, d)'
<1>1. /\ items \in [Runs -> [Dids -> Item]] /\ \A d \in Dids : RowVerdict(r, d) /\ RowPlace(r, d)
      /\ Position(r) /\ TypeOK /\ loc \in [Runs -> Locals]
  BY DEF LedgerInv, FanoutInv, RunInv, RunTypeOK, TypeOK, RunPlace
<1>2. pc' = pc /\ (DispatchNext(r) \/ store' = store)
  BY DEF WorkflowStep, MarkPreparing, CreateItems, MarkDispatching, ListStale, RequeueStale,
         FailStale, CountActive, ListUndispatched, DispatchNext, Enqueue, MarkDispatched, Poll,
         MarkFinalizing, Summarize, Finalize, OptimizeFts, Compensate, vars, doVars
<1>3. CASE CreateItems(r)
  <2>1. \A d \in Dids :
          items'[r][d] = IF items[r][d].status = "absent"
                           THEN [status |-> "queued", stale |-> FALSE] ELSE items[r][d]
    BY <1>1, <1>3 DEF CreateItems
  <2>2. store' = store
    BY <1>3 DEF CreateItems, doVars
  <2> QED
    BY <1>1, <1>2, <2>1, <2>2 DEF RowVerdict, Terminal
<1>4. CASE RequeueStale(r) \/ FailStale(r) \/ MarkDispatched(r)
  <2>1. PICK d \in Dids, status \in {"queued", "dispatched", "failed"} :
           /\ items[r][d].status \in {"queued", "dispatched", "running"}
           /\ items' = [items EXCEPT ![r][d] = [status |-> status, stale |-> FALSE]]
           /\ status = "failed" => ~Holds(store[d], r)
    BY <1>4, RowWriters DEF LedgerInv
  <2>2. /\ items'[r][d].status = status
        /\ \A e \in Dids : e # d => items'[r][e] = items[r][e]
    BY <1>1, <2>1
  <2>3. store' = store
    BY <1>4 DEF RequeueStale, FailStale, MarkDispatched, doVars
  <2> QED
    BY <1>1, <1>2, <2>1, <2>2, <2>3 DEF RowVerdict, Terminal
<1>5. CASE DispatchNext(r)
  <2> DEFINE d == Min(loc[r].batch)
  <2>1. loc[r].batch \subseteq Dids /\ loc[r].batch # {} /\ at[r] = "enqueue"
    BY <1>1, <1>5 DEF DispatchNext, Position, Locals
  <2>2. d \in Dids /\ d \in loc[r].batch
    BY <2>1, FirstExpert
  <2>3. store' = [store EXCEPT ![d] = EnqueueTask(store[d], r)] /\ items' = items
    BY <1>5 DEF DispatchNext, Enqueue
  <2>4. items[r][d].status = "queued"
    BY <1>1, <2>1, <2>2 DEF RowPlace
  <2> HIDE DEF d
  <2>5. \A e \in Dids : e # d => store'[e] = store[e]
    BY <1>1, <2>3 DEF TypeOK
  <2> QED
    BY <1>1, <1>2, <2>3, <2>4, <2>5 DEF RowVerdict, Terminal
<1>6. CASE items' = items /\ store' = store
  BY <1>1, <1>2, <1>6 DEF RowVerdict
<1> QED
  BY <1>2, <1>3, <1>4, <1>5, <1>6
     DEF WorkflowStep, MarkPreparing, MarkDispatching, ListStale, CountActive, ListUndispatched,
         Poll, MarkFinalizing, Summarize, Finalize, OptimizeFts, Compensate, vars

(* The run after a step of its workflow.                                   *)
LEMMA WorkflowClosing ==
  ASSUME LedgerInv, NEW r \in Runs, WorkflowStep(r)
  PROVE  RunClosing(r)'
<1> USE DEF Goto
<1>1. /\ RunTypeOK /\ RunClosing(r) /\ items \in [Runs -> [Dids -> Item]]
      /\ launch[r] \in {"none", "creating"} => at[r] = "none"
  BY DEF LedgerInv, FanoutInv, RunInv, RunTypeOK, TypeOK, RunPlace, WindowInv
<1>2. /\ run \in [Runs -> RunRow] /\ launch \in [Runs -> {"none", "creating", "failing", "done"}]
      /\ at \in [Runs -> Steps \cup {"none", "ended", "dead"}] /\ loc \in [Runs -> Locals]
  BY <1>1 DEF RunTypeOK
<1>3. /\ at[r] \in Steps /\ launch' = launch
      /\ launch'[r] \notin {"creating", "failing"}
  <2>1. at[r] \in Steps /\ launch' = launch
    BY DEF WorkflowStep, MarkPreparing, CreateItems, MarkDispatching, ListStale, RequeueStale,
         FailStale, CountActive, ListUndispatched, DispatchNext, MarkDispatched, Poll,
         MarkFinalizing, Summarize, Finalize, OptimizeFts, Compensate, Steps
  <2> QED
    BY <1>1, <2>1 DEF RunClosing, Steps
<1>4. \A d \in Dids :
        /\ items[r][d].status \in Terminal => items'[r][d].status = items[r][d].status
        /\ items[r][d].status # "absent" => items'[r][d].status # "absent"
  BY WorkflowRows
(* A step on the way to the end of the run.                                *)
<1>5. ASSUME at[r] \in Steps \ {"finalize", "summarize", "close", "optimize", "prepare", "createItems", "compensate"},
             at'[r] \in Steps \ {"finalize", "summarize", "close", "optimize"},
             run'[r].status \in {"queued", "running"}
      PROVE  RunClosing(r)'
  BY <1>1, <1>3, <1>4, <1>5 DEF RunClosing
<1>6. CASE MarkPreparing(r)
  <2>1. run[r].status \in {"queued", "running"}
    BY <1>1, <1>6 DEF MarkPreparing, RunClosing, Steps
  <2>2. run'[r].status = "running" /\ at'[r] = "createItems"
    BY <1>1, <1>2, <1>6, <2>1, SetRunRow DEF MarkPreparing
  <2> QED
    BY <1>3, <2>2 DEF RunClosing
<1>7. CASE CreateItems(r)
  <2>1. /\ at[r] = "createItems" /\ at'[r] = "markDispatching" /\ run' = run
        /\ \A d \in Dids : items'[r][d].status # "absent"
    BY <1>1, <1>2, <1>7 DEF CreateItems
  <2>2. run[r].status \in {"queued", "running"}
    BY <1>1, <2>1 DEF RunClosing, Steps
  <2> QED
    BY <1>3, <2>1, <2>2 DEF RunClosing
<1>8. CASE MarkDispatching(r)
  <2>1. run'[r].status = "running" /\ at[r] = "markDispatching" /\ at'[r] = "repair"
    BY <1>1, <1>2, <1>8, SetRunRow DEF MarkDispatching
  <2> QED
    BY <1>5, <2>1 DEF Steps
<1>9. CASE \/ ListStale(r) \/ RequeueStale(r) \/ FailStale(r) \/ CountActive(r)
           \/ ListUndispatched(r) \/ DispatchNext(r) \/ MarkDispatched(r)
  <2>1. at[r] \in {"repair", "recover", "list", "enqueue", "mark"} /\ run' = run
    BY <1>9 DEF ListStale, RequeueStale, FailStale, CountActive, ListUndispatched, DispatchNext,
                MarkDispatched
  <2>2. at'[r] \in {"recover", "list", "enqueue", "mark", "poll"}
    BY <1>2, <1>9 DEF ListStale, RequeueStale, FailStale, CountActive, ListUndispatched,
                      DispatchNext, MarkDispatched
  <2>3. run[r].status \in {"queued", "running"}
    BY <1>1, <2>1 DEF RunClosing, Steps
  <2> QED
    BY <1>5, <2>1, <2>2, <2>3 DEF Steps
<1>10. CASE Poll(r)
  <2>1. /\ at[r] = "poll" /\ UNCHANGED <<items, run>>
        /\ at'[r] = "repair" \/ (at'[r] = "finalize" /\ Incomplete(r) = {})
    BY <1>2, <1>10 DEF Poll, vars
  <2>2. run[r].status \in {"queued", "running"} /\ \A d \in Dids : items[r][d].status # "absent"
    BY <1>1, <2>1 DEF RunClosing, Steps
  <2>3. CASE at'[r] = "repair"
    BY <1>5, <2>1, <2>2, <2>3 DEF Steps
  <2>4. CASE at'[r] = "finalize" /\ Incomplete(r) = {}
    <3>1. \A d \in Dids : items[r][d].status \in Terminal
      BY <1>1, <2>2, <2>4 DEF Incomplete, WithStatus, Item, Statuses, Terminal
    <3> QED
      BY <1>3, <2>1, <2>2, <2>4, <3>1 DEF RunClosing
  <2> QED
    BY <2>1, <2>3, <2>4
<1>11. CASE MarkFinalizing(r) \/ Summarize(r)
  <2>1. /\ items' = items /\ run'[r].status \in {"queued", "running"}
        /\ at[r] \in {"finalize", "summarize"}
    <3>1. CASE MarkFinalizing(r)
      BY <1>1, <3>1, SetRunRow DEF MarkFinalizing, vars
    <3>2. CASE Summarize(r)
      BY <1>1, <3>2 DEF Summarize, vars, RunClosing, Steps
    <3> QED
      BY <1>11, <3>1, <3>2
  <2>2. \/ at'[r] = "summarize"
        \/ at'[r] = "close" /\ loc'[r].failures = \E d \in Dids : items[r][d].status = "failed"
    <3>1. CASE MarkFinalizing(r)
      BY <1>2, <3>1 DEF MarkFinalizing
    <3>2. CASE Summarize(r)
      <4>1. at' = [at EXCEPT ![r] = "close"] /\ loc' = [loc EXCEPT ![r].failures = HasFailures(r)]
        BY <3>2 DEF Summarize
      <4>2. HasFailures(r) = \E d \in Dids : items[r][d].status = "failed"
        BY DEF HasFailures, WithStatus
      <4> QED
        BY <1>2, <4>1, <4>2 DEF Locals
    <3> QED
      BY <1>11, <3>1, <3>2
  <2>3. \A d \in Dids : items[r][d].status \in Terminal
    BY <1>1, <2>1 DEF RunClosing
  <2> QED
    BY <1>3, <2>1, <2>2, <2>3 DEF RunClosing, Terminal
<1>12. CASE Finalize(r)
  <2>1. /\ at[r] = "close" /\ at'[r] = "optimize" /\ items' = items
        /\ run'[r].status = IF loc[r].failures THEN "failed" ELSE "complete"
    BY <1>1, <1>2, <1>12, CloseRunRow DEF Finalize, vars
  <2>2. /\ \A d \in Dids : items[r][d].status \in Terminal
        /\ loc[r].failures = \E d \in Dids : items[r][d].status = "failed"
    BY <1>1, <2>1 DEF RunClosing
  <2> QED
    BY <1>3, <2>1, <2>2 DEF RunClosing, Terminal
<1>13. CASE OptimizeFts(r)
  <2>1. at'[r] = "ended" /\ UNCHANGED <<items, run>>
    BY <1>2, <1>13 DEF OptimizeFts, vars
  <2> QED
    BY <1>1, <1>3, <2>1 DEF RunClosing, Steps
<1>14. CASE Compensate(r)
  <2>1. at'[r] = "ended" /\ run'[r].status = "failed"
    BY <1>1, <1>2, <1>14, SetRunRow DEF Compensate
  <2> QED
    BY <1>3, <2>1 DEF RunClosing, Steps
<1> QED
  BY <1>6, <1>7, <1>8, <1>9, <1>10, <1>11, <1>12, <1>13, <1>14 DEF WorkflowStep

(* The run after a step of its launcher, or a failure.                     *)
LEMMA LauncherClosing ==
  ASSUME LedgerInv, Undoubted, NEW r \in Runs, Launch(r) \/ LaunchStep(r) \/ RunFault(r)
  PROVE  /\ RunClosing(r)' /\ UNCHANGED <<doVars, items>>
         /\ run' = run \/ Launch(r) \/ ReportLaunchFailure(r)
<1> USE DEF Goto
<1>1. /\ RunTypeOK /\ RunClosing(r)
      /\ launch[r] \in {"none", "creating"} => at[r] = "none"
      /\ run[r].status = "none" => launch[r] = "none"
  BY DEF LedgerInv, FanoutInv, RunInv, RunPlace, WindowInv
<1>2. /\ run \in [Runs -> RunRow] /\ launch \in [Runs -> {"none", "creating", "failing", "done"}]
      /\ at \in [Runs -> Steps \cup {"none", "ended", "dead"}]
  BY <1>1 DEF RunTypeOK
<1>3. ~DispatchCutShort(r) /\ ~StepFails(r)
  BY DEF Undoubted, Undisturbed, DispatchCutShort, StepFails, Fault
<1>4. UNCHANGED <<doVars, items>>
  BY <1>3 DEF Launch, LaunchStep, CreateInstance, ReportLaunchFailure, RunFault, CreateFails,
         LauncherDies, StepExhausted, vars
<1>5. CASE Launch(r)
  <2>1. launch'[r] = "creating" /\ run'[r].status = "queued" /\ at' = at /\ at[r] = "none"
    BY <1>1, <1>2, <1>5, SetRunRow DEF Launch
  <2> QED
    BY <1>4, <1>5, <2>1 DEF RunClosing, Steps
<1>6. CASE CreateInstance(r)
  <2>1. /\ launch[r] = "creating" /\ launch'[r] = "done" /\ at'[r] = "prepare" /\ run' = run
    BY <1>2, <1>6 DEF CreateInstance
  <2> QED
    BY <1>1, <1>4, <2>1 DEF RunClosing
<1>7. CASE ReportLaunchFailure(r)
  <2>1. /\ launch[r] = "failing" /\ launch'[r] = "done" /\ at' = at /\ run'[r].status = "failed"
    BY <1>1, <1>2, <1>7, SetRunRow DEF ReportLaunchFailure
  <2>2. at[r] = "none"
    BY <1>1, <2>1 DEF RunClosing
  <2> QED
    BY <1>4, <1>7, <2>1, <2>2 DEF RunClosing, Steps
<1>8. CASE CreateFails(r)
  <2>1. launch[r] = "creating" /\ run' = run /\ at' = at
    BY <1>8 DEF CreateFails, Undoubted, Fault
  <2> QED
    BY <1>1, <1>4, <2>1 DEF RunClosing, Steps
<1>9. CASE LauncherDies(r)
  <2>1. launch[r] \in {"creating", "failing"} /\ launch'[r] = "done" /\ run' = run /\ at' = at
    BY <1>2, <1>9 DEF LauncherDies
  <2> QED
    BY <1>1, <1>4, <2>1 DEF RunClosing, Steps
<1>10. CASE StepExhausted(r)
  <2>1. /\ at[r] \in Steps \ {"optimize"} /\ UNCHANGED <<run, launch>>
        /\ at'[r] \in {"dead", "compensate"}
    BY <1>2, <1>10 DEF StepExhausted, Undoubted, Fault
  <2> QED
    BY <1>1, <1>4, <2>1 DEF RunClosing, Steps
<1> QED
  BY <1>3, <1>5, <1>6, <1>7, <1>8, <1>9, <1>10 DEF LaunchStep, RunFault

(* A coordinator's step writes one row at most.                            *)
LEMMA OneRow ==
  ASSUME IInv, NEW d \in Dids, AlarmStep(d)
  PROVE  \/ items' = items
         \/ \E h \in Runs, row \in Item : items' = [items EXCEPT ![h][d] = row]
<1>1. ASSUME NEW status \in Statuses, NEW next, NEW rest, pc[d] \in Writing,
             WriteNextItem(d, status, next, rest)
      PROVE  \E h \in Runs, row \in Item : items' = [items EXCEPT ![h][d] = row]
  <2> DEFINE h == Head(todo[d])
             row == IF items[h][d].status = "absent" THEN items[h][d]
                    ELSE [status |-> status, stale |-> FALSE]
  <2>1. items' = [items EXCEPT ![h][d] = row]
    BY <1>1 DEF WriteNextItem, SetItem
  <2>2. todo[d] \in Seq(Runs) /\ todo[d] # <<>> /\ items \in [Runs -> [Dids -> Item]]
    BY <1>1 DEF IInv, ObjectInv, TypeOK
  <2>3. h \in Runs
    BY <2>2, HeadAndTail
  <2>4. row \in Item
    BY <2>2, <2>3 DEF Item
  <2> HIDE DEF h, row
  <2> QED
    BY <2>1, <2>3, <2>4
<1>2. CASE MarkRunning(d) \/ MarkProgress(d) \/ MarkComplete(d) \/ MarkFailed(d)
  BY <1>1, <1>2 DEF MarkRunning, MarkProgress, MarkComplete, MarkFailed, Writing, Statuses
<1> QED
  BY <1>2 DEF AlarmStep, AlarmIgnored, AlarmClaims, ExecuteChunk, ExecuteFails, Catch,
              SaveSettled, SaveFailed

(* What a coordinator's step may do to the rows of a run.                  *)
LEMMA CoordClosing ==
  ASSUME LedgerInv, NEW d \in Dids, AlarmStep(d), UNCHANGED runVars, NEW r \in Runs
  PROVE  /\ RunClosing(r)' /\ \A e \in Dids : RowVerdict(r, e)'
         /\ items'[r][d].status # items[r][d].status =>
              Holds(store[d], r) /\ items[r][d].status \notin Terminal
<1>1. /\ CoordInv /\ IInv /\ RunClosing(r)
      /\ \A e \in Dids : RowVerdict(r, e) /\ RowSettled(r, e)
  BY DEF LedgerInv, FanoutInv, RunPlace, CoordInv, OrderedInv
<1>2. Moved(r, d) /\ RowVerdict(r, d)'
  BY <1>1, AlarmMoves
<1>3. \A e \in Dids : e # d =>
        store'[e] = store[e] /\ pc'[e] = pc[e] /\ items'[r][e] = items[r][e]
  BY <1>1, OnlyOne
<1>4. \A e \in Dids : RowVerdict(r, e)'
  <2> SUFFICES ASSUME NEW e \in Dids PROVE RowVerdict(r, e)'
    OBVIOUS
  <2>1. CASE e = d
    BY <1>2, <2>1
  <2>2. CASE e # d
    BY <1>1, <1>3, <2>2 DEF RowVerdict
  <2> QED
    BY <2>1, <2>2
<1>5. /\ items[r][d].status \in Terminal => items'[r][d].status = items[r][d].status
      /\ items[r][d].status # "absent" => items'[r][d].status # "absent"
      /\ items'[r][d].status # items[r][d].status => Holds(store[d], r)
  BY <1>1, <1>2 DEF Moved, RowVerdict, Terminal
<1>6. RunClosing(r)'
  <2>1. run'[r] = run[r] /\ launch'[r] = launch[r] /\ at'[r] = at[r] /\ loc'[r] = loc[r]
    BY DEF runVars
  <2>2. \A e \in Dids :
           /\ items[r][e].status \in Terminal => items'[r][e].status = items[r][e].status
           /\ items[r][e].status # "absent" => items'[r][e].status # "absent"
    BY <1>3, <1>5
  <2> QED
    BY <1>1, <2>1, <2>2, ClosingKept
<1> QED
  BY <1>4, <1>5, <1>6

LEMMA InitLedger == RunInit => LedgerInv
<1> SUFFICES ASSUME RunInit PROVE LedgerInv
  OBVIOUS
<1>1. FanoutInv
  BY InitFanout
<1>2. \A r \in Runs :
        /\ run[r].status = "none" /\ launch[r] = "none" /\ at[r] = "none"
        /\ \A d \in Dids : items[r][d].status = "absent"
  BY DEF RunInit
<1>3. \A r \in Runs : RunClosing(r) /\ \A d \in Dids : RowVerdict(r, d)
  BY <1>2 DEF RunClosing, RowVerdict, Steps, Terminal
<1> QED
  BY <1>1, <1>3 DEF LedgerInv

LEMMA NextLedger ==
  ASSUME Undoubted, LedgerInv, [RunNext]_allVars
  PROVE  LedgerInv'
<1>1. Undisturbed /\ FanoutInv /\ RunTypeOK /\ IInv /\ hist.pc = "idle"
  BY DEF Undoubted, LedgerInv, FanoutInv, RunInv
<1>2. FanoutInv'
  BY <1>1, NextFanout
<1>3. \A s \in Runs : RunClosing(s) /\ \A d \in Dids : RowVerdict(s, d)
  BY DEF LedgerInv
<1> SUFFICES \A s \in Runs : RunClosing(s)' /\ \A d \in Dids : RowVerdict(s, d)'
  BY <1>2 DEF LedgerInv
(* A run that a step does not touch.                                       *)
<1>4. ASSUME NEW s \in Runs, pc' = pc, items'[s] = items[s], run'[s] = run[s],
             launch'[s] = launch[s], at'[s] = at[s], loc'[s] = loc[s],
             \A d \in Dids : Holds(store'[d], s) => Holds(store[d], s)
      PROVE  RunClosing(s)' /\ \A d \in Dids : RowVerdict(s, d)'
  <2>1. RunClosing(s)'
    BY <1>3, <1>4, ClosingKept
  <2>2. \A d \in Dids : RowVerdict(s, d)'
    BY <1>3, <1>4 DEF RowVerdict
  <2> QED
    BY <2>1, <2>2
<1>5. ASSUME NEW r \in Runs, Launch(r) \/ LaunchStep(r) \/ WorkflowStep(r) \/ RunFault(r),
             ~DispatchNext(r), NEW s \in Runs
      PROVE  RunClosing(s)' /\ \A d \in Dids : RowVerdict(s, d)'
  <2>1. UNCHANGED <<store, pc>>
    BY <1>1, <1>5, OtherRuns DEF doVars
  <2>2. CASE s # r
    BY <1>1, <1>4, <1>5, <2>1, <2>2, OtherRuns
  <2>3. RunClosing(r)' /\ \A d \in Dids : RowVerdict(r, d)'
    <3>1. CASE WorkflowStep(r)
      BY <3>1, WorkflowClosing, WorkflowRows
    <3>2. CASE Launch(r) \/ LaunchStep(r) \/ RunFault(r)
      BY <1>3, <2>1, <3>2, LauncherClosing DEF RowVerdict
    <3> QED
      BY <1>5, <3>1, <3>2
  <2>4. CASE s = r
    BY <2>3, <2>4
  <2> QED
    BY <2>2, <2>4
<1>6. ASSUME NEW r \in Runs, DispatchNext(r), NEW s \in Runs
      PROVE  RunClosing(s)' /\ \A d \in Dids : RowVerdict(s, d)'
  <2>1. WorkflowStep(r)
    BY <1>6 DEF WorkflowStep
  <2>2. RunClosing(r)' /\ \A d \in Dids : RowVerdict(r, d)'
    BY <2>1, WorkflowClosing, WorkflowRows
  <2>3. CASE s # r
    <3> DEFINE d == Min(loc[r].batch)
    <3>1. d \in Dids
      BY <1>1, <1>6, FirstExpert DEF FanoutInv, RunInv, Position, DispatchNext, RunTypeOK, Locals
    <3>2. /\ store' = [store EXCEPT ![d] = EnqueueTask(store[d], r)]
          /\ at' = [at EXCEPT ![r] = "mark"] /\ UNCHANGED <<pc, items, run, launch, loc>>
      BY <1>6 DEF DispatchNext, Enqueue, Goto
    <3> HIDE DEF d
    <3>3. /\ store'[d] = EnqueueTask(store[d], r) /\ SoundQueue(store[d])
          /\ \A e \in Dids : e # d => store'[e] = store[e]
      BY <1>1, <3>1, <3>2 DEF IInv, TypeOK, ObjectInv
    <3>4. \A e \in Dids : Holds(store'[e], s) => Holds(store[e], s)
      <4>1. Holds(store'[d], s) => Holds(store[d], s)
        BY <2>3, <3>3, EnqueueHoldsOnly
      <4> QED
        BY <3>3, <4>1
    <3>5. at'[s] = at[s]
      BY <1>1, <2>3, <3>2 DEF RunTypeOK
    <3> QED
      BY <1>4, <3>2, <3>4, <3>5
  <2>4. CASE s = r
    BY <2>2, <2>4
  <2> QED
    BY <2>3, <2>4
<1>7. ASSUME NEW d \in Dids, CoordinatorStep(d) \/ CoordinatorFault(d), NEW s \in Runs
      PROVE  RunClosing(s)' /\ \A e \in Dids : RowVerdict(s, e)'
  <2>1. ~FaultStep(d)
    BY DEF Undoubted, Undisturbed, FaultStep, SettleWriteFails, HandlerDies, Fault
  <2>2. AlarmStep(d) /\ UNCHANGED runVars
    BY <1>7, <2>1 DEF CoordinatorStep, CoordinatorFault
  <2> QED
    BY <2>2, CoordClosing
<1>8. ASSUME NEW r \in Runs, NEW d \in Dids, AgeItem(r, d), NEW s \in Runs
      PROVE  RunClosing(s)' /\ \A e \in Dids : RowVerdict(s, e)'
  <2>1. UNCHANGED <<store, pc, run, launch, at, loc>>
    BY <1>8 DEF AgeItem, doVars, runVars
  <2>2. \A e \in Dids : items'[s][e].status = items[s][e].status
    <3> DEFINE row == [items[r][d] EXCEPT !.stale = TRUE]
    <3>1. items' = [items EXCEPT ![r][d] = row]
      BY <1>8 DEF AgeItem
    <3>2. items \in [Runs -> [Dids -> Item]]
      BY <1>1 DEF RunTypeOK, TypeOK
    <3>3. items[r][d] \in Item
      BY <3>2
    <3>4. row.status = items[r][d].status
      BY <3>3 DEF Item
    <3> HIDE DEF row
    <3> QED
      BY <3>1, <3>2, <3>4
  <2>3. RunClosing(s)'
    BY <1>3, <2>1, <2>2, ClosingKept
  <2>4. \A e \in Dids : RowVerdict(s, e)'
    BY <1>3, <2>1, <2>2 DEF RowVerdict
  <2> QED
    BY <2>3, <2>4
<1>9. ~RepairStep /\ ~RepairAborts
  BY <1>1 DEF Undisturbed, RepairStep, ListRunning, InspectRun, FailAbandoned,
              SummarizeRepaired, FinalizeRepaired, RepairEnds, RepairAborts
<1>10. CASE UNCHANGED allVars
  BY <1>4, <1>10 DEF allVars, vars, doVars, runVars
<1> QED
  BY <1>5, <1>6, <1>7, <1>8, <1>9, <1>10 DEF RunNext

(* The two variables of the ledger.                                        *)
Shown(status) == IF status \in Terminal THEN status ELSE "open"
Results == [r \in Runs |-> [d \in Dids |-> Shown(items[r][d].status)]]
Verdicts == [r \in Runs |-> IF run[r].status \in {"queued", "running"} THEN "open"
                            ELSE run[r].status]

(* A row is written: a result comes in, or nothing changes for readers.    *)
LEMMA SettleMove ==
  ASSUME RunTypeOK, NEW r \in Runs, NEW d \in Dids, NEW row \in Item,
         items' = [items EXCEPT ![r][d] = row], run' = run,
         Shown(row.status) = Shown(items[r][d].status)
           \/ run[r].status \in {"queued", "running", "failed"}
  PROVE  Ledger!Settle(r, d) \/ UNCHANGED <<Results, Verdicts>>
<1> DEFINE s == Shown(row.status)
<1>1. items \in [Runs -> [Dids -> Item]]
  BY DEF RunTypeOK, TypeOK
<1>2. s \in {"open", "complete", "failed"}
  BY DEF Shown, Terminal
<1>3. /\ items'[r][d] = row
      /\ \A x \in Runs, e \in Dids : (x # r \/ e # d) => items'[x][e] = items[x][e]
  BY <1>1
<1> HIDE DEF s
<1>4. Verdicts' = Verdicts
  BY DEF Verdicts
<1>5. Results' = [Results EXCEPT ![r][d] = s]
  <2> DEFINE new == [Results EXCEPT ![r][d] = s]
  <2>1. \A x \in Runs, e \in Dids : Results'[x][e] = new[x][e]
    BY <1>3 DEF Results, s
  <2> DEFINE V == {"open", "complete", "failed"}
  <2>2. Results \in [Runs -> [Dids -> V]] /\ Results' \in [Runs -> [Dids -> V]]
    BY DEF Results, Shown, Terminal
  <2>3. new \in [Runs -> [Dids -> V]]
    BY <1>2, <2>2
  <2> HIDE DEF new, V
  <2>4. ASSUME NEW x \in Runs PROVE Results'[x] = new[x]
    BY <2>1, <2>2, <2>3
  <2>5. Results' = new
    BY <2>2, <2>3, <2>4
  <2> QED
    BY <2>5 DEF new
<1>6. CASE Shown(row.status) = Shown(items[r][d].status)
  <2>1. s = Results[r][d]
    BY <1>6 DEF Results, s
  <2>2. [Results EXCEPT ![r][d] = s] = Results
    BY <2>1 DEF Results
  <2> QED
    BY <1>4, <1>5, <2>2
<1>7. CASE run[r].status \in {"queued", "running", "failed"}
  <2>1. Verdicts[r] \in {"open", "failed"}
    BY <1>7 DEF Verdicts
  <2> QED
    BY <1>2, <1>4, <1>5, <2>1 DEF Ledger!Settle, Results, Verdicts, Shown
<1> QED
  BY <1>6, <1>7

(* A row of ingest_runs is written.                                        *)
LEMMA VerdictMove ==
  ASSUME RunTypeOK, NEW r \in Runs, items' = items, NEW status, NEW phase,
         SetRun(r, status, phase)
  PROVE  /\ Verdicts' = [Verdicts EXCEPT ![r] =
                           IF status \in {"queued", "running"} THEN "open" ELSE status]
         /\ Results' = Results
<1>1. /\ run'[r].status = status
      /\ \A x \in Runs : x # r => run'[x] = run[x]
  BY DEF RunTypeOK, SetRun
<1> QED
  BY <1>1 DEF Verdicts, Results

(* A step that changes the status of no row, or of rows that are not final,*)
(* is none of the readers' business.                                       *)
LEMMA NothingShown ==
  ASSUME run' = run,
         \A r \in Runs, d \in Dids : Shown(items'[r][d].status) = Shown(items[r][d].status)
  PROVE  UNCHANGED <<Results, Verdicts>>
  BY DEF Results, Verdicts

(* A workflow's step.                                                      *)
LEMMA WorkflowMove ==
  ASSUME LedgerInv, NEW r \in Runs, WorkflowStep(r)
  PROVE  Ledger!Next \/ UNCHANGED <<Results, Verdicts>>
<1>1. /\ RunTypeOK /\ RunClosing(r) /\ items \in [Runs -> [Dids -> Item]]
      /\ run \in [Runs -> RunRow]
  BY DEF LedgerInv, FanoutInv, RunInv, RunTypeOK, TypeOK
<1>2. CASE CreateItems(r)
  <2> DEFINE rows == [d \in Dids |-> IF items[r][d].status = "absent"
                        THEN [status |-> "queued", stale |-> FALSE] ELSE items[r][d]]
  <2>1. items' = [items EXCEPT ![r] = rows] /\ run' = run
    BY <1>2 DEF CreateItems
  <2>2. \A d \in Dids : Shown(rows[d].status) = Shown(items[r][d].status)
    BY DEF Shown, Terminal
  <2> HIDE DEF rows
  <2>3. \A s \in Runs, d \in Dids : Shown(items'[s][d].status) = Shown(items[s][d].status)
    BY <1>1, <2>1, <2>2
  <2> QED
    BY <2>1, <2>3, NothingShown
<1>3. CASE RequeueStale(r) \/ FailStale(r) \/ MarkDispatched(r)
  <2>1. PICK d \in Dids, status \in {"queued", "dispatched", "failed"} :
           items' = [items EXCEPT ![r][d] = [status |-> status, stale |-> FALSE]]
    BY <1>3, RowWriters DEF LedgerInv
  <2>2. [status |-> status, stale |-> FALSE] \in Item
    BY DEF Item, Statuses
  <2>3. run' = run /\ run[r].status \in {"queued", "running"}
    BY <1>1, <1>3 DEF RequeueStale, FailStale, MarkDispatched, RunClosing, Steps
  <2>4. Ledger!Settle(r, d) \/ UNCHANGED <<Results, Verdicts>>
    BY <1>1, <2>1, <2>2, <2>3, SettleMove
  <2> QED
    BY <2>4 DEF Ledger!Next
<1>4. CASE MarkPreparing(r) \/ MarkDispatching(r) \/ MarkFinalizing(r)
  <2>1. run[r].status \in {"queued", "running"} /\ items' = items
    BY <1>1, <1>4 DEF MarkPreparing, MarkDispatching, MarkFinalizing, RunClosing, Steps, vars
  <2>2. PICK phase : SetRun(r, "running", phase)
    BY <1>4, <2>1 DEF MarkPreparing, MarkDispatching, MarkFinalizing
  <2>3. Verdicts' = [Verdicts EXCEPT ![r] = "open"] /\ Results' = Results
    BY <1>1, <2>1, <2>2, VerdictMove
  <2>4. Verdicts[r] = "open"
    BY <2>1 DEF Verdicts
  <2>5. Verdicts' = Verdicts
    BY <2>3, <2>4 DEF Verdicts
  <2> QED
    BY <2>3, <2>5
<1>5. CASE Compensate(r)
  <2>1. run[r].status \in {"queued", "running"} /\ items' = items /\ SetRun(r, "failed", "failed")
    BY <1>1, <1>5 DEF Compensate, RunClosing, Steps, vars
  <2>2. Verdicts' = [Verdicts EXCEPT ![r] = "failed"] /\ Results' = Results
    BY <1>1, <2>1, VerdictMove
  <2>3. Verdicts[r] = "open"
    BY <2>1 DEF Verdicts
  <2>4. Ledger!GiveUp(r)
    BY <2>2, <2>3 DEF Ledger!GiveUp, Results, Verdicts, Shown
  <2> QED
    BY <2>4 DEF Ledger!Next
<1>6. CASE Finalize(r)
  <2>1. /\ items' = items /\ run[r].status \in {"queued", "running"}
        /\ \A d \in Dids : items[r][d].status \in Terminal
        /\ loc[r].failures = \E d \in Dids : items[r][d].status = "failed"
    BY <1>1, <1>6 DEF Finalize, RunClosing, Steps, vars
  <2> DEFINE status == IF loc[r].failures THEN "failed" ELSE "complete"
  <2>2. PICK phase : SetRun(r, status, phase)
    BY <1>6 DEF Finalize, CloseRun
  <2>3. Verdicts' = [Verdicts EXCEPT ![r] = status] /\ Results' = Results
    <3>1. status \in {"failed", "complete"}
      OBVIOUS
    <3> HIDE DEF status
    <3> QED
      BY <1>1, <2>1, <2>2, <3>1, VerdictMove
  <2>4. Verdicts[r] = "open" /\ \A d \in Dids : Results[r][d] = items[r][d].status
    BY <2>1 DEF Verdicts, Results, Shown
  <2>5. status = IF \A d \in Dids : Results[r][d] = "complete" THEN "complete" ELSE "failed"
    BY <2>1, <2>4 DEF Terminal
  <2> HIDE DEF status
  <2>6. \A d \in Dids : Results[r][d] # "open"
    BY <2>1, <2>4 DEF Terminal
  <2>7. Ledger!Close(r)
    BY <2>3, <2>4, <2>5, <2>6 DEF Ledger!Close, Results, Verdicts, Shown
  <2> QED
    BY <2>7 DEF Ledger!Next
<1>7. CASE items' = items /\ run' = run
  BY <1>7, NothingShown
<1> QED
  BY <1>2, <1>3, <1>4, <1>5, <1>6, <1>7
     DEF WorkflowStep, ListStale, CountActive, ListUndispatched, DispatchNext, Enqueue, Poll,
         Summarize, OptimizeFts, vars

LEMMA LedgerStep ==
  ASSUME Undoubted, LedgerInv, [RunNext]_allVars
  PROVE  Ledger!Next \/ UNCHANGED <<Results, Verdicts>>
<1>1. /\ Undisturbed /\ FanoutInv /\ RunTypeOK /\ IInv /\ hist.pc = "idle"
      /\ items \in [Runs -> [Dids -> Item]]
  BY DEF Undoubted, LedgerInv, FanoutInv, RunInv, RunTypeOK, TypeOK
<1>2. ASSUME NEW r \in Runs, WorkflowStep(r) PROVE Ledger!Next \/ UNCHANGED <<Results, Verdicts>>
  BY <1>2, WorkflowMove
<1>3. ASSUME NEW r \in Runs, Launch(r) PROVE Ledger!Next \/ UNCHANGED <<Results, Verdicts>>
  <2>1. run[r].status = "none" /\ items' = items /\ SetRun(r, "queued", "queued")
    BY <1>3 DEF Launch, vars
  <2>2. Verdicts' = [Verdicts EXCEPT ![r] = "open"] /\ Results' = Results
    BY <1>1, <2>1, VerdictMove
  <2>3. Verdicts[r] = "none"
    BY <2>1 DEF Verdicts
  <2>4. Ledger!Accept(r)
    BY <2>2, <2>3 DEF Ledger!Accept, Results, Verdicts, Shown
  <2> QED
    BY <2>4 DEF Ledger!Next
<1>4. ASSUME NEW r \in Runs, LaunchStep(r) \/ RunFault(r)
      PROVE  Ledger!Next \/ UNCHANGED <<Results, Verdicts>>
  <2>1. items' = items /\ (run' = run \/ Launch(r) \/ ReportLaunchFailure(r))
    BY <1>4, LauncherClosing
  <2>2. CASE ReportLaunchFailure(r)
    <3>1. launch[r] = "failing" /\ SetRun(r, "failed", "failed")
      BY <2>2 DEF ReportLaunchFailure
    <3>2. Verdicts' = [Verdicts EXCEPT ![r] = "failed"] /\ Results' = Results
      BY <1>1, <2>1, <3>1, VerdictMove
    <3>3. Verdicts[r] = "open"
      BY <3>1 DEF LedgerInv, RunClosing, Verdicts
    <3>4. Ledger!GiveUp(r)
      BY <3>2, <3>3 DEF Ledger!GiveUp, Results, Verdicts, Shown
    <3> QED
      BY <3>4 DEF Ledger!Next
  <2>3. CASE run' = run
    BY <2>1, <2>3, NothingShown
  <2> QED
    BY <1>3, <2>1, <2>2, <2>3
<1>5. ASSUME NEW d \in Dids, CoordinatorStep(d) \/ CoordinatorFault(d)
      PROVE  Ledger!Next \/ UNCHANGED <<Results, Verdicts>>
  <2>1. ~FaultStep(d)
    BY DEF Undoubted, Undisturbed, FaultStep, SettleWriteFails, HandlerDies, Fault
  <2>2. AlarmStep(d) /\ UNCHANGED runVars
    BY <1>5, <2>1 DEF CoordinatorStep, CoordinatorFault
  <2>3. run' = run
    BY <2>2 DEF runVars
  <2>4. CASE items' = items
    BY <2>3, <2>4, NothingShown
  <2>5. CASE \E h \in Runs, row \in Item : items' = [items EXCEPT ![h][d] = row]
    <3>1. PICK h \in Runs, row \in Item : items' = [items EXCEPT ![h][d] = row]
      BY <2>5
    <3>2. items'[h][d] = row
      BY <1>1, <3>1
    <3>3. CASE row.status = items[h][d].status
      BY <1>1, <2>3, <3>1, <3>3, SettleMove DEF Ledger!Next
    <3>4. CASE row.status # items[h][d].status
      <4>1. Holds(store[d], h) /\ items[h][d].status \notin Terminal
        BY <2>2, <3>2, <3>4, CoordClosing
      <4>2. RunClosing(h) /\ RunPlace(h) /\ run[h] \in RunRow
        BY DEF LedgerInv, FanoutInv, RunInv, RunTypeOK
      <4>3. run[h].status # "complete"
        BY <4>1, <4>2 DEF RunClosing, Terminal
      <4>4. run[h].status # "none"
        BY <4>1, <4>2 DEF RunPlace, WindowInv, RowPlace
      <4>5. run[h].status \in {"queued", "running", "failed"}
        BY <4>2, <4>3, <4>4 DEF RunRow
      <4>6. Ledger!Settle(h, d) \/ UNCHANGED <<Results, Verdicts>>
        BY <1>1, <2>3, <3>1, <4>5, SettleMove
      <4> QED
        BY <4>6 DEF Ledger!Next
    <3> QED
      BY <3>3, <3>4
  <2> QED
    BY <1>1, <2>2, <2>4, <2>5, OneRow
<1>6. ASSUME NEW r \in Runs, NEW d \in Dids, AgeItem(r, d)
      PROVE  Ledger!Next \/ UNCHANGED <<Results, Verdicts>>
  <2> DEFINE row == [items[r][d] EXCEPT !.stale = TRUE]
  <2>1. items' = [items EXCEPT ![r][d] = row] /\ run' = run
    BY <1>6 DEF AgeItem, runVars
  <2>2. items[r][d] \in Item
    BY <1>1
  <2>3. row \in Item /\ row.status = items[r][d].status
    BY <2>2 DEF Item
  <2> HIDE DEF row
  <2>4. Ledger!Settle(r, d) \/ UNCHANGED <<Results, Verdicts>>
    BY <1>1, <2>1, <2>3, SettleMove
  <2> QED
    BY <2>4 DEF Ledger!Next
<1>7. ~RepairStep /\ ~RepairAborts
  BY <1>1 DEF Undisturbed, RepairStep, ListRunning, InspectRun, FailAbandoned,
              SummarizeRepaired, FinalizeRepaired, RepairEnds, RepairAborts
<1>8. CASE UNCHANGED allVars
  BY <1>8, NothingShown DEF allVars, vars, runVars
<1> QED
  BY <1>2, <1>3, <1>4, <1>5, <1>6, <1>7, <1>8 DEF RunNext

(* The launcher, the workflows and the coordinators together implement     *)
(* RunLedger, for any number of runs and experts: a run is closed only on  *)
(* a full set of results and with the verdict they give, and a complete    *)
(* run and its results never change.                                       *)
THEOREM RunsAreALedger ==
  ASSUME Undoubted
  PROVE  RunSpec => LedgerSpec
<1>1. RunInit => Ledger!Init
  BY DEF RunInit, Ledger!Init, Terminal
<1>2. LedgerInv /\ [RunNext]_allVars => LedgerInv'
  BY NextLedger
<1>3. LedgerInv /\ [RunNext]_allVars => [Ledger!Next]_(Ledger!ledger)
  BY LedgerStep DEF Ledger!ledger, Results, Verdicts, Shown
<1> QED
  BY <1>1, <1>2, <1>3, InitLedger, PTL DEF RunSpec, LedgerSpec, Ledger!Spec
==============================================================================
