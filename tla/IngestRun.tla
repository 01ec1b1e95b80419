----------------------------- MODULE IngestRun -----------------------------
(***************************************************************************)
(* Ingest runs end to end: the launcher, IngestRunWorkflow, the tables     *)
(* ingest_runs and ingest_run_items, and IngestRepairService, composed     *)
(* with the experts' coordinators.  The workflow and the repair service    *)
(* await D1 at every statement: each is a step, and coordinators, other    *)
(* runs and a repair request run in between.                               *)
(*                                                                         *)
(* A workflow step that throws or is interrupted starts again from its     *)
(* first statement; one that has used up its retries ends in the           *)
(* compensation step.  Counters, summaries and timestamps of the rows are  *)
(* left out, but for what the code decides on: whether an item failed, and *)
(* whether last_progress_at is older than the repair thresholds.           *)
(***************************************************************************)
EXTENDS ExpertPollCoordinator

CONSTANTS
  Fanout,         \* experts a run keeps active (fanoutForKind)
  Aging,          \* rows get older than the repair service's thresholds
  AdminRepair,    \* an operator asks for repairHistoricalRuns
  Prompt          \* markDispatched reaches D1 before the chunk it started ends,
                  \* and no row goes stale while the expert's coordinator, which
                  \* is alive, has the run in its queue

(* Experts are numbers: the order of their dids in ORDER BY did. *)
ASSUME RunConstants ==
  /\ Dids \subseteq Nat /\ IsFiniteSet(Dids)
  /\ Fanout \in Nat \ {0}
  /\ {Aging, AdminRepair, Prompt} \subseteq BOOLEAN

VARIABLES
  run,     \* run[r]: status and phase of the row of ingest_runs
  launch,  \* launch[r]: where the launcher's request is
  at,      \* at[r]: where the workflow instance is
  loc,     \* loc[r]: what the workflow's current step has read
  hist     \* repairHistoricalRuns: where it is and what it has read

runVars == <<run, launch, at, loc, hist>>
allVars == <<vars, runVars>>

RunRow == [status: {"none", "queued", "running", "complete", "failed"},
           phase: {"none", "queued", "preparing", "dispatching", "finalizing", "complete", "failed"}]

Steps == {"prepare", "createItems", "markDispatching", "repair", "recover", "list",
          "enqueue", "mark", "poll", "finalize", "summarize", "close", "optimize", "compensate"}

Locals == [requeue: SUBSET Dids, fail: SUBSET Dids, slots: Nat, batch: SUBSET Dids, failures: BOOLEAN]

NoLocals == [requeue |-> {}, fail |-> {}, slots |-> 0, batch |-> {}, failures |-> FALSE]

History == [pc: {"idle", "next", "fail", "summarize", "close"}, runs: SUBSET Runs,
            dids: SUBSET Dids, failures: BOOLEAN]

NoHistory == [pc |-> "idle", runs |-> {}, dids |-> {}, failures |-> FALSE]

(***************************************************************************)
(* Queries on ingest_run_items                                             *)
(***************************************************************************)
WithStatus(r, S) == {d \in Dids : items[r][d].status \in S}
Active(r) == WithStatus(r, {"dispatched", "running"})
Undispatched(r) == WithStatus(r, {"queued"})

(* Mutant: an expert at work does not count. *)
Unstarted(r) == WithStatus(r, {"queued", "dispatched"})

Incomplete(r) == WithStatus(r, {"queued", "dispatched", "running"})
Rows(r) == WithStatus(r, Statuses \ {"absent"})
Stale(r, status) == {d \in Dids : items[r][d] = [status |-> status, stale |-> TRUE]}
HasFailures(r) == WithStatus(r, {"failed"}) # {}

(* Mutant: one row too many. *)
LimitPlusOne(S, n) == {d \in S : Cardinality({e \in S : e < d}) <= n}

(* ORDER BY did LIMIT n *)
Limit(S, n) == {d \in S : Cardinality({e \in S : e < d}) < n}

SetRun(r, status, phase) == run' = [run EXCEPT ![r] = [status |-> status, phase |-> phase]]

CloseRun(r, failures) ==
  IF failures THEN SetRun(r, "failed", "failed") ELSE SetRun(r, "complete", "complete")

-----------------------------------------------------------------------------
(***************************************************************************)
(* Launcher: start and startCronHeadSweep                                  *)
(***************************************************************************)
(* createQueuedIfAbsent; for a run id that has a row nothing happens. *)
Launch(r) ==
  /\ run[r].status = "none"
  /\ SetRun(r, "queued", "queued")
  /\ launch' = [launch EXCEPT ![r] = "creating"]
  /\ UNCHANGED <<vars, at, loc, hist>>

CreateInstance(r) ==
  /\ launch[r] = "creating"
  /\ launch' = [launch EXCEPT ![r] = "done"]
  /\ at' = [at EXCEPT ![r] = "prepare"]
  /\ UNCHANGED <<vars, run, loc, hist>>

(* workflow.create throws; the instance exists when only the reply is lost. *)
CreateFails(r) ==
  /\ launch[r] = "creating"
  /\ launch' = [launch EXCEPT ![r] = "failing"]
  /\ \/ Fault("create") /\ UNCHANGED at
     \/ Fault("reply") /\ at' = [at EXCEPT ![r] = "prepare"]
  /\ UNCHANGED <<doVars, items, run, loc, hist>>

ReportLaunchFailure(r) ==
  /\ launch[r] = "failing"
  /\ SetRun(r, "failed", "failed")
  /\ launch' = [launch EXCEPT ![r] = "done"]
  /\ UNCHANGED <<vars, at, loc, hist>>

LauncherDies(r) ==
  /\ launch[r] \in {"creating", "failing"}
  /\ launch' = [launch EXCEPT ![r] = "done"]
  /\ Fault("launcher")
  /\ UNCHANGED <<doVars, items, run, at, loc, hist>>

-----------------------------------------------------------------------------
(***************************************************************************)
(* IngestRunWorkflow                                                       *)
(***************************************************************************)
Goto(r, next) == at' = [at EXCEPT ![r] = next]

MarkPreparing(r) ==
  /\ at[r] = "prepare"
  /\ IF run[r].status \in {"queued", "running"} THEN SetRun(r, "running", "preparing")
                                                ELSE UNCHANGED run
  /\ Goto(r, "createItems")
  /\ UNCHANGED <<vars, launch, loc, hist>>

(* INSERT OR IGNORE *)
CreateItems(r) ==
  /\ at[r] = "createItems"
  /\ items' = [items EXCEPT ![r] = [d \in Dids |->
                 IF @[d].status = "absent" THEN [status |-> "queued", stale |-> FALSE] ELSE @[d]]]
  /\ Goto(r, "markDispatching")
  /\ UNCHANGED <<doVars, faults, run, launch, loc, hist>>

MarkDispatching(r) ==
  /\ at[r] = "markDispatching"
  /\ SetRun(r, "running", "dispatching")
  /\ Goto(r, "repair")
  /\ UNCHANGED <<vars, launch, loc, hist>>

(* Mutant: only running items go stale. *)
ListStaleRunning(r) ==
  /\ at[r] = "repair"
  /\ loc' = [loc EXCEPT ![r].fail = Stale(r, "running")]
  /\ Goto(r, "recover")
  /\ UNCHANGED <<vars, run, launch, hist>>

(* repairLiveRun lists both kinds of stale items, then writes one by one. *)
ListStale(r) ==
  /\ at[r] = "repair"
  /\ loc' = [loc EXCEPT ![r].requeue = Stale(r, "dispatched"), ![r].fail = Stale(r, "running")]
  /\ Goto(r, "recover")
  /\ UNCHANGED <<vars, run, launch, hist>>

RequeueStale(r) ==
  /\ at[r] = "recover" /\ loc[r].requeue # {}
  /\ LET d == Min(loc[r].requeue)
     IN  SetItem(r, d, "queued") /\ loc' = [loc EXCEPT ![r].requeue = @ \ {d}]
  /\ UNCHANGED <<doVars, faults, run, launch, at, hist>>

FailStale(r) ==
  /\ at[r] = "recover" /\ loc[r].requeue = {} /\ loc[r].fail # {}
  /\ LET d == Min(loc[r].fail)
     IN  SetItem(r, d, "failed") /\ loc' = [loc EXCEPT ![r].fail = @ \ {d}]
  /\ UNCHANGED <<doVars, faults, run, launch, at, hist>>

(* Mutant: a window that is full, or more than full, is not noticed. *)
CountActiveAlways(r) ==
  /\ at[r] = "recover" /\ loc[r].requeue = {} /\ loc[r].fail = {}
  /\ Goto(r, "list")
  /\ loc' = [loc EXCEPT ![r].slots = Fanout - Cardinality(Active(r))]
  /\ UNCHANGED <<vars, run, launch, hist>>

CountActive(r) ==
  /\ at[r] = "recover" /\ loc[r].requeue = {} /\ loc[r].fail = {}
  /\ LET active == Cardinality(Active(r))
     IN  IF active >= Fanout
           THEN Goto(r, "poll") /\ UNCHANGED loc
           ELSE Goto(r, "list") /\ loc' = [loc EXCEPT ![r].slots = Fanout - active]
  /\ UNCHANGED <<vars, run, launch, hist>>

ListUndispatched(r) ==
  /\ at[r] = "list"
  /\ LET batch == Limit(Undispatched(r), loc[r].slots)
     IN  /\ loc' = [loc EXCEPT ![r].batch = batch, ![r].slots = 0]
         /\ Goto(r, IF batch = {} THEN "poll" ELSE "enqueue")
  /\ UNCHANGED <<vars, run, launch, hist>>

(* The RPC to the coordinator of the next expert of the batch. *)
DispatchNext(r) ==
  /\ at[r] = "enqueue"
  /\ Enqueue(Min(loc[r].batch), r)
  /\ Goto(r, "mark")
  /\ UNCHANGED <<faults, run, launch, loc, hist>>

MarkDispatched(r) ==
  /\ at[r] = "mark"
  /\ LET d == Min(loc[r].batch)
     IN  /\ SetItem(r, d, "dispatched")
         /\ loc' = [loc EXCEPT ![r].batch = @ \ {d}]
         /\ Goto(r, IF loc[r].batch = {d} THEN "poll" ELSE "enqueue")
  /\ UNCHANGED <<doVars, faults, run, launch, hist>>

(* countIncompleteByRun; if any is left the workflow sleeps and starts over. *)
Poll(r) ==
  /\ at[r] = "poll"
  /\ Goto(r, IF Incomplete(r) = {} THEN "finalize" ELSE "repair")
  /\ UNCHANGED <<vars, run, launch, loc, hist>>

MarkFinalizing(r) ==
  /\ at[r] = "finalize"
  /\ SetRun(r, "running", "finalizing")
  /\ Goto(r, "summarize")
  /\ UNCHANGED <<vars, launch, loc, hist>>

Summarize(r) ==
  /\ at[r] = "summarize"
  /\ loc' = [loc EXCEPT ![r].failures = HasFailures(r)]
  /\ Goto(r, "close")
  /\ UNCHANGED <<vars, run, launch, hist>>

Finalize(r) ==
  /\ at[r] = "close"
  /\ CloseRun(r, loc[r].failures)
  /\ Goto(r, "optimize")
  /\ loc' = [loc EXCEPT ![r] = NoLocals]
  /\ UNCHANGED <<vars, launch, hist>>

(* The finalize step returns, and the step that optimizes the text index. *)
OptimizeFts(r) ==
  /\ at[r] = "optimize"
  /\ Goto(r, "ended")
  /\ UNCHANGED <<vars, run, launch, loc, hist>>

(* Mutant: only a run that has not started is marked failed. *)
CompensateQueued(r) ==
  /\ at[r] = "compensate"
  /\ IF run[r].status = "queued" THEN SetRun(r, "failed", "failed") ELSE UNCHANGED run
  /\ Goto(r, "ended")
  /\ UNCHANGED <<vars, launch, loc, hist>>

(* compensateFailure *)
Compensate(r) ==
  /\ at[r] = "compensate"
  /\ SetRun(r, "failed", "failed")
  /\ Goto(r, "ended")
  /\ UNCHANGED <<vars, launch, loc, hist>>

(* Where a step that fails in the middle is started again.  At "optimize"  *)
(* the finalize step may still fail after it has closed the run.           *)
StepStart(pos) ==
  CASE pos = "markDispatching" -> "createItems"
    [] pos \in {"recover", "list", "enqueue", "mark", "poll"} -> "repair"
    [] pos \in {"summarize", "close", "optimize"} -> "finalize"
    [] OTHER -> pos

StepFails(r) ==
  /\ at[r] \in Steps
  /\ Goto(r, StepStart(at[r])) /\ at' # at
  /\ loc' = [loc EXCEPT ![r] = NoLocals]
  /\ Fault(IF at[r] = "optimize" THEN "late" ELSE "retry")
  /\ UNCHANGED <<doVars, items, run, launch, hist>>

(* The step's retries are used up, or those of the compensation step. *)
StepExhausted(r) ==
  /\ at[r] \in Steps
  /\ Goto(r, IF at[r] = "compensate" THEN "dead" ELSE "compensate")
  /\ loc' = [loc EXCEPT ![r] = NoLocals]
  /\ Fault(IF at[r] = "optimize" THEN "late" ELSE "exhaust")
  /\ UNCHANGED <<doVars, items, run, launch, hist>>

(* The coordinator is evicted in the middle of the RPC, or answers with an *)
(* error: Effect.promise turns it into a defect, and the step starts over. *)
DispatchCutShort(r) ==
  /\ at[r] = "enqueue"
  /\ EnqueueCutShort(Min(loc[r].batch), r)
  /\ Goto(r, "repair")
  /\ loc' = [loc EXCEPT ![r] = NoLocals]
  /\ Fault("eviction")
  /\ UNCHANGED <<run, launch, hist>>

-----------------------------------------------------------------------------
(***************************************************************************)
(* repairHistoricalRuns, on an operator's request                          *)
(***************************************************************************)
ListRunning ==
  /\ AdminRepair /\ hist.pc = "idle"
  /\ \E r \in Runs : run[r].status = "running"
  /\ hist' = [NoHistory EXCEPT !.pc = "next", !.runs = {r \in Runs : run[r].status = "running"}]
  /\ UNCHANGED <<vars, run, launch, at, loc>>

(* The run repairHistoricalRun is at; runs start in the order of their ids. *)
Repaired == CHOOSE r \in hist.runs : TRUE

(* listByRun decides what becomes of the run. *)
InspectRun ==
  /\ hist.pc = "next" /\ hist.runs # {}
  /\ LET open == Incomplete(Repaired)
     IN  hist' = CASE Rows(Repaired) = {} -> [hist EXCEPT !.pc = "close", !.failures = TRUE]
                   [] Rows(Repaired) # {} /\ open = {} -> [hist EXCEPT !.pc = "summarize"]
                   [] open # {} /\ \A d \in open : items[Repaired][d].stale ->
                        [hist EXCEPT !.pc = "fail", !.dids = open]
                   [] OTHER -> [hist EXCEPT !.runs = @ \ {Repaired}]
  /\ UNCHANGED <<vars, run, launch, at, loc>>

FailAbandoned ==
  /\ hist.pc = "fail"
  /\ LET d == Min(hist.dids)
     IN  /\ SetItem(Repaired, d, "failed")
         /\ hist' = [hist EXCEPT !.dids = @ \ {d},
                                 !.pc = IF hist.dids = {d} THEN "summarize" ELSE "fail"]
  /\ UNCHANGED <<doVars, faults, run, launch, at, loc>>

SummarizeRepaired ==
  /\ hist.pc = "summarize"
  /\ hist' = [hist EXCEPT !.pc = "close", !.failures = HasFailures(Repaired)]
  /\ UNCHANGED <<vars, run, launch, at, loc>>

FinalizeRepaired ==
  /\ hist.pc = "close"
  /\ CloseRun(Repaired, hist.failures)
  /\ hist' = [hist EXCEPT !.pc = "next", !.runs = @ \ {Repaired}, !.failures = FALSE]
  /\ UNCHANGED <<vars, launch, at, loc>>

RepairEnds ==
  /\ hist.pc = "next" /\ hist.runs = {}
  /\ hist' = NoHistory
  /\ UNCHANGED <<vars, run, launch, at, loc>>

(* Its request ends, or a statement throws. *)
RepairAborts ==
  /\ hist.pc # "idle"
  /\ hist' = NoHistory
  /\ Fault("write")
  /\ UNCHANGED <<doVars, items, run, launch, at, loc>>

-----------------------------------------------------------------------------
(* The coordinator died with a claim: it takes no task any more. *)
Wedged(d) == pc[d] = "idle" /\ store[d].current # NoTask

(* Time passes without progress on an active item. *)
AgeItem(r, d) ==
  /\ Aging /\ (Prompt => Wedged(d) \/ ~Holds(store[d], r))
  /\ items[r][d].status \in {"dispatched", "running"} /\ ~items[r][d].stale
  /\ items' = [items EXCEPT ![r][d].stale = TRUE]
  /\ UNCHANGED <<doVars, faults, runVars>>

(* The coordinator settles run r although the workflow has yet to mark the *)
(* request it made as dispatched.                                          *)
OutrunsDispatch(d) ==
  \E r \in Runs : /\ at[r] = "mark" /\ d = Min(loc[r].batch)
                  /\ pc[d] \in {"completing", "failing"} /\ r \in ToSet(todo[d])

CoordinatorStep(d) ==
  /\ Prompt => ~OutrunsDispatch(d)
  /\ AlarmStep(d)
  /\ UNCHANGED runVars

CoordinatorFault(d) == FaultStep(d) /\ UNCHANGED runVars

LaunchStep(r) == CreateInstance(r) \/ ReportLaunchFailure(r)

WorkflowStep(r) ==
  \/ MarkPreparing(r) \/ CreateItems(r) \/ MarkDispatching(r)
  \/ ListStale(r) \/ RequeueStale(r) \/ FailStale(r)
  \/ CountActive(r) \/ ListUndispatched(r) \/ DispatchNext(r) \/ MarkDispatched(r) \/ Poll(r)
  \/ MarkFinalizing(r) \/ Summarize(r) \/ Finalize(r) \/ OptimizeFts(r)
  \/ Compensate(r)

RunFault(r) ==
  \/ CreateFails(r) \/ LauncherDies(r)
  \/ StepFails(r) \/ StepExhausted(r) \/ DispatchCutShort(r)

RepairStep ==
  \/ ListRunning \/ InspectRun \/ FailAbandoned
  \/ SummarizeRepaired \/ FinalizeRepaired \/ RepairEnds

RunInit ==
  /\ store = [d \in Dids |-> EmptyQueue]
  /\ alarm = [d \in Dids |-> FALSE]
  /\ pc = [d \in Dids |-> "idle"]
  /\ claimed = [d \in Dids |-> NoTask]
  /\ latest = [d \in Dids |-> EmptyQueue]
  /\ outcome = [d \in Dids |-> NoOutcome]
  /\ todo = [d \in Dids |-> <<>>]
  /\ items = [r \in Runs |-> [d \in Dids |-> [status |-> "absent", stale |-> FALSE]]]
  /\ faults = 0
  /\ run = [r \in Runs |-> [status |-> "none", phase |-> "none"]]
  /\ launch = [r \in Runs |-> "none"]
  /\ at = [r \in Runs |-> "none"]
  /\ loc = [r \in Runs |-> NoLocals]
  /\ hist = NoHistory

RunNext ==
  \/ \E r \in Runs : Launch(r) \/ LaunchStep(r) \/ WorkflowStep(r) \/ RunFault(r)
  \/ \E d \in Dids : CoordinatorStep(d) \/ CoordinatorFault(d)
  \/ \E r \in Runs, d \in Dids : AgeItem(r, d)
  \/ RepairStep \/ RepairAborts

RunSpec == RunInit /\ [][RunNext]_allVars

(* The launcher's request ends; the workflow engine resumes instances; due *)
(* alarms fire; time passes; the operator repeats the repair request.      *)
RunFairness ==
  /\ \A r \in Runs : WF_allVars(LaunchStep(r)) /\ WF_allVars(WorkflowStep(r))
  /\ \A d \in Dids : WF_allVars(CoordinatorStep(d))
  /\ \A r \in Runs, d \in Dids : WF_allVars(AgeItem(r, d))
  /\ WF_allVars(RepairStep)

FairRunSpec == RunSpec /\ RunFairness

-----------------------------------------------------------------------------
(***************************************************************************)
(* Properties                                                              *)
(***************************************************************************)
(* The variables of this module have their types. *)
RunTypeOK ==
  /\ TypeOK
  /\ run \in [Runs -> RunRow]
  /\ launch \in [Runs -> {"none", "creating", "failing", "done"}]
  /\ at \in [Runs -> Steps \cup {"none", "ended", "dead"}]
  /\ loc \in [Runs -> Locals]
  /\ hist \in History

(* A run never has more than Fanout experts dispatched or running, although *)
(* the count, the list of candidates and the marks are separate statements  *)
(* and coordinators write the same rows: holds as long as no row is stale   *)
(* and no dispatch step is started over.                                    *)
ActiveWithinFanout == \A r \in Runs : Cardinality(Active(r)) <= Fanout

(* The ledger that readers of the two tables see.                           *)
Ledger == INSTANCE RunLedger WITH
  Experts <- Dids,
  result  <- [r \in Runs |-> [d \in Dids |->
                IF items[r][d].status \in Terminal THEN items[r][d].status ELSE "open"]],
  verdict <- [r \in Runs |-> IF run[r].status \in {"queued", "running"} THEN "open"
                             ELSE run[r].status]

(* The workflow, the coordinators and the launcher together implement the   *)
(* ledger: a run is closed only on a full set of results and with the       *)
(* verdict they give, and a complete run and its results never change.      *)
(* (As long as no row is stale, no step runs twice, nothing fails after the *)
(* run was closed, no reply of the workflow engine is lost, and alarm() can *)
(* write its rows: its catch block marks a row failed that it completed.)   *)
LedgerSpec == Ledger!Spec

(* A workflow that has ended leaves a closed run behind, whatever failed in *)
(* between and whatever an operator's repair did to the run meanwhile.      *)
EndedRunIsClosed == \A r \in Runs : at[r] = "ended" => run[r].status \in Terminal

(* Every launched run ends, though a coordinator may lose what was enqueued *)
(* while it settled another task, and the launch or a step of the workflow  *)
(* may fail: what was dispatched and lost goes stale and is sent again.     *)
(* (No coordinator dies: to one that died with a claim its stale dispatched *)
(* rows are sent again for ever, and only its running rows are failed.)     *)
RunsFinish ==
  \A r \in Runs : (run[r].status = "queued") ~> (run[r].status \in Terminal)
=============================================================================
