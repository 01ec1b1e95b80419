----------------------------- MODULE Enrichment -----------------------------
(***************************************************************************)
(* Enrichment runs of picked posts.  A run is a row of                     *)
(* post_enrichment_runs and a workflow instance of the same id; there is   *)
(* one per post and kind.  The workflow marks its phases, plans from what  *)
(* is stored, stores its result and, after a usable vision result, queues  *)
(* the post's source attribution.  Every update of the row names the       *)
(* status it expects, because an operator retries, terminates and closes   *)
(* runs beside the workflows.  The step that follows the actions of one    *)
(* workflow is its control point in flows; a step that fails before its    *)
(* effect is run again by the engine and is no step here.                  *)
(***************************************************************************)
EXTENDS Naturals

CONSTANTS
  Posts,
  PostTraits, \* what the posts may be like
  Kinds,      \* enrichment kinds asked for, at the default schema version
  FaultKinds, \* the faults a behaviour may have: "cut", "control", "insert", "mark"
  MaxFaults   \* bound: the number of faults in a behaviour

Traits == [twitter : BOOLEAN, embed : {"visual", "card", "none"}]

ASSUME EnrichmentAssumption ==
  /\ PostTraits \subseteq Traits
  /\ Kinds \subseteq {"vision", "source-attribution", "grounding"}
  /\ {"vision", "source-attribution"} \subseteq Kinds
  /\ MaxFaults \in Nat

VARIABLES
  traits,   \* traits[p]: where the post comes from and what it embeds
  payload,  \* payload[p]: stage of its row in post_payloads
  results,  \* results[k]: post_enrichments has a result of the kind
  runs,     \* runs[k]: status of its row in post_enrichment_runs
  flows,    \* flows[k]: where the workflow instance of the run is
  operator, \* what the operator's request is doing
  faults    \* faults so far

evars == <<traits, payload, results, runs, flows, operator, faults>>

Keys == Posts \X Kinds

Statuses == {"absent", "queued", "running", "complete", "failed", "needs-review"}
ActiveStatuses == {"queued", "running"}
Points == {"assembling", "deciding", "executing", "saving", "storing",
           "insert", "create", "close", "completing", "reviewing", "catching"}
LaunchPoints == {"insert", "create", "close"}
OperatorPoints == LaunchPoints \cup {"idle", "restart", "unrestarted", "terminating", "marking"}

Idle == [at |-> "idle", now |-> {}, todo |-> {}]

Active(k) == runs[k] \in ActiveStatuses
Live(k) == flows[k] \in Points
Visual(p) == traits[p].embed = "visual"

Fault(kind) ==
  /\ kind \in FaultKinds
  /\ faults < MaxFaults
  /\ faults' = faults + 1

-----------------------------------------------------------------------------
(***************************************************************************)
(* EnrichmentRunsRepoD1: one statement each                                *)
(***************************************************************************)
Set(k, status) == [runs EXCEPT ![k] = status]

(* Mutants: an update that forgets the status it expects, and one that      *)
(* writes the phase into the status.                                       *)
MarkFailedAlways(k) == IF runs[k] # "absent" THEN Set(k, "failed") ELSE runs
MarkPhaseAsStatus(k) == IF Active(k) THEN Set(k, "assembling") ELSE runs

CreateQueuedIfAbsent(k) == IF runs[k] = "absent" THEN Set(k, "queued") ELSE runs
MarkPhase(k) == IF Active(k) THEN Set(k, "running") ELSE runs
MarkComplete(k) == IF runs[k] = "running" THEN Set(k, "complete") ELSE runs
MarkNeedsReview(k) == IF runs[k] = "running" THEN Set(k, "needs-review") ELSE runs
MarkFailed(k) == IF Active(k) THEN Set(k, "failed") ELSE runs
ResetForRetry(k) ==
  IF runs[k] \in {"failed", "needs-review"} THEN Set(k, "queued") ELSE runs

-----------------------------------------------------------------------------
(***************************************************************************)
(* EnrichmentWorkflowLauncher                                              *)
(***************************************************************************)
(* A row refers to the payload of its post, which must be there. *)
HasPayload(k) == payload[k[1]] # "none"

(* One step of queueRun for run k, from a point to the next one: "done"    *)
(* and "failed" are its outcomes.  started: whether it made the workflow's *)
(* instance, which it may do and fail all the same.                        *)
LaunchGoesOn(k, at, next, started) ==
  \/ /\ at = "insert"
     /\ HasPayload(k)
     /\ next = (IF runs[k] = "absent" THEN "create" ELSE "done")
     /\ ~started
     /\ runs' = CreateQueuedIfAbsent(k)
  \/ /\ at = "insert"
     /\ ~HasPayload(k)
     /\ next = "failed"
     /\ ~started
     /\ UNCHANGED runs
  \/ /\ at = "create"
     /\ <<next, started>> \in {<<"done", TRUE>>, <<"close", TRUE>>, <<"close", FALSE>>}
     /\ UNCHANGED runs
  \/ /\ at = "close"
     /\ next = "failed"
     /\ ~started
     /\ runs' = MarkFailed(k)

(* createQueuedIfAbsent or markFailed throws, and queueRun with it. *)
LaunchWriteFails(at, next, started) ==
  /\ \/ at = "insert" /\ Fault("insert")
     \/ at = "close" /\ Fault("mark")
  /\ next = "failed"
  /\ ~started
  /\ UNCHANGED runs

LaunchStep(k, at, next, started) ==
  \/ LaunchGoesOn(k, at, next, started) /\ UNCHANGED faults
  \/ LaunchWriteFails(at, next, started)

Outcomes == {"create", "close", "done", "failed"}
Created(k, started) == [flows EXCEPT ![k] = IF started THEN "assembling" ELSE @]

-----------------------------------------------------------------------------
(***************************************************************************)
(* EnrichmentRunWorkflow                                                   *)
(***************************************************************************)
Goto(k, point) == flows' = [flows EXCEPT ![k] = point]

(* Two phases are marked before the plan and two before the result is      *)
(* stored; between the marks of a pair the workflow only computes.         *)
MarkPhaseStep(k) ==
  /\ \/ flows[k] = "assembling" /\ Goto(k, "deciding")
     \/ flows[k] = "executing" /\ Goto(k, "saving")
  /\ runs' = MarkPhase(k)
  /\ UNCHANGED <<traits, payload, results, operator, faults>>

(* Mutant: an attribution waits only for a vision run under way. *)
AwaitsVisionRun(p) == Visual(p) /\ Active(<<p, "vision">>)

(* The planner's decision over what is stored now. *)
VisionKnown(p) == results[<<p, "vision">>]
AwaitsVision(p) == Visual(p) /\ ~VisionKnown(p)

CanExecute(p, kind) ==
  \/ kind = "vision" /\ Visual(p)
  \/ kind = "source-attribution" /\ ~AwaitsVision(p)

Plan(p, kind) ==
  /\ flows[<<p, kind>>] = "deciding"
  /\ Goto(<<p, kind>>,
       IF payload[p] # "picked" THEN "catching"
       ELSE IF CanExecute(p, kind) THEN "executing"
       ELSE IF kind = "source-attribution" THEN "catching" ELSE "reviewing")
  /\ UNCHANGED <<traits, payload, results, runs, operator, faults>>

(* saveEnrichment reads the stage, and writes in a statement of its own. *)
ReadStage(p, kind) ==
  /\ flows[<<p, kind>>] = "saving"
  /\ Goto(<<p, kind>>, IF payload[p] = "picked" THEN "storing" ELSE "catching")
  /\ UNCHANGED <<traits, payload, results, runs, operator, faults>>

Stored(k) == results' = [results EXCEPT ![k] = TRUE]

(* Mutant: a weak vision result is asked for again. *)
StoreUntilUsable(p, kind) ==
  /\ flows[<<p, kind>>] = "storing"
  /\ Stored(<<p, kind>>)
  /\ IF kind = "vision"
       THEN \E next \in {"insert", "executing"} : Goto(<<p, kind>>, next)
       ELSE Goto(<<p, kind>>, "completing")
  /\ UNCHANGED <<traits, payload, runs, operator, faults>>

(* The write, and the quality gate: what a vision result is worth is open. *)
StoreResult(p, kind) ==
  /\ flows[<<p, kind>>] = "storing"
  /\ Stored(<<p, kind>>)
  /\ IF kind = "vision"
       THEN \E next \in {"insert", "reviewing"} : Goto(<<p, kind>>, next)
       ELSE Goto(<<p, kind>>, "completing")
  /\ UNCHANGED <<traits, payload, runs, operator, faults>>

(* Mutant: a usable vision result completes the run at once. *)
SkipAttribution(p) ==
  /\ flows[<<p, "vision">>] = "insert"
  /\ Goto(<<p, "vision">>, "completing")
  /\ UNCHANGED <<traits, payload, results, runs, operator, faults>>

(* The step that queues the source attribution; a failed launch fails the *)
(* step, and the engine runs it again or gives up.                         *)
QueueAttribution(p) ==
  LET k == <<p, "vision">>
      attribution == <<p, "source-attribution">>
  IN  /\ \E next \in Outcomes, started \in BOOLEAN :
           /\ LaunchStep(attribution, flows[k], next, started)
           /\ \E point \in CASE next = "done" -> {"completing"}
                             [] next = "failed" -> {"insert", "catching"}
                             [] OTHER -> {next} :
                flows' = [Created(attribution, started) EXCEPT ![k] = point]
      /\ UNCHANGED <<traits, payload, results, operator>>

(* Mutant: a failure that run() does not catch. *)
LastStepUncaught(k) ==
  /\ \/ flows[k] = "completing" /\ runs' = MarkComplete(k)
     \/ flows[k] = "reviewing" /\ runs' = MarkNeedsReview(k)
     \/ flows[k] = "catching" /\ UNCHANGED runs
  /\ Goto(k, "ended")
  /\ UNCHANGED <<traits, payload, results, operator, faults>>

(* The last step of each way through run(); the reply of a step that took *)
(* effect may be lost for good.                                            *)
LastStep(k) ==
  /\ \/ flows[k] = "completing" /\ runs' = MarkComplete(k)
     \/ flows[k] = "reviewing" /\ runs' = MarkNeedsReview(k)
     \/ flows[k] = "catching" /\ runs' = MarkFailed(k)
  /\ \/ Goto(k, "ended")
     \/ flows[k] # "catching" /\ Goto(k, "catching")
  /\ UNCHANGED <<traits, payload, results, operator, faults>>

(* A step fails until its retries are used up, or the plan cannot be made. *)
StepExhausted(k) ==
  /\ Live(k)
  /\ flows[k] \notin LaunchPoints \cup {"catching"}
  /\ Goto(k, "catching")
  /\ UNCHANGED <<traits, payload, results, runs, operator, faults>>

(* The engine starts the launching step over after an eviction. *)
LaunchCut(k) ==
  /\ flows[k] \in {"create", "close"}
  /\ Goto(k, "insert")
  /\ Fault("cut")
  /\ UNCHANGED <<traits, payload, results, runs, operator>>

(* markFailed of the catch block fails as well. *)
CatchFails(k) ==
  /\ flows[k] = "catching"
  /\ Goto(k, "ended")
  /\ Fault("mark")
  /\ UNCHANGED <<traits, payload, results, runs, operator>>

FlowStep(p, kind) ==
  LET k == <<p, kind>> IN
  \/ MarkPhaseStep(k) \/ LastStep(k)
  \/ Plan(p, kind) \/ ReadStage(p, kind) \/ StoreResult(p, kind)
  \/ kind = "vision" /\ QueueAttribution(p)

FlowFails(k) == StepExhausted(k) \/ LaunchCut(k) \/ CatchFails(k)

-----------------------------------------------------------------------------
(***************************************************************************)
(* An operator: the admin route starts a run, EnrichmentRepairService      *)
(* retries one or repairs the stale ones; one request at a time.           *)
(***************************************************************************)
At(point, now, todo) == operator' = [at |-> point, now |-> now, todo |-> todo]

(* ensureEnrichmentStartAllowed asks the planner, for an attribution only. *)
OperatorStarts(p, kind) ==
  /\ operator.at = "idle"
  /\ kind = "source-attribution" => payload[p] = "picked" /\ ~AwaitsVision(p)
  /\ At("insert", {<<p, kind>>}, {})
  /\ UNCHANGED <<traits, payload, results, runs, flows, faults>>

OperatorLaunches(k) ==
  /\ k \in operator.now
  /\ \E next \in Outcomes, started \in BOOLEAN :
       /\ LaunchStep(k, operator.at, next, started)
       /\ flows' = Created(k, started)
       /\ IF next \in LaunchPoints THEN At(next, {k}, {}) ELSE operator' = Idle
  /\ UNCHANGED <<traits, payload, results>>

(* retryRun: the update decides, whatever getById has read before it. *)
OperatorRetries(k) ==
  /\ operator.at = "idle"
  /\ runs[k] \in {"failed", "needs-review"}
  /\ runs' = ResetForRetry(k)
  /\ At("restart", {k}, {})
  /\ UNCHANGED <<traits, payload, results, flows, faults>>

(* An instance cut short in its launching step leaves the launch behind. *)
Interrupt(k) == IF flows[k] \in {"create", "close"} THEN Fault("cut") ELSE UNCHANGED faults

Restart(k) ==
  /\ operator.at = "restart" /\ k \in operator.now
  /\ flows[k] # "absent"
  /\ Goto(k, "assembling")
  /\ Interrupt(k)
  /\ operator' = Idle
  /\ UNCHANGED <<traits, payload, results, runs>>

RestartFails(k) ==
  /\ operator.at = "restart" /\ k \in operator.now
  /\ IF flows[k] = "absent" THEN UNCHANGED faults ELSE Fault("control")
  /\ At("unrestarted", {k}, {})
  /\ UNCHANGED <<traits, payload, results, runs, flows>>

CloseUnrestarted(k) ==
  /\ operator.at = "unrestarted" /\ k \in operator.now
  /\ runs' = MarkFailed(k)
  /\ operator' = Idle
  /\ UNCHANGED <<traits, payload, results, flows, faults>>

(* repairHistoricalRuns reads the stale runs once.  How long a run has     *)
(* been without progress is left open: any active run may be a stale one.  *)
OperatorRepairs ==
  /\ operator.at = "idle"
  /\ \E stale \in SUBSET {k \in Keys : Active(k)} :
       stale # {} /\ At("terminating", {}, stale)
  /\ UNCHANGED <<traits, payload, results, runs, flows, faults>>

(* An instance that is not there, or has ended, cannot be terminated. *)
Terminate(k) ==
  /\ operator.at = "terminating" /\ k \in operator.todo
  /\ IF Live(k) THEN Goto(k, "ended") /\ Interrupt(k) ELSE UNCHANGED <<flows, faults>>
  /\ At("marking", {k}, operator.todo \ {k})
  /\ UNCHANGED <<traits, payload, results, runs>>

TerminateFails(k) ==
  /\ operator.at = "terminating" /\ k \in operator.todo
  /\ Live(k)
  /\ Fault("control")
  /\ At("marking", {k}, operator.todo \ {k})
  /\ UNCHANGED <<traits, payload, results, runs, flows>>

(* The run is closed as failed, whatever has become of it since the list. *)
MarkRepaired(k) ==
  /\ operator.at = "marking" /\ k \in operator.now
  /\ runs' = MarkFailed(k)
  /\ IF operator.todo = {} THEN operator' = Idle ELSE At("terminating", {}, operator.todo)
  /\ UNCHANGED <<traits, payload, results, flows, faults>>

OperatorDies ==
  /\ operator.at # "idle"
  /\ operator' = Idle
  /\ Fault("cut")
  /\ UNCHANGED <<traits, payload, results, runs, flows>>

OperatorGoesOn ==
  \E k \in operator.now \cup operator.todo :
    \/ OperatorLaunches(k)
    \/ Restart(k) \/ RestartFails(k) \/ CloseUnrestarted(k)
    \/ Terminate(k) \/ TerminateFails(k) \/ MarkRepaired(k)

OperatorAsks ==
  \/ \E p \in Posts, kind \in Kinds : OperatorStarts(p, kind)
  \/ \E k \in Keys : OperatorRetries(k)
  \/ OperatorRepairs

EnrichmentInit ==
  /\ traits \in [Posts -> PostTraits]
  /\ payload = [p \in Posts |-> "none"]
  /\ results = [k \in Keys |-> FALSE]
  /\ runs = [k \in Keys |-> "absent"]
  /\ flows = [k \in Keys |-> "absent"]
  /\ operator = Idle
  /\ faults = 0

EnrichmentNext ==
  \/ \E p \in Posts, kind \in Kinds : FlowStep(p, kind) \/ FlowFails(<<p, kind>>)
  \/ OperatorAsks \/ OperatorGoesOn \/ OperatorDies

-----------------------------------------------------------------------------
(* Types of the tables and of what works on them. *)
EnrichmentTypeOK ==
  /\ traits \in [Posts -> PostTraits]
  /\ payload \in [Posts -> {"none", "candidate", "picked"}]
  /\ results \in [Keys -> BOOLEAN]
  /\ runs \in [Keys -> Statuses]
  /\ flows \in [Keys -> Points \cup {"absent", "ended"}]
  /\ operator \in [at : OperatorPoints, now : SUBSET Keys, todo : SUBSET Keys]
  /\ faults \in 0..MaxFaults

(* What readers of post_enrichment_runs rely on; see EnrichmentLedger. *)
Ledger == INSTANCE EnrichmentLedger WITH
  Keys <- Keys,
  status <- runs,
  written <- results
=============================================================================
