---------------------------- MODULE CurationProofs ----------------------------
(***************************************************************************)
(* Proofs about Curation and Enrichment, for any posts, kinds, curators    *)
(* and faults.                                                             *)
(***************************************************************************)
EXTENDS Curation, TLAPS

Vision(p) == <<p, "vision">>
Attribution(p) == <<p, "source-attribution">>

(* A tweet of text has nothing to store. *)
TextTweet(p) == traits[p].twitter /\ traits[p].embed = "none"

-----------------------------------------------------------------------------
(***************************************************************************)
(* Runs and workflows                                                      *)
(***************************************************************************)
(* A workflow has its run, and a run the payload it refers to. *)
RowsFirst ==
  \A k \in Keys :
    /\ flows[k] # "absent" => runs[k] # "absent"
    /\ runs[k] # "absent" => HasPayload(k)

(* What the plan found stays true until the result is stored. *)
PlanStands ==
  \A k \in Keys :
    flows[k] \in {"executing", "saving", "storing"}
      => /\ payload[k[1]] = "picked"
         /\ k[2] = "source-attribution" => ~AwaitsVision(k[1])

(* A workflow that queues the attribution, or is about to complete its     *)
(* run, has stored its result; past the insert the attribution is queued.  *)
ResultFirst ==
  \A k \in Keys :
    /\ flows[k] \in LaunchPoints \cup {"completing"} => results[k]
    /\ k[2] = "vision" /\ flows[k] \in {"create", "close", "completing"}
         => runs[Attribution(k[1])] # "absent"

(* The operator has one run in hand at a time. *)
OneInHand ==
  /\ operator.at = "idle" => operator.now = {} /\ operator.todo = {}
  /\ operator.at = "terminating" => operator.now = {}
  /\ operator.at \notin {"terminating", "marking"} => operator.todo = {}
  /\ \A k, l \in operator.now : k = l
  /\ operator.at \in {"create", "close"} => \A k \in operator.now : runs[k] # "absent"

Retried(k) == operator.at \in {"restart", "unrestarted"} /\ k \in operator.now

(* The workflow of a queued run has not come to a step that expects it to  *)
(* be running; only the retry of an operator puts a run back to queued     *)
(* under a workflow further on.                                            *)
QueuedIsFresh ==
  \A k \in Keys :
    runs[k] = "queued" =>
      flows[k] \in {"absent", "assembling", "catching", "ended"} \/ Retried(k) \/ faults > 0

(* Who is between the insert of a run and its workflow.                    *)
CreatorsOf(k) ==
  {<<"curator", c>> : c \in {c \in Curators :
     /\ requests[c] # NoRequest
     /\ requests[c].at = "create"
     /\ k = <<requests[c].post, PrimaryKind(requests[c].post)>>}}
  \cup {<<"flow", p>> : p \in {p \in Posts : k = Attribution(p) /\ flows[Vision(p)] = "create"}}
  \cup {<<"operator", l>> : l \in {l \in operator.now : operator.at = "create" /\ k = l}}

(* A workflow is created once: by who inserted the run.                    *)
OneCreator ==
  \A k \in Keys :
    /\ \A x, y \in CreatorsOf(k) : x = y
    /\ CreatorsOf(k) # {} => flows[k] = "absent"

-----------------------------------------------------------------------------
(***************************************************************************)
(* Curators                                                                *)
(***************************************************************************)
(* A request that will queue a run has the payload picked by the time it   *)
(* writes the status; only a tweet of text is curated without.             *)
RequestSound(c) ==
  LET r == requests[c] IN
  /\ r.at \in {"capture", "pick"} => r.queue /\ ~TextTweet(r.post)
  /\ r.at \in LaunchPoints => r.queue
  /\ r.queue /\ r.at \in {"status"} \cup LaunchPoints => payload[r.post] = "picked"
  /\ r.at = "status" /\ r.to = "curated" => r.queue \/ TextTweet(r.post)
  /\ r.at \in {"create", "close"} => runs[<<r.post, PrimaryKind(r.post)>>] # "absent"

RequestsSound == \A c \in Curators : requests[c] # NoRequest => RequestSound(c)

(* A curated post is stored, picked, or has nothing to store. *)
CuratedIsStored ==
  \A p \in Posts :
    /\ TextTweet(p) => payload[p] = "none"
    /\ curation[p] = "curated" => payload[p] = "picked" \/ TextTweet(p)

IInv ==
  /\ TypeOK
  /\ RowsFirst /\ PlanStands /\ ResultFirst /\ OneInHand /\ QueuedIsFresh /\ OneCreator
  /\ RequestsSound /\ CuratedIsStored
  /\ EnrichedIsPicked /\ AttributedAfterVision /\ CompleteIsPassedOn
  /\ NoneStranded /\ CuratedIsQueued

-----------------------------------------------------------------------------
LEMMA KeyFacts ==
  /\ \A p \in Posts, kind \in Kinds : <<p, kind>> \in Keys
  /\ \A p \in Posts : Vision(p) \in Keys /\ Attribution(p) \in Keys
  /\ \A k \in Keys : k[1] \in Posts /\ k[2] \in Kinds /\ k = <<k[1], k[2]>>
  BY EnrichmentAssumption DEF Keys, Vision, Attribution

LEMMA InitInv == Init => IInv
<1> SUFFICES ASSUME Init PROVE IInv
  OBVIOUS
<1>1. MaxFaults \in Nat
  BY EnrichmentAssumption
<1>2. TypeOK
  BY <1>1 DEF Init, EnrichmentInit, TypeOK, EnrichmentTypeOK, Statuses, Idle, OperatorPoints
<1>3. \A k \in Keys : runs[k] = "absent" /\ flows[k] = "absent" /\ ~results[k]
  BY DEF Init, EnrichmentInit
<1>4. \A p \in Posts, kind \in Kinds : <<p, kind>> \in Keys
  BY KeyFacts
<1>5. \A p \in Posts : Vision(p) \in Keys /\ Attribution(p) \in Keys
  BY KeyFacts
<1>6. RowsFirst /\ PlanStands /\ ResultFirst /\ QueuedIsFresh
  BY <1>3 DEF RowsFirst, PlanStands, ResultFirst, QueuedIsFresh, LaunchPoints
<1>7. OneInHand
  BY DEF Init, EnrichmentInit, OneInHand, Idle
<1>8. RequestsSound /\ CuratedIsStored /\ CuratedIsQueued
  BY DEF Init, EnrichmentInit, RequestsSound, CuratedIsStored, CuratedIsQueued
<1>9. EnrichedIsPicked
  BY <1>3, <1>4 DEF EnrichedIsPicked
<1>10. AttributedAfterVision /\ CompleteIsPassedOn
  BY <1>3, <1>5 DEF AttributedAfterVision, CompleteIsPassedOn, Vision, Attribution
<1>11. NoneStranded
  BY <1>3 DEF NoneStranded, Stranded, Active, ActiveStatuses
<1>12. OneCreator
  BY <1>3, <1>5 DEF Init, EnrichmentInit, Idle, OneCreator, CreatorsOf
<1> QED
  BY <1>2, <1>6, <1>7, <1>8, <1>9, <1>10, <1>11, <1>12 DEF IInv

-----------------------------------------------------------------------------
(***************************************************************************)
(* The workflows                                                           *)
(***************************************************************************)
(* One workflow goes to a point; it may write its run and its result.      *)
LEMMA FlowMoves ==
  ASSUME IInv, NEW k \in Keys, NEW point \in Points \cup {"ended"},
         NEW status \in Statuses \ {"absent"}, NEW written \in BOOLEAN,
         flows[k] # "absent",
         flows' = [flows EXCEPT ![k] = point],
         runs' = [runs EXCEPT ![k] = status],
         results' = [results EXCEPT ![k] = written],
         faults' \in 0..MaxFaults, faults' >= faults,
         UNCHANGED <<traits, payload, operator, curation, requests>>,
         results[k] => written,
         written => \/ results[k]
                    \/ /\ payload[k[1]] = "picked"
                       /\ k[2] = "source-attribution" => ~AwaitsVision(k[1]),
         point \in {"executing", "saving", "storing"} =>
           /\ payload[k[1]] = "picked"
           /\ k[2] = "source-attribution" => ~AwaitsVision(k[1]),
         point \in LaunchPoints \cup {"completing"} => written,
         k[2] = "vision" /\ (point \in {"create", "close", "completing"} \/ status = "complete")
           => runs[Attribution(k[1])] # "absent",
         point # "create",
         status \in ActiveStatuses /\ point = "ended" => InHand(k) \/ faults' > 0,
         status = "queued" =>
           point \in {"assembling", "catching", "ended"} \/ Retried(k) \/ faults' > 0,
         k[2] = "vision" /\ flows[k] \in {"create", "close"} => faults' > 0
  PROVE  IInv'
<1>1. /\ faults \in 0..MaxFaults /\ MaxFaults \in Nat
      /\ runs \in [Keys -> Statuses] /\ results \in [Keys -> BOOLEAN]
      /\ flows \in [Keys -> Points \cup {"absent", "ended"}]
  BY EnrichmentAssumption DEF IInv, TypeOK, EnrichmentTypeOK
<1>2. /\ runs'[k] = status /\ flows'[k] = point /\ results'[k] = written
      /\ \A l \in Keys : l # k => runs'[l] = runs[l] /\ flows'[l] = flows[l] /\ results'[l] = results[l]
      /\ \A l \in Keys : results[l] => results'[l]
      /\ \A l \in Keys : runs[l] # "absent" => runs'[l] # "absent"
  BY <1>1
<1>3. TypeOK'
  BY <1>1 DEF IInv, TypeOK, EnrichmentTypeOK
<1>4. RowsFirst'
  BY <1>2 DEF IInv, RowsFirst, HasPayload
<1>5. \A p \in Posts : ~AwaitsVision(p) => ~AwaitsVision(p)'
  BY <1>2, KeyFacts DEF AwaitsVision, VisionKnown, Visual, Vision
<1>6. PlanStands'
  BY <1>2, <1>5, KeyFacts DEF IInv, PlanStands
<1>7. ResultFirst'
  <2>1. ASSUME NEW l \in Keys, flows'[l] \in LaunchPoints \cup {"completing"} PROVE results'[l]
    BY <1>2, <2>1 DEF IInv, ResultFirst
  <2>2. ASSUME NEW l \in Keys, l[2] = "vision", flows'[l] \in {"create", "close", "completing"}
        PROVE  runs'[Attribution(l[1])] # "absent"
    <3>1. runs[Attribution(l[1])] # "absent"
      BY <1>2, <2>2 DEF IInv, ResultFirst
    <3> QED
      BY <1>2, <3>1, KeyFacts
  <2> QED
    BY <2>1, <2>2 DEF ResultFirst
<1>8. OneInHand'
  <2>1. operator.now \subseteq Keys
    BY DEF IInv, TypeOK, EnrichmentTypeOK
  <2> QED
    BY <1>2, <2>1 DEF IInv, OneInHand
<1>9. QueuedIsFresh'
  BY <1>1, <1>2 DEF IInv, QueuedIsFresh, Retried
<1>10. RequestsSound'
  <2> SUFFICES ASSUME NEW c \in Curators, requests[c] # NoRequest PROVE RequestSound(c)'
    BY DEF RequestsSound
  <2>1. requests[c].post \in Posts
    BY DEF IInv, TypeOK, Request
  <2>2. <<requests[c].post, PrimaryKind(requests[c].post)>> \in Keys
    BY <2>1, KeyFacts, EnrichmentAssumption DEF PrimaryKind
  <2> QED
    BY <1>2, <2>2 DEF IInv, RequestsSound, RequestSound, TextTweet, PrimaryKind, Visual
<1>11. CuratedIsStored'
  BY DEF IInv, CuratedIsStored, TextTweet
<1>12. EnrichedIsPicked'
  BY <1>2, KeyFacts DEF IInv, EnrichedIsPicked
<1>13. AttributedAfterVision'
  <2> SUFFICES ASSUME NEW p \in Posts, Visual(p), results'[Attribution(p)]
               PROVE  results'[Vision(p)]
    BY DEF AttributedAfterVision, VisionKnown, Visual, Vision, Attribution
  <2>1. Attribution(p) \in Keys /\ Vision(p) \in Keys
    BY KeyFacts
  <2>2. results[Attribution(p)] \/ ~AwaitsVision(p)
    BY <1>2, <2>1 DEF Attribution
  <2>3. results[Vision(p)]
    BY <2>2 DEF IInv, AttributedAfterVision, AwaitsVision, VisionKnown, Attribution, Vision
  <2> QED
    BY <1>2, <2>1, <2>3
<1>14. CompleteIsPassedOn'
  <2> SUFFICES ASSUME NEW p \in Posts, runs'[Vision(p)] = "complete"
               PROVE  runs'[Attribution(p)] # "absent"
    BY DEF CompleteIsPassedOn, Vision, Attribution
  <2>1. Attribution(p) \in Keys /\ Vision(p) \in Keys
    BY KeyFacts
  <2>2. runs[Attribution(p)] # "absent"
    <3>1. CASE Vision(p) = k
      BY <1>2, <2>1, <3>1 DEF Vision
    <3>2. CASE Vision(p) # k
      BY <1>2, <2>1, <3>2 DEF IInv, CompleteIsPassedOn, Vision, Attribution
    <3> QED
      BY <3>1, <3>2
  <2> QED
    BY <1>2, <2>1, <2>2
<1>15. NoneStranded'
  <2> SUFFICES ASSUME faults' = 0, NEW l \in Keys, Active(l)' PROVE Live(l)' \/ InHand(l)'
    BY <1>1 DEF NoneStranded, Stranded
  <2>1. faults = 0
    BY <1>1
  <2>2. ASSUME InHand(l) PROVE InHand(l)'
    <3>1. ASSUME NEW p \in Posts, l = Attribution(p), flows[Vision(p)] \in {"create", "close"}
          PROVE  flows'[Vision(p)] \in {"create", "close"}
      BY <1>1, <1>2, <3>1, KeyFacts DEF Vision
    <3> QED
      BY <2>2, <3>1 DEF InHand, PrimaryKind, Visual, Vision, Attribution
  <2>3. CASE l = k
    BY <1>2, <2>2, <2>3 DEF Active, Live
  <2>4. CASE l # k
    <3>1. Active(l) /\ (Live(l) => Live(l)')
      BY <1>2, <2>4 DEF Active, Live
    <3> QED
      BY <2>1, <2>2, <3>1 DEF IInv, NoneStranded, Stranded
  <2> QED
    BY <2>3, <2>4
<1>16. CuratedIsQueued'
  <2> SUFFICES ASSUME NEW p \in Posts, curation[p] = "curated", payload[p] = "picked", faults' = 0,
                      ~ \E c \in Curators : Handling(c, "insert") /\ requests[c].post = p
               PROVE  runs'[<<p, PrimaryKind(p)>>] # "absent"
    BY <1>1 DEF CuratedIsQueued, Handling, PrimaryKind, Visual
  <2>1. runs[<<p, PrimaryKind(p)>>] # "absent"
    BY <1>1 DEF IInv, CuratedIsQueued
  <2>2. <<p, PrimaryKind(p)>> \in Keys
    BY KeyFacts, EnrichmentAssumption DEF PrimaryKind
  <2> QED
    BY <1>2, <2>1, <2>2
<1>17. OneCreator'
  <2>1. ASSUME NEW l \in Keys PROVE CreatorsOf(l)' \subseteq CreatorsOf(l)
    <3>1. \A p \in Posts : flows'[Vision(p)] = "create" => flows[Vision(p)] = "create"
      BY <1>2, KeyFacts
    <3> QED
      BY <3>1 DEF CreatorsOf, PrimaryKind, Visual
  <2>2. \A l \in Keys : flows[l] = "absent" => flows'[l] = "absent"
    BY <1>2
  <2> QED
    BY <2>1, <2>2 DEF IInv, OneCreator
<1> QED
  BY <1>3, <1>4, <1>6, <1>7, <1>8, <1>9, <1>10, <1>11, <1>12, <1>13, <1>14, <1>15, <1>16, <1>17
     DEF IInv

(* The tables and flows of one workflow, as its steps see them.            *)
LEMMA FlowTypes ==
  ASSUME IInv, NEW k \in Keys, Live(k)
  PROVE  /\ runs \in [Keys -> Statuses] /\ results \in [Keys -> BOOLEAN]
         /\ flows \in [Keys -> Points \cup {"absent", "ended"}]
         /\ faults \in 0..MaxFaults /\ MaxFaults \in Nat
         /\ runs[k] \in Statuses \ {"absent"} /\ results[k] \in BOOLEAN /\ flows[k] # "absent"
         /\ k[2] = "vision" /\ runs[k] = "complete" => runs[Attribution(k[1])] # "absent"
         /\ runs = [runs EXCEPT ![k] = runs[k]] /\ results = [results EXCEPT ![k] = results[k]]
<1>1. /\ runs \in [Keys -> Statuses] /\ results \in [Keys -> BOOLEAN]
      /\ flows \in [Keys -> Points \cup {"absent", "ended"}]
      /\ faults \in 0..MaxFaults /\ MaxFaults \in Nat
  BY EnrichmentAssumption DEF IInv, TypeOK, EnrichmentTypeOK
<1>2. flows[k] # "absent" /\ runs[k] # "absent"
  BY DEF IInv, RowsFirst, Live, Points
<1>3. k[2] = "vision" /\ runs[k] = "complete" => runs[Attribution(k[1])] # "absent"
  BY KeyFacts DEF IInv, CompleteIsPassedOn, Attribution
<1> QED
  BY <1>1, <1>2, <1>3

(* What an update leaves of a run.                                         *)
LEMMA Updates ==
  ASSUME NEW k \in Keys, runs \in [Keys -> Statuses], runs[k] # "absent"
  PROVE  /\ \E status \in Statuses \ {"absent", "queued"} :
              /\ MarkPhase(k) = [runs EXCEPT ![k] = status]
              /\ status \in {"running", runs[k]}
         /\ \E status \in Statuses \ {"absent", "running"} :
              /\ MarkComplete(k) = [runs EXCEPT ![k] = status]
              /\ status \in {"complete", runs[k]}
         /\ \E status \in Statuses \ {"absent", "running"} :
              /\ MarkNeedsReview(k) = [runs EXCEPT ![k] = status]
              /\ status \in {"needs-review", runs[k]}
         /\ \E status \in Statuses \ ({"absent"} \cup ActiveStatuses) :
              /\ MarkFailed(k) = [runs EXCEPT ![k] = status]
              /\ status \in {"failed", runs[k]}
<1>1. runs = [runs EXCEPT ![k] = runs[k]] /\ runs[k] \in Statuses
  OBVIOUS
<1>2. \E status \in Statuses \ {"absent", "queued"} :
         MarkPhase(k) = [runs EXCEPT ![k] = status] /\ status \in {"running", runs[k]}
  <2>1. CASE Active(k)
    BY <1>1, <2>1 DEF MarkPhase, Set, Statuses
  <2>2. CASE ~Active(k)
    BY <1>1, <2>2 DEF MarkPhase, Active, ActiveStatuses
  <2> QED
    BY <2>1, <2>2
<1>3. \E status \in Statuses \ {"absent", "running"} :
         MarkComplete(k) = [runs EXCEPT ![k] = status] /\ status \in {"complete", runs[k]}
  <2>1. CASE runs[k] = "running"
    BY <1>1, <2>1 DEF MarkComplete, Set, Statuses
  <2>2. CASE runs[k] # "running"
    BY <1>1, <2>2 DEF MarkComplete
  <2> QED
    BY <2>1, <2>2
<1>4. \E status \in Statuses \ {"absent", "running"} :
         MarkNeedsReview(k) = [runs EXCEPT ![k] = status] /\ status \in {"needs-review", runs[k]}
  <2>1. CASE runs[k] = "running"
    BY <1>1, <2>1 DEF MarkNeedsReview, Set, Statuses
  <2>2. CASE runs[k] # "running"
    BY <1>1, <2>2 DEF MarkNeedsReview
  <2> QED
    BY <2>1, <2>2
<1>5. \E status \in Statuses \ ({"absent"} \cup ActiveStatuses) :
         MarkFailed(k) = [runs EXCEPT ![k] = status] /\ status \in {"failed", runs[k]}
  <2>1. CASE Active(k)
    BY <1>1, <2>1 DEF MarkFailed, Set, Statuses, ActiveStatuses
  <2>2. CASE ~Active(k)
    BY <1>1, <2>2 DEF MarkFailed, Active
  <2> QED
    BY <2>1, <2>2
<1> QED
  BY <1>2, <1>3, <1>4, <1>5

LEMMA MarkPhaseFlow ==
  ASSUME IInv, NEW k \in Keys, MarkPhaseStep(k), UNCHANGED <<curation, requests>>
  PROVE  IInv'
<1>1. Live(k) /\ flows[k] \in {"assembling", "executing"}
  BY DEF MarkPhaseStep, Live, Points
<1>2. PICK status \in Statuses \ {"absent", "queued"} :
        MarkPhase(k) = [runs EXCEPT ![k] = status] /\ status \in {"running", runs[k]}
  BY <1>1, FlowTypes, Updates
<1>3. PICK point \in {"deciding", "saving"} :
        /\ flows' = [flows EXCEPT ![k] = point]
        /\ point = "saving" => flows[k] = "executing"
  BY DEF MarkPhaseStep, Goto
<1>4. /\ UNCHANGED <<traits, payload, results, operator, faults>>
      /\ runs' = [runs EXCEPT ![k] = status]
  BY <1>2 DEF MarkPhaseStep
<1>5. point = "saving" =>
        /\ payload[k[1]] = "picked"
        /\ k[2] = "source-attribution" => ~AwaitsVision(k[1])
  BY <1>3 DEF IInv, PlanStands
<1>6. faults' \in 0..MaxFaults /\ faults' >= faults /\ results' = [results EXCEPT ![k] = results[k]]
  BY <1>1, <1>4, FlowTypes
<1>7. /\ point \in Points \cup {"ended"} /\ point # "ended"
      /\ point \notin LaunchPoints \cup {"completing", "executing", "storing"}
      /\ status # "queued" /\ flows[k] \notin {"create", "close"}
  BY <1>1, <1>2 DEF Points, LaunchPoints
<1>8. status = "complete" => runs[k] = "complete"
  BY <1>2
<1> QED
  BY <1>1, <1>3, <1>4, <1>5, <1>6, <1>7, <1>8, FlowTypes, FlowMoves

(* A workflow that goes on without touching the tables.                    *)
LEMMA FlowGoes ==
  ASSUME IInv, NEW k \in Keys, Live(k), NEW point \in Points \cup {"ended"}, Goto(k, point),
         UNCHANGED <<traits, payload, results, runs, operator, curation, requests>>,
         faults' \in 0..MaxFaults, faults' >= faults,
         flows[k] \notin {"assembling", "catching"} \/ point = "catching" \/ faults' > 0,
         point \in {"executing", "saving", "storing"} =>
           /\ payload[k[1]] = "picked"
           /\ k[2] = "source-attribution" => ~AwaitsVision(k[1]),
         point \notin {"create", "close", "completing"},
         point = "insert" => results[k],
         point = "ended" => faults' > 0,
         flows[k] \in {"create", "close"} => faults' > 0
  PROVE  IInv'
<1>1. /\ runs' = [runs EXCEPT ![k] = runs[k]] /\ results' = [results EXCEPT ![k] = results[k]]
      /\ flows' = [flows EXCEPT ![k] = point]
  BY FlowTypes DEF Goto
<1>2. runs[k] = "queued" =>
        point \in {"assembling", "catching", "ended"} \/ Retried(k) \/ faults' > 0
  <2>1. faults \in Nat /\ faults' \in Nat
    BY EnrichmentAssumption DEF IInv, TypeOK, EnrichmentTypeOK
  <2>2. runs[k] = "queued" =>
          flows[k] \in {"absent", "assembling", "catching", "ended"} \/ Retried(k) \/ faults > 0
    BY DEF IInv, QueuedIsFresh
  <2>3. flows[k] \notin {"absent", "ended"}
    BY DEF Live, Points
  <2> QED
    BY <2>1, <2>2, <2>3
<1>3. point \in LaunchPoints \cup {"completing"} => results[k]
  BY DEF LaunchPoints
<1> QED
  BY <1>1, <1>2, <1>3, FlowTypes, FlowMoves

LEMMA PlanFlow ==
  ASSUME IInv, NEW p \in Posts, NEW kind \in Kinds, Plan(p, kind), UNCHANGED <<curation, requests>>
  PROVE  IInv'
<1> DEFINE k == <<p, kind>>
<1>1. k \in Keys /\ k[1] = p /\ k[2] = kind
  BY KeyFacts
<1>2. /\ flows[k] = "deciding" /\ Live(k)
      /\ UNCHANGED <<traits, payload, results, runs, operator, faults>>
  BY DEF Plan, Live, Points
<1>3. PICK point \in {"catching", "executing", "reviewing"} :
        /\ Goto(k, point)
        /\ point = "executing" => payload[p] = "picked" /\ CanExecute(p, kind)
  <2>1. CASE payload[p] # "picked"
    BY <2>1 DEF Plan
  <2>2. CASE payload[p] = "picked" /\ CanExecute(p, kind)
    BY <2>2 DEF Plan
  <2>3. CASE payload[p] = "picked" /\ ~CanExecute(p, kind)
    BY <2>3 DEF Plan
  <2> QED
    BY <2>1, <2>2, <2>3
<1>4. CanExecute(p, kind) /\ kind = "source-attribution" => ~AwaitsVision(p)
  BY DEF CanExecute
<1>5. faults' \in 0..MaxFaults /\ faults' >= faults
  BY <1>1, <1>2, FlowTypes
<1>6. point \in Points
  BY DEF Points
<1> HIDE DEF k
<1> QED
  BY <1>1, <1>2, <1>3, <1>4, <1>5, <1>6, FlowGoes

LEMMA ReadStageFlow ==
  ASSUME IInv, NEW p \in Posts, NEW kind \in Kinds, ReadStage(p, kind),
         UNCHANGED <<curation, requests>>
  PROVE  IInv'
<1> DEFINE k == <<p, kind>>
<1>1. k \in Keys /\ k[1] = p /\ k[2] = kind
  BY KeyFacts
<1>2. /\ flows[k] = "saving" /\ Live(k)
      /\ UNCHANGED <<traits, payload, results, runs, operator, faults>>
  BY DEF ReadStage, Live, Points
<1>3. PICK point \in {"catching", "storing"} : Goto(k, point)
  BY DEF ReadStage
<1>4. payload[k[1]] = "picked" /\ (k[2] = "source-attribution" => ~AwaitsVision(k[1]))
  BY <1>1, <1>2 DEF IInv, PlanStands
<1>5. faults' \in 0..MaxFaults /\ faults' >= faults
  BY <1>1, <1>2, FlowTypes
<1>6. point \in Points
  BY DEF Points
<1> HIDE DEF k
<1> QED
  BY <1>1, <1>2, <1>3, <1>4, <1>5, <1>6, FlowGoes

LEMMA StoreResultFlow ==
  ASSUME IInv, NEW p \in Posts, NEW kind \in Kinds, StoreResult(p, kind),
         UNCHANGED <<curation, requests>>
  PROVE  IInv'
<1> DEFINE k == <<p, kind>>
<1>1. k \in Keys /\ k[1] = p /\ k[2] = kind
  BY KeyFacts
<1>2. /\ flows[k] = "storing" /\ Live(k)
      /\ results' = [results EXCEPT ![k] = TRUE]
      /\ UNCHANGED <<traits, payload, runs, operator, faults>>
  BY DEF StoreResult, Stored, Live, Points
<1>3. PICK point \in {"insert", "reviewing", "completing"} :
        /\ flows' = [flows EXCEPT ![k] = point]
        /\ kind = "vision" => point # "completing"
  BY DEF StoreResult, Goto
<1>4. payload[k[1]] = "picked" /\ (k[2] = "source-attribution" => ~AwaitsVision(k[1]))
  BY <1>1, <1>2 DEF IInv, PlanStands
<1>5. faults' \in 0..MaxFaults /\ faults' >= faults /\ runs' = [runs EXCEPT ![k] = runs[k]]
  BY <1>1, <1>2, FlowTypes
<1>6. point \in Points /\ point # "ended" /\ point \notin {"executing", "saving", "storing", "create", "close"}
  BY DEF Points
<1>7. runs[k] = "queued" => Retried(k) \/ faults' > 0
  BY <1>1, <1>2 DEF IInv, QueuedIsFresh
<1> HIDE DEF k
<1> QED
  BY <1>1, <1>2, <1>3, <1>4, <1>5, <1>6, <1>7, FlowTypes, FlowMoves

LEMMA LastStepFlow ==
  ASSUME IInv, NEW k \in Keys, LastStep(k), UNCHANGED <<curation, requests>>
  PROVE  IInv'
<1>1. Live(k) /\ flows[k] \in {"completing", "reviewing", "catching"}
  BY DEF LastStep, Live, Points
<1>2. PICK point \in {"ended", "catching"} : flows' = [flows EXCEPT ![k] = point]
  BY DEF LastStep, Goto
<1>3. runs[k] = "queued" => flows[k] = "catching" \/ Retried(k) \/ faults > 0
  BY <1>1 DEF IInv, QueuedIsFresh
<1>4. PICK status \in Statuses \ {"absent", "running"} :
        /\ runs' = [runs EXCEPT ![k] = status]
        /\ status = "queued" => Retried(k) \/ faults > 0
        /\ status = "complete" => runs[k] = "complete" \/ flows[k] = "completing"
  <2>1. CASE flows[k] = "completing"
    <3>1. PICK status \in Statuses \ {"absent", "running"} :
            MarkComplete(k) = [runs EXCEPT ![k] = status] /\ status \in {"complete", runs[k]}
      BY <1>1, FlowTypes, Updates
    <3>2. runs' = MarkComplete(k)
      BY <2>1 DEF LastStep
    <3> QED
      BY <1>3, <2>1, <3>1, <3>2
  <2>2. CASE flows[k] = "reviewing"
    <3>1. PICK status \in Statuses \ {"absent", "running"} :
            /\ MarkNeedsReview(k) = [runs EXCEPT ![k] = status]
            /\ status \in {"needs-review", runs[k]}
      BY <1>1, FlowTypes, Updates
    <3>2. runs' = MarkNeedsReview(k)
      BY <2>2 DEF LastStep
    <3> QED
      BY <1>3, <2>2, <3>1, <3>2
  <2>3. CASE flows[k] = "catching"
    <3>1. PICK status \in Statuses \ ({"absent"} \cup ActiveStatuses) :
            MarkFailed(k) = [runs EXCEPT ![k] = status] /\ status \in {"failed", runs[k]}
      BY <1>1, FlowTypes, Updates
    <3>2. runs' = MarkFailed(k)
      BY <2>3 DEF LastStep
    <3> QED
      BY <3>1, <3>2 DEF ActiveStatuses
  <2> QED
    BY <1>1, <2>1, <2>2, <2>3
<1>5. UNCHANGED <<traits, payload, results, operator, faults>>
  BY DEF LastStep
<1>6. faults' \in 0..MaxFaults /\ faults' >= faults /\ results' = [results EXCEPT ![k] = results[k]]
  BY <1>1, <1>5, FlowTypes
<1>7. k[2] = "vision" /\ status = "complete" => runs[Attribution(k[1])] # "absent"
  BY <1>1, <1>4, FlowTypes DEF IInv, ResultFirst
<1>8. status \in ActiveStatuses => InHand(k) \/ faults' > 0
  BY <1>4, <1>5 DEF ActiveStatuses, Retried, InHand
<1>9. status = "queued" => Retried(k) \/ faults' > 0
  BY <1>4, <1>5
<1>10. /\ point \in Points \cup {"ended"}
       /\ point \notin LaunchPoints \cup {"completing", "executing", "saving", "storing"}
       /\ flows[k] \notin {"create", "close"}
  BY <1>1 DEF Points, LaunchPoints
<1> QED
  BY <1>1, <1>2, <1>4, <1>5, <1>6, <1>7, <1>8, <1>9, <1>10, FlowTypes, FlowMoves

LEMMA StepExhaustedFlow ==
  ASSUME IInv, NEW k \in Keys, StepExhausted(k), UNCHANGED <<curation, requests>>
  PROVE  IInv'
<1>1. /\ Live(k) /\ Goto(k, "catching") /\ flows[k] \notin {"create", "close"}
      /\ UNCHANGED <<traits, payload, results, runs, operator, faults>>
  BY DEF StepExhausted, LaunchPoints
<1>2. faults' \in 0..MaxFaults /\ faults' >= faults
  BY <1>1, FlowTypes
<1>3. "catching" \in Points \cup {"ended"}
  BY DEF Points
<1> QED
  BY <1>1, <1>2, <1>3, FlowGoes

LEMMA Faults ==
  ASSUME IInv, NEW kind, Fault(kind)
  PROVE  faults' \in 0..MaxFaults /\ faults' >= faults /\ faults' > 0 /\ faults \in Nat
  BY EnrichmentAssumption DEF Fault, IInv, TypeOK, EnrichmentTypeOK

LEMMA LaunchCutFlow ==
  ASSUME IInv, NEW k \in Keys, LaunchCut(k), UNCHANGED <<curation, requests>>
  PROVE  IInv'
<1>1. /\ Live(k) /\ Goto(k, "insert") /\ flows[k] \in {"create", "close"} /\ Fault("cut")
      /\ UNCHANGED <<traits, payload, results, runs, operator>>
  BY DEF LaunchCut, Live, Points
<1>2. results[k]
  BY <1>1 DEF IInv, ResultFirst, LaunchPoints
<1>3. "insert" \in Points \cup {"ended"}
  BY DEF Points
<1> QED
  BY <1>1, <1>2, <1>3, Faults, FlowGoes

LEMMA CatchFailsFlow ==
  ASSUME IInv, NEW k \in Keys, CatchFails(k), UNCHANGED <<curation, requests>>
  PROVE  IInv'
<1>1. /\ Live(k) /\ Goto(k, "ended") /\ flows[k] = "catching" /\ Fault("mark")
      /\ UNCHANGED <<traits, payload, results, runs, operator>>
  BY DEF CatchFails, Live, Points
<1> QED
  BY <1>1, Faults, FlowGoes

-----------------------------------------------------------------------------
(***************************************************************************)
(* The launcher                                                            *)
(***************************************************************************)
(* What one step of a launch does to the row of its run.                   *)
LEMMA LaunchEffect ==
  ASSUME IInv, NEW k \in Keys, NEW at, NEW next, NEW started \in BOOLEAN,
         LaunchStep(k, at, next, started),
         at \in {"create", "close"} => runs[k] # "absent"
  PROVE  \E status \in Statuses :
           /\ runs' = [runs EXCEPT ![k] = status]
           /\ status = runs[k] \/ status = "failed" \/ (runs[k] = "absent" /\ status = "queued")
           /\ status # "absent" => HasPayload(k)
           /\ status = "absent" => next = "failed" /\ ~started /\ (~HasPayload(k) \/ faults' > 0)
           /\ status \in ActiveStatuses =>
                \/ next \in {"create", "close"} \/ started
                \/ at = "insert" /\ status = runs[k]
                \/ faults' > 0
           /\ runs[k] # "absent" => status # "absent"
           /\ at \in {"insert", "create", "close"}
           /\ next \in {"create", "close", "done", "failed"}
           /\ started => next \in {"done", "close"} /\ at = "create"
           /\ next = "create" => at = "insert" /\ runs[k] = "absent" /\ ~started
           /\ at = "create" => next \in {"done", "close"}
           /\ faults' \in 0..MaxFaults /\ faults' >= faults
<1>1. /\ runs \in [Keys -> Statuses] /\ runs = [runs EXCEPT ![k] = runs[k]]
      /\ runs[k] # "absent" => HasPayload(k)
  BY DEF IInv, TypeOK, EnrichmentTypeOK, RowsFirst
<1>2. CASE LaunchGoesOn(k, at, next, started) /\ UNCHANGED faults
  <2>1. faults' \in 0..MaxFaults /\ faults' >= faults
    BY <1>2, EnrichmentAssumption DEF IInv, TypeOK, EnrichmentTypeOK
  <2>2. CASE at = "insert" /\ HasPayload(k) /\ runs[k] = "absent"
    BY <1>1, <1>2, <2>1, <2>2 DEF LaunchGoesOn, CreateQueuedIfAbsent, Set, Statuses
  <2>3. CASE at = "insert" /\ HasPayload(k) /\ runs[k] # "absent"
    BY <1>1, <1>2, <2>1, <2>3 DEF LaunchGoesOn, CreateQueuedIfAbsent
  <2>4. CASE at = "insert" /\ ~HasPayload(k)
    BY <1>1, <1>2, <2>1, <2>4 DEF LaunchGoesOn
  <2>5. CASE at = "create"
    BY <1>1, <1>2, <2>1, <2>5 DEF LaunchGoesOn
  <2>6. CASE at = "close"
    <3>1. PICK status \in Statuses \ ({"absent"} \cup ActiveStatuses) :
            MarkFailed(k) = [runs EXCEPT ![k] = status] /\ status \in {"failed", runs[k]}
      BY <1>1, <2>6, Updates
    <3> QED
      BY <1>1, <1>2, <2>1, <2>6, <3>1 DEF LaunchGoesOn
  <2> QED
    BY <1>2, <2>2, <2>3, <2>4, <2>5, <2>6 DEF LaunchGoesOn
<1>3. CASE LaunchWriteFails(at, next, started)
  <2>1. faults' \in 0..MaxFaults /\ faults' >= faults /\ faults' > 0
    BY <1>3, Faults DEF LaunchWriteFails
  <2>2. runs[k] \in Statuses
    BY <1>1
  <2> QED
    BY <1>1, <1>3, <2>1, <2>2 DEF LaunchWriteFails
<1> QED
  BY <1>2, <1>3 DEF LaunchStep

(* A launch for run k, in the hands of a curator, an operator or, for an   *)
(* attribution, of the vision workflow of the post.                        *)
LEMMA LaunchKeeps ==
  ASSUME IInv, NEW k \in Keys, NEW at, NEW next, NEW started \in BOOLEAN,
         LaunchStep(k, at, next, started),
         at \in {"create", "close"} => runs[k] # "absent",
         flows' \in [Keys -> Points \cup {"absent", "ended"}],
         flows'[k] = (IF started THEN "assembling" ELSE flows[k]),
         \A l \in Keys \ {k} :
           \/ flows'[l] = flows[l]
           \/ /\ l[2] = "vision" /\ k = Attribution(l[1])
              /\ flows[l] \in LaunchPoints
              /\ flows'[l] \in LaunchPoints \cup {"completing", "catching"}
              /\ flows'[l] \in {"create", "close", "completing"} => next # "failed",
         UNCHANGED <<traits, payload, results, curation>>,
         \A l \in Keys : Retried(l) => Retried(l)',
         \A l \in Keys : InHand(l) => InHand(l)' \/ Live(l)' \/ ~Active(l)' \/ faults' > 0,
         next \in {"create", "close"} => InHand(k)'
  PROVE  /\ runs' \in [Keys -> Statuses]
         /\ \A l \in Keys : runs[l] # "absent" => runs'[l] # "absent"
         /\ next # "failed" => runs'[k] # "absent"
         /\ RowsFirst' /\ PlanStands' /\ ResultFirst' /\ QueuedIsFresh' /\ CuratedIsStored'
         /\ EnrichedIsPicked' /\ AttributedAfterVision' /\ CompleteIsPassedOn' /\ NoneStranded'
<1>1. /\ faults \in 0..MaxFaults /\ MaxFaults \in Nat
      /\ runs \in [Keys -> Statuses] /\ results \in [Keys -> BOOLEAN]
      /\ flows \in [Keys -> Points \cup {"absent", "ended"}]
  BY EnrichmentAssumption DEF IInv, TypeOK, EnrichmentTypeOK
<1>2. PICK status \in Statuses :
        /\ runs' = [runs EXCEPT ![k] = status]
        /\ status = runs[k] \/ status = "failed" \/ (runs[k] = "absent" /\ status = "queued")
        /\ status # "absent" => HasPayload(k)
        /\ status = "absent" => next = "failed" /\ ~started
        /\ status \in ActiveStatuses =>
             \/ next \in {"create", "close"} \/ started
             \/ at = "insert" /\ status = runs[k]
             \/ faults' > 0
        /\ runs[k] # "absent" => status # "absent"
        /\ faults' \in 0..MaxFaults /\ faults' >= faults
  BY LaunchEffect
<1>3. /\ runs'[k] = status
      /\ \A l \in Keys : l # k => runs'[l] = runs[l]
      /\ \A l \in Keys : runs[l] # "absent" => runs'[l] # "absent"
      /\ runs' \in [Keys -> Statuses]
  BY <1>1, <1>2
<1>4. next # "failed" => runs'[k] # "absent"
  BY <1>2, <1>3
<1>5. \A l \in Keys : flows'[l] # "absent" => flows[l] # "absent" \/ (l = k /\ started)
  BY DEF LaunchPoints
<1>6. RowsFirst'
  <2>1. ASSUME NEW l \in Keys, flows'[l] # "absent" PROVE runs'[l] # "absent"
    BY <1>2, <1>3, <1>5, <2>1 DEF IInv, RowsFirst
  <2>2. ASSUME NEW l \in Keys, runs'[l] # "absent" PROVE HasPayload(l)'
    BY <1>2, <1>3, <2>2 DEF IInv, RowsFirst, HasPayload
  <2> QED
    BY <2>1, <2>2 DEF RowsFirst
<1>7. PlanStands'
  <2> SUFFICES ASSUME NEW l \in Keys, flows'[l] \in {"executing", "saving", "storing"}
               PROVE  /\ payload[l[1]] = "picked"
                      /\ l[2] = "source-attribution" => ~AwaitsVision(l[1])
    BY DEF PlanStands, AwaitsVision, VisionKnown, Visual
  <2>1. flows[l] = flows'[l]
    BY DEF LaunchPoints
  <2> QED
    BY <2>1 DEF IInv, PlanStands
<1>8. ResultFirst'
  <2>1. ASSUME NEW l \in Keys, flows'[l] \in LaunchPoints \cup {"completing"} PROVE results'[l]
    <3>1. flows[l] \in LaunchPoints \cup {"completing"}
      BY <2>1 DEF LaunchPoints
    <3> QED
      BY <3>1 DEF IInv, ResultFirst
  <2>2. ASSUME NEW l \in Keys, l[2] = "vision", flows'[l] \in {"create", "close", "completing"}
        PROVE  runs'[Attribution(l[1])] # "absent"
    <3>1. Attribution(l[1]) \in Keys
      BY KeyFacts
    <3>2. CASE flows'[l] = flows[l]
      BY <1>3, <2>2, <3>1, <3>2 DEF IInv, ResultFirst
    <3>3. CASE flows'[l] # flows[l]
      BY <1>4, <2>2, <3>3
    <3> QED
      BY <3>2, <3>3
  <2> QED
    BY <2>1, <2>2 DEF ResultFirst
<1>9. QueuedIsFresh'
  <2> SUFFICES ASSUME NEW l \in Keys, runs'[l] = "queued"
               PROVE  \/ flows'[l] \in {"absent", "assembling", "catching", "ended"}
                      \/ Retried(l)' \/ faults' > 0
    BY DEF QueuedIsFresh
  <2>1. CASE runs[l] = "queued"
    <3>1. flows[l] \in {"absent", "assembling", "catching", "ended"} \/ Retried(l) \/ faults > 0
      BY <2>1 DEF IInv, QueuedIsFresh
    <3>2. faults > 0 => faults' > 0
      BY <1>1, <1>2
    <3> QED
      BY <3>1, <3>2 DEF LaunchPoints
  <2>2. CASE runs[l] # "queued"
    <3>1. l = k /\ runs[k] = "absent"
      BY <1>2, <1>3, <2>2
    <3>2. flows[k] = "absent"
      BY <3>1 DEF IInv, RowsFirst
    <3> QED
      BY <3>1, <3>2
  <2> QED
    BY <2>1, <2>2
<1>10. CuratedIsStored'
  BY DEF IInv, CuratedIsStored, TextTweet
<1>11. EnrichedIsPicked' /\ AttributedAfterVision'
  BY DEF IInv, EnrichedIsPicked, AttributedAfterVision, VisionKnown, Visual
<1>12. CompleteIsPassedOn'
  <2> SUFFICES ASSUME NEW p \in Posts, runs'[Vision(p)] = "complete"
               PROVE  runs'[Attribution(p)] # "absent"
    BY DEF CompleteIsPassedOn, Vision, Attribution
  <2>1. Attribution(p) \in Keys /\ Vision(p) \in Keys
    BY KeyFacts
  <2>2. runs[Vision(p)] = "complete"
    BY <1>2, <1>3, <2>1
  <2> QED
    BY <1>3, <2>1, <2>2 DEF IInv, CompleteIsPassedOn, Vision, Attribution
<1>13. NoneStranded'
  <2> SUFFICES ASSUME faults' = 0, NEW l \in Keys, Active(l)' PROVE Live(l)' \/ InHand(l)'
    BY <1>2 DEF NoneStranded, Stranded
  <2>0. faults = 0
    BY <1>1, <1>2
  <2>1. Active(l) \/ l = k
    BY <1>3 DEF Active
  <2>2. Live(l) => Live(l)'
    BY DEF Live, LaunchPoints, Points
  <2>3. CASE Active(l)
    <3>1. Live(l) \/ InHand(l)
      BY <2>0, <2>3 DEF IInv, NoneStranded, Stranded
    <3> QED
      BY <2>2, <3>1
  <2>4. CASE l = k /\ ~Active(l)
    <3>1. next \in {"create", "close"} \/ started
      BY <1>2, <1>3, <2>4 DEF Active
    <3> QED
      BY <2>4, <3>1 DEF Live, Points
  <2> QED
    BY <2>1, <2>3, <2>4
<1> QED
  BY <1>3, <1>4, <1>6, <1>7, <1>8, <1>9, <1>10, <1>11, <1>12, <1>13

(* Runs are never taken away, so requests and curated posts keep theirs.   *)
LEMMA RunsKept ==
  ASSUME IInv, \A l \in Keys : runs[l] # "absent" => runs'[l] # "absent",
         UNCHANGED <<traits, payload, curation, requests>>, faults' >= faults,
         faults' \in 0..MaxFaults
  PROVE  RequestsSound' /\ CuratedIsQueued'
<1>1. \A p \in Posts : <<p, PrimaryKind(p)>> \in Keys
  BY KeyFacts, EnrichmentAssumption DEF PrimaryKind
<1>2. RequestsSound'
  <2> SUFFICES ASSUME NEW c \in Curators, requests[c] # NoRequest PROVE RequestSound(c)'
    BY DEF RequestsSound
  <2>1. requests[c].post \in Posts
    BY DEF IInv, TypeOK, Request
  <2> QED
    BY <1>1, <2>1 DEF IInv, RequestsSound, RequestSound, TextTweet, PrimaryKind, Visual
<1>3. CuratedIsQueued'
  <2> SUFFICES ASSUME NEW p \in Posts, curation[p] = "curated", payload[p] = "picked", ~(faults' > 0),
                      ~ \E c \in Curators : Handling(c, "insert") /\ requests[c].post = p
               PROVE  runs'[<<p, PrimaryKind(p)>>] # "absent"
    BY DEF CuratedIsQueued, Handling, PrimaryKind, Visual
  <2>1. ~(faults > 0)
    BY EnrichmentAssumption DEF IInv, TypeOK, EnrichmentTypeOK
  <2>2. runs[<<p, PrimaryKind(p)>>] # "absent"
    BY <2>1 DEF IInv, CuratedIsQueued
  <2> QED
    BY <1>1, <2>2
<1> QED
  BY <1>2, <1>3

(* Nobody creates the workflow of a run that is not there.                 *)
LEMMA NoCreator ==
  ASSUME IInv, NEW k \in Keys, runs[k] = "absent"
  PROVE  CreatorsOf(k) = {} /\ flows[k] = "absent"
<1>1. ASSUME NEW c \in Curators, requests[c] # NoRequest, requests[c].at = "create"
      PROVE  k # <<requests[c].post, PrimaryKind(requests[c].post)>>
  BY <1>1 DEF IInv, RequestsSound, RequestSound
<1>2. ASSUME NEW p \in Posts, flows[Vision(p)] = "create" PROVE k # Attribution(p)
  <2>1. Vision(p) \in Keys /\ Vision(p)[1] = p /\ Vision(p)[2] = "vision"
    BY KeyFacts DEF Vision
  <2> QED
    BY <1>2, <2>1 DEF IInv, ResultFirst
<1>3. operator.at = "create" => k \notin operator.now
  BY DEF IInv, OneInHand
<1>4. flows[k] = "absent"
  BY DEF IInv, RowsFirst
<1> QED
  BY <1>1, <1>2, <1>3, <1>4 DEF CreatorsOf

LEMMA QueueAttributionFlow ==
  ASSUME IInv, NEW p \in Posts, QueueAttribution(p), UNCHANGED <<curation, requests>>
  PROVE  IInv'
<1> DEFINE k == Vision(p)
           a == Attribution(p)
<1>1. /\ k \in Keys /\ a \in Keys /\ k # a /\ k[1] = p /\ k[2] = "vision" /\ a[1] = p
      /\ \A q \in Posts : Vision(q) \in Keys /\ Vision(q) # a /\ (Vision(q) = k => q = p)
      /\ \A q \in Posts : Attribution(q) = a => q = p
  BY KeyFacts DEF Vision, Attribution
<1>2. PICK next \in Outcomes, started \in BOOLEAN, point \in LaunchPoints \cup {"completing", "catching"} :
        /\ LaunchStep(a, flows[k], next, started)
        /\ flows' = [Created(a, started) EXCEPT ![k] = point]
        /\ point \in {"create", "close", "completing"} => next # "failed"
        /\ next \in {"create", "close"} => point = next
        /\ point = "create" => next = "create"
  <2>1. PICK next \in Outcomes, started \in BOOLEAN :
          /\ LaunchStep(a, flows[k], next, started)
          /\ \E point \in CASE next = "done" -> {"completing"}
                            [] next = "failed" -> {"insert", "catching"}
                            [] OTHER -> {next} :
               flows' = [Created(a, started) EXCEPT ![k] = point]
    BY DEF QueueAttribution, Vision, Attribution
  <2>2. CASE next = "done"
    BY <2>1, <2>2
  <2>3. CASE next = "failed"
    BY <2>1, <2>3 DEF LaunchPoints
  <2>4. CASE next \in {"create", "close"}
    BY <2>1, <2>4 DEF LaunchPoints
  <2> QED
    BY <2>1, <2>2, <2>3, <2>4 DEF Outcomes
<1> HIDE DEF k, a
<1>3. UNCHANGED <<traits, payload, results, operator>>
  BY DEF QueueAttribution
<1>4. flows[k] \in {"create", "close"} => runs[a] # "absent"
  BY <1>1 DEF IInv, ResultFirst, a
<1>5. flows \in [Keys -> Points \cup {"absent", "ended"}]
  BY DEF IInv, TypeOK, EnrichmentTypeOK
<1>6. /\ flows' \in [Keys -> Points \cup {"absent", "ended"}]
      /\ flows'[a] = IF started THEN "assembling" ELSE flows[a]
      /\ flows'[k] = point
      /\ \A l \in Keys : l # a /\ l # k => flows'[l] = flows[l]
  BY <1>1, <1>2, <1>5 DEF Created, Points, LaunchPoints
<1>7. PICK status \in Statuses :
        /\ runs' = [runs EXCEPT ![a] = status]
        /\ status \in ActiveStatuses =>
             \/ next \in {"create", "close"} \/ started
             \/ flows[k] = "insert" /\ status = runs[a]
             \/ faults' > 0
        /\ faults' \in 0..MaxFaults /\ faults' >= faults
        /\ flows[k] \in LaunchPoints
        /\ started => flows[k] = "create"
        /\ next = "create" => flows[k] = "insert" /\ runs[a] = "absent" /\ ~started
        /\ flows[k] = "create" => next \in {"done", "close"}
  BY <1>1, <1>2, <1>4, LaunchEffect DEF LaunchPoints
<1>8. runs'[a] = status
  BY <1>1, <1>7 DEF IInv, TypeOK, EnrichmentTypeOK
<1>9. \A l \in Keys : Retried(l) => Retried(l)'
  BY <1>3 DEF Retried
<1>10. next \in {"create", "close"} => InHand(a)'
  BY <1>2, <1>6 DEF InHand, k, a, Vision, Attribution
<1>11. ASSUME NEW l \in Keys, InHand(l) PROVE InHand(l)' \/ Live(l)' \/ ~Active(l)' \/ faults' > 0
  <2>1. CASE \E q \in Posts : l = Attribution(q) /\ flows[Vision(q)] \in {"create", "close"}
    <3>1. PICK q \in Posts : l = Attribution(q) /\ flows[Vision(q)] \in {"create", "close"}
      BY <2>1
    <3>2. CASE q = p
      <4>1. l = a /\ flows[k] # "insert"
        BY <3>1, <3>2 DEF a, k
      <4> QED
        BY <1>6, <1>7, <1>8, <1>10, <4>1 DEF Active, Live, Points
    <3>3. CASE q # p
      <4>1. flows'[Vision(q)] \in {"create", "close"}
        BY <1>1, <1>6, <3>1, <3>3
      <4> QED
        BY <3>1, <4>1 DEF InHand, Vision, Attribution
    <3> QED
      BY <3>2, <3>3
  <2>2. CASE ~ \E q \in Posts : l = Attribution(q) /\ flows[Vision(q)] \in {"create", "close"}
    BY <1>3, <1>11, <2>2 DEF InHand, PrimaryKind, Visual, Vision, Attribution
  <2> QED
    BY <2>1, <2>2
<1>12. \A l \in Keys \ {a} :
         \/ flows'[l] = flows[l]
         \/ /\ l[2] = "vision" /\ a = Attribution(l[1])
            /\ flows[l] \in LaunchPoints
            /\ flows'[l] \in LaunchPoints \cup {"completing", "catching"}
            /\ flows'[l] \in {"create", "close", "completing"} => next # "failed"
  BY <1>1, <1>2, <1>6, <1>7 DEF a
<1>13. /\ runs' \in [Keys -> Statuses]
       /\ \A l \in Keys : runs[l] # "absent" => runs'[l] # "absent"
       /\ RowsFirst' /\ PlanStands' /\ ResultFirst' /\ QueuedIsFresh' /\ CuratedIsStored'
       /\ EnrichedIsPicked' /\ AttributedAfterVision' /\ CompleteIsPassedOn' /\ NoneStranded'
  BY <1>1, <1>2, <1>3, <1>4, <1>6, <1>9, <1>10, <1>11, <1>12, LaunchKeeps
<1>14. TypeOK'
  BY <1>3, <1>6, <1>7, <1>13 DEF IInv, TypeOK, EnrichmentTypeOK
<1>15. OneInHand'
  BY <1>3, <1>13 DEF IInv, OneInHand, TypeOK, EnrichmentTypeOK
<1>16. faults' >= faults /\ faults' \in 0..MaxFaults
  BY <1>7
<1>17. OneCreator'
  <2>1. ASSUME NEW l \in Keys, l # a
        PROVE  /\ CreatorsOf(l)' \subseteq CreatorsOf(l)
               /\ CreatorsOf(l) # {} => flows'[l] = "absent"
    <3>1. \A q \in Posts : l = Attribution(q) => flows'[Vision(q)] = flows[Vision(q)]
      BY <1>1, <1>6, <2>1 DEF a
    <3>2. CreatorsOf(l)' \subseteq CreatorsOf(l)
      BY <1>3, <3>1 DEF CreatorsOf, PrimaryKind, Visual
    <3>3. flows[l] = "absent" => flows'[l] = "absent"
      BY <1>6, <1>7, <2>1 DEF LaunchPoints
    <3> QED
      BY <3>2, <3>3 DEF IInv, OneCreator
  <2>2. CASE flows[k] = "create"
    <3>1. flows'[k] # "create"
      BY <1>2, <1>6, <1>7, <2>2
    <3>2. <<"flow", p>> \in CreatorsOf(a)
      BY <2>2 DEF CreatorsOf, a, k
    <3>3. <<"flow", p>> \notin CreatorsOf(a)'
      BY <3>1 DEF CreatorsOf, a, k
    <3>4. CreatorsOf(a)' \subseteq CreatorsOf(a)
      BY <1>1, <1>3, <1>6, <3>1 DEF CreatorsOf, PrimaryKind, Visual, a
    <3>5. CreatorsOf(a)' = {}
      BY <1>1, <3>2, <3>3, <3>4 DEF IInv, OneCreator
    <3> QED
      BY <2>1, <3>5 DEF IInv, OneCreator
  <2>3. CASE flows[k] # "create" /\ point = "create"
    <3>1. runs[a] = "absent" /\ ~started
      BY <1>2, <1>7, <2>3
    <3>2. CreatorsOf(a) = {} /\ flows[a] = "absent"
      BY <1>1, <3>1, NoCreator
    <3>3. CreatorsOf(a)' \subseteq {<<"flow", p>>}
      BY <1>1, <1>3, <3>2 DEF CreatorsOf, PrimaryKind, Visual, a
    <3> QED
      BY <1>6, <2>1, <3>1, <3>2, <3>3 DEF IInv, OneCreator
  <2>4. CASE flows[k] # "create" /\ point # "create"
    <3>1. ~started
      BY <1>2, <2>4 DEF LaunchStep, LaunchGoesOn, LaunchWriteFails
    <3>2. CreatorsOf(a)' \subseteq CreatorsOf(a)
      BY <1>1, <1>3, <1>6, <2>4 DEF CreatorsOf, PrimaryKind, Visual, a
    <3> QED
      BY <1>1, <1>6, <2>1, <3>1, <3>2 DEF IInv, OneCreator
  <2> QED
    BY <2>2, <2>3, <2>4
<1> QED
  BY <1>3, <1>13, <1>14, <1>15, <1>16, <1>17, RunsKept DEF IInv

(* The steps of every workflow.                                            *)
LEMMA FlowsKeep ==
  ASSUME IInv, NEW p \in Posts, NEW kind \in Kinds,
         FlowStep(p, kind) \/ FlowFails(<<p, kind>>), UNCHANGED <<curation, requests>>
  PROVE  IInv'
<1>1. <<p, kind>> \in Keys
  BY KeyFacts
<1> QED
  BY <1>1, MarkPhaseFlow, LastStepFlow, PlanFlow, ReadStageFlow, StoreResultFlow,
     QueueAttributionFlow, StepExhaustedFlow, LaunchCutFlow, CatchFailsFlow
     DEF FlowStep, FlowFails

-----------------------------------------------------------------------------
(***************************************************************************)
(* The operator                                                            *)
(***************************************************************************)
LEMMA OperatorLaunchesStep ==
  ASSUME IInv, NEW k \in Keys, OperatorLaunches(k), UNCHANGED <<curation, requests>>
  PROVE  IInv'
<1>1. PICK next \in Outcomes, started \in BOOLEAN :
        /\ LaunchStep(k, operator.at, next, started)
        /\ flows' = Created(k, started)
        /\ IF next \in LaunchPoints THEN At(next, {k}, {}) ELSE operator' = Idle
  BY DEF OperatorLaunches
<1>2. /\ k \in operator.now
      /\ UNCHANGED <<traits, payload, results>>
      /\ operator.at \in {"create", "close"} => runs[k] # "absent"
  BY DEF OperatorLaunches, IInv, OneInHand
<1>3. /\ flows \in [Keys -> Points \cup {"absent", "ended"}]
      /\ operator \in [at : OperatorPoints, now : SUBSET Keys, todo : SUBSET Keys]
  BY DEF IInv, TypeOK, EnrichmentTypeOK
<1>4. PICK status \in Statuses :
        /\ runs' = [runs EXCEPT ![k] = status]
        /\ status \in ActiveStatuses =>
             \/ next \in {"create", "close"} \/ started
             \/ operator.at = "insert" /\ status = runs[k]
             \/ faults' > 0
        /\ faults' \in 0..MaxFaults /\ faults' >= faults
        /\ operator.at \in LaunchPoints
        /\ status = "absent" => next = "failed"
        /\ started => operator.at = "create"
        /\ next = "create" => operator.at = "insert" /\ runs[k] = "absent" /\ ~started
        /\ operator.at = "create" => next \in {"done", "close"}
  BY <1>1, <1>2, LaunchEffect DEF LaunchPoints
<1>5. /\ flows' \in [Keys -> Points \cup {"absent", "ended"}]
      /\ flows'[k] = IF started THEN "assembling" ELSE flows[k]
      /\ \A l \in Keys \ {k} : flows'[l] = flows[l]
  BY <1>1, <1>3 DEF Created, Points
<1>6. /\ operator.todo = {} /\ operator.now = {k}
      /\ \A l \in Keys : ~Retried(l)
  BY <1>2, <1>4 DEF IInv, OneInHand, LaunchPoints, Retried
<1>7. runs'[k] = status
  BY <1>4 DEF IInv, TypeOK, EnrichmentTypeOK
<1>8. next \in {"create", "close"} => operator'.at = next /\ operator'.now = {k} /\ operator'.todo = {}
  BY <1>1 DEF At, LaunchPoints
<1>9. next \notin {"create", "close"} => operator' = Idle
  BY <1>1 DEF LaunchPoints, Outcomes
<1>10. next \in {"create", "close"} => InHand(k)'
  BY <1>8 DEF InHand
<1>11. ASSUME NEW l \in Keys, InHand(l) PROVE InHand(l)' \/ Live(l)' \/ ~Active(l)' \/ faults' > 0
  <2>1. CASE l = k /\ operator.at # "insert"
    BY <1>4, <1>5, <1>7, <1>10, <2>1 DEF Active, Live, Points
  <2>2. CASE \E c \in Curators :
               /\ requests[c] # NoRequest
               /\ requests[c].at \in {"create", "close"}
               /\ l = <<requests[c].post, PrimaryKind(requests[c].post)>>
    BY <1>2, <2>2 DEF InHand, PrimaryKind, Visual
  <2>3. CASE \E q \in Posts : l = Attribution(q) /\ flows[Vision(q)] \in {"create", "close"}
    <3>1. PICK q \in Posts : l = Attribution(q) /\ flows[Vision(q)] \in {"create", "close"}
      BY <2>3
    <3>2. Vision(q) \in Keys
      BY KeyFacts
    <3>3. CASE Vision(q) # k
      BY <1>5, <3>1, <3>2, <3>3 DEF InHand, Vision, Attribution
    <3>4. CASE Vision(q) = k /\ ~started
      BY <1>5, <3>1, <3>2, <3>4 DEF InHand, Vision, Attribution
    <3>5. CASE Vision(q) = k /\ started
      <4>1. operator.at = "create"
        BY <1>1, <3>5 DEF LaunchStep, LaunchGoesOn, LaunchWriteFails
      <4>2. <<"operator", k>> \in CreatorsOf(k)
        BY <1>2, <4>1 DEF CreatorsOf
      <4>3. flows[k] = "absent"
        BY <4>2 DEF IInv, OneCreator
      <4> QED
        BY <3>1, <3>5, <4>3
    <3> QED
      BY <3>3, <3>4, <3>5
  <2> QED
    BY <1>6, <1>11, <2>1, <2>2, <2>3 DEF InHand, Vision, Attribution
<1>12. /\ runs' \in [Keys -> Statuses]
       /\ \A l \in Keys : runs[l] # "absent" => runs'[l] # "absent"
       /\ RowsFirst' /\ PlanStands' /\ ResultFirst' /\ QueuedIsFresh' /\ CuratedIsStored'
       /\ EnrichedIsPicked' /\ AttributedAfterVision' /\ CompleteIsPassedOn' /\ NoneStranded'
  BY <1>1, <1>2, <1>5, <1>6, <1>10, <1>11, LaunchKeeps
<1>13. operator' \in [at : OperatorPoints, now : SUBSET Keys, todo : SUBSET Keys]
  BY <1>1 DEF At, Idle, OperatorPoints
<1>14. TypeOK'
  BY <1>2, <1>4, <1>5, <1>12, <1>13 DEF IInv, TypeOK, EnrichmentTypeOK
<1>15. OneInHand'
  <2>1. CASE next \in {"create", "close"}
    BY <1>4, <1>7, <1>8, <2>1 DEF OneInHand
  <2>2. CASE next \notin {"create", "close"}
    BY <1>9, <2>2 DEF OneInHand, Idle
  <2> QED
    BY <2>1, <2>2
<1>16. faults' >= faults /\ faults' \in 0..MaxFaults
  BY <1>4
<1>17. OneCreator'
  <2>1. ASSUME NEW l \in Keys, l # k
        PROVE  /\ CreatorsOf(l)' \subseteq CreatorsOf(l)
               /\ CreatorsOf(l) # {} => flows'[l] = "absent"
    <3>1. ASSUME NEW q \in Posts, flows'[Vision(q)] = "create" PROVE flows[Vision(q)] = "create"
      BY <1>5, <3>1, KeyFacts
    <3>2. operator'.at = "create" => operator'.now = {k}
      BY <1>8, <1>9 DEF Idle
    <3>3. CreatorsOf(l)' \subseteq CreatorsOf(l)
      BY <1>2, <2>1, <3>1, <3>2 DEF CreatorsOf, PrimaryKind, Visual
    <3> QED
      BY <1>5, <2>1, <3>3 DEF IInv, OneCreator
  <2>2. CASE operator.at = "create"
    <3>1. operator'.at # "create"
      BY <1>4, <1>8, <1>9, <2>2 DEF Idle
    <3>2. <<"operator", k>> \in CreatorsOf(k)
      BY <1>2, <2>2 DEF CreatorsOf
    <3>3. \A q \in Posts : flows'[Vision(q)] = "create" => flows[Vision(q)] = "create"
      BY <1>5, KeyFacts
    <3>4. CreatorsOf(k)' \subseteq CreatorsOf(k) \ {<<"operator", k>>}
      BY <1>2, <3>1, <3>3 DEF CreatorsOf, PrimaryKind, Visual
    <3>5. CreatorsOf(k)' = {}
      BY <3>2, <3>4 DEF IInv, OneCreator
    <3> QED
      BY <2>1, <3>5 DEF IInv, OneCreator
  <2>3. CASE operator.at # "create" /\ next = "create"
    <3>1. runs[k] = "absent" /\ ~started
      BY <1>4, <2>3
    <3>2. CreatorsOf(k) = {} /\ flows[k] = "absent"
      BY <3>1, NoCreator
    <3>3. \A q \in Posts : flows'[Vision(q)] = "create" => flows[Vision(q)] = "create"
      BY <1>5, KeyFacts
    <3>4. CreatorsOf(k)' \subseteq {<<"operator", k>>}
      BY <1>2, <3>2, <3>3 DEF CreatorsOf, PrimaryKind, Visual
    <3> QED
      BY <1>5, <2>1, <3>1, <3>2, <3>4 DEF IInv, OneCreator
  <2>4. CASE operator.at # "create" /\ next # "create"
    <3>1. ~started /\ operator'.at # "create"
      BY <1>4, <1>8, <1>9, <2>4 DEF Idle
    <3>2. \A q \in Posts : flows'[Vision(q)] = "create" => flows[Vision(q)] = "create"
      BY <1>5, KeyFacts
    <3>3. CreatorsOf(k)' \subseteq CreatorsOf(k)
      BY <1>2, <3>1, <3>2 DEF CreatorsOf, PrimaryKind, Visual
    <3> QED
      BY <1>5, <2>1, <3>1, <3>3 DEF IInv, OneCreator
  <2> QED
    BY <2>2, <2>3, <2>4
<1> QED
  BY <1>2, <1>12, <1>14, <1>15, <1>16, <1>17, RunsKept DEF IInv

(* A step of the operator that launches nothing.                           *)
LEMMA OperatorKeeps ==
  ASSUME IInv,
         runs' \in [Keys -> Statuses], flows' \in [Keys -> Points \cup {"absent", "ended"}],
         operator' \in [at : OperatorPoints, now : SUBSET Keys, todo : SUBSET Keys],
         faults' \in 0..MaxFaults, faults' >= faults,
         UNCHANGED <<traits, payload, results, curation, requests>>,
         OneInHand', operator'.at # "create",
         \A l \in Keys :
           /\ runs'[l] \in {runs[l], "failed", "queued"}
           /\ runs'[l] = "absent" <=> runs[l] = "absent"
           /\ flows'[l] \in {flows[l], "assembling", "ended"}
           /\ flows'[l] = "absent" <=> flows[l] = "absent"
           /\ runs'[l] = "queued" =>
                \/ flows'[l] \in {"absent", "assembling", "catching", "ended"}
                \/ Retried(l)' \/ faults' > 0
           /\ Active(l)' => Live(l)' \/ InHand(l)' \/ faults' > 0
  PROVE  IInv'
<1>1. TypeOK'
  BY DEF IInv, TypeOK, EnrichmentTypeOK
<1>2. RowsFirst'
  BY DEF IInv, RowsFirst, HasPayload
<1>3. PlanStands'
  BY DEF IInv, PlanStands, AwaitsVision, VisionKnown, Visual
<1>4. ResultFirst'
  <2>1. ASSUME NEW l \in Keys, flows'[l] \in LaunchPoints \cup {"completing"} PROVE results'[l]
    BY <2>1 DEF IInv, ResultFirst, LaunchPoints
  <2>2. ASSUME NEW l \in Keys, l[2] = "vision", flows'[l] \in {"create", "close", "completing"}
        PROVE  runs'[Attribution(l[1])] # "absent"
    <3>1. flows[l] \in {"create", "close", "completing"}
      BY <2>2
    <3> QED
      BY <2>2, <3>1, KeyFacts DEF IInv, ResultFirst
  <2> QED
    BY <2>1, <2>2 DEF ResultFirst
<1>5. QueuedIsFresh'
  BY DEF QueuedIsFresh
<1>6. OneCreator'
  <2>1. \A q \in Posts : flows'[Vision(q)] = "create" => flows[Vision(q)] = "create"
    BY KeyFacts
  <2>2. \A l \in Keys : CreatorsOf(l)' \subseteq CreatorsOf(l)
    BY <2>1 DEF CreatorsOf, PrimaryKind, Visual
  <2> QED
    BY <2>2 DEF IInv, OneCreator
<1>7. CuratedIsStored'
  BY DEF IInv, CuratedIsStored, TextTweet
<1>8. EnrichedIsPicked' /\ AttributedAfterVision'
  BY DEF IInv, EnrichedIsPicked, AttributedAfterVision, VisionKnown, Visual
<1>9. CompleteIsPassedOn'
  BY KeyFacts DEF IInv, CompleteIsPassedOn, Vision, Attribution
<1>10. NoneStranded'
  BY DEF NoneStranded, Stranded
<1>11. RequestsSound' /\ CuratedIsQueued'
  BY RunsKept
<1> QED
  BY <1>1, <1>2, <1>3, <1>4, <1>5, <1>6, <1>7, <1>8, <1>9, <1>10, <1>11 DEF IInv

(* What holds of every run and workflow before a step of the operator.     *)
LEMMA Settled ==
  ASSUME IInv
  PROVE  /\ runs \in [Keys -> Statuses] /\ flows \in [Keys -> Points \cup {"absent", "ended"}]
         /\ operator \in [at : OperatorPoints, now : SUBSET Keys, todo : SUBSET Keys]
         /\ faults \in 0..MaxFaults /\ faults >= faults
         /\ \A l \in Keys :
              /\ runs[l] = "queued" =>
                   \/ flows[l] \in {"absent", "assembling", "catching", "ended"}
                   \/ Retried(l) \/ faults > 0
              /\ Active(l) => Live(l) \/ InHand(l) \/ faults > 0
  BY EnrichmentAssumption DEF IInv, TypeOK, EnrichmentTypeOK, QueuedIsFresh, NoneStranded, Stranded

(* In hand because of somebody other than the operator.                    *)
HeldByOthers(k) ==
  \/ \E c \in Curators :
       /\ requests[c] # NoRequest
       /\ requests[c].at \in {"create", "close"}
       /\ k = <<requests[c].post, PrimaryKind(requests[c].post)>>
  \/ \E p \in Posts :
       k = Attribution(p) /\ flows[Vision(p)] \in {"create", "close"}

LEMMA HeldBy ==
  /\ \A k \in Keys : InHand(k) <=>
       HeldByOthers(k) \/ (k \in operator.now \cup operator.todo /\ operator.at # "insert")
  /\ (\A k \in Keys : InHand(k) <=>
       HeldByOthers(k) \/ (k \in operator.now \cup operator.todo /\ operator.at # "insert"))'
  BY DEF InHand, HeldByOthers, Attribution, Vision

LEMMA OperatorStartsStep ==
  ASSUME IInv, NEW p \in Posts, NEW kind \in Kinds, OperatorStarts(p, kind),
         UNCHANGED <<curation, requests>>
  PROVE  IInv'
<1> DEFINE k == <<p, kind>>
<1>1. k \in Keys
  BY KeyFacts
<1>2. /\ operator.at = "idle" /\ operator' = [at |-> "insert", now |-> {k}, todo |-> {}]
      /\ UNCHANGED <<traits, payload, results, runs, flows, faults>>
  BY DEF OperatorStarts, At
<1>3. /\ operator.now = {} /\ operator.todo = {}
      /\ \A l \in Keys : ~Retried(l)
  BY <1>2 DEF IInv, OneInHand, Retried
<1> HIDE DEF k
<1>4. operator' \in [at : OperatorPoints, now : SUBSET Keys, todo : SUBSET Keys]
  BY <1>1, <1>2 DEF OperatorPoints, LaunchPoints
<1>5. OneInHand'
  BY <1>2 DEF OneInHand
<1>6. \A l \in Keys : InHand(l) => InHand(l)'
  BY <1>2, <1>3, HeldBy DEF HeldByOthers, PrimaryKind, Visual
<1> QED
  BY <1>2, <1>3, <1>4, <1>5, <1>6, Settled, OperatorKeeps DEF Active, Live

LEMMA OperatorRetriesStep ==
  ASSUME IInv, NEW k \in Keys, OperatorRetries(k), UNCHANGED <<curation, requests>>
  PROVE  IInv'
<1>1. /\ operator.at = "idle" /\ operator' = [at |-> "restart", now |-> {k}, todo |-> {}]
      /\ runs[k] \in {"failed", "needs-review"}
      /\ UNCHANGED <<traits, payload, results, flows, faults>>
  BY DEF OperatorRetries, At
<1>2. /\ operator.now = {} /\ operator.todo = {}
      /\ \A l \in Keys : ~Retried(l)
  BY <1>1 DEF IInv, OneInHand, Retried
<1>3. operator' \in [at : OperatorPoints, now : SUBSET Keys, todo : SUBSET Keys]
  BY <1>1 DEF OperatorPoints
<1>4. OneInHand'
  BY <1>1 DEF OneInHand
<1>5. \A l \in Keys : InHand(l) => InHand(l)'
  BY <1>1, <1>2, HeldBy DEF HeldByOthers, PrimaryKind, Visual
<1>6. /\ runs' = [runs EXCEPT ![k] = "queued"]
      /\ runs' \in [Keys -> Statuses]
  BY <1>1, Settled DEF OperatorRetries, ResetForRetry, Set, Statuses
<1>7. Retried(k)' /\ InHand(k)'
  BY <1>1, HeldBy DEF Retried
<1>8. \A l \in Keys : l # k => runs'[l] = runs[l]
  BY <1>6, Settled
<1>9. runs'[k] = "queued"
  BY <1>6, Settled
<1> QED
  BY <1>1, <1>2, <1>3, <1>4, <1>5, <1>6, <1>7, <1>8, <1>9, Settled, OperatorKeeps DEF Active, Live

LEMMA RestartStep ==
  ASSUME IInv, NEW k \in Keys, Restart(k), UNCHANGED <<curation, requests>>
  PROVE  IInv'
<1>1. /\ operator.at = "restart" /\ k \in operator.now /\ operator' = Idle
      /\ flows[k] # "absent" /\ flows' = [flows EXCEPT ![k] = "assembling"]
      /\ UNCHANGED <<traits, payload, results, runs>>
      /\ Interrupt(k)
  BY DEF Restart, Goto
<1>2. /\ faults' \in 0..MaxFaults /\ faults' >= faults
      /\ faults' > 0 \/ (UNCHANGED faults /\ flows[k] \notin {"create", "close"})
  <2>1. CASE flows[k] \in {"create", "close"}
    BY <1>1, <2>1, Faults DEF Interrupt
  <2>2. CASE flows[k] \notin {"create", "close"}
    BY <1>1, <2>2, Settled DEF Interrupt
  <2> QED
    BY <2>1, <2>2
<1>3. operator.now = {k} /\ operator.todo = {}
  BY <1>1 DEF IInv, OneInHand
<1>4. /\ operator' \in [at : OperatorPoints, now : SUBSET Keys, todo : SUBSET Keys]
      /\ OneInHand' /\ operator'.at = "idle"
  BY <1>1 DEF Idle, OperatorPoints, OneInHand
<1>5. /\ flows' \in [Keys -> Points \cup {"absent", "ended"}]
      /\ flows'[k] = "assembling"
      /\ \A l \in Keys : l # k => flows'[l] = flows[l]
  BY <1>1, Settled DEF Points
<1>6. ASSUME NEW l \in Keys, l # k, InHand(l) PROVE InHand(l)' \/ faults' > 0
  <2>1. HeldByOthers(l)
    BY <1>3, <1>6, HeldBy
  <2>2. faults' > 0 \/ \A q \in Posts : flows[Vision(q)] \in {"create", "close"}
                                          => flows'[Vision(q)] = flows[Vision(q)]
    BY <1>2, <1>5, KeyFacts
  <2>3. HeldByOthers(l)' \/ faults' > 0
    BY <1>1, <2>1, <2>2 DEF HeldByOthers, PrimaryKind, Visual
  <2> QED
    BY <2>3, HeldBy
<1>7. \A l \in Keys : l # k => ~Retried(l)
  BY <1>3 DEF Retried
<1>8. Live(k)'
  BY <1>5 DEF Live, Points
<1>9. \A l \in Keys : faults > 0 => faults' > 0
  BY <1>2, Settled
<1> QED
  BY <1>1, <1>2, <1>4, <1>5, <1>6, <1>7, <1>8, <1>9, Settled, OperatorKeeps DEF Active, Live

LEMMA RestartFailsStep ==
  ASSUME IInv, NEW k \in Keys, RestartFails(k), UNCHANGED <<curation, requests>>
  PROVE  IInv'
<1>1. /\ operator.at = "restart" /\ k \in operator.now
      /\ operator' = [at |-> "unrestarted", now |-> {k}, todo |-> {}]
      /\ UNCHANGED <<traits, payload, results, runs, flows>>
  BY DEF RestartFails, At
<1>2. faults' \in 0..MaxFaults /\ faults' >= faults
  <2>1. CASE flows[k] = "absent"
    BY <2>1, Settled DEF RestartFails
  <2>2. CASE flows[k] # "absent"
    BY <2>2, Faults DEF RestartFails
  <2> QED
    BY <2>1, <2>2
<1>3. operator.now = {k} /\ operator.todo = {}
  BY <1>1 DEF IInv, OneInHand
<1>4. /\ operator' \in [at : OperatorPoints, now : SUBSET Keys, todo : SUBSET Keys]
      /\ OneInHand' /\ operator'.at = "unrestarted"
  BY <1>1 DEF OperatorPoints, OneInHand
<1>5. \A l \in Keys : (Retried(l) => Retried(l)') /\ (InHand(l) => InHand(l)')
  BY <1>1, <1>3, HeldBy DEF Retried, HeldByOthers, PrimaryKind, Visual
<1>6. faults > 0 => faults' > 0
  BY <1>2, Settled
<1> QED
  BY <1>1, <1>2, <1>4, <1>5, <1>6, Settled, OperatorKeeps DEF Active, Live

(* markFailed closes the run in hand, whoever else works on it.            *)
LEMMA ClosedByOperator ==
  ASSUME IInv, NEW k \in Keys, runs' = MarkFailed(k)
  PROVE  /\ runs' \in [Keys -> Statuses] /\ ~Active(k)'
         /\ \A l \in Keys :
              /\ l # k => runs'[l] = runs[l]
              /\ runs'[l] \in {runs[l], "failed"}
              /\ runs'[l] = "absent" <=> runs[l] = "absent"
<1>1. runs \in [Keys -> Statuses]
  BY Settled
<1>2. CASE Active(k)
  <2>1. runs' = [runs EXCEPT ![k] = "failed"]
    BY <1>2 DEF MarkFailed, Set
  <2> QED
    BY <1>1, <1>2, <2>1 DEF Active, ActiveStatuses, Statuses
<1>3. CASE ~Active(k)
  <2>1. runs' = runs
    BY <1>3 DEF MarkFailed
  <2> QED
    BY <1>1, <1>3, <2>1 DEF Active
<1> QED
  BY <1>2, <1>3

LEMMA CloseUnrestartedStep ==
  ASSUME IInv, NEW k \in Keys, CloseUnrestarted(k), UNCHANGED <<curation, requests>>
  PROVE  IInv'
<1>1. /\ operator.at = "unrestarted" /\ k \in operator.now /\ operator' = Idle
      /\ runs' = MarkFailed(k)
      /\ UNCHANGED <<traits, payload, results, flows, faults>>
  BY DEF CloseUnrestarted
<1>2. operator.now = {k} /\ operator.todo = {}
  BY <1>1 DEF IInv, OneInHand
<1>3. /\ operator' \in [at : OperatorPoints, now : SUBSET Keys, todo : SUBSET Keys]
      /\ OneInHand' /\ operator'.at = "idle"
  BY <1>1 DEF Idle, OperatorPoints, OneInHand
<1>4. \A l \in Keys : l # k => ~Retried(l) /\ (InHand(l) => InHand(l)')
  BY <1>1, <1>2, HeldBy DEF Retried, HeldByOthers, PrimaryKind, Visual
<1>5. runs'[k] # "queued"
  BY <1>1, ClosedByOperator DEF Active, ActiveStatuses
<1> QED
  BY <1>1, <1>3, <1>4, <1>5, Settled, ClosedByOperator, OperatorKeeps DEF Active, Live

LEMMA OperatorRepairsStep ==
  ASSUME IInv, OperatorRepairs, UNCHANGED <<curation, requests>>
  PROVE  IInv'
<1>1. PICK stale \in SUBSET Keys : operator' = [at |-> "terminating", now |-> {}, todo |-> stale]
  BY DEF OperatorRepairs, At
<1>2. /\ operator.at = "idle"
      /\ UNCHANGED <<traits, payload, results, runs, flows, faults>>
  BY DEF OperatorRepairs
<1>3. operator.now = {} /\ operator.todo = {}
  BY <1>2 DEF IInv, OneInHand
<1>4. /\ operator' \in [at : OperatorPoints, now : SUBSET Keys, todo : SUBSET Keys]
      /\ OneInHand' /\ operator'.at = "terminating"
  BY <1>1 DEF OperatorPoints, OneInHand
<1>5. \A l \in Keys : ~Retried(l) /\ (InHand(l) => InHand(l)')
  BY <1>2, <1>3, HeldBy DEF Retried, HeldByOthers, PrimaryKind, Visual
<1> QED
  BY <1>2, <1>4, <1>5, Settled, OperatorKeeps DEF Active, Live

LEMMA TerminateStep ==
  ASSUME IInv, NEW k \in Keys, Terminate(k), UNCHANGED <<curation, requests>>
  PROVE  IInv'
<1>1. /\ operator.at = "terminating" /\ k \in operator.todo
      /\ operator' = [at |-> "marking", now |-> {k}, todo |-> operator.todo \ {k}]
      /\ UNCHANGED <<traits, payload, results, runs>>
  BY DEF Terminate, At
<1>2. /\ flows' \in [Keys -> Points \cup {"absent", "ended"}]
      /\ faults' \in 0..MaxFaults /\ faults' >= faults
      /\ \A l \in Keys : l # k => flows'[l] = flows[l]
      /\ flows'[k] = flows[k] \/ (flows'[k] = "ended" /\ flows[k] # "absent")
      /\ faults' > 0 \/ flows'[k] = flows[k] \/ flows[k] \notin {"create", "close"}
  <2>1. CASE ~Live(k)
    BY <1>1, <2>1, Settled DEF Terminate
  <2>2. CASE Live(k) /\ flows[k] \in {"create", "close"}
    BY <1>1, <2>2, Settled, Faults DEF Terminate, Goto, Interrupt
  <2>3. CASE Live(k) /\ flows[k] \notin {"create", "close"}
    BY <1>1, <2>3, Settled DEF Terminate, Goto, Interrupt, Live, Points
  <2> QED
    BY <2>1, <2>2, <2>3
<1>3. operator.now = {}
  BY <1>1 DEF IInv, OneInHand
<1>4. /\ operator' \in [at : OperatorPoints, now : SUBSET Keys, todo : SUBSET Keys]
      /\ OneInHand' /\ operator'.at = "marking"
  BY <1>1, Settled DEF OperatorPoints, OneInHand
<1>5. \A l \in Keys : ~Retried(l)
  BY <1>3 DEF Retried
<1>6. ASSUME NEW l \in Keys, InHand(l) PROVE InHand(l)' \/ faults' > 0
  <2>1. CASE l \in operator.todo
    BY <1>1, <2>1, HeldBy
  <2>2. CASE HeldByOthers(l)
    <3>1. faults' > 0 \/ \A q \in Posts : flows[Vision(q)] \in {"create", "close"}
                                            => flows'[Vision(q)] = flows[Vision(q)]
      BY <1>2, KeyFacts
    <3>2. HeldByOthers(l)' \/ faults' > 0
      BY <1>1, <2>2, <3>1 DEF HeldByOthers, PrimaryKind, Visual
    <3> QED
      BY <3>2, HeldBy
  <2> QED
    BY <1>3, <1>6, <2>1, <2>2, HeldBy
<1>7. InHand(k)'
  BY <1>1, HeldBy
<1>8. faults > 0 => faults' > 0
  BY <1>2, Settled
<1> QED
  BY <1>1, <1>2, <1>4, <1>5, <1>6, <1>7, <1>8, Settled, OperatorKeeps DEF Active, Live

LEMMA TerminateFailsStep ==
  ASSUME IInv, NEW k \in Keys, TerminateFails(k), UNCHANGED <<curation, requests>>
  PROVE  IInv'
<1>1. /\ operator.at = "terminating" /\ k \in operator.todo
      /\ operator' = [at |-> "marking", now |-> {k}, todo |-> operator.todo \ {k}]
      /\ Fault("control")
      /\ UNCHANGED <<traits, payload, results, runs, flows>>
  BY DEF TerminateFails, At
<1>2. /\ operator' \in [at : OperatorPoints, now : SUBSET Keys, todo : SUBSET Keys]
      /\ OneInHand' /\ operator'.at = "marking"
  BY <1>1, Settled DEF OperatorPoints, OneInHand
<1> QED
  BY <1>1, <1>2, Settled, Faults, OperatorKeeps

LEMMA MarkRepairedStep ==
  ASSUME IInv, NEW k \in Keys, MarkRepaired(k), UNCHANGED <<curation, requests>>
  PROVE  IInv'
<1>1. /\ operator.at = "marking" /\ k \in operator.now
      /\ runs' = MarkFailed(k)
      /\ operator' = IF operator.todo = {} THEN Idle
                     ELSE [at |-> "terminating", now |-> {}, todo |-> operator.todo]
      /\ UNCHANGED <<traits, payload, results, flows, faults>>
  BY DEF MarkRepaired, At
<1>2. operator.now = {k}
  BY <1>1 DEF IInv, OneInHand
<1>3. /\ operator' \in [at : OperatorPoints, now : SUBSET Keys, todo : SUBSET Keys]
      /\ OneInHand' /\ operator'.at # "create" /\ operator'.at # "insert"
      /\ operator'.todo = operator.todo
  BY <1>1, Settled DEF Idle, OperatorPoints, OneInHand
<1>4. \A l \in Keys : ~Retried(l)
  BY <1>1 DEF Retried
<1>5. \A l \in Keys : l # k /\ InHand(l) => InHand(l)'
  BY <1>1, <1>2, <1>3, HeldBy DEF HeldByOthers, PrimaryKind, Visual
<1>6. runs'[k] # "queued"
  BY <1>1, ClosedByOperator DEF Active, ActiveStatuses
<1> QED
  BY <1>1, <1>3, <1>4, <1>5, <1>6, Settled, ClosedByOperator, OperatorKeeps DEF Active, Live

LEMMA OperatorDiesStep ==
  ASSUME IInv, OperatorDies, UNCHANGED <<curation, requests>>
  PROVE  IInv'
<1>1. /\ operator' = Idle /\ Fault("cut")
      /\ UNCHANGED <<traits, payload, results, runs, flows>>
  BY DEF OperatorDies
<1>2. /\ operator' \in [at : OperatorPoints, now : SUBSET Keys, todo : SUBSET Keys]
      /\ OneInHand' /\ operator'.at = "idle"
  BY <1>1 DEF Idle, OperatorPoints, OneInHand
<1> QED
  BY <1>1, <1>2, Settled, Faults, OperatorKeeps

LEMMA EnrichmentStep ==
  ASSUME IInv, EnrichmentNext, UNCHANGED <<curation, requests>>
  PROVE  IInv'
<1>1. ASSUME NEW k \in operator.now \cup operator.todo PROVE k \in Keys
  BY Settled
<1>2. CASE OperatorAsks
  BY <1>2, OperatorStartsStep, OperatorRetriesStep, OperatorRepairsStep DEF OperatorAsks
<1>3. CASE OperatorGoesOn
  BY <1>1, <1>3, OperatorLaunchesStep, RestartStep, RestartFailsStep, CloseUnrestartedStep,
     TerminateStep, TerminateFailsStep, MarkRepairedStep DEF OperatorGoesOn
<1> QED
  BY <1>2, <1>3, FlowsKeep, OperatorDiesStep DEF EnrichmentNext

-----------------------------------------------------------------------------
(***************************************************************************)
(* Ingestion, imports and curators                                         *)
(***************************************************************************)
(* A step that leaves the runs and workflows alone.                        *)
LEMMA CuratorKeeps ==
  ASSUME IInv, UNCHANGED <<traits, results, operator, runs, flows>>,
         payload' \in [Posts -> {"none", "candidate", "picked"}],
         curation' \in [Posts -> {"none", "flagged", "curated", "rejected"}],
         requests' \in [Curators -> Request \cup {NoRequest}],
         faults' \in 0..MaxFaults, faults' >= faults,
         \A p \in Posts : /\ payload[p] = "picked" => payload'[p] = "picked"
                          /\ payload[p] # "none" => payload'[p] # "none",
         \A c \in Curators :
           /\ requests'[c] # NoRequest /\ requests'[c].at = "create" => requests'[c] = requests[c]
           /\ requests[c] # NoRequest /\ requests[c].at \in {"create", "close"}
                => requests'[c] = requests[c] \/ faults' > 0,
         RequestsSound', CuratedIsStored', CuratedIsQueued'
  PROVE  IInv'
<1>1. TypeOK'
  BY DEF IInv, TypeOK, EnrichmentTypeOK
<1>2. RowsFirst'
  BY KeyFacts DEF IInv, RowsFirst, HasPayload
<1>3. PlanStands'
  BY KeyFacts DEF IInv, PlanStands, AwaitsVision, VisionKnown, Visual
<1>4. ResultFirst' /\ OneInHand'
  BY DEF IInv, ResultFirst, OneInHand
<1>5. QueuedIsFresh'
  BY Settled DEF IInv, QueuedIsFresh, Retried
<1>6. OneCreator'
  <2>1. \A k \in Keys : CreatorsOf(k)' \subseteq CreatorsOf(k)
    BY DEF CreatorsOf, PrimaryKind, Visual
  <2> QED
    BY <2>1 DEF IInv, OneCreator
<1>7. EnrichedIsPicked' /\ AttributedAfterVision' /\ CompleteIsPassedOn'
  BY DEF IInv, EnrichedIsPicked, AttributedAfterVision, CompleteIsPassedOn, VisionKnown, Visual
<1>8. NoneStranded'
  <2> SUFFICES ASSUME NEW k \in Keys, Active(k), ~(faults' > 0) PROVE Live(k) \/ InHand(k)'
    BY DEF NoneStranded, Stranded, Active, Live
  <2>1. Live(k) \/ InHand(k)
    BY Settled
  <2>2. HeldByOthers(k) => HeldByOthers(k)'
    BY DEF HeldByOthers, PrimaryKind, Visual
  <2> QED
    BY <2>1, <2>2, HeldBy
<1> QED
  BY <1>1, <1>2, <1>3, <1>4, <1>5, <1>6, <1>7, <1>8 DEF IInv

LEMMA CurationTypes ==
  ASSUME IInv
  PROVE  /\ payload \in [Posts -> {"none", "candidate", "picked"}]
         /\ curation \in [Posts -> {"none", "flagged", "curated", "rejected"}]
         /\ requests \in [Curators -> Request \cup {NoRequest}]
  BY DEF IInv, TypeOK, EnrichmentTypeOK

(* A request is a record of a post, and no request is none.                *)
LEMMA RequestTypes ==
  ASSUME IInv, NEW c \in Curators, requests[c] # NoRequest
  PROVE  /\ requests[c] \in Request /\ requests[c].post \in Posts
         /\ requests[c].queue \in BOOLEAN /\ requests[c].to \in {"curated", "rejected"}
         /\ RequestSound(c)
  BY CurationTypes DEF Request, IInv, RequestsSound

LEMMA FlagBatchStep ==
  ASSUME IInv, NEW p \in Posts, FlagBatch(p)
  PROVE  IInv'
<1>1. /\ curation' = [curation EXCEPT ![p] = UpsertFlag(p)]
      /\ UNCHANGED <<traits, payload, results, runs, flows, operator, faults, requests>>
  BY DEF FlagBatch, Unbothered
<1>2. /\ curation' \in [Posts -> {"none", "flagged", "curated", "rejected"}]
      /\ \A q \in Posts : curation'[q] = "curated" => curation[q] = "curated"
  BY <1>1, CurationTypes DEF UpsertFlag
<1>3. RequestsSound'
  BY <1>1 DEF IInv, RequestsSound, RequestSound, TextTweet, PrimaryKind, Visual
<1>4. CuratedIsStored' /\ CuratedIsQueued'
  BY <1>1, <1>2 DEF IInv, CuratedIsStored, CuratedIsQueued, TextTweet, PrimaryKind, Visual, Handling
<1> QED
  BY <1>1, <1>2, <1>3, <1>4, CurationTypes, Settled, CuratorKeeps

(* A capture, whoever makes it, leaves picked payloads picked.             *)
LEMMA Captured ==
  ASSUME IInv, NEW p \in Posts, payload' = UpsertCapture(p)
  PROVE  /\ payload' \in [Posts -> {"none", "candidate", "picked"}]
         /\ \A q \in Posts : /\ payload[q] = "picked" <=> payload'[q] = "picked"
                             /\ payload[q] # "none" => payload'[q] # "none"
                             /\ q # p => payload'[q] = payload[q]
  BY CurationTypes DEF UpsertCapture

LEMMA ImportPayloadStep ==
  ASSUME IInv, NEW p \in Posts, ImportPayload(p)
  PROVE  IInv'
<1>1. /\ payload' = UpsertCapture(p) /\ ~TextTweet(p)
      /\ UNCHANGED <<traits, curation, results, runs, flows, operator, faults, requests>>
  BY DEF ImportPayload, Unbothered, TextTweet
<1>2. RequestsSound'
  <2> SUFFICES ASSUME NEW c \in Curators, requests[c] # NoRequest PROVE RequestSound(c)'
    BY <1>1 DEF RequestsSound
  <2> QED
    BY <1>1, Captured, RequestTypes DEF RequestSound, TextTweet, PrimaryKind, Visual
<1>3. CuratedIsStored' /\ CuratedIsQueued'
  BY <1>1, Captured DEF IInv, CuratedIsStored, CuratedIsQueued, TextTweet, PrimaryKind, Visual,
     Handling
<1> QED
  BY <1>1, <1>2, <1>3, Captured, CurationTypes, Settled, CuratorKeeps

(* Only the request of one curator moves, not past the insert.             *)
LEMMA RequestMoves ==
  ASSUME IInv, NEW c \in Curators, NEW new \in Request \cup {NoRequest},
         requests' = [requests EXCEPT ![c] = new],
         new # NoRequest => new.at # "create" /\ RequestSound(c)',
         requests[c] # NoRequest => requests[c].at \notin {"insert", "create", "close"},
         UNCHANGED <<traits, results, operator, runs, flows, faults>>,
         payload' \in [Posts -> {"none", "candidate", "picked"}],
         curation' \in [Posts -> {"none", "flagged", "curated", "rejected"}],
         \A p \in Posts :
           /\ payload[p] = "picked" => payload'[p] = "picked"
           /\ payload[p] # "none" => payload'[p] # "none"
           /\ TextTweet(p) => payload'[p] = "none"
           /\ curation'[p] = "curated" =>
                \/ curation[p] = "curated"
                \/ TextTweet(p)
                \/ payload'[p] = "picked" /\ new # NoRequest /\ new.at = "insert" /\ new.post = p
  PROVE  IInv'
<1>1. /\ requests' \in [Curators -> Request \cup {NoRequest}]
      /\ requests'[c] = new
      /\ \A d \in Curators : d # c => requests'[d] = requests[d]
  BY CurationTypes
<1>2. RequestsSound'
  <2> SUFFICES ASSUME NEW d \in Curators, d # c, requests[d] # NoRequest PROVE RequestSound(d)'
    BY <1>1 DEF RequestsSound
  <2> QED
    BY <1>1, RequestTypes DEF RequestSound, TextTweet, PrimaryKind, Visual
<1>3. CuratedIsStored'
  BY DEF IInv, CuratedIsStored, TextTweet
<1>4. CuratedIsQueued'
  <2> SUFFICES ASSUME NEW p \in Posts, curation'[p] = "curated", payload'[p] = "picked",
                      runs[<<p, PrimaryKind(p)>>] = "absent", ~(faults > 0)
               PROVE  \E d \in Curators : Handling(d, "insert")' /\ requests'[d].post = p
    BY DEF CuratedIsQueued, PrimaryKind, Visual, Handling
  <2>1. ~TextTweet(p)
    BY DEF IInv, CuratedIsStored
  <2>2. CASE curation[p] = "curated"
    <3>1. payload[p] = "picked"
      BY <2>1, <2>2 DEF IInv, CuratedIsStored
    <3>2. PICK d \in Curators : Handling(d, "insert") /\ requests[d].post = p
      BY <2>2, <3>1 DEF IInv, CuratedIsQueued
    <3>3. d # c
      BY <3>2 DEF Handling
    <3> QED
      BY <1>1, <3>2, <3>3 DEF Handling
  <2>3. CASE curation[p] # "curated"
    BY <1>1, <2>1, <2>3 DEF Handling
  <2> QED
    BY <2>2, <2>3
<1>5. \A d \in Curators :
        /\ requests'[d] # NoRequest /\ requests'[d].at = "create" => requests'[d] = requests[d]
        /\ requests[d] # NoRequest /\ requests[d].at \in {"create", "close"}
             => requests'[d] = requests[d] \/ faults' > 0
  BY <1>1
<1> QED
  BY <1>1, <1>2, <1>3, <1>4, <1>5, Settled, CuratorKeeps

LEMMA DecideStep ==
  ASSUME IInv, NEW c \in Curators, NEW p \in Posts, NEW to \in {"curated", "rejected"},
         Decide(c, p, to)
  PROVE  IInv'
<1> DEFINE new == [post |-> p, to |-> to, at |-> IF to = "rejected" THEN "status" ELSE "payload",
                   queue |-> FALSE]
<1>1. /\ requests[c] = NoRequest /\ requests' = [requests EXCEPT ![c] = new]
      /\ UNCHANGED <<traits, payload, curation, results, runs, flows, operator, faults>>
  BY DEF Decide, Unbothered
<1>2. /\ new \in Request /\ new.post = p /\ new.to = to /\ ~new.queue
      /\ new.at = IF to = "rejected" THEN "status" ELSE "payload"
  BY DEF Request, RequestPoints
<1> HIDE DEF new
<1>3. requests'[c] = new
  BY <1>1, CurationTypes
<1>4. RequestSound(c)'
  BY <1>2, <1>3 DEF RequestSound, LaunchPoints
<1>5. \A q \in Posts : TextTweet(q) => payload[q] = "none"
  BY DEF IInv, CuratedIsStored
<1> QED
  BY <1>1, <1>2, <1>4, <1>5, CurationTypes, RequestMoves

LEMMA ReadPayloadStep ==
  ASSUME IInv, NEW c \in Curators, ReadPayload(c)
  PROVE  IInv'
<1> DEFINE r == requests[c]
           p == requests[c].post
           media == payload[p] # "none" /\ traits[p].embed # "none"
<1>1. /\ r # NoRequest /\ r.at = "payload" /\ r \in Request /\ p \in Posts
      /\ UNCHANGED <<traits, payload, curation, results, runs, flows, operator, faults>>
  BY RequestTypes DEF ReadPayload, Unbothered, Handling
<1>2. \A q \in Posts : TextTweet(q) => payload[q] = "none"
  BY DEF IInv, CuratedIsStored
<1>3. CASE /\ media \/ TextTweet(p)
           /\ requests' = [requests EXCEPT ![c].at = IF payload[p] = "candidate" THEN "pick" ELSE "status",
                                           ![c].queue = payload[p] # "none"]
  <2> DEFINE new == [r EXCEPT !.at = IF payload[p] = "candidate" THEN "pick" ELSE "status",
                              !.queue = payload[p] # "none"]
  <2>1. requests' = [requests EXCEPT ![c] = new]
    BY <1>3, CurationTypes
  <2>2. /\ new \in Request /\ new.post = p
        /\ new.at = IF payload[p] = "candidate" THEN "pick" ELSE "status"
        /\ new.queue <=> payload[p] # "none"
    BY <1>1 DEF Request, RequestPoints
  <2> HIDE DEF new
  <2>3. requests'[c] = new
    BY <2>1, CurationTypes
  <2>4. payload[p] \in {"none", "candidate", "picked"}
    BY <1>1, CurationTypes
  <2>5. UNCHANGED <<traits, payload>>
    BY <1>1
  <2>6. RequestSound(c)'
    <3>1. CASE payload[p] = "candidate"
      <4>1. ~TextTweet(p) /\ new.at = "pick" /\ new.queue
        BY <1>1, <1>2, <2>2, <3>1
      <4> QED
        BY <2>2, <2>3, <2>5, <4>1 DEF RequestSound, LaunchPoints, TextTweet
    <3>2. CASE payload[p] # "candidate"
      <4>1. /\ new.at = "status"
            /\ new.queue => payload[p] = "picked"
            /\ new.queue \/ TextTweet(p)
        BY <1>3, <2>2, <2>4, <3>2
      <4> QED
        BY <2>2, <2>3, <2>5, <4>1 DEF RequestSound, LaunchPoints, TextTweet
    <3> QED
      BY <3>1, <3>2
  <2> QED
    BY <1>1, <1>2, <2>1, <2>2, <2>6, CurationTypes, RequestMoves
<1>4. CASE /\ ~traits[p].twitter
           /\ requests' = [requests EXCEPT ![c].at = "capture", ![c].queue = TRUE]
  <2> DEFINE new == [r EXCEPT !.at = "capture", !.queue = TRUE]
  <2>1. requests' = [requests EXCEPT ![c] = new]
    BY <1>4, CurationTypes
  <2>2. new \in Request /\ new.post = p /\ new.at = "capture" /\ new.queue
    BY <1>1 DEF Request, RequestPoints
  <2> HIDE DEF new
  <2>3. requests'[c] = new
    BY <2>1, CurationTypes
  <2>4. RequestSound(c)'
    BY <1>1, <1>4, <2>2, <2>3 DEF RequestSound, LaunchPoints, TextTweet
  <2> QED
    BY <1>1, <1>2, <2>1, <2>2, <2>4, CurationTypes, RequestMoves
<1>5. CASE requests' = [requests EXCEPT ![c] = NoRequest]
  BY <1>1, <1>2, <1>5, CurationTypes, RequestMoves
<1> QED
  BY <1>3, <1>4, <1>5 DEF ReadPayload, Finish, StoredIsQueued, TextTweet

LEMMA CaptureStep ==
  ASSUME IInv, NEW c \in Curators, Capture(c)
  PROVE  IInv'
<1> DEFINE r == requests[c]
           p == requests[c].post
           new == [r EXCEPT !.at = "pick"]
<1>1. /\ r # NoRequest /\ r.at = "capture" /\ r \in Request /\ p \in Posts
      /\ r.queue /\ ~TextTweet(p)
      /\ payload' = UpsertCapture(p)
      /\ UNCHANGED <<traits, curation, results, runs, flows, operator, faults>>
  BY RequestTypes DEF Capture, Unbothered, Handling, RequestSound
<1>2. requests' = [requests EXCEPT ![c] = new]
  BY CurationTypes DEF Capture, Continue
<1>3. new \in Request /\ new.post = p /\ new.at = "pick" /\ new.queue
  BY <1>1 DEF Request, RequestPoints
<1> HIDE DEF new
<1>4. requests'[c] = new
  BY <1>2, CurationTypes
<1>5. RequestSound(c)'
  BY <1>1, <1>3, <1>4 DEF RequestSound, LaunchPoints, TextTweet
<1>6. \A q \in Posts : TextTweet(q) => payload'[q] = "none"
  BY <1>1, Captured DEF IInv, CuratedIsStored
<1> QED
  BY <1>1, <1>2, <1>3, <1>5, <1>6, Captured, CurationTypes, RequestMoves

LEMMA MarkPickedStep ==
  ASSUME IInv, NEW c \in Curators, MarkPicked(c)
  PROVE  IInv'
<1> DEFINE r == requests[c]
           p == requests[c].post
           new == [r EXCEPT !.at = "status"]
<1>1. /\ r # NoRequest /\ r.at = "pick" /\ r \in Request /\ p \in Posts
      /\ r.queue /\ ~TextTweet(p)
      /\ payload' = [payload EXCEPT ![p] = "picked"]
      /\ UNCHANGED <<traits, curation, results, runs, flows, operator, faults>>
  BY RequestTypes DEF MarkPicked, Unbothered, Handling, RequestSound
<1>2. requests' = [requests EXCEPT ![c] = new]
  BY CurationTypes DEF MarkPicked, Continue
<1>3. new \in Request /\ new.post = p /\ new.at = "status" /\ new.queue
  BY <1>1 DEF Request, RequestPoints
<1> HIDE DEF new
<1>4. requests'[c] = new
  BY <1>2, CurationTypes
<1>5. /\ payload' \in [Posts -> {"none", "candidate", "picked"}]
      /\ payload'[p] = "picked"
      /\ \A q \in Posts : q # p => payload'[q] = payload[q]
  BY <1>1, CurationTypes
<1>6. RequestSound(c)'
  BY <1>3, <1>4, <1>5 DEF RequestSound, LaunchPoints
<1>7. \A q \in Posts : TextTweet(q) => payload'[q] = "none"
  BY <1>1, <1>5 DEF IInv, CuratedIsStored
<1> QED
  BY <1>1, <1>2, <1>3, <1>5, <1>6, <1>7, CurationTypes, RequestMoves

LEMMA UpdateStatusStep ==
  ASSUME IInv, NEW c \in Curators, UpdateStatus(c)
  PROVE  IInv'
<1> DEFINE r == requests[c]
           p == requests[c].post
<1>1. /\ r # NoRequest /\ r.at = "status" /\ r \in Request /\ p \in Posts
      /\ r.queue \in BOOLEAN /\ r.to \in {"curated", "rejected"}
      /\ r.queue => payload[p] = "picked"
      /\ r.to = "curated" => r.queue \/ TextTweet(p)
      /\ curation' = [curation EXCEPT ![p] = r.to]
      /\ UNCHANGED <<traits, payload, results, runs, flows, operator, faults>>
  BY RequestTypes DEF UpdateStatus, Unbothered, Handling, RequestSound
<1>2. /\ curation' \in [Posts -> {"none", "flagged", "curated", "rejected"}]
      /\ \A q \in Posts : curation'[q] = IF q = p THEN r.to ELSE curation[q]
  BY <1>1, CurationTypes
<1>3. \A q \in Posts : TextTweet(q) => payload[q] = "none"
  BY DEF IInv, CuratedIsStored
<1>4. CASE r.queue
  <2> DEFINE new == [r EXCEPT !.at = "insert"]
  <2>1. requests' = [requests EXCEPT ![c] = new]
    BY <1>4, CurationTypes DEF UpdateStatus, Continue
  <2>2. new \in Request /\ new.post = p /\ new.at = "insert" /\ new.queue /\ new # NoRequest
    BY <1>1, <1>4 DEF Request, RequestPoints, LaunchPoints, NoRequest
  <2> HIDE DEF new
  <2>3. requests'[c] = new
    BY <2>1, CurationTypes
  <2>4. RequestSound(c)'
    BY <1>1, <1>4, <2>2, <2>3 DEF RequestSound
  <2>5. \A q \in Posts : curation'[q] = "curated" /\ curation[q] # "curated" =>
          payload'[q] = "picked" /\ new.post = q
    BY <1>1, <1>2, <1>4, <2>2
  <2>6. \A q \in Posts : payload'[q] = payload[q]
    BY <1>1
  <2>7. UNCHANGED faults /\ UNCHANGED <<traits, results, operator, runs, flows>>
    BY <1>1
  <2> QED
    BY <1>1, <1>2, <1>3, <2>1, <2>2, <2>4, <2>5, <2>6, <2>7, CurationTypes, RequestMoves
<1>5. CASE ~r.queue
  <2>1. requests' = [requests EXCEPT ![c] = NoRequest]
    BY <1>5 DEF UpdateStatus, Finish
  <2> QED
    BY <1>1, <1>2, <1>3, <1>5, <2>1, CurationTypes, RequestMoves
<1> QED
  BY <1>1, <1>4, <1>5

LEMMA QueueEnrichmentStep ==
  ASSUME IInv, NEW c \in Curators, QueueEnrichment(c)
  PROVE  IInv'
<1>1. /\ requests[c] # NoRequest /\ requests[c] \in Request /\ requests[c].post \in Posts
      /\ RequestSound(c)
  BY RequestTypes DEF QueueEnrichment
<1>2. PICK r \in Request : r = requests[c]
  BY <1>1
<1>3. PICK p \in Posts, k \in Keys : p = r.post /\ k = <<p, PrimaryKind(p)>>
  BY <1>1, <1>2, KeyFacts, EnrichmentAssumption DEF PrimaryKind
<1>4. UNCHANGED <<traits, payload, results, operator, curation>>
  BY DEF QueueEnrichment, Unbothered
<1>5. PICK next \in Outcomes, started \in BOOLEAN :
        /\ LaunchStep(k, r.at, next, started)
        /\ flows' = Created(k, started)
        /\ IF next \in LaunchPoints THEN Continue(c, next) ELSE Finish(c)
  BY <1>2, <1>3 DEF QueueEnrichment
<1>6. /\ r.queue => payload[p] = "picked" \/ r.at \notin LaunchPoints
      /\ r.at \in LaunchPoints => r.queue
      /\ r.at \in {"create", "close"} => runs[k] # "absent"
  BY <1>1, <1>2, <1>3 DEF RequestSound
<1>7. flows \in [Keys -> Points \cup {"absent", "ended"}]
  BY Settled
<1>8. PICK status \in Statuses :
        /\ runs' = [runs EXCEPT ![k] = status]
        /\ status \in ActiveStatuses =>
             \/ next \in {"create", "close"} \/ started
             \/ r.at = "insert" /\ status = runs[k]
             \/ faults' > 0
        /\ faults' \in 0..MaxFaults /\ faults' >= faults
        /\ r.at \in LaunchPoints
        /\ status = "absent" => next = "failed" /\ (~HasPayload(k) \/ faults' > 0)
        /\ started => r.at = "create"
        /\ next = "create" => r.at = "insert" /\ runs[k] = "absent" /\ ~started
        /\ r.at = "create" => next \in {"done", "close"}
  BY <1>5, <1>6, LaunchEffect DEF LaunchPoints
<1>9. /\ payload[p] = "picked" /\ r.queue
      /\ status = "absent" => faults' > 0 /\ next = "failed"
  BY <1>3, <1>6, <1>8 DEF HasPayload
<1>10. runs'[k] = status
  BY <1>8, Settled
<1> DEFINE new == IF next \in LaunchPoints THEN [r EXCEPT !.at = next] ELSE NoRequest
<1>11. requests' = [requests EXCEPT ![c] = new]
  BY <1>2, <1>5, CurationTypes DEF Continue, Finish
<1>12. /\ next \in {"create", "close"} =>
            new \in Request /\ new.post = p /\ new.at = next /\ new.queue = r.queue /\ new # NoRequest
       /\ next \notin {"create", "close"} => new = NoRequest
  BY <1>3, <1>5 DEF Request, RequestPoints, LaunchPoints, Outcomes, NoRequest
<1> HIDE DEF new
<1>13. /\ requests'[c] = new
       /\ \A d \in Curators : d # c => requests'[d] = requests[d]
       /\ requests' \in [Curators -> Request \cup {NoRequest}]
  BY <1>11, <1>12, CurationTypes
<1>14. /\ flows' \in [Keys -> Points \cup {"absent", "ended"}]
       /\ flows'[k] = IF started THEN "assembling" ELSE flows[k]
       /\ \A l \in Keys \ {k} : flows'[l] = flows[l]
  BY <1>5, <1>7 DEF Created, Points
<1>15. \A q \in Posts : PrimaryKind(q) = PrimaryKind(q)'
  BY <1>4 DEF PrimaryKind, Visual
<1>16. r.at = "create" => <<"curator", c>> \in CreatorsOf(k) /\ flows[k] = "absent"
  <2>1. r.at = "create" => <<"curator", c>> \in CreatorsOf(k)
    BY <1>1, <1>2, <1>3 DEF CreatorsOf
  <2> QED
    BY <2>1 DEF IInv, OneCreator
<1>17. \A q \in Posts : flows[Vision(q)] \in {"create", "close"} => flows'[Vision(q)] = flows[Vision(q)]
  BY <1>8, <1>14, <1>16, KeyFacts
<1>18. \A q \in Posts : flows'[Vision(q)] = "create" => flows[Vision(q)] = "create"
  BY <1>14, KeyFacts
<1>19. next \in {"create", "close"} => InHand(k)'
  BY <1>3, <1>12, <1>13, <1>15 DEF InHand
<1>20. ASSUME NEW l \in Keys, InHand(l) PROVE InHand(l)' \/ Live(l)' \/ ~Active(l)' \/ faults' > 0
  <2>1. CASE \E d \in Curators :
               /\ requests[d] # NoRequest
               /\ requests[d].at \in {"create", "close"}
               /\ l = <<requests[d].post, PrimaryKind(requests[d].post)>>
    <3>1. PICK d \in Curators :
               /\ requests[d] # NoRequest
               /\ requests[d].at \in {"create", "close"}
               /\ l = <<requests[d].post, PrimaryKind(requests[d].post)>>
      BY <2>1
    <3>2. CASE d # c
      <4>1. requests[d].post \in Posts
        BY <3>1, RequestTypes
      <4> QED
        BY <1>13, <1>15, <3>1, <3>2, <4>1 DEF InHand
    <3>3. CASE d = c
      <4>1. l = k /\ r.at # "insert"
        BY <1>2, <1>3, <3>1, <3>3
      <4> QED
        BY <1>8, <1>10, <1>14, <1>19, <4>1 DEF Active, Live, Points
    <3> QED
      BY <3>2, <3>3
  <2>2. CASE \E q \in Posts : l = Attribution(q) /\ flows[Vision(q)] \in {"create", "close"}
    BY <1>17, <2>2 DEF InHand, Attribution, Vision
  <2>3. CASE l \in operator.now \cup operator.todo /\ operator.at # "insert"
    BY <1>4, <2>3 DEF InHand
  <2> QED
    BY <1>20, <2>1, <2>2, <2>3 DEF InHand, Attribution, Vision
<1>21. \A l \in Keys : Retried(l) => Retried(l)'
  BY <1>4 DEF Retried
<1>22. /\ runs' \in [Keys -> Statuses]
       /\ \A l \in Keys : runs[l] # "absent" => runs'[l] # "absent"
       /\ RowsFirst' /\ PlanStands' /\ ResultFirst' /\ QueuedIsFresh' /\ CuratedIsStored'
       /\ EnrichedIsPicked' /\ AttributedAfterVision' /\ CompleteIsPassedOn' /\ NoneStranded'
  BY <1>4, <1>5, <1>6, <1>14, <1>19, <1>20, <1>21, LaunchKeeps
<1>23. TypeOK'
  BY <1>4, <1>8, <1>13, <1>14, <1>22 DEF IInv, TypeOK, EnrichmentTypeOK
<1>24. OneInHand'
  BY <1>4, <1>22 DEF IInv, OneInHand, TypeOK, EnrichmentTypeOK
<1>25. RequestsSound'
  <2>1. ASSUME NEW d \in Curators, d # c, requests[d] # NoRequest PROVE RequestSound(d)'
    <3>1. PICK q \in Posts : q = requests[d].post
      BY <2>1, RequestTypes
    <3>2. <<q, PrimaryKind(q)>> \in Keys
      BY KeyFacts, EnrichmentAssumption DEF PrimaryKind
    <3>3. RequestSound(d)
      BY <2>1, RequestTypes
    <3> QED
      BY <1>4, <1>13, <1>15, <1>22, <2>1, <3>1, <3>2, <3>3 DEF RequestSound, TextTweet
  <2>2. ASSUME new # NoRequest PROVE RequestSound(c)'
    <3>1. next # "failed" /\ next \in {"create", "close"}
      BY <1>12, <2>2
    <3> QED
      BY <1>3, <1>4, <1>9, <1>10, <1>12, <1>13, <1>15, <2>2, <3>1 DEF RequestSound, LaunchPoints
  <2> QED
    BY <1>13, <2>1, <2>2 DEF RequestsSound
<1>26. CuratedIsQueued'
  <2> SUFFICES ASSUME NEW q \in Posts, curation[q] = "curated", payload[q] = "picked", ~(faults' > 0),
                      runs'[<<q, PrimaryKind(q)>>] = "absent"
               PROVE  \E d \in Curators : Handling(d, "insert")' /\ requests'[d].post = q
    BY <1>4, <1>15 DEF CuratedIsQueued, Handling
  <2>1. <<q, PrimaryKind(q)>> \in Keys
    BY KeyFacts, EnrichmentAssumption DEF PrimaryKind
  <2>2. runs[<<q, PrimaryKind(q)>>] = "absent"
    BY <1>22, <2>1
  <2>0. ~(faults > 0)
    BY <1>8, EnrichmentAssumption DEF IInv, TypeOK, EnrichmentTypeOK
  <2>3. PICK d \in Curators : Handling(d, "insert") /\ requests[d].post = q
    BY <2>0, <2>2 DEF IInv, CuratedIsQueued
  <2>4. d # c
    BY <1>2, <1>3, <1>9, <1>10, <2>3
  <2> QED
    BY <1>13, <2>3, <2>4 DEF Handling
<1>27. OneCreator'
  <2>1. ASSUME NEW l \in Keys, l # k
        PROVE  /\ CreatorsOf(l)' \subseteq CreatorsOf(l)
               /\ CreatorsOf(l) # {} => flows'[l] = "absent"
    <3>1. ASSUME NEW d \in Curators, requests'[d] # NoRequest, requests'[d].at = "create",
                 l = <<requests'[d].post, PrimaryKind(requests'[d].post)>>
          PROVE  requests'[d] = requests[d]
      <4>1. d # c
        BY <1>3, <1>12, <1>13, <2>1, <3>1
      <4> QED
        BY <1>13, <4>1
    <3>2. CreatorsOf(l)' \subseteq CreatorsOf(l)
      BY <1>4, <1>18, <3>1 DEF CreatorsOf, PrimaryKind, Visual
    <3> QED
      BY <1>14, <2>1, <3>2 DEF IInv, OneCreator
  <2>3. next # "create" => CreatorsOf(k)' \subseteq CreatorsOf(k) \ {<<"curator", c>>}
    <3>1. ASSUME next # "create", NEW d \in Curators, requests'[d] # NoRequest, requests'[d].at = "create"
          PROVE  d # c /\ requests'[d] = requests[d]
      <4>1. d # c
        BY <1>12, <1>13, <3>1
      <4> QED
        BY <1>13, <4>1
    <3> QED
      BY <1>4, <1>18, <3>1 DEF CreatorsOf, PrimaryKind, Visual
  <2>4. CASE next = "create"
    <3>1. CreatorsOf(k) = {} /\ flows[k] = "absent" /\ ~started
      BY <1>8, <2>4, NoCreator
    <3>2. ASSUME NEW d \in Curators, d # c, requests'[d] # NoRequest, requests'[d].at = "create"
          PROVE  k # <<requests'[d].post, PrimaryKind(requests'[d].post)>>
      <4>1. requests'[d] = requests[d]
        BY <1>13, <3>2
      <4>2. <<"curator", d>> \notin CreatorsOf(k)
        BY <3>1
      <4> QED
        BY <3>2, <4>1, <4>2 DEF CreatorsOf
    <3>3. CreatorsOf(k)' \subseteq {<<"curator", c>>}
      BY <1>4, <1>18, <3>1, <3>2 DEF CreatorsOf, PrimaryKind, Visual
    <3> QED
      BY <1>14, <2>1, <3>1, <3>3 DEF IInv, OneCreator
  <2>5. CASE next # "create" /\ r.at = "create"
    <3>1. CreatorsOf(k)' = {}
      BY <1>16, <2>3, <2>5 DEF IInv, OneCreator
    <3> QED
      BY <2>1, <3>1 DEF IInv, OneCreator
  <2>6. CASE next # "create" /\ r.at # "create"
    BY <1>8, <1>14, <2>1, <2>3, <2>6 DEF IInv, OneCreator
  <2> QED
    BY <2>4, <2>5, <2>6
<1> QED
  BY <1>22, <1>23, <1>24, <1>25, <1>26, <1>27 DEF IInv

LEMMA CuratorDiesStep ==
  ASSUME IInv, NEW c \in Curators, CuratorDies(c)
  PROVE  IInv'
<1>1. /\ requests' = [requests EXCEPT ![c] = NoRequest]
      /\ Fault("cut")
      /\ UNCHANGED <<traits, payload, curation, results, runs, flows, operator>>
  BY DEF CuratorDies, Finish, Unbothered
<1>2. /\ requests' \in [Curators -> Request \cup {NoRequest}]
      /\ requests'[c] = NoRequest
      /\ \A d \in Curators : d # c => requests'[d] = requests[d]
  BY <1>1, CurationTypes
<1>3. RequestsSound'
  <2> SUFFICES ASSUME NEW d \in Curators, d # c, requests[d] # NoRequest PROVE RequestSound(d)'
    BY <1>2 DEF RequestsSound
  <2> QED
    BY <1>1, <1>2, RequestTypes DEF RequestSound, TextTweet, PrimaryKind, Visual
<1>4. CuratedIsStored' /\ CuratedIsQueued'
  BY <1>1, Faults DEF IInv, CuratedIsStored, CuratedIsQueued, TextTweet
<1> QED
  BY <1>1, <1>2, <1>3, <1>4, Faults, CurationTypes, CuratorKeeps

LEMMA StepInv == IInv /\ [Next]_vars => IInv'
<1> SUFFICES ASSUME IInv, [Next]_vars PROVE IInv'
  OBVIOUS
<1>1. CASE EnrichmentNext /\ UNCHANGED <<curation, requests>>
  BY <1>1, EnrichmentStep
<1>2. ASSUME NEW p \in Posts, FlagBatch(p) \/ ImportPayload(p) PROVE IInv'
  BY <1>2, FlagBatchStep, ImportPayloadStep
<1>3. ASSUME NEW c \in Curators, NEW p \in Posts, NEW to \in {"curated", "rejected"}, Decide(c, p, to)
      PROVE  IInv'
  BY <1>3, DecideStep
<1>4. ASSUME NEW c \in Curators, CurationStep(c) \/ CuratorDies(c) PROVE IInv'
  BY <1>4, ReadPayloadStep, CaptureStep, MarkPickedStep, UpdateStatusStep, QueueEnrichmentStep,
     CuratorDiesStep DEF CurationStep
<1>5. CASE UNCHANGED vars
  <2>1. UNCHANGED <<traits, payload, results, runs, flows, operator, faults, curation, requests>>
    BY <1>5 DEF vars, evars
  <2>2. RequestsSound' /\ CuratedIsStored' /\ CuratedIsQueued'
    BY <2>1 DEF IInv, RequestsSound, RequestSound, CuratedIsStored, CuratedIsQueued, TextTweet,
       PrimaryKind, Visual, Handling
  <2> QED
    BY <2>1, <2>2, Settled, CurationTypes, CuratorKeeps
<1> QED
  BY <1>1, <1>2, <1>3, <1>4, <1>5 DEF Next

-----------------------------------------------------------------------------
(* Whatever curators, workflows, operators and faults do, the invariant    *)
(* that the rest follows from holds.                                       *)
THEOREM Invariance == Spec => []IInv
  BY InitInv, StepInv, PTL DEF Spec

(* Tables, workflows and requests keep their types.                        *)
THEOREM TypesHold == Spec => []TypeOK
<1>1. IInv => TypeOK
  BY DEF IInv
<1> QED
  BY <1>1, Invariance, PTL

(* The status is written last: no curated post lacks its picked payload,   *)
(* for any number of curators.                                             *)
THEOREM PayloadBeforeStatus == Spec => []CuratedIsPicked
<1>1. IInv => CuratedIsPicked
  BY DEF IInv, CuratedIsStored, CuratedIsPicked, TextTweet
<1> QED
  BY <1>1, Invariance, PTL

(* Results are of picked posts only, although the stage is read before the *)
(* write.                                                                  *)
THEOREM ResultsOfPickedPosts == Spec => []EnrichedIsPicked
<1>1. IInv => EnrichedIsPicked
  BY DEF IInv
<1> QED
  BY <1>1, Invariance, PTL

(* Images are read before sources are attributed.                          *)
THEOREM VisionFirst == Spec => []AttributedAfterVision
<1>1. IInv => AttributedAfterVision
  BY DEF IInv
<1> QED
  BY <1>1, Invariance, PTL

(* A complete vision run has passed its post on.                           *)
THEOREM PassedOn == Spec => []CompleteIsPassedOn
<1>1. IInv => CompleteIsPassedOn
  BY DEF IInv
<1> QED
  BY <1>1, Invariance, PTL

(* Without a fault, an active run has a workflow or somebody who owes it.  *)
THEOREM RunsAreOwned == Spec => []NoneStranded
<1>1. IInv => NoneStranded
  BY DEF IInv
<1> QED
  BY <1>1, Invariance, PTL

(* Without a fault, a curated post with a picked payload is launched.      *)
THEOREM CuratedIsLaunched == Spec => []CuratedIsQueued
<1>1. IInv => CuratedIsQueued
  BY DEF IInv
<1> QED
  BY <1>1, Invariance, PTL

-----------------------------------------------------------------------------
(* Only a curator writes over a decision, and with a decision.             *)
LEMMA DecisionStep ==
  IInv /\ [Next]_vars
    => [\A p \in Posts : curation[p] \in {"curated", "rejected"}
                           => curation'[p] \in {"curated", "rejected"}]_vars
<1> SUFFICES ASSUME IInv, Next, NEW p \in Posts, curation[p] \in {"curated", "rejected"}
             PROVE  curation'[p] \in {"curated", "rejected"}
  OBVIOUS
<1>1. ASSUME NEW q \in Posts, FlagBatch(q) PROVE curation'[p] \in {"curated", "rejected"}
  BY <1>1, CurationTypes DEF FlagBatch, UpsertFlag
<1>2. ASSUME NEW c \in Curators, UpdateStatus(c) PROVE curation'[p] \in {"curated", "rejected"}
  BY <1>2, CurationTypes, RequestTypes DEF UpdateStatus, Handling
<1>3. ASSUME NEW q \in Posts, ImportPayload(q) PROVE curation' = curation
  BY <1>3 DEF ImportPayload
<1>4. ASSUME NEW c \in Curators, NEW q \in Posts, NEW to \in {"curated", "rejected"}, Decide(c, q, to)
      PROVE  curation' = curation
  BY <1>4 DEF Decide
<1>5. ASSUME NEW c \in Curators,
             ReadPayload(c) \/ Capture(c) \/ MarkPicked(c) \/ QueueEnrichment(c) \/ CuratorDies(c)
      PROVE  curation' = curation
  BY <1>5 DEF ReadPayload, Capture, MarkPicked, QueueEnrichment, CuratorDies
<1> QED
  BY <1>1, <1>2, <1>3, <1>4, <1>5 DEF Next, CurationStep

(* Polls and imports leave decisions alone.                                *)
THEOREM DecisionsKept == Spec => DecisionStands
  BY Invariance, DecisionStep, PTL DEF Spec, DecisionStands

-----------------------------------------------------------------------------
(***************************************************************************)
(* Curation and enrichment implement EnrichmentLedger                      *)
(***************************************************************************)
(* The updates of a row are moves of the ledger, or change nothing.        *)
LEMMA FailedMove ==
  ASSUME NEW k \in Keys, runs' = MarkFailed(k), UNCHANGED results
  PROVE  Ledger!GiveUp(k) \/ UNCHANGED <<runs, results>>
  BY DEF MarkFailed, Active, ActiveStatuses, Set, Ledger!GiveUp, Ledger!Move

LEMMA LaunchMove ==
  ASSUME NEW k \in Keys, NEW at, NEW next, NEW started, LaunchStep(k, at, next, started),
         UNCHANGED results
  PROVE  Ledger!Queue(k) \/ Ledger!GiveUp(k) \/ UNCHANGED <<runs, results>>
<1>1. CASE runs' = CreateQueuedIfAbsent(k)
  BY <1>1 DEF CreateQueuedIfAbsent, Set, Ledger!Queue, Ledger!Move
<1>2. CASE runs' = MarkFailed(k)
  BY <1>2, FailedMove
<1> QED
  BY <1>1, <1>2 DEF LaunchStep, LaunchGoesOn, LaunchWriteFails

LEMMA LedgerStep == IInv /\ [Next]_vars => [Ledger!Next]_(Ledger!ledger)
<1> SUFFICES ASSUME IInv, [Next]_vars PROVE Ledger!Next \/ UNCHANGED <<runs, results>>
  BY DEF Ledger!ledger
<1>1. ASSUME NEW p \in Posts, NEW kind \in Kinds, FlowStep(p, kind)
      PROVE  Ledger!Next \/ UNCHANGED <<runs, results>>
  <2> DEFINE k == <<p, kind>>
  <2>1. k \in Keys /\ Attribution(p) \in Keys
    BY KeyFacts
  <2>2. runs \in [Keys -> Statuses] /\ flows \in [Keys -> Points \cup {"absent", "ended"}]
    BY Settled
  <2>3. CASE MarkPhaseStep(k)
    <3>1. CASE runs[k] = "queued"
      BY <2>1, <2>3, <3>1
         DEF MarkPhaseStep, MarkPhase, Active, ActiveStatuses, Set, Ledger!Next, Ledger!Start, Ledger!Move
    <3>2. CASE runs[k] # "queued"
      BY <2>1, <2>2, <2>3, <3>2 DEF MarkPhaseStep, MarkPhase, Active, ActiveStatuses, Set
    <3> QED
      BY <3>1, <3>2
  <2>4. CASE LastStep(k)
    <3>1. CASE flows[k] = "completing"
      <4>1. results[k]
        BY <2>1, <3>1 DEF IInv, ResultFirst
      <4> QED
        BY <2>1, <2>4, <3>1, <4>1
           DEF LastStep, MarkComplete, Set, Ledger!Next, Ledger!Complete, Ledger!Move
    <3>2. CASE flows[k] = "reviewing"
      BY <2>1, <2>4, <3>2 DEF LastStep, MarkNeedsReview, Set, Ledger!Next, Ledger!Review, Ledger!Move
    <3>3. CASE flows[k] = "catching"
      BY <2>1, <2>4, <3>3, FailedMove DEF LastStep, Ledger!Next
    <3> QED
      BY <2>4, <3>1, <3>2, <3>3 DEF LastStep
  <2>5. CASE StoreResult(p, kind)
    <3>1. runs[k] # "absent"
      BY <2>1, <2>5 DEF StoreResult, IInv, RowsFirst
    <3> QED
      BY <2>1, <2>5, <3>1 DEF StoreResult, Stored, Ledger!Next, Ledger!Write
  <2>6. CASE Plan(p, kind) \/ ReadStage(p, kind)
    BY <2>6 DEF Plan, ReadStage
  <2>7. CASE QueueAttribution(p)
    <3>1. PICK next, started : LaunchStep(Attribution(p), flows[Vision(p)], next, started)
      BY <2>7 DEF QueueAttribution, Attribution, Vision
    <3>2. UNCHANGED results
      BY <2>7 DEF QueueAttribution
    <3> QED
      BY <2>1, <3>1, <3>2, LaunchMove DEF Ledger!Next
  <2> QED
    BY <1>1, <2>3, <2>4, <2>5, <2>6, <2>7 DEF FlowStep
<1>2. ASSUME NEW k \in Keys, FlowFails(k) PROVE UNCHANGED <<runs, results>>
  BY <1>2 DEF FlowFails, StepExhausted, LaunchCut, CatchFails
<1>3. CASE OperatorAsks
  <2>1. ASSUME NEW k \in Keys, OperatorRetries(k) PROVE Ledger!Next
    BY <2>1 DEF OperatorRetries, ResetForRetry, Set, Ledger!Next, Ledger!Retry, Ledger!Move
  <2> QED
    BY <1>3, <2>1 DEF OperatorAsks, OperatorStarts, OperatorRepairs
<1>4. CASE OperatorGoesOn
  <2>1. PICK k \in operator.now \cup operator.todo :
          \/ OperatorLaunches(k)
          \/ Restart(k) \/ RestartFails(k) \/ CloseUnrestarted(k)
          \/ Terminate(k) \/ TerminateFails(k) \/ MarkRepaired(k)
    BY <1>4 DEF OperatorGoesOn
  <2>2. k \in Keys
    BY Settled
  <2>3. CASE OperatorLaunches(k)
    BY <2>2, <2>3, LaunchMove DEF OperatorLaunches, Ledger!Next
  <2>4. CASE CloseUnrestarted(k) \/ MarkRepaired(k)
    BY <2>2, <2>4, FailedMove DEF CloseUnrestarted, MarkRepaired, Ledger!Next
  <2>5. CASE Restart(k) \/ RestartFails(k) \/ Terminate(k) \/ TerminateFails(k)
    BY <2>5 DEF Restart, RestartFails, Terminate, TerminateFails
  <2> QED
    BY <2>1, <2>3, <2>4, <2>5
<1>5. CASE OperatorDies
  BY <1>5 DEF OperatorDies
<1>6. ASSUME NEW p \in Posts, FlagBatch(p) \/ ImportPayload(p) PROVE UNCHANGED <<runs, results>>
  BY <1>6 DEF FlagBatch, ImportPayload, Unbothered
<1>7. ASSUME NEW c \in Curators, NEW p \in Posts, NEW to \in {"curated", "rejected"}, Decide(c, p, to)
      PROVE  UNCHANGED <<runs, results>>
  BY <1>7 DEF Decide, Unbothered
<1>8. ASSUME NEW c \in Curators, QueueEnrichment(c)
      PROVE  Ledger!Next \/ UNCHANGED <<runs, results>>
  <2>1. requests[c].post \in Posts
    BY <1>8, RequestTypes DEF QueueEnrichment
  <2>2. PICK k \in Keys : k = <<requests[c].post, PrimaryKind(requests[c].post)>>
    BY <2>1, KeyFacts, EnrichmentAssumption DEF PrimaryKind
  <2>3. PICK next, started : LaunchStep(k, requests[c].at, next, started)
    BY <1>8, <2>2 DEF QueueEnrichment
  <2>4. UNCHANGED results
    BY <1>8 DEF QueueEnrichment, Unbothered
  <2> QED
    BY <2>3, <2>4, LaunchMove DEF Ledger!Next
<1>9. ASSUME NEW c \in Curators,
             ReadPayload(c) \/ Capture(c) \/ MarkPicked(c) \/ UpdateStatus(c) \/ CuratorDies(c)
      PROVE  UNCHANGED <<runs, results>>
  BY <1>9 DEF ReadPayload, Capture, MarkPicked, UpdateStatus, CuratorDies, Unbothered
<1>10. CASE UNCHANGED vars
  BY <1>10 DEF vars, evars
<1>11. CASE EnrichmentNext
  BY <1>1, <1>2, <1>3, <1>4, <1>5, <1>11, KeyFacts DEF EnrichmentNext
<1> QED
  BY <1>6, <1>7, <1>8, <1>9, <1>10, <1>11 DEF Next, CurationStep

(* Whatever workflows, curators, operators and faults do to it, the table  *)
(* of runs is the ledger its readers rely on.                              *)
THEOREM RunsAreALedger == Spec => LedgerSpec
<1>1. Init => Ledger!Init
  BY DEF Init, EnrichmentInit, Ledger!Init
<1> QED
  BY <1>1, Invariance, LedgerStep, PTL DEF Spec, LedgerSpec, Ledger!Spec
=============================================================================
