------------------------------ MODULE Curation ------------------------------
(***************************************************************************)
(* Curation of posts and what it sets off.  Ingestion flags posts,         *)
(* imports bring stored media; curators decide.  curatePost reads, fetches *)
(* and writes in several statements, the status after the payload, and     *)
(* queues the enrichment run last, ignoring a failure; the requests of two *)
(* curators and the runs of Enrichment interleave at each statement.       *)
(***************************************************************************)
EXTENDS Enrichment

CONSTANT Curators  \* curators with one request each at a time

VARIABLES
  curation,   \* curation[p]: status of its row in post_curation
  requests    \* requests[c]: the decision that curator c has in hand

vars == <<evars, curation, requests>>

RequestPoints == {"payload", "capture", "pick", "status"} \cup LaunchPoints

(* queue: whether a run is queued at the end. *)
Request == [post : Posts, to : {"curated", "rejected"}, at : RequestPoints, queue : BOOLEAN]
NoRequest == [at |-> "none"]

Unbothered == UNCHANGED <<traits, results, operator>>

-----------------------------------------------------------------------------
(* Mutant: a flag without the condition on the status. *)
UpsertFlagAlways(p) == "flagged"

(* upsertFlag, for new, imported and polled-again posts. *)
UpsertFlag(p) == IF curation[p] = "none" THEN "flagged" ELSE curation[p]

FlagBatch(p) ==
  /\ curation' = [curation EXCEPT ![p] = UpsertFlag(p)]
  /\ UNCHANGED <<payload, runs, flows, faults, requests>>
  /\ Unbothered

(* Mutant: a capture resets the stage. *)
UpsertCaptureAnew(p) == [payload EXCEPT ![p] = "candidate"]

(* upsertCapture keeps a picked row picked. *)
UpsertCapture(p) == [payload EXCEPT ![p] = IF @ = "picked" THEN @ ELSE "candidate"]

(* importPosts captures the media it was given. *)
ImportPayload(p) ==
  /\ traits[p].embed # "none"
  /\ payload' = UpsertCapture(p)
  /\ UNCHANGED <<runs, flows, faults, curation, requests>>
  /\ Unbothered

-----------------------------------------------------------------------------
(***************************************************************************)
(* curatePost                                                              *)
(***************************************************************************)
Continue(c, point) == requests' = [requests EXCEPT ![c].at = point]
Finish(c) == requests' = [requests EXCEPT ![c] = NoRequest]

(* A decision the post already has is returned as it is. *)
Decide(c, p, to) ==
  /\ requests[c] = NoRequest
  /\ curation[p] # to
  /\ requests' = [requests EXCEPT ![c] =
       [post |-> p, to |-> to, at |-> IF to = "rejected" THEN "status" ELSE "payload",
        queue |-> FALSE]]
  /\ UNCHANGED <<payload, runs, flows, faults, curation>>
  /\ Unbothered

Handling(c, point) == requests[c] # NoRequest /\ requests[c].at = point

(* Mutant: judged by the stage read before markPicked. *)
PickedIsQueued(p) == payload[p] = "picked"

(* A payload that was stored is enriched, whatever its stage was. *)
StoredIsQueued(p) == payload[p] # "none"

(* The stored payload decides the way: its media are used when there are   *)
(* any; a tweet without media has nothing to enrich unless its row exists; *)
(* other posts are fetched, unless their media should have been stored.    *)
ReadPayload(c) ==
  LET p == requests[c].post
      media == payload[p] # "none" /\ traits[p].embed # "none"
  IN  /\ Handling(c, "payload")
      /\ \/ /\ media \/ (traits[p].twitter /\ traits[p].embed = "none")
            /\ requests' = [requests EXCEPT
                 ![c].at = IF payload[p] = "candidate" THEN "pick" ELSE "status",
                 ![c].queue = StoredIsQueued(p)]
         \/ /\ ~traits[p].twitter /\ ~media
            /\ requests' = [requests EXCEPT ![c].at = "capture", ![c].queue = TRUE]
         \/ /\ ~media /\ (traits[p].twitter => traits[p].embed # "none")
            /\ Finish(c)
      /\ UNCHANGED <<payload, runs, flows, faults, curation>>
      /\ Unbothered

Capture(c) ==
  /\ Handling(c, "capture")
  /\ payload' = UpsertCapture(requests[c].post)
  /\ Continue(c, "pick")
  /\ UNCHANGED <<runs, flows, faults, curation>>
  /\ Unbothered

MarkPicked(c) ==
  /\ Handling(c, "pick")
  /\ payload' = [payload EXCEPT ![requests[c].post] = "picked"]
  /\ Continue(c, "status")
  /\ UNCHANGED <<runs, flows, faults, curation>>
  /\ Unbothered

(* Mutant: the status before the payload. *)
UpdateStatusFirst(c) ==
  /\ requests[c] # NoRequest
  /\ requests[c].at \in {"pick", "status"}
  /\ curation' = [curation EXCEPT ![requests[c].post] = requests[c].to]
  /\ IF requests[c].at = "pick" THEN UNCHANGED requests
     ELSE IF requests[c].queue THEN Continue(c, "insert") ELSE Finish(c)
  /\ UNCHANGED <<payload, runs, flows, faults>>
  /\ Unbothered

UpdateStatus(c) ==
  /\ Handling(c, "status")
  /\ curation' = [curation EXCEPT ![requests[c].post] = requests[c].to]
  /\ IF requests[c].queue THEN Continue(c, "insert") ELSE Finish(c)
  /\ UNCHANGED <<payload, runs, flows, faults>>
  /\ Unbothered

(* inferPrimaryEnrichmentType, of the payload in hand. *)
PrimaryKind(p) == IF Visual(p) THEN "vision" ELSE "source-attribution"

(* queuePickedEnrichmentSafely: a failed launch is logged, and that is all. *)
QueueEnrichment(c) ==
  LET k == <<requests[c].post, PrimaryKind(requests[c].post)>> IN
  /\ requests[c] # NoRequest
  /\ \E next \in Outcomes, started \in BOOLEAN :
       /\ LaunchStep(k, requests[c].at, next, started)
       /\ flows' = Created(k, started)
       /\ IF next \in LaunchPoints THEN Continue(c, next) ELSE Finish(c)
  /\ UNCHANGED <<payload, curation>>
  /\ Unbothered

CuratorDies(c) ==
  /\ requests[c] # NoRequest
  /\ Finish(c)
  /\ Fault("cut")
  /\ UNCHANGED <<payload, runs, flows, curation>>
  /\ Unbothered

CurationStep(c) ==
  ReadPayload(c) \/ Capture(c) \/ MarkPicked(c) \/ UpdateStatus(c) \/ QueueEnrichment(c)

-----------------------------------------------------------------------------
Init ==
  /\ EnrichmentInit
  /\ curation = [p \in Posts |-> "none"]
  /\ requests = [c \in Curators |-> NoRequest]

Next ==
  \/ EnrichmentNext /\ UNCHANGED <<curation, requests>>
  \/ \E p \in Posts : FlagBatch(p) \/ ImportPayload(p)
  \/ \E c \in Curators :
       \/ \E p \in Posts, to \in {"curated", "rejected"} : Decide(c, p, to)
       \/ CurationStep(c) \/ CuratorDies(c)

Spec == Init /\ [][Next]_vars

(* The engine runs every workflow on, and a request that was accepted gets *)
(* its answers; nobody is bound to ask for anything.                       *)
Fairness ==
  /\ \A p \in Posts, kind \in Kinds :
       WF_vars(FlowStep(p, kind) /\ UNCHANGED <<curation, requests>>)
  /\ WF_vars(OperatorGoesOn /\ UNCHANGED <<curation, requests>>)
  /\ \A c \in Curators : WF_vars(CurationStep(c))

FairSpec == Spec /\ Fairness

-----------------------------------------------------------------------------
(***************************************************************************)
(* Properties                                                              *)
(***************************************************************************)
(* Types of the tables, the workflows and the requests in hand. *)
TypeOK ==
  /\ EnrichmentTypeOK
  /\ curation \in [Posts -> {"none", "flagged", "curated", "rejected"}]
  /\ requests \in [Curators -> Request \cup {NoRequest}]

(* Ingestion polls a post again, and imports bring it again, at any time:  *)
(* neither puts a decided post back among the candidates.                  *)
DecisionStands ==
  [][\A p \in Posts : curation[p] \in {"curated", "rejected"}
                        => curation'[p] \in {"curated", "rejected"}]_vars

(* "Writing status last ensures the idempotency guard only triggers after  *)
(* payload is safely persisted": a curated post that did not come from     *)
(* Twitter has its payload, picked, whoever curates, rejects, fails or     *)
(* imports it beside the first curator.                                    *)
CuratedIsPicked ==
  \A p \in Posts : curation[p] = "curated" /\ ~traits[p].twitter => payload[p] = "picked"

(* Only picked payloads are enriched, and they stay picked under their     *)
(* results, although saveEnrichment reads the stage before it writes.      *)
EnrichedIsPicked ==
  \A p \in Posts, kind \in Kinds : results[<<p, kind>>] => payload[p] = "picked"

(* A post with images is attributed from its vision result, never without, *)
(* whoever asked for the attribution and however often it was retried.     *)
AttributedAfterVision ==
  \A p \in Posts :
    Visual(p) /\ results[<<p, "source-attribution">>] => VisionKnown(p)

(* A vision run is complete only when the post's attribution has a run of  *)
(* its own, after evictions, retries and repairs of either.                *)
CompleteIsPassedOn ==
  \A p \in Posts :
    runs[<<p, "vision">>] = "complete"
      => runs[<<p, "source-attribution">>] # "absent"

(* Runs keep the ledger's promise while workflows that were given up run   *)
(* on and repairs close what they listed long ago.                         *)
LedgerSpec == Ledger!Spec

(* Who inserted a row, or listed it for repair, owes it a workflow or a    *)
(* verdict; an active run that has neither nor such a debtor is stranded.  *)
InHand(k) ==
  \/ \E c \in Curators :
       /\ requests[c] # NoRequest
       /\ requests[c].at \in {"create", "close"}
       /\ k = <<requests[c].post, PrimaryKind(requests[c].post)>>
  \/ \E p \in Posts :
       k = <<p, "source-attribution">> /\ flows[<<p, "vision">>] \in {"create", "close"}
  \/ k \in operator.now \cup operator.todo /\ operator.at # "insert"
Stranded(k) == Active(k) /\ ~Live(k) /\ ~InHand(k)

(* A run stays active without anybody at work on it only after a worker    *)
(* died, or the last update of a run failed.                               *)
NoneStranded == (\E k \in Keys : Stranded(k)) => faults > 0

(* Every queued or running run is closed, or is one of those. *)
RunSettles == \A k \in Keys : Active(k) ~> ~Active(k) \/ Stranded(k)

(* A curated post with a picked payload has a run of its primary kind once *)
(* its curator's request has reached the launch: a decision that stands is *)
(* never launched again, so the launch must not be missed the first time.  *)
(* Only a fault excuses it, such as a request that died or an insert that  *)
(* failed, which the curator's request swallows.                           *)
CuratedIsQueued ==
  \A p \in Posts :
    curation[p] = "curated" /\ payload[p] = "picked"
      => \/ runs[<<p, PrimaryKind(p)>>] # "absent"
         \/ \E c \in Curators : Handling(c, "insert") /\ requests[c].post = p
         \/ faults > 0
=============================================================================
