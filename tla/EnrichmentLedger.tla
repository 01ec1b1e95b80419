-------------------------- MODULE EnrichmentLedger --------------------------
(***************************************************************************)
(* What the table post_enrichment_runs promises to who reads it, each run  *)
(* by itself: a run is queued once, closed with a verdict, and taken up    *)
(* again only after it failed or was sent to review; a run closed as       *)
(* complete has its result and stays complete.                             *)
(***************************************************************************)
CONSTANT Keys

VARIABLES
  status,   \* status[k]: of the run
  written   \* written[k]: the run's result is stored

ledger == <<status, written>>

Move(k, from, to) ==
  /\ status[k] \in from
  /\ status' = [status EXCEPT ![k] = to]
  /\ UNCHANGED written

Queue(k) == Move(k, {"absent"}, "queued")
Start(k) == Move(k, {"queued"}, "running")
GiveUp(k) == Move(k, {"queued", "running"}, "failed")
Review(k) == Move(k, {"running"}, "needs-review")
Retry(k) == Move(k, {"failed", "needs-review"}, "queued")
Complete(k) == written[k] /\ Move(k, {"running"}, "complete")

(* Whatever became of the run, its workflow may still store a result. *)
Write(k) ==
  /\ status[k] # "absent"
  /\ written' = [written EXCEPT ![k] = TRUE]
  /\ UNCHANGED status

Init ==
  /\ status = [k \in Keys |-> "absent"]
  /\ written = [k \in Keys |-> FALSE]

Next ==
  \E k \in Keys :
    \/ Queue(k) \/ Start(k) \/ GiveUp(k) \/ Review(k) \/ Retry(k)
    \/ Complete(k) \/ Write(k)

Spec == Init /\ [][Next]_ledger
=============================================================================
