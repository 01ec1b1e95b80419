----------------------------- MODULE RunLedger -----------------------------
(***************************************************************************)
(* What the tables ingest_runs and ingest_run_items promise to who reads   *)
(* them: an accepted run collects one result per expert, is closed once    *)
(* with the verdict its results give or is given up, and a run closed as   *)
(* complete is never touched again.                                        *)
(***************************************************************************)
CONSTANTS Runs, Experts

VARIABLES
  result,   \* result[r][d]: "open", "complete" or "failed"
  verdict   \* verdict[r]: "none", "open", "complete" or "failed"

ledger == <<result, verdict>>

Accept(r) ==
  /\ verdict[r] = "none"
  /\ verdict' = [verdict EXCEPT ![r] = "open"]
  /\ UNCHANGED result

(* An expert's result comes in, or a late dispatch mark hides it again; *)
(* for a run that was given up the experts may still be at work.        *)
Settle(r, d) ==
  /\ verdict[r] \in {"open", "failed"}
  /\ \E s \in {"open", "complete", "failed"} : result' = [result EXCEPT ![r][d] = s]
  /\ UNCHANGED verdict

Close(r) ==
  /\ verdict[r] = "open"
  /\ \A d \in Experts : result[r][d] # "open"
  /\ verdict' = [verdict EXCEPT ![r] =
       IF \A d \in Experts : result[r][d] = "complete" THEN "complete" ELSE "failed"]
  /\ UNCHANGED result

GiveUp(r) ==
  /\ verdict[r] = "open"
  /\ verdict' = [verdict EXCEPT ![r] = "failed"]
  /\ UNCHANGED result

Init ==
  /\ result = [r \in Runs |-> [d \in Experts |-> "open"]]
  /\ verdict = [r \in Runs |-> "none"]

Next ==
  \E r \in Runs :
    \/ Accept(r) \/ Close(r) \/ GiveUp(r)
    \/ \E d \in Experts : Settle(r, d)

Spec == Init /\ [][Next]_ledger
=============================================================================
