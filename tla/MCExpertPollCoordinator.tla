---------------------- MODULE MCExpertPollCoordinator ----------------------
(* Small instances of ExpertPollCoordinator for TLC: one expert, and runs *)
(* of the kinds that meet in its queue.                                   *)
EXTENDS ExpertPollCoordinator

CONSTANTS d1, h1, h2, b1, c1

(* Two runs that share the head task, and one of each other kind. *)
AllRuns == {h1, h2, b1, c1}

(* Two runs that share the head task, and a backfill. *)
MixedRuns == {h1, h2, b1}

KindOf == [r \in Runs |-> CASE r \in {h1, h2} -> "head"
                            [] r = b1 -> "backfill"
                            [] r = c1 -> "reconcile"]
=============================================================================
