---------------------------- MODULE MCIngestRun ----------------------------
(* Small instances of IngestRun for TLC. *)
EXTENDS IngestRun

CONSTANTS h1, b1

OneHead == {h1}
HeadAndBackfill == {h1, b1}

KindOf == [r \in Runs |-> IF r = b1 THEN "backfill" ELSE "head"]
=============================================================================
