----------------------- MODULE MCExpertPollExecutor -----------------------
(* Small instances of ExpertPollExecutor for TLC. *)
EXTENDS ExpertPollExecutor

InOrder == [p \in Posts |-> p]

(* Post 3 has no readable date. *)
OneUndated == [p \in Posts |-> IF p = 3 THEN 0 ELSE p]
=============================================================================
