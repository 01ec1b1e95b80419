------------------------ MODULE MCEntityProjection ------------------------
(* Instances of EntityProjection for TLC. *)
EXTENDS EntityProjection, TLC

CONSTANTS e1, cron, ops

Limits == (cron :> 2) @@ (ops :> 1)
AtATime == [d \in Drains |-> 1]

\* What the callers ask: a changed entity, a changed edge, and a propagated
\* change that schedule() refuses.
Changed == [cause |-> "entity-changed", priority |-> 0, depth |-> 0, delay |-> 0]
EdgeChanged == [cause |-> "edge-changed", priority |-> 1, depth |-> 1, delay |-> 1]
TooDeep == [cause |-> "edge-changed", priority |-> 1, depth |-> 2, delay |-> 0]

AllRequests == {Changed, EdgeChanged, TooDeep}
AllFaults == {"writer", "drain", "write"}
=============================================================================
