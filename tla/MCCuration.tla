----------------------------- MODULE MCCuration -----------------------------
(* Small instances of Curation for TLC. *)
EXTENDS Curation

(* A post with images, whose payload is imported or fetched, and a tweet   *)
(* of text only, which never has a payload.                                *)
SomeTraits == {[twitter |-> FALSE, embed |-> "visual"], [twitter |-> TRUE, embed |-> "none"]}

TwoKinds == {"vision", "source-attribution"}
AllFaults == {"cut", "control", "insert", "mark"}
=============================================================================
