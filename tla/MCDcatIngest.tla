---------------------------- MODULE MCDcatIngest ----------------------------
(* A small instance of DcatIngest for TLC. *)
EXTENDS DcatIngest

CONSTANTS d1, d2, family, hand, url

(* Two releases of one dataset: together they are a series. *)
OneFamily == [d \in Datasets |-> family]
OwnSlug == [d \in Datasets |-> d]

(* Dataset d1 has a file of another name, and a download that no run makes. *)
ByHand ==
  LET id(kind) == [kind |-> kind, run |-> 0, place |-> 1]
  IN  {Node("dataset", hand, id("dataset"), d1, {}, {id("download")}),
       Node("download", hand, id("download"), url, {id("dataset")}, {})}

Orders == {<<d1>>, <<d2>>, <<d1, d2>>, <<d2, d1>>}
AllFaults == {"die", "row", "withdraw", "move"}
=============================================================================
