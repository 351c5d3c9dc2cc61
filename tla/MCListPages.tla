----------------------------- MODULE MCListPages -----------------------------
(* An instance of ListPages for TLC: four rows created one after the other,  *)
(* out of the order of their ids, two at a time, and two in one moment.       *)
EXTENDS ListPages

MCCreations == {<<1, 2, 3, 4>>, <<2, 4, 1, 3>>, <<2, 1, 2, 1>>, <<3, 2, 2, 1>>}
=============================================================================
