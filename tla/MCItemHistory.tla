---------------------------- MODULE MCItemHistory ----------------------------
(* An instance of ItemHistory for TLC. *)
EXTENDS ItemHistory, TLC

CONSTANTS u1, u2, i1, s1, s2, v0, v1, w

(* Owners, and slots, are interchangeable. *)
Symmetry == Permutations(Users) \cup Permutations(Slots)
=============================================================================
