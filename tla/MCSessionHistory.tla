-------------------------- MODULE MCSessionHistory --------------------------
(* An instance of SessionHistory for TLC. *)
EXTENDS SessionHistory, TLC

CONSTANTS student, admin, secret1, secret2, r1, r2

(* The slots for requests are interchangeable. *)
Symmetry == Permutations(Requests)
=============================================================================
