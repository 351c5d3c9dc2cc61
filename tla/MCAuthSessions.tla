--------------------------- MODULE MCAuthSessions ---------------------------
(* Instances of AuthSessions for TLC. *)
EXTENDS AuthSessions, TLC

CONSTANTS student, admin, secret1, secret2, r1, r2

(* The slots for requests are interchangeable. *)
Symmetry == Permutations(Requests)
=============================================================================
