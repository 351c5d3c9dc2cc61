---------------------------- MODULE MCAdminUsers ----------------------------
(* Instances of AdminUsers for TLC.                                        *)
EXTENDS AdminUsers, TLC

CONSTANTS root, alice, student, r1, r2

(* The slots for requests are interchangeable; users are not (root). *)
Symmetry == Permutations(Requests)

=============================================================================
