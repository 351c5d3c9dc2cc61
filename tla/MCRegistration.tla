---------------------------- MODULE MCRegistration ----------------------------
(* An instance of Registration for TLC: somebody whose address environments  *)
(* may name as the administrator's, in either spelling, and who has that of   *)
(* a demo student.  Different people share no account.                       *)
EXTENDS Registration, TLC

CONSTANTS ann, secret, other, blanks, demo, temporary, s1, s2

MCPasswords == {[word |-> w, length |-> 12, padding |-> 0] : w \in {secret, other}}
MCDemoPassword == [word |-> demo, length |-> 13, padding |-> 0]
MCTemporaryPassword == [word |-> temporary, length |-> 64, padding |-> 0]

Padded == [word |-> blanks, length |-> 10, padding |-> 2]
OfAnn(capital) == [person |-> ann, capital |-> capital]
Known == [word |-> secret, length |-> 12, padding |-> 0]

(* Accepted: no administrator; lifetimes at their bounds; capitals; blanks,   *)
(* and refresh tokens without end.                                          *)
(* Refused: an access token of a second more than a day, one that outlives    *)
(* its session, a duration that is none, a password of blanks only.          *)
MCEnvironments ==
    {Environment(Unset, Unset, Unset, Unset, Unset),
     Environment("production", Duration(24, "h"), Duration(1, "d"),
                 OfAnn(FALSE), Known),
     Environment(Unset, Unset, Unset, OfAnn(TRUE), Known),
     Environment(Unset, Duration(1, "s"), Duration(20000, "d"), OfAnn(FALSE), Padded),
     Environment(Unset, Duration(86401, "s"), Unset, Unset, Unset),
     Environment(Unset, Duration(2, "h"), Duration(119, "m"), Unset, Unset),
     Environment(Unset, Malformed, Unset, Unset, Unset),
     Environment(Unset, Unset, Unset, OfAnn(FALSE),
                 [word |-> blanks, length |-> 0, padding |-> 12])}

MCFile == Environment(Unset, Duration(15, "m"), Unset, Unset, Unset)

Symmetry == Permutations(Slots)
=============================================================================
