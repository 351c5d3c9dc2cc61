------------------------------ MODULE ItemStore ------------------------------
(***************************************************************************)
(* What a repository of owned items promises (domain/repositories of each  *)
(* context): rows under ids that are given out once, which keep their kind *)
(* and their owner, change in content only, and are gone for good once     *)
(* they are removed.                                                       *)
(***************************************************************************)

CONSTANTS Items, Rows

VARIABLES
    rows,   \* the rows there are, by id
    used    \* the ids given out so far

(* rows with the row of id i, or without the rows of the ids in S. *)
With(i, row) ==
    [j \in DOMAIN rows \cup {i} |-> IF j = i THEN row ELSE rows[j]]

Without(S) == [j \in DOMAIN rows \ S |-> rows[j]]

Init == DOMAIN rows = {} /\ used = {}

CreateRow(i) ==
    /\ i \notin used
    /\ \E row \in Rows : rows' = With(i, row)
    /\ used' = used \cup {i}

ChangeRow(i) ==
    /\ i \in DOMAIN rows
    /\ \E row \in Rows :
          /\ row.kind = rows[i].kind
          /\ row.owner = rows[i].owner
          /\ rows' = With(i, row)
    /\ UNCHANGED used

RemoveRows(S) == rows' = Without(S) /\ UNCHANGED used

Next ==
    \/ \E i \in Items : CreateRow(i) \/ ChangeRow(i)
    \/ \E S \in SUBSET Items : RemoveRows(S)

Spec == Init /\ [][Next]_<<rows, used>>
=============================================================================
