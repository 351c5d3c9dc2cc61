------------------------------ MODULE ItemTable ------------------------------
(***************************************************************************)
(* What the repositories of owned items promise to requests that overlap:  *)
(* an id is given out once, to one owner and for one kind of item.  A row  *)
(* is written by somebody who holds a copy of it, taken when it was there. *)
(* A removed row may come back from a copy, but never as anybody else's.   *)
(***************************************************************************)

CONSTANTS Items, Rows, Holders

VARIABLES
    rows,      \* the rows there are, by id
    identity,  \* kind and owner of every id given out so far
    copies     \* who holds a copy of the row of which id

IdentityOf(row) == [kind |-> row.kind, owner |-> row.owner]

(* f with value v for i. *)
With(f, i, v) == [j \in DOMAIN f \cup {i} |-> IF j = i THEN v ELSE f[j]]

Init == DOMAIN rows = {} /\ DOMAIN identity = {} /\ copies = {}

CreateRow(i) ==
    /\ i \notin DOMAIN identity
    /\ \E row \in Rows : /\ rows' = With(rows, i, row)
                         /\ identity' = With(identity, i, IdentityOf(row))
    /\ UNCHANGED copies

TakeCopy(h, i) ==
    /\ i \in DOMAIN rows
    /\ copies' = copies \cup {<<h, i>>}
    /\ UNCHANGED <<rows, identity>>

SaveCopy(h, i) ==
    /\ <<h, i>> \in copies
    /\ \E row \in Rows : /\ IdentityOf(row) = identity[i]
                         /\ rows' = With(rows, i, row)
    /\ copies' = copies \ {<<h, i>>}
    /\ UNCHANGED identity

DropCopy(h, i) ==
    /\ copies' = copies \ {<<h, i>>}
    /\ UNCHANGED <<rows, identity>>

RemoveRows(S) ==
    /\ rows' = [j \in DOMAIN rows \ S |-> rows[j]]
    /\ UNCHANGED <<identity, copies>>

Next ==
    \/ \E i \in Items : CreateRow(i)
    \/ \E h \in Holders, i \in Items :
          TakeCopy(h, i) \/ SaveCopy(h, i) \/ DropCopy(h, i)
    \/ \E S \in SUBSET Items : RemoveRows(S)

Spec == Init /\ [][Next]_<<rows, identity, copies>>
=============================================================================
