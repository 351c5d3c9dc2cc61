----------------------------- MODULE ItemHistory -----------------------------
(***************************************************************************)
(* OwnedItems with a record of what each id was given out for, and the     *)
(* table that it implements however many requests overlap.  The record is  *)
(* of the model: nothing in the code depends on it.                        *)
(***************************************************************************)
EXTENDS OwnedItems

VARIABLE identity  \* the kind and the owner of every id given out so far

historyVars == <<users, items, used, requests, identity>>

-----------------------------------------------------------------------------

IdentityOf(row) == [kind |-> row.kind, owner |-> row.owner]

HistoryInit == Init /\ identity = [i \in {} |-> Null]

HistoryNext ==
    /\ Next
    /\ identity' = [i \in used' |-> IF i \in used THEN identity[i]
                                    ELSE IdentityOf(items'[i])]

(* The copies that requests hold, each of the row of the id it is saved to. *)
Copies == {c \in Slots \X Items : /\ requests[c[1]].pc = "save"
                                  /\ requests[c[1]].item = c[2]}

HistorySpec == HistoryInit /\ [][HistoryNext]_historyVars

-----------------------------------------------------------------------------
(* Properties.                                                             *)

(* However requests overlap, an item never changes hands or its kind, not  *)
(* even by way of a deletion and the save of a PATCH that puts it back;    *)
(* and what puts it back has read it when it was there.                    *)
Table == INSTANCE ItemTable WITH
            rows <- items,
            Rows <- AllItems,
            Holders <- Slots,
            copies <- Copies

ImplementsTable == Table!Spec
=============================================================================
