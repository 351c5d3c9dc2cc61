------------------------------ MODULE ListPages ------------------------------
(***************************************************************************)
(* The lists of the API, read page after page while their rows change.     *)
(* A page is answered from two queries that run side by side, one for the   *)
(* rows at an offset and one for their number; neither sees the other's     *)
(* snapshot, and nothing ties one page to the next.                        *)
(*                                                                         *)
(* A row is listed while it exists and matches the filters of the request.  *)
(* Rows of the audit log come and stay; those of the other lists come, go   *)
(* and come back, as items and users are written.                          *)
(***************************************************************************)
EXTENDS Integers, FiniteSets

CONSTANTS
    Rows,       \* the rows, by their ids
    Creations,  \* when each of them was created, in every case considered
    Limits,     \* the page sizes that are asked for
    Pages,      \* the pages a client begins with
    NotYet,     \* a query that has not been answered
    MaxWrites   \* writes in the course of one walk

ASSUME RowsAssumption == Rows \subseteq Nat /\ IsFiniteSet(Rows)
ASSUME CreationsAssumption == Creations \subseteq [Rows -> Int]
ASSUME LimitsAssumption == Limits \subseteq 1..100 /\ Pages \subseteq Nat \ {0}

VARIABLES
    list,       \* "log", or "items" for every other list
    createdAt,  \* of each row
    listed,     \* the rows that match
    request,    \* the page in work
    walk        \* the client: the pages it has read, and, as history, what has
                \*     come and gone since it began

vars == <<list, createdAt, listed, request, walk>>

Request(page, limit) ==
    [page |-> page, limit |-> limit, found |-> NotYet, total |-> NotYet,
     changed |-> FALSE, late |-> 0]
Walk(until) ==
    [until |-> until, steady |-> listed, seen |-> {}, repeats |-> 0,
     came |-> 0, went |-> 0, done |-> FALSE]

Half == (request.found = NotYet) # (request.total = NotYet)
Answered == request.found # NotYet /\ request.total # NotYet

Init ==
    /\ list \in {"log", "items"}
    /\ createdAt \in Creations
    /\ listed \in SUBSET Rows
    /\ request = Request(1, 1)
    /\ walk = [Walk("short") EXCEPT !.steady = {}, !.done = TRUE]
-----------------------------------------------------------------------------
(* The rows, written while pages are read.                                  *)
Wrote(in, out) ==
    IF walk.done THEN UNCHANGED <<request, walk>>
    ELSE /\ walk.came + walk.went < MaxWrites
         /\ walk' = [walk EXCEPT !.came = @ + in, !.went = @ + out,
                                 !.steady = @ \intersect listed']
         /\ request' = [request EXCEPT
                !.changed = @ \/ Half,
                !.late = IF request.total # NotYet /\ request.found = NotYet
                         THEN @ + in ELSE @]

(* A row is added, restored, or changed so that it matches; created before   *)
(* or after those that are listed.                                          *)
Enter(row) ==
    /\ row \notin listed
    /\ listed' = listed \cup {row}
    /\ Wrote(1, 0)
    /\ UNCHANGED <<list, createdAt>>

(* It is deleted, marked deleted, or changed so that it no longer matches.   *)
Leave(row) ==
    /\ list = "items"
    /\ row \in listed
    /\ listed' = listed \ {row}
    /\ Wrote(0, 1)
    /\ UNCHANGED <<list, createdAt>>
-----------------------------------------------------------------------------
(* A page.  Latest first; the log breaks ties by id, the other lists leave    *)
(* them to the database, which may break them differently each time.         *)
BeforeByTime(a, b) == createdAt[a] > createdAt[b]
Before(a, b) ==
    \/ createdAt[a] > createdAt[b]
    \/ list = "log" /\ createdAt[a] = createdAt[b] /\ a > b

Rankings ==
    {rank \in [listed -> 1..Cardinality(listed)] :
        \A a, b \in listed : /\ a # b => rank[a] # rank[b]
                             /\ Before(a, b) => rank[a] < rank[b]}

Skip(page, limit) == (page - 1) * limit

OneMore(rank, skip, limit) == {row \in DOMAIN rank : rank[row] \in skip..(skip + limit)}
Window(rank, skip, limit) ==
    {row \in DOMAIN rank : rank[row] \in (skip + 1)..(skip + limit)}

FindMany ==
    /\ ~walk.done
    /\ request.found = NotYet
    /\ \E rank \in Rankings :
          request' = [request EXCEPT
              !.found = Window(rank, Skip(request.page, request.limit), request.limit)]
    /\ UNCHANGED <<list, createdAt, listed, walk>>

Count ==
    /\ ~walk.done
    /\ request.total = NotYet
    /\ request' = [request EXCEPT !.total = Cardinality(listed)]
    /\ UNCHANGED <<list, createdAt, listed, walk>>

AtLeastOne(n) == IF n < 1 THEN 1 ELSE n
WholePages(total, limit) == AtLeastOne(total \div limit)
TotalPages(total, limit) == AtLeastOne((total + limit - 1) \div limit)
-----------------------------------------------------------------------------
(* The client reads on from the page it begins with, until the answer says   *)
(* that this is the last page or until a page is not full.                   *)
Begin(until, page, limit) ==
    /\ walk.done
    /\ walk' = [Walk(until) EXCEPT !.steady = IF page = 1 THEN listed ELSE {}]
    /\ request' = Request(page, limit)
    /\ UNCHANGED <<list, createdAt, listed>>

IsLast ==
    CASE walk.until = "last"  -> request.page >= TotalPages(request.total, request.limit)
      [] walk.until = "short" -> Cardinality(request.found) < request.limit

Respond ==
    /\ ~walk.done
    /\ Answered
    /\ walk' = [walk EXCEPT
            !.seen = @ \cup request.found,
            !.repeats = @ + Cardinality(request.found \intersect walk.seen),
            !.done = IsLast]
    /\ request' = IF IsLast THEN request
                  ELSE Request(request.page + 1, request.limit)
    /\ UNCHANGED <<list, createdAt, listed>>

Next ==
    \/ \E row \in Rows : Enter(row) \/ Leave(row)
    \/ \E until \in {"last", "short"}, page \in Pages, limit \in Limits :
          Begin(until, page, limit)
    \/ FindMany \/ Count \/ Respond

Spec == Init /\ [][Next]_vars
-----------------------------------------------------------------------------
(* A page is no larger than was asked for and a total no larger than the     *)
(* table, and a client stops at a page it has read.                         *)
TypeOK ==
    /\ list \in {"log", "items"} /\ createdAt \in Creations /\ listed \subseteq Rows
    /\ request.limit \in Limits \cup {1} /\ request.page \in Nat \ {0}
    /\ request.found # NotYet =>
          request.found \subseteq Rows /\ Cardinality(request.found) <= request.limit
    /\ request.total \in 0..Cardinality(Rows) \cup {NotYet}
    /\ walk.seen \subseteq Rows /\ (~walk.done => walk.steady \subseteq listed)

(* Rows of one list created at the same time, which no order keeps apart.    *)
Tied(row) == list = "items" /\ \E other \in Rows \ {row} : createdAt[other] = createdAt[row]

(* A client that reads from the first page on is shown every row that is     *)
(* listed all the time, and shown it once.  It misses one only because       *)
(* another left the list meanwhile, one row for each that left; so none of   *)
(* the audit log, whose rows stay and are in a total order.  It is shown one *)
(* again only because another came.  If it trusts the total of its last page *)
(* it also misses a row for each that came after that total was counted and  *)
(* before the page was read.  Rows created in the same millisecond are not   *)
(* covered: the lists other than the log do not order them.                  *)
WalksShowEachRowOnce ==
    /\ walk.done =>
          Cardinality({row \in walk.steady \ walk.seen : ~Tied(row)})
              <= walk.went + (IF walk.until = "last" THEN request.late ELSE 0)
    /\ (\A row \in Rows : ~Tied(row)) => walk.repeats <= walk.came

(* Unless something was written between its two queries, an answer describes  *)
(* one cut of the list into pages: as many rows as have their place on the   *)
(* page, and as many pages as the last of them needs.                       *)
PageOf(place, limit) == ((place - 1) \div limit) + 1
MetaFitsThePage ==
    Answered /\ ~request.changed =>
        LET places == 1..request.total
            pages == {PageOf(k, request.limit) : k \in places} \cup {1}
        IN  /\ Cardinality(request.found) =
                  Cardinality({k \in places : PageOf(k, request.limit) = request.page})
            /\ TotalPages(request.total, request.limit) \in pages
            /\ \A p \in pages : p <= TotalPages(request.total, request.limit)
=============================================================================
