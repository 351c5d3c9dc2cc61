----------------------------- MODULE OwnedItems -----------------------------
(***************************************************************************)
(* Items that belong to a user: the routes of an owner (POST, PATCH,       *)
(* DELETE), those of an administrator (DELETE), and what a reset does to   *)
(* the items.  The contexts are alike; the route names the kind of item    *)
(* and ItemShapes what the fields of that kind are.                        *)
(*                                                                         *)
(* A step is one awaited call.  PATCH reads the item, changes the copy and *)
(* saves it whole, by an upsert on the id; DELETE looks for the item first *)
(* and then deletes by id and owner.  Requests that are refused by their   *)
(* first reading are stutters.  Reading (GET) changes nothing.             *)
(***************************************************************************)
EXTENDS FiniteSets, ItemShapes

CONSTANTS
    Users,           \* the owners, all present at the start
    Items,           \* the pool of ids; a random UUID is never given out twice
    Kinds,           \* the contexts an instance looks at
    KeptValues,      \* values of a field that is never null
    Initial,         \* the one a new item starts with (not completed, to read)
    NullableValues,  \* values, other than null, of a field that may be null
    Null,            \* a field that is set to null
    Absent,          \* a field that a body leaves out
    Slots            \* slots for requests in flight

ASSUME ConstantsAssumption ==
    /\ Kinds \subseteq AllKinds
    /\ Initial \in KeptValues
    /\ Null \notin KeptValues \cup NullableValues
    /\ Absent \notin KeptValues \cup NullableValues \cup {Null}

VARIABLES
    users,     \* the users there are
    items,     \* the rows, by id
    used,      \* the ids given out so far
    requests   \* what each slot is doing

vars == <<users, items, used, requests>>

-----------------------------------------------------------------------------
(* Fields, bodies and the copies that requests work on.                    *)

Fields(k) == Row[k].kept \cup Row[k].nullable

Contents(k) ==
    {c \in [Fields(k) -> KeptValues \cup NullableValues \cup {Null}] :
        /\ \A f \in Row[k].kept : c[f] \in KeptValues
        /\ \A f \in Row[k].nullable : c[f] \in NullableValues \cup {Null}}

(* The bodies that pass the validation of each field; the parsed body has  *)
(* null for a nullable field that was left out.                            *)
CreateBodies(k) ==
    {b \in [CreateBody[k].required \cup CreateBody[k].nullable ->
                KeptValues \cup NullableValues \cup {Null}] :
        /\ \A f \in CreateBody[k].required : b[f] \in KeptValues
        /\ \A f \in CreateBody[k].nullable : b[f] \in NullableValues \cup {Null}}

UpdateBodies(k) ==
    {b \in [UpdateBody[k].optional \cup UpdateBody[k].nullable ->
                KeptValues \cup NullableValues \cup {Null, Absent}] :
        /\ \A f \in UpdateBody[k].optional : b[f] \in KeptValues \cup {Absent}
        /\ \A f \in UpdateBody[k].nullable :
              b[f] \in NullableValues \cup {Null, Absent}}

(* Defaults for every field, as a schema shared with POST would give. *)
ParsedWithDefaults(k, body) ==
    [f \in DOMAIN body |-> IF body[f] = Absent THEN Null ELSE body[f]]

Parsed(k, body) ==
    [f \in DOMAIN body |->
        IF f \in UpdateBody[k].nullable /\ body[f] = Absent THEN Null ELSE body[f]]

Empty(body) == \A f \in DOMAIN body : body[f] = Absent

(* "At least one field must be provided", asked of the parsed body. *)
Accepted(parsed) == ~Empty(parsed)

NewContent(k, body) ==
    [f \in Fields(k) |-> IF f \in Create[k] THEN Initial ELSE body[f]]

(* The aggregate starts over for a field that is left out. *)
UpdatedAfresh(k, content, parsed) ==
    [f \in Fields(k) |->
        IF f \in Update[k] /\ parsed[f] # Absent THEN parsed[f]
        ELSE IF f \in Row[k].kept THEN Initial ELSE content[f]]

Updated(k, content, parsed) ==
    [f \in Fields(k) |->
        IF f \in Update[k] /\ parsed[f] # Absent THEN parsed[f] ELSE content[f]]

Overwritten(k, old, new) ==
    [f \in Fields(k) |-> IF f \in Save[k] THEN new[f] ELSE old[f]]

ItemsOf(k) == [kind : {k}, owner : Users, content : Contents(k)]

AllItems == UNION {ItemsOf(k) : k \in Kinds}

Idle == [pc |-> "idle"]

(* A PATCH about to save row, its changed copy.  body, what it gives, and   *)
(* stale, the item is not what was read any more, are history.             *)
Saving(k) ==
    [pc : {"save"}, item : Items, caller : Users, row : ItemsOf(k),
     body : {Parsed(k, b) : b \in UpdateBodies(k)},
     stale : BOOLEAN]

(* A DELETE of owner's item: it has yet to look for it, or to delete it. *)
Deleting == [pc : {"find", "delete"}, item : Items, owner : Users]

Request == {Idle} \cup Deleting \cup UNION {Saving(k) : k \in Kinds}

(* Rows and requests are well formed, every row has its owner, and columns *)
(* that are not nullable hold no null.                                     *)
TypeOK ==
    /\ users \subseteq Users
    /\ DOMAIN items \subseteq used
    /\ used \subseteq Items
    /\ items \in [DOMAIN items -> AllItems]
    /\ \A i \in DOMAIN items : items[i].owner \in users
    /\ requests \in [Slots -> Request]

Init ==
    /\ users = Users
    /\ items = [i \in {} |-> Null]
    /\ used = {}
    /\ requests = [s \in Slots |-> Idle]

-----------------------------------------------------------------------------
(* The table and the slots.                                                *)

With(i, row) ==
    [j \in DOMAIN items \cup {i} |-> IF j = i THEN row ELSE items[j]]

Without(S) == [j \in DOMAIN items \ S |-> items[j]]

Cell(table, i) == IF i \in DOMAIN table THEN {table[i]} ELSE {}

(* The copy that slot s holds is no longer what the table has. *)
Mark(s) ==
    IF /\ requests[s].pc = "save"
       /\ Cell(items', requests[s].item) # Cell(items, requests[s].item)
    THEN [requests[s] EXCEPT !.stale = TRUE]
    ELSE requests[s]

Advance(s, req) ==
    requests' = [t \in Slots |-> IF t = s THEN req ELSE Mark(t)]

At(s, pc) == requests[s].pc = pc

-----------------------------------------------------------------------------
(* The owner's routes.                                                     *)

(* Creation under an id that the client chooses. *)
CreateItemUnderGivenId(s, u, k, i) ==
    /\ At(s, "idle")
    /\ u \in users
    /\ i \notin DOMAIN items
    /\ \E body \in CreateBodies(k) :
          items' = With(i, [kind |-> k, owner |-> u,
                            content |-> NewContent(k, body)])
    /\ used' = used \cup {i}
    /\ UNCHANGED users
    /\ Advance(s, Idle)

(* The caller is known by a token only: the foreign key refuses the item   *)
(* of a user who is gone.                                                  *)
CreateItem(s, u, k, i) ==
    /\ At(s, "idle")
    /\ u \in users
    /\ i \notin used
    /\ \E body \in CreateBodies(k) :
          items' = With(i, [kind |-> k, owner |-> u,
                            content |-> NewContent(k, body)])
    /\ used' = used \cup {i}
    /\ UNCHANGED users
    /\ Advance(s, Idle)

(* The repository with userId forgotten in its condition. *)
FoundById(i, u) == i \in DOMAIN items

(* The item as the caller finds it, by id and owner. *)
Found(i, u) == i \in DOMAIN items /\ items[i].owner = u

FindForUpdate(s, u, i) ==
    /\ At(s, "idle")
    /\ Found(i, u)
    /\ UNCHANGED <<users, items, used>>
    /\ LET k == items[i].kind IN
       \E body \in UpdateBodies(k) :
          /\ Accepted(Parsed(k, body))
          /\ Advance(s,
                [pc |-> "save", item |-> i, caller |-> u,
                 row |-> [items[i] EXCEPT
                            !.content = Updated(k, @, Parsed(k, body))],
                 body |-> Parsed(k, body), stale |-> FALSE])

(* The upsert: it writes the columns of a row there is, inserts the copy   *)
(* where there is none, and fails when the owner is gone too.              *)
SaveItem(s) ==
    /\ At(s, "save")
    /\ LET i == requests[s].item
           row == requests[s].row
       IN  \/ /\ i \in DOMAIN items
              /\ items' = With(i, [items[i] EXCEPT
                             !.content = Overwritten(row.kind, @, row.content)])
           \/ /\ i \notin DOMAIN items
              /\ row.owner \in users
              /\ items' = With(i, row)
           \/ /\ i \notin DOMAIN items
              /\ row.owner \notin users
              /\ UNCHANGED items
    /\ UNCHANGED <<users, used>>
    /\ Advance(s, Idle)

FindForDelete(s, u, i) ==
    /\ At(s, "idle")
    /\ Found(i, u)
    /\ UNCHANGED <<users, items, used>>
    /\ Advance(s, [pc |-> "delete", item |-> i, owner |-> u])

DeleteByIdAndUserId(s) ==
    /\ At(s, "delete")
    /\ items' = Without({i \in {requests[s].item} : Found(i, requests[s].owner)})
    /\ UNCHANGED <<users, used>>
    /\ Advance(s, Idle)

-----------------------------------------------------------------------------
(* The administrator's routes, and the reset.                              *)

(* ForExistingUser: first, is there such a user?  A deleted user counts.   *)
FindOwner(s, u, i) ==
    /\ At(s, "idle")
    /\ u \in users
    /\ UNCHANGED <<users, items, used>>
    /\ Advance(s, [pc |-> "find", item |-> i, owner |-> u])

FindForAdminDelete(s) ==
    /\ At(s, "find")
    /\ UNCHANGED <<users, items, used>>
    /\ Advance(s, IF Found(requests[s].item, requests[s].owner)
                  THEN [requests[s] EXCEPT !.pc = "delete"] ELSE Idle)

(* The reset of the todos of one owner, or of all.  No other context has a *)
(* handler for the reset.                                                  *)
ResetTodos(s, owners) ==
    /\ At(s, "idle")
    /\ items' = Without({i \in DOMAIN items : /\ items[i].kind = "todo"
                                              /\ items[i].owner \in owners})
    /\ UNCHANGED <<users, used>>
    /\ Advance(s, Idle)

(* The reset of the users deletes them for good, and their items with them. *)
RemoveUsers(s, S) ==
    /\ At(s, "idle")
    /\ users' = users \ S
    /\ items' = Without({i \in DOMAIN items : items[i].owner \in S})
    /\ UNCHANGED used
    /\ Advance(s, Idle)

(* A call fails, or the process ends. *)
Abandon(s) ==
    /\ ~At(s, "idle")
    /\ UNCHANGED <<users, items, used>>
    /\ Advance(s, Idle)

-----------------------------------------------------------------------------
Arrive(s) ==
    \/ \E u \in Users, k \in Kinds, i \in Items : CreateItem(s, u, k, i)
    \/ \E u \in Users, i \in Items : \/ FindForUpdate(s, u, i)
                                     \/ FindForDelete(s, u, i)
                                     \/ FindOwner(s, u, i)
    \/ \E owners \in SUBSET Users : ResetTodos(s, owners)
    \/ \E S \in SUBSET users : RemoveUsers(s, S)

Continue(s) ==
    SaveItem(s) \/ FindForAdminDelete(s) \/ DeleteByIdAndUserId(s) \/ Abandon(s)

Next == \E s \in Slots : Arrive(s) \/ Continue(s)

Spec == Init /\ [][Next]_vars

-----------------------------------------------------------------------------
(* Properties.                                                             *)

(* An item that is there keeps its kind and its owner, and what it says is *)
(* changed by a PATCH of its owner only (the condition on userId in        *)
(* findByIdAndUserId, and the columns save leaves alone).                  *)
OnlyTheOwnerChanges ==
    [][\A i \in DOMAIN items \cap DOMAIN items' :
          items'[i] # items[i] =>
             /\ items'[i].kind = items[i].kind
             /\ items'[i].owner = items[i].owner
             /\ \E s \in Slots : /\ SaveItem(s)
                                 /\ requests[s].item = i
                                 /\ requests[s].caller = items[i].owner]_vars

(* The only way back for an item that was deleted is the upsert of a PATCH *)
(* that had read it before, and its owner is still there.                  *)
RevivedOnlyByOverlap ==
    [][\A i \in (used \ DOMAIN items) \cap DOMAIN items' :
          \E s \in Slots : /\ SaveItem(s)
                           /\ requests[s].item = i
                           /\ requests[s].stale
                           /\ items'[i].owner \in users]_vars

(* What saving must have done to item i: the fields that the PATCH gives   *)
(* have the values it gives, those in S that it leaves out are as before.  *)
Exact(s, i, S) ==
    \A f \in DOMAIN items[i].content :
        IF requests[s].body[f] # Absent
        THEN items'[i].content[f] = requests[s].body[f]
        ELSE f \in S => items'[i].content[f] = items[i].content[f]

(* A PATCH sets the fields that its parsed body gives, an omitted nullable   *)
(* one included, which parsing makes null (docs/api-reference.md:534), and   *)
(* leaves the others as they are.                                           *)
PatchIsPartial ==
    [][\A s \in Slots : SaveItem(s) /\ requests[s].item \in DOMAIN items =>
          Exact(s, requests[s].item, Fields(requests[s].row.kind))]_vars

(* It sets the fields it gives whatever else happens, and leaves the       *)
(* others as they are unless the item changed since it was read.           *)
PatchIsPartialUnlessOverlapped ==
    [][\A s \in Slots : SaveItem(s) /\ requests[s].item \in DOMAIN items =>
          Exact(s, requests[s].item, IF requests[s].stale THEN {}
                                     ELSE Fields(requests[s].row.kind))]_vars

(* The items keep the promise of ItemStore. *)
Store == INSTANCE ItemStore WITH rows <- items, Rows <- AllItems

ImplementsStore == Store!Spec
=============================================================================
