-------------------------- MODULE OwnedItems_proof --------------------------
(* Theorems about OwnedItems, for every set of users, ids, values and      *)
(* requests, and every choice of the six kinds of items.                   *)
EXTENDS ItemHistory, TLAPS

-----------------------------------------------------------------------------
(* The layers of each context agree on its fields.                         *)

LEMMA ShapesFit ==
    ASSUME NEW k \in AllKinds
    PROVE  /\ Row[k].kept \cap Row[k].nullable = {}
           /\ CreateBody[k].required \cup Create[k] = Row[k].kept
           /\ CreateBody[k].required \cap Create[k] = {}
           /\ CreateBody[k].nullable = Row[k].nullable
           /\ UpdateBody[k].optional = Row[k].kept
           /\ UpdateBody[k].nullable = Row[k].nullable
           /\ Update[k] = Fields(k)
           /\ Save[k] = Fields(k)
<1>1. CASE k = "todo"
  BY <1>1 DEF Row, CreateBody, Create, UpdateBody, Update, Save, Fields, TodoRow,
              TodoCreateBody, TodoCreate, TodoUpdateBody, TodoUpdate, TodoSave
<1>2. CASE k = "note"
  BY <1>2 DEF Row, CreateBody, Create, UpdateBody, Update, Save, Fields, NoteRow,
              NoteCreateBody, NoteCreate, NoteUpdateBody, NoteUpdate, NoteSave
<1>3. CASE k = "contact"
  BY <1>3 DEF Row, CreateBody, Create, UpdateBody, Update, Save, Fields,
              ContactRow, ContactCreateBody, ContactCreate, ContactUpdateBody,
              ContactUpdate, ContactSave
<1>4. CASE k = "book"
  BY <1>4 DEF Row, CreateBody, Create, UpdateBody, Update, Save, Fields, BookRow,
              BookCreateBody, BookCreate, BookUpdateBody, BookUpdate, BookSave
<1>5. CASE k = "movie"
  BY <1>5 DEF Row, CreateBody, Create, UpdateBody, Update, Save, Fields, MovieRow,
              MovieCreateBody, MovieCreate, MovieUpdateBody, MovieUpdate, MovieSave
<1>6. CASE k = "expense"
  BY <1>6 DEF Row, CreateBody, Create, UpdateBody, Update, Save, Fields,
              ExpenseRow, ExpenseCreateBody, ExpenseCreate, ExpenseUpdateBody,
              ExpenseUpdate, ExpenseSave
<1> QED
  BY <1>1, <1>2, <1>3, <1>4, <1>5, <1>6 DEF AllKinds

(* A new item has a value in every column. *)
LEMMA NewContentFits ==
    ASSUME NEW k \in Kinds, NEW body \in CreateBodies(k)
    PROVE  NewContent(k, body) \in Contents(k)
<1>1. k \in AllKinds
  BY ConstantsAssumption
<1> DEFINE c == NewContent(k, body)
           V == KeptValues \cup NullableValues \cup {Null}
<1>2. \A f \in Row[k].kept : c[f] \in KeptValues
  BY <1>1, ShapesFit, ConstantsAssumption DEF NewContent, CreateBodies, Fields
<1>3. \A f \in Row[k].nullable : c[f] \in NullableValues \cup {Null}
  BY <1>1, ShapesFit DEF NewContent, CreateBodies, Fields
<1>4. c \in [Fields(k) -> V]
  <2>1. \A f \in Fields(k) : c[f] \in V
    BY <1>2, <1>3 DEF Fields
  <2>2. c = [f \in Fields(k) |-> c[f]]
    BY DEF NewContent
  <2> HIDE DEF c, V
  <2> QED
    BY <2>1, <2>2
<1> QED
  BY <1>2, <1>3, <1>4 DEF Contents

(* The parsed body says something about every nullable field. *)
LEMMA ParsedFits ==
    ASSUME NEW k \in Kinds, NEW b \in UpdateBodies(k)
    PROVE  /\ DOMAIN Parsed(k, b) = Fields(k)
           /\ \A f \in Row[k].kept : Parsed(k, b)[f] \in KeptValues \cup {Absent}
           /\ \A f \in Row[k].nullable :
                 Parsed(k, b)[f] \in NullableValues \cup {Null}
<1>1. k \in AllKinds
  BY ConstantsAssumption
<1>2. DOMAIN b = Fields(k)
  BY <1>1, ShapesFit DEF UpdateBodies, Fields
<1> QED
  BY <1>1, <1>2, ShapesFit DEF UpdateBodies, Parsed, Fields

(* The aggregate keeps a value in every column. *)
LEMMA UpdatedFits ==
    ASSUME NEW k \in Kinds, NEW c \in Contents(k), NEW b \in UpdateBodies(k)
    PROVE  LET p == Parsed(k, b)
               d == Updated(k, c, p)
           IN  /\ d \in Contents(k)
               /\ \A f \in Fields(k) : d[f] = IF p[f] # Absent THEN p[f] ELSE c[f]
<1>1. k \in AllKinds
  BY ConstantsAssumption
<1> DEFINE p == Parsed(k, b)
           d == Updated(k, c, p)
           V == KeptValues \cup NullableValues \cup {Null}
<1>2. \A f \in Fields(k) : d[f] = IF p[f] # Absent THEN p[f] ELSE c[f]
  BY <1>1, ShapesFit DEF Updated
<1>3. /\ \A f \in Row[k].kept : c[f] \in KeptValues
      /\ \A f \in Row[k].nullable : c[f] \in NullableValues \cup {Null}
  BY DEF Contents
<1>4. \A f \in Row[k].kept : d[f] \in KeptValues
  BY <1>2, <1>3, ParsedFits DEF Fields
<1>5. \A f \in Row[k].nullable : d[f] \in NullableValues \cup {Null}
  BY <1>2, <1>3, ParsedFits DEF Fields
<1>6. d \in [Fields(k) -> V]
  <2>1. \A f \in Fields(k) : d[f] \in V
    BY <1>4, <1>5 DEF Fields
  <2>2. d = [f \in Fields(k) |-> d[f]]
    BY DEF Updated
  <2> HIDE DEF d, V
  <2> QED
    BY <2>1, <2>2
<1> QED
  BY <1>2, <1>4, <1>5, <1>6 DEF Contents

(* Saving writes every column of an item. *)
LEMMA OverwrittenIsNew ==
    ASSUME NEW k \in Kinds, NEW old, NEW new \in Contents(k)
    PROVE  Overwritten(k, old, new) = new
<1>1. Save[k] = Fields(k)
  BY ShapesFit, ConstantsAssumption
<1>2. Overwritten(k, old, new) = [f \in Fields(k) |-> new[f]]
  BY <1>1 DEF Overwritten
<1>3. new = [f \in Fields(k) |-> new[f]]
  BY DEF Contents
<1> QED
  BY <1>2, <1>3

-----------------------------------------------------------------------------
(* Rows and requests.                                                      *)

LEMMA RowFits ==
    ASSUME NEW row \in AllItems
    PROVE  /\ row.kind \in Kinds
           /\ row.owner \in Users
           /\ row.content \in Contents(row.kind)
           /\ row = [kind |-> row.kind, owner |-> row.owner,
                     content |-> row.content]
BY DEF AllItems, ItemsOf

LEMMA FitsRow ==
    ASSUME NEW k \in Kinds, NEW u \in Users, NEW c \in Contents(k)
    PROVE  [kind |-> k, owner |-> u, content |-> c] \in AllItems
BY DEF AllItems, ItemsOf

LEMMA SavingFits ==
    ASSUME NEW q \in Request, q.pc = "save"
    PROVE  /\ q.item \in Items
           /\ q.caller \in Users
           /\ q.row \in AllItems
           /\ q.stale \in BOOLEAN
           /\ q \in Saving(q.row.kind)
<1>1. PICK k \in Kinds : q \in Saving(k)
  BY DEF Request, Idle, Deleting
<1>2. q.row \in ItemsOf(k) /\ q.row.kind = k
  BY <1>1 DEF Saving, ItemsOf
<1> QED
  BY <1>1, <1>2 DEF Saving, AllItems

LEMMA DeletingFits ==
    ASSUME NEW q \in Request, q.pc \in {"find", "delete"}
    PROVE  q \in Deleting
BY DEF Request, Idle, Saving

(* A request to save goes on as it is, but for the history flag. *)
LEMMA StaleFits ==
    ASSUME NEW q \in Request, q.pc = "save"
    PROVE  LET p == [q EXCEPT !.stale = TRUE] IN
           /\ p \in Request
           /\ p.pc = q.pc /\ p.item = q.item /\ p.caller = q.caller
           /\ p.row = q.row /\ p.body = q.body
           /\ p.stale
<1>1. q \in Saving(q.row.kind) /\ q.row.kind \in Kinds
  BY SavingFits, RowFits
<1> DEFINE p == [q EXCEPT !.stale = TRUE]
<1>2. p \in Saving(q.row.kind)
  BY <1>1 DEF Saving
<1>3. p \in Request
  BY <1>1, <1>2 DEF Request
<1> QED
  BY <1>1, <1>3 DEF Saving

(* What a step leaves of the slot t of another request. *)
Kept(t) ==
    /\ requests'[t] \in Request
    /\ requests'[t].pc = requests[t].pc
    /\ requests[t].pc = "save" =>
          /\ requests'[t].item = requests[t].item
          /\ requests'[t].caller = requests[t].caller
          /\ requests'[t].row = requests[t].row
          /\ requests'[t].body = requests[t].body
          /\ requests[t].stale => requests'[t].stale
          /\ requests'[t].stale \/
                Cell(items', requests[t].item) = Cell(items, requests[t].item)

LEMMA AdvanceSlots ==
    ASSUME requests \in [Slots -> Request],
           NEW s \in Slots, NEW req \in Request, Advance(s, req)
    PROVE  /\ requests' \in [Slots -> Request]
           /\ requests'[s] = req
           /\ \A t \in Slots \ {s} : Kept(t)
<1>1. /\ requests' = [t \in Slots |-> IF t = s THEN req ELSE Mark(t)]
      /\ requests'[s] = req
      /\ \A t \in Slots \ {s} : requests'[t] = Mark(t)
  BY DEF Advance
<1>2. ASSUME NEW t \in Slots \ {s}  PROVE Kept(t)
  <2>1. requests[t] \in Request /\ requests'[t] = Mark(t)
    BY <1>1
  <2>2. CASE /\ requests[t].pc = "save"
             /\ Cell(items', requests[t].item) # Cell(items, requests[t].item)
    <3>1. requests'[t] = [requests[t] EXCEPT !.stale = TRUE]
      BY <2>1, <2>2 DEF Mark
    <3> QED
      BY <2>1, <2>2, <3>1, StaleFits DEF Kept
  <2>3. CASE ~(/\ requests[t].pc = "save"
               /\ Cell(items', requests[t].item) # Cell(items, requests[t].item))
    <3>1. requests'[t] = requests[t]
      BY <2>1, <2>3 DEF Mark
    <3> QED
      BY <2>1, <2>3, <3>1 DEF Kept
  <2> QED
    BY <2>2, <2>3
<1>3. \A t \in Slots : requests'[t] \in Request
  BY <1>1, <1>2 DEF Kept
<1> QED
  BY <1>1, <1>2, <1>3

-----------------------------------------------------------------------------
(* The invariant: what a PATCH still knows when it saves its copy.         *)

Same(row, other) == row.kind = other.kind /\ row.owner = other.owner

Informed(s) ==
    LET q == requests[s]
        i == q.item
    IN  /\ i \in used
        /\ q.caller = q.row.owner
        /\ i \in DOMAIN items => Same(items[i], q.row)
        /\ \A f \in Fields(q.row.kind) :
              q.body[f] # Absent => q.row.content[f] = q.body[f]
        /\ ~q.stale => /\ i \in DOMAIN items
                       /\ \A f \in Fields(q.row.kind) :
                             q.body[f] = Absent =>
                                q.row.content[f] = items[i].content[f]

(* Requests to save the same item agree on what item it is. *)
Agreed(s, t) ==
    requests[s].item = requests[t].item => Same(requests[s].row, requests[t].row)

SaveInv ==
    /\ \A s \in Slots : requests[s].pc = "save" => Informed(s)
    /\ \A s, t \in Slots :
          requests[s].pc = "save" /\ requests[t].pc = "save" => Agreed(s, t)

Inv == TypeOK /\ SaveInv

(* What a step does to the table: ids stay used, and the row of a used id  *)
(* is the item that was there, or the one that a request had read.         *)
TableStep ==
    /\ used \subseteq used'
    /\ \A i \in DOMAIN items' \cap used :
          \/ i \in DOMAIN items /\ Same(items'[i], items[i])
          \/ \E s \in Slots : /\ requests[s].pc = "save"
                              /\ requests[s].item = i
                              /\ Same(items'[i], requests[s].row)

(* A slot that is not about to save anything new needs no knowledge. *)
LEMMA SaveInvKept ==
    ASSUME Inv, TableStep, NEW s \in Slots, requests'[s].pc # "save",
           \A t \in Slots \ {s} : Kept(t)
    PROVE  SaveInv'
<1>1. ASSUME NEW t \in Slots, requests'[t].pc = "save"
      PROVE  /\ t # s /\ requests[t].pc = "save" /\ Kept(t)
             /\ requests'[t].item = requests[t].item
             /\ requests'[t].row = requests[t].row
  BY <1>1 DEF Kept
<1>2. ASSUME NEW t \in Slots, NEW v \in Slots,
             requests'[t].pc = "save", requests'[v].pc = "save"
      PROVE  Agreed(t, v)'
  BY <1>1, <1>2 DEF Agreed, Inv, SaveInv
<1>3. ASSUME NEW t \in Slots, requests'[t].pc = "save"  PROVE Informed(t)'
  <2> DEFINE q == requests[t]
             i == q.item
  <2>1. /\ q.pc = "save" /\ Kept(t) /\ Informed(t)
        /\ requests'[t].item = i /\ requests'[t].row = q.row
        /\ requests'[t].body = q.body /\ requests'[t].caller = q.caller
    BY <1>1, <1>3 DEF Kept, Inv, SaveInv
  <2>2. i \in used'
    BY <2>1 DEF TableStep, Informed
  <2>3. i \in DOMAIN items' => Same(items'[i], q.row)
    <3>1. CASE i \in DOMAIN items' /\ i \in DOMAIN items /\ Same(items'[i], items[i])
      BY <2>1, <3>1 DEF Informed, Same
    <3>2. CASE \E v \in Slots : /\ requests[v].pc = "save"
                                /\ requests[v].item = i
                                /\ Same(items'[i], requests[v].row)
      BY <2>1, <3>2 DEF Inv, SaveInv, Agreed, Same
    <3> QED
      BY <2>1, <3>1, <3>2 DEF TableStep, Informed
  <2>4. ASSUME ~requests'[t].stale
        PROVE  /\ i \in DOMAIN items'
               /\ \A f \in Fields(q.row.kind) :
                     q.body[f] = Absent => q.row.content[f] = items'[i].content[f]
    <3>1. ~q.stale /\ Cell(items', i) = Cell(items, i)
      BY <2>1, <2>4 DEF Kept
    <3>2. i \in DOMAIN items
      BY <2>1, <3>1 DEF Informed
    <3>3. i \in DOMAIN items' /\ items'[i] = items[i]
      BY <3>1, <3>2 DEF Cell
    <3> QED
      BY <2>1, <3>1, <3>3 DEF Informed
  <2> QED
    BY <2>1, <2>2, <2>3, <2>4 DEF Informed
<1> QED
  BY <1>2, <1>3 DEF SaveInv

-----------------------------------------------------------------------------
(* The table.                                                              *)

LEMMA WithFits ==
    ASSUME items \in [DOMAIN items -> AllItems], NEW i, NEW row \in AllItems,
           items' = With(i, row)
    PROVE  /\ DOMAIN items' = DOMAIN items \cup {i}
           /\ items' \in [DOMAIN items' -> AllItems]
           /\ items'[i] = row
           /\ \A j \in DOMAIN items \ {i} : items'[j] = items[j]
<1>1. /\ DOMAIN items' = DOMAIN items \cup {i}
      /\ \A j \in DOMAIN items' : items'[j] = IF j = i THEN row ELSE items[j]
  BY DEF With
<1>2. \A j \in DOMAIN items' : items'[j] \in AllItems
  BY <1>1
<1>3. items' = [j \in DOMAIN items' |-> items'[j]]
  BY DEF With
<1>4. items' \in [DOMAIN items' -> AllItems]
  BY <1>2, <1>3
<1> QED
  BY <1>1, <1>4

LEMMA WithoutFits ==
    ASSUME items \in [DOMAIN items -> AllItems], NEW S, items' = Without(S)
    PROVE  /\ DOMAIN items' = DOMAIN items \ S
           /\ items' \in [DOMAIN items' -> AllItems]
           /\ \A j \in DOMAIN items' : items'[j] = items[j]
<1>1. /\ DOMAIN items' = DOMAIN items \ S
      /\ \A j \in DOMAIN items' : items'[j] = items[j]
  BY DEF Without
<1>2. \A j \in DOMAIN items' : items'[j] \in AllItems
  BY <1>1
<1>3. items' = [j \in DOMAIN items' |-> items'[j]]
  BY DEF Without
<1>4. items' \in [DOMAIN items' -> AllItems]
  BY <1>2, <1>3
<1> QED
  BY <1>1, <1>4

(* Removing rows, and the users in gone with all they own. *)
LEMMA RemovalKeeps ==
    ASSUME Inv, NEW s \in Slots, NEW S, NEW req \in Request, req.pc # "save",
           items' = Without(S), used' = used, Advance(s, req),
           users' \subseteq users,
           \A i \in DOMAIN items \ S : items[i].owner \in users'
    PROVE  Inv'
<1>1. /\ requests' \in [Slots -> Request]
      /\ requests'[s] = req
      /\ \A t \in Slots \ {s} : Kept(t)
  BY AdvanceSlots DEF Inv, TypeOK
<1>2. /\ DOMAIN items' = DOMAIN items \ S
      /\ items' \in [DOMAIN items' -> AllItems]
      /\ \A j \in DOMAIN items' : items'[j] = items[j]
  BY WithoutFits DEF Inv, TypeOK
<1>3. TypeOK'
  BY <1>1, <1>2 DEF Inv, TypeOK
<1>4. TableStep
  BY <1>2 DEF TableStep, Same
<1>5. SaveInv'
  BY <1>1, <1>4, SaveInvKept
<1> QED
  BY <1>3, <1>5 DEF Inv

(* The requests alone go on. *)
LEMMA RequestsKeep ==
    ASSUME Inv, NEW s \in Slots, NEW req \in Request, req.pc # "save",
           UNCHANGED <<users, items, used>>, Advance(s, req)
    PROVE  Inv'
<1>1. /\ requests' \in [Slots -> Request]
      /\ requests'[s] = req
      /\ \A t \in Slots \ {s} : Kept(t)
  BY AdvanceSlots DEF Inv, TypeOK
<1>2. TypeOK'
  BY <1>1 DEF Inv, TypeOK
<1>3. TableStep
  BY DEF TableStep, Same
<1>4. SaveInv'
  BY <1>1, <1>3, SaveInvKept
<1> QED
  BY <1>2, <1>4 DEF Inv

LEMMA IdleFits == Idle \in Request /\ Idle.pc # "save"
BY DEF Idle, Request

-----------------------------------------------------------------------------
(* One lemma per action.                                                   *)

LEMMA CreateItemKeeps ==
    ASSUME Inv, NEW s \in Slots, NEW u \in Users, NEW k \in Kinds,
           NEW i \in Items, CreateItem(s, u, k, i)
    PROVE  Inv' /\ DOMAIN items' = DOMAIN items \cup {i} /\ i \notin used
           /\ \E row \in AllItems : items' = With(i, row)
<1>1. PICK body \in CreateBodies(k) :
          items' = With(i, [kind |-> k, owner |-> u,
                            content |-> NewContent(k, body)])
  BY DEF CreateItem
<1> DEFINE row == [kind |-> k, owner |-> u, content |-> NewContent(k, body)]
<1>2. row \in AllItems
  BY NewContentFits, FitsRow
<1>3. row.owner = u /\ items' = With(i, row)
  BY <1>1
<1> HIDE DEF row
<1>4. /\ DOMAIN items' = DOMAIN items \cup {i}
      /\ items' \in [DOMAIN items' -> AllItems]
      /\ items'[i] = row
      /\ \A j \in DOMAIN items \ {i} : items'[j] = items[j]
  BY <1>2, <1>3, WithFits DEF Inv, TypeOK
<1>5. /\ requests' \in [Slots -> Request]
      /\ requests'[s] = Idle
      /\ \A t \in Slots \ {s} : Kept(t)
  BY AdvanceSlots, IdleFits DEF Inv, TypeOK, CreateItem
<1>6. u \in users /\ users' = users /\ i \notin used /\ used' = used \cup {i}
  BY DEF CreateItem
<1>7. TypeOK'
  BY <1>3, <1>4, <1>5, <1>6 DEF Inv, TypeOK
<1>8. TableStep
  BY <1>4, <1>6 DEF TableStep, Same, Inv, TypeOK
<1>9. SaveInv'
  BY <1>5, <1>8, IdleFits, SaveInvKept
<1> QED
  BY <1>2, <1>3, <1>4, <1>6, <1>7, <1>9 DEF Inv

LEMMA FindForUpdateKeeps ==
    ASSUME Inv, NEW s \in Slots, NEW u \in Users, NEW i \in Items,
           FindForUpdate(s, u, i)
    PROVE  Inv'
<1> DEFINE k == items[i].kind
<1>1. /\ i \in DOMAIN items /\ items[i].owner = u
      /\ requests[s].pc = "idle"
      /\ users' = users /\ items' = items /\ used' = used
  BY DEF FindForUpdate, Found, At
<1>2. i \in used /\ items[i] \in AllItems
  BY <1>1 DEF Inv, TypeOK
<1>3. k \in Kinds /\ items[i].content \in Contents(k)
  BY <1>2, RowFits
<1>4. PICK b \in UpdateBodies(k) :
          Advance(s, [pc |-> "save", item |-> i, caller |-> u,
                      row |-> [items[i] EXCEPT
                                 !.content = Updated(k, @, Parsed(k, b))],
                      body |-> Parsed(k, b), stale |-> FALSE])
  BY DEF FindForUpdate
<1> DEFINE p == Parsed(k, b)
           c == items[i].content
           d == Updated(k, c, p)
           row == [kind |-> k, owner |-> u, content |-> d]
           q == [pc |-> "save", item |-> i, caller |-> u, row |-> row,
                 body |-> p, stale |-> FALSE]
<1>5. /\ d \in Contents(k)
      /\ \A f \in Fields(k) : d[f] = IF p[f] # Absent THEN p[f] ELSE c[f]
  BY <1>3, UpdatedFits
<1>6. [items[i] EXCEPT !.content = Updated(k, @, Parsed(k, b))] = row
  BY <1>1, <1>2, RowFits
<1>7. Advance(s, q)
  BY <1>4, <1>6
<1>8. row \in ItemsOf(k)
  BY <1>5 DEF ItemsOf
<1>9. q \in Saving(k)
  BY <1>8 DEF Saving
<1>10. q \in Request
  BY <1>3, <1>9 DEF Request
<1>11. /\ q.pc = "save" /\ q.item = i /\ q.caller = u /\ q.row = row
       /\ q.body = p /\ q.stale = FALSE
       /\ row.kind = k /\ row.owner = u /\ row.content = d
  OBVIOUS
<1> HIDE DEF q, row, d, p
<1>12. /\ requests' \in [Slots -> Request]
       /\ requests'[s] = q
       /\ \A t \in Slots \ {s} : Kept(t)
  BY <1>7, <1>10, AdvanceSlots DEF Inv, TypeOK
<1>13. TypeOK'
  BY <1>1, <1>12 DEF Inv, TypeOK
<1>14. Informed(s)'
  BY <1>1, <1>2, <1>5, <1>11, <1>12 DEF Informed, Same
<1>15. ASSUME NEW t \in Slots \ {s}, requests'[t].pc = "save"
       PROVE  /\ Informed(t)'
              /\ requests'[t].item = i => Same(requests'[t].row, row)
  <2>1. /\ requests[t].pc = "save" /\ Informed(t) /\ Kept(t)
    BY <1>12, <1>15 DEF Kept, Inv, SaveInv
  <2>2. Informed(t)'
    BY <1>1, <2>1 DEF Informed, Kept
  <2>3. requests'[t].item = i => Same(requests'[t].row, row)
    BY <1>1, <1>11, <2>1 DEF Informed, Kept, Same
  <2> QED
    BY <2>2, <2>3
<1>16. ASSUME NEW t \in Slots, NEW v \in Slots,
              requests'[t].pc = "save", requests'[v].pc = "save"
       PROVE  Agreed(t, v)'
  <2>1. CASE t # s /\ v # s
    BY <1>12, <1>16, <2>1 DEF Kept, Inv, SaveInv, Agreed
  <2>2. CASE t = s \/ v = s
    BY <1>11, <1>12, <1>15, <1>16, <2>2 DEF Agreed, Same
  <2> QED
    BY <2>1, <2>2
<1>17. SaveInv'
  BY <1>14, <1>15, <1>16 DEF SaveInv
<1> QED
  BY <1>13, <1>17 DEF Inv

(* What SaveItem writes: the copy, whether or not there still is a row. *)
LEMMA SaveItemWrites ==
    ASSUME Inv, NEW s \in Slots, SaveItem(s)
    PROVE  LET q == requests[s]
               i == q.item
           IN  /\ q.pc = "save" /\ Informed(s) /\ q.row \in AllItems
               /\ users' = users /\ used' = used
               /\ requests' \in [Slots -> Request]
               /\ requests'[s] = Idle
               /\ \A t \in Slots \ {s} : Kept(t)
               /\ \/ i \in DOMAIN items /\ items' = With(i, q.row)
                  \/ /\ i \notin DOMAIN items /\ q.row.owner \in users
                     /\ items' = With(i, q.row)
                  \/ i \notin DOMAIN items /\ items' = items
<1> DEFINE q == requests[s]
           i == q.item
<1>1. /\ q \in Request /\ q.pc = "save" /\ Informed(s)
      /\ users' = users /\ used' = used
  BY DEF SaveItem, At, Inv, TypeOK, SaveInv
<1>2. q.row \in AllItems
  BY <1>1, SavingFits
<1>3. /\ requests' \in [Slots -> Request]
      /\ requests'[s] = Idle
      /\ \A t \in Slots \ {s} : Kept(t)
  BY AdvanceSlots, IdleFits DEF Inv, TypeOK, SaveItem
<1>4. CASE /\ i \in DOMAIN items
           /\ items' = With(i, [items[i] EXCEPT
                          !.content = Overwritten(q.row.kind, @, q.row.content)])
  <2>1. items[i] \in AllItems /\ Same(items[i], q.row)
    BY <1>1, <1>4 DEF Inv, TypeOK, Informed
  <2>2. Overwritten(q.row.kind, items[i].content, q.row.content) = q.row.content
    BY <1>2, RowFits, OverwrittenIsNew
  <2>3. [items[i] EXCEPT
           !.content = Overwritten(q.row.kind, @, q.row.content)] = q.row
    BY <1>2, <2>1, <2>2, RowFits DEF Same
  <2> QED
    BY <1>1, <1>2, <1>3, <1>4, <2>3
<1>5. CASE i \notin DOMAIN items /\ q.row.owner \in users /\ items' = With(i, q.row)
  BY <1>1, <1>2, <1>3, <1>5
<1>6. CASE i \notin DOMAIN items /\ items' = items
  BY <1>1, <1>2, <1>3, <1>6
<1> QED
  BY <1>4, <1>5, <1>6 DEF SaveItem

LEMMA SaveItemKeeps ==
    ASSUME Inv, NEW s \in Slots, SaveItem(s)
    PROVE  Inv'
<1> DEFINE q == requests[s]
           i == q.item
<1>1. /\ q.pc = "save" /\ Informed(s) /\ q.row \in AllItems
      /\ users' = users /\ used' = used
      /\ requests' \in [Slots -> Request]
      /\ requests'[s] = Idle
      /\ \A t \in Slots \ {s} : Kept(t)
  BY SaveItemWrites
<1>2. CASE items' = With(i, q.row) /\ (i \in DOMAIN items \/ q.row.owner \in users)
  <2>1. /\ DOMAIN items' = DOMAIN items \cup {i}
        /\ items' \in [DOMAIN items' -> AllItems]
        /\ items'[i] = q.row
        /\ \A j \in DOMAIN items \ {i} : items'[j] = items[j]
    BY <1>1, <1>2, WithFits DEF Inv, TypeOK
  <2>2. i \in used /\ q.row.owner \in users
    BY <1>1, <1>2 DEF Informed, Same, Inv, TypeOK
  <2>3. TypeOK'
    BY <1>1, <2>1, <2>2 DEF Inv, TypeOK
  <2>4. TableStep
    BY <1>1, <2>1 DEF TableStep, Same
  <2>5. SaveInv'
    BY <1>1, <2>4, IdleFits, SaveInvKept
  <2> QED
    BY <2>3, <2>5 DEF Inv
<1>3. CASE items' = items
  <2>1. TypeOK'
    BY <1>1, <1>3 DEF Inv, TypeOK
  <2>2. TableStep
    BY <1>1, <1>3 DEF TableStep, Same
  <2>3. SaveInv'
    BY <1>1, <2>2, IdleFits, SaveInvKept
  <2> QED
    BY <2>1, <2>3 DEF Inv
<1> QED
  BY <1>2, <1>3, SaveItemWrites

LEMMA FindForDeleteKeeps ==
    ASSUME Inv, NEW s \in Slots, NEW u \in Users, NEW i \in Items,
           FindForDelete(s, u, i) \/ FindOwner(s, u, i)
    PROVE  Inv' /\ items' = items /\ used' = used
<1> DEFINE req(pc) == [pc |-> pc, item |-> i, owner |-> u]
<1>1. \A pc \in {"find", "delete"} : req(pc) \in Request /\ req(pc).pc # "save"
  BY DEF Request, Deleting
<1>2. /\ Advance(s, req("delete")) \/ Advance(s, req("find"))
      /\ UNCHANGED <<users, items, used>>
  BY DEF FindForDelete, FindOwner
<1> HIDE DEF req
<1> QED
  BY <1>1, <1>2, RequestsKeep

LEMMA FindForAdminDeleteKeeps ==
    ASSUME Inv, NEW s \in Slots, FindForAdminDelete(s)
    PROVE  Inv' /\ items' = items /\ used' = used
<1>1. requests[s] \in Deleting
  BY DeletingFits DEF FindForAdminDelete, At, Inv, TypeOK
<1>2. [requests[s] EXCEPT !.pc = "delete"] \in Request
  BY <1>1 DEF Deleting, Request
<1>3. [requests[s] EXCEPT !.pc = "delete"].pc # "save"
  BY <1>1 DEF Deleting
<1>4. PICK req \in Request : req.pc # "save" /\ Advance(s, req)
  BY <1>2, <1>3, IdleFits DEF FindForAdminDelete
<1> QED
  BY <1>4, RequestsKeep DEF FindForAdminDelete

LEMMA AbandonKeeps ==
    ASSUME Inv, NEW s \in Slots, Abandon(s)
    PROVE  Inv' /\ items' = items /\ used' = used
BY IdleFits, RequestsKeep DEF Abandon

(* The deletions, whoever asks for them. *)
Removes(s) ==
    \/ DeleteByIdAndUserId(s)
    \/ \E owners \in SUBSET Users : ResetTodos(s, owners)
    \/ \E S \in SUBSET users : RemoveUsers(s, S)

LEMMA RemovesKeeps ==
    ASSUME Inv, NEW s \in Slots, Removes(s)
    PROVE  /\ Inv'
           /\ used' = used
           /\ \E S \in SUBSET Items : items' = Without(S)
<1>1. DOMAIN items \subseteq Items
  BY DEF Inv, TypeOK
<1>2. \A i \in DOMAIN items : items[i].owner \in users
  BY DEF Inv, TypeOK
<1>3. CASE DeleteByIdAndUserId(s)
  <2> DEFINE S == {i \in {requests[s].item} : Found(i, requests[s].owner)}
  <2>1. /\ items' = Without(S) /\ users' = users /\ used' = used
        /\ Advance(s, Idle)
    BY <1>3 DEF DeleteByIdAndUserId
  <2>2. S \in SUBSET Items
    BY <1>1 DEF Found
  <2> HIDE DEF S
  <2> QED
    BY <1>2, <2>1, <2>2, IdleFits, RemovalKeeps
<1>4. ASSUME NEW owners \in SUBSET Users, ResetTodos(s, owners)
      PROVE  /\ Inv' /\ used' = used
             /\ \E S \in SUBSET Items : items' = Without(S)
  <2> DEFINE S == {i \in DOMAIN items : items[i].kind = "todo" /\ items[i].owner \in owners}
  <2>1. /\ items' = Without(S) /\ users' = users /\ used' = used
        /\ Advance(s, Idle)
    BY <1>4 DEF ResetTodos
  <2>2. S \in SUBSET Items
    BY <1>1
  <2> HIDE DEF S
  <2> QED
    BY <1>2, <2>1, <2>2, IdleFits, RemovalKeeps
<1>5. ASSUME NEW R \in SUBSET users, RemoveUsers(s, R)
      PROVE  /\ Inv' /\ used' = used
             /\ \E S \in SUBSET Items : items' = Without(S)
  <2> DEFINE S == {i \in DOMAIN items : items[i].owner \in R}
  <2>1. /\ items' = Without(S) /\ users' = users \ R /\ used' = used
        /\ Advance(s, Idle)
    BY <1>5 DEF RemoveUsers
  <2>2. S \in SUBSET Items
    BY <1>1
  <2>3. \A i \in DOMAIN items \ S : items[i].owner \in users'
    BY <1>2, <2>1
  <2> HIDE DEF S
  <2> QED
    BY <2>1, <2>2, <2>3, IdleFits, RemovalKeeps
<1> QED
  BY <1>3, <1>4, <1>5 DEF Removes

-----------------------------------------------------------------------------
(* Every step.                                                             *)

(* A step by what it does to the table. *)
LEMMA StepCases ==
    ASSUME Next
    PROVE  \E s \in Slots :
              \/ \E u \in Users, k \in Kinds, i \in Items : CreateItem(s, u, k, i)
              \/ \E u \in Users, i \in Items : FindForUpdate(s, u, i)
              \/ SaveItem(s)
              \/ \E u \in Users, i \in Items :
                    FindForDelete(s, u, i) \/ FindOwner(s, u, i)
              \/ FindForAdminDelete(s)
              \/ Abandon(s)
              \/ Removes(s)
BY DEF Next, Arrive, Continue, Removes

LEMMA InvInit == Init => Inv
<1> SUFFICES ASSUME Init  PROVE Inv
  OBVIOUS
<1>1. items \in [DOMAIN items -> AllItems] /\ DOMAIN items = {}
  BY DEF Init
<1>2. requests \in [Slots -> Request] /\ \A s \in Slots : requests[s].pc # "save"
  BY IdleFits DEF Init
<1> QED
  BY <1>1, <1>2 DEF Init, Inv, TypeOK, SaveInv

LEMMA InvNext == Inv /\ [Next]_vars => Inv'
<1> SUFFICES ASSUME Inv, [Next]_vars  PROVE Inv'
  OBVIOUS
<1>1. CASE Next
  BY <1>1, StepCases, CreateItemKeeps, FindForUpdateKeeps, SaveItemKeeps,
     FindForDeleteKeeps, FindForAdminDeleteKeeps, AbandonKeeps, RemovesKeeps
<1>2. CASE UNCHANGED vars
  BY <1>2 DEF vars, Inv, TypeOK, SaveInv, Informed, Agreed, Same
<1> QED
  BY <1>1, <1>2

(* Rows and requests stay well formed, and no row loses its owner. *)
THEOREM TypeCorrect == Spec => []TypeOK
<1>1. Inv => TypeOK
  BY DEF Inv
<1> QED
  BY <1>1, InvInit, InvNext, PTL DEF Spec

LEMMA InvAlways == Spec => []Inv
BY InvInit, InvNext, PTL DEF Spec

-----------------------------------------------------------------------------
(* What becomes of an item, step by step.                                  *)

(* The row under a used id comes back or changes by a saved copy only. *)
LEMMA OnlySavesWrite ==
    ASSUME Inv, [Next]_vars, NEW i \in used, i \in DOMAIN items',
           i \in DOMAIN items => items'[i] # items[i]
    PROVE  \E s \in Slots : /\ SaveItem(s)
                            /\ requests[s].item = i
                            /\ items'[i] = requests[s].row
                            /\ i \in DOMAIN items \/ items'[i].owner \in users
<1>1. items \in [DOMAIN items -> AllItems]
  BY DEF Inv, TypeOK
<1>2. ASSUME items' = items  PROVE FALSE
  BY <1>2
<1>3. ASSUME NEW S, items' = Without(S)  PROVE FALSE
  BY <1>1, <1>3, WithoutFits
<1>4. ASSUME NEW s \in Slots, NEW u \in Users, NEW k \in Kinds, NEW j \in Items,
             CreateItem(s, u, k, j)
      PROVE  FALSE
  <2>1. PICK row \in AllItems : items' = With(j, row) /\ j # i
    BY <1>4, CreateItemKeeps
  <2> QED
    BY <1>1, <2>1, WithFits
<1>5. ASSUME NEW s \in Slots, SaveItem(s)
      PROVE  /\ requests[s].item = i /\ items'[i] = requests[s].row
             /\ i \in DOMAIN items \/ items'[i].owner \in users
  <2> DEFINE q == requests[s]
  <2>1. /\ q.row \in AllItems
        /\ items' = With(q.item, q.row)
        /\ q.item \in DOMAIN items \/ q.row.owner \in users
    BY <1>2, <1>5, SaveItemWrites
  <2>2. /\ DOMAIN items' = DOMAIN items \cup {q.item}
        /\ items'[q.item] = q.row
        /\ \A j \in DOMAIN items \ {q.item} : items'[j] = items[j]
    BY <1>1, <2>1, WithFits
  <2> QED
    BY <2>1, <2>2
<1>6. CASE Next
  BY <1>2, <1>3, <1>4, <1>5, <1>6, StepCases, FindForDeleteKeeps,
     FindForAdminDeleteKeeps, AbandonKeeps, RemovesKeeps DEF FindForUpdate
<1> QED
  BY <1>2, <1>6 DEF vars

(* Only a PATCH of its owner changes an item, and never whose it is: the   *)
(* copy was found by id and owner, and ids are not given out again.        *)
THEOREM OnlyTheOwnerChangesHolds == Spec => OnlyTheOwnerChanges
<1> DEFINE A == \A i \in DOMAIN items \cap DOMAIN items' :
                   items'[i] # items[i] =>
                      /\ items'[i].kind = items[i].kind
                      /\ items'[i].owner = items[i].owner
                      /\ \E s \in Slots : /\ SaveItem(s)
                                          /\ requests[s].item = i
                                          /\ requests[s].caller = items[i].owner
<1>1. Inv /\ [Next]_vars => A
  <2> SUFFICES ASSUME Inv, [Next]_vars, NEW i \in DOMAIN items \cap DOMAIN items',
                      items'[i] # items[i]
               PROVE  /\ items'[i].kind = items[i].kind
                      /\ items'[i].owner = items[i].owner
                      /\ \E s \in Slots : /\ SaveItem(s)
                                          /\ requests[s].item = i
                                          /\ requests[s].caller = items[i].owner
    OBVIOUS
  <2>1. i \in used
    BY DEF Inv, TypeOK
  <2>2. PICK s \in Slots : /\ SaveItem(s)
                           /\ requests[s].item = i
                           /\ items'[i] = requests[s].row
    BY <2>1, OnlySavesWrite
  <2>3. Informed(s)
    BY <2>2, SaveItemWrites
  <2> QED
    BY <2>2, <2>3 DEF Informed, Same
<1>2. Inv /\ [Next]_vars => [A]_vars
  BY <1>1
<1>3. OnlyTheOwnerChanges <=> [][A]_vars
  BY DEF OnlyTheOwnerChanges
<1> HIDE DEF A
<1> QED
  BY <1>2, <1>3, InvAlways, PTL DEF Spec

(* A deleted item returns by a PATCH that had read it before, and never    *)
(* without its owner.                                                      *)
THEOREM RevivedOnlyByOverlapHolds == Spec => RevivedOnlyByOverlap
<1> DEFINE A == \A i \in (used \ DOMAIN items) \cap DOMAIN items' :
                   \E s \in Slots : /\ SaveItem(s)
                                    /\ requests[s].item = i
                                    /\ requests[s].stale
                                    /\ items'[i].owner \in users
<1>1. Inv /\ [Next]_vars => A
  <2> SUFFICES ASSUME Inv, [Next]_vars,
                      NEW i \in (used \ DOMAIN items) \cap DOMAIN items'
               PROVE  \E s \in Slots : /\ SaveItem(s)
                                       /\ requests[s].item = i
                                       /\ requests[s].stale
                                       /\ items'[i].owner \in users
    OBVIOUS
  <2>1. PICK s \in Slots : /\ SaveItem(s)
                           /\ requests[s].item = i
                           /\ items'[i].owner \in users
    BY OnlySavesWrite
  <2>2. Informed(s) /\ requests[s].pc = "save" /\ requests[s] \in Request
    BY <2>1, SaveItemWrites DEF Inv, TypeOK
  <2>3. requests[s].stale
    BY <2>1, <2>2 DEF Informed
  <2> QED
    BY <2>1, <2>3
<1>2. Inv /\ [Next]_vars => [A]_vars
  BY <1>1
<1>3. RevivedOnlyByOverlap <=> [][A]_vars
  BY DEF RevivedOnlyByOverlap
<1> HIDE DEF A
<1> QED
  BY <1>2, <1>3, InvAlways, PTL DEF Spec

(* Saving a copy of an item that is there sets the fields that the PATCH   *)
(* gives; the others may differ only if the item changed in between.       *)
LEMMA SaveIsExact ==
    ASSUME Inv, NEW s \in Slots, SaveItem(s), requests[s].item \in DOMAIN items
    PROVE  /\ Exact(s, requests[s].item, {})
           /\ ~requests[s].stale =>
                 \A S : Exact(s, requests[s].item, S)
<1> DEFINE q == requests[s]
           i == q.item
           k == q.row.kind
<1>1. /\ Informed(s) /\ q.row \in AllItems /\ items' = With(i, q.row)
  BY SaveItemWrites
<1>2. items[i] \in AllItems /\ items[i].kind = k
  BY <1>1 DEF Inv, TypeOK, Informed, Same
<1>3. DOMAIN items[i].content = Fields(k)
  BY <1>2, RowFits DEF Contents
<1>4. items'[i] = q.row
  BY <1>1, WithFits DEF Inv, TypeOK
<1> QED
  BY <1>1, <1>3, <1>4 DEF Informed, Exact

(* A PATCH is partial unless the item changed since it was read. *)
THEOREM PatchIsPartialUnlessOverlappedHolds ==
    Spec => PatchIsPartialUnlessOverlapped
<1> DEFINE A == \A s \in Slots :
                   SaveItem(s) /\ requests[s].item \in DOMAIN items =>
                      Exact(s, requests[s].item,
                            IF requests[s].stale THEN {}
                            ELSE Fields(requests[s].row.kind))
<1>1. Inv => [A]_vars
  BY SaveIsExact
<1>2. PatchIsPartialUnlessOverlapped <=> [][A]_vars
  BY DEF PatchIsPartialUnlessOverlapped
<1> HIDE DEF A
<1> QED
  BY <1>1, <1>2, InvAlways, PTL DEF Spec

-----------------------------------------------------------------------------
(* One request at a time.                                                  *)

Fresh == \A s \in Slots : requests[s].pc = "save" => ~requests[s].stale

(* With one slot there is nobody to make its copy stale. *)
LEMMA FreshNext ==
    ASSUME NEW r, Slots = {r}, Inv, Fresh, [Next]_vars
    PROVE  Fresh'
<1>1. \A req : Advance(r, req) => requests'[r] = req
  BY DEF Advance
<1>2. ASSUME NEW u \in Users, NEW i \in Items, FindForUpdate(r, u, i)
      PROVE  ~requests'[r].stale
  BY <1>1, <1>2 DEF FindForUpdate
<1>3. CASE Next
  <2>1. CASE \E u \in Users, i \in Items : FindForUpdate(r, u, i)
    BY <1>2, <2>1 DEF Fresh
  <2>2. CASE Advance(r, Idle)
    BY <1>1, <2>2, IdleFits DEF Fresh
  <2>3. CASE \E u \in Users, i \in Items : FindForDelete(r, u, i) \/ FindOwner(r, u, i)
    BY <1>1, <2>3 DEF Fresh, FindForDelete, FindOwner
  <2>4. CASE FindForAdminDelete(r)
    <3>1. requests[r] \in Deleting
      BY <2>4, DeletingFits DEF FindForAdminDelete, At, Inv, TypeOK
    <3>2. [requests[r] EXCEPT !.pc = "delete"].pc # "save"
      BY <3>1 DEF Deleting
    <3> QED
      BY <1>1, <2>4, <3>2, IdleFits DEF FindForAdminDelete, Fresh
  <2> QED
    BY <1>3, <2>1, <2>2, <2>3, <2>4
       DEF Next, Arrive, Continue, CreateItem, SaveItem, DeleteByIdAndUserId,
           ResetTodos, RemoveUsers, Abandon
<1>4. CASE UNCHANGED vars
  BY <1>4 DEF vars, Fresh
<1> QED
  BY <1>3, <1>4

(* With requests one at a time a PATCH is partial, in all six contexts. *)
THEOREM PatchIsPartialWhenSerial ==
    ASSUME NEW r, Slots = {r}
    PROVE  Spec => PatchIsPartial
<1> DEFINE A == \A s \in Slots :
                   SaveItem(s) /\ requests[s].item \in DOMAIN items =>
                      Exact(s, requests[s].item, Fields(requests[s].row.kind))
<1>1. Init => Fresh
  BY IdleFits DEF Init, Fresh
<1>2. Inv /\ Fresh /\ [Next]_vars => Fresh'
  BY FreshNext
<1>3. Inv /\ Fresh => [A]_vars
  BY SaveIsExact DEF Fresh, SaveItem, At
<1>4. PatchIsPartial <=> [][A]_vars
  BY DEF PatchIsPartial
<1> HIDE DEF A
<1> QED
  BY <1>1, <1>2, <1>3, <1>4, InvAlways, PTL DEF Spec

(* With requests one at a time the items keep the promise of ItemStore. *)
THEOREM ImplementsStoreWhenSerial ==
    ASSUME NEW r, Slots = {r}
    PROVE  Spec => ImplementsStore
<1>1. Init => Fresh /\ Store!Init
  BY IdleFits DEF Init, Fresh, Store!Init
<1>2. Inv /\ Fresh /\ [Next]_vars => Fresh'
  BY FreshNext
<1>3. Inv /\ Fresh /\ [Next]_vars => [Store!Next]_<<items, used>>
  <2> SUFFICES ASSUME Inv, Fresh, [Next]_vars
               PROVE  Store!Next \/ UNCHANGED <<items, used>>
    OBVIOUS
  <2>1. ASSUME NEW s \in Slots, NEW u \in Users, NEW k \in Kinds, NEW i \in Items,
               CreateItem(s, u, k, i)
        PROVE  Store!Next
    <3>1. PICK row \in AllItems : items' = With(i, row)
      BY <2>1, CreateItemKeeps
    <3>2. Store!CreateRow(i)
      BY <2>1, <3>1 DEF Store!CreateRow, Store!With, With, CreateItem
    <3> QED
      BY <3>2 DEF Store!Next
  <2>2. ASSUME NEW s \in Slots, SaveItem(s)
        PROVE  Store!Next
    <3> DEFINE q == requests[s]
               i == q.item
    <3>1. /\ q.pc = "save" /\ Informed(s) /\ q.row \in AllItems /\ used' = used
          /\ i \in DOMAIN items => items' = With(i, q.row)
      BY <2>2, SaveItemWrites
    <3>2. i \in DOMAIN items /\ Same(items[i], q.row)
      BY <3>1 DEF Fresh, Informed
    <3>3. i \in Items
      BY <3>2 DEF Inv, TypeOK
    <3>4. Store!ChangeRow(i)
      BY <3>1, <3>2 DEF Store!ChangeRow, Store!With, With, Same
    <3> QED
      BY <3>3, <3>4 DEF Store!Next
  <2>3. ASSUME NEW s \in Slots, Removes(s)
        PROVE  Store!Next
    BY <2>3, RemovesKeeps DEF Store!Next, Store!RemoveRows, Store!Without, Without
  <2>4. CASE Next
    BY <2>1, <2>2, <2>3, <2>4, StepCases, FindForDeleteKeeps,
       FindForAdminDeleteKeeps, AbandonKeeps DEF FindForUpdate
  <2> QED
    BY <2>4 DEF vars
<1>4. ImplementsStore <=> Store!Init /\ [][Store!Next]_<<items, used>>
  BY DEF ImplementsStore, Store!Spec
<1> QED
  BY <1>1, <1>2, <1>3, <1>4, InvAlways, PTL DEF Spec

-----------------------------------------------------------------------------
(* What stays true of an id when requests overlap (ItemHistory).           *)

(* Rows and copies are what their id was given out for. *)
IdentityInv ==
    /\ identity = [i \in used |-> identity[i]]
    /\ \A i \in DOMAIN items : IdentityOf(items[i]) = identity[i]
    /\ \A s \in Slots :
          requests[s].pc = "save" =>
             /\ requests[s].item \in used
             /\ IdentityOf(requests[s].row) = identity[requests[s].item]

Remember ==
    identity' = [i \in used' |-> IF i \in used THEN identity[i]
                                 ELSE IdentityOf(items'[i])]

LEMMA IdentityKept ==
    ASSUME IdentityInv, Remember, used' = used
    PROVE  identity' = identity
BY DEF IdentityInv, Remember

(* A new id is recorded, and those given out before are as they were. *)
LEMMA IdentityExtended ==
    ASSUME IdentityInv, Remember, NEW i, i \notin used, used' = used \cup {i}
    PROVE  /\ identity' = Table!With(identity, i, IdentityOf(items'[i]))
           /\ identity' = [j \in used' |-> identity'[j]]
           /\ identity'[i] = IdentityOf(items'[i])
           /\ \A j \in used : identity'[j] = identity[j]
BY DEF IdentityInv, Remember, Table!With

(* The copies after a step of slot s. *)
LEMMA CopiesAfter ==
    ASSUME NEW s \in Slots, \A t \in Slots \ {s} : Kept(t)
    PROVE  /\ requests[s].pc # "save" /\ requests'[s].pc # "save"
                => Copies' = Copies
           /\ requests[s].pc = "save" /\ requests'[s].pc # "save"
                => Copies' = Copies \ {<<s, requests[s].item>>}
           /\ requests[s].pc # "save" /\ requests'[s].pc = "save"
                             /\ requests'[s].item \in Items
                => Copies' = Copies \cup {<<s, requests'[s].item>>}
<1>1. \A t \in Slots \ {s}, i \in Items :
         <<t, i>> \in Copies' <=> <<t, i>> \in Copies
  BY DEF Copies, Kept
<1>2. \A i \in Items :
         /\ <<s, i>> \in Copies <=> requests[s].pc = "save" /\ requests[s].item = i
         /\ <<s, i>> \in Copies' <=> requests'[s].pc = "save" /\ requests'[s].item = i
  BY DEF Copies
<1>3. Copies \subseteq Slots \X Items /\ Copies' \subseteq Slots \X Items
  BY DEF Copies
<1>4. ASSUME NEW c \in Slots \X Items
      PROVE  \E t \in Slots, i \in Items : c = <<t, i>>
  OBVIOUS
<1> HIDE DEF Copies
<1> QED
  BY <1>1, <1>2, <1>3, <1>4

(* A step that gives out no id, after which s has nothing to save. *)
LEMMA IdentityInvKept ==
    ASSUME IdentityInv, Remember, used' = used, NEW s \in Slots,
           \A t \in Slots \ {s} : Kept(t), requests'[s].pc # "save",
           \A i \in DOMAIN items' : IdentityOf(items'[i]) = identity[i]
    PROVE  IdentityInv'
<1>1. identity' = identity
  BY IdentityKept
<1>2. \A t \in Slots : requests'[t].pc = "save" =>
         /\ requests'[t].item \in used'
         /\ IdentityOf(requests'[t].row) = identity'[requests'[t].item]
  BY <1>1 DEF IdentityInv, Kept
<1>3. identity' = [i \in used' |-> identity'[i]]
  BY <1>1 DEF IdentityInv
<1> QED
  BY <1>1, <1>2, <1>3 DEF IdentityInv

LEMMA CreateItemInTable ==
    ASSUME Inv, IdentityInv, Remember, NEW s \in Slots, NEW u \in Users,
           NEW k \in Kinds, NEW i \in Items, CreateItem(s, u, k, i)
    PROVE  IdentityInv' /\ Table!CreateRow(i)
<1>1. PICK row \in AllItems : items' = With(i, row)
  BY CreateItemKeeps
<1>2. /\ i \notin used /\ used' = used \cup {i}
      /\ requests[s].pc = "idle" /\ Advance(s, Idle)
  BY DEF CreateItem, At
<1>3. /\ DOMAIN items' = DOMAIN items \cup {i} /\ items'[i] = row
      /\ \A j \in DOMAIN items \ {i} : items'[j] = items[j]
  BY <1>1, WithFits DEF Inv, TypeOK
<1>4. /\ identity' = Table!With(identity, i, IdentityOf(row))
      /\ identity' = [j \in used' |-> identity'[j]]
      /\ identity'[i] = IdentityOf(row)
      /\ \A j \in used : identity'[j] = identity[j]
  BY <1>2, <1>3, IdentityExtended
<1>5. /\ requests'[s] = Idle
      /\ \A t \in Slots \ {s} : Kept(t)
  BY <1>2, AdvanceSlots, IdleFits DEF Inv, TypeOK
<1>6. Copies' = Copies
  BY <1>2, <1>5, IdleFits, CopiesAfter
<1>7. IdentityInv'
  <2>1. \A j \in DOMAIN items' : IdentityOf(items'[j]) = identity'[j]
    BY <1>3, <1>4 DEF IdentityInv, Inv, TypeOK
  <2>2. \A t \in Slots : requests'[t].pc = "save" =>
           /\ requests'[t].item \in used'
           /\ IdentityOf(requests'[t].row) = identity'[requests'[t].item]
    BY <1>2, <1>4, <1>5, IdleFits DEF IdentityInv, Kept
  <2> QED
    BY <1>4, <2>1, <2>2 DEF IdentityInv
<1>8. i \notin DOMAIN identity
  <2>1. DOMAIN identity = used
    BY DEF IdentityInv
  <2> QED
    BY <1>2, <2>1
<1>9. items' = Table!With(items, i, row)
  BY <1>1 DEF With, Table!With
<1>10. IdentityOf(row) = Table!IdentityOf(row)
  BY DEF IdentityOf, Table!IdentityOf
<1> QED
  BY <1>4, <1>6, <1>7, <1>8, <1>9, <1>10 DEF Table!CreateRow, Copies

LEMMA FindForUpdateInTable ==
    ASSUME Inv, IdentityInv, Remember, NEW s \in Slots, NEW u \in Users,
           NEW i \in Items, FindForUpdate(s, u, i)
    PROVE  IdentityInv' /\ Table!TakeCopy(s, i)
<1> DEFINE k == items[i].kind
<1>1. /\ i \in DOMAIN items /\ requests[s].pc = "idle"
      /\ UNCHANGED <<items, used>>
  BY DEF FindForUpdate, Found, At
<1>2. PICK b \in UpdateBodies(k) :
          Advance(s, [pc |-> "save", item |-> i, caller |-> u,
                      row |-> [items[i] EXCEPT
                                 !.content = Updated(k, @, Parsed(k, b))],
                      body |-> Parsed(k, b), stale |-> FALSE])
  BY DEF FindForUpdate
<1> DEFINE row == [items[i] EXCEPT !.content = Updated(k, @, Parsed(k, b))]
           q == [pc |-> "save", item |-> i, caller |-> u, row |-> row,
                 body |-> Parsed(k, b), stale |-> FALSE]
<1>3. IdentityOf(row) = IdentityOf(items[i])
  <2>1. items[i] \in AllItems
    BY <1>1 DEF Inv, TypeOK
  <2> QED
    BY <2>1, RowFits DEF IdentityOf
<1>4. Advance(s, q)
  BY <1>2
<1>5. q.pc = "save" /\ q.item = i /\ q.row = row
  OBVIOUS
<1> HIDE DEF q, row
<1>6. requests' = [t \in Slots |-> IF t = s THEN q ELSE Mark(t)]
  BY <1>4 DEF Advance
<1>7. requests'[s] = q /\ requests' \in [Slots -> Request]
  BY <1>6, FindForUpdateKeeps DEF Inv, TypeOK
<1>8. \A t \in Slots \ {s} : Kept(t)
  BY <1>4, <1>7, AdvanceSlots DEF Inv, TypeOK
<1>9. identity' = identity
  BY <1>1, IdentityKept
<1>10. \A t \in Slots : requests'[t].pc = "save" =>
          /\ requests'[t].item \in used'
          /\ IdentityOf(requests'[t].row) = identity'[requests'[t].item]
  BY <1>1, <1>3, <1>5, <1>7, <1>8, <1>9 DEF IdentityInv, Kept, Inv, TypeOK
<1>11. IdentityInv'
  <2>1. identity' = [j \in used' |-> identity'[j]]
    BY <1>1, <1>9 DEF IdentityInv
  <2> QED
    BY <1>1, <1>9, <1>10, <2>1 DEF IdentityInv
<1>12. Copies' = Copies \cup {<<s, i>>}
  BY <1>1, <1>5, <1>7, <1>8, CopiesAfter
<1> QED
  BY <1>1, <1>9, <1>11, <1>12 DEF Table!TakeCopy, Copies

LEMMA SaveItemInTable ==
    ASSUME Inv, IdentityInv, Remember, NEW s \in Slots, SaveItem(s)
    PROVE  /\ IdentityInv'
           /\ \E j \in Items : Table!SaveCopy(s, j) \/ Table!DropCopy(s, j)
<1> DEFINE q == requests[s]
<1>0. PICK i \in Items : i = q.item
  BY DEF SaveItem, At, IdentityInv, Inv, TypeOK
<1>1. /\ q.pc = "save" /\ q.row \in AllItems
      /\ used' = used /\ requests'[s] = Idle
      /\ \A t \in Slots \ {s} : Kept(t)
      /\ items' = With(i, q.row) \/ items' = items
  BY <1>0, SaveItemWrites
<1>2. i \in used /\ IdentityOf(q.row) = identity[i]
  BY <1>0, <1>1 DEF IdentityInv
<1>3. Copies' = Copies \ {<<s, i>>} /\ <<s, i>> \in Copies
  BY <1>0, <1>1, IdleFits, CopiesAfter DEF Copies
<1>4. identity' = identity
  BY <1>1, IdentityKept
<1>5. \A j \in DOMAIN items' : IdentityOf(items'[j]) = identity[j]
  <2>1. CASE items' = With(i, q.row)
    <3>1. /\ DOMAIN items' = DOMAIN items \cup {i} /\ items'[i] = q.row
          /\ \A j \in DOMAIN items \ {i} : items'[j] = items[j]
      BY <1>1, <2>1, WithFits DEF Inv, TypeOK
    <3> QED
      BY <1>2, <3>1 DEF IdentityInv
  <2>2. CASE items' = items
    BY <2>2 DEF IdentityInv
  <2> QED
    BY <1>1, <2>1, <2>2
<1>6. IdentityInv'
  BY <1>1, <1>5, IdleFits, IdentityInvKept
<1>7. CASE items' = With(i, q.row)
  <2>1. items' = Table!With(items, i, q.row)
    BY <1>7 DEF With, Table!With
  <2>2. IdentityOf(q.row) = Table!IdentityOf(q.row)
    BY DEF IdentityOf, Table!IdentityOf
  <2>3. Table!SaveCopy(s, i)
    BY <1>1, <1>2, <1>3, <1>4, <2>1, <2>2 DEF Table!SaveCopy, Copies
  <2> QED
    BY <1>6, <2>3
<1>8. CASE items' = items
  <2>1. Table!DropCopy(s, i)
    BY <1>3, <1>4, <1>8 DEF Table!DropCopy, Copies
  <2> QED
    BY <1>6, <2>1
<1> QED
  BY <1>1, <1>7, <1>8

(* What deletions do to the slot. *)
LEMMA RemovesSlot ==
    ASSUME Inv, NEW s \in Slots, Removes(s)
    PROVE  /\ requests[s].pc # "save" /\ requests'[s].pc # "save"
           /\ \A t \in Slots \ {s} : Kept(t)
<1>1. Advance(s, Idle) /\ requests[s].pc # "save"
  BY DEF Removes, DeleteByIdAndUserId, ResetTodos, RemoveUsers, At
<1> QED
  BY <1>1, AdvanceSlots, IdleFits DEF Inv, TypeOK

LEMMA RemovesInTable ==
    ASSUME Inv, IdentityInv, Remember, NEW s \in Slots, Removes(s)
    PROVE  /\ IdentityInv'
           /\ \E S \in SUBSET Items : Table!RemoveRows(S)
<1>1. used' = used
  BY RemovesKeeps
<1>2. PICK S \in SUBSET Items : items' = Without(S)
  BY RemovesKeeps
<1>3. \A j \in DOMAIN items' : j \in DOMAIN items /\ items'[j] = items[j]
  BY <1>2 DEF Without
<1>4. IdentityInv'
  BY <1>1, <1>3, RemovesSlot, IdentityInvKept DEF IdentityInv
<1>5. identity' = identity /\ Copies' = Copies
  BY <1>1, RemovesSlot, IdentityKept, CopiesAfter
<1>6. Table!RemoveRows(S)
  BY <1>2, <1>5 DEF Table!RemoveRows, Without, Copies
<1> QED
  BY <1>4, <1>6

(* The steps that leave the table alone. *)
LEMMA OthersInTable ==
    ASSUME Inv, IdentityInv, Remember, NEW s \in Slots,
           \/ \E u \in Users, i \in Items :
                 FindForDelete(s, u, i) \/ FindOwner(s, u, i)
           \/ FindForAdminDelete(s)
           \/ Abandon(s)
    PROVE  /\ IdentityInv'
           /\ \/ \E i \in Items : Table!DropCopy(s, i)
              \/ UNCHANGED <<items, identity, Copies>>
<1>1. UNCHANGED <<items, used>>
  BY DEF FindForDelete, FindOwner, FindForAdminDelete, Abandon
<1>2. ASSUME NEW req \in Request, req.pc # "save", Advance(s, req)
      PROVE  requests'[s].pc # "save" /\ \A t \in Slots \ {s} : Kept(t)
  BY <1>2, AdvanceSlots DEF Inv, TypeOK
<1>3. requests'[s].pc # "save" /\ \A t \in Slots \ {s} : Kept(t)
  <2>1. ASSUME NEW u \in Users, NEW i \in Items,
               FindForDelete(s, u, i) \/ FindOwner(s, u, i)
        PROVE  requests'[s].pc # "save" /\ \A t \in Slots \ {s} : Kept(t)
    <3> DEFINE req(pc) == [pc |-> pc, item |-> i, owner |-> u]
    <3>1. \A pc \in {"find", "delete"} : req(pc) \in Request /\ req(pc).pc # "save"
      BY DEF Request, Deleting
    <3>2. Advance(s, req("delete")) \/ Advance(s, req("find"))
      BY <2>1 DEF FindForDelete, FindOwner
    <3> HIDE DEF req
    <3> QED
      BY <1>2, <3>1, <3>2
  <2>2. CASE FindForAdminDelete(s)
    <3> DEFINE req == [requests[s] EXCEPT !.pc = "delete"]
    <3>1. requests[s] \in Deleting
      BY <2>2, DeletingFits DEF FindForAdminDelete, At, Inv, TypeOK
    <3>2. req \in Request /\ req.pc # "save"
      BY <3>1 DEF Deleting, Request
    <3>3. Advance(s, req) \/ Advance(s, Idle)
      BY <2>2 DEF FindForAdminDelete
    <3> HIDE DEF req
    <3> QED
      BY <1>2, <3>2, <3>3, IdleFits
  <2>3. CASE Abandon(s)
    BY <1>2, <2>3, IdleFits DEF Abandon
  <2> QED
    BY <2>1, <2>2, <2>3
<1>4. IdentityInv'
  BY <1>1, <1>3, IdentityInvKept DEF IdentityInv
<1>5. identity' = identity
  BY <1>1, IdentityKept
<1>6. CASE requests[s].pc = "save"
  <2>1. PICK i \in Items : i = requests[s].item
    BY <1>6 DEF IdentityInv, Inv, TypeOK
  <2>2. Copies' = Copies \ {<<s, i>>}
    BY <1>3, <1>6, <2>1, CopiesAfter
  <2>3. Table!DropCopy(s, i)
    BY <1>1, <1>5, <2>2 DEF Table!DropCopy, Copies
  <2> QED
    BY <1>4, <2>1, <2>3
<1>7. CASE requests[s].pc # "save"
  BY <1>1, <1>3, <1>4, <1>5, <1>7, CopiesAfter
<1> QED
  BY <1>6, <1>7

LEMMA StepInTable ==
    ASSUME Inv, IdentityInv, [HistoryNext]_historyVars
    PROVE  IdentityInv' /\ [Table!Next]_<<items, identity, Copies>>
<1>1. CASE HistoryNext
  <2>1. Next /\ Remember
    BY <1>1 DEF HistoryNext, Remember
  <2>2. PICK s \in Slots :
              \/ \E u \in Users, k \in Kinds, i \in Items : CreateItem(s, u, k, i)
              \/ \E u \in Users, i \in Items : FindForUpdate(s, u, i)
              \/ SaveItem(s)
              \/ \E u \in Users, i \in Items :
                    FindForDelete(s, u, i) \/ FindOwner(s, u, i)
              \/ FindForAdminDelete(s)
              \/ Abandon(s)
              \/ Removes(s)
    BY <2>1, StepCases
  <2>3. ASSUME NEW u \in Users, NEW k \in Kinds, NEW i \in Items,
               CreateItem(s, u, k, i)
        PROVE  IdentityInv' /\ Table!Next
    BY <2>1, <2>3, CreateItemInTable DEF Table!Next
  <2>4. ASSUME NEW u \in Users, NEW i \in Items, FindForUpdate(s, u, i)
        PROVE  IdentityInv' /\ Table!Next
    BY <2>1, <2>4, FindForUpdateInTable DEF Table!Next
  <2>5. CASE SaveItem(s)
    BY <2>1, <2>5, SaveItemInTable DEF Table!Next
  <2>6. CASE Removes(s)
    BY <2>1, <2>6, RemovesInTable DEF Table!Next
  <2>7. CASE \/ \E u \in Users, i \in Items :
                   FindForDelete(s, u, i) \/ FindOwner(s, u, i)
             \/ FindForAdminDelete(s)
             \/ Abandon(s)
    BY <2>1, <2>7, OthersInTable DEF Table!Next
  <2> QED
    BY <2>2, <2>3, <2>4, <2>5, <2>6, <2>7
<1>2. CASE UNCHANGED historyVars
  BY <1>2 DEF historyVars, IdentityInv, Copies
<1> QED
  BY <1>1, <1>2

(* The record only adds to OwnedItems: what is proved of its specification *)
(* holds of this one.                                                      *)
THEOREM HistoryImplementsSpec == HistorySpec => Spec
<1>1. HistoryInit => Init
  BY DEF HistoryInit
<1>2. [HistoryNext]_historyVars => [Next]_vars
  BY DEF HistoryNext, historyVars, vars
<1> QED
  BY <1>1, <1>2, PTL DEF HistorySpec, Spec

(* With any number of overlapping requests an id belongs to one owner and  *)
(* one kind for good, and a row is written from a copy taken of it only.   *)
THEOREM ImplementsTableHolds == HistorySpec => ImplementsTable
<1>1. HistoryInit => IdentityInv /\ Table!Init
  <2> SUFFICES ASSUME HistoryInit PROVE IdentityInv /\ Table!Init
    OBVIOUS
  <2>1. /\ used = {} /\ DOMAIN items = {} /\ identity = [i \in {} |-> Null]
        /\ \A s \in Slots : requests[s].pc # "save"
    BY IdleFits DEF HistoryInit, Init
  <2>2. identity = [i \in used |-> identity[i]] /\ DOMAIN identity = {}
    BY <2>1
  <2> QED
    BY <2>1, <2>2 DEF IdentityInv, Table!Init, Copies
<1>2. IdentityInv /\ Inv /\ [HistoryNext]_historyVars
        => IdentityInv' /\ [Table!Next]_<<items, identity, Copies>>
  BY StepInTable
<1>3. ImplementsTable <=> Table!Init /\ [][Table!Next]_<<items, identity, Copies>>
  BY DEF ImplementsTable, Table!Spec
<1> QED
  BY <1>1, <1>2, <1>3, InvAlways, HistoryImplementsSpec, PTL DEF HistorySpec
=============================================================================
