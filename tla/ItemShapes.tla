----------------------------- MODULE ItemShapes -----------------------------
(***************************************************************************)
(* The six contexts of owned items (contexts/todo, note, contact, book,    *)
(* movie, expense), which differ in the fields of their items only.  For   *)
(* each, what every layer that handles an item has to name field by field: *)
(* the table, the bodies of POST and PATCH, the aggregate and the columns  *)
(* its repository writes.  OwnedItems puts the layers together.            *)
(*                                                                         *)
(*   Row         columns that are never null, and those that may be        *)
(*   CreateBody  fields a POST must have, and those it may leave out       *)
(*   Create      fields the aggregate starts with a value of its own       *)
(*   UpdateBody  fields a PATCH leaves alone when it leaves them out, and  *)
(*               those that are turned to null then                        *)
(*   Update      fields the aggregate takes over when they are given       *)
(*   Save        columns of an existing row that saving writes             *)
(***************************************************************************)

AllKinds == {"todo", "note", "contact", "book", "movie", "expense"}

-----------------------------------------------------------------------------
TodoRow == [kept |-> {"title", "isCompleted"},
            nullable |-> {"description", "dueDate"}]

TodoCreateBody == [required |-> {"title"},
                   nullable |-> {"description", "dueDate"}]

TodoCreate == {"isCompleted"}

TodoUpdateBody == [optional |-> {"title", "isCompleted"},
                   nullable |-> {"description", "dueDate"}]

TodoUpdate == {"title", "description", "isCompleted", "dueDate"}

(* The repository of todos with one of its columns forgotten. *)
TodoSaveWithoutDueDate == {"title", "description", "isCompleted"}

TodoSave == {"title", "description", "isCompleted", "dueDate"}

-----------------------------------------------------------------------------
NoteRow == [kept |-> {"title", "content"}, nullable |-> {}]

NoteCreateBody == [required |-> {"title", "content"}, nullable |-> {}]

NoteCreate == {}

NoteUpdateBody == [optional |-> {"title", "content"}, nullable |-> {}]

NoteUpdate == {"title", "content"}

NoteSave == {"title", "content"}

-----------------------------------------------------------------------------
ContactRow ==
    [kept |-> {"firstName"},
     nullable |-> {"lastName", "email", "phone", "company", "address"}]

ContactCreateBody ==
    [required |-> {"firstName"},
     nullable |-> {"lastName", "email", "phone", "company", "address"}]

ContactCreate == {}

ContactUpdateBody ==
    [optional |-> {"firstName"},
     nullable |-> {"lastName", "email", "phone", "company", "address"}]

ContactUpdate ==
    {"firstName", "lastName", "email", "phone", "company", "address"}

ContactSave ==
    {"firstName", "lastName", "email", "phone", "company", "address"}

-----------------------------------------------------------------------------
BookRow == [kept |-> {"title", "author", "status"},
            nullable |-> {"genre", "publishedYear"}]

BookCreateBody == [required |-> {"title", "author"},
                   nullable |-> {"genre", "publishedYear"}]

BookCreate == {"status"}

BookUpdateBody == [optional |-> {"title", "author", "status"},
                   nullable |-> {"genre", "publishedYear"}]

BookUpdate == {"title", "author", "genre", "publishedYear", "status"}

BookSave == {"title", "author", "genre", "publishedYear", "status"}

-----------------------------------------------------------------------------
MovieRow == [kept |-> {"title", "status"},
             nullable |-> {"director", "genre", "releaseYear"}]

MovieCreateBody == [required |-> {"title"},
                    nullable |-> {"director", "genre", "releaseYear"}]

MovieCreate == {"status"}

MovieUpdateBody == [optional |-> {"title", "status"},
                    nullable |-> {"director", "genre", "releaseYear"}]

MovieUpdate == {"title", "director", "genre", "releaseYear", "status"}

MovieSave == {"title", "director", "genre", "releaseYear", "status"}

-----------------------------------------------------------------------------
ExpenseRow == [kept |-> {"title", "amount", "type", "transactionDate"},
               nullable |-> {"note"}]

ExpenseCreateBody ==
    [required |-> {"title", "amount", "type", "transactionDate"},
     nullable |-> {"note"}]

ExpenseCreate == {}

ExpenseUpdateBody ==
    [optional |-> {"title", "amount", "type", "transactionDate"},
     nullable |-> {"note"}]

ExpenseUpdate == {"title", "amount", "type", "note", "transactionDate"}

ExpenseSave == {"title", "amount", "type", "note", "transactionDate"}

-----------------------------------------------------------------------------
Row == [todo |-> TodoRow, note |-> NoteRow, contact |-> ContactRow,
        book |-> BookRow, movie |-> MovieRow, expense |-> ExpenseRow]

CreateBody == [todo |-> TodoCreateBody, note |-> NoteCreateBody,
               contact |-> ContactCreateBody, book |-> BookCreateBody,
               movie |-> MovieCreateBody, expense |-> ExpenseCreateBody]

Create == [todo |-> TodoCreate, note |-> NoteCreate, contact |-> ContactCreate,
           book |-> BookCreate, movie |-> MovieCreate, expense |-> ExpenseCreate]

UpdateBody == [todo |-> TodoUpdateBody, note |-> NoteUpdateBody,
               contact |-> ContactUpdateBody, book |-> BookUpdateBody,
               movie |-> MovieUpdateBody, expense |-> ExpenseUpdateBody]

Update == [todo |-> TodoUpdate, note |-> NoteUpdate, contact |-> ContactUpdate,
           book |-> BookUpdate, movie |-> MovieUpdate, expense |-> ExpenseUpdate]

Save == [todo |-> TodoSave, note |-> NoteSave, contact |-> ContactSave,
         book |-> BookSave, movie |-> MovieSave, expense |-> ExpenseSave]
=============================================================================
