-------------------------- MODULE AdminUsers_proof --------------------------
(* Theorems about AdminUsers, for every set of users and of requests.      *)
EXTENDS AdminUsers, FiniteSetTheorems, TLAPS

-----------------------------------------------------------------------------
(* What the bookkeeping of a step does to the slots.                       *)

(* Raising or lowering the history flag touches no other field. *)
LEMMA FlagOnly ==
    ASSUME NEW q \in Request, NEW b \in BOOLEAN
    PROVE  LET p == [q EXCEPT !.stale = b] IN
           /\ p \in Request
           /\ p.pc = q.pc /\ p.op = q.op
           /\ p.actor = q.actor /\ p.target = q.target
           /\ (p.stale <=> b)
BY DEF Request

(* The slots a step of r does not own: only their history flag may move,   *)
(* and it is raised when the set of active administrators changes.         *)
OthersKept(r) ==
    \A s \in Requests \ {r} :
        /\ requests'[s].pc = requests[s].pc
        /\ requests'[s].op = requests[s].op
        /\ requests'[s].actor = requests[s].actor
        /\ requests'[s].target = requests[s].target
        /\ requests[s].stale => requests'[s].stale
        /\ \/ requests'[s].stale
           \/ requests[s].pc = "idle"
           \/ ActiveAdmins(users') = ActiveAdmins(users)

Slots == [Requests -> Request]

(* A step moves its own slot to the request given and keeps the others. *)
LEMMA ContinueSlots ==
    ASSUME NEW r \in Requests, NEW req \in Request,
           requests \in Slots, Continue(r, req)
    PROVE  requests' \in Slots /\ requests'[r] = req /\ OthersKept(r)
<1> DEFINE changed == ActiveAdmins(users') # ActiveAdmins(users)
           flag(s) == requests[s].stale \/ (requests[s].pc # "idle" /\ changed)
<1> HIDE DEF changed
<1>1. requests' = [s \in Requests |->
                     IF s = r THEN req ELSE [requests[s] EXCEPT !.stale = flag(s)]]
  BY DEF Continue, changed
<1>2. \A s \in Requests : flag(s) \in BOOLEAN /\ requests[s] \in Request
  BY DEF Slots, Request
<1> HIDE DEF flag
<1>3. \A s \in Requests : [requests[s] EXCEPT !.stale = flag(s)] \in Request
  BY <1>2, FlagOnly
<1>4. requests' \in Slots
  BY <1>1, <1>3 DEF Slots
<1>5. \A s \in Requests \ {r} :
         requests'[s] = [requests[s] EXCEPT !.stale = flag(s)]
  BY <1>1
<1>6. \A s \in Requests \ {r} :
         /\ requests'[s].pc = requests[s].pc
         /\ requests'[s].op = requests[s].op
         /\ requests'[s].actor = requests[s].actor
         /\ requests'[s].target = requests[s].target
         /\ requests'[s].stale = flag(s)
  <2> TAKE s \in Requests \ {r}
  <2>1. requests[s] \in Request /\ flag(s) \in BOOLEAN
    BY <1>2
  <2>2. requests'[s] = [requests[s] EXCEPT !.stale = flag(s)]
    BY <1>5
  <2> QED
    BY <2>1, <2>2, FlagOnly
<1>7. requests'[r] = req
  BY <1>1
<1> QED
  BY <1>4, <1>6, <1>7 DEF flag, changed, OthersKept

(* A slot at rest is well formed. *)
LEMMA IdleSlotType == IdleSlot \in Request
BY ConstantsAssumption DEF IdleSlot, Request, Pcs

(* A request that ends leaves its slot at rest. *)
LEMMA FinishSlots ==
    ASSUME NEW r \in Requests, requests \in Slots, Finish(r)
    PROVE  /\ requests' \in Slots /\ OthersKept(r)
           /\ requests'[r] = IdleSlot
BY ContinueSlots, IdleSlotType DEF Finish

(* Moving on touches the program counter, and the flag when it is lowered. *)
LEMMA PcOnly ==
    ASSUME NEW q \in Request, NEW pc \in Pcs, NEW p,
           p = [q EXCEPT !.pc = pc]
    PROVE  /\ p \in Request
           /\ p.pc = pc /\ p.op = q.op /\ p.actor = q.actor
           /\ p.target = q.target /\ (p.stale <=> q.stale)
BY DEF Request

(* The same for a request that has just read again. *)
LEMMA PcAndFlagOnly ==
    ASSUME NEW q \in Request, NEW pc \in Pcs, NEW p,
           p = [q EXCEPT !.pc = pc, !.stale = FALSE]
    PROVE  /\ p \in Request
           /\ p.pc = pc /\ p.op = q.op /\ p.actor = q.actor
           /\ p.target = q.target /\ ~p.stale
BY DEF Request

(* Slot r continues the same request at pc. *)
SameRequest(r) ==
    /\ requests'[r].op = requests[r].op
    /\ requests'[r].actor = requests[r].actor
    /\ requests'[r].target = requests[r].target

(* A request that moves on stays the same request. *)
LEMMA GoToSlots ==
    ASSUME NEW r \in Requests, NEW pc \in Pcs, requests \in Slots, GoTo(r, pc)
    PROVE  /\ requests' \in Slots /\ OthersKept(r) /\ SameRequest(r)
           /\ requests'[r].pc = pc
           /\ (requests'[r].stale <=> requests[r].stale)
<1> DEFINE q == requests[r]
           p == [q EXCEPT !.pc = pc]
<1>1. q \in Request
  BY DEF Slots
<1>2. Continue(r, p)
  BY DEF GoTo
<1> HIDE DEF q
<1>3. /\ p \in Request
      /\ p.pc = pc /\ p.op = q.op /\ p.actor = q.actor
      /\ p.target = q.target /\ (p.stale <=> q.stale)
  BY <1>1, PcOnly
<1> HIDE DEF p
<1>4. /\ requests' \in Slots /\ OthersKept(r)
      /\ requests'[r] = p
  BY <1>2, <1>3, ContinueSlots
<1> QED
  BY <1>3, <1>4 DEF SameRequest, q

(* A request that moves on after a reading is not stale. *)
LEMMA GoToFreshSlots ==
    ASSUME NEW r \in Requests, NEW pc \in Pcs, requests \in Slots,
           GoToFresh(r, pc)
    PROVE  /\ requests' \in Slots /\ OthersKept(r) /\ SameRequest(r)
           /\ requests'[r].pc = pc
           /\ ~requests'[r].stale
<1> DEFINE q == requests[r]
           p == [q EXCEPT !.pc = pc, !.stale = FALSE]
<1>1. q \in Request
  BY DEF Slots
<1>2. Continue(r, p)
  BY DEF GoToFresh
<1> HIDE DEF q
<1>3. /\ p \in Request
      /\ p.pc = pc /\ p.op = q.op /\ p.actor = q.actor
      /\ p.target = q.target /\ ~p.stale
  BY <1>1, PcAndFlagOnly
<1> HIDE DEF p
<1>4. /\ requests' \in Slots /\ OthersKept(r)
      /\ requests'[r] = p
  BY <1>2, <1>3, ContinueSlots
<1> QED
  BY <1>3, <1>4 DEF SameRequest, q

(* A request that arrives takes its slot and reads only. *)
LEMMA StartSlots ==
    ASSUME NEW r \in Requests, NEW op \in AllOps, NEW a \in Users,
           NEW u \in Users, NEW pc \in Pcs,
           requests \in Slots, Start(r, op, a, u, pc)
    PROVE  /\ requests' \in Slots /\ OthersKept(r)
           /\ requests'[r] = [pc |-> pc, op |-> op, actor |-> a, target |-> u,
                              stale |-> FALSE]
           /\ users' = users /\ sessions' = sessions /\ op \in Ops
<1>1. [pc |-> pc, op |-> op, actor |-> a, target |-> u, stale |-> FALSE] \in Request
  BY DEF Request
<1> QED
  BY <1>1, ContinueSlots DEF Start, Read

-----------------------------------------------------------------------------
(* Type correctness.                                                       *)

(* A table whose rows are rows, and that keeps every row that has a        *)
(* session, keeps the type of the User and AuthSession tables.             *)
TablesOK ==
    /\ users \in [Users -> Row]
    /\ sessions \in SUBSET {u \in Users : Present(u)}

(* Reading changes no table. *)
LEMMA ReadType ==
    ASSUME TablesOK, UNCHANGED <<users, sessions>>
    PROVE  TablesOK'
BY DEF TablesOK, Present

(* The writes by id. *)
LEMMA UpdateRowType ==
    ASSUME TypeOK, NEW r \in Requests, NEW row \in Row, NEW pc \in Pcs,
           row.state = Target(r).state, UpdateRow(r, row, pc)
    PROVE  TypeOK'
<1> DEFINE u == requests[r].target
<1>1. requests \in Slots /\ u \in Users
  BY DEF TypeOK, Slots, Request
<1>2. requests' \in Slots
  BY <1>1, FinishSlots, GoToSlots DEF UpdateRow
<1>3. CASE UNCHANGED users
  BY <1>2, <1>3 DEF TypeOK, UpdateRow, Present, Slots
<1>4. CASE users' = [users EXCEPT ![u] = row]
  <2>1. users' \in [Users -> Row]
    BY <1>1, <1>4 DEF TypeOK
  <2>2. \A v \in Users : users'[v].state = users[v].state
    BY <1>1, <1>4 DEF TypeOK, Target
  <2> QED
    BY <1>2, <2>1, <2>2 DEF TypeOK, UpdateRow, Present, Slots
<1> QED
  BY <1>3, <1>4 DEF UpdateRow

(* The cascading deletes. *)
LEMMA DeleteRowsType ==
    ASSUME TablesOK, NEW ids \in SUBSET Users, DeleteRows(ids)
    PROVE  TablesOK'
<1>1. NoRow("gone") \in Row
  BY DEF NoRow, Row
<1>2. users' \in [Users -> Row]
  BY <1>1 DEF DeleteRows, TablesOK
<1>3. \A v \in Users \ ids : users'[v] = users[v]
  BY DEF DeleteRows
<1> QED
  BY <1>2, <1>3 DEF DeleteRows, TablesOK, Present

(* The upserts of the seeds. *)
LEMMA UpsertType ==
    ASSUME TablesOK, NEW u \in Users, NEW isAdmin \in BOOLEAN,
           NEW isSystem \in BOOLEAN, Upsert(u, isAdmin, isSystem),
           UNCHANGED sessions
    PROVE  TablesOK'
<1> DEFINE row == IF Present(u)
                    THEN [users[u] EXCEPT !.active = TRUE, !.admin = isAdmin,
                                          !.system = isSystem]
                    ELSE NewRow(isAdmin, isSystem)
<1>1. row \in Row /\ row.state = "present"
  BY DEF TablesOK, Row, NewRow, Present
<1>2. users' = [users EXCEPT ![u] = row]
  BY DEF Upsert
<1> HIDE DEF row
<1>3. users' \in [Users -> Row]
  BY <1>1, <1>2 DEF TablesOK
<1>4. \A v \in Users : Present(v) => users'[v].state = "present"
  BY <1>1, <1>2 DEF TablesOK, Present
<1> QED
  BY <1>3, <1>4 DEF TablesOK, Present

(* The two halves of TypeOK: the tables and the slots. *)
LEMMA TypeHalves == TypeOK <=> TablesOK /\ requests \in Slots
BY DEF TypeOK, TablesOK, Slots

(* What the first read lets through, for every operation: the operations   *)
(* refused for system users and for one's own account, and the target's    *)
(* standing when a loss of the admin role or of the account goes uncounted.*)
FoundSafe(op, a, u, pc) ==
    /\ op \in {"deactivate", "delete", "resetUser"} => ~users[u].system /\ a # u
    /\ op = "resetAll" => users[a].system /\ a = u
    /\ op = "revokeAdmin" /\ users[u].admin => a # u
    /\ op = "revokeAdmin" /\ pc = "count" => a # u
    /\ op \in {"revokeAdmin", "deactivate", "delete"} => pc \in {"count", "write"}
    /\ op \in {"revokeAdmin", "deactivate", "delete"} /\ pc = "write"
          => u \notin ActiveAdmins(users)
    /\ op \in {"resetUser", "seed"} => pc = "find"

(* Every first reading starts a request that passed its refusals. *)
LEMMA FindFacts ==
    ASSUME NEW r \in Requests, Find(r)
    PROVE  \E op \in AllOps, a \in Users, u \in Users, pc \in Pcs :
               Start(r, op, a, u, pc) /\ FoundSafe(op, a, u, pc)
<1>1. PICK a \in Users :
         \/ FindForResetAll(r, a)
         \/ StartSeed(r, a)
         \/ \E u \in Users :
             \/ FindForCreate(r, a, u)
             \/ FindForGrantAdmin(r, a, u)
             \/ FindForRevokeAdmin(r, a, u)
             \/ FindForActivate(r, a, u)
             \/ FindForDeactivate(r, a, u)
             \/ FindForDelete(r, a, u)
             \/ FindForRestore(r, a, u)
             \/ FindForResetUser(r, a, u)
  BY DEF Find
<1> USE DEF AllOps, Pcs, FoundSafe, ActiveAdmins, CheckedPc
<1>2. CASE FindForResetAll(r, a)
  <2>1. Start(r, "resetAll", a, a, "preclear") /\ users[a].system
    BY <1>2 DEF FindForResetAll
  <2> QED
    BY <2>1
<1>3. CASE StartSeed(r, a)
  <2>1. Start(r, "seed", a, Root, "find")
    BY <1>3 DEF StartSeed
  <2> QED
    BY <2>1, ConstantsAssumption
<1>4. ASSUME NEW u \in Users, FindForCreate(r, a, u)
      PROVE  \E op \in AllOps, pc \in Pcs :
                 Start(r, op, a, u, pc) /\ FoundSafe(op, a, u, pc)
  <2>1. Start(r, "create", a, u, "write")
    BY <1>4 DEF FindForCreate
  <2> QED
    BY <2>1
<1>5. ASSUME NEW u \in Users, FindForGrantAdmin(r, a, u)
      PROVE  \E op \in AllOps, pc \in Pcs :
                 Start(r, op, a, u, pc) /\ FoundSafe(op, a, u, pc)
  <2>1. Start(r, "grantAdmin", a, u, "write")
    BY <1>5 DEF FindForGrantAdmin
  <2> QED
    BY <2>1
<1>6. ASSUME NEW u \in Users, FindForRevokeAdmin(r, a, u)
      PROVE  \E op \in AllOps, pc \in Pcs :
                 Start(r, op, a, u, pc) /\ FoundSafe(op, a, u, pc)
  <2> DEFINE pc == CheckedPc(users[u].admin /\ users[u].active)
  <2>1. /\ Start(r, "revokeAdmin", a, u, pc)
        /\ users[u].admin => a # u
    BY <1>6 DEF FindForRevokeAdmin
  <2>2. pc \in {"count", "write"} /\ (pc = "write" => u \notin ActiveAdmins(users))
        /\ (pc = "count" => users[u].admin)
    OBVIOUS
  <2> HIDE DEF pc
  <2>3. FoundSafe("revokeAdmin", a, u, pc)
    BY <2>1, <2>2
  <2> QED
    BY <2>1, <2>2, <2>3
<1>7. ASSUME NEW u \in Users, FindForActivate(r, a, u)
      PROVE  \E op \in AllOps, pc \in Pcs :
                 Start(r, op, a, u, pc) /\ FoundSafe(op, a, u, pc)
  <2>1. Start(r, "activate", a, u, "write")
    BY <1>7 DEF FindForActivate
  <2> QED
    BY <2>1
<1>8. ASSUME NEW u \in Users, FindForDeactivate(r, a, u)
      PROVE  \E op \in AllOps, pc \in Pcs :
                 Start(r, op, a, u, pc) /\ FoundSafe(op, a, u, pc)
  <2> DEFINE pc == CheckedPc(users[u].active /\ users[u].admin)
  <2>1. /\ Start(r, "deactivate", a, u, pc)
        /\ ~users[u].system /\ a # u
    BY <1>8 DEF FindForDeactivate
  <2>2. pc \in {"count", "write"} /\ (pc = "write" => u \notin ActiveAdmins(users))
    OBVIOUS
  <2> HIDE DEF pc
  <2>3. FoundSafe("deactivate", a, u, pc)
    BY <2>1, <2>2
  <2> QED
    BY <2>1, <2>2, <2>3
<1>9. ASSUME NEW u \in Users, FindForDelete(r, a, u)
      PROVE  \E op \in AllOps, pc \in Pcs :
                 Start(r, op, a, u, pc) /\ FoundSafe(op, a, u, pc)
  <2> DEFINE pc == CheckedPc(users[u].active /\ users[u].admin)
  <2>1. /\ Start(r, "delete", a, u, pc)
        /\ ~users[u].system /\ a # u
    BY <1>9 DEF FindForDelete
  <2>2. pc \in {"count", "write"} /\ (pc = "write" => u \notin ActiveAdmins(users))
    OBVIOUS
  <2> HIDE DEF pc
  <2>3. FoundSafe("delete", a, u, pc)
    BY <2>1, <2>2
  <2> QED
    BY <2>1, <2>2, <2>3
<1>10. ASSUME NEW u \in Users, FindForRestore(r, a, u)
      PROVE  \E op \in AllOps, pc \in Pcs :
                 Start(r, op, a, u, pc) /\ FoundSafe(op, a, u, pc)
  <2>1. Start(r, "restore", a, u, "write")
    BY <1>10 DEF FindForRestore
  <2> QED
    BY <2>1
<1>11. ASSUME NEW u \in Users, FindForResetUser(r, a, u)
      PROVE  \E op \in AllOps, pc \in Pcs :
                 Start(r, op, a, u, pc) /\ FoundSafe(op, a, u, pc)
  <2>1. Start(r, "resetUser", a, u, "find") /\ ~users[u].system /\ a # u
    BY <1>11 DEF FindForResetUser
  <2> QED
    BY <2>1
<1> HIDE DEF AllOps, Pcs, FoundSafe, ActiveAdmins, CheckedPc
<1> QED
  BY <1>1, <1>2, <1>3, <1>4, <1>5, <1>6, <1>7, <1>8, <1>9, <1>10, <1>11

(* Type correctness of the first readings. *)
LEMMA FindType ==
    ASSUME TypeOK, NEW r \in Requests, Find(r)
    PROVE  TypeOK'
<1>1. PICK op \in AllOps, a \in Users, u \in Users, pc \in Pcs :
         Start(r, op, a, u, pc)
  BY FindFacts
<1>2. requests' \in Slots /\ UNCHANGED <<users, sessions>>
  BY <1>1, StartSlots, TypeHalves
<1> QED
  BY <1>2, ReadType, TypeHalves DEF TypeOK, TablesOK, Slots, Present

(* Type correctness of the writes. *)
LEMMA WriteType ==
    ASSUME TypeOK, NEW r \in Requests, Write(r)
    PROVE  TypeOK'
<1> DEFINE u == requests[r].target
<1>1. /\ requests \in Slots
      /\ TablesOK
      /\ u \in Users
      /\ Target(r) \in Row
  BY TypeHalves DEF TypeOK, Request, Target
<1>2. CASE CreateUser(r)
  <2>1. \A isAdmin \in BOOLEAN : NewRow(isAdmin, FALSE) \in Row
    BY DEF NewRow, Row
  <2>2. users' \in [Users -> Row]
    BY <1>1, <1>2, <2>1 DEF CreateUser, TablesOK
  <2>3. \A v \in Users : Present(v) => users'[v].state = "present"
    BY <1>1, <1>2 DEF CreateUser, TablesOK, Present, Target, NewRow
  <2>4. requests' \in Slots
    BY <1>1, <1>2, FinishSlots DEF CreateUser
  <2> QED
    BY <1>1, <1>2, <2>2, <2>3, <2>4 DEF CreateUser, TypeOK, TablesOK, Present, Slots
<1>3. CASE UpdateUserRoles(r)
  <2> DEFINE row == [Target(r) EXCEPT !.admin = requests[r].op = "grantAdmin"]
  <2>1. row \in Row /\ row.state = Target(r).state
    BY <1>1 DEF Row
  <2> QED
    BY <1>3, <2>1, UpdateRowType DEF UpdateUserRoles, Pcs
<1>4. CASE Activate(r)
  <2> DEFINE row == [Target(r) EXCEPT !.active = TRUE]
  <2>1. row \in Row /\ row.state = Target(r).state
    BY <1>1 DEF Row
  <2> QED
    BY <1>4, <2>1, UpdateRowType DEF Activate, Pcs
<1>5. CASE Deactivate(r)
  <2> DEFINE row == [Target(r) EXCEPT !.active = FALSE]
  <2>1. row \in Row /\ row.state = Target(r).state
    BY <1>1 DEF Row
  <2> QED
    BY <1>5, <2>1, UpdateRowType DEF Deactivate, Pcs
<1>6. CASE SoftDeleteUser(r)
  <2> DEFINE row == [Target(r) EXCEPT !.deleted = TRUE]
  <2>1. row \in Row /\ row.state = Target(r).state
    BY <1>1 DEF Row
  <2> QED
    BY <1>6, <2>1, UpdateRowType DEF SoftDeleteUser, Pcs
<1>7. CASE RestoreUser(r)
  <2> DEFINE row == [Target(r) EXCEPT !.deleted = FALSE]
  <2>1. row \in Row /\ row.state = Target(r).state
    BY <1>1 DEF Row
  <2> QED
    BY <1>7, <2>1, UpdateRowType DEF RestoreUser, Pcs
<1>8. CASE DeleteNonSystemUserById(r)
  <2>1. TablesOK'
    BY <1>1, <1>8, DeleteRowsType DEF DeleteNonSystemUserById
  <2> QED
    BY <1>1, <1>8, <2>1, FinishSlots DEF DeleteNonSystemUserById, TypeOK, TablesOK, Slots, Present
<1>9. CASE DeleteNonSystemUsers(r)
  <2>1. TablesOK'
    BY <1>1, <1>9, DeleteRowsType DEF DeleteNonSystemUsers, NonSystemUsers
  <2> QED
    BY <1>1, <1>9, <2>1, FinishSlots DEF DeleteNonSystemUsers, TypeOK, TablesOK, Slots, Present
<1>10. CASE SeedBootstrapAdmin(r)
  <2>1. TablesOK'
    BY <1>1, <1>10, UpsertType, ReadType, ConstantsAssumption DEF SeedBootstrapAdmin
  <2> QED
    BY <1>1, <1>10, <2>1, GoToFreshSlots DEF SeedBootstrapAdmin, Pcs, TypeOK, TablesOK, Slots, Present
<1>11. CASE SeedDemoStudent(r)
  <2>1. TablesOK'
    BY <1>1, <1>11, UpsertType, ConstantsAssumption DEF SeedDemoStudent
  <2> QED
    BY <1>1, <1>11, <2>1, GoToSlots DEF SeedDemoStudent, Pcs, TypeOK, TablesOK, Slots, Present
<1> QED
  BY <1>2, <1>3, <1>4, <1>5, <1>6, <1>7, <1>8, <1>9, <1>10, <1>11 DEF Write

(* Type correctness of every step of a request. *)
LEMMA StepType ==
    ASSUME TypeOK, NEW r \in Requests, Step(r)
    PROVE  TypeOK'
<1>1. /\ requests \in Slots
      /\ TablesOK
  BY TypeHalves
<1>2. ASSUME UNCHANGED users, sessions' \subseteq sessions, requests' \in Slots
      PROVE  TypeOK'
  BY <1>2 DEF TypeOK, Slots, Present
<1>3. CASE Find(r)
  BY <1>3, FindType
<1>4. CASE FindAgainForResetUser(r)
  BY <1>1, <1>2, <1>4, GoToFreshSlots DEF FindAgainForResetUser, Read, Pcs
<1>5. CASE CountActiveAdmins(r)
  BY <1>1, <1>2, <1>5, GoToFreshSlots, FinishSlots DEF CountActiveAdmins, Read, Pcs
<1>6. CASE Write(r)
  BY <1>6, WriteType
<1>7. CASE ClearAuthSessionsForUser(r)
  BY <1>1, <1>2, <1>7, FinishSlots DEF ClearAuthSessionsForUser
<1>8. CASE ClearBeforeReset(r)
  BY <1>1, <1>2, <1>8, GoToSlots DEF ClearBeforeReset, Pcs
<1>9. CASE SeedDone(r)
  BY <1>1, <1>2, <1>9, FinishSlots DEF SeedDone, Read
<1>10. CASE Abandon(r)
  BY <1>1, <1>2, <1>10, FinishSlots DEF Abandon, Read
<1> QED
  BY <1>3, <1>4, <1>5, <1>6, <1>7, <1>8, <1>9, <1>10 DEF Step

(* Type correctness of the sign-ins. *)
LEMMA SaveSessionType ==
    ASSUME TypeOK, NEW u \in Users, SaveSession(u)
    PROVE  TypeOK'
BY DEF TypeOK, SaveSession, Present

(* Every state of the tables and of the slots is one the program can       *)
(* store: in particular a session always has its owner's row.              *)
THEOREM TypeCorrect == Spec => []TypeOK
<1>1. Init => TypeOK
  BY ConstantsAssumption, IdleSlotType DEF Init, TypeOK, NewRow, NoRow, Row, Present
<1>2. TypeOK /\ [Next]_vars => TypeOK'
  <2> SUFFICES ASSUME TypeOK, [Next]_vars PROVE TypeOK'
    OBVIOUS
  <2>1. CASE UNCHANGED vars
    BY <2>1 DEF vars, TypeOK, Present
  <2>2. CASE Next
    BY <2>2, StepType, SaveSessionType DEF Next
  <2> QED
    BY <2>1, <2>2
<1> QED
  BY <1>1, <1>2, PTL DEF Spec

-----------------------------------------------------------------------------
(* System users.                                                           *)

(* A request keeps its operation, actor and target from its first read to  *)
(* its end.                                                                *)
LEMMA StepSlots ==
    ASSUME TypeOK, NEW r \in Requests, Step(r)
    PROVE  /\ OthersKept(r)
           /\ Find(r) \/ requests'[r] = IdleSlot \/ SameRequest(r)
<1>1. requests \in Slots
  BY TypeHalves
<1>2. ASSUME Finish(r)
      PROVE  OthersKept(r) /\ requests'[r] = IdleSlot
  BY <1>1, <1>2, FinishSlots
<1>3. ASSUME NEW pc \in Pcs, GoTo(r, pc) \/ GoToFresh(r, pc)
      PROVE  OthersKept(r) /\ SameRequest(r)
  BY <1>1, <1>3, GoToSlots, GoToFreshSlots
<1>4. ASSUME NEW row, NEW pc \in Pcs, UpdateRow(r, row, pc)
      PROVE  OthersKept(r) /\ (requests'[r] = IdleSlot \/ SameRequest(r))
  BY <1>2, <1>3, <1>4 DEF UpdateRow
<1>5. {"idle", "count", "preclear", "write", "clear"} \subseteq Pcs
  BY DEF Pcs
<1>6. CASE Find(r)
  <2>1. PICK op \in AllOps, a \in Users, u \in Users, pc \in Pcs :
           Start(r, op, a, u, pc)
    BY <1>6, FindFacts
  <2> QED
    BY <1>1, <1>6, <2>1, StartSlots
<1>7. CASE Write(r)
  <2>1. CASE \/ UpdateUserRoles(r) \/ Activate(r) \/ Deactivate(r)
             \/ SoftDeleteUser(r) \/ RestoreUser(r)
    BY <1>4, <1>5, <2>1
    DEF UpdateUserRoles, Activate, Deactivate, SoftDeleteUser, RestoreUser
  <2>2. CASE \/ CreateUser(r) \/ DeleteNonSystemUserById(r)
             \/ DeleteNonSystemUsers(r)
    BY <1>2, <2>2 DEF CreateUser, DeleteNonSystemUserById, DeleteNonSystemUsers
  <2>3. CASE SeedBootstrapAdmin(r) \/ SeedDemoStudent(r)
    BY <1>3, <1>5, <2>3 DEF SeedBootstrapAdmin, SeedDemoStudent
  <2> QED
    BY <1>7, <2>1, <2>2, <2>3 DEF Write
<1>8. CASE FindAgainForResetUser(r)
  <2>1. PICK pc \in {"count", "preclear"} : GoToFresh(r, pc)
    BY <1>8 DEF FindAgainForResetUser
  <2> QED
    BY <1>3, <1>5, <2>1
<1>9. CASE CountActiveAdmins(r)
  <2>1. CASE \E pc \in {"preclear", "write"} : GoToFresh(r, pc)
    BY <1>3, <1>5, <2>1
  <2> QED
    BY <1>2, <1>9, <2>1 DEF CountActiveAdmins
<1>10. CASE ClearBeforeReset(r)
  BY <1>3, <1>5, <1>10 DEF ClearBeforeReset
<1>11. CASE ClearAuthSessionsForUser(r) \/ SeedDone(r) \/ Abandon(r)
  BY <1>2, <1>11 DEF ClearAuthSessionsForUser, SeedDone, Abandon
<1> QED
  BY <1>6, <1>7, <1>8, <1>9, <1>10, <1>11 DEF Step

(* A step never raises the flag of its own slot. *)
LEMMA StepFlag ==
    ASSUME TypeOK, NEW r \in Requests, Step(r), ~requests[r].stale
    PROVE  ~requests'[r].stale
<1>1. requests \in Slots
  BY TypeHalves
<1>2. ASSUME Finish(r) PROVE ~requests'[r].stale
  BY <1>1, <1>2, FinishSlots DEF IdleSlot
<1>3. ASSUME NEW pc \in Pcs, GoTo(r, pc) \/ GoToFresh(r, pc)
      PROVE  ~requests'[r].stale
  BY <1>1, <1>3, GoToSlots, GoToFreshSlots
<1>4. ASSUME NEW row, NEW pc \in Pcs, UpdateRow(r, row, pc)
      PROVE  ~requests'[r].stale
  BY <1>2, <1>3, <1>4 DEF UpdateRow
<1>5. {"idle", "count", "preclear", "write", "clear"} \subseteq Pcs
  BY DEF Pcs
<1>6. CASE Find(r)
  <2>1. PICK op \in AllOps, a \in Users, u \in Users, pc \in Pcs :
           Start(r, op, a, u, pc)
    BY <1>6, FindFacts
  <2>2. requests'[r] = [pc |-> pc, op |-> op, actor |-> a, target |-> u,
                        stale |-> FALSE]
    BY <1>1, <2>1, StartSlots
  <2> QED
    BY <2>2
<1>7. CASE Write(r)
  BY <1>2, <1>3, <1>4, <1>5, <1>7
  DEF Write, CreateUser, UpdateUserRoles, Activate, Deactivate, SoftDeleteUser,
      RestoreUser, DeleteNonSystemUserById, DeleteNonSystemUsers,
      SeedBootstrapAdmin, SeedDemoStudent
<1>8. CASE FindAgainForResetUser(r)
  <2>1. PICK pc \in {"count", "preclear"} : GoToFresh(r, pc)
    BY <1>8 DEF FindAgainForResetUser
  <2> QED
    BY <1>3, <1>5, <2>1
<1>9. CASE CountActiveAdmins(r)
  <2>1. CASE \E pc \in {"preclear", "write"} : GoToFresh(r, pc)
    BY <1>3, <1>5, <2>1
  <2> QED
    BY <1>2, <1>9, <2>1 DEF CountActiveAdmins
<1>10. CASE ClearBeforeReset(r)
  BY <1>3, <1>5, <1>10 DEF ClearBeforeReset
<1>11. CASE ClearAuthSessionsForUser(r) \/ SeedDone(r) \/ Abandon(r)
  BY <1>2, <1>11 DEF ClearAuthSessionsForUser, SeedDone, Abandon
<1> QED
  BY <1>6, <1>7, <1>8, <1>9, <1>10, <1>11 DEF Step

(* A step that is no write leaves the User table alone. *)
LEMMA OnlyWrites ==
    ASSUME NEW r \in Requests, Step(r), ~Write(r)
    PROVE  users' = users
<1>1. CASE Find(r)
  BY <1>1, FindFacts DEF Start, Read
<1> QED
  BY <1>1 DEF Step, FindAgainForResetUser, CountActiveAdmins,
      ClearAuthSessionsForUser, ClearBeforeReset, SeedDone, Abandon, Read

(* The inductive invariant behind SystemUsersProtected: only Root is a     *)
(* system user, and no request that could take its account away has passed *)
(* its first read with Root as target.                                     *)
SystemInv ==
    /\ \A u \in Users : users[u].system <=> u = Root
    /\ Present(Root) /\ users[Root].active /\ ~users[Root].deleted
    /\ \A r \in Requests :
          requests[r].op \in {"deactivate", "delete"} => requests[r].target # Root

SystemRows ==
    /\ \A u \in Users : users[u].system <=> u = Root
    /\ Present(Root) /\ users[Root].active /\ ~users[Root].deleted

(* Changing a column of a row leaves its other columns. *)
LEMMA RowUpdates ==
    ASSUME NEW q \in Row, NEW b \in BOOLEAN, NEW c \in BOOLEAN
    PROVE  /\ LET p == [q EXCEPT !.admin = b] IN
              /\ p.state = q.state /\ (p.active <=> q.active)
              /\ (p.deleted <=> q.deleted) /\ (p.admin <=> b) /\ (p.system <=> q.system)
           /\ LET p == [q EXCEPT !.active = b] IN
              /\ p.state = q.state /\ (p.active <=> b)
              /\ (p.deleted <=> q.deleted) /\ (p.admin <=> q.admin) /\ (p.system <=> q.system)
           /\ LET p == [q EXCEPT !.deleted = b] IN
              /\ p.state = q.state /\ (p.active <=> q.active)
              /\ (p.deleted <=> b) /\ (p.admin <=> q.admin) /\ (p.system <=> q.system)
           /\ LET p == [q EXCEPT !.active = TRUE, !.admin = b, !.system = c] IN
              /\ p.state = q.state /\ p.active
              /\ (p.deleted <=> q.deleted) /\ (p.admin <=> b) /\ (p.system <=> c)
BY DEF Row

(* What a write leaves in its target's row, field by field; the rows of    *)
(* all others stay as they are.                                            *)
OthersRows(u) == \A v \in Users \ {u} : users'[v] = users[v]

(* The writes by id touch the row of the target only. *)
LEMMA WriteOneRow ==
    ASSUME TypeOK, NEW r \in Requests
    PROVE  LET t == requests[r].target
               old == users[t]
               new == users'[t]
           IN
           /\ UpdateUserRoles(r) /\ users' # users =>
                /\ OthersRows(t) /\ Present(t)
                /\ new.state = old.state /\ (new.active <=> old.active)
                /\ (new.deleted <=> old.deleted) /\ (new.system <=> old.system)
                /\ (new.admin <=> requests[r].op = "grantAdmin")
           /\ Activate(r) /\ users' # users =>
                /\ OthersRows(t) /\ Present(t)
                /\ new.state = old.state /\ new.active
                /\ (new.deleted <=> old.deleted) /\ (new.system <=> old.system)
                /\ (new.admin <=> old.admin)
           /\ RestoreUser(r) /\ users' # users =>
                /\ OthersRows(t) /\ Present(t)
                /\ new.state = old.state /\ (new.active <=> old.active)
                /\ ~new.deleted /\ (new.system <=> old.system)
                /\ (new.admin <=> old.admin)
           /\ Deactivate(r) \/ SoftDeleteUser(r) =>
                /\ OthersRows(t)
                /\ (new.system <=> old.system)
<1> DEFINE t == requests[r].target
<1>1. users \in [Users -> Row] /\ t \in Users /\ users[t] \in Row
  BY DEF TypeOK, Request
<1>2. ASSUME NEW row, NEW pc, UpdateRow(r, row, pc)
      PROVE  /\ OthersRows(t)
             /\ users' = users \/ (Present(t) /\ users'[t] = row)
  BY <1>1, <1>2 DEF UpdateRow, OthersRows
<1>3. ASSUME UpdateUserRoles(r), users' # users
      PROVE  /\ OthersRows(t) /\ Present(t)
             /\ users'[t].state = users[t].state /\ (users'[t].active <=> users[t].active)
             /\ (users'[t].deleted <=> users[t].deleted) /\ (users'[t].system <=> users[t].system)
             /\ (users'[t].admin <=> requests[r].op = "grantAdmin")
  <2> DEFINE b == requests[r].op = "grantAdmin"
             row == [users[t] EXCEPT !.admin = b]
  <2>1. /\ OthersRows(t)
        /\ users' = users \/ (Present(t) /\ users'[t] = row)
    BY <1>2, <1>3 DEF UpdateUserRoles, Target
  <2>0. b \in BOOLEAN
    OBVIOUS
  <2> HIDE DEF b
  <2>2. /\ row.state = users[t].state /\ (row.active <=> users[t].active)
        /\ (row.deleted <=> users[t].deleted) /\ (row.system <=> users[t].system)
        /\ (row.admin <=> b)
    BY <1>1, <2>0, RowUpdates
  <2> HIDE DEF row
  <2> QED
    BY <1>3, <2>1, <2>2 DEF b
<1>4. ASSUME Activate(r), users' # users
      PROVE  /\ OthersRows(t) /\ Present(t)
             /\ users'[t].state = users[t].state /\ users'[t].active
             /\ (users'[t].deleted <=> users[t].deleted) /\ (users'[t].system <=> users[t].system)
             /\ (users'[t].admin <=> users[t].admin)
  <2> DEFINE row == [users[t] EXCEPT !.active = TRUE]
  <2>1. /\ OthersRows(t)
        /\ users' = users \/ (Present(t) /\ users'[t] = row)
    BY <1>2, <1>4 DEF Activate, Target
  <2>2. /\ row.state = users[t].state /\ row.active
        /\ (row.deleted <=> users[t].deleted) /\ (row.system <=> users[t].system)
        /\ (row.admin <=> users[t].admin)
    BY <1>1, RowUpdates
  <2> HIDE DEF row
  <2> QED
    BY <1>4, <2>1, <2>2
<1>5. ASSUME RestoreUser(r), users' # users
      PROVE  /\ OthersRows(t) /\ Present(t)
             /\ users'[t].state = users[t].state /\ (users'[t].active <=> users[t].active)
             /\ ~users'[t].deleted /\ (users'[t].system <=> users[t].system)
             /\ (users'[t].admin <=> users[t].admin)
  <2> DEFINE row == [users[t] EXCEPT !.deleted = FALSE]
  <2>1. /\ OthersRows(t)
        /\ users' = users \/ (Present(t) /\ users'[t] = row)
    BY <1>2, <1>5 DEF RestoreUser, Target
  <2>2. /\ row.state = users[t].state /\ (row.active <=> users[t].active)
        /\ ~row.deleted /\ (row.system <=> users[t].system)
        /\ (row.admin <=> users[t].admin)
    BY <1>1, RowUpdates
  <2> HIDE DEF row
  <2> QED
    BY <1>5, <2>1, <2>2
<1>6. ASSUME Deactivate(r)
      PROVE  /\ OthersRows(t)
             /\ (users'[t].system <=> users[t].system)
  <2> DEFINE row == [users[t] EXCEPT !.active = FALSE]
  <2>1. /\ OthersRows(t)
        /\ users' = users \/ (Present(t) /\ users'[t] = row)
    BY <1>2, <1>6 DEF Deactivate, Target
  <2>2. /\ (row.system <=> users[t].system)
    BY <1>1, RowUpdates
  <2> HIDE DEF row
  <2> QED
    BY <1>6, <2>1, <2>2
<1>7. ASSUME SoftDeleteUser(r)
      PROVE  /\ OthersRows(t)
             /\ (users'[t].system <=> users[t].system)
  <2> DEFINE row == [users[t] EXCEPT !.deleted = TRUE]
  <2>1. /\ OthersRows(t)
        /\ users' = users \/ (Present(t) /\ users'[t] = row)
    BY <1>2, <1>7 DEF SoftDeleteUser, Target
  <2>2. /\ (row.system <=> users[t].system)
    BY <1>1, RowUpdates
  <2> HIDE DEF row
  <2> QED
    BY <1>7, <2>1, <2>2
<1> QED
  BY <1>3, <1>4, <1>5, <1>6, <1>7

(* The rows the seeds leave. *)
LEMMA UpsertRow ==
    ASSUME TypeOK, NEW u \in Users, NEW isAdmin \in BOOLEAN,
           NEW isSystem \in BOOLEAN, Upsert(u, isAdmin, isSystem)
    PROVE  /\ OthersRows(u)
           /\ users'[u].state = "present" /\ users'[u].active
           /\ (users'[u].admin <=> isAdmin) /\ (users'[u].system <=> isSystem)
           /\ Present(u) => (users'[u].deleted <=> users[u].deleted)
<1>1. users \in [Users -> Row] /\ users[u] \in Row
  BY DEF TypeOK
<1>2. OthersRows(u)
  BY <1>1 DEF Upsert, OthersRows
<1>3. CASE Present(u)
  <2>1. users'[u] = [users[u] EXCEPT !.active = TRUE, !.admin = isAdmin,
                                     !.system = isSystem]
    BY <1>1, <1>3 DEF Upsert
  <2> QED
    BY <1>1, <1>2, <1>3, <2>1, RowUpdates DEF Present
<1>4. CASE ~Present(u)
  <2>1. users'[u] = NewRow(isAdmin, isSystem)
    BY <1>1, <1>4 DEF Upsert
  <2> QED
    BY <1>2, <1>4, <2>1 DEF NewRow
<1> QED
  BY <1>3, <1>4

(* No write takes a system account away. *)
LEMMA WriteSystemRows ==
    ASSUME TypeOK, SystemInv, NEW r \in Requests, Write(r)
    PROVE  SystemRows'
<1> DEFINE t == requests[r].target
<1>1. /\ users \in [Users -> Row] /\ t \in Users /\ Root \in Users
      /\ SystemRows
  BY ConstantsAssumption DEF TypeOK, Request, SystemInv, SystemRows
<1>2. CASE users' = users
  BY <1>1, <1>2 DEF SystemRows, Present
<1> USE DEF SystemRows, Present
<1>3. CASE CreateUser(r)
  <2>1. CASE \E isAdmin \in BOOLEAN :
               /\ users[t].state = "unborn"
               /\ users' = [users EXCEPT ![t] = NewRow(isAdmin, FALSE)]
    <3>1. t # Root
      BY <1>1, <2>1
    <3>2. ~users'[t].system
      BY <1>1, <2>1 DEF NewRow
    <3> QED
      BY <1>1, <2>1, <3>1, <3>2
  <2> QED
    BY <1>2, <1>3, <2>1 DEF CreateUser, Target
<1>4. CASE UpdateUserRoles(r) \/ Activate(r) \/ RestoreUser(r)
  BY <1>1, <1>2, <1>4, WriteOneRow DEF OthersRows
<1>5. CASE Deactivate(r) \/ SoftDeleteUser(r)
  <2>1. t # Root
    BY <1>5 DEF Deactivate, SoftDeleteUser, At, SystemInv
  <2> QED
    BY <1>1, <1>5, <2>1, WriteOneRow DEF OthersRows
<1>6. CASE DeleteNonSystemUserById(r) \/ DeleteNonSystemUsers(r)
  <2>1. PICK ids \in SUBSET NonSystemUsers : DeleteRows(ids)
    BY <1>6 DEF DeleteNonSystemUserById, DeleteNonSystemUsers
  <2>2. Root \notin ids
    BY <1>1 DEF NonSystemUsers
  <2> QED
    BY <1>1, <2>1, <2>2 DEF DeleteRows, NoRow
<1>7. CASE SeedBootstrapAdmin(r)
  BY <1>1, <1>2, <1>7, UpsertRow DEF SeedBootstrapAdmin, OthersRows
<1>8. CASE SeedDemoStudent(r)
  <2>1. PICK d \in Demo : Upsert(d, FALSE, FALSE)
    BY <1>8 DEF SeedDemoStudent
  <2>2. d \in Users /\ d # Root
    BY ConstantsAssumption
  <2>3. OthersRows(d) /\ ~users'[d].system
    BY <2>1, <2>2, UpsertRow
  <2> QED
    BY <1>1, <2>2, <2>3 DEF OthersRows
<1> QED
  BY <1>3, <1>4, <1>5, <1>6, <1>7, <1>8 DEF Write

(* No step of a request takes a system account away. *)
LEMMA StepSystem ==
    ASSUME TypeOK, SystemInv, NEW r \in Requests, Step(r)
    PROVE  SystemInv'
<1>1. SystemRows'
  <2>1. CASE Write(r)
    BY <2>1, WriteSystemRows
  <2>2. CASE ~Write(r)
    BY <2>2, OnlyWrites DEF SystemInv, SystemRows, Present
  <2> QED
    BY <2>1, <2>2
<1>2. ASSUME NEW s \in Requests, requests'[s].op \in {"deactivate", "delete"}
      PROVE  requests'[s].target # Root
  <2>1. CASE s # r
    BY <1>2, <2>1, StepSlots DEF OthersKept, SystemInv
  <2>2. CASE s = r /\ Find(r)
    <3>1. PICK op \in AllOps, a \in Users, u \in Users, pc \in Pcs :
             Start(r, op, a, u, pc) /\ FoundSafe(op, a, u, pc)
      BY <2>2, FindFacts
    <3>2. requests'[r] = [pc |-> pc, op |-> op, actor |-> a, target |-> u,
                          stale |-> FALSE]
      BY <3>1, StartSlots, TypeHalves
    <3> QED
      BY <1>2, <2>2, <3>1, <3>2 DEF FoundSafe, SystemInv
  <2>3. CASE s = r /\ ~Find(r)
    BY <1>2, <2>3, StepSlots DEF SystemInv, IdleSlot, SameRequest
  <2> QED
    BY <2>1, <2>2, <2>3
<1> QED
  BY <1>1, <1>2 DEF SystemInv, SystemRows

-----------------------------------------------------------------------------
(* The last active administrator.                                          *)

(* The operations that can end somebody's being an active administrator    *)
(* and that check, one way or another, that somebody else remains.         *)
CheckedOps == {"revokeAdmin", "deactivate", "delete", "resetUser"}

(* Until it goes stale, a request about to write still has what its check  *)
(* saw: its target is not an active administrator or is not the only one,  *)
(* and a seed has put the bootstrap administrator back.                    *)
FreshSlot(r) ==
    ~requests[r].stale =>
        /\ /\ requests[r].op \in CheckedOps
           /\ requests[r].pc \in {"preclear", "write"}
           /\ requests[r].target \in ActiveAdmins(users)
           => ActiveAdmins(users) \ {requests[r].target} # {}
        /\ At(r, "seed", "write") /\ BootstrapConfigured
           => Root \in ActiveAdmins(users)

FreshInv == \A r \in Requests : FreshSlot(r)

(* A count above one leaves somebody beside any given user. *)
LEMMA CountedTwo ==
    ASSUME NEW S \in SUBSET Users, ~(Cardinality(S) <= 1), NEW u
    PROVE  S \ {u} # {}
<1>1. IsFiniteSet(S)
  BY ConstantsAssumption, FS_Subset
<1>2. CASE S = {}
  BY <1>2, FS_EmptySet
<1>3. CASE S = {u}
  <2>1. Cardinality({u}) = 1
    BY FS_Singleton
  <2> QED
    BY <1>3, <2>1
<1> QED
  BY <1>2, <1>3

(* An administrator whose row is not written stays one. *)
LEMMA OthersStay ==
    ASSUME NEW u \in Users, OthersRows(u), NEW w \in ActiveAdmins(users), w # u
    PROVE  w \in ActiveAdmins(users')
BY DEF OthersRows, ActiveAdmins

(* The administrators are read off the table. *)
LEMMA SameTableSameAdmins ==
    ASSUME users' = users
    PROVE  ActiveAdmins(users') = ActiveAdmins(users)
OBVIOUS

(* A write that is no seed leaves its slot done or clearing sessions. *)
LEMMA WriteSlot ==
    ASSUME TypeOK, NEW r \in Requests, Write(r)
    PROVE  \/ requests'[r].pc \in {"idle", "clear"}
           \/ SeedBootstrapAdmin(r)
           \/ SeedDemoStudent(r)
<1>1. requests \in Slots
  BY TypeHalves
<1>2. ASSUME Finish(r) PROVE requests'[r].pc = "idle"
  BY <1>1, <1>2, FinishSlots DEF IdleSlot
<1>3. ASSUME NEW row, NEW pc \in {"idle", "clear"}, UpdateRow(r, row, pc)
      PROVE  requests'[r].pc \in {"idle", "clear"}
  <2>1. pc \in Pcs
    BY DEF Pcs
  <2> QED
    BY <1>1, <1>2, <1>3, <2>1, GoToSlots DEF UpdateRow
<1>4. CASE \/ UpdateUserRoles(r) \/ Activate(r) \/ Deactivate(r)
           \/ SoftDeleteUser(r) \/ RestoreUser(r)
  BY <1>3, <1>4
  DEF UpdateUserRoles, Activate, Deactivate, SoftDeleteUser, RestoreUser
<1>5. CASE \/ CreateUser(r) \/ DeleteNonSystemUserById(r)
           \/ DeleteNonSystemUsers(r)
  BY <1>2, <1>5 DEF CreateUser, DeleteNonSystemUserById, DeleteNonSystemUsers
<1> QED
  BY <1>4, <1>5 DEF Write

(* A seed never counts and never clears sessions. *)
SeedShape ==
    \A r \in Requests :
        requests[r].op = "seed" => requests[r].pc \in {"find", "write"}

(* Seeds are never counted or cleared for. *)
LEMMA StepSeedShape ==
    ASSUME TypeOK, SeedShape, NEW r \in Requests, Step(r)
    PROVE  SeedShape'
<1>1. requests \in Slots /\ OthersKept(r)
  BY TypeHalves, StepSlots
<1>2. CASE requests'[r] = IdleSlot
  BY <1>1, <1>2 DEF OthersKept, SeedShape, IdleSlot
<1>3. CASE Find(r)
  <2>1. PICK op \in AllOps, a \in Users, u \in Users, pc \in Pcs :
           Start(r, op, a, u, pc) /\ FoundSafe(op, a, u, pc)
    BY <1>3, FindFacts
  <2>2. requests'[r] = [pc |-> pc, op |-> op, actor |-> a, target |-> u,
                        stale |-> FALSE]
    BY <1>1, <2>1, StartSlots
  <2> QED
    BY <1>1, <2>1, <2>2 DEF OthersKept, SeedShape, FoundSafe
<1>4. CASE SameRequest(r) /\ requests[r].op # "seed"
  BY <1>1, <1>4 DEF OthersKept, SeedShape, SameRequest
<1>5. CASE SameRequest(r) /\ requests[r].op = "seed"
  <2>1. At(r, "seed", "find") \/ At(r, "seed", "write")
    BY <1>5 DEF SeedShape, At
  <2>2. \/ SeedBootstrapAdmin(r) \/ SeedDemoStudent(r)
        \/ Find(r) \/ requests'[r] = IdleSlot
    BY <1>1, <2>1, FinishSlots
    DEF Step, Write, At, FindAgainForResetUser, CountActiveAdmins,
        ClearAuthSessionsForUser, ClearBeforeReset, SeedDone, Abandon,
        CreateUser, UpdateUserRoles, Activate, Deactivate, SoftDeleteUser,
        RestoreUser, DeleteNonSystemUserById, DeleteNonSystemUsers
  <2>3. "write" \in Pcs
    BY DEF Pcs
  <2>4. CASE SeedBootstrapAdmin(r) \/ SeedDemoStudent(r)
    <3>1. requests'[r].pc = "write"
      BY <1>1, <2>3, <2>4, GoToSlots, GoToFreshSlots
      DEF SeedBootstrapAdmin, SeedDemoStudent
    <3> QED
      BY <1>1, <3>1 DEF OthersKept, SeedShape
  <2> QED
    BY <1>2, <1>3, <2>2, <2>4
<1> QED
  BY <1>2, <1>3, <1>4, <1>5, StepSlots

(* Every step keeps what fresh requests know about the administrators. *)
LEMMA StepFresh ==
    ASSUME TypeOK, SystemInv, SeedShape, FreshInv, NEW r \in Requests, Step(r)
    PROVE  FreshInv'
<1> DEFINE t == requests[r].target
<1>1. /\ requests \in Slots /\ OthersKept(r)
      /\ ActiveAdmins(users) \subseteq Users
      /\ Root \in Users /\ t \in Users
  BY TypeHalves, StepSlots, ConstantsAssumption DEF ActiveAdmins, Slots, Request
<1>2. ASSUME NEW s \in Requests \ {r}
      PROVE  FreshSlot(s)'
  <2>1. FreshSlot(s)
    BY DEF FreshInv
  <2>2. CASE requests[s].pc = "idle"
    BY <1>1, <2>2 DEF OthersKept, FreshSlot, At
  <2>3. CASE ActiveAdmins(users') = ActiveAdmins(users)
    BY <1>1, <2>1, <2>3 DEF OthersKept, FreshSlot, At
  <2> QED
    BY <1>1, <2>2, <2>3 DEF OthersKept, FreshSlot
<1>3. FreshSlot(r)'
  <2>1. CASE requests'[r].pc \notin {"preclear", "write"}
    BY <2>1 DEF FreshSlot, At
  <2>2. CASE Find(r)
    <3>1. PICK op \in AllOps, a \in Users, u \in Users, pc \in Pcs :
             Start(r, op, a, u, pc) /\ FoundSafe(op, a, u, pc)
      BY <2>2, FindFacts
    <3>2. /\ requests'[r] = [pc |-> pc, op |-> op, actor |-> a, target |-> u,
                             stale |-> FALSE]
          /\ users' = users
      BY <1>1, <3>1, StartSlots
    <3> QED
      BY <3>1, <3>2 DEF FreshSlot, At, FoundSafe, CheckedOps
  <2>3. CASE FindAgainForResetUser(r)
    <3>1. PICK pc \in {"count", "preclear"} :
             /\ GoToFresh(r, pc)
             /\ pc = "preclear" => t \notin ActiveAdmins(users)
      BY <2>3 DEF FindAgainForResetUser
    <3>2. pc \in Pcs
      BY DEF Pcs
    <3>3. requests'[r].pc = pc /\ SameRequest(r) /\ users' = users
      BY <1>1, <2>3, <3>1, <3>2, GoToFreshSlots DEF FindAgainForResetUser, Read
    <3> QED
      BY <3>1, <3>3 DEF FreshSlot, At, SameRequest
  <2>4. CASE CountActiveAdmins(r)
    <3>1. CASE Cardinality(ActiveAdmins(users)) <= 1
      BY <1>1, <2>1, <2>4, <3>1, FinishSlots DEF CountActiveAdmins, IdleSlot
    <3>2. CASE ~(Cardinality(ActiveAdmins(users)) <= 1)
      <4>1. ActiveAdmins(users) \ {t} # {}
        BY <1>1, <3>2, CountedTwo
      <4>2. PICK pc \in {"preclear", "write"} : GoToFresh(r, pc)
        BY <2>4, <3>2 DEF CountActiveAdmins
      <4>3. pc \in Pcs
        BY DEF Pcs
      <4>4. SameRequest(r) /\ users' = users
        BY <1>1, <2>4, <4>2, <4>3, GoToFreshSlots DEF CountActiveAdmins, Read
      <4>5. requests[r].op # "seed"
        BY <2>4 DEF CountActiveAdmins, SeedShape
      <4> QED
        BY <4>1, <4>4, <4>5 DEF FreshSlot, At, SameRequest
    <3> QED
      BY <3>1, <3>2
  <2>5. CASE ClearBeforeReset(r)
    <3>1. "write" \in Pcs
      BY DEF Pcs
    <3>2. /\ SameRequest(r) /\ users' = users
          /\ requests'[r].stale <=> requests[r].stale
      BY <1>1, <2>5, <3>1, GoToSlots DEF ClearBeforeReset
    <3> QED
      BY <2>5, <3>2
      DEF ClearBeforeReset, SeedShape, FreshInv, FreshSlot, At, SameRequest
  <2>6. CASE SeedBootstrapAdmin(r)
    <3>1. "write" \in Pcs
      BY DEF Pcs
    <3>2. SameRequest(r) /\ requests[r].op = "seed"
      BY <1>1, <2>6, <3>1, GoToFreshSlots DEF SeedBootstrapAdmin, At
    <3>3. BootstrapConfigured => Root \in ActiveAdmins(users')
      BY <1>1, <2>6, UpsertRow DEF SeedBootstrapAdmin, ActiveAdmins, SystemInv
    <3> QED
      BY <3>2, <3>3 DEF FreshSlot, At, SameRequest, CheckedOps
  <2>7. CASE SeedDemoStudent(r)
    <3>1. "write" \in Pcs
      BY DEF Pcs
    <3>2. /\ SameRequest(r) /\ At(r, "seed", "write")
          /\ requests'[r].stale <=> requests[r].stale
      BY <1>1, <2>7, <3>1, GoToSlots DEF SeedDemoStudent, At
    <3>3. PICK d \in Demo : Upsert(d, FALSE, FALSE)
      BY <2>7 DEF SeedDemoStudent
    <3>4. d \in Users /\ d # Root
      BY ConstantsAssumption
    <3>5. Root \in ActiveAdmins(users) => Root \in ActiveAdmins(users')
      BY <3>3, <3>4, UpsertRow, OthersStay
    <3> QED
      BY <3>2, <3>5 DEF FreshInv, FreshSlot, At, SameRequest, CheckedOps
  <2>8. CASE ClearAuthSessionsForUser(r) \/ SeedDone(r) \/ Abandon(r)
    BY <1>1, <2>1, <2>8, FinishSlots
    DEF ClearAuthSessionsForUser, SeedDone, Abandon, IdleSlot
  <2> QED
    BY <2>1, <2>2, <2>3, <2>4, <2>5, <2>6, <2>7, <2>8, WriteSlot, OnlyWrites,
       FinishSlots
    DEF Step
<1> QED
  BY <1>2, <1>3 DEF FreshInv

(* The write of a request that is checked and not stale leaves an active   *)
(* administrator if there was one.                                         *)
LEMMA CheckedWriteKeepsAdmin ==
    ASSUME TypeOK, SystemInv, FreshInv, NEW r \in Requests,
           Write(r), ~Unchecked(r), ActiveAdmins(users) # {}
    PROVE  ActiveAdmins(users') # {}
<1> DEFINE t == requests[r].target
<1>1. t \in Users /\ Root \in Users /\ users \in [Users -> Row]
  BY ConstantsAssumption DEF TypeOK, Request
<1>2. ~requests[r].stale /\ FreshSlot(r)
  BY DEF Unchecked, FreshInv
<1>3. CASE users' = users
  BY <1>3, SameTableSameAdmins
<1>4. ASSUME OthersRows(t), requests[r].op \in CheckedOps, requests[r].pc = "write"
      PROVE  ActiveAdmins(users') # {}
  <2>1. PICK w \in ActiveAdmins(users) : w # t
    BY <1>2, <1>4 DEF FreshSlot
  <2> QED
    BY <1>1, <1>4, <2>1, OthersStay
<1>5. ASSUME OthersRows(t), t \in ActiveAdmins(users) => t \in ActiveAdmins(users')
      PROVE  ActiveAdmins(users') # {}
  <2>1. PICK w \in ActiveAdmins(users) : TRUE
    OBVIOUS
  <2> QED
    BY <1>1, <1>5, <2>1, OthersStay
<1>6. CASE CreateUser(r) /\ users' # users
  <2>1. OthersRows(t) /\ t \notin ActiveAdmins(users)
    BY <1>1, <1>6 DEF CreateUser, OthersRows, Target, ActiveAdmins
  <2> QED
    BY <1>5, <2>1
<1>7. CASE UpdateUserRoles(r) /\ users' # users
  <2>1. OthersRows(t)
    BY <1>7, WriteOneRow
  <2>2. CASE requests[r].op = "grantAdmin"
    <3>1. t \in ActiveAdmins(users) => t \in ActiveAdmins(users')
      BY <1>7, <2>2, WriteOneRow DEF ActiveAdmins
    <3> QED
      BY <1>5, <2>1, <3>1
  <2>3. CASE requests[r].op = "revokeAdmin"
    BY <1>4, <1>7, <2>1, <2>3 DEF UpdateUserRoles, CheckedOps
  <2> QED
    BY <1>7, <2>2, <2>3 DEF UpdateUserRoles
<1>8. CASE (Activate(r) \/ RestoreUser(r)) /\ users' # users
  <2>1. OthersRows(t)
    BY <1>8, WriteOneRow
  <2>2. t \in ActiveAdmins(users) => t \in ActiveAdmins(users')
    BY <1>8, WriteOneRow DEF ActiveAdmins
  <2> QED
    BY <1>5, <2>1, <2>2
<1>9. CASE Deactivate(r) \/ SoftDeleteUser(r)
  <2>1. OthersRows(t)
    BY <1>9, WriteOneRow
  <2> QED
    BY <1>4, <1>9, <2>1 DEF Deactivate, SoftDeleteUser, At, CheckedOps
<1>10. CASE DeleteNonSystemUserById(r)
  <2>1. OthersRows(t)
    BY <1>10 DEF DeleteNonSystemUserById, DeleteRows, OthersRows
  <2> QED
    BY <1>4, <1>10, <2>1 DEF DeleteNonSystemUserById, At, CheckedOps
<1>11. CASE DeleteNonSystemUsers(r)
  BY <1>11 DEF DeleteNonSystemUsers, At, Unchecked
<1>12. CASE SeedBootstrapAdmin(r)
  <2>1. BootstrapConfigured => Root \in ActiveAdmins(users')
    BY <1>1, <1>12, UpsertRow DEF SeedBootstrapAdmin, ActiveAdmins, SystemInv
  <2> QED
    BY <1>3, <1>12, <2>1 DEF SeedBootstrapAdmin
<1>13. CASE SeedDemoStudent(r)
  <2>1. At(r, "seed", "write") /\ Root \in ActiveAdmins(users)
    BY <1>2, <1>13 DEF SeedDemoStudent, At, Unchecked, FreshSlot
  <2>2. PICK d \in Demo : Upsert(d, FALSE, FALSE)
    BY <1>13 DEF SeedDemoStudent
  <2>3. d \in Users /\ d # Root
    BY ConstantsAssumption
  <2>4. Root \in ActiveAdmins(users')
    BY <2>1, <2>2, <2>3, UpsertRow, OthersStay
  <2> QED
    BY <2>4
<1> QED
  BY <1>3, <1>6, <1>7, <1>8, <1>9, <1>10, <1>11, <1>12, <1>13 DEF Write

(* The three invariants the theorems below rest on. *)
AdminInv == SystemInv /\ SeedShape /\ FreshInv

(* The three invariants hold in every reachable state: system accounts are *)
(* kept, and a request that is not stale knows of another administrator.   *)
THEOREM AdminInvariant == Spec => []AdminInv
<1>1. Init => AdminInv
  BY ConstantsAssumption
  DEF Init, AdminInv, SystemInv, SeedShape, FreshInv, FreshSlot, CheckedOps, At,
      NewRow, NoRow, IdleSlot, Present
<1>2. TypeOK /\ AdminInv /\ [Next]_vars => AdminInv'
  <2> SUFFICES ASSUME TypeOK, AdminInv, [Next]_vars PROVE AdminInv'
    OBVIOUS
  <2>1. CASE UNCHANGED users /\ UNCHANGED requests
    BY <2>1
    DEF AdminInv, SystemInv, SeedShape, FreshInv, FreshSlot, At, Present, ActiveAdmins
  <2>2. ASSUME NEW r \in Requests, Step(r) PROVE AdminInv'
    BY <2>2, StepSystem, StepSeedShape, StepFresh DEF AdminInv
  <2> QED
    BY <2>1, <2>2 DEF Next, vars, SaveSession
<1> QED
  BY <1>1, <1>2, TypeCorrect, PTL DEF Spec

(* No request, in any interleaving, takes a system account away: the       *)
(* refusals of isSystem targets and the where clauses of the resets.       *)
THEOREM SystemUsersAlwaysProtected == Spec => []SystemUsersProtected
<1>1. AdminInv => SystemUsersProtected
  BY ConstantsAssumption DEF AdminInv, SystemInv, SystemUsersProtected
<1> QED
  BY <1>1, AdminInvariant, PTL

(* With any number of requests in flight, only an outdated reading, a      *)
(* global reset or a seed without a bootstrap administrator can take the   *)
(* last active administrator: the counts in the use cases are sufficient   *)
(* whenever the count is still true when the write happens.                *)
THEOREM LastAdminLostOnlyByUnchecked == Spec => LastAdminLostOnlyUnchecked
<1>1. TypeOK /\ AdminInv /\ [Next]_vars =>
        [(ActiveAdmins(users) # {} /\ ActiveAdmins(users') = {})
            => \E r \in Requests : Write(r) /\ Unchecked(r)]_vars
  <2> SUFFICES ASSUME TypeOK, AdminInv, Next,
                      ActiveAdmins(users) # {}, ActiveAdmins(users') = {}
               PROVE  \E r \in Requests : Write(r) /\ Unchecked(r)
    OBVIOUS
  <2>1. users' # users
    BY SameTableSameAdmins
  <2>2. PICK r \in Requests : Step(r)
    BY <2>1 DEF Next, SaveSession
  <2>3. Write(r)
    BY <2>1, <2>2, OnlyWrites
  <2>4. Unchecked(r)
    BY <2>3, CheckedWriteKeepsAdmin DEF AdminInv
  <2> QED
    BY <2>3, <2>4
<1> QED
  BY <1>1, TypeCorrect, AdminInvariant, PTL DEF Spec, LastAdminLostOnlyUnchecked

(* Served one at a time, and without global resets, the requests never     *)
(* take the last active administrator: the use cases' counts are enough    *)
(* for the rule of GLOSSARY.md as long as nothing runs between count and   *)
(* write.                                                                  *)
THEOREM LastActiveAdminWhenSerial ==
    ASSUME \A r, s \in Requests : r = s,
           "resetAll" \notin Ops,
           BootstrapConfigured
    PROVE  Spec => []LastActiveAdmin
<1> DEFINE Served == \A r \in Requests :
                        ~requests[r].stale /\ requests[r].op # "resetAll"
<1>1. Init => Served /\ LastActiveAdmin
  BY ConstantsAssumption
  DEF Init, IdleSlot, LastActiveAdmin, ActiveAdmins, NewRow
<1>2. TypeOK /\ Served /\ [Next]_vars => Served'
  <2> SUFFICES ASSUME TypeOK, Served, [Next]_vars PROVE Served'
    OBVIOUS
  <2>1. CASE UNCHANGED requests
    BY <2>1
  <2>2. ASSUME NEW r \in Requests, Step(r) PROVE Served'
    <3>1. ~requests'[r].stale
      BY <2>2, StepFlag
    <3>2. requests'[r].op # "resetAll"
      <4>1. CASE Find(r)
        <5>1. PICK op \in AllOps, a \in Users, u \in Users, pc \in Pcs :
                 Start(r, op, a, u, pc)
          BY <4>1, FindFacts
        <5>2. /\ requests'[r] = [pc |-> pc, op |-> op, actor |-> a,
                                 target |-> u, stale |-> FALSE]
              /\ op \in Ops
          BY <5>1, StartSlots, TypeHalves
        <5> QED
          BY <5>2
      <4> QED
        BY <2>2, <4>1, StepSlots DEF SameRequest, IdleSlot
    <3> QED
      BY <3>1, <3>2
  <2> QED
    BY <2>1, <2>2 DEF Next, vars, SaveSession
<1>3. /\ Served /\ LastActiveAdmin
      /\ [(ActiveAdmins(users) # {} /\ ActiveAdmins(users') = {})
            => \E r \in Requests : Write(r) /\ Unchecked(r)]_vars
      => LastActiveAdmin'
  BY DEF Unchecked, LastActiveAdmin, ActiveAdmins, vars
<1> HIDE DEF Served
<1> QED
  BY <1>1, <1>2, <1>3, TypeCorrect, LastAdminLostOnlyByUnchecked, PTL
  DEF Spec, LastAdminLostOnlyUnchecked

-----------------------------------------------------------------------------
(* Requests about one's own account.                                       *)

(* What the refusals leave of requests whose actor is their target.        *)
SelfSlot(r) ==
    LET q == requests[r] IN
    /\ q.op \in {"deactivate", "delete", "resetUser"} => q.actor # q.target
    /\ q.op = "resetAll" => q.actor = Root
    /\ q.op = "revokeAdmin" => q.pc \in {"count", "write", "clear"}
    /\ At(r, "revokeAdmin", "count") => q.actor # q.target
    /\ At(r, "revokeAdmin", "write") /\ ~q.stale /\ q.actor = q.target
          => q.target \notin ActiveAdmins(users)

SelfInv == \A r \in Requests : SelfSlot(r)

(* Every step keeps what the refusals established. *)
LEMMA StepSelf ==
    ASSUME TypeOK, SystemInv, SelfInv, NEW r \in Requests, Step(r)
    PROVE  SelfInv'
<1>1. requests \in Slots /\ OthersKept(r)
  BY TypeHalves, StepSlots
<1>2. \A s \in Requests \ {r} : SelfSlot(s)'
  BY <1>1 DEF OthersKept, SelfInv, SelfSlot, At
<1>3. SelfSlot(r)'
  <2>1. CASE requests'[r] = IdleSlot
    BY <2>1 DEF SelfSlot, At, IdleSlot
  <2>2. CASE Find(r)
    <3>1. PICK op \in AllOps, a \in Users, u \in Users, pc \in Pcs :
             Start(r, op, a, u, pc) /\ FoundSafe(op, a, u, pc)
      BY <2>2, FindFacts
    <3>2. /\ requests'[r] = [pc |-> pc, op |-> op, actor |-> a, target |-> u,
                             stale |-> FALSE]
          /\ users' = users
      BY <1>1, <3>1, StartSlots
    <3>3. op = "resetAll" => a = Root
      BY <3>1 DEF FoundSafe, SystemInv
    <3> QED
      BY <3>1, <3>2, <3>3 DEF SelfSlot, At, FoundSafe
  <2>3. CASE SameRequest(r) /\ requests[r].op # "revokeAdmin"
    BY <2>3 DEF SelfInv, SelfSlot, SameRequest, At
  <2>4. CASE SameRequest(r) /\ requests[r].op = "revokeAdmin" /\ ~Find(r)
    <3>1. SelfSlot(r) /\ "write" \in Pcs /\ "clear" \in Pcs
      BY DEF SelfInv, Pcs
    <3>2. ~Finish(r)
      BY <1>1, <2>4, FinishSlots DEF SameRequest, IdleSlot
    <3>3. CASE CountActiveAdmins(r)
      <4>1. GoToFresh(r, "write") /\ requests[r].actor # requests[r].target
        BY <2>4, <3>1, <3>2, <3>3 DEF CountActiveAdmins, SelfSlot, At
      <4>2. requests'[r].pc = "write"
        BY <1>1, <3>1, <4>1, GoToFreshSlots
      <4> QED
        BY <2>4, <4>1, <4>2 DEF SelfSlot, SameRequest, At
    <3>4. CASE UpdateUserRoles(r)
      <4>1. GoTo(r, "clear")
        BY <3>2, <3>4 DEF UpdateUserRoles, UpdateRow
      <4>2. requests'[r].pc = "clear"
        BY <1>1, <3>1, <4>1, GoToSlots
      <4> QED
        BY <2>4, <4>2 DEF SelfSlot, SameRequest, At
    <3>5. CountActiveAdmins(r) \/ UpdateUserRoles(r)
      BY <2>4, <3>1, <3>2
      DEF Step, Write, At, SelfSlot, FindAgainForResetUser,
          ClearAuthSessionsForUser, ClearBeforeReset, SeedDone, Abandon,
          CreateUser, Activate, Deactivate, SoftDeleteUser, RestoreUser,
          DeleteNonSystemUserById, DeleteNonSystemUsers, SeedBootstrapAdmin,
          SeedDemoStudent
    <3> QED
      BY <3>3, <3>4, <3>5
  <2> QED
    BY <2>1, <2>2, <2>3, <2>4, StepSlots
<1> QED
  BY <1>2, <1>3 DEF SelfInv

(* A write that is not stale leaves its actor an active administrator. *)
LEMMA ActorStays ==
    ASSUME TypeOK, SystemInv, SelfInv, NEW r \in Requests, Write(r),
           ~requests[r].stale, requests[r].op # "seed",
           requests[r].actor \in ActiveAdmins(users)
    PROVE  requests[r].actor \in ActiveAdmins(users')
<1> DEFINE t == requests[r].target
           a == requests[r].actor
<1>1. t \in Users /\ a \in Users /\ SelfSlot(r)
  BY DEF TypeOK, Request, SelfInv
<1>2. CASE users' = users
  BY <1>2, SameTableSameAdmins
<1>3. CASE OthersRows(t) /\ a # t
  <2>1. users'[a] = users[a]
    BY <1>1, <1>3 DEF OthersRows
  <2> QED
    BY <1>1, <2>1 DEF ActiveAdmins
<1>4. CASE CreateUser(r) /\ users' # users
  <2>1. OthersRows(t) /\ t \notin ActiveAdmins(users)
    BY <1>1, <1>4 DEF CreateUser, OthersRows, Target, ActiveAdmins, TypeOK
  <2> QED
    BY <1>3, <2>1
<1>5. CASE UpdateUserRoles(r) /\ users' # users
  <2>1. OthersRows(t)
    BY <1>5, WriteOneRow
  <2>2. CASE requests[r].op = "grantAdmin"
    <3>1. t \in ActiveAdmins(users) => t \in ActiveAdmins(users')
      BY <1>5, <2>2, WriteOneRow DEF ActiveAdmins
    <3> QED
      BY <1>3, <2>1, <3>1
  <2>3. CASE requests[r].op = "revokeAdmin"
    BY <1>1, <1>3, <1>5, <2>1, <2>3 DEF UpdateUserRoles, SelfSlot, At
  <2> QED
    BY <1>5, <2>2, <2>3 DEF UpdateUserRoles
<1>6. CASE (Activate(r) \/ RestoreUser(r)) /\ users' # users
  <2>1. OthersRows(t)
    BY <1>6, WriteOneRow
  <2>2. t \in ActiveAdmins(users) => t \in ActiveAdmins(users')
    BY <1>6, WriteOneRow DEF ActiveAdmins
  <2> QED
    BY <1>3, <2>1, <2>2
<1>7. CASE Deactivate(r) \/ SoftDeleteUser(r)
  <2>1. OthersRows(t)
    BY <1>7, WriteOneRow
  <2> QED
    BY <1>1, <1>3, <1>7, <2>1 DEF Deactivate, SoftDeleteUser, At, SelfSlot
<1>8. CASE DeleteNonSystemUserById(r)
  <2>1. OthersRows(t)
    BY <1>8 DEF DeleteNonSystemUserById, DeleteRows, OthersRows
  <2> QED
    BY <1>1, <1>3, <1>8, <2>1 DEF DeleteNonSystemUserById, At, SelfSlot
<1>9. CASE DeleteNonSystemUsers(r)
  <2>1. a = Root /\ users[a].system
    BY <1>1, <1>9 DEF DeleteNonSystemUsers, At, SelfSlot, SystemInv
  <2>2. users'[a] = users[a]
    BY <1>1, <1>9, <2>1 DEF DeleteNonSystemUsers, DeleteRows, NonSystemUsers
  <2> QED
    BY <2>2 DEF ActiveAdmins
<1> QED
  BY <1>2, <1>4, <1>5, <1>6, <1>7, <1>8, <1>9
  DEF Write, SeedBootstrapAdmin, SeedDemoStudent, At

(* With any number of requests in flight, no request that has not been     *)
(* overtaken ends its own actor's being an active administrator.           *)
THEOREM NoSelfRemovalHolds == Spec => NoSelfRemoval
<1>1. Init => SelfInv
  BY DEF Init, SelfInv, SelfSlot, At, IdleSlot
<1>2. TypeOK /\ AdminInv /\ SelfInv /\ [Next]_vars => SelfInv'
  <2> SUFFICES ASSUME TypeOK, AdminInv, SelfInv, [Next]_vars PROVE SelfInv'
    OBVIOUS
  <2>1. CASE UNCHANGED users /\ UNCHANGED requests
    BY <2>1 DEF SelfInv, SelfSlot, At, ActiveAdmins
  <2>2. ASSUME NEW r \in Requests, Step(r) PROVE SelfInv'
    BY <2>2, StepSelf DEF AdminInv
  <2> QED
    BY <2>1, <2>2 DEF Next, vars, SaveSession
<1>3. TypeOK /\ AdminInv /\ SelfInv /\ [Next]_vars =>
        [\A r \in Requests :
          /\ Write(r)
          /\ requests[r].actor \in ActiveAdmins(users) \ ActiveAdmins(users')
          => requests[r].stale \/ requests[r].op = "seed"]_vars
  BY ActorStays DEF AdminInv
<1> QED
  BY <1>1, <1>2, <1>3, TypeCorrect, AdminInvariant, PTL DEF Spec, NoSelfRemoval

=============================================================================
