----------------------------- MODULE AdminUsers -----------------------------
(***************************************************************************)
(* Administration of user accounts (contexts/iam): the use cases behind    *)
(* /admin/users, the iam part of /admin/data-resets and the demo seed,     *)
(* over the rows of the User table.                                        *)
(*                                                                         *)
(* Node runs one request at a time between two awaits and Prisma runs each *)
(* awaited call as a transaction of its own; no use case opens a           *)
(* transaction around its calls.  A request is therefore a little process  *)
(* whose steps are its awaited database calls, and the steps of different  *)
(* requests interleave.  A request that is refused changes nothing: where  *)
(* the refusal follows directly from the first read it is a stutter, and   *)
(* the conjuncts of the Find actions say which requests get past it.       *)
(***************************************************************************)
EXTENDS Naturals, FiniteSets

CONSTANTS
    Users,      \* ids of User rows, those that will ever be inserted included
    Root,       \* the row of the configured bootstrap administrator
    Demo,       \* ids of rows with one of the student<n>@mail.com addresses
    Operators,  \* users holding an access token with the admin permissions
    Requests,   \* slots for requests in flight
    Ops,        \* the operations requested
    BootstrapConfigured  \* is auth.bootstrapAdmin set in the configuration?

AllOps == {"create", "grantAdmin", "revokeAdmin", "activate", "deactivate",
           "delete", "restore", "resetUser", "resetAll", "seed"}

ASSUME ConstantsAssumption ==
    /\ IsFiniteSet(Users)
    /\ Root \in Users
    /\ Demo \subseteq Users \ {Root}
    /\ Operators \subseteq Users
    /\ Ops \subseteq AllOps
    /\ BootstrapConfigured \in BOOLEAN

VARIABLES
    users,     \* the User table, with the admin role as a flag of the row
    sessions,  \* owners of a row of the AuthSession table
    requests   \* what each slot is doing

vars == <<users, sessions, requests>>

-----------------------------------------------------------------------------
(* Rows and requests.                                                      *)

Row == [state : {"unborn", "present", "gone"}, active : BOOLEAN,
        deleted : BOOLEAN, admin : BOOLEAN, system : BOOLEAN]

Pcs == {"idle", "find", "count", "preclear", "write", "clear"}

(* stale is a history variable: the set of active administrators has been  *)
(* changed by another request since this one last read what it acts on.    *)
Request == [pc : Pcs, op : AllOps \cup {"none"}, actor : Users,
            target : Users, stale : BOOLEAN]

NoRow(state) == [state |-> state, active |-> FALSE, deleted |-> FALSE,
                 admin |-> FALSE, system |-> FALSE]

(* What an insert leaves in the columns that have defaults. *)
NewRow(isAdmin, isSystem) ==
    [state |-> "present", active |-> TRUE, deleted |-> FALSE,
     admin |-> isAdmin, system |-> isSystem]

IdleSlot == [pc |-> "idle", op |-> "none", actor |-> Root, target |-> Root,
             stale |-> FALSE]

Present(u) == users[u].state = "present"

(* The where clause of countActiveAdmins, on a given table. *)
ActiveAdmins(table) ==
    {u \in Users : /\ table[u].state = "present"
                   /\ table[u].active
                   /\ ~table[u].deleted
                   /\ table[u].admin}

TypeOK ==
    /\ users \in [Users -> Row]
    /\ sessions \in SUBSET {u \in Users : Present(u)}
    /\ requests \in [Requests -> Request]

(* The database after the first bootstrap: only the system administrator. *)
Init ==
    /\ users = [u \in Users |-> IF u = Root THEN NewRow(TRUE, TRUE)
                                            ELSE NoRow("unborn")]
    /\ sessions = {}
    /\ requests = [r \in Requests |-> IdleSlot]

-----------------------------------------------------------------------------
(* Steps of a request.                                                     *)

(* Slot r continues as req; requests in flight go stale when this step     *)
(* changes who the active administrators are.                              *)
Continue(r, req) ==
    requests' = [s \in Requests |->
        IF s = r THEN req
        ELSE [requests[s] EXCEPT
                !.stale = \/ @
                          \/ /\ requests[s].pc # "idle"
                             /\ ActiveAdmins(users') # ActiveAdmins(users)]]

At(r, op, pc) == requests[r].op = op /\ requests[r].pc = pc

GoTo(r, pc) == Continue(r, [requests[r] EXCEPT !.pc = pc])

(* The request has read again what it acts on. *)
GoToFresh(r, pc) == Continue(r, [requests[r] EXCEPT !.pc = pc, !.stale = FALSE])

Finish(r) == Continue(r, IdleSlot)

Read == UNCHANGED <<users, sessions>>

(* A request arrives with a valid token and makes its first database call. *)
Start(r, op, a, u, pc) ==
    /\ requests[r].pc = "idle"
    /\ op \in Ops
    /\ a \in Operators
    /\ users[a].state # "unborn"
    /\ Read
    /\ Continue(r, [pc |-> pc, op |-> op, actor |-> a, target |-> u,
                    stale |-> FALSE])

(* The check for the last administrator is made when the row read is one. *)
CheckedPc(isLoss) == IF isLoss THEN "count" ELSE "write"

FindForCreate(r, a, u) ==
    /\ users[u].state = "unborn"
    /\ Start(r, "create", a, u, "write")

FindForGrantAdmin(r, a, u) ==
    /\ Present(u)
    /\ Start(r, "grantAdmin", a, u, "write")

FindForRevokeAdmin(r, a, u) ==
    /\ Present(u)
    /\ users[u].admin => a # u
    /\ Start(r, "revokeAdmin", a, u,
             CheckedPc(users[u].admin /\ users[u].active))

FindForActivate(r, a, u) ==
    /\ Present(u)
    /\ Start(r, "activate", a, u, "write")

(* Variant: the refusal to act on one's own account is left out. *)
FindForDeactivateUnrestricted(r, a, u) ==
    /\ Present(u)
    /\ ~users[u].system
    /\ Start(r, "deactivate", a, u,
             CheckedPc(users[u].active /\ users[u].admin))

FindForDeactivate(r, a, u) ==
    /\ Present(u)
    /\ ~users[u].system
    /\ a # u
    /\ Start(r, "deactivate", a, u,
             CheckedPc(users[u].active /\ users[u].admin))

(* Variants: system users are not refused; administrators are not counted. *)
FindForDeleteOfAnyone(r, a, u) ==
    /\ Present(u)
    /\ ~users[u].deleted
    /\ a # u
    /\ Start(r, "delete", a, u,
             CheckedPc(users[u].active /\ users[u].admin))

FindForDeleteUncounted(r, a, u) ==
    /\ Present(u)
    /\ ~users[u].deleted
    /\ ~users[u].system
    /\ a # u
    /\ Start(r, "delete", a, u, "write")

FindForDelete(r, a, u) ==
    /\ Present(u)
    /\ ~users[u].deleted
    /\ ~users[u].system
    /\ a # u
    /\ Start(r, "delete", a, u,
             CheckedPc(users[u].active /\ users[u].admin))

FindForRestore(r, a, u) ==
    /\ Present(u)
    /\ users[u].deleted
    /\ Start(r, "restore", a, u, "write")

FindForResetUser(r, a, u) ==
    /\ Present(u)
    /\ ~users[u].system
    /\ a # u
    /\ Start(r, "resetUser", a, u, "find")

(* checkAdminSafety reads the target a second time. *)
FindAgainForResetUser(r) ==
    /\ At(r, "resetUser", "find")
    /\ Read
    /\ GoToFresh(r, IF requests[r].target \in ActiveAdmins(users)
                      THEN "count" ELSE "preclear")

FindForResetAll(r, a) ==
    /\ Present(a)
    /\ users[a].system
    /\ Start(r, "resetAll", a, a, "preclear")

StartSeed(r, a) == Start(r, "seed", a, Root, "find")

(* Variant: one too few is taken for enough. *)
CountActiveAdminsOffByOne(r) ==
    /\ requests[r].pc = "count"
    /\ Read
    /\ IF Cardinality(ActiveAdmins(users)) < 1
         THEN Finish(r)
         ELSE GoToFresh(r, IF requests[r].op = "resetUser"
                             THEN "preclear" ELSE "write")

(* countActiveAdmins, and the refusal when there is only one left. *)
CountActiveAdmins(r) ==
    /\ requests[r].pc = "count"
    /\ Read
    /\ IF Cardinality(ActiveAdmins(users)) <= 1
         THEN Finish(r)
         ELSE GoToFresh(r, IF requests[r].op = "resetUser"
                             THEN "preclear" ELSE "write")

(* prisma.user.update by id; a row that is gone makes it "not found". *)
UpdateRow(r, row, pc) ==
    LET u == requests[r].target IN
    /\ UNCHANGED sessions
    /\ \/ /\ Present(u)
          /\ users' = [users EXCEPT ![u] = row]
          /\ IF pc = "idle" THEN Finish(r) ELSE GoTo(r, pc)
       \/ /\ ~Present(u)
          /\ UNCHANGED users
          /\ Finish(r)

Target(r) == users[requests[r].target]

UpdateUserRoles(r) ==
    /\ requests[r].pc = "write"
    /\ requests[r].op \in {"grantAdmin", "revokeAdmin"}
    /\ UpdateRow(r, [Target(r) EXCEPT !.admin = requests[r].op = "grantAdmin"],
                 "clear")

Activate(r) ==
    /\ At(r, "activate", "write")
    /\ UpdateRow(r, [Target(r) EXCEPT !.active = TRUE], "idle")

Deactivate(r) ==
    /\ At(r, "deactivate", "write")
    /\ UpdateRow(r, [Target(r) EXCEPT !.active = FALSE], "clear")

SoftDeleteUser(r) ==
    /\ At(r, "delete", "write")
    /\ UpdateRow(r, [Target(r) EXCEPT !.deleted = TRUE], "clear")

RestoreUser(r) ==
    /\ At(r, "restore", "write")
    /\ UpdateRow(r, [Target(r) EXCEPT !.deleted = FALSE], "clear")

(* The address is taken meanwhile: the unique index refuses the insert. *)
CreateUser(r) ==
    /\ At(r, "create", "write")
    /\ \/ /\ Target(r).state = "unborn"
          /\ \E isAdmin \in BOOLEAN :
                users' = [users EXCEPT
                            ![requests[r].target] = NewRow(isAdmin, FALSE)]
       \/ /\ Target(r).state # "unborn"
          /\ UNCHANGED users
    /\ UNCHANGED sessions
    /\ Finish(r)

ClearAuthSessionsForUser(r) ==
    /\ requests[r].pc = "clear"
    /\ sessions' = sessions \ {requests[r].target}
    /\ UNCHANGED users
    /\ Finish(r)

(* The IAM reset handler clears sessions first and then deletes the rows. *)
ClearBeforeReset(r) ==
    /\ requests[r].pc = "preclear"
    /\ sessions' = IF requests[r].op = "resetAll"
                     THEN {} ELSE sessions \ {requests[r].target}
    /\ UNCHANGED users
    /\ GoTo(r, "write")

(* Variant: no cascade. *)
DeleteRowsKeepingSessions(ids) ==
    /\ users' = [u \in Users |-> IF u \in ids THEN NoRow("gone") ELSE users[u]]
    /\ UNCHANGED sessions

(* Sessions go with their owner: the foreign key cascades. *)
DeleteRows(ids) ==
    /\ users' = [u \in Users |-> IF u \in ids THEN NoRow("gone") ELSE users[u]]
    /\ sessions' = sessions \ ids

NonSystemUsers == {u \in Users : Present(u) /\ ~users[u].system}

DeleteNonSystemUserById(r) ==
    /\ At(r, "resetUser", "write")
    /\ DeleteRows(NonSystemUsers \cap {requests[r].target})
    /\ Finish(r)

DeleteNonSystemUsers(r) ==
    /\ At(r, "resetAll", "write")
    /\ DeleteRows(NonSystemUsers)
    /\ Finish(r)

(* prisma.user.upsert of the seeds: deletedAt is not among the columns.    *)
Upsert(u, isAdmin, isSystem) ==
    users' = [users EXCEPT ![u] =
        IF Present(u)
          THEN [@ EXCEPT !.active = TRUE, !.admin = isAdmin,
                         !.system = isSystem]
          ELSE NewRow(isAdmin, isSystem)]

SeedBootstrapAdmin(r) ==
    /\ At(r, "seed", "find")
    /\ IF BootstrapConfigured THEN Upsert(Root, TRUE, TRUE)
                              ELSE UNCHANGED users
    /\ UNCHANGED sessions
    /\ GoToFresh(r, "write")

(* One of the demo students; an address whose row is gone gets a new id.   *)
SeedDemoStudent(r) ==
    /\ At(r, "seed", "write")
    /\ \E d \in Demo : /\ users[d].state # "gone"
                       /\ Upsert(d, FALSE, FALSE)
    /\ UNCHANGED sessions
    /\ GoTo(r, "write")

SeedDone(r) ==
    /\ At(r, "seed", "write")
    /\ Read
    /\ Finish(r)

(* A database error or the end of the process: what is committed stays.    *)
Abandon(r) ==
    /\ requests[r].pc # "idle"
    /\ Read
    /\ Finish(r)

(* Some sign-in or refresh saves a session (module AuthSessions).          *)
SaveSession(u) ==
    /\ Present(u)
    /\ sessions' = sessions \cup {u}
    /\ UNCHANGED <<users, requests>>

-----------------------------------------------------------------------------

Find(r) ==
    \E a \in Users :
        \/ FindForResetAll(r, a)
        \/ StartSeed(r, a)
        \/ \E u \in Users :
            \/ FindForCreate(r, a, u)
            \/ FindForGrantAdmin(r, a, u)
            \/ FindForRevokeAdmin(r, a, u)
            \/ FindForActivate(r, a, u)
            \/ FindForDeactivate(r, a, u)
            \/ FindForDelete(r, a, u)
            \/ FindForRestore(r, a, u)
            \/ FindForResetUser(r, a, u)

Write(r) ==
    \/ CreateUser(r)
    \/ UpdateUserRoles(r)
    \/ Activate(r)
    \/ Deactivate(r)
    \/ SoftDeleteUser(r)
    \/ RestoreUser(r)
    \/ DeleteNonSystemUserById(r)
    \/ DeleteNonSystemUsers(r)
    \/ SeedBootstrapAdmin(r)
    \/ SeedDemoStudent(r)

Step(r) ==
    \/ Find(r)
    \/ FindAgainForResetUser(r)
    \/ CountActiveAdmins(r)
    \/ Write(r)
    \/ ClearAuthSessionsForUser(r)
    \/ ClearBeforeReset(r)
    \/ SeedDone(r)
    \/ Abandon(r)

Next == (\E r \in Requests : Step(r)) \/ (\E u \in Users : SaveSession(u))

Spec == Init /\ [][Next]_vars

-----------------------------------------------------------------------------
(* Properties.                                                             *)

(* The bootstrap administrator and every other system account stays in the *)
(* table, active and not deleted, whatever is requested and however the    *)
(* steps interleave: the refusals for system users and the where clauses   *)
(* of the resets together.                                                 *)
SystemUsersProtected ==
    /\ users[Root].system
    /\ \A u \in Users :
          users[u].system => Present(u) /\ users[u].active /\ ~users[u].deleted

(* "The system always keeps at least one" active administrator             *)
(* (GLOSSARY.md): the refusals of the last active admin in the use cases.  *)
LastActiveAdmin == ActiveAdmins(users) # {}

(* What no check stands behind: a reading of the table that is out of      *)
(* date; the global reset, which looks only at whether its actor is a      *)
(* system user; the seed when it has no bootstrap administrator to put     *)
(* back before it resets the demo accounts.                                *)
Unchecked(r) ==
    \/ requests[r].stale
    \/ requests[r].op = "resetAll"
    \/ requests[r].op = "seed" /\ ~BootstrapConfigured

(* The last active administrator is lost only to a request that acts on an *)
(* outdated reading, to a global reset or to such a seed: no sequence of    *)
(* requests whose check and write are not interleaved can lose it.         *)
LastAdminLostOnlyUnchecked ==
    [][(ActiveAdmins(users) # {} /\ ActiveAdmins(users') = {})
          => \E r \in Requests : Write(r) /\ Unchecked(r)]_vars

(* Nobody's own request ends their being an active administrator, except   *)
(* from an outdated reading: the refusals to act on one's own account.     *)
(* The seed is not meant to spare its caller: it resets demo accounts.     *)
NoSelfRemoval ==
    [][\A r \in Requests :
          /\ Write(r)
          /\ requests[r].actor \in ActiveAdmins(users) \ ActiveAdmins(users')
          => requests[r].stale \/ requests[r].op = "seed"]_vars
=============================================================================
