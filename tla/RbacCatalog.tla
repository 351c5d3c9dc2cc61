----------------------------- MODULE RbacCatalog -----------------------------
(***************************************************************************)
(* The role and permission catalog: its tables, the requests that          *)
(* administrators run on it and on the roles of users, and the seed that a *)
(* deployment or an administrator runs beside them.  Every query is a step *)
(* of its own and every write one transaction, so what a request read may  *)
(* have changed when it writes.  Requests that are refused at their first  *)
(* read change nothing and are left out.                                   *)
(***************************************************************************)
EXTENDS Integers, FiniteSets

CONSTANTS
    RoleIds, PermissionIds,         \* pools of primary keys
    RoleNames, PermissionNames,     \* normalised names
    DefaultRoles,                   \* the names this release seeds ...
    DefaultPermissions,
    DefaultGrants,                  \* ... and what each of the roles is granted
    EarlierRoles,                   \* the part that an earlier release seeded,
    EarlierPermissions,             \*     which is in the database at the start
    Users,                          \* ids and addresses of possible users
    SeededUsers,                    \* the role each seeded user is given
    Slots,                          \* requests in flight at a time
    None

ASSUME NamesAssumption ==
    /\ EarlierRoles \subseteq DefaultRoles /\ DefaultRoles \subseteq RoleNames
    /\ EarlierPermissions \subseteq DefaultPermissions
    /\ DefaultPermissions \subseteq PermissionNames
    /\ DefaultGrants \in [DefaultRoles -> SUBSET DefaultPermissions]
ASSUME SeededUsersAssumption ==
    /\ DOMAIN SeededUsers \subseteq Users
    /\ \A u \in DOMAIN SeededUsers : SeededUsers[u] \in DefaultRoles
ASSUME KeysAssumption ==
    /\ RoleIds \cap PermissionIds = {} /\ RoleIds \cap Users = {}
    /\ PermissionIds \cap Users = {}
    /\ None \notin RoleIds \cup PermissionIds \cup Users \cup RoleNames \cup PermissionNames

VARIABLES
    roles,          \* the Role table, its RolePermission rows folded in
    permissions,    \* the Permission table
    users,          \* the UserRole rows of each user there is
    requests,       \* the requests in flight
    todo,           \* what a seed that runs still has to upsert
    completed,      \* history: a seed has run to its end
    overtaken       \* history: a request wrote to an entry adopted by the seed
                    \*     after the request had read it as an ordinary one

vars == <<roles, permissions, users, requests, todo, completed, overtaken>>

(* A missing row is a record that no row equals.                            *)
NoRole == [name |-> None, isSystem |-> FALSE, grants |-> {}]
NoPermission == [name |-> None, isSystem |-> FALSE]
RoleRows == [name : RoleNames, isSystem : BOOLEAN, grants : SUBSET PermissionIds]
PermissionRows == [name : PermissionNames, isSystem : BOOLEAN]
NoUser == {None}

RoleExists(r) == roles[r] # NoRole
PermissionExists(p) == permissions[p] # NoPermission
RolesNamed(N) == {r \in RoleIds : roles[r].name \in N}
PermissionsNamed(N) == {p \in PermissionIds : permissions[p].name \in N}
Holders(r) == {u \in Users : r \in users[u]}
Grantors(p) == {r \in RoleIds : p \in roles[r].grants}

RoleOps == {"createRole", "updateRole", "deleteRole"}
PermissionOps == {"createPermission", "updatePermission", "deletePermission"}
UserOps == {"createUser", "registerUser", "updateUserRoles"}

Idle == [op |-> "none", pc |-> "idle", id |-> None, name |-> None,
         names |-> {}, left |-> {}, adopted |-> FALSE, linked |-> FALSE]
Request(op, pc, id, name, names) ==
    [Idle EXCEPT !.op = op, !.pc = pc, !.id = id, !.name = name,
                 !.names = names, !.left = names]

(* The database an earlier release left behind.                             *)
Init ==
    /\ permissions \in [PermissionIds -> PermissionRows \cup {NoPermission}]
    /\ \A p, q \in PermissionIds :
          permissions[p] = permissions[q] /\ PermissionExists(p) => p = q
    /\ {permissions[p].name : p \in PermissionIds} \ {None} = EarlierPermissions
    /\ roles \in [RoleIds -> RoleRows \cup {NoRole}]
    /\ \A r, q \in RoleIds : roles[r].name = roles[q].name /\ RoleExists(r) => r = q
    /\ {roles[r].name : r \in RoleIds} \ {None} = EarlierRoles
    /\ \A p \in PermissionIds : PermissionExists(p) => permissions[p].isSystem
    /\ \A r \in RoleIds : RoleExists(r) =>
          /\ roles[r].isSystem
          /\ roles[r].grants =
                PermissionsNamed(DefaultGrants[roles[r].name] \cap EarlierPermissions)
    /\ users \in [Users -> {NoUser} \cup {{r} : r \in RolesNamed(RoleNames)}]
    /\ requests = [s \in Slots |-> Idle]
    /\ todo = {}
    /\ completed = FALSE
    /\ overtaken = FALSE

(* Bookkeeping for the properties: an entry that a deletion has counted as   *)
(* unused comes into use, and the seed makes an entry a system entry.       *)
Link(reqs, ids) ==
    [s \in Slots |-> IF reqs[s].pc = "write" /\ reqs[s].id \in ids
                     THEN [reqs[s] EXCEPT !.linked = TRUE] ELSE reqs[s]]
Adopt(reqs, ids) ==
    [s \in Slots |-> IF reqs[s].id \in ids
                     THEN [reqs[s] EXCEPT !.adopted = TRUE] ELSE reqs[s]]

Stay == UNCHANGED <<todo, completed>>
NoWrite == UNCHANGED <<roles, permissions, users, overtaken>> /\ Stay
At(s, op, pc) == requests[s].op = op /\ requests[s].pc = pc
Begin(s, request) ==
    /\ requests[s] = Idle
    /\ requests' = [requests EXCEPT ![s] = request]
    /\ NoWrite
GoTo(s, pc) ==
    /\ requests' = [requests EXCEPT ![s].pc = pc]
    /\ NoWrite
Ended(s) == [requests EXCEPT ![s] = Idle]
Refuse(s) == requests' = Ended(s) /\ NoWrite

(* Names are validated one query at a time; a request at "names" with none   *)
(* left has validated them all.                                             *)
Found(s, n) ==
    IF requests[s].op \in RoleOps THEN PermissionsNamed({n}) # {} ELSE RolesNamed({n}) # {}
ValidateName(s) ==
    /\ requests[s].pc = "names"
    /\ \E n \in requests[s].left :
          IF Found(s, n)
          THEN requests' = [requests EXCEPT ![s].left = @ \ {n}] /\ NoWrite
          ELSE Refuse(s)
Validated(s, op) == At(s, op, "names") /\ requests[s].left = {}
-----------------------------------------------------------------------------
(* Roles.                                                                   *)
BeginCreateRole(s) ==
    \E n \in RoleNames, N \in SUBSET PermissionNames :
        /\ RolesNamed({n}) = {}
        /\ Begin(s, Request("createRole", "names", None, n, N))

CreateRole(s) ==
    LET new == [name |-> requests[s].name, isSystem |-> FALSE,
                grants |-> PermissionsNamed(requests[s].names)]
    IN  /\ Validated(s, "createRole")
        /\ \/ /\ RolesNamed({requests[s].name}) = {}
              /\ Cardinality(new.grants) = Cardinality(requests[s].names)
              /\ \E r \in RoleIds :
                    /\ ~RoleExists(r)
                    /\ roles' = [roles EXCEPT ![r] = new]
              /\ requests' = Link(Ended(s), new.grants)
              /\ UNCHANGED <<permissions, users, overtaken>> /\ Stay
           \/ /\ \/ RolesNamed({requests[s].name}) # {}
                 \/ Cardinality(new.grants) # Cardinality(requests[s].names)
              /\ Refuse(s)

(* Without the refusal of system roles.                                     *)
BeginUpdateAnyRole(s) ==
    \E r \in RoleIds, n \in RoleNames, N \in SUBSET PermissionNames :
        /\ RoleExists(r)
        /\ Begin(s, Request("updateRole", "name", r, n, N))

BeginUpdateRole(s) ==
    \E r \in RoleIds, n \in RoleNames, N \in SUBSET PermissionNames :
        /\ RoleExists(r)
        /\ ~roles[r].isSystem
        /\ Begin(s, Request("updateRole", "name", r, n, N))

CheckRoleName(s) ==
    /\ At(s, "updateRole", "name")
    /\ IF RolesNamed({requests[s].name}) \subseteq {requests[s].id}
       THEN GoTo(s, "names") ELSE Refuse(s)

(* A failed update is caught and reported as a missing role.                *)
UpdateRole(s) ==
    LET r == requests[s].id
        granted == PermissionsNamed(requests[s].names)
        fits == /\ RoleExists(r)
                /\ RolesNamed({requests[s].name}) \subseteq {r}
                /\ Cardinality(granted) = Cardinality(requests[s].names)
    IN  /\ Validated(s, "updateRole")
        /\ IF fits
           THEN /\ roles' = [roles EXCEPT ![r].name = requests[s].name,
                                          ![r].grants = granted]
                /\ requests' = Link(Ended(s), granted)
                /\ overtaken' = (overtaken \/ requests[s].adopted)
                /\ UNCHANGED <<permissions, users>> /\ Stay
           ELSE Refuse(s)

BeginDeleteRole(s) ==
    \E r \in RoleIds :
        /\ RoleExists(r)
        /\ ~roles[r].isSystem
        /\ Begin(s, Request("deleteRole", "count", r, None, {}))

CountHolders(s) ==
    /\ At(s, "deleteRole", "count")
    /\ IF Holders(requests[s].id) = {} THEN GoTo(s, "write") ELSE Refuse(s)

(* The role without the rows that name it.                                  *)
DeleteRoleAlone(s) ==
    /\ At(s, "deleteRole", "write")
    /\ roles' = [roles EXCEPT ![requests[s].id] = NoRole]
    /\ requests' = Ended(s)
    /\ UNCHANGED <<permissions, users, overtaken>> /\ Stay

(* The rows of UserRole and RolePermission go with the role.                *)
DeleteRole(s) ==
    LET r == requests[s].id
    IN  /\ At(s, "deleteRole", "write")
        /\ IF RoleExists(r)
           THEN /\ roles' = [roles EXCEPT ![r] = NoRole]
                /\ users' = [u \in Users |-> users[u] \ {r}]
                /\ requests' = Ended(s)
                /\ overtaken' = (overtaken \/ requests[s].adopted)
                /\ UNCHANGED permissions /\ Stay
           ELSE Refuse(s)
-----------------------------------------------------------------------------
(* Permissions.                                                             *)
BeginCreatePermission(s) ==
    \E n \in PermissionNames :
        /\ PermissionsNamed({n}) = {}
        /\ Begin(s, Request("createPermission", "write", None, n, {}))

CreatePermission(s) ==
    LET new == [name |-> requests[s].name, isSystem |-> FALSE]
    IN  /\ At(s, "createPermission", "write")
        /\ \/ /\ PermissionsNamed({new.name}) = {}
              /\ \E p \in PermissionIds :
                    /\ ~PermissionExists(p)
                    /\ permissions' = [permissions EXCEPT ![p] = new]
              /\ requests' = Ended(s)
              /\ UNCHANGED <<roles, users, overtaken>> /\ Stay
           \/ PermissionsNamed({new.name}) # {} /\ Refuse(s)

(* Without the refusal of system permissions.                               *)
BeginUpdateAnyPermission(s) ==
    \E p \in PermissionIds, n \in PermissionNames :
        /\ PermissionExists(p)
        /\ Begin(s, Request("updatePermission", "name", p, n, {}))

BeginUpdatePermission(s) ==
    \E p \in PermissionIds, n \in PermissionNames :
        /\ PermissionExists(p)
        /\ ~permissions[p].isSystem
        /\ Begin(s, Request("updatePermission", "name", p, n, {}))

CheckPermissionName(s) ==
    /\ At(s, "updatePermission", "name")
    /\ IF PermissionsNamed({requests[s].name}) \subseteq {requests[s].id}
       THEN GoTo(s, "write") ELSE Refuse(s)

UpdatePermission(s) ==
    LET p == requests[s].id
    IN  /\ At(s, "updatePermission", "write")
        /\ IF PermissionExists(p) /\ PermissionsNamed({requests[s].name}) \subseteq {p}
           THEN /\ permissions' = [permissions EXCEPT ![p].name = requests[s].name]
                /\ requests' = Ended(s)
                /\ overtaken' = (overtaken \/ requests[s].adopted)
                /\ UNCHANGED <<roles, users>> /\ Stay
           ELSE Refuse(s)

BeginDeletePermission(s) ==
    \E p \in PermissionIds :
        /\ PermissionExists(p)
        /\ ~permissions[p].isSystem
        /\ Begin(s, Request("deletePermission", "count", p, None, {}))

(* Counting the default roles only.                                         *)
CountSystemGrantors(s) ==
    /\ At(s, "deletePermission", "count")
    /\ IF \A r \in Grantors(requests[s].id) : ~roles[r].isSystem
       THEN GoTo(s, "write") ELSE Refuse(s)

CountGrantors(s) ==
    /\ At(s, "deletePermission", "count")
    /\ IF Grantors(requests[s].id) = {} THEN GoTo(s, "write") ELSE Refuse(s)

DeletePermission(s) ==
    LET p == requests[s].id
    IN  /\ At(s, "deletePermission", "write")
        /\ IF PermissionExists(p)
           THEN /\ permissions' = [permissions EXCEPT ![p] = NoPermission]
                /\ roles' = [r \in RoleIds |-> [roles[r] EXCEPT !.grants = @ \ {p}]]
                /\ requests' = Ended(s)
                /\ overtaken' = (overtaken \/ requests[s].adopted)
                /\ UNCHANGED users /\ Stay
           ELSE Refuse(s)
-----------------------------------------------------------------------------
(* The roles of users.  An administrator names roles that must exist; the    *)
(* onboarding route creates those that do not, as ordinary roles.           *)
BeginUserRoles(s) ==
    \E u \in Users, N \in SUBSET RoleNames \ {{}} :
        \/ /\ users[u] = NoUser
           /\ Begin(s, Request("createUser", "names", u, None, N))
        \/ /\ users[u] = NoUser
           /\ Begin(s, Request("registerUser", "write", u, None, N))
        \/ /\ users[u] # NoUser
           /\ Begin(s, Request("updateUserRoles", "names", u, None, N))

AssignRoles(s) ==
    LET u == requests[s].id
        assigned == RolesNamed(requests[s].names)
        fits == /\ Cardinality(assigned) = Cardinality(requests[s].names)
                /\ (users[u] = NoUser) = (requests[s].op = "createUser")
    IN  /\ Validated(s, "createUser") \/ Validated(s, "updateUserRoles")
        /\ IF fits
           THEN /\ users' = [users EXCEPT ![u] = assigned]
                /\ requests' = Link(Ended(s), assigned)
                /\ UNCHANGED <<roles, permissions, overtaken>> /\ Stay
           ELSE Refuse(s)

(* Missing roles take free keys, one each, all in the one upsert.           *)
RegisterUser(s) ==
    LET u == requests[s].id
        missing == {n \in requests[s].names : RolesNamed({n}) = {}}
        free == {r \in RoleIds : ~RoleExists(r)}
    IN  /\ At(s, "registerUser", "write")
        /\ \/ /\ users[u] = NoUser
              /\ \E keys \in [missing -> free] :
                    LET table == [r \in RoleIds |->
                            IF \E n \in missing : keys[n] = r
                            THEN [NoRole EXCEPT !.name = CHOOSE n \in missing : keys[n] = r]
                            ELSE roles[r]]
                        assigned == {r \in RoleIds : table[r].name \in requests[s].names}
                    IN  /\ \A m, n \in missing : keys[m] = keys[n] => m = n
                        /\ roles' = table
                        /\ users' = [users EXCEPT ![u] = assigned]
                        /\ requests' = Link(Ended(s), assigned)
              /\ UNCHANGED <<permissions, overtaken>> /\ Stay
           \/ users[u] # NoUser /\ Refuse(s)

(* A data reset deletes the user's row and with it the UserRole rows.        *)
DeleteUser(u) ==
    /\ users[u] # NoUser
    /\ users' = [users EXCEPT ![u] = NoUser]
    /\ UNCHANGED <<roles, permissions, requests, overtaken>> /\ Stay

(* A request, or a seed, may fail or its process end between any two steps.  *)
Abandon(s) ==
    /\ requests[s] # Idle
    /\ requests' = Ended(s)
    /\ todo' = IF requests[s].op = "seed" THEN {} ELSE todo
    /\ UNCHANGED <<roles, permissions, users, completed, overtaken>>
-----------------------------------------------------------------------------
(* The seed: first the permissions, then role by role the role and the        *)
(* grants it lacks, at last the users.  It adds and adopts, by name.         *)
Tasks ==
    ({"permission"} \X DefaultPermissions) \cup ({"role"} \X DefaultRoles)
      \cup (UNION {{"grant"} \X {r} \X DefaultGrants[r] : r \in DefaultRoles})
      \cup ({"user"} \X DOMAIN SeededUsers)

Left(kind) == {t \in todo : t[1] = kind}

(* One seed at a time.                                                      *)
StartSeed(s) ==
    /\ requests[s] = Idle
    /\ \A q \in Slots : requests[q].op # "seed"
    /\ requests' = [requests EXCEPT ![s] = Request("seed", "write", None, None, {})]
    /\ todo' = Tasks
    /\ UNCHANGED <<roles, permissions, users, completed, overtaken>>

SeedPermission(t) ==
    LET old == PermissionsNamed({t[2]})
        new == [name |-> t[2], isSystem |-> TRUE]
    IN  /\ t \in Left("permission")
        /\ \E p \in IF old # {} THEN old ELSE {q \in PermissionIds : ~PermissionExists(q)} :
              /\ permissions' = [permissions EXCEPT ![p] = new]
              /\ requests' = IF permissions[p].isSystem THEN requests ELSE Adopt(requests, {p})
        /\ todo' = todo \ {t}
        /\ UNCHANGED <<roles, users, completed, overtaken>>

SeedRole(t) ==
    LET old == RolesNamed({t[2]})
    IN  /\ t \in Left("role")
        /\ Left("permission") = {}
        /\ \A g \in Left("grant") : <<"role", g[2]>> \in todo
        /\ \E r \in IF old # {} THEN old ELSE {q \in RoleIds : ~RoleExists(q)} :
              /\ roles' = [roles EXCEPT ![r].name = t[2], ![r].isSystem = TRUE]
              /\ requests' = IF roles[r].isSystem THEN requests ELSE Adopt(requests, {r})
        /\ todo' = todo \ {t}
        /\ UNCHANGED <<permissions, users, completed, overtaken>>

(* A grant set in place of the others.                                      *)
SeedGrantAfresh(t) ==
    /\ t \in Left("grant")
    /\ <<"role", t[2]>> \notin todo
    /\ roles' = [r \in RoleIds |->
                    IF roles[r].name = t[2]
                    THEN [roles[r] EXCEPT !.grants = PermissionsNamed({t[3]})]
                    ELSE roles[r]]
    /\ requests' = Link(requests, PermissionsNamed({t[3]}))
    /\ todo' = todo \ {t}
    /\ UNCHANGED <<permissions, users, completed, overtaken>>

(* Both ends are looked up by name; if one is missing the seed ends there.   *)
SeedGrant(t) ==
    LET found == RolesNamed({t[2]}) # {} /\ PermissionsNamed({t[3]}) # {}
    IN  /\ t \in Left("grant")
        /\ <<"role", t[2]>> \notin todo
        /\ IF found
           THEN /\ roles' = [r \in RoleIds |->
                      IF roles[r].name = t[2]
                      THEN [roles[r] EXCEPT !.grants = @ \cup PermissionsNamed({t[3]})]
                      ELSE roles[r]]
                /\ requests' = Link(requests, PermissionsNamed({t[3]}))
                /\ todo' = todo \ {t}
           ELSE /\ requests' = [s \in Slots |-> IF requests[s].op = "seed"
                                               THEN Idle ELSE requests[s]]
                /\ todo' = {}
                /\ UNCHANGED roles
        /\ UNCHANGED <<permissions, users, completed, overtaken>>

(* A seeded user, new or not, is given its one role.                        *)
SeedUser(t) ==
    LET given == RolesNamed({SeededUsers[t[2]]})
    IN  /\ t \in Left("user")
        /\ todo = Left("user")
        /\ given # {}
        /\ users' = [users EXCEPT ![t[2]] = given]
        /\ requests' = Link(requests, given)
        /\ todo' = todo \ {t}
        /\ UNCHANGED <<roles, permissions, completed, overtaken>>

CompleteSeed(s) ==
    /\ requests[s].op = "seed"
    /\ todo = {}
    /\ requests' = Ended(s)
    /\ completed' = TRUE
    /\ UNCHANGED <<roles, permissions, users, todo, overtaken>>

SeedStep(t) == SeedPermission(t) \/ SeedRole(t) \/ SeedGrant(t) \/ SeedUser(t)

BeginRequest(s) ==
    \/ BeginCreateRole(s) \/ BeginUpdateRole(s) \/ BeginDeleteRole(s)
    \/ BeginCreatePermission(s) \/ BeginUpdatePermission(s) \/ BeginDeletePermission(s)
    \/ BeginUserRoles(s)
CheckRequest(s) ==
    \/ ValidateName(s) \/ CheckRoleName(s) \/ CountHolders(s)
    \/ CheckPermissionName(s) \/ CountGrantors(s)
WriteRequest(s) ==
    \/ CreateRole(s) \/ UpdateRole(s) \/ DeleteRole(s)
    \/ CreatePermission(s) \/ UpdatePermission(s) \/ DeletePermission(s)
    \/ AssignRoles(s) \/ RegisterUser(s)

Next ==
    \/ \E s \in Slots : BeginRequest(s) \/ CheckRequest(s) \/ WriteRequest(s) \/ Abandon(s)
    \/ \E u \in Users : DeleteUser(u)
    \/ \E s \in Slots : StartSeed(s) \/ CompleteSeed(s)
    \/ \E t \in todo : SeedStep(t)

Spec == Init /\ [][Next]_vars
-----------------------------------------------------------------------------
(* The tables are well formed: names are unique, every grant and assignment  *)
(* leads to a row that exists, and the seed has work only while it runs.    *)
TypeOK ==
    /\ roles \in [RoleIds -> RoleRows \cup {NoRole}]
    /\ permissions \in [PermissionIds -> PermissionRows \cup {NoPermission}]
    /\ users \in [Users -> {NoUser} \cup SUBSET RoleIds]
    /\ requests \in [Slots ->
          [op : {"none", "seed"} \cup RoleOps \cup PermissionOps \cup UserOps,
           pc : {"idle", "name", "names", "count", "write"},
           id : {None} \cup RoleIds \cup PermissionIds \cup Users,
           name : {None} \cup RoleNames \cup PermissionNames,
           names : (SUBSET RoleNames) \cup (SUBSET PermissionNames),
           left : (SUBSET RoleNames) \cup (SUBSET PermissionNames),
           adopted : BOOLEAN, linked : BOOLEAN]]
    /\ todo \subseteq Tasks
    /\ completed \in BOOLEAN /\ overtaken \in BOOLEAN
    /\ \A r, q \in RoleIds : RoleExists(r) /\ roles[r].name = roles[q].name => r = q
    /\ \A p, q \in PermissionIds :
          PermissionExists(p) /\ permissions[p].name = permissions[q].name => p = q
    /\ \A r \in RoleIds : \A p \in roles[r].grants : PermissionExists(p)
    /\ \A u \in Users : users[u] # NoUser => \A r \in users[u] : RoleExists(r)
    /\ todo # {} => \E s \in Slots : requests[s].op = "seed"

(* Once a seed has run to its end, every default permission and role is a    *)
(* system entry and every default role holds its default grants, and no      *)
(* request changes that, except one that had read the entry before the seed  *)
(* adopted it.  (The isSystem refusals, the unique names and the seed's      *)
(* upserts.)                                                                *)
DefaultsInForce ==
    completed /\ ~overtaken =>
        /\ \A n \in DefaultPermissions : \E p \in PermissionIds :
              permissions[p].name = n /\ permissions[p].isSystem
        /\ \A n \in DefaultRoles : \E r \in RoleIds :
              /\ roles[r].name = n /\ roles[r].isSystem
              /\ PermissionsNamed(DefaultGrants[n]) \subseteq roles[r].grants

(* The names of the permissions a user has through its roles.               *)
RightsOf(u) ==
    {permissions[p].name : p \in UNION {roles[r].grants : r \in users[u] \cap RoleIds}}

Ends(s, op) == requests[s].op = op /\ requests'[s] = Idle

(* Nobody loses a right by a deletion in the catalog: a user's rights shrink  *)
(* only when that user's roles are replaced, when a role it has is edited or  *)
(* a permission renamed, when the seed gives it its seeded role, or by a     *)
(* deletion whose entry came into use after it had been counted as unused.   *)
(* (The roleHasAssignedUsers and permissionIsAssignedToRoles checks.)        *)
DeletionsRevokeNothing ==
    [][\A u \in Users :
         users'[u] # NoUser /\ ~(RightsOf(u) \subseteq RightsOf(u)') =>
            \/ \E s \in Slots :
                  \/ Ends(s, "updateUserRoles") /\ requests[s].id = u
                  \/ Ends(s, "updateRole") /\ requests[s].id \in users[u]
                  \/ Ends(s, "updatePermission")
                  \/ (Ends(s, "deleteRole") \/ Ends(s, "deletePermission"))
                       /\ requests[s].linked
            \/ todo' # todo /\ u \in DOMAIN SeededUsers]_vars

(* The names of the roles a user has: what its tokens carry and the guard    *)
(* of the administration asks for.                                          *)
TitlesOf(u) == {roles[r].name : r \in users[u] \cap RoleIds}

(* A user gains or loses the name of a system role only by what is done to   *)
(* that user: by an operation on the user, the seed of the user or the       *)
(* deletion of the user.  No operation on a role does it, except one that    *)
(* had read the role before the seed adopted it.  (The isSystem refusals and *)
(* the unique names; countActiveAdmins, which counts by name.)               *)
TitlesKept ==
    [][\A u \in Users : \A r \in RoleIds :
         roles[r].isSystem /\ ((roles[r].name \in TitlesOf(u)) # (roles[r].name \in TitlesOf(u)')) =>
            \/ \E s \in Slots : \E op \in UserOps : Ends(s, op) /\ requests[s].id = u
            \/ \E s \in Slots : \E op \in {"updateRole", "deleteRole"} :
                  Ends(s, op) /\ requests[s].id = r /\ requests[s].adopted
            \/ users'[u] = NoUser
            \/ todo' # todo /\ u \in DOMAIN SeededUsers]_vars

(* A step of the seed deletes nothing and takes no grant away, whatever      *)
(* administrators have added.  (seed-iam-auth.ts: "Never delete: admin       *)
(* changes and custom roles must survive re-seeding.")                      *)
SeedOnlyAdds ==
    [][todo' # todo =>
         /\ \A r \in RoleIds : RoleExists(r) =>
               /\ roles'[r].name = roles[r].name
               /\ roles[r].grants \subseteq roles'[r].grants
         /\ \A p \in PermissionIds : PermissionExists(p) =>
               permissions'[p].name = permissions[p].name]_vars
=============================================================================
