--------------------------- MODULE RbacCatalog_proof ---------------------------
(***************************************************************************)
(* Proofs about RbacCatalog for every choice of names, keys, users, grants  *)
(* and request slots.                                                       *)
(***************************************************************************)
EXTENDS RbacCatalog, TLAPS

(* What a request holds, by the operation it performs.                      *)
Fits(q) ==
    /\ q.op \in {"createRole", "updateRole"} =>
          q.name \in RoleNames /\ q.names \subseteq PermissionNames
    /\ q.op \in {"updateRole", "deleteRole"} => q.id \in RoleIds
    /\ q.op \in {"createPermission", "updatePermission"} => q.name \in PermissionNames
    /\ q.op \in {"updatePermission", "deletePermission"} => q.id \in PermissionIds
    /\ q.op \in UserOps => q.id \in Users /\ q.names \subseteq RoleNames
    /\ q.op = "seed" => q.pc = "write"

(* The sets that the fields of a request are taken from.                    *)
Ops == {"none", "seed"} \cup RoleOps \cup PermissionOps \cup UserOps
Stops == {"idle", "name", "names", "count", "write"}
Ids == {None} \cup RoleIds \cup PermissionIds \cup Users
Names == {None} \cup RoleNames \cup PermissionNames
NameSets == (SUBSET RoleNames) \cup (SUBSET PermissionNames)
RequestRows ==
    [op : Ops, pc : Stops, id : Ids, name : Names, names : NameSets,
     left : NameSets, adopted : BOOLEAN, linked : BOOLEAN]

(* The types of the tables.                                                 *)
RolesOK == roles \in [RoleIds -> RoleRows \cup {NoRole}]
PermissionsOK == permissions \in [PermissionIds -> PermissionRows \cup {NoPermission}]
UsersOK == users \in [Users -> {NoUser} \cup SUBSET RoleIds]
RequestsOK ==
    /\ requests \in [Slots -> RequestRows]
    /\ \A s \in Slots : Fits(requests[s])
SeedOK ==
    /\ todo \subseteq Tasks
    /\ todo # {} => \E s \in Slots : requests[s].op = "seed"
    /\ \A s, q \in Slots : requests[s].op = "seed" /\ requests[q].op = "seed" => s = q
FlagsOK == completed \in BOOLEAN /\ overtaken \in BOOLEAN

(* Names are unique, and rows refer to rows that exist.                     *)
UniqueRoles == \A r, q \in RoleIds : RoleExists(r) /\ roles[r].name = roles[q].name => r = q
UniquePermissions ==
    \A p, q \in PermissionIds :
        PermissionExists(p) /\ permissions[p].name = permissions[q].name => p = q
GrantsExist == \A r \in RoleIds : \A p \in roles[r].grants : PermissionExists(p)
AssignmentsExist ==
    \A u \in Users : users[u] # NoUser => \A r \in users[u] : RoleExists(r)

(* What a deletion has counted as unused still is, unless it was linked.    *)
Counted ==
    \A s \in Slots : requests[s].pc = "write" /\ ~requests[s].linked =>
        /\ requests[s].op = "deleteRole" => Holders(requests[s].id) = {}
        /\ requests[s].op = "deletePermission" => Grantors(requests[s].id) = {}

(* An entry that a request read as ordinary still is, unless it was adopted. *)
Ordinary ==
    \A s \in Slots : ~requests[s].adopted =>
        /\ requests[s].op \in {"updateRole", "deleteRole"} => ~roles[requests[s].id].isSystem
        /\ requests[s].op \in {"updatePermission", "deletePermission"} =>
              ~permissions[requests[s].id].isSystem

-----------------------------------------------------------------------------
(* The request slots.                                                       *)
LEMMA IdleOK == Idle \in RequestRows /\ Fits(Idle)
<1>1. /\ "none" \in Ops /\ "idle" \in Stops /\ None \in Ids /\ None \in Names
      /\ {} \in NameSets
  BY DEF Ops, Stops, Ids, Names, NameSets
<1>2. Idle \in RequestRows
  BY <1>1 DEF Idle, RequestRows
<1>3. Idle.op = "none" /\ Idle.pc = "idle"
  BY DEF Idle
<1>4. Fits(Idle)
  BY <1>3 DEF Fits, RoleOps, PermissionOps, UserOps
<1> QED
  BY <1>2, <1>4

LEMMA RequestOK ==
    ASSUME NEW op \in Ops, NEW pc \in Stops, NEW id \in Ids, NEW name \in Names,
           NEW names \in NameSets
    PROVE  /\ Request(op, pc, id, name, names) \in RequestRows
           /\ Request(op, pc, id, name, names).op = op
           /\ Request(op, pc, id, name, names).pc = pc
           /\ Request(op, pc, id, name, names).id = id
           /\ Request(op, pc, id, name, names).name = name
           /\ Request(op, pc, id, name, names).names = names
  BY IdleOK DEF Request, Idle, RequestRows

(* How Ended, Link and Adopt leave the slots.                               *)
Kept(old, new) ==
    /\ new.op = old.op /\ new.pc = old.pc /\ new.id = old.id
    /\ new.name = old.name /\ new.names = old.names /\ new.left = old.left

LEMMA EndedOK ==
    ASSUME RequestsOK, NEW s \in Slots
    PROVE  /\ Ended(s) \in [Slots -> RequestRows]
           /\ \A q \in Slots : Fits(Ended(s)[q])
           /\ Ended(s)[s] = Idle
           /\ \A q \in Slots \ {s} : Ended(s)[q] = requests[q]
  BY IdleOK DEF Ended, RequestsOK

LEMMA LinkOK ==
    ASSUME NEW reqs \in [Slots -> RequestRows], NEW ids
    PROVE  /\ Link(reqs, ids) \in [Slots -> RequestRows]
           /\ \A q \in Slots :
                 /\ Kept(reqs[q], Link(reqs, ids)[q])
                 /\ Link(reqs, ids)[q].adopted = reqs[q].adopted
                 /\ reqs[q].linked => Link(reqs, ids)[q].linked
                 /\ reqs[q].pc = "write" /\ reqs[q].id \in ids
                       => Link(reqs, ids)[q].linked
                 /\ Fits(reqs[q]) => Fits(Link(reqs, ids)[q])
                 /\ reqs[q] = Idle => Link(reqs, ids)[q] = Idle
<1>1. ASSUME NEW q \in Slots PROVE [reqs[q] EXCEPT !.linked = TRUE] \in RequestRows
  BY DEF RequestRows
<1>2. Link(reqs, ids) \in [Slots -> RequestRows]
  BY <1>1 DEF Link
<1>3. ASSUME NEW q \in Slots
      PROVE  /\ Kept(reqs[q], Link(reqs, ids)[q])
             /\ Link(reqs, ids)[q].adopted = reqs[q].adopted
             /\ reqs[q].linked => Link(reqs, ids)[q].linked
             /\ reqs[q].pc = "write" /\ reqs[q].id \in ids
                   => Link(reqs, ids)[q].linked
  BY DEF Link, Kept, RequestRows
<1>5. ASSUME NEW q \in Slots, reqs[q] = Idle PROVE Link(reqs, ids)[q] = Idle
  <2>1. reqs[q].pc # "write"
    BY <1>5 DEF Idle
  <2> QED
    BY <1>5, <2>1 DEF Link
<1>4. ASSUME NEW q \in Slots, Fits(reqs[q]) PROVE Fits(Link(reqs, ids)[q])
  BY <1>3, <1>4 DEF Kept, Fits
<1> QED
  BY <1>2, <1>3, <1>4, <1>5

LEMMA AdoptOK ==
    ASSUME NEW reqs \in [Slots -> RequestRows], NEW ids
    PROVE  /\ Adopt(reqs, ids) \in [Slots -> RequestRows]
           /\ \A q \in Slots :
                 /\ Kept(reqs[q], Adopt(reqs, ids)[q])
                 /\ Adopt(reqs, ids)[q].linked = reqs[q].linked
                 /\ reqs[q].adopted => Adopt(reqs, ids)[q].adopted
                 /\ reqs[q].id \in ids => Adopt(reqs, ids)[q].adopted
                 /\ Fits(reqs[q]) => Fits(Adopt(reqs, ids)[q])
<1>1. ASSUME NEW q \in Slots PROVE [reqs[q] EXCEPT !.adopted = TRUE] \in RequestRows
  BY DEF RequestRows
<1>2. Adopt(reqs, ids) \in [Slots -> RequestRows]
  BY <1>1 DEF Adopt
<1>3. ASSUME NEW q \in Slots
      PROVE  /\ Kept(reqs[q], Adopt(reqs, ids)[q])
             /\ Adopt(reqs, ids)[q].linked = reqs[q].linked
             /\ reqs[q].adopted => Adopt(reqs, ids)[q].adopted
             /\ reqs[q].id \in ids => Adopt(reqs, ids)[q].adopted
  BY DEF Adopt, Kept, RequestRows
<1>4. ASSUME NEW q \in Slots, Fits(reqs[q]) PROVE Fits(Adopt(reqs, ids)[q])
  BY <1>3, <1>4 DEF Kept, Fits
<1> QED
  BY <1>2, <1>3, <1>4

(* A step after which no other seed runs than before.                       *)
LEMMA SlotsStep ==
    ASSUME RequestsOK, SeedOK, requests' \in [Slots -> RequestRows],
           \A q \in Slots : Fits(requests'[q]),
           \A q \in Slots : requests'[q].op = "seed" => requests[q].op = "seed",
           todo' \subseteq todo,
           todo' = {} \/ \A q \in Slots :
               requests[q].op = "seed" => requests'[q].op = "seed"
    PROVE  RequestsOK' /\ SeedOK'
  BY DEF RequestsOK, SeedOK, Tasks

-----------------------------------------------------------------------------
(* The rows.                                                                *)
LEMMA RoleFacts ==
    ASSUME RolesOK, NEW r \in RoleIds
    PROVE  /\ roles[r].grants \subseteq PermissionIds /\ roles[r].isSystem \in BOOLEAN
           /\ RoleExists(r) => roles[r] \in RoleRows /\ roles[r].name \in RoleNames
           /\ ~RoleExists(r) => /\ roles[r] = NoRole /\ roles[r].name = None
                               /\ roles[r].isSystem = FALSE /\ roles[r].grants = {}
           /\ roles[r].name # None => RoleExists(r)
<1>1. None \notin RoleNames
  BY KeysAssumption
<1>2. CASE roles[r] = NoRole
  BY <1>2 DEF RoleExists, NoRole
<1>3. CASE roles[r] # NoRole
  <2>1. roles[r] \in RoleRows
    BY <1>3 DEF RolesOK
  <2> QED
    BY <1>1, <1>3, <2>1 DEF RoleExists, RoleRows
<1> QED
  BY <1>2, <1>3

LEMMA PermissionFacts ==
    ASSUME PermissionsOK, NEW p \in PermissionIds
    PROVE  /\ permissions[p].isSystem \in BOOLEAN
           /\ PermissionExists(p) =>
                 permissions[p] \in PermissionRows /\ permissions[p].name \in PermissionNames
           /\ ~PermissionExists(p) => /\ permissions[p] = NoPermission
                                     /\ permissions[p].name = None
                                     /\ permissions[p].isSystem = FALSE
           /\ permissions[p].name # None => PermissionExists(p)
<1>1. None \notin PermissionNames
  BY KeysAssumption
<1>2. CASE permissions[p] = NoPermission
  BY <1>2 DEF PermissionExists, NoPermission
<1>3. CASE permissions[p] # NoPermission
  <2>1. permissions[p] \in PermissionRows
    BY <1>3 DEF PermissionsOK
  <2> QED
    BY <1>1, <1>3, <2>1 DEF PermissionExists, PermissionRows
<1> QED
  BY <1>2, <1>3

LEMMA NamedExist ==
    ASSUME RolesOK, PermissionsOK
    PROVE  /\ \A N \in SUBSET RoleNames :
                 RolesNamed(N) \subseteq RoleIds /\ \A r \in RolesNamed(N) : RoleExists(r)
           /\ \A N \in SUBSET PermissionNames :
                 /\ PermissionsNamed(N) \subseteq PermissionIds
                 /\ \A p \in PermissionsNamed(N) : PermissionExists(p)
  BY RoleFacts, PermissionFacts, KeysAssumption DEF RolesNamed, PermissionsNamed

Tables ==
    /\ RolesOK /\ PermissionsOK /\ UsersOK
    /\ UniqueRoles /\ UniquePermissions /\ GrantsExist /\ AssignmentsExist

LEMMA TablesKept ==
    ASSUME Tables, UNCHANGED <<roles, permissions, users>> PROVE Tables'
  BY DEF Tables, RolesOK, PermissionsOK, UsersOK, UniqueRoles, UniquePermissions,
     GrantsExist, AssignmentsExist, RoleExists, PermissionExists

(* One row of Role is written, with a name that no other row has.           *)
LEMMA RoleWritten ==
    ASSUME Tables, NEW r \in RoleIds, NEW new \in RoleRows,
           \A q \in RoleIds \ {r} : roles[q].name # new.name,
           \A p \in new.grants : PermissionExists(p),
           roles' = [roles EXCEPT ![r] = new], permissions' = permissions,
           users' = users
    PROVE  Tables'
<1>1. RolesOK'
  BY DEF Tables, RolesOK
<1>2. new # NoRole /\ new.name # None
  BY KeysAssumption DEF RoleRows, NoRole
<1>3. UniqueRoles'
  BY <1>2 DEF Tables, RolesOK, UniqueRoles, RoleExists
<1>4. GrantsExist' /\ AssignmentsExist'
  BY <1>2 DEF Tables, RolesOK, UsersOK, GrantsExist, AssignmentsExist, RoleExists,
     PermissionExists
<1> QED
  BY <1>1, <1>3, <1>4 DEF Tables, PermissionsOK, UsersOK, UniquePermissions,
     PermissionExists

(* One row of Permission is written, with a name that no other row has.      *)
LEMMA PermissionWritten ==
    ASSUME Tables, NEW p \in PermissionIds, NEW new \in PermissionRows,
           \A q \in PermissionIds \ {p} : permissions[q].name # new.name,
           permissions' = [permissions EXCEPT ![p] = new], roles' = roles, users' = users
    PROVE  Tables'
<1>1. PermissionsOK'
  BY DEF Tables, PermissionsOK
<1>2. new # NoPermission /\ new.name # None
  BY KeysAssumption DEF PermissionRows, NoPermission
<1>3. UniquePermissions'
  BY <1>2 DEF Tables, PermissionsOK, UniquePermissions, PermissionExists
<1>4. GrantsExist' /\ AssignmentsExist'
  BY <1>2, RoleFacts DEF Tables, PermissionsOK, GrantsExist, AssignmentsExist, RoleExists,
     PermissionExists
<1> QED
  BY <1>1, <1>3, <1>4 DEF Tables, RolesOK, UsersOK, UniqueRoles, RoleExists

(* The roles of a user are written.                                         *)
LEMMA UserWritten ==
    ASSUME Tables, NEW u \in Users, NEW R, R = NoUser \/ R \in SUBSET RoleIds,
           R # NoUser => \A r \in R : RoleExists(r),
           users' = [users EXCEPT ![u] = R], UNCHANGED <<roles, permissions>>
    PROVE  Tables'
<1>1. UsersOK'
  BY DEF Tables, UsersOK
<1>2. AssignmentsExist'
  BY DEF Tables, UsersOK, AssignmentsExist, RoleExists
<1> QED
  BY <1>1, <1>2 DEF Tables, RolesOK, PermissionsOK, UniqueRoles, UniquePermissions,
     GrantsExist, RoleExists, PermissionExists

-----------------------------------------------------------------------------
(* What is known of a slot after a step: it is idle, or holds the request it *)
(* held, marked if the step linked the entries ids or adopted the entries   *)
(* jds.                                                                     *)
Carried(q, ids, jds) ==
    \/ requests'[q] = Idle
    \/ /\ Kept(requests[q], requests'[q])
       /\ requests[q].linked => requests'[q].linked
       /\ requests[q].adopted => requests'[q].adopted
       /\ requests[q].pc = "write" /\ requests[q].id \in ids => requests'[q].linked
       /\ requests[q].id \in jds => requests'[q].adopted

Core == RequestsOK /\ SeedOK /\ FlagsOK /\ Tables

LEMMA CarriedStep ==
    ASSUME Core, Counted, Ordinary, NEW ids, NEW jds,
           \A q \in Slots : Carried(q, ids, jds),
           \A r \in RoleIds \ ids : Holders(r) = {} => Holders(r)' = {},
           \A p \in PermissionIds \ ids : Grantors(p) = {} => Grantors(p)' = {},
           \A r \in RoleIds \ jds : ~roles[r].isSystem => ~roles'[r].isSystem,
           \A p \in PermissionIds \ jds :
               ~permissions[p].isSystem => ~permissions'[p].isSystem
    PROVE  Counted' /\ Ordinary'
<1>1. ASSUME NEW q \in Slots, requests'[q].pc = "write", ~requests'[q].linked
      PROVE  /\ requests'[q].op = "deleteRole" => Holders(requests[q].id)' = {}
             /\ requests'[q].op = "deletePermission" => Grantors(requests[q].id)' = {}
  <2>1. CASE requests'[q] = Idle
    BY <2>1 DEF Idle
  <2>2. CASE requests'[q] # Idle
    <3>1. /\ Kept(requests[q], requests'[q]) /\ ~requests[q].linked
          /\ requests[q].id \notin ids
      BY <1>1, <2>2 DEF Carried, Kept
    <3>2. /\ requests[q].op = "deleteRole" => /\ requests[q].id \in RoleIds
                                             /\ Holders(requests[q].id) = {}
          /\ requests[q].op = "deletePermission" => /\ requests[q].id \in PermissionIds
                                                   /\ Grantors(requests[q].id) = {}
      BY <1>1, <3>1 DEF Core, RequestsOK, Fits, Counted, Kept
    <3> QED
      BY <1>1, <2>2, <3>1, <3>2 DEF Kept, Carried, Holders, Grantors
  <2> QED
    BY <2>1, <2>2
<1>2. ASSUME NEW q \in Slots, ~requests'[q].adopted
      PROVE  /\ requests'[q].op \in {"updateRole", "deleteRole"} =>
                   ~roles'[requests'[q].id].isSystem
             /\ requests'[q].op \in {"updatePermission", "deletePermission"} =>
                   ~permissions'[requests'[q].id].isSystem
  <2>1. CASE requests'[q] = Idle
    BY <2>1 DEF Idle
  <2>2. CASE requests'[q] # Idle
    <3>1. /\ Kept(requests[q], requests'[q]) /\ ~requests[q].adopted
          /\ requests[q].id \notin jds
      BY <1>2, <2>2 DEF Carried, Kept
    <3> QED
      BY <1>2, <3>1 DEF Core, RequestsOK, Fits, Ordinary, Kept
  <2> QED
    BY <2>1, <2>2
<1> QED
  BY <1>1, <1>2 DEF Counted, Ordinary, Holders, Grantors

(* A step that writes nothing but the slot of its request.                  *)
LEMMA QuietStep ==
    ASSUME Core, Counted, Ordinary, NEW s \in Slots, NEW q \in RequestRows, Fits(q),
           requests[s].op # "seed", q.op # "seed", NoWrite,
           requests' = [requests EXCEPT ![s] = q],
           q.pc = "write" =>
              /\ q.op = "deleteRole" => Holders(q.id) = {}
              /\ q.op = "deletePermission" => Grantors(q.id) = {},
           ~q.adopted =>
              /\ q.op \in {"updateRole", "deleteRole"} => ~roles[q.id].isSystem
              /\ q.op \in {"updatePermission", "deletePermission"} =>
                    ~permissions[q.id].isSystem
    PROVE  Core' /\ Counted' /\ Ordinary'
<1>1. /\ requests' \in [Slots -> RequestRows] /\ \A z \in Slots : Fits(requests'[z])
      /\ requests'[s] = q /\ \A z \in Slots \ {s} : requests'[z] = requests[z]
  BY DEF Core, RequestsOK
<1>2. RequestsOK' /\ SeedOK'
  BY <1>1, SlotsStep DEF Core, NoWrite, Stay
<1>3. Tables' /\ FlagsOK'
  BY TablesKept DEF Core, NoWrite, Stay, FlagsOK
<1>4. Counted'
  BY <1>1 DEF Counted, Holders, Grantors, NoWrite
<1>5. Ordinary'
  BY <1>1 DEF Ordinary, NoWrite
<1> QED
  BY <1>2, <1>3, <1>4, <1>5 DEF Core

LEMMA RefuseStep ==
    ASSUME Core, Counted, Ordinary, NEW s \in Slots, requests[s].op # "seed", Refuse(s)
    PROVE  Core' /\ Counted' /\ Ordinary'
<1>1. Idle.op = "none" /\ Idle.pc = "idle"
  BY DEF Idle
<1> QED
  BY <1>1, IdleOK, QuietStep DEF Refuse, Ended

(* The slots after a request has ended with a write.                        *)
LEMMA WriteSlots ==
    ASSUME Core, NEW s \in Slots, requests[s].op # "seed", NEW ids,
           (requests' = Ended(s) /\ ids = {}) \/ requests' = Link(Ended(s), ids),
           Stay, overtaken' \in BOOLEAN
    PROVE  /\ RequestsOK' /\ SeedOK' /\ FlagsOK' /\ requests'[s] = Idle
           /\ \A q \in Slots : Carried(q, ids, {})
<1>1. /\ Ended(s) \in [Slots -> RequestRows]
      /\ \A q \in Slots : Fits(Ended(s)[q])
      /\ Ended(s)[s] = Idle
      /\ \A q \in Slots \ {s} : Ended(s)[q] = requests[q]
  BY EndedOK DEF Core
<1>2. Idle.op = "none"
  BY DEF Idle
<1>3. /\ requests' \in [Slots -> RequestRows] /\ requests'[s] = Idle
      /\ \A q \in Slots : Fits(requests'[q]) /\ Carried(q, ids, {})
  <2>1. CASE requests' = Ended(s) /\ ids = {}
    BY <1>1, <2>1 DEF Carried, Kept
  <2>2. CASE requests' = Link(Ended(s), ids)
    BY <1>1, <2>2, LinkOK DEF Carried, Kept
  <2> QED
    BY <2>1, <2>2
<1>4. \A q \in Slots : (requests'[q].op = "seed") = (requests[q].op = "seed")
  <2>1. CASE requests' = Ended(s) /\ ids = {}
    BY <1>1, <1>2, <2>1
  <2>2. CASE requests' = Link(Ended(s), ids)
    BY <1>1, <1>2, <2>2, LinkOK DEF Kept
  <2> QED
    BY <2>1, <2>2
<1> QED
  BY <1>3, <1>4, SlotsStep DEF Core, Stay, FlagsOK

-----------------------------------------------------------------------------
(* Every step of a request.                                                 *)
IInv == Core /\ Counted /\ Ordinary

LEMMA BeginStep ==
    ASSUME IInv, NEW s \in Slots, BeginRequest(s)
    PROVE  IInv'
<1> DEFINE Safe(q) ==
      /\ q \in RequestRows /\ Fits(q) /\ q.op # "seed"
      /\ q.pc = "write" => q.op \notin {"deleteRole", "deletePermission"}
      /\ q.op \in {"updateRole", "deleteRole"} => ~roles[q.id].isSystem
      /\ q.op \in {"updatePermission", "deletePermission"} => ~permissions[q.id].isSystem
<1>1. ASSUME NEW q, Safe(q), Begin(s, q) PROVE IInv'
  <2>1. requests[s].op # "seed"
    BY <1>1 DEF Begin, Idle
  <2> QED
    BY <1>1, <2>1, QuietStep DEF Begin, IInv
<1> HIDE DEF Safe
<1> USE DEF RoleOps, PermissionOps, UserOps
<1>2. CASE BeginCreateRole(s)
  <2>1. PICK n \in RoleNames, N \in SUBSET PermissionNames :
              Begin(s, Request("createRole", "names", None, n, N))
    BY <1>2 DEF BeginCreateRole
  <2>2. Safe(Request("createRole", "names", None, n, N))
    <3> DEFINE q == Request("createRole", "names", None, n, N)
    <3>1. "createRole" \in Ops /\ "names" \in Stops /\ None \in Ids /\ n \in Names
      BY DEF Ops, Stops, Ids, Names
    <3>2. N \in NameSets
      BY DEF NameSets
    <3>3. /\ q \in RequestRows /\ q.op = "createRole" /\ q.pc = "names" /\ q.id = None
          /\ q.name = n /\ q.names = N
      BY <3>1, <3>2, RequestOK
    <3> HIDE DEF q
    <3>4. Safe(q)
      BY <3>3 DEF Safe, Fits
    <3> QED
      BY <3>4 DEF q
  <2> QED
    BY <1>1, <2>1, <2>2
<1>3. CASE BeginUpdateRole(s)
  <2>1. PICK r \in RoleIds, n \in RoleNames, N \in SUBSET PermissionNames :
              ~roles[r].isSystem /\ Begin(s, Request("updateRole", "name", r, n, N))
    BY <1>3 DEF BeginUpdateRole
  <2>2. Safe(Request("updateRole", "name", r, n, N))
    <3> DEFINE q == Request("updateRole", "name", r, n, N)
    <3>1. "updateRole" \in Ops /\ "name" \in Stops /\ r \in Ids /\ n \in Names
      BY DEF Ops, Stops, Ids, Names
    <3>2. N \in NameSets
      BY DEF NameSets
    <3>3. /\ q \in RequestRows /\ q.op = "updateRole" /\ q.pc = "name" /\ q.id = r
          /\ q.name = n /\ q.names = N
      BY <3>1, <3>2, RequestOK
    <3> HIDE DEF q
    <3>4. Safe(q)
      BY <2>1, <3>3 DEF Safe, Fits
    <3> QED
      BY <3>4 DEF q
  <2> QED
    BY <1>1, <2>1, <2>2
<1>4. CASE BeginDeleteRole(s)
  <2>1. PICK r \in RoleIds :
              ~roles[r].isSystem /\ Begin(s, Request("deleteRole", "count", r, None, {}))
    BY <1>4 DEF BeginDeleteRole
  <2>2. Safe(Request("deleteRole", "count", r, None, {}))
    <3> DEFINE q == Request("deleteRole", "count", r, None, {})
    <3>1. "deleteRole" \in Ops /\ "count" \in Stops /\ r \in Ids /\ None \in Names
      BY DEF Ops, Stops, Ids, Names
    <3>2. {} \in NameSets
      BY DEF NameSets
    <3>3. /\ q \in RequestRows /\ q.op = "deleteRole" /\ q.pc = "count" /\ q.id = r
          /\ q.name = None /\ q.names = {}
      BY <3>1, <3>2, RequestOK
    <3> HIDE DEF q
    <3>4. Safe(q)
      BY <2>1, <3>3 DEF Safe, Fits
    <3> QED
      BY <3>4 DEF q
  <2> QED
    BY <1>1, <2>1, <2>2
<1>5. CASE BeginCreatePermission(s)
  <2>1. PICK n \in PermissionNames :
              Begin(s, Request("createPermission", "write", None, n, {}))
    BY <1>5 DEF BeginCreatePermission
  <2>2. Safe(Request("createPermission", "write", None, n, {}))
    <3> DEFINE q == Request("createPermission", "write", None, n, {})
    <3>1. "createPermission" \in Ops /\ "write" \in Stops /\ None \in Ids /\ n \in Names
      BY DEF Ops, Stops, Ids, Names
    <3>2. {} \in NameSets
      BY DEF NameSets
    <3>3. /\ q \in RequestRows /\ q.op = "createPermission" /\ q.pc = "write" /\ q.id = None
          /\ q.name = n /\ q.names = {}
      BY <3>1, <3>2, RequestOK
    <3> HIDE DEF q
    <3>4. Safe(q)
      BY <3>3 DEF Safe, Fits
    <3> QED
      BY <3>4 DEF q
  <2> QED
    BY <1>1, <2>1, <2>2
<1>6. CASE BeginUpdatePermission(s)
  <2>1. PICK p \in PermissionIds, n \in PermissionNames :
              /\ ~permissions[p].isSystem
              /\ Begin(s, Request("updatePermission", "name", p, n, {}))
    BY <1>6 DEF BeginUpdatePermission
  <2>2. Safe(Request("updatePermission", "name", p, n, {}))
    <3> DEFINE q == Request("updatePermission", "name", p, n, {})
    <3>1. "updatePermission" \in Ops /\ "name" \in Stops /\ p \in Ids /\ n \in Names
      BY DEF Ops, Stops, Ids, Names
    <3>2. {} \in NameSets
      BY DEF NameSets
    <3>3. /\ q \in RequestRows /\ q.op = "updatePermission" /\ q.pc = "name" /\ q.id = p
          /\ q.name = n /\ q.names = {}
      BY <3>1, <3>2, RequestOK
    <3> HIDE DEF q
    <3>4. Safe(q)
      BY <2>1, <3>3 DEF Safe, Fits
    <3> QED
      BY <3>4 DEF q
  <2> QED
    BY <1>1, <2>1, <2>2
<1>7. CASE BeginDeletePermission(s)
  <2>1. PICK p \in PermissionIds :
              /\ ~permissions[p].isSystem
              /\ Begin(s, Request("deletePermission", "count", p, None, {}))
    BY <1>7 DEF BeginDeletePermission
  <2>2. Safe(Request("deletePermission", "count", p, None, {}))
    <3> DEFINE q == Request("deletePermission", "count", p, None, {})
    <3>1. "deletePermission" \in Ops /\ "count" \in Stops /\ p \in Ids /\ None \in Names
      BY DEF Ops, Stops, Ids, Names
    <3>2. {} \in NameSets
      BY DEF NameSets
    <3>3. /\ q \in RequestRows /\ q.op = "deletePermission" /\ q.pc = "count" /\ q.id = p
          /\ q.name = None /\ q.names = {}
      BY <3>1, <3>2, RequestOK
    <3> HIDE DEF q
    <3>4. Safe(q)
      BY <2>1, <3>3 DEF Safe, Fits
    <3> QED
      BY <3>4 DEF q
  <2> QED
    BY <1>1, <2>1, <2>2
<1>8. CASE BeginUserRoles(s)
  <2>1. PICK u \in Users, N \in SUBSET RoleNames :
              \/ Begin(s, Request("createUser", "names", u, None, N))
              \/ Begin(s, Request("registerUser", "write", u, None, N))
              \/ Begin(s, Request("updateUserRoles", "names", u, None, N))
    BY <1>8 DEF BeginUserRoles
  <2>2. /\ {"createUser", "registerUser", "updateUserRoles"} \subseteq Ops
        /\ {"names", "write"} \subseteq Stops /\ u \in Ids /\ None \in Names /\ N \in NameSets
    BY DEF Ops, Stops, Ids, Names, NameSets
  <2>3. ASSUME NEW op \in UserOps, NEW pc \in {"names", "write"},
               Begin(s, Request(op, pc, u, None, N))
        PROVE  IInv'
    <3> DEFINE q == Request(op, pc, u, None, N)
    <3>2. op \in Ops /\ pc \in Stops
      BY <2>2 DEF UserOps
    <3>3. /\ q \in RequestRows /\ q.op = op /\ q.pc = pc /\ q.id = u
          /\ q.name = None /\ q.names = N
      BY <2>2, <3>2, RequestOK
    <3> HIDE DEF q
    <3>4. Safe(q)
      BY <3>3 DEF Safe, Fits
    <3>1. Safe(Request(op, pc, u, None, N))
      BY <3>4 DEF q
    <3> QED
      BY <1>1, <2>3, <3>1
  <2> QED
    BY <2>1, <2>3
<1> QED
  BY <1>2, <1>3, <1>4, <1>5, <1>6, <1>7, <1>8 DEF BeginRequest

LEMMA CheckStep ==
    ASSUME IInv, NEW s \in Slots, CheckRequest(s)
    PROVE  IInv'
<1>1. requests[s] \in RequestRows /\ Fits(requests[s]) /\ requests[s].op # "seed"
  BY DEF IInv, Core, RequestsOK, Fits, CheckRequest, ValidateName, CheckRoleName,
     CountHolders, CheckPermissionName, CountGrantors, At
<1>2. CASE Refuse(s)
  BY <1>1, <1>2, RefuseStep DEF IInv
<1>3. ASSUME NEW pc \in Stops, GoTo(s, pc), requests[s].op # "seed",
             pc = "write" =>
                /\ requests[s].op = "deleteRole" => Holders(requests[s].id) = {}
                /\ requests[s].op = "deletePermission" => Grantors(requests[s].id) = {}
      PROVE  IInv'
  <2> DEFINE q == [requests[s] EXCEPT !.pc = pc]
  <2>1. q \in RequestRows /\ Kept([requests[s] EXCEPT !.pc = pc], q)
    BY <1>1 DEF RequestRows, Kept
  <2>2. /\ q.op = requests[s].op /\ q.pc = pc /\ q.id = requests[s].id
        /\ q.name = requests[s].name /\ q.names = requests[s].names
        /\ q.adopted = requests[s].adopted
    BY <1>1 DEF RequestRows
  <2>3. requests' = [requests EXCEPT ![s] = q] /\ NoWrite
    BY <1>3 DEF GoTo
  <2> HIDE DEF q
  <2>4. Fits(q)
    BY <1>1, <1>3, <2>2 DEF Fits
  <2> QED
    BY <1>1, <1>3, <2>1, <2>2, <2>3, <2>4, QuietStep DEF IInv, Ordinary
<1>4. CASE ValidateName(s) /\ ~Refuse(s)
  <2>1. PICK n : requests' = [requests EXCEPT ![s].left = @ \ {n}] /\ NoWrite
    BY <1>4 DEF ValidateName
  <2> DEFINE q == [requests[s] EXCEPT !.left = @ \ {n}]
  <2>2. requests[s].left \ {n} \in NameSets
    BY <1>1 DEF RequestRows, NameSets
  <2>3. /\ q \in RequestRows /\ q.op = requests[s].op /\ q.pc = requests[s].pc
        /\ q.id = requests[s].id /\ q.name = requests[s].name
        /\ q.names = requests[s].names /\ q.adopted = requests[s].adopted
    BY <1>1, <2>2 DEF RequestRows
  <2>4. requests' = [requests EXCEPT ![s] = q] /\ requests[s].pc = "names"
    BY <1>4, <2>1 DEF ValidateName
  <2> HIDE DEF q
  <2>5. Fits(q)
    BY <1>1, <2>3 DEF Fits
  <2> QED
    BY <1>1, <2>1, <2>3, <2>4, <2>5, QuietStep DEF IInv, Ordinary
<1> USE DEF Stops
<1>5. CASE CheckRoleName(s) \/ CheckPermissionName(s)
  BY <1>1, <1>2, <1>3, <1>5 DEF CheckRoleName, CheckPermissionName, At
<1>6. CASE CountHolders(s) \/ CountGrantors(s)
  BY <1>1, <1>2, <1>3, <1>6 DEF CountHolders, CountGrantors, At
<1> QED
  BY <1>2, <1>4, <1>5, <1>6 DEF CheckRequest

-----------------------------------------------------------------------------
(* The writes of requests.                                                  *)
LEMMA Typed ==
    ASSUME IInv, NEW s \in Slots
    PROVE  requests[s] \in RequestRows /\ Fits(requests[s])
  BY DEF IInv, Core, RequestsOK

LEMMA CreateRoleStep ==
    ASSUME IInv, NEW s \in Slots, CreateRole(s)
    PROVE  IInv'
<1>1. requests[s].op = "createRole"
  BY DEF CreateRole, Validated, At
<1>2. CASE Refuse(s)
  BY <1>1, <1>2, RefuseStep DEF IInv
<1>3. CASE ~Refuse(s)
  <2> DEFINE granted == PermissionsNamed(requests[s].names)
             new == [name |-> requests[s].name, isSystem |-> FALSE, grants |-> granted]
  <2>1. PICK r \in RoleIds : ~RoleExists(r) /\ roles' = [roles EXCEPT ![r] = new]
    BY <1>3 DEF CreateRole
  <2>2. /\ RolesNamed({requests[s].name}) = {} /\ requests' = Link(Ended(s), granted)
        /\ UNCHANGED <<permissions, users, overtaken>> /\ Stay
    BY <1>3 DEF CreateRole
  <2>3. /\ requests[s].name \in RoleNames /\ granted \subseteq PermissionIds
        /\ \A p \in granted : PermissionExists(p)
    BY <1>1, Typed, NamedExist DEF Fits, IInv, Core, Tables
  <2>4. Tables'
    <3>1. new \in RoleRows
      BY <2>3 DEF RoleRows
    <3>2. \A q \in RoleIds \ {r} : roles[q].name # new.name
      BY <2>2 DEF RolesNamed
    <3> QED
      BY <2>1, <2>2, <2>3, <3>1, <3>2, RoleWritten DEF IInv, Core
  <2>5. /\ RequestsOK' /\ SeedOK' /\ FlagsOK'
        /\ \A q \in Slots : Carried(q, granted, {})
    BY <1>1, <2>2, WriteSlots DEF IInv, Core, FlagsOK
  <2>6. /\ \A q \in RoleIds \ granted : Holders(q) = {} => Holders(q)' = {}
        /\ \A p \in PermissionIds \ granted : Grantors(p) = {} => Grantors(p)' = {}
        /\ \A q \in RoleIds : ~roles[q].isSystem => ~roles'[q].isSystem
        /\ \A p \in PermissionIds : ~permissions[p].isSystem => ~permissions'[p].isSystem
    BY <2>1, <2>2 DEF IInv, Core, Tables, RolesOK, Holders, Grantors
  <2> QED
    BY <2>4, <2>5, <2>6, CarriedStep DEF IInv, Core
<1> QED
  BY <1>2, <1>3

LEMMA UpdateRoleStep ==
    ASSUME IInv, NEW s \in Slots, UpdateRole(s)
    PROVE  IInv'
<1>1. requests[s].op = "updateRole"
  BY DEF UpdateRole, Validated, At
<1>2. CASE Refuse(s)
  BY <1>1, <1>2, RefuseStep DEF IInv
<1>3. CASE ~Refuse(s)
  <2> DEFINE r == requests[s].id
             granted == PermissionsNamed(requests[s].names)
             new == [roles[r] EXCEPT !.name = requests[s].name, !.grants = granted]
  <2>1. /\ RoleExists(r) /\ RolesNamed({requests[s].name}) \subseteq {r}
        /\ requests' = Link(Ended(s), granted)
        /\ overtaken' = (overtaken \/ requests[s].adopted)
        /\ UNCHANGED <<permissions, users>> /\ Stay
        /\ roles' = [roles EXCEPT ![r].name = requests[s].name, ![r].grants = granted]
    BY <1>3 DEF UpdateRole
  <2>3. /\ r \in RoleIds /\ requests[s].name \in RoleNames
        /\ granted \subseteq PermissionIds
        /\ \A p \in granted : PermissionExists(p)
    BY <1>1, Typed, NamedExist DEF Fits, IInv, Core, Tables
  <2>2. /\ roles[r] \in RoleRows /\ roles' = [roles EXCEPT ![r] = new]
    BY <2>1, <2>3, RoleFacts DEF IInv, Core, Tables, RolesOK
  <2>9. new \in RoleRows /\ new.isSystem = roles[r].isSystem
        /\ new.name = requests[s].name /\ new.grants = granted
    BY <2>2, <2>3 DEF RoleRows
  <2> HIDE DEF new
  <2>4. Tables'
    <3>2. \A q \in RoleIds \ {r} : roles[q].name # new.name
      BY <2>1, <2>9 DEF RolesNamed
    <3>3. \A p \in new.grants : PermissionExists(p)
      BY <2>3, <2>9
    <3>4. permissions' = permissions /\ users' = users /\ Tables
      BY <2>1 DEF IInv, Core
    <3> HIDE DEF granted
    <3> QED
      BY <2>2, <2>3, <2>9, <3>2, <3>3, <3>4, RoleWritten
  <2>5. /\ RequestsOK' /\ SeedOK' /\ FlagsOK'
        /\ \A q \in Slots : Carried(q, granted, {})
    BY <1>1, <2>1, WriteSlots DEF IInv, Core, FlagsOK
  <2>6. /\ \A q \in RoleIds \ granted : Holders(q) = {} => Holders(q)' = {}
        /\ \A p \in PermissionIds \ granted : Grantors(p) = {} => Grantors(p)' = {}
        /\ \A q \in RoleIds : ~roles[q].isSystem => ~roles'[q].isSystem
        /\ \A p \in PermissionIds : ~permissions[p].isSystem => ~permissions'[p].isSystem
    BY <2>1, <2>2, <2>9 DEF IInv, Core, Tables, RolesOK, Holders, Grantors
  <2> QED
    BY <2>4, <2>5, <2>6, CarriedStep DEF IInv, Core
<1> QED
  BY <1>2, <1>3

(* A role goes with its assignments.                                        *)
LEMMA DeleteRoleStep ==
    ASSUME IInv, NEW s \in Slots, DeleteRole(s)
    PROVE  IInv'
<1>1. requests[s].op = "deleteRole"
  BY DEF DeleteRole, At
<1>2. CASE Refuse(s)
  BY <1>1, <1>2, RefuseStep DEF IInv
<1>3. CASE ~Refuse(s)
  <2> DEFINE r == requests[s].id
  <2>1. /\ roles' = [roles EXCEPT ![r] = NoRole]
        /\ users' = [u \in Users |-> users[u] \ {r}]
        /\ requests' = Ended(s) /\ overtaken' = (overtaken \/ requests[s].adopted)
        /\ UNCHANGED permissions /\ Stay
    BY <1>3 DEF DeleteRole
  <2>2. r \in RoleIds /\ r # None
    BY <1>1, Typed, KeysAssumption DEF Fits
  <2>3. NoRole.grants = {} /\ NoRole.isSystem = FALSE /\ NoRole.name = None
    BY DEF NoRole
  <2>4. Tables'
    <3>0. RolesOK'
      BY <2>1, <2>2 DEF IInv, Core, Tables, RolesOK
    <3>u. UniqueRoles'
      <4>1. \A x \in RoleIds : RoleExists(x) => roles[x].name # None
        BY RoleFacts, KeysAssumption DEF IInv, Core, Tables
      <4> QED
        BY <2>1, <2>2, <2>3, <4>1 DEF IInv, Core, Tables, RolesOK, UniqueRoles, RoleExists
    <3>g. GrantsExist'
      BY <2>1, <2>2, <2>3 DEF IInv, Core, Tables, RolesOK, GrantsExist, PermissionExists
    <3>1. RolesOK' /\ UniqueRoles' /\ GrantsExist'
      BY <3>0, <3>u, <3>g
    <3>2. UsersOK'
      BY <2>1, <2>2 DEF IInv, Core, Tables, UsersOK, NoUser
    <3>3. AssignmentsExist'
      BY <2>1, <2>2 DEF IInv, Core, Tables, RolesOK, UsersOK, AssignmentsExist, RoleExists,
         NoUser
    <3> QED
      BY <2>1, <3>1, <3>2, <3>3 DEF IInv, Core, Tables, PermissionsOK, UniquePermissions,
         PermissionExists
  <2>5. /\ RequestsOK' /\ SeedOK' /\ FlagsOK' /\ \A q \in Slots : Carried(q, {}, {})
    BY <1>1, <2>1, WriteSlots DEF IInv, Core, FlagsOK
  <2>6. /\ \A q \in RoleIds : Holders(q) = {} => Holders(q)' = {}
        /\ \A p \in PermissionIds : Grantors(p) = {} => Grantors(p)' = {}
        /\ \A q \in RoleIds : ~roles[q].isSystem => ~roles'[q].isSystem
        /\ \A p \in PermissionIds : ~permissions[p].isSystem => ~permissions'[p].isSystem
    BY <2>1, <2>2, <2>3 DEF IInv, Core, Tables, RolesOK, Holders, Grantors
  <2> QED
    BY <2>4, <2>5, <2>6, CarriedStep DEF IInv, Core
<1> QED
  BY <1>2, <1>3

LEMMA CreatePermissionStep ==
    ASSUME IInv, NEW s \in Slots, CreatePermission(s)
    PROVE  IInv'
<1>1. requests[s].op = "createPermission"
  BY DEF CreatePermission, At
<1>2. CASE Refuse(s)
  BY <1>1, <1>2, RefuseStep DEF IInv
<1>3. CASE ~Refuse(s)
  <2> DEFINE new == [name |-> requests[s].name, isSystem |-> FALSE]
  <2>1. PICK p \in PermissionIds :
              ~PermissionExists(p) /\ permissions' = [permissions EXCEPT ![p] = new]
    BY <1>3 DEF CreatePermission
  <2>2. /\ PermissionsNamed({requests[s].name}) = {} /\ requests' = Ended(s)
        /\ UNCHANGED <<roles, users, overtaken>> /\ Stay
    BY <1>3 DEF CreatePermission
  <2>3. requests[s].name \in PermissionNames
    BY <1>1, Typed DEF Fits
  <2>4. Tables'
    <3>1. new \in PermissionRows
      BY <2>3 DEF PermissionRows
    <3>2. \A q \in PermissionIds \ {p} : permissions[q].name # new.name
      BY <2>2 DEF PermissionsNamed
    <3> QED
      BY <2>1, <2>2, <3>1, <3>2, PermissionWritten DEF IInv, Core
  <2>5. /\ RequestsOK' /\ SeedOK' /\ FlagsOK' /\ \A q \in Slots : Carried(q, {}, {})
    BY <1>1, <2>2, WriteSlots DEF IInv, Core, FlagsOK
  <2>6. /\ \A q \in RoleIds : Holders(q) = {} => Holders(q)' = {}
        /\ \A q \in PermissionIds : Grantors(q) = {} => Grantors(q)' = {}
        /\ \A q \in RoleIds : ~roles[q].isSystem => ~roles'[q].isSystem
        /\ \A q \in PermissionIds : ~permissions[q].isSystem => ~permissions'[q].isSystem
    BY <2>1, <2>2 DEF IInv, Core, Tables, PermissionsOK, Holders, Grantors
  <2> QED
    BY <2>4, <2>5, <2>6, CarriedStep DEF IInv, Core
<1> QED
  BY <1>2, <1>3

LEMMA UpdatePermissionStep ==
    ASSUME IInv, NEW s \in Slots, UpdatePermission(s)
    PROVE  IInv'
<1>1. requests[s].op = "updatePermission"
  BY DEF UpdatePermission, At
<1>2. CASE Refuse(s)
  BY <1>1, <1>2, RefuseStep DEF IInv
<1>3. CASE ~Refuse(s)
  <2> DEFINE p == requests[s].id
             new == [permissions[p] EXCEPT !.name = requests[s].name]
  <2>1. /\ PermissionExists(p) /\ PermissionsNamed({requests[s].name}) \subseteq {p}
        /\ requests' = Ended(s) /\ overtaken' = (overtaken \/ requests[s].adopted)
        /\ UNCHANGED <<roles, users>> /\ Stay
        /\ permissions' = [permissions EXCEPT ![p] = new]
    BY <1>3 DEF UpdatePermission
  <2>2. p \in PermissionIds /\ requests[s].name \in PermissionNames
    BY <1>1, Typed DEF Fits
  <2>3. permissions[p] \in PermissionRows
    BY <2>1, <2>2, PermissionFacts DEF IInv, Core, Tables
  <2>9. new \in PermissionRows /\ new.isSystem = permissions[p].isSystem
        /\ new.name = requests[s].name
    BY <2>2, <2>3 DEF PermissionRows
  <2> HIDE DEF new
  <2>4. Tables'
    <3>2. \A q \in PermissionIds \ {p} : permissions[q].name # new.name
      BY <2>1, <2>9 DEF PermissionsNamed
    <3> QED
      BY <2>1, <2>2, <2>9, <3>2, PermissionWritten DEF IInv, Core
  <2>5. /\ RequestsOK' /\ SeedOK' /\ FlagsOK' /\ \A q \in Slots : Carried(q, {}, {})
    BY <1>1, <2>1, WriteSlots DEF IInv, Core, FlagsOK
  <2>6. /\ \A q \in RoleIds : Holders(q) = {} => Holders(q)' = {}
        /\ \A q \in PermissionIds : Grantors(q) = {} => Grantors(q)' = {}
        /\ \A q \in RoleIds : ~roles[q].isSystem => ~roles'[q].isSystem
        /\ \A q \in PermissionIds : ~permissions[q].isSystem => ~permissions'[q].isSystem
    BY <2>1, <2>9 DEF IInv, Core, Tables, PermissionsOK, Holders, Grantors
  <2> QED
    BY <2>4, <2>5, <2>6, CarriedStep DEF IInv, Core
<1> QED
  BY <1>2, <1>3

(* What a deleted permission leaves of a role.                              *)
LEMMA GrantsWithout ==
    ASSUME RolesOK, NEW p \in PermissionIds, NEW r \in RoleIds
    PROVE  LET new == [roles[r] EXCEPT !.grants = @ \ {p}]
           IN  /\ new \in RoleRows \cup {NoRole} /\ (new = NoRole <=> roles[r] = NoRole)
               /\ new.name = roles[r].name /\ new.isSystem = roles[r].isSystem
               /\ new.grants = roles[r].grants \ {p}
<1>1. CASE roles[r] = NoRole
  <2>0. NoRole.grants \ {p} = NoRole.grants
    BY DEF NoRole
  <2>1. [NoRole EXCEPT !.grants = @ \ {p}] = NoRole
    BY <2>0 DEF NoRole
  <2> QED
    BY <1>1, <2>1 DEF NoRole
<1>2. CASE roles[r] # NoRole
  <2>1. roles[r] \in RoleRows
    BY <1>2 DEF RolesOK
  <2>2. [roles[r] EXCEPT !.grants = @ \ {p}].name \in RoleNames
    BY <2>1 DEF RoleRows
  <2>3. [roles[r] EXCEPT !.grants = @ \ {p}] # NoRole
    BY <2>2, KeysAssumption DEF NoRole
  <2> QED
    BY <1>2, <2>1, <2>3 DEF RoleRows
<1> QED
  BY <1>1, <1>2

LEMMA DeletePermissionStep ==
    ASSUME IInv, NEW s \in Slots, DeletePermission(s)
    PROVE  IInv'
<1>1. requests[s].op = "deletePermission"
  BY DEF DeletePermission, At
<1>2. CASE Refuse(s)
  BY <1>1, <1>2, RefuseStep DEF IInv
<1>3. CASE ~Refuse(s)
  <2> DEFINE p == requests[s].id
  <2>1. /\ permissions' = [permissions EXCEPT ![p] = NoPermission]
        /\ roles' = [r \in RoleIds |-> [roles[r] EXCEPT !.grants = @ \ {p}]]
        /\ requests' = Ended(s) /\ overtaken' = (overtaken \/ requests[s].adopted)
        /\ UNCHANGED users /\ Stay
    BY <1>3 DEF DeletePermission
  <2>2. p \in PermissionIds
    BY <1>1, Typed DEF Fits
  <2>3. NoPermission.isSystem = FALSE /\ NoPermission.name = None
    BY DEF NoPermission
  <2>7. \A r \in RoleIds :
           /\ roles'[r] \in RoleRows \cup {NoRole}
           /\ (roles'[r] = NoRole <=> roles[r] = NoRole)
           /\ roles'[r].name = roles[r].name /\ roles'[r].isSystem = roles[r].isSystem
           /\ roles'[r].grants = roles[r].grants \ {p}
    BY <2>1, <2>2, GrantsWithout DEF IInv, Core, Tables
  <2>4. Tables'
    <3>1. PermissionsOK'
      BY <2>1, <2>2 DEF IInv, Core, Tables, PermissionsOK
    <3>2. UniquePermissions'
      <4>1. \A x \in PermissionIds : PermissionExists(x) => permissions[x].name # None
        BY PermissionFacts, KeysAssumption DEF IInv, Core, Tables
      <4> QED
        BY <2>1, <2>2, <2>3, <4>1 DEF IInv, Core, Tables, PermissionsOK,
           UniquePermissions, PermissionExists
    <3>3. RolesOK'
      BY <2>1, <2>7 DEF RolesOK
    <3>6. UniqueRoles'
      BY <2>7 DEF IInv, Core, Tables, UniqueRoles, RoleExists
    <3>7. AssignmentsExist'
      BY <2>1, <2>7 DEF IInv, Core, Tables, UsersOK, AssignmentsExist, RoleExists
    <3>4. UniqueRoles' /\ AssignmentsExist'
      BY <3>6, <3>7
    <3>5. GrantsExist'
      BY <2>1, <2>2, <2>7, RoleFacts DEF IInv, Core, Tables, PermissionsOK, GrantsExist,
         PermissionExists
    <3> QED
      BY <2>1, <3>1, <3>2, <3>3, <3>4, <3>5 DEF IInv, Core, Tables, UsersOK
  <2>5. /\ RequestsOK' /\ SeedOK' /\ FlagsOK' /\ \A q \in Slots : Carried(q, {}, {})
    BY <1>1, <2>1, WriteSlots DEF IInv, Core, FlagsOK
  <2>6. /\ \A q \in RoleIds : Holders(q) = {} => Holders(q)' = {}
        /\ \A q \in PermissionIds : Grantors(q) = {} => Grantors(q)' = {}
        /\ \A q \in RoleIds : ~roles[q].isSystem => ~roles'[q].isSystem
        /\ \A q \in PermissionIds : ~permissions[q].isSystem => ~permissions'[q].isSystem
    BY <2>1, <2>2, <2>3, <2>7 DEF IInv, Core, Tables, PermissionsOK, Holders, Grantors
  <2> QED
    BY <2>4, <2>5, <2>6, CarriedStep DEF IInv, Core
<1> QED
  BY <1>2, <1>3

LEMMA AssignRolesStep ==
    ASSUME IInv, NEW s \in Slots, AssignRoles(s)
    PROVE  IInv'
<1>1. requests[s].op \in {"createUser", "updateUserRoles"}
  BY DEF AssignRoles, Validated, At
<1>2. CASE Refuse(s)
  BY <1>1, <1>2, RefuseStep DEF IInv
<1>3. CASE ~Refuse(s)
  <2> DEFINE u == requests[s].id
             assigned == RolesNamed(requests[s].names)
  <2>1. /\ users' = [users EXCEPT ![u] = assigned] /\ requests' = Link(Ended(s), assigned)
        /\ UNCHANGED <<roles, permissions, overtaken>> /\ Stay
    BY <1>3 DEF AssignRoles
  <2>2. u \in Users /\ assigned \in SUBSET RoleIds /\ \A r \in assigned : RoleExists(r)
    BY <1>1, Typed, NamedExist DEF Fits, UserOps, IInv, Core, Tables
  <2> HIDE DEF assigned
  <2>4. Tables'
    BY <2>1, <2>2, UserWritten DEF IInv, Core
  <2>5. /\ RequestsOK' /\ SeedOK' /\ FlagsOK'
        /\ \A q \in Slots : Carried(q, assigned, {})
    BY <1>1, <2>1, WriteSlots DEF IInv, Core, FlagsOK
  <2>6. /\ \A q \in RoleIds \ assigned : Holders(q) = {} => Holders(q)' = {}
        /\ \A q \in PermissionIds \ assigned : Grantors(q) = {} => Grantors(q)' = {}
        /\ \A q \in RoleIds : ~roles[q].isSystem => ~roles'[q].isSystem
        /\ \A q \in PermissionIds : ~permissions[q].isSystem => ~permissions'[q].isSystem
    BY <2>1, <2>2 DEF IInv, Core, Tables, UsersOK, Holders, Grantors
  <2> QED
    BY <2>4, <2>5, <2>6, CarriedStep DEF IInv, Core
<1> QED
  BY <1>2, <1>3

(* The onboarding route: roles that are missing are added, no other row of   *)
(* the table is touched, and the new user is given rows that exist.         *)
LEMMA RegisterUserStep ==
    ASSUME IInv, NEW s \in Slots, RegisterUser(s)
    PROVE  IInv'
<1>1. requests[s].op = "registerUser"
  BY DEF RegisterUser, At
<1>2. CASE Refuse(s)
  BY <1>1, <1>2, RefuseStep DEF IInv
<1>3. CASE ~Refuse(s)
  <2> DEFINE u == requests[s].id
             missing == {n \in requests[s].names : RolesNamed({n}) = {}}
             free == {r \in RoleIds : ~RoleExists(r)}
             table(keys) == [r \in RoleIds |->
                  IF \E n \in missing : keys[n] = r
                  THEN [NoRole EXCEPT !.name = CHOOSE n \in missing : keys[n] = r]
                  ELSE roles[r]]
             given(keys) == {r \in RoleIds : table(keys)[r].name \in requests[s].names}
  <2>0. /\ users[u] = NoUser
        /\ \E keys \in [missing -> free] :
              /\ \A m, n \in missing : keys[m] = keys[n] => m = n
              /\ roles' = table(keys) /\ users' = [users EXCEPT ![u] = given(keys)]
              /\ requests' = Link(Ended(s), given(keys))
        /\ UNCHANGED <<permissions, overtaken>> /\ Stay
    BY <1>3 DEF RegisterUser
  <2>1. PICK keys \in [missing -> free] :
          /\ \A m, n \in missing : keys[m] = keys[n] => m = n
          /\ roles' = table(keys) /\ users' = [users EXCEPT ![u] = given(keys)]
          /\ requests' = Link(Ended(s), given(keys))
    BY <2>0
  <2> DEFINE assigned == {r \in RoleIds : roles'[r].name \in requests[s].names}
  <2>2. /\ u \in Users /\ missing \subseteq RoleNames /\ requests[s].names \subseteq RoleNames
        /\ None \notin RoleNames
    BY <1>1, Typed, KeysAssumption DEF Fits, UserOps
  <2>3. ASSUME NEW r \in RoleIds
        PROVE  \/ roles'[r] = roles[r]
               \/ /\ ~RoleExists(r) /\ roles'[r] \in RoleRows /\ roles'[r].isSystem = FALSE
                  /\ roles'[r].grants = {} /\ roles'[r].name \in missing
                  /\ keys[roles'[r].name] = r
    <3>1. CASE \E n \in missing : keys[n] = r
      <4> DEFINE c == CHOOSE n \in missing : keys[n] = r
      <4>1. c \in missing /\ keys[c] = r
        BY <3>1
      <4>2. /\ roles'[r] = [NoRole EXCEPT !.name = c]
            /\ ~RoleExists(r)
        <5>1. roles'[r] = [NoRole EXCEPT !.name = c]
          BY <2>1, <3>1
        <5>2. keys[c] \in free
          BY <4>1
        <5> QED
          BY <4>1, <5>1, <5>2
      <4> HIDE DEF c
      <4> QED
        BY <2>2, <4>1, <4>2 DEF NoRole, RoleRows
    <3>2. CASE ~\E n \in missing : keys[n] = r
      BY <2>1, <3>2
    <3> QED
      BY <3>1, <3>2
  <2>7. /\ users' = [users EXCEPT ![u] = assigned] /\ requests' = Link(Ended(s), assigned)
        /\ UNCHANGED <<permissions, overtaken>> /\ Stay /\ DOMAIN roles' = RoleIds
        /\ roles' = [r \in RoleIds |-> roles'[r]]
    <3>1. assigned = given(keys)
      BY <2>1
    <3> HIDE DEF assigned, given
    <3> QED
      BY <2>0, <2>1, <3>1
  <2>8. /\ RolesOK /\ PermissionsOK /\ UsersOK /\ UniqueRoles /\ GrantsExist
        /\ AssignmentsExist
    BY DEF IInv, Core, Tables
  <2>4. Tables'
    <3>1. RolesOK'
      BY <2>3, <2>7, <2>8 DEF RolesOK
    <3>2. UniqueRoles'
      <4> SUFFICES ASSUME NEW r \in RoleIds, NEW q \in RoleIds, roles'[r] # NoRole,
                          roles'[r].name = roles'[q].name
                   PROVE  r = q
        BY DEF UniqueRoles, RoleExists
      <4>1. ASSUME NEW z \in RoleIds, roles[z].name \in missing PROVE FALSE
        BY <4>1 DEF RolesNamed
      <4>2. CASE roles'[r] = roles[r] /\ roles'[q] = roles[q]
        BY <2>8, <4>2 DEF UniqueRoles, RoleExists
      <4>3. CASE roles'[r] # roles[r]
        <5>1. roles'[r].name \in missing /\ keys[roles'[r].name] = r
          BY <2>3, <4>3
        <5>2. roles'[q] # roles[q]
          BY <4>1, <5>1
        <5> QED
          BY <2>3, <5>1, <5>2
      <4>4. CASE roles'[q] # roles[q]
        <5>1. roles'[q].name \in missing /\ keys[roles'[q].name] = q
          BY <2>3, <4>4
        <5>2. roles'[r] # roles[r]
          BY <4>1, <5>1
        <5> QED
          BY <2>3, <5>1, <5>2
      <4> QED
        BY <4>2, <4>3, <4>4
    <3>3. GrantsExist'
      <4> SUFFICES ASSUME NEW r \in RoleIds, NEW p \in roles'[r].grants
                   PROVE  permissions[p] # NoPermission
        BY <2>7 DEF GrantsExist, PermissionExists
      <4>1. roles'[r] = roles[r]
        BY <2>3
      <4> QED
        BY <2>8, <4>1 DEF GrantsExist, PermissionExists
    <3>4. assigned \in SUBSET RoleIds /\ \A r \in assigned : roles'[r] # NoRole
      BY <2>2 DEF NoRole
    <3>5. UsersOK'
      BY <2>2, <2>7, <2>8, <3>4 DEF UsersOK
    <3>6. AssignmentsExist'
      <4> SUFFICES ASSUME NEW v \in Users, users'[v] # NoUser, NEW r \in users'[v]
                   PROVE  roles'[r] # NoRole
        BY DEF AssignmentsExist, RoleExists
      <4>1. CASE v = u
        BY <2>2, <2>7, <2>8, <3>4, <4>1 DEF UsersOK
      <4>2. CASE v # u
        <5>1. roles[r] # NoRole /\ r \in RoleIds
          BY <2>2, <2>7, <2>8, <4>2 DEF UsersOK, AssignmentsExist, RoleExists
        <5> QED
          BY <2>3, <5>1 DEF RoleExists
      <4> QED
        BY <4>1, <4>2
    <3> QED
      BY <2>7, <2>8, <3>1, <3>2, <3>3, <3>5, <3>6 DEF IInv, Core, Tables, PermissionsOK,
         UniquePermissions, PermissionExists
  <2> HIDE DEF assigned
  <2>5. /\ RequestsOK' /\ SeedOK' /\ FlagsOK'
        /\ \A q \in Slots : Carried(q, assigned, {})
    BY <1>1, <2>7, WriteSlots DEF IInv, Core, FlagsOK
  <2>6. /\ \A q \in RoleIds \ assigned : Holders(q) = {} => Holders(q)' = {}
        /\ \A q \in PermissionIds \ assigned : Grantors(q) = {} => Grantors(q)' = {}
        /\ \A q \in RoleIds : ~roles[q].isSystem => ~roles'[q].isSystem
        /\ \A q \in PermissionIds : ~permissions[q].isSystem => ~permissions'[q].isSystem
    <3>1. \A q \in RoleIds \ assigned : Holders(q) = {} => Holders(q)' = {}
      BY <2>2, <2>7, <2>8 DEF UsersOK, Holders
    <3>2. \A q \in PermissionIds : Grantors(q) = {} => Grantors(q)' = {}
      BY <2>3 DEF Grantors
    <3>3. \A q \in RoleIds : ~roles[q].isSystem => ~roles'[q].isSystem
      BY <2>3
    <3> QED
      BY <2>7, <3>1, <3>2, <3>3
  <2> QED
    BY <2>4, <2>5, <2>6, CarriedStep DEF IInv, Core
<1> QED
  BY <1>2, <1>3

LEMMA WriteStep ==
    ASSUME IInv, NEW s \in Slots, WriteRequest(s)
    PROVE  IInv'
  BY CreateRoleStep, UpdateRoleStep, DeleteRoleStep, CreatePermissionStep,
     UpdatePermissionStep, DeletePermissionStep, AssignRolesStep, RegisterUserStep
     DEF WriteRequest

-----------------------------------------------------------------------------
(* The seed.                                                                *)
LEMMA TaskFacts ==
    ASSUME NEW t \in Tasks
    PROVE  /\ t[1] = "permission" => t[2] \in DefaultPermissions
           /\ t[1] = "role" => t[2] \in DefaultRoles
           /\ t[1] = "grant" => t[2] \in DefaultRoles /\ t[3] \in DefaultGrants[t[2]]
           /\ t[1] = "user" => t[2] \in DOMAIN SeededUsers
<1>1. CASE t \in {"permission"} \X DefaultPermissions
  BY <1>1
<1>2. CASE t \in {"role"} \X DefaultRoles
  BY <1>2
<1>3. CASE \E r \in DefaultRoles : t \in {"grant"} \X {r} \X DefaultGrants[r]
  BY <1>3
<1>4. CASE t \in {"user"} \X DOMAIN SeededUsers
  BY <1>4
<1>5. \/ t \in {"permission"} \X DefaultPermissions \/ t \in {"role"} \X DefaultRoles
      \/ t \in UNION {{"grant"} \X {r} \X DefaultGrants[r] : r \in DefaultRoles}
      \/ t \in {"user"} \X DOMAIN SeededUsers
  BY DEF Tasks
<1>6. t \in UNION {{"grant"} \X {r} \X DefaultGrants[r] : r \in DefaultRoles}
        => \E r \in DefaultRoles : t \in {"grant"} \X {r} \X DefaultGrants[r]
  BY Zenon
<1> QED
  BY <1>1, <1>2, <1>3, <1>4, <1>5, <1>6

(* The slots after a step of the seed.                                      *)
LEMMA SeedSlots ==
    ASSUME Core, NEW t \in todo, todo' = todo \ {t}, UNCHANGED <<completed, overtaken>>,
           NEW ids, NEW jds,
           \/ requests' = requests /\ ids = {} /\ jds = {}
           \/ requests' = Adopt(requests, jds) /\ ids = {}
           \/ requests' = Link(requests, ids) /\ jds = {}
    PROVE  /\ RequestsOK' /\ SeedOK' /\ FlagsOK'
           /\ \A q \in Slots : Carried(q, ids, jds)
<1>1. requests \in [Slots -> RequestRows] /\ \A q \in Slots : Fits(requests[q])
  BY DEF Core, RequestsOK
<1>2. /\ requests' \in [Slots -> RequestRows]
      /\ \A q \in Slots : /\ Fits(requests'[q]) /\ Carried(q, ids, jds)
                          /\ requests'[q].op = requests[q].op
  <2>1. CASE requests' = requests /\ ids = {} /\ jds = {}
    BY <1>1, <2>1 DEF Carried, Kept
  <2>2. CASE requests' = Adopt(requests, jds) /\ ids = {}
    BY <1>1, <2>2, AdoptOK DEF Carried, Kept
  <2>3. CASE requests' = Link(requests, ids) /\ jds = {}
    BY <1>1, <2>3, LinkOK DEF Carried, Kept
  <2> QED
    BY <2>1, <2>2, <2>3
<1> QED
  BY <1>2, SlotsStep DEF Core, FlagsOK

LEMMA SeedPermissionStep ==
    ASSUME IInv, NEW t \in todo, SeedPermission(t)
    PROVE  IInv'
<1> DEFINE new == [name |-> t[2], isSystem |-> TRUE]
           old == PermissionsNamed({t[2]})
<1>1. PICK p \in IF old # {} THEN old ELSE {q \in PermissionIds : ~PermissionExists(q)} :
        /\ permissions' = [permissions EXCEPT ![p] = new]
        /\ requests' = IF permissions[p].isSystem THEN requests ELSE Adopt(requests, {p})
  BY DEF SeedPermission
<1>2. /\ t[1] = "permission" /\ todo' = todo \ {t}
      /\ UNCHANGED <<roles, users, completed, overtaken>>
  BY DEF SeedPermission, Left
<1>3. t[2] \in DefaultPermissions /\ t[2] \in PermissionNames
  BY <1>2, TaskFacts, NamesAssumption DEF IInv, Core, SeedOK
<1>4. p \in PermissionIds /\ \A q \in PermissionIds \ {p} : permissions[q].name # t[2]
  <2>1. CASE old # {}
    <3>1. p \in PermissionIds /\ permissions[p].name = t[2]
      BY <1>1, <2>1 DEF PermissionsNamed
    <3>2. PermissionExists(p)
      BY <1>3, <3>1, PermissionFacts, KeysAssumption DEF IInv, Core, Tables
    <3> QED
      BY <3>1, <3>2 DEF IInv, Core, Tables, UniquePermissions
  <2>2. CASE old = {}
    BY <1>1, <2>2 DEF PermissionsNamed
  <2> QED
    BY <2>1, <2>2
<1>5. Tables'
  <2>1. new \in PermissionRows
    BY <1>3 DEF PermissionRows
  <2> QED
    BY <1>1, <1>2, <1>4, <2>1, PermissionWritten DEF IInv, Core
<1>6. PICK jds : /\ \/ requests' = requests /\ jds = {}
                    \/ requests' = Adopt(requests, jds)
                 /\ ~permissions[p].isSystem => p \in jds
  BY <1>1
<1>7. RequestsOK' /\ SeedOK' /\ FlagsOK' /\ \A q \in Slots : Carried(q, {}, jds)
  BY <1>2, <1>6, SeedSlots DEF IInv
<1>8. /\ \A q \in RoleIds : Holders(q) = {} => Holders(q)' = {}
      /\ \A q \in PermissionIds : Grantors(q) = {} => Grantors(q)' = {}
      /\ \A q \in RoleIds : ~roles[q].isSystem => ~roles'[q].isSystem
      /\ \A q \in PermissionIds \ jds :
            ~permissions[q].isSystem => ~permissions'[q].isSystem
  BY <1>1, <1>2, <1>4, <1>6 DEF IInv, Core, Tables, PermissionsOK, Holders, Grantors
<1> QED
  BY <1>5, <1>7, <1>8, CarriedStep DEF IInv, Core

LEMMA SeedRoleStep ==
    ASSUME IInv, NEW t \in todo, SeedRole(t)
    PROVE  IInv'
<1> DEFINE old == RolesNamed({t[2]})
<1>1. PICK r \in IF old # {} THEN old ELSE {q \in RoleIds : ~RoleExists(q)} :
        /\ roles' = [roles EXCEPT ![r].name = t[2], ![r].isSystem = TRUE]
        /\ requests' = IF roles[r].isSystem THEN requests ELSE Adopt(requests, {r})
  BY DEF SeedRole
<1>2. /\ t[1] = "role" /\ todo' = todo \ {t}
      /\ UNCHANGED <<permissions, users, completed, overtaken>>
  BY DEF SeedRole, Left
<1>3. t[2] \in DefaultRoles /\ t[2] \in RoleNames
  BY <1>2, TaskFacts, NamesAssumption DEF IInv, Core, SeedOK
<1>4. r \in RoleIds /\ \A q \in RoleIds \ {r} : roles[q].name # t[2]
  <2>1. CASE old # {}
    <3>1. r \in RoleIds /\ roles[r].name = t[2]
      BY <1>1, <2>1 DEF RolesNamed
    <3>2. RoleExists(r)
      BY <1>3, <3>1, RoleFacts, KeysAssumption DEF IInv, Core, Tables
    <3> QED
      BY <3>1, <3>2 DEF IInv, Core, Tables, UniqueRoles
  <2>2. CASE old = {}
    BY <1>1, <2>2 DEF RolesNamed
  <2> QED
    BY <2>1, <2>2
<1> DEFINE new == [roles[r] EXCEPT !.name = t[2], !.isSystem = TRUE]
<1>9. /\ new \in RoleRows /\ new.name = t[2] /\ new.grants = roles[r].grants
      /\ roles' = [roles EXCEPT ![r] = new]
  <2>1. roles[r].grants \subseteq PermissionIds
    BY <1>4, RoleFacts DEF IInv, Core, Tables
  <2>2. roles[r] \in RoleRows \/ roles[r] = NoRole
    BY <1>4 DEF IInv, Core, Tables, RolesOK
  <2>3. new \in RoleRows /\ new.name = t[2] /\ new.grants = roles[r].grants
    <3>1. CASE roles[r] \in RoleRows
      BY <1>3, <3>1 DEF RoleRows
    <3>2. CASE roles[r] = NoRole
      <4>1. roles[r] \in [name : {None}, isSystem : BOOLEAN, grants : SUBSET PermissionIds]
        BY <3>2 DEF NoRole
      <4> QED
        BY <1>3, <4>1 DEF RoleRows
    <3> QED
      BY <2>2, <3>1, <3>2
  <2>4. roles' = [roles EXCEPT ![r] = new]
    BY <1>1, <1>4, <2>2 DEF IInv, Core, Tables, RolesOK
  <2> QED
    BY <2>3, <2>4
<1> HIDE DEF new
<1>5. Tables'
  <2>1. \A p \in new.grants : PermissionExists(p)
    BY <1>4, <1>9 DEF IInv, Core, Tables, GrantsExist
  <2> QED
    BY <1>2, <1>4, <1>9, <2>1, RoleWritten DEF IInv, Core
<1>6. PICK jds : /\ \/ requests' = requests /\ jds = {}
                    \/ requests' = Adopt(requests, jds)
                 /\ ~roles[r].isSystem => r \in jds
  BY <1>1
<1>7. RequestsOK' /\ SeedOK' /\ FlagsOK' /\ \A q \in Slots : Carried(q, {}, jds)
  BY <1>2, <1>6, SeedSlots DEF IInv
<1>8. /\ \A q \in RoleIds : Holders(q) = {} => Holders(q)' = {}
      /\ \A q \in PermissionIds : Grantors(q) = {} => Grantors(q)' = {}
      /\ \A q \in RoleIds \ jds : ~roles[q].isSystem => ~roles'[q].isSystem
      /\ \A q \in PermissionIds : ~permissions[q].isSystem => ~permissions'[q].isSystem
  BY <1>2, <1>4, <1>6, <1>9 DEF IInv, Core, Tables, RolesOK, Holders, Grantors
<1> QED
  BY <1>5, <1>7, <1>8, CarriedStep DEF IInv, Core

(* What a grant of the seed makes of a role.                                *)
LEMMA GrantsWith ==
    ASSUME RolesOK, NEW r \in RoleIds, RoleExists(r), NEW P \in SUBSET PermissionIds
    PROVE  LET new == [roles[r] EXCEPT !.grants = @ \cup P]
           IN  /\ new \in RoleRows /\ new.name = roles[r].name
               /\ new.isSystem = roles[r].isSystem /\ new.grants = roles[r].grants \cup P
  BY RoleFacts DEF RoleRows

LEMMA SeedGrantStep ==
    ASSUME IInv, NEW t \in todo, SeedGrant(t)
    PROVE  IInv'
<1> DEFINE P == PermissionsNamed({t[3]})
<1>1. t[1] = "grant" /\ UNCHANGED <<permissions, users, completed, overtaken>>
  BY DEF SeedGrant, Left
<1>2. /\ t[2] \in RoleNames /\ t[3] \in PermissionNames /\ None \notin RoleNames
      /\ P \in SUBSET PermissionIds /\ \A p \in P : PermissionExists(p)
  <2>1. t[2] \in DefaultRoles /\ t[3] \in DefaultGrants[t[2]]
    BY <1>1, TaskFacts DEF IInv, Core, SeedOK
  <2>2. t[2] \in RoleNames /\ t[3] \in PermissionNames /\ None \notin RoleNames
    BY <2>1, NamesAssumption, KeysAssumption
  <2> QED
    BY <2>2, NamedExist DEF IInv, Core, Tables
<1>3. CASE RolesNamed({t[2]}) # {} /\ P # {}
  <2>1. /\ roles' = [r \in RoleIds |->
                        IF roles[r].name = t[2]
                        THEN [roles[r] EXCEPT !.grants = @ \cup P]
                        ELSE roles[r]]
        /\ requests' = Link(requests, P) /\ todo' = todo \ {t}
    BY <1>3 DEF SeedGrant
  <2>2. ASSUME NEW r \in RoleIds
        PROVE  /\ roles'[r] \in RoleRows \cup {NoRole}
               /\ (roles'[r] = NoRole <=> roles[r] = NoRole)
               /\ roles'[r].name = roles[r].name /\ roles'[r].isSystem = roles[r].isSystem
               /\ roles[r].grants \subseteq roles'[r].grants
               /\ roles'[r].grants \subseteq roles[r].grants \cup P
    <3>1. CASE roles[r].name = t[2]
      <4>1. RoleExists(r)
        BY <1>2, <3>1, RoleFacts DEF IInv, Core, Tables
      <4>2. roles'[r] = [roles[r] EXCEPT !.grants = @ \cup P]
        BY <2>1, <3>1
      <4>3. roles'[r] \in RoleRows
        BY <1>2, <4>1, <4>2, GrantsWith DEF IInv, Core, Tables
      <4>4. roles'[r] # NoRole
        BY <4>3, KeysAssumption DEF RoleRows, NoRole
      <4> HIDE DEF P
      <4> QED
        BY <1>2, <4>1, <4>2, <4>3, <4>4, GrantsWith DEF IInv, Core, Tables, RoleExists
    <3>2. CASE roles[r].name # t[2]
      BY <2>1, <3>2 DEF IInv, Core, Tables, RolesOK
    <3> QED
      BY <3>1, <3>2
  <2> HIDE DEF P
  <2>4. Tables'
    <3>1. RolesOK'
      BY <2>1, <2>2 DEF RolesOK
    <3>2. UniqueRoles'
      BY <2>2 DEF IInv, Core, Tables, UniqueRoles, RoleExists
    <3>3. GrantsExist'
      BY <1>1, <1>2, <2>2 DEF IInv, Core, Tables, GrantsExist, PermissionExists
    <3>4. AssignmentsExist'
      BY <1>1, <2>2 DEF IInv, Core, Tables, UsersOK, AssignmentsExist, RoleExists
    <3> QED
      BY <1>1, <3>1, <3>2, <3>3, <3>4 DEF IInv, Core, Tables, PermissionsOK, UsersOK,
         UniquePermissions, PermissionExists
  <2>5. RequestsOK' /\ SeedOK' /\ FlagsOK' /\ \A q \in Slots : Carried(q, P, {})
    BY <1>1, <2>1, SeedSlots DEF IInv
  <2>6. /\ \A q \in RoleIds \ P : Holders(q) = {} => Holders(q)' = {}
        /\ \A q \in PermissionIds \ P : Grantors(q) = {} => Grantors(q)' = {}
        /\ \A q \in RoleIds : ~roles[q].isSystem => ~roles'[q].isSystem
        /\ \A q \in PermissionIds : ~permissions[q].isSystem => ~permissions'[q].isSystem
    BY <1>1, <2>2 DEF Holders, Grantors
  <2> QED
    BY <2>4, <2>5, <2>6, CarriedStep DEF IInv, Core
<1>4. CASE ~(RolesNamed({t[2]}) # {} /\ P # {})
  <2>1. /\ requests' = [s \in Slots |-> IF requests[s].op = "seed"
                                        THEN Idle ELSE requests[s]]
        /\ todo' = {} /\ UNCHANGED roles
    BY <1>4 DEF SeedGrant
  <2>2. /\ requests' \in [Slots -> RequestRows]
        /\ \A q \in Slots : /\ Fits(requests'[q]) /\ Carried(q, {}, {})
                            /\ requests'[q].op = "seed" => requests[q].op = "seed"
    BY <2>1, IdleOK DEF IInv, Core, RequestsOK, Carried, Kept, Idle
  <2>3. RequestsOK' /\ SeedOK' /\ FlagsOK' /\ Tables'
    BY <1>1, <2>1, <2>2, SlotsStep, TablesKept DEF IInv, Core, FlagsOK
  <2>4. /\ \A q \in RoleIds : Holders(q) = {} => Holders(q)' = {}
        /\ \A q \in PermissionIds : Grantors(q) = {} => Grantors(q)' = {}
        /\ \A q \in RoleIds : ~roles[q].isSystem => ~roles'[q].isSystem
        /\ \A q \in PermissionIds : ~permissions[q].isSystem => ~permissions'[q].isSystem
    BY <1>1, <2>1 DEF Holders, Grantors
  <2> QED
    BY <2>2, <2>3, <2>4, CarriedStep DEF IInv, Core
<1> QED
  BY <1>3, <1>4

LEMMA SeedUserStep ==
    ASSUME IInv, NEW t \in todo, SeedUser(t)
    PROVE  IInv'
<1> DEFINE given == RolesNamed({SeededUsers[t[2]]})
<1>1. /\ t[1] = "user" /\ users' = [users EXCEPT ![t[2]] = given]
      /\ requests' = Link(requests, given) /\ todo' = todo \ {t}
      /\ UNCHANGED <<roles, permissions, completed, overtaken>>
  BY DEF SeedUser, Left
<1>2. t[2] \in Users /\ given \in SUBSET RoleIds /\ \A r \in given : RoleExists(r)
  <2>1. t[2] \in DOMAIN SeededUsers
    BY <1>1, TaskFacts DEF IInv, Core, SeedOK
  <2>2. t[2] \in Users /\ SeededUsers[t[2]] \in RoleNames
    BY <2>1, SeededUsersAssumption, NamesAssumption
  <2> QED
    BY <2>2, NamedExist DEF IInv, Core, Tables
<1> HIDE DEF given
<1>3. Tables'
  BY <1>1, <1>2, UserWritten DEF IInv, Core
<1>4. RequestsOK' /\ SeedOK' /\ FlagsOK' /\ \A q \in Slots : Carried(q, given, {})
  BY <1>1, SeedSlots DEF IInv
<1>5. /\ \A q \in RoleIds \ given : Holders(q) = {} => Holders(q)' = {}
      /\ \A q \in PermissionIds \ given : Grantors(q) = {} => Grantors(q)' = {}
      /\ \A q \in RoleIds : ~roles[q].isSystem => ~roles'[q].isSystem
      /\ \A q \in PermissionIds : ~permissions[q].isSystem => ~permissions'[q].isSystem
  BY <1>1, <1>2 DEF IInv, Core, Tables, UsersOK, Holders, Grantors
<1> QED
  BY <1>3, <1>4, <1>5, CarriedStep DEF IInv, Core

LEMMA StartSeedStep ==
    ASSUME IInv, NEW s \in Slots, StartSeed(s)
    PROVE  IInv'
<1> DEFINE q == Request("seed", "write", None, None, {})
<1>1. /\ \A z \in Slots : requests[z].op # "seed"
      /\ requests' = [requests EXCEPT ![s] = q] /\ todo' = Tasks
      /\ UNCHANGED <<roles, permissions, users, completed, overtaken>>
  BY DEF StartSeed
<1>2. q \in RequestRows /\ q.op = "seed" /\ q.pc = "write"
  <2>1. "seed" \in Ops /\ "write" \in Stops /\ None \in Ids /\ None \in Names
        /\ {} \in NameSets
    BY DEF Ops, Stops, Ids, Names, NameSets
  <2> QED
    BY <2>1, RequestOK
<1> HIDE DEF q
<1>3. Fits(q)
  BY <1>2 DEF Fits, RoleOps, PermissionOps, UserOps
<1>4. RequestsOK' /\ SeedOK'
  BY <1>1, <1>2, <1>3 DEF IInv, Core, RequestsOK, SeedOK
<1>5. Tables' /\ FlagsOK'
  BY <1>1, TablesKept DEF IInv, Core, FlagsOK
<1>6. Counted'
  BY <1>1, <1>2 DEF IInv, Core, RequestsOK, Counted, Holders, Grantors
<1>7. Ordinary'
  BY <1>1, <1>2 DEF IInv, Core, RequestsOK, Ordinary
<1> QED
  BY <1>4, <1>5, <1>6, <1>7 DEF IInv, Core

LEMMA EndStep ==
    ASSUME IInv, NEW s \in Slots, CompleteSeed(s) \/ Abandon(s)
    PROVE  IInv'
<1>1. /\ requests' = Ended(s) /\ UNCHANGED <<roles, permissions, users, overtaken>>
      /\ completed' = completed \/ completed' = TRUE
      /\ todo' = {} \/ (todo' = todo /\ requests[s].op # "seed")
  BY DEF CompleteSeed, Abandon
<1>2. /\ requests' \in [Slots -> RequestRows] /\ requests'[s] = Idle
      /\ \A q \in Slots : Fits(requests'[q])
      /\ \A q \in Slots \ {s} : requests'[q] = requests[q]
  BY <1>1, EndedOK DEF IInv, Core
<1>3. RequestsOK' /\ SeedOK'
  <2>1. Idle.op = "none"
    BY DEF Idle
  <2> QED
    BY <1>1, <1>2, <2>1, SlotsStep DEF IInv, Core
<1>4. \A q \in Slots : Carried(q, {}, {})
  BY <1>2 DEF Carried, Kept
<1>5. FlagsOK' /\ Tables'
  BY <1>1, TablesKept DEF IInv, Core, FlagsOK
<1>6. /\ \A q \in RoleIds : Holders(q) = {} => Holders(q)' = {}
      /\ \A q \in PermissionIds : Grantors(q) = {} => Grantors(q)' = {}
      /\ \A q \in RoleIds : ~roles[q].isSystem => ~roles'[q].isSystem
      /\ \A q \in PermissionIds : ~permissions[q].isSystem => ~permissions'[q].isSystem
  BY <1>1 DEF Holders, Grantors
<1> QED
  BY <1>3, <1>4, <1>5, <1>6, CarriedStep DEF IInv, Core

LEMMA DeleteUserStep ==
    ASSUME IInv, NEW u \in Users, DeleteUser(u)
    PROVE  IInv'
<1>1. /\ users' = [users EXCEPT ![u] = NoUser]
      /\ UNCHANGED <<roles, permissions, requests, todo, completed, overtaken>>
  BY DEF DeleteUser, Stay
<1>2. Tables'
  BY <1>1, UserWritten DEF IInv, Core
<1>3. RequestsOK' /\ SeedOK' /\ FlagsOK' /\ \A q \in Slots : Carried(q, {}, {})
  BY <1>1 DEF IInv, Core, RequestsOK, SeedOK, FlagsOK, Carried, Kept
<1>4. /\ \A q \in RoleIds : Holders(q) = {} => Holders(q)' = {}
      /\ \A q \in PermissionIds : Grantors(q) = {} => Grantors(q)' = {}
      /\ \A q \in RoleIds : ~roles[q].isSystem => ~roles'[q].isSystem
      /\ \A q \in PermissionIds : ~permissions[q].isSystem => ~permissions'[q].isSystem
  BY <1>1, KeysAssumption DEF IInv, Core, Tables, UsersOK, Holders, Grantors, NoUser
<1> QED
  BY <1>2, <1>3, <1>4, CarriedStep DEF IInv, Core

LEMMA StutterStep ==
    ASSUME IInv, UNCHANGED vars
    PROVE  IInv'
<1>1. Core'
  BY TablesKept DEF IInv, Core, vars, RequestsOK, SeedOK, FlagsOK
<1>2. Counted' /\ Ordinary'
  BY DEF IInv, vars, Counted, Ordinary, Holders, Grantors
<1> QED
  BY <1>1, <1>2 DEF IInv

LEMMA InitIInv == Init => IInv
<1> SUFFICES ASSUME Init PROVE IInv
  OBVIOUS
<1>1. RequestsOK /\ SeedOK /\ FlagsOK
  BY IdleOK DEF Init, RequestsOK, SeedOK, FlagsOK, Idle
<1>2. RolesOK /\ PermissionsOK /\ UniqueRoles /\ UniquePermissions
  <2>1. RolesOK /\ PermissionsOK
    BY DEF Init, RolesOK, PermissionsOK
  <2>2. UniqueRoles
    BY DEF Init, UniqueRoles
  <2>3. UniquePermissions
    <3> SUFFICES ASSUME NEW p \in PermissionIds, NEW q \in PermissionIds, PermissionExists(p),
                        permissions[p].name = permissions[q].name
                 PROVE  p = q
      BY DEF UniquePermissions
    <3>1. permissions[p].name \in PermissionNames
      BY <2>1, PermissionFacts
    <3>2. PermissionExists(q)
      BY <2>1, <3>1, PermissionFacts, KeysAssumption
    <3>3. permissions[p] \in PermissionRows /\ permissions[q] \in PermissionRows
      BY <2>1, <3>2, PermissionFacts
    <3>4. permissions[p].isSystem /\ permissions[q].isSystem
      BY <3>2 DEF Init
    <3>5. permissions[p] = permissions[q]
      BY <3>3, <3>4 DEF PermissionRows
    <3> QED
      BY <3>5 DEF Init
  <2> QED
    BY <2>1, <2>2, <2>3
<1>3. UsersOK
  BY DEF Init, UsersOK, RolesNamed
<1>4. GrantsExist
  <2> SUFFICES ASSUME NEW r \in RoleIds, NEW p \in roles[r].grants
               PROVE  PermissionExists(p)
    BY DEF GrantsExist
  <2>1. RoleExists(r) /\ roles[r].name \in RoleNames
    BY <1>2, RoleFacts
  <2>2. roles[r].name \in EarlierRoles
    BY <2>1, KeysAssumption DEF Init
  <2>3. p \in PermissionsNamed(DefaultGrants[roles[r].name] \cap EarlierPermissions)
    BY <2>1 DEF Init
  <2>4. DefaultGrants[roles[r].name] \cap EarlierPermissions \in SUBSET PermissionNames
    BY NamesAssumption
  <2> QED
    BY <1>2, <2>3, <2>4, NamedExist
<1>5. AssignmentsExist
  BY <1>2, NamedExist DEF Init, AssignmentsExist
<1>6. Counted /\ Ordinary
  BY DEF Init, Idle, Counted, Ordinary
<1> QED
  BY <1>1, <1>2, <1>3, <1>4, <1>5, <1>6 DEF IInv, Core, Tables

LEMMA NextStep == ASSUME IInv, [Next]_vars PROVE IInv'
<1>1. CASE Next
  <2>1. ASSUME NEW t \in todo, SeedStep(t) PROVE IInv'
    BY <2>1, SeedPermissionStep, SeedRoleStep, SeedGrantStep, SeedUserStep DEF SeedStep
  <2> QED
    BY <1>1, <2>1, BeginStep, CheckStep, WriteStep, EndStep, DeleteUserStep, StartSeedStep
       DEF Next
<1>2. CASE UNCHANGED vars
  BY <1>2, StutterStep
<1> QED
  BY <1>1, <1>2

(* The invariant behind the others: the shape of tables and requests, what   *)
(* a deletion knows after its count, and what a request read as ordinary.   *)
THEOREM Inductive == Spec => []IInv
  BY InitIInv, NextStep, PTL DEF Spec

(* The tables, the requests and the seed's work are well formed, names are   *)
(* unique, every grant and assignment leads to a row that exists.           *)
THEOREM TypeCorrect == Spec => []TypeOK
<1>1. IInv => TypeOK
  BY DEF IInv, Core, Tables, RolesOK, PermissionsOK, UsersOK, RequestsOK, SeedOK, FlagsOK,
     UniqueRoles, UniquePermissions, GrantsExist, AssignmentsExist, TypeOK, RequestRows,
     Ops, Stops, Ids, Names, NameSets
<1> QED
  BY <1>1, Inductive, PTL

-----------------------------------------------------------------------------
(* What the seed leaves of the tables.                                      *)
Adds ==
    /\ \A r \in RoleIds : RoleExists(r) =>
          roles'[r].name = roles[r].name /\ roles[r].grants \subseteq roles'[r].grants
    /\ \A p \in PermissionIds : PermissionExists(p) => permissions'[p].name = permissions[p].name
    /\ \A r \in RoleIds : roles[r].isSystem => roles'[r].isSystem
    /\ \A p \in PermissionIds : permissions[p].isSystem => permissions'[p].isSystem

LEMMA SeedAdds ==
    ASSUME IInv, NEW t \in todo, SeedStep(t)
    PROVE  Adds
<1>1. RolesOK /\ PermissionsOK /\ None \notin RoleNames \cup PermissionNames
  BY KeysAssumption DEF IInv, Core, Tables
<1>2. CASE SeedPermission(t)
  <2> DEFINE old == PermissionsNamed({t[2]})
  <2>1. PICK p \in IF old # {} THEN old ELSE {q \in PermissionIds : ~PermissionExists(q)} :
          permissions' = [permissions EXCEPT ![p] = [name |-> t[2], isSystem |-> TRUE]]
    BY <1>2 DEF SeedPermission
  <2>2. p \in PermissionIds /\ (PermissionExists(p) => permissions[p].name = t[2])
    BY <2>1 DEF PermissionsNamed
  <2>3. roles' = roles
    BY <1>2 DEF SeedPermission
  <2> QED
    BY <1>1, <2>1, <2>2, <2>3 DEF Adds, PermissionsOK
<1>3. CASE SeedRole(t)
  <2> DEFINE old == RolesNamed({t[2]})
  <2>1. PICK r \in IF old # {} THEN old ELSE {q \in RoleIds : ~RoleExists(q)} :
          roles' = [roles EXCEPT ![r].name = t[2], ![r].isSystem = TRUE]
    BY <1>3 DEF SeedRole
  <2>2. r \in RoleIds /\ (RoleExists(r) => roles[r].name = t[2])
    BY <2>1 DEF RolesNamed
  <2>3. permissions' = permissions
    BY <1>3 DEF SeedRole
  <2>4. ASSUME RoleExists(r)
        PROVE  roles'[r].name = roles[r].name /\ roles'[r].grants = roles[r].grants
    <3>1. roles[r] \in RoleRows
      BY <1>1, <2>2, <2>4, RoleFacts
    <3> QED
      BY <1>1, <2>1, <2>2, <2>4, <3>1 DEF RolesOK, RoleRows
  <2>5. \A q \in RoleIds \ {r} : roles'[q] = roles[q]
    BY <1>1, <2>1 DEF RolesOK
  <2>6. ASSUME roles[r].isSystem PROVE roles'[r].isSystem
    <3>1. roles[r] \in RoleRows
      BY <1>1, <2>2, <2>6, RoleFacts
    <3> QED
      BY <1>1, <2>1, <2>2, <3>1 DEF RolesOK, RoleRows
  <2> QED
    BY <2>2, <2>3, <2>4, <2>5, <2>6 DEF Adds
<1>4. CASE SeedGrant(t)
  <2> DEFINE P == PermissionsNamed({t[3]})
  <2>1. permissions' = permissions
    BY <1>4 DEF SeedGrant
  <2>2. CASE roles' = roles
    BY <2>1, <2>2 DEF Adds
  <2>3. CASE roles' = [r \in RoleIds |-> IF roles[r].name = t[2]
                                         THEN [roles[r] EXCEPT !.grants = @ \cup P]
                                         ELSE roles[r]]
    <3>1. P \in SUBSET PermissionIds
      BY DEF PermissionsNamed
    <3> HIDE DEF P
    <3>2. ASSUME NEW r \in RoleIds, RoleExists(r)
          PROVE  /\ roles'[r].name = roles[r].name
                 /\ roles[r].grants \subseteq roles'[r].grants
                 /\ (roles'[r].isSystem <=> roles[r].isSystem)
      <4>1. CASE roles[r].name = t[2]
        <5>1. roles'[r] = [roles[r] EXCEPT !.grants = @ \cup P]
          BY <2>3, <4>1
        <5>2. /\ roles'[r].name = roles[r].name
              /\ roles'[r].grants = roles[r].grants \cup P
              /\ roles'[r].isSystem = roles[r].isSystem
          BY <1>1, <3>1, <3>2, <5>1, GrantsWith
        <5> QED
          BY <5>2
      <4>2. CASE roles[r].name # t[2]
        BY <2>3, <4>2
      <4> QED
        BY <4>1, <4>2
    <3> QED
      BY <1>1, <2>1, <3>2, RoleFacts DEF Adds
  <2> QED
    BY <1>4, <2>2, <2>3 DEF SeedGrant
<1>5. CASE SeedUser(t)
  BY <1>5 DEF SeedUser, Adds
<1> QED
  BY <1>2, <1>3, <1>4, <1>5 DEF SeedStep

LEMMA RequestsKeepTodo ==
    ASSUME NEW s \in Slots, BeginRequest(s) \/ CheckRequest(s) \/ WriteRequest(s)
    PROVE  todo' = todo
<1>1. BeginRequest(s) => todo' = todo
  BY DEF BeginRequest, BeginCreateRole, BeginUpdateRole, BeginDeleteRole,
     BeginCreatePermission, BeginUpdatePermission, BeginDeletePermission,
     BeginUserRoles, Begin, NoWrite, Stay
<1>2. CheckRequest(s) => todo' = todo
  BY DEF CheckRequest, ValidateName, CheckRoleName, CountHolders, CheckPermissionName,
     CountGrantors, GoTo, Refuse, NoWrite, Stay
<1>3. CreateRole(s) \/ UpdateRole(s) \/ DeleteRole(s) => todo' = todo
  BY DEF CreateRole, UpdateRole, DeleteRole, Refuse, NoWrite, Stay
<1>4. CreatePermission(s) \/ UpdatePermission(s) \/ DeletePermission(s) => todo' = todo
  BY DEF CreatePermission, UpdatePermission, DeletePermission, Refuse, NoWrite, Stay
<1>5. AssignRoles(s) \/ RegisterUser(s) => todo' = todo
  BY DEF AssignRoles, RegisterUser, Refuse, NoWrite, Stay
<1> QED
  BY <1>1, <1>2, <1>3, <1>4, <1>5 DEF WriteRequest

(* A step of the seed, whatever it finds, renames and removes no row and     *)
(* takes no grant away.                                                     *)
THEOREM SeedOnlyAddsHolds == Spec => SeedOnlyAdds
<1>1. ASSUME IInv, Next, todo' # todo PROVE Adds
  <2>1. CASE \E t \in todo : SeedStep(t)
    BY <1>1, <2>1, SeedAdds
  <2>2. CASE \E s \in Slots : StartSeed(s) \/ CompleteSeed(s) \/ Abandon(s)
    BY <2>2 DEF StartSeed, CompleteSeed, Abandon, Adds
  <2>3. CASE \E u \in Users : DeleteUser(u)
    BY <1>1, <2>3 DEF DeleteUser, Stay
  <2> QED
    BY <1>1, <2>1, <2>2, <2>3, RequestsKeepTodo DEF Next
<1>2. IInv /\ [Next]_vars
      => [todo' # todo =>
            /\ \A r \in RoleIds : RoleExists(r) =>
                  /\ roles'[r].name = roles[r].name
                  /\ roles[r].grants \subseteq roles'[r].grants
            /\ \A p \in PermissionIds : PermissionExists(p) =>
                  permissions'[p].name = permissions[p].name]_vars
  BY <1>1 DEF Adds
<1> QED
  BY <1>2, Inductive, PTL DEF Spec, SeedOnlyAdds

-----------------------------------------------------------------------------
(* A step that keeps a user's roles, what they are granted, and the names of *)
(* what they are granted takes no right from the user.                      *)
Keeps(u) ==
    /\ users[u] \cap RoleIds \subseteq users'[u]
    /\ \A r \in users[u] \cap RoleIds :
          /\ roles[r].grants \subseteq roles'[r].grants
          /\ \A p \in roles[r].grants : permissions'[p].name = permissions[p].name

LEMMA RightsKept ==
    ASSUME NEW u \in Users, Keeps(u)
    PROVE  RightsOf(u) \subseteq RightsOf(u)'
<1> SUFFICES ASSUME NEW n \in RightsOf(u) PROVE n \in RightsOf(u)'
  OBVIOUS
<1>0. PICK r \in users[u] \cap RoleIds : \E p \in roles[r].grants : n = permissions[p].name
  BY DEF RightsOf
<1>1. PICK p \in roles[r].grants : n = permissions[p].name
  BY <1>0
<1>2. /\ r \in users'[u] \cap RoleIds /\ p \in roles'[r].grants
      /\ n = permissions'[p].name
  BY <1>1 DEF Keeps
<1>3. p \in UNION {roles'[q].grants : q \in users'[u] \cap RoleIds}
  BY <1>2
<1> QED
  BY <1>2, <1>3 DEF RightsOf

(* A user's roles, and what they are granted, are rows that exist.          *)
LEMMA HeldExist ==
    ASSUME IInv, NEW u \in Users, NEW r \in users[u] \cap RoleIds
    PROVE  /\ RoleExists(r) /\ users[u] # NoUser
           /\ \A p \in roles[r].grants : p \in PermissionIds /\ PermissionExists(p)
<1>1. users[u] # NoUser
  BY KeysAssumption DEF NoUser
<1> QED
  BY <1>1, RoleFacts DEF IInv, Core, Tables, AssignmentsExist, GrantsExist

LEMMA UntouchedKeeps ==
    ASSUME NEW u \in Users, UNCHANGED <<roles, permissions, users>>
    PROVE  Keeps(u)
  BY DEF Keeps

(* What the property allows to take a right from a user.                    *)
Excused(u) ==
    \/ \E s \in Slots :
          \/ Ends(s, "updateUserRoles") /\ requests[s].id = u
          \/ Ends(s, "updateRole") /\ requests[s].id \in users[u]
          \/ Ends(s, "updatePermission")
          \/ (Ends(s, "deleteRole") \/ Ends(s, "deletePermission")) /\ requests[s].linked
    \/ todo' # todo /\ u \in DOMAIN SeededUsers

Spared(u) == Keeps(u) \/ users'[u] = NoUser \/ Excused(u)

(* A request that has written is no longer in its slot.                     *)
LEMMA WriteEnds ==
    ASSUME IInv, NEW s \in Slots, NEW ids,
           requests' = Ended(s) \/ requests' = Link(Ended(s), ids)
    PROVE  requests'[s] = Idle
  BY EndedOK, LinkOK DEF IInv, Core

LEMMA RoleWritesSpare ==
    ASSUME IInv, NEW s \in Slots, CreateRole(s) \/ UpdateRole(s) \/ DeleteRole(s),
           NEW u \in Users
    PROVE  Spared(u)
<1>1. CASE Refuse(s)
  BY <1>1, UntouchedKeeps DEF Refuse, NoWrite, Spared
<1>2. CASE CreateRole(s) /\ ~Refuse(s)
  <2>1. PICK r \in RoleIds :
          /\ ~RoleExists(r) /\ \E new : roles' = [roles EXCEPT ![r] = new]
          /\ UNCHANGED <<permissions, users>>
    BY <1>2 DEF CreateRole
  <2> QED
    BY <2>1, HeldExist DEF Spared, Keeps, IInv, Core, Tables, RolesOK
<1>3. CASE UpdateRole(s) /\ ~Refuse(s)
  <2> DEFINE r == requests[s].id
             granted == PermissionsNamed(requests[s].names)
  <2>1. /\ requests[s].op = "updateRole" /\ UNCHANGED <<permissions, users>>
        /\ roles' = [roles EXCEPT ![r].name = requests[s].name, ![r].grants = granted]
        /\ requests' = Link(Ended(s), granted)
    BY <1>3 DEF UpdateRole, Validated, At
  <2>2. requests'[s] = Idle
    BY <2>1, WriteEnds
  <2>3. CASE r \in users[u]
    BY <2>1, <2>2, <2>3 DEF Spared, Excused, Ends
  <2>4. CASE r \notin users[u]
    BY <2>1, <2>4 DEF Spared, Keeps, IInv, Core, Tables, RolesOK
  <2> QED
    BY <2>3, <2>4
<1>4. CASE DeleteRole(s) /\ ~Refuse(s)
  <2> DEFINE r == requests[s].id
  <2>1. /\ requests[s].op = "deleteRole" /\ requests[s].pc = "write"
        /\ roles' = [roles EXCEPT ![r] = NoRole]
        /\ users' = [v \in Users |-> users[v] \ {r}]
        /\ requests' = Ended(s) /\ UNCHANGED permissions
    BY <1>4 DEF DeleteRole, At
  <2>2. requests'[s] = Idle
    BY <2>1, WriteEnds
  <2>3. CASE requests[s].linked
    BY <2>1, <2>2, <2>3 DEF Spared, Excused, Ends
  <2>4. CASE ~requests[s].linked
    <3>1. Holders(r) = {}
      BY <2>1, <2>4 DEF IInv, Counted
    <3>2. r \notin users[u]
      BY <3>1 DEF Holders
    <3> QED
      BY <2>1, <3>2 DEF Spared, Keeps, IInv, Core, Tables, RolesOK
  <2> QED
    BY <2>3, <2>4
<1> QED
  BY <1>1, <1>2, <1>3, <1>4

LEMMA PermissionWritesSpare ==
    ASSUME IInv, NEW s \in Slots,
           CreatePermission(s) \/ UpdatePermission(s) \/ DeletePermission(s),
           NEW u \in Users
    PROVE  Spared(u)
<1>1. CASE Refuse(s)
  BY <1>1, UntouchedKeeps DEF Refuse, NoWrite, Spared
<1>2. CASE CreatePermission(s) /\ ~Refuse(s)
  <2>1. PICK p \in PermissionIds :
          /\ ~PermissionExists(p) /\ \E new : permissions' = [permissions EXCEPT ![p] = new]
          /\ UNCHANGED <<roles, users>>
    BY <1>2 DEF CreatePermission
  <2> QED
    BY <2>1, HeldExist DEF Spared, Keeps, IInv, Core, Tables, PermissionsOK
<1>3. CASE UpdatePermission(s) /\ ~Refuse(s)
  <2>1. requests[s].op = "updatePermission" /\ requests' = Ended(s)
    BY <1>3 DEF UpdatePermission, At
  <2> QED
    BY <2>1, WriteEnds DEF Spared, Excused, Ends
<1>4. CASE DeletePermission(s) /\ ~Refuse(s)
  <2> DEFINE p == requests[s].id
  <2>1. /\ requests[s].op = "deletePermission" /\ requests[s].pc = "write"
        /\ permissions' = [permissions EXCEPT ![p] = NoPermission]
        /\ roles' = [r \in RoleIds |-> [roles[r] EXCEPT !.grants = @ \ {p}]]
        /\ requests' = Ended(s) /\ UNCHANGED users
    BY <1>4 DEF DeletePermission, At
  <2>2. requests'[s] = Idle
    BY <2>1, WriteEnds
  <2>3. CASE requests[s].linked
    BY <2>1, <2>2, <2>3 DEF Spared, Excused, Ends
  <2>4. CASE ~requests[s].linked
    <3>1. Grantors(p) = {}
      BY <2>1, <2>4 DEF IInv, Counted
    <3>2. p \in PermissionIds
      BY <2>1, Typed DEF Fits
    <3>3. \A r \in RoleIds : p \notin roles[r].grants
      BY <3>1 DEF Grantors
    <3>4. \A r \in RoleIds : roles'[r].grants = roles[r].grants \ {p}
      BY <2>1, <3>2, GrantsWithout DEF IInv, Core, Tables
    <3> QED
      BY <2>1, <3>3, <3>4, HeldExist DEF Spared, Keeps, IInv, Core, Tables, PermissionsOK
  <2> QED
    BY <2>3, <2>4
<1> QED
  BY <1>1, <1>2, <1>3, <1>4

(* Roles that are there stay as they are when a user is onboarded.           *)
LEMMA RegisterKeepsRoles ==
    ASSUME NEW s \in Slots, RegisterUser(s)
    PROVE  \A r \in RoleIds : RoleExists(r) => roles'[r] = roles[r]
<1>1. CASE Refuse(s)
  BY <1>1 DEF Refuse, NoWrite
<1>2. CASE ~Refuse(s)
  <2> DEFINE missing == {n \in requests[s].names : RolesNamed({n}) = {}}
             free == {r \in RoleIds : ~RoleExists(r)}
  <2>1. \E keys \in [missing -> free] :
           roles' = [r \in RoleIds |->
              IF \E n \in missing : keys[n] = r
              THEN [NoRole EXCEPT !.name = CHOOSE n \in missing : keys[n] = r]
              ELSE roles[r]]
    BY <1>2 DEF RegisterUser
  <2>2. PICK keys \in [missing -> free] :
           roles' = [r \in RoleIds |->
              IF \E n \in missing : keys[n] = r
              THEN [NoRole EXCEPT !.name = CHOOSE n \in missing : keys[n] = r]
              ELSE roles[r]]
    BY <2>1
  <2>3. ASSUME NEW r \in RoleIds, RoleExists(r) PROVE roles'[r] = roles[r]
    <3>1. \A n \in missing : keys[n] \in free
      OBVIOUS
    <3>2. ~\E n \in missing : keys[n] = r
      BY <2>3, <3>1
    <3> QED
      BY <2>2, <3>2
  <2> QED
    BY <2>3
<1> QED
  BY <1>1, <1>2

LEMMA UserWritesSpare ==
    ASSUME IInv, NEW s \in Slots, AssignRoles(s) \/ RegisterUser(s), NEW u \in Users
    PROVE  Spared(u)
<1>1. CASE Refuse(s)
  BY <1>1, UntouchedKeeps DEF Refuse, NoWrite, Spared
<1>2. CASE AssignRoles(s) /\ ~Refuse(s)
  <2> DEFINE assigned == RolesNamed(requests[s].names)
  <2>0. /\ (users[requests[s].id] = NoUser) = (requests[s].op = "createUser")
        /\ users' = [users EXCEPT ![requests[s].id] = assigned]
        /\ requests' = Link(Ended(s), assigned) /\ UNCHANGED <<roles, permissions>>
        /\ requests[s].op \in {"createUser", "updateUserRoles"}
    BY <1>2 DEF AssignRoles, Validated, At
  <2>1. /\ users' = [users EXCEPT ![requests[s].id] = assigned]
        /\ requests' = Link(Ended(s), assigned) /\ UNCHANGED <<roles, permissions>>
        /\ \/ requests[s].op = "updateUserRoles"
           \/ users[requests[s].id] = NoUser
    BY <2>0
  <2>2. requests'[s] = Idle
    BY <2>1, WriteEnds
  <2>3. CASE requests[s].id # u
    BY <2>1, <2>3 DEF Spared, Keeps, IInv, Core, Tables, UsersOK
  <2>4. CASE requests[s].id = u /\ requests[s].op = "updateUserRoles"
    BY <2>2, <2>4 DEF Spared, Excused, Ends
  <2>5. CASE users[u] = NoUser
    BY <2>5, HeldExist DEF Spared, Keeps
  <2> QED
    BY <2>1, <2>3, <2>4, <2>5
<1>3. CASE RegisterUser(s) /\ ~Refuse(s)
  <2>1. /\ users[requests[s].id] = NoUser /\ permissions' = permissions
        /\ \E R : users' = [users EXCEPT ![requests[s].id] = R]
    BY <1>3 DEF RegisterUser
  <2>2. CASE requests[s].id = u
    BY <2>1, <2>2, HeldExist DEF Spared, Keeps
  <2>3. CASE requests[s].id # u
    <3>1. users'[u] = users[u]
      BY <2>1, <2>3 DEF IInv, Core, Tables, UsersOK
    <3>2. \A r \in RoleIds : RoleExists(r) => roles'[r] = roles[r]
      BY <1>3, RegisterKeepsRoles
    <3> QED
      BY <2>1, <3>1, <3>2, HeldExist DEF Spared, Keeps
  <2> QED
    BY <2>2, <2>3
<1> QED
  BY <1>1, <1>2, <1>3

(* The seed changes the roles of the users it seeds only.                   *)
LEMMA SeedGives ==
    ASSUME IInv, NEW t \in todo, SeedStep(t), NEW u \in Users, users'[u] # users[u]
    PROVE  todo' # todo /\ u \in DOMAIN SeededUsers
<1>1. SeedUser(t)
  BY DEF SeedStep, SeedPermission, SeedRole, SeedGrant
<1>2. t[1] = "user" /\ todo' = todo \ {t}
  BY <1>1 DEF SeedUser, Left
<1>3. t[2] \in DOMAIN SeededUsers
  BY <1>2, TaskFacts DEF IInv, Core, SeedOK
<1>4. t[2] = u
  BY <1>1 DEF SeedUser, IInv, Core, Tables, UsersOK
<1> QED
  BY <1>2, <1>3, <1>4

LEMMA SeedSpares ==
    ASSUME IInv, NEW t \in todo, SeedStep(t), NEW u \in Users
    PROVE  Spared(u)
<1>1. CASE users'[u] = users[u]
  BY <1>1, SeedAdds, HeldExist DEF Spared, Keeps, Adds
<1>2. CASE users'[u] # users[u]
  BY <1>2, SeedGives DEF Spared, Excused
<1> QED
  BY <1>1, <1>2

(* Before its write a request only reads.                                   *)
LEMMA ReadsKeepTables ==
    ASSUME NEW s \in Slots, BeginRequest(s) \/ CheckRequest(s)
    PROVE  UNCHANGED <<roles, permissions, users>>
<1>1. CASE BeginRequest(s)
  BY <1>1 DEF BeginRequest, BeginCreateRole, BeginUpdateRole, BeginDeleteRole,
     BeginCreatePermission, BeginUpdatePermission, BeginDeletePermission,
     BeginUserRoles, Begin, NoWrite
<1>2. CASE CheckRequest(s)
  BY <1>2 DEF CheckRequest, ValidateName, CheckRoleName, CountHolders,
     CheckPermissionName, CountGrantors, GoTo, Refuse, NoWrite
<1> QED
  BY <1>1, <1>2

LEMMA StepSpares ==
    ASSUME IInv, Next, NEW u \in Users
    PROVE  Spared(u)
<1>1. ASSUME NEW s \in Slots, BeginRequest(s) \/ CheckRequest(s) PROVE Spared(u)
  BY <1>1, ReadsKeepTables, UntouchedKeeps DEF Spared
<1>2. ASSUME NEW s \in Slots, WriteRequest(s) PROVE Spared(u)
  BY <1>2, RoleWritesSpare, PermissionWritesSpare, UserWritesSpare DEF WriteRequest
<1>3. ASSUME NEW s \in Slots, StartSeed(s) \/ CompleteSeed(s) \/ Abandon(s) PROVE Spared(u)
  BY <1>3, UntouchedKeeps DEF StartSeed, CompleteSeed, Abandon, Spared
<1>4. ASSUME NEW v \in Users, DeleteUser(v) PROVE Spared(u)
  BY <1>4 DEF DeleteUser, Spared, Keeps, IInv, Core, Tables, UsersOK
<1> QED
  BY <1>1, <1>2, <1>3, <1>4, SeedSpares DEF Next

(* A deletion takes a right from nobody unless what it deletes came into use *)
(* between its count and its write; apart from that only the edits that are  *)
(* about the user's roles, one of them, or a permission do.                 *)
THEOREM DeletionsRevokeNothingHolds == Spec => DeletionsRevokeNothing
<1>1. ASSUME IInv, Next, NEW u \in Users, users'[u] # NoUser,
             ~(RightsOf(u) \subseteq RightsOf(u)')
      PROVE  Excused(u)
  <2>1. Spared(u)
    BY <1>1, StepSpares
  <2>2. ~Keeps(u)
    BY <1>1, RightsKept
  <2> QED
    BY <1>1, <2>1, <2>2 DEF Spared
<1>2. IInv /\ [Next]_vars
      => [\A u \in Users :
            users'[u] # NoUser /\ ~(RightsOf(u) \subseteq RightsOf(u)') =>
               \/ \E s \in Slots :
                     \/ Ends(s, "updateUserRoles") /\ requests[s].id = u
                     \/ Ends(s, "updateRole") /\ requests[s].id \in users[u]
                     \/ Ends(s, "updatePermission")
                     \/ (Ends(s, "deleteRole") \/ Ends(s, "deletePermission"))
                          /\ requests[s].linked
               \/ todo' # todo /\ u \in DOMAIN SeededUsers]_vars
  BY <1>1 DEF Excused
<1> QED
  BY <1>2, Inductive, PTL DEF Spec, DeletionsRevokeNothing

-----------------------------------------------------------------------------
(* A system row exists.                                                     *)
LEMMA SystemExists ==
    ASSUME IInv
    PROVE  /\ \A r \in RoleIds : roles[r].isSystem => RoleExists(r)
           /\ \A p \in PermissionIds : permissions[p].isSystem => PermissionExists(p)
  BY RoleFacts, PermissionFacts DEF IInv, Core, Tables

(* A user has a role's name when the user has the role: names are unique.    *)
LEMMA TitleIsHeld ==
    ASSUME IInv, NEW u \in Users, NEW r \in RoleIds, RoleExists(r)
    PROVE  roles[r].name \in TitlesOf(u) <=> r \in users[u]
  BY DEF TitlesOf, IInv, Core, Tables, UniqueRoles

LEMMA TitleIsHeldAfter ==
    ASSUME IInv', NEW u \in Users, NEW r \in RoleIds, RoleExists(r)'
    PROVE  roles'[r].name \in TitlesOf(u)' <=> r \in users'[u]
  BY DEF TitlesOf, IInv, Core, Tables, UniqueRoles, RoleExists

(* A step that is not about the role r of user u.                           *)
Elsewhere(u, r) ==
    roles'[r].name = roles[r].name /\ (r \in users'[u] <=> r \in users[u])

(* What the property allows to give a user a system role or to take it.      *)
Concerns(u, r) ==
    \/ \E s \in Slots : \E op \in UserOps : Ends(s, op) /\ requests[s].id = u
    \/ \E s \in Slots : \E op \in {"updateRole", "deleteRole"} :
          Ends(s, op) /\ requests[s].id = r /\ requests[s].adopted
    \/ users'[u] = NoUser
    \/ todo' # todo /\ u \in DOMAIN SeededUsers

LEMMA ElsewhereKeeps ==
    ASSUME IInv, IInv', NEW u \in Users, NEW r \in RoleIds, roles[r].isSystem,
           Elsewhere(u, r)
    PROVE  roles[r].name \in TitlesOf(u) <=> roles[r].name \in TitlesOf(u)'
<1>1. RoleExists(r) /\ roles[r].name # None
  BY SystemExists, RoleFacts, KeysAssumption DEF IInv, Core, Tables
<1>2. RoleExists(r)'
  BY <1>1 DEF Elsewhere, RoleExists, NoRole
<1> QED
  BY <1>1, <1>2, TitleIsHeld, TitleIsHeldAfter DEF Elsewhere

LEMMA RoleWritesElsewhere ==
    ASSUME IInv, NEW s \in Slots, CreateRole(s) \/ UpdateRole(s) \/ DeleteRole(s),
           NEW u \in Users, NEW r \in RoleIds, roles[r].isSystem
    PROVE  Elsewhere(u, r) \/ Concerns(u, r)
<1>1. CASE Refuse(s)
  BY <1>1 DEF Refuse, NoWrite, Elsewhere
<1>2. CASE CreateRole(s) /\ ~Refuse(s)
  <2>1. PICK q \in RoleIds :
          /\ ~RoleExists(q) /\ \E new : roles' = [roles EXCEPT ![q] = new]
          /\ users' = users
    BY <1>2 DEF CreateRole
  <2> QED
    BY <2>1, SystemExists DEF Elsewhere, IInv, Core, Tables, RolesOK
<1>3. CASE UpdateRole(s) /\ ~Refuse(s)
  <2>1. /\ requests[s].op = "updateRole" /\ users' = users
        /\ \E n, G : roles' = [roles EXCEPT ![requests[s].id].name = n,
                                            ![requests[s].id].grants = G]
        /\ requests' = Link(Ended(s), PermissionsNamed(requests[s].names))
    BY <1>3 DEF UpdateRole, Validated, At
  <2>2. CASE requests[s].id = r
    <3>1. requests[s].adopted
      BY <2>1, <2>2 DEF IInv, Ordinary
    <3>2. requests'[s] = Idle
      BY <2>1, WriteEnds
    <3> QED
      BY <2>1, <2>2, <3>1, <3>2 DEF Concerns, Ends
  <2>3. CASE requests[s].id # r
    BY <2>1, <2>3 DEF Elsewhere, IInv, Core, Tables, RolesOK
  <2> QED
    BY <2>2, <2>3
<1>4. CASE DeleteRole(s) /\ ~Refuse(s)
  <2>1. /\ requests[s].op = "deleteRole"
        /\ roles' = [roles EXCEPT ![requests[s].id] = NoRole]
        /\ users' = [v \in Users |-> users[v] \ {requests[s].id}]
        /\ requests' = Ended(s)
    BY <1>4 DEF DeleteRole, At
  <2>2. CASE requests[s].id = r
    <3>1. requests[s].adopted
      BY <2>1, <2>2 DEF IInv, Ordinary
    <3>2. requests'[s] = Idle
      BY <2>1, WriteEnds
    <3> QED
      BY <2>1, <2>2, <3>1, <3>2 DEF Concerns, Ends
  <2>3. CASE requests[s].id # r
    BY <2>1, <2>3 DEF Elsewhere, IInv, Core, Tables, RolesOK
  <2> QED
    BY <2>2, <2>3
<1> QED
  BY <1>1, <1>2, <1>3, <1>4

LEMMA PermissionWritesElsewhere ==
    ASSUME IInv, NEW s \in Slots,
           CreatePermission(s) \/ UpdatePermission(s) \/ DeletePermission(s),
           NEW u \in Users, NEW r \in RoleIds
    PROVE  Elsewhere(u, r)
<1>1. CASE UNCHANGED <<roles, users>>
  BY <1>1 DEF Elsewhere
<1>2. CASE DeletePermission(s) /\ ~Refuse(s)
  <2> DEFINE p == requests[s].id
  <2>1. /\ requests[s].op = "deletePermission" /\ users' = users
        /\ roles' = [q \in RoleIds |-> [roles[q] EXCEPT !.grants = @ \ {p}]]
    BY <1>2 DEF DeletePermission, At
  <2>2. p \in PermissionIds
    BY <2>1, Typed DEF Fits
  <2>3. roles'[r].name = roles[r].name
    BY <2>1, <2>2, GrantsWithout DEF IInv, Core, Tables
  <2> QED
    BY <2>1, <2>3 DEF Elsewhere
<1> QED
  BY <1>1, <1>2 DEF CreatePermission, UpdatePermission, DeletePermission, Refuse, NoWrite

LEMMA UserWritesElsewhere ==
    ASSUME IInv, NEW s \in Slots, AssignRoles(s) \/ RegisterUser(s),
           NEW u \in Users, NEW r \in RoleIds, roles[r].isSystem
    PROVE  Elsewhere(u, r) \/ Concerns(u, r)
<1>1. CASE Refuse(s)
  BY <1>1 DEF Refuse, NoWrite, Elsewhere
<1>2. CASE ~Refuse(s)
  <2>1. /\ requests[s].op \in UserOps
        /\ \E R : /\ users' = [users EXCEPT ![requests[s].id] = R]
                  /\ requests' = Link(Ended(s), R)
    BY <1>2 DEF AssignRoles, RegisterUser, Validated, At, UserOps
  <2>2. roles'[r].name = roles[r].name
    <3>1. AssignRoles(s) => roles' = roles
      BY DEF AssignRoles, Refuse, NoWrite
    <3> QED
      BY <3>1, RegisterKeepsRoles, SystemExists
  <2>3. CASE requests[s].id = u
    <3>1. requests'[s] = Idle
      BY <2>1, WriteEnds
    <3> QED
      BY <2>1, <2>3, <3>1 DEF Concerns, Ends
  <2>4. CASE requests[s].id # u
    BY <2>1, <2>2, <2>4 DEF Elsewhere, IInv, Core, Tables, UsersOK
  <2> QED
    BY <2>3, <2>4
<1> QED
  BY <1>1, <1>2

LEMMA SeedElsewhere ==
    ASSUME IInv, NEW t \in todo, SeedStep(t),
           NEW u \in Users, NEW r \in RoleIds, roles[r].isSystem
    PROVE  Elsewhere(u, r) \/ Concerns(u, r)
<1>1. CASE users'[u] = users[u]
  BY <1>1, SeedAdds, SystemExists DEF Elsewhere, Adds
<1>2. CASE users'[u] # users[u]
  BY <1>2, SeedGives DEF Concerns
<1> QED
  BY <1>1, <1>2

LEMMA StepElsewhere ==
    ASSUME IInv, Next, NEW u \in Users, NEW r \in RoleIds, roles[r].isSystem
    PROVE  Elsewhere(u, r) \/ Concerns(u, r)
<1>1. ASSUME NEW s \in Slots, BeginRequest(s) \/ CheckRequest(s)
      PROVE  Elsewhere(u, r)
  BY <1>1, ReadsKeepTables DEF Elsewhere
<1>2. ASSUME NEW s \in Slots, WriteRequest(s)
      PROVE  Elsewhere(u, r) \/ Concerns(u, r)
  BY <1>2, RoleWritesElsewhere, PermissionWritesElsewhere, UserWritesElsewhere
     DEF WriteRequest
<1>3. ASSUME NEW s \in Slots, StartSeed(s) \/ CompleteSeed(s) \/ Abandon(s)
      PROVE  Elsewhere(u, r)
  BY <1>3 DEF StartSeed, CompleteSeed, Abandon, Elsewhere
<1>4. ASSUME NEW v \in Users, DeleteUser(v)
      PROVE  Elsewhere(u, r) \/ Concerns(u, r)
  BY <1>4 DEF DeleteUser, Elsewhere, Concerns, IInv, Core, Tables, UsersOK
<1> QED
  BY <1>1, <1>2, <1>3, <1>4, SeedElsewhere DEF Next

(* Nobody comes by a system role, or loses it, through the administration of *)
(* roles: only through what is done to the user.                            *)
THEOREM TitlesKeptHolds == Spec => TitlesKept
<1>1. ASSUME IInv, Next, NEW u \in Users, NEW r \in RoleIds, roles[r].isSystem,
             (roles[r].name \in TitlesOf(u)) # (roles[r].name \in TitlesOf(u)')
      PROVE  Concerns(u, r)
  <2>1. IInv'
    BY <1>1, NextStep
  <2>2. ~(roles[r].name \in TitlesOf(u) <=> roles[r].name \in TitlesOf(u)')
    BY <1>1
  <2> QED
    BY <1>1, <2>1, <2>2, StepElsewhere, ElsewhereKeeps
<1>2. IInv /\ [Next]_vars
      => [\A u \in Users : \A r \in RoleIds :
            roles[r].isSystem
              /\ ((roles[r].name \in TitlesOf(u)) # (roles[r].name \in TitlesOf(u)')) =>
               \/ \E s \in Slots : \E op \in UserOps : Ends(s, op) /\ requests[s].id = u
               \/ \E s \in Slots : \E op \in {"updateRole", "deleteRole"} :
                     Ends(s, op) /\ requests[s].id = r /\ requests[s].adopted
               \/ users'[u] = NoUser
               \/ todo' # todo /\ u \in DOMAIN SeededUsers]_vars
  BY <1>1 DEF Concerns
<1> QED
  BY <1>2, Inductive, PTL DEF Spec, TitlesKept

-----------------------------------------------------------------------------
(* What a task of the seed brings about, and what keeps it so.               *)
InForce(t) ==
    /\ t[1] = "permission" => \E p \in PermissionIds :
          permissions[p].name = t[2] /\ permissions[p].isSystem
    /\ t[1] = "role" => \E r \in RoleIds : roles[r].name = t[2] /\ roles[r].isSystem
    /\ t[1] = "grant" => \E r \in RoleIds, p \in PermissionIds :
          /\ roles[r].name = t[2] /\ roles[r].isSystem
          /\ permissions[p].name = t[3] /\ permissions[p].isSystem
          /\ p \in roles[r].grants

KeepsSystem ==
    /\ \A r \in RoleIds : roles[r].isSystem =>
          /\ roles'[r].name = roles[r].name /\ roles'[r].isSystem
          /\ \A p \in PermissionIds :
                permissions[p].isSystem /\ p \in roles[r].grants => p \in roles'[r].grants
    /\ \A p \in PermissionIds : permissions[p].isSystem =>
          permissions'[p].name = permissions[p].name /\ permissions'[p].isSystem

LEMMA InForceKept ==
    ASSUME KeepsSystem, NEW t, InForce(t)
    PROVE  InForce(t)'
<1>1. t[1] = "permission" => \E p \in PermissionIds :
          permissions'[p].name = t[2] /\ permissions'[p].isSystem
  BY DEF KeepsSystem, InForce
<1>2. t[1] = "role" => \E r \in RoleIds : roles'[r].name = t[2] /\ roles'[r].isSystem
  BY DEF KeepsSystem, InForce
<1>3. t[1] = "grant" => \E r \in RoleIds, p \in PermissionIds :
          /\ roles'[r].name = t[2] /\ roles'[r].isSystem
          /\ permissions'[p].name = t[3] /\ permissions'[p].isSystem
          /\ p \in roles'[r].grants
  BY DEF KeepsSystem, InForce
<1> QED
  BY <1>1, <1>2, <1>3 DEF InForce

(* A write of a request leaves system rows alone, or is counted.            *)
LEMMA WritesKeepSystem ==
    ASSUME IInv, NEW s \in Slots, WriteRequest(s), ~overtaken'
    PROVE  KeepsSystem
<1>1. CASE Refuse(s)
  BY <1>1 DEF Refuse, NoWrite, KeepsSystem
<1>2. CASE CreateRole(s) /\ ~Refuse(s)
  <2>1. PICK r \in RoleIds :
          /\ ~RoleExists(r) /\ \E new : roles' = [roles EXCEPT ![r] = new]
          /\ permissions' = permissions
    BY <1>2 DEF CreateRole
  <2> QED
    BY <2>1, SystemExists DEF KeepsSystem, IInv, Core, Tables, RolesOK
<1>3. CASE UpdateRole(s) /\ ~Refuse(s)
  <2> DEFINE r == requests[s].id
  <2>1. /\ requests[s].op = "updateRole" /\ permissions' = permissions
        /\ \E n, G : roles' = [roles EXCEPT ![r].name = n, ![r].grants = G]
        /\ overtaken' = (overtaken \/ requests[s].adopted)
    BY <1>3 DEF UpdateRole, Validated, At
  <2>2. ~roles[r].isSystem
    BY <2>1 DEF IInv, Ordinary
  <2>3. \A q \in RoleIds \ {r} : roles'[q] = roles[q]
    BY <2>1 DEF IInv, Core, Tables, RolesOK
  <2> QED
    BY <2>1, <2>2, <2>3 DEF KeepsSystem
<1>4. CASE DeleteRole(s) /\ ~Refuse(s)
  <2> DEFINE r == requests[s].id
  <2>1. /\ requests[s].op = "deleteRole" /\ permissions' = permissions
        /\ roles' = [roles EXCEPT ![r] = NoRole]
        /\ overtaken' = (overtaken \/ requests[s].adopted)
    BY <1>4 DEF DeleteRole, At
  <2>2. ~roles[r].isSystem
    BY <2>1 DEF IInv, Ordinary
  <2>3. \A q \in RoleIds \ {r} : roles'[q] = roles[q]
    BY <2>1 DEF IInv, Core, Tables, RolesOK
  <2> QED
    BY <2>1, <2>2, <2>3 DEF KeepsSystem
<1>5. CASE CreatePermission(s) /\ ~Refuse(s)
  <2>1. PICK p \in PermissionIds :
          /\ ~PermissionExists(p) /\ \E new : permissions' = [permissions EXCEPT ![p] = new]
          /\ roles' = roles
    BY <1>5 DEF CreatePermission
  <2> QED
    BY <2>1, SystemExists DEF KeepsSystem, IInv, Core, Tables, PermissionsOK
<1>6. CASE UpdatePermission(s) /\ ~Refuse(s)
  <2> DEFINE p == requests[s].id
  <2>1. /\ requests[s].op = "updatePermission" /\ roles' = roles
        /\ permissions' = [permissions EXCEPT ![p].name = requests[s].name]
        /\ overtaken' = (overtaken \/ requests[s].adopted)
    BY <1>6 DEF UpdatePermission, At
  <2>2. ~permissions[p].isSystem
    BY <2>1 DEF IInv, Ordinary
  <2>3. \A q \in PermissionIds \ {p} : permissions'[q] = permissions[q]
    BY <2>1 DEF IInv, Core, Tables, PermissionsOK
  <2> QED
    BY <2>1, <2>2, <2>3 DEF KeepsSystem
<1>7. CASE DeletePermission(s) /\ ~Refuse(s)
  <2> DEFINE p == requests[s].id
  <2>1. /\ requests[s].op = "deletePermission"
        /\ permissions' = [permissions EXCEPT ![p] = NoPermission]
        /\ roles' = [r \in RoleIds |-> [roles[r] EXCEPT !.grants = @ \ {p}]]
        /\ overtaken' = (overtaken \/ requests[s].adopted)
    BY <1>7 DEF DeletePermission, At
  <2>2. ~permissions[p].isSystem /\ p \in PermissionIds
    BY <2>1, Typed DEF IInv, Ordinary, Fits
  <2>3. \A q \in PermissionIds \ {p} : permissions'[q] = permissions[q]
    BY <2>1 DEF IInv, Core, Tables, PermissionsOK
  <2>4. \A r \in RoleIds :
           /\ roles'[r].name = roles[r].name /\ roles'[r].isSystem = roles[r].isSystem
           /\ roles'[r].grants = roles[r].grants \ {p}
    BY <2>1, <2>2, GrantsWithout DEF IInv, Core, Tables
  <2>5. \A r \in RoleIds : roles[r].isSystem => roles'[r].isSystem
    BY <2>4
  <2> QED
    BY <2>2, <2>3, <2>4, <2>5 DEF KeepsSystem
<1>8. CASE AssignRoles(s) /\ ~Refuse(s)
  BY <1>8 DEF AssignRoles, KeepsSystem
<1>9. CASE RegisterUser(s) /\ ~Refuse(s)
  <2>1. permissions' = permissions
    BY <1>9 DEF RegisterUser
  <2>2. \A r \in RoleIds : RoleExists(r) => roles'[r] = roles[r]
    BY <1>9, RegisterKeepsRoles
  <2> QED
    BY <2>1, <2>2, SystemExists DEF KeepsSystem
<1> QED
  BY <1>1, <1>2, <1>3, <1>4, <1>5, <1>6, <1>7, <1>8, <1>9 DEF WriteRequest

LEMMA SeedKeepsSystem ==
    ASSUME IInv, NEW t \in todo, SeedStep(t)
    PROVE  KeepsSystem
  BY SeedAdds, SystemExists DEF Adds, KeepsSystem

(* What a seed that runs has done is in force, and after one has run to its  *)
(* end everything is.  Roles follow when all permissions are done.          *)
Running == \E s \in Slots : requests[s].op = "seed"
Seeded ==
    /\ ~overtaken /\ Running => \A t \in Tasks \ todo : InForce(t)
    /\ ~overtaken /\ completed => \A t \in Tasks : InForce(t)
    /\ Running => \A n \in DefaultRoles : <<"role", n>> \notin todo => Left("permission") = {}

LEMMA TaskIn ==
    /\ \A n \in DefaultPermissions : <<"permission", n>> \in Tasks
    /\ \A n \in DefaultRoles : /\ <<"role", n>> \in Tasks
                              /\ \A m \in DefaultGrants[n] : <<"grant", n, m>> \in Tasks
<1>1. ASSUME NEW n \in DefaultRoles, NEW m \in DefaultGrants[n]
      PROVE  <<"grant", n, m>> \in Tasks
  <2>1. <<"grant", n, m>> \in {"grant"} \X {n} \X DefaultGrants[n]
    OBVIOUS
  <2>2. {"grant"} \X {n} \X DefaultGrants[n]
           \in {{"grant"} \X {r} \X DefaultGrants[r] : r \in DefaultRoles}
    BY Zenon
  <2>3. <<"grant", n, m>> \in UNION {{"grant"} \X {r} \X DefaultGrants[r] : r \in DefaultRoles}
    BY <2>1, <2>2, Zenon
  <2> QED
    BY <2>3 DEF Tasks
<1> QED
  BY <1>1 DEF Tasks

(* A step that does no work of the seed.                                    *)
LEMMA SeededKept ==
    ASSUME IInv, Seeded, KeepsSystem \/ overtaken', overtaken => overtaken',
           Running' => Running /\ todo' = todo,
           completed' = completed \/ (Running /\ todo = {})
    PROVE  Seeded'
<1>1. ASSUME ~overtaken', NEW t, InForce(t) PROVE InForce(t)'
  BY <1>1, InForceKept
<1>2. ~overtaken' /\ Running' => \A t \in Tasks \ todo' : InForce(t)'
  BY <1>1 DEF Seeded
<1>3. ~overtaken' /\ completed' => \A t \in Tasks : InForce(t)'
  BY <1>1 DEF Seeded
<1>4. Running' => \A n \in DefaultRoles : <<"role", n>> \notin todo' => Left("permission")' = {}
  BY DEF Seeded, Left
<1> QED
  BY <1>2, <1>3, <1>4 DEF Seeded

LEMMA TaskDone ==
    ASSUME IInv, Seeded, NEW t \in todo, SeedStep(t), ~overtaken
    PROVE  InForce(t)' \/ ~Running'
<1>1. /\ t \in Tasks /\ Running /\ KeepsSystem
      /\ RolesOK /\ PermissionsOK
  BY SeedKeepsSystem DEF IInv, Core, Tables, SeedOK, Running
<1>2. CASE SeedPermission(t)
  <2>1. PICK p \in IF PermissionsNamed({t[2]}) # {} THEN PermissionsNamed({t[2]})
                   ELSE {q \in PermissionIds : ~PermissionExists(q)} :
          permissions' = [permissions EXCEPT ![p] = [name |-> t[2], isSystem |-> TRUE]]
    BY <1>2 DEF SeedPermission
  <2>2. p \in PermissionIds /\ t[1] = "permission"
    BY <1>2, <2>1 DEF PermissionsNamed, SeedPermission, Left
  <2>3. permissions'[p].name = t[2] /\ permissions'[p].isSystem
    BY <1>1, <2>1, <2>2 DEF PermissionsOK
  <2> QED
    BY <2>2, <2>3 DEF InForce
<1>3. CASE SeedRole(t)
  <2>1. PICK r \in IF RolesNamed({t[2]}) # {} THEN RolesNamed({t[2]})
                   ELSE {q \in RoleIds : ~RoleExists(q)} :
          roles' = [roles EXCEPT ![r].name = t[2], ![r].isSystem = TRUE]
    BY <1>3 DEF SeedRole
  <2>2. r \in RoleIds /\ t[1] = "role"
    BY <1>3, <2>1 DEF RolesNamed, SeedRole, Left
  <2>3. roles'[r].name = t[2] /\ roles'[r].isSystem
    <3>1. roles[r] \in [name : RoleNames \cup {None}, isSystem : BOOLEAN,
                        grants : SUBSET PermissionIds]
      <4>1. roles[r] \in RoleRows \/ roles[r] = NoRole
        BY <1>1, <2>2 DEF RolesOK
      <4>2. CASE roles[r] \in RoleRows
        BY <4>2 DEF RoleRows
      <4>3. CASE roles[r] = NoRole
        BY <4>3 DEF NoRole
      <4> QED
        BY <4>1, <4>2, <4>3
    <3> QED
      BY <1>1, <2>1, <2>2, <3>1 DEF RolesOK
  <2> QED
    BY <2>2, <2>3 DEF InForce
<1>4. CASE SeedGrant(t)
  <2> DEFINE P == PermissionsNamed({t[3]})
  <2>1. t[1] = "grant" /\ <<"role", t[2]>> \notin todo
    BY <1>4 DEF SeedGrant, Left
  <2>2. /\ t[2] \in DefaultRoles /\ t[3] \in DefaultGrants[t[2]]
        /\ t[3] \in DefaultPermissions
    BY <1>1, <2>1, TaskFacts, NamesAssumption
  <2>3. /\ <<"role", t[2]>> \in Tasks \ todo
        /\ <<"permission", t[3]>> \in Tasks \ todo
    BY <1>1, <2>1, <2>2, TaskIn DEF Seeded, Left
  <2>4. InForce(<<"role", t[2]>>) /\ InForce(<<"permission", t[3]>>)
    BY <1>1, <2>3 DEF Seeded
  <2>5. PICK r \in RoleIds : roles[r].name = t[2] /\ roles[r].isSystem
    BY <2>4 DEF InForce
  <2>6. PICK p \in PermissionIds : permissions[p].name = t[3] /\ permissions[p].isSystem
    BY <2>4 DEF InForce
  <2>7. r \in RolesNamed({t[2]}) /\ p \in P
    BY <2>5, <2>6 DEF RolesNamed, PermissionsNamed
  <2>8. roles' = [q \in RoleIds |-> IF roles[q].name = t[2]
                                    THEN [roles[q] EXCEPT !.grants = @ \cup P]
                                    ELSE roles[q]]
    BY <1>4, <2>7 DEF SeedGrant
  <2>9. RoleExists(r) /\ P \in SUBSET PermissionIds
    BY <2>5, SystemExists DEF PermissionsNamed
  <2> HIDE DEF P
  <2>10. p \in roles'[r].grants
    <3>1. roles'[r] = [roles[r] EXCEPT !.grants = @ \cup P]
      BY <2>5, <2>8
    <3> QED
      BY <1>1, <2>7, <2>9, <3>1, GrantsWith
  <2>11. /\ roles'[r].name = t[2] /\ roles'[r].isSystem
         /\ permissions'[p].name = t[3] /\ permissions'[p].isSystem
    BY <1>1, <2>5, <2>6 DEF KeepsSystem
  <2> QED
    BY <2>1, <2>10, <2>11 DEF InForce
<1>5. CASE SeedUser(t)
  BY <1>5 DEF SeedUser, Left, InForce
<1> QED
  BY <1>2, <1>3, <1>4, <1>5 DEF SeedStep

LEMMA SeedStepSeeded ==
    ASSUME IInv, Seeded, NEW t \in todo, SeedStep(t)
    PROVE  Seeded'
<1>1. KeepsSystem /\ t \in Tasks /\ Running
  BY SeedKeepsSystem DEF IInv, Core, SeedOK, Running
<1>2. UNCHANGED <<completed, overtaken>> /\ (todo' = todo \ {t} \/ ~Running')
  <2>1. CASE SeedGrant(t)
    <3>1. CASE todo' = todo \ {t}
      BY <2>1, <3>1 DEF SeedGrant
    <3>2. CASE todo' # todo \ {t}
      <4>1. requests' = [s \in Slots |-> IF requests[s].op = "seed"
                                         THEN Idle ELSE requests[s]]
        BY <2>1, <3>2 DEF SeedGrant
      <4>2. \A s \in Slots : requests'[s].op # "seed"
        BY <4>1 DEF Idle
      <4> QED
        BY <2>1, <4>2 DEF SeedGrant, Running
    <3> QED
      BY <3>1, <3>2
  <2>2. CASE SeedPermission(t) \/ SeedRole(t) \/ SeedUser(t)
    BY <2>2 DEF SeedPermission, SeedRole, SeedUser
  <2> QED
    BY <2>1, <2>2 DEF SeedStep
<1>3. ~overtaken' /\ Running' => \A x \in Tasks \ todo' : InForce(x)'
  <2> SUFFICES ASSUME ~overtaken', Running', NEW x \in Tasks \ todo' PROVE InForce(x)'
    OBVIOUS
  <2>1. CASE x = t
    BY <1>2, <2>1, TaskDone
  <2>2. CASE x # t
    <3>1. InForce(x)
      BY <1>1, <1>2, <2>2 DEF Seeded
    <3> QED
      BY <1>1, <3>1, InForceKept
  <2> QED
    BY <2>1, <2>2
<1>4. ~overtaken' /\ completed' => \A x \in Tasks : InForce(x)'
  BY <1>1, <1>2, InForceKept DEF Seeded
<1>5. Running' => \A n \in DefaultRoles : <<"role", n>> \notin todo' => Left("permission")' = {}
  <2> SUFFICES ASSUME Running', NEW n \in DefaultRoles, <<"role", n>> \notin todo'
               PROVE  Left("permission")' = {}
    OBVIOUS
  <2>1. CASE <<"role", n>> \notin todo
    BY <1>1, <1>2, <2>1 DEF Seeded, Left
  <2>2. CASE <<"role", n>> \in todo
    <3>1. t = <<"role", n>>
      BY <1>2, <2>2
    <3>2. SeedRole(t)
      BY <3>1 DEF SeedStep, SeedPermission, SeedGrant, SeedUser, Left
    <3> QED
      BY <1>2, <3>2 DEF SeedRole, Left
  <2> QED
    BY <2>1, <2>2
<1> QED
  BY <1>3, <1>4, <1>5 DEF Seeded

(* The flags, the tables and the seed's slot in the steps of other requests. *)
LEMMA QuietTables ==
    ASSUME NEW s \in Slots, BeginRequest(s) \/ CheckRequest(s)
    PROVE  UNCHANGED <<roles, permissions, users, overtaken, completed>>
<1>1. CASE BeginRequest(s)
  BY <1>1 DEF BeginRequest, BeginCreateRole, BeginUpdateRole, BeginDeleteRole,
     BeginCreatePermission, BeginUpdatePermission, BeginDeletePermission,
     BeginUserRoles, Begin, NoWrite, Stay
<1>2. CASE CheckRequest(s)
  BY <1>2 DEF CheckRequest, ValidateName, CheckRoleName, CountHolders,
     CheckPermissionName, CountGrantors, GoTo, Refuse, NoWrite, Stay
<1> QED
  BY <1>1, <1>2

LEMMA FlagsGrow ==
    ASSUME NEW s \in Slots, BeginRequest(s) \/ CheckRequest(s) \/ WriteRequest(s)
    PROVE  (overtaken => overtaken') /\ completed' = completed
<1>1. CreateRole(s) \/ UpdateRole(s) \/ DeleteRole(s)
         => (overtaken => overtaken') /\ completed' = completed
  BY DEF CreateRole, UpdateRole, DeleteRole, Refuse, NoWrite, Stay
<1>2. CreatePermission(s) \/ UpdatePermission(s) \/ DeletePermission(s)
         => (overtaken => overtaken') /\ completed' = completed
  BY DEF CreatePermission, UpdatePermission, DeletePermission, Refuse, NoWrite, Stay
<1>3. AssignRoles(s) \/ RegisterUser(s) => (overtaken => overtaken') /\ completed' = completed
  BY DEF AssignRoles, RegisterUser, Refuse, NoWrite, Stay
<1> QED
  BY <1>1, <1>2, <1>3, QuietTables DEF WriteRequest

LEMMA NoNewSeed ==
    ASSUME IInv, NEW s \in Slots, BeginRequest(s) \/ CheckRequest(s) \/ WriteRequest(s),
           NEW q \in Slots, requests'[q].op = "seed"
    PROVE  requests[q].op = "seed"
<1>1. \A op, pc, id, name, names : Request(op, pc, id, name, names).op = op
  BY DEF Request, Idle
<1>2. Idle.op = "none"
  BY DEF Idle
<1>3. CASE BeginRequest(s)
  <2>1. ASSUME NEW op, op # "seed", NEW pc, NEW id, NEW name, NEW names,
               Begin(s, Request(op, pc, id, name, names))
        PROVE  requests[q].op = "seed"
    <3>1. requests' = [requests EXCEPT ![s] = Request(op, pc, id, name, names)]
      BY <2>1 DEF Begin
    <3> QED
      BY <1>1, <2>1, <3>1 DEF IInv, Core, RequestsOK
  <2>2. CASE BeginCreateRole(s) \/ BeginUpdateRole(s) \/ BeginDeleteRole(s)
    BY <2>1, <2>2 DEF BeginCreateRole, BeginUpdateRole, BeginDeleteRole
  <2>3. CASE BeginCreatePermission(s) \/ BeginUpdatePermission(s) \/ BeginDeletePermission(s)
    BY <2>1, <2>3 DEF BeginCreatePermission, BeginUpdatePermission, BeginDeletePermission
  <2>4. CASE BeginUserRoles(s)
    BY <2>1, <2>4 DEF BeginUserRoles
  <2> QED
    BY <1>3, <2>2, <2>3, <2>4 DEF BeginRequest
<1>4. CASE CheckRequest(s)
  <2>1. \/ requests' = Ended(s)
        \/ \E pc : requests' = [requests EXCEPT ![s].pc = pc]
        \/ \E n : requests' = [requests EXCEPT ![s].left = @ \ {n}]
    BY <1>4 DEF CheckRequest, ValidateName, CheckRoleName, CountHolders,
       CheckPermissionName, CountGrantors, GoTo, Refuse
  <2>2. requests \in [Slots -> RequestRows]
    BY DEF IInv, Core, RequestsOK
  <2>3. ASSUME NEW pc, requests' = [requests EXCEPT ![s].pc = pc] PROVE requests[q].op = "seed"
    BY <2>2, <2>3 DEF RequestRows
  <2>4. ASSUME NEW n, requests' = [requests EXCEPT ![s].left = @ \ {n}]
        PROVE  requests[q].op = "seed"
    BY <2>2, <2>4 DEF RequestRows
  <2> QED
    BY <1>2, <2>1, <2>3, <2>4, EndedOK DEF IInv, Core
<1>5. CASE WriteRequest(s)
  <2>1. \/ requests' = Ended(s)
        \/ \E ids : requests' = Link(Ended(s), ids)
    BY <1>5 DEF WriteRequest, CreateRole, UpdateRole, DeleteRole, CreatePermission,
       UpdatePermission, DeletePermission, AssignRoles, RegisterUser, Refuse
  <2>2. /\ Ended(s) \in [Slots -> RequestRows] /\ Ended(s)[s] = Idle
        /\ \A z \in Slots \ {s} : Ended(s)[z] = requests[z]
    BY EndedOK DEF IInv, Core
  <2>3. ASSUME NEW ids, requests' = Link(Ended(s), ids) PROVE requests[q].op = "seed"
    <3>1. Ended(s)[q].op = "seed"
      BY <2>2, <2>3, LinkOK DEF Kept
    <3> QED
      BY <1>2, <2>2, <3>1
  <2> QED
    BY <1>2, <2>1, <2>2, <2>3
<1> QED
  BY <1>3, <1>4, <1>5

LEMMA SeededStep ==
    ASSUME IInv, IInv', Seeded, [Next]_vars
    PROVE  Seeded'
<1>1. ASSUME UNCHANGED <<roles, permissions>> PROVE KeepsSystem
  BY <1>1 DEF KeepsSystem
<1>2. CASE UNCHANGED vars
  <2>1. /\ UNCHANGED <<roles, permissions, todo, completed, overtaken>>
        /\ Running' => Running
    BY <1>2 DEF vars, Running
  <2> QED
    BY <1>1, <2>1, SeededKept
<1>3. ASSUME NEW s \in Slots, BeginRequest(s) \/ CheckRequest(s) \/ WriteRequest(s)
      PROVE  Seeded'
  <2>1. KeepsSystem \/ overtaken'
    BY <1>1, <1>3, QuietTables, WritesKeepSystem
  <2>2. (overtaken => overtaken') /\ completed' = completed
    BY <1>3, FlagsGrow
  <2>3. Running' => Running
    BY <1>3, NoNewSeed DEF Running
  <2>4. todo' = todo
    BY <1>3, RequestsKeepTodo
  <2>5. Running' => Running /\ todo' = todo
    BY <2>3, <2>4
  <2> QED
    BY <2>1, <2>2, <2>5, SeededKept
<1>4. ASSUME NEW s \in Slots, StartSeed(s) PROVE Seeded'
  <2>1. /\ todo' = Tasks /\ UNCHANGED <<roles, permissions, completed, overtaken>>
    BY <1>4 DEF StartSeed
  <2>2. KeepsSystem
    BY <1>1, <2>1
  <2>3. ~overtaken' /\ completed' => \A t \in Tasks : InForce(t)'
    BY <2>1, <2>2, InForceKept DEF Seeded
  <2> QED
    BY <2>1, <2>3, TaskIn DEF Seeded
<1>5. ASSUME NEW s \in Slots, CompleteSeed(s) PROVE Seeded'
  <2>1. /\ UNCHANGED <<roles, permissions, todo, overtaken>> /\ Running /\ todo = {}
    BY <1>5 DEF CompleteSeed, Running
  <2> QED
    BY <1>1, <2>1, SeededKept
<1>6. ASSUME NEW s \in Slots, Abandon(s) PROVE Seeded'
  <2>1. /\ UNCHANGED <<roles, permissions, completed, overtaken>>
        /\ requests' = Ended(s)
        /\ requests[s].op = "seed" \/ todo' = todo
    BY <1>6 DEF Abandon
  <2>2. requests'[s] = Idle /\ \A q \in Slots \ {s} : requests'[q] = requests[q]
    BY <2>1, EndedOK DEF IInv, Core
  <2>3. Running' => Running /\ todo' = todo
    BY <2>1, <2>2 DEF Running, Idle, IInv, Core, SeedOK
  <2> QED
    BY <1>1, <2>1, <2>3, SeededKept
<1>7. ASSUME NEW u \in Users, DeleteUser(u) PROVE Seeded'
  <2>1. /\ UNCHANGED <<roles, permissions, todo, completed, overtaken>>
        /\ Running' => Running
    BY <1>7 DEF DeleteUser, Stay, Running
  <2> QED
    BY <1>1, <2>1, SeededKept
<1> QED
  BY <1>2, <1>3, <1>4, <1>5, <1>6, <1>7, SeedStepSeeded DEF Next

(* After a seed has run to its end the catalog of this release is in force   *)
(* for good, as long as no request writes to an entry the seed adopted after *)
(* the request had read it.  By induction, with Seeded for the seed's work. *)
THEOREM DefaultsInForceHolds == Spec => []DefaultsInForce
<1>1. Init => Seeded
  BY DEF Init, Seeded, Running, Idle
<1>2. IInv /\ Seeded => DefaultsInForce
  <2> SUFFICES ASSUME IInv, Seeded, completed, ~overtaken
               PROVE  /\ \A n \in DefaultPermissions : \E p \in PermissionIds :
                            permissions[p].name = n /\ permissions[p].isSystem
                      /\ \A n \in DefaultRoles : \E r \in RoleIds :
                            /\ roles[r].name = n /\ roles[r].isSystem
                            /\ PermissionsNamed(DefaultGrants[n]) \subseteq roles[r].grants
    BY DEF DefaultsInForce
  <2>1. \A t \in Tasks : InForce(t)
    BY DEF Seeded
  <2>2. ASSUME NEW n \in DefaultPermissions
        PROVE  \E p \in PermissionIds : permissions[p].name = n /\ permissions[p].isSystem
    <3>1. InForce(<<"permission", n>>)
      BY <2>1, TaskIn
    <3> QED
      BY <3>1 DEF InForce
  <2>3. ASSUME NEW n \in DefaultRoles
        PROVE  \E r \in RoleIds :
                  /\ roles[r].name = n /\ roles[r].isSystem
                  /\ PermissionsNamed(DefaultGrants[n]) \subseteq roles[r].grants
    <3>1. InForce(<<"role", n>>)
      BY <2>1, TaskIn
    <3>2. PICK r \in RoleIds : roles[r].name = n /\ roles[r].isSystem
      BY <3>1 DEF InForce
    <3>3. ASSUME NEW p \in PermissionsNamed(DefaultGrants[n]) PROVE p \in roles[r].grants
      <4>1. p \in PermissionIds /\ permissions[p].name \in DefaultGrants[n]
        BY <3>3 DEF PermissionsNamed
      <4>2. InForce(<<"grant", n, permissions[p].name>>)
        BY <2>1, <4>1, TaskIn
      <4>3. PICK q \in RoleIds, z \in PermissionIds :
              /\ roles[q].name = n /\ roles[q].isSystem
              /\ permissions[z].name = permissions[p].name /\ permissions[z].isSystem
              /\ z \in roles[q].grants
        BY <4>2 DEF InForce
      <4>4. q = r /\ z = p
        BY <3>2, <4>1, <4>3, SystemExists
           DEF IInv, Core, Tables, UniqueRoles, UniquePermissions
      <4> QED
        BY <4>3, <4>4
    <3> QED
      BY <3>2, <3>3
  <2> QED
    BY <2>2, <2>3
<1>3. IInv /\ IInv' /\ Seeded /\ [Next]_vars => Seeded'
  BY SeededStep
<1> QED
  BY <1>1, <1>2, <1>3, Inductive, PTL DEF Spec
=============================================================================
