---------------------------- MODULE Requests_proof ----------------------------
(***************************************************************************)
(* Proofs about Requests, for tokens with any sets of permissions.  What     *)
(* they need of the sixty routes is one predicate, Sound, which is proved   *)
(* of each controller's table; the rest is the life of a request.           *)
(***************************************************************************)
EXTENDS Requests, TLAPS

(* The route an action name is logged for.                                  *)
LoggedBy(action) ==
    CASE action = "todo.deleted_by_admin"    -> <<"userTodos", "delete">>
      [] action = "note.deleted_by_admin"    -> <<"userNotes", "delete">>
      [] action = "contact.deleted_by_admin" -> <<"userContacts", "delete">>
      [] action = "book.deleted_by_admin"    -> <<"userBooks", "delete">>
      [] action = "movie.deleted_by_admin"   -> <<"userMovies", "delete">>
      [] action = "expense.deleted_by_admin" -> <<"userExpenses", "delete">>
      [] action = "user.roles_changed"  -> <<"adminUsers", "updateUserRoles">>
      [] action = "user.status_changed" -> <<"adminUsers", "updateUserStatus">>
      [] action = "user.deleted"        -> <<"adminUsers", "deleteUser">>
      [] action = "user.restored"       -> <<"adminUsers", "restoreUser">>
      [] action = "user.password_reset" -> <<"adminUsers", "resetUserPassword">>
      [] action = "role.created" -> <<"adminRoles", "create">>
      [] action = "role.updated" -> <<"adminRoles", "update">>
      [] action = "role.deleted" -> <<"adminRoles", "delete">>
      [] action = "permission.created" -> <<"adminPermissions", "create">>
      [] action = "permission.updated" -> <<"adminPermissions", "update">>
      [] action = "permission.deleted" -> <<"adminPermissions", "delete">>
      [] action = "system.data_reset"  -> <<"adminDataResets", "createReset">>
      [] action = "system.demo_seed"   -> <<"adminDemoUserSeeds", "createSeed">>

(* What holds of every route by itself ...                                  *)
Shaped(x) ==
    /\ x.gate \in {"public", "token", "password"}
    /\ x.success \in {200, 201, 204}
    /\ x.refusals \subseteq {400, 401, 404, 409}
    /\ x.writes \subseteq 0..3
    /\ x.reach \in {"none", "self", "own", "others"}
    /\ x.gate = "token" /\ x.reach = "others" => \E p \in x.needs : p \notin OwnRights
    /\ x.gate # "token" => x.reach \in {"none", "self"}
    /\ x.reach # "self" /\ ~(x.writes \subseteq {0}) =>
          x.gate = "token" /\ \E p \in x.needs : p \notin ReadRights

(* ... of what its decorators promise, outside the auth controller ...       *)
Described(r, x) ==
    r[1] \notin {"auth", "health"} =>
       /\ x.refusals \subseteq x.described
       /\ x.gate # "public" => {401, 403} \subseteq x.described
       /\ x.validated => 400 \in x.described
       /\ 500 \in x.described
       /\ x.driftIsConflict => 409 \in x.described
       /\ x.success \in x.described \/ r = <<"adminDataResets", "createReset">>

(* ... and of what it is logged as: every change to the data of others is,  *)
(* but for the two routes that create a user.                               *)
Recorded(r, x) ==
    /\ x.loggedAs # Unlogged => LoggedBy(x.loggedAs) = r /\ x.reach = "others"
    /\ x.loggedAs = Unlogged /\ x.reach = "others" /\ ~(x.writes \subseteq {0}) =>
          r \in {<<"adminUsers", "createUser">>, <<"users", "registerUser">>}

Sound(r, x) == Shaped(x) /\ Described(r, x) /\ Recorded(r, x)

-----------------------------------------------------------------------------
(* Which permissions are neither of the owner's ones nor rights to read.    *)
LEMMA NotRead ==
    ASSUME NEW a, NEW v, v \notin {"read", "read_own", "read_any"}
    PROVE  <<a, v>> \notin ReadRights
  BY DEF ReadRights

LEMMA NotOwn ==
    ASSUME NEW a, NEW v,
           v \notin {"create_own", "read_own", "update_own", "delete_own"}
    PROVE  <<a, v>> \notin OwnRights
  BY DEF OwnRights

(* The five routes of an owner, whatever rights they ask for.               *)
LEMMA OwnItemsSound ==
    ASSUME NEW c, NEW area, NEW change, NEW remove,
           change \notin {"read", "read_own", "read_any"},
           remove \notin {"read", "read_own", "read_any"}
    PROVE  \A h \in DOMAIN OwnItems(area, change, remove) :
              Sound(<<c, h>>, OwnItems(area, change, remove)[h])
<1> DEFINE t == OwnItems(area, change, remove)
<1>1. DOMAIN t = {"create", "list", "get", "update", "delete"}
  BY DEF OwnItems
<1>2. \A v \in {"create_own", change, remove} : <<area, v>> \notin ReadRights
  BY NotRead
<1>3. Sound(<<c, "create">>, t["create"])
  BY <1>2 DEF OwnItems, CreateDocs, Route, Denials, Sound, Shaped, Described, Recorded, Unlogged
<1>4. Sound(<<c, "list">>, t["list"])
  BY <1>2 DEF OwnItems, ReadDocs, Route, Denials, Sound, Shaped, Described, Recorded, Unlogged
<1>5. Sound(<<c, "get">>, t["get"])
  BY <1>2 DEF OwnItems, ReadDocs, Route, Denials, Sound, Shaped, Described, Recorded, Unlogged
<1>6. Sound(<<c, "update">>, t["update"])
  BY <1>2 DEF OwnItems, ReadDocs, Route, Denials, Sound, Shaped, Described, Recorded, Unlogged
<1>7. Sound(<<c, "delete">>, t["delete"])
  BY <1>2 DEF OwnItems, DeleteDocs, Route, Denials, Sound, Shaped, Described, Recorded, Unlogged
<1> QED
  BY <1>1, <1>3, <1>4, <1>5, <1>6, <1>7

(* The three routes of an administrator on the items of anybody.            *)
LEMMA ItemsOfSound ==
    ASSUME NEW c, NEW area, NEW deletion,
           LoggedBy(deletion) = <<c, "delete">>, deletion # Unlogged
    PROVE  \A h \in DOMAIN ItemsOf(area, deletion) : Sound(<<c, h>>, ItemsOf(area, deletion)[h])
<1>1. DOMAIN ItemsOf(area, deletion) = {"list", "get", "delete"}
  BY DEF ItemsOf
<1>2. /\ <<area, "read_any">> \notin OwnRights
      /\ <<area, "delete_any">> \notin OwnRights \cup ReadRights
  BY NotOwn, NotRead
<1>3. Sound(<<c, "list">>, ItemsOf(area, deletion)["list"])
  BY <1>2 DEF ItemsOf, ReadDocs,
         Route, Denials, Sound, Shaped, Described, Recorded, Unlogged
<1>4. Sound(<<c, "get">>, ItemsOf(area, deletion)["get"])
  BY <1>2 DEF ItemsOf, ReadDocs,
         Route, Denials, Sound, Shaped, Described, Recorded, Unlogged
<1>5. Sound(<<c, "delete">>, ItemsOf(area, deletion)["delete"])
  BY <1>2 DEF ItemsOf, DeleteDocs, Logged,
         Route, Denials, Sound, Shaped, Described, Recorded, Unlogged
<1> QED
  BY <1>1, <1>3, <1>4, <1>5

(* The administration of users.                                             *)
LEMMA UsersSound ==
    \A h \in DOMAIN AdminUserRoutes : Sound(<<"adminUsers", h>>, AdminUserRoutes[h])
<1>1. DOMAIN AdminUserRoutes =
         {"listUsers", "getUser", "createUser", "updateUserRoles", "updateUserStatus",
          "deleteUser", "restoreUser", "resetUserPassword"}
  BY DEF AdminUserRoutes, UserManagementRoutes, UserActions
<1>2. /\ \A v \in {"read", "create", "update_roles", "deactivate", "delete",
                "restore", "reset_password"} : <<"iam.users", v>> \notin OwnRights
      /\ \A v \in {"create", "update_roles", "deactivate", "delete",
                "restore", "reset_password"} : <<"iam.users", v>> \notin ReadRights
  BY NotOwn, NotRead
<1>3. Sound(<<"adminUsers", "listUsers">>, AdminUserRoutes["listUsers"])
  <2>1. AdminUserRoutes["listUsers"] =
           Route(<<"iam.users", "read">>, 200, {}, {0},
                   ReadDocs)
    BY DEF AdminUserRoutes, UserManagementRoutes, UserActions
  <2> QED
    BY <1>2, <2>1 DEF ReadDocs, Route, Denials,
       Sound, Shaped, Described, Recorded, Unlogged
<1>4. Sound(<<"adminUsers", "getUser">>, AdminUserRoutes["getUser"])
  <2>1. AdminUserRoutes["getUser"] =
           Route(<<"iam.users", "read">>, 200, {404}, {0},
                   ReadDocs \cup {404})
    BY DEF AdminUserRoutes, UserManagementRoutes, UserActions
  <2> QED
    BY <1>2, <2>1 DEF ReadDocs, Route, Denials,
       Sound, Shaped, Described, Recorded, Unlogged
<1>5. Sound(<<"adminUsers", "createUser">>, AdminUserRoutes["createUser"])
  <2>1. AdminUserRoutes["createUser"] =
           Route(<<"iam.users", "create">>, 201, {409}, {1},
                   CreateDocs \cup {409})
    BY DEF AdminUserRoutes, UserManagementRoutes, UserActions
  <2> QED
    BY <1>2, <2>1 DEF CreateDocs, Route, Denials,
       Sound, Shaped, Described, Recorded, Unlogged
<1>6. Sound(<<"adminUsers", "updateUserRoles">>, AdminUserRoutes["updateUserRoles"])
  <2>1. AdminUserRoutes["updateUserRoles"] =
           Logged(Route(<<"iam.users", "update_roles">>, 200, {404, 409}, {2},
                   ReadDocs \cup {404, 409}),
              "user.roles_changed")
    BY DEF AdminUserRoutes, UserManagementRoutes, UserActions
  <2> QED
    BY <1>2, <2>1 DEF ReadDocs, Logged, LoggedBy, Route, Denials,
       Sound, Shaped, Described, Recorded, Unlogged
<1>7. Sound(<<"adminUsers", "updateUserStatus">>, AdminUserRoutes["updateUserStatus"])
  <2>1. AdminUserRoutes["updateUserStatus"] =
           Logged(Route(<<"iam.users", "deactivate">>, 200, {404, 409}, {1, 2},
                   ReadDocs \cup {404, 409}),
              "user.status_changed")
    BY DEF AdminUserRoutes, UserManagementRoutes, UserActions
  <2> QED
    BY <1>2, <2>1 DEF ReadDocs, Logged, LoggedBy, Route, Denials,
       Sound, Shaped, Described, Recorded, Unlogged
<1>8. Sound(<<"adminUsers", "deleteUser">>, AdminUserRoutes["deleteUser"])
  <2>1. AdminUserRoutes["deleteUser"] =
           Logged(Route(<<"iam.users", "delete">>, 200, {404, 409}, {2},
                   ReadDocs \cup {404, 409}),
              "user.deleted")
    BY DEF AdminUserRoutes, UserManagementRoutes, UserActions
  <2> QED
    BY <1>2, <2>1 DEF ReadDocs, Logged, LoggedBy, Route, Denials,
       Sound, Shaped, Described, Recorded, Unlogged
<1>9. Sound(<<"adminUsers", "restoreUser">>, AdminUserRoutes["restoreUser"])
  <2>1. AdminUserRoutes["restoreUser"] =
           Logged(Route(<<"iam.users", "restore">>, 200, {404, 409}, {2},
                   ReadDocs \cup {404, 409}),
              "user.restored")
    BY DEF AdminUserRoutes, UserManagementRoutes, UserActions
  <2> QED
    BY <1>2, <2>1 DEF ReadDocs, Logged, LoggedBy, Route, Denials,
       Sound, Shaped, Described, Recorded, Unlogged
<1>10. Sound(<<"adminUsers", "resetUserPassword">>, AdminUserRoutes["resetUserPassword"])
  <2>1. AdminUserRoutes["resetUserPassword"] =
           Logged(Route(<<"iam.users", "reset_password">>, 200, {404}, {2},
                   ReadDocs \cup {404}),
              "user.password_reset")
    BY DEF AdminUserRoutes, UserManagementRoutes, UserActions
  <2> QED
    BY <1>2, <2>1 DEF ReadDocs, Logged, LoggedBy, Route, Denials,
       Sound, Shaped, Described, Recorded, Unlogged
<1> QED
  BY <1>1, <1>3, <1>4, <1>5, <1>6, <1>7, <1>8, <1>9, <1>10

(* Roles and permissions.                                                   *)
LEMMA CatalogSound ==
    ASSUME NEW c, NEW area, NEW created, NEW updated, NEW deleted,
           LoggedBy(created) = <<c, "create">>, created # Unlogged,
           LoggedBy(updated) = <<c, "update">>, updated # Unlogged,
           LoggedBy(deleted) = <<c, "delete">>, deleted # Unlogged
    PROVE  \A h \in DOMAIN CatalogRoutes(area, created, updated, deleted) :
              Sound(<<c, h>>, CatalogRoutes(area, created, updated, deleted)[h])
<1> DEFINE t == CatalogRoutes(area, created, updated, deleted)
<1>1. DOMAIN t = {"list", "create", "update", "delete"}
  BY DEF CatalogRoutes
<1>2. /\ \A v \in {"read", "create", "update", "delete"} : <<area, v>> \notin OwnRights
      /\ \A v \in {"create", "update", "delete"} : <<area, v>> \notin ReadRights
  BY NotOwn, NotRead
<1>3. Sound(<<c, "list">>, t["list"])
  BY <1>2 DEF CatalogRoutes, ReadDocs, Route, Denials,
     Sound, Shaped, Described, Recorded, Unlogged
<1>4. Sound(<<c, "create">>, t["create"])
  BY <1>2 DEF CatalogRoutes, CreateDocs, Logged, Route, Denials,
     Sound, Shaped, Described, Recorded, Unlogged
<1>5. Sound(<<c, "update">>, t["update"])
  BY <1>2 DEF CatalogRoutes, ReadDocs, Logged, Route, Denials,
     Sound, Shaped, Described, Recorded, Unlogged
<1>6. Sound(<<c, "delete">>, t["delete"])
  BY <1>2 DEF CatalogRoutes, DeleteDocs, Logged, Route, Denials,
     Sound, Shaped, Described, Recorded, Unlogged
<1> QED
  BY <1>1, <1>3, <1>4, <1>5, <1>6

(* The controllers of a single route.                                       *)
LEMMA SingleRoutesSound ==
    /\ \A h \in DOMAIN OnboardingRoutes : Sound(<<"users", h>>, OnboardingRoutes[h])
    /\ \A h \in DOMAIN AuditLogRoutes :
          Sound(<<"adminAuditLogs", h>>, AuditLogRoutes[h])
    /\ \A h \in DOMAIN DataResetRoutes :
          Sound(<<"adminDataResets", h>>, DataResetRoutes[h])
    /\ \A h \in DOMAIN DemoSeedRoutes :
          Sound(<<"adminDemoUserSeeds", h>>, DemoSeedRoutes[h])
    /\ \A h \in DOMAIN HealthRoutes : Sound(<<"health", h>>, HealthRoutes[h])
<1>1. /\ <<"iam.users", "create">> \notin OwnRights \cup ReadRights
      /\ <<"iam.audit_logs", "read">> \notin OwnRights
      /\ <<"system", "reset.any">> \notin OwnRights \cup ReadRights
  BY NotOwn, NotRead
<1>2. \A h \in DOMAIN OnboardingRoutes : Sound(<<"users", h>>, OnboardingRoutes[h])
  BY <1>1 DEF OnboardingRoutes, CreateDocs, Route, Denials,
     Sound, Shaped, Described, Recorded, Unlogged
<1>3. \A h \in DOMAIN AuditLogRoutes : Sound(<<"adminAuditLogs", h>>, AuditLogRoutes[h])
  BY <1>1 DEF AuditLogRoutes, ReadDocs, Route, Denials,
     Sound, Shaped, Described, Recorded, Unlogged
<1>4. \A h \in DOMAIN DataResetRoutes : Sound(<<"adminDataResets", h>>, DataResetRoutes[h])
  BY <1>1 DEF DataResetRoutes, CreateDocs, Logged, LoggedBy, Route, Denials,
     Sound, Shaped, Described, Recorded, Unlogged
<1>5. \A h \in DOMAIN DemoSeedRoutes : Sound(<<"adminDemoUserSeeds", h>>, DemoSeedRoutes[h])
  <2> DEFINE y == Logged(Route(<<"system", "reset.any">>, 200, {409}, {3},
                               ReadDocs \cup {409}), "system.demo_seed")
             x == [y EXCEPT !.validated = FALSE, !.driftIsConflict = TRUE]
  <2>1. DemoSeedRoutes = [createSeed |-> x]
    BY DEF DemoSeedRoutes, SeedWrites
  <2>2. /\ DOMAIN y = {"gate", "needs", "validated", "success", "refusals", "writes",
                      "described", "reach", "loggedAs", "driftIsConflict"}
        /\ y.gate = "token" /\ y.needs = {<<"system", "reset.any">>}
        /\ y.success = 200 /\ y.refusals = {409} /\ y.writes = {3}
        /\ y.described = ReadDocs \cup {409} \cup {401, 403}
        /\ y.reach = "others" /\ y.loggedAs = "system.demo_seed"
    BY DEF Logged, Route, Denials
  <2> HIDE DEF y
  <2>3. /\ x.gate = "token" /\ x.needs = {<<"system", "reset.any">>}
        /\ x.success = 200 /\ x.refusals = {409} /\ x.writes = {3}
        /\ x.described = ReadDocs \cup {409} \cup {401, 403}
        /\ x.reach = "others" /\ x.loggedAs = "system.demo_seed"
        /\ x.validated = FALSE /\ x.driftIsConflict = TRUE
    BY <2>2
  <2> HIDE DEF x
  <2>4. Sound(<<"adminDemoUserSeeds", "createSeed">>, x)
    BY <1>1, <2>3 DEF ReadDocs, LoggedBy, Sound, Shaped, Described, Recorded, Unlogged
  <2>5. DOMAIN DemoSeedRoutes = {"createSeed"} /\ DemoSeedRoutes["createSeed"] = x
    BY <2>1
  <2> QED
    BY <2>4, <2>5
<1>6. \A h \in DOMAIN HealthRoutes : Sound(<<"health", h>>, HealthRoutes[h])
  BY DEF HealthRoutes, AuthRoute, Sound, Shaped, Described, Recorded, Unlogged
<1> QED
  BY <1>2, <1>3, <1>4, <1>5, <1>6

(* A caller's own session and password.                                     *)
LEMMA AuthSound == \A h \in DOMAIN AuthRoutes : Sound(<<"auth", h>>, AuthRoutes[h])
<1>1. DOMAIN AuthRoutes = {"login", "refresh", "logout", "me", "changePassword"}
  BY DEF AuthRoutes
<1>2. Sound(<<"auth", "login">>, AuthRoutes["login"])
  BY DEF AuthRoutes, AuthRoute, Sound, Shaped, Described, Recorded, Unlogged
<1>3. Sound(<<"auth", "refresh">>, AuthRoutes["refresh"])
  BY DEF AuthRoutes, AuthRoute, Sound, Shaped, Described, Recorded, Unlogged
<1>4. Sound(<<"auth", "logout">>, AuthRoutes["logout"])
  BY DEF AuthRoutes, AuthRoute, Sound, Shaped, Described, Recorded, Unlogged
<1>5. Sound(<<"auth", "me">>, AuthRoutes["me"])
  BY DEF AuthRoutes, AuthRoute, Sound, Shaped, Described, Recorded, Unlogged
<1>6. Sound(<<"auth", "changePassword">>, AuthRoutes["changePassword"])
  BY DEF AuthRoutes, AuthRoute, Sound, Shaped, Described, Recorded, Unlogged
<1> QED
  BY <1>1, <1>2, <1>3, <1>4, <1>5, <1>6

(* All of them.                                                             *)
LEMMA ControllerSound ==
    ASSUME NEW c \in DOMAIN Controllers
    PROVE  \A h \in DOMAIN Controllers[c] : Sound(<<c, h>>, Controllers[c][h])
<1>1. c \in {"todos", "notes", "contacts", "books", "movies", "expenses",
            "userTodos", "userNotes", "userContacts", "userBooks", "userMovies",
            "userExpenses", "adminUsers", "users", "adminRoles",
            "adminPermissions", "adminAuditLogs", "adminDataResets",
            "adminDemoUserSeeds", "auth", "health"}
  BY DEF Controllers
<1>2. CASE c = "todos"
  <2>1. Controllers[c] = TodoRoutes
    BY <1>2 DEF Controllers
  <2>2. \A h \in DOMAIN TodoRoutes : Sound(<<"todos", h>>, TodoRoutes[h])
    BY OwnItemsSound DEF TodoRoutes
  <2> QED
    BY <1>2, <2>1, <2>2
<1>3. CASE c = "notes"
  <2>1. Controllers[c] = NoteRoutes
    BY <1>3 DEF Controllers
  <2>2. \A h \in DOMAIN NoteRoutes : Sound(<<"notes", h>>, NoteRoutes[h])
    BY OwnItemsSound DEF NoteRoutes
  <2> QED
    BY <1>3, <2>1, <2>2
<1>4. CASE c = "contacts"
  <2>1. Controllers[c] = ContactRoutes
    BY <1>4 DEF Controllers
  <2>2. \A h \in DOMAIN ContactRoutes : Sound(<<"contacts", h>>, ContactRoutes[h])
    BY OwnItemsSound DEF ContactRoutes
  <2> QED
    BY <1>4, <2>1, <2>2
<1>5. CASE c = "books"
  <2>1. Controllers[c] = BookRoutes
    BY <1>5 DEF Controllers
  <2>2. \A h \in DOMAIN BookRoutes : Sound(<<"books", h>>, BookRoutes[h])
    BY OwnItemsSound DEF BookRoutes
  <2> QED
    BY <1>5, <2>1, <2>2
<1>6. CASE c = "movies"
  <2>1. Controllers[c] = MovieRoutes
    BY <1>6 DEF Controllers
  <2>2. \A h \in DOMAIN MovieRoutes : Sound(<<"movies", h>>, MovieRoutes[h])
    BY OwnItemsSound DEF MovieRoutes
  <2> QED
    BY <1>6, <2>1, <2>2
<1>7. CASE c = "expenses"
  <2>1. Controllers[c] = ExpenseRoutes
    BY <1>7 DEF Controllers
  <2>2. \A h \in DOMAIN ExpenseRoutes : Sound(<<"expenses", h>>, ExpenseRoutes[h])
    BY OwnItemsSound DEF ExpenseRoutes
  <2> QED
    BY <1>7, <2>1, <2>2
<1>8. CASE c = "userTodos"
  <2>1. Controllers[c] = UserTodoRoutes
    BY <1>8 DEF Controllers
  <2>2. \A h \in DOMAIN UserTodoRoutes : Sound(<<"userTodos", h>>, UserTodoRoutes[h])
    BY ItemsOfSound DEF UserTodoRoutes, LoggedBy, Unlogged
  <2> QED
    BY <1>8, <2>1, <2>2
<1>9. CASE c = "userNotes"
  <2>1. Controllers[c] = UserNoteRoutes
    BY <1>9 DEF Controllers
  <2>2. \A h \in DOMAIN UserNoteRoutes : Sound(<<"userNotes", h>>, UserNoteRoutes[h])
    BY ItemsOfSound DEF UserNoteRoutes, LoggedBy, Unlogged
  <2> QED
    BY <1>9, <2>1, <2>2
<1>10. CASE c = "userContacts"
  <2>1. Controllers[c] = UserContactRoutes
    BY <1>10 DEF Controllers
  <2>2. \A h \in DOMAIN UserContactRoutes : Sound(<<"userContacts", h>>, UserContactRoutes[h])
    BY ItemsOfSound DEF UserContactRoutes, LoggedBy, Unlogged
  <2> QED
    BY <1>10, <2>1, <2>2
<1>11. CASE c = "userBooks"
  <2>1. Controllers[c] = UserBookRoutes
    BY <1>11 DEF Controllers
  <2>2. \A h \in DOMAIN UserBookRoutes : Sound(<<"userBooks", h>>, UserBookRoutes[h])
    BY ItemsOfSound DEF UserBookRoutes, LoggedBy, Unlogged
  <2> QED
    BY <1>11, <2>1, <2>2
<1>12. CASE c = "userMovies"
  <2>1. Controllers[c] = UserMovieRoutes
    BY <1>12 DEF Controllers
  <2>2. \A h \in DOMAIN UserMovieRoutes : Sound(<<"userMovies", h>>, UserMovieRoutes[h])
    BY ItemsOfSound DEF UserMovieRoutes, LoggedBy, Unlogged
  <2> QED
    BY <1>12, <2>1, <2>2
<1>13. CASE c = "userExpenses"
  <2>1. Controllers[c] = UserExpenseRoutes
    BY <1>13 DEF Controllers
  <2>2. \A h \in DOMAIN UserExpenseRoutes : Sound(<<"userExpenses", h>>, UserExpenseRoutes[h])
    BY ItemsOfSound DEF UserExpenseRoutes, LoggedBy, Unlogged
  <2> QED
    BY <1>13, <2>1, <2>2
<1>14. CASE c = "adminUsers"
  <2>1. Controllers[c] = AdminUserRoutes
    BY <1>14 DEF Controllers
  <2>2. \A h \in DOMAIN AdminUserRoutes : Sound(<<"adminUsers", h>>, AdminUserRoutes[h])
    BY UsersSound
  <2> QED
    BY <1>14, <2>1, <2>2
<1>15. CASE c = "users"
  <2>1. Controllers[c] = OnboardingRoutes
    BY <1>15 DEF Controllers
  <2>2. \A h \in DOMAIN OnboardingRoutes : Sound(<<"users", h>>, OnboardingRoutes[h])
    BY SingleRoutesSound
  <2> QED
    BY <1>15, <2>1, <2>2
<1>16. CASE c = "adminRoles"
  <2>1. Controllers[c] = RoleRoutes
    BY <1>16 DEF Controllers
  <2>2. \A h \in DOMAIN RoleRoutes : Sound(<<"adminRoles", h>>, RoleRoutes[h])
    BY CatalogSound DEF RoleRoutes, LoggedBy, Unlogged
  <2> QED
    BY <1>16, <2>1, <2>2
<1>17. CASE c = "adminPermissions"
  <2>1. Controllers[c] = PermissionRoutes
    BY <1>17 DEF Controllers
  <2>2. \A h \in DOMAIN PermissionRoutes : Sound(<<"adminPermissions", h>>, PermissionRoutes[h])
    BY CatalogSound DEF PermissionRoutes, LoggedBy, Unlogged
  <2> QED
    BY <1>17, <2>1, <2>2
<1>18. CASE c = "adminAuditLogs"
  <2>1. Controllers[c] = AuditLogRoutes
    BY <1>18 DEF Controllers
  <2>2. \A h \in DOMAIN AuditLogRoutes : Sound(<<"adminAuditLogs", h>>, AuditLogRoutes[h])
    BY SingleRoutesSound
  <2> QED
    BY <1>18, <2>1, <2>2
<1>19. CASE c = "adminDataResets"
  <2>1. Controllers[c] = DataResetRoutes
    BY <1>19 DEF Controllers
  <2>2. \A h \in DOMAIN DataResetRoutes : Sound(<<"adminDataResets", h>>, DataResetRoutes[h])
    BY SingleRoutesSound
  <2> QED
    BY <1>19, <2>1, <2>2
<1>20. CASE c = "adminDemoUserSeeds"
  <2>1. Controllers[c] = DemoSeedRoutes
    BY <1>20 DEF Controllers
  <2>2. \A h \in DOMAIN DemoSeedRoutes : Sound(<<"adminDemoUserSeeds", h>>, DemoSeedRoutes[h])
    BY SingleRoutesSound
  <2> QED
    BY <1>20, <2>1, <2>2
<1>21. CASE c = "auth"
  <2>1. Controllers[c] = AuthRoutes
    BY <1>21 DEF Controllers
  <2>2. \A h \in DOMAIN AuthRoutes : Sound(<<"auth", h>>, AuthRoutes[h])
    BY AuthSound
  <2> QED
    BY <1>21, <2>1, <2>2
<1>22. CASE c = "health"
  <2>1. Controllers[c] = HealthRoutes
    BY <1>22 DEF Controllers
  <2>2. \A h \in DOMAIN HealthRoutes : Sound(<<"health", h>>, HealthRoutes[h])
    BY SingleRoutesSound
  <2> QED
    BY <1>22, <2>1, <2>2
<1> QED
  BY <1>1, <1>2, <1>3, <1>4, <1>5, <1>6, <1>7, <1>8, <1>9, <1>10, <1>11,
     <1>12, <1>13, <1>14, <1>15, <1>16, <1>17, <1>18, <1>19, <1>20, <1>21, <1>22

LEMMA RoutesSound == \A r \in Routes : Sound(r, RouteOf(r))
<1> SUFFICES ASSUME NEW r \in Routes PROVE Sound(r, RouteOf(r))
  OBVIOUS
<1>1. PICK c \in DOMAIN Controllers : r \in {c} \X DOMAIN Controllers[c]
  BY DEF Routes
<1>2. PICK h \in DOMAIN Controllers[c] : r = <<c, h>>
  BY <1>1
<1> QED
  BY <1>2, ControllerSound DEF RouteOf
-----------------------------------------------------------------------------
(* Types, without what TypeOK says of the writes.                           *)
Typed ==
    /\ stage \in Stages
    /\ route \in Routes
    /\ token \in {None, Invalid} \cup Claims
    /\ done \in 0..3
    /\ outcome \in {"none", "success", "failure", "error", "drift"}
    /\ status \in {0} \cup Statuses
    /\ entry \in {None} \cup Entries
    /\ answer \in {None} \cup Answers

(* Nothing has happened before the handler; nothing is said before the end.  *)
Ordered ==
    /\ stage \in {"idle", "guard", "pipe"} => done = 0
    /\ stage \in {"idle", "guard", "pipe", "handler"} => outcome = "none" /\ entry = None
    /\ stage = "audit" => entry = None /\ This.loggedAs # Unlogged
    /\ stage \in {"audit", "reply"} => outcome # "none"
    /\ done > 0 => \E n \in This.writes : done <= n

(* Whoever is past the guard, or has written, was let through.              *)
Admitted ==
    /\ stage \in {"pipe", "handler", "audit", "reply"} \/ done > 0
    /\ This.gate # "public"
    => Authentic /\ ~Gated /\ ~Lacking

(* What the ways to end say about the writes and the status.                *)
Ended ==
    /\ outcome = "success" => status = This.success
    /\ outcome = "failure" => done = 0 /\ status \in This.refusals

(* What the log says once it has had its turn.                              *)
Consistent ==
    /\ entry = None /\ This.loggedAs # Unlogged /\ outcome # "none" =>
          outcome \in {"error", "drift"}
    /\ entry # None =>
          /\ entry.action = This.loggedAs
          /\ This.loggedAs # Unlogged
          /\ entry.outcome = IF outcome = "success" THEN "success" ELSE "rejected"

(* The answers there are: the guard's, the pipe's, the result's, an error's. *)
Concluded ==
    stage = "answered" =>
        /\ answer # None
        /\ \/ /\ outcome = "none" /\ done = 0 /\ entry = None
              /\ \/ answer.status \in {401, 403} /\ This.gate # "public"
                 \/ answer.status = 400 /\ This.validated
           \/ outcome = "success" /\ answer.status \in {This.success, 500}
           \/ outcome = "failure" /\ answer.status = status
           \/ outcome \in {"error", "drift"} /\ answer.status = 500
           \/ /\ outcome = "drift" /\ This.driftIsConflict
              /\ answer.status = 409 /\ answer.code = "CONFLICT"

Inv == /\ Typed /\ Ordered /\ Admitted /\ Ended /\ Concluded
       /\ stage \in {"reply", "answered"} => Consistent

-----------------------------------------------------------------------------
LEMMA StatusCodes ==
    /\ \A s \in {400, 401, 403, 404, 409, 500} : CodeOf(s) \in Codes
    /\ CodeOf(409) = "CONFLICT"
<1>1. \A s \in {400, 401, 403, 404, 409, 500} : CodeOf(s) \in Codes
  BY DEF CodeOf, Codes
<1>2. CodeOf(409) = "CONFLICT"
  BY DEF CodeOf
<1> QED
  BY <1>1, <1>2

LEMMA InitInv == Init => Inv
<1> SUFFICES ASSUME Init PROVE Inv
  OBVIOUS
<1>1. <<"health", "getHealth">> \in Routes
  BY DEF Routes, Controllers, HealthRoutes
<1> QED
  BY <1>1 DEF Init, Inv, Typed, Ordered, Admitted, Ended, Concluded, Consistent, Stages
(* What Sound gives of the route of a request.                              *)
LEMMA RouteSound ==
    ASSUME route \in Routes
    PROVE  Shaped(This) /\ Described(route, This) /\ Recorded(route, This)
  BY RoutesSound DEF Sound, This

LEMMA ReceiveInv ==
    ASSUME Inv, NEW r \in Routes, NEW t \in {None, Invalid} \cup Claims, Receive(r, t)
    PROVE  Inv'
  BY DEF Receive, Inv, Typed, Ordered, Admitted, Ended, Consistent, Concluded, Stages

LEMMA GuardInv ==
    ASSUME Inv, PassGuard \/ RefuseToken \/ RefuseAccess
    PROVE  Inv'
<1>1. CASE PassGuard
  BY <1>1 DEF PassGuard, This, Authentic, Gated, Lacking, Inv, Typed, Ordered,
     Admitted, Ended, Consistent, Concluded, Stages
<1>2. CASE RefuseToken \/ RefuseAccess
  <2>1. answer' \in Answers /\ answer'.status \in {401, 403}
    BY <1>2, StatusCodes DEF RefuseToken, RefuseAccess, Fail, Reply, Answers, Statuses, Codes
  <2> QED
    BY <1>2, <2>1, NoneAssumption DEF RefuseToken, RefuseAccess, Fail, Reply, This,
       Inv, Typed, Ordered, Admitted, Ended, Consistent, Concluded, Stages
<1> QED
  BY <1>1, <1>2

LEMMA PipeInv ==
    ASSUME Inv, PassPipe \/ RefuseInput
    PROVE  Inv'
<1>1. CASE PassPipe
  BY <1>1 DEF PassPipe, This, Authentic, Gated, Lacking, Inv, Typed, Ordered,
     Admitted, Ended, Consistent, Concluded, Stages
<1>2. CASE RefuseInput
  <2>1. answer' \in Answers /\ answer'.status = 400
    BY <1>2 DEF RefuseInput, Reply, Answers, Statuses, Codes
  <2> QED
    BY <1>2, <2>1, NoneAssumption DEF RefuseInput, Reply, This, Inv, Typed, Ordered,
       Admitted, Ended, Consistent, Concluded, Stages
<1> QED
  BY <1>1, <1>2

LEMMA WriteInv ==
    ASSUME Inv, Write
    PROVE  Inv'
<1>1. PICK n \in This.writes : done < n
  BY DEF Write
<1>2. This' = This
  BY DEF Write, This
<1>3. n \in 0..3
  BY <1>1, RouteSound DEF Inv, Typed, Shaped
<1>4. done' \in 0..3 /\ done' <= n /\ n \in This'.writes
  BY <1>1, <1>2, <1>3 DEF Write, Inv, Typed
<1>5. Admitted'
  BY <1>2 DEF Write, Inv, Admitted, Authentic, Gated, Lacking
<1> QED
  BY <1>2, <1>4, <1>5 DEF Write, Inv, Typed, Ordered, Ended, Consistent, Concluded, Stages

LEMMA LeaveInv ==
    ASSUME Inv, Succeed \/ Refuse \/ Throw \/ ThrowDrift
    PROVE  Inv'
<1>1. This' = This
  BY DEF Succeed, Refuse, Throw, ThrowDrift, Leave, This
<1>2. status' \in {0} \cup Statuses
  BY RouteSound DEF Succeed, Refuse, Throw, ThrowDrift, Inv, Typed, Shaped, Statuses
<1>3. Admitted'
  BY <1>1 DEF Succeed, Refuse, Throw, ThrowDrift, Leave, Inv, Admitted, Authentic,
     Gated, Lacking
<1>4. Ended'
  BY <1>1 DEF Succeed, Refuse, Throw, ThrowDrift, Leave, Ended
<1> QED
  BY <1>1, <1>2, <1>3, <1>4 DEF Succeed, Refuse, Throw, ThrowDrift, Leave, Inv, Typed,
     Ordered, Consistent, Concluded, Stages

LEMMA RecordInv ==
    ASSUME Inv, RecordEntry \/ FailToRecord
    PROVE  Inv'
<1>1. This' = This
  BY DEF RecordEntry, FailToRecord, This
<1>2. Admitted'
  BY <1>1 DEF RecordEntry, FailToRecord, Inv, Admitted, Authentic, Gated, Lacking
<1>3. CASE RecordEntry
  <2>1. entry' \in Entries
    BY <1>3 DEF RecordEntry, Entries, ActionNames, This, Inv, Typed, Ordered
  <2> QED
    BY <1>1, <1>2, <1>3, <2>1, NoneAssumption DEF RecordEntry, Inv, Typed, Ordered,
       Ended, Consistent, Concluded, Stages
<1>4. CASE FailToRecord
  BY <1>1, <1>2, <1>4 DEF FailToRecord, Inv, Typed, Ordered, Ended, Consistent,
     Concluded, Stages
<1> QED
  BY <1>3, <1>4

LEMMA AnswerInv ==
    ASSUME Inv, AnswerResult \/ FailToSerialize \/ AnswerError
    PROVE  Inv'
<1>1. This' = This
  BY DEF AnswerResult, FailToSerialize, AnswerError, This
<1>2. Admitted'
  BY <1>1 DEF AnswerResult, FailToSerialize, AnswerError, Reply, Fail, Inv, Admitted,
     Authentic, Gated, Lacking
<1>3. /\ outcome = "success" => status \in Statuses
      /\ outcome = "failure" => status \in {400, 401, 404, 409}
  BY RouteSound DEF Inv, Typed, Ended, Shaped, Statuses
<1>4. answer' \in Answers
  <2>1. CASE AnswerResult
    BY <1>3, <2>1, StatusCodes DEF AnswerResult, Reply, Fail, Answers, Statuses, Codes
  <2>2. CASE FailToSerialize
    BY <2>2 DEF FailToSerialize, Reply, Answers, Statuses, Codes
  <2>3. CASE AnswerError
    BY <2>3, StatusCodes DEF AnswerError, Reply, Fail, Answers, Statuses
  <2> QED
    BY <2>1, <2>2, <2>3
<1>5. Concluded'
  BY <1>1, <1>4, StatusCodes, NoneAssumption DEF AnswerResult, FailToSerialize, AnswerError,
     Reply, Fail, Inv, Ended, Concluded
<1> QED
  BY <1>1, <1>2, <1>4, <1>5 DEF AnswerResult, FailToSerialize, AnswerError, Reply, Fail,
     Inv, Typed, Ordered, Ended, Consistent, Stages

LEMMA EndInv ==
    ASSUME Inv, Crash \/ Close
    PROVE  Inv'
<1>1. CASE Crash
  BY <1>1 DEF Crash, This, Authentic, Gated, Lacking, Inv, Typed, Ordered, Admitted,
     Ended, Consistent, Concluded, Stages
<1>2. CASE Close
  <2>1. <<"health", "getHealth">> \in Routes
    BY DEF Routes, Controllers, HealthRoutes
  <2> QED
    BY <1>2, <2>1 DEF Close, Inv, Typed, Ordered, Admitted, Ended, Consistent,
       Concluded, Stages
<1> QED
  BY <1>1, <1>2

LEMMA StutterInv == ASSUME Inv, UNCHANGED vars PROVE Inv'
  BY DEF vars, This, Authentic, Gated, Lacking, Inv, Typed, Ordered, Admitted, Ended,
     Consistent, Concluded, Stages

(* What holds of every request at every point of its life.                  *)
THEOREM Inductive == Spec => []Inv
<1>1. ASSUME Inv, [Next]_vars PROVE Inv'
  BY <1>1, ReceiveInv, GuardInv, PipeInv, WriteInv, LeaveInv, RecordInv, AnswerInv,
     EndInv, StutterInv DEF Next
<1> QED
  BY InitInv, <1>1, PTL DEF Spec
-----------------------------------------------------------------------------
(* Every variable holds what it can hold.                                   *)
THEOREM TypeCorrect == Spec => []TypeOK
<1>1. Inv => TypeOK
  BY DEF Inv, Typed, Ordered, TypeOK
<1> QED
  BY Inductive, <1>1, PTL

(* Own-data permissions never lead past the guard of a route that reaches   *)
(* anybody else's data, whatever set of them a token carries.               *)
THEOREM OwnRightsReachOwnDataHolds == Spec => []OwnRightsReachOwnData
<1>1. Inv => OwnRightsReachOwnData
  <2> SUFFICES ASSUME Inv, Beyond, token \in Claims => token.permissions \subseteq OwnRights
               PROVE  /\ This.reach # "others"
                      /\ token \notin Claims => This.reach \in {"self", "none"}
    BY DEF OwnRightsReachOwnData
  <2>1. Shaped(This)
    BY RouteSound DEF Inv, Typed
  <2>2. CASE This.gate = "public"
    BY <2>1, <2>2 DEF Shaped
  <2>3. CASE This.gate # "public"
    BY <2>1, <2>3 DEF Inv, Admitted, Beyond, Authentic, Lacking, Shaped
  <2> QED
    BY <2>2, <2>3
<1> QED
  BY Inductive, <1>1, PTL

(* Rights to read, whatever set of them a token carries, change nothing but *)
(* the caller's own session and password.                                   *)
THEOREM ReadersChangeNothingHolds == Spec => []ReadersChangeNothing
<1>1. Inv => ReadersChangeNothing
  <2> SUFFICES ASSUME Inv, done > 0, token \in Claims,
                      token.permissions \subseteq ReadRights, This.reach # "self"
               PROVE  FALSE
    BY DEF ReadersChangeNothing
  <2>1. Shaped(This)
    BY RouteSound DEF Inv, Typed
  <2>2. ~(This.writes \subseteq {0})
    BY <2>1 DEF Inv, Typed, Ordered, Shaped
  <2> QED
    BY <2>1, <2>2 DEF Inv, Admitted, Lacking, Authentic, Shaped
<1> QED
  BY Inductive, <1>1, PTL

(* A refusal is answered only where nothing was written, the seed's         *)
(* conflict aside.                                                          *)
THEOREM RefusalsChangeNothingHolds == Spec => []RefusalsChangeNothing
<1>1. Inv => RefusalsChangeNothing
  <2> SUFFICES ASSUME Inv, Refused, done > 0
               PROVE  This.driftIsConflict /\ answer.code = "CONFLICT" /\ outcome = "drift"
    BY DEF RefusalsChangeNothing
  <2>1. This.success \in {200, 201, 204}
    BY RouteSound DEF Inv, Typed, Shaped
  <2> QED
    BY <2>1 DEF Inv, Concluded, Ended, Refused
<1> QED
  BY Inductive, <1>1, PTL

(* A change to the data of others without an audit entry is answered with   *)
(* an error, the creation of a user aside.                                  *)
THEOREM ChangesLeaveAnEntryHolds == Spec => []ChangesLeaveAnEntry
<1>1. Inv => ChangesLeaveAnEntry
  <2> SUFFICES ASSUME Inv, stage = "answered", done > 0, This.reach = "others",
                      entry = None,
                      route \notin {<<"adminUsers", "createUser">>,
                                    <<"users", "registerUser">>}
               PROVE  \/ answer.status = 500
                      \/ answer.status = 409 /\ This.driftIsConflict
    BY DEF ChangesLeaveAnEntry
  <2>1. This.loggedAs # Unlogged
    BY RouteSound DEF Inv, Typed, Ordered, Recorded, Shaped
  <2>2. outcome \in {"none", "error", "drift"}
    BY <2>1 DEF Inv, Consistent
  <2> QED
    BY <2>2 DEF Inv, Concluded
<1> QED
  BY Inductive, <1>1, PTL

(* What the log says and what the caller is told agree, and an action name  *)
(* tells the route.                                                         *)
THEOREM LogAgreesWithAnswerHolds == Spec => []LogAgreesWithAnswer
<1>1. Inv => LogAgreesWithAnswer
  <2> SUFFICES ASSUME Inv, stage = "answered", This.loggedAs # Unlogged
               PROVE  /\ answer.status < 400 => entry # None /\ entry.outcome = "success"
                      /\ entry # None /\ entry.outcome = "success" => ~Refused
                      /\ Refused /\ outcome = "failure"
                            => entry # None /\ entry.outcome = "rejected"
                      /\ entry # None => \A r \in Routes :
                            RouteOf(r).loggedAs = entry.action => r = route
    BY DEF LogAgreesWithAnswer
  <2>1. This.success \in {200, 201, 204} /\ This.refusals \subseteq {400, 401, 404, 409}
    BY RouteSound DEF Inv, Typed, Shaped
  <2>2. outcome = "failure" => status \in {400, 401, 404, 409}
    BY <2>1 DEF Inv, Ended
  <2>3. /\ answer.status < 400 => entry # None /\ entry.outcome = "success"
        /\ entry # None /\ entry.outcome = "success" => ~Refused
        /\ Refused /\ outcome = "failure"
              => entry # None /\ entry.outcome = "rejected"
    BY <2>1, <2>2 DEF Inv, Consistent, Concluded, Refused
  <2>4. ASSUME entry # None, NEW r \in Routes, RouteOf(r).loggedAs = entry.action
        PROVE  r = route
    BY <2>4, RouteSound, RoutesSound DEF Inv, Typed, Consistent, Sound, Recorded
  <2> QED
    BY <2>3, <2>4
<1> QED
  BY Inductive, <1>1, PTL

(* Every answer is one the decorators promise, the exceptions aside.        *)
THEOREM AnswersDescribedHolds == Spec => []AnswersDescribed
<1>1. Inv => AnswersDescribed
  <2> SUFFICES ASSUME Inv, stage = "answered", route[1] \notin {"auth", "health"}
               PROVE  \/ answer.status \in This.described
                      \/ Answered(200) /\ route = <<"adminDataResets", "createReset">>
    BY DEF AnswersDescribed
  <2>1. Described(route, This)
    BY RouteSound DEF Inv, Typed
  <2>2. route = <<"adminDataResets", "createReset">> => This.success = 200
    BY DEF This, RouteOf, Controllers, DataResetRoutes, Logged, Route
  <2> QED
    BY <2>1, <2>2 DEF Inv, Concluded, Ended, Described, Answered
<1> QED
  BY Inductive, <1>1, PTL
=============================================================================
