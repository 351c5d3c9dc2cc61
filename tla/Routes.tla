------------------------------- MODULE Routes -------------------------------
(***************************************************************************)
(* The HTTP surface as its decorators and handlers declare it: what each   *)
(* route asks of the caller, which refusals of its use case it turns into  *)
(* which status, how many writes a successful call commits, whose data it  *)
(* reaches, what it is logged as, and which statuses its Swagger           *)
(* decorators promise.  A permission "todo.read_own" is the pair           *)
(* <<"todo", "read_own">>.                                                 *)
(***************************************************************************)
EXTENDS Integers

(* The permission names and the two default roles that grant them.         *)
Areas == {"todo", "note", "contact", "book", "movie", "expense"}
OwnRights == Areas \X {"create_own", "read_own", "update_own", "delete_own"}
AnyRights == Areas \X {"read_any", "delete_any"}
UserRights == {"iam.users"} \X {"create", "read", "update_roles", "deactivate",
                                "reset_password", "delete", "restore"}
CatalogRights ==
    {"iam.roles", "iam.permissions"} \X {"create", "read", "update", "delete"}
Permissions == OwnRights \cup AnyRights \cup UserRights \cup CatalogRights
                 \cup {<<"iam.audit_logs", "read">>, <<"system", "reset.any">>}

AdminPermissions == Permissions
StudentPermissions == OwnRights

(* The statuses each bundle of documentation decorators promises.          *)
CreateDocs == {201, 400, 500}
ReadDocs == {200, 400, 500}
(* Decorators that forget what the pipe may refuse.                         *)
DeleteDocsWithoutInput == {204, 500}
DeleteDocs == {204, 400, 500}
Denials == {401, 403}

(* What a route that leaves no audit entry is logged as.                     *)
Unlogged == "unlogged"

(* A route behind the guard; the rest is said with EXCEPT.                  *)
Route(right, success, refusals, writes, described) ==
    [gate |-> "token", needs |-> {right}, validated |-> TRUE,
     success |-> success, refusals |-> refusals, writes |-> writes,
     described |-> described \cup Denials, reach |-> "others",
     loggedAs |-> Unlogged, driftIsConflict |-> FALSE]

Logged(route, name) == [route EXCEPT !.loggedAs = name]

(* The five routes a caller has on items of one area that it owns.  The     *)
(* right asked to change and to remove differs between the areas.           *)
OwnItems(area, change, remove) ==
    LET own(right, success, refusals, writes, docs) ==
          [Route(<<area, right>>, success, refusals, writes, docs)
             EXCEPT !.reach = "own"]
    IN  [create |-> own("create_own", 201, {}, {1}, CreateDocs),
         list   |-> own("read_own", 200, {}, {0}, ReadDocs),
         get    |-> own("read_own", 200, {404}, {0}, ReadDocs \cup {404}),
         update |-> own(change, 200, {404}, {1}, ReadDocs \cup {404}),
         delete |-> own(remove, 204, {404}, {1}, DeleteDocs \cup {404})]

TodoRoutes    == OwnItems("todo", "update_own", "delete_own")
NoteRoutes    == OwnItems("note", "update_own", "delete_own")
ContactRoutes == OwnItems("contact", "update_own", "delete_own")
BookRoutes    == OwnItems("book", "update_own", "delete_own")
MovieRoutes   == OwnItems("movie", "create_own", "create_own")
ExpenseRoutes == OwnItems("expense", "create_own", "create_own")

(* The same routes, their decorator copied from the owner's.                *)
ItemsOfByOwnRight(area, deletion) ==
    [list   |-> Route(<<area, "read_own">>, 200, {404}, {0}, ReadDocs \cup {404}),
     get    |-> Route(<<area, "read_own">>, 200, {404}, {0}, ReadDocs \cup {404}),
     delete |-> Logged(Route(<<area, "delete_any">>, 204, {404}, {1},
                             DeleteDocs \cup {404}), deletion)]

(* The three routes an administrator has on the items of any user.  The     *)
(* user, and then the item, may be missing.                                 *)
ItemsOf(area, deletion) ==
    LET any(right, success, writes, docs) ==
          Route(<<area, right>>, success, {404}, writes, docs \cup {404})
    IN  [list   |-> any("read_any", 200, {0}, ReadDocs),
         get    |-> any("read_any", 200, {0}, ReadDocs),
         delete |-> Logged(any("delete_any", 204, {1}, DeleteDocs), deletion)]

UserTodoRoutes    == ItemsOf("todo", "todo.deleted_by_admin")
UserNoteRoutes    == ItemsOf("note", "note.deleted_by_admin")
UserContactRoutes == ItemsOf("contact", "contact.deleted_by_admin")
UserBookRoutes    == ItemsOf("book", "book.deleted_by_admin")
UserMovieRoutes   == ItemsOf("movie", "movie.deleted_by_admin")
UserExpenseRoutes == ItemsOf("expense", "expense.deleted_by_admin")

(* The operations on users are several writes where they also end the       *)
(* user's session; activating one is a single write.                        *)
UserManagementRoutes ==
    LET users(right, success, refusals, writes, docs) ==
          Route(<<"iam.users", right>>, success, refusals, writes, docs)
        missing == {404, 409}
    IN  [listUsers |-> users("read", 200, {}, {0}, ReadDocs),
         getUser   |-> users("read", 200, {404}, {0}, ReadDocs \cup {404}),
         createUser |-> users("create", 201, {409}, {1}, CreateDocs \cup {409}),
         updateUserRoles |->
            users("update_roles", 200, missing, {2}, ReadDocs \cup missing),
         updateUserStatus |->
            users("deactivate", 200, missing, {1, 2}, ReadDocs \cup missing),
         deleteUser |->
            users("delete", 200, missing, {2}, ReadDocs \cup missing),
         restoreUser |->
            users("restore", 200, missing, {2}, ReadDocs \cup missing),
         resetUserPassword |->
            users("reset_password", 200, {404}, {2}, ReadDocs \cup {404})]

(* The wiring as it was before the last operation was added.                 *)
UserActionsBeforeReset ==
    [updateUserRoles   |-> "user.roles_changed",
     updateUserStatus  |-> "user.status_changed",
     deleteUser        |-> "user.deleted",
     restoreUser       |-> "user.restored"]

(* Which of them iam.module.ts wraps in an AuditedAction, and under which    *)
(* name the descriptors log them.  createUser is not among them.            *)
UserActions ==
    [updateUserRoles   |-> "user.roles_changed",
     updateUserStatus  |-> "user.status_changed",
     deleteUser        |-> "user.deleted",
     restoreUser       |-> "user.restored",
     resetUserPassword |-> "user.password_reset"]

AdminUserRoutes ==
    [h \in DOMAIN UserManagementRoutes |->
        IF h \in DOMAIN UserActions
        THEN Logged(UserManagementRoutes[h], UserActions[h])
        ELSE UserManagementRoutes[h]]

(* The onboarding route, beside the administrator's own createUser.         *)
OnboardingRoutes ==
    [registerUser |-> Route(<<"iam.users", "create">>, 201, {409}, {1},
                            CreateDocs \cup {409})]

(* A decorator copied from the list above it.                               *)
CatalogRoutesByReadRight(area, created, updated, deleted) ==
    [update |-> Logged(Route(<<area, "read">>, 200, {404, 409}, {1},
                             ReadDocs \cup {404, 409}), updated)]

(* Roles and permissions: the lists take no input.                          *)
CatalogRoutes(area, created, updated, deleted) ==
    [list |-> [Route(<<area, "read">>, 200, {}, {0}, ReadDocs)
                 EXCEPT !.validated = FALSE],
     create |-> Logged(Route(<<area, "create">>, 201, {409}, {1},
                             CreateDocs \cup {409}), created),
     update |-> Logged(Route(<<area, "update">>, 200, {404, 409}, {1},
                             ReadDocs \cup {404, 409}), updated),
     delete |-> Logged(Route(<<area, "delete">>, 204, {404, 409}, {1},
                             DeleteDocs \cup {404, 409}), deleted)]

RoleRoutes ==
    CatalogRoutes("iam.roles", "role.created", "role.updated", "role.deleted")
PermissionRoutes ==
    CatalogRoutes("iam.permissions", "permission.created",
                  "permission.updated", "permission.deleted")

AuditLogRoutes ==
    [list |-> Route(<<"iam.audit_logs", "read">>, 200, {}, {0}, ReadDocs)]

(* A reset runs the handlers of the domains it names: one write for todo,    *)
(* two for iam.  @HttpCode(200) stands above decorators that promise 201.   *)
DataResetRoutes ==
    [createReset |->
        Logged(Route(<<"system", "reset.any">>, 200, {409}, 1..3,
                     CreateDocs \cup {409}), "system.data_reset")]

(* A seed is a long series of upserts (SeedWrites stands for their number); *)
(* an error that shows the database behind the schema is answered 409.      *)
SeedWrites == 3
DemoSeedRoutes ==
    [createSeed |->
        [Logged(Route(<<"system", "reset.any">>, 200, {409}, {SeedWrites},
                      ReadDocs \cup {409}), "system.demo_seed")
           EXCEPT !.validated = FALSE, !.driftIsConflict = TRUE]]

(* A caller's own session and password, and the health check.               *)
AuthRoute(gate, validated, success, refusals, writes, described) ==
    [gate |-> gate, needs |-> {}, validated |-> validated,
     success |-> success, refusals |-> refusals, writes |-> writes,
     described |-> described, reach |-> "self", loggedAs |-> Unlogged,
     driftIsConflict |-> FALSE]

AuthRoutes ==
    [login   |-> AuthRoute("public", TRUE, 200, {401}, {2}, {200, 401}),
     refresh |-> AuthRoute("public", FALSE, 200, {401}, {1}, {200, 401}),
     logout  |-> AuthRoute("public", FALSE, 204, {}, {0, 1}, {204}),
     me      |-> AuthRoute("token", FALSE, 200, {401}, {0}, {200, 401}),
     changePassword |->
        AuthRoute("password", TRUE, 204, {400}, {2}, {204, 401})]

HealthRoutes ==
    [getHealth |-> [AuthRoute("public", FALSE, 200, {}, {0}, {200})
                      EXCEPT !.reach = "none"]]

(* Every controller the modules register.                                   *)
Controllers ==
    [todos |-> TodoRoutes, notes |-> NoteRoutes, contacts |-> ContactRoutes,
     books |-> BookRoutes, movies |-> MovieRoutes, expenses |-> ExpenseRoutes,
     userTodos |-> UserTodoRoutes, userNotes |-> UserNoteRoutes,
     userContacts |-> UserContactRoutes, userBooks |-> UserBookRoutes,
     userMovies |-> UserMovieRoutes, userExpenses |-> UserExpenseRoutes,
     adminUsers |-> AdminUserRoutes, users |-> OnboardingRoutes,
     adminRoles |-> RoleRoutes, adminPermissions |-> PermissionRoutes,
     adminAuditLogs |-> AuditLogRoutes, adminDataResets |-> DataResetRoutes,
     adminDemoUserSeeds |-> DemoSeedRoutes, auth |-> AuthRoutes,
     health |-> HealthRoutes]

Routes == UNION {{c} \X DOMAIN Controllers[c] : c \in DOMAIN Controllers}
RouteOf(r) == Controllers[r[1]][r[2]]
=============================================================================
