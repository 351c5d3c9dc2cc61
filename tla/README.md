# Formal model of nest_js-basic-api

TLA+ modules that model the state-changing core of this NestJS API, TLC
configurations that check them on small instances, and TLAPS proofs of the
properties that matter most for every instance. Paths below are relative to
the repository; `iam` stands for `src/contexts/iam`.

    tlc -config AdminConcurrent.cfg MCAdminUsers.tla     check a run
    tlapm AdminUsers_proof.tla                           check the proofs

## The system

One Node process serves HTTP over one PostgreSQL database through Prisma.
Between two `await`s a request runs alone; at each `await` any other request
may go on. Every Prisma call is a transaction of its own, and no use case
opens one around several calls. All hard behaviour of this code follows from
that: what a use case has read may be outdated when it writes, and a request
that ends between two writes leaves the first one behind.

| Component | State it keeps | Operations | Correct when |
| --- | --- | --- | --- |
| Administration of users (`iam`, `/admin/users`) | `User`, `UserRole` rows | create, change roles, activate, deactivate, soft delete, restore, reset password | there is always an active administrator; system users are untouchable; nobody removes themselves; every restriction ends the session |
| Sessions (`iam`, `/auth`) | `AuthSession`: one row per user | login, refresh, logout, change password | a session fits the account it belongs to; a changed password is the one verified |
| Registration (`/users`, `/admin/users`) | `User` rows | onboarding, creation by an administrator | one account per person; what was registered can be signed in to; nobody's account is taken over |
| Access tokens and guard | none: signed claims with an expiry | issue, verify, required permissions, must-change gate | claims lag behind by at most one lifetime; a temporary password opens nothing but its change; own-data rights reach own data only |
| Data reset (`/admin/data-resets`) | the todo and the account tables | per user or global, per domain | keeps the acting and the last active administrator |
| Seeds (CLI, `/admin/demo-user-seeds`) | users, roles, permissions | upserts | repeatable at any time; restore the defaults and remove nothing |
| Catalog (`/admin/roles`, `/admin/permissions`) | `Role`, `Permission`, `RolePermission` | create, update, delete | system entries immutable; what is in use is not deleted |
| Audit trail | `AuditLog` (append only) | record, list | an entry for each attempt, `success` or `rejected` as it turned out |
| Owned items: todo, note, contact, book, movie, expense | one table each | create, patch, get, list, delete; admin list, get, delete | only the owner reaches an item; patches do not lose or revive data |
| Lists | none | a page and its metadata | a client that reads all pages sees every row once |
| Configuration | none | environment, `.env` file and defaults | bounds of the lifetimes hold, whatever is combined |
| HTTP bootstrap, shared kernel | none | guard, pipe, interceptor, filter | an answer says what happened |

They interact through the tables (the sessions of a user are deleted by the
administration, the reset and the foreign key), through ports called in
sequence (the reset calls the handlers of `todo` and `iam`; `AuditedAction` wraps the
administrative use cases) and through the claims of an access token, which
carry the state of an account at the time of its issue into later requests.
A seed may run from the command line beside the server, and the server may be
started again with another environment.

What is hard here, with the lines where it bites, is listed under `hazards`
in `PROJECT.json`: check-then-act across transactions, upserts that recreate
what was deleted, claims that outlive what they say, and sequences of
commits that stop half-way.

## Modules

### AdminUsers: accounts that depend on each other

`users` is the table, each row with the flags the rules look at: active,
deleted, system, and whether its roles include `admin`. `sessions` is the set
of users with an `AuthSession` row, `requests` what each request in flight is
doing. A request is a small process whose program counter says which awaited
call is next:

    find --> [find] --> [count] --> [preclear] --> write --> [clear]

* `Find...` is the first read of a use case with its early returns. A request
  that is refused there changes nothing and is a stutter. The token's claims
  do not change while a request runs, so the guard is part of this step; a
  caller is anybody in `Operators`, the users with a token that names the
  administrative permissions, whatever has become of their row since.
* `CountActiveAdmins` is the count and the refusal of the last administrator
  (delete, status, roles, reset), `FindAgainForResetUser` the second read of
  the target in `checkAdminSafety`.
* The writes are those of `PrismaIamAdminGateway`, of the IAM reset handler
  (sessions first, rows afterwards) and of the two seeds (first the bootstrap
  administrator, then one demo address after the other).
* `Abandon` ends a request anywhere: a failing call or the end of the process.

`stale` is a history variable: another request has changed who the active
administrators are since this one last read. Ids come from a finite pool; a
row that is deleted for good never returns, a new row takes a fresh id.
`Demo` is the part of the pool with a demo address, the order in which the
seed visits them is left open. The bootstrap address is not a demo address.
The database starts as the first bootstrap leaves it. Role names other than
`admin`, passwords and e-mail addresses are abstracted away; `AuthSessions`
has the password operations.

### AuthSessions: one account and its tokens

Accounts share no session state, so one is enough. `account` is its row with
the permissions its roles come to (`grants`), `session` its `AuthSession` row,
`accessTokens` the signed tokens that have not expired, with the ticks they
have left. A refresh token is opaque and fresh: a request that presents the
current one is a request that finds the row (`Refresh`, `Logout`); all others
are refused without effect. The steps are again the awaited calls: sign-in
reads the account, signs a token and deletes the old session, then saves the
new one by an upsert; refresh reads the session, reads the account, upserts
the rotated session and signs. Administration writes the row and then deletes
the session in a second call; the IAM reset deletes the session first. The
seed and a change of the catalog change the account without touching its
session. The foreign key refuses to save a session without its user and
deletes it with the user.

History: `origin` (password and grants at sign-in, which a refresh passes
on), `temporary` and `late` on a token (what the account's password was when
the issuing request read it; whether the account's standing changed between
that reading and the issue), `unchanged` (ticks since the last change of
standing). Two simplifications only add behaviour: a token counts as issued
when it is signed, on sign-in before its session is saved, and a session may
expire at any time.

### SessionStore, SessionHistory: what a session stands for

`SessionStore` says what revocation means without requests: one session,
opened with the credentials of the account by a sign-in that has seen them,
ended in the same step as any change of the account, which also makes void
the sign-ins that have seen the state before. There is no refresh in it: a
refresh must not be seen to open anything.

The code does not keep that promise by itself, since it changes the account
and deletes the session in two calls and saves sessions by upserts.
`SessionHistory` adds two history variables to `AuthSessions` that say exactly
when it does not. A request is `overtaken` when what it will save a session on
is outdated: a sign-in by a change of the account it has read, a refresh by
any change of the session, its deletion included. A session is `stray` when an
overtaken request saved it, when the request that was to delete it ended
between its two calls, and when the seed or the catalog changed the account
without deleting it. `RevokesAtOnce` maps `valid` to the session unless it is
stray or about to be deleted, and `pending` to the sign-ins that hold a reading
of the account and are not overtaken: under that mapping the two calls of a
revocation are one step of the store, with any number of requests in flight.

### ItemShapes, ItemStore, OwnedItems: the six contexts of items

The contexts `todo`, `note`, `contact`, `book`, `movie` and `expense` are
written out one by one and differ in their fields only. `ItemShapes` has, for
each, the field lists that every layer repeats: the columns, the bodies of
POST and PATCH, what the aggregate starts with and takes over, the columns its
repository writes. `OwnedItems` is the code they share, over those lists. Its
generic definitions are mapped to the lines of one context each, all six
contexts being represented.

`items` is the table as a function on the ids that have a row, `used` the ids
given out so far (random UUIDs, never again), `users` the owners that exist.
The steps are the awaited calls:

    POST     CreateItem
    PATCH    FindForUpdate --> SaveItem
    DELETE   FindForDelete --> DeleteByIdAndUserId
    admin    FindOwner --> FindForAdminDelete --> DeleteByIdAndUserId
    reset    ResetTodos, RemoveUsers (with the cascade)

`FindForUpdate` parses the body (an omitted nullable field becomes null),
asks whether it is empty, reads the item and changes the copy, which is in the
request until `SaveItem` upserts all of it. The foreign key refuses an insert
without the owner. History: `body` of a PATCH, and `stale`, set when another
request changes or deletes the item in between. The handler for
the reset exists for todos only; the rows of the other contexts go with their
users. Values are abstract: a kept field has one of two, a nullable field one
or null. `GET` routes change nothing and are left out.

`ItemStore` says what a repository promises, without requests: rows under ids
given out once that keep kind and owner and are gone for good when removed.
`ImplementsStore` maps its `rows` to `items`; it holds for requests one at a
time.

`ItemTable` is what is left of the promise when requests overlap. Requests hold
copies of rows; a removed row may come back from a copy, but an id keeps the
owner and the kind it was given out for, and a row is written from a copy that
was taken of it. `ItemHistory` records the owner and the kind of every id given
out (`identity`) and maps the copies to the requests that are about to save.

### Routes, Requests: the way of one HTTP request

`Routes` is a table: for every route of every controller what the guard asks
of it, what the pipe validates, the refusals its use case may return, how many
transactions a success takes, whose data it reaches, the name its
`AuditedAction` logs, and the statuses its Swagger decorators promise. Routes
that the controllers copy from each other (the six item contexts) are one
operator with the differences as parameters.

`Requests` takes one request of any route, with any token, through

    guard --> pipe --> handler --> [audit] --> reply

* `PassGuard`, `RefuseToken`, `RefuseAccess` are `AccessTokenAuthGuard` with
  its must-change gate; `RefuseInput` the global `ValidationPipe`.
* `Write` is one committed transaction of the use case, `Succeed`, `Refuse`,
  `Throw`, `ThrowDrift` its ends. What a use case reads and decides is
  `AdminUsers`', `RbacCatalog`'s and `OwnedItems`' part; here only how many
  writes are behind it matters. A refusal comes before the first write.
* `RecordEntry` and `FailToRecord` are `AuditedAction` with the two ways its
  own failure is treated; `FailToSerialize` the interceptor; `AnswerError` the
  exception filter; `Crash` may come between any two steps.

A request shares nothing with the next one here, so one is enough.

### RbacCatalog: roles, permissions and the seed

`roles` (with the `RolePermission` rows as the set `grants`), `permissions` and
`users` (with their `UserRole` rows) are the tables, `requests` the requests in
flight, `todo` what a running seed has not upserted yet.

    create role        names* --> write
    update role        name --> names* --> write
    delete role        count --> write
    ... permission     [name or count] --> write
    roles of a user    names* --> write
    seed               permissions, then each role with its grants, then users

A name is looked up in one query and the row written in another, which
connects by name again and fails if the name has gone. The unique indexes
refuse a duplicate; the cascades take `UserRole` and `RolePermission` rows
along. The onboarding route creates roles it does not find. The database
starts as an earlier release seeded it, so that a seed of this release has
something to add and something to adopt. History: `linked` on a request that
counted an entry as unused which then came into use; `adopted` on a request
that read an entry as ordinary which the seed then made a system entry;
`overtaken` when such a request wrote; `completed` once a seed has ended well.

### AppConfig, Registration: who can sign in

`AppConfig` is `loadAppConfig`: environment over `.env` file over defaults, the
schema's checks, what is made of it. Addresses are a person and whether they
are written with capitals; passwords a word with a length and blanks around
it; durations an amount and a unit. `Registration` has the server that starts
with such a configuration and stops, the two routes that register, the seeds
of administrator and demo students by the server or beside it, the changes of
status, soft deletions and restorations, the changes and resets of passwords,
each with its read and its write, and the deletion of accounts for good.
`promised` records which credentials people were given and what of them was
stored. Sign-in is a definition, `SignIn`: what the use case would answer to an
address and a password now. It changes none of these tables; the session that it
saves is in `AuthSessions`. The rows have the columns that sign-in asks for:
`isActive`, `deletedAt` as a flag, and the password. Which accounts an
administrator may not close (the actor's own, the last administrator's) rests on
roles and is in `AdminUsers`; here such a request may be refused or not.
A reset that deletes a row ends the requests about it: they write by id and
would find nothing, and a row inserted for the address later has another id.

### ListPages: lists read page by page

The lists of items, of users and of the audit log are one code pattern:
`findMany` with an offset beside `count`. (Roles and permissions are listed
whole, without pages.) `Enter` and `Leave` change
what the filters match, between the two queries and between pages; a client
walks on until the metadata says so or until a page is short. The audit log
orders by time and id, the other lists by time only, so equal times may come
in any order each time (`Rankings`).

### Composition

The modules share the code at their edges, not their state: `Requests` takes
from a use case what its module shows (refusals before writes), `AuthSessions`
takes a change of grants from the catalog as one operation, `AdminUsers` the
roles as "includes `admin`". That the last of these is right is a property of
`RbacCatalog`: the administration counts and asks for a role by its name, and
`TitlesKept` says that no operation on roles gives the name of a system role
to a user or takes it from one, so that what changes "includes `admin`" is an
operation on that user, which `AdminUsers` has, or one that read the role
before the seed made it a system role. Each hides what the others do not depend on; a
product of all of them would be beyond TLC without adding an interleaving that
one of them does not have.

### Proofs

`AdminUsers_proof`, `AuthSessions_proof`, `SessionHistory_proof`,
`OwnedItems_proof`, `Requests_proof`, `RbacCatalog_proof`, `Registration_proof`
and `ListPages_proof` extend the modules and hold the theorems. The proofs about
`SessionHistory` extend those about `AuthSessions`; those about `ItemHistory`
are the last section of `OwnedItems_proof`.

## Runs

| Run | Instance | Result |
| --- | --- | --- |
| AdminConcurrent | 2 users, 2 requests, all operations, no bootstrap administrator configured | `TypeOK`, `SystemUsersProtected`, `LastAdminLostOnlyUnchecked`, `NoSelfRemoval` hold |
| AdminRace | 2 users, 2 requests, no reset of everything, no seed | `LastActiveAdmin` is violated |
| SessionConcurrent | 2 requests, tokens of 2 ticks, failures, seed and catalog | `TypeOK`, `RevocationLatency`, `TemporaryPasswordGated`, `SessionFitsUnlessStray`, `RevokesAtOnce` hold |
| SessionSerial | 1 request, no failures | `SessionFitsAccount`, `ChangeVerifiesCurrent` hold |
| SessionLive | 1 request, every operation, failures, fairness | `TokensCatchUp`, `ClosedOutAtLast` hold |
| ItemConcurrent | 2 requests, 2 owners, notes and todos | `TypeOK`, `OnlyTheOwnerChanges`, `RevivedOnlyByOverlap`, `PatchIsPartialUnlessOverlapped`, `ImplementsTable` hold |
| ItemSerial | 1 request, 2 owners, all six contexts with all their fields | `PatchIsPartial`, `ImplementsStore` hold |
| Requests | every route, no token, an invalid one and nine kinds of token, any step failing | `TypeOK`, `OwnRightsReachOwnData`, `ReadersChangeNothing`, `RefusalsChangeNothing`, `ChangesLeaveAnEntry`, `LogAgreesWithAnswer`, `AnswersDescribed` hold |
| RoutePermission | the same | `ChangeNeedsItsRight` is violated |
| Catalog | 2 requests, the seed, 2 roles, 2 permissions, 1 user | `TypeOK`, `DefaultsInForce`, `DeletionsRevokeNothing`, `SeedOnlyAdds`, `TitlesKept` hold |
| Registration | 2 requests or seeds, 1 person, 8 environments | `TypeOK`, `OnePersonOneAccount`, `GivenCredentialsOpen`, `LifetimesBounded`, `RegistrationTakesNothingOver` hold |
| Pages | 4 rows in 4 orders of creation, pages of 1 and 2, 2 writes per walk | `TypeOK`, `WalksShowEachRowOnce`, `MetaFitsThePage` hold |

### Known disagreements between the code and its documents

Two are runs that TLC finds violated:

* The glossary promises an active administrator at all times; two
  administrators acting on each other at the same moment break it (AdminRace).
* The API reference gives changing and deleting an own item its own rights; the
  movie and expense routes ask for `create_own` (RoutePermission).

The others are the exceptions that properties name, and would be violations
without them:

* A global reset by a system user who has lost the role, or a seed without a
  configured administrator, loses the last administrator without any overlap
  (`LastAdminLostOnlyUnchecked`).
* Deactivation, role changes and password resets "remove the refresh token"; an
  overlapping refresh or sign-in writes it back by its upsert, and a failure
  between the two calls leaves it: `SessionFitsAccount` holds for requests that
  neither overlap nor fail. With overlap and failure `SessionFitsUnlessStray`
  lists what can leave such a session. A refresh that answers while a
  revocation is between its two calls is not among them: its session is
  deleted by the second call.
* A password change "verifies the current one"; an overlapping reset by an
  administrator is overwritten although its password was never verified, and
  the must-change flag with it: `ChangeVerifiesCurrent` holds without overlap.
* A deleted item is gone; a PATCH that overlaps with the DELETE inserts it
  again (`RevivedOnlyByOverlap`). As it writes back every field it has read,
  two that overlap also lose a change (`PatchIsPartialUnlessOverlapped`).
* "Update requests must contain at least one field"; wherever a field is
  nullable, an omitted one is null by the time of the check. An empty PATCH is
  accepted and clears those fields, as a PATCH that omits them does (`Parsed`;
  notes are the exception).
* An account registered with capital letters is stored in lower case, and
  sign-in does not convert: the address its owner typed does not open it. A
  bootstrap password is measured with the blanks that are trimmed off it, and
  sign-in does not trim. Refresh tokens may be configured to outlive what a
  `Date` can hold, and then nobody signs in. A seed makes the accounts it
  reconciles "active" and gives out their password, but leaves `deletedAt`: a
  student or bootstrap administrator that was soft-deleted stays closed until
  somebody restores it, although a deactivated one is opened
  (`GivenCredentialsOpen`, which excepts closed accounts). An
  administrator's address configured with capitals allows the same person a
  second account (`OnePersonOneAccount`).
* The data reset documents 201 and answers 200; the controllers under `/auth`
  and `/health` document less than they answer (`AnswersDescribed`).
* Neither route that creates a user leaves an audit entry
  (`ChangesLeaveAnEntry`), and a demo seed that finds the database behind its
  schema answers 409 after it may have written (`RefusalsChangeNothing`).
* What is deleted after it was counted as unused takes rights away if it came
  into use in between (`DeletionsRevokeNothing`); a request may rename or delete
  an entry that the seed has just made a system entry (`DefaultsInForce`).
* A walk over pages misses a row for each that leaves meanwhile and repeats one
  for each that comes; rows created in the same millisecond have no fixed order
  outside the audit log (`WalksShowEachRowOnce`).

### Bounds

Two users suffice where two requests act on each other. Two slots give every
pair of operations every interleaving. A slot is used again, so the number of
requests is not bounded. Two values of `Grants` tell a change of roles from
none, and two own passwords allow a change back and forth. `AccessTtl` 2 lets a
token age while another is issued; `MaxTokens` bounds the tokens valid or about
to be issued and only holds back sign-ins and refreshes. `SessionConcurrent`
leaves out operations whose effect another one listed has (sign-out, delete and
restore, change of roles), which `SessionSerial` and `SessionLive` include. One
id is enough for items: no operation relates two of them but the deletion of a
set, and an id that is deleted and revived, or refused for a second item, is
the same id.
The history of `SessionConcurrent` and `ItemConcurrent` adds states and allows
no step that the modules they record do not allow (`HistoryImplementsSpec`,
proved of both). `ItemConcurrent` takes the context without nullable fields
and one with fields of every sort (kept, nullable, with a default);
`ItemSerial` has the lists of all six.

`Requests` has no bound: the routes are all there and a request makes at most
three writes. In `Catalog` a default role and permission of the earlier
release, a permission that is new, and a role of an administrator's own show
every case of adoption and of a name in use; two keys of each kind are one more
than the earlier release fills. One seed runs at a time there, and TLC's one
user is also one of the seed; `TitlesKeptHolds` is for any users.
`Registration` has one person, since addresses of different people meet
nowhere, and environments at, inside and beyond each check. In `Pages` four
rows and pages of two make three pages, with a write inside a page and one
between pages; `MaxWrites` bounds a walk, not the run.

Symmetry is used on request slots, keys and owners of items, and not with
liveness. Every behaviour can go on, so deadlock is checked in all runs.

### Fairness

`FairSpec` of `AuthSessions` assumes that the clock ticks and that every
accepted request gets its next step or ends: the event loop resumes an awaited
call that answered and Prisma rejects one that does not. Nothing is assumed
about arrivals: no client has to sign in, refresh or administer anything. The
other modules promise nothing that must eventually happen: no use case waits
for another one, retries, or queues work.

## Proofs

For all users, operators, request slots, operations, lifetimes and bounds:

* **TypeCorrect** of every module with proofs, by one lemma per action.
* **SystemUsersAlwaysProtected**. On its own the property is not inductive: a
  deletion or deactivation writes after its check. `SystemInv` adds that a
  request past its `find` that will delete or deactivate never has a system
  target, which holds because no request makes an existing row a system row
  but the seed, and the seed does so for `Root` only.
* **LastAdminLostOnlyByUnchecked**. `FreshInv` says what a request that is
  not stale still knows: at `write`, an administrator other than its target
  exists or its target is none; at `count`, what the first reading said. Any
  step that changes the administrators makes the other requests stale, so the
  knowledge survives, and a write keeps one administrator.
* **LastActiveAdminWhenSerial**: with one slot nothing is ever stale, so with
  no global reset and a configured bootstrap administrator the previous
  theorem leaves no step that could lose the last administrator.
* **NoSelfRemovalHolds**: `SelfInv` keeps the refusals of the first reading
  with the request; a fresh request that may remove somebody has a target
  other than its actor.
* **RevocationLatencyHolds** and **TemporaryPasswordAlwaysGated**: `SessionInv`
  carries the claims about tokens over to the requests that will issue one: a
  reading that is not late agrees with the account, and a reading of a
  temporary password has the flag.
* **SessionFitsAccountWhenSerial**, **ChangeVerifiesCurrentWhenSerial**: for
  one request at a time that does not fail, with no seed and no catalog
  change. The invariant says what is true of the session at each program
  counter, e.g. that it may be outdated only while its deletion is next.
* For sessions with overlap and failure, for all slots and operations:
  **SessionFitsUnlessStrayHolds** and **RevokesAtOnceHolds**. `HistoryInv` says
  what a request that is not overtaken still knows: a sign-in that its reading
  is the account as it is (`LoginFits`), a refresh that the session it has read
  is still there and no stray one (`RefreshFits`). Neither follows
  from the code's checks: the readings are kept right by the flags, which are
  set by every step that changes what was read. For the refinement, each kind
  of step has a lemma that says which step of the store it is: a write of a use
  case that revokes is `ChangeAccount`, its deletion of the session a stutter,
  a save of a sign-in `SignIn`, a save of a refresh a stutter.
* For items, for every choice of contexts, values, ids and requests:
  **OnlyTheOwnerChangesHolds**, **RevivedOnlyByOverlapHolds**,
  **PatchIsPartialUnlessOverlappedHolds**. `ShapesFit` shows that the layers
  of each context agree on its fields. `SaveInv` says what a PATCH knows when
  it saves: its id was given out, its copy has the kind and owner of any row
  under that id, all other requests to save that id agree on these, and unless
  it is stale the row is there and differs from the copy in the given fields
  only. The agreement between requests is needed because a row may be deleted
  and put back by another request in between.
* **PatchIsPartialWhenSerial**, **ImplementsStoreWhenSerial**: with one slot
  no copy is ever stale, so every save changes a row that is there, and each
  step is one of `ItemStore` or a stutter.
* **ImplementsTableHolds**, for any number of overlapping requests: each step
  is one of `ItemTable`. `IdentityInv` says that rows and the copies in
  requests have the owner and the kind recorded for their id, and that a copy
  is held of an id given out before; a save then writes the recorded identity
  whether the row is still there or not. `CopiesAfter` turns what a step does
  to one slot into what it does to the set of copies.
* For requests, with tokens of any sets of permissions: all six invariants of
  the run. `Sound` is proved of each table of routes: a route that reaches
  others asks for a right outside the own-data rights, one that writes beyond
  the caller asks for one that is not a right to read, names of log entries are
  not shared, and every status is documented. The invariant of the steps says
  in which order they come (`Ordered`), who is past the guard (`Admitted`), how
  a use case ended (`Ended`), and how the entry and the answer follow from that
  (`Consistent`, `Concluded`).
* For the catalog, for all names, keys, grants, users and slots:
  **SeedOnlyAddsHolds**, **DeletionsRevokeNothingHolds**, **TitlesKeptHolds**
  and **DefaultsInForceHolds**. `IInv` holds the shape of the tables, `Counted`
  (what a deletion counted as unused still is, or the request is `linked`) and
  `Ordinary` (what a request read as no system entry is none, or the request is
  `adopted`). `Seeded` adds the seed: what it has done is in force as long as
  no adopted request has written, and a role is done only after all
  permissions, which a grant relies on. `TitlesKept` follows from `Ordinary` and
  the unique names: a user has the name of a role if and only if the user has
  the role (`TitleIsHeld`), and a step that is not about the role or the user
  leaves both where they are (`Elsewhere`).
* For registration: **OnePersonOneAccountHolds**, **GivenCredentialsOpenHolds**,
  **LifetimesBoundedHolds**, **RegistrationTakesNothingOverHolds**, for any set
  of environments, people and passwords; assumed is that the two passwords the
  code itself provides, the students' and a generated one, are long enough to
  sign in with (13 and 64 characters). The invariant ties every promise to the
  row it stands for, every request about an account to a row that is there, and
  every address with capitals to a configuration. `GivenCredentialsOpen` is
  stated of what sign-in would answer in every state: it accepts, but for the
  exceptions the property names.

* For lists, for any rows, orders of creation, page sizes and numbers of writes:
  **WalksShowEachRowOnceHolds** and **MetaFitsThePageHolds**. The order gives a
  row its place, the number of rows before it, and whatever ranking the database
  answers from, a row without a tie has the rank of its place (`RankIsPlace`).
  `Misses` and `Repeats` count the rows in front of the offset that were not
  shown and the shown rows behind it; an arrival or a departure moves at most
  one row across the offset, since places differ. `Cut` says what the first of
  the two answers still has in common with the list; the rest is arithmetic on
  whole pages.

The assumptions are the named assumptions on the constants only.

Model-checked and not proved: liveness (`TokensCatchUp`, `ClosedOutAtLast`),
which is out of the prover's reach.

## Not modelled

* Signature checks, hashing and the random generators: opaque and collision
  free by assumption; the checks that depend on them are the guards of actions.
* The fields of bodies and responses beyond those a rule looks at, mappers,
  formatting and logging: no state and no decision.
* Swagger's pages and their login, cookie attributes, CORS, port, database
  address and certificate: values that are passed on as they are configured.
* What Express does before the guard: body parser, unknown routes.
* Tables of the schema that no code uses.
