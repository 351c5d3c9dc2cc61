----------------------------- MODULE Registration -----------------------------
(***************************************************************************)
(* How accounts come to be, and who can sign in to them: registration by    *)
(* either route, the bootstrap administrator and the demo students of the   *)
(* seeds, the accounts that administrators close and open again, the        *)
(* passwords that are changed and reset, and a server that is started again *)
(* with another environment.  A request reads in one query and writes in     *)
(* another; a seed upserts one account after the other.                     *)
(***************************************************************************)
EXTENDS AppConfig, FiniteSets

CONSTANTS
    Passwords,      \* the passwords that people choose
    Environments,   \* the environments in which a process is started
    File,           \* the .env file of the deployment
    DemoPeople,     \* who has a demo address
    DemoPassword,   \* the password all of them are given
    TemporaryPassword,  \* one that is generated when a password is reset
    LongestSpan,    \* the seconds from now to the last moment a Date can hold
    Slots           \* requests and seeds in flight at a time

ASSUME PasswordsAssumption ==
    \A p \in Passwords \cup {DemoPassword, TemporaryPassword} :
        p \in [word : Words, length : Nat, padding : Nat]
ASSUME LengthAssumption == LongEnough(DemoPassword) /\ LongEnough(TemporaryPassword)
ASSUME DemoPeopleAssumption == DemoPeople \subseteq People
ASSUME LongestSpanAssumption == LongestSpan \in Nat
ASSUME EnvironmentsAssumption ==
    \A e \in Environments \cup {File} :
        /\ DOMAIN e = DOMAIN Defaults
        /\ e.adminEmail \in Addresses \cup {Unset}
        /\ e.refreshTtl \in Durations \cup {Unset}

VARIABLES
    config,     \* the configuration of the server, None while it is down
    accounts,   \* the User table, by the address as it is stored
    requests,   \* the requests and seeds in flight
    promised,   \* history: the credentials people were given, and what of them
                \*     was stored
    configured  \* history: the addresses that a seed took from a configuration

vars == <<config, accounts, requests, promised, configured>>

Configs == {Config(e, File) : e \in Environments} \ {Refused}
Admins == {c.admin : c \in Configs}
Acceptable == {p \in Passwords : LongEnough(p)}
Chosen == Acceptable \cup {TemporaryPassword}
Stored == Chosen \cup {DemoPassword} \cup {a.password : a \in Admins \ {None}}
Given == Chosen \cup {DemoPassword} \cup {a.given : a \in Admins \ {None}}
Rows == [password : Stored, isSystem : BOOLEAN, isActive : BOOLEAN,
         isDeleted : BOOLEAN]
NewRow(password, isSystem) ==
    [password |-> password, isSystem |-> isSystem, isActive |-> TRUE,
     isDeleted |-> FALSE]
Present(a) == accounts[a] # None
ASSUME NoneAssumption == None \notin Configs \cup Rows

Promise(typed, password, address, hash) ==
    [typed |-> typed, password |-> password, address |-> address, hash |-> hash]

Idle == [op |-> "none"]
Registering == [op : {"register"}, typed : Addresses, password : Acceptable,
                repeated : BOOLEAN]
Seeding == [op : {"seed"}, byServer : BOOLEAN, admin : Admins \cup {None},
            left : SUBSET DemoPeople]
Changing == [op : {"status"}, address : Addresses, isActive : BOOLEAN]
       \cup [op : {"deletion"}, address : Addresses, isDeleted : BOOLEAN]
       \cup [op : {"password"}, address : Addresses, password : Chosen]
Changes(request) == request.op \in {"status", "deletion", "password"}

Init ==
    /\ config = None
    /\ accounts = [a \in Addresses |-> None]
    /\ requests = [s \in Slots |-> Idle]
    /\ promised = {}
    /\ configured = {}

Become(s, request) == requests' = [requests EXCEPT ![s] = request]

(* What was promised for an account is void once it is replaced.            *)
Replace(a, row, promises) ==
    /\ accounts' = [accounts EXCEPT ![a] = row]
    /\ promised' = {c \in promised : c.address # a} \cup promises
-----------------------------------------------------------------------------
(* The server.                                                              *)
Start(env) ==
    /\ config = None
    /\ Config(env, File) # Refused
    /\ config' = Config(env, File)
    /\ UNCHANGED <<accounts, requests, promised, configured>>

(* A server that ends while its requests go on.                             *)
StopListening ==
    /\ config # None
    /\ config' = None
    /\ UNCHANGED <<accounts, requests, promised, configured>>

(* It ends, and with it the requests that it serves.                        *)
ServedBy(request) ==
    \/ request.op = "register"
    \/ Changes(request)
    \/ request.op = "seed" /\ request.byServer
Stop ==
    /\ config # None
    /\ config' = None
    /\ requests' = [s \in Slots |-> IF ServedBy(requests[s]) THEN Idle ELSE requests[s]]
    /\ UNCHANGED <<accounts, promised, configured>>
-----------------------------------------------------------------------------
(* Registration, by the onboarding route or by an administrator: the address *)
(* is looked for as it would be stored.  Only the onboarding route may be    *)
(* given a role twice.                                                      *)
FindByEmail(s, typed, password) ==
    /\ config # None
    /\ requests[s] = Idle
    /\ LongEnough(password)
    /\ ~Present(Lower(typed))
    /\ \E repeated \in BOOLEAN :
          Become(s, [op |-> "register", typed |-> typed, password |-> password,
                     repeated |-> repeated])
    /\ UNCHANGED <<config, accounts, promised, configured>>

(* An upsert on the address in place of the id.                             *)
SaveByEmail(s) ==
    /\ requests[s].op = "register"
    /\ LET typed == requests[s].typed
           password == requests[s].password
       IN  Replace(Lower(typed), NewRow(password, FALSE),
                   {Promise(typed, password, Lower(typed), password)})
    /\ Become(s, Idle)
    /\ UNCHANGED <<config, configured>>

(* The address stored as it was typed.                                      *)
SaveAsTyped(s) ==
    /\ requests[s].op = "register"
    /\ LET typed == requests[s].typed
           password == requests[s].password
       IN  IF Present(typed) THEN UNCHANGED <<accounts, promised>>
           ELSE Replace(typed, NewRow(password, FALSE),
                        {Promise(typed, password, typed, password)})
    /\ Become(s, Idle)
    /\ UNCHANGED <<config, configured>>

(* The id is new, so the upsert inserts: an address that is taken by now, or *)
(* a role given twice, violates a unique index, and the request fails.       *)
Save(s) ==
    /\ requests[s].op = "register"
    /\ LET typed == requests[s].typed
           password == requests[s].password
       IN  IF Present(Lower(typed)) \/ requests[s].repeated
           THEN UNCHANGED <<accounts, promised>>
           ELSE Replace(Lower(typed), NewRow(password, FALSE),
                        {Promise(typed, password, Lower(typed), password)})
    /\ Become(s, Idle)
    /\ UNCHANGED <<config, configured>>

-----------------------------------------------------------------------------
(* Sign-in: what it would answer now.  The session that it saves is left to  *)
(* AuthSessions.                                                            *)
Closed(row) == row.isDeleted \/ ~row.isActive

Answer(result) ==
    [result |-> result,
     accessTtl |-> IF result = "accepted" THEN config.accessTtl ELSE 0,
     refreshTtl |-> IF result = "accepted" THEN config.refreshTtl ELSE 0]

(* The address converted as a registration converts it.                     *)
SignInConverted(typed, password) ==
    LET row == accounts[Lower(typed)]
    IN  Answer(IF ~LongEnough(password) THEN "invalid"
               ELSE IF row = None \/ Closed(row) \/ row.password # password
               THEN "refused"
               ELSE IF config.refreshTtl > LongestSpan THEN "failed"
               ELSE "accepted")

(* The address is looked for as it is typed.  A session that would end after *)
(* the last moment a Date can hold is not saved: the request fails.          *)
SignIn(typed, password) ==
    LET row == accounts[typed]
    IN  Answer(IF ~LongEnough(password) THEN "invalid"
               ELSE IF row = None \/ Closed(row) \/ row.password # password
               THEN "refused"
               ELSE IF config.refreshTtl > LongestSpan THEN "failed"
               ELSE "accepted")
-----------------------------------------------------------------------------
(* Accounts that are there, by their id: a request reads the row, refuses or *)
(* goes on, and writes one column.  Who may ask, and whether it would be the *)
(* last administrator, is a matter of AdminUsers: it may be refused here too. *)
FindById(s, a, request) ==
    /\ config # None
    /\ requests[s] = Idle
    /\ Become(s, request)
    /\ UNCHANGED <<config, accounts, promised, configured>>

UpdateAdminUserStatus(s, a) ==
    /\ Present(a)
    /\ \E isActive \in BOOLEAN :
          /\ isActive \/ ~accounts[a].isSystem
          /\ FindById(s, a, [op |-> "status", address |-> a, isActive |-> isActive])

DeleteAdminUser(s, a) ==
    /\ Present(a)
    /\ ~accounts[a].isDeleted
    /\ ~accounts[a].isSystem
    /\ FindById(s, a, [op |-> "deletion", address |-> a, isDeleted |-> TRUE])

RestoreAdminUser(s, a) ==
    /\ Present(a)
    /\ accounts[a].isDeleted
    /\ FindById(s, a, [op |-> "deletion", address |-> a, isDeleted |-> FALSE])

ResetAdminUserPassword(s, a) ==
    /\ Present(a)
    /\ ~accounts[a].isDeleted
    /\ FindById(s, a, [op |-> "password", address |-> a,
                       password |-> TemporaryPassword])

(* With the current password and a token, which may be older than a         *)
(* deletion: only whether the account is active is asked.                   *)
ChangeOwnPassword(s, a, password) ==
    /\ Present(a)
    /\ accounts[a].isActive
    /\ LongEnough(password)
    /\ password # accounts[a].password
    /\ FindById(s, a, [op |-> "password", address |-> a, password |-> password])

Mark(s, row) ==
    /\ accounts' = [accounts EXCEPT ![requests[s].address] = row]
    /\ Become(s, Idle)
    /\ UNCHANGED <<config, promised, configured>>

UpdateUserStatus(s) ==
    /\ requests[s].op = "status"
    /\ Mark(s, [accounts[requests[s].address] EXCEPT !.isActive = requests[s].isActive])

UpdateDeletedAt(s) ==
    /\ requests[s].op = "deletion"
    /\ Mark(s, [accounts[requests[s].address] EXCEPT !.isDeleted = requests[s].isDeleted])

(* Whoever asked has the new password from then on.                         *)
SetPassword(s) ==
    /\ requests[s].op = "password"
    /\ LET a == requests[s].address
           password == requests[s].password
       IN  Replace(a, [accounts[a] EXCEPT !.password = password],
                   {Promise(a, password, a, password)})
    /\ Become(s, Idle)
    /\ UNCHANGED <<config, configured>>

(* A reset deletes accounts for good, but no system account.  A request about *)
(* the row finds nothing to write any more, and ends: an account registered  *)
(* with the address later has another id.                                   *)
Remove(a) ==
    /\ config # None
    /\ Present(a)
    /\ ~accounts[a].isSystem
    /\ Replace(a, None, {})
    /\ requests' = [s \in Slots |->
                      IF Changes(requests[s]) /\ requests[s].address = a
                      THEN Idle ELSE requests[s]]
    /\ UNCHANGED <<config, configured>>
-----------------------------------------------------------------------------
(* The seeds: of the administrator from the command line, of the            *)
(* administrator and the students from there or by a running server.        *)
StartSeed(s, byServer, admin, left) ==
    /\ requests[s] = Idle
    /\ Become(s, [op |-> "seed", byServer |-> byServer, admin |-> admin, left |-> left])
    /\ UNCHANGED <<config, accounts, promised, configured>>

BootstrapAuthAdmin(s, env) ==
    /\ Config(env, File) # Refused
    /\ Config(env, File).admin # None
    /\ StartSeed(s, FALSE, Config(env, File).admin, {})

BootstrapDemoUsers(s, env) ==
    /\ Config(env, File) # Refused
    /\ StartSeed(s, FALSE, Config(env, File).admin, DemoPeople)

SeedDemoUsers(s) ==
    /\ config # None
    /\ config.maintenance
    /\ StartSeed(s, TRUE, config.admin, DemoPeople)

(* Of a row that is there the seeds open all but one thing: deletedAt is not *)
(* among the columns they update.                                           *)
Upserted(a, password, isSystem) ==
    IF Present(a)
    THEN [accounts[a] EXCEPT !.password = password, !.isActive = TRUE,
                             !.isSystem = isSystem]
    ELSE NewRow(password, isSystem)

(* The administrator by the address as it is configured; whoever has it      *)
(* already is made the administrator.                                       *)
UpsertAdmin(s) ==
    /\ requests[s].op = "seed"
    /\ requests[s].admin # None
    /\ LET admin == requests[s].admin
       IN  /\ Replace(admin.email, Upserted(admin.email, admin.password, TRUE),
                      {Promise(admin.email, admin.given, admin.email, admin.password)})
           /\ configured' = configured \cup {admin.email}
    /\ Become(s, [requests[s] EXCEPT !.admin = None])
    /\ UNCHANGED config

UpsertStudent(s, p) ==
    /\ requests[s].op = "seed"
    /\ requests[s].admin = None
    /\ p \in requests[s].left
    /\ LET address == [person |-> p, capital |-> FALSE]
       IN  Replace(address, Upserted(address, DemoPassword, FALSE),
                   {Promise(address, DemoPassword, address, DemoPassword)})
    /\ Become(s, [requests[s] EXCEPT !.left = @ \ {p}])
    /\ UNCHANGED <<config, configured>>

(* Done, or given up: a call fails or the process ends.                     *)
End(s) ==
    /\ requests[s] # Idle
    /\ Become(s, Idle)
    /\ UNCHANGED <<config, accounts, promised, configured>>

Next ==
    \/ \E env \in Environments : Start(env)
    \/ Stop
    \/ \E s \in Slots, a \in Addresses, p \in Passwords : FindByEmail(s, a, p)
    \/ \E s \in Slots : Save(s)
    \/ \E s \in Slots, a \in Addresses :
          \/ UpdateAdminUserStatus(s, a)
          \/ DeleteAdminUser(s, a)
          \/ RestoreAdminUser(s, a)
          \/ ResetAdminUserPassword(s, a)
    \/ \E s \in Slots, a \in Addresses, p \in Passwords : ChangeOwnPassword(s, a, p)
    \/ \E s \in Slots : UpdateUserStatus(s) \/ UpdateDeletedAt(s) \/ SetPassword(s)
    \/ \E a \in Addresses : Remove(a)
    \/ \E s \in Slots, env \in Environments :
          BootstrapAuthAdmin(s, env) \/ BootstrapDemoUsers(s, env)
    \/ \E s \in Slots : SeedDemoUsers(s) \/ UpsertAdmin(s) \/ End(s)
    \/ \E s \in Slots, p \in DemoPeople : UpsertStudent(s, p)

Spec == Init /\ [][Next]_vars
-----------------------------------------------------------------------------
(* Accounts, requests and promises are well formed, every promise has its    *)
(* account with what was stored of it, a system account stands under an       *)
(* address that was configured, a change is one of an account that is there,  *)
(* and only a server that is up serves requests.                            *)
TypeOK ==
    /\ config \in Configs \cup {None}
    /\ accounts \in [Addresses -> Rows \cup {None}]
    /\ requests \in [Slots -> {Idle} \cup Registering \cup Changing \cup Seeding]
    /\ \A c \in promised : /\ c.address \in Addresses /\ Present(c.address)
                           /\ accounts[c.address].password = c.hash
    /\ configured \subseteq Addresses
    /\ \A a \in Addresses : Present(a) /\ accounts[a].isSystem => a \in configured
    /\ \A s \in Slots : /\ ServedBy(requests[s]) => config # None
                        /\ Changes(requests[s]) => Present(requests[s].address)

(* A person has one account however the address is typed and whatever runs   *)
(* at the same time, unless one of them is a bootstrap administrator whose    *)
(* address was configured with capital letters.  (UserEmailAddress, the      *)
(* unique index, and seeds that store the address as it is configured.)      *)
OnePersonOneAccount ==
    \A a, b \in Addresses : Present(a) /\ Present(b) /\ a.person = b.person
        => a = b \/ \E c \in {a, b} : c.capital /\ c \in configured

(* Credentials that somebody was given, by a registration, a configuration, a *)
(* change or a reset of the password, open the account until they are         *)
(* replaced; but not while the account is deactivated or soft-deleted, which  *)
(* a seed that gives them out undoes only of the first; nor those of a        *)
(* registration with capital letters (sign-in does not convert the address), *)
(* nor a configured password with blanks around it (the seed trims it, sign- *)
(* in does not), nor any while refresh tokens live beyond the end of time.    *)
GivenCredentialsOpen ==
    config # None => \A c \in promised :
        \/ SignIn(c.typed, c.password).result = "accepted"
        \/ Closed(accounts[c.address])
        \/ c.typed # c.address
        \/ c.password # Trimmed(c.password) /\ c.address \in configured
        \/ config.refreshTtl > LongestSpan

(* Nobody signs in to an access token that outlives the session it belongs   *)
(* to, or the day that bounds how late a revocation takes effect, whatever    *)
(* the environment, the file and the defaults come to together.              *)
LifetimesBounded ==
    config # None => \A a \in Addresses, p \in Given :
        LET answer == SignIn(a, p)
        IN  answer.result = "accepted" =>
                /\ answer.accessTtl \in 1..MaxAccessTtl
                /\ answer.accessTtl <= answer.refreshTtl
                /\ answer.refreshTtl <= LongestSpan

(* An account that is there is changed only by the step of a seed that is    *)
(* for its administrator or student, or of a request about that very account, *)
(* or removed by a reset; never by a registration, even one that had found    *)
(* the address free.                                                        *)
RegistrationTakesNothingOver ==
    [][\A a \in Addresses : Present(a) /\ accounts'[a] # accounts[a] =>
          \/ accounts'[a] = None /\ ~accounts[a].isSystem
          \/ \E s \in Slots : requests'[s] # requests[s] /\
                \/ Changes(requests[s]) /\ requests[s].address = a
                \/ requests[s].op = "seed" /\
                      \/ requests[s].admin # None /\ requests[s].admin.email = a
                      \/ a.person \in requests[s].left /\ ~a.capital]_vars
=============================================================================
