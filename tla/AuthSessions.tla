---------------------------- MODULE AuthSessions ----------------------------
(***************************************************************************)
(* The sessions of one account (contexts/iam): sign-in, refresh, sign-out, *)
(* the two ways a password changes, and what the administration of the     *)
(* account does to them.  Accounts do not share session state, so one is   *)
(* enough; AdminUsers has the rules that relate accounts.                  *)
(*                                                                         *)
(* A session is one row, unique per user, that is looked up by the hash of *)
(* its refresh token and written by an upsert on the user id.  The tokens  *)
(* are opaque and fresh, so a request that presents the current one is one *)
(* that finds the row, and a request that presents any other is refused    *)
(* without effect.  Access tokens are signed statements that nothing can   *)
(* take back: the set of those that have not expired is part of the state. *)
(*                                                                         *)
(* As in AdminUsers a step is one awaited call, a request refused by its   *)
(* first reading is a stutter, and the steps of requests interleave.       *)
(***************************************************************************)
EXTENDS Naturals, FiniteSets

CONSTANTS
    Grants,        \* the roles and permissions an account can come to have
    SeededGrants,  \* those the seed gives the account
    OwnPasswords,  \* passwords users choose
    AccessTtl,     \* lifetime of an access token, in ticks
    MaxTokens,     \* bound on the access tokens valid or about to be issued
    Requests,      \* slots for requests in flight
    Ops,           \* the operations requested
    Failures       \* may a request end between two of its calls?

AllOps == {"login", "refresh", "logout", "changePassword", "resetPassword",
           "activate", "deactivate", "delete", "restore", "updateRoles",
           "reset", "seed", "catalog"}

ASSUME ConstantsAssumption ==
    /\ SeededGrants \in Grants
    /\ OwnPasswords \cap {"temporary", "seeded"} = {}
    /\ AccessTtl \in Nat \ {0}
    /\ MaxTokens \in Nat
    /\ Ops \subseteq AllOps
    /\ Failures \in BOOLEAN

VARIABLES
    account,       \* the User row, with the permissions its roles come to
    session,       \* the AuthSession row
    accessTokens,  \* the access tokens that have not expired
    requests,      \* what each slot is doing
    unchanged      \* ticks since the account's standing changed (history)

vars == <<account, session, accessTokens, requests, unchanged>>

-----------------------------------------------------------------------------
(* Rows, tokens and requests.                                              *)

Passwords == OwnPasswords \cup {"temporary", "seeded"}

Account == [present : BOOLEAN, active : BOOLEAN, deleted : BOOLEAN,
            grants : Grants, mustChange : BOOLEAN, password : Passwords]

(* What the account was like when the user signed in (history): refreshing *)
(* a session does not change where it comes from.                          *)
Origin == [password : Passwords, grants : Grants]

NoOrigin == [password |-> "seeded", grants |-> SeededGrants]

Session == [exists : BOOLEAN, expired : BOOLEAN, origin : Origin]

NoSession == [exists |-> FALSE, expired |-> FALSE, origin |-> NoOrigin]

(* temporary and late are history flags: the account had a temporary       *)
(* password, and its standing changed, when the issuing request had read   *)
(* it and had yet to issue.                                                *)
AccessToken == [left : 1 .. AccessTtl, grants : Grants, mustChange : BOOLEAN,
                temporary : BOOLEAN, late : BOOLEAN]

(* grants, mustChange and password are what the request has read of the    *)
(* account, origin is that of the session it opens or refreshes.           *)
Request == [pc : {"idle", "user", "issue", "save", "write", "clear"},
            op : AllOps \cup {"none"}, grants : Grants, mustChange : BOOLEAN,
            password : Passwords, origin : Origin, late : BOOLEAN]

NewRequest(op, pc) ==
    [pc |-> pc, op |-> op, grants |-> SeededGrants, mustChange |-> FALSE,
     password |-> "seeded", origin |-> NoOrigin, late |-> FALSE]

IdleSlot == NewRequest("none", "idle")

TypeOK ==
    /\ account \in Account
    /\ session \in Session
    /\ session.exists => account.present
    /\ accessTokens \subseteq AccessToken
    /\ requests \in [Requests -> Request]
    /\ unchanged \in 0 .. AccessTtl

(* An account that has just been created. *)
Init ==
    /\ account \in [present : {TRUE}, active : {TRUE}, deleted : {FALSE},
                    grants : Grants, mustChange : {FALSE},
                    password : OwnPasswords]
    /\ session = NoSession
    /\ accessTokens = {}
    /\ requests = [r \in Requests |-> IdleSlot]
    /\ unchanged = AccessTtl

-----------------------------------------------------------------------------
(* Who may sign in, and what a token says.                                 *)

Open(row) == row.present /\ row.active /\ ~row.deleted

(* What access rests on: a change of it is what tokens lag behind.         *)
Standing(row) == <<Open(row), row.grants, row.mustChange>>

(* The claims of token t are what a token issued now would say.            *)
Agrees(t) == Standing(account) = <<TRUE, t.grants, t.mustChange>>

-----------------------------------------------------------------------------
(* Steps of a request.                                                     *)

(* A request that holds a reading of the account it will issue a token on. *)
Holds(s) == requests[s].pc \in {"issue", "save"}

(* The bound MaxTokens leaves room for another token. *)
Room == Cardinality(accessTokens)
          + Cardinality({s \in Requests : requests[s].op \in {"login", "refresh"}})
        < MaxTokens

(* Slot r continues as req; the readings that other slots hold of the      *)
(* account come late when this step changes its standing.                  *)
Mark(s) == [requests[s] EXCEPT
              !.late = @ \/ (Holds(s) /\ Standing(account') # Standing(account))]

Age == unchanged' = IF Standing(account') = Standing(account) THEN unchanged ELSE 0

Advance(r, req) ==
    /\ requests' = [s \in Requests |-> IF s = r THEN req ELSE Mark(s)]
    /\ Age

At(r, op, pc) == requests[r].op = op /\ requests[r].pc = pc

GoTo(r, pc) == Advance(r, [requests[r] EXCEPT !.pc = pc])

Finish(r) == Advance(r, IdleSlot)

Read == UNCHANGED <<account, session, accessTokens>>

Start(r, op, req) ==
    /\ requests[r].pc = "idle"
    /\ op \in Ops
    /\ Read
    /\ Advance(r, req)

(* The request keeps what the access profile says. *)
WithProfile(req) ==
    [req EXCEPT !.grants = account.grants, !.mustChange = account.mustChange,
                !.password = account.password]

(* findByEmail, and a password that matches the row read. *)
Login(r) ==
    /\ Room
    /\ Open(account)
    /\ Start(r, "login",
             [WithProfile(NewRequest("login", "issue")) EXCEPT
                !.origin = [password |-> account.password,
                            grants |-> account.grants]])

TokenOf(r) ==
    [left |-> AccessTtl, grants |-> requests[r].grants,
     mustChange |-> requests[r].mustChange,
     temporary |-> requests[r].password = "temporary",
     late |-> requests[r].late]

SessionOf(r) ==
    [exists |-> TRUE, expired |-> FALSE, origin |-> requests[r].origin]

(* The access token is signed and the previous session deleted. *)
IssueOnLogin(r) ==
    /\ At(r, "login", "issue")
    /\ accessTokens' = accessTokens \cup {TokenOf(r)}
    /\ session' = NoSession
    /\ UNCHANGED account
    /\ GoTo(r, "save")

(* The upsert; the foreign key refuses a session without its user. *)
SaveOnLogin(r) ==
    /\ At(r, "login", "save")
    /\ session' = IF account.present THEN SessionOf(r) ELSE session
    /\ UNCHANGED <<account, accessTokens>>
    /\ Finish(r)

(* findByRefreshTokenHash. *)
Refresh(r) ==
    /\ Room
    /\ session.exists
    /\ ~session.expired
    /\ Start(r, "refresh", [NewRequest("refresh", "user") EXCEPT
                              !.origin = session.origin])

(* Variants: the account's state is not asked; claims are not read anew.   *)
FindUserOnRefreshUnchecked(r) ==
    /\ At(r, "refresh", "user")
    /\ Read
    /\ Advance(r, WithProfile([requests[r] EXCEPT !.pc = "save"]))

FindUserOnRefreshOldGrants(r) ==
    /\ At(r, "refresh", "user")
    /\ Read
    /\ IF Open(account)
         THEN Advance(r, [WithProfile([requests[r] EXCEPT !.pc = "save"])
                            EXCEPT !.grants = requests[r].origin.grants])
         ELSE Finish(r)

FindUserOnRefresh(r) ==
    /\ At(r, "refresh", "user")
    /\ Read
    /\ IF Open(account)
         THEN Advance(r, WithProfile([requests[r] EXCEPT !.pc = "save"]))
         ELSE Finish(r)

(* Variant: no foreign key. *)
SaveOnRefreshAnyway(r) ==
    /\ At(r, "refresh", "save")
    /\ session' = SessionOf(r)
    /\ accessTokens' = accessTokens \cup {TokenOf(r)}
    /\ UNCHANGED account
    /\ Finish(r)

(* The rotated session is upserted, then the access token signed. *)
SaveOnRefresh(r) ==
    /\ At(r, "refresh", "save")
    /\ IF account.present
         THEN /\ session' = SessionOf(r)
              /\ accessTokens' = accessTokens \cup {TokenOf(r)}
         ELSE UNCHANGED <<session, accessTokens>>
    /\ UNCHANGED account
    /\ Finish(r)

Logout(r) ==
    /\ session.exists
    /\ Start(r, "logout", NewRequest("logout", "clear"))

(* Variant: the current password is not verified. *)
ChangePasswordUnverified(r) ==
    /\ accessTokens # {}
    /\ account.present
    /\ account.active
    /\ \E p \in Passwords :
          Start(r, "changePassword",
                [NewRequest("changePassword", "write") EXCEPT !.password = p])

(* A valid access token, and a password that matches the row read.  Whether *)
(* the account is deleted is not asked.                                    *)
ChangePassword(r) ==
    /\ accessTokens # {}
    /\ account.present
    /\ account.active
    /\ Start(r, "changePassword",
             [NewRequest("changePassword", "write") EXCEPT
                !.password = account.password])

ResetPassword(r) ==
    /\ account.present
    /\ ~account.deleted
    /\ Start(r, "resetPassword", NewRequest("resetPassword", "write"))

Activate(r) ==
    /\ account.present
    /\ Start(r, "activate", NewRequest("activate", "write"))

Deactivate(r) ==
    /\ account.present
    /\ Start(r, "deactivate", NewRequest("deactivate", "write"))

Delete(r) ==
    /\ account.present
    /\ ~account.deleted
    /\ Start(r, "delete", NewRequest("delete", "write"))

Restore(r) ==
    /\ account.present
    /\ account.deleted
    /\ Start(r, "restore", NewRequest("restore", "write"))

UpdateRoles(r) ==
    /\ account.present
    /\ Start(r, "updateRoles", NewRequest("updateRoles", "write"))

(* The IAM reset handler clears the session before it deletes the row. *)
ResetAccount(r) ==
    /\ account.present
    /\ Start(r, "reset", NewRequest("reset", "clear"))

(* A write by id: nothing to write to is "not found", and the end. *)
WriteRow(r, op, row, pc) ==
    /\ At(r, op, "write")
    /\ UNCHANGED <<session, accessTokens>>
    /\ IF account.present
         THEN account' = row /\ (IF pc = "idle" THEN Finish(r) ELSE GoTo(r, pc))
         ELSE UNCHANGED account /\ Finish(r)

(* Variant: the session is not ended. *)
WriteNewPasswordKeepingSession(r) ==
    /\ At(r, "changePassword", "write")
    /\ \E p \in OwnPasswords \ {requests[r].password} :
          account' = IF account.present
                       THEN [account EXCEPT !.password = p, !.mustChange = FALSE]
                       ELSE account
    /\ UNCHANGED <<session, accessTokens>>
    /\ Finish(r)

(* The result of setPassword is not looked at here: the session is cleared  *)
(* whether or not the row is still there.                                  *)
WriteNewPassword(r) ==
    /\ At(r, "changePassword", "write")
    /\ \E p \in OwnPasswords \ {requests[r].password} :
          account' = IF account.present
                       THEN [account EXCEPT !.password = p, !.mustChange = FALSE]
                       ELSE account
    /\ UNCHANGED <<session, accessTokens>>
    /\ GoTo(r, "clear")

(* Variant: the flag is left as it is. *)
WriteTemporaryPasswordUnflagged(r) ==
    WriteRow(r, "resetPassword", [account EXCEPT !.password = "temporary"],
             "clear")

WriteTemporaryPassword(r) ==
    WriteRow(r, "resetPassword",
             [account EXCEPT !.password = "temporary", !.mustChange = TRUE],
             "clear")

WriteActive(r) ==
    WriteRow(r, "activate", [account EXCEPT !.active = TRUE], "idle")

(* Variant: the session is not ended. *)
WriteInactiveKeepingSession(r) ==
    WriteRow(r, "deactivate", [account EXCEPT !.active = FALSE], "idle")

WriteInactive(r) ==
    WriteRow(r, "deactivate", [account EXCEPT !.active = FALSE], "clear")

WriteDeleted(r) ==
    WriteRow(r, "delete", [account EXCEPT !.deleted = TRUE], "clear")

WriteRestored(r) ==
    WriteRow(r, "restore", [account EXCEPT !.deleted = FALSE], "clear")

(* Variant: the session is not ended. *)
WriteRolesKeepingSession(r) ==
    \E g \in Grants :
        WriteRow(r, "updateRoles", [account EXCEPT !.grants = g], "idle")

WriteRoles(r) ==
    \E g \in Grants :
        WriteRow(r, "updateRoles", [account EXCEPT !.grants = g], "clear")

DeleteByUserId(r) ==
    /\ requests[r].pc = "clear"
    /\ session' = NoSession
    /\ UNCHANGED <<account, accessTokens>>
    /\ IF requests[r].op = "reset" THEN GoTo(r, "write") ELSE Finish(r)

(* The row is deleted for good, and the foreign key takes its session. *)
DeleteRow(r) ==
    /\ At(r, "reset", "write")
    /\ account' = [account EXCEPT !.present = FALSE]
    /\ session' = NoSession
    /\ UNCHANGED accessTokens
    /\ Finish(r)

(* A database error or the end of the process: what is committed stays. *)
Abandon(r) ==
    /\ Failures
    /\ requests[r].pc # "idle"
    /\ Read
    /\ Finish(r)

-----------------------------------------------------------------------------
(* Steps that are no request about this account.                           *)

Surroundings(op) ==
    /\ op \in Ops
    /\ account.present
    /\ UNCHANGED <<session, accessTokens>>
    /\ requests' = [s \in Requests |-> Mark(s)]
    /\ Age

(* The upsert of a seed: neither deletedAt nor mustChangePassword nor the  *)
(* session are among what it writes.                                       *)
Seed ==
    /\ account' = [account EXCEPT !.active = TRUE, !.grants = SeededGrants,
                                  !.password = "seeded"]
    /\ Surroundings("seed")

(* A change of the roles and permissions themselves. *)
ChangeCatalog ==
    /\ \E g \in Grants : account' = [account EXCEPT !.grants = g]
    /\ Surroundings("catalog")

SessionExpires ==
    /\ session.exists
    /\ session' = [session EXCEPT !.expired = TRUE]
    /\ UNCHANGED <<account, accessTokens, requests, unchanged>>

(* A tick of the clock: a token that has no time left is no longer valid.  *)
Tick ==
    /\ accessTokens' = {[t EXCEPT !.left = @ - 1] :
                           t \in {t \in accessTokens : t.left > 1}}
    /\ unchanged' = IF unchanged < AccessTtl THEN unchanged + 1 ELSE AccessTtl
    /\ UNCHANGED <<account, session, requests>>

-----------------------------------------------------------------------------

Arrive(r) ==
    \/ Login(r)
    \/ Refresh(r)
    \/ Logout(r)
    \/ ChangePassword(r)
    \/ ResetPassword(r)
    \/ Activate(r)
    \/ Deactivate(r)
    \/ Delete(r)
    \/ Restore(r)
    \/ UpdateRoles(r)
    \/ ResetAccount(r)

Continue(r) ==
    \/ IssueOnLogin(r)
    \/ SaveOnLogin(r)
    \/ FindUserOnRefresh(r)
    \/ SaveOnRefresh(r)
    \/ WriteNewPassword(r)
    \/ WriteTemporaryPassword(r)
    \/ WriteActive(r)
    \/ WriteInactive(r)
    \/ WriteDeleted(r)
    \/ WriteRestored(r)
    \/ WriteRoles(r)
    \/ DeleteByUserId(r)
    \/ DeleteRow(r)
    \/ Abandon(r)

Next ==
    \/ \E r \in Requests : Arrive(r) \/ Continue(r)
    \/ Seed
    \/ ChangeCatalog
    \/ SessionExpires
    \/ Tick

Spec == Init /\ [][Next]_vars

(* The clock runs, and the event loop comes back to every request that has *)
(* been accepted: its awaited call answers or fails.                       *)
Fairness ==
    /\ WF_vars(Tick)
    /\ \A r \in Requests : WF_vars(Continue(r))

FairSpec == Spec /\ Fairness

-----------------------------------------------------------------------------
(* Properties.                                                             *)

(* Revocation latency (GLOSSARY.md, ADR-0001): a token that no longer says *)
(* what the account's standing is has no more left than what remains of    *)
(* one access token lifetime since the standing last changed, unless it    *)
(* was issued by a request that had read the account before the change.    *)
RevocationLatency ==
    \A t \in accessTokens :
        Agrees(t) \/ t.late \/ t.left + unchanged <= AccessTtl

(* As long as a user has a temporary password they must change it, and no  *)
(* token obtained on such a password lets them do anything else: the flag  *)
(* and the password are written, read and signed together.                 *)
TemporaryPasswordGated ==
    /\ account.password = "temporary" => account.mustChange
    /\ \A t \in accessTokens : t.temporary => t.mustChange

(* Session revocation (GLOSSARY.md): deactivation, deletion, a change of   *)
(* roles and a new password all end the session.  When nothing is under    *)
(* way, the session there is belongs to an account that may sign in, and   *)
(* was opened with the password and the roles the account has now.         *)
SessionFitsAccount ==
    (session.exists /\ \A r \in Requests : requests[r].pc = "idle")
        => /\ Open(account)
           /\ session.origin = [password |-> account.password,
                               grants |-> account.grants]

(* "Changes the password of the authenticated user after verifying the     *)
(* current one" (auth.controller.ts): the password a change replaces is    *)
(* the one that was verified.                                              *)
ChangeVerifiesCurrent ==
    [][\A r \in Requests :
          WriteNewPassword(r) /\ account.present
             => account.password = requests[r].password]_vars

(* ADR-0001: a change of standing takes full effect in the end.  Once the  *)
(* account has its final standing, the tokens that say otherwise run out   *)
(* and none like them is issued again, whatever sessions are left over.    *)
TokensCatchUp ==
    \A g \in Grants, m \in BOOLEAN :
        <>[](Standing(account) = <<TRUE, g, m>>)
           => <>[](\A t \in accessTokens : t.grants = g /\ t.mustChange = m)

(* The same for an account that stays closed: in the end no token is left. *)
ClosedOutAtLast == <>[](~Open(account)) => <>[](accessTokens = {})
=============================================================================
