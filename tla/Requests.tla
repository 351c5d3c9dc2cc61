------------------------------ MODULE Requests ------------------------------
(***************************************************************************)
(* The life of one HTTP request: the global guard, the validation pipe,    *)
(* the handler with the writes of its use case, the audit entry around it, *)
(* the serializing interceptor and the exception filter.  Every step may   *)
(* fail, and the process may end between any two; nothing undoes a write.  *)
(***************************************************************************)
EXTENDS Routes, FiniteSets

CONSTANTS
    PermissionSets,     \* the sets of permissions that access tokens carry
    Invalid,            \* a token that does not verify, or has expired
    None                \* no token, no entry, no answer

VARIABLES
    stage,      \* how far the request has come
    route,      \* where it goes
    token,      \* None, Invalid, or the claims the guard verified
    done,       \* how many writes of the use case are committed
    outcome,    \* how the use case, or what surrounds it, ended
    status,     \* the status a refusal is turned into
    entry,      \* the audit entry written for it
    answer      \* what the caller is told

vars == <<stage, route, token, done, outcome, status, entry, answer>>

Stages == {"idle", "guard", "pipe", "handler", "audit", "reply", "answered",
           "crashed"}
Claims == [permissions : PermissionSets, mustChange : BOOLEAN]
Codes == {"NONE", "BAD_REQUEST", "VALIDATION_ERROR", "UNAUTHORIZED",
          "FORBIDDEN", "NOT_FOUND", "CONFLICT", "INTERNAL_ERROR"}
Statuses == {200, 201, 204, 400, 401, 403, 404, 409, 500}
Answers == [status : Statuses, code : Codes]
ActionNames == {RouteOf(r).loggedAs : r \in Routes} \ {Unlogged}
Entries == [action : ActionNames, outcome : {"success", "rejected"}]

ASSUME PermissionSetsAssumption == PermissionSets \subseteq SUBSET Permissions
ASSUME NoneAssumption ==
    /\ None \notin Claims \cup Entries \cup Answers
    /\ Invalid \notin Claims

This == RouteOf(route)

Init ==
    /\ stage = "idle"
    /\ route = <<"health", "getHealth">>
    /\ token = None
    /\ done = 0
    /\ outcome = "none"
    /\ status = 0
    /\ entry = None
    /\ answer = None

Receive(r, t) ==
    /\ stage = "idle"
    /\ stage' = "guard"
    /\ route' = r
    /\ token' = t
    /\ UNCHANGED <<done, outcome, status, entry, answer>>

(* The exception filter: the code follows from the status.                  *)
CodeOf(s) ==
    CASE s = 400 -> "BAD_REQUEST"
      [] s = 401 -> "UNAUTHORIZED"
      [] s = 403 -> "FORBIDDEN"
      [] s = 404 -> "NOT_FOUND"
      [] s = 409 -> "CONFLICT"
      [] OTHER   -> "INTERNAL_ERROR"

Reply(s, code) ==
    /\ stage' = "answered"
    /\ answer' = [status |-> s, code |-> code]

Fail(s) == Reply(s, CodeOf(s))

(* The guard.  A token signed on a temporary password opens only the routes *)
(* that allow a password change, whatever it carries.                       *)
Authentic == token \in Claims
Gated == Authentic /\ token.mustChange /\ This.gate # "password"
Lacking == Authentic /\ ~(This.needs \subseteq token.permissions)

PassGuard ==
    /\ stage = "guard"
    /\ This.gate # "public" => Authentic /\ ~Gated /\ ~Lacking
    /\ stage' = "pipe"
    /\ UNCHANGED <<route, token, done, outcome, status, entry, answer>>

RefuseToken ==
    /\ stage = "guard"
    /\ This.gate # "public"
    /\ ~Authentic
    /\ Fail(401)
    /\ UNCHANGED <<route, token, done, outcome, status, entry>>

RefuseAccess ==
    /\ stage = "guard"
    /\ This.gate # "public"
    /\ Gated \/ Lacking
    /\ Fail(403)
    /\ UNCHANGED <<route, token, done, outcome, status, entry>>

(* The validation pipe sees a request only after the guard.                 *)
PassPipe ==
    /\ stage = "pipe"
    /\ stage' = "handler"
    /\ UNCHANGED <<route, token, done, outcome, status, entry, answer>>

RefuseInput ==
    /\ stage = "pipe"
    /\ This.validated
    /\ Reply(400, "VALIDATION_ERROR")
    /\ UNCHANGED <<route, token, done, outcome, status, entry>>

(* A loop over the writes that goes one round too far.                      *)
WriteOnceMore ==
    /\ stage = "handler"
    /\ \E n \in This.writes : done <= n
    /\ done' = done + 1
    /\ UNCHANGED <<stage, route, token, outcome, status, entry, answer>>

(* The use case: some writes, each a transaction of its own.  It refuses     *)
(* before the first one and succeeds after the last one.                    *)
Write ==
    /\ stage = "handler"
    /\ \E n \in This.writes : done < n
    /\ done' = done + 1
    /\ UNCHANGED <<stage, route, token, outcome, status, entry, answer>>

Leave(result) ==
    /\ stage = "handler"
    /\ outcome' = result
    /\ stage' = IF This.loggedAs = Unlogged THEN "reply" ELSE "audit"
    /\ UNCHANGED <<route, token, done, entry, answer>>

Succeed ==
    /\ done \in This.writes
    /\ Leave("success")
    /\ status' = This.success

(* A check that comes after a write.                                        *)
RefuseLate ==
    /\ Leave("failure")
    /\ status' \in This.refusals

Refuse ==
    /\ done = 0
    /\ Leave("failure")
    /\ status' \in This.refusals

(* A lost connection, a violated constraint, a rejected value object ...     *)
Throw ==
    /\ Leave("error")
    /\ UNCHANGED status

(* ... or a table or column the database does not have yet.                 *)
ThrowDrift ==
    /\ Leave("drift")
    /\ UNCHANGED status

(* An entry made of the attempt instead of its outcome.                     *)
RecordAttempt ==
    /\ stage = "audit"
    /\ entry' = [action |-> This.loggedAs, outcome |-> "success"]
    /\ stage' = "reply"
    /\ UNCHANGED <<route, token, done, outcome, status, answer>>

(* AuditedAction, once the use case has ended.  A thrown error is recorded   *)
(* as a rejection of unknown reason.                                        *)
RecordEntry ==
    /\ stage = "audit"
    /\ entry' = [action |-> This.loggedAs,
                 outcome |-> IF outcome = "success" THEN "success" ELSE "rejected"]
    /\ stage' = "reply"
    /\ UNCHANGED <<route, token, done, outcome, status, answer>>

(* The log itself cannot be written.  After a result that is the request's   *)
(* error; after a thrown error it is ignored and the first one stands.       *)
FailToRecord ==
    /\ stage = "audit"
    /\ stage' = "reply"
    /\ IF outcome \in {"success", "failure"}
       THEN outcome' \in {"error", "drift"}
       ELSE outcome' = outcome
    /\ UNCHANGED <<route, token, done, status, entry, answer>>

(* The handler turns the result into a response ...                         *)
AnswerResult ==
    /\ stage = "reply"
    /\ \/ outcome = "success" /\ Reply(status, "NONE")
       \/ outcome = "failure" /\ Fail(status)
    /\ UNCHANGED <<route, token, done, outcome, status, entry>>

(* ... which the interceptor may find not to fit its declared type; a reply  *)
(* without a body declares none ...                                         *)
FailToSerialize ==
    /\ stage = "reply"
    /\ outcome = "success"
    /\ status # 204
    /\ Reply(500, "INTERNAL_ERROR")
    /\ UNCHANGED <<route, token, done, outcome, status, entry>>

(* ... or an error goes to the filter; the seed's handler calls a database   *)
(* behind its schema a conflict.                                            *)
AnswerError ==
    /\ stage = "reply"
    /\ outcome \in {"error", "drift"}
    /\ IF outcome = "drift" /\ This.driftIsConflict THEN Fail(409) ELSE Fail(500)
    /\ UNCHANGED <<route, token, done, outcome, status, entry>>

(* The process ends; the caller is told nothing.                            *)
Crash ==
    /\ stage \in {"guard", "pipe", "handler", "audit", "reply"}
    /\ stage' = "crashed"
    /\ UNCHANGED <<route, token, done, outcome, status, entry, answer>>

(* Nothing of a request is kept for the next one.                           *)
Close ==
    /\ stage \in {"answered", "crashed"}
    /\ stage' = "idle"
    /\ route' = <<"health", "getHealth">>
    /\ token' = None
    /\ done' = 0
    /\ outcome' = "none"
    /\ status' = 0
    /\ entry' = None
    /\ answer' = None

Next ==
    \/ \E r \in Routes, t \in {None, Invalid} \cup Claims : Receive(r, t)
    \/ PassGuard \/ RefuseToken \/ RefuseAccess
    \/ PassPipe \/ RefuseInput
    \/ Write \/ Succeed \/ Refuse \/ Throw \/ ThrowDrift
    \/ RecordEntry \/ FailToRecord
    \/ AnswerResult \/ FailToSerialize \/ AnswerError
    \/ Crash \/ Close

Spec == Init /\ [][Next]_vars
-----------------------------------------------------------------------------
(* Every variable holds what it can hold; what a route declares is well     *)
(* formed, and a write is committed only while or after its handler runs    *)
(* and never beyond the number the route allows.                            *)
TypeOK ==
    /\ stage \in Stages
    /\ route \in Routes
    /\ token \in {None, Invalid} \cup Claims
    /\ done \in 0..3
    /\ outcome \in {"none", "success", "failure", "error", "drift"}
    /\ status \in {0} \cup Statuses
    /\ entry \in {None} \cup Entries
    /\ answer \in {None} \cup Answers
    /\ done > 0 => \E n \in This.writes : done <= n
    /\ done > 0 => stage \notin {"idle", "guard", "pipe"}

Answered(s) == stage = "answered" /\ answer.status = s
Refused == stage = "answered" /\ answer.status \in 400..499
Beyond == stage \in {"handler", "audit", "reply"} \/ done > 0

(* Own-data permissions, the whole of the student role, never lead past the *)
(* guard of a route that reaches anybody else's data, and neither does a    *)
(* request without a verified token.  (RequirePermissions decorators and    *)
(* the owner each handler passes on.)                                       *)
OwnRightsReachOwnData ==
    Beyond /\ (token \in Claims => token.permissions \subseteq OwnRights)
        => /\ This.reach # "others"
           /\ token \notin Claims => This.reach \in {"self", "none"}

(* Whoever holds only rights to read changes nothing but the own session    *)
(* and password.  (The right each writing handler asks for.)                *)
ReadRights == {p \in Permissions : p[2] \in {"read", "read_own", "read_any"}}
ReadersChangeNothing ==
    done > 0 /\ token \in Claims /\ token.permissions \subseteq ReadRights
        => This.reach = "self"

(* A refusal, which is every answer from 400 to 499, means that nothing was *)
(* changed; the one exception is the conflict that the demo seed answers    *)
(* when it finds the database behind its schema.                            *)
RefusalsChangeNothing ==
    Refused /\ done > 0
        => This.driftIsConflict /\ answer.code = "CONFLICT" /\ outcome = "drift"

(* A change to somebody else's data that leaves no audit entry is answered  *)
(* with an error, unless it created a user, which neither of the two routes *)
(* logs; the seed's error may look like a conflict.                         *)
ChangesLeaveAnEntry ==
    stage = "answered" /\ done > 0 /\ This.reach = "others" /\ entry = None
        => \/ answer.status = 500
           \/ answer.status = 409 /\ This.driftIsConflict
           \/ route \in {<<"adminUsers", "createUser">>, <<"users", "registerUser">>}

(* The log and the answers agree: on a logged route a success is answered   *)
(* only after it was logged as one, a refusal by the use case only after it *)
(* was logged as rejected, and an entry of success is never followed by a   *)
(* refusal.  No two routes share an action name.                            *)
LogAgreesWithAnswer ==
    stage = "answered" /\ This.loggedAs # Unlogged
        => /\ answer.status < 400 => entry # None /\ entry.outcome = "success"
           /\ entry # None /\ entry.outcome = "success" => ~Refused
           /\ Refused /\ outcome = "failure"
                => entry # None /\ entry.outcome = "rejected"
           /\ entry # None => \A r \in Routes :
                 RouteOf(r).loggedAs = entry.action => r = route

(* Every answer is one the route's Swagger decorators promise, outside the  *)
(* auth and health controllers, which promise less than they answer, and    *)
(* but for the reset, which promises 201 and answers 200.                   *)
AnswersDescribed ==
    stage = "answered" /\ route[1] \notin {"auth", "health"}
        => \/ answer.status \in This.described
           \/ Answered(200) /\ route = <<"adminDataResets", "createReset">>

(* docs/api-reference.md: an own item is changed with the update_own right   *)
(* of its domain and removed with delete_own.                               *)
ChangeNeedsItsRight ==
    done > 0 /\ token \in Claims /\ This.reach = "own"
        => \A p \in This.needs :
              /\ route[2] = "update" => <<p[1], "update_own">> \in token.permissions
              /\ route[2] = "delete" => <<p[1], "delete_own">> \in token.permissions
=============================================================================
