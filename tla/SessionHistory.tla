---------------------------- MODULE SessionHistory ----------------------------
(***************************************************************************)
(* AuthSessions with the history that tells a session which outlived a     *)
(* change of its account from one that did not, and the store of sessions  *)
(* that it implements with any number of requests in flight.  The history  *)
(* is of the model: nothing in the code depends on it.                     *)
(***************************************************************************)
EXTENDS AuthSessions

VARIABLES
    overtaken,  \* what each slot will save a session on is outdated
    stray       \* the session outlived a change of the account

historyVars == <<account, session, accessTokens, requests, unchanged,
                 overtaken, stray>>

-----------------------------------------------------------------------------

(* What a session rests on. *)
Fitness(row) == <<Open(row), row.grants, row.password>>

FitnessChanges == Fitness(account') # Fitness(account)

SessionChanges ==
    <<session'.exists, session'.origin>> # <<session.exists, session.origin>>

(* The use cases that end the session after they have changed the account. *)
RevokingOps == {"changePassword", "resetPassword", "deactivate", "delete",
                "restore", "updateRoles"}

(* The account has been changed, the session is about to be deleted. *)
Revokes(r) == requests[r].op \in RevokingOps /\ requests[r].pc = "clear"

Revoking == \E r \in Requests : Revokes(r)

Saves(r) == account.present /\ (SaveOnLogin(r) \/ SaveOnRefresh(r))

(* A sign-in is overtaken by a change of the account it has read, a        *)
(* refresh by any change of the session, its deletion above all, and by    *)
(* whatever makes that session a stray one.                                *)
Overtaken(s) ==
    /\ requests'[s].op \in {"login", "refresh"}
    /\ \/ overtaken[s]
       \/ requests[s].op = "login" /\ FitnessChanges
       \/ requests'[s].op = "refresh" /\ (SessionChanges \/ stray')

(* The session there is after the step, if any, is a stray one if is. *)
Remember(is) ==
    /\ stray' = (session'.exists /\ is)
    /\ overtaken' = [s \in Requests |-> Overtaken(s)]

HistoryInit ==
    /\ Init
    /\ overtaken = [r \in Requests |-> FALSE]
    /\ stray = FALSE

(* A session is stray when an overtaken request saves it, when a request   *)
(* that has changed the account ends before it has deleted the session,    *)
(* and when the account changes by a step that deletes no session.         *)
HistoryNext ==
    \/ \E r \in Requests :
          /\ Arrive(r) \/ Continue(r)
          /\ Remember(IF Saves(r) THEN overtaken[r] ELSE stray \/ Revokes(r))
    \/ (Seed \/ ChangeCatalog) /\ Remember(stray \/ FitnessChanges)
    \/ (SessionExpires \/ Tick) /\ Remember(stray)

HistorySpec == HistoryInit /\ [][HistoryNext]_historyVars

-----------------------------------------------------------------------------
(* Properties.                                                             *)

Credentials == [password |-> account.password, grants |-> account.grants]

(* Session revocation (GLOSSARY.md) with requests that overlap and fail: a *)
(* session that does not fit its account, one that may not sign in or has  *)
(* another password or other roles by now, is about to be deleted, or was  *)
(* saved by a request that had been overtaken, or is left over from a      *)
(* request that ended half-way, or from a seed or a change of the catalog. *)
SessionFitsUnlessStray ==
    session.exists /\ ~stray /\ ~Revoking
        => Open(account) /\ session.origin = Credentials

(* But for these sessions, the two calls by which a use case changes the   *)
(* account and ends the session are as good as one: the session is over    *)
(* with the change, and no refresh brings it back.                         *)
Store == INSTANCE SessionStore WITH
            Credentials <- Origin,
            SignIns <- Requests,
            open <- Open(account),
            credentials <- Credentials,
            valid <- IF session.exists /\ ~stray /\ ~Revoking
                       THEN {session.origin} ELSE {},
            pending <- {r \in Requests : requests[r].op = "login" /\ Holds(r)
                                            /\ ~overtaken[r]}

RevokesAtOnce == Store!Spec
=============================================================================
