------------------------- MODULE SessionHistory_proof -------------------------
(* Theorems about SessionHistory, for every set of permissions, passwords, *)
(* operations and requests.                                                *)
EXTENDS SessionHistory, AuthSessions_proof

-----------------------------------------------------------------------------
(* The inductive invariant: what a request will save a session on still    *)
(* fits the account, or is that of a session that counts, or the request   *)
(* is marked as overtaken.                                                 *)

HistoryTypeOK ==
    /\ overtaken \in [Requests -> BOOLEAN]
    /\ stray \in BOOLEAN

LoginFits(r) ==
    requests[r].op = "login" /\ Holds(r) /\ ~overtaken[r]
        => Open(account) /\ requests[r].origin = Credentials

RefreshFits(r) ==
    requests[r].op = "refresh" /\ ~overtaken[r]
        => session.exists /\ ~stray /\ session.origin = requests[r].origin

HistoryInv ==
    /\ \A r \in Requests : LoginFits(r) /\ RefreshFits(r)
    /\ SessionFitsUnlessStray

(* The two variables that Store is given for its valid and pending. *)
Counts == session.exists /\ ~stray /\ ~Revoking

Pending == {r \in Requests : /\ requests[r].op = "login"
                             /\ Holds(r)
                             /\ ~overtaken[r]}

Valid == IF Counts THEN {session.origin} ELSE {}

-----------------------------------------------------------------------------
(* What the steps of a request do to the account, the session and its slot. *)

(* Moving on keeps the operation and the origin. *)
LEMMA GoToSlot ==
    ASSUME TypeOK, NEW r \in Requests,
           NEW pc \in {"idle", "user", "issue", "save", "write", "clear"},
           GoTo(r, pc)
    PROVE  /\ requests'[r].pc = pc
           /\ requests'[r].op = requests[r].op
           /\ requests'[r].origin = requests[r].origin
<1> DEFINE q == requests[r]
           p == [q EXCEPT !.pc = pc]
<1>1. Advance(r, p) /\ q \in Request /\ requests \in Slots
  BY DEF GoTo, TypeOK, Slots
<1> HIDE DEF q
<1>2. p \in Request /\ p.pc = pc /\ p.op = q.op /\ p.origin = q.origin
  BY <1>1, PcOnly
<1> HIDE DEF p
<1> QED
  BY <1>1, <1>2, AdvanceSlots DEF q

LEMMA FinishSlot ==
    ASSUME TypeOK, NEW r \in Requests, Finish(r)
    PROVE  requests'[r].pc = "idle" /\ requests'[r].op = "none"
<1>1. requests'[r] = IdleSlot
  BY NewRequestType, AdvanceSlots DEF Finish, IdleSlot, TypeOK, Slots
<1> QED
  BY <1>1 DEF IdleSlot, NewRequest

(* The account is changed and the session is next. *)
Revocation(r) == session' = session /\ ~Holds(r) /\ Revokes(r)'

(* The session goes; a change of the account along with it closes it. *)
Ending(r) ==
    /\ session' = NoSession
    /\ ~Revokes(r)'
    /\ \/ /\ account' = account
          /\ requests[r].op = "login" /\ Holds(r)
          /\ requests'[r].op = "login" /\ Holds(r)'
          /\ requests'[r].origin = requests[r].origin
       \/ /\ ~Holds(r)
          /\ requests'[r].op \notin {"login", "refresh"}
          /\ account' = account \/ ~Open(account')

(* The account is opened, if it was not. *)
Activation(r) ==
    /\ session' = session
    /\ account' = [account EXCEPT !.active = TRUE]
    /\ ~Revokes(r)
    /\ ~Holds(r)
    /\ requests'[r].op = "none"

(* Rows stay as they are. *)
Quiet(r) ==
    /\ UNCHANGED <<account, session>>
    /\ ~Revokes(r)'
    /\ \/ requests'[r].op \notin {"login", "refresh"}
       \/ /\ requests'[r].op = "login" /\ ~Holds(r)
          /\ Open(account) /\ requests'[r].origin = Credentials
       \/ /\ requests'[r].op = "refresh"
          /\ requests[r].op = "refresh"
          /\ requests'[r].origin = requests[r].origin
       \/ /\ requests'[r].op = "refresh"
          /\ session.exists /\ requests'[r].origin = session.origin

(* A session is saved. *)
Saving(r) ==
    /\ account' = account
    /\ session'.exists /\ session'.origin = requests[r].origin
    /\ requests[r].op \in {"login", "refresh"} /\ requests[r].pc = "save"
    /\ requests'[r].op = "none"

LEMMA SavesEffect ==
    ASSUME TypeOK, NEW r \in Requests, Saves(r)
    PROVE  Saving(r)
<1>1. /\ account' = account /\ session' = SessionOf(r) /\ Finish(r)
      /\ requests[r].op \in {"login", "refresh"} /\ requests[r].pc = "save"
  BY DEF Saves, SaveOnLogin, SaveOnRefresh, At
<1>2. session'.exists /\ session'.origin = requests[r].origin
  BY <1>1 DEF SessionOf
<1> QED
  BY <1>1, <1>2, FinishSlot DEF Saving

LEMMA ArriveEffect ==
    ASSUME TypeOK, NEW r \in Requests, Arrive(r)
    PROVE  Quiet(r) /\ ~Saves(r)
<1>1. UNCHANGED <<account, session>> /\ requests[r].pc = "idle" /\ requests \in Slots
  BY ArriveShape DEF TypeOK, Slots
<1>2. ~Saves(r) /\ ~Holds(r)
  BY <1>1, SavesEffect DEF Saving, Holds
<1>3. ASSUME NEW op, NEW req \in Request, Start(r, op, req)
      PROVE  requests'[r] = req
  BY <1>1, <1>3, AdvanceSlots DEF Start
<1>4. CASE Login(r)
  <2> DEFINE q == WithProfile(NewRequest("login", "issue"))
             req == [q EXCEPT !.origin = Credentials]
  <2>1. NewRequest("login", "issue") \in Request
    BY NewRequestType DEF AllOps
  <2>2. q \in Request /\ q.pc = "issue" /\ q.op = "login"
    BY <2>1, ProfileRead DEF TypeOK, NewRequest
  <2>3. Credentials \in Origin
    BY DEF TypeOK, Credentials, Origin, Account
  <2>4. Start(r, "login", req) /\ Open(account)
    BY <1>4 DEF Login, Credentials
  <2> HIDE DEF q
  <2>5. /\ req \in Request /\ req.pc = "issue" /\ req.op = "login"
        /\ req.origin = Credentials
    BY <2>2, <2>3 DEF Request
  <2> HIDE DEF req
  <2>6. requests'[r] = req
    BY <1>3, <2>4, <2>5
  <2> QED
    BY <1>1, <1>2, <2>4, <2>5, <2>6 DEF Quiet, Revokes
<1>5. CASE Refresh(r)
  <2> DEFINE q == NewRequest("refresh", "user")
             req == [q EXCEPT !.origin = session.origin]
  <2>1. Start(r, "refresh", req) /\ session.exists
    BY <1>5 DEF Refresh
  <2>2. q \in Request /\ q.op = "refresh" /\ q.pc = "user"
    BY NewRequestType DEF AllOps, NewRequest
  <2>3. session.origin \in Origin
    BY DEF TypeOK, Session
  <2> HIDE DEF q
  <2>4. /\ req \in Request /\ req.op = "refresh" /\ req.pc = "user"
        /\ req.origin = session.origin
    BY <2>2, <2>3 DEF Request
  <2> HIDE DEF req
  <2>5. requests'[r] = req
    BY <1>3, <2>1, <2>4
  <2> QED
    BY <1>1, <1>2, <2>1, <2>4, <2>5 DEF Quiet, Revokes
<1>6. CASE ChangePassword(r)
  <2> DEFINE q == NewRequest("changePassword", "write")
             req == [q EXCEPT !.password = account.password]
  <2>1. Start(r, "changePassword", req)
    BY <1>6 DEF ChangePassword
  <2>2. q \in Request /\ q.op = "changePassword" /\ q.pc = "write"
    BY NewRequestType DEF AllOps, NewRequest
  <2>3. account.password \in Passwords
    BY DEF TypeOK, Account
  <2> HIDE DEF q
  <2>4. req \in Request /\ req.op = "changePassword" /\ req.pc = "write"
    BY <2>2, <2>3 DEF Request
  <2> HIDE DEF req
  <2>5. requests'[r] = req
    BY <1>3, <2>1, <2>4
  <2> QED
    BY <1>1, <1>2, <2>4, <2>5 DEF Quiet, Revokes
<1>7. ASSUME NEW op \in AllOps \ {"login", "refresh"}, NEW pc \in {"write", "clear"},
             pc = "clear" => op \notin RevokingOps,
             Start(r, op, NewRequest(op, pc))
      PROVE  Quiet(r)
  <2>1. NewRequest(op, pc) \in Request
    BY NewRequestType
  <2>2. requests'[r] = NewRequest(op, pc)
    BY <1>3, <1>7, <2>1
  <2>3. requests'[r].pc = pc /\ requests'[r].op = op
    BY <2>2 DEF NewRequest
  <2> QED
    BY <1>1, <1>7, <2>3 DEF Quiet, Revokes
<1>8. CASE \/ ResetPassword(r) \/ Activate(r) \/ Deactivate(r)
           \/ Delete(r) \/ Restore(r) \/ UpdateRoles(r)
  <2>1. PICK op \in AllOps \ {"login", "refresh"} : Start(r, op, NewRequest(op, "write"))
    BY <1>8
    DEF ResetPassword, Activate, Deactivate, Delete, Restore, UpdateRoles, AllOps
  <2> QED
    BY <1>2, <1>7, <2>1
<1>9. CASE Logout(r) \/ ResetAccount(r)
  <2>1. PICK op \in {"logout", "reset"} : Start(r, op, NewRequest(op, "clear"))
    BY <1>9 DEF Logout, ResetAccount
  <2>2. op \in AllOps \ {"login", "refresh"} /\ op \notin RevokingOps
    BY DEF AllOps, RevokingOps
  <2> QED
    BY <1>2, <1>7, <2>1, <2>2
<1> QED
  BY <1>2, <1>4, <1>5, <1>6, <1>8, <1>9 DEF Arrive

(* A write by id that ends the session, or finds no row. *)
LEMMA WriteEffect ==
    ASSUME TypeOK, NEW r \in Requests, NEW op \in RevokingOps, NEW row,
           WriteRow(r, op, row, "clear")
    PROVE  Revocation(r) \/ Quiet(r)
<1>1. At(r, op, "write") /\ session' = session
  BY DEF WriteRow
<1>2. CASE GoTo(r, "clear")
  BY <1>1, <1>2, GoToSlot DEF Revocation, Revokes, Holds, At
<1>3. CASE Finish(r) /\ UNCHANGED account
  BY <1>1, <1>3, FinishSlot DEF Quiet, Revokes
<1> QED
  BY <1>2, <1>3 DEF WriteRow

LEMMA ContinueEffect ==
    ASSUME TypeOK, NEW r \in Requests, Continue(r), ~Saves(r)
    PROVE  Revocation(r) \/ Ending(r) \/ Activation(r) \/ Quiet(r)
<1>1. /\ requests[r] \in Request /\ account \in Account
      /\ session.exists => account.present
  BY DEF TypeOK
<1>2. ASSUME Finish(r), UNCHANGED <<account, session>>
      PROVE  Quiet(r)
  BY <1>2, FinishSlot DEF Quiet, Revokes
<1>3. CASE IssueOnLogin(r)
  BY <1>3, GoToSlot DEF IssueOnLogin, Ending, At, Holds, Revokes
<1>4. CASE SaveOnLogin(r) \/ SaveOnRefresh(r)
  BY <1>2, <1>4 DEF SaveOnLogin, SaveOnRefresh, Saves
<1>5. CASE FindUserOnRefresh(r)
  <2>1. At(r, "refresh", "user") /\ UNCHANGED <<account, session>>
    BY <1>5 DEF FindUserOnRefresh, Read
  <2>2. CASE ~Finish(r)
    <3> DEFINE q == [requests[r] EXCEPT !.pc = "save"]
               p == WithProfile(q)
    <3>1. Advance(r, p)
      BY <1>5, <2>2 DEF FindUserOnRefresh
    <3>2. /\ q \in Request /\ q.pc = "save" /\ q.origin = requests[r].origin
          /\ q.op = requests[r].op
      BY <1>1, PcOnly
    <3> HIDE DEF q
    <3>3. p \in Request /\ p.pc = q.pc /\ p.origin = q.origin /\ p.op = q.op
      BY <1>1, <3>2, ProfileRead
    <3> HIDE DEF p
    <3>4. requests'[r] = p
      BY <3>1, <3>3, AdvanceSlots DEF TypeOK, Slots
    <3> QED
      BY <2>1, <3>2, <3>3, <3>4 DEF Quiet, At, Revokes
  <2> QED
    BY <1>2, <2>1, <2>2
<1>6. CASE WriteNewPassword(r)
  BY <1>6, GoToSlot DEF WriteNewPassword, Revocation, Revokes, RevokingOps, Holds, At
<1>7. ASSUME NEW op \in RevokingOps, NEW row, WriteRow(r, op, row, "clear")
      PROVE  Revocation(r) \/ Quiet(r)
  BY <1>7, WriteEffect
<1>8. CASE WriteActive(r)
  <2>1. At(r, "activate", "write") /\ Finish(r) /\ session' = session
    BY <1>8 DEF WriteActive, WriteRow
  <2>2. CASE account' = account
    BY <1>2, <2>1, <2>2
  <2>3. CASE account' = [account EXCEPT !.active = TRUE]
    BY <2>1, <2>3, FinishSlot DEF Activation, Revokes, At, Holds
  <2> QED
    BY <1>8, <2>2, <2>3 DEF WriteActive, WriteRow
<1>9. CASE DeleteByUserId(r)
  <2>1. /\ requests[r].pc = "clear" /\ session' = NoSession /\ account' = account
    BY <1>9 DEF DeleteByUserId
  <2>2. CASE GoTo(r, "write") /\ requests[r].op = "reset"
    BY <2>1, <2>2, GoToSlot DEF Ending, Revokes, Holds
  <2>3. CASE Finish(r)
    BY <2>1, <2>3, FinishSlot DEF Ending, Revokes, Holds
  <2> QED
    BY <1>9, <2>2, <2>3 DEF DeleteByUserId
<1>10. CASE DeleteRow(r)
  <2>1. /\ At(r, "reset", "write") /\ session' = NoSession /\ Finish(r)
        /\ account' = [account EXCEPT !.present = FALSE]
    BY <1>10 DEF DeleteRow
  <2>2. ~Open(account')
    BY <1>1, <2>1 DEF Account, Open
  <2> QED
    BY <2>1, <2>2, FinishSlot DEF Ending, At, Revokes, Holds
<1>11. CASE Abandon(r)
  BY <1>2, <1>11 DEF Abandon, Read
<1>12. CASE WriteTemporaryPassword(r)
  BY <1>7, <1>12 DEF WriteTemporaryPassword, RevokingOps
<1>13. CASE WriteInactive(r)
  BY <1>7, <1>13 DEF WriteInactive, RevokingOps
<1>14. CASE WriteDeleted(r)
  BY <1>7, <1>14 DEF WriteDeleted, RevokingOps
<1>15. CASE WriteRestored(r)
  BY <1>7, <1>15 DEF WriteRestored, RevokingOps
<1>16. CASE WriteRoles(r)
  BY <1>7, <1>16 DEF WriteRoles, RevokingOps
<1> QED
  BY <1>3, <1>4, <1>5, <1>6, <1>8, <1>9, <1>10, <1>11, <1>12, <1>13, <1>14,
     <1>15, <1>16
  DEF Continue

-----------------------------------------------------------------------------
(* The invariant.                                                          *)

(* Equal fitness, spelled out. *)
LEMMA SameFitness ==
    ASSUME ~FitnessChanges
    PROVE  (Open(account') <=> Open(account)) /\ Credentials' = Credentials
<1>1. Open(account') = Open(account)
  BY DEF FitnessChanges, Fitness
<1>2. account'.grants = account.grants /\ account'.password = account.password
  BY DEF FitnessChanges, Fitness
<1> QED
  BY <1>1, <1>2 DEF Credentials

LEMMA SameSession ==
    ASSUME TypeOK, ~SessionChanges
    PROVE  (session'.exists <=> session.exists) /\ session'.origin = session.origin
<1>1. session'.exists = session.exists
  BY DEF SessionChanges
<1> QED
  BY <1>1 DEF SessionChanges

(* An unchanged row has the fitness it had, an unchanged session the state. *)
LEMMA UnchangedRows ==
    /\ account' = account => ~FitnessChanges
    /\ session' = session => ~SessionChanges
BY DEF FitnessChanges, SessionChanges

(* The history after a step, slot by slot. *)
LEMMA Remembered ==
    ASSUME NEW is \in BOOLEAN, session' \in Session, Remember(is)
    PROVE  /\ stray' <=> session'.exists /\ is
           /\ \A s \in Requests : overtaken'[s] <=> Overtaken(s)
           /\ HistoryTypeOK'
<1>1. /\ stray' = (session'.exists /\ is)
      /\ overtaken' = [s \in Requests |-> Overtaken(s)]
  BY DEF Remember
<1>2. \A s \in Requests : Overtaken(s) \in BOOLEAN
  BY DEF Overtaken
<1>3. stray' \in BOOLEAN
  BY <1>1 DEF Session
<1> HIDE DEF Overtaken
<1> QED
  BY <1>1, <1>2, <1>3 DEF HistoryTypeOK

(* A request that goes on as it was. *)
SameRequest(s) ==
    /\ requests'[s].op = requests[s].op
    /\ requests'[s].origin = requests[s].origin

LEMMA KeptFits ==
    ASSUME TypeOK, HistoryInv, NEW s \in Requests,
           SameRequest(s), Holds(s)' => Holds(s),
           overtaken'[s] <=> Overtaken(s)
    PROVE  LoginFits(s)' /\ RefreshFits(s)'
<1>1. LoginFits(s)'
  <2> SUFFICES ASSUME requests'[s].op = "login", Holds(s)', ~overtaken'[s]
               PROVE  Open(account') /\ requests'[s].origin = Credentials'
    BY DEF LoginFits
  <2>1. ~overtaken[s] /\ ~FitnessChanges
    BY DEF Overtaken, SameRequest
  <2> QED
    BY <2>1, SameFitness DEF HistoryInv, LoginFits, SameRequest
<1>2. RefreshFits(s)'
  <2> SUFFICES ASSUME requests'[s].op = "refresh", ~overtaken'[s]
               PROVE  /\ session'.exists /\ ~stray'
                      /\ session'.origin = requests'[s].origin
    BY DEF RefreshFits
  <2>1. ~overtaken[s] /\ ~SessionChanges /\ ~stray'
    BY DEF Overtaken, SameRequest
  <2> QED
    BY <2>1, SameSession DEF HistoryInv, RefreshFits, SameRequest
<1> QED
  BY <1>1, <1>2

(* The requests of other slots, in particular those about to revoke. *)
LEMMA OthersKept ==
    ASSUME NEW s \in Requests, Kept(s)
    PROVE  SameRequest(s) /\ (Holds(s)' <=> Holds(s)) /\ (Revokes(s)' <=> Revokes(s))
BY DEF Kept, SameRequest, Holds, Revokes

(* All that the invariant and the refinement use of a step of request r.   *)
RequestStep(r) ==
    /\ session' \in Session
    /\ \A s \in Requests \ {r} :
          SameRequest(s) /\ (Holds(s)' <=> Holds(s)) /\ (Revokes(s)' <=> Revokes(s))
    /\ \A s \in Requests : overtaken'[s] <=> Overtaken(s)
    /\ \/ Saving(r) /\ (stray' <=> overtaken[r])
       \/ /\ Revocation(r) \/ Ending(r) \/ Activation(r) \/ Quiet(r)
          /\ stray' <=> session'.exists /\ (stray \/ Revokes(r))

LEMMA RequestSteps ==
    ASSUME TypeOK, HistoryTypeOK, NEW r \in Requests, Arrive(r) \/ Continue(r),
           Remember(IF Saves(r) THEN overtaken[r] ELSE stray \/ Revokes(r))
    PROVE  RequestStep(r) /\ HistoryTypeOK'
<1> DEFINE is == IF Saves(r) THEN overtaken[r] ELSE stray \/ Revokes(r)
<1>1. StepShape(r)
  BY ArriveShape, ContinueShape
<1>2. \A s \in Requests \ {r} :
         SameRequest(s) /\ (Holds(s)' <=> Holds(s)) /\ (Revokes(s)' <=> Revokes(s))
  BY <1>1, OthersKept DEF StepShape
<1>3. is \in BOOLEAN
  BY DEF HistoryTypeOK, Revokes
<1>4. /\ stray' <=> session'.exists /\ is
      /\ \A s \in Requests : overtaken'[s] <=> Overtaken(s)
      /\ HistoryTypeOK'
  <2> HIDE DEF is
  <2>1. Remember(is)
    BY DEF is
  <2> QED
    BY <1>1, <1>3, <2>1, Remembered DEF StepShape
<1>5. CASE Saves(r)
  <2>1. Saving(r)
    BY <1>5, SavesEffect
  <2>2. stray' <=> overtaken[r]
    BY <1>4, <1>5, <2>1 DEF Saving
  <2> QED
    BY <1>1, <1>2, <1>4, <2>1, <2>2 DEF RequestStep, StepShape
<1>6. CASE ~Saves(r)
  <2>1. Revocation(r) \/ Ending(r) \/ Activation(r) \/ Quiet(r)
    BY <1>6, ArriveEffect, ContinueEffect
  <2>2. stray' <=> session'.exists /\ (stray \/ Revokes(r))
    BY <1>4, <1>6
  <2> QED
    BY <1>1, <1>2, <1>4, <2>1, <2>2 DEF RequestStep, StepShape
<1> QED
  BY <1>5, <1>6

(* What the slot of r knows after its own step. *)
LEMMA OwnFits ==
    ASSUME TypeOK, HistoryInv, NEW r \in Requests, RequestStep(r)
    PROVE  LoginFits(r)' /\ RefreshFits(r)'
<1>1. overtaken'[r] <=> Overtaken(r)
  BY DEF RequestStep
<1>2. CASE requests'[r].op \notin {"login", "refresh"}
  BY <1>2 DEF LoginFits, RefreshFits
<1>3. CASE SameRequest(r) /\ (Holds(r)' => Holds(r))
  BY <1>1, <1>3, KeptFits
<1>4. CASE Quiet(r) /\ requests'[r].op = "login"
  <2>1. Open(account') /\ requests'[r].origin = Credentials'
    BY <1>4 DEF Quiet, Credentials
  <2> QED
    BY <1>4, <2>1 DEF LoginFits, RefreshFits
<1>5. CASE Quiet(r) /\ requests'[r].op = "refresh" /\ requests[r].op = "refresh"
                    /\ requests'[r].origin = requests[r].origin
  <2>1. RefreshFits(r)'
    <3> SUFFICES ASSUME ~overtaken'[r]
                 PROVE  /\ session'.exists /\ ~stray'
                        /\ session'.origin = requests'[r].origin
      BY DEF RefreshFits
    <3>1. ~overtaken[r] /\ ~stray' /\ session' = session
      BY <1>1, <1>5 DEF Overtaken, Quiet
    <3> QED
      BY <1>5, <3>1 DEF HistoryInv, RefreshFits
  <2> QED
    BY <1>5, <2>1 DEF LoginFits
<1>6. CASE Quiet(r) /\ requests'[r].op = "refresh"
                    /\ session.exists /\ requests'[r].origin = session.origin
  <2>1. overtaken'[r] \/ ~stray'
    BY <1>1, <1>6 DEF Overtaken
  <2> QED
    BY <1>6, <2>1 DEF LoginFits, RefreshFits, Quiet
<1>7. CASE Saving(r) \/ Activation(r)
  BY <1>2, <1>7 DEF Saving, Activation
<1>8. CASE Revocation(r)
  BY <1>2, <1>8 DEF Revocation, Revokes, RevokingOps
<1>9. CASE Ending(r)
  BY <1>2, <1>3, <1>9 DEF Ending, SameRequest
<1> QED
  BY <1>2, <1>4, <1>5, <1>6, <1>7, <1>8, <1>9 DEF RequestStep, Quiet

(* As long as r itself does not, the same requests are about to revoke. *)
LEMMA RevokingKept ==
    ASSUME NEW r \in Requests, RequestStep(r)
    PROVE  /\ Revokes(r)' => Revoking'
           /\ ~Revokes(r) /\ ~Revoking' => ~Revoking
           /\ ~Revokes(r)' /\ ~Revoking => ~Revoking'
BY DEF Revoking, RequestStep

LEMMA RequestStepFits ==
    ASSUME TypeOK, HistoryInv, NEW r \in Requests, RequestStep(r)
    PROVE  HistoryInv'
<1>1. \A s \in Requests : LoginFits(s)' /\ RefreshFits(s)'
  <2>1. \A s \in Requests \ {r} : LoginFits(s)' /\ RefreshFits(s)'
    BY KeptFits DEF RequestStep
  <2> QED
    BY <2>1, OwnFits
<1>2. SessionFitsUnlessStray'
  <2> SUFFICES ASSUME session'.exists, ~stray', ~Revoking'
               PROVE  Open(account') /\ session'.origin = Credentials'
    BY DEF SessionFitsUnlessStray
  <2>1. CASE Saving(r) /\ ~overtaken[r] /\ requests[r].op = "login"
    BY <2>1 DEF Saving, HistoryInv, LoginFits, Holds, Credentials
  <2>2. CASE Saving(r) /\ ~overtaken[r] /\ requests[r].op = "refresh"
    <3>1. ~Revoking
      BY <2>2, RevokingKept DEF Saving, Revokes
    <3>2. session.exists /\ ~stray /\ session.origin = requests[r].origin
      BY <2>2 DEF HistoryInv, RefreshFits
    <3> QED
      BY <2>2, <3>1, <3>2 DEF Saving, HistoryInv, SessionFitsUnlessStray, Credentials
  <2>3. CASE /\ Revocation(r) \/ Ending(r) \/ Activation(r) \/ Quiet(r)
             /\ ~stray /\ ~Revokes(r)
    <3>1. ~Revoking
      BY <2>3, RevokingKept
    <3>2. ~Revocation(r)
      BY RevokingKept DEF Revocation
    <3>3. ~Ending(r)
      BY DEF Ending, NoSession
    <3>4. session' = session
      BY <2>3, <3>2, <3>3 DEF Activation, Quiet
    <3>5. Open(account) /\ session.origin = Credentials
      BY <2>3, <3>1, <3>4 DEF HistoryInv, SessionFitsUnlessStray
    <3>6. Open(account') /\ Credentials' = Credentials
      BY <2>3, <3>2, <3>3, <3>5 DEF Activation, Quiet, Credentials, TypeOK, Account, Open
    <3> QED
      BY <3>4, <3>5, <3>6
  <2> QED
    BY <2>1, <2>2, <2>3 DEF RequestStep, Saving
<1> QED
  BY <1>1, <1>2 DEF HistoryInv

(* The steps beside the requests. *)
OtherStep ==
    /\ session' \in Session
    /\ \A s \in Requests :
          SameRequest(s) /\ (Holds(s)' <=> Holds(s)) /\ (Revokes(s)' <=> Revokes(s))
    /\ \A s \in Requests : overtaken'[s] <=> Overtaken(s)
    /\ ~SessionChanges
    /\ stray' <=> session'.exists /\ (stray \/ FitnessChanges)

LEMMA OtherSteps ==
    ASSUME TypeOK, HistoryTypeOK,
           \/ (Seed \/ ChangeCatalog) /\ Remember(stray \/ FitnessChanges)
           \/ (SessionExpires \/ Tick) /\ Remember(stray)
    PROVE  OtherStep /\ HistoryTypeOK'
<1>1. CASE (Seed \/ ChangeCatalog) /\ Remember(stray \/ FitnessChanges)
  <2>1. (stray \/ FitnessChanges) \in BOOLEAN
    BY DEF HistoryTypeOK, FitnessChanges
  <2>2. session' = session /\ session' \in Session /\ \A s \in Requests : Kept(s)
    BY <1>1, SurroundingsShape DEF TypeOK
  <2>3. /\ stray' <=> session'.exists /\ (stray \/ FitnessChanges)
        /\ \A s \in Requests : overtaken'[s] <=> Overtaken(s)
        /\ HistoryTypeOK'
    <3> DEFINE is == stray \/ FitnessChanges
    <3>1. is \in BOOLEAN /\ Remember(is)
      BY <1>1, <2>1
    <3> HIDE DEF is
    <3>2. /\ stray' <=> session'.exists /\ is
          /\ \A s \in Requests : overtaken'[s] <=> Overtaken(s)
          /\ HistoryTypeOK'
      BY <2>2, <3>1, Remembered
    <3> QED
      BY <3>2 DEF is
  <2> QED
    BY <2>2, <2>3, OthersKept, UnchangedRows DEF OtherStep
<1>2. CASE (SessionExpires \/ Tick) /\ Remember(stray)
  <2>1. /\ UNCHANGED <<account, requests>> /\ session' \in Session
        /\ session'.exists = session.exists /\ session'.origin = session.origin
    BY <1>2 DEF SessionExpires, Tick, TypeOK, Session
  <2>2. /\ stray' <=> session'.exists /\ stray
        /\ \A s \in Requests : overtaken'[s] <=> Overtaken(s)
        /\ HistoryTypeOK'
    BY <1>2, <2>1, Remembered DEF HistoryTypeOK
  <2>3. ~FitnessChanges /\ ~SessionChanges
    BY <2>1, UnchangedRows DEF SessionChanges
  <2>4. \A s \in Requests :
           SameRequest(s) /\ (Holds(s)' <=> Holds(s)) /\ (Revokes(s)' <=> Revokes(s))
    BY <2>1 DEF SameRequest, Holds, Revokes
  <2> QED
    BY <2>1, <2>2, <2>3, <2>4 DEF OtherStep
<1> QED
  BY <1>1, <1>2

LEMMA OtherStepFits ==
    ASSUME TypeOK, HistoryInv, OtherStep
    PROVE  HistoryInv'
<1>1. \A s \in Requests : LoginFits(s)' /\ RefreshFits(s)'
  BY KeptFits DEF OtherStep
<1>2. Revoking' <=> Revoking
  BY DEF Revoking, OtherStep
<1>3. SessionFitsUnlessStray'
  <2> SUFFICES ASSUME session'.exists, ~stray', ~Revoking'
               PROVE  Open(account') /\ session'.origin = Credentials'
    BY DEF SessionFitsUnlessStray
  <2>1. ~stray /\ ~FitnessChanges /\ ~SessionChanges
    BY DEF OtherStep
  <2> QED
    BY <1>2, <2>1, SameFitness, SameSession DEF HistoryInv, SessionFitsUnlessStray
<1> QED
  BY <1>1, <1>3 DEF HistoryInv

(* A step of the specification with its history. *)
LEMMA HistorySteps ==
    ASSUME TypeOK, HistoryTypeOK, HistoryNext
    PROVE  /\ HistoryTypeOK'
           /\ OtherStep \/ \E r \in Requests : RequestStep(r)
BY RequestSteps, OtherSteps DEF HistoryNext

LEMMA HistoryKeeps ==
    TypeOK /\ HistoryTypeOK /\ HistoryInv /\ [HistoryNext]_historyVars
       => HistoryTypeOK' /\ HistoryInv'
<1> SUFFICES ASSUME TypeOK, HistoryTypeOK, HistoryInv, [HistoryNext]_historyVars
             PROVE  HistoryTypeOK' /\ HistoryInv'
  OBVIOUS
<1>1. CASE HistoryNext
  BY <1>1, HistorySteps, RequestStepFits, OtherStepFits
<1>2. CASE UNCHANGED historyVars
  BY <1>2
  DEF historyVars, HistoryTypeOK, HistoryInv, LoginFits, RefreshFits, Holds,
      SessionFitsUnlessStray, Revoking, Revokes, Credentials
<1> QED
  BY <1>1, <1>2

LEMMA HistoryBegins == HistoryInit => HistoryTypeOK /\ HistoryInv
<1> SUFFICES ASSUME HistoryInit PROVE HistoryTypeOK /\ HistoryInv
  OBVIOUS
<1>1. \A r \in Requests : requests[r].op = "none" /\ requests[r].pc = "idle"
  BY DEF HistoryInit, Init, IdleSlot, NewRequest
<1>2. ~session.exists
  BY DEF HistoryInit, Init, NoSession
<1> QED
  BY <1>1, <1>2
  DEF HistoryInit, HistoryTypeOK, HistoryInv, LoginFits, RefreshFits,
      SessionFitsUnlessStray

(* The history only adds to AuthSessions: what is proved of its            *)
(* specification holds of this one.                                        *)
THEOREM HistoryImplementsSpec == HistorySpec => Spec
<1>1. HistoryInit => Init
  BY DEF HistoryInit
<1>2. [HistoryNext]_historyVars => [Next]_vars
  BY DEF HistoryNext, Next, historyVars, vars
<1> QED
  BY <1>1, <1>2, PTL DEF HistorySpec, Spec

(* The invariant the two theorems below are read off from. *)
THEOREM HistoryInvariant == HistorySpec => [](HistoryTypeOK /\ HistoryInv)
BY HistoryBegins, HistoryKeeps, HistoryImplementsSpec, TypeCorrect, PTL
DEF HistorySpec

(* However many requests overlap and wherever they fail, a session that    *)
(* does not fit its account is about to be deleted or is a stray one.      *)
THEOREM SessionFitsUnlessStrayHolds == HistorySpec => []SessionFitsUnlessStray
<1>1. HistoryInv => SessionFitsUnlessStray
  BY DEF HistoryInv
<1> QED
  BY <1>1, HistoryInvariant, PTL

-----------------------------------------------------------------------------
(* The refinement.                                                         *)

(* Of the other slots, the sign-ins that are pending are the same ones     *)
(* unless the account changes.                                             *)
LEMMA OthersPending ==
    ASSUME NEW s \in Requests, SameRequest(s), Holds(s)' <=> Holds(s),
           overtaken'[s] <=> Overtaken(s)
    PROVE  /\ FitnessChanges => s \notin Pending'
           /\ ~FitnessChanges => (s \in Pending' <=> s \in Pending)
BY DEF Pending, Overtaken, SameRequest

LEMMA PendingAfter ==
    ASSUME NEW r \in Requests, RequestStep(r), ~FitnessChanges
    PROVE  /\ r \in Pending' => Pending' = Pending \cup {r}
           /\ r \notin Pending' => Pending' = Pending \ {r}
<1>1. Pending \subseteq Requests /\ Pending' \subseteq Requests
  BY DEF Pending
<1>2. \A s \in Requests \ {r} : s \in Pending' <=> s \in Pending
  BY OthersPending DEF RequestStep
<1> HIDE DEF Pending
<1> QED
  BY <1>1, <1>2

(* The session that counts, if any, fits the account. *)
LEMMA CountsFits ==
    ASSUME SessionFitsUnlessStray
    PROVE  Counts => Open(account) /\ Valid = {Credentials}
BY DEF SessionFitsUnlessStray, Counts, Valid

(* A change of the account leaves nothing that counts, and no sign-in that *)
(* is pending.                                                             *)
LEMMA ChangeRevokes ==
    ASSUME TypeOK, HistoryInv, FitnessChanges,
           OtherStep \/ \E r \in Requests : RequestStep(r)
    PROVE  ~Counts' /\ Pending' = {}
<1>1. CASE OtherStep
  <2>1. Pending' = {}
    BY <1>1, OthersPending DEF OtherStep, Pending
  <2> QED
    BY <1>1, <2>1 DEF OtherStep, Counts
<1>2. ASSUME NEW r \in Requests, RequestStep(r)
      PROVE  ~Counts' /\ Pending' = {}
  <2>1. ~Saving(r) /\ ~Quiet(r)
    BY UnchangedRows DEF Saving, Quiet
  <2>2. r \notin Pending'
    BY <1>2, <2>1, UnchangedRows
    DEF RequestStep, Pending, Revocation, Revokes, RevokingOps, Ending, Activation
  <2>3. \A s \in Requests \ {r} : s \notin Pending'
    BY <1>2, OthersPending DEF RequestStep
  <2>4. Pending' = {}
    BY <2>2, <2>3 DEF Pending
  <2>5. CASE Revocation(r)
    BY <1>2, <2>4, <2>5, RevokingKept DEF Revocation, Counts
  <2>6. CASE Ending(r)
    BY <2>4, <2>6 DEF Ending, NoSession, Counts
  <2>7. CASE Activation(r)
    <3> SUFFICES ASSUME Counts' PROVE FALSE
      BY <2>4
    <3>1. session.exists /\ ~stray /\ ~Revoking
      BY <1>2, <2>1, <2>7, RevokingKept DEF Counts, Activation, RequestStep
    <3>2. account.active = TRUE /\ account \in Account
      BY <3>1 DEF HistoryInv, SessionFitsUnlessStray, Open, TypeOK, Account
    <3>3. account' = account
      BY <2>7, <3>2 DEF Activation, Account
    <3> QED
      BY <3>3, UnchangedRows
  <2> QED
    BY <1>2, <2>1, <2>4, <2>5, <2>6, <2>7 DEF RequestStep
<1> QED
  BY <1>1, <1>2

(* Without one, only a sign-in that is pending makes a session count.      *)
LEMMA OnlySignInOpens ==
    ASSUME TypeOK, HistoryInv, HistoryInv', ~FitnessChanges,
           NEW r \in Requests, RequestStep(r)
    PROVE  \/ Valid' = Valid
           \/ Valid' = {} /\ Pending' = Pending
           \/ r \in Pending /\ r \notin Pending' /\ Valid' = {Credentials'}
<1>1. CASE Saving(r) /\ (stray' <=> overtaken[r])
  <2>1. r \notin Pending'
    BY <1>1 DEF Pending, Saving
  <2>2. CASE overtaken[r]
    <3>1. r \notin Pending /\ ~Counts'
      BY <1>1, <2>2 DEF Pending, Counts
    <3> QED
      BY <2>1, <3>1, PendingAfter DEF Valid
  <2>3. CASE ~overtaken[r] /\ requests[r].op = "login"
    <3>1. r \in Pending
      BY <1>1, <2>3 DEF Pending, Saving, Holds
    <3>2. CASE Counts'
      <4>1. session'.origin = Credentials'
        BY <3>2 DEF HistoryInv, SessionFitsUnlessStray, Counts
      <4> QED
        BY <2>1, <3>1, <3>2, <4>1 DEF Valid
    <3>3. CASE ~Counts'
      <4>1. Revoking' /\ ~Revokes(r)'
        BY <1>1, <2>3, <3>3 DEF Counts, Saving, Revokes, RevokingOps
      <4>2. Revoking
        BY <4>1, RevokingKept
      <4> QED
        BY <3>3, <4>2 DEF Valid, Counts
    <3> QED
      BY <3>2, <3>3
  <2>4. CASE ~overtaken[r] /\ requests[r].op = "refresh"
    <3>1. session.exists /\ ~stray /\ session.origin = requests[r].origin
      BY <2>4 DEF HistoryInv, RefreshFits
    <3>2. Revoking' <=> Revoking
      BY <1>1, RevokingKept DEF Saving, Revokes, RevokingOps
    <3>3. (Counts' <=> Counts) /\ session'.origin = session.origin
      BY <1>1, <2>4, <3>1, <3>2 DEF Counts, Saving
    <3> QED
      BY <3>3 DEF Valid
  <2> QED
    BY <1>1, <2>2, <2>3, <2>4 DEF Saving
<1>2. CASE Revocation(r)
  <2>1. ~Counts' /\ r \notin Pending /\ r \notin Pending'
    BY <1>2, RevokingKept DEF Revocation, Revokes, RevokingOps, Counts, Pending
  <2> QED
    BY <2>1, PendingAfter DEF Valid
<1>3. CASE Ending(r)
  <2>1. ~Counts'
    BY <1>3 DEF Ending, NoSession, Counts
  <2>2. r \in Pending' <=> r \in Pending
    BY <1>3 DEF Ending, Pending, RequestStep, Overtaken
  <2>3. Pending' = Pending
    BY <2>2, PendingAfter
  <2> QED
    BY <2>1, <2>3 DEF Valid
<1>4. CASE /\ Activation(r) \/ Quiet(r)
           /\ stray' <=> session'.exists /\ (stray \/ Revokes(r))
  <2>1. session' = session /\ ~Revokes(r)'
    BY <1>4 DEF Activation, Quiet, Revokes, RevokingOps
  <2>2. Revokes(r) => ~Counts /\ ~Counts'
    BY <1>4, <2>1 DEF Counts, Revoking
  <2>3. ~Revokes(r) => (Counts' <=> Counts)
    BY <1>4, <2>1, RevokingKept DEF Counts
  <2> QED
    BY <2>1, <2>2, <2>3 DEF Valid
<1> QED
  BY <1>1, <1>2, <1>3, <1>4 DEF RequestStep

(* The variables of Store, for every step. *)
LEMMA StoreStep ==
    ASSUME TypeOK, TypeOK', HistoryInv, HistoryInv',
           OtherStep \/ \E r \in Requests : RequestStep(r)
    PROVE  [Store!Next]_<<Open(account), Credentials, Valid, Pending>>
<1>1. CASE FitnessChanges
  <2>1. Valid' = {} /\ Pending' = {}
    BY <1>1, ChangeRevokes DEF Valid
  <2>2. Open(account') \in BOOLEAN /\ Credentials' \in Origin
    BY DEF TypeOK, Account, Open, Credentials, Origin
  <2>3. Store!ChangeAccount
    BY <2>1, <2>2 DEF Store!ChangeAccount, Valid, Counts, Pending
  <2> QED
    BY <2>3 DEF Store!Next
<1>2. CASE ~FitnessChanges
  <2>1. UNCHANGED <<Open(account), Credentials>>
    BY <1>2, SameFitness DEF TypeOK, Account, Open
  <2>2. CASE OtherStep
    <3>1. Pending' = Pending
      BY <1>2, <2>2, OthersPending DEF OtherStep, Pending
    <3>2. Revoking' <=> Revoking
      BY <2>2 DEF OtherStep, Revoking
    <3>3. (Counts' <=> Counts) /\ session'.origin = session.origin
      BY <1>2, <2>2, <3>2, SameSession DEF OtherStep, Counts
    <3> QED
      BY <2>1, <3>1, <3>3 DEF Valid
  <2>3. ASSUME NEW r \in Requests, RequestStep(r)
        PROVE  [Store!Next]_<<Open(account), Credentials, Valid, Pending>>
    <3>1. CASE Valid' = Valid /\ r \in Pending'
      <4>1. Pending' = Pending \cup {r}
        BY <1>2, <2>3, <3>1, PendingAfter
      <4>2. Open(account)
        BY <2>1, <3>1 DEF Pending, HistoryInv, LoginFits
      <4>3. Store!BeginSignIn(r)
        BY <2>1, <3>1, <4>1, <4>2 DEF Store!BeginSignIn, Valid, Counts, Pending
      <4> QED
        BY <4>3 DEF Store!Next
    <3>2. CASE Valid' = Valid /\ r \notin Pending'
      <4>1. Pending' = Pending \ {r}
        BY <1>2, <2>3, <3>2, PendingAfter
      <4>2. Store!GiveUp(r)
        BY <2>1, <3>2, <4>1 DEF Store!GiveUp, Valid, Counts, Pending
      <4> QED
        BY <4>2 DEF Store!Next
    <3>3. CASE Valid' = {} /\ Pending' = Pending
      <4>1. Store!SignOut
        BY <2>1, <3>3 DEF Store!SignOut, Valid, Counts, Pending
      <4> QED
        BY <4>1 DEF Store!Next
    <3>4. CASE r \in Pending /\ r \notin Pending' /\ Valid' = {Credentials'}
      <4>1. Pending' = Pending \ {r}
        BY <1>2, <2>3, <3>4, PendingAfter
      <4>2. Store!SignIn(r)
        BY <2>1, <3>4, <4>1 DEF Store!SignIn, Valid, Counts, Pending
      <4> QED
        BY <4>2 DEF Store!Next
    <3> QED
      BY <1>2, <2>3, <3>1, <3>2, <3>3, <3>4, OnlySignInOpens
  <2> QED
    BY <2>2, <2>3
<1> QED
  BY <1>1, <1>2

LEMMA StoreBegins == HistoryInit => Store!Init
<1> SUFFICES ASSUME HistoryInit PROVE Store!Init
  OBVIOUS
<1>1. TypeOK /\ ~session.exists
  BY InitKeeps DEF HistoryInit, Init, NoSession
<1>2. Open(account) \in BOOLEAN /\ Credentials \in Origin
  BY <1>1 DEF TypeOK, Account, Open, Credentials, Origin
<1>3. \A r \in Requests : requests[r].op = "none"
  BY DEF HistoryInit, Init, IdleSlot, NewRequest
<1> QED
  BY <1>1, <1>2, <1>3 DEF Store!Init

(* With any number of requests in flight and any failures, the sessions    *)
(* that are not stray are those of a store that changes the account and    *)
(* ends its session in one step, and that only a sign-in which has seen    *)
(* the account as it is opens a session of.                                *)
THEOREM RevokesAtOnceHolds == HistorySpec => RevokesAtOnce
<1>1. (/\ TypeOK /\ TypeOK' /\ HistoryTypeOK /\ HistoryInv /\ HistoryInv'
       /\ [HistoryNext]_historyVars)
        => [Store!Next]_<<Open(account), Credentials, Valid, Pending>>
  <2> SUFFICES ASSUME TypeOK, TypeOK', HistoryTypeOK, HistoryInv, HistoryInv',
                      [HistoryNext]_historyVars
               PROVE  [Store!Next]_<<Open(account), Credentials, Valid, Pending>>
    OBVIOUS
  <2>1. CASE UNCHANGED historyVars
    <3>1. UNCHANGED <<Open(account), Credentials, Valid, Pending>>
      BY <2>1
      DEF historyVars, Open, Credentials, Valid, Counts, Pending, Revoking,
          Revokes, Holds
    <3> QED
      BY <3>1
  <2>2. CASE HistoryNext
    BY <2>2, HistorySteps, StoreStep
  <2> QED
    BY <2>1, <2>2
<1>2. (/\ TypeOK /\ TypeOK' /\ HistoryTypeOK /\ HistoryInv /\ HistoryInv'
       /\ [HistoryNext]_historyVars)
        => [Store!Next]_<<Open(account), Credentials,
                          IF session.exists /\ ~stray /\ ~Revoking
                            THEN {session.origin} ELSE {},
                          {r \in Requests : requests[r].op = "login" /\ Holds(r)
                                              /\ ~overtaken[r]}>>
  BY <1>1 DEF Valid, Counts, Pending
<1> QED
  BY <1>2, StoreBegins, HistoryInvariant, HistoryImplementsSpec, TypeCorrect, PTL
  DEF HistorySpec, RevokesAtOnce, Store!Spec
=============================================================================
