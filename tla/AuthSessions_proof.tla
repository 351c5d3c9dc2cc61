------------------------- MODULE AuthSessions_proof -------------------------
(* Theorems about AuthSessions, for every set of permissions, passwords    *)
(* and requests, and every lifetime of the tokens.                         *)
EXTENDS AuthSessions, TLAPS

-----------------------------------------------------------------------------
(* Slots.                                                                  *)

Slots == [Requests -> Request]

(* Raising the history flag touches no other field. *)
LEMMA FlagOnly ==
    ASSUME NEW q \in Request, NEW b \in BOOLEAN
    PROVE  LET p == [q EXCEPT !.late = b] IN
           /\ p \in Request
           /\ p.pc = q.pc /\ p.op = q.op
           /\ p.grants = q.grants /\ p.mustChange = q.mustChange
           /\ p.password = q.password /\ p.origin = q.origin
           /\ (p.late <=> b)
BY DEF Request

(* What a step leaves of the slot s of another request. *)
Kept(s) ==
    /\ requests'[s].pc = requests[s].pc
    /\ requests'[s].op = requests[s].op
    /\ requests'[s].grants = requests[s].grants
    /\ requests'[s].mustChange = requests[s].mustChange
    /\ requests'[s].password = requests[s].password
    /\ requests'[s].origin = requests[s].origin
    /\ requests[s].late => requests'[s].late
    /\ Holds(s) => requests'[s].late \/ Standing(account') = Standing(account)

(* Marking a slot keeps its request. *)
LEMMA MarkSlots ==
    ASSUME NEW s \in Requests, requests \in Slots, requests'[s] = Mark(s)
    PROVE  requests'[s] \in Request /\ Kept(s)
<1> DEFINE q == requests[s]
           flag == q.late \/ (Holds(s) /\ Standing(account') # Standing(account))
<1>1. q \in Request /\ flag \in BOOLEAN
  BY DEF Slots, Request
<1>2. requests'[s] = [q EXCEPT !.late = flag]
  BY DEF Mark
<1>3. /\ q.late => flag
      /\ Holds(s) => flag \/ Standing(account') = Standing(account)
  OBVIOUS
<1> HIDE DEF flag
<1> QED
  BY <1>1, <1>2, <1>3, FlagOnly DEF Kept

(* A step of r puts req in its slot and keeps the requests in the others. *)
LEMMA AdvanceSlots ==
    ASSUME NEW r \in Requests, NEW req \in Request,
           requests \in Slots, Advance(r, req)
    PROVE  /\ requests' \in Slots
           /\ requests'[r] = req
           /\ \A s \in Requests \ {r} : Kept(s)
<1>1. requests' = [s \in Requests |-> IF s = r THEN req ELSE Mark(s)]
  BY DEF Advance
<1>2. \A s \in Requests \ {r} : requests'[s] = Mark(s)
  BY <1>1
<1>3. \A s \in Requests \ {r} : requests'[s] \in Request /\ Kept(s)
  BY <1>2, MarkSlots
<1>4. \A s \in Requests : (IF s = r THEN req ELSE Mark(s)) \in Request
  BY <1>2, <1>3
<1> QED
  BY <1>1, <1>3, <1>4 DEF Slots

(* A new request, before it has read anything. *)
LEMMA NewRequestType ==
    ASSUME NEW op \in AllOps \cup {"none"},
           NEW pc \in {"idle", "user", "issue", "save", "write", "clear"}
    PROVE  NewRequest(op, pc) \in Request
BY ConstantsAssumption DEF NewRequest, Request, NoOrigin, Origin, Passwords

(* Moving on changes the program counter only. *)
LEMMA PcOnly ==
    ASSUME NEW q \in Request,
           NEW pc \in {"idle", "user", "issue", "save", "write", "clear"}
    PROVE  LET p == [q EXCEPT !.pc = pc] IN
           /\ p \in Request
           /\ p.pc = pc /\ p.op = q.op
           /\ p.grants = q.grants /\ p.mustChange = q.mustChange
           /\ p.password = q.password /\ p.origin = q.origin
           /\ (p.late <=> q.late)
BY DEF Request

(* A reading of the access profile is one of the account as it is. *)
LEMMA ProfileRead ==
    ASSUME NEW q \in Request, account \in Account
    PROVE  LET p == WithProfile(q) IN
           /\ p \in Request
           /\ p.pc = q.pc /\ p.op = q.op /\ (p.late <=> q.late)
           /\ p.grants = account.grants
           /\ (p.mustChange <=> account.mustChange)
           /\ p.password = account.password /\ p.origin = q.origin
BY DEF WithProfile, Request, Account

(* Where the account is now. *)
OriginNow == [password |-> account.password, grants |-> account.grants]

-----------------------------------------------------------------------------
(* What each kind of step does, for the proofs below.                      *)

(* Slot r ends up idle, or with a request that holds no reading, or with a *)
(* reading made just now of an open account, or with the one it had.       *)
SlotAfter(r) ==
    \/ ~Holds(r)'
    \/ /\ account' = account /\ Open(account)
       /\ requests'[r].grants = account.grants
       /\ requests'[r].mustChange <=> account.mustChange
       /\ requests'[r].password = account.password
    \/ /\ account' = account /\ Holds(r)
       /\ requests'[r].grants = requests[r].grants
       /\ requests'[r].mustChange <=> requests[r].mustChange
       /\ requests'[r].password = requests[r].password
       /\ requests'[r].late <=> requests[r].late

(* A write of the row keeps a temporary password behind its flag. *)
RowAfter ==
    /\ account' \in Account
    /\ account'.present => account.present
    /\ \/ account' = account
       \/ account'.password = "temporary" =>
             account'.mustChange \/ (/\ account.password = "temporary"
                                     /\ account'.mustChange = account.mustChange)

(* Only a token on the reading r holds is issued, and then on its own. *)
TokensAfter(r) ==
    \/ accessTokens' = accessTokens
    \/ /\ Holds(r) /\ account' = account
       /\ accessTokens' = accessTokens \cup {TokenOf(r)}

StepShape(r) ==
    /\ requests' \in Slots
    /\ \A s \in Requests \ {r} : Kept(s)
    /\ SlotAfter(r)
    /\ RowAfter
    /\ TokensAfter(r)
    /\ session' \in Session
    /\ session'.exists => account'.present
    /\ Age

(* A request arrives: nothing but its slot changes. *)
LEMMA ArriveShape ==
    ASSUME TypeOK, NEW r \in Requests, Arrive(r)
    PROVE  /\ StepShape(r)
           /\ requests[r].pc = "idle"
           /\ UNCHANGED <<account, session, accessTokens>>
           /\ requests'[r].op \in Ops
<1> DEFINE Begins(req) == /\ req \in Request
                          /\ req.op \in Ops
                          /\ \/ req.pc \in {"user", "write", "clear"}
                             \/ /\ Open(account)
                                /\ req.grants = account.grants
                                /\ req.mustChange <=> account.mustChange
                                /\ req.password = account.password
<1>1. /\ requests \in Slots /\ account \in Account /\ session \in Session
      /\ session.exists => account.present
  BY DEF TypeOK, Slots
<1>2. ASSUME NEW op, NEW req, Start(r, op, req), Begins(req)
      PROVE  /\ StepShape(r)
             /\ requests[r].pc = "idle"
             /\ UNCHANGED <<account, session, accessTokens>>
             /\ requests'[r].op \in Ops
  <2>1. Advance(r, req) /\ UNCHANGED <<account, session, accessTokens>>
    BY <1>2 DEF Start, Read
  <2>2. /\ requests' \in Slots /\ requests'[r] = req
        /\ \A s \in Requests \ {r} : Kept(s)
    BY <1>1, <1>2, <2>1, AdvanceSlots
  <2>3. SlotAfter(r)
    BY <1>2, <2>1, <2>2 DEF SlotAfter, Holds
  <2> QED
    BY <1>1, <1>2, <2>1, <2>2, <2>3 DEF StepShape, RowAfter, TokensAfter, Advance, Start
<1>3. ASSUME NEW op \in AllOps, NEW pc \in {"user", "write", "clear"},
             op \in Ops
      PROVE  Begins(NewRequest(op, pc))
  BY <1>3, NewRequestType DEF NewRequest
<1>4. CASE Login(r)
  <2> DEFINE q == WithProfile(NewRequest("login", "issue"))
             req == [q EXCEPT !.origin = OriginNow]
  <2>1. NewRequest("login", "issue") \in Request
    BY NewRequestType DEF AllOps
  <2>2. /\ q \in Request /\ q.op = "login" /\ q.pc = "issue"
        /\ q.grants = account.grants /\ (q.mustChange <=> account.mustChange)
        /\ q.password = account.password
    BY <1>1, <2>1, ProfileRead DEF NewRequest
  <2>3. Start(r, "login", req) /\ Open(account)
    BY <1>4 DEF Login, OriginNow
  <2>4. OriginNow \in Origin
    BY <1>1 DEF OriginNow, Origin, Account
  <2> HIDE DEF q
  <2>5. Begins(req)
    BY <2>2, <2>3, <2>4 DEF Request, Start
  <2> HIDE DEF req, Begins
  <2> QED
    BY <1>2, <2>3, <2>5
<1>5. CASE Refresh(r)
  <2> DEFINE q == NewRequest("refresh", "user")
             req == [q EXCEPT !.origin = session.origin]
  <2>1. Start(r, "refresh", req)
    BY <1>5 DEF Refresh
  <2>2. q \in Request /\ q.op = "refresh" /\ q.pc = "user" /\ "refresh" \in Ops
    BY <2>1, NewRequestType DEF AllOps, NewRequest, Start
  <2>3. session.origin \in Origin
    BY <1>1 DEF Session
  <2> HIDE DEF q
  <2>4. Begins(req)
    BY <2>2, <2>3 DEF Request
  <2> HIDE DEF req, Begins
  <2> QED
    BY <1>2, <2>1, <2>4
<1>6. CASE ChangePassword(r)
  <2> DEFINE q == NewRequest("changePassword", "write")
             req == [q EXCEPT !.password = account.password]
  <2>1. Start(r, "changePassword", req)
    BY <1>6 DEF ChangePassword
  <2>2. /\ q \in Request /\ q.op = "changePassword" /\ q.pc = "write"
        /\ "changePassword" \in Ops
    BY <2>1, NewRequestType DEF AllOps, NewRequest, Start
  <2>3. account.password \in Passwords
    BY <1>1 DEF Account
  <2> HIDE DEF q
  <2>4. Begins(req)
    BY <2>2, <2>3 DEF Request
  <2> HIDE DEF req, Begins
  <2> QED
    BY <1>2, <2>1, <2>4
<1>7. ASSUME NEW op \in AllOps, NEW pc \in {"user", "write", "clear"},
             Start(r, op, NewRequest(op, pc))
      PROVE  /\ StepShape(r)
             /\ requests[r].pc = "idle"
             /\ UNCHANGED <<account, session, accessTokens>>
             /\ requests'[r].op \in Ops
  <2>1. op \in Ops
    BY <1>7 DEF Start
  <2>2. Begins(NewRequest(op, pc))
    BY <1>3, <2>1
  <2> HIDE DEF Begins
  <2> QED
    BY <1>2, <1>7, <2>2
<1> HIDE DEF Begins
<1> QED
  BY <1>4, <1>5, <1>6, <1>7
  DEF Arrive, Logout, ResetPassword, Activate, Deactivate, Delete, Restore,
      UpdateRoles, ResetAccount, AllOps

(* A step that ends with slot r at another pc or idle, and whose effect on *)
(* the rows is known.                                                      *)
LEMMA MoveShape ==
    ASSUME TypeOK, NEW r \in Requests,
           NEW pc \in {"idle", "user", "issue", "save", "write", "clear"},
           GoTo(r, pc) \/ Finish(r),
           pc \notin {"issue", "save"} \/ (Holds(r) /\ account' = account),
           RowAfter, TokensAfter(r),
           session' \in Session, session'.exists => account'.present
    PROVE  /\ StepShape(r)
           /\ \/ requests'[r] = IdleSlot
              \/ /\ requests'[r].pc = pc
                 /\ requests'[r].op = requests[r].op
                 /\ requests'[r].password = requests[r].password
                 /\ requests'[r].origin = requests[r].origin
<1> DEFINE q == requests[r]
           p == [q EXCEPT !.pc = pc]
<1>1. requests \in Slots /\ q \in Request
  BY DEF TypeOK, Slots
<1>2. CASE GoTo(r, pc)
  <2>1. Advance(r, p)
    BY <1>2 DEF GoTo
  <2> HIDE DEF q
  <2>2. /\ p \in Request
        /\ p.pc = pc /\ p.op = q.op
        /\ p.grants = q.grants /\ p.mustChange = q.mustChange
        /\ p.password = q.password /\ p.origin = q.origin
        /\ (p.late <=> q.late)
    BY <1>1, PcOnly
  <2> HIDE DEF p
  <2>3. /\ requests' \in Slots /\ requests'[r] = p
        /\ \A s \in Requests \ {r} : Kept(s)
    BY <1>1, <2>1, <2>2, AdvanceSlots
  <2>4. SlotAfter(r)
    BY <2>2, <2>3 DEF SlotAfter, Holds, q
  <2> QED
    BY <2>1, <2>2, <2>3, <2>4 DEF StepShape, Advance, q
<1>3. CASE Finish(r)
  <2>1. IdleSlot \in Request
    BY NewRequestType DEF IdleSlot
  <2>2. /\ requests' \in Slots /\ requests'[r] = IdleSlot
        /\ \A s \in Requests \ {r} : Kept(s)
    BY <1>1, <1>3, <2>1, AdvanceSlots DEF Finish
  <2>3. SlotAfter(r)
    BY <2>2 DEF SlotAfter, Holds, IdleSlot, NewRequest
  <2> QED
    BY <1>3, <2>2, <2>3 DEF StepShape, Finish, Advance
<1> QED
  BY <1>2, <1>3

(* The writes by id. *)
LEMMA WriteRowShape ==
    ASSUME TypeOK, NEW r \in Requests, NEW op, NEW row \in Account,
           NEW pc \in {"idle", "clear"},
           WriteRow(r, op, row, pc),
           row.present = account.present,
           row.password = "temporary" =>
             row.mustChange \/ (/\ account.password = "temporary"
                                /\ row.mustChange = account.mustChange)
    PROVE  /\ StepShape(r)
           /\ \/ requests'[r] = IdleSlot
              \/ /\ requests'[r].pc = pc
                 /\ requests'[r].op = requests[r].op
<1>1. account \in Account /\ session \in Session /\ (session.exists => account.present)
  BY DEF TypeOK
<1>2. RowAfter
  BY <1>1 DEF WriteRow, RowAfter
<1>3. TokensAfter(r) /\ session' = session
  BY DEF WriteRow, TokensAfter
<1>4. session'.exists => account'.present
  BY <1>1, <1>3 DEF WriteRow
<1>5. GoTo(r, pc) \/ Finish(r)
  BY DEF WriteRow
<1> QED
  BY <1>1, <1>2, <1>3, <1>4, <1>5, MoveShape

(* A request under way takes a step. *)
LEMMA ContinueShape ==
    ASSUME TypeOK, NEW r \in Requests, Continue(r)
    PROVE  StepShape(r)
<1>1. /\ account \in Account /\ session \in Session /\ NoSession \in Session
      /\ (session.exists => account.present) /\ ~NoSession.exists
      /\ requests \in Slots /\ requests[r] \in Request
  BY NewRequestType, ConstantsAssumption
  DEF TypeOK, Slots, NoSession, Session, NoOrigin, Origin, Passwords
<1>2. SessionOf(r) \in Session
  BY <1>1 DEF SessionOf, Session, Request
<1>3. account' = account => RowAfter
  BY <1>1 DEF RowAfter
<1>4. accessTokens' = accessTokens => TokensAfter(r)
  BY DEF TokensAfter
<1>5. CASE IssueOnLogin(r)
  BY <1>1, <1>3, <1>5, MoveShape DEF IssueOnLogin, TokensAfter, Holds, At
<1>6. CASE SaveOnLogin(r)
  BY <1>1, <1>2, <1>3, <1>4, <1>6, MoveShape DEF SaveOnLogin
<1>7. CASE FindUserOnRefresh(r)
  <2>1. CASE Finish(r)
    BY <1>1, <1>3, <1>4, <1>7, <2>1, MoveShape DEF FindUserOnRefresh, Read
  <2>2. CASE Open(account)
    <3> DEFINE q == [requests[r] EXCEPT !.pc = "save"]
               p == WithProfile(q)
    <3>1. Advance(r, p) /\ Read
      BY <1>7, <2>2 DEF FindUserOnRefresh
    <3>2. q \in Request
      BY <1>1, PcOnly
    <3> HIDE DEF q
    <3>3. /\ p \in Request
          /\ p.grants = account.grants
          /\ (p.mustChange <=> account.mustChange)
          /\ p.password = account.password
      BY <1>1, <3>2, ProfileRead
    <3> HIDE DEF p
    <3>4. /\ requests' \in Slots /\ requests'[r] = p
          /\ \A s \in Requests \ {r} : Kept(s)
      BY <1>1, <3>1, <3>3, AdvanceSlots
    <3>5. SlotAfter(r)
      BY <2>2, <3>1, <3>3, <3>4 DEF SlotAfter, Read
    <3> QED
      BY <1>1, <1>3, <1>4, <3>1, <3>4, <3>5 DEF StepShape, Advance, Read
  <2> QED
    BY <1>7, <2>1, <2>2 DEF FindUserOnRefresh
<1>8. CASE SaveOnRefresh(r)
  <2>1. TokensAfter(r)
    BY <1>8 DEF SaveOnRefresh, TokensAfter, Holds, At
  <2> QED
    BY <1>1, <1>2, <1>3, <1>8, <2>1, MoveShape DEF SaveOnRefresh
<1>9. CASE WriteNewPassword(r)
  <2>1. PICK p \in OwnPasswords \ {requests[r].password} :
           account' = IF account.present
                        THEN [account EXCEPT !.password = p, !.mustChange = FALSE]
                        ELSE account
    BY <1>9 DEF WriteNewPassword
  <2>2. p \in Passwords /\ p # "temporary"
    BY ConstantsAssumption DEF Passwords
  <2>3. RowAfter /\ account'.present = account.present
    BY <1>1, <2>1, <2>2 DEF RowAfter, Account
  <2> QED
    BY <1>1, <1>4, <1>9, <2>3, MoveShape DEF WriteNewPassword
<1>10. CASE WriteTemporaryPassword(r)
  <2> DEFINE row == [account EXCEPT !.password = "temporary", !.mustChange = TRUE]
  <2>1. /\ row \in Account /\ row.present = account.present /\ row.mustChange
    BY <1>1 DEF Account, Passwords
  <2> QED
    BY <1>10, <2>1, WriteRowShape DEF WriteTemporaryPassword
<1>11. ASSUME NEW op, NEW row \in Account, NEW pc \in {"idle", "clear"},
              WriteRow(r, op, row, pc),
              row.present = account.present,
              row.password = account.password,
              row.mustChange = account.mustChange
       PROVE  StepShape(r)
  BY <1>11, WriteRowShape
<1>12. CASE WriteActive(r)
  <2> DEFINE row == [account EXCEPT !.active = TRUE]
  <2>1. /\ row \in Account /\ row.present = account.present
        /\ row.password = account.password /\ row.mustChange = account.mustChange
    BY <1>1 DEF Account
  <2> QED
    BY <1>11, <1>12, <2>1 DEF WriteActive
<1>13. CASE WriteInactive(r)
  <2> DEFINE row == [account EXCEPT !.active = FALSE]
  <2>1. /\ row \in Account /\ row.present = account.present
        /\ row.password = account.password /\ row.mustChange = account.mustChange
    BY <1>1 DEF Account
  <2> QED
    BY <1>11, <1>13, <2>1 DEF WriteInactive
<1>14. CASE WriteDeleted(r)
  <2> DEFINE row == [account EXCEPT !.deleted = TRUE]
  <2>1. /\ row \in Account /\ row.present = account.present
        /\ row.password = account.password /\ row.mustChange = account.mustChange
    BY <1>1 DEF Account
  <2> QED
    BY <1>11, <1>14, <2>1 DEF WriteDeleted
<1>15. CASE WriteRestored(r)
  <2> DEFINE row == [account EXCEPT !.deleted = FALSE]
  <2>1. /\ row \in Account /\ row.present = account.present
        /\ row.password = account.password /\ row.mustChange = account.mustChange
    BY <1>1 DEF Account
  <2> QED
    BY <1>11, <1>15, <2>1 DEF WriteRestored
<1>16. CASE WriteRoles(r)
  <2>1. PICK g \in Grants : WriteRow(r, "updateRoles", [account EXCEPT !.grants = g], "clear")
    BY <1>16 DEF WriteRoles
  <2> DEFINE row == [account EXCEPT !.grants = g]
  <2>2. /\ row \in Account /\ row.present = account.present
        /\ row.password = account.password /\ row.mustChange = account.mustChange
    BY <1>1 DEF Account
  <2> QED
    BY <1>11, <2>1, <2>2
<1>17. CASE DeleteByUserId(r)
  BY <1>1, <1>3, <1>4, <1>17, MoveShape DEF DeleteByUserId
<1>18. CASE DeleteRow(r)
  <2>1. /\ [account EXCEPT !.present = FALSE] \in Account
        /\ ~[account EXCEPT !.present = FALSE].present
        /\ [account EXCEPT !.present = FALSE].password = account.password
        /\ [account EXCEPT !.present = FALSE].mustChange = account.mustChange
    BY <1>1 DEF Account
  <2>2. RowAfter
    BY <1>1, <1>18, <2>1 DEF DeleteRow, RowAfter
  <2> QED
    BY <1>1, <1>4, <1>18, <2>2, MoveShape DEF DeleteRow
<1>19. CASE Abandon(r)
  BY <1>1, <1>3, <1>4, <1>19, MoveShape DEF Abandon, Read
<1> QED
  BY <1>5, <1>6, <1>7, <1>8, <1>9, <1>10, <1>12, <1>13, <1>14, <1>15, <1>16,
     <1>17, <1>18, <1>19
  DEF Continue

(* A seed or a change of the catalog: the row changes and slots are marked. *)
LEMMA SurroundingsShape ==
    ASSUME TypeOK, Seed \/ ChangeCatalog
    PROVE  /\ requests' \in Slots
           /\ \A s \in Requests : Kept(s)
           /\ RowAfter
           /\ UNCHANGED <<session, accessTokens>>
           /\ session.exists => account'.present
           /\ Age
<1>1. /\ account \in Account /\ requests \in Slots
      /\ session.exists => account.present
  BY DEF TypeOK, Slots
<1>2. PICK op : Surroundings(op)
  BY DEF Seed, ChangeCatalog
<1>3. /\ UNCHANGED <<session, accessTokens>> /\ Age
      /\ requests' = [s \in Requests |-> Mark(s)]
  BY <1>2 DEF Surroundings
<1>4. \A s \in Requests : requests'[s] = Mark(s)
  BY <1>3
<1>5. \A s \in Requests : requests'[s] \in Request /\ Kept(s)
  BY <1>1, <1>4, MarkSlots
<1>6. requests' \in Slots
  BY <1>3, <1>4, <1>5 DEF Slots
<1>7. /\ account' \in Account /\ account'.present = account.present
      /\ \/ account'.password = "seeded"
         \/ /\ account'.password = account.password
            /\ account'.mustChange = account.mustChange
  <2>1. CASE Seed
    BY <1>1, <2>1, ConstantsAssumption DEF Seed, Account, Passwords
  <2>2. CASE ChangeCatalog
    BY <1>1, <2>2 DEF ChangeCatalog, Account
  <2> QED
    BY <2>1, <2>2
<1> QED
  BY <1>1, <1>3, <1>5, <1>6, <1>7 DEF RowAfter

-----------------------------------------------------------------------------
(* The inductive invariant.                                                *)

(* A reading that is not late is of the account as it is, and the flag goes *)
(* with a temporary password in every reading.                             *)
SlotOK(r) ==
    Holds(r) => /\ \/ requests[r].late
                   \/ /\ Open(account)
                      /\ requests[r].grants = account.grants
                      /\ requests[r].mustChange <=> account.mustChange
                /\ requests[r].password = "temporary" => requests[r].mustChange

RowOK == account.password = "temporary" => account.mustChange

TokenOK(t) ==
    /\ Agrees(t) \/ t.late \/ t.left + unchanged <= AccessTtl
    /\ t.temporary => t.mustChange

SessionInv ==
    /\ RowOK
    /\ \A r \in Requests : SlotOK(r)
    /\ \A t \in accessTokens : TokenOK(t)

(* Equal standings, spelled out. *)
LEMMA SameStanding ==
    ASSUME account \in Account, account' \in Account,
           Standing(account') = Standing(account)
    PROVE  /\ Open(account') <=> Open(account)
           /\ account'.grants = account.grants
           /\ account'.mustChange <=> account.mustChange
<1>1. Open(account') = Open(account) /\ account'.mustChange = account.mustChange
  BY DEF Standing
<1> QED
  BY <1>1 DEF Standing

(* A slot that is only marked keeps what SlotOK says of it. *)
LEMMA KeptOK ==
    ASSUME TypeOK, account' \in Account,
           NEW s \in Requests, Kept(s), SlotOK(s)
    PROVE  SlotOK(s)'
<1>1. CASE ~Holds(s)
  BY <1>1 DEF SlotOK, Kept, Holds
<1>2. CASE Holds(s) /\ requests'[s].late
  BY <1>2 DEF SlotOK, Kept
<1>3. CASE Holds(s) /\ Standing(account') = Standing(account)
  <2>1. /\ Open(account') <=> Open(account)
        /\ account'.grants = account.grants
        /\ account'.mustChange <=> account.mustChange
    BY <1>3, SameStanding DEF TypeOK
  <2> QED
    BY <1>3, <2>1 DEF SlotOK, Kept
<1> QED
  BY <1>1, <1>2, <1>3 DEF Kept

(* Outside ticks, an old token keeps what TokenOK says of it: either the   *)
(* standing is the same, or its change restarts the count.                 *)
LEMMA OldTokenOK ==
    ASSUME TypeOK, Age, NEW t \in accessTokens, TokenOK(t)
    PROVE  TokenOK(t)'
<1>1. t.left \in 1 .. AccessTtl
  BY DEF TypeOK, AccessToken
<1>2. CASE Standing(account') = Standing(account)
  BY <1>2 DEF Age, TokenOK, Agrees
<1>3. CASE Standing(account') # Standing(account)
  BY <1>1, <1>3, ConstantsAssumption DEF Age, TokenOK
<1> QED
  BY <1>2, <1>3

(* A token issued on a good reading is good. *)
LEMMA NewTokenOK ==
    ASSUME TypeOK, NEW r \in Requests, Holds(r), SlotOK(r), account' = account,
           NEW t, t = TokenOf(r)
    PROVE  t \in AccessToken /\ TokenOK(t)'
<1> DEFINE q == requests[r]
<1>1. q \in Request /\ account \in Account
  BY DEF TypeOK
<1>2. t \in AccessToken
  BY <1>1, ConstantsAssumption DEF TokenOf, AccessToken, Request
<1>3. /\ t.grants = q.grants /\ t.mustChange = q.mustChange
      /\ (t.mustChange <=> q.mustChange) /\ (t.late <=> q.late)
      /\ (t.temporary <=> q.password = "temporary")
  BY DEF TokenOf
<1>4. t.temporary => t.mustChange
  BY <1>3 DEF SlotOK
<1>5. Agrees(t)' \/ t.late
  <2>1. CASE q.late
    BY <1>3, <2>1
  <2>2. CASE ~q.late
    <3>1. /\ Open(account) /\ q.grants = account.grants
          /\ q.mustChange <=> account.mustChange
      BY <2>2 DEF SlotOK
    <3>2. q.mustChange = account.mustChange /\ Open(account) = TRUE
      BY <1>1, <3>1 DEF Request, Account, Open
    <3>3. Standing(account) = <<TRUE, t.grants, t.mustChange>>
      BY <1>3, <3>1, <3>2 DEF Standing
    <3> QED
      BY <3>3 DEF Agrees
  <2> QED
    BY <2>1, <2>2
<1> QED
  BY <1>2, <1>4, <1>5 DEF TokenOK

(* Every step of a request keeps the types and the invariant. *)
LEMMA ShapeKeeps ==
    ASSUME TypeOK, SessionInv, NEW r \in Requests, StepShape(r)
    PROVE  TypeOK' /\ SessionInv'
<1>1. /\ account' \in Account /\ requests' \in Slots /\ session' \in Session
      /\ session'.exists => account'.present
      /\ Age
  BY DEF StepShape, RowAfter
<1>2. unchanged' \in 0 .. AccessTtl
  BY <1>1, ConstantsAssumption DEF Age, TypeOK
<1>3. /\ accessTokens' \subseteq AccessToken
      /\ \A t \in accessTokens' : TokenOK(t)'
  <2>1. CASE accessTokens' = accessTokens
    BY <1>1, <2>1, OldTokenOK DEF SessionInv, TypeOK
  <2>2. CASE /\ Holds(r) /\ account' = account
             /\ accessTokens' = accessTokens \cup {TokenOf(r)}
    <3>0. PICK t : t = TokenOf(r)
      OBVIOUS
    <3>1. t \in AccessToken /\ TokenOK(t)'
      BY <2>2, <3>0, NewTokenOK DEF SessionInv
    <3>2. \A u \in accessTokens : TokenOK(u)'
      BY <1>1, OldTokenOK DEF SessionInv
    <3> QED
      BY <2>2, <3>0, <3>1, <3>2 DEF TypeOK
  <2> QED
    BY <2>1, <2>2 DEF StepShape, TokensAfter
<1>4. RowOK'
  BY DEF StepShape, RowAfter, SessionInv, RowOK
<1>5. \A s \in Requests \ {r} : SlotOK(s)'
  BY <1>1, KeptOK DEF StepShape, SessionInv
<1>6. SlotOK(r)'
  BY DEF StepShape, SlotAfter, SlotOK, SessionInv, RowOK, Holds
<1> QED
  BY <1>1, <1>2, <1>3, <1>4, <1>5, <1>6 DEF TypeOK, SessionInv, Slots

(* The clock: what is left of a token shrinks as the count grows. *)
LEMMA TickKeeps ==
    ASSUME TypeOK, SessionInv, Tick
    PROVE  TypeOK' /\ SessionInv'
<1>1. AccessTtl \in Nat /\ unchanged \in 0 .. AccessTtl
  BY ConstantsAssumption DEF TypeOK
<1>2. unchanged' \in 0 .. AccessTtl /\ unchanged' <= unchanged + 1
  BY <1>1 DEF Tick
<1>3. ASSUME NEW u \in accessTokens'
      PROVE  u \in AccessToken /\ TokenOK(u)'
  <2>1. PICK t \in accessTokens : t.left > 1 /\ u = [t EXCEPT !.left = @ - 1]
    BY <1>3 DEF Tick
  <2>2. t \in AccessToken /\ TokenOK(t)
    BY DEF TypeOK, SessionInv
  <2>3. /\ u \in AccessToken
        /\ u.left = t.left - 1 /\ u.grants = t.grants
        /\ u.mustChange = t.mustChange /\ u.temporary = t.temporary
        /\ u.late = t.late /\ t.left \in 1 .. AccessTtl
    BY <1>1, <2>1, <2>2 DEF AccessToken
  <2>4. Agrees(t) => Agrees(u)'
    BY <2>3 DEF Agrees, Tick
  <2>5. t.left + unchanged <= AccessTtl => u.left + unchanged' <= AccessTtl
    BY <1>1, <1>2, <2>3
  <2>6. (t.late => u.late) /\ ((t.temporary => t.mustChange) => (u.temporary => u.mustChange))
    BY <2>3
  <2> QED
    BY <2>2, <2>3, <2>4, <2>5, <2>6 DEF TokenOK
<1>4. RowOK' /\ \A r \in Requests : SlotOK(r)'
  BY DEF Tick, SessionInv, RowOK, SlotOK, Holds
<1> QED
  BY <1>2, <1>3, <1>4 DEF TypeOK, SessionInv, Tick

(* Types and invariant, over all steps. *)
LEMMA NextKeeps == TypeOK /\ SessionInv /\ [Next]_vars => TypeOK' /\ SessionInv'
<1> SUFFICES ASSUME TypeOK, SessionInv, [Next]_vars
             PROVE  TypeOK' /\ SessionInv'
  OBVIOUS
<1>1. ASSUME NEW r \in Requests, Arrive(r) \/ Continue(r)
      PROVE  TypeOK' /\ SessionInv'
  BY <1>1, ArriveShape, ContinueShape, ShapeKeeps
<1>2. CASE Seed \/ ChangeCatalog
  <2>1. /\ requests' \in Slots /\ \A s \in Requests : Kept(s)
        /\ RowAfter /\ UNCHANGED <<session, accessTokens>>
        /\ session.exists => account'.present
        /\ Age
    BY <1>2, SurroundingsShape
  <2>2. unchanged' \in 0 .. AccessTtl /\ account' \in Account
    BY <2>1, ConstantsAssumption DEF Age, TypeOK, RowAfter
  <2>3. \A t \in accessTokens : TokenOK(t)'
    BY <2>1, OldTokenOK DEF SessionInv
  <2>4. \A s \in Requests : SlotOK(s)'
    BY <2>1, <2>2, KeptOK DEF SessionInv
  <2>5. RowOK'
    BY <2>1 DEF RowAfter, SessionInv, RowOK
  <2> QED
    BY <2>1, <2>2, <2>3, <2>4, <2>5 DEF TypeOK, SessionInv, Slots
<1>3. CASE SessionExpires
  <2>1. session' \in Session /\ session'.exists = session.exists
    BY <1>3 DEF SessionExpires, TypeOK, Session
  <2> QED
    BY <1>3, <2>1
    DEF SessionExpires, TypeOK, SessionInv, RowOK, SlotOK, Holds, TokenOK, Agrees
<1>4. CASE Tick
  BY <1>4, TickKeeps
<1>5. CASE UNCHANGED vars
  BY <1>5 DEF vars, TypeOK, SessionInv, RowOK, SlotOK, Holds, TokenOK, Agrees
<1> QED
  BY <1>1, <1>2, <1>3, <1>4, <1>5 DEF Next

(* The initial states. *)
LEMMA InitKeeps == Init => TypeOK /\ SessionInv
<1> SUFFICES ASSUME Init PROVE TypeOK /\ SessionInv
  OBVIOUS
<1>1. account \in Account /\ account.password \in OwnPasswords
  BY DEF Init, Account, Passwords
<1>2. IdleSlot \in Request /\ IdleSlot.pc = "idle"
  BY NewRequestType DEF IdleSlot, NewRequest
<1>3. NoSession \in Session /\ ~NoSession.exists
  BY ConstantsAssumption DEF NoSession, Session, NoOrigin, Origin, Passwords
<1>4. unchanged \in 0 .. AccessTtl
  BY ConstantsAssumption DEF Init
<1> HIDE DEF IdleSlot, NoSession
<1> QED
  BY <1>1, <1>2, <1>3, <1>4, ConstantsAssumption
  DEF Init, TypeOK, SessionInv, RowOK, SlotOK, Holds

(* Every variable keeps its type, and a session keeps its user. *)
THEOREM TypeCorrect == Spec => []TypeOK
BY InitKeeps, NextKeeps, PTL DEF Spec

(* The invariant the two theorems below are read off from. *)
THEOREM SessionInvariant == Spec => []SessionInv
BY InitKeeps, NextKeeps, PTL DEF Spec

(* With any number of requests in flight, and whatever fails, a token that *)
(* contradicts its account lasts no longer than one lifetime after the     *)
(* change, unless its issuer was overtaken by the change.                  *)
THEOREM RevocationLatencyHolds == Spec => []RevocationLatency
<1>1. SessionInv => RevocationLatency
  BY DEF SessionInv, RevocationLatency, TokenOK
<1> QED
  BY <1>1, SessionInvariant, PTL

(* No interleaving hands out a token without the must-change flag on a     *)
(* temporary password.                                                     *)
THEOREM TemporaryPasswordAlwaysGated == Spec => []TemporaryPasswordGated
<1>1. SessionInv => TemporaryPasswordGated
  BY DEF SessionInv, TemporaryPasswordGated, TokenOK, RowOK
<1> QED
  BY <1>1, SessionInvariant, PTL

-----------------------------------------------------------------------------
(* Requests served one at a time, each to its end.                         *)

(* What a request served alone has read still holds. *)
SlotFits(r) ==
    /\ requests[r].pc \in {"user", "issue", "save"}
          => Open(account) /\ requests[r].origin = OriginNow
    /\ At(r, "changePassword", "write") => requests[r].password = account.password

FitsNow == session.exists => Open(account) /\ session.origin = OriginNow

(* The session fits the account except between a write and its clear. *)
SerialInv ==
    /\ \A r \in Requests : SlotFits(r)
    /\ (\A r \in Requests : requests[r].pc # "clear") => FitsNow

Serial ==
    /\ \A r, s \in Requests : r = s
    /\ ~Failures
    /\ "seed" \notin Ops /\ "catalog" \notin Ops

(* A step by id that goes on to the clear, or finds no row. *)
LEMMA WriteFits ==
    ASSUME TypeOK, NEW r \in Requests, FitsNow, NEW op, NEW row,
           WriteRow(r, op, row, "clear")
    PROVE  SlotFits(r)' /\ (requests'[r].pc # "clear" => FitsNow')
<1>1. requests \in Slots /\ requests[r] \in Request
  BY DEF TypeOK, Slots
<1>2. CASE GoTo(r, "clear")
  <2>1. [requests[r] EXCEPT !.pc = "clear"] \in Request
    BY <1>1, PcOnly
  <2>2. requests'[r] = [requests[r] EXCEPT !.pc = "clear"]
    BY <1>1, <1>2, <2>1, AdvanceSlots DEF GoTo
  <2>3. requests'[r].pc = "clear"
    BY <1>1, <2>2 DEF Request
  <2> QED
    BY <2>3 DEF SlotFits, At
<1>3. CASE Finish(r) /\ UNCHANGED account
  <2>1. requests'[r] = IdleSlot
    BY <1>1, <1>3, NewRequestType, AdvanceSlots DEF Finish, IdleSlot
  <2>2. requests'[r].pc = "idle"
    BY <2>1 DEF IdleSlot, NewRequest
  <2>3. UNCHANGED <<account, session>>
    BY <1>3 DEF WriteRow
  <2> QED
    BY <2>2, <2>3 DEF SlotFits, At, FitsNow, OriginNow
<1> QED
  BY <1>2, <1>3 DEF WriteRow

(* One slot: an arrival reads a session and an account that fit. *)
LEMMA ArriveFits ==
    ASSUME TypeOK, NEW r \in Requests, FitsNow, Arrive(r)
    PROVE  SlotFits(r)' /\ FitsNow'
<1>1. UNCHANGED <<account, session>> /\ requests \in Slots
  BY ArriveShape DEF TypeOK, Slots
<1>2. FitsNow'
  BY <1>1 DEF FitsNow, OriginNow
<1>3. ASSUME NEW op, NEW req \in Request, Start(r, op, req)
      PROVE  requests'[r] = req
  BY <1>1, <1>3, AdvanceSlots DEF Start
<1>4. CASE Login(r)
  <2> DEFINE q == WithProfile(NewRequest("login", "issue"))
             req == [q EXCEPT !.origin = OriginNow]
  <2>1. NewRequest("login", "issue") \in Request
    BY NewRequestType DEF AllOps
  <2>2. q \in Request /\ q.pc = "issue" /\ q.op = "login"
    BY <2>1, ProfileRead DEF TypeOK, NewRequest
  <2>3. OriginNow \in Origin
    BY DEF TypeOK, OriginNow, Origin, Account
  <2>4. Start(r, "login", req) /\ Open(account)
    BY <1>4 DEF Login, OriginNow
  <2> HIDE DEF q
  <2>5. /\ req \in Request /\ req.pc = "issue" /\ req.op = "login"
        /\ req.origin = OriginNow
    BY <2>2, <2>3 DEF Request
  <2> HIDE DEF req
  <2>6. requests'[r] = req
    BY <1>3, <2>4, <2>5
  <2> QED
    BY <1>1, <1>2, <2>4, <2>5, <2>6 DEF SlotFits, At, OriginNow
<1>5. CASE Refresh(r)
  <2> DEFINE q == NewRequest("refresh", "user")
             req == [q EXCEPT !.origin = session.origin]
  <2>1. Start(r, "refresh", req) /\ session.exists
    BY <1>5 DEF Refresh
  <2>2. q \in Request /\ q.op = "refresh" /\ q.pc = "user"
    BY NewRequestType DEF AllOps, NewRequest
  <2>3. session.origin \in Origin
    BY DEF TypeOK, Session
  <2> HIDE DEF q
  <2>4. /\ req \in Request /\ req.op = "refresh" /\ req.pc = "user"
        /\ req.origin = session.origin
    BY <2>2, <2>3 DEF Request
  <2> HIDE DEF req
  <2>5. requests'[r] = req
    BY <1>3, <2>1, <2>4
  <2> QED
    BY <1>1, <1>2, <2>1, <2>4, <2>5 DEF SlotFits, At, FitsNow, OriginNow
<1>6. CASE ChangePassword(r)
  <2> DEFINE q == NewRequest("changePassword", "write")
             req == [q EXCEPT !.password = account.password]
  <2>1. Start(r, "changePassword", req)
    BY <1>6 DEF ChangePassword
  <2>2. q \in Request /\ q.pc = "write"
    BY NewRequestType DEF AllOps, NewRequest
  <2>3. account.password \in Passwords
    BY DEF TypeOK, Account
  <2> HIDE DEF q
  <2>4. req \in Request /\ req.pc = "write" /\ req.password = account.password
    BY <2>2, <2>3 DEF Request
  <2> HIDE DEF req
  <2>5. requests'[r] = req
    BY <1>3, <2>1, <2>4
  <2> QED
    BY <1>1, <1>2, <2>4, <2>5 DEF SlotFits, At
<1>7. ASSUME NEW op \in AllOps \ {"changePassword"}, NEW pc \in {"write", "clear"},
             Start(r, op, NewRequest(op, pc))
      PROVE  SlotFits(r)'
  <2>1. NewRequest(op, pc) \in Request
    BY NewRequestType
  <2>2. requests'[r] = NewRequest(op, pc)
    BY <1>3, <1>7, <2>1
  <2>3. requests'[r].pc = pc /\ requests'[r].op = op
    BY <2>2 DEF NewRequest
  <2> QED
    BY <2>3 DEF SlotFits, At
<1>8. CASE \/ Logout(r) \/ ResetPassword(r) \/ Activate(r) \/ Deactivate(r)
           \/ Delete(r) \/ Restore(r) \/ UpdateRoles(r) \/ ResetAccount(r)
  <2>1. PICK op \in AllOps \ {"changePassword"}, pc \in {"write", "clear"} :
           Start(r, op, NewRequest(op, pc))
    BY <1>8
    DEF Logout, ResetPassword, Activate, Deactivate, Delete, Restore,
        UpdateRoles, ResetAccount, AllOps
  <2> QED
    BY <1>2, <1>7, <2>1
<1> QED
  BY <1>4, <1>5, <1>6, <1>8 DEF Arrive

(* One slot: the steps of a request under way. *)
LEMMA ContinueFits ==
    ASSUME TypeOK, NEW r \in Requests, SlotFits(r), ~Failures,
           requests[r].pc # "clear" => FitsNow, Continue(r)
    PROVE  SlotFits(r)' /\ (requests'[r].pc # "clear" => FitsNow')
<1>1. /\ requests \in Slots /\ requests[r] \in Request
      /\ account \in Account
      /\ session.exists => account.present
      /\ ~NoSession.exists
  BY DEF TypeOK, Slots, NoSession
<1>2. ASSUME NEW pc \in {"idle", "user", "issue", "save", "write", "clear"}, GoTo(r, pc)
      PROVE  /\ requests'[r].pc = pc
             /\ requests'[r].op = requests[r].op
             /\ requests'[r].origin = requests[r].origin
  <2> DEFINE q == requests[r]
             p == [q EXCEPT !.pc = pc]
  <2>1. Advance(r, p) /\ q \in Request
    BY <1>1, <1>2 DEF GoTo
  <2> HIDE DEF q
  <2>2. p \in Request /\ p.pc = pc /\ p.op = q.op /\ p.origin = q.origin
    BY <2>1, PcOnly
  <2> HIDE DEF p
  <2> QED
    BY <1>1, <2>1, <2>2, AdvanceSlots DEF q
<1>3. ASSUME Finish(r), FitsNow'
      PROVE  SlotFits(r)' /\ (requests'[r].pc # "clear" => FitsNow')
  <2>1. requests'[r] = IdleSlot
    BY <1>1, <1>3, NewRequestType, AdvanceSlots DEF Finish, IdleSlot
  <2> QED
    BY <1>3, <2>1 DEF SlotFits, At, IdleSlot, NewRequest
<1>4. UNCHANGED <<account, session>> /\ FitsNow => FitsNow'
  BY DEF FitsNow, OriginNow
<1>5. session' = NoSession => FitsNow'
  BY <1>1 DEF FitsNow
<1>6. CASE IssueOnLogin(r)
  <2>1. /\ requests'[r].pc = "save" /\ requests'[r].origin = requests[r].origin
        /\ requests[r].pc = "issue" /\ session' = NoSession /\ account' = account
    BY <1>2, <1>6 DEF IssueOnLogin, At
  <2> QED
    BY <1>5, <2>1 DEF SlotFits, At, OriginNow
<1>7. CASE SaveOnLogin(r) \/ SaveOnRefresh(r)
  <2>1. requests[r].pc = "save" /\ Finish(r) /\ account' = account
    BY <1>7 DEF SaveOnLogin, SaveOnRefresh, At
  <2>2. CASE account.present
    <3>1. session' = SessionOf(r)
      BY <1>7, <2>2 DEF SaveOnLogin, SaveOnRefresh
    <3>2. FitsNow'
      BY <2>1, <3>1 DEF FitsNow, SessionOf, SlotFits, OriginNow
    <3> QED
      BY <1>3, <2>1, <3>2
  <2>3. CASE ~account.present
    <3>1. session' = session
      BY <1>7, <2>3 DEF SaveOnLogin, SaveOnRefresh
    <3> QED
      BY <1>1, <1>3, <2>1, <2>3, <3>1 DEF FitsNow
  <2> QED
    BY <2>2, <2>3
<1>8. CASE FindUserOnRefresh(r)
  <2>1. At(r, "refresh", "user") /\ UNCHANGED <<account, session>>
    BY <1>8 DEF FindUserOnRefresh, Read
  <2>2. FitsNow'
    BY <1>4, <2>1 DEF At
  <2>3. CASE Finish(r)
    BY <1>3, <2>2, <2>3
  <2>4. CASE ~Finish(r)
    <3> DEFINE q == [requests[r] EXCEPT !.pc = "save"]
               p == WithProfile(q)
    <3>1. Advance(r, p)
      BY <1>8, <2>4 DEF FindUserOnRefresh
    <3>2. /\ q \in Request /\ q.pc = "save" /\ q.origin = requests[r].origin
          /\ q.op = requests[r].op
      BY <1>1, PcOnly
    <3> HIDE DEF q
    <3>3. p \in Request /\ p.pc = q.pc /\ p.origin = q.origin /\ p.op = q.op
      BY <1>1, <3>2, ProfileRead
    <3> HIDE DEF p
    <3>4. requests'[r] = p
      BY <1>1, <3>1, <3>3, AdvanceSlots
    <3> QED
      BY <2>1, <2>2, <3>2, <3>3, <3>4 DEF SlotFits, At, OriginNow
  <2> QED
    BY <2>3, <2>4
<1>9. CASE WriteNewPassword(r)
  <2>1. requests'[r].pc = "clear"
    BY <1>2, <1>9 DEF WriteNewPassword
  <2> QED
    BY <2>1 DEF SlotFits, At
<1>10. CASE \/ WriteTemporaryPassword(r) \/ WriteInactive(r)
            \/ WriteDeleted(r) \/ WriteRestored(r) \/ WriteRoles(r)
  <2>1. PICK op, row : WriteRow(r, op, row, "clear")
    BY <1>10
    DEF WriteTemporaryPassword, WriteInactive, WriteDeleted, WriteRestored,
        WriteRoles
  <2>2. FitsNow
    BY <2>1 DEF WriteRow, At
  <2> QED
    BY <2>1, <2>2, WriteFits
<1>11. CASE WriteActive(r)
  <2>1. At(r, "activate", "write") /\ Finish(r) /\ session' = session
    BY <1>11 DEF WriteActive, WriteRow
  <2>2. FitsNow
    BY <2>1 DEF At
  <2>3. session.exists => account' = account
    <3>1. Open(account) => [account EXCEPT !.active = TRUE] = account
      BY <1>1 DEF Open, Account
    <3> QED
      BY <1>11, <2>2, <3>1 DEF WriteActive, WriteRow, FitsNow
  <2>4. FitsNow'
    BY <2>1, <2>2, <2>3 DEF FitsNow, OriginNow
  <2> QED
    BY <1>3, <2>1, <2>4
<1>12. CASE DeleteByUserId(r)
  <2>1. FitsNow' /\ (GoTo(r, "write") \/ Finish(r))
    BY <1>5, <1>12 DEF DeleteByUserId
  <2>2. CASE GoTo(r, "write") /\ requests[r].op = "reset"
    <3>1. requests'[r].pc = "write" /\ requests'[r].op = "reset"
      BY <1>2, <2>2
    <3> QED
      BY <2>1, <3>1 DEF SlotFits, At
  <2> QED
    BY <1>3, <1>12, <2>1, <2>2 DEF DeleteByUserId
<1>13. CASE DeleteRow(r)
  BY <1>3, <1>5, <1>13 DEF DeleteRow
<1> QED
  BY <1>6, <1>7, <1>8, <1>9, <1>10, <1>11, <1>12, <1>13 DEF Continue, Abandon

(* The invariant of requests served alone. *)
LEMMA SerialInvariant ==
    ASSUME Serial PROVE Spec => []SerialInv
<1>1. Init => SerialInv
  BY DEF Init, SerialInv, SlotFits, FitsNow, At, NoSession, IdleSlot, NewRequest
<1>2. TypeOK /\ SerialInv /\ [Next]_vars => SerialInv'
  <2> SUFFICES ASSUME TypeOK, SerialInv, [Next]_vars PROVE SerialInv'
    OBVIOUS
  <2>1. ASSUME NEW r \in Requests, Arrive(r) \/ Continue(r) PROVE SerialInv'
    <3>1. SlotFits(r) /\ (requests[r].pc # "clear" => FitsNow)
      BY DEF Serial, SerialInv
    <3>2. Arrive(r) => requests[r].pc # "clear"
      BY ArriveShape
    <3>3. SlotFits(r)' /\ (requests'[r].pc # "clear" => FitsNow')
      BY <2>1, <3>1, <3>2, ArriveFits, ContinueFits DEF Serial
    <3> QED
      BY <3>3 DEF Serial, SerialInv
  <2>2. ~Seed /\ ~ChangeCatalog
    BY DEF Serial, Seed, ChangeCatalog, Surroundings
  <2>3. CASE SessionExpires
    <3>1. /\ session'.exists = session.exists /\ session'.origin = session.origin
          /\ UNCHANGED <<account, requests>>
      BY <2>3 DEF SessionExpires, TypeOK, Session
    <3> QED
      BY <3>1 DEF SerialInv, SlotFits, FitsNow, At, OriginNow
  <2>4. CASE UNCHANGED <<account, session, requests>>
    BY <2>4 DEF SerialInv, SlotFits, FitsNow, At, OriginNow
  <2> QED
    BY <2>1, <2>2, <2>3, <2>4 DEF Next, Tick, vars
<1> QED
  BY <1>1, <1>2, TypeCorrect, PTL DEF Spec

(* Requests served one at a time and to their end leave no session behind  *)
(* that was opened before a deactivation, a deletion, a change of roles or *)
(* of password: every use case that makes one ends the session.            *)
THEOREM SessionFitsAccountWhenSerial ==
    ASSUME Serial PROVE Spec => []SessionFitsAccount
<1>1. SerialInv => SessionFitsAccount
  BY DEF SerialInv, FitsNow, SessionFitsAccount, OriginNow
<1> QED
  BY <1>1, SerialInvariant, PTL

(* Served alone, a change of password replaces the password it verified.   *)
THEOREM ChangeVerifiesCurrentWhenSerial ==
    ASSUME Serial PROVE Spec => ChangeVerifiesCurrent
<1>1. SerialInv /\ [Next]_vars =>
        [\A r \in Requests :
            WriteNewPassword(r) /\ account.present
               => account.password = requests[r].password]_vars
  BY DEF SerialInv, SlotFits, WriteNewPassword
<1> QED
  BY <1>1, SerialInvariant, PTL DEF Spec, ChangeVerifiesCurrent

=============================================================================
