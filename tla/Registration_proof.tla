-------------------------- MODULE Registration_proof --------------------------
(***************************************************************************)
(* Proofs about Registration, for any people, passwords, environments,      *)
(* files and numbers of requests.  Beside the types the inductive invariant *)
(* says where accounts stand and how what was stored relates to what was    *)
(* given.                                                                   *)
(***************************************************************************)
EXTENDS Registration, TLAPS

(* Accounts stand under the converted address unless that of a seed's       *)
(* configuration has capitals.                                             *)
Converted ==
    \A a \in Addresses : Present(a) => ~a.capital \/ a \in configured

(* What was given is long enough to sign in with, and what was stored is     *)
(* that, but for a seed that trimmed it.                                    *)
Trusted(c, addresses) ==
    /\ LongEnough(c.password)
    /\ \/ c.hash = c.password
       \/ c.password # Trimmed(c.password) /\ c.address \in addresses
Kept == \A c \in promised : Trusted(c, configured)

Inv == TypeOK /\ Converted /\ Kept

-----------------------------------------------------------------------------
(* Configurations.                                                          *)

(* A Config that is not refused has bounded lifetimes.                      *)
Bounded(c) == /\ c.accessTtl \in 1..MaxAccessTtl
              /\ c.accessTtl <= c.refreshTtl
              /\ c.refreshTtl \in Int

LEMMA RawTyped ==
    ASSUME NEW e \in Environments
    PROVE  /\ Raw(e, File).adminEmail \in Addresses \cup {Unset}
           /\ Raw(e, File).refreshTtl \in Durations
<1>1. /\ DOMAIN e = DOMAIN Defaults /\ DOMAIN File = DOMAIN Defaults
      /\ "adminEmail" \in DOMAIN Defaults /\ "refreshTtl" \in DOMAIN Defaults
  BY EnvironmentsAssumption DEF Defaults
<1>2. DOMAIN Over(e, File) = DOMAIN Defaults
  BY <1>1 DEF Over
<1>3. Defaults.refreshTtl \in Durations /\ Defaults.adminEmail = Unset
  BY DEF Defaults, Durations, Duration, SecondsPer
<1>4. /\ Raw(e, File).refreshTtl \in {e.refreshTtl, File.refreshTtl, Defaults.refreshTtl}
      /\ Raw(e, File).refreshTtl = Unset => Defaults.refreshTtl = Unset
      /\ Raw(e, File).adminEmail \in {e.adminEmail, File.adminEmail, Defaults.adminEmail}
  BY <1>1, <1>2 DEF Raw, Over
<1> QED
  BY <1>3, <1>4, EnvironmentsAssumption

LEMMA ConfigBounded == ASSUME NEW c \in Configs PROVE Bounded(c)
<1>1. PICK e \in Environments : c = Config(e, File) /\ c # Refused
  BY DEF Configs
<1> DEFINE raw == Raw(e, File)
<1>2. /\ c.accessTtl = Seconds(raw.accessTtl) /\ c.refreshTtl = Seconds(raw.refreshTtl)
      /\ LifetimesFit(raw)
  BY <1>1 DEF Config, Accepted
<1>3. Seconds(raw.refreshTtl) \in Int
  BY RawTyped DEF Seconds, Durations, SecondsPer
<1> QED
  BY <1>2, <1>3 DEF LifetimesFit, Bounded

(* The administrator of a configuration has an address, and the password    *)
(* that is stored is the one that was given, trimmed.                       *)
LEMMA AdminFits ==
    ASSUME NEW a \in Admins, a # None
    PROVE  /\ a.email \in Addresses
           /\ a.password \in Stored
           /\ a.password = Trimmed(a.given)
           /\ LongEnough(a.given)
<1>1. PICK e \in Environments :
          Config(e, File) # Refused /\ a = Config(e, File).admin
  BY DEF Admins, Configs
<1> DEFINE raw == Raw(e, File)
<1>2. Accepted(raw) /\ a = Admin(raw)
  BY <1>1 DEF Config
<1>3. AdminPassword(raw) # None /\ raw.adminEmail # Unset
  BY <1>2 DEF Admin, Accepted
<1> QED
  <2>1. /\ a.email = raw.adminEmail /\ a.given = raw.adminPassword
        /\ a.password = Trimmed(a.given)
    BY <1>2, <1>3 DEF Admin, AdminPassword
  <2>2. a.email \in Addresses
    BY <1>3, <2>1, RawTyped
  <2>3. LongEnough(a.given)
    BY <1>2, <1>3, <2>1 DEF Accepted, AdminPassword
  <2>4. a.password \in Stored
    BY DEF Stored
  <2> QED
    BY <2>1, <2>2, <2>3, <2>4

(* A row with some columns set is a row.                                    *)
LEMMA RowFits ==
    ASSUME NEW w \in Stored, NEW b \in BOOLEAN
    PROVE  /\ NewRow(w, b) \in Rows /\ NewRow(w, b) # None
           /\ NewRow(w, b).password = w /\ NewRow(w, b).isSystem = b
<1>1. NewRow(w, b) \in Rows
  BY DEF Rows, NewRow
<1> QED
  BY <1>1, NoneAssumption DEF NewRow

LEMMA RowStays ==
    ASSUME NEW row \in Rows, NEW w \in Stored, NEW b \in BOOLEAN, NEW d \in BOOLEAN,
           NEW e \in BOOLEAN, NEW new,
           \/ new = [row EXCEPT !.password = w]
           \/ new = [row EXCEPT !.password = w, !.isActive = d, !.isSystem = b]
           \/ new = [row EXCEPT !.isActive = d]
           \/ new = [row EXCEPT !.isDeleted = e]
    PROVE  /\ new \in Rows /\ new # None
           /\ new.password \in {w, row.password} /\ new.isSystem \in {b, row.isSystem}
<1>1. new \in Rows
  BY DEF Rows
<1> QED
  BY <1>1, NoneAssumption DEF Rows

LEMMA PromiseFits ==
    ASSUME NEW typed, NEW w, NEW a, NEW hash, NEW S,
           LongEnough(w), hash = w \/ (w # Trimmed(w) /\ a \in S)
    PROVE  /\ Promise(typed, w, a, hash).address = a
           /\ Promise(typed, w, a, hash).hash = hash
           /\ Trusted(Promise(typed, w, a, hash), S)
<1> DEFINE c == Promise(typed, w, a, hash)
<1>1. c.password = w /\ c.hash = hash /\ c.address = a
  BY DEF Promise
<1> HIDE DEF c
<1>2. c.address = a /\ c.hash = hash /\ Trusted(c, S)
  BY <1>1 DEF Trusted
<1> QED
  BY <1>2 DEF c

LEMMA LowerFits ==
    ASSUME NEW a \in Addresses
    PROVE  Lower(a) \in Addresses /\ Lower(a).capital = FALSE
  BY DEF Lower, Addresses

-----------------------------------------------------------------------------
(* Replacing a row.                                                         *)
LEMMA Replaced ==
    ASSUME Inv, NEW a \in Addresses, NEW row \in Rows \cup {None}, NEW new,
           Replace(a, row, new),
           configured \subseteq configured', configured' \subseteq Addresses,
           \A c \in new : /\ c.address = a /\ row # None /\ row.password = c.hash
                          /\ Trusted(c, configured'),
           row # None => /\ row.isSystem => a \in configured'
                         /\ a.capital => a \in configured'
    PROVE  /\ accounts' \in [Addresses -> Rows \cup {None}]
           /\ \A c \in promised' : /\ c.address \in Addresses /\ Present(c.address)'
                                   /\ accounts'[c.address].password = c.hash
           /\ \A b \in Addresses : Present(b)' /\ accounts'[b].isSystem => b \in configured'
           /\ Converted' /\ Kept'
           /\ row # None => \A b \in Addresses : Present(b) => Present(b)'
<1>1. /\ accounts' = [accounts EXCEPT ![a] = row]
      /\ promised' = {c \in promised : c.address # a} \cup new
  BY DEF Replace
<1>2. /\ accounts' \in [Addresses -> Rows \cup {None}]
      /\ accounts'[a] = row
      /\ \A b \in Addresses \ {a} : accounts'[b] = accounts[b]
  BY <1>1 DEF Inv, TypeOK
<1>3. ASSUME NEW c \in promised'
      PROVE  /\ c.address \in Addresses /\ Present(c.address)'
             /\ accounts'[c.address].password = c.hash
             /\ Trusted(c, configured')
  <2>1. CASE c \in new
    BY <1>2, <2>1 DEF Present
  <2>2. CASE c \in promised /\ c.address # a
    BY <1>2, <2>2 DEF Inv, TypeOK, Present, Kept, Trusted
  <2> QED
    BY <1>1, <2>1, <2>2
<1>4. ASSUME NEW b \in Addresses, Present(b)'
      PROVE  /\ accounts'[b].isSystem => b \in configured'
             /\ ~b.capital \/ b \in configured'
  <2>1. CASE b = a
    BY <1>2, <1>4, <2>1 DEF Present
  <2>2. CASE b # a
    BY <1>2, <1>4, <2>2 DEF Inv, TypeOK, Present, Converted
  <2> QED
    BY <2>1, <2>2
<1> QED
  BY <1>2, <1>3, <1>4 DEF Converted, Kept, Present

(* Putting a request in a slot.                                             *)
Request == {Idle} \cup Registering \cup Changing \cup Seeding
Sound == /\ requests \in [Slots -> Request]
         /\ \A s \in Slots : /\ ServedBy(requests[s]) => config # None
                             /\ Changes(requests[s]) => Present(requests[s].address)

LEMMA Becomes ==
    ASSUME Inv, NEW s \in Slots, NEW r \in Request, Become(s, r),
           config' = config, ServedBy(r) => config # None,
           Changes(r) => Present(r.address)',
           \A b \in Addresses : Present(b) => Present(b)'
    PROVE  Sound'
<1>1. \A t \in Slots : Changes(requests[t]) => requests[t].address \in Addresses
  BY DEF Inv, TypeOK, Changes, Idle, Registering, Changing, Seeding
<1>2. requests' \in [Slots -> Request]
  BY DEF Inv, TypeOK, Become, Request
<1>3. ASSUME NEW t \in Slots
      PROVE  /\ ServedBy(requests[t])' => config' # None
             /\ Changes(requests[t])' => Present(requests[t].address)'
  <2>1. CASE t = s
    BY <2>1 DEF Inv, TypeOK, Become, ServedBy, Changes
  <2>2. CASE t # s
    <3>1. requests'[t] = requests[t]
      BY <2>2 DEF Inv, TypeOK, Become
    <3> QED
      BY <1>1, <3>1 DEF Inv, TypeOK, ServedBy, Changes
  <2> QED
    BY <2>1, <2>2
<1> QED
  BY <1>2, <1>3 DEF Sound, ServedBy, Changes

LEMMA IdleSound == Idle \in Request /\ ~ServedBy(Idle) /\ ~Changes(Idle)
  BY DEF Request, ServedBy, Changes, Idle

(* The kind of a request is what its op says.                               *)
LEMMA KindsApart ==
    ASSUME Inv, NEW s \in Slots
    PROVE  /\ requests[s].op = "register" => requests[s] \in Registering
           /\ requests[s].op = "seed" => requests[s] \in Seeding
           /\ Changes(requests[s]) => /\ requests[s] \in Changing
                                     /\ requests[s].address \in Addresses
                                     /\ Present(requests[s].address)
           /\ requests[s].op = "status" => requests[s].isActive \in BOOLEAN
           /\ requests[s].op = "deletion" => requests[s].isDeleted \in BOOLEAN
           /\ requests[s].op = "password" => requests[s].password \in Chosen
  BY DEF Inv, TypeOK, Idle, Registering, Changing, Seeding, Changes
-----------------------------------------------------------------------------
(* The inductive step, one lemma for each action that writes.               *)
LEMMA SaveKeeps == ASSUME Inv, NEW s \in Slots, Save(s) PROVE Inv'
<1> DEFINE typed == requests[s].typed
           word == requests[s].password
           row == NewRow(word, FALSE)
           new == {Promise(typed, word, Lower(typed), word)}
<1>1. /\ requests[s] \in Registering
      /\ Become(s, Idle) /\ config' = config /\ configured' = configured
  BY KindsApart DEF Save
<1>2. typed \in Addresses /\ word \in Stored /\ LongEnough(word)
  BY <1>1 DEF Registering, Stored, Chosen, Acceptable
<1>3. /\ Lower(typed) \in Addresses /\ ~Lower(typed).capital
      /\ row \in Rows /\ row # None /\ row.password = word /\ ~row.isSystem
  BY <1>2, LowerFits, RowFits
<1>4. CASE UNCHANGED <<accounts, promised>>
  <2>1. Sound'
    BY <1>1, <1>4, IdleSound, Becomes DEF Present
  <2> QED
    BY <1>1, <1>4, <2>1 DEF Inv, TypeOK, Converted, Kept, Trusted, Present, Request, Sound
<1>5. CASE Replace(Lower(typed), row, new)
  <2>1. configured \subseteq Addresses /\ config' \in Configs \cup {None}
    BY <1>1 DEF Inv, TypeOK
  <2>2. \A c \in new : c.address = Lower(typed) /\ row.password = c.hash /\ Trusted(c, configured')
    <3> DEFINE c == Promise(typed, word, Lower(typed), word)
    <3>1. c.address = Lower(typed) /\ c.hash = word /\ Trusted(c, configured')
      BY <1>2, PromiseFits
    <3> HIDE DEF c, row, word, typed
    <3> QED
      BY <1>3, <3>1 DEF c
  <2> HIDE DEF row, typed, word, new
  <2>3. /\ accounts' \in [Addresses -> Rows \cup {None}]
        /\ \A c \in promised' : /\ c.address \in Addresses /\ Present(c.address)'
                                /\ accounts'[c.address].password = c.hash
        /\ \A b \in Addresses : Present(b)' /\ accounts'[b].isSystem => b \in configured'
        /\ Converted' /\ Kept'
        /\ \A b \in Addresses : Present(b) => Present(b)'
    BY <1>1, <1>3, <1>5, <2>1, <2>2, Replaced
  <2>4. Sound'
    BY <1>1, <2>3, IdleSound, Becomes
  <2> QED
    BY <1>1, <2>1, <2>3, <2>4 DEF Inv, TypeOK, Request, Present, Sound
<1> QED
  BY <1>4, <1>5 DEF Save

(* A new password in a row that stays as it is otherwise.                    *)
LEMMA SetPasswordKeeps == ASSUME Inv, NEW s \in Slots, SetPassword(s) PROVE Inv'
<1> DEFINE a == requests[s].address
           word == requests[s].password
           row == [accounts[a] EXCEPT !.password = word]
           new == {Promise(a, word, a, word)}
<1>1. /\ Become(s, Idle) /\ config' = config /\ configured' = configured
      /\ Replace(a, row, new)
  BY DEF SetPassword
<1>2. /\ a \in Addresses /\ Present(a) /\ word \in Chosen
      /\ word \in Stored /\ LongEnough(word)
  BY KindsApart, LengthAssumption DEF SetPassword, Changes, Stored, Chosen, Acceptable
<1>3. accounts[a] \in Rows
  BY <1>2 DEF Inv, TypeOK, Present
<1>4. row \in Rows /\ row # None /\ row.isSystem = accounts[a].isSystem
      /\ row.password = word
  <2>1. accounts[a].isSystem \in BOOLEAN
    BY <1>3 DEF Rows
  <2>2. row \in Rows /\ row # None
    BY <1>2, <1>3, <2>1, RowStays
  <2> QED
    BY <1>3, <2>2 DEF Rows
<1>5. /\ configured \subseteq Addresses /\ config' \in Configs \cup {None}
      /\ row.isSystem => a \in configured'
      /\ a.capital => a \in configured'
  BY <1>1, <1>2, <1>4 DEF Inv, TypeOK, Converted
<1>6. \A c \in new : c.address = a /\ row.password = c.hash /\ Trusted(c, configured')
  BY <1>2, <1>4, PromiseFits
<1> HIDE DEF a, word, row, new
<1>7. /\ accounts' \in [Addresses -> Rows \cup {None}]
      /\ \A c \in promised' : /\ c.address \in Addresses /\ Present(c.address)'
                              /\ accounts'[c.address].password = c.hash
      /\ \A b \in Addresses : Present(b)' /\ accounts'[b].isSystem => b \in configured'
      /\ Converted' /\ Kept'
      /\ \A b \in Addresses : Present(b) => Present(b)'
  BY <1>1, <1>2, <1>4, <1>5, <1>6, Replaced
<1>8. Sound'
  BY <1>1, <1>7, IdleSound, Becomes
<1> QED
  BY <1>1, <1>5, <1>7, <1>8 DEF Inv, TypeOK, Request, Present, Sound

(* A mark on a row that stays as it is otherwise.                            *)
LEMMA MarkKeeps ==
    ASSUME Inv, NEW s \in Slots, NEW row, Mark(s, row), Changes(requests[s]),
           row \in Rows, row # None,
           row.password = accounts[requests[s].address].password,
           row.isSystem = accounts[requests[s].address].isSystem
    PROVE  Inv'
<1> DEFINE a == requests[s].address
<1>1. /\ accounts' = [accounts EXCEPT ![a] = row] /\ Become(s, Idle)
      /\ UNCHANGED <<config, promised, configured>>
      /\ a \in Addresses /\ Present(a)
  BY KindsApart DEF Mark
<1>2. /\ accounts' \in [Addresses -> Rows \cup {None}]
      /\ \A b \in Addresses : Present(b)' = Present(b)
      /\ \A b \in Addresses : /\ accounts'[b].password = accounts[b].password
                              /\ accounts'[b].isSystem = accounts[b].isSystem
  <2>1. accounts'[a] = row /\ \A b \in Addresses \ {a} : accounts'[b] = accounts[b]
    BY <1>1 DEF Inv, TypeOK
  <2>2. accounts' \in [Addresses -> Rows \cup {None}]
    BY <1>1 DEF Inv, TypeOK
  <2> QED
    BY <1>1, <2>1, <2>2 DEF Present
<1>3. Sound'
  BY <1>1, <1>2, IdleSound, Becomes
<1>4. \A c \in promised' : /\ c.address \in Addresses /\ Present(c.address)'
                          /\ accounts'[c.address].password = c.hash
  BY <1>1, <1>2 DEF Inv, TypeOK
<1>5. \A b \in Addresses : Present(b)' /\ accounts'[b].isSystem => b \in configured'
  BY <1>1, <1>2 DEF Inv, TypeOK
<1>6. Converted' /\ Kept'
  BY <1>1, <1>2 DEF Inv, Converted, Kept, Trusted
<1> QED
  BY <1>1, <1>2, <1>3, <1>4, <1>5, <1>6 DEF Inv, TypeOK, Request, Sound

LEMMA MarksKeep ==
    ASSUME Inv, NEW s \in Slots, UpdateUserStatus(s) \/ UpdateDeletedAt(s)
    PROVE  Inv'
<1> DEFINE a == requests[s].address
<1>1. Changes(requests[s])
  BY DEF UpdateUserStatus, UpdateDeletedAt, Changes
<1>2. accounts[a] \in Rows
  BY <1>1, KindsApart DEF Inv, TypeOK, Present
<1>3. CASE UpdateUserStatus(s)
  <2> DEFINE row == [accounts[a] EXCEPT !.isActive = requests[s].isActive]
  <2>1. Mark(s, row) /\ requests[s].isActive \in BOOLEAN
    BY <1>3, KindsApart DEF UpdateUserStatus
  <2>2. row \in Rows /\ row.password = accounts[a].password
        /\ row.isSystem = accounts[a].isSystem
    BY <1>2, <2>1 DEF Rows
  <2> HIDE DEF row
  <2> QED
    BY <1>1, <2>1, <2>2, NoneAssumption, MarkKeeps
<1>4. CASE UpdateDeletedAt(s)
  <2> DEFINE row == [accounts[a] EXCEPT !.isDeleted = requests[s].isDeleted]
  <2>1. Mark(s, row) /\ requests[s].isDeleted \in BOOLEAN
    BY <1>4, KindsApart DEF UpdateDeletedAt
  <2>2. row \in Rows /\ row.password = accounts[a].password
        /\ row.isSystem = accounts[a].isSystem
    BY <1>2, <2>1 DEF Rows
  <2> HIDE DEF row
  <2> QED
    BY <1>1, <2>1, <2>2, NoneAssumption, MarkKeeps
<1> QED
  BY <1>3, <1>4

LEMMA RemoveKeeps == ASSUME Inv, NEW a \in Addresses, Remove(a) PROVE Inv'
<1>1. /\ Replace(a, None, {}) /\ configured' = configured
      /\ config' = config /\ configured \subseteq Addresses
      /\ config' \in Configs \cup {None}
  BY DEF Remove, Inv, TypeOK
<1>2. /\ accounts' \in [Addresses -> Rows \cup {None}]
      /\ \A c \in promised' : /\ c.address \in Addresses /\ Present(c.address)'
                              /\ accounts'[c.address].password = c.hash
      /\ \A b \in Addresses : Present(b)' /\ accounts'[b].isSystem => b \in configured'
      /\ Converted' /\ Kept'
  BY <1>1, Replaced
<1>3. \A b \in Addresses \ {a} : Present(b) => Present(b)'
  BY <1>1 DEF Replace, Present, Inv, TypeOK
<1>4. \A t \in Slots : requests'[t] = IF Changes(requests[t]) /\ requests[t].address = a
                                       THEN Idle ELSE requests[t]
  BY DEF Remove
<1>5. requests' \in [Slots -> Request]
  BY IdleSound DEF Remove, Inv, TypeOK, Request
<1>6. ASSUME NEW t \in Slots
      PROVE  /\ ServedBy(requests[t])' => config' # None
             /\ Changes(requests[t])' => Present(requests[t].address)'
  <2>1. CASE requests'[t] = Idle
    BY <2>1, IdleSound DEF ServedBy, Changes
  <2>2. CASE requests'[t] = requests[t] /\ ~(Changes(requests[t]) /\ requests[t].address = a)
    BY <1>1, <1>3, <2>2, KindsApart DEF Inv, TypeOK, ServedBy, Changes
  <2> QED
    BY <1>4, <2>1, <2>2
<1> QED
  BY <1>1, <1>2, <1>5, <1>6 DEF Inv, TypeOK, Present, Request, ServedBy, Changes

(* What a seed leaves of a row, or inserts.                                  *)
LEMMA UpsertedFits ==
    ASSUME Inv, NEW a \in Addresses, NEW w \in Stored, NEW b \in BOOLEAN
    PROVE  /\ Upserted(a, w, b) \in Rows /\ Upserted(a, w, b) # None
           /\ Upserted(a, w, b).password = w /\ Upserted(a, w, b).isSystem = b
<1>1. CASE Present(a)
  <2>1. accounts[a] \in Rows
    BY <1>1 DEF Inv, TypeOK, Present
  <2>2. Upserted(a, w, b) = [accounts[a] EXCEPT !.password = w, !.isActive = TRUE,
                                               !.isSystem = b]
    BY <1>1 DEF Upserted
  <2>3. Upserted(a, w, b) \in Rows
    BY <2>1, <2>2 DEF Rows
  <2> QED
    BY <2>1, <2>2, <2>3, NoneAssumption DEF Rows
<1>2. CASE ~Present(a)
  BY <1>2, RowFits DEF Upserted
<1> QED
  BY <1>1, <1>2

LEMMA UpsertAdminKeeps == ASSUME Inv, NEW s \in Slots, UpsertAdmin(s) PROVE Inv'
<1> DEFINE admin == requests[s].admin
           row == Upserted(admin.email, admin.password, TRUE)
           left == [requests[s] EXCEPT !.admin = None]
           new == {Promise(admin.email, admin.given, admin.email, admin.password)}
<1>1. /\ requests[s] \in Seeding /\ admin \in Admins /\ admin # None
      /\ Become(s, left) /\ config' = config
      /\ configured' = configured \cup {admin.email}
      /\ Replace(admin.email, row, new)
  BY KindsApart DEF UpsertAdmin, Seeding
<1>2. /\ admin.email \in Addresses /\ admin.password \in Stored
      /\ admin.password = Trimmed(admin.given) /\ LongEnough(admin.given)
  BY <1>1, AdminFits
<1>3. row \in Rows /\ row # None /\ row.password = admin.password
  BY <1>2, UpsertedFits
<1>4. left \in Request /\ (ServedBy(left) => config # None) /\ ~Changes(left)
  BY <1>1 DEF Request, Seeding, Inv, TypeOK, ServedBy, Changes
<1>5. \A c \in new : c.address = admin.email /\ row.password = c.hash /\ Trusted(c, configured')
  <2> DEFINE c == Promise(admin.email, admin.given, admin.email, admin.password)
  <2>1. c.address = admin.email /\ c.hash = admin.password /\ Trusted(c, configured')
    <3>1. /\ admin.email \in configured'
          /\ \/ admin.password = admin.given
             \/ admin.given # Trimmed(admin.given)
      BY <1>1, <1>2
    <3> HIDE DEF admin
    <3> QED
      BY <1>2, <3>1, PromiseFits DEF c
  <2> HIDE DEF c, row, admin
  <2> QED
    BY <1>3, <2>1 DEF c
<1>6. configured \subseteq configured' /\ configured' \subseteq Addresses
      /\ admin.email \in configured'
  BY <1>1, <1>2 DEF Inv, TypeOK
<1> HIDE DEF row, admin, new, left
<1>7. /\ accounts' \in [Addresses -> Rows \cup {None}]
      /\ \A c \in promised' : /\ c.address \in Addresses /\ Present(c.address)'
                              /\ accounts'[c.address].password = c.hash
      /\ \A b \in Addresses : Present(b)' /\ accounts'[b].isSystem => b \in configured'
      /\ Converted' /\ Kept'
      /\ \A b \in Addresses : Present(b) => Present(b)'
  BY <1>1, <1>2, <1>3, <1>5, <1>6, Replaced
<1>8. Sound'
  BY <1>1, <1>4, <1>7, Becomes
<1>9. config' \in Configs \cup {None}
  BY <1>1 DEF Inv, TypeOK
<1> QED
  BY <1>6, <1>7, <1>8, <1>9 DEF Inv, TypeOK, Request, Present, Sound

LEMMA UpsertStudentKeeps ==
    ASSUME Inv, NEW s \in Slots, NEW p \in DemoPeople, UpsertStudent(s, p)
    PROVE  Inv'
<1> DEFINE a == [person |-> p, capital |-> FALSE]
           row == Upserted(a, DemoPassword, FALSE)
           left == [requests[s] EXCEPT !.left = @ \ {p}]
           new == {Promise(a, DemoPassword, a, DemoPassword)}
<1>1. /\ requests[s] \in Seeding
      /\ Become(s, left) /\ config' = config /\ configured' = configured
      /\ Replace(a, row, new)
  BY KindsApart DEF UpsertStudent
<1>2. a \in Addresses /\ ~a.capital
  BY DemoPeopleAssumption DEF Addresses
<1>3. /\ row \in Rows /\ row # None /\ ~row.isSystem /\ row.password = DemoPassword
  <2>1. DemoPassword \in Stored
    BY DEF Stored
  <2> HIDE DEF a
  <2> QED
    BY <1>2, <2>1, UpsertedFits
<1>4. left \in Request /\ (ServedBy(left) => config # None) /\ ~Changes(left)
  BY <1>1 DEF Request, Seeding, Inv, TypeOK, ServedBy, Changes
<1>5. \A c \in new : c.address = a /\ row.password = c.hash /\ Trusted(c, configured')
  <2> DEFINE c == Promise(a, DemoPassword, a, DemoPassword)
  <2>1. c.address = a /\ c.hash = DemoPassword /\ Trusted(c, configured')
    BY LengthAssumption, PromiseFits
  <2> HIDE DEF c, row, a
  <2> QED
    BY <1>3, <2>1 DEF c
<1>6. configured \subseteq Addresses
  BY DEF Inv, TypeOK
<1> HIDE DEF row, a, new, left
<1>7. /\ accounts' \in [Addresses -> Rows \cup {None}]
      /\ \A c \in promised' : /\ c.address \in Addresses /\ Present(c.address)'
                              /\ accounts'[c.address].password = c.hash
      /\ \A b \in Addresses : Present(b)' /\ accounts'[b].isSystem => b \in configured'
      /\ Converted' /\ Kept'
      /\ \A b \in Addresses : Present(b) => Present(b)'
  BY <1>1, <1>2, <1>3, <1>5, <1>6, Replaced
<1>8. Sound'
  BY <1>1, <1>4, <1>7, Becomes
<1>9. config' \in Configs \cup {None}
  BY <1>1 DEF Inv, TypeOK
<1> QED
  BY <1>1, <1>6, <1>7, <1>8, <1>9 DEF Inv, TypeOK, Request, Present, Sound

(* The actions that write no account.                                       *)
LEMMA OthersKeep ==
    ASSUME Inv, UNCHANGED <<accounts, promised, configured>>,
           config' \in Configs \cup {None}, Sound'
    PROVE  Inv'
  BY DEF Inv, TypeOK, Converted, Kept, Trusted, Present, Request, Sound

LEMMA StartKeeps ==
    ASSUME Inv, NEW s \in Slots, NEW r \in Request, Become(s, r),
           UNCHANGED <<config, accounts, promised, configured>>,
           ServedBy(r) => config # None, Changes(r) => Present(r.address)
    PROVE  Inv'
<1>1. \A b \in Addresses : Present(b) => Present(b)'
  BY DEF Present
<1>2. Changes(r) => Present(r.address)'
  BY DEF Present
<1>3. Sound'
  BY <1>1, <1>2, Becomes
<1> QED
  BY <1>3, OthersKeep DEF Inv, TypeOK

LEMMA StartSeedKeeps ==
    ASSUME Inv, NEW s \in Slots, NEW b \in BOOLEAN, NEW a \in Admins \cup {None},
           NEW left \in SUBSET DemoPeople, StartSeed(s, b, a, left),
           b => config # None
    PROVE  Inv'
<1> DEFINE r == [op |-> "seed", byServer |-> b, admin |-> a, left |-> left]
<1>1. r \in Request /\ (ServedBy(r) => config # None) /\ ~Changes(r)
  BY DEF Request, Seeding, ServedBy, Changes
<1>2. /\ Become(s, r) /\ UNCHANGED <<config, accounts, promised, configured>>
  BY DEF StartSeed
<1> HIDE DEF r
<1> QED
  BY <1>1, <1>2, StartKeeps

(* A request about an account begins.                                       *)
LEMMA FindByIdKeeps ==
    ASSUME Inv, NEW s \in Slots, NEW a \in Addresses, NEW r \in Changing,
           r.address = a, Present(a), FindById(s, a, r)
    PROVE  Inv'
<1>1. r \in Request
  BY DEF Request
<1>2. Become(s, r) /\ config # None /\ UNCHANGED <<config, accounts, promised, configured>>
  BY DEF FindById
<1> QED
  BY <1>1, <1>2, StartKeeps

LEMMA InitInv == Init => Inv
<1> SUFFICES ASSUME Init PROVE Inv
  OBVIOUS
<1>1. TypeOK
  BY DEF Init, TypeOK, ServedBy, Changes, Idle, Present
<1>2. Converted /\ Kept
  BY DEF Init, Converted, Kept, Present
<1> QED
  BY <1>1, <1>2 DEF Inv

LEMMA InvStep == Inv /\ [Next]_vars => Inv'
<1> SUFFICES ASSUME Inv, [Next]_vars PROVE Inv'
  OBVIOUS
<1>1. ASSUME NEW env \in Environments, Start(env) PROVE Inv'
  <2>1. Config(env, File) \in Configs /\ Config(env, File) # None
    BY <1>1, NoneAssumption DEF Start, Configs
  <2> QED
    BY <1>1, <2>1, OthersKeep DEF Start, Inv, TypeOK, Request, Sound, Present
<1>2. ASSUME Stop PROVE Inv'
  <2>1. requests' \in [Slots -> Request]
    BY <1>2 DEF Stop, Inv, TypeOK, Request
  <2>2. \A t \in Slots : ~ServedBy(requests'[t]) /\ ~Changes(requests'[t])
    BY <1>2, IdleSound DEF Stop, ServedBy
  <2>3. Sound'
    BY <2>1, <2>2 DEF Sound
  <2> QED
    BY <1>2, <2>3, OthersKeep DEF Stop
<1>3. ASSUME NEW s \in Slots, NEW a \in Addresses, NEW p \in Passwords,
             FindByEmail(s, a, p)
      PROVE  Inv'
  <2>1. PICK repeated \in BOOLEAN :
            Become(s, [op |-> "register", typed |-> a, password |-> p,
                       repeated |-> repeated])
    BY <1>3 DEF FindByEmail
  <2> DEFINE r == [op |-> "register", typed |-> a, password |-> p,
                   repeated |-> repeated]
  <2>2. r \in Request /\ ~Changes(r)
    BY <1>3 DEF Request, Registering, Acceptable, FindByEmail, Changes
  <2> HIDE DEF r
  <2>3. Become(s, r)
    BY <2>1 DEF r
  <2>4. config # None /\ UNCHANGED <<config, accounts, promised, configured>>
    BY <1>3 DEF FindByEmail
  <2> QED
    BY <2>2, <2>3, <2>4, StartKeeps
<1>4. ASSUME NEW s \in Slots, Save(s) PROVE Inv'
  BY <1>4, SaveKeeps
<1>5. ASSUME NEW s \in Slots, NEW a \in Addresses,
             \/ UpdateAdminUserStatus(s, a)
             \/ DeleteAdminUser(s, a)
             \/ RestoreAdminUser(s, a)
             \/ ResetAdminUserPassword(s, a)
      PROVE  Inv'
  <2>1. ASSUME NEW b \in BOOLEAN,
               FindById(s, a, [op |-> "status", address |-> a, isActive |-> b]), Present(a)
        PROVE  Inv'
    <3> DEFINE r == [op |-> "status", address |-> a, isActive |-> b]
    <3>1. r \in Changing /\ r.address = a
      BY DEF Changing
    <3> HIDE DEF r
    <3>2. FindById(s, a, r)
      BY <2>1 DEF r
    <3> QED
      BY <2>1, <3>1, <3>2, FindByIdKeeps
  <2>2. ASSUME NEW b \in BOOLEAN,
               FindById(s, a, [op |-> "deletion", address |-> a, isDeleted |-> b]), Present(a)
        PROVE  Inv'
    <3> DEFINE r == [op |-> "deletion", address |-> a, isDeleted |-> b]
    <3>1. r \in Changing /\ r.address = a
      BY DEF Changing
    <3> HIDE DEF r
    <3>2. FindById(s, a, r)
      BY <2>2 DEF r
    <3> QED
      BY <2>2, <3>1, <3>2, FindByIdKeeps
  <2>3. CASE ResetAdminUserPassword(s, a)
    <3> DEFINE r == [op |-> "password", address |-> a, password |-> TemporaryPassword]
    <3>1. r \in Changing /\ r.address = a
      BY DEF Changing, Chosen
    <3> HIDE DEF r
    <3>2. FindById(s, a, r) /\ Present(a)
      BY <2>3 DEF r, ResetAdminUserPassword
    <3> QED
      BY <3>1, <3>2, FindByIdKeeps
  <2> QED
    BY <1>5, <2>1, <2>2, <2>3 DEF UpdateAdminUserStatus, DeleteAdminUser, RestoreAdminUser
<1>13. ASSUME NEW s \in Slots, NEW a \in Addresses, NEW p \in Passwords,
              ChangeOwnPassword(s, a, p)
       PROVE  Inv'
  <2> DEFINE r == [op |-> "password", address |-> a, password |-> p]
  <2>1. r \in Changing /\ r.address = a
    BY <1>13 DEF Changing, Chosen, Acceptable, ChangeOwnPassword
  <2> HIDE DEF r
  <2>2. FindById(s, a, r) /\ Present(a)
    BY <1>13 DEF r, ChangeOwnPassword
  <2> QED
    BY <2>1, <2>2, FindByIdKeeps
<1>14. ASSUME NEW s \in Slots, UpdateUserStatus(s) \/ UpdateDeletedAt(s) \/ SetPassword(s)
       PROVE  Inv'
  BY <1>14, MarksKeep, SetPasswordKeeps
<1>6. ASSUME NEW a \in Addresses, Remove(a) PROVE Inv'
  BY <1>6, RemoveKeeps
<1>7. ASSUME NEW s \in Slots, NEW env \in Environments,
             BootstrapAuthAdmin(s, env) \/ BootstrapDemoUsers(s, env)
      PROVE  Inv'
  <2>1. Config(env, File).admin \in Admins
    BY <1>7 DEF BootstrapAuthAdmin, BootstrapDemoUsers, Admins, Configs
  <2>2. CASE BootstrapAuthAdmin(s, env)
    <3>1. StartSeed(s, FALSE, Config(env, File).admin, {})
      BY <2>2 DEF BootstrapAuthAdmin
    <3>2. {} \in SUBSET DemoPeople
      OBVIOUS
    <3> DEFINE none == {}
    <3>3. none \in SUBSET DemoPeople /\ StartSeed(s, FALSE, Config(env, File).admin, none)
      BY <3>1, <3>2
    <3> HIDE DEF none
    <3> QED
      BY <2>1, <3>3, StartSeedKeeps
  <2>3. CASE BootstrapDemoUsers(s, env)
    <3>1. StartSeed(s, FALSE, Config(env, File).admin, DemoPeople)
      BY <2>3 DEF BootstrapDemoUsers
    <3> QED
      BY <2>1, <3>1, StartSeedKeeps
  <2> QED
    BY <1>7, <2>2, <2>3
<1>8. ASSUME NEW s \in Slots, SeedDemoUsers(s) PROVE Inv'
  <2>1. config # None /\ config.admin \in Admins
    BY <1>8 DEF SeedDemoUsers, Admins, Inv, TypeOK
  <2> QED
    BY <1>8, <2>1, StartSeedKeeps DEF SeedDemoUsers
<1>9. ASSUME NEW s \in Slots, UpsertAdmin(s) PROVE Inv'
  BY <1>9, UpsertAdminKeeps
<1>10. ASSUME NEW s \in Slots, End(s) PROVE Inv'
  BY <1>10, IdleSound, StartKeeps DEF End
<1>11. ASSUME NEW s \in Slots, NEW p \in DemoPeople, UpsertStudent(s, p) PROVE Inv'
  BY <1>11, UpsertStudentKeeps
<1>12. CASE UNCHANGED vars
  BY <1>12, OthersKeep DEF vars, Inv, TypeOK, Request, Sound, Present
<1> QED
  BY <1>1, <1>2, <1>3, <1>4, <1>5, <1>6, <1>7, <1>8, <1>9, <1>10, <1>11, <1>12, <1>13,
     <1>14 DEF Next

THEOREM Inductive == Spec => []Inv
  BY InitInv, InvStep, PTL DEF Spec

-----------------------------------------------------------------------------
(* The properties.                                                          *)

(* Every promise has its account with what was stored of it, and the rest   *)
(* of the types hold, whatever runs at the same time.                       *)
THEOREM TypeCorrect == Spec => []TypeOK
  BY Inductive, PTL DEF Inv

(* A person has a second account only through a configured address with     *)
(* capital letters: two addresses of one person differ in their capitals.   *)
THEOREM OnePersonOneAccountHolds == Spec => []OnePersonOneAccount
<1>1. Inv => OnePersonOneAccount
  BY DEF Inv, Converted, OnePersonOneAccount, Addresses
<1> QED
  BY <1>1, Inductive, PTL

(* Credentials that were given open the account they were given for, with    *)
(* the exceptions the property names and no other.                          *)
THEOREM GivenCredentialsOpenHolds == Spec => []GivenCredentialsOpen
<1>1. Inv => GivenCredentialsOpen
  <2> SUFFICES ASSUME Inv, config # None, NEW c \in promised,
                      ~Closed(accounts[c.address]), c.typed = c.address,
                      ~(config.refreshTtl > LongestSpan),
                      ~(c.password # Trimmed(c.password) /\ c.address \in configured)
               PROVE  SignIn(c.typed, c.password).result = "accepted"
    BY DEF GivenCredentialsOpen
  <2>1. accounts[c.typed] # None /\ accounts[c.typed].password = c.hash
    BY DEF Inv, TypeOK, Present
  <2>2. LongEnough(c.password) /\ c.hash = c.password
    BY DEF Inv, Kept, Trusted
  <2> QED
    BY <2>1, <2>2 DEF SignIn, Answer
<1> QED
  BY <1>1, Inductive, PTL

(* No access token outlives its session, a day, or the end of time.          *)
THEOREM LifetimesBoundedHolds == Spec => []LifetimesBounded
<1>1. Inv => LifetimesBounded
  <2> SUFFICES ASSUME Inv, config # None, NEW a \in Addresses, NEW p \in Given,
                      SignIn(a, p).result = "accepted"
               PROVE  /\ SignIn(a, p).accessTtl \in 1..MaxAccessTtl
                      /\ SignIn(a, p).accessTtl <= SignIn(a, p).refreshTtl
                      /\ SignIn(a, p).refreshTtl <= LongestSpan
    BY DEF LifetimesBounded
  <2>1. Bounded(config)
    BY ConfigBounded DEF Inv, TypeOK
  <2>2. ~(config.refreshTtl > LongestSpan)
    BY DEF SignIn, Answer
  <2>3. /\ SignIn(a, p).accessTtl = config.accessTtl
        /\ SignIn(a, p).refreshTtl = config.refreshTtl
    BY DEF SignIn, Answer
  <2> QED
    BY <2>1, <2>2, <2>3, LongestSpanAssumption DEF Bounded
<1> QED
  BY <1>1, Inductive, PTL

(* Only a step about that very address, or a reset, touches an account.      *)
THEOREM RegistrationTakesNothingOverHolds == Spec => RegistrationTakesNothingOver
<1> DEFINE Right(a) ==
        Present(a) /\ accounts'[a] # accounts[a] =>
          \/ accounts'[a] = None /\ ~accounts[a].isSystem
          \/ \E s \in Slots : requests'[s] # requests[s] /\
                \/ Changes(requests[s]) /\ requests[s].address = a
                \/ requests[s].op = "seed" /\
                      \/ requests[s].admin # None /\ requests[s].admin.email = a
                      \/ a.person \in requests[s].left /\ ~a.capital
<1>1. Inv /\ [Next]_vars => \A a \in Addresses : Right(a)
  <2> SUFFICES ASSUME Inv, [Next]_vars, NEW a \in Addresses, Present(a),
                      accounts'[a] # accounts[a]
               PROVE  Right(a)
    OBVIOUS
  <2>1. \A b, row, new : Replace(b, row, new) => b = a /\ accounts'[a] = row
    BY DEF Replace, Inv, TypeOK
  <2>2. \A s \in Slots : \A r : Become(s, r) => requests'[s] = r
    BY DEF Become, Inv, TypeOK
  <2>3. ASSUME NEW s \in Slots, Save(s) PROVE Right(a)
    BY <2>1, <2>3 DEF Save
  <2>4. ASSUME NEW b \in Addresses, Remove(b) PROVE Right(a)
    BY <2>1, <2>4 DEF Remove
  <2>5. ASSUME NEW s \in Slots, UpsertAdmin(s) PROVE Right(a)
    <3>1. requests'[s] = [requests[s] EXCEPT !.admin = None] /\ requests[s] \in Seeding
      BY <2>2, <2>5, KindsApart DEF UpsertAdmin
    <3>2. requests'[s].admin = None /\ requests[s].admin # None
      BY <2>5, <3>1 DEF UpsertAdmin, Seeding
    <3> QED
      BY <2>1, <2>5, <3>2 DEF UpsertAdmin
  <2>6. ASSUME NEW s \in Slots, NEW p \in DemoPeople, UpsertStudent(s, p) PROVE Right(a)
    <3>1. /\ requests'[s] = [requests[s] EXCEPT !.left = requests[s].left \ {p}]
          /\ requests[s] \in Seeding
      BY <2>2, <2>6, KindsApart DEF UpsertStudent
    <3>2. requests'[s].left = requests[s].left \ {p} /\ p \in requests[s].left
      BY <2>6, <3>1 DEF UpsertStudent, Seeding
    <3>3. requests'[s] # requests[s]
      BY <3>2
    <3>4. a = [person |-> p, capital |-> FALSE]
      BY <2>1, <2>6 DEF UpsertStudent
    <3>5. a.person \in requests[s].left /\ ~a.capital /\ requests[s].op = "seed"
      BY <2>6, <3>2, <3>4 DEF UpsertStudent
    <3> QED
      BY <3>3, <3>5
  <2>7. ASSUME NEW s \in Slots, UpdateUserStatus(s) \/ UpdateDeletedAt(s) \/ SetPassword(s)
        PROVE  Right(a)
    <3>1. Changes(requests[s]) /\ requests'[s] = Idle
      BY <2>2, <2>7 DEF UpdateUserStatus, UpdateDeletedAt, SetPassword, Mark, Changes
    <3>2. requests'[s] # requests[s]
      BY <3>1, IdleSound
    <3>3. requests[s].address = a
      BY <2>1, <2>7 DEF UpdateUserStatus, UpdateDeletedAt, SetPassword, Mark, Inv, TypeOK
    <3> QED
      BY <3>1, <3>2, <3>3
  <2>8. accounts' # accounts
    OBVIOUS
  <2> QED
    BY <2>3, <2>4, <2>5, <2>6, <2>7, <2>8
       DEF Next, vars, Start, Stop, FindByEmail, FindById, UpdateAdminUserStatus,
           DeleteAdminUser, RestoreAdminUser, ResetAdminUserPassword, ChangeOwnPassword,
           BootstrapAuthAdmin, BootstrapDemoUsers, SeedDemoUsers, StartSeed, End
<1> QED
  BY <1>1, Inductive, PTL DEF Spec, RegistrationTakesNothingOver
=============================================================================
