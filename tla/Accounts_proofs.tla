-------------------------- MODULE Accounts_proofs ---------------------------
(***************************************************************************)
(* Proofs about Accounts for any number of requests, names, passwords and  *)
(* ids.  The invariant is IdentityStable; it is not inductive by itself,   *)
(* because a registration could hand out an id an old token still carries. *)
(* The strengthening says that every id that occurs anywhere has been      *)
(* handed out already, and that ids are unique.                            *)
(***************************************************************************)
EXTENDS Accounts, TLAPS

\* Two rows with one id are one row (PRIMARY KEY).
IdsUnique == \A u, v \in users : u.id = v.id => u = v

\* Every id in a row, a token, a request or a preset has been handed out.
IdsIssued ==
  /\ \A u \in users : u.id <= lastId
  /\ \A i \in Identities : i.uid <= lastId
  /\ \A p \in presets : p.uid <= lastId

\* There is an active administrator.
AdminExists == \E u \in users : u.role = "admin" /\ u.status = "active"

IInv == /\ TypeOK
        /\ IdsUnique
        /\ IdsIssued
        /\ AdminExists
        /\ IdentityStable
        /\ AdminBacked
        /\ PresetOwner

-----------------------------------------------------------------------------
(* Rows after an UPDATE.                                                   *)

\* NewRow continues OldRow: same account, and not back from active to pending.
Continues(new, old) ==
  /\ new.id = old.id /\ new.name = old.name /\ new.role = old.role
  /\ old.status = "active" => new.status = "active"

\* An approval rewrites rows in place: it types, and each new row continues an
\* old one and the other way round.
LEMMA ApproveRows ==
  ASSUME users \subseteq UserRow, NEW id \in Ids
  PROVE  /\ SetStatus(id, "active") \subseteq UserRow
         /\ \A v \in SetStatus(id, "active") : \E u \in users :
              v = IF u.id = id THEN [u EXCEPT !.status = "active"] ELSE u
         /\ \A u \in users :
              (IF u.id = id THEN [u EXCEPT !.status = "active"] ELSE u)
                \in SetStatus(id, "active")
BY DEF SetStatus, UserRow

\* The same of a password update.
LEMMA PasswordRows ==
  ASSUME users \subseteq UserRow, NEW id \in Ids, NEW pw \in Passwords
  PROVE  /\ SetPassword(id, pw) \subseteq UserRow
         /\ \A v \in SetPassword(id, pw) : \E u \in users :
              v = IF u.id = id THEN [u EXCEPT !.pw = pw] ELSE u
         /\ \A u \in users :
              (IF u.id = id THEN [u EXCEPT !.pw = pw] ELSE u)
                \in SetPassword(id, pw)
BY DEF SetPassword, UserRow

-----------------------------------------------------------------------------
(* Identities after a step of one request.                                 *)

\* A step that ends a request adds no identity.
LEMMA EndRequest ==
  ASSUME TypeOK, NEW c \in Conns, Goto(c, Idle), tokens' \subseteq tokens
  PROVE  /\ req' \in [Conns -> Request]
         /\ Identities' \subseteq Identities
<1>1. req' \in [Conns -> Request]
  BY DEF TypeOK, Goto, Request
<1>2. \A d \in Conns : d # c => req'[d] = req[d]
  BY DEF TypeOK, Goto
<1>3. req'[c].op = "idle"
  BY DEF TypeOK, Goto, Idle
<1>4. Holding' \subseteq Holding /\ c \notin Holding'
  BY <1>2, <1>3 DEF Holding
<1>5. Identities' \subseteq Identities
  BY <1>2, <1>4 DEF Identities, Holding
<1> QED BY <1>1, <1>5

\* A step to a record that carries an identity adds at most that identity.
LEMMA CarryIdentity ==
  ASSUME TypeOK, NEW c \in Conns, NEW r \in Request, Goto(c, r),
         r.op \in {"issue", "authed", "setpw"}, tokens' = tokens
  PROVE  /\ req' \in [Conns -> Request]
         /\ Identities' \subseteq Identities \cup {r.info}
<1>1. req' \in [Conns -> Request]
  BY DEF TypeOK, Goto
<1>2. \A d \in Conns : d # c => req'[d] = req[d]
  BY DEF TypeOK, Goto
<1>3. req'[c] = r
  BY DEF TypeOK, Goto
<1>4. \A d \in Holding' : d = c \/ d \in Holding
  BY <1>2 DEF Holding
<1>5. Identities' \subseteq Identities \cup {r.info}
  BY <1>2, <1>3, <1>4 DEF Identities, Holding
<1> QED BY <1>1, <1>5

-----------------------------------------------------------------------------
(* The three ways a step can touch the tables and the identities.          *)

\* Rows are rewritten or stay, and no identity is new.
LEMMA RowsContinue ==
  ASSUME IInv, TypeOK', lastId' = lastId,
         \A v \in users' : \E u \in users : Continues(v, u),
         \A u \in users : u.role = "admin" /\ u.status = "active" =>
           \E v \in users' : Continues(v, u),
         \A u, v \in users' : u.id = v.id => u = v,
         Identities' \subseteq Identities,
         presets' \subseteq presets
  PROVE  IInv'
<1> USE DEF IInv, Continues
<1>1. IdsUnique' BY DEF IdsUnique
<1>2. IdsIssued'
  <2>1. \A u \in users' : u.id <= lastId' BY DEF IdsIssued
  <2>2. \A i \in Identities' : i.uid <= lastId' BY DEF IdsIssued
  <2>3. \A p \in presets' : p.uid <= lastId' BY DEF IdsIssued
  <2> QED BY <2>1, <2>2, <2>3 DEF IdsIssued
<1>3. AdminExists' BY DEF AdminExists
<1>4. IdentityStable' BY DEF IdentityStable
<1>5. AdminBacked' BY DEF AdminBacked
<1>6. PresetOwner' BY DEF PresetOwner
<1> QED BY <1>1, <1>2, <1>3, <1>4, <1>5, <1>6

\* The tables stay, and a new identity describes an active row.
LEMMA FreshIdentity ==
  ASSUME IInv, TypeOK', UNCHANGED <<users, lastId, presets>>,
         NEW i, Identities' \subseteq Identities \cup {i},
         \E u \in users : u.status = "active" /\ i = InfoOf(u)
  PROVE  IInv'
<1> USE DEF IInv
<1>0. PICK u \in users : u.status = "active" /\ i = InfoOf(u)
  OBVIOUS
<1>1. i.uid = u.id /\ i.name = u.name /\ i.role = u.role
  BY <1>0 DEF InfoOf
<1>2. \A v \in users : v.id = i.uid => v = u
  BY <1>1 DEF IdsUnique
<1>3. i.uid <= lastId
  BY <1>1 DEF IdsIssued
<1>4. IdsIssued' /\ IdsUnique' /\ AdminExists' /\ PresetOwner'
  BY <1>3 DEF IdsIssued, IdsUnique, AdminExists, PresetOwner
<1>5. IdentityStable'
  BY <1>0, <1>1, <1>2 DEF IdentityStable
<1>6. AdminBacked'
  BY <1>0, <1>1 DEF AdminBacked
<1> QED BY <1>4, <1>5, <1>6

-----------------------------------------------------------------------------
\* The invariant holds of the freshly seeded database.
LEMMA InitInv == ASSUME Init PROVE IInv
<1> USE AccountsAssumption DEF Init
<1>1. TypeOK
  BY DEF TypeOK, UserRow, PresetRow, TokenInfo, Ids, Request
<1>2. Holding = {}
  BY DEF Holding, Idle
<1>3. Identities = {}
  BY <1>2 DEF Identities
<1>4. IdsUnique /\ AdminExists /\ PresetOwner
  BY DEF IdsUnique, AdminExists, PresetOwner
<1>5. IdsIssued /\ IdentityStable /\ AdminBacked
  BY <1>3 DEF IdsIssued, IdentityStable, AdminBacked
<1> QED BY <1>1, <1>4, <1>5 DEF IInv

\* A step that leaves every variable alone keeps the invariant.
LEMMA StutterInv == ASSUME IInv, UNCHANGED vars PROVE IInv'
BY DEF IInv, vars, TypeOK, IdsUnique, IdsIssued, AdminExists, IdentityStable,
       AdminBacked, PresetOwner, Identities, Holding

\* A registration takes an id nobody carries.
LEMMA RegisterInv ==
  ASSUME IInv, NEW name \in Names, NEW pw \in Passwords, Register(name, pw)
  PROVE  IInv'
<1> DEFINE n == [id |-> NextId, name |-> name, pw |-> pw,
                 role |-> "user", status |-> "pending"]
<1>0. /\ users' = users \cup {n} /\ lastId' = lastId + 1
      /\ n.id = lastId + 1 /\ n.role = "user" /\ n.status = "pending"
      /\ UNCHANGED <<presets, tokens, req>>
      /\ lastId + 1 <= MaxId
  BY DEF Register, NextId
<1>1. lastId \in Nat /\ lastId <= MaxId
  BY AccountsAssumption DEF IInv, TypeOK
<1>2. TypeOK'
  <2>1. n \in UserRow
    BY <1>0, <1>1, AccountsAssumption DEF UserRow, Ids, NextId
  <2>2. lastId' \in 0 .. MaxId
    BY <1>0, <1>1, AccountsAssumption
  <2> QED BY <1>0, <2>1, <2>2 DEF IInv, TypeOK
<1>3. Identities' = Identities
  BY <1>0 DEF Identities, Holding
<1>4. /\ \A u \in users : u.id \in Int /\ u.id <= lastId
      /\ \A p \in presets : p.uid \in Int /\ p.uid <= lastId
  BY DEF IInv, IdsIssued, TypeOK, UserRow, PresetRow, Ids
<1>5. \A i \in Identities : i.uid \in Int /\ i.uid <= lastId
  <2>1. \A i \in TokenInfo \cup {DoorInfo} : i.uid \in Int
    BY AccountsAssumption DEF TokenInfo, DoorInfo, Ids
  <2>2. Identities \subseteq TokenInfo \cup {DoorInfo}
    BY DEF IInv, TypeOK, Identities, Holding, Request, Idle
  <2> QED BY <2>1, <2>2 DEF IInv, IdsIssued
<1> HIDE DEF n
<1>6. IdsUnique' /\ AdminExists'
  BY <1>0, <1>1, <1>4 DEF IInv, IdsUnique, AdminExists
<1>7. IdsIssued'
  BY <1>0, <1>1, <1>3, <1>4, <1>5 DEF IdsIssued
<1>8. IdentityStable'
  BY <1>0, <1>1, <1>3, <1>5 DEF IInv, IdentityStable
<1>9. AdminBacked'
  BY <1>0, <1>3 DEF IInv, AdminBacked
<1>10. PresetOwner'
  BY <1>0, <1>1, <1>4 DEF IInv, PresetOwner
<1> QED BY <1>2, <1>6, <1>7, <1>8, <1>9, <1>10 DEF IInv

\* The login steps carry over the row that was read, and nothing else.
LEMMA LoginVerifyInv ==
  ASSUME IInv, NEW c \in Conns, LoginVerify(c)
  PROVE  IInv'
<1>0. UNCHANGED <<users, lastId, presets, tokens>>
  BY DEF LoginVerify
<1>1. CASE Goto(c, Idle)
  <2>1. req' \in [Conns -> Request] /\ Identities' \subseteq Identities
    BY <1>0, <1>1, EndRequest DEF IInv
  <2>2. TypeOK'
    BY <1>0, <2>1 DEF IInv, TypeOK
  <2> QED
    BY <1>0, <2>1, <2>2, RowsContinue DEF IInv, Continues, IdsUnique
<1>2. CASE ~ Goto(c, Idle)
  <2>1. PICK u \in LoginRows(req[c].name, req[c].pw) :
          Goto(c, [op |-> "issue", info |-> InfoOf(u)])
    BY <1>2 DEF LoginVerify
  <2>2. u \in users /\ u.status = "active"
    BY DEF LoginRows
  <2>3. InfoOf(u) \in TokenInfo
    BY <2>2 DEF InfoOf, TokenInfo, IInv, TypeOK, UserRow
  <2> DEFINE r == [op |-> "issue", info |-> InfoOf(u)]
  <2>4. r \in Request /\ r.op = "issue" /\ r.info = InfoOf(u)
    BY <2>3 DEF Request
  <2>5. Goto(c, r)
    BY <2>1
  <2> HIDE DEF r
  <2>6. req' \in [Conns -> Request] /\ Identities' \subseteq Identities \cup {InfoOf(u)}
    BY <1>0, <2>4, <2>5, CarryIdentity DEF IInv
  <2>7. TypeOK'
    BY <1>0, <2>6 DEF IInv, TypeOK
  <2> QED
    BY <1>0, <2>2, <2>6, <2>7, FreshIdentity
<1> QED BY <1>1, <1>2

\* A request that only moves identities around keeps the invariant.
LEMMA SameIdentitiesInv ==
  ASSUME IInv, TypeOK', UNCHANGED <<users, lastId, presets>>,
         Identities' \subseteq Identities
  PROVE  IInv'
BY RowsContinue DEF IInv, Continues, IdsUnique

\* The token map receives an identity a login holds already.
LEMMA LoginIssueInv ==
  ASSUME IInv, NEW c \in Conns, LoginIssue(c)
  PROVE  IInv'
<1>0. /\ UNCHANGED <<users, lastId, presets>> /\ Goto(c, Idle)
      /\ req[c].op = "issue" /\ tokens' = tokens \cup {req[c].info}
  BY DEF LoginIssue
<1>1. req[c].info \in TokenInfo
  BY <1>0 DEF IInv, TypeOK, Request, Idle
<1>2. req[c].info \in Identities
  BY <1>0 DEF Identities, Holding
<1>3. req' \in [Conns -> Request]
  BY <1>0 DEF IInv, TypeOK, Goto, Request
<1>4. \A d \in Conns : d # c => req'[d] = req[d]
  BY <1>0 DEF IInv, TypeOK, Goto
<1>5. req'[c].op = "idle"
  BY <1>0 DEF IInv, TypeOK, Goto, Idle
<1>6. Identities' \subseteq Identities
  BY <1>0, <1>2, <1>4, <1>5 DEF Identities, Holding
<1>7. TypeOK'
  BY <1>0, <1>1, <1>3 DEF IInv, TypeOK
<1> QED BY <1>0, <1>6, <1>7, SameIdentitiesInv

\* Tokens without an account and lapsing tokens.
LEMMA TokenInv ==
  ASSUME IInv, DoorLogin \/ \E info \in tokens : TokenLapse(info)
  PROVE  IInv'
<1>0. UNCHANGED <<users, lastId, presets, req>> /\ tokens' \subseteq tokens \cup {DoorInfo}
  BY DEF DoorLogin, TokenLapse
<1>1. TypeOK'
  BY <1>0 DEF IInv, TypeOK
<1>2. Identities' \subseteq Identities \cup {DoorInfo}
  BY <1>0 DEF Identities, Holding
<1>3. /\ DoorInfo.uid = 0 /\ DoorInfo.role # "admin"
      /\ \A u \in users : u.id # 0
      /\ 0 <= lastId
  BY AccountsAssumption DEF DoorInfo, IInv, TypeOK, UserRow, Ids
<1>4. IdsIssued'
  BY <1>0, <1>2, <1>3 DEF IInv, IdsIssued
<1>5. IdentityStable' /\ AdminBacked'
  BY <1>0, <1>2, <1>3 DEF IInv, IdentityStable, AdminBacked
<1> QED
  BY <1>0, <1>1, <1>4, <1>5 DEF IInv, IdsUnique, AdminExists, PresetOwner

\* The steps of a request that end it or replace its record, tables untouched.
LEMMA RequestInv ==
  ASSUME IInv, NEW c \in Conns,
         \/ \E name \in Names, pw \in Passwords : LoginStart(c, name, pw)
         \/ \E info \in tokens : Authenticate(c, info)
         \/ \E old, new \in Passwords : ChangeVerify(c, old, new)
         \/ Answer(c)
  PROVE  IInv'
<1>0. UNCHANGED <<users, lastId, presets, tokens>>
  BY DEF LoginStart, Authenticate, ChangeVerify, Answer
<1>1. CASE \E name \in Names, pw \in Passwords : LoginStart(c, name, pw)
  <2>1. PICK name \in Names, pw \in Passwords : LoginStart(c, name, pw)
    BY <1>1
  <2> DEFINE r == [op |-> "login", name |-> name, pw |-> pw]
  <2>2. r \in Request /\ r.op = "login" /\ Goto(c, r)
    BY <2>1 DEF Request, LoginStart
  <2> HIDE DEF r
  <2>3. req' \in [Conns -> Request]
    BY <2>2 DEF IInv, TypeOK, Goto
  <2>4. \A d \in Holding' : d \in Holding /\ req'[d] = req[d]
    BY <2>2 DEF IInv, TypeOK, Goto, Holding
  <2>5. Identities' \subseteq Identities
    BY <1>0, <2>4 DEF Identities
  <2>6. TypeOK'
    BY <1>0, <2>3 DEF IInv, TypeOK
  <2> QED BY <1>0, <2>5, <2>6, SameIdentitiesInv
<1>2. CASE \E info \in tokens : Authenticate(c, info)
  <2>1. PICK info \in tokens : Authenticate(c, info)
    BY <1>2
  <2> DEFINE r == [op |-> "authed", info |-> info]
  <2>2. r \in Request /\ r.op = "authed" /\ r.info = info /\ Goto(c, r)
    BY <2>1 DEF Request, Authenticate, IInv, TypeOK
  <2>3. info \in Identities
    BY DEF Identities
  <2> HIDE DEF r
  <2>4. req' \in [Conns -> Request] /\ Identities' \subseteq Identities
    BY <1>0, <2>2, <2>3, CarryIdentity DEF IInv
  <2>5. TypeOK'
    BY <1>0, <2>4 DEF IInv, TypeOK
  <2> QED BY <1>0, <2>4, <2>5, SameIdentitiesInv
<1>3. CASE \E old, new \in Passwords : ChangeVerify(c, old, new)
  <2>1. PICK old \in Passwords, new \in Passwords : ChangeVerify(c, old, new)
    BY <1>3
  <2>2. CASE Goto(c, Idle)
    <3>1. req' \in [Conns -> Request] /\ Identities' \subseteq Identities
      BY <1>0, <2>2, EndRequest DEF IInv
    <3>2. TypeOK'
      BY <1>0, <3>1 DEF IInv, TypeOK
    <3> QED BY <1>0, <3>1, <3>2, SameIdentitiesInv
  <2>3. CASE ~ Goto(c, Idle)
    <3> DEFINE r == [op |-> "setpw", info |-> req[c].info, pw |-> new]
    <3>1. req[c].op = "authed" /\ req[c].info.uid # 0 /\ Goto(c, r)
      BY <2>1, <2>3 DEF ChangeVerify, AccountRequest
    <3>2. req[c].info \in TokenInfo
      BY <3>1 DEF IInv, TypeOK, Request, Idle, DoorInfo
    <3>3. r \in Request /\ r.op = "setpw" /\ r.info = req[c].info
      BY <3>2 DEF Request
    <3>4. req[c].info \in Identities
      BY <3>1 DEF Identities, Holding
    <3> HIDE DEF r
    <3>5. req' \in [Conns -> Request] /\ Identities' \subseteq Identities
      BY <1>0, <3>1, <3>3, <3>4, CarryIdentity DEF IInv
    <3>6. TypeOK'
      BY <1>0, <3>5 DEF IInv, TypeOK
    <3> QED BY <1>0, <3>5, <3>6, SameIdentitiesInv
  <2> QED BY <2>2, <2>3
<1>4. CASE Answer(c)
  <2>1. req' \in [Conns -> Request] /\ Identities' \subseteq Identities
    BY <1>0, <1>4, EndRequest DEF IInv, Answer
  <2>2. TypeOK'
    BY <1>0, <2>1 DEF IInv, TypeOK
  <2> QED BY <1>0, <2>1, <2>2, SameIdentitiesInv
<1> QED BY <1>1, <1>2, <1>3, <1>4

\* An approval and a password update rewrite rows of the same accounts.
LEMMA UpdateInv ==
  ASSUME IInv, NEW c \in Conns, NEW id \in Ids, NEW pw \in Passwords,
         UNCHANGED <<lastId, presets, tokens>>, Goto(c, Idle),
         \/ users' = SetStatus(id, "active")
         \/ users' = SetPassword(id, pw)
  PROVE  IInv'
<1>0. users \subseteq UserRow
  BY DEF IInv, TypeOK
<1>1. req' \in [Conns -> Request] /\ Identities' \subseteq Identities
  BY EndRequest DEF IInv
<1>2. CASE users' = SetStatus(id, "active")
  <2>1. users' \subseteq UserRow
    BY <1>0, <1>2, ApproveRows
  <2>2. TypeOK'
    BY <1>1, <2>1 DEF IInv, TypeOK
  <2> DEFINE f(u) == IF u.id = id THEN [u EXCEPT !.status = "active"] ELSE u
  <2>3. \A u \in users : Continues(f(u), u)
    BY <1>0 DEF Continues, UserRow
  <2>4. /\ \A v \in users' : \E u \in users : v = f(u)
        /\ \A u \in users : f(u) \in users'
    BY <1>0, <1>2, ApproveRows
  <2> HIDE DEF f
  <2>5. \A u, v \in users' : u.id = v.id => u = v
    BY <2>3, <2>4 DEF IInv, IdsUnique, Continues
  <2> QED
    BY <1>1, <2>2, <2>3, <2>4, <2>5, RowsContinue
<1>3. CASE users' = SetPassword(id, pw)
  <2>1. users' \subseteq UserRow
    BY <1>0, <1>3, PasswordRows
  <2>2. TypeOK'
    BY <1>1, <2>1 DEF IInv, TypeOK
  <2> DEFINE f(u) == IF u.id = id THEN [u EXCEPT !.pw = pw] ELSE u
  <2>3. \A u \in users : Continues(f(u), u)
    BY <1>0 DEF Continues, UserRow
  <2>4. /\ \A v \in users' : \E u \in users : v = f(u)
        /\ \A u \in users : f(u) \in users'
    BY <1>0, <1>3, PasswordRows
  <2> HIDE DEF f
  <2>5. \A u, v \in users' : u.id = v.id => u = v
    BY <2>3, <2>4 DEF IInv, IdsUnique, Continues
  <2> QED
    BY <1>1, <2>2, <2>3, <2>4, <2>5, RowsContinue
<1> QED BY <1>2, <1>3

\* A rejection removes no active row, a deletion no administrator.
LEMMA RemoveInv ==
  ASSUME IInv, NEW c \in Conns, NEW id \in Ids, Reject(c, id) \/ Delete(c, id)
  PROVE  IInv'
<1>0. /\ UNCHANGED <<lastId, tokens>> /\ Goto(c, Idle)
      /\ users' \subseteq users /\ presets' \subseteq presets
  BY DEF Reject, Delete, AdminRequest
<1>1. \A u \in users : u.role = "admin" /\ u.status = "active" => u \in users'
  BY DEF Reject, Delete, Rejectable, Deletable
<1>2. req' \in [Conns -> Request] /\ Identities' \subseteq Identities
  BY <1>0, EndRequest DEF IInv
<1>3. TypeOK'
  BY <1>0, <1>2 DEF IInv, TypeOK
<1>4. \A u \in users : Continues(u, u)
  BY DEF Continues
<1>5. \A u, v \in users' : u.id = v.id => u = v
  BY <1>0 DEF IInv, IdsUnique
<1> QED
  BY <1>0, <1>1, <1>2, <1>3, <1>4, <1>5, RowsContinue

\* A preset is saved under the name its identity carries.
LEMMA PresetInv ==
  ASSUME IInv, NEW c \in Conns, NEW label \in PresetNames,
         SavePreset(c, label) \/ DeletePreset(c, label)
  PROVE  IInv'
<1> DEFINE info == req[c].info
           p == [uid |-> info.uid, username |-> info.name, name |-> label]
<1>0. /\ UNCHANGED <<users, lastId, tokens>> /\ Goto(c, Idle)
      /\ req[c].op = "authed" /\ info.uid # 0
      /\ presets' \subseteq presets \cup {p}
  BY DEF SavePreset, DeletePreset, AccountRequest
<1>1. info \in Identities
  BY <1>0 DEF Identities, Holding
<1>2. info \in TokenInfo
  BY <1>0 DEF IInv, TypeOK, Request, Idle, DoorInfo
<1>3. p \in PresetRow /\ p.uid = info.uid /\ p.username = info.name
  BY <1>2 DEF PresetRow, TokenInfo
<1> HIDE DEF p
<1>4. req' \in [Conns -> Request] /\ Identities' \subseteq Identities
  BY <1>0, EndRequest DEF IInv
<1>5. TypeOK'
  BY <1>0, <1>3, <1>4 DEF IInv, TypeOK
<1> HIDE DEF info
<1>6. IdsIssued'
  BY <1>0, <1>1, <1>3, <1>4 DEF IInv, IdsIssued
<1>7. PresetOwner'
  BY <1>0, <1>1, <1>3 DEF IInv, PresetOwner, IdentityStable
<1>8. IdentityStable' /\ AdminBacked'
  BY <1>0, <1>4 DEF IInv, IdentityStable, AdminBacked
<1>9. IdsUnique' /\ AdminExists'
  BY <1>0 DEF IInv, IdsUnique, AdminExists
<1> QED BY <1>5, <1>6, <1>7, <1>8, <1>9 DEF IInv

\* While an administrator exists, seedAdmin does nothing.
LEMMA SeededSame == ASSUME IInv PROVE Seeded = users
BY DEF IInv, AdminExists, Seeded

\* A restart only forgets identities.
LEMMA RestartInv == ASSUME IInv, Restart PROVE IInv'
<1>0. UNCHANGED <<users, lastId, presets>> /\ tokens' = {}
      /\ req' = [c \in Conns |-> Idle]
  BY SeededSame DEF Restart
<1>1. TypeOK'
  BY <1>0 DEF IInv, TypeOK, Request
<1>2. Identities' \subseteq Identities
  BY <1>0 DEF Identities, Holding, Idle
<1> QED BY <1>0, <1>1, <1>2, SameIdentitiesInv

-----------------------------------------------------------------------------
\* Every step keeps the invariant: one case per action.
LEMMA NextInv == ASSUME IInv, [Next]_vars PROVE IInv'
<1>1. CASE \E name \in Names, pw \in Passwords : Register(name, pw)
  BY <1>1, RegisterInv
<1>2. CASE DoorLogin \/ \E info \in tokens : TokenLapse(info)
  BY <1>2, TokenInv
<1>3. CASE Restart
  BY <1>3, RestartInv
<1>4. ASSUME NEW c \in Conns,
             \/ \E name \in Names, pw \in Passwords : LoginStart(c, name, pw)
             \/ \E info \in tokens : Authenticate(c, info)
             \/ \E old, new \in Passwords : ChangeVerify(c, old, new)
             \/ Answer(c)
      PROVE  IInv'
  BY <1>4, RequestInv
<1>5. ASSUME NEW c \in Conns, LoginVerify(c) PROVE IInv'
  BY <1>5, LoginVerifyInv
<1>6. ASSUME NEW c \in Conns, LoginIssue(c) PROVE IInv'
  BY <1>6, LoginIssueInv
<1>7. ASSUME NEW c \in Conns, NEW id \in Ids, Approve(c, id) PROVE IInv'
  BY <1>7, AccountsAssumption, UpdateInv DEF Approve, AdminRequest
<1>8. ASSUME NEW c \in Conns, NEW id \in Ids, Reject(c, id) \/ Delete(c, id)
      PROVE  IInv'
  BY <1>8, RemoveInv
<1>9. ASSUME NEW c \in Conns, NEW id \in Ids, NEW pw \in Passwords,
             ResetPassword(c, id, pw)
      PROVE  IInv'
  BY <1>9, UpdateInv DEF ResetPassword, AdminRequest
<1>10. ASSUME NEW c \in Conns, ChangeApply(c) PROVE IInv'
  <2>1. req[c].op = "setpw"
    BY <1>10 DEF ChangeApply
  <2>2. req[c].info.uid \in Ids /\ req[c].pw \in Passwords
    BY <2>1 DEF IInv, TypeOK, Request, Idle, TokenInfo
  <2> QED BY <1>10, <2>2, UpdateInv DEF ChangeApply
<1>11. ASSUME NEW c \in Conns, NEW label \in PresetNames,
              SavePreset(c, label) \/ DeletePreset(c, label)
       PROVE  IInv'
  BY <1>11, PresetInv
<1>12. CASE UNCHANGED vars
  BY <1>12, StutterInv
<1> QED
  BY <1>1, <1>2, <1>3, <1>4, <1>5, <1>6, <1>7, <1>8, <1>9, <1>10, <1>11, <1>12
  DEF Next

\* The inductive invariant holds throughout (every handler of db.go's tables).
THEOREM Invariance == Spec => []IInv
<1>1. Init => IInv
  BY InitInv
<1>2. IInv /\ [Next]_vars => IInv'
  BY NextInv
<1> QED BY <1>1, <1>2, PTL DEF Spec

\* Type correctness of the tables, the token map and the requests.
THEOREM TypeCorrect == Spec => []TypeOK
<1>1. IInv => TypeOK
  BY DEF IInv
<1> QED BY <1>1, Invariance, PTL

\* An identity in a token or a request never comes to mean another account
\* (token.go never re-reads the users table).
THEOREM IdentityIsStable == Spec => []IdentityStable
<1>1. IInv => IdentityStable
  BY DEF IInv
<1> QED BY <1>1, Invariance, PTL

\* The administrator role copied into a token is backed by the table
\* (AdminMiddleware).
THEOREM AdminIsBacked == Spec => []AdminBacked
<1>1. IInv => AdminBacked
  BY DEF IInv
<1> QED BY <1>1, Invariance, PTL

\* A preset is never inherited by another account (SaveDicePreset).
THEOREM PresetsKeepOwner == Spec => []PresetOwner
<1>1. IInv => PresetOwner
  BY DEF IInv
<1> QED BY <1>1, Invariance, PTL

\* seedAdmin changes nothing on a restart.
THEOREM RestartIsHarmless == Spec => RestartKeepsAccounts
<1>1. IInv /\ [Next]_vars => [Restart => users' = users /\ lastId' = lastId]_vars
  BY SeededSame DEF Restart
<1> QED BY <1>1, Invariance, PTL DEF Spec, RestartKeepsAccounts

\* UPDATE by id changes the password of no other row.
LEMMA PasswordScope ==
  ASSUME IInv, NEW id \in Ids, NEW pw \in Passwords,
         NEW u \in users, NEW v \in SetPassword(id, pw), u.id = v.id, u.pw # v.pw
  PROVE  u.id = id
<1>1. users \subseteq UserRow
  BY DEF IInv, TypeOK
<1>2. PICK w \in users : v = IF w.id = id THEN [w EXCEPT !.pw = pw] ELSE w
  BY <1>1, PasswordRows
<1>3. w.id = v.id
  BY <1>1, <1>2 DEF UserRow
<1>4. w = u
  BY <1>3 DEF IInv, IdsUnique
<1> QED BY <1>2, <1>4

\* A stored password changes only at the hand of an administrator or of the
\* account's own user (HandleChangePassword, HandleAdminResetPassword).
THEOREM PasswordIsAuthorised == Spec => PasswordAuthorised
<1> DEFINE Authorised ==
      \A u \in users : \A v \in users' :
        u.id = v.id /\ u.pw # v.pw
          => \E c \in Holding :
               \/ req[c].info.role = "admin"
               \/ req[c].op = "setpw" /\ req[c].info.name = u.name
<1>1. IInv /\ [Next]_vars => [Authorised]_vars
  <2> SUFFICES ASSUME IInv, Next,
                      NEW u \in users, NEW v \in users', u.id = v.id, u.pw # v.pw
               PROVE  \E c \in Holding :
                        \/ req[c].info.role = "admin"
                        \/ req[c].op = "setpw" /\ req[c].info.name = u.name
    OBVIOUS
  <2>0. users \subseteq UserRow /\ \A w \in users : w.id = u.id => w = u
    BY DEF IInv, TypeOK, IdsUnique
  <2>1. ASSUME NEW name \in Names, NEW pw \in Passwords, Register(name, pw)
        PROVE  FALSE
    <3>1. v = [id |-> lastId + 1, name |-> name, pw |-> pw,
               role |-> "user", status |-> "pending"]
      BY <2>0, <2>1 DEF Register, NextId
    <3>2. u.id <= lastId /\ u.id = lastId + 1
      BY <3>1 DEF IInv, IdsIssued
    <3>3. u.id \in Int /\ lastId \in Int
      BY AccountsAssumption DEF IInv, TypeOK, UserRow, Ids
    <3> QED BY <3>2, <3>3
  <2>2. ASSUME UNCHANGED users PROVE FALSE
    BY <2>0, <2>2
  <2>3. ASSUME NEW c \in Conns, NEW id \in Ids, Approve(c, id) PROVE FALSE
    <3>1. PICK w \in users : v = IF w.id = id THEN [w EXCEPT !.status = "active"] ELSE w
      BY <2>0, <2>3, ApproveRows DEF Approve
    <3>2. w.id = v.id /\ w.pw = v.pw
      BY <2>0, <3>1 DEF UserRow
    <3> QED BY <2>0, <3>2
  <2>4. ASSUME NEW c \in Conns, NEW id \in Ids, Reject(c, id) \/ Delete(c, id)
        PROVE  FALSE
    BY <2>0, <2>4 DEF Reject, Delete
  <2>5. ASSUME NEW c \in Conns, NEW id \in Ids, NEW pw \in Passwords,
               ResetPassword(c, id, pw)
        PROVE  c \in Holding /\ req[c].info.role = "admin"
    BY <2>5 DEF ResetPassword, AdminRequest, Holding
  <2>6. ASSUME NEW c \in Conns, ChangeApply(c)
        PROVE  c \in Holding /\ req[c].op = "setpw" /\ req[c].info.name = u.name
    <3>1. c \in Holding /\ req[c].op = "setpw" /\ users' = SetPassword(req[c].info.uid, req[c].pw)
      BY <2>6 DEF ChangeApply, Holding
    <3>2. req[c].info \in Identities
      BY <3>1 DEF Identities
    <3>3. req[c].info.uid \in Ids /\ req[c].pw \in Passwords
      BY <3>1 DEF IInv, TypeOK, Request, Idle, TokenInfo
    <3>4. u.id = req[c].info.uid
      BY <3>1, <3>3, PasswordScope
    <3> QED BY <3>1, <3>2, <3>4 DEF IInv, IdentityStable
  <2>7. Restart => UNCHANGED users
    BY SeededSame DEF Restart
  <2> QED
    BY <2>1, <2>2, <2>3, <2>4, <2>5, <2>6, <2>7
    DEF Next, DoorLogin, TokenLapse, LoginStart, LoginVerify, LoginIssue, Authenticate,
        ChangeVerify, SavePreset, DeletePreset, Answer
<1> QED BY <1>1, Invariance, PTL DEF Spec, PasswordAuthorised

\* An active account leaves the table through DeleteUser only; a rejection
\* decided on a stale list spares it (RejectUser).
THEOREM ApprovedIsKept == Spec => ApprovedStays
<1> DEFINE Kept ==
      \A u \in users :
        u.status = "active" /\ (\A v \in users' : v.id # u.id)
          => \E c \in Conns : Delete(c, u.id)
<1>1. IInv /\ [Next]_vars => [Kept]_vars
  <2> SUFFICES ASSUME IInv, Next,
                      NEW u \in users, u.status = "active", \A v \in users' : v.id # u.id
               PROVE  \E c \in Conns : Delete(c, u.id)
    OBVIOUS
  <2>0. users \subseteq UserRow /\ \A w \in users : w.id = u.id => w = u
    BY DEF IInv, TypeOK, IdsUnique
  <2>1. u \notin users'
    OBVIOUS
  <2>2. ASSUME NEW c \in Conns, NEW id \in Ids, Approve(c, id) PROVE FALSE
    <3>1. (IF u.id = id THEN [u EXCEPT !.status = "active"] ELSE u) \in users'
      BY <2>0, <2>2, ApproveRows DEF Approve
    <3>2. (IF u.id = id THEN [u EXCEPT !.status = "active"] ELSE u).id = u.id
      BY <2>0 DEF UserRow
    <3> QED BY <3>1, <3>2
  <2>3. ASSUME NEW id \in Ids, NEW pw \in Passwords, users' = SetPassword(id, pw) PROVE FALSE
    <3>1. (IF u.id = id THEN [u EXCEPT !.pw = pw] ELSE u) \in users'
      BY <2>0, <2>3, PasswordRows
    <3>2. (IF u.id = id THEN [u EXCEPT !.pw = pw] ELSE u).id = u.id
      BY <2>0 DEF UserRow
    <3> QED BY <3>1, <3>2
  <2>4. ASSUME NEW c \in Conns, ChangeApply(c) PROVE FALSE
    <3>1. req[c].info.uid \in Ids /\ req[c].pw \in Passwords
      BY <2>4 DEF ChangeApply, IInv, TypeOK, Request, Idle, TokenInfo
    <3> QED BY <2>3, <2>4, <3>1 DEF ChangeApply
  <2>5. ASSUME NEW c \in Conns, NEW id \in Ids, Reject(c, id) PROVE FALSE
    BY <2>1, <2>5 DEF Reject, Rejectable
  <2>6. ASSUME NEW c \in Conns, NEW id \in Ids, Delete(c, id) PROVE id = u.id
    BY <2>1, <2>6 DEF Delete, Deletable
  <2>7. Restart => UNCHANGED users
    BY SeededSame DEF Restart
  <2>8. \A name \in Names, pw \in Passwords : ~Register(name, pw)
    BY <2>1 DEF Register
  <2>9. \A c \in Conns, id \in Ids, pw \in Passwords : ~ResetPassword(c, id, pw)
    BY <2>3 DEF ResetPassword
  <2> QED
    BY <2>1, <2>2, <2>4, <2>5, <2>6, <2>7, <2>8, <2>9
    DEF Next, DoorLogin, TokenLapse, LoginStart, LoginVerify, LoginIssue, Authenticate,
        ChangeVerify, SavePreset, DeletePreset, Answer
<1> QED BY <1>1, Invariance, PTL DEF Spec, ApprovedStays
=============================================================================
