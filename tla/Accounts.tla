------------------------------ MODULE Accounts ------------------------------
(***************************************************************************)
(* User accounts, the tokens issued for them and the dice presets keyed by *)
(* account id (db.go, token.go, middleware.go, handler.go,                 *)
(* admin_handler.go, dice_db.go, dice_handler.go).                         *)
(*                                                                         *)
(* Two stores hold the identity of a user: the SQLite tables, which        *)
(* survive a restart, and the in-memory token map, which copies id, name   *)
(* and role at login and never looks at the table again.  A request        *)
(* handler copies the token's information once more, when the middleware   *)
(* admits it, and works with that copy until it answers.                   *)
(*                                                                         *)
(* The database has one connection, so one statement, or one transaction,  *)
(* is one step; a handler that issues two statements is two steps, and any *)
(* other handler may run between them.  A token is a member of the set     *)
(* `tokens': two tokens of one account carry the same information, and     *)
(* nothing here depends on which of the two a request presents.  The time  *)
(* at which a token lapses is the subject of TokenManager; here a token    *)
(* may lapse at any moment.                                                *)
(***************************************************************************)
EXTENDS Integers, FiniteSets

CONSTANTS
  Conns,        \* the goroutines that serve requests
  Names,        \* user names
  AdminName,    \* the name of the seeded administrator
  NoName,       \* the empty user name of a door token
  Passwords,    \* passwords (a hash stands for its password)
  SeedPassword, \* the password of the seeded administrator
  PresetNames,  \* labels of dice presets
  MaxId         \* bound on the AUTOINCREMENT ids handed out

ASSUME AccountsAssumption ==
  /\ AdminName \in Names
  /\ NoName \notin Names
  /\ SeedPassword \in Passwords
  /\ MaxId \in Nat \ {0}

VARIABLES
  users,    \* the rows of table users
  lastId,   \* the AUTOINCREMENT high-water mark of users
  presets,  \* the rows of table dice_presets
  tokens,   \* what the live tokens of the token map stand for
  req       \* Conns -> where the goroutine is in its handler

vars == <<users, lastId, presets, tokens, req>>

Ids == 1 .. MaxId

UserRow == [id : Ids, name : Names, pw : Passwords,
            role : {"admin", "user"}, status : {"active", "pending"}]

TokenInfo == [uid : Ids, name : Names, role : {"admin", "user"}]

DoorInfo == [uid |-> 0, name |-> NoName, role |-> "door"]

PresetRow == [uid : Ids, username : Names, name : PresetNames]

Idle == [op |-> "idle"]

\* A request between two of its steps: the credentials of a login not yet
\* looked up, the identity a login is about to get a token for, the identity
\* the middleware attached, and a password change that passed the old-password
\* test.
Request ==
  {Idle}
    \cup [op : {"login"}, name : Names, pw : Passwords]
    \cup [op : {"issue"}, info : TokenInfo]
    \cup [op : {"authed"}, info : TokenInfo \cup {DoorInfo}]
    \cup [op : {"setpw"}, info : TokenInfo, pw : Passwords]

TypeOK ==
  /\ users \subseteq UserRow
  /\ lastId \in 0 .. MaxId
  /\ presets \subseteq PresetRow
  /\ tokens \subseteq TokenInfo \cup {DoorInfo}
  /\ req \in [Conns -> Request]

-----------------------------------------------------------------------------
(* Statements on the tables.                                               *)

SetStatus(id, status) ==
  {IF u.id = id THEN [u EXCEPT !.status = status] ELSE u : u \in users}

\* Faulty variants of the table operations, for the mutants.
ReusedId == IF users = {} THEN 1
            ELSE 1 + CHOOSE m \in {u.id : u \in users} :
                       \A u \in users : u.id <= m
SetPasswordEverywhere(id, pw) == {[u EXCEPT !.pw = pw] : u \in users}
DeletableEvenAdmin(id) == {u \in users : u.id = id}
RejectableAnyStatus(id) == {u \in users : u.id = id /\ u.role # "admin"}
SeedOverwrites ==
  {u \in users : u.name # AdminName}
    \cup {[id |-> 1, name |-> AdminName, pw |-> SeedPassword,
           role |-> "admin", status |-> "active"]}

\* AUTOINCREMENT: an id is never handed out twice, not even after its row has
\* been deleted.
NextId == lastId + 1

SetPassword(id, pw) ==
  {IF u.id = id THEN [u EXCEPT !.pw = pw] ELSE u : u \in users}

\* DELETE FROM users WHERE id=? AND role!='admin'
Deletable(id) == {u \in users : u.id = id /\ u.role # "admin"}

\* DELETE FROM users WHERE id=? AND status='pending'
Rejectable(id) == {u \in users : u.id = id /\ u.status = "pending"}

\* The rows VerifyUserPassword accepts.
LoginRows(name, pw) ==
  {u \in users : u.name = name /\ u.status = "active" /\ u.pw = pw}

\* seedAdmin, run by NewDB: nothing when an administrator exists.
Seeded ==
  IF \E u \in users : u.role = "admin"
  THEN users
  ELSE users \cup {[id |-> NextId, name |-> AdminName, pw |-> SeedPassword,
                    role |-> "admin", status |-> "active"]}

-----------------------------------------------------------------------------
\* A fresh database after NewDB: migrate, then seedAdmin.
Init ==
  /\ users = {[id |-> 1, name |-> AdminName, pw |-> SeedPassword,
               role |-> "admin", status |-> "active"]}
  /\ lastId = 1
  /\ presets = {}
  /\ tokens = {}
  /\ req = [c \in Conns |-> Idle]

Goto(c, r) == req' = [req EXCEPT ![c] = r]

\* What a login carries on with of the row it read.
InfoOf(u) == [uid |-> u.id, name |-> u.name, role |-> u.role]

\* HandleRegister: one INSERT, refused when the name is taken.
Register(name, pw) ==
  /\ NextId <= MaxId                       \* bound of the model
  /\ \A u \in users : u.name # name
  /\ users' = users \cup {[id |-> NextId, name |-> name, pw |-> pw,
                           role |-> "user", status |-> "pending"]}
  /\ lastId' = NextId
  /\ UNCHANGED <<presets, tokens, req>>

\* HandleLogin up to the row of the failed attempt that precedes every check.
LoginStart(c, name, pw) ==
  /\ req[c] = Idle
  /\ Goto(c, [op |-> "login", name |-> name, pw |-> pw])
  /\ UNCHANGED <<users, lastId, presets, tokens>>

\* VerifyUserPassword reads the row once; the comparison of the hash, and all
\* that follows, use what was read.
LoginVerify(c) ==
  /\ req[c].op = "login"
  /\ LET rows == LoginRows(req[c].name, req[c].pw)
     IN \/ /\ rows = {}
           /\ Goto(c, Idle)
        \/ \E u \in rows : Goto(c, [op |-> "issue", info |-> InfoOf(u)])
  /\ UNCHANGED <<users, lastId, presets, tokens>>

\* GenerateUser with the identity read a step earlier.
LoginIssue(c) ==
  /\ req[c].op = "issue"
  /\ tokens' = tokens \cup {req[c].info}
  /\ Goto(c, Idle)
  /\ UNCHANGED <<users, lastId, presets>>

\* HandleVerify with the right door password: a token without an account.
DoorLogin ==
  /\ tokens' = tokens \cup {DoorInfo}
  /\ UNCHANGED <<users, lastId, presets, req>>

\* A token expires and Validate or the cleanup loop drops it.
TokenLapse(info) ==
  /\ info \in tokens
  /\ tokens' = tokens \ {info}
  /\ UNCHANGED <<users, lastId, presets, req>>

\* AuthMiddleware: the request carries on with a copy of the token's data.
Authenticate(c, info) ==
  /\ req[c] = Idle
  /\ info \in tokens
  /\ Goto(c, [op |-> "authed", info |-> info])
  /\ UNCHANGED <<users, lastId, presets, tokens>>

\* A handler behind AdminMiddleware, which looks at the copied role only.
AdminRequest(c) ==
  /\ req[c].op = "authed"
  /\ req[c].info.role = "admin"
  /\ Goto(c, Idle)

\* A handler that refuses tokens without an account.
AccountRequest(c) ==
  /\ req[c].op = "authed"
  /\ req[c].info.uid # 0

\* HandleAdminApproveUser: the UPDATE reports success even when the id has no
\* row, or a row that is active already.
Approve(c, id) ==
  /\ AdminRequest(c)
  /\ users' = SetStatus(id, "active")
  /\ UNCHANGED <<lastId, presets, tokens>>

\* HandleAdminRejectUser: only a pending row is deleted; otherwise an error.
Reject(c, id) ==
  /\ AdminRequest(c)
  /\ users' = users \ Rejectable(id)
  /\ UNCHANGED <<lastId, presets, tokens>>

\* HandleAdminDeleteUser: one transaction over both tables, rolled back when no
\* row was deletable.
Delete(c, id) ==
  /\ AdminRequest(c)
  /\ users' = users \ Deletable(id)
  /\ presets' = IF Deletable(id) = {}
                THEN presets
                ELSE {p \in presets : p.uid # id}
  /\ UNCHANGED <<lastId, tokens>>

\* HandleAdminResetPassword (any id) and HandleAdminChangePassword (own id).
ResetPassword(c, id, pw) ==
  /\ AdminRequest(c)
  /\ users' = SetPassword(id, pw)
  /\ UNCHANGED <<lastId, presets, tokens>>

\* HandleChangePassword, first statement: the stored hash against the old
\* password.
ChangeVerify(c, old, new) ==
  /\ AccountRequest(c)
  /\ old # new
  /\ IF \E u \in users : u.id = req[c].info.uid /\ u.pw = old
     THEN Goto(c, [op |-> "setpw", info |-> req[c].info, pw |-> new])
     ELSE Goto(c, Idle)
  /\ UNCHANGED <<users, lastId, presets, tokens>>

\* HandleChangePassword, second statement: an UPDATE by id, whatever happened
\* since the first; no row, no change.
ChangeApply(c) ==
  /\ req[c].op = "setpw"
  /\ users' = SetPassword(req[c].info.uid, req[c].pw)
  /\ Goto(c, Idle)
  /\ UNCHANGED <<lastId, presets, tokens>>

\* SaveDicePreset: an upsert on (user_id, name); the user row is not consulted.
SavePreset(c, label) ==
  /\ AccountRequest(c)
  /\ LET info == req[c].info
     IN presets' =
          {p \in presets : ~(p.uid = info.uid /\ p.name = label)}
            \cup {[uid |-> info.uid, username |-> info.name, name |-> label]}
  /\ Goto(c, Idle)
  /\ UNCHANGED <<users, lastId, tokens>>

\* DeleteDicePreset: own rows only.
DeletePreset(c, label) ==
  /\ AccountRequest(c)
  /\ presets' = {p \in presets : ~(p.uid = req[c].info.uid /\ p.name = label)}
  /\ Goto(c, Idle)
  /\ UNCHANGED <<users, lastId, tokens>>

\* Every other way for an admitted request to end: a handler that only reads, or
\* a refusal (403 for a role or a token without account, 400 for its input).
Answer(c) ==
  /\ req[c].op = "authed"
  /\ Goto(c, Idle)
  /\ UNCHANGED <<users, lastId, presets, tokens>>

\* The process dies and starts again: tokens and requests are gone, the tables
\* stay, and NewDB runs seedAdmin.
Restart ==
  /\ users' = Seeded
  /\ lastId' = IF Seeded = users THEN lastId ELSE NextId
  /\ tokens' = {}
  /\ req' = [c \in Conns |-> Idle]
  /\ UNCHANGED presets

Next ==
  \/ \E name \in Names, pw \in Passwords : Register(name, pw)
  \/ DoorLogin
  \/ \E info \in tokens : TokenLapse(info)
  \/ Restart
  \/ \E c \in Conns :
       \/ \E name \in Names, pw \in Passwords : LoginStart(c, name, pw)
       \/ LoginVerify(c)
       \/ LoginIssue(c)
       \/ \E info \in tokens : Authenticate(c, info)
       \/ \E id \in Ids : Approve(c, id) \/ Reject(c, id) \/ Delete(c, id)
       \/ \E id \in Ids, pw \in Passwords : ResetPassword(c, id, pw)
       \/ \E old, new \in Passwords : ChangeVerify(c, old, new)
       \/ ChangeApply(c)
       \/ Answer(c)
       \/ \E label \in PresetNames : SavePreset(c, label) \/ DeletePreset(c, label)

Spec == Init /\ [][Next]_vars

-----------------------------------------------------------------------------
(* Properties.                                                             *)

\* The identities the process acts on: those of the live tokens and the copies
\* held by requests that are under way.
Holding == {c \in Conns : req[c].op \in {"issue", "authed", "setpw"}}
Identities == tokens \cup {req[c].info : c \in Holding}

\* An identity copied out of the users table never comes to mean somebody else:
\* if its id still has a row, that row is the same account with the same role,
\* and it is active.  Tokens outlive rejections, deletions and registrations,
\* and nothing ever compares them with the table (token.go, middleware.go).
IdentityStable ==
  \A i \in Identities : \A u \in users :
    u.id = i.uid => u.name = i.name /\ u.role = i.role /\ u.status = "active"

\* AdminMiddleware trusts the role copied into the token.  Whoever holds
\* it is still an active administrator in the table, whatever was deleted since
\* (DeleteUser's role test).
AdminBacked ==
  \A i \in Identities : i.role = "admin" =>
    \E u \in users : u.id = i.uid /\ u.role = "admin" /\ u.status = "active"

\* A preset whose account exists carries that account's name: presets left
\* behind by a deleted account are never inherited by a later one, although no
\* foreign key ties the two tables (dice_db.go, SaveDicePreset).
PresetOwner ==
  \A p \in presets : \A u \in users : u.id = p.uid => u.name = p.username

\* An account that was approved disappears only through DeleteUser of an
\* administrator's request, never through a rejection decided on a stale list
\* of pending users.
ApprovedStays ==
  [][\A u \in users :
       u.status = "active" /\ (\A v \in users' : v.id # u.id)
         => \E c \in Conns : Delete(c, u.id)]_vars

\* A stored password changes only through a request of an administrator or of
\* the account's own user, across any number of deletions and registrations
\* between the moment the token was issued and the UPDATE by id.
PasswordAuthorised ==
  [][\A u \in users : \A v \in users' :
       u.id = v.id /\ u.pw # v.pw
         => \E c \in Holding :
              \/ req[c].info.role = "admin"
              \/ req[c].op = "setpw" /\ req[c].info.name = u.name]_vars

\* A restart keeps every account as it was: seedAdmin never puts the initial
\* password back and never adds a second administrator.
RestartKeepsAccounts == [][Restart => users' = users /\ lastId' = lastId]_vars

\* db.go:237 says DeleteUser also removes the presets that belong to the account
\* alone, so no preset is left without an account.  A request of the deleted
\* user that is under way, or a token that is still live, saves one afterwards.
PresetHasAccount == \A p \in presets : \E u \in users : u.id = p.uid
=============================================================================
