--------------------------- MODULE AccountAccess ---------------------------
(***************************************************************************)
(* Accounts and administrators of the backend: registration by an          *)
(* activation key, the login lockout, change and reset of a password, and  *)
(* the keys and tokens these rest on (services/account_service.py,         *)
(* activation_key_service.py, password_reset_service.py, core/             *)
(* account_auth.py, core/admin_auth.py and their routes).                  *)
(*                                                                         *)
(* Requests run in a pool of threads, each with one session of Postgres at *)
(* READ COMMITTED.  A step ends where another session can see or change    *)
(* what this one goes on to use: at a commit, at a wait for a lock, and    *)
(* between reading a row and writing the values computed from it, with     *)
(* argon2 in between.  A session writes back only the columns whose value  *)
(* it changed.  A request refused before it has read anything that matters *)
(* is left out.                                                            *)
(***************************************************************************)
EXTENDS Naturals, FiniteSets

CONSTANTS
    Accounts, Admins,  \* ids of rows of account and admin
    Logins,            \* logins and usernames
    Passwords,
    ActivationKeys,    \* activation_key ids, each with its plaintext
    Resets,            \* account_password_reset_token ids, each with its plaintext
    Threads,           \* the threads that serve requests
    Workloads,         \* sets of routes: those used in one behaviour
    FirstAccount, FirstAdmin, FirstKey, FirstLogin,  \* the rows at the start
    Threshold,         \* FAILED_ATTEMPTS_LOCKOUT_THRESHOLD
    MaxRequests,       \* bound on the requests served
    MaxCrashes,        \* bound on the ends of the process
    None               \* SQL NULL, a missing key

Users == Accounts \cup Admins

ASSUME AccountAssumption ==
    /\ Accounts \cap Admins = {}
    /\ FirstAccount \in Accounts /\ FirstAdmin \in Admins
    /\ FirstKey \in ActivationKeys /\ FirstLogin \in Logins
    /\ Threshold \in Nat \ {0}
    /\ MaxRequests \in Nat /\ MaxCrashes \in Nat
    /\ None \notin Users \cup Logins \cup Passwords \cup ActivationKeys \cup Resets

VARIABLES
    users,     \* committed rows of account and of admin
    keys,      \* activation_key: [state, by, note]
    resets,    \* account_password_reset_token: [state, past, who]
    sessions,  \* users who hold a JWT
    req,       \* what each thread is doing
    workload,  \* the routes of this behaviour
    served,    \* requests started so far
    crashes    \* ends of the process so far

tables == <<users, keys, resets>>
pool == <<workload, served, crashes>>
accountVars == <<tables, sessions, req, pool>>

\* failed_attempts stops at Threshold: the code only asks whether it has got there.
\* locked_until: "never" is NULL, "running" is later than now, "over" is not.
UserRow ==
    [state : {"none", "active", "suspended", "deleted"},
     login : Logins \cup {None}, pw : Passwords \cup {None},
     failed : 0..Threshold, locked : {"never", "running", "over"}]
NewUser(l, p) == [state |-> "active", login |-> l, pw |-> p, failed |-> 0, locked |-> "never"]
NoUser == [NewUser(None, None) EXCEPT !.state = "none"]

KeyRow == [state : {"none", "issued", "redeemed", "gone"},
           by : Accounts \cup {None}, note : BOOLEAN]

\* A reset token: past is expires_at <= now.
ResetRow == [state : {"none", "unused", "used"}, past : BOOLEAN, who : Accounts \cup {None}]

Idle == [op |-> "idle", at |-> "", who |-> None, arg |-> None, pw |-> None, new |-> None,
         seen |-> NoUser, row |-> None]
Request(op, at) == [Idle EXCEPT !.op = op, !.at = at]

AccountTypeOK ==
    /\ users \in [Users -> UserRow]
    /\ keys \in [ActivationKeys -> KeyRow]
    /\ resets \in [Resets -> ResetRow]
    /\ sessions \subseteq Users
    /\ \A t \in Threads :
         /\ req[t].who \in Users \cup {None}
         /\ req[t].pw \in Passwords \cup {None} /\ req[t].new \in Passwords \cup {None}
         /\ req[t].seen \in UserRow
         /\ req[t].row \in KeyRow \cup {None}
    /\ served \in 0..MaxRequests /\ crashes \in 0..MaxCrashes

\* One account has registered with FirstKey, and both it and the first
\* administrator have logged in.
AccountInit ==
    /\ \E p \in Passwords :
         users = [u \in Users |->
           IF u \in {FirstAccount, FirstAdmin} THEN NewUser(FirstLogin, p) ELSE NoUser]
    /\ keys = [k \in ActivationKeys |->
         IF k = FirstKey THEN [state |-> "redeemed", by |-> FirstAccount, note |-> FALSE]
                         ELSE [state |-> "none", by |-> None, note |-> FALSE]]
    /\ resets = [x \in Resets |-> [state |-> "none", past |-> FALSE, who |-> None]]
    /\ sessions = {FirstAccount, FirstAdmin}
    /\ req = [t \in Threads |-> Idle]
    /\ workload \in Workloads
    /\ served = 0
    /\ crashes = 0

----------------------------------------------------------------------------
(* How requests start, go on and end. *)

Begin(t, r) ==
    /\ req[t] = Idle
    /\ r.op \in workload
    /\ served < MaxRequests
    /\ served' = served + 1
    /\ req' = [req EXCEPT ![t] = r]
    /\ UNCHANGED <<workload, crashes>>

At(t, op, at) == req[t].op = op /\ req[t].at = at

Goto(t, r) == req' = [req EXCEPT ![t] = r] /\ UNCHANGED pool

\* A row to be inserted gets its id before the INSERT.
Unborn(table) == {x \in DOMAIN table : table[x].state = "none" /\ \A u \in Threads : req[u].arg # x}

\* The response, whatever it is; a transaction still open is rolled back.
Answer(t) == Goto(t, Idle)

\* get_current_account with a JWT: the row is read again on each request.
CurrentAccounts == {a \in Accounts \cap sessions : users[a].state = "active"}

\* get_current_admin.
CurrentAdmins == {m \in Admins \cap sessions : users[m].state = "active"}

----------------------------------------------------------------------------
(* Activation keys. *)

\* post_activation_key: insert and commit in one step.
CreateActivationKey(t) ==
    /\ CurrentAdmins # {}
    /\ \E k \in Unborn(keys) : Begin(t, [Request("create_key", "insert") EXCEPT !.arg = k])
    /\ UNCHANGED <<tables, sessions>>

InsertActivationKey(t) ==
    /\ At(t, "create_key", "insert")
    /\ keys' = [keys EXCEPT ![req[t].arg].state = "issued"]
    /\ Answer(t)
    /\ UNCHANGED <<users, resets, sessions>>

\* The row lock of get_by_token_hash_for_update, held until commit or rollback.
KeyLockedByOther(t, k) ==
    \E u \in Threads \ {t} :
        req[u].op = "register" /\ req[u].at \in {"insert", "commit"} /\ req[u].arg = k

\* Deviation: the status is not checked before the delete.
ReadAnyActivationKey(t) ==
    /\ CurrentAdmins # {}
    /\ \E k \in ActivationKeys, op \in {"update_key", "delete_key"} :
         /\ keys[k].state \in {"issued", "redeemed"}
         /\ Begin(t, [Request(op, "write") EXCEPT !.arg = k, !.row = keys[k]])
    /\ UNCHANGED <<tables, sessions>>

\* get_activation_key, without a lock, for PATCH and for DELETE.
ReadActivationKey(t) ==
    /\ CurrentAdmins # {}
    /\ \E k \in ActivationKeys, op \in {"update_key", "delete_key"} :
         /\ keys[k].state \in {"issued", "redeemed"}
         /\ op = "delete_key" => keys[k].state = "issued"
         /\ Begin(t, [Request(op, "write") EXCEPT !.arg = k, !.row = keys[k]])
    /\ UNCHANGED <<tables, sessions>>

\* Deviation: the whole row is written back as it was read.
UpdateWholeKey(t) ==
    LET k == req[t].arg IN
    /\ At(t, "update_key", "write")
    /\ ~KeyLockedByOther(t, k)
    /\ keys' = IF keys[k].state = "gone" THEN keys
               ELSE [keys EXCEPT ![k] = [req[t].row EXCEPT !.note = TRUE]]
    /\ Answer(t)
    /\ UNCHANGED <<users, resets, sessions>>

\* update_activation_key: only origin_code and tg_user_id are written; when
\* the row is gone the UPDATE matches nothing and the flush raises.
UpdateActivationKey(t) ==
    LET k == req[t].arg IN
    /\ At(t, "update_key", "write")
    /\ ~KeyLockedByOther(t, k)
    /\ keys' = IF keys[k].state = "gone" THEN keys ELSE [keys EXCEPT ![k].note = TRUE]
    /\ Answer(t)
    /\ UNCHANGED <<users, resets, sessions>>

\* delete_activation_key: the DELETE waits for the row lock and then removes
\* the row whatever its status has become.
DeleteActivationKey(t) ==
    LET k == req[t].arg IN
    /\ At(t, "delete_key", "write")
    /\ ~KeyLockedByOther(t, k)
    /\ keys' = [keys EXCEPT ![k].state = "gone"]
    /\ Answer(t)
    /\ UNCHANGED <<users, resets, sessions>>

----------------------------------------------------------------------------
(* Registration. *)

PostRegister(t) ==
    /\ \E k \in ActivationKeys, l \in Logins, p \in Passwords :
         /\ keys[k].state # "none"
         /\ Begin(t, [Request("register", "lock") EXCEPT !.arg = k, !.pw = p,
                                                         !.seen = [NoUser EXCEPT !.login = l]])
    /\ UNCHANGED <<tables, sessions>>

\* Deviation: the key is read without FOR UPDATE.
ReadKeyUnlocked(t) ==
    LET k == req[t].arg IN
    /\ At(t, "register", "lock")
    /\ \/ keys[k].state = "issued" /\ Goto(t, [req[t] EXCEPT !.at = "insert"])
       \/ keys[k].state # "issued" /\ Answer(t)
    /\ UNCHANGED <<tables, sessions>>

LockActivationKey(t) ==
    LET k == req[t].arg IN
    /\ At(t, "register", "lock")
    /\ ~KeyLockedByOther(t, k)
    /\ \/ keys[k].state = "issued" /\ Goto(t, [req[t] EXCEPT !.at = "insert"])
       \/ keys[k].state # "issued" /\ Answer(t)
    /\ UNCHANGED <<tables, sessions>>

\* A row of uq_account_login_active, and one that an open transaction has inserted.
LoginTaken(l) == \E a \in Accounts : users[a].state \in {"active", "suspended"} /\ users[a].login = l
LoginPending(t, l) ==
    \E u \in Threads \ {t} : At(u, "register", "commit") /\ req[u].seen.login = l

FreeAccounts ==
    {a \in Accounts : users[a].state = "none" /\ \A u \in Threads : req[u].who # a}

\* Deviation: a login that is taken is tried again instead of refused.
RetryInsert(t) ==
    LET l == req[t].seen.login IN
    /\ At(t, "register", "insert")
    /\ ~LoginPending(t, l)
    /\ ~LoginTaken(l)
    /\ FreeAccounts # {}
    /\ Goto(t, [req[t] EXCEPT !.at = "commit", !.who = CHOOSE a \in FreeAccounts : TRUE])
    /\ UNCHANGED <<tables, sessions>>

\* account_repo.insert flushes: the unique index waits for the other
\* transaction, then refuses a login that is taken.  Accounts bounds the rows.
InsertAccount(t) ==
    LET l == req[t].seen.login IN
    /\ At(t, "register", "insert")
    /\ ~LoginPending(t, l)
    /\ \/ /\ LoginTaken(l)
          /\ Answer(t)
       \/ /\ ~LoginTaken(l)
          /\ FreeAccounts # {}
          /\ Goto(t, [req[t] EXCEPT !.at = "commit", !.who = CHOOSE a \in FreeAccounts : TRUE])
    /\ UNCHANGED <<tables, sessions>>

\* register_account: the account and the redeemed key in one commit.
CommitRegistration(t) ==
    LET k == req[t].arg  a == req[t].who IN
    /\ At(t, "register", "commit")
    /\ users' = [users EXCEPT ![a] = NewUser(req[t].seen.login, req[t].pw)]
    /\ keys' = [keys EXCEPT ![k].state = "redeemed", ![k].by = a]
    /\ Answer(t)
    /\ UNCHANGED <<resets, sessions>>

----------------------------------------------------------------------------
(* Login of accounts and of administrators, with the lockout. *)

\* The reads of authenticate_account and the checks before the password.
StartLogin(t) ==
    /\ \E a \in Accounts, p \in Passwords :
         /\ users[a].state = "active"
         /\ users[a].locked # "running"
         /\ Begin(t, [Request("login", "verify") EXCEPT !.who = a, !.pw = p, !.seen = users[a]])
    /\ UNCHANGED <<tables, sessions>>

\* The same of authenticate_admin.
StartAdminLogin(t) ==
    /\ \E m \in Admins, p \in Passwords :
         /\ users[m].state = "active"
         /\ users[m].locked # "running"
         /\ Begin(t, [Request("admin_login", "verify") EXCEPT !.who = m, !.pw = p, !.seen = users[m]])
    /\ UNCHANGED <<tables, sessions>>

Verify(password, row) == password = row.pw

\* A column is written only where the session's value differs from the one it read.
ResetColumns(row, seen) ==
    [row EXCEPT !.failed = IF seen.failed = 0 THEN @ ELSE 0,
                !.locked = IF seen.locked = "never" THEN @ ELSE "never"]

\* A wrong password: the incremented value is written, and from Threshold on
\* a new locked_until with it.
PasswordFails(t) ==
    LET failed == IF req[t].seen.failed = Threshold THEN Threshold ELSE req[t].seen.failed + 1
        u == req[t].who
    IN
    /\ req[t].op \in {"login", "admin_login"}
    /\ ~Verify(req[t].pw, req[t].seen)
    /\ users' = [users EXCEPT ![u].failed = failed,
                              ![u].locked = IF failed = Threshold THEN "running" ELSE @]
    /\ Answer(t)
    /\ UNCHANGED <<keys, resets, sessions>>

\* The right password: the counter and the lock are reset and a JWT is made.
PasswordMatches(t) ==
    /\ req[t].op \in {"login", "admin_login"}
    /\ Verify(req[t].pw, req[t].seen)
    /\ users' = [users EXCEPT ![req[t].who] = ResetColumns(@, req[t].seen)]
    /\ sessions' = sessions \cup {req[t].who}
    /\ Answer(t)
    /\ UNCHANGED <<keys, resets>>

\* LOCKOUT_DURATION passes.
LockoutEnds(u) ==
    /\ users[u].locked = "running"
    /\ users' = [users EXCEPT ![u].locked = "over"]
    /\ UNCHANGED <<keys, resets, sessions, req, pool>>

----------------------------------------------------------------------------
(* Passwords. *)

\* post_change_password: the row that get_current_account read is gone with
\* its last reference (the session's is weak), and change_password reads it
\* again (ReloadAccount of ApiKeys).
PostChangePassword(t) ==
    /\ \E a \in CurrentAccounts, old \in Passwords, new \in Passwords :
         Begin(t, [Request("change_password", "reload") EXCEPT !.who = a, !.pw = old, !.new = new])
    /\ UNCHANGED <<tables, sessions>>

\* Deviation: the object whose columns are set is merged back as a whole.
ChangeWholeRow(t) ==
    /\ At(t, "change_password", "verify")
    /\ users' = IF Verify(req[t].pw, req[t].seen)
                THEN [users EXCEPT ![req[t].who] = [req[t].seen EXCEPT !.pw = req[t].new]] ELSE users
    /\ Answer(t)
    /\ UNCHANGED <<keys, resets, sessions>>

ChangePassword(t) ==
    /\ At(t, "change_password", "verify")
    /\ users' = IF Verify(req[t].pw, req[t].seen)
                THEN [users EXCEPT ![req[t].who].pw = req[t].new] ELSE users
    /\ Answer(t)
    /\ UNCHANGED <<keys, resets, sessions>>

\* post_password_reset_token: the claims, then the account and the INSERT.
PostResetToken(t) ==
    /\ CurrentAdmins # {}
    /\ \E a \in Accounts, x \in Unborn(resets) :
         /\ users[a].state # "none"
         /\ Begin(t, [Request("issue_reset", "insert") EXCEPT !.who = a, !.arg = x])
    /\ UNCHANGED <<tables, sessions>>

IssueResetToken(t) ==
    /\ At(t, "issue_reset", "insert")
    /\ resets' = [resets EXCEPT ![req[t].arg] = [state |-> "unused", past |-> FALSE, who |-> req[t].who]]
    /\ Answer(t)
    /\ UNCHANGED <<users, keys, sessions>>

\* RESET_TOKEN_TTL passes.
ResetTokenExpires(x) ==
    /\ resets[x].state = "unused" /\ ~resets[x].past
    /\ resets' = [resets EXCEPT ![x].past = TRUE]
    /\ UNCHANGED <<users, keys, sessions, req, pool>>

PostPasswordReset(t) ==
    /\ \E x \in Resets, p \in Passwords :
         /\ resets[x].state # "none"
         /\ Begin(t, [Request("confirm_reset", "lock") EXCEPT !.arg = x, !.new = p])
    /\ UNCHANGED <<tables, sessions>>

\* Deviation: the token is read without FOR UPDATE.
ReadResetUnlocked(t) ==
    LET x == req[t].arg
        good == resets[x].state = "unused" /\ ~resets[x].past
    IN
    /\ At(t, "confirm_reset", "lock")
    /\ \/ good /\ Goto(t, [req[t] EXCEPT !.at = "apply", !.who = resets[x].who,
                                         !.seen = users[resets[x].who]])
       \/ ~good /\ Answer(t)
    /\ UNCHANGED <<tables, sessions>>

\* confirm_reset up to the hashing of the new password.
LockResetToken(t) ==
    LET x == req[t].arg
        good == resets[x].state = "unused" /\ ~resets[x].past
    IN
    /\ At(t, "confirm_reset", "lock")
    /\ ~\E u \in Threads \ {t} : At(u, "confirm_reset", "apply") /\ req[u].arg = x
    /\ \/ good /\ Goto(t, [req[t] EXCEPT !.at = "apply", !.who = resets[x].who,
                                         !.seen = users[resets[x].who]])
       \/ ~good /\ Answer(t)
    /\ UNCHANGED <<tables, sessions>>

\* The password, the counter and lock, and used_at in one commit.
ConfirmReset(t) ==
    /\ At(t, "confirm_reset", "apply")
    /\ users' = [users EXCEPT ![req[t].who] = [ResetColumns(@, req[t].seen) EXCEPT !.pw = req[t].new]]
    /\ resets' = [resets EXCEPT ![req[t].arg].state = "used"]
    /\ Answer(t)
    /\ UNCHANGED <<keys, sessions>>

----------------------------------------------------------------------------
(* The command line, the operator and the process. *)

\* scripts/create_admin.py: one INSERT, refused when the username is taken.
CreateAdmin ==
    /\ "create_admin" \in workload
    /\ \E m \in Admins, l \in Logins, p \in Passwords :
         /\ users[m].state = "none"
         /\ \A n \in Admins : users[n].login # l
         /\ users' = [users EXCEPT ![m] = NewUser(l, p)]
    /\ UNCHANGED <<keys, resets, sessions, req, pool>>

\* No code sets status_code or deleted_at of a user; all of it reads them.
\* Bounded to one user per behaviour.
OperatorDisables(u) ==
    /\ "disable" \in workload
    /\ \A v \in Users : users[v].state \in {"none", "active"}
    /\ users[u].state = "active"
    /\ \E s \in {"suspended"} \cup (IF u \in Accounts THEN {"deleted"} ELSE {}) :
         users' = [users EXCEPT ![u].state = s]
    /\ UNCHANGED <<keys, resets, sessions, req, pool>>

\* The process ends: Postgres rolls back what is open.
ProcessEnds ==
    /\ crashes < MaxCrashes
    /\ \E t \in Threads : req[t] # Idle
    /\ crashes' = crashes + 1
    /\ req' = [t \in Threads |-> Idle]
    /\ UNCHANGED <<tables, sessions, workload, served>>

NewAccountRequest(t) ==
    \/ CreateActivationKey(t) \/ ReadActivationKey(t) \/ PostRegister(t)
    \/ StartLogin(t) \/ StartAdminLogin(t)
    \/ PostChangePassword(t) \/ PostResetToken(t) \/ PostPasswordReset(t)

AccountStep(t) ==
    \/ InsertActivationKey(t) \/ UpdateActivationKey(t) \/ DeleteActivationKey(t)
    \/ LockActivationKey(t) \/ InsertAccount(t) \/ CommitRegistration(t)
    \/ PasswordFails(t) \/ PasswordMatches(t)
    \/ ChangePassword(t) \/ IssueResetToken(t) \/ LockResetToken(t) \/ ConfirmReset(t)

AccountEnvironment ==
    \/ CreateAdmin
    \/ \E u \in Users : LockoutEnds(u) \/ OperatorDisables(u)
    \/ \E x \in Resets : ResetTokenExpires(x)

AccountNext ==
    \/ \E t \in Threads : NewAccountRequest(t) \/ AccountStep(t)
    \/ AccountEnvironment
    \/ ProcessEnds

----------------------------------------------------------------------------
(* Properties. *)

\* A key admits one account and every account came by a key of its own: the
\* key is redeemed exactly if its account exists, even when registrations for
\* the same key or login, PATCHes, deletes and a crash overlap (the claim of
\* account_service.py:3-5).
RegistrationAtomic ==
    /\ \A k \in ActivationKeys :
         keys[k].state = "redeemed" => keys[k].by # None /\ users[keys[k].by].state # "none"
    /\ \A a \in Accounts :
         users[a].state # "none" =>
           Cardinality({k \in ActivationKeys : keys[k].by = a /\ keys[k].state # "issued"}) = 1
    /\ \A a, b \in Accounts :
         a # b /\ users[a].login = users[b].login /\ users[a].login # None =>
           "deleted" \in {users[a].state, users[b].state}

\* The record of a redemption is only lost to a DELETE that had read the key
\* as issued: one that overlaps the registration (activation_key_service.py:108
\* reads the status without the lock that the registration holds).
AuditLostOnlyByOverlap ==
    [][\A k \in ActivationKeys :
         keys[k].state = "redeemed" /\ keys'[k].state # "redeemed" =>
           \E t \in Threads : At(t, "delete_key", "write") /\ req[t].arg = k
                              /\ req[t].row.state = "issued"]_accountVars

\* A reset token sets one password: the row lock keeps a second confirmation
\* of the same token out until the first has committed used_at.
ResetOnce ==
    [][\A t \in Threads :
         At(t, "confirm_reset", "apply") /\ req'[t] = Idle /\ users' # users =>
           resets[req[t].arg].state = "unused" /\ resets'[req[t].arg].state = "used"]_accountVars

\* A running lockout ends with its time, by a reset, or by a login that had
\* read the row before the lockout began; no other request unlocks a user.
LockoutKept ==
    [][\A u \in Users :
         users[u].locked = "running" /\ users'[u].locked = "never" =>
           \E t \in Threads :
             /\ req[t].who = u /\ req'[t] = Idle
             /\ \/ At(t, "confirm_reset", "apply")
                \/ req[t].op \in {"login", "admin_login"} /\ req[t].seen.locked = "over"]_accountVars
=============================================================================
