--------------------------- MODULE ApiKeys_proofs ---------------------------
(***************************************************************************)
(* Accounts, activation keys, reset tokens and API keys for any number of  *)
(* rows and threads, with the process ending anywhere.                     *)
(*                                                                         *)
(* None of the properties is inductive.  JobOK says what a request that    *)
(* has read a row may still rely on when it writes, Apart what two         *)
(* requests at once cannot both hold, RowsOK how the tables hang together, *)
(* and KeyOK what the mirror of an API key may hold while threads deal     *)
(* with it.                                                                *)
(***************************************************************************)
EXTENDS ApiKeys, FiniteSetTheorems, TLAPS

Ops == {"idle", "create_key", "update_key", "delete_key", "register", "login", "admin_login",
        "change_password", "issue_reset", "confirm_reset", "create_api_key", "revoke_api_key"}
Places == {"", "insert", "write", "lock", "commit", "verify", "apply", "reload",
           "token", "index", "getdel", "del"}
ReqType == [op : Ops, at : Places, who : Users \cup {None},
            arg : ActivationKeys \cup Resets \cup ApiKeyIds \cup {None},
            pw : Passwords \cup {None}, new : Passwords \cup {None},
            seen : UserRow, row : KeyRow \cup {None}]

\* The tables: an activation key and the account it admitted name each other.
KeyRowsOK ==
    \A k \in ActivationKeys :
        /\ keys[k].state \in {"none", "issued"} => keys[k].by = None
        /\ keys[k].state = "redeemed" => keys[k].by # None
        /\ keys[k].by # None => users[keys[k].by].state # "none"
        /\ \A j \in ActivationKeys : keys[k].by = keys[j].by /\ k # j => keys[k].by = None
UserRowsOK ==
    /\ \A a \in Accounts : users[a].state # "none" => \E k \in ActivationKeys : keys[k].by = a
    /\ \A u \in Users : users[u].state = "none" => users[u] = NoUser
    /\ \A u \in Users : users[u].state # "none" => users[u].login \in Logins
    /\ \A a, b \in Accounts :
         a # b /\ users[a].login = users[b].login /\ users[a].login # None =>
           "deleted" \in {users[a].state, users[b].state}
Exists(a) == a \in Accounts /\ users[a].state # "none"
ResetRowsOK == \A x \in Resets : resets[x].state # "none" => Exists(resets[x].who)
RowsOK == KeyRowsOK /\ UserRowsOK /\ ResetRowsOK

\* What a request of activation keys relies on.
KeyJob(r) ==
    /\ r.op = "create_key" => r.arg \in ActivationKeys /\ keys[r.arg].state = "none"
    /\ r.op \in {"update_key", "delete_key"} => r.arg \in ActivationKeys /\ keys[r.arg].state # "none"
    /\ r.op = "delete_key" => r.row.state = "issued"

\* From the row lock on the key stays issued; from the INSERT on the row and
\* the login are the transaction's own.
RegisterJob(r) ==
    r.op = "register" =>
        /\ r.arg \in ActivationKeys /\ keys[r.arg].state # "none"
        /\ r.pw \in Passwords /\ r.seen.login \in Logins
        /\ r.at \in {"insert", "commit"} => keys[r.arg].state = "issued"
        /\ r.at = "commit" =>
             r.who \in Accounts /\ users[r.who].state = "none" /\ ~LoginTaken(r.seen.login)

\* A request about a user names one that exists.
UserJob(r) ==
    /\ r.op \in {"login", "change_password", "issue_reset", "create_api_key"} => Exists(r.who)
    /\ r.op = "admin_login" => r.who \in Admins /\ users[r.who].state # "none"
    /\ r.op \in {"login", "admin_login"} => r.seen.locked # "running"
    /\ r.op \in {"change_password", "confirm_reset"} => r.new \in Passwords

ResetJob(r) ==
    /\ r.op = "issue_reset" => r.arg \in Resets /\ resets[r.arg].state = "none"
    /\ r.op = "confirm_reset" =>
         /\ r.arg \in Resets /\ resets[r.arg].state # "none"
         /\ r.at = "apply" => resets[r.arg].state = "unused" /\ Exists(r.who)

JobOK(r) == KeyJob(r) /\ RegisterJob(r) /\ UserJob(r) /\ ResetJob(r)

\* What two requests cannot both hold: a new row, the lock of a key or of a
\* token, a login not yet committed.
Apart(r, q) ==
    /\ r.op = q.op /\ r.op \in {"create_key", "issue_reset", "create_api_key"} => r.arg # q.arg
    /\ r.op = "register" /\ q.op = "register" =>
         /\ {r.at, q.at} \subseteq {"insert", "commit"} => r.arg # q.arg
         /\ r.at = "commit" /\ q.at = "commit" => r.who # q.who /\ r.seen.login # q.seen.login
    /\ r.op = "confirm_reset" /\ q.op = "confirm_reset" /\ r.at = "apply" /\ q.at = "apply" =>
         r.arg # q.arg

JobsOK == \A t \in Threads : JobOK(req[t])
ThreadsApart == \A t, u \in Threads : t # u => Apart(req[t], req[u])

AccountInv ==
    /\ AccountTypeOK /\ req \in [Threads -> ReqType]
    /\ RowsOK /\ JobsOK /\ ThreadsApart

----------------------------------------------------------------------------
(* Requests. *)

LEMMA UserTyped ==
  /\ NoUser \in UserRow /\ NoUser.state = "none" /\ NoUser.login = None
  /\ NoUser.locked = "never" /\ NoUser.failed = 0
  /\ \A l \in Logins, p \in Passwords :
       /\ NewUser(l, p) \in UserRow
       /\ NewUser(l, p).state = "active" /\ NewUser(l, p).login = l /\ NewUser(l, p).locked = "never"
<1>1. Threshold \in Nat \ {0}
  BY AccountAssumption
<1> QED
  BY <1>1 DEF NoUser, NewUser, UserRow

LEMMA IdleTyped ==
  /\ Idle \in ReqType /\ Idle.op = "idle" /\ Idle.at = "" /\ JobOK(Idle)
  /\ Idle.who = None /\ Idle.arg = None
  /\ \A q : Apart(Idle, q) /\ Apart(q, Idle)
<1>1. Idle \in ReqType
  BY UserTyped DEF Idle, ReqType, Ops, Places
<1> QED
  BY <1>1 DEF Idle, JobOK, KeyJob, RegisterJob, UserJob, ResetJob, Apart

\* One request goes on, and the others still have what they rely on.
LEMMA TurnStep ==
  ASSUME AccountInv, NEW t \in Threads, NEW r \in ReqType, req' = [req EXCEPT ![t] = r],
         JobOK(r)',
         \A u \in Threads \ {t} : JobOK(req[u])',
         \A u \in Threads \ {t} : Apart(r, req[u]) /\ Apart(req[u], r),
         users' \in [Users -> UserRow], keys' \in [ActivationKeys -> KeyRow],
         resets' \in [Resets -> ResetRow], sessions' \subseteq Users,
         served' \in 0..MaxRequests, crashes' \in 0..MaxCrashes,
         RowsOK'
  PROVE  AccountInv'
<1>1. req' \in [Threads -> ReqType]
  BY DEF AccountInv
<1>2. /\ req'[t] = r
      /\ \A u \in Threads \ {t} : req'[u] = req[u]
  BY DEF AccountInv
<1>3. AccountTypeOK'
  BY <1>1 DEF AccountTypeOK, ReqType
<1>4. JobsOK'
  <2> SUFFICES ASSUME NEW u \in Threads PROVE JobOK(req[u])'
    BY DEF JobsOK
  <2>1. CASE u = t
    BY <2>1, <1>2 DEF JobOK, KeyJob, RegisterJob, UserJob, ResetJob
  <2>2. CASE u # t
    BY <2>2, <1>2 DEF JobOK, KeyJob, RegisterJob, UserJob, ResetJob
  <2> QED
    BY <2>1, <2>2
<1>5. ThreadsApart'
  BY <1>2 DEF ThreadsApart, AccountInv
<1> QED
  BY <1>1, <1>3, <1>4, <1>5 DEF AccountInv

\* A step of one request that writes no table.
LEMMA QuietTurn ==
  ASSUME AccountInv, NEW t \in Threads, NEW r \in ReqType, req' = [req EXCEPT ![t] = r],
         UNCHANGED <<tables, sessions>>,
         served' \in 0..MaxRequests, crashes' \in 0..MaxCrashes,
         JobOK(r), \A u \in Threads \ {t} : Apart(r, req[u]) /\ Apart(req[u], r)
  PROVE  AccountInv'
<1>1. UNCHANGED <<users, keys, resets, sessions>>
  BY DEF tables
<1>2. \A u \in Threads \ {t} : req'[u] = req[u]
  BY DEF AccountInv
<1>3. JobOK(r)'
  BY <1>1 DEF JobOK, KeyJob, RegisterJob, UserJob, ResetJob, LoginTaken, Exists
<1>4. \A u \in Threads \ {t} : JobOK(req[u])'
  BY <1>1, <1>2 DEF AccountInv, JobsOK, JobOK, KeyJob, RegisterJob, UserJob, ResetJob, LoginTaken, Exists
<1>5. RowsOK'
  BY <1>1 DEF AccountInv, RowsOK, KeyRowsOK, UserRowsOK, ResetRowsOK, Exists
<1> QED
  BY <1>1, <1>3, <1>4, <1>5, TurnStep DEF AccountInv, AccountTypeOK

LEMMA BeginQuiet ==
  ASSUME AccountInv, NEW t \in Threads, NEW r \in ReqType, Begin(t, r), UNCHANGED <<tables, sessions>>,
         JobOK(r), \A u \in Threads \ {t} : Apart(r, req[u]) /\ Apart(req[u], r)
  PROVE  AccountInv'
<1>1. served' \in 0..MaxRequests /\ crashes' \in 0..MaxCrashes
  BY AccountAssumption DEF Begin, AccountInv, AccountTypeOK
<1> QED
  BY <1>1, QuietTurn DEF Begin

\* An answer that leaves the tables as they are.
LEMMA AnswerQuiet ==
  ASSUME AccountInv, NEW t \in Threads, Answer(t), UNCHANGED <<tables, sessions>>
  PROVE  AccountInv'
<1>1. served' \in 0..MaxRequests /\ crashes' \in 0..MaxCrashes
  BY DEF Answer, Goto, pool, AccountInv, AccountTypeOK
<1> QED
  BY <1>1, QuietTurn, IdleTyped DEF Answer, Goto

\* The place moves on.
LEMMA GotoQuiet ==
  ASSUME AccountInv, NEW t \in Threads, NEW r \in ReqType, Goto(t, r), UNCHANGED <<tables, sessions>>,
         JobOK(r), \A u \in Threads \ {t} : Apart(r, req[u]) /\ Apart(req[u], r)
  PROVE  AccountInv'
<1>1. served' \in 0..MaxRequests /\ crashes' \in 0..MaxCrashes
  BY DEF Goto, pool, AccountInv, AccountTypeOK
<1> QED
  BY <1>1, QuietTurn DEF Goto

LEMMA CreateActivationKeyStep == ASSUME AccountInv, NEW t \in Threads, CreateActivationKey(t) PROVE AccountInv'
<1>1. PICK k \in Unborn(keys) : Begin(t, [Request("create_key", "insert") EXCEPT !.arg = k])
  BY DEF CreateActivationKey
<1> DEFINE r == [Request("create_key", "insert") EXCEPT !.arg = k]
<1>2. k \in ActivationKeys /\ keys[k].state = "none" /\ \A u \in Threads : req[u].arg # k
  BY DEF Unborn, AccountInv, AccountTypeOK
<1>3. r \in ReqType /\ r.op = "create_key" /\ r.arg = k
  BY <1>2, UserTyped DEF Request, Idle, ReqType, Ops, Places
<1>4. Begin(t, r) /\ UNCHANGED <<tables, sessions>>
  BY <1>1 DEF CreateActivationKey
<1> HIDE DEF r
<1>5. JobOK(r)
  BY <1>2, <1>3 DEF JobOK, KeyJob, RegisterJob, UserJob, ResetJob
<1>6. \A u \in Threads \ {t} : Apart(r, req[u]) /\ Apart(req[u], r)
  BY <1>2, <1>3 DEF Apart
<1> QED
  BY <1>3, <1>5, <1>6, <1>4, BeginQuiet

LEMMA ReadActivationKeyStep == ASSUME AccountInv, NEW t \in Threads, ReadActivationKey(t) PROVE AccountInv'
<1>1. PICK k \in ActivationKeys, op \in {"update_key", "delete_key"} :
        /\ keys[k].state \in {"issued", "redeemed"}
        /\ op = "delete_key" => keys[k].state = "issued"
        /\ Begin(t, [Request(op, "write") EXCEPT !.arg = k, !.row = keys[k]])
  BY DEF ReadActivationKey
<1> DEFINE r == [Request(op, "write") EXCEPT !.arg = k, !.row = keys[k]]
<1>2. keys[k] \in KeyRow
  BY DEF AccountInv, AccountTypeOK
<1>3. r \in ReqType /\ r.op = op /\ r.arg = k /\ r.row = keys[k]
  BY <1>2, UserTyped DEF Request, Idle, ReqType, Ops, Places
<1>4. Begin(t, r) /\ UNCHANGED <<tables, sessions>>
  BY <1>1 DEF ReadActivationKey
<1> HIDE DEF r
<1>5. JobOK(r)
  BY <1>1, <1>3 DEF JobOK, KeyJob, RegisterJob, UserJob, ResetJob
<1>6. \A u \in Threads \ {t} : Apart(r, req[u]) /\ Apart(req[u], r)
  BY <1>3 DEF Apart
<1> QED
  BY <1>3, <1>5, <1>6, <1>4, BeginQuiet

LEMMA PostRegisterStep == ASSUME AccountInv, NEW t \in Threads, PostRegister(t) PROVE AccountInv'
<1>1. PICK k \in ActivationKeys, l \in Logins, p \in Passwords :
        /\ keys[k].state # "none"
        /\ Begin(t, [Request("register", "lock") EXCEPT !.arg = k, !.pw = p,
                                                        !.seen = [NoUser EXCEPT !.login = l]])
  BY DEF PostRegister
<1> DEFINE q == [NoUser EXCEPT !.login = l]
           r == [Request("register", "lock") EXCEPT !.arg = k, !.pw = p, !.seen = q]
<1>2. q \in UserRow /\ q.login = l
  BY UserTyped DEF UserRow
<1> HIDE DEF q
<1>3. r \in ReqType /\ r.op = "register" /\ r.at = "lock" /\ r.arg = k /\ r.pw = p /\ r.seen = q
  BY <1>2, UserTyped DEF Request, Idle, ReqType, Ops, Places
<1>4. Begin(t, r) /\ UNCHANGED <<tables, sessions>>
  BY <1>1 DEF PostRegister, q
<1> HIDE DEF r
<1>5. JobOK(r)
  BY <1>1, <1>2, <1>3 DEF JobOK, KeyJob, RegisterJob, UserJob, ResetJob
<1>6. \A u \in Threads \ {t} : Apart(r, req[u]) /\ Apart(req[u], r)
  BY <1>3 DEF Apart
<1> QED
  BY <1>3, <1>5, <1>6, <1>4, BeginQuiet

LEMMA StartLoginStep == ASSUME AccountInv, NEW t \in Threads, StartLogin(t) PROVE AccountInv'
<1>1. PICK a \in Accounts, p \in Passwords :
        /\ users[a].state = "active" /\ users[a].locked # "running"
        /\ Begin(t, [Request("login", "verify") EXCEPT !.who = a, !.pw = p, !.seen = users[a]])
  BY DEF StartLogin
<1> DEFINE r == [Request("login", "verify") EXCEPT !.who = a, !.pw = p, !.seen = users[a]]
<1>2. users[a] \in UserRow /\ a \in Users
  BY DEF AccountInv, AccountTypeOK, Users
<1>3. r \in ReqType /\ r.op = "login" /\ r.who = a /\ r.seen = users[a]
  BY <1>2, UserTyped DEF Request, Idle, ReqType, Ops, Places
<1>4. Begin(t, r) /\ UNCHANGED <<tables, sessions>>
  BY <1>1 DEF StartLogin
<1> HIDE DEF r
<1>5. JobOK(r)
  BY <1>1, <1>3 DEF JobOK, KeyJob, RegisterJob, UserJob, ResetJob, Exists
<1>6. \A u \in Threads \ {t} : Apart(r, req[u]) /\ Apart(req[u], r)
  BY <1>3 DEF Apart
<1> QED
  BY <1>3, <1>5, <1>6, <1>4, BeginQuiet

LEMMA StartAdminLoginStep == ASSUME AccountInv, NEW t \in Threads, StartAdminLogin(t) PROVE AccountInv'
<1>1. PICK m \in Admins, p \in Passwords :
        /\ users[m].state = "active" /\ users[m].locked # "running"
        /\ Begin(t, [Request("admin_login", "verify") EXCEPT !.who = m, !.pw = p, !.seen = users[m]])
  BY DEF StartAdminLogin
<1> DEFINE r == [Request("admin_login", "verify") EXCEPT !.who = m, !.pw = p, !.seen = users[m]]
<1>2. users[m] \in UserRow /\ m \in Users
  BY DEF AccountInv, AccountTypeOK, Users
<1>3. r \in ReqType /\ r.op = "admin_login" /\ r.who = m /\ r.seen = users[m]
  BY <1>2, UserTyped DEF Request, Idle, ReqType, Ops, Places
<1>4. Begin(t, r) /\ UNCHANGED <<tables, sessions>>
  BY <1>1 DEF StartAdminLogin
<1> HIDE DEF r
<1>5. JobOK(r)
  BY <1>1, <1>3 DEF JobOK, KeyJob, RegisterJob, UserJob, ResetJob, Exists
<1>6. \A u \in Threads \ {t} : Apart(r, req[u]) /\ Apart(req[u], r)
  BY <1>3 DEF Apart
<1> QED
  BY <1>3, <1>5, <1>6, <1>4, BeginQuiet

LEMMA PostChangePasswordStep == ASSUME AccountInv, NEW t \in Threads, PostChangePassword(t) PROVE AccountInv'
<1>1. PICK a \in CurrentAccounts, old \in Passwords, new \in Passwords :
        Begin(t, [Request("change_password", "reload") EXCEPT !.who = a, !.pw = old, !.new = new])
  BY DEF PostChangePassword
<1> DEFINE r == [Request("change_password", "reload") EXCEPT !.who = a, !.pw = old, !.new = new]
<1>2. users[a] \in UserRow /\ a \in Users /\ a \in Accounts /\ users[a].state = "active"
  BY DEF AccountInv, AccountTypeOK, Users, CurrentAccounts
<1>3. r \in ReqType /\ r.op = "change_password" /\ r.who = a /\ r.new = new
  BY <1>2, UserTyped DEF Request, Idle, ReqType, Ops, Places
<1>4. Begin(t, r) /\ UNCHANGED <<tables, sessions>>
  BY <1>1 DEF PostChangePassword
<1> HIDE DEF r
<1>5. JobOK(r)
  BY <1>2, <1>3 DEF JobOK, KeyJob, RegisterJob, UserJob, ResetJob, Exists
<1>6. \A u \in Threads \ {t} : Apart(r, req[u]) /\ Apart(req[u], r)
  BY <1>3 DEF Apart
<1> QED
  BY <1>3, <1>5, <1>6, <1>4, BeginQuiet

LEMMA PostResetTokenStep == ASSUME AccountInv, NEW t \in Threads, PostResetToken(t) PROVE AccountInv'
<1>1. PICK a \in Accounts, x \in Unborn(resets) :
        /\ users[a].state # "none"
        /\ Begin(t, [Request("issue_reset", "insert") EXCEPT !.who = a, !.arg = x])
  BY DEF PostResetToken
<1> DEFINE r == [Request("issue_reset", "insert") EXCEPT !.who = a, !.arg = x]
<1>2. x \in Resets /\ resets[x].state = "none" /\ (\A u \in Threads : req[u].arg # x) /\ a \in Users
  BY DEF Unborn, AccountInv, AccountTypeOK, Users
<1>3. r \in ReqType /\ r.op = "issue_reset" /\ r.who = a /\ r.arg = x
  BY <1>2, UserTyped DEF Request, Idle, ReqType, Ops, Places
<1>4. Begin(t, r) /\ UNCHANGED <<tables, sessions>>
  BY <1>1 DEF PostResetToken
<1> HIDE DEF r
<1>5. JobOK(r)
  BY <1>1, <1>2, <1>3 DEF JobOK, KeyJob, RegisterJob, UserJob, ResetJob, Exists
<1>6. \A u \in Threads \ {t} : Apart(r, req[u]) /\ Apart(req[u], r)
  BY <1>2, <1>3 DEF Apart
<1> QED
  BY <1>3, <1>5, <1>6, <1>4, BeginQuiet

LEMMA PostPasswordResetStep == ASSUME AccountInv, NEW t \in Threads, PostPasswordReset(t) PROVE AccountInv'
<1>1. PICK x \in Resets, p \in Passwords :
        /\ resets[x].state # "none"
        /\ Begin(t, [Request("confirm_reset", "lock") EXCEPT !.arg = x, !.new = p])
  BY DEF PostPasswordReset
<1> DEFINE r == [Request("confirm_reset", "lock") EXCEPT !.arg = x, !.new = p]
<1>2. r \in ReqType /\ r.op = "confirm_reset" /\ r.at = "lock" /\ r.arg = x /\ r.new = p
  BY UserTyped DEF Request, Idle, ReqType, Ops, Places
<1>3. Begin(t, r) /\ UNCHANGED <<tables, sessions>>
  BY <1>1 DEF PostPasswordReset
<1> HIDE DEF r
<1>4. JobOK(r)
  BY <1>1, <1>2 DEF JobOK, KeyJob, RegisterJob, UserJob, ResetJob
<1>5. \A u \in Threads \ {t} : Apart(r, req[u]) /\ Apart(req[u], r)
  BY <1>2 DEF Apart
<1> QED
  BY <1>2, <1>4, <1>5, <1>3, BeginQuiet

----------------------------------------------------------------------------
(* Steps of requests of AccountAccess. *)

\* What the invariant says of two threads.
LEMMA ThreadFacts ==
  ASSUME AccountInv, NEW t \in Threads
  PROVE  /\ req[t] \in ReqType /\ JobOK(req[t])
         /\ \A u \in Threads \ {t} : /\ req[u] \in ReqType /\ JobOK(req[u])
                                     /\ Apart(req[t], req[u]) /\ Apart(req[u], req[t])
BY DEF AccountInv, JobsOK, ThreadsApart

\* A request writes to the tables and answers.
LEMMA AnswerStep ==
  ASSUME AccountInv, NEW t \in Threads, Answer(t),
         users' \in [Users -> UserRow], keys' \in [ActivationKeys -> KeyRow],
         resets' \in [Resets -> ResetRow], sessions' \subseteq Users, RowsOK',
         \A u \in Threads \ {t} : req'[u] = req[u] => JobOK(req[u])'
  PROVE  AccountInv'
<1>1. req' = [req EXCEPT ![t] = Idle] /\ UNCHANGED <<workload, served, crashes>>
  BY DEF Answer, Goto, pool
<1>2. \A u \in Threads \ {t} : req'[u] = req[u]
  BY <1>1 DEF AccountInv
<1>3. served' \in 0..MaxRequests /\ crashes' \in 0..MaxCrashes
  BY <1>1 DEF AccountInv, AccountTypeOK
<1>4. JobOK(Idle)'
  BY DEF Idle, JobOK, KeyJob, RegisterJob, UserJob, ResetJob
<1> QED
  BY <1>1, <1>2, <1>3, <1>4, TurnStep, IdleTyped

LEMMA InsertActivationKeyStep == ASSUME AccountInv, NEW t \in Threads, InsertActivationKey(t) PROVE AccountInv'
<1> DEFINE k == req[t].arg
<1>1. k \in ActivationKeys /\ keys[k].state = "none"
  BY ThreadFacts DEF InsertActivationKey, At, JobOK, KeyJob
<1>2. /\ keys' = [keys EXCEPT ![k].state = "issued"] /\ Answer(t)
      /\ UNCHANGED <<users, resets, sessions>>
  BY DEF InsertActivationKey
<1>3. keys \in [ActivationKeys -> KeyRow] /\ keys' \in [ActivationKeys -> KeyRow]
  BY <1>1, <1>2 DEF AccountInv, AccountTypeOK, KeyRow
<1>4. /\ keys'[k].state = "issued" /\ keys'[k].by = keys[k].by
      /\ \A j \in ActivationKeys \ {k} : keys'[j] = keys[j]
  BY <1>1, <1>2, <1>3 DEF KeyRow
<1> HIDE DEF k
<1>5. RowsOK'
  BY <1>1, <1>2, <1>4 DEF AccountInv, RowsOK, KeyRowsOK, UserRowsOK, ResetRowsOK, Exists
<1>6. ASSUME NEW u \in Threads \ {t}, req'[u] = req[u] PROVE JobOK(req[u])'
  <2>1. JobOK(req[u]) /\ Apart(req[t], req[u]) /\ At(t, "create_key", "insert")
    BY ThreadFacts DEF InsertActivationKey
  <2> QED
    BY <2>1, <1>1, <1>2, <1>4, <1>6
       DEF JobOK, KeyJob, RegisterJob, UserJob, ResetJob, LoginTaken, Exists, Apart, At, k
<1> QED
  BY <1>2, <1>3, <1>5, <1>6, AnswerStep DEF AccountInv, AccountTypeOK

\* While one holds the row lock of a key, the key stays issued.
LEMMA LockMeans ==
  ASSUME AccountInv, NEW t \in Threads, NEW k, ~KeyLockedByOther(t, k),
         NEW u \in Threads \ {t}, req[u].op = "register", req[u].at \in {"insert", "commit"}
  PROVE  req[u].arg # k
BY DEF KeyLockedByOther

LEMMA UpdateActivationKeyStep == ASSUME AccountInv, NEW t \in Threads, UpdateActivationKey(t) PROVE AccountInv'
<1> DEFINE k == req[t].arg
<1>1. k \in ActivationKeys
  BY ThreadFacts DEF UpdateActivationKey, At, JobOK, KeyJob
<1>2. /\ keys' = IF keys[k].state = "gone" THEN keys ELSE [keys EXCEPT ![k].note = TRUE]
      /\ Answer(t) /\ UNCHANGED <<users, resets, sessions>>
  BY DEF UpdateActivationKey
<1>3. keys \in [ActivationKeys -> KeyRow] /\ keys' \in [ActivationKeys -> KeyRow]
  BY <1>1, <1>2 DEF AccountInv, AccountTypeOK, KeyRow
<1>4. \A j \in ActivationKeys : keys'[j].state = keys[j].state /\ keys'[j].by = keys[j].by
  BY <1>1, <1>2, <1>3 DEF KeyRow
<1> HIDE DEF k
<1>5. RowsOK'
  BY <1>2, <1>4 DEF AccountInv, RowsOK, KeyRowsOK, UserRowsOK, ResetRowsOK, Exists
<1>6. ASSUME NEW u \in Threads \ {t}, req'[u] = req[u] PROVE JobOK(req[u])'
  <2>1. JobOK(req[u])
    BY ThreadFacts
  <2> QED
    BY <2>1, <1>2, <1>4, <1>6 DEF JobOK, KeyJob, RegisterJob, UserJob, ResetJob, LoginTaken, Exists
<1> QED
  BY <1>2, <1>3, <1>5, <1>6, AnswerStep DEF AccountInv, AccountTypeOK

LEMMA DeleteActivationKeyStep == ASSUME AccountInv, NEW t \in Threads, DeleteActivationKey(t) PROVE AccountInv'
<1> DEFINE k == req[t].arg
<1>1. k \in ActivationKeys
  BY ThreadFacts DEF DeleteActivationKey, At, JobOK, KeyJob
<1>2. /\ keys' = [keys EXCEPT ![k].state = "gone"] /\ ~KeyLockedByOther(t, k)
      /\ Answer(t) /\ UNCHANGED <<users, resets, sessions>>
  BY DEF DeleteActivationKey
<1>3. keys \in [ActivationKeys -> KeyRow] /\ keys' \in [ActivationKeys -> KeyRow]
  BY <1>1, <1>2 DEF AccountInv, AccountTypeOK, KeyRow
<1>4. /\ keys'[k].state = "gone" /\ keys[k].state # "none"
      /\ \A j \in ActivationKeys : keys'[j].by = keys[j].by
      /\ \A j \in ActivationKeys \ {k} : keys'[j] = keys[j]
  BY <1>1, <1>2, <1>3, ThreadFacts DEF KeyRow, JobOK, KeyJob, DeleteActivationKey, At
<1> HIDE DEF k
<1>5. RowsOK'
  BY <1>2, <1>4 DEF AccountInv, RowsOK, KeyRowsOK, UserRowsOK, ResetRowsOK, Exists
<1>6. ASSUME NEW u \in Threads \ {t}, req'[u] = req[u] PROVE JobOK(req[u])'
  <2>1. /\ JobOK(req[u])
        /\ req[u].op = "register" /\ req[u].at \in {"insert", "commit"} => req[u].arg # k
    BY <1>2, ThreadFacts, LockMeans
  <2> QED
    BY <2>1, <1>1, <1>2, <1>4, <1>6
       DEF JobOK, KeyJob, RegisterJob, UserJob, ResetJob, LoginTaken, Exists
<1> QED
  BY <1>2, <1>3, <1>5, <1>6, AnswerStep DEF AccountInv, AccountTypeOK

LEMMA LockActivationKeyStep == ASSUME AccountInv, NEW t \in Threads, LockActivationKey(t) PROVE AccountInv'
<1> DEFINE k == req[t].arg
           r == [req[t] EXCEPT !.at = "insert"]
<1>1. /\ At(t, "register", "lock") /\ ~KeyLockedByOther(t, k) /\ UNCHANGED <<tables, sessions>>
      /\ (keys[k].state = "issued" /\ Goto(t, r)) \/ Answer(t)
  BY DEF LockActivationKey
<1>2. CASE Answer(t)
  BY <1>1, <1>2, AnswerQuiet
<1>3. CASE keys[k].state = "issued" /\ Goto(t, r)
  <2>1. /\ r \in ReqType /\ r.op = "register" /\ r.at = "insert" /\ r.arg = k
        /\ r.pw = req[t].pw /\ r.seen = req[t].seen
    BY <1>1, ThreadFacts DEF ReqType, Ops, Places, At
  <2> HIDE DEF r, k
  <2>2. JobOK(r)
    BY <2>1, <1>1, <1>3, ThreadFacts DEF JobOK, KeyJob, RegisterJob, UserJob, ResetJob, At, k
  <2>3. \A u \in Threads \ {t} : Apart(r, req[u]) /\ Apart(req[u], r)
    BY <2>1, <1>1, LockMeans DEF Apart
  <2> QED
    BY <1>1, <1>3, <2>1, <2>2, <2>3, GotoQuiet
<1> QED
  BY <1>1, <1>2, <1>3

LEMMA InsertAccountStep == ASSUME AccountInv, NEW t \in Threads, InsertAccount(t) PROVE AccountInv'
<1> DEFINE l == req[t].seen.login
           a == CHOOSE b \in FreeAccounts : TRUE
           r == [req[t] EXCEPT !.at = "commit", !.who = a]
<1>1. /\ At(t, "register", "insert") /\ ~LoginPending(t, l) /\ UNCHANGED <<tables, sessions>>
      /\ Answer(t) \/ (~LoginTaken(l) /\ FreeAccounts # {} /\ Goto(t, r))
  BY DEF InsertAccount
<1>2. CASE Answer(t)
  BY <1>1, <1>2, AnswerQuiet
<1>3. CASE ~LoginTaken(l) /\ FreeAccounts # {} /\ Goto(t, r)
  <2>1. a \in FreeAccounts
    BY <1>3
  <2> HIDE DEF a
  <2>2. a \in Accounts /\ users[a].state = "none" /\ \A u \in Threads : req[u].who # a
    BY <2>1 DEF FreeAccounts
  <2>3. /\ r \in ReqType /\ r.op = "register" /\ r.at = "commit" /\ r.arg = req[t].arg
        /\ r.pw = req[t].pw /\ r.seen = req[t].seen /\ r.who = a
    BY <1>1, <2>2, ThreadFacts DEF ReqType, Ops, Places, At, Users
  <2> HIDE DEF r
  <2>4. JobOK(r)
    BY <2>2, <2>3, <1>1, <1>3, ThreadFacts DEF JobOK, KeyJob, RegisterJob, UserJob, ResetJob, At
  <2>5. \A u \in Threads \ {t} : Apart(r, req[u]) /\ Apart(req[u], r)
    <3> SUFFICES ASSUME NEW u \in Threads \ {t} PROVE Apart(r, req[u]) /\ Apart(req[u], r)
      OBVIOUS
    <3>1. /\ Apart(req[t], req[u]) /\ Apart(req[u], req[t])
          /\ At(u, "register", "commit") => req[u].seen.login # l
      BY <1>1, ThreadFacts DEF LoginPending
    <3> QED
      BY <3>1, <2>2, <2>3, <1>1 DEF Apart, At
  <2> QED
    BY <1>1, <1>3, <2>3, <2>4, <2>5, GotoQuiet
<1> QED
  BY <1>1, <1>2, <1>3

LEMMA CommitRegistrationStep ==
  ASSUME AccountInv, NEW t \in Threads, CommitRegistration(t) PROVE AccountInv'
<1> DEFINE k == req[t].arg
           a == req[t].who
           l == req[t].seen.login
           new == NewUser(l, req[t].pw)
<1>1. /\ At(t, "register", "commit") /\ Answer(t) /\ UNCHANGED <<resets, sessions>>
      /\ users' = [users EXCEPT ![a] = new]
      /\ keys' = [keys EXCEPT ![k].state = "redeemed", ![k].by = a]
  BY DEF CommitRegistration
<1>2. /\ k \in ActivationKeys /\ a \in Accounts /\ l \in Logins /\ req[t].pw \in Passwords
      /\ keys[k].state = "issued" /\ users[a].state = "none" /\ ~LoginTaken(l)
  BY <1>1, ThreadFacts DEF JobOK, RegisterJob, At
<1>3. a \in Users /\ None \notin Users /\ None \notin Logins
  BY <1>2, AccountAssumption DEF Users
<1>4. /\ new \in UserRow /\ new.state = "active" /\ new.login = l
      /\ users' \in [Users -> UserRow] /\ users'[a] = new
      /\ \A u \in Users \ {a} : users'[u] = users[u]
  BY <1>1, <1>2, <1>3, UserTyped DEF AccountInv, AccountTypeOK
<1>5. keys \in [ActivationKeys -> KeyRow] /\ keys' \in [ActivationKeys -> KeyRow]
  BY <1>1, <1>2 DEF AccountInv, AccountTypeOK, KeyRow
<1>6. /\ keys'[k].state = "redeemed" /\ keys'[k].by = a
      /\ \A j \in ActivationKeys \ {k} : keys'[j] = keys[j]
  BY <1>1, <1>2, <1>5 DEF KeyRow
<1>7. /\ KeyRowsOK /\ UserRowsOK /\ ResetRowsOK
      /\ users \in [Users -> UserRow] /\ resets \in [Resets -> ResetRow]
  BY DEF AccountInv, AccountTypeOK, RowsOK
<1> HIDE DEF k, a, l, new
<1>8. \A u \in Users : users[u].state # "none" => users'[u] = users[u]
  BY <1>2, <1>4
<1>9. \A j \in ActivationKeys : keys[j].by \in Users \cup {None}
  BY <1>5 DEF KeyRow, Users
<1>10. KeyRowsOK'
  <2> SUFFICES ASSUME NEW j \in ActivationKeys, NEW i \in ActivationKeys
               PROVE  /\ keys'[j].state \in {"none", "issued"} => keys'[j].by = None
                      /\ keys'[j].state = "redeemed" => keys'[j].by # None
                      /\ keys'[j].by # None => users'[keys'[j].by].state # "none"
                      /\ keys'[j].by = keys'[i].by /\ j # i => keys'[j].by = None
    BY DEF KeyRowsOK
  <2>1. \A i2 \in ActivationKeys : keys[i2].by # a
    BY <1>2, <1>3, <1>7 DEF KeyRowsOK
  <2> QED
    BY <2>1, <1>3, <1>4, <1>6, <1>7, <1>8, <1>9 DEF KeyRowsOK
<1>11. UserRowsOK'
  <2>1. \A b \in Accounts : users'[b].state # "none" => \E j \in ActivationKeys : keys'[j].by = b
    <3> SUFFICES ASSUME NEW b \in Accounts, users'[b].state # "none", b # a
                 PROVE  \E j \in ActivationKeys : keys'[j].by = b
      BY <1>2, <1>6
    <3>1. PICK j \in ActivationKeys : keys[j].by = b
      BY <1>4, <1>7 DEF UserRowsOK, Users
    <3>2. j # k
      BY <3>1, <1>2, <1>3, <1>7 DEF KeyRowsOK, Users
    <3> QED
      BY <3>1, <3>2, <1>6
  <2>2. \A u \in Users : /\ users'[u].state = "none" => users'[u] = NoUser
                         /\ users'[u].state # "none" => users'[u].login \in Logins
    BY <1>2, <1>4, <1>7 DEF UserRowsOK
  <2>3. ASSUME NEW b \in Accounts, NEW c \in Accounts,
               b # c, users'[b].login = users'[c].login, users'[b].login # None
        PROVE  "deleted" \in {users'[b].state, users'[c].state}
    <3>1. \A d \in Accounts \ {a} : users[d].login = l => users[d].state = "deleted"
      <4> SUFFICES ASSUME NEW d \in Accounts \ {a}, users[d].login = l PROVE users[d].state = "deleted"
        OBVIOUS
      <4>1. users[d].state # "none"
        BY <1>2, <1>3, <1>7, UserTyped DEF UserRowsOK, Users
      <4>2. users[d].state \in {"none", "active", "suspended", "deleted"}
        BY <1>7 DEF UserRow, Users
      <4> QED
        BY <4>1, <4>2, <1>2 DEF LoginTaken
    <3> QED
      BY <3>1, <2>3, <1>4, <1>7 DEF UserRowsOK, Users
  <2> QED
    BY <2>1, <2>2, <2>3 DEF UserRowsOK
<1>12. ResetRowsOK'
  BY <1>1, <1>7, <1>8 DEF ResetRowsOK, Exists, Users
<1>13. ASSUME NEW u \in Threads \ {t}, req'[u] = req[u] PROVE JobOK(req[u])'
  <2>1. JobOK(req[u]) /\ Apart(req[t], req[u]) /\ Apart(req[u], req[t])
    BY ThreadFacts
  <2>2. KeyJob(req[u])' /\ ResetJob(req[u])' /\ UserJob(req[u])'
    <3>1. \A b : Exists(b) => Exists(b)'
      BY <1>8 DEF Exists, Users
    <3>2. KeyJob(req[u])'
      BY <2>1, <1>2, <1>6, <1>13 DEF JobOK, KeyJob
    <3>3. ResetJob(req[u])'
      BY <2>1, <3>1, <1>1, <1>13 DEF JobOK, ResetJob
    <3>4. UserJob(req[u])'
      BY <2>1, <3>1, <1>8, <1>13 DEF JobOK, UserJob, Users
    <3> QED
      BY <3>2, <3>3, <3>4
  <2>3. RegisterJob(req[u])'
    <3> SUFFICES ASSUME req[u].op = "register"
                 PROVE  /\ req[u].arg \in ActivationKeys /\ keys'[req[u].arg].state # "none"
                        /\ req[u].pw \in Passwords /\ req[u].seen.login \in Logins
                        /\ req[u].at \in {"insert", "commit"} => keys'[req[u].arg].state = "issued"
                        /\ req[u].at = "commit" =>
                             /\ req[u].who \in Accounts /\ users'[req[u].who].state = "none"
                             /\ ~LoginTaken(req[u].seen.login)'
      BY <1>13 DEF RegisterJob
    <3>1. RegisterJob(req[u]) /\ Apart(req[t], req[u])
      BY <2>1 DEF JobOK
    <3>2. req[u].at \in {"insert", "commit"} => req[u].arg # k
      BY <3>1, <1>1 DEF Apart, At, k
    <3>3. req[u].at = "commit" => req[u].who # a /\ req[u].seen.login # l
      BY <3>1, <1>1 DEF Apart, At, a, l
    <3>4. req[u].at = "commit" => ~LoginTaken(req[u].seen.login)'
      BY <3>1, <3>3, <1>4, <1>13 DEF RegisterJob, LoginTaken, Users
    <3> QED
      BY <3>1, <3>2, <3>3, <3>4, <1>4, <1>6 DEF RegisterJob, Users
  <2> QED
    BY <2>2, <2>3 DEF JobOK
<1> QED
  BY <1>1, <1>4, <1>5, <1>7, <1>10, <1>11, <1>12, <1>13, AnswerStep
     DEF AccountInv, AccountTypeOK, RowsOK

\* Some columns of users who exist change: neither state nor login.
SameUsers ==
    \A u \in Users : /\ users'[u].state = users[u].state /\ users'[u].login = users[u].login
                     /\ users[u].state = "none" => users'[u] = users[u]

LEMMA ColumnsRows ==
  ASSUME AccountInv, SameUsers, UNCHANGED <<keys, resets>>
  PROVE  /\ RowsOK'
         /\ \A r : JobOK(r) => JobOK(r)'
<1>1. KeyRowsOK /\ UserRowsOK /\ ResetRowsOK /\ keys \in [ActivationKeys -> KeyRow]
  BY DEF AccountInv, AccountTypeOK, RowsOK
<1>2. \A u \in Users : users'[u].state = users[u].state /\ users'[u].login = users[u].login
  BY DEF SameUsers
<1>3. /\ \A a : Exists(a) => Exists(a)'
      /\ \A l : ~LoginTaken(l) => ~LoginTaken(l)'
  BY <1>2 DEF Exists, LoginTaken, Users
<1>4. KeyRowsOK'
  <2>1. \A k \in ActivationKeys : keys[k].by # None => keys[k].by \in Users
    BY <1>1 DEF KeyRow, Users
  <2> QED
    BY <2>1, <1>1, <1>2 DEF KeyRowsOK
<1>5. UserRowsOK'
  BY <1>1, <1>2 DEF UserRowsOK, Users, SameUsers
<1>6. ResetRowsOK'
  BY <1>1, <1>3 DEF ResetRowsOK
<1>7. ASSUME NEW r, JobOK(r) PROVE JobOK(r)'
  <2>1. KeyJob(r)' /\ ResetJob(r)' /\ UserJob(r)'
    BY <1>2, <1>3, <1>7 DEF JobOK, KeyJob, ResetJob, UserJob, Users
  <2>2. RegisterJob(r)'
    BY <1>2, <1>3, <1>7 DEF JobOK, RegisterJob, Users
  <2> QED
    BY <2>1, <2>2 DEF JobOK
<1> QED
  BY <1>4, <1>5, <1>6, <1>7 DEF RowsOK

LEMMA ColumnsStep ==
  ASSUME AccountInv, NEW t \in Threads, Answer(t), users' \in [Users -> UserRow], SameUsers,
         UNCHANGED <<keys, resets>>, sessions' \subseteq Users
  PROVE  AccountInv'
<1>1. RowsOK' /\ \A r : JobOK(r) => JobOK(r)'
  BY ColumnsRows
<1>2. ASSUME NEW u \in Threads \ {t}, req'[u] = req[u] PROVE JobOK(req[u])'
  <2>1. JobOK(req[u])
    BY ThreadFacts
  <2>2. ASSUME NEW r, r = req[u] PROVE JobOK(req[u])'
    <3>1. JobOK(r)'
      BY <2>1, <2>2, <1>1
    <3> QED
      BY <3>1, <2>2, <1>2 DEF JobOK, KeyJob, RegisterJob, UserJob, ResetJob
  <2> QED
    BY <2>2
<1> QED
  BY <1>1, <1>2, AnswerStep DEF AccountInv, AccountTypeOK

\* The user of a login or of a change of password exists.
LEMMA UserOf ==
  ASSUME AccountInv, NEW t \in Threads,
         req[t].op \in {"login", "admin_login", "change_password"}
           \/ At(t, "confirm_reset", "apply")
  PROVE  req[t].who \in Users /\ users[req[t].who].state # "none"
BY ThreadFacts DEF JobOK, UserJob, ResetJob, Exists, Users, At

\* One user's columns change.
LEMMA OneUser ==
  ASSUME AccountInv, NEW u \in Users, users[u].state # "none", NEW row \in UserRow,
         row.state = users[u].state, row.login = users[u].login, users' = [users EXCEPT ![u] = row]
  PROVE  users' \in [Users -> UserRow] /\ SameUsers
BY DEF AccountInv, AccountTypeOK, SameUsers

LEMMA PasswordFailsStep == ASSUME AccountInv, NEW t \in Threads, PasswordFails(t) PROVE AccountInv'
<1> DEFINE n == IF req[t].seen.failed = Threshold THEN Threshold ELSE req[t].seen.failed + 1
           u == req[t].who
           row == [users[u] EXCEPT !.failed = n, !.locked = IF n = Threshold THEN "running" ELSE @]
<1>1. /\ u \in Users /\ users[u].state # "none" /\ users[u] \in UserRow
      /\ users \in [Users -> UserRow] /\ sessions \subseteq Users
  BY UserOf DEF PasswordFails, AccountInv, AccountTypeOK
<1>2. n \in 0..Threshold
  BY ThreadFacts, AccountAssumption DEF ReqType, UserRow
<1>3. users' = [users EXCEPT ![u] = row]
  BY <1>1 DEF PasswordFails
<1>4. row \in UserRow /\ row.state = users[u].state /\ row.login = users[u].login
  BY <1>1, <1>2 DEF UserRow
<1>5. users' \in [Users -> UserRow] /\ SameUsers
  BY <1>1, <1>3, <1>4, OneUser
<1> QED
  BY <1>1, <1>5, ColumnsStep DEF PasswordFails

LEMMA ResetColumnsTyped ==
  ASSUME NEW row \in UserRow, NEW seen
  PROVE  /\ ResetColumns(row, seen) \in UserRow
         /\ ResetColumns(row, seen).state = row.state /\ ResetColumns(row, seen).login = row.login
         /\ ResetColumns(row, seen).locked = IF seen.locked = "never" THEN row.locked ELSE "never"
<1> DEFINE f == IF seen.failed = 0 THEN row.failed ELSE 0
           g == IF seen.locked = "never" THEN row.locked ELSE "never"
<1>1. f \in 0..Threshold /\ g \in {"never", "running", "over"}
  BY AccountAssumption DEF UserRow
<1>2. ResetColumns(row, seen) = [row EXCEPT !.failed = f, !.locked = g]
  BY DEF ResetColumns
<1> HIDE DEF f
<1>3. [row EXCEPT !.failed = f, !.locked = g] \in UserRow
  BY <1>1 DEF UserRow
<1> QED
  BY <1>1, <1>2, <1>3 DEF UserRow

LEMMA PasswordMatchesStep == ASSUME AccountInv, NEW t \in Threads, PasswordMatches(t) PROVE AccountInv'
<1> DEFINE u == req[t].who
           row == ResetColumns(users[u], req[t].seen)
<1>1. /\ u \in Users /\ users[u].state # "none" /\ users[u] \in UserRow
      /\ users \in [Users -> UserRow] /\ sessions \subseteq Users
  BY UserOf DEF PasswordMatches, AccountInv, AccountTypeOK
<1>2. users' = [users EXCEPT ![u] = row]
  BY <1>1 DEF PasswordMatches
<1>3. row \in UserRow /\ row.state = users[u].state /\ row.login = users[u].login
  BY <1>1, ResetColumnsTyped
<1> HIDE DEF row
<1>4. users' \in [Users -> UserRow] /\ SameUsers
  BY <1>1, <1>2, <1>3, OneUser
<1> QED
  BY <1>1, <1>4, ColumnsStep DEF PasswordMatches

LEMMA ChangePasswordStep == ASSUME AccountInv, NEW t \in Threads, ChangePassword(t) PROVE AccountInv'
<1> DEFINE u == req[t].who
           row == [users[u] EXCEPT !.pw = req[t].new]
<1>1. /\ u \in Users /\ users[u].state # "none" /\ users[u] \in UserRow
      /\ users \in [Users -> UserRow] /\ sessions \subseteq Users /\ req[t].new \in Passwords
  BY UserOf, ThreadFacts DEF ChangePassword, At, JobOK, UserJob, AccountInv, AccountTypeOK
<1>2. users' = [users EXCEPT ![u] = row] \/ users' = users
  BY <1>1 DEF ChangePassword
<1>3. row \in UserRow /\ row.state = users[u].state /\ row.login = users[u].login
  BY <1>1 DEF UserRow
<1>4. users' \in [Users -> UserRow] /\ SameUsers
  <2>1. CASE users' = [users EXCEPT ![u] = row]
    BY <2>1, <1>1, <1>3, OneUser
  <2>2. CASE users' = users
    BY <2>2, <1>1 DEF SameUsers
  <2> QED
    BY <2>1, <2>2, <1>2
<1> QED
  BY <1>1, <1>4, ColumnsStep DEF ChangePassword

LEMMA IssueResetTokenStep == ASSUME AccountInv, NEW t \in Threads, IssueResetToken(t) PROVE AccountInv'
<1> DEFINE x == req[t].arg
           row == [state |-> "unused", past |-> FALSE, who |-> req[t].who]
<1>1. x \in Resets /\ resets[x].state = "none" /\ Exists(req[t].who)
  BY ThreadFacts DEF IssueResetToken, At, JobOK, ResetJob, UserJob
<1>2. resets' = [resets EXCEPT ![x] = row] /\ Answer(t) /\ UNCHANGED <<users, keys, sessions>>
  BY DEF IssueResetToken
<1>3. /\ resets' \in [Resets -> ResetRow] /\ resets'[x] = row
      /\ \A y \in Resets \ {x} : resets'[y] = resets[y]
  BY <1>1, <1>2 DEF AccountInv, AccountTypeOK, ResetRow, Exists
<1>4. RowsOK'
  <2>1. KeyRowsOK' /\ UserRowsOK'
    BY <1>2 DEF AccountInv, RowsOK, KeyRowsOK, UserRowsOK
  <2>2. ResetRowsOK'
    BY <1>1, <1>2, <1>3 DEF AccountInv, RowsOK, ResetRowsOK, Exists
  <2> QED
    BY <2>1, <2>2 DEF RowsOK
<1>5. ASSUME NEW u \in Threads \ {t}, req'[u] = req[u] PROVE JobOK(req[u])'
  <2>1. JobOK(req[u]) /\ Apart(req[t], req[u]) /\ At(t, "issue_reset", "insert")
    BY ThreadFacts DEF IssueResetToken
  <2>2. KeyJob(req[u])' /\ RegisterJob(req[u])' /\ UserJob(req[u])'
    BY <2>1, <1>2, <1>5 DEF JobOK, KeyJob, RegisterJob, UserJob, Exists, LoginTaken
  <2>3. ResetJob(req[u])'
    BY <2>1, <1>1, <1>2, <1>3, <1>5 DEF JobOK, ResetJob, Exists, Apart, At
  <2> QED
    BY <2>2, <2>3 DEF JobOK
<1> QED
  BY <1>2, <1>3, <1>4, <1>5, AnswerStep DEF AccountInv, AccountTypeOK

LEMMA LockResetTokenStep == ASSUME AccountInv, NEW t \in Threads, LockResetToken(t) PROVE AccountInv'
<1> DEFINE x == req[t].arg
           w == resets[x].who
           r == [req[t] EXCEPT !.at = "apply", !.who = w, !.seen = users[w]]
<1>1. /\ At(t, "confirm_reset", "lock") /\ UNCHANGED <<tables, sessions>>
      /\ ~\E u \in Threads \ {t} : At(u, "confirm_reset", "apply") /\ req[u].arg = x
      /\ Answer(t) \/ (resets[x].state = "unused" /\ Goto(t, r))
  BY DEF LockResetToken
<1>2. CASE Answer(t)
  BY <1>1, <1>2, AnswerQuiet
<1>3. CASE resets[x].state = "unused" /\ Goto(t, r)
  <2>1. x \in Resets /\ req[t].new \in Passwords /\ req[t] \in ReqType
    BY <1>1, ThreadFacts DEF JobOK, ResetJob, UserJob, At
  <2>2. Exists(w) /\ w \in Users /\ users[w] \in UserRow
    BY <2>1, <1>3 DEF AccountInv, AccountTypeOK, RowsOK, ResetRowsOK, Exists, Users
  <2>3. /\ r \in ReqType /\ r.op = "confirm_reset" /\ r.at = "apply" /\ r.arg = x
        /\ r.who = w /\ r.new = req[t].new
    BY <1>1, <2>1, <2>2 DEF ReqType, Ops, Places, At
  <2> HIDE DEF r
  <2>4. JobOK(r)
    BY <1>3, <2>1, <2>2, <2>3 DEF JobOK, KeyJob, RegisterJob, UserJob, ResetJob
  <2>5. \A u \in Threads \ {t} : Apart(r, req[u]) /\ Apart(req[u], r)
    BY <1>1, <2>3 DEF Apart, At
  <2> QED
    BY <1>1, <1>3, <2>3, <2>4, <2>5, GotoQuiet
<1> QED
  BY <1>1, <1>2, <1>3

LEMMA ConfirmResetStep == ASSUME AccountInv, NEW t \in Threads, ConfirmReset(t) PROVE AccountInv'
<1> DEFINE x == req[t].arg
           v == req[t].who
           base == ResetColumns(users[v], req[t].seen)
           row == [base EXCEPT !.pw = req[t].new]
<1>1. /\ v \in Users /\ users[v].state # "none" /\ users[v] \in UserRow
      /\ users \in [Users -> UserRow] /\ sessions \subseteq Users /\ req[t].new \in Passwords
      /\ x \in Resets /\ resets[x].state = "unused" /\ keys \in [ActivationKeys -> KeyRow]
  BY UserOf, ThreadFacts DEF ConfirmReset, At, JobOK, ResetJob, UserJob, AccountInv, AccountTypeOK
<1>2. /\ users' = [users EXCEPT ![v] = row] /\ resets' = [resets EXCEPT ![x].state = "used"]
      /\ Answer(t) /\ UNCHANGED <<keys, sessions>>
  BY <1>1 DEF ConfirmReset
<1>3. base \in UserRow /\ base.state = users[v].state /\ base.login = users[v].login
  BY <1>1, ResetColumnsTyped
<1> HIDE DEF base
<1>4. row \in UserRow /\ row.state = users[v].state /\ row.login = users[v].login
  BY <1>1, <1>3 DEF UserRow
<1> HIDE DEF row
<1>5. users' \in [Users -> UserRow] /\ SameUsers
  BY <1>1, <1>2, <1>4, OneUser
<1>6. /\ resets' \in [Resets -> ResetRow] /\ resets'[x].state = "used" /\ resets'[x].who = resets[x].who
      /\ \A y \in Resets \ {x} : resets'[y] = resets[y]
  BY <1>1, <1>2 DEF AccountInv, AccountTypeOK, ResetRow
<1>7. /\ \A b : Exists(b) => Exists(b)'
      /\ \A l : ~LoginTaken(l) => ~LoginTaken(l)'
  BY <1>5 DEF SameUsers, Exists, LoginTaken, Users
<1>8. RowsOK'
  <2>1. KeyRowsOK'
    <3>1. \A k \in ActivationKeys : keys[k].by # None => keys[k].by \in Users
      BY <1>1 DEF KeyRow, Users
    <3> QED
      BY <3>1, <1>2, <1>5 DEF AccountInv, RowsOK, KeyRowsOK, SameUsers
  <2>2. UserRowsOK'
    BY <1>2, <1>5 DEF AccountInv, RowsOK, UserRowsOK, Users, SameUsers
  <2>3. ResetRowsOK'
    BY <1>1, <1>6, <1>7 DEF AccountInv, RowsOK, ResetRowsOK
  <2> QED
    BY <2>1, <2>2, <2>3 DEF RowsOK
<1>9. ASSUME NEW u \in Threads \ {t}, req'[u] = req[u] PROVE JobOK(req[u])'
  <2>1. JobOK(req[u]) /\ Apart(req[t], req[u]) /\ At(t, "confirm_reset", "apply")
    BY ThreadFacts DEF ConfirmReset
  <2>2. KeyJob(req[u])' /\ UserJob(req[u])'
    BY <2>1, <1>2, <1>5, <1>7, <1>9 DEF JobOK, KeyJob, UserJob, SameUsers, Users
  <2>3. RegisterJob(req[u])'
    BY <2>1, <1>2, <1>5, <1>7, <1>9 DEF JobOK, RegisterJob, SameUsers, Users
  <2>4. ResetJob(req[u])'
    BY <2>1, <1>1, <1>6, <1>7, <1>9 DEF JobOK, ResetJob, Apart, At
  <2> QED
    BY <2>2, <2>3, <2>4 DEF JobOK
<1> QED
  BY <1>1, <1>2, <1>5, <1>6, <1>8, <1>9, AnswerStep

----------------------------------------------------------------------------
(* The operator, time and the end of the process. *)

LEMMA EnvironmentStep ==
  ASSUME AccountInv, UNCHANGED <<sessions, req, pool>>,
         users' \in [Users -> UserRow], keys' \in [ActivationKeys -> KeyRow],
         resets' \in [Resets -> ResetRow], RowsOK',
         \A r : JobOK(r) => JobOK(r)'
  PROVE  AccountInv'
<1>1. UNCHANGED <<sessions, req, served, crashes>>
  BY DEF pool
<1>2. AccountTypeOK' /\ req' \in [Threads -> ReqType]
  BY <1>1 DEF AccountInv, AccountTypeOK
<1>3. ThreadsApart'
  BY <1>1 DEF AccountInv, ThreadsApart, Apart
<1>4. JobsOK'
  <2> SUFFICES ASSUME NEW u \in Threads PROVE JobOK(req[u])'
    BY DEF JobsOK
  <2>1. ASSUME NEW r, r = req[u] PROVE JobOK(req[u])'
    <3>1. JobOK(r)'
      BY <2>1 DEF AccountInv, JobsOK
    <3> QED
      BY <3>1, <2>1, <1>1 DEF JobOK, KeyJob, RegisterJob, UserJob, ResetJob
  <2> QED
    BY <2>1
<1> QED
  BY <1>2, <1>3, <1>4 DEF AccountInv

LEMMA LockoutEndsStep == ASSUME AccountInv, NEW u \in Users, LockoutEnds(u) PROVE AccountInv'
<1> DEFINE row == [users[u] EXCEPT !.locked = "over"]
<1>1. /\ users \in [Users -> UserRow] /\ keys \in [ActivationKeys -> KeyRow]
      /\ resets \in [Resets -> ResetRow] /\ UserRowsOK
  BY DEF AccountInv, AccountTypeOK, RowsOK
<1>2. users[u].state # "none"
  BY <1>1, UserTyped DEF UserRowsOK, LockoutEnds
<1>3. row \in UserRow /\ row.state = users[u].state /\ row.login = users[u].login
  BY <1>1 DEF UserRow
<1>4. users' \in [Users -> UserRow] /\ SameUsers
  BY <1>2, <1>3, OneUser DEF LockoutEnds
<1> QED
  BY <1>1, <1>4, ColumnsRows, EnvironmentStep DEF LockoutEnds

LEMMA ResetTokenExpiresStep == ASSUME AccountInv, NEW x \in Resets, ResetTokenExpires(x) PROVE AccountInv'
<1>1. /\ resets' = [resets EXCEPT ![x].past = TRUE] /\ UNCHANGED <<users, keys, sessions, req, pool>>
      /\ users \in [Users -> UserRow] /\ keys \in [ActivationKeys -> KeyRow]
      /\ resets \in [Resets -> ResetRow]
  BY DEF ResetTokenExpires, AccountInv, AccountTypeOK
<1>2. /\ resets' \in [Resets -> ResetRow]
      /\ \A y \in Resets : resets'[y].state = resets[y].state /\ resets'[y].who = resets[y].who
  BY <1>1 DEF ResetRow
<1>3. RowsOK'
  BY <1>1, <1>2 DEF AccountInv, RowsOK, KeyRowsOK, UserRowsOK, ResetRowsOK, Exists
<1>4. ASSUME NEW r, JobOK(r) PROVE JobOK(r)'
  BY <1>1, <1>2, <1>4 DEF JobOK, KeyJob, RegisterJob, UserJob, ResetJob, Exists, LoginTaken
<1> QED
  BY <1>1, <1>2, <1>3, <1>4, EnvironmentStep

LEMMA CreateAdminStep == ASSUME AccountInv, CreateAdmin PROVE AccountInv'
<1>1. PICK m \in Admins, l \in Logins, p \in Passwords :
        users[m].state = "none" /\ users' = [users EXCEPT ![m] = NewUser(l, p)]
  BY DEF CreateAdmin
<1> DEFINE new == NewUser(l, p)
<1>2. /\ UNCHANGED <<keys, resets, sessions, req, pool>>
      /\ users \in [Users -> UserRow] /\ keys \in [ActivationKeys -> KeyRow]
      /\ resets \in [Resets -> ResetRow] /\ KeyRowsOK /\ UserRowsOK /\ ResetRowsOK
  BY DEF CreateAdmin, AccountInv, AccountTypeOK, RowsOK
<1>3. m \in Users /\ m \notin Accounts
  BY AccountAssumption DEF Users
<1>4. new \in UserRow /\ new.state = "active" /\ new.login = l
  BY UserTyped
<1>5. /\ users' \in [Users -> UserRow] /\ users'[m] = new
      /\ \A u \in Users \ {m} : users'[u] = users[u]
  BY <1>1, <1>2, <1>3, <1>4
<1> HIDE DEF new
<1>6. \A a \in Accounts : users'[a] = users[a]
  BY <1>3, <1>5 DEF Users
<1>7. \A u \in Users : users[u].state # "none" => users'[u] = users[u]
  BY <1>1, <1>5
<1>8. KeyRowsOK'
  <2>1. \A k \in ActivationKeys : keys[k].by # None => keys[k].by \in Users
    BY <1>2 DEF KeyRow, Users
  <2> QED
    BY <2>1, <1>2, <1>7 DEF KeyRowsOK
<1>9. UserRowsOK'
  BY <1>2, <1>4, <1>5, <1>6 DEF UserRowsOK
<1>10. ResetRowsOK'
  BY <1>2, <1>6 DEF ResetRowsOK, Exists
<1>11. ASSUME NEW r, JobOK(r) PROVE JobOK(r)'
  <2>1. KeyJob(r)' /\ RegisterJob(r)' /\ ResetJob(r)'
    BY <1>2, <1>6, <1>11 DEF JobOK, KeyJob, RegisterJob, ResetJob, Exists, LoginTaken
  <2>2. UserJob(r)'
    BY <1>6, <1>7, <1>11 DEF JobOK, UserJob, Exists, Users
  <2> QED
    BY <2>1, <2>2 DEF JobOK
<1>12. RowsOK'
  BY <1>8, <1>9, <1>10 DEF RowsOK
<1> QED
  BY <1>2, <1>5, <1>11, <1>12, EnvironmentStep

LEMMA OperatorDisablesStep == ASSUME AccountInv, NEW u \in Users, OperatorDisables(u) PROVE AccountInv'
<1>1. PICK s \in {"suspended", "deleted"} : users' = [users EXCEPT ![u].state = s]
  BY DEF OperatorDisables
<1>2. /\ UNCHANGED <<keys, resets, sessions, req, pool>> /\ users[u].state = "active"
      /\ users \in [Users -> UserRow] /\ keys \in [ActivationKeys -> KeyRow]
      /\ resets \in [Resets -> ResetRow] /\ KeyRowsOK /\ UserRowsOK /\ ResetRowsOK
  BY DEF OperatorDisables, AccountInv, AccountTypeOK, RowsOK
<1>3. users' \in [Users -> UserRow]
  BY <1>1, <1>2 DEF UserRow
<1>4. /\ \A v \in Users : users'[v].login = users[v].login
      /\ \A v \in Users \ {u} : users'[v] = users[v]
      /\ users'[u].state = s
  BY <1>1, <1>2 DEF UserRow
<1>5. /\ \A v \in Users : users'[v].state = "none" <=> users[v].state = "none"
      /\ \A v \in Users : users[v].state = "deleted" => users'[v].state = "deleted"
  BY <1>2, <1>4
<1>6. \A l : ~LoginTaken(l) => ~LoginTaken(l)'
  <2> SUFFICES ASSUME NEW l, ~LoginTaken(l), NEW a \in Accounts,
                      users'[a].state \in {"active", "suspended"}, users'[a].login = l
               PROVE  FALSE
    BY DEF LoginTaken
  <2>1. users[a].state \in {"active", "suspended"} /\ users[a].login = l
    BY <1>2, <1>4 DEF Users
  <2> QED
    BY <2>1 DEF LoginTaken
<1>7. KeyRowsOK'
  <2>1. \A k \in ActivationKeys : keys[k].by # None => keys[k].by \in Users
    BY <1>2 DEF KeyRow, Users
  <2> QED
    BY <2>1, <1>2, <1>5 DEF KeyRowsOK
<1>8. UserRowsOK'
  <2>1. /\ \A a \in Accounts : users'[a].state # "none" => \E k \in ActivationKeys : keys'[k].by = a
        /\ \A v \in Users : users'[v].state = "none" => users'[v] = NoUser
        /\ \A v \in Users : users'[v].state # "none" => users'[v].login \in Logins
    BY <1>2, <1>4, <1>5 DEF UserRowsOK, Users
  <2>2. \A a, b \in Accounts :
          a # b /\ users'[a].login = users'[b].login /\ users'[a].login # None =>
            "deleted" \in {users'[a].state, users'[b].state}
    BY <1>2, <1>4, <1>5 DEF UserRowsOK, Users
  <2> QED
    BY <2>1, <2>2 DEF UserRowsOK
<1>9. \A b : Exists(b) => Exists(b)'
  BY <1>5 DEF Exists, Users
<1>10. ResetRowsOK'
  BY <1>2, <1>9 DEF ResetRowsOK
<1>11. ASSUME NEW r, JobOK(r) PROVE JobOK(r)'
  <2>1. KeyJob(r)' /\ ResetJob(r)' /\ UserJob(r)'
    BY <1>2, <1>5, <1>9, <1>11 DEF JobOK, KeyJob, ResetJob, UserJob, Users
  <2>2. RegisterJob(r)'
    BY <1>2, <1>5, <1>6, <1>11 DEF JobOK, RegisterJob, Users
  <2> QED
    BY <2>1, <2>2 DEF JobOK
<1>12. RowsOK'
  BY <1>7, <1>8, <1>10 DEF RowsOK
<1> QED
  BY <1>2, <1>3, <1>11, <1>12, EnvironmentStep

LEMMA ProcessEndsStep == ASSUME AccountInv, ProcessEnds PROVE AccountInv'
<1>1. /\ crashes < MaxCrashes /\ crashes' = crashes + 1 /\ served' = served
      /\ req' = [t \in Threads |-> Idle] /\ UNCHANGED <<users, keys, resets, sessions>>
  BY DEF ProcessEnds, tables
<1>2. crashes' \in 0..MaxCrashes
  BY <1>1, AccountAssumption DEF AccountInv, AccountTypeOK
<1>3. AccountTypeOK' /\ req' \in [Threads -> ReqType]
  BY <1>1, <1>2, IdleTyped DEF AccountInv, AccountTypeOK, ReqType
<1>4. RowsOK'
  BY <1>1 DEF AccountInv, RowsOK, KeyRowsOK, UserRowsOK, ResetRowsOK, Exists
<1>5. JobsOK'
  BY <1>1 DEF JobsOK, Idle, JobOK, KeyJob, RegisterJob, UserJob, ResetJob
<1>6. ThreadsApart'
  BY <1>1, IdleTyped DEF ThreadsApart
<1> QED
  BY <1>3, <1>4, <1>5, <1>6 DEF AccountInv

LEMMA AccountInitInv == ASSUME AccountInit PROVE AccountInv
<1>1. PICK p \in Passwords :
        users = [u \in Users |-> IF u \in {FirstAccount, FirstAdmin} THEN NewUser(FirstLogin, p) ELSE NoUser]
  BY DEF AccountInit
<1> DEFINE first == NewUser(FirstLogin, p)
<1>2. /\ FirstAccount \in Accounts /\ FirstAdmin \in Admins /\ FirstKey \in ActivationKeys
      /\ FirstLogin \in Logins /\ Accounts \cap Admins = {} /\ MaxRequests \in Nat /\ MaxCrashes \in Nat
      /\ None \notin Users /\ None \notin Logins
  BY AccountAssumption
<1>3. /\ first \in UserRow /\ NoUser \in UserRow /\ first.state = "active" /\ first.login = FirstLogin
      /\ NoUser.state = "none" /\ NoUser.login = None
  BY <1>2, UserTyped
<1> HIDE DEF first
<1>4. /\ users \in [Users -> UserRow]
      /\ \A a \in Accounts : users[a] = IF a = FirstAccount THEN first ELSE NoUser
      /\ \A u \in Users : users[u] \in {first, NoUser}
  BY <1>1, <1>2, <1>3 DEF Users, first
<1>5. /\ keys \in [ActivationKeys -> KeyRow] /\ keys[FirstKey].state = "redeemed"
      /\ keys[FirstKey].by = FirstAccount
      /\ \A k \in ActivationKeys \ {FirstKey} : keys[k].state = "none" /\ keys[k].by = None
  BY <1>2 DEF AccountInit, KeyRow
<1>6. resets \in [Resets -> ResetRow] /\ \A x \in Resets : resets[x].state = "none"
  BY DEF AccountInit, ResetRow
<1>7. req \in [Threads -> ReqType] /\ \A t \in Threads : req[t] = Idle
  BY IdleTyped DEF AccountInit
<1>8. AccountTypeOK
  <2>1. /\ sessions \subseteq Users /\ served \in 0..MaxRequests /\ crashes \in 0..MaxCrashes
    BY <1>2 DEF AccountInit, Users
  <2> QED
    BY <2>1, <1>4, <1>5, <1>6, <1>7 DEF AccountTypeOK, ReqType
<1>9. KeyRowsOK
  BY <1>2, <1>3, <1>4, <1>5 DEF KeyRowsOK, Users
<1>10. UserRowsOK
  BY <1>2, <1>3, <1>4, <1>5 DEF UserRowsOK, Users
<1>11. ResetRowsOK
  BY <1>6 DEF ResetRowsOK
<1>12. JobsOK /\ ThreadsApart
  BY <1>7, IdleTyped DEF JobsOK, ThreadsApart
<1> QED
  BY <1>7, <1>8, <1>9, <1>10, <1>11, <1>12 DEF AccountInv, RowsOK

----------------------------------------------------------------------------
(* API keys. *)

ApiOps == {"create_api_key", "revoke_api_key"}
Creates(r, k) == r.op = "create_api_key" /\ r.arg = k
Revokes(r, k) == r.op = "revoke_api_key" /\ r.arg = k

ApiRowsOK ==
    \A k \in ApiKeyIds : IF apiKeys[k].state = "none" THEN apiKeys[k].who = None ELSE Exists(apiKeys[k].who)

\* How far a creation has got: the mirror is empty until its first SET.
CreationOK(r, k) ==
    /\ r.at \in {"insert", "token"} => token[k].who = None
    /\ r.at \in {"token", "index"} => apiKeys[k].state = "active" /\ apiKeys[k].who = r.who
    /\ r.at = "index" => token[k].who = r.who

\* A key that is mirrored with no creation under way has its index until a
\* revocation takes it, and is active until a revocation commits.
Mirrors(k) ==
    /\ token[k].who = apiKeys[k].who
    /\ index[k] \/ \E t \in Threads : Revokes(req[t], k) /\ req[t].at = "del"
    /\ apiKeys[k].state = "active"
         \/ \E t \in Threads : Revokes(req[t], k) /\ req[t].at \in {"getdel", "del"}

KeyOK(k) ==
    /\ \A t, u \in Threads : ~(Creates(req[t], k) /\ Revokes(req[u], k))
    /\ \A t \in Threads : Creates(req[t], k) => CreationOK(req[t], k)
    /\ token[k].who # None /\ (\A t \in Threads : ~Creates(req[t], k)) => Mirrors(k)

ApiInv ==
    /\ AccessTypeOK /\ AccountInv /\ ApiRowsOK
    /\ \A t \in Threads :
         /\ req[t].op \in ApiOps => req[t].arg \in ApiKeyIds
         /\ req[t].op = "revoke_api_key" => apiKeys[req[t].arg].state # "none"
    /\ \A k \in ApiKeyIds \ torn : KeyOK(k)

\* A step of a request that deals with no API key.
LEMMA ApiFrame ==
  ASSUME ApiInv, AccountInv', NEW t \in Threads, NEW r, req' = [req EXCEPT ![t] = r],
         req[t].op \notin ApiOps, r.op \notin ApiOps, UNCHANGED apiVars,
         \A b : Exists(b) => Exists(b)'
  PROVE  ApiInv'
<1>1. UNCHANGED <<apiKeys, token, index, torn>>
  BY DEF apiVars
<1>2. AccessTypeOK'
  BY <1>1 DEF ApiInv, AccessTypeOK, AccountInv
<1>3. ApiRowsOK'
  BY <1>1 DEF ApiInv, ApiRowsOK
<1>4. /\ req'[t].op \notin ApiOps
      /\ \A u \in Threads \ {t} : req'[u] = req[u]
  BY DEF ApiInv, AccountInv
<1>5. \A u \in Threads : req[u].op \in ApiOps \/ req'[u].op \in ApiOps => req'[u] = req[u]
  BY <1>4
<1>6. \A u \in Threads : /\ req'[u].op \in ApiOps => req'[u].arg \in ApiKeyIds
                         /\ req'[u].op = "revoke_api_key" => apiKeys'[req'[u].arg].state # "none"
  BY <1>1, <1>5 DEF ApiInv, ApiOps
<1>7. ASSUME NEW k \in ApiKeyIds \ torn PROVE KeyOK(k)'
  <2>1. \A u \in Threads : /\ Creates(req[u], k)' <=> Creates(req[u], k)
                           /\ Revokes(req[u], k)' <=> Revokes(req[u], k)
    BY <1>5 DEF Creates, Revokes, ApiOps
  <2>2. \A u \in Threads : Creates(req[u], k) \/ Revokes(req[u], k) => req'[u] = req[u]
    BY <1>5 DEF Creates, Revokes, ApiOps
  <2>3. KeyOK(k)
    BY DEF ApiInv
  <2>4. \A u, v \in Threads : ~(Creates(req[u], k)' /\ Revokes(req[v], k)')
    BY <2>1, <2>3 DEF KeyOK
  <2>5. ASSUME NEW u \in Threads, Creates(req[u], k)' PROVE CreationOK(req[u], k)'
    BY <2>1, <2>2, <2>3, <2>5, <1>1 DEF KeyOK, CreationOK
  <2>6. ASSUME token'[k].who # None, \A u \in Threads : ~Creates(req[u], k)' PROVE Mirrors(k)'
    <3>1. Mirrors(k)
      BY <2>1, <2>3, <2>6, <1>1 DEF KeyOK
    <3> QED
      BY <3>1, <2>1, <2>2, <1>1 DEF Mirrors
  <2> QED
    BY <2>4, <2>5, <2>6 DEF KeyOK
<1> QED
  BY <1>1, <1>2, <1>3, <1>6, <1>7 DEF ApiInv

\* What the steps of AccountAccess leave to the API keys.
LEMMA SameUsersExist ==
  ASSUME SameUsers
  PROVE  \A b : Exists(b) => Exists(b)'
BY DEF SameUsers, Exists, Users

LEMMA AccountStepExist ==
  ASSUME AccountInv, NEW t \in Threads, AccountStep(t)
  PROVE  \A b : Exists(b) => Exists(b)'
<1> SUFFICES ASSUME NEW b, Exists(b) PROVE Exists(b)'
  OBVIOUS
<1>1. b \in Accounts /\ b \in Users /\ users[b].state # "none" /\ users \in [Users -> UserRow]
  BY DEF Exists, Users, AccountInv, AccountTypeOK
<1>2. CASE users' = users
  BY <1>1, <1>2 DEF Exists
<1>3. CASE CommitRegistration(t)
  <2>1. users[req[t].who].state = "none"
    BY <1>3, ThreadFacts DEF CommitRegistration, JobOK, RegisterJob, At
  <2>2. users'[b] = users[b]
    BY <2>1, <1>1, <1>3 DEF CommitRegistration
  <2> QED
    BY <2>2, <1>1 DEF Exists
<1>4. CASE PasswordFails(t)
  BY <1>1, <1>4 DEF PasswordFails, Exists, UserRow
<1>5. CASE PasswordMatches(t)
  BY <1>1, <1>5 DEF PasswordMatches, ResetColumns, Exists, UserRow
<1>6. CASE ChangePassword(t)
  BY <1>1, <1>6 DEF ChangePassword, Exists, UserRow
<1>7. CASE ConfirmReset(t)
  <2>1. users' = [users EXCEPT ![req[t].who] =
                    [ResetColumns(users[req[t].who], req[t].seen) EXCEPT !.pw = req[t].new]]
    BY <1>7, UserOf, <1>1 DEF ConfirmReset
  <2> QED
    BY <2>1, <1>1 DEF ResetColumns, Exists, UserRow
<1> QED
  BY <1>2, <1>3, <1>4, <1>5, <1>6, <1>7
     DEF AccountStep, InsertActivationKey, UpdateActivationKey, DeleteActivationKey, LockActivationKey,
         InsertAccount, IssueResetToken, LockResetToken, tables

LEMMA AccountStepInv == ASSUME AccountInv, NEW t \in Threads, AccountStep(t) PROVE AccountInv'
BY InsertActivationKeyStep, UpdateActivationKeyStep, DeleteActivationKeyStep, LockActivationKeyStep,
   InsertAccountStep, CommitRegistrationStep, PasswordFailsStep, PasswordMatchesStep,
   ChangePasswordStep, IssueResetTokenStep, LockResetTokenStep, ConfirmResetStep
   DEF AccountStep

LEMMA NewAccountRequestInv == ASSUME AccountInv, NEW t \in Threads, NewAccountRequest(t) PROVE AccountInv'
BY CreateActivationKeyStep, ReadActivationKeyStep, PostRegisterStep, StartLoginStep, StartAdminLoginStep,
   PostChangePasswordStep, PostResetTokenStep, PostPasswordResetStep
   DEF NewAccountRequest

LEMMA AccountStepTurn ==
  ASSUME AccountInv, NEW t \in Threads, AccountStep(t)
  PROVE  /\ req[t].op \notin ApiOps
         /\ \E r : req' = [req EXCEPT ![t] = r] /\ r.op \notin ApiOps
<1>1. Idle.op \notin ApiOps
  BY DEF Idle, ApiOps
<1>2. req[t] \in ReqType
  BY ThreadFacts
<1>3. CASE Answer(t)
  <2>1. req[t].op \in {"create_key", "update_key", "delete_key", "register", "login", "admin_login",
                       "change_password", "issue_reset", "confirm_reset"}
    BY DEF AccountStep, InsertActivationKey, UpdateActivationKey, DeleteActivationKey, LockActivationKey,
           InsertAccount, CommitRegistration, PasswordFails, PasswordMatches, ChangePassword,
           IssueResetToken, LockResetToken, ConfirmReset, At
  <2> QED
    BY <2>1, <1>1, <1>3 DEF Answer, Goto, ApiOps
<1>4. CASE LockActivationKey(t) /\ Goto(t, [req[t] EXCEPT !.at = "insert"])
  <2> DEFINE r == [req[t] EXCEPT !.at = "insert"]
  <2>1. req[t].op = "register" /\ r.op = "register" /\ req' = [req EXCEPT ![t] = r]
    BY <1>2, <1>4 DEF LockActivationKey, At, ReqType, Goto
  <2> HIDE DEF r
  <2> QED
    BY <2>1 DEF ApiOps
<1>5. CASE InsertAccount(t) /\ ~Answer(t)
  <2> DEFINE r == [req[t] EXCEPT !.at = "commit", !.who = CHOOSE a \in FreeAccounts : TRUE]
  <2>1. req[t].op = "register" /\ r.op = "register" /\ req' = [req EXCEPT ![t] = r]
    BY <1>2, <1>5 DEF InsertAccount, At, ReqType, Goto
  <2> HIDE DEF r
  <2> QED
    BY <2>1 DEF ApiOps
<1>6. CASE LockResetToken(t) /\ ~Answer(t)
  <2> DEFINE w == resets[req[t].arg].who
             r == [req[t] EXCEPT !.at = "apply", !.who = w, !.seen = users[w]]
  <2>1. req[t].op = "confirm_reset" /\ r.op = "confirm_reset" /\ req' = [req EXCEPT ![t] = r]
    BY <1>2, <1>6 DEF LockResetToken, At, ReqType, Goto
  <2> HIDE DEF r
  <2> QED
    BY <2>1 DEF ApiOps
<1> QED
  BY <1>3, <1>4, <1>5, <1>6
     DEF AccountStep, InsertActivationKey, UpdateActivationKey, DeleteActivationKey, LockActivationKey,
         CommitRegistration, PasswordFails, PasswordMatches, ChangePassword,
         IssueResetToken, ConfirmReset

LEMMA NewAccountRequestTurn ==
  ASSUME AccountInv, NEW t \in Threads, NewAccountRequest(t)
  PROVE  /\ req[t].op \notin ApiOps /\ UNCHANGED users
         /\ \E r : req' = [req EXCEPT ![t] = r] /\ r.op \notin ApiOps
<1>a. Idle.op \notin ApiOps
  BY DEF Idle, ApiOps
<1>1. ASSUME NEW r, Begin(t, r), r.op \notin ApiOps
      PROVE  req[t].op \notin ApiOps /\ \E q : req' = [req EXCEPT ![t] = q] /\ q.op \notin ApiOps
  BY <1>1, <1>a DEF Begin
<1>2. CASE CreateActivationKey(t)
  BY <1>1, <1>2 DEF CreateActivationKey, Request, Idle, ApiOps, tables
<1>3. CASE ReadActivationKey(t)
  BY <1>1, <1>3 DEF ReadActivationKey, Request, Idle, ApiOps, tables
<1>4. CASE PostRegister(t)
  BY <1>1, <1>4 DEF PostRegister, Request, Idle, ApiOps, tables
<1>5. CASE StartLogin(t)
  BY <1>1, <1>5 DEF StartLogin, Request, Idle, ApiOps, tables
<1>6. CASE StartAdminLogin(t)
  BY <1>1, <1>6 DEF StartAdminLogin, Request, Idle, ApiOps, tables
<1>7. CASE PostChangePassword(t)
  BY <1>1, <1>7 DEF PostChangePassword, Request, Idle, ApiOps, tables
<1>8. CASE PostResetToken(t)
  BY <1>1, <1>8 DEF PostResetToken, Request, Idle, ApiOps, tables
<1>9. CASE PostPasswordReset(t)
  BY <1>1, <1>9 DEF PostPasswordReset, Request, Idle, ApiOps, tables
<1> QED
  BY <1>2, <1>3, <1>4, <1>5, <1>6, <1>7, <1>8, <1>9 DEF NewAccountRequest

\* A step of a request that deals with the API key j.
LEMMA ApiTurn ==
  ASSUME ApiInv, AccountInv', NEW t \in Threads, NEW r, req' = [req EXCEPT ![t] = r],
         NEW j \in ApiKeyIds, r.op \in ApiOps => r.arg = j, req[t].op \in ApiOps => req[t].arg = j,
         UNCHANGED users, AccessTypeOK',
         \A k \in ApiKeyIds \ {j} :
            apiKeys'[k] = apiKeys[k] /\ token'[k] = token[k] /\ index'[k] = index[k],
         torn \subseteq torn',
         apiKeys[j].state # "none" \/ r.op = "revoke_api_key" => apiKeys'[j].state # "none",
         IF apiKeys'[j].state = "none" THEN apiKeys'[j].who = None ELSE Exists(apiKeys'[j].who),
         j \notin torn' => KeyOK(j)'
  PROVE  ApiInv'
<1>1. req'[t] = r /\ \A u \in Threads \ {t} : req'[u] = req[u]
  BY DEF ApiInv, AccountInv
<1>2. ApiRowsOK'
  BY DEF ApiInv, ApiRowsOK, Exists
<1>3. \A u \in Threads : /\ req'[u].op \in ApiOps => req'[u].arg \in ApiKeyIds
                         /\ req'[u].op = "revoke_api_key" => apiKeys'[req'[u].arg].state # "none"
  BY <1>1 DEF ApiInv, ApiOps
<1>4. ASSUME NEW k \in ApiKeyIds \ torn', k # j PROVE KeyOK(k)'
  <2>1. \A u \in Threads : /\ Creates(req'[u], k) <=> Creates(req[u], k)
                           /\ Revokes(req'[u], k) <=> Revokes(req[u], k)
                           /\ Creates(req[u], k) \/ Revokes(req[u], k) => req'[u] = req[u]
    BY <1>1, <1>4 DEF Creates, Revokes, ApiOps
  <2>2. KeyOK(k)
    BY <1>4 DEF ApiInv
  <2>3. apiKeys'[k] = apiKeys[k] /\ token'[k] = token[k] /\ index'[k] = index[k]
    BY <1>4
  <2>4. ASSUME NEW u \in Threads, Creates(req'[u], k) PROVE CreationOK(req[u], k)'
    BY <2>1, <2>2, <2>3, <2>4 DEF KeyOK, CreationOK
  <2>5. ASSUME token'[k].who # None, \A u \in Threads : ~Creates(req'[u], k) PROVE Mirrors(k)'
    BY <2>1, <2>2, <2>3, <2>5 DEF KeyOK, Mirrors
  <2>6. \A u, v \in Threads : ~(Creates(req'[u], k) /\ Revokes(req'[v], k))
    BY <2>1, <2>2 DEF KeyOK
  <2> QED
    BY <2>4, <2>5, <2>6 DEF KeyOK, Creates, Revokes, CreationOK
<1> QED
  BY <1>2, <1>3, <1>4 DEF ApiInv

LEMMA PostApiKeyStep == ASSUME ApiInv, NEW t \in Threads, PostApiKey(t) PROVE ApiInv'
<1>1. PICK a \in CurrentAccounts, k \in Unborn(apiKeys) :
        Begin(t, [Request("create_api_key", "insert") EXCEPT !.who = a, !.arg = k])
  BY DEF PostApiKey
<1> DEFINE r == [Request("create_api_key", "insert") EXCEPT !.who = a, !.arg = k]
<1>2. /\ k \in ApiKeyIds /\ apiKeys[k].state = "none" /\ (\A u \in Threads : req[u].arg # k)
      /\ a \in Accounts /\ a \in Users /\ users[a].state = "active"
  BY DEF Unborn, ApiInv, AccessTypeOK, CurrentAccounts, Users
<1>3. r \in ReqType /\ r.op = "create_api_key" /\ r.at = "insert" /\ r.who = a /\ r.arg = k
  BY <1>2, UserTyped DEF Request, Idle, ReqType, Ops, Places
<1>4. Begin(t, r) /\ UNCHANGED <<tables, sessions, apiVars>>
  BY <1>1 DEF PostApiKey
<1> HIDE DEF r
<1>5. JobOK(r)
  BY <1>2, <1>3 DEF JobOK, KeyJob, RegisterJob, UserJob, ResetJob, Exists
<1>6. \A u \in Threads \ {t} : Apart(r, req[u]) /\ Apart(req[u], r)
  BY <1>2, <1>3 DEF Apart
<1>7. AccountInv'
  BY <1>3, <1>5, <1>6, <1>4, BeginQuiet DEF ApiInv
<1>8. /\ req' = [req EXCEPT ![t] = r] /\ req[t] = Idle
      /\ UNCHANGED <<users, apiKeys, token, index, torn>>
  BY <1>4 DEF Begin, tables, apiVars
<1>9. req'[t] = r /\ (\A u \in Threads \ {t} : req'[u] = req[u]) /\ req[t].op = "idle"
  BY <1>8, IdleTyped DEF ApiInv, AccountInv
<1>10. ASSUME k \notin torn PROVE KeyOK(k)'
  <2>1. token[k].who = None
    <3> SUFFICES ASSUME token[k].who # None PROVE FALSE
      OBVIOUS
    <3>1. Mirrors(k)
      BY <1>2, <1>10 DEF ApiInv, KeyOK, Creates
    <3> QED
      BY <3>1, <1>2 DEF Mirrors, ApiInv, ApiRowsOK
  <2>2. \A u \in Threads : ~Revokes(req'[u], k)
    BY <1>2, <1>3, <1>9 DEF Revokes
  <2>3. \A u \in Threads : Creates(req'[u], k) => u = t
    BY <1>2, <1>9 DEF Creates
  <2>4. CreationOK(r, k)'
    BY <2>1, <1>3, <1>8 DEF CreationOK
  <2> QED
    BY <2>1, <2>2, <2>3, <2>4, <1>3, <1>8, <1>9 DEF KeyOK, Creates, Revokes, CreationOK
<1>11. AccessTypeOK'
  BY <1>7, <1>8 DEF ApiInv, AccessTypeOK, AccountInv
<1>12. IF apiKeys'[k].state = "none" THEN apiKeys'[k].who = None ELSE Exists(apiKeys'[k].who)
  BY <1>2, <1>8 DEF ApiInv, ApiRowsOK
<1> QED
  BY <1>2, <1>3, <1>7, <1>8, <1>9, <1>10, <1>11, <1>12, ApiTurn DEF ApiOps

\* A request that goes on with its key, or answers.
LEMMA ApiRequest ==
  ASSUME ApiInv, NEW t \in Threads, req[t].op \in ApiOps
  PROVE  /\ req[t] \in ReqType /\ JobOK(req[t]) /\ req[t].arg \in ApiKeyIds
         /\ req[t].op = "revoke_api_key" => apiKeys[req[t].arg].state # "none"
         /\ apiKeys \in [ApiKeyIds -> ApiKeyRow] /\ index \in [ApiKeyIds -> BOOLEAN]
         /\ token \in [ApiKeyIds -> [who : Accounts \cup {None}, ttl : BOOLEAN]]
         /\ torn \subseteq ApiKeyIds
         /\ req[t].op = "create_api_key" => Exists(req[t].who) /\ req[t].who # None
         /\ \A u \in Threads \ {t} :
              req[t].op = "create_api_key" => ~Creates(req[u], req[t].arg)
<1>1. /\ req[t] \in ReqType /\ JobOK(req[t]) /\ req[t].arg \in ApiKeyIds
      /\ \A u \in Threads \ {t} : Apart(req[t], req[u])
  BY ThreadFacts DEF ApiInv
<1>2. req[t].op = "create_api_key" => Exists(req[t].who) /\ req[t].who # None
  BY <1>1, AccountAssumption DEF JobOK, UserJob, Exists, Users
<1> QED
  BY <1>1, <1>2 DEF ApiInv, AccessTypeOK, Apart, Creates

\* The place moves on and the account's tables stay.
LEMMA ApiGoto ==
  ASSUME ApiInv, NEW t \in Threads, req[t].op \in ApiOps, NEW at \in Places,
         Goto(t, [req[t] EXCEPT !.at = at]), UNCHANGED <<tables, sessions>>
  PROVE  /\ AccountInv' /\ UNCHANGED users
         /\ req' = [req EXCEPT ![t] = [req[t] EXCEPT !.at = at]]
         /\ req'[t] = [req[t] EXCEPT !.at = at]
         /\ req'[t].op = req[t].op /\ req'[t].at = at /\ req'[t].arg = req[t].arg /\ req'[t].who = req[t].who
         /\ \A u \in Threads \ {t} : req'[u] = req[u]
<1> DEFINE r == [req[t] EXCEPT !.at = at]
<1>1. req[t] \in ReqType /\ JobOK(req[t]) /\ AccountInv /\ req \in [Threads -> ReqType]
  BY ApiRequest DEF ApiInv, AccountInv
<1>2. /\ r \in ReqType /\ r.op = req[t].op /\ r.at = at /\ r.arg = req[t].arg /\ r.who = req[t].who
  BY <1>1 DEF ReqType
<1>3. Goto(t, r)
  OBVIOUS
<1>4. req' = [req EXCEPT ![t] = r] /\ req'[t] = r /\ \A u \in Threads \ {t} : req'[u] = req[u]
  BY <1>1 DEF Goto
<1> HIDE DEF r
<1>5. JobOK(r)
  BY <1>1, <1>2 DEF JobOK, KeyJob, RegisterJob, UserJob, ResetJob, ApiOps
<1>6. \A u \in Threads \ {t} : Apart(r, req[u]) /\ Apart(req[u], r)
  BY <1>1, <1>2, ThreadFacts DEF Apart, ApiOps
<1>7. AccountInv' /\ UNCHANGED users
  BY <1>1, <1>2, <1>3, <1>5, <1>6, GotoQuiet DEF tables
<1> QED
  BY <1>2, <1>4, <1>7 DEF r

LEMMA ApiAnswer ==
  ASSUME ApiInv, NEW t \in Threads, Answer(t), UNCHANGED <<tables, sessions>>
  PROVE  /\ AccountInv' /\ UNCHANGED users
         /\ req' = [req EXCEPT ![t] = Idle] /\ req'[t] = Idle /\ Idle.op = "idle"
         /\ \A u \in Threads \ {t} : req'[u] = req[u]
BY AnswerQuiet, IdleTyped DEF ApiInv, AccountInv, Answer, Goto, tables

LEMMA InsertApiKeyStep == ASSUME ApiInv, NEW t \in Threads, InsertApiKey(t) PROVE ApiInv'
<1>0. PICK k \in ApiKeyIds : k = req[t].arg
  BY ApiRequest DEF InsertApiKey, At, ApiOps
<1>1. /\ req[t].arg = k /\ req[t].op = "create_api_key" /\ req[t].op \in ApiOps /\ req[t].at = "insert"
      /\ Goto(t, [req[t] EXCEPT !.at = "token"]) /\ UNCHANGED <<tables, sessions, token, index, torn>>
  BY <1>0 DEF InsertApiKey, At, ApiOps
<1>2. PICK dated \in BOOLEAN :
        apiKeys' = [apiKeys EXCEPT ![k] = [state |-> "active", who |-> req[t].who,
                                           dated |-> dated, past |-> FALSE]]
  BY <1>0 DEF InsertApiKey
<1>3. /\ AccountInv' /\ UNCHANGED users /\ req' = [req EXCEPT ![t] = [req[t] EXCEPT !.at = "token"]]
      /\ req'[t].op = req[t].op /\ req'[t].at = "token" /\ req'[t].arg = k /\ req'[t].who = req[t].who
      /\ req'[t] = [req[t] EXCEPT !.at = "token"]
      /\ \A u \in Threads \ {t} : req'[u] = req[u]
  BY <1>1, ApiGoto DEF Places
<1>4. /\ k \in ApiKeyIds /\ Exists(req[t].who) /\ (\A u \in Threads \ {t} : ~Creates(req[u], k))
      /\ apiKeys \in [ApiKeyIds -> ApiKeyRow] /\ req[t].who \in Accounts
  BY <1>1, ApiRequest DEF Exists
<1>5. /\ apiKeys' \in [ApiKeyIds -> ApiKeyRow]
      /\ apiKeys'[k].state = "active" /\ apiKeys'[k].who = req[t].who
      /\ \A j \in ApiKeyIds \ {k} : apiKeys'[j] = apiKeys[j]
  BY <1>2, <1>4 DEF ApiKeyRow
<1>6. AccessTypeOK'
  BY <1>1, <1>3, <1>5 DEF ApiInv, AccessTypeOK, AccountInv
<1>7. ASSUME k \notin torn PROVE KeyOK(k)'
  <2>1. Creates(req[t], k) /\ KeyOK(k)
    BY <1>1, <1>4, <1>7 DEF Creates, ApiInv
  <2>2. token[k].who = None /\ \A u \in Threads : ~Revokes(req[u], k)
    BY <2>1, <1>1 DEF KeyOK, CreationOK
  <2>3. \A u \in Threads : ~Revokes(req'[u], k)
    BY <2>2, <1>1, <1>3 DEF Revokes
  <2>4. ASSUME NEW u \in Threads, Creates(req'[u], k) PROVE CreationOK(req[u], k)'
    <3>1. u = t
      BY <2>4, <1>3, <1>4 DEF Creates
    <3> QED
      BY <3>1, <2>2, <1>1, <1>3, <1>5 DEF CreationOK
  <2> QED
    BY <2>2, <2>3, <2>4, <1>1 DEF KeyOK, Creates, Revokes
<1>8. Exists(apiKeys'[k].who)
  BY <1>4, <1>5
<1>9. PICK r : r.op = "create_api_key" /\ r.arg = k /\ req' = [req EXCEPT ![t] = r]
  BY <1>1, <1>3
<1>10. apiKeys'[k].state # "none" /\ UNCHANGED <<users, token, index, torn>> /\ AccountInv'
  BY <1>1, <1>3, <1>5
<1> QED
  BY <1>0, <1>5, <1>6, <1>7, <1>8, <1>9, <1>10, ApiTurn

LEMMA CacheTokenStep == ASSUME ApiInv, NEW t \in Threads, CacheToken(t) PROVE ApiInv'
<1>0. PICK k \in ApiKeyIds : k = req[t].arg
  BY ApiRequest DEF CacheToken, At, ApiOps
<1>1. /\ req[t].arg = k /\ req[t].op = "create_api_key" /\ req[t].op \in ApiOps /\ req[t].at = "token"
      /\ UNCHANGED <<tables, sessions, apiKeys, index, torn>>
  BY <1>0 DEF CacheToken, At, ApiOps
<1>2. /\ k \in ApiKeyIds /\ req[t].who \in Accounts /\ (\A u \in Threads \ {t} : ~Creates(req[u], k))
      /\ token \in [ApiKeyIds -> [who : Accounts \cup {None}, ttl : BOOLEAN]]
  BY <1>1, ApiRequest DEF Exists
<1>3. IF apiKeys[k].state = "none" THEN apiKeys[k].who = None ELSE Exists(apiKeys[k].who)
  BY <1>2 DEF ApiInv, ApiRowsOK
<1>4. Creates(req[t], k) /\ (k \notin torn => KeyOK(k))
  BY <1>1, <1>2 DEF Creates, ApiInv
<1>5. CASE apiKeys[k].past /\ Answer(t) /\ UNCHANGED token
  <2>1. /\ AccountInv' /\ UNCHANGED users /\ req' = [req EXCEPT ![t] = Idle]
        /\ req'[t] = Idle /\ Idle.op = "idle" /\ (\A u \in Threads \ {t} : req'[u] = req[u])
    BY <1>1, <1>5, ApiAnswer
  <2>2. AccessTypeOK'
    BY <1>1, <1>5, <2>1 DEF ApiInv, AccessTypeOK, AccountInv
  <2>3. ASSUME k \notin torn PROVE KeyOK(k)'
    <3>1. token[k].who = None /\ \A u \in Threads : ~Revokes(req[u], k)
      BY <1>1, <1>4, <2>3 DEF KeyOK, CreationOK
    <3>2. \A u \in Threads : ~Revokes(req'[u], k) /\ ~Creates(req'[u], k)
      BY <3>1, <1>2, <2>1 DEF Revokes, Creates
    <3> QED
      BY <3>1, <3>2, <1>5 DEF KeyOK, Creates, Revokes
  <2> QED
    BY <1>1, <1>2, <1>3, <1>5, <2>1, <2>2, <2>3, ApiTurn DEF ApiOps
<1>6. CASE /\ ~apiKeys[k].past /\ token' = [token EXCEPT ![k] = [who |-> req[t].who, ttl |-> TRUE]]
           /\ Goto(t, [req[t] EXCEPT !.at = "index"])
  <2>1. /\ AccountInv' /\ UNCHANGED users /\ req' = [req EXCEPT ![t] = [req[t] EXCEPT !.at = "index"]]
        /\ req'[t].op = req[t].op /\ req'[t].at = "index" /\ req'[t].arg = k /\ req'[t].who = req[t].who
        /\ req'[t] = [req[t] EXCEPT !.at = "index"]
        /\ \A u \in Threads \ {t} : req'[u] = req[u]
    BY <1>1, <1>6, ApiGoto DEF Places
  <2>2. /\ token' \in [ApiKeyIds -> [who : Accounts \cup {None}, ttl : BOOLEAN]]
        /\ token'[k].who = req[t].who /\ \A j \in ApiKeyIds \ {k} : token'[j] = token[j]
    BY <1>2, <1>6
  <2>3. AccessTypeOK'
    BY <1>1, <2>1, <2>2 DEF ApiInv, AccessTypeOK, AccountInv
  <2>4. ASSUME k \notin torn PROVE KeyOK(k)'
    <3>1. /\ apiKeys[k].state = "active" /\ apiKeys[k].who = req[t].who
          /\ \A u \in Threads : ~Revokes(req[u], k)
      BY <1>1, <1>4, <2>4 DEF KeyOK, CreationOK
    <3>2. Creates(req'[t], k) /\ \A u \in Threads : ~Revokes(req'[u], k)
      BY <3>1, <1>1, <2>1 DEF Revokes, Creates
    <3>3. ASSUME NEW u \in Threads, Creates(req'[u], k) PROVE CreationOK(req[u], k)'
      <4>1. u = t
        BY <3>3, <1>2, <2>1 DEF Creates
      <4> QED
        BY <4>1, <3>1, <1>1, <1>6, <2>1, <2>2 DEF CreationOK
    <3> QED
      BY <3>2, <3>3 DEF KeyOK, Creates, Revokes
  <2>5. PICK r : r.op = "create_api_key" /\ r.arg = k /\ req' = [req EXCEPT ![t] = r]
    BY <1>1, <2>1
  <2>6. UNCHANGED <<users, apiKeys, index, torn>> /\ AccountInv'
    BY <1>1, <2>1
  <2>7. IF apiKeys'[k].state = "none" THEN apiKeys'[k].who = None ELSE Exists(apiKeys'[k].who)
    BY <1>3, <2>6
  <2>8. \A j \in ApiKeyIds \ {k} :
          apiKeys'[j] = apiKeys[j] /\ token'[j] = token[j] /\ index'[j] = index[j]
    BY <2>2, <2>6
  <2>9. apiKeys[k].state # "none" \/ r.op = "revoke_api_key" => apiKeys'[k].state # "none"
    BY <2>5, <2>6
  <2> QED
    BY <1>0, <2>3, <2>4, <2>5, <2>6, <2>7, <2>8, <2>9, ApiTurn
<1> QED
  BY <1>0, <1>5, <1>6 DEF CacheToken

LEMMA CacheIndexStep == ASSUME ApiInv, NEW t \in Threads, CacheIndex(t) PROVE ApiInv'
<1>0. PICK k \in ApiKeyIds : k = req[t].arg
  BY ApiRequest DEF CacheIndex, At, ApiOps
<1>1. /\ req[t].arg = k /\ req[t].op = "create_api_key" /\ req[t].op \in ApiOps /\ req[t].at = "index"
      /\ Answer(t) /\ index' = [index EXCEPT ![k] = TRUE]
      /\ UNCHANGED <<tables, sessions, apiKeys, token, torn>>
  BY <1>0 DEF CacheIndex, At, ApiOps
<1>2. /\ k \in ApiKeyIds /\ (\A u \in Threads \ {t} : ~Creates(req[u], k))
      /\ index \in [ApiKeyIds -> BOOLEAN]
  BY <1>1, ApiRequest
<1>3. IF apiKeys[k].state = "none" THEN apiKeys[k].who = None ELSE Exists(apiKeys[k].who)
  BY <1>2 DEF ApiInv, ApiRowsOK
<1>4. /\ AccountInv' /\ UNCHANGED users /\ req' = [req EXCEPT ![t] = Idle]
      /\ req'[t] = Idle /\ Idle.op = "idle" /\ (\A u \in Threads \ {t} : req'[u] = req[u])
  BY <1>1, ApiAnswer
<1>5. /\ index' \in [ApiKeyIds -> BOOLEAN] /\ index'[k]
      /\ \A j \in ApiKeyIds \ {k} : index'[j] = index[j]
  BY <1>1, <1>2
<1>6. AccessTypeOK'
  BY <1>1, <1>4, <1>5 DEF ApiInv, AccessTypeOK, AccountInv
<1>7. ASSUME k \notin torn PROVE KeyOK(k)'
  <2>1. Creates(req[t], k) /\ KeyOK(k)
    BY <1>1, <1>2, <1>7 DEF Creates, ApiInv
  <2>2. /\ apiKeys[k].state = "active" /\ apiKeys[k].who = token[k].who
        /\ \A u \in Threads : ~Revokes(req[u], k)
    BY <2>1, <1>1 DEF KeyOK, CreationOK
  <2>3. \A u \in Threads : ~Revokes(req'[u], k) /\ ~Creates(req'[u], k)
    BY <2>2, <1>2, <1>4 DEF Revokes, Creates
  <2>4. Mirrors(k)'
    BY <2>2, <1>1, <1>5 DEF Mirrors
  <2> QED
    BY <2>3, <2>4 DEF KeyOK, Creates, Revokes
<1> QED
  BY <1>1, <1>2, <1>3, <1>4, <1>5, <1>6, <1>7, ApiTurn DEF ApiOps

LEMMA DeleteApiKeyStep == ASSUME ApiInv, NEW t \in Threads, DeleteApiKey(t) PROVE ApiInv'
<1>1. PICK a \in CurrentAccounts, k \in ApiKeyIds :
        /\ apiKeys[k].who = a
        /\ Begin(t, [Request("revoke_api_key", "commit") EXCEPT !.who = a, !.arg = k])
        /\ torn' = IF BeingCreated(k) THEN torn \cup {k} ELSE torn
  BY DEF DeleteApiKey
<1> DEFINE r == [Request("revoke_api_key", "commit") EXCEPT !.who = a, !.arg = k]
<1>2. a \in Accounts /\ a \in Users
  BY DEF CurrentAccounts, Users
<1>3. r \in ReqType /\ r.op = "revoke_api_key" /\ r.at = "commit" /\ r.who = a /\ r.arg = k
  BY <1>2, UserTyped DEF Request, Idle, ReqType, Ops, Places
<1>4. Begin(t, r) /\ UNCHANGED <<tables, sessions, apiKeys, token, index>>
  BY <1>1 DEF DeleteApiKey
<1> HIDE DEF r
<1>5. JobOK(r) /\ \A u \in Threads \ {t} : Apart(r, req[u]) /\ Apart(req[u], r)
  BY <1>3 DEF JobOK, KeyJob, RegisterJob, UserJob, ResetJob, Apart
<1>6. AccountInv'
  BY <1>3, <1>5, <1>4, BeginQuiet DEF ApiInv
<1>7. req' = [req EXCEPT ![t] = r] /\ req[t] = Idle /\ UNCHANGED users
  BY <1>4 DEF Begin, tables
<1>8. req'[t] = r /\ (\A u \in Threads \ {t} : req'[u] = req[u]) /\ req[t].op = "idle"
  BY <1>7, IdleTyped DEF ApiInv, AccountInv
<1>9. torn \subseteq torn' /\ torn' \subseteq ApiKeyIds
  BY <1>1 DEF ApiInv, AccessTypeOK
<1>10. AccessTypeOK'
  BY <1>4, <1>6, <1>9 DEF ApiInv, AccessTypeOK, AccountInv
<1>11. ASSUME k \notin torn' PROVE KeyOK(k)'
  <2>1. KeyOK(k) /\ \A u \in Threads : ~Creates(req[u], k)
    BY <1>1, <1>9, <1>11 DEF ApiInv, BeingCreated, Handles, Creates
  <2>2. \A u \in Threads : /\ ~Creates(req'[u], k)
                           /\ Revokes(req[u], k) => req'[u] = req[u]
    BY <2>1, <1>3, <1>8 DEF Creates, Revokes
  <2>3. ASSUME token'[k].who # None PROVE Mirrors(k)'
    BY <2>1, <2>2, <2>3, <1>4 DEF KeyOK, Mirrors
  <2> QED
    BY <2>2, <2>3 DEF KeyOK, Creates, Revokes
<1>12. apiKeys'[k].state # "none" /\ Exists(apiKeys'[k].who)
  BY <1>1, <1>2, <1>4, AccountAssumption DEF ApiInv, ApiRowsOK, Users
<1> QED
  BY <1>3, <1>4, <1>6, <1>7, <1>8, <1>9, <1>10, <1>11, <1>12, ApiTurn DEF ApiOps

LEMMA RevokeApiKeyStep == ASSUME ApiInv, NEW t \in Threads, RevokeApiKey(t) PROVE ApiInv'
<1>0. PICK k \in ApiKeyIds : k = req[t].arg
  BY ApiRequest DEF RevokeApiKey, At, ApiOps
<1>1. /\ req[t].arg = k /\ req[t].op = "revoke_api_key" /\ req[t].op \in ApiOps /\ req[t].at = "commit"
      /\ Goto(t, [req[t] EXCEPT !.at = "getdel"]) /\ UNCHANGED <<tables, sessions, token, index, torn>>
      /\ apiKeys' = [apiKeys EXCEPT ![k].state = "revoked"]
  BY <1>0 DEF RevokeApiKey, At, ApiOps
<1>2. /\ AccountInv' /\ UNCHANGED users /\ req' = [req EXCEPT ![t] = [req[t] EXCEPT !.at = "getdel"]]
      /\ req'[t].op = req[t].op /\ req'[t].at = "getdel" /\ req'[t].arg = k
      /\ req'[t] = [req[t] EXCEPT !.at = "getdel"]
      /\ \A u \in Threads \ {t} : req'[u] = req[u]
  BY <1>1, ApiGoto DEF Places
<1>3. k \in ApiKeyIds /\ apiKeys \in [ApiKeyIds -> ApiKeyRow]
  BY <1>1, ApiRequest
<1>4. /\ apiKeys' \in [ApiKeyIds -> ApiKeyRow]
      /\ apiKeys'[k].state = "revoked" /\ apiKeys'[k].who = apiKeys[k].who
      /\ apiKeys'[k].past = apiKeys[k].past
      /\ \A j \in ApiKeyIds \ {k} : apiKeys'[j] = apiKeys[j]
  BY <1>1, <1>3 DEF ApiKeyRow
<1>5. AccessTypeOK'
  BY <1>1, <1>2, <1>4 DEF ApiInv, AccessTypeOK, AccountInv
<1>6. ASSUME k \notin torn PROVE KeyOK(k)'
  <2>1. Revokes(req[t], k) /\ KeyOK(k) /\ \A u \in Threads : ~Creates(req[u], k)
    BY <1>1, <1>3, <1>6 DEF Revokes, ApiInv, KeyOK
  <2>2. /\ Revokes(req'[t], k)
        /\ \A u \in Threads : /\ ~Creates(req'[u], k)
                              /\ Revokes(req[u], k) /\ req[u].at = "del" => req'[u] = req[u]
    BY <2>1, <1>1, <1>2 DEF Creates, Revokes
  <2>3. ASSUME token'[k].who # None PROVE Mirrors(k)'
    <3>1. Mirrors(k)
      BY <2>1, <2>3, <1>1 DEF KeyOK
    <3> QED
      BY <3>1, <2>2, <1>1, <1>2, <1>4 DEF Mirrors
  <2> QED
    BY <2>2, <2>3 DEF KeyOK, Creates, Revokes
<1>7. Exists(apiKeys'[k].who)
  <2>1. apiKeys[k].state # "none"
    BY <1>1, ApiRequest
  <2> QED
    BY <2>1, <1>3, <1>4 DEF ApiInv, ApiRowsOK, Exists
<1> QED
  BY <1>1, <1>2, <1>3, <1>4, <1>5, <1>6, <1>7, ApiTurn

LEMMA TakeIndexStep == ASSUME ApiInv, NEW t \in Threads, TakeIndex(t) PROVE ApiInv'
<1>0. PICK k \in ApiKeyIds : k = req[t].arg
  BY ApiRequest DEF TakeIndex, At, ApiOps
<1>1. /\ req[t].arg = k /\ req[t].op = "revoke_api_key" /\ req[t].op \in ApiOps /\ req[t].at = "getdel"
      /\ index' = [index EXCEPT ![k] = FALSE] /\ UNCHANGED <<tables, sessions, apiKeys, token, torn>>
  BY <1>0 DEF TakeIndex, At, ApiOps
<1>2. index \in [ApiKeyIds -> BOOLEAN] /\ apiKeys[k].state # "none"
  BY <1>1, ApiRequest
<1>3. /\ index' \in [ApiKeyIds -> BOOLEAN] /\ index'[k] = FALSE
      /\ \A j \in ApiKeyIds \ {k} : index'[j] = index[j]
  BY <1>1, <1>2
<1>4. apiKeys'[k].state # "none" /\ Exists(apiKeys'[k].who)
  BY <1>1, <1>2 DEF ApiInv, ApiRowsOK
<1>5. Revokes(req[t], k) /\ (k \notin torn => KeyOK(k) /\ \A u \in Threads : ~Creates(req[u], k))
  BY <1>1 DEF Revokes, ApiInv, KeyOK
<1>6. CASE ~index[k] /\ Answer(t)
  <2>1. /\ AccountInv' /\ UNCHANGED users /\ req' = [req EXCEPT ![t] = Idle]
        /\ req'[t] = Idle /\ Idle.op = "idle" /\ (\A u \in Threads \ {t} : req'[u] = req[u])
    BY <1>1, <1>6, ApiAnswer
  <2>2. AccessTypeOK'
    BY <1>1, <1>3, <2>1 DEF ApiInv, AccessTypeOK, AccountInv
  <2>3. ASSUME k \notin torn PROVE KeyOK(k)'
    <3>1. \A u \in Threads : /\ ~Creates(req'[u], k)
                             /\ Revokes(req[u], k) /\ req[u].at = "del" => req'[u] = req[u]
      BY <1>1, <1>5, <2>1, <2>3 DEF Creates
    <3>2. ASSUME token'[k].who # None PROVE Mirrors(k)'
      BY <3>1, <3>2, <1>1, <1>5, <1>6, <2>3 DEF KeyOK, Mirrors
    <3> QED
      BY <3>1, <3>2 DEF KeyOK, Creates, Revokes
  <2> QED
    BY <1>0, <1>1, <1>3, <1>4, <2>1, <2>2, <2>3, ApiTurn DEF ApiOps
<1>7. CASE index[k] /\ Goto(t, [req[t] EXCEPT !.at = "del"])
  <2>1. /\ AccountInv' /\ UNCHANGED users /\ req' = [req EXCEPT ![t] = [req[t] EXCEPT !.at = "del"]]
        /\ req'[t].op = req[t].op /\ req'[t].at = "del" /\ req'[t].arg = k
        /\ req'[t] = [req[t] EXCEPT !.at = "del"]
        /\ \A u \in Threads \ {t} : req'[u] = req[u]
    BY <1>1, <1>7, ApiGoto DEF Places
  <2>2. AccessTypeOK'
    BY <1>1, <1>3, <2>1 DEF ApiInv, AccessTypeOK, AccountInv
  <2>3. ASSUME k \notin torn PROVE KeyOK(k)'
    <3>1. Revokes(req'[t], k) /\ \A u \in Threads : ~Creates(req'[u], k)
      BY <1>1, <1>5, <2>1, <2>3 DEF Creates, Revokes
    <3>2. ASSUME token'[k].who # None PROVE Mirrors(k)'
      BY <3>1, <3>2, <1>1, <1>5, <2>1, <2>3 DEF KeyOK, Mirrors
    <3> QED
      BY <3>1, <3>2 DEF KeyOK, Creates, Revokes
  <2>4. PICK r : r.op = "revoke_api_key" /\ r.arg = k /\ req' = [req EXCEPT ![t] = r]
    BY <1>1, <2>1
  <2>5. UNCHANGED <<users, apiKeys, token, torn>> /\ AccountInv'
    BY <1>1, <2>1
  <2> QED
    BY <1>0, <1>3, <1>4, <2>2, <2>3, <2>4, <2>5, ApiTurn
<1> QED
  BY <1>0, <1>6, <1>7 DEF TakeIndex

LEMMA DropTokenStep == ASSUME ApiInv, NEW t \in Threads, DropToken(t) PROVE ApiInv'
<1>0. PICK k \in ApiKeyIds : k = req[t].arg
  BY ApiRequest DEF DropToken, At, ApiOps
<1>1. /\ req[t].arg = k /\ req[t].op = "revoke_api_key" /\ req[t].op \in ApiOps
      /\ Answer(t) /\ token' = [token EXCEPT ![k] = Missing]
      /\ UNCHANGED <<tables, sessions, apiKeys, index, torn>>
  BY <1>0 DEF DropToken, At, ApiOps
<1>2. /\ token \in [ApiKeyIds -> [who : Accounts \cup {None}, ttl : BOOLEAN]]
      /\ apiKeys[k].state # "none"
  BY <1>1, ApiRequest
<1>3. /\ AccountInv' /\ UNCHANGED users /\ req' = [req EXCEPT ![t] = Idle]
      /\ req'[t] = Idle /\ Idle.op = "idle" /\ (\A u \in Threads \ {t} : req'[u] = req[u])
  BY <1>1, ApiAnswer
<1>4. /\ token' \in [ApiKeyIds -> [who : Accounts \cup {None}, ttl : BOOLEAN]]
      /\ token'[k].who = None /\ \A j \in ApiKeyIds \ {k} : token'[j] = token[j]
  BY <1>1, <1>2 DEF Missing
<1>5. AccessTypeOK'
  BY <1>1, <1>3, <1>4 DEF ApiInv, AccessTypeOK, AccountInv
<1>6. apiKeys'[k].state # "none" /\ Exists(apiKeys'[k].who)
  BY <1>1, <1>2 DEF ApiInv, ApiRowsOK
<1>7. ASSUME k \notin torn PROVE KeyOK(k)'
  <2>1. Revokes(req[t], k) /\ \A u \in Threads : ~Creates(req[u], k)
    BY <1>1, <1>7 DEF Revokes, ApiInv, KeyOK
  <2>2. \A u \in Threads : ~Creates(req'[u], k)
    BY <2>1, <1>3 DEF Creates
  <2> QED
    BY <2>2, <1>4 DEF KeyOK, Creates, Revokes
<1> QED
  BY <1>0, <1>1, <1>3, <1>4, <1>5, <1>6, <1>7, ApiTurn DEF ApiOps

LEMMA ChangePasswordWithKeyStep ==
  ASSUME ApiInv, NEW t \in Threads, ChangePasswordWithKey(t) PROVE ApiInv'
<1>1. PICK k \in ApiKeyIds, old \in Passwords, new \in Passwords :
        /\ ActiveApiKey(k)
        /\ Begin(t, [Request("change_password", "reload") EXCEPT
                       !.who = apiKeys[k].who, !.pw = old, !.new = new])
  BY DEF ChangePasswordWithKey
<1>2. PICK a : a = apiKeys[k].who
  OBVIOUS
<1> DEFINE r == [Request("change_password", "reload") EXCEPT !.who = a, !.pw = old, !.new = new]
<1>3. Exists(a) /\ a \in Users
  BY <1>1, <1>2 DEF ActiveApiKey, ApiInv, ApiRowsOK, Exists, Users
<1>4. r \in ReqType /\ r.op = "change_password" /\ r.who = a /\ r.new = new
  BY <1>3, UserTyped DEF Request, Idle, ReqType, Ops, Places
<1>5. Begin(t, r) /\ UNCHANGED <<tables, sessions, apiVars>>
  BY <1>1, <1>2 DEF ChangePasswordWithKey
<1> HIDE DEF r
<1>6. JobOK(r) /\ \A u \in Threads \ {t} : Apart(r, req[u]) /\ Apart(req[u], r)
  BY <1>3, <1>4 DEF JobOK, KeyJob, RegisterJob, UserJob, ResetJob, Apart
<1>7. AccountInv'
  BY <1>4, <1>5, <1>6, BeginQuiet DEF ApiInv
<1>8. req' = [req EXCEPT ![t] = r] /\ req[t].op = "idle" /\ UNCHANGED <<users, apiVars>>
  BY <1>5, IdleTyped DEF Begin, tables
<1>9. \A b : Exists(b) => Exists(b)'
  BY <1>8 DEF Exists
<1> QED
  BY <1>4, <1>7, <1>8, <1>9, ApiFrame DEF ApiOps

LEMMA ReloadAccountStep == ASSUME ApiInv, NEW t \in Threads, ReloadAccount(t) PROVE ApiInv'
<1>1. PICK a : a = req[t].who
  OBVIOUS
<1> DEFINE r == [req[t] EXCEPT !.at = "verify", !.seen = users[a]]
<1>2. /\ req[t].op = "change_password" /\ Goto(t, r) /\ UNCHANGED <<tables, sessions, apiVars>>
      /\ AccountInv
  BY <1>1 DEF ReloadAccount, At, ApiInv
<1>3. req[t] \in ReqType /\ Exists(a) /\ a \in Users /\ users[a] \in UserRow /\ req[t].new \in Passwords
  BY <1>1, <1>2, ThreadFacts DEF JobOK, UserJob, Exists, Users, AccountInv, AccountTypeOK
<1>4. r \in ReqType /\ r.op = "change_password" /\ r.who = a /\ r.new = req[t].new
  BY <1>1, <1>2, <1>3 DEF ReqType, Places
<1> HIDE DEF r
<1>5. JobOK(r) /\ \A u \in Threads \ {t} : Apart(r, req[u]) /\ Apart(req[u], r)
  BY <1>3, <1>4 DEF JobOK, KeyJob, RegisterJob, UserJob, ResetJob, Apart
<1>6. AccountInv'
  BY <1>2, <1>4, <1>5, GotoQuiet
<1>7. req' = [req EXCEPT ![t] = r] /\ UNCHANGED <<users, apiVars>>
  BY <1>2 DEF Goto, tables
<1>8. \A b : Exists(b) => Exists(b)'
  BY <1>7 DEF Exists
<1> QED
  BY <1>2, <1>4, <1>6, <1>7, <1>8, ApiFrame DEF ApiOps

----------------------------------------------------------------------------
(* Time, the environment and the whole specification. *)

\* Both keys of the mirror are gone.
LEMMA MirrorDropped ==
  ASSUME ApiInv, NEW j \in ApiKeyIds, UNCHANGED <<accountVars, torn>>,
         token' = [token EXCEPT ![j] = Missing], index' = [index EXCEPT ![j] = FALSE],
         apiKeys' \in [ApiKeyIds -> ApiKeyRow], \A k \in ApiKeyIds \ {j} : apiKeys'[k] = apiKeys[k],
         apiKeys'[j].state = apiKeys[j].state, apiKeys'[j].who = apiKeys[j].who,
         \A t \in Threads : ~(Creates(req[t], j) /\ req[t].at = "index")
  PROVE  ApiInv'
<1>1. /\ UNCHANGED <<users, keys, resets, sessions, req, workload, served, crashes, torn>>
      /\ token \in [ApiKeyIds -> [who : Accounts \cup {None}, ttl : BOOLEAN]]
      /\ index \in [ApiKeyIds -> BOOLEAN]
  BY DEF accountVars, tables, pool, ApiInv, AccessTypeOK
<1>2. /\ token' \in [ApiKeyIds -> [who : Accounts \cup {None}, ttl : BOOLEAN]] /\ token'[j].who = None
      /\ \A k \in ApiKeyIds \ {j} : token'[k] = token[k]
      /\ index' \in [ApiKeyIds -> BOOLEAN] /\ \A k \in ApiKeyIds \ {j} : index'[k] = index[k]
  BY <1>1 DEF Missing
<1>3. RowsOK' /\ JobsOK' /\ ThreadsApart'
  BY <1>1 DEF ApiInv, AccountInv, RowsOK, KeyRowsOK, UserRowsOK, ResetRowsOK, Exists, JobsOK, ThreadsApart,
              JobOK, KeyJob, RegisterJob, UserJob, ResetJob, Apart, LoginTaken
<1>4. AccountTypeOK' /\ req' \in [Threads -> ReqType]
  BY <1>1 DEF ApiInv, AccountInv, AccountTypeOK
<1>5. AccountInv' /\ AccessTypeOK'
  BY <1>1, <1>2, <1>3, <1>4 DEF AccountInv, AccessTypeOK, ApiInv
<1>6. ApiRowsOK'
  BY <1>1 DEF ApiInv, ApiRowsOK, Exists
<1>7. \A t \in Threads : /\ req'[t].op \in ApiOps => req'[t].arg \in ApiKeyIds
                         /\ req'[t].op = "revoke_api_key" => apiKeys'[req'[t].arg].state # "none"
  BY <1>1 DEF ApiInv, ApiOps
<1>8. ASSUME NEW k \in ApiKeyIds \ torn PROVE KeyOK(k)'
  <2>1. KeyOK(k)
    BY DEF ApiInv
  <2>2. CASE k # j
    BY <2>1, <2>2, <1>1, <1>2 DEF KeyOK, Creates, Revokes, CreationOK, Mirrors
  <2>3. CASE k = j
    BY <2>1, <2>3, <1>1, <1>2 DEF KeyOK, Creates, Revokes, CreationOK
  <2> QED
    BY <2>2, <2>3
<1> QED
  BY <1>1, <1>5, <1>6, <1>7, <1>8 DEF ApiInv

LEMMA ApiKeyExpiresStep == ASSUME ApiInv, NEW j \in ApiKeyIds, ApiKeyExpires(j) PROVE ApiInv'
<1>1. /\ UNCHANGED <<users, keys, resets, sessions, req, workload, served, crashes, token, index, torn>>
      /\ apiKeys \in [ApiKeyIds -> ApiKeyRow]
  BY DEF ApiKeyExpires, accountVars, tables, pool, ApiInv, AccessTypeOK
<1>2. /\ apiKeys' \in [ApiKeyIds -> ApiKeyRow]
      /\ \A k \in ApiKeyIds : apiKeys'[k].state = apiKeys[k].state /\ apiKeys'[k].who = apiKeys[k].who
  BY <1>1 DEF ApiKeyExpires, ApiKeyRow
<1>3. RowsOK' /\ JobsOK' /\ ThreadsApart'
  BY <1>1 DEF ApiInv, AccountInv, RowsOK, KeyRowsOK, UserRowsOK, ResetRowsOK, Exists, JobsOK, ThreadsApart,
              JobOK, KeyJob, RegisterJob, UserJob, ResetJob, Apart, LoginTaken
<1>4. AccountTypeOK' /\ req' \in [Threads -> ReqType]
  BY <1>1 DEF ApiInv, AccountInv, AccountTypeOK
<1>5. AccountInv' /\ AccessTypeOK'
  BY <1>1, <1>2, <1>3, <1>4 DEF AccountInv, AccessTypeOK, ApiInv
<1>6. ApiRowsOK'
  BY <1>1, <1>2 DEF ApiInv, ApiRowsOK, Exists
<1>7. \A t \in Threads : /\ req'[t].op \in ApiOps => req'[t].arg \in ApiKeyIds
                         /\ req'[t].op = "revoke_api_key" => apiKeys'[req'[t].arg].state # "none"
  BY <1>1, <1>2 DEF ApiInv, ApiOps
<1>8. \A k \in ApiKeyIds \ torn' : KeyOK(k)'
  BY <1>1, <1>2 DEF ApiInv, KeyOK, Creates, Revokes, CreationOK, Mirrors
<1> QED
  BY <1>5, <1>6, <1>7, <1>8 DEF ApiInv

LEMMA TokenExpiresStep == ASSUME ApiInv, NEW k \in ApiKeyIds, TokenExpires(k) PROVE ApiInv'
<1>1. apiKeys \in [ApiKeyIds -> ApiKeyRow]
  BY DEF ApiInv, AccessTypeOK
<1>2. \A t \in Threads : ~(Creates(req[t], k) /\ req[t].at = "index")
  BY DEF TokenExpires, BeingWritten, Handles, Creates
<1> QED
  BY <1>1, <1>2, MirrorDropped DEF TokenExpires

LEMMA ProcessEndsTearingStep == ASSUME ApiInv, ProcessEndsTearing PROVE ApiInv'
<1>1. /\ torn' = torn \cup {k \in ApiKeyIds : BeingWritten(k)} /\ ProcessEnds
      /\ UNCHANGED <<apiKeys, token, index>>
  BY DEF ProcessEndsTearing
<1>2. AccountInv'
  BY <1>1, ProcessEndsStep DEF ApiInv
<1>3. UNCHANGED users /\ \A t \in Threads : req'[t] = Idle
  BY <1>1 DEF ProcessEnds, tables
<1>4. AccessTypeOK'
  BY <1>1, <1>2 DEF ApiInv, AccessTypeOK, AccountInv
<1>5. ApiRowsOK'
  BY <1>1, <1>3 DEF ApiInv, ApiRowsOK, Exists
<1>6. \A t \in Threads : req'[t].op \notin ApiOps
  BY <1>3, IdleTyped DEF ApiOps
<1>7. ASSUME NEW k \in ApiKeyIds \ torn' PROVE KeyOK(k)'
  <2>1. KeyOK(k) /\ \A t \in Threads : ~Creates(req[t], k) /\ ~Revokes(req[t], k)
    BY <1>1 DEF ApiInv, BeingWritten, Handles, Creates, Revokes
  <2>2. \A t \in Threads : ~Creates(req'[t], k) /\ ~Revokes(req'[t], k)
    BY <1>6 DEF Creates, Revokes, ApiOps
  <2>3. ASSUME token'[k].who # None PROVE Mirrors(k)'
    BY <2>1, <2>3, <1>1 DEF KeyOK, Mirrors
  <2> QED
    BY <2>2, <2>3 DEF KeyOK, Creates, Revokes
<1> QED
  BY <1>2, <1>4, <1>5, <1>6, <1>7 DEF ApiInv, ApiOps

LEMMA EnvironmentInv == ASSUME ApiInv, AccountEnvironment, UNCHANGED apiVars PROVE ApiInv'
<1>1. AccountInv'
  BY CreateAdminStep, LockoutEndsStep, OperatorDisablesStep, ResetTokenExpiresStep
     DEF AccountEnvironment, ApiInv
<1>2. UNCHANGED <<req, apiKeys, token, index, torn>>
  BY DEF AccountEnvironment, CreateAdmin, LockoutEnds, OperatorDisables, ResetTokenExpires, apiVars
<1>3. \A b : Exists(b) => Exists(b)'
  <2> SUFFICES ASSUME NEW b, Exists(b) PROVE Exists(b)'
    OBVIOUS
  <2>1. b \in Accounts /\ b \in Users /\ users[b].state # "none" /\ users \in [Users -> UserRow]
    BY DEF Exists, Users, ApiInv, AccountInv, AccountTypeOK
  <2>2. CASE CreateAdmin
    BY <2>1, <2>2, AccountAssumption DEF CreateAdmin, Exists, NewUser
  <2>3. ASSUME NEW u \in Users, LockoutEnds(u) PROVE Exists(b)'
    BY <2>1, <2>3 DEF LockoutEnds, Exists, UserRow
  <2>4. ASSUME NEW u \in Users, OperatorDisables(u) PROVE Exists(b)'
    BY <2>1, <2>4 DEF OperatorDisables, Exists, UserRow
  <2>5. ASSUME NEW x \in Resets, ResetTokenExpires(x) PROVE Exists(b)'
    BY <2>1, <2>5 DEF ResetTokenExpires, Exists
  <2> QED
    BY <2>2, <2>3, <2>4, <2>5 DEF AccountEnvironment
<1>4. AccessTypeOK'
  BY <1>1, <1>2 DEF ApiInv, AccessTypeOK, AccountInv
<1>5. ApiRowsOK'
  BY <1>2, <1>3 DEF ApiInv, ApiRowsOK
<1>6. \A t \in Threads : /\ req'[t].op \in ApiOps => req'[t].arg \in ApiKeyIds
                         /\ req'[t].op = "revoke_api_key" => apiKeys'[req'[t].arg].state # "none"
  BY <1>2 DEF ApiInv
<1>7. ASSUME NEW k \in ApiKeyIds \ torn PROVE KeyOK(k)'
  <2>1. KeyOK(k)
    BY DEF ApiInv
  <2> QED
    BY <2>1, <1>2 DEF KeyOK, Creates, Revokes, CreationOK, Mirrors
<1> QED
  BY <1>1, <1>2, <1>4, <1>5, <1>6, <1>7 DEF ApiInv

LEMMA InitInv == ASSUME Init PROVE ApiInv
<1>1. AccountInv
  BY AccountInitInv DEF Init
<1>2. AccessTypeOK
  BY <1>1 DEF Init, AccountInv, AccessTypeOK, ApiKeyRow, Missing
<1>3. \A t \in Threads : req[t].op \notin ApiOps
  BY IdleTyped DEF Init, AccountInit, ApiOps
<1>4. ApiRowsOK /\ \A k \in ApiKeyIds : KeyOK(k)
  BY <1>3 DEF Init, ApiRowsOK, KeyOK, Creates, Revokes, ApiOps, Missing
<1> QED
  BY <1>1, <1>2, <1>3, <1>4 DEF ApiInv, ApiOps

LEMMA NextInv == ASSUME ApiInv, [Next]_vars PROVE ApiInv'
<1>1. ASSUME NEW t \in Threads, NewAccountRequest(t), UNCHANGED apiVars PROVE ApiInv'
  <2>1. AccountInv /\ AccountInv'
    BY <1>1, NewAccountRequestInv DEF ApiInv
  <2>2. /\ req[t].op \notin ApiOps /\ UNCHANGED users
        /\ \E r : req' = [req EXCEPT ![t] = r] /\ r.op \notin ApiOps
    BY <1>1, <2>1, NewAccountRequestTurn
  <2>3. \A b : Exists(b) => Exists(b)'
    BY <2>2 DEF Exists
  <2> QED
    BY <1>1, <2>1, <2>2, <2>3, ApiFrame
<1>2. ASSUME NEW t \in Threads, AccountStep(t), UNCHANGED apiVars PROVE ApiInv'
  <2>1. AccountInv /\ AccountInv'
    BY <1>2, AccountStepInv DEF ApiInv
  <2>2. /\ req[t].op \notin ApiOps
        /\ \E r : req' = [req EXCEPT ![t] = r] /\ r.op \notin ApiOps
    BY <1>2, <2>1, AccountStepTurn
  <2> QED
    BY <1>2, <2>1, <2>2, AccountStepExist, ApiFrame
<1>3. ASSUME NEW t \in Threads, ApiKeyStep(t) PROVE ApiInv'
  BY <1>3, InsertApiKeyStep, CacheTokenStep, CacheIndexStep, RevokeApiKeyStep, TakeIndexStep,
     DropTokenStep, ReloadAccountStep DEF ApiKeyStep
<1>4. CASE UNCHANGED vars
  <2>1. UNCHANGED <<users, keys, resets, sessions, req, workload, served, crashes,
                    apiKeys, token, index, torn>>
    BY <1>4 DEF vars, accountVars, tables, pool, apiVars
  <2>2. AccountTypeOK' /\ AccessTypeOK' /\ req' \in [Threads -> ReqType]
    BY <2>1 DEF ApiInv, AccountInv, AccountTypeOK, AccessTypeOK
  <2>3. RowsOK' /\ JobsOK' /\ ThreadsApart'
    BY <2>1 DEF ApiInv, AccountInv, RowsOK, KeyRowsOK, UserRowsOK, ResetRowsOK, Exists, JobsOK, ThreadsApart,
                JobOK, KeyJob, RegisterJob, UserJob, ResetJob, Apart, LoginTaken
  <2>4. ApiRowsOK' /\ \A k \in ApiKeyIds \ torn' : KeyOK(k)'
    BY <2>1 DEF ApiInv, ApiRowsOK, Exists, KeyOK, Creates, Revokes, CreationOK, Mirrors
  <2> QED
    BY <2>1, <2>2, <2>3, <2>4 DEF ApiInv, AccountInv
<1> QED
  BY <1>1, <1>2, <1>3, <1>4, PostApiKeyStep, DeleteApiKeyStep, ChangePasswordWithKeyStep,
     EnvironmentInv, ApiKeyExpiresStep, TokenExpiresStep, ProcessEndsTearingStep DEF Next, Step

LEMMA Invariance == Spec => []ApiInv
<1>1. Init => ApiInv
  BY InitInv
<1>2. ApiInv /\ [Next]_vars => ApiInv'
  BY NextInv
<1> QED
  BY <1>1, <1>2, PTL DEF Spec

----------------------------------------------------------------------------
(* The properties. *)

\* Every variable keeps its type, whatever the number of rows, threads and
\* requests and wherever the process ends.
THEOREM AccessTypeCorrect == Spec => []AccessTypeOK
<1>1. ApiInv => AccessTypeOK
  BY DEF ApiInv
<1> QED
  BY <1>1, Invariance, PTL

\* One key, one account, one login: a registration redeems its activation key
\* and inserts its account together, and the row lock of
\* get_by_token_hash_for_update with the unique index of logins keeps any
\* number of registrations apart.
THEOREM RegistrationIsAtomic == Spec => []RegistrationAtomic
<1>1. ASSUME ApiInv PROVE RegistrationAtomic
  <2>1. KeyRowsOK /\ UserRowsOK /\ None \notin Accounts
    BY <1>1, AccountAssumption DEF ApiInv, AccountInv, RowsOK, Users
  <2>2. ASSUME NEW a \in Accounts, users[a].state # "none"
        PROVE  Cardinality({k \in ActivationKeys : keys[k].by = a /\ keys[k].state # "issued"}) = 1
    <3>1. PICK k \in ActivationKeys : keys[k].by = a
      BY <2>1, <2>2 DEF UserRowsOK
    <3>2. {j \in ActivationKeys : keys[j].by = a /\ keys[j].state # "issued"} = {k}
      BY <2>1, <3>1 DEF KeyRowsOK
    <3> QED
      BY <3>2, FS_Singleton
  <2> QED
    BY <2>1, <2>2 DEF RegistrationAtomic, KeyRowsOK, UserRowsOK
<1> QED
  BY <1>1, Invariance, PTL

\* A key that the relay's mirror (api_key_cache.py) resolves is its account's
\* and unrevoked, and Postgres refuses it only for its age or for the state of
\* the account, but for the keys whose requests were overtaken or cut short:
\* for any number of keys and of creations and revocations at once.
THEOREM MirrorOfKeysHolds == Spec => []MirrorOfKeys
<1>1. ASSUME ApiInv PROVE MirrorOfKeys
  <2> SUFFICES ASSUME NEW k \in ApiKeyIds \ torn, token[k].who # None, ~BeingWritten(k)
               PROVE  /\ token[k].who = apiKeys[k].who /\ index[k]
                      /\ \/ ActiveApiKey(k)
                         \/ /\ apiKeys[k].state = "active"
                            /\ apiKeys[k].past \/ Disabled(apiKeys[k].who)
    BY DEF MirrorOfKeys
  <2>1. KeyOK(k) /\ \A t \in Threads : ~Creates(req[t], k) /\ ~Revokes(req[t], k)
    BY <1>1 DEF ApiInv, BeingWritten, Handles, Creates, Revokes
  <2>2. token[k].who = apiKeys[k].who /\ index[k] /\ apiKeys[k].state = "active"
    BY <2>1 DEF KeyOK, Mirrors
  <2>3. users[apiKeys[k].who].state \in {"active", "suspended", "deleted"}
    <3>1. Exists(apiKeys[k].who) /\ users \in [Users -> UserRow]
      BY <1>1, <2>2 DEF ApiInv, ApiRowsOK, AccountInv, AccountTypeOK
    <3> QED
      BY <3>1 DEF Exists, Users, UserRow
  <2> QED
    BY <2>2, <2>3 DEF ActiveApiKey, Disabled
<1> QED
  BY <1>1, Invariance, PTL

\* Only a DELETE that had read the key as issued loses the record of a redemption.
THEOREM AuditLossIsOverlap == Spec => AuditLostOnlyByOverlap
<1> DEFINE A == \A k \in ActivationKeys :
                  keys[k].state = "redeemed" /\ keys'[k].state # "redeemed" =>
                    \E t \in Threads : At(t, "delete_key", "write") /\ req[t].arg = k
                                       /\ req[t].row.state = "issued"
<1>1. ASSUME ApiInv, [Next]_vars PROVE [A]_accountVars
  <2> SUFFICES ASSUME NEW k \in ActivationKeys, keys[k].state = "redeemed", keys'[k].state # "redeemed"
               PROVE  \E t \in Threads : At(t, "delete_key", "write") /\ req[t].arg = k
                                         /\ req[t].row.state = "issued"
    OBVIOUS
  <2>1. keys \in [ActivationKeys -> KeyRow] /\ keys' # keys
    BY <1>1 DEF ApiInv, AccountInv, AccountTypeOK
  <2>2. PICK t \in Threads : \/ InsertActivationKey(t) \/ UpdateActivationKey(t) \/ DeleteActivationKey(t)
                             \/ CommitRegistration(t)
    <3>1. UNCHANGED tables \/ UNCHANGED keys => keys' = keys
      BY DEF tables
    <3> QED
      BY <1>1, <2>1, <3>1
         DEF Next, NewAccountRequest, CreateActivationKey, ReadActivationKey, PostRegister, StartLogin,
             StartAdminLogin, PostChangePassword, PostResetToken, PostPasswordReset, PostApiKey, DeleteApiKey,
             ChangePasswordWithKey, Step, AccountStep, LockActivationKey, InsertAccount, PasswordFails,
             PasswordMatches, ChangePassword, IssueResetToken, LockResetToken, ConfirmReset, ApiKeyStep,
             InsertApiKey, CacheToken, CacheIndex, RevokeApiKey, TakeIndex, DropToken, ReloadAccount,
             AccountEnvironment, CreateAdmin, LockoutEnds, OperatorDisables, ResetTokenExpires, ApiKeyExpires,
             TokenExpires, ProcessEndsTearing, ProcessEnds, vars, accountVars
  <2>3. JobOK(req[t])
    BY <1>1, ThreadFacts DEF ApiInv
  <2>4. CASE InsertActivationKey(t)
    BY <2>1, <2>3, <2>4 DEF InsertActivationKey, JobOK, KeyJob, At, KeyRow
  <2>5. CASE UpdateActivationKey(t)
    BY <2>1, <2>5 DEF UpdateActivationKey, KeyRow
  <2>6. CASE DeleteActivationKey(t)
    BY <2>1, <2>3, <2>6 DEF DeleteActivationKey, JobOK, KeyJob, At, KeyRow
  <2>7. CASE CommitRegistration(t)
    BY <2>1, <2>7 DEF CommitRegistration, KeyRow
  <2> QED
    BY <2>2, <2>4, <2>5, <2>6, <2>7
<1> QED
  BY <1>1, Invariance, PTL DEF Spec, AuditLostOnlyByOverlap

\* The actions that write rows of users.
LEMMA UserWriters ==
  ASSUME ApiInv, [Next]_vars, users' # users
  PROVE  \/ \E t \in Threads : \/ CommitRegistration(t) \/ PasswordFails(t) \/ PasswordMatches(t)
                               \/ ChangePassword(t) \/ ConfirmReset(t)
         \/ CreateAdmin
         \/ \E u \in Users : LockoutEnds(u) \/ OperatorDisables(u)
<1>1. UNCHANGED tables \/ UNCHANGED users => users' = users
  BY DEF tables
<1> QED
  BY <1>1
     DEF Next, NewAccountRequest, CreateActivationKey, ReadActivationKey, PostRegister, StartLogin,
         StartAdminLogin, PostChangePassword, PostResetToken, PostPasswordReset, PostApiKey, DeleteApiKey,
         ChangePasswordWithKey, Step, AccountStep, InsertActivationKey, UpdateActivationKey,
         DeleteActivationKey, LockActivationKey, InsertAccount,
         IssueResetToken, LockResetToken, ApiKeyStep,
         InsertApiKey, CacheToken, CacheIndex, RevokeApiKey, TakeIndex, DropToken, ReloadAccount,
         AccountEnvironment, ResetTokenExpires, ApiKeyExpires,
         TokenExpires, ProcessEndsTearing, ProcessEnds, vars, accountVars

\* A reset token sets one password, however many confirmations of it overlap.
THEOREM ResetTokenOnce == Spec => ResetOnce
<1> DEFINE A == \A t \in Threads :
                  At(t, "confirm_reset", "apply") /\ req'[t] = Idle /\ users' # users =>
                    resets[req[t].arg].state = "unused" /\ resets'[req[t].arg].state = "used"
<1>1. ASSUME ApiInv, [Next]_vars PROVE [A]_accountVars
  <2> SUFFICES ASSUME NEW t \in Threads, At(t, "confirm_reset", "apply"), req'[t] = Idle, users' # users
               PROVE  resets[req[t].arg].state = "unused" /\ resets'[req[t].arg].state = "used"
    OBVIOUS
  <2>1. /\ req[t].op = "confirm_reset" /\ req[t].at = "apply" /\ Idle.op = "idle"
        /\ req \in [Threads -> ReqType]
    BY <1>1, IdleTyped DEF At, ApiInv, AccountInv
  <2>2. ASSUME NEW u \in Threads, Answer(u) PROVE u = t
    BY <2>1, <2>2 DEF Answer, Goto
  <2>3. ASSUME UNCHANGED req PROVE FALSE
    BY <2>1, <2>3
  <2>4. ConfirmReset(t)
    BY <1>1, <2>1, <2>2, <2>3, UserWriters
       DEF CommitRegistration, PasswordFails, PasswordMatches, ChangePassword, ConfirmReset,
           CreateAdmin, LockoutEnds, OperatorDisables, At
  <2>5. req[t].arg \in Resets /\ resets[req[t].arg].state = "unused" /\ resets \in [Resets -> ResetRow]
    BY <1>1, <2>1, ThreadFacts DEF JobOK, ResetJob, ApiInv, AccountInv, AccountTypeOK
  <2> QED
    BY <2>4, <2>5 DEF ConfirmReset, ResetRow
<1> QED
  BY <1>1, Invariance, PTL DEF Spec, ResetOnce

\* A running lockout is ended by its time, a reset, or a login that had read
\* the row before, whatever else is under way.
THEOREM LockoutIsKept == Spec => LockoutKept
<1> DEFINE A == \A u \in Users :
                  users[u].locked = "running" /\ users'[u].locked = "never" =>
                    \E t \in Threads :
                      /\ req[t].who = u /\ req'[t] = Idle
                      /\ \/ At(t, "confirm_reset", "apply")
                         \/ req[t].op \in {"login", "admin_login"} /\ req[t].seen.locked = "over"
<1>1. ASSUME ApiInv, [Next]_vars PROVE [A]_accountVars
  <2> SUFFICES ASSUME NEW u \in Users, users[u].locked = "running", users'[u].locked = "never"
               PROVE  \E t \in Threads :
                        /\ req[t].who = u /\ req'[t] = Idle
                        /\ \/ At(t, "confirm_reset", "apply")
                           \/ req[t].op \in {"login", "admin_login"} /\ req[t].seen.locked = "over"
    OBVIOUS
  <2>1. /\ users \in [Users -> UserRow] /\ users' # users /\ req \in [Threads -> ReqType]
        /\ users[u].state # "none"
    BY <1>1, UserTyped DEF ApiInv, AccountInv, AccountTypeOK, RowsOK, UserRowsOK
  <2>2. ASSUME NEW t \in Threads, Answer(t) PROVE req'[t] = Idle
    BY <2>1, <2>2 DEF Answer, Goto
  <2>3. ASSUME NEW t \in Threads PROVE JobOK(req[t]) /\ req[t] \in ReqType
    BY <1>1, ThreadFacts DEF ApiInv
  <2>4. ASSUME NEW t \in Threads, CommitRegistration(t) PROVE FALSE
    <3>1. users[req[t].who].state = "none"
      BY <2>3, <2>4 DEF CommitRegistration, JobOK, RegisterJob, At
    <3> QED
      BY <3>1, <2>1, <2>4 DEF CommitRegistration
  <2>5. ASSUME NEW t \in Threads, PasswordFails(t) PROVE FALSE
    BY <2>1, <2>5 DEF PasswordFails, UserRow
  <2>6. ASSUME NEW t \in Threads, ChangePassword(t) PROVE FALSE
    BY <2>1, <2>6 DEF ChangePassword, UserRow
  <2>7. ASSUME NEW v \in Users, LockoutEnds(v) \/ OperatorDisables(v) PROVE FALSE
    BY <2>1, <2>7 DEF LockoutEnds, OperatorDisables, UserRow
  <2>8. ASSUME CreateAdmin PROVE FALSE
    BY <2>1, <2>8 DEF CreateAdmin
  <2>9. ASSUME NEW t \in Threads, ConfirmReset(t) PROVE req[t].who = u
    BY <2>1, <2>9 DEF ConfirmReset
  <2>10. ASSUME NEW t \in Threads, PasswordMatches(t) PROVE req[t].who = u /\ req[t].seen.locked = "over"
    <3>1. req[t].who = u
      BY <2>1, <2>10 DEF PasswordMatches
    <3>2. users'[u].locked = IF req[t].seen.locked = "never" THEN users[u].locked ELSE "never"
      BY <3>1, <2>1, <2>10, ResetColumnsTyped DEF PasswordMatches
    <3>3. req[t].seen.locked \in {"never", "running", "over"} /\ req[t].seen.locked # "running"
      BY <2>3, <2>10 DEF PasswordMatches, JobOK, UserJob, ReqType, UserRow
    <3> QED
      BY <3>1, <3>2, <3>3
  <2> QED
    BY <1>1, <2>1, <2>2, <2>4, <2>5, <2>6, <2>7, <2>8, <2>9, <2>10, UserWriters
       DEF ConfirmReset, PasswordMatches
<1> QED
  BY <1>1, Invariance, PTL DEF Spec, LockoutKept
=============================================================================
