------------------------------ MODULE ApiKeys ------------------------------
(***************************************************************************)
(* Self-service API keys (services/api_key_service.py): the rows in        *)
(* Postgres, their mirror in Redis (core/api_key_cache.py), which is all   *)
(* that the relay asks (internal/apikeycache), and their use in place of a *)
(* JWT (core/account_auth.py).  Extends AccountAccess, whose requests go   *)
(* on beside those of this module.                                         *)
(*                                                                         *)
(* Creating a key is a commit and two SETs, revoking one a commit, a       *)
(* GETDEL and a DEL; the process may end between any two of them.          *)
(***************************************************************************)
EXTENDS AccountAccess

CONSTANT ApiKeyIds   \* api_key ids, each with its plaintext

ASSUME ApiKeyAssumption == None \notin ApiKeyIds

VARIABLES
    apiKeys,  \* api_key rows: [state, who, dated, past]
    token,    \* Redis ark:api_key:tok:{digest}: the account and whether it has a TTL
    index,    \* Redis ark:api_key:id:{id}: present or not
    torn      \* keys whose creation a revocation overtook, or whose request was cut short (for MirrorOfKeys)

apiVars == <<apiKeys, token, index, torn>>
vars == <<accountVars, apiVars>>

\* dated is expires_at IS NOT NULL, past is expires_at <= now.
ApiKeyRow == [state : {"none", "active", "revoked"}, who : Accounts \cup {None},
              dated : BOOLEAN, past : BOOLEAN]
Missing == [who |-> None, ttl |-> FALSE]

AccessTypeOK ==
    /\ AccountTypeOK
    /\ apiKeys \in [ApiKeyIds -> ApiKeyRow]
    /\ token \in [ApiKeyIds -> [who : Accounts \cup {None}, ttl : BOOLEAN]]
    /\ index \in [ApiKeyIds -> BOOLEAN]
    /\ torn \subseteq ApiKeyIds

Init ==
    /\ AccountInit
    /\ apiKeys = [k \in ApiKeyIds |-> [state |-> "none", who |-> None, dated |-> FALSE, past |-> FALSE]]
    /\ token = [k \in ApiKeyIds |-> Missing]
    /\ index = [k \in ApiKeyIds |-> FALSE]
    /\ torn = {}

Handles(t, k) == req[t].op \in {"create_api_key", "revoke_api_key"} /\ req[t].arg = k
BeingWritten(k) == \E t \in Threads : Handles(t, k)
BeingCreated(k) == \E t \in Threads : Handles(t, k) /\ req[t].op = "create_api_key"

----------------------------------------------------------------------------
(* Creating a key. *)

\* post_api_key: the claims.
PostApiKey(t) ==
    /\ \E a \in CurrentAccounts, k \in Unborn(apiKeys) :
         Begin(t, [Request("create_api_key", "insert") EXCEPT !.who = a, !.arg = k])
    /\ UNCHANGED <<tables, sessions, apiVars>>

\* api_key_repo.insert, committed.
InsertApiKey(t) ==
    /\ At(t, "create_api_key", "insert")
    /\ \E dated \in BOOLEAN :
         apiKeys' = [apiKeys EXCEPT ![req[t].arg] =
                       [state |-> "active", who |-> req[t].who, dated |-> dated, past |-> FALSE]]
    /\ Goto(t, [req[t] EXCEPT !.at = "token"])
    /\ UNCHANGED <<tables, sessions, token, index, torn>>

\* Deviation: the ids of key and account are swapped in the call.
CacheTokenSwapped(t) ==
    LET k == req[t].arg IN
    /\ At(t, "create_api_key", "token")
    /\ \/ apiKeys[k].past /\ Answer(t) /\ UNCHANGED token
       \/ /\ ~apiKeys[k].past
          /\ token' = [token EXCEPT ![k] = [who |-> k, ttl |-> TRUE]]
          /\ Goto(t, [req[t] EXCEPT !.at = "index"])
    /\ UNCHANGED <<tables, sessions, apiKeys, index, torn>>

\* Deviation: a key without expires_at is cached without an expiry.
CacheTokenForever(t) ==
    LET k == req[t].arg IN
    /\ At(t, "create_api_key", "token")
    /\ \/ apiKeys[k].past /\ Answer(t) /\ UNCHANGED token
       \/ /\ ~apiKeys[k].past
          /\ token' = [token EXCEPT ![k] = [who |-> req[t].who, ttl |-> apiKeys[k].dated]]
          /\ Goto(t, [req[t] EXCEPT !.at = "index"])
    /\ UNCHANGED <<tables, sessions, apiKeys, index, torn>>

\* set_key: a key already expired is not cached; else the first SET, EX ttl.
CacheToken(t) ==
    LET k == req[t].arg IN
    /\ At(t, "create_api_key", "token")
    /\ \/ apiKeys[k].past /\ Answer(t) /\ UNCHANGED token
       \/ /\ ~apiKeys[k].past
          /\ token' = [token EXCEPT ![k] = [who |-> req[t].who, ttl |-> TRUE]]
          /\ Goto(t, [req[t] EXCEPT !.at = "index"])
    /\ UNCHANGED <<tables, sessions, apiKeys, index, torn>>

\* The second SET: the index by which a revocation finds the first key.
CacheIndex(t) ==
    /\ At(t, "create_api_key", "index")
    /\ index' = [index EXCEPT ![req[t].arg] = TRUE]
    /\ Answer(t)
    /\ UNCHANGED <<tables, sessions, apiKeys, token, torn>>

----------------------------------------------------------------------------
(* Revoking a key. *)

\* get_by_id_for_account: the caller's own key, whatever its status.
DeleteApiKey(t) ==
    /\ \E a \in CurrentAccounts, k \in ApiKeyIds :
         /\ apiKeys[k].who = a
         /\ Begin(t, [Request("revoke_api_key", "commit") EXCEPT !.who = a, !.arg = k])
         /\ torn' = IF BeingCreated(k) THEN torn \cup {k} ELSE torn
    /\ UNCHANGED <<tables, sessions, apiKeys, token, index>>

RevokeApiKey(t) ==
    /\ At(t, "revoke_api_key", "commit")
    /\ apiKeys' = [apiKeys EXCEPT ![req[t].arg].state = "revoked"]
    /\ Goto(t, [req[t] EXCEPT !.at = "getdel"])
    /\ UNCHANGED <<tables, sessions, token, index, torn>>

\* delete_key: GETDEL of the index; without it the token key is not found.
TakeIndex(t) ==
    LET k == req[t].arg IN
    /\ At(t, "revoke_api_key", "getdel")
    /\ index' = [index EXCEPT ![k] = FALSE]
    /\ \/ index[k] /\ Goto(t, [req[t] EXCEPT !.at = "del"])
       \/ ~index[k] /\ Answer(t)
    /\ UNCHANGED <<tables, sessions, apiKeys, token, torn>>

\* Deviation: only the index is deleted.
ForgetToken(t) ==
    /\ At(t, "revoke_api_key", "del")
    /\ Answer(t)
    /\ UNCHANGED <<tables, sessions, apiVars>>

DropToken(t) ==
    /\ At(t, "revoke_api_key", "del")
    /\ token' = [token EXCEPT ![req[t].arg] = Missing]
    /\ Answer(t)
    /\ UNCHANGED <<tables, sessions, apiKeys, index, torn>>

----------------------------------------------------------------------------
(* Using a key, and time. *)

\* _account_claims_from_api_key: the key and its account are read, then
\* last_used_at is committed.
ActiveApiKey(k) ==
    /\ apiKeys[k].state = "active" /\ ~apiKeys[k].past
    /\ users[apiKeys[k].who].state = "active"

\* post_change_password with a key: that commit expires the session's
\* objects, and change_password reads the row again.
ChangePasswordWithKey(t) ==
    /\ \E k \in ApiKeyIds, old \in Passwords, new \in Passwords :
         /\ ActiveApiKey(k)
         /\ "use_api_key" \in workload
         /\ Begin(t, [Request("change_password", "reload") EXCEPT
                        !.who = apiKeys[k].who, !.pw = old, !.new = new])
    /\ UNCHANGED <<tables, sessions, apiVars>>

\* account_repo.get_by_id in change_password, where it asks Postgres.
ReloadAccount(t) ==
    /\ At(t, "change_password", "reload")
    /\ Goto(t, [req[t] EXCEPT !.at = "verify", !.seen = users[req[t].who]])
    /\ UNCHANGED <<tables, sessions, apiVars>>

\* expires_at passes.  The TTL is cut to what is left of the key's life, but
\* is reckoned before the SETs and runs from them: the mirror dies afterwards.
ApiKeyExpires(k) ==
    /\ apiKeys[k].dated /\ ~apiKeys[k].past
    /\ apiKeys' = [apiKeys EXCEPT ![k].past = TRUE]
    /\ UNCHANGED <<accountVars, token, index, torn>>

\* Redis drops what has an expiry, at 30 days or at the end of the key's own
\* life: the two keys were set within moments, with one TTL.
TokenExpires(k) ==
    /\ token[k].ttl
    /\ ~BeingWritten(k)
    /\ token' = [token EXCEPT ![k] = Missing]
    /\ index' = [index EXCEPT ![k] = FALSE]
    /\ UNCHANGED <<accountVars, apiKeys, torn>>

\* The process ends in the middle of whatever its threads do.
ProcessEndsTearing ==
    /\ ProcessEnds
    /\ torn' = torn \cup {k \in ApiKeyIds : BeingWritten(k)}
    /\ UNCHANGED <<apiKeys, token, index>>

ApiKeyStep(t) ==
    \/ InsertApiKey(t) \/ CacheToken(t) \/ CacheIndex(t)
    \/ RevokeApiKey(t) \/ TakeIndex(t) \/ DropToken(t)
    \/ ReloadAccount(t)

Step(t) == (AccountStep(t) /\ UNCHANGED apiVars) \/ ApiKeyStep(t)

Next ==
    \/ \E t \in Threads :
         \/ NewAccountRequest(t) /\ UNCHANGED apiVars
         \/ PostApiKey(t) \/ DeleteApiKey(t) \/ ChangePasswordWithKey(t)
         \/ Step(t)
    \/ AccountEnvironment /\ UNCHANGED apiVars
    \/ \E k \in ApiKeyIds : ApiKeyExpires(k) \/ TokenExpires(k)
    \/ ProcessEndsTearing

\* Threads go on with what they have begun, and Redis expires what is due.
Fairness ==
    /\ \A t \in Threads : WF_vars(Step(t))
    /\ \A k \in ApiKeyIds : WF_vars(TokenExpires(k))

Spec == Init /\ [][Next]_vars /\ Fairness

----------------------------------------------------------------------------
(* Properties. *)

\* The account was suspended or deleted.
Disabled(a) == users[a].state \in {"suspended", "deleted"}

\* A key that resolves at the relay names its account and can be revoked, and
\* Postgres admits with it too, up to named gaps: requests under way, keys
\* revoked during their creation or whose requests were cut short, keys that
\* Redis has yet to expire, and keys of a disabled account, which
\* account_auth.py:173-175 refuses while cache.go:59-67 asks for no account.
\* Keys the relay does not resolve are no concern of it: an active key drops
\* out of the mirror after 30 days.
MirrorOfKeys ==
    \A k \in ApiKeyIds \ torn :
        token[k].who # None /\ ~BeingWritten(k) =>
            /\ token[k].who = apiKeys[k].who /\ index[k]
            /\ \/ ActiveApiKey(k)
               \/ /\ apiKeys[k].state = "active"
                  /\ apiKeys[k].past \/ Disabled(apiKeys[k].who)

\* Whatever happened in between, a key that Postgres refuses, being revoked,
\* expired or of a disabled account, stops resolving at the relay: a revoked
\* one by its DEL, and the others, or one whose DEL was lost, by the TTL
\* (api_key_cache.py:28-31).
RevokedKeyDies ==
    \A k \in ApiKeyIds :
        (apiKeys[k].state # "none" /\ ~ActiveApiKey(k)) ~> (token[k].who = None)

\* Every request is answered: waits for row locks and for unique indexes of
\* open transactions end, whoever fails meanwhile.
RequestsAnswered ==
    \A t \in Threads : (req[t] # Idle) ~> (req[t] = Idle)
=============================================================================
