--------------------------- MODULE SharingService ---------------------------
(***************************************************************************)
(* Sharing groups (backend_python/src/services/sharing_service.py): the    *)
(* requests that create, join, leave and delete a group, over the tables   *)
(* of Postgres and the mirror of them kept in Redis (core/group_cache.py). *)
(*                                                                         *)
(* The routes are plain functions run by a pool of threads.  Each commit   *)
(* and each Redis call of a request is a step of its own, interleaved with *)
(* the steps of the others, and a request may be cut short between two of  *)
(* them by an exception or by the end of the process.                      *)
(*                                                                         *)
(* A request that is refused changes nothing and is left out: only the     *)
(* checks that let a request pass appear.                                  *)
(***************************************************************************)
EXTENDS Integers, Sequences, FiniteSets

CONSTANTS
    Accounts,     \* account ids
    Groups,       \* sharing_group ids
    Workers,      \* the threads that serve requests
    None,         \* SQL NULL, a missing key, a row that does not exist
    Founders,     \* Founders[g]: the owner of a group that exists at start, or None
    MaxUses,      \* max_uses of an invite
    MaxRequests,  \* bound on the requests served
    MayAbort      \* whether one request may be cut short

ASSUME SharingAssumption ==
    /\ None \notin Accounts \cup Groups \cup [status : {"active", "expired"}, uses : Nat]
    /\ Founders \in [Groups -> Accounts \cup {None}]
    /\ MaxUses \in Nat \ {0}
    /\ MaxRequests \in Nat
    /\ MayAbort \in BOOLEAN

VARIABLES
    group,        \* sharing_group rows: "unborn", "live" or "deleted"
    owner,        \* sharing_group.owner_account_id
    members,      \* group_member rows of each group
    active,       \* account.active_group_id
    invite,       \* the group_invite_token of each group: [status, uses] or None
    mirror,       \* Redis sets ark:group:{id}:members
    mirrorActive, \* Redis keys ark:account:{id}:active_group
    subscribed,   \* a relay holds the PSUBSCRIBE
    channel,      \* revocations published and not yet read by the relay
    req,          \* what each worker is doing
    served,       \* requests started so far
    admitted,     \* how many joins each invite has let in (for InviteWithinLimit)
    overlapped,   \* accounts two requests dealt with at once (for MirrorAgrees)
    abandoned     \* accounts whose request was cut short (for MirrorAgrees)

pg == <<group, owner, members, active, invite>>
redis == <<mirror, mirrorActive, subscribed, channel>>
ghosts == <<admitted, overlapped, abandoned>>
sharingVars == <<pg, redis, req, served, ghosts>>

Idle == [op |-> "idle", at |-> "", g |-> None, a |-> None, todo |-> {}, clear |-> {}, n |-> 0]

\* The request op on group g for account a, about to run step at.
Request(op, at, g, a) == [Idle EXCEPT !.op = op, !.at = at, !.g = g, !.a = a]

Places == {"", "insert", "addOwner", "countRead", "countWrite", "reload", "sadd",
           "activate", "setKey", "delete", "srem", "publish", "clear", "clearWrite",
           "delKey", "listActive", "commit", "delMembers"}

TypeOK ==
    /\ group \in [Groups -> {"unborn", "live", "deleted"}]
    /\ owner \in [Groups -> Accounts \cup {None}]
    /\ members \in [Groups -> SUBSET Accounts]
    /\ active \in [Accounts -> Groups \cup {None}]
    /\ invite \in [Groups -> [status : {"active", "expired"}, uses : Nat] \cup {None}]
    /\ mirror \in [Groups -> SUBSET Accounts]
    /\ mirrorActive \in [Accounts -> Groups \cup {None}]
    /\ subscribed \in BOOLEAN
    /\ channel \in Seq(Groups \X Accounts)
    /\ req \in [Workers -> [op : {"idle", "create", "join", "leave", "switch", "delete"},
                            at : Places, g : Groups \cup {None},
                            a : Accounts \cup {None}, todo : SUBSET Accounts,
                            clear : SUBSET Accounts, n : Nat]]
    /\ served \in 0..MaxRequests
    /\ admitted \in [Groups -> Nat]
    /\ overlapped \subseteq Accounts
    /\ abandoned \subseteq Accounts

Init ==
    /\ group = [g \in Groups |-> IF Founders[g] = None THEN "unborn" ELSE "live"]
    /\ owner = Founders
    /\ members = [g \in Groups |-> {Founders[g]} \ {None}]
    /\ active = [a \in Accounts |-> None]
    /\ invite = [g \in Groups |-> None]
    /\ mirror = members
    /\ mirrorActive = active
    /\ subscribed = FALSE
    /\ channel = <<>>
    /\ req = [w \in Workers |-> Idle]
    /\ served = 0
    /\ admitted = [g \in Groups |-> 0]
    /\ overlapped = {}
    /\ abandoned = {}

----------------------------------------------------------------------------
(* How requests start, go on and end. *)

\* The accounts whose rows and keys a request deals with.
Touches(r) ==
    CASE r.op = "idle" -> {}
      [] r.op = "delete" -> Accounts
      [] OTHER -> {r.a}

\* The accounts some running request deals with.
InFlight == UNION {Touches(req[w]) : w \in Workers}

Start(w, r) ==
    /\ req[w] = Idle
    /\ served < MaxRequests
    /\ served' = served + 1
    /\ overlapped' = overlapped \cup (Touches(r) \cap InFlight)
    /\ req' = [req EXCEPT ![w] = r]

At(w, ops, at) == req[w].op \in ops /\ req[w].at = at

Goto(w, at) == req' = [req EXCEPT ![w].at = at] /\ UNCHANGED <<served, ghosts>>

Finish(w) == req' = [req EXCEPT ![w] = Idle] /\ UNCHANGED <<served, ghosts>>

\* An exception, or a crash: the commits and Redis calls made so far stay.
Abort(w) ==
    /\ MayAbort
    /\ req[w] # Idle
    /\ abandoned = {}
    /\ abandoned' = Touches(req[w])
    /\ req' = [req EXCEPT ![w] = Idle]
    /\ UNCHANGED <<pg, redis, served, admitted, overlapped>>

\* PUBLISH reaches whoever is subscribed now, and nobody else ever.
Publish(g, a) ==
    channel' = IF subscribed THEN Append(channel, <<g, a>>) ELSE channel

----------------------------------------------------------------------------
(* create_group *)

StartCreate(w, g, a) ==
    /\ group[g] = "unborn"
    /\ \A v \in Workers : req[v].g # g
    /\ Start(w, Request("create", "insert", g, a))
    /\ UNCHANGED <<pg, redis, admitted, abandoned>>

InsertGroup(w) ==
    /\ At(w, {"create"}, "insert")
    /\ group' = [group EXCEPT ![req[w].g] = "live"]
    /\ owner' = [owner EXCEPT ![req[w].g] = req[w].a]
    /\ Goto(w, "addOwner")
    /\ UNCHANGED <<members, active, invite, redis>>

InsertOwner(w) ==
    /\ At(w, {"create"}, "addOwner")
    /\ members' = [members EXCEPT ![req[w].g] = @ \cup {req[w].a}]
    /\ Goto(w, "sadd")
    /\ UNCHANGED <<group, owner, active, invite, redis>>

\* Deviation: the arguments of SADD swapped.
AddSwapped(w) ==
    /\ At(w, {"create", "join"}, "sadd")
    /\ mirror' = [mirror EXCEPT ![req[w].g] = @ \cup {req[w].g}]
    /\ Goto(w, "activate")
    /\ UNCHANGED <<pg, mirrorActive, subscribed, channel>>

\* RedisGroupCache.add_member.
AddToMirror(w) ==
    /\ At(w, {"create", "join"}, "sadd")
    /\ mirror' = [mirror EXCEPT ![req[w].g] = @ \cup {req[w].a}]
    /\ Goto(w, "activate")
    /\ UNCHANGED <<pg, mirrorActive, subscribed, channel>>

\* _set_active_group's commit. The foreign key refuses a group deleted meanwhile.
SetActive(w) ==
    /\ At(w, {"create", "join", "switch"}, "activate")
    /\ IF group[req[w].g] = "live"
       THEN /\ active' = [active EXCEPT ![req[w].a] = req[w].g]
            /\ Goto(w, "setKey")
       ELSE UNCHANGED active /\ Finish(w)
    /\ UNCHANGED <<group, owner, members, invite, redis>>

\* RedisGroupCache.set_active_group.
SetActiveKey(w) ==
    /\ At(w, {"create", "join", "switch"}, "setKey")
    /\ mirrorActive' = [mirrorActive EXCEPT ![req[w].a] = req[w].g]
    /\ Finish(w)
    /\ UNCHANGED <<pg, mirror, subscribed, channel>>

----------------------------------------------------------------------------
(* create_invite and join_group *)

\* create_invite: the owner check and the insert; one invite to a group (bound).
CreateInvite(g) ==
    /\ group[g] = "live"
    /\ owner[g] \in members[g]
    /\ invite[g] = None
    /\ invite' = [invite EXCEPT ![g] = [status |-> "active", uses |-> 0]]
    /\ UNCHANGED <<group, owner, members, active, redis, req, served, ghosts>>

\* SELECT ... FOR UPDATE, the checks, and the membership row. insert_member
\* commits, which releases the row lock before the use is counted.
Admit(w, g, a) ==
    /\ invite[g] # None
    /\ invite[g].status = "active"
    /\ invite[g].uses < MaxUses
    /\ a \notin members[g]
    /\ members' = [members EXCEPT ![g] = @ \cup {a}]
    /\ admitted' = [admitted EXCEPT ![g] = @ + 1]
    /\ Start(w, Request("join", "countRead", g, a))
    /\ UNCHANGED <<group, owner, active, invite, redis, abandoned>>

\* invite.uses_count, read again after the commit expired it; the row may be gone.
ReadCount(w) ==
    /\ At(w, {"join"}, "countRead")
    /\ IF invite[req[w].g] # None
       THEN /\ req' = [req EXCEPT ![w].at = "countWrite", ![w].n = invite[req[w].g].uses]
            /\ UNCHANGED <<served, ghosts>>
       ELSE Finish(w)
    /\ UNCHANGED <<pg, redis>>

WriteCount(w) ==
    /\ At(w, {"join"}, "countWrite")
    /\ LET n == req[w].n + 1
       IN  IF invite[req[w].g] # None
           THEN /\ invite' = [invite EXCEPT
                     ![req[w].g] = [status |-> IF n >= MaxUses THEN "expired" ELSE @.status,
                                    uses |-> n]]
                /\ Goto(w, "reload")
           ELSE UNCHANGED invite /\ Finish(w)
    /\ UNCHANGED <<group, owner, members, active, redis>>

\* invite.group_id, read again after the second commit.
ReloadInvite(w) ==
    /\ At(w, {"join"}, "reload")
    /\ IF invite[req[w].g] # None THEN Goto(w, "sadd") ELSE Finish(w)
    /\ UNCHANGED <<pg, redis>>

----------------------------------------------------------------------------
(* leave_group and remove_member, which differ in who asks only. *)

\* Deviation: leave_group without the owner check.
StartLeaveAnyone(w, g, a) ==
    /\ group[g] = "live"
    /\ a \in members[g]
    /\ Start(w, Request("leave", "delete", g, a))
    /\ UNCHANGED <<pg, redis, admitted, abandoned>>

\* The checks: an owner neither leaves nor removes themselves.
StartLeave(w, g, a) ==
    /\ group[g] = "live"
    /\ a \in members[g]
    /\ a # owner[g]
    /\ Start(w, Request("leave", "delete", g, a))
    /\ UNCHANGED <<pg, redis, admitted, abandoned>>

\* delete_member; a row that is gone already is not an error.
DeleteMember(w) ==
    /\ At(w, {"leave"}, "delete")
    /\ members' = [members EXCEPT ![req[w].g] = @ \ {req[w].a}]
    /\ Goto(w, "srem")
    /\ UNCHANGED <<group, owner, active, invite, redis>>

\* RedisGroupCache.remove_member: SREM ...
RemoveFromMirror(w) ==
    /\ At(w, {"leave"}, "srem")
    /\ mirror' = [mirror EXCEPT ![req[w].g] = @ \ {req[w].a}]
    /\ Goto(w, "publish")
    /\ UNCHANGED <<pg, mirrorActive, subscribed, channel>>

\* Deviation: the revocation is announced for the active group only.
PublishIfActive(w) ==
    /\ At(w, {"leave"}, "publish")
    /\ IF active[req[w].a] = req[w].g
       THEN Publish(req[w].g, req[w].a) ELSE UNCHANGED channel
    /\ Goto(w, "clear")
    /\ UNCHANGED <<pg, mirror, mirrorActive, subscribed>>

\* ... and then PUBLISH, whether or not SREM found anything.
PublishLeave(w) ==
    /\ At(w, {"leave"}, "publish")
    /\ Publish(req[w].g, req[w].a)
    /\ Goto(w, "clear")
    /\ UNCHANGED <<pg, mirror, mirrorActive, subscribed>>

\* _clear_active_group_if_matches: the read ...
ReadActive(w) ==
    /\ At(w, {"leave"}, "clear")
    /\ IF active[req[w].a] = req[w].g THEN Goto(w, "clearWrite") ELSE Finish(w)
    /\ UNCHANGED <<pg, redis>>

\* Deviation: active_group_id is left for ON DELETE SET NULL to clear.
KeepActive(w) ==
    /\ At(w, {"leave"}, "clearWrite")
    /\ Goto(w, "delKey")
    /\ UNCHANGED <<pg, redis>>

\* ... the write, whatever the value has become since ...
ClearActive(w) ==
    /\ At(w, {"leave"}, "clearWrite")
    /\ active' = [active EXCEPT ![req[w].a] = None]
    /\ Goto(w, "delKey")
    /\ UNCHANGED <<group, owner, members, invite, redis>>

\* ... and RedisGroupCache.clear_active_group.
DeleteActiveKey(w) ==
    /\ At(w, {"leave"}, "delKey")
    /\ mirrorActive' = [mirrorActive EXCEPT ![req[w].a] = None]
    /\ Finish(w)
    /\ UNCHANGED <<pg, mirror, subscribed, channel>>

----------------------------------------------------------------------------
(* set_active_group: the membership check, then SetActive and SetActiveKey. *)

StartSwitch(w, g, a) ==
    /\ group[g] = "live"
    /\ a \in members[g]
    /\ Start(w, Request("switch", "activate", g, a))
    /\ UNCHANGED <<pg, redis, admitted, abandoned>>

----------------------------------------------------------------------------
(* delete_group *)

\* _require_owner and list_members.
StartDelete(w, g) ==
    /\ group[g] = "live"
    /\ owner[g] \in members[g]
    /\ Start(w, [Request("delete", "listActive", g, owner[g]) EXCEPT !.todo = members[g]])
    /\ UNCHANGED <<pg, redis, admitted, abandoned>>

\* list_ids_with_active_group.
ListActive(w) ==
    /\ At(w, {"delete"}, "listActive")
    /\ req' = [req EXCEPT ![w].at = "commit",
                          ![w].clear = {a \in Accounts : active[a] = req[w].g}]
    /\ UNCHANGED <<pg, redis, served, ghosts>>

\* The rows of the group and of its members and invites, and ON DELETE SET NULL.
\* Rows that are gone already are not an error.
DeleteRows(w) ==
    /\ At(w, {"delete"}, "commit")
    /\ LET g == req[w].g
       IN  /\ group' = [group EXCEPT ![g] = "deleted"]
           /\ members' = [members EXCEPT ![g] = {}]
           /\ invite' = [invite EXCEPT ![g] = None]
           /\ active' = [a \in Accounts |-> IF active[a] = g THEN None ELSE active[a]]
    /\ Goto(w, "publish")
    /\ UNCHANGED <<owner, redis>>

\* The foreign key of a member who joined after the cascade read the members.
DeleteRowsFails(w) ==
    /\ At(w, {"delete"}, "commit")
    /\ members[req[w].g] \ req[w].todo # {}
    /\ Finish(w)
    /\ UNCHANGED <<pg, redis>>

\* Deviation: revocations for the accounts active in the group only.
PublishDeleteActive(w, a) ==
    /\ At(w, {"delete"}, "publish")
    /\ a \in req[w].todo
    /\ IF active[a] = req[w].g THEN Publish(req[w].g, a) ELSE UNCHANGED channel
    /\ req' = [req EXCEPT ![w].todo = @ \ {a}]
    /\ UNCHANGED <<pg, mirror, mirrorActive, subscribed, served, ghosts>>

\* RedisGroupCache.delete_group: one PUBLISH for each member of the old list ...
PublishDelete(w, a) ==
    /\ At(w, {"delete"}, "publish")
    /\ a \in req[w].todo
    /\ Publish(req[w].g, a)
    /\ req' = [req EXCEPT ![w].todo = @ \ {a}]
    /\ UNCHANGED <<pg, mirror, mirrorActive, subscribed, served, ghosts>>

\* ... then the members key.
DeleteMembersKey(w) ==
    /\ At(w, {"delete"}, "publish")
    /\ req[w].todo = {}
    /\ mirror' = [mirror EXCEPT ![req[w].g] = {}]
    /\ Goto(w, "delKey")
    /\ UNCHANGED <<pg, mirrorActive, subscribed, channel>>

\* clear_active_group for the accounts of the old list, whatever the keys hold now.
ClearActiveKey(w, a) ==
    /\ At(w, {"delete"}, "delKey")
    /\ a \in req[w].clear
    /\ mirrorActive' = [mirrorActive EXCEPT ![a] = None]
    /\ req' = [req EXCEPT ![w].clear = @ \ {a}]
    /\ UNCHANGED <<pg, mirror, subscribed, channel, served, ghosts>>

DeleteDone(w) ==
    /\ At(w, {"delete"}, "delKey")
    /\ req[w].clear = {}
    /\ Finish(w)
    /\ UNCHANGED <<pg, redis>>

----------------------------------------------------------------------------

\* The next step of the request worker w is serving.
Step(w) ==
    \/ InsertGroup(w) \/ InsertOwner(w) \/ AddToMirror(w)
    \/ SetActive(w) \/ SetActiveKey(w)
    \/ ReadCount(w) \/ WriteCount(w) \/ ReloadInvite(w)
    \/ DeleteMember(w) \/ RemoveFromMirror(w) \/ PublishLeave(w)
    \/ ReadActive(w) \/ ClearActive(w) \/ DeleteActiveKey(w)
    \/ ListActive(w) \/ DeleteRows(w) \/ DeleteRowsFails(w)
    \/ \E a \in Accounts : PublishDelete(w, a) \/ ClearActiveKey(w, a)
    \/ DeleteMembersKey(w) \/ DeleteDone(w)

NewRequest(w) ==
    \E g \in Groups :
        \/ StartDelete(w, g)
        \/ \E a \in Accounts :
            \/ StartCreate(w, g, a)
            \/ Admit(w, g, a)
            \/ StartLeave(w, g, a)
            \/ StartSwitch(w, g, a)

Next ==
    \/ \E w \in Workers : NewRequest(w) \/ Step(w) \/ Abort(w)
    \/ \E g \in Groups : CreateInvite(g)

Spec == Init /\ [][Next]_sharingVars

----------------------------------------------------------------------------
(* Properties. *)

\* For an account no two requests dealt with at once and whose requests all ran
\* to the end, and that no request is dealing with now, the mirror the relay
\* reads says what Postgres says, and its active group is one it belongs to.
MirrorAgrees ==
    \A a \in Accounts \ (overlapped \cup abandoned \cup InFlight) :
        /\ mirrorActive[a] = active[a]
        /\ \A g \in Groups : a \in mirror[g] <=> a \in members[g]
        /\ active[a] # None => a \in members[active[a]]

\* The foreign keys and the cascade hold the tables together under any
\* interleaving: an unborn or deleted group has no members, no invite and is
\* nobody's active group; a live one has its owner among the members, unless the
\* request that creates it has not come that far or was cut short.
TablesConsistent ==
    \A g \in Groups :
        /\ group[g] # "live" =>
             members[g] = {} /\ invite[g] = None /\ \A a \in Accounts : active[a] # g
        /\ group[g] = "live" =>
             \/ owner[g] \in members[g]
             \/ owner[g] \in abandoned
             \/ \E w \in Workers : At(w, {"create"}, "addOwner") /\ req[w].g = g

\* models/sharing.py: max_uses "1 = одноразовый", and the module's docstring:
\* the limit is checked under FOR UPDATE. An invite lets in max_uses accounts.
InviteWithinLimit == \A g \in Groups : admitted[g] <= MaxUses

\* store/group.go says sharing_service keeps the set "in sync with Postgres
\* group_member on every join/leave/kick". With nothing in flight and nothing cut
\* short, the two agree for every group that exists.
MirrorKeepsUp ==
    InFlight = {} /\ abandoned = {} =>
        \A g \in Groups : group[g] = "live" => mirror[g] = members[g]
=============================================================================
