---------------------------- MODULE GroupAccess ----------------------------
(***************************************************************************)
(* Who may be connected: SharingService together with the relay, which     *)
(* learns of groups from the Redis mirror only.                            *)
(*                                                                         *)
(* A connection's handshake (quicserver.Server.handshake) reads the active *)
(* group, then the membership, and only afterwards is the client put in    *)
(* the hub; the Watch goroutine of internal/revocation closes connections  *)
(* that are in the hub when a revocation arrives.  Redis Pub/Sub forgets   *)
(* what nobody is subscribed to.                                           *)
(***************************************************************************)
EXTENDS SharingService

CONSTANTS
    Conns,        \* QUIC connections
    ConnAccount,  \* ConnAccount[c]: the account its token resolves to
    MaxDrops      \* bound on how often the subscription is lost

ASSUME AccessAssumption ==
    /\ ConnAccount \in [Conns -> Accounts]
    /\ MaxDrops \in Nat

VARIABLES
    phase,   \* "new", "resolved" (ActiveGroup), "checked" (IsMember), "open", "over"
    room,    \* the group the handshake found
    drops,   \* subscriptions lost so far
    slipped  \* connections a revocation could not reach (for RevokedIsOut)

accessVars == <<phase, room, drops, slipped>>
vars == <<sharingVars, accessVars>>

AccessTypeOK ==
    /\ TypeOK
    /\ phase \in [Conns -> {"new", "resolved", "checked", "open", "over"}]
    /\ room \in [Conns -> Groups \cup {None}]
    /\ drops \in 0..MaxDrops
    /\ slipped \subseteq Conns

AccessInit ==
    /\ Init
    /\ phase = [c \in Conns |-> "new"]
    /\ room = [c \in Conns |-> None]
    /\ drops = 0
    /\ slipped = {}

----------------------------------------------------------------------------
(* The handshake. A refused connection is over. *)

\* GroupMembership.ActiveGroup.
ResolveGroup(c) ==
    /\ phase[c] = "new"
    /\ LET g == mirrorActive[ConnAccount[c]]
       IN  /\ room' = [room EXCEPT ![c] = g]
           /\ phase' = [phase EXCEPT ![c] = IF g = None THEN "over" ELSE "resolved"]
    /\ UNCHANGED <<sharingVars, drops, slipped>>

\* A revocation of a in g waits to be read.
Announced(g, a) == \E i \in DOMAIN channel : channel[i] = <<g, a>>

\* delete_group has announced a's revocation and not yet deleted the members key.
KeyOutlives(g, a) == \E w \in Workers : At(w, {"delete"}, "publish") /\ req[w].g = g /\ a \notin req[w].todo

\* GroupMembership.IsMember. A key that outlives the revocation admits once more.
CheckMember(c) ==
    LET g == room[c]
        a == ConnAccount[c]
    IN  /\ phase[c] = "resolved"
        /\ phase' = [phase EXCEPT ![c] = IF a \in mirror[g] THEN "checked" ELSE "over"]
        /\ slipped' = IF KeyOutlives(g, a) /\ ~Announced(g, a) THEN slipped \cup {c} ELSE slipped
        /\ UNCHANGED <<sharingVars, room, drops>>

\* The ack is written and Client.Run registers with the hub.
Admitted(c) ==
    /\ phase[c] = "checked"
    /\ phase' = [phase EXCEPT ![c] = "open"]
    /\ UNCHANGED <<sharingVars, room, drops, slipped>>

\* The ack fails, the peer leaves, or the hub closes a slow client.
Disconnect(c) ==
    /\ phase[c] \in {"checked", "open"}
    /\ phase' = [phase EXCEPT ![c] = "over"]
    /\ UNCHANGED <<sharingVars, room, drops, slipped>>

----------------------------------------------------------------------------
(* The subscription. *)

Of(g, a) == {c \in Conns : room[c] = g /\ ConnAccount[c] = a}

\* PSubscribe is confirmed, at start or by go-redis reconnecting.
Subscribe ==
    /\ ~subscribed
    /\ subscribed' = TRUE
    /\ UNCHANGED <<pg, mirror, mirrorActive, channel, req, served, ghosts, accessVars>>

\* The Redis connection breaks: what was published and not read is lost.
LoseSubscription ==
    /\ subscribed
    /\ drops < MaxDrops
    /\ drops' = drops + 1
    /\ subscribed' = FALSE
    /\ channel' = <<>>
    /\ slipped' = slipped \cup UNION {Of(channel[i][1], channel[i][2]) : i \in DOMAIN channel}
    /\ UNCHANGED <<pg, mirror, mirrorActive, req, served, ghosts, phase, room>>

\* Watch: RevokeAccount closes every connection the hub has for the account in
\* the group. One still between IsMember and Register is not in the hub.
Revoke ==
    /\ channel # <<>>
    /\ channel' = Tail(channel)
    /\ LET hit == Of(Head(channel)[1], Head(channel)[2])
       IN  /\ phase' = [c \in Conns |->
                 IF c \in hit /\ phase[c] = "open" THEN "over" ELSE phase[c]]
           /\ slipped' = slipped \cup {c \in hit : phase[c] = "checked"}
    /\ UNCHANGED <<pg, mirror, mirrorActive, subscribed, req, served, ghosts, room, drops>>

\* The revocation of a in g is published in this step.
Publishes(g, a) ==
    \E w \in Workers : req[w].g = g /\
        \/ At(w, {"leave"}, "publish") /\ req'[w].at = "clear" /\ req[w].a = a
        \/ At(w, {"delete"}, "publish") /\ req'[w].at = "publish" /\ a \in req[w].todo \ req'[w].todo

\* A step of the backend. A revocation announced to nobody is missed by the
\* connections it was meant for.
Track ==
    /\ slipped' = slipped \cup
         {c \in Conns : ~subscribed /\ room[c] # None /\ Publishes(room[c], ConnAccount[c])}
    /\ UNCHANGED <<phase, room, drops>>

Backend == Next /\ Track

AccessNext ==
    \/ Backend
    \/ \E c \in Conns : ResolveGroup(c) \/ CheckMember(c) \/ Admitted(c) \/ Disconnect(c)
    \/ Subscribe
    \/ LoseSubscription
    \/ Revoke

AccessSpec == AccessInit /\ [][AccessNext]_vars

----------------------------------------------------------------------------
(* Properties. *)

\* c is in the hub although its account is no longer in the mirror's set of the
\* group, and nothing excuses it: the revocation did not slip past it and the
\* request that removed the account was not cut short.
Stray(c) ==
    /\ phase[c] = "open"
    /\ group[room[c]] = "live"
    /\ ConnAccount[c] \notin mirror[room[c]]
    /\ c \notin slipped
    /\ ConnAccount[c] \notin abandoned

\* A revocation of a in g is on its way: published, or about to be.
Pending(g, a) ==
    \/ Announced(g, a)
    \/ \E w \in Workers : req[w].g = g /\
         \/ At(w, {"leave"}, "publish") /\ req[w].a = a
         \/ At(w, {"delete"}, "publish") /\ a \in req[w].todo

\* The order of the two halves: SREM before PUBLISH, ActiveGroup before IsMember
\* before Register. Whoever stays connected without being a member has a
\* revocation coming, except through the two gaps the code leaves: a handshake
\* between IsMember and Register, and a subscription that is down.
RevokedIsOut == \A c \in Conns : Stray(c) => Pending(room[c], ConnAccount[c])

\* Nobody stays connected in a group that was deleted: each member listed before
\* the deletion has a revocation coming. delete_group announces it before it
\* deletes the members key, which its comment calls the safer order
\* (group_cache.py:71-76); the handshakes this key lets in after their account's
\* revocation are in slipped with the others, and nothing closes them. Members
\* who joined while the group was deleted are on no list.
DeletedIsOut ==
    \A c \in Conns :
        LET a == ConnAccount[c] IN
        phase[c] = "open" /\ group[room[c]] = "deleted"
            /\ c \notin slipped /\ a \notin abandoned \cup overlapped
          => Pending(room[c], a)
=============================================================================
