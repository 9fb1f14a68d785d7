------------------------- MODULE GroupAccess_proofs -------------------------
(***************************************************************************)
(* Revocation for any accounts, groups, threads and connections: whoever   *)
(* stays connected without being a member has a revocation coming, unless  *)
(* it slipped through a gap that RevokedIsOut or DeletedIsOut names.       *)
(*                                                                         *)
(* Both speak of open connections.  The inductive form (WaitInv) starts at *)
(* the membership check, which a connection passes before it registers.    *)
(* Of a live group it goes by the set the check reads; of a deleted one by *)
(* the row that is gone, so that AccountInv (SharingService_proofs) has to *)
(* say that whoever is in the set is on the list delete_group revokes.     *)
(***************************************************************************)
EXTENDS GroupAccess, SharingService_proofs

RoomInv == \A c \in Conns : phase[c] \in {"resolved", "checked", "open"} => room[c] \in Groups

\* Worker w is about to announce that a is out of g.
Due(w, g, a) ==
    /\ req[w].g = g
    /\ \/ At(w, {"leave"}, "publish") /\ req[w].a = a
       \/ At(w, {"delete"}, "publish") /\ a \in req[w].todo

\* c went through the membership check, and its account is no longer a member.
Outsider(c) ==
    /\ phase[c] \in {"checked", "open"}
    /\ c \notin slipped
    /\ ConnAccount[c] \notin abandoned
    /\ IF group[room[c]] = "deleted"
       THEN ConnAccount[c] \notin overlapped
       ELSE ConnAccount[c] \notin mirror[room[c]]

WaitInv == \A c \in Conns : Outsider(c) => Pending(room[c], ConnAccount[c])

AccessInv == MirrorInv /\ AccessTypeOK /\ RoomInv /\ WaitInv

LEMMA PendingMeans ==
  ASSUME NEW g, NEW a
  PROVE  Pending(g, a) <=> Announced(g, a) \/ \E w \in Workers : Due(w, g, a)
BY DEF Pending, Due

----------------------------------------------------------------------------
(* What the relay sees of a step of the backend. *)

Seen(w) ==
    /\ abandoned \subseteq abandoned' /\ overlapped \subseteq overlapped'
    /\ \A v \in Workers \ {w} : req'[v] = req[v]
    /\ \A g \in Groups : group[g] = "deleted" => group'[g] = "deleted"
    /\ \A g \in Groups, a \in Accounts :
         /\ group[g] # "deleted" /\ group'[g] = "deleted" /\ a \in mirror[g]
              => Due(w, g, a)' \/ a \in overlapped \cup abandoned
         /\ Announced(g, a) => Announced(g, a)'
         /\ group[g] # "deleted" /\ a \in mirror[g] => a \in mirror'[g] \/ Due(w, g, a)'
         /\ Due(w, g, a) =>
              \/ Due(w, g, a)'
              \/ Announced(g, a)'
              \/ Publishes(g, a) /\ ~subscribed
              \/ a \in abandoned'

\* A step that announces nothing, and that nothing waits for to announce.
Calm(w) ==
    /\ abandoned \subseteq abandoned' /\ overlapped \subseteq overlapped'
    /\ \A v \in Workers \ {w} : req'[v] = req[v]
    /\ \A g \in Groups : group[g] = "deleted" <=> group'[g] = "deleted"
    /\ \A g \in Groups : group[g] # "deleted" => mirror[g] \subseteq mirror'[g]
    /\ UNCHANGED channel
    /\ ~At(w, {"leave", "delete"}, "publish")

LEMMA CalmSeen == ASSUME NEW w \in Workers, Calm(w) PROVE Seen(w)
BY DEF Calm, Seen, Announced, Due, At

\* The group of a running request moves on by one place.
LEMMA GotoCalm ==
  ASSUME TablesInv, NEW w \in Workers, req[w].at # "publish",
         Finish(w) \/ \E at \in Places : Goto(w, at),
         \A g \in Groups : group[g] = "deleted" <=> group'[g] = "deleted",
         \A g \in Groups : group[g] # "deleted" => mirror[g] \subseteq mirror'[g],
         UNCHANGED channel
  PROVE  Seen(w)
<1>1. /\ \A v \in Workers \ {w} : req'[v] = req[v]
      /\ UNCHANGED <<abandoned, overlapped>>
  BY GotoFacts, FinishFacts DEF TablesInv
<1>2. ~At(w, {"leave", "delete"}, "publish")
  BY DEF At
<1> QED
  BY <1>1, <1>2, CalmSeen DEF Calm

\* Steps that leave the groups and their sets in Redis alone.
LEMMA PlainCalm ==
  ASSUME TablesInv, NEW w \in Workers, req[w].at # "publish",
         Finish(w) \/ \E at \in Places : Goto(w, at),
         UNCHANGED <<group, mirror, channel>>
  PROVE  Seen(w)
BY GotoCalm

LEMMA InsertGroupSeen == ASSUME TablesInv, NEW w \in Workers, InsertGroup(w) PROVE Seen(w)
<1>1. req[w].op = "create" /\ req[w].at = "insert" /\ req[w].g \in Groups
  BY OpFacts DEF TablesInv, InsertGroup
<1>2. group[req[w].g] = "unborn"
  BY <1>1 DEF TablesInv, CreateInv, Creating
<1>3. group' = [group EXCEPT ![req[w].g] = "live"] /\ UNCHANGED <<mirror, channel>>
  BY DEF InsertGroup, redis
<1>4. \A g \in Groups : group[g] = "deleted" <=> group'[g] = "deleted"
  BY <1>1, <1>2, <1>3 DEF TablesInv, TypeOK
<1>5. Goto(w, "addOwner") /\ "addOwner" \in Places
  BY DEF InsertGroup, Places
<1> QED
  BY <1>1, <1>3, <1>4, <1>5, GotoCalm

LEMMA InsertOwnerSeen == ASSUME TablesInv, NEW w \in Workers, InsertOwner(w) PROVE Seen(w)
<1>1. req[w].at = "addOwner" /\ Goto(w, "sadd") /\ "sadd" \in Places
  BY DEF InsertOwner, At, Places
<1> QED
  BY <1>1, PlainCalm DEF InsertOwner, redis

LEMMA AddToMirrorSeen == ASSUME TablesInv, NEW w \in Workers, AddToMirror(w) PROVE Seen(w)
<1>1. req[w].at = "sadd" /\ Goto(w, "activate") /\ "activate" \in Places
  BY DEF AddToMirror, At, Places
<1>2. \A g \in Groups : mirror[g] \subseteq mirror'[g]
  BY DEF AddToMirror, TablesInv, TypeOK
<1> QED
  BY <1>1, <1>2, GotoCalm DEF AddToMirror, pg

LEMMA SetActiveSeen == ASSUME TablesInv, NEW w \in Workers, SetActive(w) PROVE Seen(w)
<1>1. /\ req[w].at = "activate" /\ "setKey" \in Places
      /\ Finish(w) \/ Goto(w, "setKey")
  BY DEF SetActive, At, Places
<1> QED
  BY <1>1, PlainCalm DEF SetActive, redis

LEMMA SetActiveKeySeen == ASSUME TablesInv, NEW w \in Workers, SetActiveKey(w) PROVE Seen(w)
<1>1. req[w].at = "setKey" /\ Finish(w)
  BY DEF SetActiveKey, At
<1> QED
  BY <1>1, PlainCalm DEF SetActiveKey, pg

LEMMA ReadCountSeen == ASSUME TablesInv, NEW w \in Workers, ReadCount(w) PROVE Seen(w)
<1>1. req[w].at = "countRead" /\ UNCHANGED <<group, mirror, channel>>
  BY DEF ReadCount, At, pg, redis
<1>2. CASE Finish(w)
  BY <1>1, <1>2, PlainCalm
<1>3. CASE invite[req[w].g] # None
  <2>1. UNCHANGED <<abandoned, overlapped>>
    BY <1>3 DEF ReadCount, ghosts
  <2>2. \A v \in Workers \ {w} : req'[v] = req[v]
    BY <1>3, ReqTyped DEF ReadCount, TablesInv
  <2>3. ~At(w, {"leave", "delete"}, "publish")
    BY <1>1 DEF At
  <2> QED
    BY <1>1, <2>1, <2>2, <2>3, CalmSeen DEF Calm
<1> QED
  BY <1>2, <1>3 DEF ReadCount

LEMMA WriteCountSeen == ASSUME TablesInv, NEW w \in Workers, WriteCount(w) PROVE Seen(w)
<1>1. /\ req[w].at = "countWrite" /\ "reload" \in Places
      /\ Finish(w) \/ Goto(w, "reload")
  BY DEF WriteCount, At, Places
<1> QED
  BY <1>1, PlainCalm DEF WriteCount, redis

LEMMA ReloadInviteSeen == ASSUME TablesInv, NEW w \in Workers, ReloadInvite(w) PROVE Seen(w)
<1>1. /\ req[w].at = "reload" /\ "sadd" \in Places
      /\ Finish(w) \/ Goto(w, "sadd")
  BY DEF ReloadInvite, At, Places
<1> QED
  BY <1>1, PlainCalm DEF ReloadInvite, pg, redis

LEMMA DeleteMemberSeen == ASSUME TablesInv, NEW w \in Workers, DeleteMember(w) PROVE Seen(w)
<1>1. req[w].at = "delete" /\ Goto(w, "srem") /\ "srem" \in Places
  BY DEF DeleteMember, At, Places
<1> QED
  BY <1>1, PlainCalm DEF DeleteMember, redis

\* SREM: the revocation of whoever is taken out of the set comes next.
LEMMA RemoveFromMirrorSeen == ASSUME TablesInv, NEW w \in Workers, RemoveFromMirror(w) PROVE Seen(w)
<1> DEFINE h == req[w].g
           b == req[w].a
<1>1. req[w].op = "leave" /\ req[w].at = "srem" /\ h \in Groups /\ b \in Accounts
  BY OpFacts DEF TablesInv, RemoveFromMirror
<1>2. Goto(w, "publish") /\ "publish" \in Places
  BY DEF RemoveFromMirror, Places
<1>3. /\ \A v \in Workers \ {w} : req'[v] = req[v]
      /\ req'[w].op = "leave" /\ req'[w].g = h /\ req'[w].a = b /\ req'[w].at = "publish"
      /\ UNCHANGED <<abandoned, overlapped>>
  BY <1>1, <1>2, GotoFacts DEF TablesInv
<1>4. mirror' = [mirror EXCEPT ![h] = @ \ {b}] /\ UNCHANGED <<group, channel>>
  BY DEF RemoveFromMirror, pg
<1> HIDE DEF h, b
<1>5. \A g \in Groups, a \in Accounts : g = h /\ a = b => Due(w, g, a)'
  BY <1>3 DEF Due, At
<1>6. \A g \in Groups, a \in Accounts : a \in mirror[g] => a \in mirror'[g] \/ (g = h /\ a = b)
  BY <1>1, <1>4 DEF TablesInv, TypeOK
<1>7. \A g \in Groups, a \in Accounts : ~Due(w, g, a)
  BY <1>1 DEF Due, At
<1>8. \A g \in Groups, a \in Accounts : Announced(g, a) => Announced(g, a)'
  BY <1>4 DEF Announced
<1> QED
  BY <1>3, <1>4, <1>5, <1>6, <1>7, <1>8 DEF Seen

\* PUBLISH: the revocation is in the channel, unless nobody is subscribed.
LEMMA PublishFacts ==
  ASSUME TypeOK, NEW h \in Groups, NEW b \in Accounts, Publish(h, b)
  PROVE  /\ \A g \in Groups, a \in Accounts : Announced(g, a) => Announced(g, a)'
         /\ \A g \in Groups, a \in Accounts : subscribed /\ g = h /\ a = b => Announced(g, a)'
<1>1. channel \in Seq(Groups \X Accounts) /\ <<h, b>> \in Groups \X Accounts
  BY DEF TypeOK
<1>2. CASE subscribed
  <2>1. channel' = Append(channel, <<h, b>>)
    BY <1>2 DEF Publish
  <2>2. /\ Len(channel') = Len(channel) + 1 /\ Len(channel) \in Nat
        /\ DOMAIN channel = 1..Len(channel) /\ DOMAIN channel' = 1..(Len(channel) + 1)
        /\ channel'[Len(channel) + 1] = <<h, b>>
        /\ \A i \in 1..Len(channel) : channel'[i] = channel[i]
    BY <1>1, <2>1
  <2>3. \A i \in DOMAIN channel : i \in DOMAIN channel' /\ channel'[i] = channel[i]
    BY <2>2
  <2>4. Len(channel) + 1 \in DOMAIN channel'
    BY <2>2
  <2>5. \A g \in Groups, a \in Accounts : Announced(g, a) => Announced(g, a)'
    BY <2>3 DEF Announced
  <2>6. \A g \in Groups, a \in Accounts : g = h /\ a = b => Announced(g, a)'
    BY <2>2, <2>4 DEF Announced
  <2> QED
    BY <2>5, <2>6
<1>3. CASE ~subscribed
  <2>1. UNCHANGED channel
    BY <1>3 DEF Publish
  <2> QED
    BY <2>1, <1>3 DEF Announced
<1> QED
  BY <1>2, <1>3

LEMMA PublishLeaveSeen == ASSUME TablesInv, NEW w \in Workers, PublishLeave(w) PROVE Seen(w)
<1> DEFINE h == req[w].g
           b == req[w].a
<1>1. req[w].op = "leave" /\ req[w].at = "publish" /\ h \in Groups /\ b \in Accounts
  BY OpFacts DEF TablesInv, PublishLeave
<1>2. Goto(w, "clear") /\ "clear" \in Places
  BY DEF PublishLeave, Places
<1>3. /\ \A v \in Workers \ {w} : req'[v] = req[v]
      /\ req'[w].at = "clear" /\ UNCHANGED <<abandoned, overlapped>>
  BY <1>2, GotoFacts DEF TablesInv
<1>4. Publish(h, b) /\ UNCHANGED <<group, mirror>>
  BY DEF PublishLeave, pg
<1>5. /\ \A g \in Groups, a \in Accounts : Announced(g, a) => Announced(g, a)'
      /\ \A g \in Groups, a \in Accounts : subscribed /\ g = h /\ a = b => Announced(g, a)'
  <2> HIDE DEF h, b
  <2> QED
    BY <1>1, <1>4, PublishFacts DEF TablesInv
<1>6. \A g \in Groups, a \in Accounts : Due(w, g, a) => g = h /\ a = b
  BY <1>1 DEF Due, At
<1>7. \A g \in Groups, a \in Accounts : g = h /\ a = b => Publishes(g, a)
  BY <1>1, <1>3 DEF Publishes, At
<1> HIDE DEF h, b
<1> QED
  BY <1>3, <1>4, <1>5, <1>6, <1>7 DEF Seen

LEMMA PublishDeleteSeen ==
  ASSUME TablesInv, NEW w \in Workers, NEW b \in Accounts, PublishDelete(w, b)
  PROVE  Seen(w)
<1> DEFINE h == req[w].g
           r == [req[w] EXCEPT !.todo = req[w].todo \ {b}]
<1>1. req[w].op = "delete" /\ req[w].at = "publish" /\ h \in Groups /\ req[w] \in ReqType
  BY OpFacts DEF TablesInv, PublishDelete
<1>2. /\ r \in ReqType /\ r.op = "delete" /\ r.at = "publish" /\ r.g = h
      /\ r.todo = req[w].todo \ {b}
  BY <1>1 DEF ReqType
<1>3. req' = [req EXCEPT ![w] = r] /\ b \in req[w].todo
  BY ReqTyped DEF PublishDelete, TablesInv
<1>4. Publish(h, b) /\ UNCHANGED <<group, mirror>> /\ UNCHANGED <<abandoned, overlapped>>
  BY DEF PublishDelete, pg, ghosts
<1> HIDE DEF r
<1>5. req'[w] = r /\ \A v \in Workers \ {w} : req'[v] = req[v]
  BY <1>2, <1>3, ReplaceFacts DEF TablesInv
<1>6. /\ \A g \in Groups, a \in Accounts : Announced(g, a) => Announced(g, a)'
      /\ \A g \in Groups, a \in Accounts : subscribed /\ g = h /\ a = b => Announced(g, a)'
  <2> HIDE DEF h
  <2> QED
    BY <1>1, <1>4, PublishFacts DEF TablesInv
<1>7. \A g \in Groups, a \in Accounts : Due(w, g, a) => g = h /\ (a = b \/ Due(w, g, a)')
  BY <1>1, <1>2, <1>5 DEF Due, At
<1>8. \A g \in Groups, a \in Accounts : g = h /\ a = b => Publishes(g, a)
  BY <1>1, <1>2, <1>3, <1>5 DEF Publishes, At
<1> HIDE DEF h
<1> QED
  BY <1>4, <1>5, <1>6, <1>7, <1>8 DEF Seen

LEMMA ReadActiveSeen == ASSUME TablesInv, NEW w \in Workers, ReadActive(w) PROVE Seen(w)
<1>1. /\ req[w].at = "clear" /\ "clearWrite" \in Places
      /\ Finish(w) \/ Goto(w, "clearWrite")
  BY DEF ReadActive, At, Places
<1> QED
  BY <1>1, PlainCalm DEF ReadActive, pg, redis

LEMMA ClearActiveSeen == ASSUME TablesInv, NEW w \in Workers, ClearActive(w) PROVE Seen(w)
<1>1. req[w].at = "clearWrite" /\ Goto(w, "delKey") /\ "delKey" \in Places
  BY DEF ClearActive, At, Places
<1> QED
  BY <1>1, PlainCalm DEF ClearActive, redis

LEMMA DeleteActiveKeySeen == ASSUME TablesInv, NEW w \in Workers, DeleteActiveKey(w) PROVE Seen(w)
<1>1. req[w].at = "delKey" /\ Finish(w)
  BY DEF DeleteActiveKey, At
<1> QED
  BY <1>1, PlainCalm DEF DeleteActiveKey, pg

LEMMA ListActiveSeen == ASSUME TablesInv, NEW w \in Workers, ListActive(w) PROVE Seen(w)
<1>1. req[w].at = "listActive" /\ UNCHANGED <<group, mirror, channel, abandoned, overlapped>>
  BY DEF ListActive, At, pg, redis, ghosts
<1>2. \A v \in Workers \ {w} : req'[v] = req[v]
  BY ReqTyped DEF ListActive, TablesInv
<1>3. ~At(w, {"leave", "delete"}, "publish")
  BY <1>1 DEF At
<1> QED
  BY <1>1, <1>2, <1>3, CalmSeen DEF Calm

\* The commit of delete_group: whoever the set still holds is on its list.
LEMMA DeleteRowsSeen == ASSUME MirrorInv, NEW w \in Workers, DeleteRows(w) PROVE Seen(w)
<1>1. PICK h \in Groups : h = req[w].g
  BY OpFacts DEF MirrorInv, TablesInv, DeleteRows
<1>2. /\ req[w].op = "delete" /\ req[w].at = "commit"
      /\ Goto(w, "publish") /\ "publish" \in Places
      /\ group' = [group EXCEPT ![h] = "deleted"]
      /\ UNCHANGED <<mirror, channel>>
  BY <1>1 DEF DeleteRows, At, Places, redis
<1>3. /\ \A v \in Workers \ {w} : req'[v] = req[v]
      /\ req'[w].op = "delete" /\ req'[w].g = h /\ req'[w].at = "publish"
      /\ req'[w].todo = req[w].todo
      /\ UNCHANGED <<abandoned, overlapped>>
  BY <1>1, <1>2, GotoFacts DEF MirrorInv, TablesInv
<1>4. group'[h] = "deleted" /\ \A g \in Groups \ {h} : group'[g] = group[g]
  BY <1>2 DEF MirrorInv, TablesInv, TypeOK
<1>5. ASSUME NEW a \in Accounts, a \in mirror[h], a \notin overlapped \cup abandoned
      PROVE  a \in req[w].todo
  <2>1. a \in Touches(req[w])
    BY <1>2, TouchesWhat
  <2>2. Under(w, a)
    BY <2>1, <1>5 DEF MirrorInv, AccountInv
  <2>3. Agrees(a) /\ (a \in members[h] <=> a \in req[w].todo)
    BY <1>1, <1>2, <2>2 DEF Under, Deletes, At
  <2> QED
    BY <1>5, <2>3 DEF Agrees, SetsAgree
<1>6. \A g \in Groups, a \in Accounts :
         group[g] # "deleted" /\ group'[g] = "deleted" /\ a \in mirror[g]
           => Due(w, g, a)' \/ a \in overlapped \cup abandoned
  BY <1>3, <1>4, <1>5 DEF Due, At
<1>7. \A g \in Groups, a \in Accounts : ~Due(w, g, a)
  BY <1>2 DEF Due, At
<1>8. \A g \in Groups, a \in Accounts : Announced(g, a) => Announced(g, a)'
  BY <1>2 DEF Announced
<1> QED
  BY <1>2, <1>3, <1>4, <1>6, <1>7, <1>8 DEF Seen

\* delete_group drops the members key of a group that is deleted already, and
\* when no revocation waits to be announced.
LEMMA DeleteMembersKeySeen == ASSUME TablesInv, NEW w \in Workers, DeleteMembersKey(w) PROVE Seen(w)
<1>1. /\ req[w].op = "delete" /\ req[w].at = "publish" /\ req[w].g \in Groups
      /\ req[w].todo = {}
  BY OpFacts DEF TablesInv, DeleteMembersKey
<1>2. group[req[w].g] = "deleted"
  BY <1>1 DEF TablesInv, DeleteInv, Dissolving
<1>3. mirror' = [mirror EXCEPT ![req[w].g] = {}] /\ UNCHANGED <<group, channel>>
  BY DEF DeleteMembersKey, pg
<1>4. \A g \in Groups : group[g] # "deleted" => mirror'[g] = mirror[g]
  BY <1>1, <1>2, <1>3 DEF TablesInv, TypeOK
<1>5. Goto(w, "delKey") /\ "delKey" \in Places
  BY DEF DeleteMembersKey, Places
<1>6. UNCHANGED <<abandoned, overlapped>> /\ \A v \in Workers \ {w} : req'[v] = req[v]
  BY <1>5, GotoFacts DEF TablesInv
<1>7. \A g \in Groups, a \in Accounts : ~Due(w, g, a)
  BY <1>1 DEF Due, At
<1>8. \A g \in Groups, a \in Accounts : Announced(g, a) => Announced(g, a)'
  BY <1>3 DEF Announced
<1> QED
  BY <1>3, <1>4, <1>6, <1>7, <1>8 DEF Seen

LEMMA ClearActiveKeySeen ==
  ASSUME TablesInv, NEW w \in Workers, NEW b \in Accounts, ClearActiveKey(w, b)
  PROVE  Seen(w)
<1>1. req[w].at = "delKey" /\ UNCHANGED <<group, mirror, channel, abandoned, overlapped>>
  BY DEF ClearActiveKey, At, pg, ghosts
<1>2. \A v \in Workers \ {w} : req'[v] = req[v]
  BY ReqTyped DEF ClearActiveKey, TablesInv
<1>3. ~At(w, {"leave", "delete"}, "publish")
  BY <1>1 DEF At
<1> QED
  BY <1>1, <1>2, <1>3, CalmSeen DEF Calm

LEMMA DeleteEndsSeen ==
  ASSUME TablesInv, NEW w \in Workers, DeleteRowsFails(w) \/ DeleteDone(w)
  PROVE  Seen(w)
<1>1. /\ req[w].at # "publish" /\ Finish(w)
      /\ UNCHANGED <<group, mirror, channel>>
  BY DEF DeleteRowsFails, DeleteDone, At, pg, redis
<1> QED
  BY <1>1, PlainCalm

\* A request that starts: it was idle.
LEMMA StartSeen ==
  ASSUME TablesInv, NEW w \in Workers, NEW r, Start(w, r),
         UNCHANGED <<group, mirror, channel, abandoned>>
  PROVE  Seen(w)
<1>1. req[w] = Idle /\ req' = [req EXCEPT ![w] = r] /\ overlapped \subseteq overlapped'
  BY DEF Start
<1>2. \A v \in Workers \ {w} : req'[v] = req[v]
  BY <1>1, ReqTyped DEF TablesInv
<1>3. ~At(w, {"leave", "delete"}, "publish")
  BY <1>1, IdleTyped DEF At
<1> QED
  BY <1>1, <1>2, <1>3, CalmSeen DEF Calm

LEMMA NewRequestSeen == ASSUME TablesInv, NEW w \in Workers, NewRequest(w) PROVE Seen(w)
<1>1. PICK g \in Groups :
        \/ StartDelete(w, g)
        \/ \E a \in Accounts :
             StartCreate(w, g, a) \/ Admit(w, g, a) \/ StartLeave(w, g, a) \/ StartSwitch(w, g, a)
  BY DEF NewRequest
<1>2. CASE StartDelete(w, g)
  BY <1>2, StartSeen DEF StartDelete, pg, redis
<1>3. ASSUME NEW a \in Accounts, StartCreate(w, g, a) PROVE Seen(w)
  BY <1>3, StartSeen DEF StartCreate, pg, redis
<1>4. ASSUME NEW a \in Accounts, Admit(w, g, a) PROVE Seen(w)
  BY <1>4, StartSeen DEF Admit, redis
<1>5. ASSUME NEW a \in Accounts, StartLeave(w, g, a) PROVE Seen(w)
  BY <1>5, StartSeen DEF StartLeave, pg, redis
<1>6. ASSUME NEW a \in Accounts, StartSwitch(w, g, a) PROVE Seen(w)
  BY <1>6, StartSeen DEF StartSwitch, pg, redis
<1> QED
  BY <1>1, <1>2, <1>3, <1>4, <1>5, <1>6

\* A request cut short before it announced a revocation: its accounts are abandoned.
LEMMA AbortSeen == ASSUME TablesInv, NEW w \in Workers, Abort(w) PROVE Seen(w)
<1>1. /\ abandoned = {} /\ abandoned' = Touches(req[w])
      /\ req' = [req EXCEPT ![w] = Idle]
      /\ UNCHANGED <<group, mirror, channel, overlapped>>
  BY DEF Abort, pg, redis
<1>2. \A v \in Workers \ {w} : req'[v] = req[v]
  BY <1>1, ReqTyped DEF TablesInv
<1>3. \A g \in Groups, a \in Accounts : Due(w, g, a) => a \in Touches(req[w])
  BY DEF Due, At, Touches
<1>4. \A g \in Groups, a \in Accounts : Announced(g, a) => Announced(g, a)'
  BY <1>1 DEF Announced
<1> QED
  BY <1>1, <1>2, <1>3, <1>4 DEF Seen

LEMMA StepSeen == ASSUME MirrorInv, NEW w \in Workers, Step(w) PROVE Seen(w)
BY InsertGroupSeen, InsertOwnerSeen, AddToMirrorSeen, SetActiveSeen, SetActiveKeySeen,
   ReadCountSeen, WriteCountSeen, ReloadInviteSeen, DeleteMemberSeen, RemoveFromMirrorSeen,
   PublishLeaveSeen, PublishDeleteSeen, ReadActiveSeen, ClearActiveSeen, DeleteActiveKeySeen,
   ListActiveSeen, DeleteRowsSeen, DeleteMembersKeySeen, ClearActiveKeySeen, DeleteEndsSeen
   DEF Step, MirrorInv

----------------------------------------------------------------------------
(* The invariant. *)

LEMMA OutsiderTyped ==
  ASSUME AccessInv, NEW c \in Conns, phase[c] \in {"resolved", "checked", "open"}
  PROVE  room[c] \in Groups /\ ConnAccount[c] \in Accounts /\ room[c] # None
BY AccessAssumption, SharingAssumption DEF AccessInv, RoomInv

\* A step of the backend that a worker takes leaves no outsider unannounced.
LEMMA WorkerStep ==
  ASSUME AccessInv, NEW w \in Workers, Seen(w), Track
  PROVE  WaitInv'
<1> SUFFICES ASSUME NEW c \in Conns, NEW g, NEW a, g = room[c], a = ConnAccount[c], Outsider(c)'
             PROVE  Pending(g, a)'
  <2>1. UNCHANGED room
    BY DEF Track
  <2> QED
    BY <2>1 DEF WaitInv
<1>1. /\ phase[c] \in {"checked", "open"} /\ c \notin slipped' /\ a \notin abandoned'
      /\ IF group'[g] = "deleted" THEN a \notin overlapped' ELSE a \notin mirror'[g]
  BY DEF Outsider, Track
<1>2. g \in Groups /\ a \in Accounts /\ g # None
  BY <1>1, OutsiderTyped
<1>3. c \notin slipped /\ ~(~subscribed /\ Publishes(g, a))
  BY <1>1, <1>2 DEF Track
<1>4. a \notin abandoned /\ (group'[g] = "deleted" => a \notin overlapped)
  BY <1>1 DEF Seen
<1>5. CASE group[g] # "deleted" /\ a \in mirror[g]
  <2>1. Due(w, g, a)'
    BY <1>1, <1>2, <1>4, <1>5 DEF Seen
  <2> QED
    BY <2>1 DEF Pending, Due
<1>6. CASE group[g] = "deleted" \/ a \notin mirror[g]
  <2>1. Pending(g, a)
    <3>1. group[g] = "deleted" => group'[g] = "deleted"
      BY <1>2 DEF Seen
    <3> QED
      BY <3>1, <1>1, <1>3, <1>4, <1>6 DEF AccessInv, WaitInv, Outsider
  <2>2. CASE Announced(g, a)
    <3>1. Announced(g, a)'
      BY <2>2, <1>2 DEF Seen
    <3> QED
      BY <3>1 DEF Pending
  <2>3. ASSUME NEW v \in Workers, v # w, Due(v, g, a) PROVE Pending(g, a)'
    <3>1. Due(v, g, a)'
      BY <2>3 DEF Seen, Due, At
    <3> QED
      BY <3>1 DEF Pending, Due
  <2>4. CASE Due(w, g, a)
    <3>1. Due(w, g, a)' \/ Announced(g, a)'
      BY <2>4, <1>1, <1>2, <1>3 DEF Seen
    <3> QED
      BY <3>1 DEF Pending, Due
  <2> QED
    BY <2>1, <2>2, <2>3, <2>4, PendingMeans
<1> QED
  BY <1>5, <1>6

LEMMA BackendStep == ASSUME AccessInv, Backend PROVE AccessInv'
<1>1. Next /\ Track
  BY DEF Backend
<1>2. MirrorInv'
  BY <1>1, NextMirror DEF AccessInv
<1>3. UNCHANGED <<phase, room, drops>>
  BY <1>1 DEF Track
<1>4. slipped' \subseteq Conns
  BY <1>1 DEF Track, AccessInv, AccessTypeOK
<1>5. AccessTypeOK'
  BY <1>2, <1>3, <1>4 DEF AccessInv, AccessTypeOK, MirrorInv, TablesInv
<1>6. RoomInv'
  BY <1>3 DEF AccessInv, RoomInv
<1>7. WaitInv'
  <2>1. ASSUME NEW w \in Workers, NewRequest(w) \/ Step(w) \/ Abort(w) PROVE WaitInv'
    BY <2>1, <1>1, NewRequestSeen, StepSeen, AbortSeen, WorkerStep DEF AccessInv, MirrorInv
  <2>2. ASSUME NEW g \in Groups, CreateInvite(g) PROVE WaitInv'
    <3>1. UNCHANGED <<group, mirror, channel, req, abandoned, overlapped>> /\ slipped \subseteq slipped'
      BY <2>2, <1>1 DEF CreateInvite, redis, ghosts, Track
    <3> QED
      BY <3>1, <1>3 DEF AccessInv, WaitInv, Outsider, Pending, Announced, At
  <2> QED
    BY <1>1, <2>1, <2>2 DEF Next
<1> QED
  BY <1>2, <1>5, <1>6, <1>7 DEF AccessInv

\* A set that outlives its group lets an account in. delete_group is still
\* announcing revocations then, and has not come to this account or already has.
LEMMA CheckedInDeleted ==
  ASSUME AccessInv, NEW c \in Conns, CheckMember(c), c \notin slipped',
         ConnAccount[c] \in mirror[room[c]], group[room[c]] = "deleted",
         ConnAccount[c] \notin overlapped \cup abandoned
  PROVE  Pending(room[c], ConnAccount[c])
<1>1. PICK g \in Groups, a \in Accounts : g = room[c] /\ a = ConnAccount[c]
  BY OutsiderTyped DEF CheckMember
<1>2. members[g] = {}
  BY <1>1 DEF AccessInv, MirrorInv, TablesInv, TablesConsistent
<1>3. ~Agrees(a) /\ ~SetsAgree(a)
  BY <1>1, <1>2 DEF Agrees, SetsAgree
<1>4. PICK w \in Workers : Under(w, a)
  BY <1>1, <1>3 DEF AccessInv, MirrorInv, AccountInv
<1>5. SetsAgreeBut(a, req[w].g) => req[w].g = g
  BY <1>1, <1>2 DEF SetsAgreeBut
<1>6. At(w, {"delete"}, "publish") /\ req[w].g = g
  BY <1>1, <1>2, <1>3, <1>4, <1>5 DEF Under, Placed, Creates, Joins, Activates, Leaves, Deletes, At, AtSome
<1>7. CASE a \in req[w].todo
  BY <1>1, <1>6, <1>7 DEF Pending
<1>8. CASE a \notin req[w].todo
  <2>1. KeyOutlives(g, a)
    BY <1>6, <1>8 DEF KeyOutlives
  <2>2. Announced(g, a)
    BY <1>1, <2>1 DEF CheckMember
  <2> QED
    BY <1>1, <2>2 DEF Pending
<1> QED
  BY <1>7, <1>8

\* A step of one connection: it goes on, or is over.
LEMMA ConnStep ==
  ASSUME AccessInv, NEW c \in Conns,
         ResolveGroup(c) \/ CheckMember(c) \/ Admitted(c) \/ Disconnect(c)
  PROVE  AccessInv'
<1>1. UNCHANGED sharingVars
  BY DEF ResolveGroup, CheckMember, Admitted, Disconnect
<1>2. MirrorInv'
  BY <1>1, NextMirror DEF AccessInv
<1>3. UNCHANGED <<group, mirror, mirrorActive, channel, req, abandoned, overlapped>>
  BY <1>1 DEF sharingVars, pg, redis, ghosts
<1>4. TypeOK /\ TypeOK'
  BY <1>2 DEF AccessInv, MirrorInv, TablesInv
<1>5. \A d \in Conns : Pending(room[d], ConnAccount[d]) /\ room'[d] = room[d]
                          => Pending(room[d], ConnAccount[d])'
  BY <1>3 DEF Pending, Announced, At
<1>6. CASE ResolveGroup(c)
  <2> DEFINE g == mirrorActive[ConnAccount[c]]
             p == IF g = None THEN "over" ELSE "resolved"
  <2>1. g \in Groups \cup {None}
    BY <1>4, AccessAssumption DEF TypeOK
  <2>2. /\ room' = [room EXCEPT ![c] = g] /\ phase' = [phase EXCEPT ![c] = p]
        /\ UNCHANGED <<drops, slipped>>
    BY <1>6 DEF ResolveGroup
  <2>3. p \in {"over", "resolved"} /\ (p = "resolved" => g \in Groups)
    BY <2>1
  <2> HIDE DEF g, p
  <2>4. /\ phase' \in [Conns -> {"new", "resolved", "checked", "open", "over"}]
        /\ room' \in [Conns -> Groups \cup {None}]
        /\ phase'[c] = p /\ room'[c] = g
        /\ \A d \in Conns \ {c} : phase'[d] = phase[d] /\ room'[d] = room[d]
    BY <2>1, <2>2, <2>3 DEF AccessInv, AccessTypeOK
  <2>5. AccessTypeOK'
    BY <1>4, <2>2, <2>4 DEF AccessInv, AccessTypeOK
  <2>6. RoomInv'
    BY <2>3, <2>4 DEF AccessInv, RoomInv
  <2>7. WaitInv'
    <3> SUFFICES ASSUME NEW d \in Conns, Outsider(d)'
                 PROVE  Pending(room[d], ConnAccount[d]) /\ room'[d] = room[d]
      BY <1>5 DEF WaitInv, Pending, Announced
    <3>1. d # c
      BY <2>3, <2>4 DEF Outsider
    <3>2. Outsider(d)
      BY <3>1, <1>3, <2>2, <2>4 DEF Outsider
    <3> QED
      BY <3>1, <3>2, <1>5, <2>4 DEF AccessInv, WaitInv
  <2> QED
    BY <1>2, <2>5, <2>6, <2>7 DEF AccessInv
<1>7. CASE CheckMember(c) \/ Admitted(c) \/ Disconnect(c)
  <2>1. /\ UNCHANGED <<room, drops>> /\ slipped \subseteq slipped' /\ slipped' \subseteq Conns
    BY <1>7 DEF CheckMember, Admitted, Disconnect, AccessInv, AccessTypeOK
  <2>2. /\ phase[c] \in {"resolved", "checked", "open"}
        /\ \E p \in {"checked", "open", "over"} :
             /\ phase' = [phase EXCEPT ![c] = p]
             /\ p # "over" => phase[c] = "checked" \/ (CheckMember(c) /\ ConnAccount[c] \in mirror[room[c]])
    BY <1>7 DEF CheckMember, Admitted, Disconnect
  <2>3. PICK p \in {"checked", "open", "over"} :
             /\ phase' = [phase EXCEPT ![c] = p]
             /\ p # "over" => phase[c] = "checked" \/ (CheckMember(c) /\ ConnAccount[c] \in mirror[room[c]])
    BY <2>2
  <2>4. /\ phase' \in [Conns -> {"new", "resolved", "checked", "open", "over"}]
        /\ phase'[c] = p
        /\ \A d \in Conns \ {c} : phase'[d] = phase[d]
    BY <2>3 DEF AccessInv, AccessTypeOK
  <2>5. AccessTypeOK'
    BY <1>4, <2>1, <2>4 DEF AccessInv, AccessTypeOK
  <2>6. RoomInv'
    BY <2>1, <2>2, <2>4 DEF AccessInv, RoomInv
  <2>7. WaitInv'
    <3> SUFFICES ASSUME NEW d \in Conns, Outsider(d)'
                 PROVE  Pending(room[d], ConnAccount[d]) /\ room'[d] = room[d]
      BY <1>5 DEF WaitInv, Pending, Announced
    <3>1. phase[d] \in {"checked", "open"} => Outsider(d)
      BY <1>3, <2>1 DEF Outsider
    <3>2. CASE phase[d] \in {"checked", "open"}
      BY <3>1, <3>2, <2>1 DEF AccessInv, WaitInv
    <3>3. CASE phase[d] \notin {"checked", "open"}
      <4>1. d = c /\ CheckMember(c) /\ ConnAccount[c] \in mirror[room[c]] /\ phase[c] = "resolved"
        BY <3>3, <2>2, <2>3, <2>4 DEF Outsider
      <4>2. group[room[c]] = "deleted" /\ ConnAccount[c] \notin overlapped \cup abandoned
        BY <4>1, <1>3, <2>1 DEF Outsider
      <4>3. c \notin slipped'
        BY <4>1 DEF Outsider
      <4>4. Pending(room[c], ConnAccount[c])
        BY <4>1, <4>2, <4>3, CheckedInDeleted
      <4> QED
        BY <4>1, <4>4, <2>1
    <3> QED
      BY <3>2, <3>3
  <2> QED
    BY <1>2, <2>5, <2>6, <2>7 DEF AccessInv
<1> QED
  BY <1>6, <1>7

\* The tables' invariant does not look at the subscription.
LEMMA ChannelTables ==
  ASSUME MirrorInv, UNCHANGED <<group, owner, members, active, invite, mirror, mirrorActive>>,
         UNCHANGED <<req, served, admitted, overlapped, abandoned>>,
         subscribed' \in BOOLEAN, channel' \in Seq(Groups \X Accounts)
  PROVE  MirrorInv'
<1>1. TypeOK'
  BY DEF MirrorInv, TablesInv, TypeOK
<1>2. ReqInv' /\ CreateInv' /\ LeaveInv' /\ DeleteInv' /\ TablesConsistent'
  BY DEF MirrorInv, TablesInv, ReqInv, CreateInv, LeaveInv, DeleteInv, TablesConsistent,
         Creating, Leaving, Dissolving, At
<1>3. TablesInv'
  BY <1>1, <1>2 DEF TablesInv
<1> QED
  BY <1>3, QuietMirror

LEMMA SubscribeStep == ASSUME AccessInv, Subscribe PROVE AccessInv'
<1>1. /\ UNCHANGED <<group, owner, members, active, invite, mirror, mirrorActive>>
      /\ UNCHANGED <<req, served, admitted, overlapped, abandoned>>
      /\ UNCHANGED <<channel, phase, room, drops, slipped>> /\ subscribed' = TRUE
  BY DEF Subscribe, pg, ghosts, accessVars
<1>2. MirrorInv'
  BY <1>1, ChannelTables DEF AccessInv, MirrorInv, TablesInv, TypeOK
<1>3. AccessTypeOK' /\ RoomInv'
  BY <1>1, <1>2 DEF AccessInv, AccessTypeOK, RoomInv, MirrorInv, TablesInv
<1>4. WaitInv'
  BY <1>1 DEF AccessInv, WaitInv, Outsider, Pending, Announced, At
<1> QED
  BY <1>2, <1>3, <1>4 DEF AccessInv

LEMMA LoseStep == ASSUME AccessInv, LoseSubscription PROVE AccessInv'
<1>1. /\ UNCHANGED <<group, owner, members, active, invite, mirror, mirrorActive>>
      /\ UNCHANGED <<req, served, admitted, overlapped, abandoned>>
      /\ UNCHANGED <<phase, room>> /\ subscribed' = FALSE /\ channel' = <<>>
      /\ drops' = drops + 1 /\ drops < MaxDrops
      /\ slipped' = slipped \cup UNION {Of(channel[i][1], channel[i][2]) : i \in DOMAIN channel}
  BY DEF LoseSubscription, pg, ghosts
<1>2. channel' \in Seq(Groups \X Accounts)
  BY <1>1
<1>3. MirrorInv'
  BY <1>1, <1>2, ChannelTables DEF AccessInv
<1>4. slipped' \subseteq Conns
  BY <1>1 DEF Of, AccessInv, AccessTypeOK
<1>5. drops' \in 0..MaxDrops
  BY <1>1, AccessAssumption DEF AccessInv, AccessTypeOK
<1>6. AccessTypeOK' /\ RoomInv'
  BY <1>1, <1>3, <1>4, <1>5 DEF AccessInv, AccessTypeOK, RoomInv, MirrorInv, TablesInv
<1>7. WaitInv'
  <2> SUFFICES ASSUME NEW c \in Conns, NEW g, NEW a, g = room[c], a = ConnAccount[c], Outsider(c)'
               PROVE  Pending(g, a)'
    BY <1>1 DEF WaitInv
  <2>1. Outsider(c) /\ c \notin slipped'
    BY <1>1 DEF Outsider
  <2>2. Pending(g, a)
    BY <2>1 DEF AccessInv, WaitInv
  <2>3. ~Announced(g, a)
    BY <2>1, <1>1 DEF Announced, Of
  <2> QED
    BY <2>2, <2>3, <1>1 DEF Pending, At
<1> QED
  BY <1>3, <1>6, <1>7 DEF AccessInv

LEMMA RevokeStep == ASSUME AccessInv, Revoke PROVE AccessInv'
<1> DEFINE hit == Of(Head(channel)[1], Head(channel)[2])
<1>1. /\ UNCHANGED <<group, owner, members, active, invite, mirror, mirrorActive, subscribed>>
      /\ UNCHANGED <<req, served, admitted, overlapped, abandoned>>
      /\ UNCHANGED <<room, drops>> /\ channel # <<>> /\ channel' = Tail(channel)
      /\ phase' = [c \in Conns |-> IF c \in hit /\ phase[c] = "open" THEN "over" ELSE phase[c]]
      /\ slipped' = slipped \cup {c \in hit : phase[c] = "checked"}
  BY DEF Revoke, pg, ghosts
<1>2. channel \in Seq(Groups \X Accounts) /\ channel' \in Seq(Groups \X Accounts)
  BY <1>1 DEF AccessInv, MirrorInv, TablesInv, TypeOK
<1>3. MirrorInv'
  BY <1>1, <1>2, ChannelTables DEF AccessInv, MirrorInv, TablesInv, TypeOK
<1>4. hit \subseteq Conns
  BY DEF Of
<1>5. \A c \in Conns : c \in hit <=> <<room[c], ConnAccount[c]>> = <<Head(channel)[1], Head(channel)[2]>>
  BY DEF Of
<1>6. Head(channel) \in Groups \X Accounts /\ Head(channel) = channel[1]
  BY <1>1, <1>2
<1> HIDE DEF hit
<1>7. slipped' \subseteq Conns
  BY <1>1, <1>4 DEF AccessInv, AccessTypeOK
<1>8. phase' \in [Conns -> {"new", "resolved", "checked", "open", "over"}]
  BY <1>1 DEF AccessInv, AccessTypeOK
<1>9. AccessTypeOK'
  BY <1>1, <1>3, <1>7, <1>8 DEF AccessInv, AccessTypeOK, MirrorInv, TablesInv
<1>10. RoomInv'
  BY <1>1 DEF AccessInv, RoomInv
<1>11. WaitInv'
  <2> SUFFICES ASSUME NEW c \in Conns, NEW g, NEW a, g = room[c], a = ConnAccount[c], Outsider(c)'
               PROVE  Pending(g, a)'
    BY <1>1 DEF WaitInv
  <2>1. phase'[c] \in {"checked", "open"} /\ c \notin slipped'
    BY DEF Outsider
  <2>2. c \notin hit /\ phase[c] \in {"checked", "open"}
    BY <2>1, <1>1
  <2>3. Outsider(c)
    BY <2>2, <1>1 DEF Outsider
  <2>4. Pending(g, a)
    BY <2>3 DEF AccessInv, WaitInv
  <2>5. ASSUME Announced(g, a) PROVE Announced(g, a)'
    <3>1. PICK i \in DOMAIN channel : channel[i] = <<g, a>>
      BY <2>5 DEF Announced
    <3>2. i # 1
      BY <3>1, <2>2, <1>5, <1>6
    <3>3. i - 1 \in DOMAIN Tail(channel) /\ Tail(channel)[i - 1] = channel[i]
      BY <3>1, <3>2, <1>1, <1>2
    <3> QED
      BY <3>1, <3>3, <1>1 DEF Announced
  <2> QED
    BY <2>4, <2>5, <1>1 DEF Pending, At
<1> QED
  BY <1>3, <1>9, <1>10, <1>11 DEF AccessInv

LEMMA InitAccess == AccessInit => AccessInv
<1> SUFFICES ASSUME AccessInit PROVE AccessInv
  OBVIOUS
<1>1. MirrorInv
  BY InitMirror DEF AccessInit
<1>2. AccessTypeOK
  BY <1>1, AccessAssumption DEF AccessInit, AccessTypeOK, MirrorInv, TablesInv
<1>3. \A c \in Conns : phase[c] = "new"
  BY DEF AccessInit
<1>4. RoomInv /\ WaitInv
  BY <1>3 DEF RoomInv, WaitInv, Outsider
<1> QED
  BY <1>1, <1>2, <1>4 DEF AccessInv

LEMMA NextAccess == AccessInv /\ [AccessNext]_vars => AccessInv'
<1> SUFFICES ASSUME AccessInv, [AccessNext]_vars PROVE AccessInv'
  OBVIOUS
<1>1. CASE AccessNext
  BY <1>1, BackendStep, ConnStep, SubscribeStep, LoseStep, RevokeStep DEF AccessNext
<1>2. CASE UNCHANGED vars
  <2>1. UNCHANGED sharingVars /\ UNCHANGED <<phase, room, drops, slipped>>
    BY <1>2 DEF vars, accessVars
  <2>2. MirrorInv'
    BY <2>1, NextMirror DEF AccessInv
  <2>3. UNCHANGED <<group, mirror, channel, req, abandoned, overlapped>>
    BY <2>1 DEF sharingVars, pg, redis, ghosts
  <2>4. AccessTypeOK' /\ RoomInv'
    BY <2>1, <2>2 DEF AccessInv, AccessTypeOK, RoomInv, MirrorInv, TablesInv
  <2>5. WaitInv'
    BY <2>1, <2>3 DEF AccessInv, WaitInv, Outsider, Pending, Announced, At
  <2> QED
    BY <2>2, <2>4, <2>5 DEF AccessInv
<1> QED
  BY <1>1, <1>2

LEMMA AccessInvariant == AccessSpec => []AccessInv
BY InitAccess, NextAccess, PTL DEF AccessSpec

\* Backend and relay together keep every variable's type, for any set of
\* connections and any accounts they belong to.
THEOREM AccessTypeCorrect == AccessSpec => []AccessTypeOK
<1>1. AccessInv => AccessTypeOK
  BY DEF AccessInv
<1> QED
  BY <1>1, AccessInvariant, PTL

\* Whoever stays connected in a live group without being in the set of members
\* the relay reads has a revocation coming, whatever requests, handshakes, lost
\* subscriptions and revocations interleave, but for the gaps RevokedIsOut names.
THEOREM AccessRevokedIsOut == AccessSpec => []RevokedIsOut
<1>1. AccessInv => RevokedIsOut
  BY DEF AccessInv, WaitInv, Outsider, RevokedIsOut, Stray
<1> QED
  BY <1>1, AccessInvariant, PTL

\* Nobody stays connected in a deleted group, but for the handshakes that the
\* members key let in after the revocation was announced, the gaps RevokedIsOut
\* names, and accounts another request dealt with while the group was deleted.
THEOREM AccessDeletedIsOut == AccessSpec => []DeletedIsOut
<1>1. AccessInv => DeletedIsOut
  BY DEF AccessInv, WaitInv, Outsider, DeletedIsOut
<1> QED
  BY <1>1, AccessInvariant, PTL

\* With the relay beside it the service keeps its tables in order and its mirror
\* in agreement with them: nothing the relay or its subscription does, reading
\* while a request is under way included, gets in between.
THEOREM AccessLeavesMirror == AccessSpec => [](TablesConsistent /\ MirrorAgrees)
<1>1. AccessInv => TablesConsistent /\ MirrorAgrees
  BY MirrorInvAgrees DEF AccessInv, MirrorInv, TablesInv
<1> QED
  BY <1>1, AccessInvariant, PTL
=============================================================================
