------------------------ MODULE SharingService_proofs ------------------------
(***************************************************************************)
(* The tables of sharing groups for any accounts, groups and threads, in   *)
(* any interleaving of requests, some of them cut short.                   *)
(*                                                                         *)
(* TablesConsistent is not inductive: an owner could leave, or a group     *)
(* could be deleted under the request that creates it.  CreateInv and      *)
(* LeaveInv say why neither happens.                                       *)
(***************************************************************************)
EXTENDS SharingService, TLAPS

ReqType == [op : {"idle", "create", "join", "leave", "switch", "delete"},
            at : Places, g : Groups \cup {None}, a : Accounts \cup {None},
            todo : SUBSET Accounts, clear : SUBSET Accounts, n : Nat]

\* The request that brings a group into being has not come to its owner's row.
Creating(r) == r.op = "create" /\ r.at \in {"insert", "addOwner"}
Leaving(r) == r.op = "leave" /\ r.at = "delete"
Dissolving(r) == r.op = "delete" /\ r.at \in {"publish", "delKey"}

\* A request names the group and the account it deals with.
ReqInv == \A w \in Workers : req[w].op # "idle" => req[w].g \in Groups /\ req[w].a \in Accounts

\* Until its owner is a member, nobody but its creator deals with a group.
CreateInv ==
    \A w \in Workers : Creating(req[w]) =>
        /\ req[w].at = "insert" => group[req[w].g] = "unborn"
        /\ req[w].at = "addOwner" =>
             /\ group[req[w].g] = "live" /\ owner[req[w].g] = req[w].a
             /\ members[req[w].g] = {} /\ invite[req[w].g] = None
        /\ \A v \in Workers \ {w} : req[v].g # req[w].g

\* Whoever leaves is not the owner.
LeaveInv == \A w \in Workers : Leaving(req[w]) => req[w].a # owner[req[w].g]

\* delete_group touches Redis only after its commit, which is final.
DeleteInv == \A w \in Workers : Dissolving(req[w]) => group[req[w].g] = "deleted"

TablesInv == TypeOK /\ ReqInv /\ CreateInv /\ LeaveInv /\ DeleteInv /\ TablesConsistent

----------------------------------------------------------------------------
(* How req changes. *)

LEMMA ReqTyped == TypeOK => req \in [Workers -> ReqType]
BY DEF TypeOK, ReqType

LEMMA IdleTyped == Idle \in ReqType /\ Idle.op = "idle" /\ Idle.g = None /\ Idle.at = ""
BY DEF Idle, ReqType, Places

\* A request that goes on to another place is otherwise the same.
LEMMA MoveFacts ==
  ASSUME TypeOK, NEW w \in Workers, NEW at \in Places, req' = [req EXCEPT ![w].at = at]
  PROVE  /\ req' \in [Workers -> ReqType]
         /\ \A v \in Workers \ {w} : req'[v] = req[v]
         /\ req'[w].op = req[w].op /\ req'[w].g = req[w].g /\ req'[w].a = req[w].a
         /\ req'[w].at = at /\ req'[w].todo = req[w].todo
<1> DEFINE r == [req[w] EXCEPT !.at = at]
<1>1. req \in [Workers -> ReqType]
  BY ReqTyped
<1>2. /\ r \in ReqType
      /\ r.op = req[w].op /\ r.g = req[w].g /\ r.a = req[w].a /\ r.at = at /\ r.todo = req[w].todo
  BY <1>1 DEF ReqType
<1>3. req' = [req EXCEPT ![w] = r]
  BY <1>1
<1> HIDE DEF r
<1> QED
  BY <1>1, <1>2, <1>3

\* One request is replaced by another, or by none.
LEMMA ReplaceFacts ==
  ASSUME TypeOK, NEW w \in Workers, NEW r \in ReqType, req' = [req EXCEPT ![w] = r]
  PROVE  /\ req' \in [Workers -> ReqType]
         /\ \A v \in Workers \ {w} : req'[v] = req[v]
         /\ req'[w] = r
BY ReqTyped

\* The group of a request whose operation is known.
LEMMA OpFacts ==
  ASSUME TypeOK, ReqInv, NEW w \in Workers, NEW ops, NEW at, At(w, ops, at), "idle" \notin ops
  PROVE  /\ req[w].op \in ops /\ req[w].at = at /\ req[w] \in ReqType
         /\ req[w].g \in Groups /\ req[w].a \in Accounts
<1>1. req[w].op \in ops /\ req[w].at = at
  BY DEF At
<1>2. req[w].op # "idle"
  BY <1>1
<1> QED
  BY <1>1, <1>2, ReqTyped DEF ReqInv

\* Publishing keeps the channel well typed.
LEMMA PublishTyped ==
  ASSUME TypeOK, NEW g \in Groups, NEW a \in Accounts, Publish(g, a)
  PROVE  channel' \in Seq(Groups \X Accounts)
BY DEF TypeOK, Publish

----------------------------------------------------------------------------
(* Steps that leave the tables alone. *)

\* What the tables' invariants see of a step of w that changes no table.
Quiet(w) ==
    /\ UNCHANGED pg
    /\ abandoned \subseteq abandoned'
    /\ \A v \in Workers \ {w} : req'[v] = req[v]
    /\ ~Creating(req[w]) /\ ~Creating(req'[w]) /\ ~Leaving(req'[w])
    /\ Dissolving(req'[w]) => Dissolving(req[w])
    /\ \/ req'[w].op = "idle" /\ req'[w].g = None
       \/ req'[w].op # "idle" /\ req[w].op # "idle" /\ req'[w].g = req[w].g /\ req'[w].a = req[w].a

LEMMA QuietStep ==
  ASSUME TablesInv, TypeOK', NEW w \in Workers, Quiet(w)
  PROVE  TablesInv'
<1> USE DEF TablesInv
<1>1. UNCHANGED <<group, owner, members, active, invite>>
  BY DEF Quiet, pg
<1>2. ReqInv'
  BY DEF ReqInv, Quiet
<1>3. CreateInv'
  <2> SUFFICES ASSUME NEW v \in Workers, Creating(req'[v])
               PROVE  /\ req'[v].at = "insert" => group[req'[v].g] = "unborn"
                      /\ req'[v].at = "addOwner" =>
                           /\ group[req'[v].g] = "live" /\ owner[req'[v].g] = req'[v].a
                           /\ members[req'[v].g] = {} /\ invite[req'[v].g] = None
                      /\ \A u \in Workers \ {v} : req'[u].g # req'[v].g
    BY <1>1 DEF CreateInv, Creating
  <2>1. v # w /\ req'[v] = req[v] /\ Creating(req[v])
    BY DEF Quiet
  <2>2. \A u \in Workers \ {v} : req[u].g # req[v].g
    BY <2>1 DEF CreateInv
  <2>3. req[v].g # None
    <3>1. req[v].g \in Groups
      BY <2>1 DEF ReqInv, Creating
    <3> QED
      BY <3>1, SharingAssumption
  <2>4. req'[w].g # req[v].g
    BY <2>1, <2>2, <2>3 DEF Quiet
  <2>5. \A u \in Workers \ {v} : req'[u].g # req'[v].g
    BY <2>1, <2>2, <2>4 DEF Quiet
  <2> QED
    BY <2>1, <2>5 DEF CreateInv
<1>4. LeaveInv'
  BY <1>1 DEF LeaveInv, Quiet
<1>5. DeleteInv'
  BY <1>1 DEF DeleteInv, Quiet, Dissolving
<1>6. TablesConsistent'
  <2> SUFFICES ASSUME NEW g \in Groups
               PROVE  /\ group[g] # "live" =>
                           members[g] = {} /\ invite[g] = None /\ \A a \in Accounts : active[a] # g
                      /\ group[g] = "live" =>
                           \/ owner[g] \in members[g]
                           \/ owner[g] \in abandoned'
                           \/ \E v \in Workers : At(v, {"create"}, "addOwner")' /\ req'[v].g = g
    BY <1>1 DEF TablesConsistent
  <2>1. ASSUME NEW v \in Workers, At(v, {"create"}, "addOwner"), req[v].g = g
        PROVE  At(v, {"create"}, "addOwner")' /\ req'[v].g = g
    <3>1. v # w
      BY <2>1 DEF At, Quiet, Creating
    <3> QED
      BY <2>1, <3>1 DEF At, Quiet
  <2> QED
    BY <2>1 DEF TablesConsistent, Quiet
<1> QED
  BY <1>2, <1>3, <1>4, <1>5, <1>6

LEMMA GotoFacts ==
  ASSUME TypeOK, NEW w \in Workers, NEW at \in Places, Goto(w, at)
  PROVE  /\ req' \in [Workers -> ReqType]
         /\ \A v \in Workers \ {w} : req'[v] = req[v]
         /\ req'[w].op = req[w].op /\ req'[w].g = req[w].g /\ req'[w].a = req[w].a
         /\ req'[w].at = at /\ req'[w].todo = req[w].todo
         /\ UNCHANGED <<served, admitted, overlapped, abandoned>>
BY MoveFacts DEF Goto, ghosts

LEMMA FinishFacts ==
  ASSUME TypeOK, NEW w \in Workers, Finish(w)
  PROVE  /\ req' \in [Workers -> ReqType]
         /\ \A v \in Workers \ {w} : req'[v] = req[v]
         /\ req'[w] = Idle
         /\ UNCHANGED <<served, admitted, overlapped, abandoned>>
BY ReplaceFacts, IdleTyped DEF Finish, ghosts

\* A step that changes the keys of Redis at most, and moves w on or ends its request.
LEMMA RedisStep ==
  ASSUME TablesInv, NEW w \in Workers, UNCHANGED pg,
         ~Creating(req[w]), req[w].op # "idle",
         mirror' \in [Groups -> SUBSET Accounts], mirrorActive' \in [Accounts -> Groups \cup {None}],
         UNCHANGED subscribed, channel' \in Seq(Groups \X Accounts),
         \/ Finish(w)
         \/ \E at \in Places \ {"insert", "addOwner", "delete"} :
               Goto(w, at) /\ (req[w].op = "delete" /\ at \in {"publish", "delKey"} => Dissolving(req[w]))
  PROVE  TablesInv'
<1> USE DEF TablesInv
<1>1. UNCHANGED <<group, owner, members, active, invite>>
  BY DEF pg
<1>2. CASE Finish(w)
  <2>1. TypeOK'
    BY <1>1, <1>2, FinishFacts DEF TypeOK, ReqType
  <2>2. Quiet(w)
    BY <1>2, FinishFacts, IdleTyped DEF Quiet, Creating, Leaving, Dissolving
  <2> QED
    BY <2>1, <2>2, QuietStep
<1>3. ASSUME NEW at \in Places \ {"insert", "addOwner", "delete"}, Goto(w, at),
             req[w].op = "delete" /\ at \in {"publish", "delKey"} => Dissolving(req[w])
      PROVE  TablesInv'
  <2>1. TypeOK'
    BY <1>1, <1>3, GotoFacts DEF TypeOK, ReqType
  <2>2. Quiet(w)
    BY <1>3, GotoFacts DEF Quiet, Creating, Leaving, Dissolving
  <2> QED
    BY <2>1, <2>2, QuietStep
<1> QED
  BY <1>2, <1>3

LEMMA AddToMirrorStep == ASSUME TablesInv, NEW w \in Workers, AddToMirror(w) PROVE TablesInv'
<1>1. req[w].g \in Groups /\ req[w].a \in Accounts /\ req[w].op # "idle" /\ ~Creating(req[w])
  BY OpFacts DEF TablesInv, AddToMirror, Creating
<1>2. mirror' \in [Groups -> SUBSET Accounts]
  BY <1>1 DEF AddToMirror, TablesInv, TypeOK
<1>3. "activate" \in Places \ {"insert", "addOwner", "delete"}
  BY DEF Places
<1> QED
  BY <1>1, <1>2, <1>3, RedisStep DEF AddToMirror, TablesInv, TypeOK

LEMMA SetActiveKeyStep == ASSUME TablesInv, NEW w \in Workers, SetActiveKey(w) PROVE TablesInv'
<1>1. req[w].g \in Groups /\ req[w].a \in Accounts /\ req[w].op # "idle" /\ ~Creating(req[w])
  BY OpFacts DEF TablesInv, SetActiveKey, Creating
<1>2. mirrorActive' \in [Accounts -> Groups \cup {None}]
  BY <1>1 DEF SetActiveKey, TablesInv, TypeOK
<1> QED
  BY <1>1, <1>2, RedisStep DEF SetActiveKey, TablesInv, TypeOK

LEMMA LeaveFacts ==
  ASSUME TablesInv, NEW w \in Workers, req[w].op = "leave"
  PROVE  req[w].g \in Groups /\ req[w].a \in Accounts /\ ~Creating(req[w])
BY DEF TablesInv, ReqInv, Creating

LEMMA RemoveFromMirrorStep == ASSUME TablesInv, NEW w \in Workers, RemoveFromMirror(w) PROVE TablesInv'
<1>1. req[w].op = "leave"
  BY DEF RemoveFromMirror, At
<1>2. req[w].g \in Groups /\ req[w].a \in Accounts /\ ~Creating(req[w])
  BY <1>1, LeaveFacts
<1>3. mirror' \in [Groups -> SUBSET Accounts]
  BY <1>2 DEF RemoveFromMirror, TablesInv, TypeOK
<1>4. "publish" \in Places \ {"insert", "addOwner", "delete"}
  BY DEF Places
<1> QED
  BY <1>1, <1>2, <1>3, <1>4, RedisStep DEF RemoveFromMirror, TablesInv, TypeOK

LEMMA PublishLeaveStep == ASSUME TablesInv, NEW w \in Workers, PublishLeave(w) PROVE TablesInv'
<1>1. req[w].op = "leave"
  BY DEF PublishLeave, At
<1>2. req[w].g \in Groups /\ req[w].a \in Accounts /\ ~Creating(req[w])
  BY <1>1, LeaveFacts
<1>3. channel' \in Seq(Groups \X Accounts)
  BY <1>2, PublishTyped DEF PublishLeave, TablesInv
<1>4. "clear" \in Places \ {"insert", "addOwner", "delete"}
  BY DEF Places
<1> QED
  BY <1>1, <1>2, <1>3, <1>4, RedisStep DEF PublishLeave, TablesInv, TypeOK

LEMMA ReadActiveStep == ASSUME TablesInv, NEW w \in Workers, ReadActive(w) PROVE TablesInv'
<1>1. req[w].op = "leave"
  BY DEF ReadActive, At
<1>2. req[w].g \in Groups /\ req[w].a \in Accounts /\ ~Creating(req[w])
  BY <1>1, LeaveFacts
<1>3. "clearWrite" \in Places \ {"insert", "addOwner", "delete"}
  BY DEF Places
<1>4. UNCHANGED pg /\ UNCHANGED <<mirror, mirrorActive, subscribed, channel>>
  BY DEF ReadActive, redis
<1> QED
  BY <1>1, <1>2, <1>3, <1>4, RedisStep DEF ReadActive, TablesInv, TypeOK

LEMMA DeleteActiveKeyStep == ASSUME TablesInv, NEW w \in Workers, DeleteActiveKey(w) PROVE TablesInv'
<1>1. req[w].op = "leave"
  BY DEF DeleteActiveKey, At
<1>2. req[w].g \in Groups /\ req[w].a \in Accounts /\ ~Creating(req[w])
  BY <1>1, LeaveFacts
<1>3. mirrorActive' \in [Accounts -> Groups \cup {None}]
  BY <1>2 DEF DeleteActiveKey, TablesInv, TypeOK
<1> QED
  BY <1>1, <1>2, <1>3, RedisStep DEF DeleteActiveKey, TablesInv, TypeOK

\* The rest of the steps that read the tables only, and move by one field more.
LEMMA ReplaceStep ==
  ASSUME TablesInv, NEW w \in Workers, NEW r \in ReqType, UNCHANGED pg, UNCHANGED <<served, ghosts>>,
         mirror' \in [Groups -> SUBSET Accounts], mirrorActive' \in [Accounts -> Groups \cup {None}],
         UNCHANGED subscribed, channel' \in Seq(Groups \X Accounts),
         req' = [req EXCEPT ![w] = r],
         ~Creating(req[w]), req[w].op # "idle",
         r.op = req[w].op, r.g = req[w].g, r.a = req[w].a,
         r.at \notin {"insert", "addOwner", "delete"}, Dissolving(r) => Dissolving(req[w])
  PROVE  TablesInv'
<1> USE DEF TablesInv
<1>1. /\ req' \in [Workers -> ReqType] /\ req'[w] = r
      /\ \A v \in Workers \ {w} : req'[v] = req[v]
  BY ReplaceFacts
<1>2. TypeOK'
  BY <1>1 DEF TypeOK, ReqType, pg, ghosts
<1>3. Quiet(w)
  BY <1>1 DEF Quiet, ghosts, Creating, Leaving
<1> QED
  BY <1>2, <1>3, QuietStep

LEMMA ReadCountStep == ASSUME TablesInv, NEW w \in Workers, ReadCount(w) PROVE TablesInv'
<1>1. req[w].op = "join" /\ req[w].g \in Groups /\ req[w] \in ReqType /\ ~Creating(req[w])
  BY OpFacts DEF TablesInv, ReadCount, Creating
<1>2. UNCHANGED pg /\ UNCHANGED <<mirror, mirrorActive, subscribed, channel>>
  BY DEF ReadCount, redis
<1>3. CASE Finish(w)
  BY <1>1, <1>2, <1>3, RedisStep DEF TablesInv, TypeOK
<1>4. CASE invite[req[w].g] # None
  <2> DEFINE n == invite[req[w].g].uses
             r == [req[w] EXCEPT !.at = "countWrite", !.n = n]
  <2>1. n \in Nat
    BY <1>1, <1>4 DEF TablesInv, TypeOK
  <2>2. req' = [req EXCEPT ![w].at = "countWrite", ![w].n = n] /\ UNCHANGED <<served, ghosts>>
    BY <1>4 DEF ReadCount
  <2> HIDE DEF n
  <2>3. /\ r \in ReqType /\ r.op = req[w].op /\ r.g = req[w].g /\ r.a = req[w].a
        /\ r.at = "countWrite" /\ ~Dissolving(r)
    BY <1>1, <2>1 DEF ReqType, Places, Dissolving
  <2>4. req' = [req EXCEPT ![w] = r]
    BY <2>2, ReqTyped DEF TablesInv
  <2> HIDE DEF r
  <2> QED
    BY <1>1, <1>2, <2>2, <2>3, <2>4, ReplaceStep DEF TablesInv, TypeOK
<1> QED
  BY <1>3, <1>4 DEF ReadCount

LEMMA ReloadInviteStep == ASSUME TablesInv, NEW w \in Workers, ReloadInvite(w) PROVE TablesInv'
<1>1. req[w].op = "join" /\ ~Creating(req[w])
  BY OpFacts DEF TablesInv, ReloadInvite, Creating
<1>2. UNCHANGED pg /\ UNCHANGED <<mirror, mirrorActive, subscribed, channel>>
  BY DEF ReloadInvite, redis
<1>3. "sadd" \in Places \ {"insert", "addOwner", "delete"}
  BY DEF Places
<1> QED
  BY <1>1, <1>2, <1>3, RedisStep DEF ReloadInvite, TablesInv, TypeOK

LEMMA ListActiveStep == ASSUME TablesInv, NEW w \in Workers, ListActive(w) PROVE TablesInv'
<1>1. req[w].op = "delete" /\ req[w] \in ReqType /\ ~Creating(req[w])
  BY OpFacts DEF TablesInv, ListActive, Creating
<1>2. UNCHANGED pg /\ UNCHANGED <<mirror, mirrorActive, subscribed, channel, served, ghosts>>
  BY DEF ListActive, redis
<1> DEFINE S == {a \in Accounts : active[a] = req[w].g}
           r == [req[w] EXCEPT !.at = "commit", !.clear = S]
<1>3. req' = [req EXCEPT ![w].at = "commit", ![w].clear = S]
  BY DEF ListActive
<1>4. S \subseteq Accounts
  OBVIOUS
<1> HIDE DEF S
<1>5. /\ r \in ReqType /\ r.op = req[w].op /\ r.g = req[w].g /\ r.a = req[w].a
      /\ r.at = "commit" /\ ~Dissolving(r)
  BY <1>1, <1>4 DEF ReqType, Places, Dissolving
<1>6. req' = [req EXCEPT ![w] = r]
  BY <1>3, ReqTyped DEF TablesInv
<1> HIDE DEF r
<1> QED
  BY <1>1, <1>2, <1>5, <1>6, ReplaceStep DEF TablesInv, TypeOK

LEMMA PublishDeleteStep ==
  ASSUME TablesInv, NEW w \in Workers, NEW a \in Accounts, PublishDelete(w, a)
  PROVE  TablesInv'
<1>1. /\ req[w].op = "delete" /\ req[w].at = "publish" /\ req[w] \in ReqType
      /\ req[w].g \in Groups /\ ~Creating(req[w])
  BY OpFacts DEF TablesInv, PublishDelete, Creating
<1>2. UNCHANGED pg /\ UNCHANGED <<mirror, mirrorActive, subscribed, served, ghosts>>
  BY DEF PublishDelete
<1>3. channel' \in Seq(Groups \X Accounts)
  BY <1>1, PublishTyped DEF PublishDelete, TablesInv
<1> DEFINE r == [req[w] EXCEPT !.todo = req[w].todo \ {a}]
<1>4. /\ r \in ReqType /\ r.op = req[w].op /\ r.g = req[w].g /\ r.a = req[w].a /\ r.at = "publish"
  BY <1>1 DEF ReqType
<1>5. req' = [req EXCEPT ![w] = r]
  BY ReqTyped DEF PublishDelete, TablesInv
<1> HIDE DEF r
<1> QED
  BY <1>1, <1>2, <1>3, <1>4, <1>5, ReplaceStep DEF TablesInv, TypeOK, Dissolving

LEMMA DeleteMembersKeyStep == ASSUME TablesInv, NEW w \in Workers, DeleteMembersKey(w) PROVE TablesInv'
<1>1. /\ req[w].op = "delete" /\ req[w].at = "publish" /\ req[w].g \in Groups /\ ~Creating(req[w])
  BY OpFacts DEF TablesInv, DeleteMembersKey, Creating
<1>2. mirror' \in [Groups -> SUBSET Accounts]
  BY <1>1 DEF DeleteMembersKey, TablesInv, TypeOK
<1>3. "delKey" \in Places \ {"insert", "addOwner", "delete"} /\ Dissolving(req[w])
  BY <1>1 DEF Places, Dissolving
<1> QED
  BY <1>1, <1>2, <1>3, RedisStep DEF DeleteMembersKey, TablesInv, TypeOK

LEMMA ClearActiveKeyStep ==
  ASSUME TablesInv, NEW w \in Workers, NEW a \in Accounts, ClearActiveKey(w, a)
  PROVE  TablesInv'
<1>1. /\ req[w].op = "delete" /\ req[w].at = "delKey" /\ req[w] \in ReqType /\ ~Creating(req[w])
  BY OpFacts DEF TablesInv, ClearActiveKey, Creating
<1>2. UNCHANGED pg /\ UNCHANGED <<mirror, subscribed, channel, served, ghosts>>
  BY DEF ClearActiveKey
<1>3. mirrorActive' \in [Accounts -> Groups \cup {None}]
  BY DEF ClearActiveKey, TablesInv, TypeOK
<1> DEFINE r == [req[w] EXCEPT !.clear = req[w].clear \ {a}]
<1>4. /\ r \in ReqType /\ r.op = req[w].op /\ r.g = req[w].g /\ r.a = req[w].a /\ r.at = "delKey"
  BY <1>1 DEF ReqType
<1>5. req' = [req EXCEPT ![w] = r]
  BY ReqTyped DEF ClearActiveKey, TablesInv
<1> HIDE DEF r
<1> QED
  BY <1>1, <1>2, <1>3, <1>4, <1>5, ReplaceStep DEF TablesInv, TypeOK, Dissolving

LEMMA DeleteEndsStep ==
  ASSUME TablesInv, NEW w \in Workers, DeleteRowsFails(w) \/ DeleteDone(w)
  PROVE  TablesInv'
<1>1. req[w].op = "delete" /\ ~Creating(req[w])
  BY OpFacts DEF TablesInv, DeleteRowsFails, DeleteDone, Creating
<1> QED
  BY <1>1, RedisStep DEF DeleteRowsFails, DeleteDone, redis, TablesInv, TypeOK

----------------------------------------------------------------------------
(* Steps that change the tables. *)

\* The invariants of requests, over a step of w that may change the tables, but
\* not of a group that is being created by another worker.
Moves(w) ==
    /\ \A v \in Workers \ {w} : req'[v] = req[v]
    /\ req'[w].op # "idle" => req'[w].g \in Groups /\ req'[w].a \in Accounts
    /\ ~Creating(req'[w])
    /\ Leaving(req'[w]) => req'[w].a # owner[req'[w].g]
    /\ Dissolving(req'[w]) => group'[req'[w].g] = "deleted"
    /\ \A v \in Workers \ {w} : Creating(req[v]) => req'[w].g # req[v].g

LEMMA MoveStep ==
  ASSUME TablesInv, NEW w \in Workers, Moves(w), UNCHANGED owner,
         \A g \in Groups : group[g] = "deleted" => group'[g] = "deleted",
         \A v \in Workers \ {w} : Creating(req[v]) =>
           LET g == req[v].g IN
           group'[g] = group[g] /\ members'[g] = members[g] /\ invite'[g] = invite[g]
  PROVE  ReqInv' /\ CreateInv' /\ LeaveInv' /\ DeleteInv'
<1> USE DEF TablesInv, Moves
<1>1. ReqInv'
  BY DEF ReqInv
<1>2. CreateInv'
  <2> SUFFICES ASSUME NEW v \in Workers, Creating(req'[v])
               PROVE  /\ req'[v].at = "insert" => group'[req'[v].g] = "unborn"
                      /\ req'[v].at = "addOwner" =>
                           /\ group'[req'[v].g] = "live" /\ owner'[req'[v].g] = req'[v].a
                           /\ members'[req'[v].g] = {} /\ invite'[req'[v].g] = None
                      /\ \A u \in Workers \ {v} : req'[u].g # req'[v].g
    BY DEF CreateInv, Creating
  <2>1. v # w /\ req'[v] = req[v] /\ Creating(req[v])
    OBVIOUS
  <2>2. \A u \in Workers \ {v} : req'[u].g # req'[v].g
    BY <2>1 DEF CreateInv
  <2> QED
    BY <2>1, <2>2 DEF CreateInv
<1>3. LeaveInv'
  BY DEF LeaveInv, Leaving
<1>4. DeleteInv'
  <2> SUFFICES ASSUME NEW v \in Workers, Dissolving(req'[v]) PROVE group'[req'[v].g] = "deleted"
    BY DEF DeleteInv, Dissolving
  <2>1. CASE v # w
    <3>1. req'[v] = req[v] /\ req[v].g \in Groups /\ group[req[v].g] = "deleted"
      BY <2>1 DEF DeleteInv, Dissolving, ReqInv
    <3> QED
      BY <3>1
  <2> QED
    BY <2>1
<1> QED
  BY <1>1, <1>2, <1>3, <1>4

\* Nobody else is creating the group that a worker deals with, nor one that has
\* a member or an invite.
LEMMA NotBeingCreated ==
  ASSUME TablesInv, NEW v \in Workers, Creating(req[v]), NEW g \in Groups,
         \/ \E w \in Workers \ {v} : req[w].g = g
         \/ members[g] # {}
         \/ invite[g] # None
  PROVE  req[v].g # g
<1>1. req[v].g \in Groups /\ req[v].at \in {"insert", "addOwner"}
  BY DEF TablesInv, ReqInv, Creating
<1>2. members[req[v].g] = {} /\ invite[req[v].g] = None
  BY <1>1 DEF TablesInv, CreateInv, TablesConsistent
<1> QED
  BY <1>2 DEF TablesInv, CreateInv

\* TablesConsistent, over a step that keeps the creators at work.
LEMMA ConsistentStep ==
  ASSUME TablesInv, NEW w \in Workers, ~Creating(req[w]),
         \A v \in Workers \ {w} : req'[v] = req[v],
         UNCHANGED owner, abandoned \subseteq abandoned',
         \A g \in Groups :
           \/ /\ group'[g] = group[g] /\ members'[g] = members[g] /\ invite'[g] = invite[g]
              /\ \A a \in Accounts : active'[a] = g => active[a] = g
           \/ /\ group'[g] = "live" /\ group[g] = "live"
              /\ owner[g] \in members[g] => owner[g] \in members'[g]
           \/ /\ group'[g] = "deleted"
              /\ members'[g] = {} /\ invite'[g] = None /\ \A a \in Accounts : active'[a] # g
  PROVE  TablesConsistent'
<1> USE DEF TablesInv
<1> SUFFICES ASSUME NEW g \in Groups
             PROVE  /\ group'[g] # "live" =>
                         members'[g] = {} /\ invite'[g] = None /\ \A a \in Accounts : active'[a] # g
                    /\ group'[g] = "live" =>
                         \/ owner'[g] \in members'[g]
                         \/ owner'[g] \in abandoned'
                         \/ \E v \in Workers : At(v, {"create"}, "addOwner")' /\ req'[v].g = g
  BY DEF TablesConsistent
<1>1. ASSUME NEW v \in Workers, At(v, {"create"}, "addOwner"), req[v].g = g
      PROVE  At(v, {"create"}, "addOwner")' /\ req'[v].g = g
  <2>1. v # w
    BY <1>1 DEF At, Creating
  <2> QED
    BY <1>1, <2>1 DEF At
<1>2. CASE /\ group'[g] = group[g] /\ members'[g] = members[g] /\ invite'[g] = invite[g]
           /\ \A a \in Accounts : active'[a] = g => active[a] = g
  BY <1>1, <1>2 DEF TablesConsistent
<1>3. CASE /\ group'[g] = "live" /\ group[g] = "live"
           /\ owner[g] \in members[g] => owner[g] \in members'[g]
  BY <1>1, <1>3 DEF TablesConsistent
<1>4. CASE /\ group'[g] = "deleted"
           /\ members'[g] = {} /\ invite'[g] = None /\ \A a \in Accounts : active'[a] # g
  BY <1>4
<1> QED
  BY <1>2, <1>3, <1>4

LEMMA InsertGroupStep == ASSUME TablesInv, NEW w \in Workers, InsertGroup(w) PROVE TablesInv'
<1> DEFINE g == req[w].g
           a == req[w].a
<1>1. req[w].op = "create" /\ req[w].at = "insert" /\ g \in Groups /\ a \in Accounts
  BY OpFacts DEF TablesInv, InsertGroup
<1>2. Creating(req[w])
  BY <1>1 DEF Creating
<1>3. group[g] = "unborn" /\ \A v \in Workers \ {w} : req[v].g # g
  BY <1>1, <1>2 DEF TablesInv, CreateInv
<1>4. members[g] = {} /\ invite[g] = None /\ \A b \in Accounts : active[b] # g
  BY <1>1, <1>3 DEF TablesInv, TablesConsistent
<1>5. Goto(w, "addOwner") /\ "addOwner" \in Places
  BY DEF InsertGroup, Places
<1>6. /\ req' \in [Workers -> ReqType]
      /\ \A v \in Workers \ {w} : req'[v] = req[v]
      /\ req'[w].op = "create" /\ req'[w].g = g /\ req'[w].a = a /\ req'[w].at = "addOwner"
      /\ UNCHANGED <<served, admitted, overlapped, abandoned>>
  BY <1>1, <1>5, GotoFacts DEF TablesInv
<1>7. /\ group' = [group EXCEPT ![g] = "live"] /\ owner' = [owner EXCEPT ![g] = a]
      /\ UNCHANGED <<members, active, invite, mirror, mirrorActive, subscribed, channel>>
  BY DEF InsertGroup, redis
<1> HIDE DEF g, a
<1>8. /\ group'[g] = "live" /\ owner'[g] = a
      /\ \A h \in Groups \ {g} : group'[h] = group[h] /\ owner'[h] = owner[h]
  BY <1>1, <1>7 DEF TablesInv, TypeOK
<1>9. TypeOK'
  BY <1>1, <1>6, <1>7 DEF TablesInv, TypeOK, ReqType
<1>10. ReqInv'
  BY <1>1, <1>6 DEF TablesInv, ReqInv
<1>11. CreateInv'
  <2> SUFFICES ASSUME NEW v \in Workers, Creating(req'[v])
               PROVE  /\ req'[v].at = "insert" => group'[req'[v].g] = "unborn"
                      /\ req'[v].at = "addOwner" =>
                           /\ group'[req'[v].g] = "live" /\ owner'[req'[v].g] = req'[v].a
                           /\ members'[req'[v].g] = {} /\ invite'[req'[v].g] = None
                      /\ \A u \in Workers \ {v} : req'[u].g # req'[v].g
    BY DEF CreateInv, Creating
  <2>1. CASE v = w
    BY <2>1, <1>3, <1>4, <1>6, <1>7, <1>8
  <2>2. CASE v # w
    <3>1. req'[v] = req[v] /\ Creating(req[v]) /\ req[v].g \in Groups \ {g}
      BY <2>2, <1>3, <1>6 DEF TablesInv, ReqInv, Creating
    <3>2. \A u \in Workers \ {v} : req'[u].g # req'[v].g
      BY <2>2, <3>1, <1>6 DEF TablesInv, CreateInv
    <3> QED
      BY <3>1, <3>2, <1>7, <1>8 DEF TablesInv, CreateInv
  <2> QED
    BY <2>1, <2>2
<1>12. LeaveInv'
  <2> SUFFICES ASSUME NEW v \in Workers, Leaving(req'[v]) PROVE req'[v].a # owner'[req'[v].g]
    BY DEF LeaveInv, Leaving
  <2>1. v # w /\ req'[v] = req[v] /\ Leaving(req[v]) /\ req[v].g \in Groups \ {g}
    BY <1>3, <1>6 DEF TablesInv, ReqInv, Leaving
  <2> QED
    BY <2>1, <1>8 DEF TablesInv, LeaveInv
<1>13. DeleteInv'
  <2> SUFFICES ASSUME NEW v \in Workers, Dissolving(req'[v]) PROVE group'[req'[v].g] = "deleted"
    BY DEF DeleteInv, Dissolving
  <2>1. v # w /\ req'[v] = req[v] /\ Dissolving(req[v]) /\ req[v].g \in Groups \ {g}
    BY <1>3, <1>6 DEF TablesInv, ReqInv, Dissolving
  <2> QED
    BY <2>1, <1>8 DEF TablesInv, DeleteInv
<1>14. TablesConsistent'
  <2> SUFFICES ASSUME NEW h \in Groups
               PROVE  /\ group'[h] # "live" =>
                           members'[h] = {} /\ invite'[h] = None /\ \A b \in Accounts : active'[b] # h
                      /\ group'[h] = "live" =>
                           \/ owner'[h] \in members'[h]
                           \/ owner'[h] \in abandoned'
                           \/ \E v \in Workers : At(v, {"create"}, "addOwner")' /\ req'[v].g = h
    BY DEF TablesConsistent
  <2>1. CASE h = g
    BY <2>1, <1>6, <1>8 DEF At
  <2>2. CASE h # g
    <3>1. ASSUME NEW v \in Workers, At(v, {"create"}, "addOwner"), req[v].g = h
          PROVE  At(v, {"create"}, "addOwner")' /\ req'[v].g = h
      <4>1. v # w
        BY <3>1, <1>1 DEF At
      <4> QED
        BY <3>1, <4>1, <1>6 DEF At
    <3> QED
      BY <2>2, <3>1, <1>6, <1>7, <1>8 DEF TablesInv, TablesConsistent
  <2> QED
    BY <2>1, <2>2
<1> QED
  BY <1>9, <1>10, <1>11, <1>12, <1>13, <1>14 DEF TablesInv

LEMMA InsertOwnerStep == ASSUME TablesInv, NEW w \in Workers, InsertOwner(w) PROVE TablesInv'
<1> DEFINE g == req[w].g
           a == req[w].a
<1>1. req[w].op = "create" /\ req[w].at = "addOwner" /\ g \in Groups /\ a \in Accounts
  BY OpFacts DEF TablesInv, InsertOwner
<1>2. group[g] = "live" /\ owner[g] = a /\ \A v \in Workers \ {w} : req[v].g # g
  BY <1>1 DEF TablesInv, CreateInv, Creating
<1>3. Goto(w, "sadd") /\ "sadd" \in Places
  BY DEF InsertOwner, Places
<1>4. /\ req' \in [Workers -> ReqType]
      /\ \A v \in Workers \ {w} : req'[v] = req[v]
      /\ req'[w].op = "create" /\ req'[w].g = g /\ req'[w].a = a /\ req'[w].at = "sadd"
      /\ UNCHANGED <<served, admitted, overlapped, abandoned>>
  BY <1>1, <1>3, GotoFacts DEF TablesInv
<1>5. /\ members' = [members EXCEPT ![g] = @ \cup {a}]
      /\ UNCHANGED <<group, owner, active, invite, mirror, mirrorActive, subscribed, channel>>
  BY DEF InsertOwner, redis
<1> HIDE DEF g, a
<1>6. a \in members'[g] /\ \A h \in Groups \ {g} : members'[h] = members[h]
  BY <1>1, <1>5 DEF TablesInv, TypeOK
<1>7. TypeOK'
  BY <1>1, <1>4, <1>5 DEF TablesInv, TypeOK, ReqType
<1>8. Moves(w)
  BY <1>1, <1>2, <1>4 DEF Moves, Creating, Leaving, Dissolving
<1>9. \A v \in Workers \ {w} : Creating(req[v]) => req[v].g \in Groups \ {g}
  BY <1>2 DEF TablesInv, ReqInv, Creating
<1>10. ReqInv' /\ CreateInv' /\ LeaveInv' /\ DeleteInv'
  BY <1>5, <1>6, <1>8, <1>9, MoveStep
<1>11. TablesConsistent'
  <2> SUFFICES ASSUME NEW h \in Groups
               PROVE  /\ group'[h] # "live" =>
                           members'[h] = {} /\ invite'[h] = None /\ \A b \in Accounts : active'[b] # h
                      /\ group'[h] = "live" =>
                           \/ owner'[h] \in members'[h]
                           \/ owner'[h] \in abandoned'
                           \/ \E v \in Workers : At(v, {"create"}, "addOwner")' /\ req'[v].g = h
    BY DEF TablesConsistent
  <2>1. CASE h = g
    BY <2>1, <1>2, <1>5, <1>6
  <2>2. CASE h # g
    <3>1. ASSUME NEW v \in Workers, At(v, {"create"}, "addOwner"), req[v].g = h
          PROVE  At(v, {"create"}, "addOwner")' /\ req'[v].g = h
      <4>1. v # w
        BY <2>2, <3>1 DEF g
      <4> QED
        BY <3>1, <4>1, <1>4 DEF At
    <3> QED
      BY <2>2, <3>1, <1>4, <1>5, <1>6 DEF TablesInv, TablesConsistent
  <2> QED
    BY <2>1, <2>2
<1> QED
  BY <1>7, <1>10, <1>11 DEF TablesInv

\* The steps of a request that change the tables of its own group only.
LEMMA OwnGroupStep ==
  ASSUME TablesInv, TypeOK', NEW w \in Workers, NEW g \in Groups,
         ~Creating(req[w]), Moves(w),
         UNCHANGED owner, abandoned \subseteq abandoned',
         \A v \in Workers \ {w} : Creating(req[v]) => req[v].g # g,
         \A h \in Groups \ {g} :
           /\ group'[h] = group[h] /\ members'[h] = members[h] /\ invite'[h] = invite[h]
           /\ \A a \in Accounts : active'[a] = h => active[a] = h,
         \/ /\ group'[g] = "live" /\ group[g] = "live"
            /\ owner[g] \in members[g] => owner[g] \in members'[g]
         \/ /\ group'[g] = "deleted"
            /\ members'[g] = {} /\ invite'[g] = None /\ \A a \in Accounts : active'[a] # g
         \/ /\ group'[g] = group[g] /\ members'[g] = members[g] /\ invite'[g] = invite[g]
            /\ \A a \in Accounts : active'[a] = g => active[a] = g
  PROVE  TablesInv'
<1>1. \A h \in Groups : group[h] = "deleted" => group'[h] = "deleted"
  OBVIOUS
<1>2. \A v \in Workers \ {w} : Creating(req[v]) => req[v].g \in Groups \ {g}
  BY DEF TablesInv, ReqInv, Creating
<1>3. ReqInv' /\ CreateInv' /\ LeaveInv' /\ DeleteInv'
  BY <1>1, <1>2, MoveStep
<1>4. \A v \in Workers \ {w} : req'[v] = req[v]
  BY DEF Moves
<1>5. TablesConsistent'
  BY <1>4, ConsistentStep
<1> QED
  BY <1>3, <1>5 DEF TablesInv

LEMMA SetActiveStep == ASSUME TablesInv, NEW w \in Workers, SetActive(w) PROVE TablesInv'
<1> DEFINE g == req[w].g
           a == req[w].a
<1>1. /\ req[w].op \in {"create", "join", "switch"} /\ req[w].at = "activate"
      /\ g \in Groups /\ a \in Accounts
  BY OpFacts DEF TablesInv, SetActive
<1>2. ~Creating(req[w]) /\ req[w].op # "idle" /\ req[w].op # "delete"
  BY <1>1 DEF Creating
<1>3. UNCHANGED <<mirror, mirrorActive, subscribed, channel>> /\ UNCHANGED <<group, owner, members, invite>>
  BY DEF SetActive, redis
<1>4. CASE group[g] = "live"
  <2>1. Goto(w, "setKey") /\ "setKey" \in Places /\ active' = [active EXCEPT ![a] = g]
    BY <1>4 DEF SetActive, Places
  <2>2. /\ req' \in [Workers -> ReqType]
        /\ \A v \in Workers \ {w} : req'[v] = req[v]
        /\ req'[w].op = req[w].op /\ req'[w].g = g /\ req'[w].a = a /\ req'[w].at = "setKey"
        /\ UNCHANGED <<served, admitted, overlapped, abandoned>>
    BY <2>1, GotoFacts DEF TablesInv
  <2> HIDE DEF g, a
  <2>3. TypeOK'
    BY <1>1, <1>3, <2>1, <2>2 DEF TablesInv, TypeOK, ReqType
  <2>4. \A v \in Workers \ {w} : Creating(req[v]) => req[v].g # g
    BY <1>1, NotBeingCreated DEF g
  <2>5. Moves(w)
    BY <1>1, <1>2, <2>2, <2>4 DEF Moves, Creating, Leaving, Dissolving
  <2>6. \A h \in Groups \ {g}, b \in Accounts : active'[b] = h => active[b] = h
    BY <1>1, <2>1 DEF TablesInv, TypeOK
  <2> QED
    BY <1>1, <1>2, <1>3, <1>4, <2>2, <2>3, <2>4, <2>5, <2>6, OwnGroupStep
<1>5. CASE group[g] # "live"
  BY <1>2, <1>3, <1>5, RedisStep DEF SetActive, pg, TablesInv, TypeOK
<1> QED
  BY <1>4, <1>5

LEMMA DeleteMemberStep == ASSUME TablesInv, NEW w \in Workers, DeleteMember(w) PROVE TablesInv'
<1> DEFINE g == req[w].g
           a == req[w].a
<1>1. req[w].op = "leave" /\ req[w].at = "delete" /\ g \in Groups /\ a \in Accounts
  BY OpFacts DEF TablesInv, DeleteMember
<1>2. ~Creating(req[w]) /\ a # owner[g]
  BY <1>1 DEF Creating, TablesInv, LeaveInv, Leaving
<1>3. Goto(w, "srem") /\ "srem" \in Places
  BY DEF DeleteMember, Places
<1>4. /\ req' \in [Workers -> ReqType]
      /\ \A v \in Workers \ {w} : req'[v] = req[v]
      /\ req'[w].op = "leave" /\ req'[w].g = g /\ req'[w].a = a /\ req'[w].at = "srem"
      /\ UNCHANGED <<served, admitted, overlapped, abandoned>>
  BY <1>1, <1>3, GotoFacts DEF TablesInv
<1>5. /\ members' = [members EXCEPT ![g] = @ \ {a}]
      /\ UNCHANGED <<group, owner, active, invite, mirror, mirrorActive, subscribed, channel>>
  BY DEF DeleteMember, redis
<1> HIDE DEF g, a
<1>6. members'[g] = members[g] \ {a} /\ \A h \in Groups \ {g} : members'[h] = members[h]
  BY <1>1, <1>5 DEF TablesInv, TypeOK
<1>7. TypeOK'
  BY <1>1, <1>4, <1>5 DEF TablesInv, TypeOK, ReqType
<1>8. \A v \in Workers \ {w} : Creating(req[v]) => req[v].g # g
  BY <1>1, NotBeingCreated DEF g
<1>9. Moves(w)
  BY <1>1, <1>4, <1>8 DEF Moves, Creating, Leaving, Dissolving
<1>10. owner[g] \in members[g] => owner[g] \in members'[g]
  BY <1>2, <1>6 DEF g, a
<1>11. CASE group[g] = "live"
  BY <1>1, <1>2, <1>4, <1>5, <1>6, <1>7, <1>8, <1>9, <1>10, <1>11, OwnGroupStep
<1>12. CASE group[g] # "live"
  <2>1. members'[g] = members[g]
    BY <1>1, <1>6, <1>12 DEF TablesInv, TablesConsistent
  <2> QED
    BY <1>1, <1>2, <1>4, <1>5, <1>6, <1>7, <1>8, <1>9, <2>1, OwnGroupStep
<1> QED
  BY <1>11, <1>12

LEMMA WriteCountStep == ASSUME TablesInv, NEW w \in Workers, WriteCount(w) PROVE TablesInv'
<1> DEFINE g == req[w].g
           n == req[w].n + 1
           i == [status |-> IF n >= MaxUses THEN "expired" ELSE invite[g].status, uses |-> n]
<1>1. /\ req[w].op = "join" /\ req[w].at = "countWrite" /\ req[w] \in ReqType
      /\ g \in Groups /\ req[w].a \in Accounts
  BY OpFacts DEF TablesInv, WriteCount
<1>2. ~Creating(req[w]) /\ req[w].op # "idle" /\ req[w].op # "delete"
  BY <1>1 DEF Creating
<1>3. UNCHANGED <<mirror, mirrorActive, subscribed, channel>> /\ UNCHANGED <<group, owner, members, active>>
  BY DEF WriteCount, redis
<1>4. CASE invite[g] # None
  <2>1. Goto(w, "reload") /\ "reload" \in Places /\ invite' = [invite EXCEPT ![g] = i]
    BY <1>4 DEF WriteCount, Places
  <2>2. /\ req' \in [Workers -> ReqType]
        /\ \A v \in Workers \ {w} : req'[v] = req[v]
        /\ req'[w].op = req[w].op /\ req'[w].g = g /\ req'[w].a = req[w].a /\ req'[w].at = "reload"
        /\ UNCHANGED <<served, admitted, overlapped, abandoned>>
    BY <2>1, GotoFacts DEF TablesInv
  <2>3. n \in Nat
    BY <1>1 DEF ReqType
  <2>4. invite[g] \in [status : {"active", "expired"}, uses : Nat]
    BY <1>1, <1>4 DEF TablesInv, TypeOK
  <2>5. invite[g].status \in {"active", "expired"}
    BY <2>4
  <2> HIDE DEF n
  <2>6. i \in [status : {"active", "expired"}, uses : Nat]
    BY <2>3, <2>5
  <2>7. invite' \in [Groups -> [status : {"active", "expired"}, uses : Nat] \cup {None}]
    <3> HIDE DEF i
    <3> QED
      BY <1>1, <2>1, <2>6 DEF TablesInv, TypeOK
  <2>8. \A h \in Groups \ {g} : invite'[h] = invite[h]
    BY <1>1, <2>1 DEF TablesInv, TypeOK
  <2>9. group[g] = "live"
    BY <1>1, <1>4 DEF TablesInv, TablesConsistent
  <2> HIDE DEF g, i
  <2>10. TypeOK'
    BY <1>3, <2>2, <2>7 DEF TablesInv, TypeOK, ReqType
  <2>11. \A v \in Workers \ {w} : Creating(req[v]) => req[v].g # g
    BY <1>1, NotBeingCreated DEF g
  <2>12. Moves(w)
    BY <1>1, <1>2, <2>2, <2>11 DEF Moves, Creating, Leaving, Dissolving
  <2> QED
    BY <1>1, <1>2, <1>3, <2>2, <2>8, <2>9, <2>10, <2>11, <2>12, OwnGroupStep
<1>5. CASE invite[g] = None
  <2>1. Finish(w) /\ UNCHANGED invite
    BY <1>5 DEF WriteCount
  <2> QED
    BY <1>2, <1>3, <2>1, RedisStep DEF pg, TablesInv, TypeOK
<1> QED
  BY <1>4, <1>5

LEMMA ClearActiveStep == ASSUME TablesInv, NEW w \in Workers, ClearActive(w) PROVE TablesInv'
<1> DEFINE g == req[w].g
           a == req[w].a
<1>1. req[w].op = "leave" /\ req[w].at = "clearWrite" /\ g \in Groups /\ a \in Accounts
  BY OpFacts DEF TablesInv, ClearActive
<1>2. ~Creating(req[w]) /\ req[w].op # "idle" /\ req[w].op # "delete"
  BY <1>1 DEF Creating
<1>3. /\ UNCHANGED <<mirror, mirrorActive, subscribed, channel>>
      /\ UNCHANGED <<group, owner, members, invite>>
      /\ active' = [active EXCEPT ![a] = None]
  BY DEF ClearActive, redis
<1>4. Goto(w, "delKey") /\ "delKey" \in Places
  BY DEF ClearActive, Places
<1>5. /\ req' \in [Workers -> ReqType]
      /\ \A v \in Workers \ {w} : req'[v] = req[v]
      /\ req'[w].op = req[w].op /\ req'[w].g = g /\ req'[w].a = a /\ req'[w].at = "delKey"
      /\ UNCHANGED <<served, admitted, overlapped, abandoned>>
  BY <1>4, GotoFacts DEF TablesInv
<1> HIDE DEF g, a
<1>6. TypeOK'
  BY <1>1, <1>3, <1>5 DEF TablesInv, TypeOK, ReqType
<1>7. \A v \in Workers \ {w} : Creating(req[v]) => req[v].g # g
  BY <1>1, NotBeingCreated DEF g
<1>8. Moves(w)
  BY <1>1, <1>2, <1>5, <1>7 DEF Moves, Creating, Leaving, Dissolving
<1>9. \A h \in Groups, b \in Accounts : active'[b] = h => active[b] = h
  BY <1>1, <1>3, SharingAssumption DEF TablesInv, TypeOK
<1> QED
  BY <1>1, <1>2, <1>3, <1>5, <1>6, <1>7, <1>8, <1>9, OwnGroupStep

LEMMA DeleteRowsStep == ASSUME TablesInv, NEW w \in Workers, DeleteRows(w) PROVE TablesInv'
<1> DEFINE g == req[w].g
<1>1. req[w].op = "delete" /\ req[w].at = "commit" /\ g \in Groups /\ req[w].a \in Accounts
  BY OpFacts DEF TablesInv, DeleteRows
<1>2. ~Creating(req[w])
  BY <1>1 DEF Creating
<1>3. /\ group' = [group EXCEPT ![g] = "deleted"]
      /\ members' = [members EXCEPT ![g] = {}]
      /\ invite' = [invite EXCEPT ![g] = None]
      /\ active' = [a \in Accounts |-> IF active[a] = g THEN None ELSE active[a]]
      /\ UNCHANGED <<owner, mirror, mirrorActive, subscribed, channel>>
  BY DEF DeleteRows, redis
<1>4. Goto(w, "publish") /\ "publish" \in Places
  BY DEF DeleteRows, Places
<1>5. /\ req' \in [Workers -> ReqType]
      /\ \A v \in Workers \ {w} : req'[v] = req[v]
      /\ req'[w].op = "delete" /\ req'[w].g = g /\ req'[w].a = req[w].a /\ req'[w].at = "publish"
      /\ UNCHANGED <<served, admitted, overlapped, abandoned>>
  BY <1>1, <1>4, GotoFacts DEF TablesInv
<1> HIDE DEF g
<1>6. /\ group'[g] = "deleted" /\ members'[g] = {} /\ invite'[g] = None
      /\ \A a \in Accounts : active'[a] # g
      /\ \A h \in Groups \ {g} :
           /\ group'[h] = group[h] /\ members'[h] = members[h] /\ invite'[h] = invite[h]
           /\ \A a \in Accounts : active'[a] = h => active[a] = h
  BY <1>1, <1>3, SharingAssumption DEF TablesInv, TypeOK
<1>7. TypeOK'
  BY <1>1, <1>3, <1>5 DEF TablesInv, TypeOK, ReqType
<1>8. \A v \in Workers \ {w} : Creating(req[v]) => req[v].g # g
  BY <1>1, NotBeingCreated DEF g
<1>9. Moves(w)
  BY <1>1, <1>2, <1>5, <1>6, <1>8 DEF Moves, Creating, Leaving
<1> QED
  BY <1>1, <1>2, <1>3, <1>5, <1>6, <1>7, <1>8, <1>9, OwnGroupStep

----------------------------------------------------------------------------
(* Requests that start, and one that is cut short. *)

LEMMA TouchesTyped ==
  ASSUME NEW r, r.op # "idle" => r.a \in Accounts
  PROVE  Touches(r) \subseteq Accounts
BY DEF Touches

LEMMA StartFacts ==
  ASSUME TypeOK, NEW w \in Workers, NEW r \in ReqType, r.a \in Accounts, Start(w, r)
  PROVE  /\ req[w] = Idle /\ ~Creating(req[w])
         /\ req' \in [Workers -> ReqType]
         /\ \A v \in Workers \ {w} : req'[v] = req[v]
         /\ req'[w] = r
         /\ served' \in 0..MaxRequests
         /\ overlapped' \subseteq Accounts
<1>1. /\ req[w] = Idle /\ served < MaxRequests /\ served' = served + 1
      /\ overlapped' = overlapped \cup (Touches(r) \cap InFlight)
      /\ req' = [req EXCEPT ![w] = r]
  BY DEF Start
<1>2. ~Creating(req[w])
  BY <1>1, IdleTyped DEF Creating
<1>3. served' \in 0..MaxRequests
  BY <1>1, SharingAssumption DEF TypeOK
<1>4. overlapped' \subseteq Accounts
  BY <1>1, TouchesTyped DEF TypeOK
<1> QED
  BY <1>1, <1>2, <1>3, <1>4, ReplaceFacts

\* A request that starts and changes no table.
LEMMA QuietStartStep ==
  ASSUME TablesInv, NEW w \in Workers, NEW r \in ReqType, Start(w, r),
         r.op # "idle", r.g \in Groups, r.a \in Accounts,
         ~Creating(r), ~Dissolving(r), Leaving(r) => r.a # owner[r.g],
         members[r.g] # {},
         UNCHANGED pg, UNCHANGED redis, UNCHANGED <<admitted, abandoned>>
  PROVE  TablesInv'
<1>1. /\ req[w] = Idle /\ ~Creating(req[w])
      /\ req' \in [Workers -> ReqType]
      /\ \A v \in Workers \ {w} : req'[v] = req[v]
      /\ req'[w] = r
      /\ served' \in 0..MaxRequests
      /\ overlapped' \subseteq Accounts
  BY StartFacts DEF TablesInv
<1>2. UNCHANGED <<group, owner, members, active, invite, mirror, mirrorActive, subscribed, channel>>
  BY DEF pg, redis
<1>3. TypeOK'
  BY <1>1, <1>2 DEF TablesInv, TypeOK, ReqType
<1>4. \A v \in Workers \ {w} : Creating(req[v]) => req[v].g # r.g
  BY NotBeingCreated
<1>5. Moves(w)
  BY <1>1, <1>4 DEF Moves
<1> QED
  BY <1>1, <1>2, <1>3, <1>4, <1>5, OwnGroupStep

LEMMA StartLeaveStep ==
  ASSUME TablesInv, NEW w \in Workers, NEW g \in Groups, NEW a \in Accounts, StartLeave(w, g, a)
  PROVE  TablesInv'
<1> DEFINE r == Request("leave", "delete", g, a)
<1>1. r \in ReqType /\ r.op = "leave" /\ r.at = "delete" /\ r.g = g /\ r.a = a
  BY DEF Request, Idle, ReqType, Places
<1>2. /\ Start(w, r) /\ a # owner[g] /\ members[g] # {}
      /\ UNCHANGED pg /\ UNCHANGED redis /\ UNCHANGED <<admitted, abandoned>>
  BY DEF StartLeave
<1> HIDE DEF r
<1>3. ~Creating(r) /\ ~Dissolving(r)
  BY <1>1 DEF Creating, Dissolving
<1> QED
  BY <1>1, <1>2, <1>3, QuietStartStep

LEMMA StartSwitchStep ==
  ASSUME TablesInv, NEW w \in Workers, NEW g \in Groups, NEW a \in Accounts, StartSwitch(w, g, a)
  PROVE  TablesInv'
<1> DEFINE r == Request("switch", "activate", g, a)
<1>1. r \in ReqType /\ r.op = "switch" /\ r.at = "activate" /\ r.g = g /\ r.a = a
  BY DEF Request, Idle, ReqType, Places
<1>2. /\ Start(w, r) /\ members[g] # {}
      /\ UNCHANGED pg /\ UNCHANGED redis /\ UNCHANGED <<admitted, abandoned>>
  BY DEF StartSwitch
<1> HIDE DEF r
<1>3. ~Creating(r) /\ ~Dissolving(r) /\ ~Leaving(r)
  BY <1>1 DEF Creating, Dissolving, Leaving
<1> QED
  BY <1>1, <1>2, <1>3, QuietStartStep

LEMMA StartDeleteStep ==
  ASSUME TablesInv, NEW w \in Workers, NEW g \in Groups, StartDelete(w, g)
  PROVE  TablesInv'
<1> DEFINE r == [Request("delete", "listActive", g, owner[g]) EXCEPT !.todo = members[g]]
<1>1. members[g] \in SUBSET Accounts /\ owner[g] \in Accounts /\ members[g] # {}
  BY DEF StartDelete, TablesInv, TypeOK
<1>2. r \in ReqType /\ r.op = "delete" /\ r.at = "listActive" /\ r.g = g /\ r.a = owner[g]
  BY <1>1 DEF Request, Idle, ReqType, Places
<1>3. Start(w, r) /\ UNCHANGED pg /\ UNCHANGED redis /\ UNCHANGED <<admitted, abandoned>>
  BY DEF StartDelete
<1> HIDE DEF r
<1>4. ~Creating(r) /\ ~Dissolving(r) /\ ~Leaving(r)
  BY <1>2 DEF Creating, Dissolving, Leaving
<1> QED
  BY <1>1, <1>2, <1>3, <1>4, QuietStartStep

LEMMA StartCreateStep ==
  ASSUME TablesInv, NEW w \in Workers, NEW g \in Groups, NEW a \in Accounts, StartCreate(w, g, a)
  PROVE  TablesInv'
<1> DEFINE r == Request("create", "insert", g, a)
<1>1. r \in ReqType /\ r.op = "create" /\ r.at = "insert" /\ r.g = g /\ r.a = a
  BY DEF Request, Idle, ReqType, Places
<1>2. /\ Start(w, r) /\ group[g] = "unborn" /\ \A v \in Workers : req[v].g # g
      /\ UNCHANGED <<group, owner, members, active, invite, mirror, mirrorActive, subscribed, channel>>
      /\ UNCHANGED <<admitted, abandoned>>
  BY DEF StartCreate, pg, redis
<1> HIDE DEF r
<1>3. /\ req[w] = Idle /\ ~Creating(req[w])
      /\ req' \in [Workers -> ReqType]
      /\ \A v \in Workers \ {w} : req'[v] = req[v]
      /\ req'[w] = r
      /\ served' \in 0..MaxRequests
      /\ overlapped' \subseteq Accounts
  BY <1>1, <1>2, StartFacts DEF TablesInv
<1>4. TypeOK'
  BY <1>2, <1>3 DEF TablesInv, TypeOK, ReqType
<1>5. ReqInv'
  BY <1>1, <1>3 DEF TablesInv, ReqInv
<1>6. CreateInv'
  <2> SUFFICES ASSUME NEW v \in Workers, Creating(req'[v])
               PROVE  /\ req'[v].at = "insert" => group'[req'[v].g] = "unborn"
                      /\ req'[v].at = "addOwner" =>
                           /\ group'[req'[v].g] = "live" /\ owner'[req'[v].g] = req'[v].a
                           /\ members'[req'[v].g] = {} /\ invite'[req'[v].g] = None
                      /\ \A u \in Workers \ {v} : req'[u].g # req'[v].g
    BY DEF CreateInv, Creating
  <2>1. CASE v = w
    BY <2>1, <1>1, <1>2, <1>3
  <2>2. CASE v # w
    <3>1. req'[v] = req[v] /\ Creating(req[v])
      BY <2>2, <1>3
    <3>2. \A u \in Workers \ {v} : req'[u].g # req'[v].g
      BY <2>2, <3>1, <1>1, <1>2, <1>3 DEF TablesInv, CreateInv
    <3> QED
      BY <3>1, <3>2, <1>2 DEF TablesInv, CreateInv
  <2> QED
    BY <2>1, <2>2
<1>7. LeaveInv'
  BY <1>1, <1>2, <1>3 DEF TablesInv, LeaveInv, Leaving
<1>8. DeleteInv'
  BY <1>1, <1>2, <1>3 DEF TablesInv, DeleteInv, Dissolving
<1>9. \A g_1 \in Groups :
         \/ /\ group'[g_1] = group[g_1] /\ members'[g_1] = members[g_1] /\ invite'[g_1] = invite[g_1]
            /\ \A b \in Accounts : active'[b] = g_1 => active[b] = g_1
  BY <1>2
<1>10. TablesConsistent'
  BY <1>2, <1>3, <1>9, ConsistentStep
<1> QED
  BY <1>4, <1>5, <1>6, <1>7, <1>8, <1>10 DEF TablesInv

LEMMA AdmitStep ==
  ASSUME TablesInv, NEW w \in Workers, NEW g \in Groups, NEW a \in Accounts, Admit(w, g, a)
  PROVE  TablesInv'
<1> DEFINE r == Request("join", "countRead", g, a)
<1>1. r \in ReqType /\ r.op = "join" /\ r.at = "countRead" /\ r.g = g /\ r.a = a
  BY DEF Request, Idle, ReqType, Places
<1>2. /\ Start(w, r) /\ invite[g] # None
      /\ members' = [members EXCEPT ![g] = @ \cup {a}]
      /\ admitted' = [admitted EXCEPT ![g] = @ + 1]
      /\ UNCHANGED <<group, owner, active, invite, mirror, mirrorActive, subscribed, channel, abandoned>>
  BY DEF Admit, redis
<1> HIDE DEF r
<1>3. /\ req[w] = Idle /\ ~Creating(req[w])
      /\ req' \in [Workers -> ReqType]
      /\ \A v \in Workers \ {w} : req'[v] = req[v]
      /\ req'[w] = r
      /\ served' \in 0..MaxRequests
      /\ overlapped' \subseteq Accounts
  BY <1>1, <1>2, StartFacts DEF TablesInv
<1>4. admitted' \in [Groups -> Nat]
  BY <1>2 DEF TablesInv, TypeOK
<1>5. /\ members' \in [Groups -> SUBSET Accounts]
      /\ members'[g] = members[g] \cup {a}
      /\ \A h \in Groups \ {g} : members'[h] = members[h]
  BY <1>2 DEF TablesInv, TypeOK
<1>6. TypeOK'
  BY <1>2, <1>3, <1>4, <1>5 DEF TablesInv, TypeOK, ReqType
<1>7. group[g] = "live"
  BY <1>2 DEF TablesInv, TablesConsistent
<1>8. \A v \in Workers \ {w} : Creating(req[v]) => req[v].g # g
  BY <1>2, NotBeingCreated
<1>9. Moves(w)
  BY <1>1, <1>3, <1>8 DEF Moves, Creating, Leaving, Dissolving
<1> QED
  BY <1>2, <1>3, <1>5, <1>6, <1>7, <1>8, <1>9, OwnGroupStep

\* The foreign keys hold for a request cut short too: the only table it can leave
\* wanting is that of a new group's members.
LEMMA AbortStep == ASSUME TablesInv, NEW w \in Workers, Abort(w) PROVE TablesInv'
<1>1. /\ req[w] # Idle /\ abandoned = {} /\ abandoned' = Touches(req[w])
      /\ req' = [req EXCEPT ![w] = Idle]
      /\ UNCHANGED <<group, owner, members, active, invite, mirror, mirrorActive, subscribed, channel>>
      /\ UNCHANGED <<served, admitted, overlapped>>
  BY DEF Abort, pg, redis
<1>2. /\ req' \in [Workers -> ReqType]
      /\ \A v \in Workers \ {w} : req'[v] = req[v]
      /\ req'[w] = Idle
  BY <1>1, ReplaceFacts, IdleTyped DEF TablesInv
<1>3. abandoned' \subseteq Accounts
  BY <1>1, TouchesTyped DEF TablesInv, ReqInv
<1>4. TypeOK'
  BY <1>1, <1>2, <1>3 DEF TablesInv, TypeOK, ReqType
<1>5. \A v \in Workers \ {w} : Creating(req[v]) => None # req[v].g
  BY SharingAssumption DEF TablesInv, ReqInv, Creating
<1>6. Moves(w)
  BY <1>2, <1>5, IdleTyped DEF Moves, Creating, Leaving, Dissolving
<1>7. ReqInv' /\ CreateInv' /\ LeaveInv' /\ DeleteInv'
  BY <1>1, <1>6, MoveStep
<1>8. TablesConsistent'
  <2> SUFFICES ASSUME NEW h \in Groups
               PROVE  /\ group'[h] # "live" =>
                           members'[h] = {} /\ invite'[h] = None /\ \A b \in Accounts : active'[b] # h
                      /\ group'[h] = "live" =>
                           \/ owner'[h] \in members'[h]
                           \/ owner'[h] \in abandoned'
                           \/ \E v \in Workers : At(v, {"create"}, "addOwner")' /\ req'[v].g = h
    BY DEF TablesConsistent
  <2>1. ASSUME NEW v \in Workers, v # w, At(v, {"create"}, "addOwner"), req[v].g = h
        PROVE  At(v, {"create"}, "addOwner")' /\ req'[v].g = h
    BY <2>1, <1>2 DEF At
  <2>2. ASSUME At(w, {"create"}, "addOwner"), req[w].g = h
        PROVE  owner'[h] \in abandoned'
    <3>1. Creating(req[w]) /\ req[w].op = "create" /\ req[w].at = "addOwner"
      BY <2>2 DEF At, Creating
    <3>2. owner[h] = req[w].a
      BY <2>2, <3>1 DEF TablesInv, CreateInv
    <3>3. Touches(req[w]) = {req[w].a}
      BY <3>1 DEF Touches
    <3> QED
      BY <3>2, <3>3, <1>1
  <2> QED
    BY <2>1, <2>2, <1>1 DEF TablesInv, TablesConsistent
<1> QED
  BY <1>4, <1>7, <1>8 DEF TablesInv

LEMMA CreateInviteStep == ASSUME TablesInv, NEW g \in Groups, CreateInvite(g) PROVE TablesInv'
<1>1. /\ group[g] = "live" /\ members[g] # {}
      /\ invite' = [invite EXCEPT ![g] = [status |-> "active", uses |-> 0]]
      /\ UNCHANGED <<group, owner, members, active, mirror, mirrorActive, subscribed, channel, req>>
      /\ UNCHANGED <<served, admitted, overlapped, abandoned>>
  BY DEF CreateInvite, redis, ghosts
<1>2. [status |-> "active", uses |-> 0] \in [status : {"active", "expired"}, uses : Nat]
  OBVIOUS
<1>3. /\ invite' \in [Groups -> [status : {"active", "expired"}, uses : Nat] \cup {None}]
      /\ \A h \in Groups \ {g} : invite'[h] = invite[h]
  BY <1>1, <1>2 DEF TablesInv, TypeOK
<1>4. TypeOK'
  BY <1>1, <1>3 DEF TablesInv, TypeOK
<1>5. \A v \in Workers : Creating(req[v]) => req[v].g \in Groups \ {g}
  BY <1>1, NotBeingCreated DEF TablesInv, ReqInv, Creating
<1>6. CreateInv'
  BY <1>1, <1>3, <1>5 DEF TablesInv, CreateInv, Creating
<1>7. ReqInv' /\ LeaveInv' /\ DeleteInv'
  BY <1>1 DEF TablesInv, ReqInv, LeaveInv, DeleteInv, Leaving, Dissolving
<1>8. TablesConsistent'
  BY <1>1, <1>3 DEF TablesInv, TablesConsistent, At
<1> QED
  BY <1>4, <1>6, <1>7, <1>8 DEF TablesInv

----------------------------------------------------------------------------

LEMMA InitTables == Init => TablesInv
<1> SUFFICES ASSUME Init PROVE TablesInv
  OBVIOUS
<1>1. \A w \in Workers : req[w] = Idle
  BY DEF Init
<1>2. \A w \in Workers : ~Creating(req[w]) /\ ~Leaving(req[w]) /\ ~Dissolving(req[w])
  BY <1>1, IdleTyped DEF Creating, Leaving, Dissolving
<1>3. TypeOK
  <2>1. req \in [Workers -> ReqType]
    BY IdleTyped DEF Init
  <2>2. served \in 0..MaxRequests
    BY SharingAssumption DEF Init
  <2>3. members \in [Groups -> SUBSET Accounts]
    BY SharingAssumption DEF Init
  <2>4. channel \in Seq(Groups \X Accounts)
    BY DEF Init
  <2> QED
    BY <2>1, <2>2, <2>3, <2>4, SharingAssumption DEF Init, TypeOK, ReqType
<1>4. ReqInv
  BY <1>1, IdleTyped DEF ReqInv
<1>5. CreateInv /\ LeaveInv /\ DeleteInv
  BY <1>2 DEF CreateInv, LeaveInv, DeleteInv
<1>6. TablesConsistent
  BY SharingAssumption DEF Init, TablesConsistent
<1> QED
  BY <1>3, <1>4, <1>5, <1>6 DEF TablesInv

LEMMA RequestStep ==
  ASSUME TablesInv, NEW w \in Workers, Step(w)
  PROVE  TablesInv'
BY InsertGroupStep, InsertOwnerStep, AddToMirrorStep, SetActiveStep, SetActiveKeyStep,
   ReadCountStep, WriteCountStep, ReloadInviteStep, DeleteMemberStep, RemoveFromMirrorStep,
   PublishLeaveStep, ReadActiveStep, ClearActiveStep, DeleteActiveKeyStep, ListActiveStep,
   DeleteRowsStep, DeleteEndsStep, PublishDeleteStep, ClearActiveKeyStep, DeleteMembersKeyStep
   DEF Step

LEMMA NewRequestStep ==
  ASSUME TablesInv, NEW w \in Workers, NewRequest(w)
  PROVE  TablesInv'
BY StartDeleteStep, StartCreateStep, AdmitStep, StartLeaveStep, StartSwitchStep DEF NewRequest

LEMMA NextTables == TablesInv /\ [Next]_sharingVars => TablesInv'
<1> SUFFICES ASSUME TablesInv, [Next]_sharingVars PROVE TablesInv'
  OBVIOUS
<1>1. CASE Next
  BY <1>1, RequestStep, NewRequestStep, AbortStep, CreateInviteStep DEF Next
<1>2. CASE UNCHANGED sharingVars
  <2>1. UNCHANGED <<group, owner, members, active, invite, mirror, mirrorActive, subscribed, channel>>
    BY <1>2 DEF sharingVars, pg, redis
  <2>2. UNCHANGED <<req, served, admitted, overlapped, abandoned>>
    BY <1>2 DEF sharingVars, ghosts
  <2> QED
    BY <2>1, <2>2 DEF TablesInv, TypeOK, ReqInv, CreateInv, LeaveInv, DeleteInv, TablesConsistent,
                      Creating, Leaving, Dissolving, At
<1> QED
  BY <1>1, <1>2

LEMMA SharingTables == Spec => []TablesInv
BY InitTables, NextTables, PTL DEF Spec

\* The tables, the mirror, the channel and the requests keep their types, for any
\* accounts, groups, threads and limits.
THEOREM SharingTypeCorrect == Spec => []TypeOK
<1>1. TablesInv => TypeOK
  BY DEF TablesInv
<1> QED
  BY <1>1, SharingTables, PTL

\* Whatever requests of sharing_service interleave, and wherever one is cut short:
\* a group that does not exist has no members, no invite and is nobody's active
\* group, and one that exists has its owner among its members, unless the request
\* that creates it has not come that far or was cut short.
THEOREM SharingTablesConsistent == Spec => []TablesConsistent
<1>1. TablesInv => TablesConsistent
  BY DEF TablesInv
<1> QED
  BY <1>1, SharingTables, PTL
----------------------------------------------------------------------------
(***************************************************************************)
(* The mirror in Redis against the tables of Postgres.                     *)
(*                                                                         *)
(* MirrorAgrees speaks of accounts at rest.  AccountInv adds what is true  *)
(* of an account while one request deals with it, place by place, and      *)
(* OverlapInv that a second one makes the account overlapped.              *)
(***************************************************************************)

\* What the tables and the keys say of one account.
SetsAgree(a) == \A g \in Groups : a \in mirror[g] <=> a \in members[g]
SetsAgreeBut(a, h) == \A g \in Groups \ {h} : a \in mirror[g] <=> a \in members[g]
KeyAgrees(a) == mirrorActive[a] = active[a]
InOwn(a) == active[a] # None => a \in members[active[a]]
Agrees(a) == SetsAgree(a) /\ KeyAgrees(a) /\ InOwn(a)

\* The key of a's active group, while delete_group clears the keys.
KeyCleared(w, a) == IF a \in req[w].clear THEN active[a] = None ELSE KeyAgrees(a)

AtSome(w, ops, places) == req[w].op \in ops /\ req[w].at \in places

\* What is true of a while w serves the only request that deals with it.
Placed(w) ==
    \/ AtSome(w, {"create"}, {"insert", "addOwner", "sadd", "activate", "setKey"})
    \/ AtSome(w, {"join"}, {"countRead", "countWrite", "reload", "sadd", "activate", "setKey"})
    \/ AtSome(w, {"leave"}, {"delete", "srem", "publish", "clear", "clearWrite", "delKey"})
    \/ AtSome(w, {"switch"}, {"activate", "setKey"})
    \/ AtSome(w, {"delete"}, {"listActive", "commit", "publish", "delKey"})

Creates(w, a) == At(w, {"create"}, "insert") \/ At(w, {"create"}, "addOwner") => Agrees(a)

Joins(w, a) ==
    AtSome(w, {"join"}, {"countRead", "countWrite", "reload"}) \/ At(w, {"create", "join"}, "sadd")
       => /\ a \in members[req[w].g] /\ group[req[w].g] = "live"
          /\ req[w].op = "join" => invite[req[w].g] # None
          /\ SetsAgreeBut(a, req[w].g) /\ KeyAgrees(a) /\ InOwn(a)

Activates(w, a) ==
    /\ At(w, {"create", "join", "switch"}, "activate") =>
         a \in members[req[w].g] /\ group[req[w].g] = "live" /\ Agrees(a)
    /\ At(w, {"create", "join", "switch"}, "setKey") =>
         a \in members[req[w].g] /\ active[a] = req[w].g /\ SetsAgree(a)

Leaves(w, a) ==
    /\ At(w, {"leave"}, "delete") => group[req[w].g] = "live" /\ Agrees(a)
    /\ AtSome(w, {"leave"}, {"srem", "publish", "clear", "clearWrite"})
       => /\ a \notin members[req[w].g] /\ group[req[w].g] = "live"
          /\ SetsAgreeBut(a, req[w].g) /\ KeyAgrees(a)
          /\ active[a] # req[w].g => InOwn(a)
          /\ req[w].at # "srem" => a \notin mirror[req[w].g]
          /\ req[w].at = "clearWrite" => active[a] = req[w].g
    /\ At(w, {"leave"}, "delKey") => SetsAgree(a) /\ active[a] = None

Deletes(w, a) ==
    /\ At(w, {"delete"}, "listActive") \/ At(w, {"delete"}, "commit")
       => /\ Agrees(a) /\ (a \in members[req[w].g] <=> a \in req[w].todo)
          /\ req[w].at = "commit" => (a \in req[w].clear <=> active[a] = req[w].g)
    /\ At(w, {"delete"}, "publish") \/ At(w, {"delete"}, "delKey")
       => /\ a \notin members[req[w].g] /\ InOwn(a) /\ KeyCleared(w, a)
          /\ SetsAgreeBut(a, req[w].g)
          /\ req[w].at = "delKey" => a \notin mirror[req[w].g]

Under(w, a) ==
    /\ Placed(w)
    /\ Creates(w, a) /\ Joins(w, a) /\ Activates(w, a) /\ Leaves(w, a) /\ Deletes(w, a)

\* Two requests that deal with one account overlap.
OverlapInv ==
    \A v, w \in Workers : v # w => Touches(req[v]) \cap Touches(req[w]) \subseteq overlapped

AccountInv ==
    \A a \in Accounts \ (overlapped \cup abandoned) :
        /\ (\A w \in Workers : a \notin Touches(req[w])) => Agrees(a)
        /\ \A w \in Workers : a \in Touches(req[w]) => Under(w, a)

MirrorInv == TablesInv /\ OverlapInv /\ AccountInv

----------------------------------------------------------------------------
(* Which accounts a request deals with. *)

LEMMA TouchesWhat ==
  ASSUME NEW r
  PROVE  /\ r.op = "idle" => Touches(r) = {}
         /\ r.op = "delete" => Touches(r) = Accounts
         /\ r.op \in {"create", "join", "leave", "switch"} => Touches(r) = {r.a}
BY DEF Touches

LEMMA InFlightWhat ==
  ASSUME NEW a
  PROVE  a \in InFlight <=> \E w \in Workers : a \in Touches(req[w])
BY DEF InFlight

\* The tables and the keys say of a what they said.
Same(a) ==
    /\ active'[a] = active[a] /\ mirrorActive'[a] = mirrorActive[a]
    /\ \A g \in Groups : (a \in members'[g] <=> a \in members[g]) /\ (a \in mirror'[g] <=> a \in mirror[g])

\* No group ends, and no invite goes.
NothingEnds ==
    \A g \in Groups :
        /\ group[g] = "live" => group'[g] = "live"
        /\ invite[g] # None => invite'[g] # None

LEMMA SameAgrees ==
  ASSUME TypeOK, NEW a \in Accounts, Same(a)
  PROVE  /\ SetsAgree(a) => SetsAgree(a)'
         /\ \A g \in Groups : SetsAgreeBut(a, g) => SetsAgreeBut(a, g)'
         /\ KeyAgrees(a) => KeyAgrees(a)'
         /\ InOwn(a) => InOwn(a)'
         /\ Agrees(a) => Agrees(a)'
<1>1. active[a] \in Groups \cup {None}
  BY DEF TypeOK
<1>2. SetsAgree(a) => SetsAgree(a)'
  BY DEF Same, SetsAgree
<1>3. \A g \in Groups : SetsAgreeBut(a, g) => SetsAgreeBut(a, g)'
  BY DEF Same, SetsAgreeBut
<1>4. KeyAgrees(a) => KeyAgrees(a)'
  BY DEF Same, KeyAgrees
<1>5. InOwn(a) => InOwn(a)'
  BY <1>1 DEF Same, InOwn
<1> QED
  BY <1>2, <1>3, <1>4, <1>5 DEF Agrees

\* Another request goes on: what is true of its account stays true.
LEMMA SameUnder ==
  ASSUME TypeOK, NEW a \in Accounts, NEW v \in Workers,
         Same(a), NothingEnds, req'[v] = req[v], req[v].g \in Groups, Under(v, a)
  PROVE  Under(v, a)'
<1> DEFINE g == req[v].g
<1>1. /\ SetsAgree(a) => SetsAgree(a)'
      /\ \A h \in Groups : SetsAgreeBut(a, h) => SetsAgreeBut(a, h)'
      /\ KeyAgrees(a) => KeyAgrees(a)'
      /\ InOwn(a) => InOwn(a)'
      /\ Agrees(a) => Agrees(a)'
  BY SameAgrees
<1>2. SetsAgreeBut(a, req[v].g) => SetsAgreeBut(a, req[v].g)'
  <2>1. ASSUME NEW h \in Groups, h = req[v].g, SetsAgreeBut(a, h) PROVE SetsAgreeBut(a, req[v].g)'
    <3>1. SetsAgreeBut(a, h)'
      BY <1>1, <2>1
    <3> QED
      BY <2>1, <3>1 DEF SetsAgreeBut
  <2> QED
    BY <2>1
<1>3. /\ a \in members'[req[v].g] <=> a \in members[req[v].g]
      /\ a \in mirror'[req[v].g] <=> a \in mirror[req[v].g]
      /\ active'[a] = active[a]
      /\ group[req[v].g] = "live" => group'[req[v].g] = "live"
      /\ invite[req[v].g] # None => invite'[req[v].g] # None
  BY DEF Same, NothingEnds
<1>4. KeyCleared(v, a) => KeyCleared(v, a)'
  BY <1>1, <1>3 DEF KeyCleared
<1>5. Placed(v)' /\ Creates(v, a)'
  BY <1>1 DEF Under, Placed, Creates, At, AtSome
<1>6. Joins(v, a)'
  BY <1>1, <1>2, <1>3 DEF Under, Joins, At, AtSome
<1>7. Activates(v, a)'
  BY <1>1, <1>3 DEF Under, Activates, At
<1>8. Leaves(v, a)'
  BY <1>1, <1>2, <1>3 DEF Under, Leaves, At, AtSome
<1>9. Deletes(v, a)'
  BY <1>1, <1>2, <1>3, <1>4 DEF Under, Deletes, At
<1> QED
  BY <1>5, <1>6, <1>7, <1>8, <1>9 DEF Under

----------------------------------------------------------------------------
(* What a step of one worker has to show. *)

\* Others are left alone; of the accounts w deals with, before or after, the
\* invariant has to be shown.
LEMMA FrameStep ==
  ASSUME MirrorInv, TablesInv', NEW w \in Workers,
         overlapped \subseteq overlapped', abandoned \subseteq abandoned',
         \A v \in Workers \ {w} : req'[v] = req[v],
         \A v \in Workers \ {w} : Touches(req'[w]) \cap Touches(req[v]) \subseteq overlapped',
         \A a \in Accounts \ (Touches(req[w]) \cup Touches(req'[w])) : Same(a) /\ NothingEnds,
         \A a \in Touches(req[w]) \cup Touches(req'[w]) :
           a \notin overlapped' \cup abandoned' =>
             IF a \in Touches(req'[w]) THEN Under(w, a)' ELSE Agrees(a)'
  PROVE  MirrorInv'
<1>1. OverlapInv'
  <2> SUFFICES ASSUME NEW u \in Workers, NEW v \in Workers, u # v
               PROVE  Touches(req'[u]) \cap Touches(req'[v]) \subseteq overlapped'
    BY DEF OverlapInv, Touches
  <2>1. CASE u = w
    BY <2>1
  <2>2. CASE v = w
    BY <2>2
  <2>3. CASE u # w /\ v # w
    BY <2>3 DEF MirrorInv, OverlapInv
  <2> QED
    BY <2>1, <2>2, <2>3
<1>2. ASSUME NEW a \in Accounts, a \notin overlapped' \cup abandoned'
      PROVE  /\ (\A v \in Workers : a \notin Touches(req'[v])) => Agrees(a)'
             /\ \A v \in Workers : a \in Touches(req'[v]) => Under(v, a)'
  <2>1. a \notin overlapped \cup abandoned
    BY <1>2
  <2>2. CASE a \in Touches(req'[w])
    <3>1. \A v \in Workers \ {w} : a \notin Touches(req'[v])
      BY <2>2, <1>2
    <3> QED
      BY <3>1, <2>2, <1>2
  <2>3. CASE a \in Touches(req[w]) /\ a \notin Touches(req'[w])
    <3>1. \A v \in Workers \ {w} : a \notin Touches(req'[v])
      BY <2>1, <2>3 DEF MirrorInv, OverlapInv
    <3> QED
      BY <3>1, <2>3, <1>2
  <2>4. CASE a \notin Touches(req[w]) /\ a \notin Touches(req'[w])
    <3>1. Same(a) /\ NothingEnds
      BY <2>4
    <3>2. TypeOK
      BY DEF MirrorInv, TablesInv
    <3>3. (\A v \in Workers : a \notin Touches(req'[v])) => Agrees(a)'
      <4>1. (\A v \in Workers : a \notin Touches(req'[v])) => \A v \in Workers : a \notin Touches(req[v])
        BY <2>4
      <4> QED
        BY <4>1, <2>1, <3>1, <3>2, SameAgrees DEF MirrorInv, AccountInv
    <3>4. ASSUME NEW v \in Workers, a \in Touches(req'[v]) PROVE Under(v, a)'
      <4>1. v # w /\ req'[v] = req[v] /\ a \in Touches(req[v])
        BY <3>4, <2>4
      <4>2. req[v].op # "idle"
        BY <4>1, TouchesWhat
      <4>3. req[v].g \in Groups
        BY <4>2 DEF MirrorInv, TablesInv, ReqInv
      <4>4. Under(v, a)
        BY <4>1, <2>1 DEF MirrorInv, AccountInv
      <4> QED
        BY <4>1, <4>3, <4>4, <3>1, <3>2, SameUnder
    <3> QED
      BY <3>3, <3>4
  <2> QED
    BY <2>2, <2>3, <2>4
<1>3. AccountInv'
  BY <1>2 DEF AccountInv, Touches
<1> QED
  BY <1>1, <1>3 DEF MirrorInv

\* A step of a request that deals with one account, b.
LEMMA OneStep ==
  ASSUME MirrorInv, TablesInv', NEW w \in Workers, NEW b \in Accounts, b = req[w].a,
         req[w].op \in {"create", "join", "leave", "switch"},
         \A v \in Workers \ {w} : req'[v] = req[v],
         UNCHANGED <<overlapped, abandoned>>,
         \/ req'[w] = Idle /\ (Under(w, b) => Agrees(b)')
         \/ req'[w].op = req[w].op /\ req'[w].a = req[w].a /\ (Under(w, b) => Under(w, b)'),
         \A a \in Accounts \ {b} : Same(a),
         NothingEnds
  PROVE  MirrorInv'
<1>1. Touches(req[w]) = {b}
  BY TouchesWhat
<1>2. Touches(req'[w]) = {} \/ Touches(req'[w]) = {b}
  BY TouchesWhat, IdleTyped
<1>3. b \notin overlapped \cup abandoned => Under(w, b)
  BY <1>1 DEF MirrorInv, AccountInv
<1>4. b \notin overlapped' \cup abandoned' =>
         IF b \in Touches(req'[w]) THEN Under(w, b)' ELSE Agrees(b)'
  <2>1. CASE req'[w] = Idle /\ (Under(w, b) => Agrees(b)')
    BY <2>1, <1>3, TouchesWhat, IdleTyped
  <2>2. CASE req'[w].op = req[w].op /\ req'[w].a = req[w].a /\ (Under(w, b) => Under(w, b)')
    <3>1. Touches(req'[w]) = {b}
      BY <2>2, TouchesWhat
    <3> QED
      BY <2>2, <3>1, <1>3
  <2> QED
    BY <2>1, <2>2
<1>5. \A v \in Workers \ {w} : Touches(req'[w]) \cap Touches(req[v]) \subseteq overlapped'
  BY <1>1, <1>2 DEF MirrorInv, OverlapInv
<1> QED
  BY <1>1, <1>2, <1>4, <1>5, FrameStep

\* A request for one account starts: the account was at rest, or is overlapped.
LEMMA BeginStep ==
  ASSUME MirrorInv, TablesInv', NEW w \in Workers, NEW r \in ReqType, NEW b \in Accounts, b = r.a,
         Start(w, r), r.op \in {"create", "join", "leave", "switch"}, UNCHANGED abandoned,
         Agrees(b) => Under(w, b)',
         \A a \in Accounts \ {b} : Same(a),
         NothingEnds
  PROVE  MirrorInv'
<1>1. /\ req[w] = Idle /\ req'[w] = r
      /\ \A v \in Workers \ {w} : req'[v] = req[v]
  BY StartFacts DEF MirrorInv, TablesInv
<1>2. overlapped' = overlapped \cup (Touches(r) \cap InFlight)
  BY DEF Start
<1>3. Touches(req[w]) = {} /\ Touches(req'[w]) = {b}
  BY <1>1, TouchesWhat, IdleTyped
<1>4. \A v \in Workers \ {w} : Touches(req'[w]) \cap Touches(req[v]) \subseteq overlapped'
  BY <1>1, <1>2, InFlightWhat
<1>5. b \notin overlapped' \cup abandoned' => Agrees(b)
  BY <1>1, <1>2, <1>3, InFlightWhat DEF MirrorInv, AccountInv
<1> QED
  BY <1>1, <1>2, <1>3, <1>4, <1>5, FrameStep

----------------------------------------------------------------------------
(* create_group and join_group *)

LEMMA InsertGroupMirror == ASSUME MirrorInv, NEW w \in Workers, InsertGroup(w) PROVE MirrorInv'
<1>1. PICK b \in Accounts, h \in Groups : b = req[w].a /\ h = req[w].g
  BY OpFacts DEF MirrorInv, TablesInv, InsertGroup
<1>2. /\ req[w].op = "create" /\ req[w].at = "insert"
      /\ Goto(w, "addOwner") /\ "addOwner" \in Places
      /\ group' = [group EXCEPT ![h] = "live"]
      /\ UNCHANGED <<members, active, invite, mirror, mirrorActive>>
  BY <1>1 DEF InsertGroup, At, Places, redis
<1>3. /\ \A v \in Workers \ {w} : req'[v] = req[v]
      /\ req'[w].op = "create" /\ req'[w].g = h /\ req'[w].a = b /\ req'[w].at = "addOwner"
      /\ UNCHANGED <<overlapped, abandoned>>
  BY <1>1, <1>2, GotoFacts DEF MirrorInv, TablesInv
<1>4. TablesInv'
  BY InsertGroupStep DEF MirrorInv
<1>5. NothingEnds
  BY <1>2 DEF NothingEnds, MirrorInv, TablesInv, TypeOK
<1>6. \A a \in Accounts : Same(a)
  BY <1>2 DEF Same
<1>7. Under(w, b) => Under(w, b)'
  <2> SUFFICES ASSUME Under(w, b) PROVE Under(w, b)'
    OBVIOUS
  <2>1. Agrees(b)
    BY <1>2 DEF Under, Creates, At
  <2>2. Agrees(b)'
    BY <2>1, <1>6, SameAgrees DEF MirrorInv, TablesInv
  <2> QED
    BY <2>2, <1>3 DEF Under, Placed, Creates, Joins, Activates, Leaves, Deletes, At, AtSome
<1> QED
  BY <1>1, <1>2, <1>3, <1>4, <1>5, <1>6, <1>7, OneStep

\* The owner's row: the owner is the one account whose membership changes.
LEMMA InsertOwnerMirror == ASSUME MirrorInv, NEW w \in Workers, InsertOwner(w) PROVE MirrorInv'
<1>1. PICK b \in Accounts, h \in Groups : b = req[w].a /\ h = req[w].g
  BY OpFacts DEF MirrorInv, TablesInv, InsertOwner
<1>2. /\ req[w].op = "create" /\ req[w].at = "addOwner"
      /\ Goto(w, "sadd") /\ "sadd" \in Places
      /\ members' = [members EXCEPT ![h] = @ \cup {b}]
      /\ UNCHANGED <<group, active, invite, mirror, mirrorActive>>
  BY <1>1 DEF InsertOwner, At, Places, redis
<1>3. /\ \A v \in Workers \ {w} : req'[v] = req[v]
      /\ req'[w].op = "create" /\ req'[w].g = h /\ req'[w].a = b /\ req'[w].at = "sadd"
      /\ UNCHANGED <<overlapped, abandoned>>
  BY <1>1, <1>2, GotoFacts DEF MirrorInv, TablesInv
<1>4. TablesInv'
  BY InsertOwnerStep DEF MirrorInv
<1>5. NothingEnds
  BY <1>2 DEF NothingEnds
<1>6. /\ members'[h] = members[h] \cup {b}
      /\ \A g \in Groups \ {h} : members'[g] = members[g]
  BY <1>2 DEF MirrorInv, TablesInv, TypeOK
<1>7. \A a \in Accounts \ {b} : Same(a)
  BY <1>2, <1>6 DEF Same
<1>8. group[h] = "live"
  BY <1>1, <1>2 DEF MirrorInv, TablesInv, CreateInv, Creating
<1>9. Under(w, b) => Under(w, b)'
  <2> SUFFICES ASSUME Under(w, b) PROVE Under(w, b)'
    OBVIOUS
  <2>1. Agrees(b)
    BY <1>2 DEF Under, Creates, At
  <2>2. SetsAgreeBut(b, h)' /\ KeyAgrees(b)'
    BY <2>1, <1>2, <1>6 DEF Agrees, SetsAgree, SetsAgreeBut, KeyAgrees
  <2>3. InOwn(b)'
    <3>1. active[b] \in Groups \cup {None}
      BY DEF MirrorInv, TablesInv, TypeOK
    <3> QED
      BY <2>1, <3>1, <1>2, <1>6 DEF Agrees, InOwn
  <2>4. b \in members'[h] /\ group'[h] = "live"
    BY <1>2, <1>6, <1>8
  <2>5. SetsAgreeBut(b, req[w].g)'
    BY <2>2, <1>3 DEF SetsAgreeBut
  <2> QED
    BY <2>2, <2>3, <2>4, <2>5, <1>3 DEF Under, Placed, Creates, Joins, Activates, Leaves, Deletes, At, AtSome
<1> QED
  BY <1>1, <1>2, <1>3, <1>4, <1>5, <1>7, <1>9, OneStep

\* SADD brings the set to what the row says.
LEMMA AddToMirrorMirror == ASSUME MirrorInv, NEW w \in Workers, AddToMirror(w) PROVE MirrorInv'
<1>1. PICK b \in Accounts, h \in Groups : b = req[w].a /\ h = req[w].g
  BY OpFacts DEF MirrorInv, TablesInv, AddToMirror
<1>2. /\ req[w].op \in {"create", "join"} /\ req[w].at = "sadd"
      /\ Goto(w, "activate") /\ "activate" \in Places
      /\ mirror' = [mirror EXCEPT ![h] = @ \cup {b}]
      /\ UNCHANGED <<group, members, active, invite, mirrorActive>>
  BY <1>1 DEF AddToMirror, At, Places, pg
<1>3. /\ \A v \in Workers \ {w} : req'[v] = req[v]
      /\ req'[w].op = req[w].op /\ req'[w].g = h /\ req'[w].a = b /\ req'[w].at = "activate"
      /\ UNCHANGED <<overlapped, abandoned>>
  BY <1>1, <1>2, GotoFacts DEF MirrorInv, TablesInv
<1>4. TablesInv'
  BY AddToMirrorStep DEF MirrorInv
<1>5. NothingEnds
  BY <1>2 DEF NothingEnds
<1>6. /\ mirror'[h] = mirror[h] \cup {b}
      /\ \A g \in Groups \ {h} : mirror'[g] = mirror[g]
  BY <1>2 DEF MirrorInv, TablesInv, TypeOK
<1>7. \A a \in Accounts \ {b} : Same(a)
  BY <1>2, <1>6 DEF Same
<1>8. Under(w, b) => Under(w, b)'
  <2> SUFFICES ASSUME Under(w, b) PROVE Under(w, b)'
    OBVIOUS
  <2>1. /\ b \in members[h] /\ group[h] = "live"
        /\ SetsAgreeBut(b, h) /\ KeyAgrees(b) /\ InOwn(b)
    BY <1>1, <1>2 DEF Under, Joins, At, AtSome
  <2>2. SetsAgree(b)'
    BY <2>1, <1>2, <1>6 DEF SetsAgreeBut, SetsAgree
  <2>3. KeyAgrees(b)' /\ InOwn(b)'
    BY <2>1, <1>2 DEF KeyAgrees, InOwn
  <2>4. Agrees(b)' /\ b \in members'[h] /\ group'[h] = "live"
    BY <2>1, <2>2, <2>3, <1>2 DEF Agrees
  <2> QED
    BY <2>4, <1>2, <1>3 DEF Under, Placed, Creates, Joins, Activates, Leaves, Deletes, At, AtSome
<1> QED
  BY <1>1, <1>2, <1>3, <1>4, <1>5, <1>7, <1>8, OneStep

LEMMA SetActiveMirror == ASSUME MirrorInv, NEW w \in Workers, SetActive(w) PROVE MirrorInv'
<1>1. PICK b \in Accounts, h \in Groups : b = req[w].a /\ h = req[w].g
  BY OpFacts DEF MirrorInv, TablesInv, SetActive
<1>2. /\ req[w].op \in {"create", "join", "switch"} /\ req[w].at = "activate"
      /\ UNCHANGED <<group, members, invite, mirror, mirrorActive>>
  BY DEF SetActive, At, redis
<1>3. TablesInv'
  BY SetActiveStep DEF MirrorInv
<1>4. NothingEnds
  BY <1>2 DEF NothingEnds
<1>5. Under(w, b) => b \in members[h] /\ group[h] = "live" /\ Agrees(b)
  BY <1>1, <1>2 DEF Under, Activates, At
<1>6. CASE group[h] = "live"
  <2>1. Goto(w, "setKey") /\ "setKey" \in Places /\ active' = [active EXCEPT ![b] = h]
    BY <1>1, <1>6 DEF SetActive, Places
  <2>2. /\ \A v \in Workers \ {w} : req'[v] = req[v]
        /\ req'[w].op = req[w].op /\ req'[w].g = h /\ req'[w].a = b /\ req'[w].at = "setKey"
        /\ UNCHANGED <<overlapped, abandoned>>
    BY <1>1, <2>1, GotoFacts DEF MirrorInv, TablesInv
  <2>3. active'[b] = h /\ \A a \in Accounts \ {b} : active'[a] = active[a]
    BY <2>1 DEF MirrorInv, TablesInv, TypeOK
  <2>4. \A a \in Accounts \ {b} : Same(a)
    BY <1>2, <2>3 DEF Same
  <2>5. Under(w, b) => Under(w, b)'
    <3> SUFFICES ASSUME Under(w, b) PROVE Under(w, b)'
      OBVIOUS
    <3>1. SetsAgree(b)' /\ b \in members'[h]
      BY <1>2, <1>5 DEF Agrees, SetsAgree
    <3> QED
      BY <3>1, <1>2, <2>2, <2>3 DEF Under, Placed, Creates, Joins, Activates, Leaves, Deletes, At, AtSome
  <2> QED
    BY <1>1, <1>2, <1>3, <1>4, <2>2, <2>4, <2>5, OneStep
<1>7. CASE group[h] # "live"
  <2>1. Finish(w) /\ UNCHANGED active
    BY <1>1, <1>7 DEF SetActive
  <2>2. /\ \A v \in Workers \ {w} : req'[v] = req[v]
        /\ req'[w] = Idle /\ UNCHANGED <<overlapped, abandoned>>
    BY <2>1, FinishFacts DEF MirrorInv, TablesInv
  <2>3. \A a \in Accounts : Same(a)
    BY <1>2, <2>1 DEF Same
  <2> QED
    BY <1>1, <1>2, <1>3, <1>4, <1>5, <1>7, <2>2, <2>3, OneStep
<1> QED
  BY <1>6, <1>7

LEMMA SetActiveKeyMirror == ASSUME MirrorInv, NEW w \in Workers, SetActiveKey(w) PROVE MirrorInv'
<1>1. PICK b \in Accounts, h \in Groups : b = req[w].a /\ h = req[w].g
  BY OpFacts DEF MirrorInv, TablesInv, SetActiveKey
<1>2. /\ req[w].op \in {"create", "join", "switch"} /\ req[w].at = "setKey" /\ Finish(w)
      /\ mirrorActive' = [mirrorActive EXCEPT ![b] = h]
      /\ UNCHANGED <<group, members, active, invite, mirror>>
  BY <1>1 DEF SetActiveKey, At, pg
<1>3. /\ \A v \in Workers \ {w} : req'[v] = req[v]
      /\ req'[w] = Idle /\ UNCHANGED <<overlapped, abandoned>>
  BY <1>2, FinishFacts DEF MirrorInv, TablesInv
<1>4. TablesInv'
  BY SetActiveKeyStep DEF MirrorInv
<1>5. NothingEnds
  BY <1>2 DEF NothingEnds
<1>6. mirrorActive'[b] = h /\ \A a \in Accounts \ {b} : mirrorActive'[a] = mirrorActive[a]
  BY <1>2 DEF MirrorInv, TablesInv, TypeOK
<1>7. \A a \in Accounts \ {b} : Same(a)
  BY <1>2, <1>6 DEF Same
<1>8. Under(w, b) => Agrees(b)'
  <2> SUFFICES ASSUME Under(w, b) PROVE Agrees(b)'
    OBVIOUS
  <2>1. b \in members[h] /\ active[b] = h /\ SetsAgree(b)
    BY <1>1, <1>2 DEF Under, Activates, At
  <2> QED
    BY <2>1, <1>2, <1>6 DEF Agrees, SetsAgree, KeyAgrees, InOwn
<1> QED
  BY <1>1, <1>2, <1>3, <1>4, <1>5, <1>7, <1>8, OneStep

\* A join that goes on without touching what the account sees, or ends because
\* the invite is gone: the group was deleted meanwhile, by a request that
\* overlaps with this one.
LEMMA JoinGoesOn ==
  ASSUME MirrorInv, TablesInv', NEW w \in Workers, NEW b \in Accounts, NEW h \in Groups,
         b = req[w].a, h = req[w].g, req[w].op = "join",
         req[w].at \in {"countRead", "countWrite", "reload"},
         \A v \in Workers \ {w} : req'[v] = req[v],
         UNCHANGED <<overlapped, abandoned>>,
         UNCHANGED <<group, members, active, mirror, mirrorActive>>,
         \A g \in Groups : invite[g] # None => invite'[g] # None,
         \/ req'[w] = Idle /\ invite[h] = None
         \/ /\ req'[w].op = "join" /\ req'[w].g = h /\ req'[w].a = b
            /\ req'[w].at \in {"countWrite", "reload", "sadd"}
  PROVE  MirrorInv'
<1>1. NothingEnds
  BY DEF NothingEnds
<1>2. \A a \in Accounts : Same(a)
  BY DEF Same
<1>3. Under(w, b) =>
         /\ b \in members[h] /\ group[h] = "live" /\ invite[h] # None
         /\ SetsAgreeBut(b, h) /\ KeyAgrees(b) /\ InOwn(b)
  BY DEF Under, Joins, At, AtSome
<1>4. CASE req'[w] = Idle /\ invite[h] = None
  BY <1>1, <1>2, <1>3, <1>4, OneStep
<1>5. CASE /\ req'[w].op = "join" /\ req'[w].g = h /\ req'[w].a = b
           /\ req'[w].at \in {"countWrite", "reload", "sadd"}
  <2>1. Under(w, b) => Under(w, b)'
    <3> SUFFICES ASSUME Under(w, b) PROVE Under(w, b)'
      OBVIOUS
    <3>1. SetsAgreeBut(b, req[w].g)' /\ KeyAgrees(b)' /\ InOwn(b)'
      BY <1>3, <1>5 DEF SetsAgreeBut, KeyAgrees, InOwn
    <3> QED
      BY <1>3, <1>5, <3>1 DEF Under, Placed, Creates, Joins, Activates, Leaves, Deletes, At, AtSome
  <2> QED
    BY <1>1, <1>2, <1>5, <2>1, OneStep
<1> QED
  BY <1>4, <1>5

LEMMA ReadCountMirror == ASSUME MirrorInv, NEW w \in Workers, ReadCount(w) PROVE MirrorInv'
<1>1. PICK b \in Accounts, h \in Groups : b = req[w].a /\ h = req[w].g
  BY OpFacts DEF MirrorInv, TablesInv, ReadCount
<1>2. /\ req[w].op = "join" /\ req[w].at = "countRead" /\ req[w] \in ReqType
      /\ UNCHANGED <<group, members, active, invite, mirror, mirrorActive>>
  BY OpFacts DEF MirrorInv, TablesInv, ReadCount, pg, redis
<1>3. TablesInv'
  BY ReadCountStep DEF MirrorInv
<1>4. CASE invite[h] = None
  <2>1. /\ \A v \in Workers \ {w} : req'[v] = req[v]
        /\ req'[w] = Idle /\ UNCHANGED <<overlapped, abandoned>>
    BY <1>1, <1>4, FinishFacts DEF MirrorInv, TablesInv, ReadCount
  <2> QED
    BY <1>1, <1>2, <1>3, <1>4, <2>1, JoinGoesOn
<1>5. CASE invite[h] # None
  <2> DEFINE n == invite[h].uses
  <2>1. req' = [req EXCEPT ![w].at = "countWrite", ![w].n = n] /\ UNCHANGED <<overlapped, abandoned>>
    BY <1>1, <1>5 DEF ReadCount, ghosts
  <2> HIDE DEF n
  <2>2. /\ \A v \in Workers \ {w} : req'[v] = req[v]
        /\ req'[w].op = "join" /\ req'[w].g = h /\ req'[w].a = b /\ req'[w].at = "countWrite"
    BY <1>1, <1>2, <2>1, ReqTyped DEF MirrorInv, TablesInv, ReqType
  <2> QED
    BY <1>1, <1>2, <1>3, <2>1, <2>2, JoinGoesOn
<1> QED
  BY <1>4, <1>5

LEMMA WriteCountMirror == ASSUME MirrorInv, NEW w \in Workers, WriteCount(w) PROVE MirrorInv'
<1>1. PICK b \in Accounts, h \in Groups : b = req[w].a /\ h = req[w].g
  BY OpFacts DEF MirrorInv, TablesInv, WriteCount
<1>2. /\ req[w].op = "join" /\ req[w].at = "countWrite"
      /\ UNCHANGED <<group, members, active, mirror, mirrorActive>>
  BY DEF WriteCount, At, redis
<1>3. TablesInv'
  BY WriteCountStep DEF MirrorInv
<1>4. CASE invite[h] = None
  <2>1. Finish(w) /\ UNCHANGED invite
    BY <1>1, <1>4 DEF WriteCount
  <2>2. /\ \A v \in Workers \ {w} : req'[v] = req[v]
        /\ req'[w] = Idle /\ UNCHANGED <<overlapped, abandoned>>
    BY <2>1, FinishFacts DEF MirrorInv, TablesInv
  <2> QED
    BY <1>1, <1>2, <1>3, <1>4, <2>1, <2>2, JoinGoesOn
<1>5. CASE invite[h] # None
  <2> DEFINE i == [status |-> IF req[w].n + 1 >= MaxUses THEN "expired" ELSE invite[h].status,
                   uses |-> req[w].n + 1]
  <2>1. Goto(w, "reload") /\ "reload" \in Places /\ invite' = [invite EXCEPT ![h] = i]
    BY <1>1, <1>5 DEF WriteCount, Places
  <2> HIDE DEF i
  <2>2. \A g \in Groups \ {h} : invite'[g] = invite[g]
    BY <2>1 DEF MirrorInv, TablesInv, TypeOK
  <2>3. invite'[h] = i
    BY <2>1 DEF MirrorInv, TablesInv, TypeOK
  <2>4. invite'[h] # None
    <3>1. req[w].n \in Nat /\ invite[h].status \in {"active", "expired"}
      BY <1>1, <1>5, ReqTyped DEF MirrorInv, TablesInv, TypeOK, ReqType
    <3>2. i \in [status : {"active", "expired"}, uses : Nat]
      BY <3>1 DEF i
    <3> QED
      BY <2>3, <3>2, SharingAssumption
  <2>5. \A g \in Groups : invite[g] # None => invite'[g] # None
    BY <2>2, <2>4
  <2>6. /\ \A v \in Workers \ {w} : req'[v] = req[v]
        /\ req'[w].op = "join" /\ req'[w].g = h /\ req'[w].a = b /\ req'[w].at = "reload"
        /\ UNCHANGED <<overlapped, abandoned>>
    BY <1>1, <1>2, <2>1, GotoFacts DEF MirrorInv, TablesInv
  <2> QED
    BY <1>1, <1>2, <1>3, <2>5, <2>6, JoinGoesOn
<1> QED
  BY <1>4, <1>5

LEMMA ReloadInviteMirror == ASSUME MirrorInv, NEW w \in Workers, ReloadInvite(w) PROVE MirrorInv'
<1>1. PICK b \in Accounts, h \in Groups : b = req[w].a /\ h = req[w].g
  BY OpFacts DEF MirrorInv, TablesInv, ReloadInvite
<1>2. /\ req[w].op = "join" /\ req[w].at = "reload"
      /\ UNCHANGED <<group, members, active, invite, mirror, mirrorActive>>
  BY DEF ReloadInvite, At, pg, redis
<1>3. TablesInv'
  BY ReloadInviteStep DEF MirrorInv
<1>4. CASE invite[h] = None
  <2>1. Finish(w)
    BY <1>1, <1>4 DEF ReloadInvite
  <2>2. /\ \A v \in Workers \ {w} : req'[v] = req[v]
        /\ req'[w] = Idle /\ UNCHANGED <<overlapped, abandoned>>
    BY <2>1, FinishFacts DEF MirrorInv, TablesInv
  <2> QED
    BY <1>1, <1>2, <1>3, <1>4, <2>2, JoinGoesOn
<1>5. CASE invite[h] # None
  <2>1. Goto(w, "sadd") /\ "sadd" \in Places
    BY <1>1, <1>5 DEF ReloadInvite, Places
  <2>2. /\ \A v \in Workers \ {w} : req'[v] = req[v]
        /\ req'[w].op = "join" /\ req'[w].g = h /\ req'[w].a = b /\ req'[w].at = "sadd"
        /\ UNCHANGED <<overlapped, abandoned>>
    BY <1>1, <1>2, <2>1, GotoFacts DEF MirrorInv, TablesInv
  <2> QED
    BY <1>1, <1>2, <1>3, <2>2, JoinGoesOn
<1> QED
  BY <1>4, <1>5

----------------------------------------------------------------------------
(* leave_group and remove_member *)

LEMMA DeleteMemberMirror == ASSUME MirrorInv, NEW w \in Workers, DeleteMember(w) PROVE MirrorInv'
<1>1. PICK b \in Accounts, h \in Groups : b = req[w].a /\ h = req[w].g
  BY OpFacts DEF MirrorInv, TablesInv, DeleteMember
<1>2. /\ req[w].op = "leave" /\ req[w].at = "delete"
      /\ Goto(w, "srem") /\ "srem" \in Places
      /\ members' = [members EXCEPT ![h] = @ \ {b}]
      /\ UNCHANGED <<group, active, invite, mirror, mirrorActive>>
  BY <1>1 DEF DeleteMember, At, Places, redis
<1>3. /\ \A v \in Workers \ {w} : req'[v] = req[v]
      /\ req'[w].op = "leave" /\ req'[w].g = h /\ req'[w].a = b /\ req'[w].at = "srem"
      /\ UNCHANGED <<overlapped, abandoned>>
  BY <1>1, <1>2, GotoFacts DEF MirrorInv, TablesInv
<1>4. TablesInv'
  BY DeleteMemberStep DEF MirrorInv
<1>5. NothingEnds
  BY <1>2 DEF NothingEnds
<1>6. /\ members'[h] = members[h] \ {b}
      /\ \A g \in Groups \ {h} : members'[g] = members[g]
  BY <1>2 DEF MirrorInv, TablesInv, TypeOK
<1>7. \A a \in Accounts \ {b} : Same(a)
  BY <1>2, <1>6 DEF Same
<1>8. Under(w, b) => Under(w, b)'
  <2> SUFFICES ASSUME Under(w, b) PROVE Under(w, b)'
    OBVIOUS
  <2>1. group[h] = "live" /\ Agrees(b)
    BY <1>1, <1>2 DEF Under, Leaves, At
  <2>2. SetsAgreeBut(b, req[w].g)' /\ KeyAgrees(b)'
    BY <2>1, <1>2, <1>3, <1>6 DEF Agrees, SetsAgree, SetsAgreeBut, KeyAgrees
  <2>3. active'[b] # h => InOwn(b)'
    <3>1. active[b] \in Groups \cup {None}
      BY DEF MirrorInv, TablesInv, TypeOK
    <3> QED
      BY <2>1, <3>1, <1>2, <1>6 DEF Agrees, InOwn
  <2> QED
    BY <2>1, <2>2, <2>3, <1>2, <1>3, <1>6 DEF Under, Placed, Creates, Joins, Activates, Leaves, Deletes, At, AtSome
<1> QED
  BY <1>1, <1>2, <1>3, <1>4, <1>5, <1>7, <1>8, OneStep

LEMMA RemoveFromMirrorMirror ==
  ASSUME MirrorInv, NEW w \in Workers, RemoveFromMirror(w)
  PROVE  MirrorInv'
<1>1. PICK b \in Accounts, h \in Groups : b = req[w].a /\ h = req[w].g
  BY OpFacts DEF MirrorInv, TablesInv, RemoveFromMirror
<1>2. /\ req[w].op = "leave" /\ req[w].at = "srem"
      /\ Goto(w, "publish") /\ "publish" \in Places
      /\ mirror' = [mirror EXCEPT ![h] = @ \ {b}]
      /\ UNCHANGED <<group, members, active, invite, mirrorActive>>
  BY <1>1 DEF RemoveFromMirror, At, Places, pg
<1>3. /\ \A v \in Workers \ {w} : req'[v] = req[v]
      /\ req'[w].op = "leave" /\ req'[w].g = h /\ req'[w].a = b /\ req'[w].at = "publish"
      /\ UNCHANGED <<overlapped, abandoned>>
  BY <1>1, <1>2, GotoFacts DEF MirrorInv, TablesInv
<1>4. TablesInv'
  BY RemoveFromMirrorStep DEF MirrorInv
<1>5. NothingEnds
  BY <1>2 DEF NothingEnds
<1>6. /\ mirror'[h] = mirror[h] \ {b}
      /\ \A g \in Groups \ {h} : mirror'[g] = mirror[g]
  BY <1>2 DEF MirrorInv, TablesInv, TypeOK
<1>7. \A a \in Accounts \ {b} : Same(a)
  BY <1>2, <1>6 DEF Same
<1>8. Under(w, b) => Under(w, b)'
  <2> SUFFICES ASSUME Under(w, b) PROVE Under(w, b)'
    OBVIOUS
  <2>1. /\ b \notin members[h] /\ group[h] = "live"
        /\ SetsAgreeBut(b, h) /\ KeyAgrees(b) /\ (active[b] # h => InOwn(b))
    BY <1>1, <1>2 DEF Under, Leaves, At, AtSome
  <2>2. SetsAgreeBut(b, req[w].g)' /\ KeyAgrees(b)'
    BY <2>1, <1>2, <1>3, <1>6 DEF SetsAgreeBut, KeyAgrees
  <2>3. active'[b] # h => InOwn(b)'
    BY <2>1, <1>2 DEF InOwn
  <2> QED
    BY <2>1, <2>2, <2>3, <1>2, <1>3, <1>6 DEF Under, Placed, Creates, Joins, Activates, Leaves, Deletes, At, AtSome
<1> QED
  BY <1>1, <1>2, <1>3, <1>4, <1>5, <1>7, <1>8, OneStep

LEMMA PublishLeaveMirror == ASSUME MirrorInv, NEW w \in Workers, PublishLeave(w) PROVE MirrorInv'
<1>1. PICK b \in Accounts, h \in Groups : b = req[w].a /\ h = req[w].g
  BY OpFacts DEF MirrorInv, TablesInv, PublishLeave
<1>2. /\ req[w].op = "leave" /\ req[w].at = "publish"
      /\ Goto(w, "clear") /\ "clear" \in Places
      /\ UNCHANGED <<group, members, active, invite, mirror, mirrorActive>>
  BY DEF PublishLeave, At, Places, pg
<1>3. /\ \A v \in Workers \ {w} : req'[v] = req[v]
      /\ req'[w].op = "leave" /\ req'[w].g = h /\ req'[w].a = b /\ req'[w].at = "clear"
      /\ UNCHANGED <<overlapped, abandoned>>
  BY <1>1, <1>2, GotoFacts DEF MirrorInv, TablesInv
<1>4. TablesInv'
  BY PublishLeaveStep DEF MirrorInv
<1>5. NothingEnds /\ \A a \in Accounts : Same(a)
  BY <1>2 DEF NothingEnds, Same
<1>6. Under(w, b) => Under(w, b)'
  <2> SUFFICES ASSUME Under(w, b) PROVE Under(w, b)'
    OBVIOUS
  <2>1. /\ b \notin members[h] /\ group[h] = "live" /\ b \notin mirror[h]
        /\ SetsAgreeBut(b, h) /\ KeyAgrees(b) /\ (active[b] # h => InOwn(b))
    BY <1>1, <1>2 DEF Under, Leaves, At, AtSome
  <2>2. SetsAgreeBut(b, req[w].g)' /\ KeyAgrees(b)' /\ (active'[b] # h => InOwn(b)')
    BY <2>1, <1>2, <1>3 DEF SetsAgreeBut, KeyAgrees, InOwn
  <2> QED
    BY <2>1, <2>2, <1>2, <1>3 DEF Under, Placed, Creates, Joins, Activates, Leaves, Deletes, At, AtSome
<1> QED
  BY <1>1, <1>2, <1>3, <1>4, <1>5, <1>6, OneStep

LEMMA ReadActiveMirror == ASSUME MirrorInv, NEW w \in Workers, ReadActive(w) PROVE MirrorInv'
<1>1. PICK b \in Accounts, h \in Groups : b = req[w].a /\ h = req[w].g
  BY OpFacts DEF MirrorInv, TablesInv, ReadActive
<1>2. /\ req[w].op = "leave" /\ req[w].at = "clear"
      /\ UNCHANGED <<group, members, active, invite, mirror, mirrorActive>>
  BY DEF ReadActive, At, pg, redis
<1>3. TablesInv'
  BY ReadActiveStep DEF MirrorInv
<1>4. NothingEnds /\ \A a \in Accounts : Same(a)
  BY <1>2 DEF NothingEnds, Same
<1>5. Under(w, b) =>
         /\ b \notin members[h] /\ group[h] = "live" /\ b \notin mirror[h]
         /\ SetsAgreeBut(b, h) /\ KeyAgrees(b) /\ (active[b] # h => InOwn(b))
  BY <1>1, <1>2 DEF Under, Leaves, At, AtSome
<1>6. CASE active[b] = h
  <2>1. Goto(w, "clearWrite") /\ "clearWrite" \in Places
    BY <1>1, <1>6 DEF ReadActive, Places
  <2>2. /\ \A v \in Workers \ {w} : req'[v] = req[v]
        /\ req'[w].op = "leave" /\ req'[w].g = h /\ req'[w].a = b /\ req'[w].at = "clearWrite"
        /\ UNCHANGED <<overlapped, abandoned>>
    BY <1>1, <1>2, <2>1, GotoFacts DEF MirrorInv, TablesInv
  <2>3. Under(w, b) => Under(w, b)'
    <3> SUFFICES ASSUME Under(w, b) PROVE Under(w, b)'
      OBVIOUS
    <3>1. SetsAgreeBut(b, req[w].g)' /\ KeyAgrees(b)'
      BY <1>5, <1>2, <2>2 DEF SetsAgreeBut, KeyAgrees
    <3> QED
      BY <1>5, <1>6, <3>1, <1>2, <2>2 DEF Under, Placed, Creates, Joins, Activates, Leaves, Deletes, At, AtSome
  <2> QED
    BY <1>1, <1>2, <1>3, <1>4, <2>2, <2>3, OneStep
<1>7. CASE active[b] # h
  <2>1. Finish(w)
    BY <1>1, <1>7 DEF ReadActive
  <2>2. /\ \A v \in Workers \ {w} : req'[v] = req[v]
        /\ req'[w] = Idle /\ UNCHANGED <<overlapped, abandoned>>
    BY <2>1, FinishFacts DEF MirrorInv, TablesInv
  <2>3. Under(w, b) => Agrees(b)'
    <3>1. Under(w, b) => Agrees(b)
      BY <1>5, <1>7 DEF Agrees, SetsAgree, SetsAgreeBut
    <3> QED
      BY <3>1, <1>4, SameAgrees DEF MirrorInv, TablesInv
  <2> QED
    BY <1>1, <1>2, <1>3, <1>4, <2>2, <2>3, OneStep
<1> QED
  BY <1>6, <1>7

LEMMA ClearActiveMirror == ASSUME MirrorInv, NEW w \in Workers, ClearActive(w) PROVE MirrorInv'
<1>1. PICK b \in Accounts, h \in Groups : b = req[w].a /\ h = req[w].g
  BY OpFacts DEF MirrorInv, TablesInv, ClearActive
<1>2. /\ req[w].op = "leave" /\ req[w].at = "clearWrite"
      /\ Goto(w, "delKey") /\ "delKey" \in Places
      /\ active' = [active EXCEPT ![b] = None]
      /\ UNCHANGED <<group, members, invite, mirror, mirrorActive>>
  BY <1>1 DEF ClearActive, At, Places, redis
<1>3. /\ \A v \in Workers \ {w} : req'[v] = req[v]
      /\ req'[w].op = "leave" /\ req'[w].g = h /\ req'[w].a = b /\ req'[w].at = "delKey"
      /\ UNCHANGED <<overlapped, abandoned>>
  BY <1>1, <1>2, GotoFacts DEF MirrorInv, TablesInv
<1>4. TablesInv'
  BY ClearActiveStep DEF MirrorInv
<1>5. NothingEnds
  BY <1>2 DEF NothingEnds
<1>6. active'[b] = None /\ \A a \in Accounts \ {b} : active'[a] = active[a]
  BY <1>2 DEF MirrorInv, TablesInv, TypeOK
<1>7. \A a \in Accounts \ {b} : Same(a)
  BY <1>2, <1>6 DEF Same
<1>8. Under(w, b) => Under(w, b)'
  <2> SUFFICES ASSUME Under(w, b) PROVE Under(w, b)'
    OBVIOUS
  <2>1. b \notin members[h] /\ b \notin mirror[h] /\ SetsAgreeBut(b, h)
    BY <1>1, <1>2 DEF Under, Leaves, At, AtSome
  <2>2. SetsAgree(b)'
    BY <2>1, <1>2 DEF SetsAgree, SetsAgreeBut
  <2> QED
    BY <2>2, <1>3, <1>6 DEF Under, Placed, Creates, Joins, Activates, Leaves, Deletes, At, AtSome
<1> QED
  BY <1>1, <1>2, <1>3, <1>4, <1>5, <1>7, <1>8, OneStep

LEMMA DeleteActiveKeyMirror ==
  ASSUME MirrorInv, NEW w \in Workers, DeleteActiveKey(w)
  PROVE  MirrorInv'
<1>1. PICK b \in Accounts, h \in Groups : b = req[w].a /\ h = req[w].g
  BY OpFacts DEF MirrorInv, TablesInv, DeleteActiveKey
<1>2. /\ req[w].op = "leave" /\ req[w].at = "delKey" /\ Finish(w)
      /\ mirrorActive' = [mirrorActive EXCEPT ![b] = None]
      /\ UNCHANGED <<group, members, active, invite, mirror>>
  BY <1>1 DEF DeleteActiveKey, At, pg
<1>3. /\ \A v \in Workers \ {w} : req'[v] = req[v]
      /\ req'[w] = Idle /\ UNCHANGED <<overlapped, abandoned>>
  BY <1>2, FinishFacts DEF MirrorInv, TablesInv
<1>4. TablesInv'
  BY DeleteActiveKeyStep DEF MirrorInv
<1>5. NothingEnds
  BY <1>2 DEF NothingEnds
<1>6. mirrorActive'[b] = None /\ \A a \in Accounts \ {b} : mirrorActive'[a] = mirrorActive[a]
  BY <1>2 DEF MirrorInv, TablesInv, TypeOK
<1>7. \A a \in Accounts \ {b} : Same(a)
  BY <1>2, <1>6 DEF Same
<1>8. Under(w, b) => Agrees(b)'
  <2> SUFFICES ASSUME Under(w, b) PROVE Agrees(b)'
    OBVIOUS
  <2>1. active[b] = None /\ SetsAgree(b)
    BY <1>2 DEF Under, Leaves, At
  <2> QED
    BY <2>1, <1>2, <1>6 DEF Agrees, SetsAgree, KeyAgrees, InOwn
<1> QED
  BY <1>1, <1>2, <1>3, <1>4, <1>5, <1>7, <1>8, OneStep

----------------------------------------------------------------------------
(* delete_group, which deals with every account *)

LEMMA AllStep ==
  ASSUME MirrorInv, TablesInv', NEW w \in Workers, req[w].op = "delete",
         \A v \in Workers \ {w} : req'[v] = req[v],
         UNCHANGED <<overlapped, abandoned>>,
         \/ req'[w] = Idle /\ \A a \in Accounts : Under(w, a) => Agrees(a)'
         \/ req'[w].op = "delete" /\ \A a \in Accounts : Under(w, a) => Under(w, a)'
  PROVE  MirrorInv'
<1>1. Touches(req[w]) = Accounts
  BY TouchesWhat
<1>2. Touches(req'[w]) \subseteq Accounts
  BY TouchesWhat, IdleTyped
<1>3. \A a \in Accounts : a \notin overlapped \cup abandoned => Under(w, a)
  BY <1>1 DEF MirrorInv, AccountInv
<1>4. \A a \in Accounts : a \notin overlapped' \cup abandoned' =>
         IF a \in Touches(req'[w]) THEN Under(w, a)' ELSE Agrees(a)'
  <2>1. CASE req'[w] = Idle /\ \A a \in Accounts : Under(w, a) => Agrees(a)'
    <3>1. Touches(req'[w]) = {}
      BY <2>1, TouchesWhat, IdleTyped
    <3> QED
      BY <2>1, <3>1, <1>3
  <2>2. CASE req'[w].op = "delete" /\ \A a \in Accounts : Under(w, a) => Under(w, a)'
    <3>1. Touches(req'[w]) = Accounts
      BY <2>2, TouchesWhat
    <3> QED
      BY <2>2, <3>1, <1>3
  <2> QED
    BY <2>1, <2>2
<1>5. \A v \in Workers \ {w} : Touches(req'[w]) \cap Touches(req[v]) \subseteq overlapped'
  BY <1>1, <1>2 DEF MirrorInv, OverlapInv
<1> QED
  BY <1>1, <1>2, <1>4, <1>5, FrameStep

LEMMA ListActiveMirror == ASSUME MirrorInv, NEW w \in Workers, ListActive(w) PROVE MirrorInv'
<1>1. PICK h \in Groups : h = req[w].g
  BY OpFacts DEF MirrorInv, TablesInv, ListActive
<1>2. /\ req[w].op = "delete" /\ req[w].at = "listActive" /\ req[w] \in ReqType
      /\ UNCHANGED <<group, members, active, invite, mirror, mirrorActive, overlapped, abandoned>>
  BY OpFacts DEF MirrorInv, TablesInv, ListActive, pg, redis, ghosts
<1> DEFINE S == {a \in Accounts : active[a] = h}
<1>3. req' = [req EXCEPT ![w].at = "commit", ![w].clear = S]
  BY <1>1 DEF ListActive
<1>4. \A a \in Accounts : a \in S <=> active[a] = h
  OBVIOUS
<1> HIDE DEF S
<1>5. /\ \A v \in Workers \ {w} : req'[v] = req[v]
      /\ req'[w].op = "delete" /\ req'[w].g = h /\ req'[w].at = "commit"
      /\ req'[w].todo = req[w].todo /\ req'[w].clear = S
  BY <1>1, <1>2, <1>3, ReqTyped DEF MirrorInv, TablesInv, ReqType
<1>6. TablesInv'
  BY ListActiveStep DEF MirrorInv
<1>7. ASSUME NEW a \in Accounts, Under(w, a) PROVE Under(w, a)'
  <2>1. Agrees(a) /\ (a \in members[h] <=> a \in req[w].todo)
    BY <1>1, <1>2, <1>7 DEF Under, Deletes, At
  <2>2. Same(a)
    BY <1>2 DEF Same
  <2>3. Agrees(a)'
    BY <2>1, <2>2, SameAgrees DEF MirrorInv, TablesInv
  <2> QED
    BY <2>1, <2>3, <1>2, <1>4, <1>5 DEF Under, Placed, Creates, Joins, Activates, Leaves, Deletes, At, AtSome
<1> QED
  BY <1>2, <1>5, <1>6, <1>7, AllStep

\* The cascade takes away what the account's keys and the set still say.
LEMMA DeleteRowsMirror == ASSUME MirrorInv, NEW w \in Workers, DeleteRows(w) PROVE MirrorInv'
<1>1. PICK h \in Groups : h = req[w].g
  BY OpFacts DEF MirrorInv, TablesInv, DeleteRows
<1>2. /\ req[w].op = "delete" /\ req[w].at = "commit"
      /\ Goto(w, "publish") /\ "publish" \in Places
      /\ members' = [members EXCEPT ![h] = {}]
      /\ active' = [a \in Accounts |-> IF active[a] = h THEN None ELSE active[a]]
      /\ UNCHANGED <<mirror, mirrorActive>>
  BY <1>1 DEF DeleteRows, At, Places, redis
<1>3. /\ req' \in [Workers -> ReqType]
      /\ \A v \in Workers \ {w} : req'[v] = req[v]
      /\ req'[w].op = "delete" /\ req'[w].g = h /\ req'[w].at = "publish"
      /\ req'[w].clear = req[w].clear
      /\ UNCHANGED <<overlapped, abandoned>>
  <2>1. req'[w].clear = req[w].clear
    BY <1>2, ReqTyped DEF Goto, MirrorInv, TablesInv, ReqType
  <2> QED
    BY <1>1, <1>2, <2>1, GotoFacts DEF MirrorInv, TablesInv
<1>4. TablesInv'
  BY DeleteRowsStep DEF MirrorInv
<1>5. /\ members'[h] = {}
      /\ \A g \in Groups \ {h} : members'[g] = members[g]
  BY <1>2 DEF MirrorInv, TablesInv, TypeOK
<1>6. ASSUME NEW a \in Accounts, Under(w, a) PROVE Under(w, a)'
  <2>1. Agrees(a) /\ (a \in req[w].clear <=> active[a] = h)
    BY <1>1, <1>2, <1>6 DEF Under, Deletes, At
  <2>2. active[a] \in Groups \cup {None}
    BY DEF MirrorInv, TablesInv, TypeOK
  <2>3. /\ active[a] = h => active'[a] = None
        /\ active[a] # h => active'[a] = active[a]
    BY <1>2
  <2>4. SetsAgreeBut(a, req[w].g)'
    BY <2>1, <1>2, <1>3, <1>5 DEF Agrees, SetsAgree, SetsAgreeBut
  <2>5. InOwn(a)'
    BY <2>1, <2>2, <2>3, <1>5 DEF Agrees, InOwn
  <2>6. KeyCleared(w, a)'
    BY <2>1, <2>3, <1>2, <1>3 DEF Agrees, KeyAgrees, KeyCleared
  <2> QED
    BY <2>4, <2>5, <2>6, <1>3, <1>5 DEF Under, Placed, Creates, Joins, Activates, Leaves, Deletes, At, AtSome
<1> QED
  BY <1>2, <1>3, <1>4, <1>6, AllStep

LEMMA PublishDeleteMirror ==
  ASSUME MirrorInv, NEW w \in Workers, NEW c \in Accounts, PublishDelete(w, c)
  PROVE  MirrorInv'
<1>1. PICK h \in Groups : h = req[w].g
  BY OpFacts DEF MirrorInv, TablesInv, PublishDelete
<1>2. /\ req[w].op = "delete" /\ req[w].at = "publish" /\ req[w] \in ReqType
      /\ UNCHANGED <<group, members, active, invite, mirror, mirrorActive, overlapped, abandoned>>
  BY OpFacts DEF MirrorInv, TablesInv, PublishDelete, pg, ghosts
<1>3. /\ \A v \in Workers \ {w} : req'[v] = req[v]
      /\ req'[w].op = "delete" /\ req'[w].g = h /\ req'[w].at = "publish"
      /\ req'[w].clear = req[w].clear
  BY <1>1, <1>2, ReqTyped DEF MirrorInv, TablesInv, ReqType, PublishDelete
<1>4. TablesInv'
  BY PublishDeleteStep DEF MirrorInv
<1>5. ASSUME NEW a \in Accounts, Under(w, a) PROVE Under(w, a)'
  <2>1. a \notin members[h] /\ InOwn(a) /\ KeyCleared(w, a) /\ SetsAgreeBut(a, h)
    BY <1>1, <1>2, <1>5 DEF Under, Deletes, At
  <2>2. InOwn(a)' /\ KeyCleared(w, a)' /\ SetsAgreeBut(a, req[w].g)'
    BY <2>1, <1>2, <1>3 DEF InOwn, KeyCleared, KeyAgrees, SetsAgreeBut
  <2> QED
    BY <2>1, <2>2, <1>2, <1>3 DEF Under, Placed, Creates, Joins, Activates, Leaves, Deletes, At, AtSome
<1> QED
  BY <1>2, <1>3, <1>4, <1>5, AllStep

LEMMA DeleteMembersKeyMirror ==
  ASSUME MirrorInv, NEW w \in Workers, DeleteMembersKey(w)
  PROVE  MirrorInv'
<1>1. PICK h \in Groups : h = req[w].g
  BY OpFacts DEF MirrorInv, TablesInv, DeleteMembersKey
<1>2. /\ req[w].op = "delete" /\ req[w].at = "publish"
      /\ Goto(w, "delKey") /\ "delKey" \in Places
      /\ mirror' = [mirror EXCEPT ![h] = {}]
      /\ UNCHANGED <<group, members, active, invite, mirrorActive>>
  BY <1>1 DEF DeleteMembersKey, At, Places, pg
<1>3. /\ \A v \in Workers \ {w} : req'[v] = req[v]
      /\ req'[w].op = "delete" /\ req'[w].g = h /\ req'[w].at = "delKey"
      /\ req'[w].clear = req[w].clear
      /\ UNCHANGED <<overlapped, abandoned>>
  <2>1. req'[w].clear = req[w].clear
    BY <1>2, ReqTyped DEF Goto, MirrorInv, TablesInv, ReqType
  <2> QED
    BY <1>1, <1>2, <2>1, GotoFacts DEF MirrorInv, TablesInv
<1>4. TablesInv'
  BY DeleteMembersKeyStep DEF MirrorInv
<1>5. /\ mirror'[h] = {}
      /\ \A g \in Groups \ {h} : mirror'[g] = mirror[g]
  BY <1>2 DEF MirrorInv, TablesInv, TypeOK
<1>6. ASSUME NEW a \in Accounts, Under(w, a) PROVE Under(w, a)'
  <2>1. a \notin members[h] /\ InOwn(a) /\ KeyCleared(w, a) /\ SetsAgreeBut(a, h)
    BY <1>1, <1>2, <1>6 DEF Under, Deletes, At
  <2>2. InOwn(a)' /\ KeyCleared(w, a)'
    BY <2>1, <1>2, <1>3 DEF InOwn, KeyCleared, KeyAgrees
  <2>3. SetsAgreeBut(a, req[w].g)'
    BY <2>1, <1>2, <1>3, <1>5 DEF SetsAgreeBut
  <2> QED
    BY <2>1, <2>2, <2>3, <1>2, <1>3, <1>5 DEF Under, Placed, Creates, Joins, Activates, Leaves, Deletes, At, AtSome
<1> QED
  BY <1>2, <1>3, <1>4, <1>6, AllStep

LEMMA ClearActiveKeyMirror ==
  ASSUME MirrorInv, NEW w \in Workers, NEW c \in Accounts, ClearActiveKey(w, c)
  PROVE  MirrorInv'
<1>1. PICK h \in Groups : h = req[w].g
  BY OpFacts DEF MirrorInv, TablesInv, ClearActiveKey
<1>2. /\ req[w].op = "delete" /\ req[w].at = "delKey" /\ req[w] \in ReqType /\ c \in req[w].clear
      /\ mirrorActive' = [mirrorActive EXCEPT ![c] = None]
      /\ UNCHANGED <<group, members, active, invite, mirror, overlapped, abandoned>>
  BY OpFacts DEF MirrorInv, TablesInv, ClearActiveKey, pg, ghosts
<1>3. /\ \A v \in Workers \ {w} : req'[v] = req[v]
      /\ req'[w].op = "delete" /\ req'[w].g = h /\ req'[w].at = "delKey"
      /\ req'[w].clear = req[w].clear \ {c}
  BY <1>1, <1>2, ReqTyped DEF MirrorInv, TablesInv, ReqType, ClearActiveKey
<1>4. TablesInv'
  BY ClearActiveKeyStep DEF MirrorInv
<1>5. mirrorActive'[c] = None /\ \A a \in Accounts \ {c} : mirrorActive'[a] = mirrorActive[a]
  BY <1>2 DEF MirrorInv, TablesInv, TypeOK
<1>6. ASSUME NEW a \in Accounts, Under(w, a) PROVE Under(w, a)'
  <2>1. /\ a \notin members[h] /\ a \notin mirror[h]
        /\ InOwn(a) /\ KeyCleared(w, a) /\ SetsAgreeBut(a, h)
    BY <1>1, <1>2, <1>6 DEF Under, Deletes, At
  <2>2. InOwn(a)' /\ SetsAgreeBut(a, req[w].g)'
    BY <2>1, <1>2, <1>3 DEF InOwn, SetsAgreeBut
  <2>3. KeyCleared(w, a)'
    BY <2>1, <1>2, <1>3, <1>5 DEF KeyCleared, KeyAgrees
  <2> QED
    BY <2>1, <2>2, <2>3, <1>2, <1>3 DEF Under, Placed, Creates, Joins, Activates, Leaves, Deletes, At, AtSome
<1> QED
  BY <1>2, <1>3, <1>4, <1>6, AllStep

LEMMA DeleteEndsMirror ==
  ASSUME MirrorInv, NEW w \in Workers, DeleteRowsFails(w) \/ DeleteDone(w)
  PROVE  MirrorInv'
<1>1. PICK h \in Groups : h = req[w].g
  BY OpFacts DEF MirrorInv, TablesInv, DeleteRowsFails, DeleteDone
<1>2. /\ req[w].op = "delete" /\ Finish(w)
      /\ UNCHANGED <<group, members, active, invite, mirror, mirrorActive>>
  BY DEF DeleteRowsFails, DeleteDone, At, pg, redis
<1>3. /\ \A v \in Workers \ {w} : req'[v] = req[v]
      /\ req'[w] = Idle /\ UNCHANGED <<overlapped, abandoned>>
  BY <1>2, FinishFacts DEF MirrorInv, TablesInv
<1>4. TablesInv'
  BY DeleteEndsStep DEF MirrorInv
<1>5. ASSUME NEW a \in Accounts, Under(w, a) PROVE Agrees(a)'
  <2>1. Same(a)
    BY <1>2 DEF Same
  <2>2. Agrees(a)
    <3>1. CASE DeleteRowsFails(w)
      BY <3>1, <1>5 DEF DeleteRowsFails, Under, Deletes, At
    <3>2. CASE DeleteDone(w)
      <4>1. req[w].at = "delKey" /\ req[w].clear = {}
        BY <3>2 DEF DeleteDone, At
      <4>2. /\ a \notin members[h] /\ a \notin mirror[h]
            /\ InOwn(a) /\ KeyCleared(w, a) /\ SetsAgreeBut(a, h)
        BY <1>1, <1>2, <1>5, <4>1 DEF Under, Deletes, At
      <4>3. KeyAgrees(a)
        BY <4>1, <4>2 DEF KeyCleared
      <4> QED
        BY <4>2, <4>3 DEF Agrees, SetsAgree, SetsAgreeBut
    <3> QED
      BY <3>1, <3>2
  <2> QED
    BY <2>1, <2>2, SameAgrees DEF MirrorInv, TablesInv
<1> QED
  BY <1>2, <1>3, <1>4, <1>5, AllStep

----------------------------------------------------------------------------
(* Requests that start, one that is cut short, and the invariant. *)

\* A request that starts on an account at rest and changes no table.
LEMMA QuietBegin ==
  ASSUME MirrorInv, TablesInv', NEW w \in Workers, NEW r \in ReqType, NEW b \in Accounts, b = r.a,
         Start(w, r), UNCHANGED abandoned,
         UNCHANGED <<group, members, active, invite, mirror, mirrorActive>>,
         \/ r.op = "create" /\ r.at = "insert"
         \/ r.op = "leave" /\ r.at = "delete" /\ group[r.g] = "live"
         \/ r.op = "switch" /\ r.at = "activate" /\ group[r.g] = "live" /\ b \in members[r.g]
  PROVE  MirrorInv'
<1>1. req'[w] = r
  BY StartFacts DEF MirrorInv, TablesInv
<1>2. NothingEnds /\ \A a \in Accounts : Same(a)
  BY DEF NothingEnds, Same
<1>3. Agrees(b) => Under(w, b)'
  <2> SUFFICES ASSUME Agrees(b) PROVE Under(w, b)'
    OBVIOUS
  <2>1. Agrees(b)'
    BY <1>2, SameAgrees DEF MirrorInv, TablesInv
  <2> QED
    BY <1>1, <2>1 DEF Under, Placed, Creates, Joins, Activates, Leaves, Deletes, At, AtSome
<1> QED
  BY <1>2, <1>3, BeginStep

LEMMA StartCreateMirror ==
  ASSUME MirrorInv, NEW w \in Workers, NEW g \in Groups, NEW a \in Accounts, StartCreate(w, g, a)
  PROVE  MirrorInv'
<1> DEFINE r == Request("create", "insert", g, a)
<1>1. r \in ReqType /\ r.op = "create" /\ r.at = "insert" /\ r.g = g /\ r.a = a
  BY DEF Request, Idle, ReqType, Places
<1>2. /\ Start(w, r) /\ UNCHANGED abandoned
      /\ UNCHANGED <<group, members, active, invite, mirror, mirrorActive>>
  BY DEF StartCreate, pg, redis
<1>3. TablesInv'
  BY StartCreateStep DEF MirrorInv
<1> HIDE DEF r
<1> QED
  BY <1>1, <1>2, <1>3, QuietBegin

LEMMA StartLeaveMirror ==
  ASSUME MirrorInv, NEW w \in Workers, NEW g \in Groups, NEW a \in Accounts, StartLeave(w, g, a)
  PROVE  MirrorInv'
<1> DEFINE r == Request("leave", "delete", g, a)
<1>1. r \in ReqType /\ r.op = "leave" /\ r.at = "delete" /\ r.g = g /\ r.a = a
  BY DEF Request, Idle, ReqType, Places
<1>2. /\ Start(w, r) /\ UNCHANGED abandoned /\ group[g] = "live"
      /\ UNCHANGED <<group, members, active, invite, mirror, mirrorActive>>
  BY DEF StartLeave, pg, redis
<1>3. TablesInv'
  BY StartLeaveStep DEF MirrorInv
<1> HIDE DEF r
<1> QED
  BY <1>1, <1>2, <1>3, QuietBegin

LEMMA StartSwitchMirror ==
  ASSUME MirrorInv, NEW w \in Workers, NEW g \in Groups, NEW a \in Accounts, StartSwitch(w, g, a)
  PROVE  MirrorInv'
<1> DEFINE r == Request("switch", "activate", g, a)
<1>1. r \in ReqType /\ r.op = "switch" /\ r.at = "activate" /\ r.g = g /\ r.a = a
  BY DEF Request, Idle, ReqType, Places
<1>2. /\ Start(w, r) /\ UNCHANGED abandoned /\ group[g] = "live" /\ a \in members[g]
      /\ UNCHANGED <<group, members, active, invite, mirror, mirrorActive>>
  BY DEF StartSwitch, pg, redis
<1>3. TablesInv'
  BY StartSwitchStep DEF MirrorInv
<1> HIDE DEF r
<1> QED
  BY <1>1, <1>2, <1>3, QuietBegin

LEMMA AdmitMirror ==
  ASSUME MirrorInv, NEW w \in Workers, NEW g \in Groups, NEW a \in Accounts, Admit(w, g, a)
  PROVE  MirrorInv'
<1> DEFINE r == Request("join", "countRead", g, a)
<1>1. r \in ReqType /\ r.op = "join" /\ r.at = "countRead" /\ r.g = g /\ r.a = a
  BY DEF Request, Idle, ReqType, Places
<1>2. /\ Start(w, r) /\ UNCHANGED abandoned /\ invite[g] # None
      /\ members' = [members EXCEPT ![g] = @ \cup {a}]
      /\ UNCHANGED <<group, active, invite, mirror, mirrorActive>>
  BY DEF Admit, redis
<1>3. TablesInv'
  BY AdmitStep DEF MirrorInv
<1> HIDE DEF r
<1>4. req'[w] = r
  BY <1>1, <1>2, StartFacts DEF MirrorInv, TablesInv
<1>5. NothingEnds
  BY <1>2 DEF NothingEnds
<1>6. /\ members'[g] = members[g] \cup {a}
      /\ \A h \in Groups \ {g} : members'[h] = members[h]
  BY <1>2 DEF MirrorInv, TablesInv, TypeOK
<1>7. \A b \in Accounts \ {a} : Same(b)
  BY <1>2, <1>6 DEF Same
<1>8. group[g] = "live"
  BY <1>2 DEF MirrorInv, TablesInv, TablesConsistent
<1>9. Agrees(a) => Under(w, a)'
  <2> SUFFICES ASSUME Agrees(a) PROVE Under(w, a)'
    OBVIOUS
  <2>1. SetsAgreeBut(a, req[w].g)' /\ KeyAgrees(a)'
    BY <1>1, <1>2, <1>4, <1>6 DEF Agrees, SetsAgree, SetsAgreeBut, KeyAgrees
  <2>2. InOwn(a)'
    <3>1. active[a] \in Groups \cup {None}
      BY DEF MirrorInv, TablesInv, TypeOK
    <3> QED
      BY <3>1, <1>2, <1>6 DEF Agrees, InOwn
  <2> QED
    BY <2>1, <2>2, <1>1, <1>2, <1>4, <1>6, <1>8 DEF Under, Placed, Creates, Joins, Activates, Leaves, Deletes, At, AtSome
<1> QED
  BY <1>1, <1>2, <1>3, <1>5, <1>7, <1>9, BeginStep

LEMMA StartDeleteMirror ==
  ASSUME MirrorInv, NEW w \in Workers, NEW g \in Groups, StartDelete(w, g)
  PROVE  MirrorInv'
<1> DEFINE r == [Request("delete", "listActive", g, owner[g]) EXCEPT !.todo = members[g]]
<1>1. members[g] \in SUBSET Accounts /\ owner[g] \in Accounts
  BY DEF StartDelete, MirrorInv, TablesInv, TypeOK
<1>2. /\ r \in ReqType /\ r.op = "delete" /\ r.at = "listActive" /\ r.g = g /\ r.a = owner[g]
      /\ r.todo = members[g]
  BY <1>1 DEF Request, Idle, ReqType, Places
<1>3. /\ Start(w, r) /\ UNCHANGED abandoned
      /\ UNCHANGED <<group, members, active, invite, mirror, mirrorActive>>
  BY DEF StartDelete, pg, redis
<1>4. TablesInv'
  BY StartDeleteStep DEF MirrorInv
<1> HIDE DEF r
<1>5. /\ req[w] = Idle /\ req'[w] = r
      /\ \A v \in Workers \ {w} : req'[v] = req[v]
  BY <1>1, <1>2, <1>3, StartFacts DEF MirrorInv, TablesInv
<1>6. overlapped' = overlapped \cup (Touches(r) \cap InFlight)
  BY <1>3 DEF Start
<1>7. Touches(req[w]) = {} /\ Touches(req'[w]) = Accounts
  BY <1>2, <1>5, TouchesWhat, IdleTyped
<1>8. \A v \in Workers \ {w} : Touches(req'[w]) \cap Touches(req[v]) \subseteq overlapped'
  BY <1>5, <1>6, InFlightWhat
<1>9. ASSUME NEW a \in Accounts, a \notin overlapped' \cup abandoned' PROVE Under(w, a)'
  <2>1. Agrees(a)
    BY <1>3, <1>5, <1>6, <1>7, <1>9, InFlightWhat DEF MirrorInv, AccountInv
  <2>2. Same(a)
    BY <1>3 DEF Same
  <2>3. Agrees(a)'
    BY <2>1, <2>2, SameAgrees DEF MirrorInv, TablesInv
  <2> QED
    BY <2>3, <1>2, <1>3, <1>5 DEF Under, Placed, Creates, Joins, Activates, Leaves, Deletes, At, AtSome
<1> QED
  BY <1>3, <1>4, <1>5, <1>6, <1>7, <1>8, <1>9, FrameStep

\* What a request cut short leaves behind is its accounts' own: they are abandoned.
LEMMA AbortMirror == ASSUME MirrorInv, NEW w \in Workers, Abort(w) PROVE MirrorInv'
<1>1. /\ abandoned = {} /\ abandoned' = Touches(req[w])
      /\ req' = [req EXCEPT ![w] = Idle]
      /\ UNCHANGED <<group, members, active, invite, mirror, mirrorActive, overlapped>>
  BY DEF Abort, pg, redis
<1>2. req'[w] = Idle /\ \A v \in Workers \ {w} : req'[v] = req[v]
  BY <1>1, ReqTyped DEF MirrorInv, TablesInv
<1>3. Touches(req'[w]) = {}
  BY <1>2, TouchesWhat, IdleTyped
<1>4. TablesInv'
  BY AbortStep DEF MirrorInv
<1>5. NothingEnds /\ \A a \in Accounts : Same(a)
  BY <1>1 DEF NothingEnds, Same
<1> QED
  BY <1>1, <1>2, <1>3, <1>4, <1>5, FrameStep

\* A step that no request takes, and that at most issues an invite.
LEMMA QuietMirror ==
  ASSUME MirrorInv, TablesInv',
         UNCHANGED <<group, members, active, mirror, mirrorActive, req, overlapped, abandoned>>,
         \A g \in Groups : invite[g] # None => invite'[g] # None
  PROVE  MirrorInv'
<1>1. OverlapInv'
  BY DEF MirrorInv, OverlapInv, Touches
<1>2. NothingEnds /\ \A a \in Accounts : Same(a)
  BY DEF NothingEnds, Same
<1>3. ASSUME NEW a \in Accounts, a \notin overlapped' \cup abandoned'
      PROVE  /\ (\A w \in Workers : a \notin Touches(req'[w])) => Agrees(a)'
             /\ \A w \in Workers : a \in Touches(req'[w]) => Under(w, a)'
  <2>1. (\A w \in Workers : a \notin Touches(req'[w])) => Agrees(a)'
    BY <1>2, <1>3, SameAgrees DEF MirrorInv, TablesInv, AccountInv
  <2>2. ASSUME NEW w \in Workers, a \in Touches(req'[w]) PROVE Under(w, a)'
    <3>1. req'[w] = req[w] /\ Under(w, a)
      BY <1>3, <2>2 DEF MirrorInv, AccountInv
    <3>2. req[w].op # "idle"
      BY <2>2, <3>1, TouchesWhat
    <3>3. req[w].g \in Groups
      BY <3>2 DEF MirrorInv, TablesInv, ReqInv
    <3> QED
      BY <3>1, <3>3, <1>2, SameUnder DEF MirrorInv, TablesInv
  <2> QED
    BY <2>1, <2>2
<1>4. AccountInv'
  BY <1>3 DEF AccountInv, Touches
<1> QED
  BY <1>1, <1>4 DEF MirrorInv

LEMMA CreateInviteMirror == ASSUME MirrorInv, NEW g \in Groups, CreateInvite(g) PROVE MirrorInv'
<1>1. /\ invite' = [invite EXCEPT ![g] = [status |-> "active", uses |-> 0]]
      /\ UNCHANGED <<group, members, active, mirror, mirrorActive, req, overlapped, abandoned>>
  BY DEF CreateInvite, redis, ghosts
<1>2. TablesInv'
  BY CreateInviteStep DEF MirrorInv
<1>3. [status |-> "active", uses |-> 0] # None
  BY SharingAssumption
<1>4. \A h \in Groups : invite[h] # None => invite'[h] # None
  BY <1>1, <1>3 DEF MirrorInv, TablesInv, TypeOK
<1> QED
  BY <1>1, <1>2, <1>4, QuietMirror

LEMMA InitMirror == Init => MirrorInv
<1> SUFFICES ASSUME Init PROVE MirrorInv
  OBVIOUS
<1>1. \A w \in Workers : Touches(req[w]) = {}
  BY TouchesWhat, IdleTyped DEF Init
<1>2. OverlapInv
  BY <1>1 DEF OverlapInv
<1>3. \A a \in Accounts : Agrees(a)
  BY DEF Init, Agrees, SetsAgree, KeyAgrees, InOwn
<1> QED
  BY <1>1, <1>2, <1>3, InitTables DEF MirrorInv, AccountInv

LEMMA RequestMirror == ASSUME MirrorInv, NEW w \in Workers, Step(w) PROVE MirrorInv'
BY InsertGroupMirror, InsertOwnerMirror, AddToMirrorMirror, SetActiveMirror, SetActiveKeyMirror,
   ReadCountMirror, WriteCountMirror, ReloadInviteMirror, DeleteMemberMirror,
   RemoveFromMirrorMirror, PublishLeaveMirror, ReadActiveMirror, ClearActiveMirror,
   DeleteActiveKeyMirror, ListActiveMirror, DeleteRowsMirror, DeleteEndsMirror,
   PublishDeleteMirror, ClearActiveKeyMirror, DeleteMembersKeyMirror
   DEF Step

LEMMA NewRequestMirror == ASSUME MirrorInv, NEW w \in Workers, NewRequest(w) PROVE MirrorInv'
BY StartDeleteMirror, StartCreateMirror, AdmitMirror, StartLeaveMirror, StartSwitchMirror
   DEF NewRequest

LEMMA NextMirror == MirrorInv /\ [Next]_sharingVars => MirrorInv'
<1> SUFFICES ASSUME MirrorInv, [Next]_sharingVars PROVE MirrorInv'
  OBVIOUS
<1>1. CASE Next
  BY <1>1, RequestMirror, NewRequestMirror, AbortMirror, CreateInviteMirror DEF Next
<1>2. CASE UNCHANGED sharingVars
  <2>1. TablesInv'
    BY <1>2, NextTables DEF MirrorInv
  <2> QED
    BY <2>1, <1>2, QuietMirror DEF sharingVars, pg, redis, ghosts
<1> QED
  BY <1>1, <1>2

LEMMA MirrorIsInvariant == Spec => []MirrorInv
BY InitMirror, NextMirror, PTL DEF Spec

LEMMA MirrorInvAgrees == MirrorInv => MirrorAgrees
<1> SUFFICES ASSUME MirrorInv, NEW a \in Accounts \ (overlapped \cup abandoned \cup InFlight)
             PROVE  /\ mirrorActive[a] = active[a]
                    /\ \A g \in Groups : a \in mirror[g] <=> a \in members[g]
                    /\ active[a] # None => a \in members[active[a]]
  BY DEF MirrorAgrees
<1>1. \A w \in Workers : a \notin Touches(req[w])
  BY InFlightWhat
<1>2. Agrees(a)
  BY <1>1 DEF MirrorInv, AccountInv
<1> QED
  BY <1>2 DEF Agrees, SetsAgree, KeyAgrees, InOwn

\* The mirror the relay reads says what the tables say of every account that no
\* request deals with, unless two dealt with it at once or one was cut short,
\* whatever other requests of sharing_service are doing.
THEOREM SharingMirrorAgrees == Spec => []MirrorAgrees
BY MirrorIsInvariant, MirrorInvAgrees, PTL
=============================================================================
