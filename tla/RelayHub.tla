------------------------------ MODULE RelayHub ------------------------------
(***************************************************************************)
(* The relay's in-memory registry of live connections                      *)
(* (backend_go/internal/hub): Hub.Register, Unregister, Broadcast and      *)
(* RevokeAccount, and the two goroutines each Client runs.                 *)
(*                                                                         *)
(* Hub.mu makes Register, Unregister and the two snapshots atomic.         *)
(* Everything after a snapshot happens outside the lock, one target at a   *)
(* time, and interleaves with every other goroutine: those are the steps   *)
(* of this module.                                                         *)
(*                                                                         *)
(* A Client object serves one connection and is never reused, so a member  *)
(* of Clients goes from "new" through "serving" to "over" once.            *)
(***************************************************************************)
EXTENDS Integers, Sequences, FiniteSets

CONSTANTS
    Clients,     \* the *Client objects the process creates
    Rooms,       \* the roomKeys: records [group, server]
    RoomOf,      \* RoomOf[c]: the room the handshake placed c in
    AccountOf,   \* AccountOf[c]: the account behind c
    SendCap,     \* capacity of Client.send (32 in NewClient)
    MaxSeq,      \* bound on the sequence numbers a peer sends
    Pong         \* the payload replyPong queues

NoSeq == -1      \* sawSeq = false: no batch accepted yet

SightingPayload == [from : Clients, seq : 0..MaxSeq]
Payload == SightingPayload \cup {Pong}

ASSUME HubAssumption ==
    /\ IsFiniteSet(Clients)
    /\ RoomOf \in [Clients -> Rooms]
    /\ SendCap \in Nat \ {0}
    /\ MaxSeq \in Nat
    /\ Pong \notin SightingPayload

VARIABLES
    rooms,       \* Hub.rooms: a map from the non-empty rooms to their clients
    clients,     \* Hub.clients
    run,         \* how far Client.Run has come
    reader,      \* where readPump is
    writer,      \* where writePump is
    closed,      \* the connection was closed from this side
    send,        \* the buffered channel Client.send
    lastSeq,     \* readPump's lastSeq, NoSeq while sawSeq is false
    targets,     \* the snapshot a running Broadcast still has to serve
    revoking,    \* the snapshot a running RevokeAccount still has to close
    got          \* got[c][d]: the last batch of d written to c's peer

vars == <<rooms, clients, run, reader, writer, closed, send, lastSeq,
          targets, revoking, got>>

connVars == <<run, reader, writer, closed>>

TypeOK ==
    /\ DOMAIN rooms \subseteq Rooms
    /\ \A k \in DOMAIN rooms : rooms[k] \subseteq Clients
    /\ clients \in Int
    /\ run \in [Clients -> {"new", "serving", "over"}]
    /\ reader \in [Clients -> {"off", "reading", "storing", "fanout", "ended"}]
    /\ writer \in [Clients -> {"off", "running", "ended"}]
    /\ closed \in [Clients -> BOOLEAN]
    /\ send \in [Clients -> Seq(Payload)]
    /\ lastSeq \in [Clients -> 0..MaxSeq \cup {NoSeq}]
    /\ targets \in [Clients -> SUBSET Clients]
    /\ revoking \subseteq Clients
    /\ got \in [Clients -> [Clients -> 0..MaxSeq \cup {NoSeq}]]

Init ==
    /\ rooms = [k \in {} |-> {}]
    /\ clients = 0
    /\ run = [c \in Clients |-> "new"]
    /\ reader = [c \in Clients |-> "off"]
    /\ writer = [c \in Clients |-> "off"]
    /\ closed = [c \in Clients |-> FALSE]
    /\ send = [c \in Clients |-> <<>>]
    /\ lastSeq = [c \in Clients |-> NoSeq]
    /\ targets = [c \in Clients |-> {}]
    /\ revoking = {}
    /\ got = [c \in Clients |-> [d \in Clients |-> NoSeq]]

----------------------------------------------------------------------------
(* The registry. *)

\* The clients in room k; the Go map yields nil, an empty room, for a missing key.
Room(k) == IF k \in DOMAIN rooms THEN rooms[k] ELSE {}

\* Every client present in some room.
Registered == UNION {rooms[k] : k \in DOMAIN rooms}

\* Deviation: an emptied room stays in the map.
KeepEmptyRoom(k, S) ==
    [j \in DOMAIN rooms \cup {k} |-> IF j = k THEN S ELSE rooms[j]]

\* h.rooms with room k holding S; an empty room is pruned.
WithRoom(k, S) ==
    LET keys == IF S = {} THEN DOMAIN rooms \ {k} ELSE DOMAIN rooms \cup {k}
    IN  [j \in keys |-> IF j = k THEN S ELSE rooms[j]]

\* Hub.Register, called first thing by Client.Run, which then starts both pumps.
Register(c) ==
    /\ run[c] = "new"
    /\ rooms' = WithRoom(RoomOf[c], Room(RoomOf[c]) \cup {c})
    /\ clients' = clients + 1
    /\ run' = [run EXCEPT ![c] = "serving"]
    /\ reader' = [reader EXCEPT ![c] = "reading"]
    /\ writer' = [writer EXCEPT ![c] = "running"]
    /\ UNCHANGED <<closed, send, lastSeq, targets, revoking, got>>

\* Deviation: the WaitGroup waits for one pump only.
UnregisterAfterOnePump(c) ==
    /\ run[c] = "serving"
    /\ reader[c] = "ended" \/ writer[c] = "ended"
    /\ run' = [run EXCEPT ![c] = "over"]
    /\ rooms' = WithRoom(RoomOf[c], Room(RoomOf[c]) \ {c})
    /\ clients' = clients - 1
    /\ UNCHANGED <<reader, writer, closed, send, lastSeq, targets, revoking, got>>

\* The deferred Hub.Unregister: wg.Wait has seen both pumps return.
Unregister(c) ==
    /\ run[c] = "serving"
    /\ reader[c] = "ended"
    /\ writer[c] = "ended"
    /\ run' = [run EXCEPT ![c] = "over"]
    /\ IF c \in Room(RoomOf[c])
       THEN /\ rooms' = WithRoom(RoomOf[c], Room(RoomOf[c]) \ {c})
            /\ clients' = clients - 1
       ELSE UNCHANGED <<rooms, clients>>
    /\ UNCHANGED <<reader, writer, closed, send, lastSeq, targets, revoking, got>>

----------------------------------------------------------------------------
(* readPump. *)

\* ReadMessage fails (closed here, peer gone, pongWait elapsed), or the frame
\* does not decode, or the sighting does not validate: the loop returns.
ReadEnds(c) ==
    /\ reader[c] = "reading"
    /\ reader' = [reader EXCEPT ![c] = "ended"]
    /\ UNCHANGED <<rooms, clients, run, writer, closed, send, lastSeq, targets,
                   revoking, got>>

\* MsgPing: replyPong queues without blocking, and gives up on a full buffer.
ReadPing(c) ==
    /\ reader[c] = "reading"
    /\ ~closed[c]
    /\ Len(send[c]) < SendCap
    /\ send' = [send EXCEPT ![c] = Append(@, Pong)]
    /\ UNCHANGED <<rooms, clients, connVars, lastSeq, targets, revoking, got>>

\* Deviation: no stale-batch rule.
ReadAnySighting(c, seq) ==
    /\ reader[c] = "reading"
    /\ ~closed[c]
    /\ lastSeq' = [lastSeq EXCEPT ![c] = seq]
    /\ reader' = [reader EXCEPT ![c] = "storing"]
    /\ UNCHANGED <<rooms, clients, run, writer, closed, send, targets, revoking, got>>

\* MsgSighting: a batch that is not newer than the last accepted one is skipped.
ReadSighting(c, seq) ==
    /\ reader[c] = "reading"
    /\ ~closed[c]
    /\ ~(lastSeq[c] # NoSeq /\ seq <= lastSeq[c])
    /\ lastSeq' = [lastSeq EXCEPT ![c] = seq]
    /\ reader' = [reader EXCEPT ![c] = "storing"]
    /\ UNCHANGED <<rooms, clients, run, writer, closed, send, targets, revoking, got>>

\* Deviation: fan-out scoped by group alone.
BroadcastToGroup(c) ==
    /\ reader[c] = "storing"
    /\ targets' = [targets EXCEPT
         ![c] = {d \in Registered : RoomOf[d].group = RoomOf[c].group} \ {c}]
    /\ reader' = [reader EXCEPT ![c] = "fanout"]
    /\ UNCHANGED <<rooms, clients, run, writer, closed, send, lastSeq, revoking, got>>

\* handleSighting has made its Redis calls; Broadcast snapshots the room.
BroadcastSnapshot(c) ==
    /\ reader[c] = "storing"
    /\ targets' = [targets EXCEPT ![c] = Room(RoomOf[c]) \ {c}]
    /\ reader' = [reader EXCEPT ![c] = "fanout"]
    /\ UNCHANGED <<rooms, clients, run, writer, closed, send, lastSeq, revoking, got>>

\* Deviation: a blocking send on a full buffer.
BroadcastSendBlocking(c, d) ==
    /\ reader[c] = "fanout"
    /\ d \in targets[c]
    /\ Len(send[d]) < SendCap
    /\ targets' = [targets EXCEPT ![c] = @ \ {d}]
    /\ send' = [send EXCEPT ![d] = Append(@, [from |-> c, seq |-> lastSeq[c]])]
    /\ UNCHANGED <<rooms, clients, run, reader, writer, closed, lastSeq, revoking, got>>

\* Deviation: a payload that does not fit is dropped, as replyPong drops one.
BroadcastSendOrSkip(c, d) ==
    /\ reader[c] = "fanout"
    /\ d \in targets[c]
    /\ targets' = [targets EXCEPT ![c] = @ \ {d}]
    /\ send' = IF Len(send[d]) < SendCap
               THEN [send EXCEPT ![d] = Append(@, [from |-> c, seq |-> lastSeq[c]])]
               ELSE send
    /\ UNCHANGED <<rooms, clients, run, reader, writer, closed, lastSeq, revoking, got>>

\* One iteration of Broadcast's loop, outside the lock: queue the payload, or
\* closeSlow a target whose buffer is full. The target may be long gone.
BroadcastSend(c, d) ==
    /\ reader[c] = "fanout"
    /\ d \in targets[c]
    /\ targets' = [targets EXCEPT ![c] = @ \ {d}]
    /\ IF Len(send[d]) < SendCap
       THEN /\ send' = [send EXCEPT ![d] = Append(@, [from |-> c, seq |-> lastSeq[c]])]
            /\ UNCHANGED closed
       ELSE /\ closed' = [closed EXCEPT ![d] = TRUE]
            /\ UNCHANGED send
    /\ UNCHANGED <<rooms, clients, run, reader, writer, lastSeq, revoking, got>>

BroadcastDone(c) ==
    /\ reader[c] = "fanout"
    /\ targets[c] = {}
    /\ reader' = [reader EXCEPT ![c] = "reading"]
    /\ UNCHANGED <<rooms, clients, run, writer, closed, send, lastSeq, targets,
                   revoking, got>>

----------------------------------------------------------------------------
(* writePump. A ping tick whose write succeeds changes nothing. *)

WriteFrame(c) ==
    /\ writer[c] = "running"
    /\ ~closed[c]
    /\ send[c] # <<>>
    /\ send' = [send EXCEPT ![c] = Tail(@)]
    /\ LET p == Head(send[c])
       IN  got' = IF p = Pong THEN got ELSE [got EXCEPT ![c][p.from] = p.seq]
    /\ UNCHANGED <<rooms, clients, connVars, lastSeq, targets, revoking>>

\* A payload or ping write fails: the deferred conn.Close runs.
WriteFails(c) ==
    /\ writer[c] = "running"
    /\ writer' = [writer EXCEPT ![c] = "ended"]
    /\ closed' = [closed EXCEPT ![c] = TRUE]
    /\ \/ UNCHANGED send
       \/ /\ send[c] # <<>>
          /\ send' = [send EXCEPT ![c] = Tail(@)]
    /\ UNCHANGED <<rooms, clients, run, reader, lastSeq, targets, revoking, got>>

----------------------------------------------------------------------------
(* RevokeAccount: one Watch goroutine, so one call at a time. *)

\* Deviation: the snapshot collects account ids, not connections.
RevokeSnapshotAccounts(g, a) ==
    /\ revoking = {}
    /\ revoking' = {AccountOf[c] : c \in
                      {d \in Registered : RoomOf[d].group = g /\ AccountOf[d] = a}}
    /\ UNCHANGED <<rooms, clients, connVars, send, lastSeq, targets, got>>

RevokeSnapshot(g, a) ==
    /\ revoking = {}
    /\ revoking' = {c \in Registered : RoomOf[c].group = g /\ AccountOf[c] = a}
    /\ UNCHANGED <<rooms, clients, connVars, send, lastSeq, targets, got>>

\* Deviation: closeOnce is spent without closing.
RevokeForget(c) ==
    /\ c \in revoking
    /\ revoking' = revoking \ {c}
    /\ UNCHANGED <<rooms, clients, connVars, send, lastSeq, targets, got>>

RevokeClose(c) ==
    /\ c \in revoking
    /\ revoking' = revoking \ {c}
    /\ closed' = [closed EXCEPT ![c] = TRUE]
    /\ UNCHANGED <<rooms, clients, run, reader, writer, send, lastSeq, targets, got>>

----------------------------------------------------------------------------

ReadPump(c) ==
    \/ ReadEnds(c)
    \/ ReadPing(c)
    \/ \E seq \in 0..MaxSeq : ReadSighting(c, seq)
    \/ BroadcastSnapshot(c)
    \/ \E d \in Clients : BroadcastSend(c, d)
    \/ BroadcastDone(c)

Next ==
    \/ \E c \in Clients :
        \/ Register(c)
        \/ Unregister(c)
        \/ ReadPump(c)
        \/ WriteFrame(c)
        \/ WriteFails(c)
        \/ RevokeClose(c)
    \/ \E k \in Rooms, c \in Clients : RevokeSnapshot(k.group, AccountOf[c])

(***************************************************************************)
(* Fairness: a goroutine that can run does run. A read on a closed stream  *)
(* returns, a write returns within writeWait, and a ping tick comes within *)
(* pingInterval, so a writer on a closed stream finds out. Nothing makes a *)
(* peer send, and nothing makes it misbehave.                              *)
(***************************************************************************)
Fairness ==
    \A c \in Clients :
        /\ WF_vars(closed[c] /\ ReadEnds(c))
        /\ WF_vars(BroadcastSnapshot(c))
        /\ WF_vars(\E d \in Clients : BroadcastSend(c, d))
        /\ WF_vars(BroadcastDone(c))
        /\ WF_vars(WriteFrame(c) \/ (closed[c] /\ WriteFails(c)))
        /\ WF_vars(RevokeClose(c))
        /\ WF_vars(Unregister(c))

Spec == Init /\ [][Next]_vars
FairSpec == Spec /\ Fairness

----------------------------------------------------------------------------
(* Properties. *)

\* The registry and the goroutines agree: a client is in a room exactly while
\* its Run is between Register and Unregister, in the room its handshake chose
\* and in no other, no empty room is kept, and Hub.clients, which every
\* connect and disconnect only increments or decrements, is the head count.
RegistryMatchesRuns ==
    /\ \A k \in DOMAIN rooms :
        /\ rooms[k] # {}
        /\ rooms[k] = {c \in Clients : run[c] = "serving" /\ RoomOf[c] = k}
    /\ \A c \in Clients : run[c] = "serving" => RoomOf[c] \in DOMAIN rooms
    /\ clients = Cardinality({c \in Clients : run[c] = "serving"})

\* A sighting is only ever queued for a client of the reporter's own room, and
\* never for the reporter, although the target list is used after the lock is
\* released and may name clients that have left.
SightingsStayInRoom ==
    \A c \in Clients : \A i \in DOMAIN send[c] :
        send[c][i] # Pong =>
            /\ send[c][i].from # c
            /\ RoomOf[send[c][i].from] = RoomOf[c]

\* The batches of one reporter reach each peer in the order they were accepted,
\* with gaps but never backwards and never twice (readPump's stale-seq rule and
\* the FIFO channel together).
BatchesInOrder ==
    \A c, d \in Clients :
        LET fromD == {i \in DOMAIN send[c] : send[c][i] # Pong /\ send[c][i].from = d}
        IN  /\ \A i \in fromD : got[c][d] < send[c][i].seq
            /\ \A i, j \in fromD : i < j => send[c][i].seq < send[c][j].seq

\* Client.Run leaves nothing behind: a finished client had both pumps return
\* and its connection closed.
FinishedIsClosed ==
    \A c \in Clients : run[c] = "over" =>
        reader[c] = "ended" /\ writer[c] = "ended" /\ closed[c]

\* What ties the snapshots, the queues and the pumps together: the conjuncts the
\* invariants above need in order to be inductive.
PumpInv ==
    \A c \in Clients :
        /\ run[c] = "new" => reader[c] = "off" /\ writer[c] = "off"
        /\ run[c] = "over" => reader[c] = "ended" /\ writer[c] = "ended"
        /\ writer[c] = "ended" => closed[c]
        /\ reader[c] \in {"storing", "fanout"} => lastSeq[c] # NoSeq
        /\ targets[c] # {} => reader[c] = "fanout"
        /\ \A d \in targets[c] : d # c /\ RoomOf[d] = RoomOf[c]

\* Whether c's batch numbered lastSeq[c] may still be queued for d.
Undelivered(c, d) == reader[c] = "storing" \/ d \in targets[c]

\* Everything of d that c's queue holds or its peer has got was accepted from d;
\* the batch d is handing out has not reached those still to be served.
QueueInv ==
    \A c, d \in Clients :
        /\ got[c][d] <= lastSeq[d]
        /\ Undelivered(d, c) => got[c][d] < lastSeq[d]
        /\ \A i \in DOMAIN send[c] :
             send[c][i] # Pong /\ send[c][i].from = d =>
                /\ send[c][i].seq <= lastSeq[d]
                /\ Undelivered(d, c) => send[c][i].seq < lastSeq[d]

\* The payload of b is in its addressee's buffer, or a running Broadcast has yet
\* to come to the addressee.
OnItsWay(b) ==
    \/ \E i \in DOMAIN send[b.to] : send[b.to][i] = [from |-> b.from, seq |-> b.seq]
    \/ b.to \in targets[b.from] /\ b.seq = lastSeq[b.from]

\* What the hub still has to write to connections it has not closed.
Owed == {b \in [to : Clients, from : Clients, seq : 0..MaxSeq] :
            ~closed[b.to] /\ OnItsWay(b)}

\* The hub implements RoomBroadcast: whatever the goroutines do between the
\* snapshot and the last write, every peer that was in the room and is not closed
\* gets every batch of the others, in order. No select drops a payload quietly.
FanOut == INSTANCE RoomBroadcast WITH
    present <- {c \in Clients : run[c] = "serving"},
    cut <- {c \in Clients : closed[c]},
    latest <- lastSeq,
    pending <- {c \in Clients : reader[c] = "storing"},
    owed <- Owed
KeepsFanOut == FanOut!Spec

\* A client that Register has not seen is in nobody's snapshot, and nobody has
\* closed it.
FreshInv ==
    \A c \in Clients : run[c] = "new" =>
        /\ ~closed[c]
        /\ c \notin revoking
        /\ \A d \in Clients : c \notin targets[d]

\* closeSlow ends in teardown: a connection closed because its buffer was full,
\* or because its account was revoked, is eventually unregistered.
ClosedIsUnregistered ==
    \A c \in Clients : closed[c] \/ c \in revoking ~> run[c] = "over"

\* A peer that does not read cannot hold up the reporter: every accepted batch
\* is handed out and the reporter returns to its read loop.
BroadcastNeverBlocks ==
    \A c \in Clients : reader[c] \in {"storing", "fanout"} ~> reader[c] = "reading"

\* What Run's comment promises: it blocks "until either side ends the
\* connection", and readPump's bad-frame branch says it drops the connection.
EitherSideEndsRun ==
    \A c \in Clients : reader[c] = "ended" ~> run[c] = "over"
=============================================================================
