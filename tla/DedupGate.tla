------------------------------ MODULE DedupGate ------------------------------
(***************************************************************************)
(* The gate between what connections report and the durable streams        *)
(* (internal/hub/client.go: handleSighting, maybeStream, streamVanished):  *)
(* an entity is published when its content hash has changed since the last *)
(* publication, or the keyframe has elapsed.  The hash is a field of the   *)
(* entity's live hash in Redis (internal/store), shared by every           *)
(* connection of the room and gone with it after EntityTTL.                *)
(*                                                                         *)
(* Downstream, the backend applies the entries to its rows in order, but   *)
(* for those it claims again (StreamConsumer, SightingIngest).  Time is    *)
(* not counted: a keyframe passes, a hash expires.  A report is of one     *)
(* entity, and clients go on reporting what they see.                      *)
(***************************************************************************)
EXTENDS Naturals, Sequences, Functions

CONSTANTS
    Clients,       \* connections of one room
    Owners, Cells, \* tribes, and cells of dedup's grid
    NoTribe,       \* the owner of what a sighting names no tribe for
    Entities,      \* what the behaviours are about: [cat, durable, forms], where durable
                   \* is FALSE of a wild dino and of a player without a StableID, and
                   \* forms are the values it takes in the game
    MaxChanges,    \* bounds on the changes of the world, ...
    MaxStream,     \* ... the backlog of the stream,
    MaxFailures,   \* and the calls that fail
    None

Values == [owner : Owners \cup {NoTribe}, cell : Cells]

ASSUME GateAssumption ==
    /\ \A e \in Entities : e.forms \subseteq Values
    /\ None \notin Cells
    /\ MaxChanges \in Nat /\ MaxStream \in Nat /\ MaxFailures \in Nat

VARIABLES
    world,    \* the entity as it is in the game: [owner, cell], or None (external)
    seen,     \* clients whose last frame had the entity (external)
    handler,  \* what each connection's read loop is doing: [at, val]
    gate,     \* the live hash's fields: [hash, old, ttl]; old is streamed_at before the keyframe
    stream,   \* entries not yet delivered: [val, removed]
    pending,  \* entries delivered and not acknowledged
    row,      \* the row in Postgres: [owner, cell], or None
    entity,   \* the entity of this behaviour
    sent,     \* what was published since the last keyframe or expiry (ghost)
    lingers,  \* the row may stay although the entity is gone (ghost)
    changes, failures

vars == <<world, seen, handler, gate, stream, pending, row, entity, sent, lingers, changes, failures>>

Entries == [val : Values \cup {None}, removed : BOOLEAN]
Free == [at |-> "idle", val |-> None]
NoHash == [hash |-> None, old |-> FALSE, ttl |-> FALSE]

GateTypeOK ==
    /\ world \in Values \cup {None} /\ row \in Values \cup {None}
    /\ seen \subseteq Clients
    /\ handler \in [Clients -> [at : {"idle", "upsert", "lookup", "publish", "mark", "vanished"},
                                val : Values \cup {None}]]
    /\ gate \in [hash : Cells \cup {None}, old : BOOLEAN, ttl : BOOLEAN]
    /\ stream \in Seq(Entries) /\ Len(stream) <= MaxStream /\ pending \subseteq Entries
    /\ sent \subseteq Values /\ lingers \in BOOLEAN
    /\ changes \in 0..MaxChanges /\ failures \in 0..MaxFailures

Init ==
    /\ entity \in Entities
    /\ world \in entity.forms
    /\ seen = {}
    /\ handler = [c \in Clients |-> Free]
    /\ gate = NoHash
    /\ stream = <<>> /\ pending = {}
    /\ row = None
    /\ sent = {} /\ lingers = FALSE
    /\ changes = 0 /\ failures = 0

Fails == failures < MaxFailures /\ failures' = failures + 1
Goto(c, at) == handler' = [handler EXCEPT ![c] = IF at = "idle" THEN Free ELSE [@ EXCEPT !.at = at]]

----------------------------------------------------------------------------
(* The game and its clients (external). *)

\* A structure changes hands, is abandoned, demolished or built again where it
\* was; a player moves.
WorldChanges ==
    /\ changes < MaxChanges
    /\ changes' = changes + 1
    /\ world' \in (entity.forms \cup (IF entity.cat = "structure" THEN {None} ELSE {})) \ {world}
    /\ UNCHANGED <<seen, handler, gate, stream, pending, row, entity, sent, lingers, failures>>

\* A frame with the entity in it.
Report(c) ==
    /\ handler[c] = Free
    /\ world # None
    /\ handler' = [handler EXCEPT ![c] = [at |-> "upsert", val |-> world]]
    /\ seen' = seen \cup {c}
    /\ UNCHANGED <<world, gate, stream, pending, row, entity, sent, lingers, changes, failures>>

\* A frame that names the key as vanished.
ReportVanished(c) ==
    /\ handler[c] = Free
    /\ world = None
    /\ c \in seen
    /\ handler' = [handler EXCEPT ![c] = [at |-> "vanished", val |-> None]]
    /\ seen' = seen \ {c}
    /\ UNCHANGED <<world, gate, stream, pending, row, entity, sent, lingers, changes, failures>>

----------------------------------------------------------------------------
(* handleSighting. *)

\* EntityStore.Upsert: the script writes the live fields and renews the TTL;
\* an error is only logged.
Upsert(c) ==
    /\ handler[c].at = "upsert"
    /\ \/ gate' = [gate EXCEPT !.ttl = TRUE] /\ UNCHANGED failures
       \/ Fails /\ UNCHANGED gate
    /\ Goto(c, "lookup")
    /\ UNCHANGED <<world, seen, stream, pending, row, entity, sent, lingers, changes>>

\* Deviation: without the keyframe.
LastHashOnly(c) ==
    /\ handler[c].at = "lookup"
    /\ Goto(c, IF entity.durable /\ handler[c].val.cell # gate.hash THEN "publish" ELSE "idle")
    /\ UNCHANGED <<world, seen, gate, stream, pending, row, entity, sent, lingers, changes, failures>>

\* The first half of maybeStream.  A lookup that fails must not suppress.
LastHash(c) ==
    /\ handler[c].at = "lookup"
    /\ \/ ~entity.durable /\ Goto(c, "idle") /\ UNCHANGED failures
       \/ /\ entity.durable
          /\ Goto(c, IF handler[c].val.cell # gate.hash \/ gate.old THEN "publish" ELSE "idle")
          /\ UNCHANGED failures
       \/ entity.durable /\ Fails /\ Goto(c, "publish")
    /\ UNCHANGED <<world, seen, gate, stream, pending, row, entity, sent, lingers, changes>>

\* XADD; MAXLEN is far away.
Enqueue(val, removed) ==
    /\ Len(stream) < MaxStream
    /\ stream' = Append(stream, [val |-> val, removed |-> removed])

\* Deviation: the hash is recorded although the XADD failed.
PublishAnyway(c) ==
    /\ handler[c].at = "publish"
    /\ \/ /\ Enqueue(handler[c].val, FALSE)
          /\ sent' = sent \cup {handler[c].val}
          /\ UNCHANGED failures
       \/ Fails /\ UNCHANGED <<stream, sent>>
    /\ Goto(c, "mark")
    /\ UNCHANGED <<world, seen, gate, pending, row, entity, lingers, changes>>

Publish(c) ==
    /\ handler[c].at = "publish"
    /\ \/ /\ Enqueue(handler[c].val, FALSE)
          /\ sent' = sent \cup {handler[c].val}
          /\ Goto(c, "mark")
          /\ UNCHANGED failures
       \/ Fails /\ Goto(c, "idle") /\ UNCHANGED <<stream, sent>>
    /\ UNCHANGED <<world, seen, gate, pending, row, entity, lingers, changes>>

\* Deviation: the tribe is recorded where the hash belongs.
SetLastTribe(c) ==
    /\ handler[c].at = "mark"
    /\ gate' = [gate EXCEPT !.hash = handler[c].val.owner, !.old = FALSE]
    /\ Goto(c, "idle")
    /\ UNCHANGED <<world, seen, stream, pending, row, entity, sent, lingers, changes, failures>>

\* SetLastHash: HSET without EXPIRE, so that a hash which is gone by now, or
\* never was, comes back without a TTL.
SetLastHash(c) ==
    /\ handler[c].at = "mark"
    /\ \/ gate' = [gate EXCEPT !.hash = handler[c].val.cell, !.old = FALSE] /\ UNCHANGED failures
       \/ Fails /\ UNCHANGED gate
    /\ Goto(c, "idle")
    /\ UNCHANGED <<world, seen, stream, pending, row, entity, sent, lingers, changes>>

\* Deviation: a removal goes through the gate like a sighting.
VanishedThroughGate(c) ==
    /\ handler[c].at = "vanished"
    /\ \/ /\ entity.cat = "structure" /\ gate.hash = None
          /\ Enqueue(None, TRUE)
       \/ /\ entity.cat = "structure" => gate.hash # None
          /\ UNCHANGED stream
    /\ Goto(c, "idle")
    /\ UNCHANGED <<world, seen, gate, pending, row, entity, sent, lingers, changes, failures>>

\* streamVanished: only of a key that carries a content hash, published once.
StreamVanished(c) ==
    /\ handler[c].at = "vanished"
    /\ \/ entity.cat = "structure" /\ Enqueue(None, TRUE) /\ UNCHANGED <<lingers, failures>>
       \/ entity.cat # "structure" /\ UNCHANGED <<stream, lingers, failures>>
       \/ entity.cat = "structure" /\ Fails /\ lingers' = TRUE /\ UNCHANGED stream
    /\ Goto(c, "idle")
    /\ UNCHANGED <<world, seen, gate, pending, row, entity, sent, changes>>

----------------------------------------------------------------------------
(* Time, for the fields of the live hash. *)

\* streamKeyframe passes since streamed_at; no handler takes that long.
KeyframePasses ==
    /\ gate.hash # None /\ ~gate.old
    /\ \A c \in Clients : handler[c].at # "mark"
    /\ gate' = [gate EXCEPT !.old = TRUE]
    /\ sent' = {}
    /\ UNCHANGED <<world, seen, handler, stream, pending, row, entity, lingers, changes, failures>>

\* EntityTTL passes without a sighting.
HashExpires ==
    /\ gate.ttl
    /\ \A c \in Clients : handler[c].at \in {"idle", "mark", "vanished"}
    /\ gate' = NoHash
    /\ sent' = {handler[c].val : c \in {d \in Clients : handler[d].at = "mark"}}
    /\ UNCHANGED <<world, seen, handler, stream, pending, row, entity, lingers, changes, failures>>

----------------------------------------------------------------------------
(* The backend: upsert_structure, delete_by_hash and upsert_player, by key. *)

\* A sighting that names no tribe leaves the tribe of a row that exists.
Apply(entry) ==
    LET tribeless == entry.val # None /\ entry.val.owner = NoTribe
    IN  row' = IF tribeless /\ row # None THEN [entry.val EXCEPT !.owner = row.owner] ELSE entry.val

\* The next entry; its handler may fail, or its acknowledgement be lost.
Deliver ==
    LET entry == Head(stream) IN
    /\ stream # <<>>
    /\ stream' = Tail(stream)
    /\ \/ Apply(entry) /\ UNCHANGED <<pending, failures>>
       \/ Fails /\ pending' = pending \cup {entry} /\ (Apply(entry) \/ UNCHANGED row)
    /\ lingers' = (lingers /\ ~(/\ entry.removed /\ row' = None
                                /\ \A later \in Range(stream') \cup pending' : later.removed))
    /\ UNCHANGED <<world, seen, handler, gate, entity, sent, changes>>

\* An entry that was not acknowledged is claimed, behind newer ones.
Reclaim ==
    /\ \E entry \in pending :
         /\ Apply(entry)
         /\ pending' = pending \ {entry}
         /\ lingers' = (lingers \/ ~entry.removed)
    /\ UNCHANGED <<world, seen, handler, gate, stream, entity, sent, changes, failures>>

Handle(c) == Upsert(c) \/ LastHash(c) \/ Publish(c) \/ SetLastHash(c) \/ StreamVanished(c)

Next ==
    \/ WorldChanges
    \/ \E c \in Clients : Report(c) \/ ReportVanished(c) \/ Handle(c)
    \/ KeyframePasses \/ HashExpires
    \/ Deliver \/ Reclaim

\* Handlers go on, clients report what they see, time passes, and the backend
\* consumes what the stream holds.
Fairness ==
    /\ \A c \in Clients : WF_vars(Handle(c)) /\ WF_vars(Report(c) \/ ReportVanished(c))
    /\ SF_vars(KeyframePasses)
    /\ WF_vars(Deliver) /\ WF_vars(Reclaim)

Spec == Init /\ [][Next]_vars /\ Fairness

----------------------------------------------------------------------------
(* Properties. *)

\* A sighting is held back only if the same content was published within the
\* keyframe and since the hash was last lost, whichever connection did it and
\* whatever call failed: a publish that never happened is not remembered
\* (client.go:307-310).  The content is the cell, for the hash leaves out the
\* owner.
SuppressedIsKnown ==
    [][\A c \in Clients :
         entity.durable /\ handler[c].at = "lookup" /\ handler'[c].at = "idle" =>
            \E known \in sent : known.cell = handler[c].val.cell]_vars

\* Once the world stands still, the row comes to agree with it and stays so:
\* the keyframe heals a change of owner, which the content hash leaves out
\* (though hash.go:34-36 calls it a new fact), a structure that came back,
\* hashes recorded in the wrong order, and an old entry that the backend
\* claimed late.  Named gap: of an entity that no tribe owns the row may keep a
\* tribe it had, for good (ark_structure_repo.py:49-50, where server_repo.py:80-82
\* has such ownership stay NULL): only its place agrees.
EventuallyCurrent ==
    <>[](entity.durable /\ world # None =>
            /\ row # None /\ row.cell = world.cell
            /\ world.owner # NoTribe => row.owner = world.owner)

\* A structure that is gone loses its row, although sightings of other
\* connections may be under way and follow the removal.  Two cases are named
\* by lingers: the removal could not be published, which nobody tries again,
\* and an older sighting that the backend claims after it.
EventuallyGone == <>[](entity.cat = "structure" /\ world = None => row = None \/ lingers)
=============================================================================
