--------------------------- MODULE SnapshotBuffer ---------------------------
(***************************************************************************)
(* Snapshots of structures: POST /v1/telemetry/structures writes each item *)
(* to a hash in Redis (routers/v1/telemetry.py, services/structure_store), *)
(* and a periodic job carries the dirty hashes to Postgres and marks rows  *)
(* that nobody has seen for a day (services/structure_flush.py).           *)
(*                                                                         *)
(* Requests and the job are coroutines of one process; each call of Redis  *)
(* and each transaction of Postgres is a step.  One tribe: a snapshot of   *)
(* another one than the token's is refused before anything is read, as is  *)
(* a malformed envelope.  Time is counted in parts of a day.               *)
(***************************************************************************)
EXTENDS Integers, Sequences, FiniteSets

CONSTANTS
    Requests,     \* tasks that serve POSTs
    Snapshots,    \* [id, items]; an item is [class, map, x, val, valid]
    Workloads,    \* what one behaviour meets: the snapshots sent, whether somebody reads,
                  \* and bounds: [sent, reads, posts, time, failures, crashes]
    Radius,       \* DEFAULT_DEDUP_RADIUS, in the units of x
    Day,          \* every TTL of this module, and STALE_AFTER_HOURS
    None

SnapshotItems == UNION {{snap.items[i] : i \in DOMAIN snap.items} : snap \in Snapshots}
Vals == {item.val : item \in SnapshotItems}
Row == [first : Nat, last : Nat, val : Vals, status : {"active", "possibly_demolished"}]

ASSUME SnapshotAssumption ==
    /\ Radius \in Nat \ {0} /\ Day \in Nat \ {0}
    /\ IsFiniteSet(Snapshots)
    /\ \A snap \in Snapshots : snap.items \in Seq(SnapshotItems)
    /\ \A w \in Workloads : w.sent \subseteq Snapshots /\ w.time \in Nat
    /\ None \notin Row \cup [last : Nat, val : Vals]
                  \cup [first : Nat, last : Nat, val : Vals, dirty : BOOLEAN, expires : Nat]

VARIABLES
    now,
    cache,      \* Redis ark:tribe:{tribe}:structure:{key}: [first, last, val, dirty, expires], or None
    processed,  \* Redis ark:snapshot:{id}: when it expires, or None
    rows,       \* Postgres structure: [first, last, val, status], or None
    req,        \* what each request is doing: [snap, i, rejected, stamp], where stamp is
                \* the time it has taken for the item it is about to write, or None
    job,        \* the flush: [at, left, key, data]
    load,       \* the workload of this behaviour
    spent,      \* [posts, failures, crashes] so far
    newest,     \* the observation last written to Redis, under the time its request had
                \* taken: [last, val], or None (ghost)
    missed,     \* keys of which the job will not see that observation (ghost)
    items       \* items written, rejected in an answer, and told accepted (ghost)

buffer == <<cache, newest, missed>>
bufferVars == <<now, buffer, processed, rows, req, job, load, spent, items>>

\* build_struct_key: class, map and the cell, rounded half to even.  A class
\* and a map have no ':' in their names, so the map can be read off the key.
Grid(x) ==
    LET q == x \div Radius  rest == x % Radius IN
    IF 2 * rest < Radius THEN q ELSE IF 2 * rest > Radius THEN q + 1 ELSE q + (q % 2)

StructKey(item) == <<item.class, item.map, Grid(item.x)>>
MapOf(key) == key[2]

Keys == {StructKey(item) : item \in SnapshotItems}

\* All that HSET leaves of a hash that had expired.
Bare == [first |-> None, last |-> None, val |-> None, dirty |-> FALSE, expires |-> None]

Idle == [snap |-> None, i |-> 0, rejected |-> {}, stamp |-> None]
Waiting == [at |-> "idle", left |-> {}, key |-> None, data |-> None]

BufferTypeOK ==
    /\ now \in 0..load.time
    /\ \A k \in Keys : cache[k] # None =>
         \/ cache[k] = Bare
         \/ /\ cache[k].first \in 0..now /\ cache[k].last \in 0..now
            /\ cache[k].dirty \in BOOLEAN /\ cache[k].expires \in now..load.time + Day
    /\ \A k \in Keys : rows[k] # None =>
         /\ rows[k].first \in 0..now /\ rows[k].last \in 0..now
         /\ rows[k].status \in {"active", "possibly_demolished"}
    /\ \A s \in Snapshots : processed[s] # None => processed[s] \in now..load.time + Day
    /\ job.at \in {"idle", "scan", "upsert", "clear"}
    /\ missed \subseteq Keys

BufferInit ==
    /\ now = 0
    /\ cache = [k \in Keys |-> None]
    /\ processed = [s \in Snapshots |-> None]
    /\ rows = [k \in Keys |-> None]
    /\ req = [r \in Requests |-> Idle]
    /\ job = Waiting
    /\ load \in Workloads
    /\ spent = [posts |-> 0, failures |-> 0, crashes |-> 0]
    /\ newest = [k \in Keys |-> None]
    /\ missed = {}
    /\ items = [written |-> {}, refused |-> {}, told |-> {}]

\* A call raises; whether it took effect is up to the caller.
Fails ==
    /\ spent.failures < load.failures
    /\ spent' = [spent EXCEPT !.failures = @ + 1]

All(snap) == {<<snap.id, i>> : i \in DOMAIN snap.items}

----------------------------------------------------------------------------
(* post_structures. *)

\* A client sends a snapshot, perhaps again; already_processed answers at once
\* that all of it is accepted.
Post(r) ==
    /\ req[r] = Idle
    /\ spent.posts < load.posts
    /\ spent' = [spent EXCEPT !.posts = @ + 1]
    /\ \E snap \in load.sent :
         \/ /\ processed[snap] # None
            /\ items' = [items EXCEPT !.told = @ \cup All(snap)]
            /\ UNCHANGED req
         \/ /\ processed[snap] = None
            /\ req' = [req EXCEPT ![r] = [snap |-> snap, i |-> 1, rejected |-> {}, stamp |-> None]]
            /\ UNCHANGED items
    /\ UNCHANGED <<now, buffer, processed, rows, job, load>>

Working(r) == req[r] # Idle /\ req[r].i <= Len(req[r].snap.items)
Item(r) == req[r].snap.items[req[r].i]
Rejects(r) ==
    LET id == <<req[r].snap.id, req[r].i>> IN
    req' = [req EXCEPT ![r] = [snap |-> @.snap, i |-> @.i + 1, rejected |-> @.rejected \cup {id},
                               stamp |-> None]]
Written(r) ==
    req' = [req EXCEPT ![r] = [snap |-> @.snap, i |-> @.i + 1, rejected |-> @.rejected, stamp |-> None]]

\* upsert_cached_structure takes the time before it awaits Redis: until the
\* MULTI runs, another request may take a later time and write first.
TakeTime(r) ==
    /\ Working(r) /\ Item(r).valid /\ req[r].stamp = None
    /\ req' = [req EXCEPT ![r].stamp = now]
    /\ UNCHANGED <<now, buffer, processed, rows, job, load, spent, items>>

\* Deviation: the hash expires a day after the time taken, not after the write.
CacheExpiresAtStamp(r) ==
    LET k == StructKey(Item(r))  old == cache[k]  val == Item(r).val  stamp == req[r].stamp IN
    /\ cache' = [cache EXCEPT ![k] =
         [first |-> IF old = None \/ old = Bare THEN stamp ELSE old.first,
          last |-> stamp, val |-> val, dirty |-> TRUE, expires |-> stamp + Day]]
    /\ newest' = [newest EXCEPT ![k] = [last |-> stamp, val |-> val]]
    /\ missed' = missed \ {k}
    /\ items' = [items EXCEPT !.written = @ \cup {<<req[r].snap.id, req[r].i>>}]

\* HSETNX first_seen_at, HSET, EXPIRE in one MULTI: the times are the one taken
\* before, and Redis counts the expiry from now.
CacheStructure(r) ==
    LET k == StructKey(Item(r))  old == cache[k]  val == Item(r).val  stamp == req[r].stamp IN
    /\ cache' = [cache EXCEPT ![k] =
         [first |-> IF old = None \/ old = Bare THEN stamp ELSE old.first,
          last |-> stamp, val |-> val, dirty |-> TRUE, expires |-> now + Day]]
    /\ newest' = [newest EXCEPT ![k] = [last |-> stamp, val |-> val]]
    /\ missed' = missed \ {k}
    /\ items' = [items EXCEPT !.written = @ \cup {<<req[r].snap.id, req[r].i>>}]

\* One item of the loop: not valid, written, or a storage_error (the MULTI
\* did or did not run).
NextItem(r) ==
    /\ Working(r)
    /\ \/ ~Item(r).valid /\ Rejects(r) /\ UNCHANGED <<buffer, items, spent>>
       \/ req[r].stamp # None /\ CacheStructure(r) /\ Written(r) /\ UNCHANGED spent
       \/ /\ req[r].stamp # None /\ Fails /\ Rejects(r)
          /\ CacheStructure(r) \/ UNCHANGED <<buffer, items>>
    /\ UNCHANGED <<now, processed, rows, job, load>>

\* Deviation: the mark is set before the items are written.
MarkFirst(r) ==
    /\ req[r] # Idle
    /\ \/ /\ req[r].i = 1 /\ processed[req[r].snap] = None
          /\ processed' = [processed EXCEPT ![req[r].snap] = now + Day]
          /\ UNCHANGED <<req, items>>
       \/ /\ ~Working(r)
          /\ req' = [req EXCEPT ![r] = Idle]
          /\ items' = [items EXCEPT !.refused = @ \cup req[r].rejected,
                                    !.told = @ \cup (All(req[r].snap) \ req[r].rejected)]
          /\ UNCHANGED processed
    /\ UNCHANGED <<now, buffer, rows, job, load, spent>>

\* mark_processed, and the answer; when the SET fails, neither.
MarkProcessed(r) ==
    /\ req[r] # Idle /\ ~Working(r)
    /\ req' = [req EXCEPT ![r] = Idle]
    /\ \/ /\ processed' = [processed EXCEPT ![req[r].snap] = now + Day]
          /\ items' = [items EXCEPT !.refused = @ \cup req[r].rejected,
                                    !.told = @ \cup (All(req[r].snap) \ req[r].rejected)]
          /\ UNCHANGED spent
       \/ Fails /\ UNCHANGED <<processed, items>>
    /\ UNCHANGED <<now, buffer, rows, job, load>>

----------------------------------------------------------------------------
(* flush_dirty_structures and mark_stale_structures, one job at a time. *)

\* SCAN: every key there is now; one that appears later waits for the next run.
StartJob ==
    /\ job = Waiting
    /\ job' = [Waiting EXCEPT !.at = "scan", !.left = {k \in Keys : cache[k] # None}]
    /\ UNCHANGED <<now, buffer, processed, rows, req, load, spent, items>>

\* Deviation: the flag is cleared before the row is written.
ReadAndClear(k) ==
    /\ job.at = "scan" /\ k \in job.left
    /\ IF cache[k] # None /\ cache[k].dirty
       THEN /\ job' = [job EXCEPT !.left = @ \ {k}, !.at = "upsert", !.key = k, !.data = cache[k]]
            /\ cache' = [cache EXCEPT ![k].dirty = FALSE]
       ELSE job' = [job EXCEPT !.left = @ \ {k}] /\ UNCHANGED cache
    /\ UNCHANGED <<now, newest, missed, processed, rows, req, load, spent, items>>

\* HGETALL; a hash that is gone or not dirty is skipped.
ReadHash(k) ==
    /\ job.at = "scan" /\ k \in job.left
    /\ IF cache[k] # None /\ cache[k].dirty
       THEN job' = [job EXCEPT !.left = @ \ {k}, !.at = "upsert", !.key = k, !.data = cache[k]]
       ELSE job' = [job EXCEPT !.left = @ \ {k}]
    /\ UNCHANGED <<now, buffer, processed, rows, req, load, spent, items>>

\* structure_repo.upsert: first_seen_at only with the row, the status active again.
Upserted(row, d) ==
    [first |-> IF row = None THEN d.first ELSE row.first,
     last |-> d.last, val |-> d.val, status |-> "active"]

\* When it raises, the hash stays dirty and the scan goes on.
UpsertRow ==
    LET k == job.key  d == job.data IN
    /\ job.at = "upsert"
    /\ \/ /\ rows' = [rows EXCEPT ![k] = Upserted(@, d)]
          /\ job' = [job EXCEPT !.at = "clear"]
          /\ UNCHANGED spent
       \/ Fails /\ job' = [job EXCEPT !.at = "scan", !.key = None, !.data = None] /\ UNCHANGED rows
    /\ UNCHANGED <<now, buffer, processed, req, load, items>>

\* HSET dirty 0, whatever the hash holds by now, and even if it is gone.
ClearDirty ==
    LET k == job.key IN
    /\ job.at = "clear"
    /\ cache' = [cache EXCEPT ![k] = IF @ = None THEN Bare ELSE [@ EXCEPT !.dirty = FALSE]]
    /\ missed' = IF newest[k] # [last |-> job.data.last, val |-> job.data.val]
                 THEN missed \cup {k} ELSE missed
    /\ job' = [job EXCEPT !.at = "scan", !.key = None, !.data = None]
    /\ UNCHANGED <<now, newest, processed, rows, req, load, spent, items>>

\* A call of Redis raises, and the job with it; the next run starts afresh.
JobFails ==
    /\ job.at \in {"scan", "clear"}
    /\ Fails
    /\ job' = Waiting
    /\ UNCHANGED <<now, buffer, processed, rows, req, load, items>>

\* Deviation: compared by the first sighting.
MarkStaleByFirst ==
    /\ job.at = "scan" /\ job.left = {}
    /\ rows' = [k \in Keys |-> IF rows[k] # None /\ rows[k].first < now - Day
                               THEN [rows[k] EXCEPT !.status = "possibly_demolished"] ELSE rows[k]]
    /\ job' = Waiting
    /\ UNCHANGED <<now, buffer, processed, req, load, spent, items>>

\* mark_stale, one transaction, after the scan.
MarkStale ==
    /\ job.at = "scan" /\ job.left = {}
    /\ rows' = [k \in Keys |-> IF rows[k] # None /\ rows[k].last < now - Day
                               THEN [rows[k] EXCEPT !.status = "possibly_demolished"] ELSE rows[k]]
    /\ job' = Waiting
    /\ UNCHANGED <<now, buffer, processed, req, load, spent, items>>

----------------------------------------------------------------------------
(* Time and the process. *)

Expired(entry) == entry # None /\ entry # Bare /\ entry.expires <= now + 1

Tick ==
    /\ now < load.time
    /\ now' = now + 1
    /\ cache' = [k \in Keys |-> IF Expired(cache[k]) THEN None ELSE cache[k]]
    /\ missed' = missed \cup {k \in Keys : Expired(cache[k]) /\ cache[k].dirty}
    /\ processed' = [s \in Snapshots |->
         IF processed[s] # None /\ processed[s] <= now + 1 THEN None ELSE processed[s]]
    /\ UNCHANGED <<newest, rows, req, job, load, spent, items>>

ProcessEnds ==
    /\ spent.crashes < load.crashes
    /\ job # Waiting \/ \E r \in Requests : req[r] # Idle
    /\ spent' = [spent EXCEPT !.crashes = @ + 1]
    /\ req' = [r \in Requests |-> Idle]
    /\ job' = Waiting
    /\ UNCHANGED <<now, buffer, processed, rows, load, items>>

RequestStep(r) == TakeTime(r) \/ NextItem(r) \/ MarkProcessed(r)
JobStep ==
    \/ StartJob \/ UpsertRow \/ ClearDirty \/ JobFails \/ MarkStale
    \/ \E k \in Keys : ReadHash(k)

BufferNext ==
    \/ \E r \in Requests : Post(r) \/ RequestStep(r)
    \/ JobStep
    \/ Tick
    \/ ProcessEnds

\* Requests go on, and the scheduler starts the job every five minutes.
BufferFairness ==
    /\ \A r \in Requests : WF_bufferVars(RequestStep(r))
    /\ WF_bufferVars(JobStep)

----------------------------------------------------------------------------
(* Properties. *)

InRow(k) == rows[k] # None /\ rows[k].last = newest[k].last /\ rows[k].val = newest[k].val

\* What Redis was last told of a structure is in Postgres or still dirty
\* (structure_flush.py:75-77), through failures, overlaps and crashes.  Two
\* gaps are named by missed: an observation that arrives between the job's
\* HGETALL and its HSET, and a hash that expires before the job gets to it.
NothingForgotten ==
    \A k \in Keys : newest[k] # None /\ k \notin missed =>
        \/ InRow(k)
        \/ /\ cache[k] # None /\ cache[k].dirty
           /\ cache[k].last = newest[k].last /\ cache[k].val = newest[k].val

\* A structure is reported as possibly demolished only if the observation last
\* written of it was made more than a day ago, or is one that the job has yet
\* to carry over, or missed.  Which one is written last is up to Redis: a
\* request that was held up may write an older one over a younger one.
StaleOnlyIfUnseen ==
    [][\A k \in Keys :
         rows[k] # None /\ rows[k].status = "active" /\ rows'[k].status # "active" =>
            \/ newest[k].last < now - Day
            \/ cache[k] # None /\ cache[k].dirty
            \/ k \in missed]_bufferVars

\* A client is told "accepted" only of what was written, across retries that
\* overlap the first attempt, failures and crashes in the middle of it; the
\* exception is a retry of a snapshot whose first answer rejected the item
\* (telemetry.py:107 answers for all of it).
AcceptedWasWritten == items.told \subseteq items.written \cup items.refused

\* Every observation reaches its row in the end, or is missed for a named
\* reason: again and again there is nothing left to carry over.
EventuallyFlushed ==
    []<>(\A k \in Keys : newest[k] # None => InRow(k) \/ k \in missed)
=============================================================================
