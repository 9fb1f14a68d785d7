--------------------------- MODULE StreamConsumer ---------------------------
(***************************************************************************)
(* The durable path: the relay XADDs (streamproducer.Producer.Publish), a  *)
(* consumer group remembers what was delivered, and one asyncio task of    *)
(* the backend (core/redis_stream.py, started in main.py's lifespan)       *)
(* claims, reads, handles and acknowledges.                                *)
(*                                                                         *)
(* Each await is a point where a call may fail, its reply may be lost, or  *)
(* the process may end.  Redis may come back empty.                        *)
(*                                                                         *)
(* Entries are numbered in the order Redis numbers them.                   *)
(***************************************************************************)
EXTENDS Integers, FiniteSets

CONSTANTS
    MaxLen,      \* streamproducer's maxLen
    BatchSize,   \* COUNT of XREADGROUP and of XAUTOCLAIM (100 each)
    Poison,      \* entries on which the handler always raises
    MaxEntries,  \* bound on the entries published
    MaxErrors,   \* bound on failing calls
    MaxCrashes,  \* bound on ends of the process
    MaxResets    \* bound on Redis coming back empty

ASSUME StreamAssumption ==
    /\ MaxLen \in Nat \ {0}
    /\ BatchSize \in Nat \ {0}
    /\ Poison \subseteq Nat
    /\ MaxEntries \in Nat /\ MaxErrors \in Nat
    /\ MaxCrashes \in Nat /\ MaxResets \in Nat

VARIABLES
    produced,   \* entries 1..produced have been added
    trimmed,    \* entries up to here are no longer in the stream
    group,      \* the consumer group exists
    since,      \* the entry at which the stream or its group last started afresh
    delivered,  \* the group's last-delivered-id
    pel,        \* the group's pending entries
    stale,      \* those idle for claim_idle_ms
    task,       \* where run_consumer is
    batch,      \* entries fetched and not yet handled
    next,       \* what the loop does after the batch
    applied,    \* entries on which a handler call succeeded
    acked,      \* entries XACKed
    errors, crashes, resets

redis == <<produced, trimmed, group, since, delivered, pel, stale>>
counters == <<errors, crashes, resets>>
vars == <<redis, task, batch, next, applied, acked, counters>>

Entries == 1..produced

Tasks == {"down", "start", "claim", "read", "handle", "ack", "backoff", "dead"}

TypeOK ==
    /\ produced \in 0..MaxEntries
    /\ trimmed \in 0..produced
    /\ group \in BOOLEAN
    /\ since \in 0..produced
    /\ delivered \in 0..produced
    /\ pel \subseteq Entries
    /\ stale \subseteq pel
    /\ task \in Tasks
    /\ batch \subseteq Entries
    /\ next \in {"claim", "read"}
    /\ applied \subseteq Entries
    /\ acked \subseteq Entries
    /\ errors \in 0..MaxErrors
    /\ crashes \in 0..MaxCrashes
    /\ resets \in 0..MaxResets

Init ==
    /\ produced = 0 /\ trimmed = 0 /\ since = 0 /\ delivered = 0
    /\ group = FALSE
    /\ pel = {} /\ stale = {}
    /\ task = "down" /\ batch = {} /\ next = "claim"
    /\ applied = {} /\ acked = {}
    /\ errors = 0 /\ crashes = 0 /\ resets = 0

----------------------------------------------------------------------------
(* Redis and the relay. *)

\* XADD MAXLEN ~: the stream is never trimmed below MaxLen entries.
Publish ==
    /\ produced < MaxEntries
    /\ produced' = produced + 1
    /\ trimmed' \in {t \in trimmed..produced' : t = trimmed \/ t <= produced' - MaxLen}
    /\ UNCHANGED <<group, since, delivered, pel, stale, task, batch, next,
                   applied, acked, counters>>

\* A pending entry has been idle for claim_idle_ms.
GrowStale(i) ==
    /\ i \in pel \ stale
    /\ stale' = stale \cup {i}
    /\ UNCHANGED <<produced, trimmed, group, since, delivered, pel, task, batch, next,
                   applied, acked, counters>>

\* Redis comes back without its data: no stream, no group.
Reset ==
    /\ resets < MaxResets
    /\ resets' = resets + 1
    /\ trimmed' = produced
    /\ since' = produced
    /\ group' = FALSE
    /\ pel' = {} /\ stale' = {}
    /\ UNCHANGED <<produced, delivered, task, batch, next, applied, acked,
                   errors, crashes>>

----------------------------------------------------------------------------
(* The process. *)

Restart ==
    /\ task = "down"
    /\ task' = "start"
    /\ UNCHANGED <<redis, batch, next, applied, acked, counters>>

\* A crash, or a shutdown, which cancels the task wherever it is.
Crash ==
    /\ task # "down"
    /\ crashes < MaxCrashes
    /\ crashes' = crashes + 1
    /\ task' = "down"
    /\ batch' = {}
    /\ UNCHANGED <<redis, next, applied, acked, errors, resets>>

\* One more call fails.
Error ==
    /\ errors < MaxErrors
    /\ errors' = errors + 1
    /\ UNCHANGED <<crashes, resets>>

----------------------------------------------------------------------------
(* run_consumer *)

\* ensure_group: XGROUP CREATE from $, where BUSYGROUP is not an error.
EnsureGroup ==
    /\ task = "start"
    /\ group' = TRUE
    /\ IF group
       THEN UNCHANGED <<since, delivered>>
       ELSE since' = produced /\ delivered' = produced
    /\ task' = "claim"
    /\ UNCHANGED <<produced, trimmed, pel, stale, batch, next, applied, acked, counters>>

\* Any other error ends the task.
EnsureGroupFails ==
    /\ task = "start"
    /\ Error
    /\ task' = "dead"
    /\ UNCHANGED <<redis, batch, next, applied, acked>>

\* The loop goes on with the entries S, and then with n.
Handle(S, n) ==
    /\ batch' = S
    /\ next' = n
    /\ task' = IF S = {} THEN n ELSE "handle"

\* XAUTOCLAIM's first COUNT stale entries.
Scanned == {i \in stale : Cardinality({j \in stale : j < i}) < BatchSize}

\* Their idle time starts over; those trimmed from the stream leave the PEL.
ClaimScanned ==
    /\ stale' = stale \ Scanned
    /\ pel' = pel \ {i \in Scanned : i <= trimmed}

\* Deviation: _claim_stale is never called.
SkipClaim ==
    /\ task = "claim"
    /\ group
    /\ Handle({}, "read")
    /\ UNCHANGED <<redis, applied, acked, counters>>

\* _claim_stale.
Claim ==
    /\ task = "claim"
    /\ group
    /\ ClaimScanned
    /\ Handle({i \in Scanned : i > trimmed}, "read")
    /\ UNCHANGED <<produced, trimmed, group, since, delivered, applied, acked, counters>>

\* The call fails, or succeeds and its reply is lost, or there is no group.
ClaimFails ==
    /\ task = "claim"
    /\ \/ ~group /\ UNCHANGED <<pel, stale, counters>>
       \/ group /\ Error /\ UNCHANGED <<pel, stale>>
       \/ group /\ Error /\ ClaimScanned
    /\ task' = "backoff"
    /\ UNCHANGED <<produced, trimmed, group, since, delivered, batch, next, applied, acked>>

Backoff ==
    /\ task = "backoff"
    /\ task' = "claim"
    /\ UNCHANGED <<redis, batch, next, applied, acked, counters>>

\* XREADGROUP >: the first COUNT entries the group has not delivered yet.
Undelivered ==
    LET lo == IF delivered < trimmed THEN trimmed ELSE delivered
    IN  {i \in Entries : lo < i /\ i <= lo + BatchSize}

\* Deviation: the cursor moves on by COUNT.
DeliverByCount ==
    /\ delivered' = delivered + BatchSize
    /\ pel' = pel \cup Undelivered

Deliver ==
    /\ delivered' = IF Undelivered = {} THEN delivered
                    ELSE CHOOSE i \in Undelivered : \A j \in Undelivered : j <= i
    /\ pel' = pel \cup Undelivered

\* With nothing to read the call returns after block_ms.
Read ==
    /\ task = "read"
    /\ group
    /\ Deliver
    /\ Handle(Undelivered, "claim")
    /\ UNCHANGED <<produced, trimmed, group, since, stale, applied, acked, counters>>

ReadFails ==
    /\ task = "read"
    /\ \/ ~group /\ UNCHANGED <<delivered, pel, counters>>
       \/ group /\ Error /\ UNCHANGED <<delivered, pel>>
       \/ group /\ Error /\ Deliver
    /\ task' = "backoff"
    /\ UNCHANGED <<produced, trimmed, group, since, stale, batch, next, applied, acked>>

----------------------------------------------------------------------------
(* _handle_one, for the entries of a batch in order. *)

IsFirst(i) == i \in batch /\ \A j \in batch : i <= j

\* The batch goes on without i.
Drop(i) ==
    /\ batch' = batch \ {i}
    /\ task' = IF batch = {i} THEN next ELSE "handle"

HandlerSucceeds(i) ==
    /\ task = "handle"
    /\ IsFirst(i)
    /\ i \notin Poison
    /\ applied' = applied \cup {i}
    /\ task' = "ack"
    /\ UNCHANGED <<redis, batch, next, acked, counters>>

\* Deviation: an entry whose handler raises is acknowledged all the same.
AckFailed(i) ==
    /\ task = "handle"
    /\ IsFirst(i)
    /\ \/ i \in Poison /\ UNCHANGED counters
       \/ i \notin Poison /\ Error
    /\ task' = "ack"
    /\ UNCHANGED <<redis, batch, next, applied, acked>>

\* The exception is logged; the entry stays pending.
HandlerRaises(i) ==
    /\ task = "handle"
    /\ IsFirst(i)
    /\ \/ i \in Poison /\ UNCHANGED counters
       \/ i \notin Poison /\ Error
    /\ Drop(i)
    /\ UNCHANGED <<redis, next, applied, acked>>

\* Deviation: the whole batch is acknowledged with its first entry.
AckBatch(i) ==
    /\ task = "ack"
    /\ IsFirst(i)
    /\ pel' = pel \ batch
    /\ stale' = stale \ batch
    /\ acked' = acked \cup batch
    /\ Drop(i)
    /\ UNCHANGED <<produced, trimmed, group, since, delivered, next, applied, counters>>

\* XACK; without a group it does nothing and is no error.
Ack(i) ==
    /\ task = "ack"
    /\ IsFirst(i)
    /\ pel' = pel \ {i}
    /\ stale' = stale \ {i}
    /\ acked' = acked \cup {i}
    /\ Drop(i)
    /\ UNCHANGED <<produced, trimmed, group, since, delivered, next, applied, counters>>

\* XACK fails, or its reply is lost. Nothing catches the exception.
AckFails(i) ==
    /\ task = "ack"
    /\ IsFirst(i)
    /\ Error
    /\ \/ UNCHANGED <<pel, stale, acked>>
       \/ pel' = pel \ {i} /\ stale' = stale \ {i} /\ acked' = acked \cup {i}
    /\ task' = "dead"
    /\ batch' = {}
    /\ UNCHANGED <<produced, trimmed, group, since, delivered, next, applied>>

----------------------------------------------------------------------------

\* A step of the running task that meets no error of its own.
Work ==
    \/ EnsureGroup \/ Claim \/ Read \/ Backoff
    \/ ~group /\ (ClaimFails \/ ReadFails)
    \/ \E i \in batch : HandlerSucceeds(i) \/ (i \in Poison /\ HandlerRaises(i)) \/ Ack(i)

Next ==
    \/ Publish
    \/ \E i \in pel : GrowStale(i)
    \/ Reset
    \/ Restart
    \/ Crash
    \/ EnsureGroup \/ EnsureGroupFails
    \/ Claim \/ ClaimFails \/ Backoff
    \/ Read \/ ReadFails
    \/ \E i \in batch :
        HandlerSucceeds(i) \/ HandlerRaises(i) \/ Ack(i) \/ AckFails(i)

(***************************************************************************)
(* The container is restarted ("restart: unless-stopped"), the event loop  *)
(* runs a task that can run, and time passes.                              *)
(***************************************************************************)
Fairness ==
    /\ WF_vars(Restart)
    /\ WF_vars(Work)
    /\ \A i \in 1..MaxEntries : WF_vars(GrowStale(i))

Spec == Init /\ [][Next]_vars
FairSpec == Spec /\ Fairness

----------------------------------------------------------------------------
(* Properties. *)

\* No entry falls between the group's cursor and its pending list: whatever was
\* delivered and is still in the stream is acknowledged or pending, so that
\* _claim_stale can find it, whichever call failed and whenever the process ended.
NothingForgotten ==
    group => \A i \in Entries :
        (i > since /\ i > trimmed /\ i <= delivered) => i \in acked \cup pel

\* Only a call that succeeded is acknowledged.
AckedWasApplied == acked \subseteq applied

\* What ties the task to the consumer group, and makes the above inductive: the
\* entry whose acknowledgement is due was handled, nothing in hand or pending is
\* acknowledged already, what is pending was delivered since the fresh start, and
\* only a fresh start or growth by MaxLen trims the stream.
GroupInv ==
    /\ task = "ack" => \A i \in batch : IsFirst(i) => i \in applied
    /\ acked \cup batch \cup pel \subseteq 1..delivered
    /\ acked \cap (batch \cup pel) = {}
    /\ ~group => pel = {}
    /\ group => since <= delivered
    /\ \A i \in pel : since < i
    /\ trimmed <= since \/ trimmed <= produced - MaxLen

\* The entries that are gone for good: out of Redis, and not in the task's hands.
Lost == {i \in Entries \ (acked \cup batch) : i <= trimmed \/ i <= since}

\* The consumer implements AtLeastOnce.
Promise == INSTANCE AtLeastOnce WITH published <- produced, done <- acked, lost <- Lost
KeepsPromise == Promise!Spec

\* Every entry ends acknowledged, unless the handler always raises on it, the
\* stream grew past it, Redis lost it, or the task died.
EventuallyAcked ==
    \A i \in 1..MaxEntries :
        i \in Entries \ Poison ~>
            \/ i \in acked
            \/ i <= trimmed \/ i <= since
            \/ resets > 0
            \/ task = "dead"

\* run_consumer's docstring: once running, an endless loop until `stop` is set;
\* a lost connection or a Redis restart is recoverable.
LoopEndsOnlyOnStop == [][task # "start" => task' # "dead"]_task
=============================================================================
