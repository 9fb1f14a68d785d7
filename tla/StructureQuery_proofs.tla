------------------------ MODULE StructureQuery_proofs ------------------------
(***************************************************************************)
(* The buffer of structure snapshots and the walk over its rows, for any   *)
(* number of snapshots, requests, cells and days.                          *)
(*                                                                         *)
(* BufferInv relates the four copies of an observation: the last one       *)
(* written (newest), the hash in Redis, what the job has read of it, and   *)
(* the row.  WalkInv says where the rows of a walk stand to its cursor.    *)
(***************************************************************************)
EXTENDS StructureQuery, FiniteSetTheorems, TLAPS

Hash == [first : Nat, last : Nat, val : Vals, dirty : BOOLEAN, expires : Nat]
Observation == [last : Nat, val : Vals]
ItemIds == UNION {All(snap) : snap \in Snapshots}
ReqState == [snap : Snapshots, i : Nat \ {0}, rejected : SUBSET ItemIds, stamp : Nat \cup {None}]

DataShape ==
    /\ load \in Workloads /\ now \in 0..load.time
    /\ cache \in [Keys -> Hash \cup {Bare, None}]
    /\ newest \in [Keys -> Observation \cup {None}]
    /\ rows \in [Keys -> Row \cup {None}]
    /\ missed \subseteq Keys
    /\ job \in [at : {"idle", "scan", "upsert", "clear"}, left : SUBSET Keys,
                key : Keys \cup {None}, data : Hash \cup {None}]

\* A hash that is more than bare holds the last observation.
HashOK(k) ==
    cache[k] # None =>
        \/ cache[k] = Bare
        \/ /\ cache[k] \in Hash /\ cache[k].first <= now
           /\ now <= cache[k].expires /\ cache[k].expires <= load.time + Day
           /\ newest[k] = [last |-> cache[k].last, val |-> cache[k].val]

RowOK(k) ==
    /\ newest[k] # None => newest[k].last <= now
    /\ rows[k] # None =>
         /\ rows[k].first <= now /\ rows[k].last <= now
         /\ newest[k] # None

\* What the job has read is an observation, and the hash stays dirty until the
\* job clears it.
JobOK ==
    /\ job.at \in {"upsert", "clear"} =>
         LET k == job.key  d == job.data IN
         /\ k \in Keys /\ d \in Hash /\ d.first <= now /\ d.last <= now
         /\ newest[k] # None
         /\ k \notin missed => cache[k] # None /\ cache[k].dirty
    /\ job.at = "clear" =>
         rows[job.key] # None /\ rows[job.key].last = job.data.last /\ rows[job.key].val = job.data.val

DataInv ==
    /\ DataShape
    /\ \A k \in Keys : HashOK(k) /\ RowOK(k)
    /\ JobOK /\ NothingForgotten

\* A request has dealt with the items before i; a snapshot marked as processed
\* had each of its items written or refused.
AnswersInv ==
    /\ req \in [Requests -> ReqState \cup {Idle}]
    /\ processed \in [Snapshots -> Nat \cup {None}]
    /\ items \in [written : SUBSET ItemIds, refused : SUBSET ItemIds, told : SUBSET ItemIds]
    /\ \A r \in Requests : req[r] # Idle =>
         /\ req[r] \in ReqState /\ (req[r].stamp # None => req[r].stamp <= now)
         /\ \A j \in 1..(req[r].i - 1) : <<req[r].snap.id, j>> \in items.written \cup req[r].rejected
    /\ \A s \in Snapshots : processed[s] # None =>
         /\ now <= processed[s] /\ processed[s] <= load.time + Day
         /\ All(s) \subseteq items.written \cup items.refused
    /\ items.told \subseteq items.written \cup items.refused

BufferInv == DataInv /\ AnswersInv

Got(k) == \E n \in DOMAIN walk.got : walk.got[n] = k

\* The rows a walk has returned are not below its cursor unless they have gone
\* back, and the rows that were there and have not moved are returned or below
\* it.
WalkInv ==
    /\ walk \in [at : {"idle", "walking", "done"}, map : {MapOf(k) : k \in Keys} \cup {None},
                 after : [last : Nat, id : Int] \cup {None}, got : Seq(Keys),
                 start : SUBSET Keys, touched : SUBSET Keys, back : SUBSET Keys]
    /\ \A i, j \in DOMAIN walk.got :
         walk.got[i] = walk.got[j] => i = j \/ walk.got[i] \in walk.back
    /\ walk.at = "walking" =>
         /\ walk.after = None => walk.got = <<>>
         /\ \A k \in Keys \ walk.back : Got(k) => rows[k] # None /\ k \notin AfterCursor(walk.map)
         /\ \A k \in walk.start \ walk.touched : Got(k) \/ k \in AfterCursor(walk.map)
    /\ walk.at = "done" => \A k \in walk.start \ walk.touched : Got(k)

Inv == BufferInv /\ WalkInv

----------------------------------------------------------------------------
(* Times, and what an item stands for. *)

LEMMA Clock ==
  ASSUME DataShape
  PROVE  /\ Day \in Nat \ {0} /\ load.time \in Nat /\ now \in Nat /\ now <= load.time
         /\ load \in Workloads /\ load.sent \subseteq Snapshots
BY SnapshotAssumption DEF DataShape

LEMMA ItemFacts ==
  ASSUME AnswersInv, NEW r \in Requests, Working(r)
  PROVE  /\ req[r] \in ReqState /\ req[r].snap \in Snapshots
         /\ req[r].i \in DOMAIN req[r].snap.items
         /\ StructKey(Item(r)) \in Keys /\ Item(r).val \in Vals
         /\ <<req[r].snap.id, req[r].i>> \in ItemIds
<1>1. req[r] \in ReqState /\ req[r].snap \in Snapshots /\ req[r].i \in Nat \ {0}
  BY DEF AnswersInv, Working, ReqState
<1>2. req[r].snap.items \in Seq(SnapshotItems)
  BY <1>1, SnapshotAssumption
<1>3. req[r].i \in DOMAIN req[r].snap.items
  BY <1>1, <1>2 DEF Working
<1>4. Item(r) \in SnapshotItems
  BY <1>2, <1>3 DEF Item
<1>5. <<req[r].snap.id, req[r].i>> \in All(req[r].snap)
  BY <1>3 DEF All
<1> QED
  BY <1>1, <1>3, <1>4, <1>5 DEF Keys, Vals, ItemIds

\* None is no record.
LEMMA NoneApart ==
  /\ \A h \in Hash : h # None
  /\ \A o \in Observation : o # None
  /\ \A row \in Row : row # None
BY SnapshotAssumption DEF Hash, Observation

----------------------------------------------------------------------------
(* The four copies. *)

LEMMA DataSame == ASSUME DataInv, UNCHANGED <<now, buffer, rows, job, load>> PROVE DataInv'
<1>1. UNCHANGED <<now, cache, newest, missed, rows, job, load>>
  BY DEF buffer
<1> QED
  BY <1>1 DEF DataInv, DataShape, HashOK, RowOK, JobOK, NothingForgotten, InRow

LEMMA CacheData ==
  ASSUME DataInv, AnswersInv, NEW r \in Requests, Working(r), req[r].stamp # None, CacheStructure(r),
         UNCHANGED <<now, rows, job, load>>
  PROVE  DataInv'
<1>0. PICK k \in Keys, val \in Vals : k = StructKey(Item(r)) /\ val = Item(r).val
  BY ItemFacts
<1>1. PICK first, stamp :
        /\ k = StructKey(Item(r)) /\ val = Item(r).val /\ stamp = req[r].stamp
        /\ first = IF cache[k] = None \/ cache[k] = Bare THEN stamp ELSE cache[k].first
  BY <1>0
<1> DEFINE h == [first |-> first, last |-> stamp, val |-> val, dirty |-> TRUE, expires |-> now + Day]
           o == [last |-> stamp, val |-> val]
<1>2. /\ cache' = [cache EXCEPT ![k] = h] /\ newest' = [newest EXCEPT ![k] = o]
      /\ missed' = missed \ {k}
  BY <1>1 DEF CacheStructure
<1>3. DataShape /\ HashOK(k) /\ RowOK(k) /\ JobOK /\ NothingForgotten
  BY DEF DataInv
<1>4. /\ Day \in Nat \ {0} /\ load.time \in Nat /\ now \in Nat /\ now <= load.time
  BY <1>3, Clock
<1>5. stamp \in Nat /\ stamp <= now
  BY <1>1 DEF AnswersInv, ReqState, Working
<1>6. first \in Nat /\ first <= now
  <2>1. CASE cache[k] = None \/ cache[k] = Bare
    BY <2>1, <1>1, <1>5
  <2>2. CASE ~(cache[k] = None \/ cache[k] = Bare)
    BY <2>2, <1>1, <1>3 DEF HashOK, Hash
  <2> QED
    BY <2>1, <2>2
<1>7. /\ h \in Hash /\ h.first = first /\ h.last = stamp /\ h.val = val /\ h.dirty = TRUE
      /\ h.expires = now + Day
      /\ o \in Observation /\ o = [last |-> h.last, val |-> h.val] /\ o.last = stamp /\ o.val = val
  BY <1>4, <1>5, <1>6 DEF Hash, Observation
<1>8. h # None /\ o # None
  BY <1>7, NoneApart
<1> HIDE DEF h, o
<1>9. /\ cache'[k] = h /\ newest'[k] = o
      /\ \A j \in Keys \ {k} : cache'[j] = cache[j] /\ newest'[j] = newest[j]
      /\ DataShape'
  BY <1>2, <1>3, <1>7 DEF DataShape
<1>10. ASSUME NEW j \in Keys PROVE HashOK(j)' /\ RowOK(j)'
  <2>1. HashOK(j) /\ RowOK(j)
    BY DEF DataInv
  <2>2. CASE j = k
    <3>1. HashOK(j)'
      BY <2>2, <1>4, <1>6, <1>7, <1>9 DEF HashOK
    <3> QED
      BY <3>1, <2>1, <2>2, <1>5, <1>7, <1>8, <1>9 DEF RowOK
  <2>3. CASE j # k
    BY <2>1, <2>3, <1>9 DEF HashOK, RowOK
  <2> QED
    BY <2>2, <2>3
<1>11. JobOK'
  <2>1. CASE job.key = k /\ job.at \in {"upsert", "clear"}
    BY <2>1, <1>3, <1>7, <1>8, <1>9 DEF JobOK
  <2>2. CASE ~(job.key = k /\ job.at \in {"upsert", "clear"})
    BY <2>2, <1>2, <1>3, <1>9 DEF JobOK
  <2> QED
    BY <2>1, <2>2
<1>12. NothingForgotten'
  BY <1>2, <1>3, <1>7, <1>8, <1>9 DEF NothingForgotten, InRow
<1> QED
  BY <1>9, <1>10, <1>11, <1>12 DEF DataInv

LEMMA StartJobData == ASSUME DataInv, StartJob PROVE DataInv'
<1>1. /\ UNCHANGED <<now, cache, newest, missed, rows, load>>
      /\ job' = [Waiting EXCEPT !.at = "scan", !.left = {k \in Keys : cache[k] # None}]
  BY DEF StartJob, buffer
<1>2. /\ job' \in [at : {"idle", "scan", "upsert", "clear"}, left : SUBSET Keys,
                   key : Keys \cup {None}, data : Hash \cup {None}]
      /\ job'.at = "scan"
  BY <1>1 DEF Waiting
<1> QED
  BY <1>1, <1>2 DEF DataInv, DataShape, HashOK, RowOK, JobOK, NothingForgotten, InRow

\* The job is between two hashes.
LEMMA JobMoves ==
  ASSUME DataInv, UNCHANGED <<now, buffer, rows, load>>,
         job' \in [at : {"idle", "scan", "upsert", "clear"}, left : SUBSET Keys,
                   key : Keys \cup {None}, data : Hash \cup {None}],
         job'.at \in {"idle", "scan"}
  PROVE  DataInv'
<1>1. UNCHANGED <<now, cache, newest, missed, rows, load>>
  BY DEF buffer
<1> QED
  BY <1>1 DEF DataInv, DataShape, HashOK, RowOK, JobOK, NothingForgotten, InRow

LEMMA ReadHashData == ASSUME DataInv, NEW k \in Keys, ReadHash(k) PROVE DataInv'
<1>1. UNCHANGED <<now, cache, newest, missed, rows, load>> /\ job.at = "scan"
  BY DEF ReadHash, buffer
<1>2. CASE ~(cache[k] # None /\ cache[k].dirty)
  <2>1. job' = [job EXCEPT !.left = job.left \ {k}]
    BY <1>2 DEF ReadHash
  <2>2. /\ job' \in [at : {"idle", "scan", "upsert", "clear"}, left : SUBSET Keys,
                     key : Keys \cup {None}, data : Hash \cup {None}]
        /\ job'.at = "scan"
    BY <2>1, <1>1 DEF DataInv, DataShape
  <2> QED
    BY <2>2, <1>1, JobMoves DEF buffer
<1>3. CASE cache[k] # None /\ cache[k].dirty
  <2>1. job' = [job EXCEPT !.left = job.left \ {k}, !.at = "upsert", !.key = k, !.data = cache[k]]
    BY <1>3 DEF ReadHash
  <2>2. /\ cache[k] \in Hash /\ cache[k].first <= now
        /\ newest[k] = [last |-> cache[k].last, val |-> cache[k].val]
    BY <1>3 DEF DataInv, HashOK, Bare
  <2>3. /\ job' \in [at : {"idle", "scan", "upsert", "clear"}, left : SUBSET Keys,
                     key : Keys \cup {None}, data : Hash \cup {None}]
        /\ job'.at = "upsert" /\ job'.key = k /\ job'.data = cache[k]
    BY <2>1, <2>2 DEF DataInv, DataShape
  <2>4. newest[k] # None /\ newest[k].last = cache[k].last /\ cache[k].last \in Nat
    BY <2>2, NoneApart DEF Hash, Observation
  <2>5. JobOK'
    BY <1>1, <1>3, <2>2, <2>3, <2>4 DEF DataInv, JobOK, RowOK, Hash
  <2> QED
    BY <1>1, <2>3, <2>5 DEF DataInv, DataShape, HashOK, RowOK, NothingForgotten, InRow
<1> QED
  BY <1>2, <1>3

LEMMA UpsertRowData == ASSUME DataInv, UpsertRow PROVE DataInv'
<1>1. PICK k, d : k = job.key /\ d = job.data
  OBVIOUS
<1>2. UNCHANGED <<now, cache, newest, missed, load>> /\ job.at = "upsert"
  BY DEF UpsertRow, buffer
<1>3. /\ k \in Keys /\ d \in Hash /\ d.first <= now /\ d.last <= now
      /\ newest[k] # None
      /\ k \notin missed => cache[k] # None /\ cache[k].dirty
  BY <1>1, <1>2 DEF DataInv, JobOK
<1>4. CASE UNCHANGED rows /\ job' = [job EXCEPT !.at = "scan", !.key = None, !.data = None]
  <2>1. /\ job' \in [at : {"idle", "scan", "upsert", "clear"}, left : SUBSET Keys,
                     key : Keys \cup {None}, data : Hash \cup {None}]
        /\ job'.at = "scan"
    BY <1>4 DEF DataInv, DataShape
  <2> QED
    BY <1>2, <1>4, <2>1, JobMoves DEF buffer
<1>5. CASE rows' = [rows EXCEPT ![k] = Upserted(rows[k], d)] /\ job' = [job EXCEPT !.at = "clear"]
  <2> DEFINE row == Upserted(rows[k], d)
  <2>1. /\ row \in Row /\ row.last = d.last /\ row.val = d.val
        /\ row.first = IF rows[k] = None THEN d.first ELSE rows[k].first
    BY <1>3 DEF Upserted, Row, Hash, DataInv, DataShape
  <2>2. row # None
    BY <2>1, NoneApart
  <2>3. row.first <= now /\ row.last <= now
    BY <2>1, <1>3 DEF DataInv, RowOK
  <2> HIDE DEF row
  <2>4. rows'[k] = row /\ \A j \in Keys \ {k} : rows'[j] = rows[j]
    BY <1>3, <1>5 DEF row, DataInv, DataShape
  <2>5. /\ job' \in [at : {"idle", "scan", "upsert", "clear"}, left : SUBSET Keys,
                     key : Keys \cup {None}, data : Hash \cup {None}]
        /\ job'.at = "clear" /\ job'.key = k /\ job'.data = d
    BY <1>1, <1>5 DEF DataInv, DataShape
  <2>6. DataShape'
    BY <1>2, <1>3, <1>5, <2>1, <2>5 DEF DataInv, DataShape, row
  <2>7. \A j \in Keys : HashOK(j)' /\ RowOK(j)'
    BY <1>2, <1>3, <2>1, <2>3, <2>4 DEF DataInv, HashOK, RowOK
  <2>8. JobOK'
    BY <1>2, <1>3, <2>1, <2>2, <2>4, <2>5 DEF JobOK
  <2>9. ASSUME NEW j \in Keys, newest'[j] # None, j \notin missed'
        PROVE  InRow(j)' \/ ( /\ cache'[j] # None /\ cache'[j].dirty
                              /\ cache'[j].last = newest'[j].last /\ cache'[j].val = newest'[j].val)
    <3>1. CASE j = k
      <4>1. cache[k] # None /\ cache[k].dirty
        BY <3>1, <2>9, <1>2, <1>3
      <4>2. newest[k] = [last |-> cache[k].last, val |-> cache[k].val]
        BY <4>1, <1>3 DEF DataInv, HashOK, Bare
      <4> QED
        BY <4>1, <4>2, <3>1, <1>2
    <3>2. CASE j # k
      BY <3>2, <2>4, <2>9, <1>2 DEF DataInv, NothingForgotten, InRow
    <3> QED
      BY <3>1, <3>2
  <2>10. NothingForgotten'
    BY <2>9 DEF NothingForgotten
  <2> QED
    BY <2>6, <2>7, <2>8, <2>10 DEF DataInv
<1> QED
  BY <1>1, <1>4, <1>5 DEF UpsertRow

LEMMA ClearDirtyData == ASSUME DataInv, ClearDirty PROVE DataInv'
<1>1. PICK k, d : k = job.key /\ d = job.data
  OBVIOUS
<1> DEFINE h == IF cache[k] = None THEN Bare ELSE [cache[k] EXCEPT !.dirty = FALSE]
<1>2. /\ UNCHANGED <<now, newest, rows, load>> /\ job.at = "clear"
      /\ cache' = [cache EXCEPT ![k] = h]
      /\ missed' = IF newest[k] # [last |-> d.last, val |-> d.val] THEN missed \cup {k} ELSE missed
      /\ job' = [job EXCEPT !.at = "scan", !.key = None, !.data = None]
  BY <1>1 DEF ClearDirty
<1>3. /\ k \in Keys /\ d \in Hash /\ newest[k] # None
      /\ rows[k] # None /\ rows[k].last = d.last /\ rows[k].val = d.val
  BY <1>1, <1>2 DEF DataInv, JobOK
<1>4. /\ HashOK(k) /\ cache[k] \in Hash \cup {Bare, None}
      /\ cache \in [Keys -> Hash \cup {Bare, None}]
  BY <1>3 DEF DataInv, DataShape
<1>5. h = Bare \/ ( /\ h \in Hash /\ h.first = cache[k].first /\ h.last = cache[k].last
                    /\ h.val = cache[k].val /\ h.expires = cache[k].expires
                    /\ cache[k] \in Hash /\ cache[k] # None /\ cache[k] # Bare)
  <2>1. CASE cache[k] = None
    BY <2>1
  <2>2. CASE cache[k] # None /\ cache[k] = Bare
    <3>1. /\ cache[k] \in [first : {None}, last : {None}, val : {None}, dirty : BOOLEAN, expires : {None}]
          /\ cache[k].dirty = FALSE
      BY <2>2 DEF Bare
    <3>2. [cache[k] EXCEPT !.dirty = FALSE] = cache[k]
      BY <3>1
    <3> QED
      BY <3>2, <2>2, Zenon
  <2>3. CASE cache[k] # None /\ cache[k] # Bare
    BY <2>3, <1>4 DEF Hash
  <2> QED
    BY <2>1, <2>2, <2>3
<1> HIDE DEF h
<1>6. cache'[k] = h /\ \A j \in Keys \ {k} : cache'[j] = cache[j]
  BY <1>2, <1>3, <1>4
<1>7. /\ job' \in [at : {"idle", "scan", "upsert", "clear"}, left : SUBSET Keys,
                   key : Keys \cup {None}, data : Hash \cup {None}]
      /\ job'.at = "scan"
  BY <1>2 DEF DataInv, DataShape
<1>8. DataShape'
  <2>1. cache' \in [Keys -> Hash \cup {Bare, None}] /\ missed' \subseteq Keys
    BY <1>2, <1>3, <1>4, <1>5 DEF DataInv, DataShape
  <2> QED
    BY <2>1, <1>2, <1>7 DEF DataInv, DataShape
<1>9. ASSUME NEW j \in Keys PROVE HashOK(j)' /\ RowOK(j)'
  <2>1. HashOK(j) /\ RowOK(j)
    BY DEF DataInv
  <2>2. HashOK(j)'
    BY <2>1, <1>2, <1>5, <1>6 DEF HashOK
  <2> QED
    BY <2>1, <2>2, <1>2 DEF RowOK
<1>10. JobOK'
  BY <1>7 DEF JobOK
<1>11. ASSUME NEW j \in Keys, newest'[j] # None, j \notin missed'
       PROVE  InRow(j)' \/ ( /\ cache'[j] # None /\ cache'[j].dirty
                             /\ cache'[j].last = newest'[j].last /\ cache'[j].val = newest'[j].val)
  <2>1. CASE j = k
    <3>1. newest[k] = [last |-> d.last, val |-> d.val]
      BY <2>1, <1>2, <1>11
    <3> QED
      BY <3>1, <2>1, <1>2, <1>3 DEF InRow
  <2>2. CASE j # k
    <3>1. j \notin missed
      BY <1>2, <1>11
    <3> QED
      BY <3>1, <2>2, <1>2, <1>6, <1>11 DEF DataInv, NothingForgotten, InRow
  <2> QED
    BY <2>1, <2>2
<1>12. NothingForgotten'
  BY <1>11 DEF NothingForgotten
<1> QED
  BY <1>8, <1>9, <1>10, <1>12 DEF DataInv

LEMMA JobFailsData == ASSUME DataInv, JobFails PROVE DataInv'
<1>1. /\ job' \in [at : {"idle", "scan", "upsert", "clear"}, left : SUBSET Keys,
                   key : Keys \cup {None}, data : Hash \cup {None}]
      /\ job'.at = "idle"
  BY DEF JobFails, Waiting
<1> QED
  BY <1>1, JobMoves DEF JobFails

LEMMA MarkStaleData == ASSUME DataInv, MarkStale PROVE DataInv'
<1>1. UNCHANGED <<now, cache, newest, missed, load>> /\ job' = Waiting
  BY DEF MarkStale, buffer
<1>2. ASSUME NEW k \in Keys
      PROVE  /\ rows'[k] \in Row \cup {None} /\ (rows'[k] = None) = (rows[k] = None)
             /\ rows[k] # None => /\ rows'[k].first = rows[k].first /\ rows'[k].last = rows[k].last
                                  /\ rows'[k].val = rows[k].val
  <2>1. rows[k] \in Row \cup {None}
    BY DEF DataInv, DataShape
  <2>2. CASE rows'[k] = rows[k]
    BY <2>1, <2>2
  <2>3. CASE rows[k] # None /\ rows'[k] = [rows[k] EXCEPT !.status = "possibly_demolished"]
    <3>1. rows'[k] \in Row
      BY <2>1, <2>3 DEF Row
    <3> QED
      BY <3>1, <2>1, <2>3, NoneApart DEF Row
  <2> QED
    BY <2>2, <2>3 DEF MarkStale
<1>3. rows' = [k \in Keys |-> rows'[k]]
  BY DEF MarkStale
<1>4. rows' \in [Keys -> Row \cup {None}]
  BY <1>2, <1>3
<1>5. DataShape'
  BY <1>1, <1>4 DEF DataInv, DataShape, Waiting
<1>6. \A k \in Keys : HashOK(k)' /\ RowOK(k)'
  BY <1>1, <1>2 DEF DataInv, HashOK, RowOK
<1>7. JobOK' /\ NothingForgotten'
  BY <1>1, <1>2 DEF DataInv, JobOK, NothingForgotten, InRow, Waiting
<1> QED
  BY <1>5, <1>6, <1>7 DEF DataInv

LEMMA TickData == ASSUME DataInv, Tick PROVE DataInv'
<1>1. /\ UNCHANGED <<newest, rows, job, load>> /\ now' = now + 1 /\ now < load.time
      /\ cache' = [k \in Keys |-> IF Expired(cache[k]) THEN None ELSE cache[k]]
      /\ missed' = missed \cup {k \in Keys : Expired(cache[k]) /\ cache[k].dirty}
  BY DEF Tick
<1>2. load.time \in Nat /\ now \in Nat /\ Day \in Nat
  BY Clock DEF DataInv
<1>3. now' \in 0..load.time
  BY <1>1, <1>2
<1>4. \A k \in Keys : cache'[k] = IF Expired(cache[k]) THEN None ELSE cache[k]
  BY <1>1
<1>5. DataShape'
  BY <1>1, <1>3 DEF DataInv, DataShape
<1>6. ASSUME NEW k \in Keys PROVE HashOK(k)' /\ RowOK(k)'
  <2>1. HashOK(k) /\ RowOK(k) /\ newest[k] \in Observation \cup {None}
    BY DEF DataInv, DataShape
  <2>2. HashOK(k)'
    <3> SUFFICES ASSUME cache'[k] # None, cache'[k] # Bare
                 PROVE  /\ cache'[k] \in Hash /\ cache'[k].first <= now'
                        /\ now' <= cache'[k].expires /\ cache'[k].expires <= load'.time + Day
                        /\ newest'[k] = [last |-> cache'[k].last, val |-> cache'[k].val]
      BY DEF HashOK
    <3>1. cache'[k] = cache[k] /\ ~Expired(cache[k])
      BY <1>4
    <3>2. cache[k] \in Hash /\ ~(cache[k].expires <= now + 1)
      BY <2>1, <3>1 DEF HashOK, Expired
    <3>3. now' <= cache'[k].expires
      BY <3>1, <3>2, <1>1, <1>2 DEF Hash
    <3>4. cache[k].first \in Nat /\ cache[k].first <= now
      BY <2>1, <3>1, <3>2 DEF HashOK, Hash
    <3> QED
      BY <2>1, <3>1, <3>3, <3>4, <1>1, <1>2 DEF HashOK
  <2>3. RowOK(k)'
    <3>1. rows[k] \in Row \cup {None}
      BY DEF DataInv, DataShape
    <3> QED
      BY <2>1, <3>1, <1>1, <1>2 DEF RowOK, Observation, Row
  <2> QED
    BY <2>2, <2>3
<1>7. JobOK'
  BY <1>1, <1>2, <1>4 DEF DataInv, JobOK, Hash
<1>8. NothingForgotten'
  BY <1>1, <1>4 DEF DataInv, NothingForgotten, InRow
<1> QED
  BY <1>5, <1>6, <1>7, <1>8 DEF DataInv

\* DataInv holds after every step of SnapshotBuffer.
LEMMA DataNext == ASSUME BufferInv, BufferNext PROVE DataInv'
<1> USE DEF BufferInv
<1>1. ASSUME NEW r \in Requests, Post(r) PROVE DataInv'
  BY <1>1, DataSame DEF Post
<1>2. ASSUME NEW r \in Requests, NextItem(r) PROVE DataInv'
  <2>1. CASE UNCHANGED buffer
    BY <2>1, <1>2, DataSame DEF NextItem
  <2>2. CASE req[r].stamp # None /\ CacheStructure(r)
    BY <2>2, <1>2, CacheData DEF NextItem
  <2> QED
    BY <2>1, <2>2, <1>2 DEF NextItem
<1>3. ASSUME NEW r \in Requests, TakeTime(r) \/ MarkProcessed(r) PROVE DataInv'
  BY <1>3, DataSame DEF TakeTime, MarkProcessed
<1>4. CASE JobStep
  BY <1>4, StartJobData, UpsertRowData, ClearDirtyData, JobFailsData, MarkStaleData, ReadHashData
  DEF JobStep
<1>5. CASE Tick
  BY <1>5, TickData
<1>6. CASE ProcessEnds
  <2>1. /\ Waiting \in [at : {"idle", "scan", "upsert", "clear"}, left : SUBSET Keys,
                        key : Keys \cup {None}, data : Hash \cup {None}]
        /\ Waiting.at = "idle"
    BY DEF Waiting
  <2> QED
    BY <2>1, <1>6, JobMoves DEF ProcessEnds
<1> QED
  BY <1>1, <1>2, <1>3, <1>4, <1>5, <1>6 DEF BufferNext, RequestStep

----------------------------------------------------------------------------
(* The answers. *)

LEMMA AnswersSame ==
  ASSUME AnswersInv, UNCHANGED <<now, processed, req, load, items>> PROVE AnswersInv'
BY DEF AnswersInv

\* A request that is done has dealt with all of its items.
LEMMA AllDealtWith ==
  ASSUME AnswersInv, NEW r \in Requests, req[r] # Idle, ~Working(r)
  PROVE  /\ req[r] \in ReqState /\ All(req[r].snap) \subseteq items.written \cup req[r].rejected
         /\ All(req[r].snap) \subseteq ItemIds
<1>1. req[r] \in ReqState /\ req[r].snap \in Snapshots /\ req[r].i \in Nat \ {0}
  BY DEF AnswersInv, ReqState
<1>2. req[r].snap.items \in Seq(SnapshotItems) /\ Len(req[r].snap.items) < req[r].i
  BY <1>1, SnapshotAssumption DEF Working
<1>3. DOMAIN req[r].snap.items \subseteq 1..(req[r].i - 1)
  BY <1>1, <1>2
<1>4. All(req[r].snap) \subseteq items.written \cup req[r].rejected
  BY <1>3 DEF All, AnswersInv
<1> QED
  BY <1>1, <1>4 DEF ItemIds

LEMMA PostAnswers == ASSUME BufferInv, NEW r \in Requests, Post(r) PROVE AnswersInv'
<1> USE DEF BufferInv
<1>1. PICK snap \in load.sent :
        \/ /\ processed[snap] # None
           /\ items' = [items EXCEPT !.told = @ \cup All(snap)]
           /\ UNCHANGED req
        \/ /\ processed[snap] = None
           /\ req' = [req EXCEPT ![r] = [snap |-> snap, i |-> 1, rejected |-> {}, stamp |-> None]]
           /\ UNCHANGED items
  BY DEF Post
<1>2. snap \in Snapshots /\ UNCHANGED <<now, processed, load>>
  BY <1>1, Clock DEF Post, DataInv
<1>3. All(snap) \subseteq ItemIds
  BY <1>2 DEF ItemIds
<1>4. CASE items' = [items EXCEPT !.told = @ \cup All(snap)] /\ UNCHANGED req /\ processed[snap] # None
  <2>1. All(snap) \subseteq items.written \cup items.refused
    BY <1>2, <1>4 DEF AnswersInv
  <2>2. /\ items' \in [written : SUBSET ItemIds, refused : SUBSET ItemIds, told : SUBSET ItemIds]
        /\ items'.written = items.written /\ items'.refused = items.refused
        /\ items'.told = items.told \cup All(snap)
    BY <1>3, <1>4 DEF AnswersInv
  <2> QED
    BY <1>2, <1>4, <2>1, <2>2 DEF AnswersInv
<1>5. CASE req' = [req EXCEPT ![r] = [snap |-> snap, i |-> 1, rejected |-> {}, stamp |-> None]] /\ UNCHANGED items
  <2> DEFINE q == [snap |-> snap, i |-> 1, rejected |-> {}, stamp |-> None]
  <2>1. q \in ReqState /\ q.i = 1 /\ 1..(q.i - 1) = {} /\ q.stamp = None
    BY <1>2 DEF ReqState
  <2> HIDE DEF q
  <2>2. req' = [req EXCEPT ![r] = q]
    BY <1>5 DEF q
  <2>3. req'[r] = q /\ \A u \in Requests \ {r} : req'[u] = req[u]
    BY <2>2 DEF AnswersInv
  <2>4. req' \in [Requests -> ReqState \cup {Idle}]
    BY <2>1, <2>2 DEF AnswersInv
  <2> QED
    BY <1>2, <1>5, <2>1, <2>3, <2>4 DEF AnswersInv
<1> QED
  BY <1>1, <1>4, <1>5

\* Taking the time changes nothing but the time taken.
LEMMA TakeTimeAnswers == ASSUME BufferInv, NEW r \in Requests, TakeTime(r) PROVE AnswersInv'
<1>1. /\ req[r] \in ReqState /\ req' = [req EXCEPT ![r].stamp = now]
      /\ UNCHANGED <<now, processed, load, items>> /\ now \in Nat
  BY Clock DEF TakeTime, Working, BufferInv, DataInv, AnswersInv
<1> DEFINE p == [req[r] EXCEPT !.stamp = now]
<1>2. /\ p \in ReqState /\ p.snap = req[r].snap /\ p.i = req[r].i /\ p.rejected = req[r].rejected
      /\ p.stamp = now /\ p.stamp <= now
  BY <1>1 DEF ReqState
<1>3. req' = [req EXCEPT ![r] = p]
  BY <1>1 DEF BufferInv, AnswersInv
<1> HIDE DEF p
<1>4. /\ req' \in [Requests -> ReqState \cup {Idle}] /\ req'[r] = p
      /\ \A u \in Requests \ {r} : req'[u] = req[u]
  BY <1>2, <1>3 DEF BufferInv, AnswersInv
<1>5. req[r] # Idle
  BY DEF TakeTime, Working
<1> QED
  BY <1>1, <1>2, <1>4, <1>5 DEF BufferInv, AnswersInv

LEMMA NextItemAnswers == ASSUME BufferInv, NEW r \in Requests, NextItem(r) PROVE AnswersInv'
<1> USE DEF BufferInv
<1> DEFINE q == req[r]
           id == <<q.snap.id, q.i>>
<1>1. Working(r) /\ UNCHANGED <<now, processed, load>>
  BY DEF NextItem
<1>2. q \in ReqState /\ q.i \in Nat \ {0} /\ q.snap \in Snapshots /\ id \in ItemIds
  BY <1>1, ItemFacts DEF ReqState
<1>3. /\ items' = items \/ items' = [items EXCEPT !.written = @ \cup {id}]
      /\ \/ Rejects(r)
         \/ Written(r) /\ items' = [items EXCEPT !.written = @ \cup {id}]
  BY DEF NextItem, CacheStructure
<1>4. /\ items' \in [written : SUBSET ItemIds, refused : SUBSET ItemIds, told : SUBSET ItemIds]
      /\ items'.written = items.written \/ items'.written = items.written \cup {id}
      /\ items' # items => id \in items'.written
      /\ items'.refused = items.refused /\ items'.told = items.told
  BY <1>2, <1>3 DEF AnswersInv
<1>5. PICK p :
        /\ p \in ReqState /\ p.snap = q.snap /\ p.i = q.i + 1 /\ p.stamp = None
        /\ p.rejected = q.rejected \cup {id} \/ (p.rejected = q.rejected /\ id \in items'.written)
        /\ req' = [req EXCEPT ![r] = p]
  <2>1. CASE Rejects(r)
    <3> DEFINE p == [snap |-> q.snap, i |-> q.i + 1, rejected |-> q.rejected \cup {id}, stamp |-> None]
    <3>1. /\ p \in ReqState /\ p.snap = q.snap /\ p.i = q.i + 1 /\ p.stamp = None
          /\ p.rejected = q.rejected \cup {id}
      BY <1>2 DEF ReqState
    <3>2. req' = [req EXCEPT ![r] = p]
      BY <2>1 DEF Rejects
    <3> QED
      BY <3>1, <3>2
  <2>2. CASE Written(r) /\ items' = [items EXCEPT !.written = @ \cup {id}]
    <3> DEFINE p == [snap |-> q.snap, i |-> q.i + 1, rejected |-> q.rejected, stamp |-> None]
    <3>1. /\ p \in ReqState /\ p.snap = q.snap /\ p.i = q.i + 1 /\ p.stamp = None
          /\ p.rejected = q.rejected
      BY <1>2 DEF ReqState
    <3>2. req' = [req EXCEPT ![r] = p]
      BY <2>2 DEF Written
    <3>3. id \in items'.written
      BY <2>2 DEF AnswersInv
    <3> QED
      BY <3>1, <3>2, <3>3
  <2> QED
    BY <2>1, <2>2, <1>3
<1>6. req'[r] = p /\ \A u \in Requests \ {r} : req'[u] = req[u]
  BY <1>5 DEF AnswersInv
<1>7. req' \in [Requests -> ReqState \cup {Idle}]
  BY <1>5 DEF AnswersInv
<1>8. ASSUME NEW j \in 1..(p.i - 1) PROVE <<p.snap.id, j>> \in items'.written \cup p.rejected
  <2>1. CASE j = q.i
    BY <2>1, <1>5
  <2>2. CASE j # q.i
    <3>1. j \in 1..(q.i - 1)
      BY <2>2, <1>2, <1>5
    <3>2. <<q.snap.id, j>> \in items.written \cup q.rejected
      BY <3>1, <1>1 DEF AnswersInv, Working
    <3> QED
      BY <3>2, <1>4, <1>5
  <2> QED
    BY <2>1, <2>2
<1> HIDE DEF q, id
<1>9. ASSUME NEW u \in Requests, req'[u] # Idle
      PROVE  /\ req'[u] \in ReqState /\ (req'[u].stamp # None => req'[u].stamp <= now')
             /\ \A j \in 1..(req'[u].i - 1) : <<req'[u].snap.id, j>> \in items'.written \cup req'[u].rejected
  BY <1>9, <1>1, <1>4, <1>5, <1>6, <1>8 DEF AnswersInv
<1>10. \A s \in Snapshots : processed'[s] # None =>
         /\ now' <= processed'[s] /\ processed'[s] <= load'.time + Day
         /\ All(s) \subseteq items'.written \cup items'.refused
  BY <1>1, <1>4 DEF AnswersInv
<1>11. items'.told \subseteq items'.written \cup items'.refused
  BY <1>4 DEF AnswersInv
<1> QED
  BY <1>1, <1>4, <1>7, <1>9, <1>10, <1>11 DEF AnswersInv

LEMMA MarkProcessedAnswers == ASSUME BufferInv, NEW r \in Requests, MarkProcessed(r) PROVE AnswersInv'
<1> USE DEF BufferInv
<1> DEFINE q == req[r]
<1>1. req[r] # Idle /\ ~Working(r) /\ req' = [req EXCEPT ![r] = Idle] /\ UNCHANGED <<now, load>>
  BY DEF MarkProcessed
<1>2. q \in ReqState /\ All(q.snap) \subseteq items.written \cup q.rejected /\ All(q.snap) \subseteq ItemIds
  BY <1>1, AllDealtWith
<1>3. q.snap \in Snapshots /\ q.rejected \subseteq ItemIds
  BY <1>2 DEF ReqState
<1>4. req' \in [Requests -> ReqState \cup {Idle}] /\ req'[r] = Idle
      /\ \A u \in Requests \ {r} : req'[u] = req[u]
  BY <1>1 DEF AnswersInv
<1>5. CASE UNCHANGED <<processed, items>>
  BY <1>1, <1>4, <1>5 DEF AnswersInv
<1>6. CASE /\ processed' = [processed EXCEPT ![q.snap] = now + Day]
           /\ items' = [items EXCEPT !.refused = @ \cup q.rejected,
                                     !.told = @ \cup (All(q.snap) \ q.rejected)]
  <2> HIDE DEF q
  <2>1. /\ items' \in [written : SUBSET ItemIds, refused : SUBSET ItemIds, told : SUBSET ItemIds]
        /\ items'.written = items.written /\ items'.refused = items.refused \cup q.rejected
        /\ items'.told = items.told \cup (All(q.snap) \ q.rejected)
    BY <1>2, <1>3, <1>6 DEF AnswersInv
  <2>2. now \in Nat /\ Day \in Nat /\ load.time \in Nat /\ now <= load.time
    BY Clock DEF DataInv
  <2>3. /\ processed' \in [Snapshots -> Nat \cup {None}] /\ processed'[q.snap] = now + Day
        /\ \A s \in Snapshots \ {q.snap} : processed'[s] = processed[s]
    BY <1>3, <1>6, <2>2 DEF AnswersInv
  <2>4. ASSUME NEW s \in Snapshots, processed'[s] # None
        PROVE  /\ now' <= processed'[s] /\ processed'[s] <= load'.time + Day
               /\ All(s) \subseteq items'.written \cup items'.refused
    <3>1. CASE s = q.snap
      BY <3>1, <2>1, <2>2, <2>3, <1>1, <1>2
    <3>2. CASE s # q.snap
      BY <3>2, <2>1, <2>3, <2>4, <1>1 DEF AnswersInv
    <3> QED
      BY <3>1, <3>2
  <2>5. ASSUME NEW u \in Requests, req'[u] # Idle
        PROVE  /\ req'[u] \in ReqState /\ (req'[u].stamp # None => req'[u].stamp <= now')
               /\ \A j \in 1..(req'[u].i - 1) : <<req'[u].snap.id, j>> \in items'.written \cup req'[u].rejected
    BY <2>5, <1>1, <1>4, <2>1 DEF AnswersInv
  <2>6. items'.told \subseteq items'.written \cup items'.refused
    BY <2>1, <1>2 DEF AnswersInv
  <2> QED
    BY <1>4, <2>1, <2>3, <2>4, <2>5, <2>6 DEF AnswersInv
<1> QED
  BY <1>5, <1>6 DEF MarkProcessed

LEMMA TickAnswers == ASSUME BufferInv, Tick PROVE AnswersInv'
<1>1. /\ UNCHANGED <<req, load, items>> /\ now' = now + 1
      /\ processed' = [s \in Snapshots |->
           IF processed[s] # None /\ processed[s] <= now + 1 THEN None ELSE processed[s]]
  BY DEF Tick
<1>2. now \in Nat
  BY Clock DEF BufferInv, DataInv
<1>3. ASSUME NEW s \in Snapshots
      PROVE  /\ processed'[s] \in Nat \cup {None}
             /\ processed'[s] # None =>
                  processed'[s] = processed[s] /\ processed[s] # None /\ now' <= processed[s]
  BY <1>1, <1>2 DEF BufferInv, AnswersInv
<1>4. processed' \in [Snapshots -> Nat \cup {None}]
  BY <1>1, <1>3
<1>5. ASSUME NEW r \in Requests, req'[r] # Idle, req'[r].stamp # None PROVE req'[r].stamp <= now'
  BY <1>1, <1>2, <1>5 DEF BufferInv, AnswersInv, ReqState
<1> QED
  BY <1>1, <1>3, <1>4, <1>5 DEF BufferInv, AnswersInv

\* A step of SnapshotBuffer keeps BufferInv.
LEMMA BufferStep == ASSUME BufferInv, BufferNext PROVE BufferInv'
<1>1. DataInv'
  BY DataNext
<1>2. ASSUME NEW r \in Requests, Post(r) \/ RequestStep(r) PROVE AnswersInv'
  BY <1>2, PostAnswers, TakeTimeAnswers, NextItemAnswers, MarkProcessedAnswers DEF RequestStep
<1>3. CASE JobStep
  BY <1>1, <1>3, AnswersSame
  DEF BufferInv, JobStep, StartJob, UpsertRow, ClearDirty, JobFails, MarkStale, ReadHash
<1>4. CASE Tick
  BY <1>1, <1>4, TickAnswers DEF BufferInv
<1>5. CASE ProcessEnds
  <2>1. \A r \in Requests : req'[r] = Idle
    BY <1>5 DEF ProcessEnds
  <2>2. req' \in [Requests -> ReqState \cup {Idle}] /\ UNCHANGED <<now, processed, load, items>>
    BY <1>5 DEF ProcessEnds
  <2> QED
    BY <1>1, <2>1, <2>2 DEF BufferInv, AnswersInv
<1> QED
  BY <1>1, <1>2, <1>3, <1>4, <1>5 DEF BufferNext, BufferInv

LEMMA BufferFirst == ASSUME BufferInit PROVE BufferInv
<1>1. DataShape
  BY SnapshotAssumption DEF BufferInit, DataShape, Waiting
<1>2. DataInv
  BY <1>1 DEF BufferInit, DataInv, HashOK, RowOK, JobOK, NothingForgotten, Waiting
<1>3. AnswersInv
  BY DEF BufferInit, AnswersInv
<1> QED
  BY <1>2, <1>3 DEF BufferInv

----------------------------------------------------------------------------
(* The order of the rows, and the pages. *)

Position == [last : Nat, id : Int]

LEMMA BelowIsOrder ==
  ASSUME NEW a \in Position, NEW b \in Position, NEW c \in Position
  PROVE  /\ ~Below(a, a)
         /\ Below(a, b) => ~Below(b, a)
         /\ Below(a, b) /\ Below(b, c) => Below(a, c)
         /\ Below(a, b) \/ Below(b, a) \/ (a.last = b.last /\ a.id = b.id)
BY DEF Below, Position

LEMMA SortKeyFacts ==
  ASSUME DataShape, NEW k \in Keys, rows[k] # None
  PROVE  SortKey(k) \in Position /\ SortKey(k).last = rows[k].last /\ SortKey(k).id = RowId(k)
<1>1. rows[k] \in Row
  BY DEF DataShape
<1> QED
  BY <1>1, QueryAssumption DEF SortKey, Position, Row

\* Two rows have the same place in the order only if they are one.
LEMMA RowsAreOrdered ==
  ASSUME DataShape, NEW j \in Keys, NEW k \in Keys, rows[j] # None, rows[k] # None, j # k
  PROVE  Below(SortKey(j), SortKey(k)) \/ Below(SortKey(k), SortKey(j))
<1>1. RowId(j) # RowId(k)
  BY QueryAssumption
<1> QED
  BY <1>1, SortKeyFacts, BelowIsOrder

\* There are finitely many cells.
LEMMA KeysFinite == IsFiniteSet(Keys)
<1> DEFINE ItemsOf(snap) == {snap.items[i] : i \in DOMAIN snap.items}
<1>1. ASSUME NEW snap \in Snapshots PROVE IsFiniteSet(ItemsOf(snap))
  <2>1. PICK n \in Nat, f \in Seq(SnapshotItems) : f = snap.items /\ f \in [1..n -> SnapshotItems] /\ n = Len(f)
    BY SnapshotAssumption
  <2>2. DOMAIN f = 1..n
    BY <2>1
  <2>3. ItemsOf(snap) = {f[i] : i \in 1..n}
    BY <2>1, <2>2
  <2>4. f \in Surjection(1..n, {f[i] : i \in 1..n})
    BY <2>1 DEF Surjection
  <2>5. IsFiniteSet(1..n)
    BY <2>1, FS_Interval
  <2> QED
    BY <2>3, <2>4, <2>5, FS_Surjection
<1>2. IsFiniteSet({ItemsOf(snap) : snap \in Snapshots})
  <2>1. [snap \in Snapshots |-> ItemsOf(snap)] \in Surjection(Snapshots, {ItemsOf(snap) : snap \in Snapshots})
    BY DEF Surjection
  <2> QED
    BY <2>1, FS_Surjection, SnapshotAssumption
<1>3. IsFiniteSet(SnapshotItems)
  BY <1>1, <1>2, FS_UNION DEF SnapshotItems
<1>4. [item \in SnapshotItems |-> StructKey(item)] \in Surjection(SnapshotItems, Keys)
  BY DEF Surjection, Keys
<1> QED
  BY <1>3, <1>4, FS_Surjection

Ahead(k, left) == {j \in left : Below(SortKey(k), SortKey(j))}

\* A row stands behind every row it is below of.
LEMMA PlaceFollowsOrder ==
  ASSUME DataShape, NEW left \in SUBSET Keys, \A k \in left : rows[k] # None,
         NEW j \in left, NEW k \in left, Below(SortKey(k), SortKey(j))
  PROVE  Place(j, left) < Place(k, left)
<1>1. IsFiniteSet(left) /\ IsFiniteSet(Ahead(k, left)) /\ Ahead(j, left) \subseteq left
  BY KeysFinite, FS_Subset DEF Ahead
<1>2. Ahead(j, left) \subseteq Ahead(k, left)
  BY SortKeyFacts, BelowIsOrder DEF Ahead
<1>3. j \in Ahead(k, left) /\ j \notin Ahead(j, left)
  BY SortKeyFacts, BelowIsOrder DEF Ahead
<1>4. /\ Cardinality(Ahead(j, left)) \in Nat /\ Cardinality(Ahead(k, left)) \in Nat
      /\ Cardinality(Ahead(j, left)) <= Cardinality(Ahead(k, left))
      /\ Cardinality(Ahead(j, left)) # Cardinality(Ahead(k, left))
  BY <1>1, <1>2, <1>3, FS_Subset, FS_CardinalityType
<1> QED
  BY <1>4 DEF Place, Ahead

\* The places are 1, 2, ... without a gap.
LEMMA PlacesAreNumbered ==
  ASSUME DataShape, NEW left \in SUBSET Keys, \A k \in left : rows[k] # None
  PROVE  /\ IsFiniteSet(left) /\ Cardinality(left) \in Nat
         /\ \A k \in left : Place(k, left) \in 1..Cardinality(left)
         /\ \A j, k \in left : Place(j, left) = Place(k, left) => j = k
         /\ \A n \in 1..Cardinality(left) : \E k \in left : Place(k, left) = n
<1>1. IsFiniteSet(left) /\ Cardinality(left) \in Nat
  BY KeysFinite, FS_Subset, FS_CardinalityType
<1>2. ASSUME NEW k \in left PROVE Place(k, left) \in 1..Cardinality(left)
  <2>1. Ahead(k, left) \subseteq left /\ k \notin Ahead(k, left)
    BY SortKeyFacts, BelowIsOrder DEF Ahead
  <2>2. /\ Cardinality(Ahead(k, left)) \in Nat
        /\ Cardinality(Ahead(k, left)) <= Cardinality(left)
        /\ Cardinality(Ahead(k, left)) # Cardinality(left)
    BY <1>1, <2>1, FS_Subset, FS_CardinalityType
  <2> QED
    BY <1>1, <2>2 DEF Place, Ahead
<1>3. ASSUME NEW j \in left, NEW k \in left, Place(j, left) = Place(k, left) PROVE j = k
  <2> SUFFICES ASSUME j # k PROVE FALSE
    OBVIOUS
  <2>1. Below(SortKey(j), SortKey(k)) \/ Below(SortKey(k), SortKey(j))
    BY RowsAreOrdered
  <2>2. Place(j, left) < Place(k, left) \/ Place(k, left) < Place(j, left)
    BY <2>1, PlaceFollowsOrder
  <2>3. Place(j, left) \in Nat /\ Place(k, left) \in Nat
    BY <1>1, <1>2
  <2> QED
    BY <1>3, <2>2, <2>3
<1> DEFINE f == [k \in left |-> Place(k, left)]
           m == Cardinality(left)
<1>4. f \in Injection(left, 1..m)
  BY <1>2, <1>3 DEF Injection, IsInjective
<1>5. IsFiniteSet(1..m) /\ Cardinality(1..m) = m
  BY <1>1, FS_Interval
<1>6. f \in Surjection(left, 1..m)
  BY <1>4, <1>5, FS_Injection
<1>7. \A n \in 1..m : \E k \in left : f[k] = n
  BY <1>6 DEF Surjection
<1> QED
  BY <1>1, <1>2, <1>3, <1>7

\* A page: different rows of the set, and none of the others is before its end.
LEMMA PageFacts ==
  ASSUME DataShape, NEW left \in SUBSET Keys, \A k \in left : rows[k] # None
  PROVE  LET size == IF Cardinality(left) > Limit THEN Limit ELSE Cardinality(left) IN
         /\ size \in Nat /\ Page(left) \in Seq(left) /\ DOMAIN Page(left) = 1..size
         /\ Len(Page(left)) = size
         /\ \A n \in 1..size : Page(left)[n] \in left /\ Place(Page(left)[n], left) = n
         /\ \A i, j \in 1..size : Page(left)[i] = Page(left)[j] => i = j
         /\ \A k \in left : (\E n \in 1..size : Page(left)[n] = k) <=> Place(k, left) <= size
<1> DEFINE size == IF Cardinality(left) > Limit THEN Limit ELSE Cardinality(left)
           page == Page(left)
<1>1. /\ IsFiniteSet(left) /\ Cardinality(left) \in Nat
      /\ \A k \in left : Place(k, left) \in 1..Cardinality(left)
      /\ \A j, k \in left : Place(j, left) = Place(k, left) => j = k
      /\ \A n \in 1..Cardinality(left) : \E k \in left : Place(k, left) = n
  BY PlacesAreNumbered
<1>2. size \in Nat /\ size <= Cardinality(left)
  BY <1>1, QueryAssumption
<1>3. page = [n \in 1..size |-> CHOOSE k \in left : Place(k, left) = n]
  BY DEF Page
<1> HIDE DEF size, page
<1>4. ASSUME NEW n \in 1..size PROVE page[n] \in left /\ Place(page[n], left) = n
  <2>1. n \in 1..Cardinality(left)
    BY <1>1, <1>2
  <2>2. \E k \in left : Place(k, left) = n
    BY <1>1, <2>1
  <2>3. page[n] = CHOOSE k \in left : Place(k, left) = n
    BY <1>3
  <2> QED
    BY <2>2, <2>3
<1>5. page \in [1..size -> left]
  BY <1>3, <1>4
<1>6. page \in Seq(left) /\ DOMAIN page = 1..size /\ Len(page) = size
  BY <1>2, <1>5
<1>7. \A i, j \in 1..size : page[i] = page[j] => i = j
  BY <1>4
<1>8. ASSUME NEW k \in left PROVE (\E n \in 1..size : page[n] = k) <=> Place(k, left) <= size
  <2>1. ASSUME NEW n \in 1..size, page[n] = k PROVE Place(k, left) <= size
    BY <2>1, <1>2, <1>4
  <2>2. ASSUME Place(k, left) <= size PROVE \E n \in 1..size : page[n] = k
    <3>1. Place(k, left) \in 1..size
      BY <1>1, <1>2, <2>2
    <3>2. page[Place(k, left)] = k
      BY <3>1, <1>1, <1>4
    <3> QED
      BY <3>1, <3>2
  <2> QED
    BY <2>1, <2>2
<1> QED
  BY <1>2, <1>4, <1>6, <1>7, <1>8 DEF size, page

----------------------------------------------------------------------------
(* The walk. *)

LEMMA StartWalkInv == ASSUME Inv, StartWalk PROVE WalkInv'
<1>1. PICK map \in {MapOf(k) : k \in Keys} \cup {None} :
        walk' = [NoWalk EXCEPT !.at = "walking", !.map = map, !.start = Matching(map)]
  BY DEF StartWalk
<1>2. /\ walk' = [at |-> "walking", map |-> map, after |-> None, got |-> <<>>,
                  start |-> Matching(map), touched |-> {}, back |-> {}]
      /\ UNCHANGED rows
  BY <1>1 DEF NoWalk, StartWalk, bufferVars
<1>3. Matching(map) \subseteq Keys
  BY DEF Matching
<1>4. /\ walk'.at = "walking" /\ walk'.map = map /\ walk'.after = None /\ walk'.got = <<>>
      /\ walk'.start = Matching(map) /\ walk'.touched = {}
  BY <1>2
<1>5. walk' \in [at : {"idle", "walking", "done"}, map : {MapOf(k) : k \in Keys} \cup {None},
                 after : Position \cup {None}, got : Seq(Keys),
                 start : SUBSET Keys, touched : SUBSET Keys, back : SUBSET Keys]
  BY <1>2, <1>3
<1>6. AfterCursor(walk.map)' = Matching(map)
  BY <1>2, <1>4 DEF AfterCursor, Matching
<1>7. ~\E k \in Keys : Got(k)'
  BY <1>4 DEF Got
<1> QED
  BY <1>4, <1>5, <1>6, <1>7 DEF WalkInv, Position

\* Among the rows of a page, its last one is before those the page leaves.
LEMMA CursorSplits ==
  ASSUME DataShape, NEW left \in SUBSET Keys, \A k \in left : rows[k] # None,
         Cardinality(left) > Limit, NEW k \in left
  PROVE  /\ Page(left)[Limit] \in left
         /\ (\E n \in DOMAIN Page(left) : Page(left)[n] = k)
              <=> ~Below(SortKey(k), SortKey(Page(left)[Limit]))
<1> DEFINE page == Page(left)
           last == page[Limit]
<1>1. /\ Limit \in Nat \ {0} /\ DOMAIN page = 1..Limit
      /\ \A n \in 1..Limit : page[n] \in left /\ Place(page[n], left) = n
      /\ \A j \in left : (\E n \in 1..Limit : page[n] = j) <=> Place(j, left) <= Limit
  BY PageFacts, QueryAssumption
<1> HIDE DEF page
<1>2. last \in left /\ Place(last, left) = Limit
  BY <1>1
<1>3. Place(k, left) \in Nat
  BY PlacesAreNumbered
<1>4. Below(SortKey(k), SortKey(last)) => Limit < Place(k, left)
  BY <1>2, PlaceFollowsOrder
<1>5. ASSUME Limit < Place(k, left) PROVE Below(SortKey(k), SortKey(last))
  <2>1. k # last /\ ~(Place(k, left) < Limit)
    BY <1>1, <1>2, <1>3, <1>5
  <2>2. Below(SortKey(last), SortKey(k)) => Place(k, left) < Limit
    BY <1>2, PlaceFollowsOrder
  <2> QED
    BY <2>1, <2>2, <1>2, RowsAreOrdered
<1> QED
  BY <1>1, <1>2, <1>3, <1>4, <1>5 DEF page

LEMMA ReadPageInv == ASSUME Inv, ReadPage PROVE WalkInv'
<1> DEFINE left == AfterCursor(walk.map)
           more == Cardinality(left) > Limit
           size == IF Cardinality(left) > Limit THEN Limit ELSE Cardinality(left)
           page == Page(left)
<1>1. /\ walk.at = "walking" /\ UNCHANGED rows
      /\ walk' = [walk EXCEPT !.got = @ \o page,
                              !.at = IF more THEN "walking" ELSE "done",
                              !.after = IF more THEN SortKey(page[Limit]) ELSE None]
  BY DEF ReadPage, bufferVars
<1>2. DataShape /\ WalkInv /\ walk.got \in Seq(Keys)
  BY DEF Inv, BufferInv, DataInv, WalkInv
<1>3. left \in SUBSET Keys /\ \A k \in left : rows[k] # None
  BY DEF AfterCursor, Matching
<1>4. /\ size \in Nat /\ page \in Seq(left) /\ DOMAIN page = 1..size /\ Len(page) = size
      /\ \A i, j \in 1..size : page[i] = page[j] => i = j
      /\ \A n \in 1..size : page[n] \in left
      /\ \A k \in left : (\E n \in 1..size : page[n] = k) <=> Place(k, left) <= size
  BY <1>2, <1>3, PageFacts
<1>5. Limit \in Nat \ {0} /\ Cardinality(left) \in Nat
      /\ \A k \in left : Place(k, left) <= Cardinality(left)
  BY <1>2, <1>3, PlacesAreNumbered, QueryAssumption
<1> DEFINE InPage(k) == \E n \in 1..size : page[n] = k
<1>6. ASSUME more
      PROVE  /\ page[Limit] \in left
             /\ \A k \in left : InPage(k) <=> ~Below(SortKey(k), SortKey(page[Limit]))
  <2> HIDE DEF left
  <2>1. page[Limit] \in left
    BY <1>4, <1>5, <1>6
  <2>2. ASSUME NEW k \in left PROVE InPage(k) <=> ~Below(SortKey(k), SortKey(page[Limit]))
    <3>1. (\E n \in DOMAIN page : page[n] = k) <=> ~Below(SortKey(k), SortKey(page[Limit]))
      BY <1>2, <1>3, <1>6, CursorSplits
    <3> HIDE DEF page
    <3> QED
      BY <3>1, <1>4
  <2> QED
    BY <2>1, <2>2
<1>7. ~more => \A k \in left : InPage(k)
  BY <1>4, <1>5
<1> HIDE DEF page, size
<1>8. page \in Seq(Keys)
  BY <1>3, <1>4
<1> DEFINE got == walk.got \o page
<1>9. /\ got \in Seq(Keys) /\ Len(got) = Len(walk.got) + size
      /\ DOMAIN got = 1..(Len(walk.got) + size)
      /\ \A i \in 1..Len(walk.got) : got[i] = walk.got[i]
      /\ \A n \in 1..size : got[Len(walk.got) + n] = page[n]
      /\ \A i \in 1..(Len(walk.got) + size) : i > Len(walk.got) => got[i] = page[i - Len(walk.got)]
  BY <1>2, <1>4, <1>8
<1>10. /\ DOMAIN walk.got = 1..Len(walk.got) /\ Len(walk.got) \in Nat
  BY <1>2
<1> HIDE DEF got
<1>11. PICK after : after = IF more THEN SortKey(page[Limit]) ELSE None
  OBVIOUS
<1>12. after \in Position \cup {None} /\ (more => after \in Position /\ after # None)
  BY <1>2, <1>3, <1>6, <1>11, SortKeyFacts, QueryAssumption DEF Position
<1>13. /\ walk' \in [at : {"idle", "walking", "done"}, map : {MapOf(k) : k \in Keys} \cup {None},
                      after : Position \cup {None}, got : Seq(Keys),
                      start : SUBSET Keys, touched : SUBSET Keys, back : SUBSET Keys]
       /\ walk'.at = (IF more THEN "walking" ELSE "done") /\ walk'.after = after
       /\ walk'.got = got /\ walk'.map = walk.map
       /\ walk'.start = walk.start /\ walk'.touched = walk.touched /\ walk'.back = walk.back
  BY <1>1, <1>2, <1>9, <1>11, <1>12 DEF WalkInv, Position, got
<1>14. ASSUME NEW k \in Keys PROVE Got(k)' <=> Got(k) \/ InPage(k)
  <2>1. Got(k) => Got(k)'
    BY <1>4, <1>9, <1>10, <1>13 DEF Got
  <2>2. InPage(k) => Got(k)'
    <3>1. ASSUME NEW n \in 1..size, page[n] = k PROVE Got(k)'
      <4>1. Len(walk.got) + n \in DOMAIN got /\ got[Len(walk.got) + n] = k
        BY <1>4, <1>9, <1>10, <3>1
      <4> QED
        BY <4>1, <1>13 DEF Got
    <3> QED
      BY <3>1
  <2>3. ASSUME NEW i \in DOMAIN got, got[i] = k PROVE Got(k) \/ InPage(k)
    <3>1. CASE i <= Len(walk.got)
      BY <3>1, <2>3, <1>9, <1>10, <1>4 DEF Got
    <3>2. CASE i > Len(walk.got)
      <4>1. i - Len(walk.got) \in 1..size /\ page[i - Len(walk.got)] = k
        BY <3>2, <2>3, <1>4, <1>9, <1>10
      <4> QED
        BY <4>1
    <3> QED
      BY <3>1, <3>2, <1>9, <1>10, <1>4
  <2> QED
    BY <2>1, <2>2, <2>3, <1>13 DEF Got
<1>15. \A k \in left \ walk.back : ~Got(k)
  BY <1>1, <1>2, <1>3 DEF WalkInv
<1>16. ASSUME NEW i \in DOMAIN got, NEW j \in DOMAIN got, got[i] = got[j], got[i] \notin walk.back
       PROVE  i = j
  <2> DEFINE n == Len(walk.got)
  <2>1. i \in 1..(n + size) /\ j \in 1..(n + size) /\ n \in Nat /\ size \in Nat
    BY <1>4, <1>9, <1>10
  <2>2. ASSUME NEW u \in 1..(n + size), NEW v \in 1..(n + size), u <= n, v > n, got[v] \notin walk.back
        PROVE  got[u] # got[v]
    <3>1. v - n \in 1..size /\ got[v] = page[v - n]
      BY <2>1, <2>2, <1>9
    <3>2. got[v] \in left
      BY <3>1, <1>4
    <3>3. u \in DOMAIN walk.got /\ got[u] = walk.got[u]
      BY <2>1, <2>2, <1>9, <1>10
    <3>4. got[u] = got[v] => Got(got[v])
      BY <3>3 DEF Got
    <3> QED
      BY <3>2, <3>4, <2>2, <1>15
  <2>3. CASE i <= n /\ j <= n
    BY <2>1, <2>3, <1>2, <1>9, <1>10, <1>16 DEF WalkInv
  <2>4. CASE i > n /\ j > n
    <3>1. /\ i - n \in 1..size /\ j - n \in 1..size
          /\ page[i - n] = page[j - n]
      BY <2>1, <2>4, <1>9, <1>16
    <3>2. i - n = j - n
      BY <3>1, <1>4
    <3> QED
      BY <3>2, <2>1
  <2>5. CASE (i <= n /\ j > n) \/ (i > n /\ j <= n)
    BY <2>1, <2>2, <2>5, <1>16
  <2> QED
    BY <2>1, <2>3, <2>4, <2>5
<1>17. ASSUME more, NEW k \in Keys
       PROVE  k \in AfterCursor(walk.map)' <=> k \in Matching(walk.map) /\ Below(SortKey(k), after)
  BY <1>1, <1>12, <1>13, <1>17 DEF AfterCursor, Matching, SortKey
<1>18. ASSUME more, NEW k \in Keys \ walk.back, Got(k)'
       PROVE  rows'[k] # None /\ k \notin AfterCursor(walk.map)'
  <2>1. CASE InPage(k)
    <3>1. k \in left
      BY <2>1, <1>4
    <3> QED
      BY <3>1, <2>1, <1>1, <1>3, <1>6, <1>11, <1>17, <1>18
  <2>2. CASE Got(k)
    <3>1. rows[k] # None /\ k \notin left
      BY <2>2, <1>1, <1>2 DEF WalkInv
    <3>2. walk.after # None /\ walk.after \in Position
      <4>1. walk.got # <<>>
        BY <2>2 DEF Got
      <4> QED
        BY <4>1, <1>1, <1>2 DEF WalkInv, Position
    <3>3. ASSUME k \in Matching(walk.map), Below(SortKey(k), after) PROVE FALSE
      <4>1. ~Below(SortKey(k), walk.after)
        BY <3>1, <3>3 DEF AfterCursor
      <4>2. page[Limit] \in left /\ page[Limit] \in Keys /\ after = SortKey(page[Limit])
        BY <1>3, <1>6, <1>11, <1>18
      <4>3. Below(after, walk.after)
        BY <4>2, <3>2 DEF AfterCursor
      <4>4. SortKey(k) \in Position /\ after \in Position
        BY <3>1, <1>2, <1>12, <1>18, SortKeyFacts
      <4> QED
        BY <4>1, <4>3, <4>4, <3>2, <3>3, BelowIsOrder
    <3> QED
      BY <3>1, <3>3, <1>1, <1>17, <1>18
  <2> QED
    BY <2>1, <2>2, <1>14, <1>18
<1>19. ASSUME NEW k \in walk.start \ walk.touched
       PROVE  Got(k)' \/ (more /\ k \in AfterCursor(walk.map)')
  <2>1. k \in Keys /\ (Got(k) \/ k \in left)
    BY <1>1, <1>2 DEF WalkInv
  <2>2. CASE Got(k)
    BY <2>1, <2>2, <1>14
  <2>3. CASE k \in left /\ ~InPage(k)
    <3>1. more /\ Below(SortKey(k), after) /\ k \in Matching(walk.map)
      BY <2>3, <1>6, <1>7, <1>11 DEF AfterCursor
    <3> QED
      BY <3>1, <2>1, <1>17
  <2>4. CASE InPage(k)
    BY <2>1, <2>4, <1>14
  <2> QED
    BY <2>1, <2>2, <2>3, <2>4
<1>20. walk'.at = "walking" => more /\ walk'.after # None
  BY <1>12, <1>13
<1> HIDE DEF left, more, InPage
<1> QED
  BY <1>13, <1>16, <1>18, <1>19, <1>20 DEF WalkInv, Position

\* No row goes away.
LEMMA RowsStay ==
  ASSUME DataInv, BufferNext, NEW k \in Keys, rows[k] # None
  PROVE  rows'[k] # None
<1>1. rows[k] \in Row /\ rows \in [Keys -> Row \cup {None}]
  BY DEF DataInv, DataShape
<1>2. CASE UNCHANGED rows
  BY <1>2
<1>3. CASE UpsertRow /\ rows' = [rows EXCEPT ![job.key] = Upserted(@, job.data)]
  <2>1. job.key \in Keys /\ job.data \in Hash
    BY <1>3 DEF UpsertRow, DataInv, JobOK
  <2>2. CASE k = job.key
    <3>1. rows'[k] = Upserted(rows[k], job.data)
      BY <1>1, <1>3, <2>2
    <3>2. rows'[k] \in Row
      BY <1>1, <2>1, <3>1 DEF Upserted, Row, Hash
    <3> QED
      BY <3>2, NoneApart
  <2>3. CASE k # job.key
    BY <1>1, <1>3, <2>3
  <2> QED
    BY <2>2, <2>3
<1>4. CASE MarkStale
  <2>1. CASE rows'[k] = rows[k]
    BY <2>1
  <2>2. CASE rows'[k] = [rows[k] EXCEPT !.status = "possibly_demolished"]
    <3>1. rows'[k] \in Row
      BY <1>1, <2>2 DEF Row
    <3> QED
      BY <3>1, NoneApart
  <2> QED
    BY <1>4, <2>1, <2>2 DEF MarkStale
<1> QED
  BY <1>2, <1>3, <1>4
  DEF BufferNext, Post, RequestStep, TakeTime, NextItem, MarkProcessed, JobStep, StartJob, UpsertRow,
      ClearDirty, JobFails, ReadHash, Tick, ProcessEnds

LEMMA BufferWalkInv ==
  ASSUME Inv, BufferNext,
         walk' = IF walk.at = "walking" THEN Watched ELSE walk
  PROVE  WalkInv'
<1>1. DataInv /\ DataShape /\ WalkInv
  BY DEF Inv, BufferInv, DataInv
<1>2. CASE walk.at # "walking"
  BY <1>1, <1>2 DEF WalkInv, Got
<1>3. CASE walk.at = "walking"
  <2>1. /\ walk' = [walk EXCEPT !.touched = walk.touched \cup Moved, !.back = walk.back \cup MovedBack]
        /\ Moved \subseteq Keys /\ MovedBack \subseteq Keys
    BY <1>3 DEF Watched, Moved, MovedBack
  <2>2. /\ walk' \in [at : {"idle", "walking", "done"}, map : {MapOf(k) : k \in Keys} \cup {None},
                      after : [last : Nat, id : Int] \cup {None}, got : Seq(Keys),
                      start : SUBSET Keys, touched : SUBSET Keys, back : SUBSET Keys]
        /\ walk'.at = "walking" /\ walk'.map = walk.map /\ walk'.after = walk.after
        /\ walk'.got = walk.got /\ walk'.start = walk.start
        /\ walk'.touched = walk.touched \cup Moved /\ walk'.back = walk.back \cup MovedBack
    BY <1>1, <1>3, <2>1 DEF WalkInv
  <2>3. walk.after = None \/ walk.after \in Position
    BY <1>1 DEF WalkInv, Position
  <2>4. DataShape'
    BY DataNext DEF Inv, DataInv
  <2>5. ASSUME NEW k \in Keys
        PROVE  k \in AfterCursor(walk.map) <=>
                 /\ rows[k] # None /\ (walk.map = None \/ MapOf(k) = walk.map)
                 /\ walk.after = None \/ Below([last |-> rows[k].last, id |-> RowId(k)], walk.after)
    BY DEF AfterCursor, Matching, SortKey
  <2>6. ASSUME NEW k \in Keys
        PROVE  k \in AfterCursor(walk.map)' <=>
                 /\ rows'[k] # None /\ (walk.map = None \/ MapOf(k) = walk.map)
                 /\ walk.after = None \/ Below([last |-> rows'[k].last, id |-> RowId(k)], walk.after)
    BY <2>2 DEF AfterCursor, Matching, SortKey
  <2>7. ASSUME NEW k \in Keys \ walk'.back, Got(k)'
        PROVE  rows'[k] # None /\ k \notin AfterCursor(walk.map)'
    <3>1. Got(k) /\ rows[k] # None /\ k \notin AfterCursor(walk.map) /\ k \notin MovedBack
      BY <1>1, <1>3, <2>2, <2>7 DEF WalkInv, Got
    <3>2. rows'[k] # None
      BY <1>1, <3>1, RowsStay
    <3>3. rows[k].last \in Nat /\ rows'[k].last \in Nat /\ RowId(k) \in Int
      BY <1>1, <2>4, <3>1, <3>2, QueryAssumption DEF DataShape, Row
    <3>4. rows'[k] # None /\ rows[k].last <= rows'[k].last
      BY <3>1, <3>2, <3>3 DEF MovedBack
    <3>5. walk.after # None => walk.after.last \in Int /\ walk.after.id \in Int
      BY <2>3 DEF Position
    <3>6. Below([last |-> rows'[k].last, id |-> RowId(k)], walk.after) /\ walk.after # None
            => Below([last |-> rows[k].last, id |-> RowId(k)], walk.after)
      BY <3>4, <3>3, <3>5 DEF Below
    <3> QED
      BY <3>1, <3>4, <3>6, <2>5, <2>6
  <2>8. ASSUME NEW k \in walk'.start \ walk'.touched PROVE Got(k)' \/ k \in AfterCursor(walk.map)'
    <3>1. k \in Keys /\ k \in walk.start \ walk.touched /\ k \notin Moved
      BY <2>2, <2>8
    <3>2. CASE Got(k)
      BY <3>2, <2>2 DEF Got
    <3>3. CASE k \in AfterCursor(walk.map)
      <4>1. rows[k] # None
        BY <3>1, <3>3, <2>5
      <4>2. rows'[k] # None
        BY <3>1, <4>1, <1>1, RowsStay
      <4>3. rows'[k].last = rows[k].last
        BY <3>1, <4>1 DEF Moved
      <4> QED
        BY <3>1, <3>3, <4>2, <4>3, <2>5, <2>6
    <3> QED
      BY <3>1, <3>2, <3>3, <1>1, <1>3 DEF WalkInv
  <2> QED
    BY <1>1, <1>3, <2>2, <2>7, <2>8 DEF WalkInv, Got
<1> QED
  BY <1>2, <1>3

----------------------------------------------------------------------------
(* The specification. *)

LEMMA Initially == ASSUME Init PROVE Inv
<1>1. BufferInv
  BY BufferFirst DEF Init
<1>2. walk = [at |-> "idle", map |-> None, after |-> None, got |-> <<>>, start |-> {}, touched |-> {},
                  back |-> {}]
  BY DEF Init, NoWalk
<1>3. WalkInv
  BY <1>2 DEF WalkInv, Got
<1> QED
  BY <1>1, <1>3 DEF Inv

LEMMA Inductive == ASSUME Inv, [Next]_vars PROVE Inv'
<1>1. ASSUME UNCHANGED bufferVars PROVE BufferInv'
  <2>1. UNCHANGED <<now, cache, newest, missed, processed, rows, req, job, load, spent, items>>
    BY <1>1 DEF bufferVars, buffer
  <2> QED
    BY <2>1, DataSame, AnswersSame DEF Inv, BufferInv, buffer
<1>2. CASE /\ BufferNext
           /\ walk' = IF walk.at = "walking" THEN Watched ELSE walk
  BY <1>2, BufferStep, BufferWalkInv DEF Inv
<1>3. CASE StartWalk
  BY <1>1, <1>3, StartWalkInv DEF StartWalk, Inv
<1>4. CASE ReadPage
  BY <1>1, <1>4, ReadPageInv DEF ReadPage, Inv
<1>5. CASE UNCHANGED vars
  <2>1. UNCHANGED bufferVars /\ UNCHANGED walk /\ UNCHANGED rows
    BY <1>5 DEF vars, bufferVars
  <2>2. WalkInv'
    BY <2>1 DEF Inv, WalkInv, Got, AfterCursor, Matching, SortKey
  <2> QED
    BY <1>1, <2>1, <2>2 DEF Inv
<1> QED
  BY <1>2, <1>3, <1>4, <1>5 DEF Next

LEMMA Invariance == Spec => []Inv
<1>1. Init => Inv
  BY Initially
<1>2. Inv /\ [Next]_vars => Inv'
  BY Inductive
<1> QED
  BY <1>1, <1>2, PTL DEF Spec

\* The times of a hash and of a row are not in the future, hashes and marks of
\* snapshots have not run out, whatever fails, expires or is sent twice.
THEOREM SnapshotTypeCorrect == Spec => []SnapshotTypeOK
<1>1. Inv => SnapshotTypeOK
  <2> SUFFICES ASSUME Inv PROVE SnapshotTypeOK
    OBVIOUS
  <2>1. DataInv /\ DataShape /\ AnswersInv /\ WalkInv
    BY DEF Inv, BufferInv, DataInv
  <2>2. now \in Nat /\ load.time \in Nat /\ Day \in Nat /\ now \in 0..load.time
    BY <2>1, Clock DEF DataShape
  <2>3. ASSUME NEW k \in Keys, cache[k] # None
        PROVE  \/ cache[k] = Bare
               \/ /\ cache[k].first \in 0..now /\ cache[k].last \in 0..now
                  /\ cache[k].dirty \in BOOLEAN /\ cache[k].expires \in now..load.time + Day
    <3> SUFFICES ASSUME cache[k] # Bare
                 PROVE  /\ cache[k].first \in 0..now /\ cache[k].last \in 0..now
                        /\ cache[k].dirty \in BOOLEAN /\ cache[k].expires \in now..load.time + Day
      OBVIOUS
    <3>1. /\ cache[k] \in Hash /\ cache[k].first <= now
          /\ now <= cache[k].expires /\ cache[k].expires <= load.time + Day
          /\ newest[k] = [last |-> cache[k].last, val |-> cache[k].val]
      BY <2>1, <2>3 DEF DataInv, HashOK
    <3>2. newest[k] # None /\ newest[k].last = cache[k].last
      BY <3>1, NoneApart DEF Hash, Observation
    <3>3. cache[k].last <= now
      BY <2>1, <3>2 DEF DataInv, RowOK
    <3> QED
      BY <2>2, <3>1, <3>3 DEF Hash
  <2>4. ASSUME NEW k \in Keys, rows[k] # None
        PROVE  /\ rows[k].first \in 0..now /\ rows[k].last \in 0..now
               /\ rows[k].status \in {"active", "possibly_demolished"}
    <3>1. rows[k] \in Row /\ rows[k].first <= now /\ rows[k].last <= now
      BY <2>1, <2>4 DEF DataInv, DataShape, RowOK
    <3> QED
      BY <2>2, <3>1 DEF Row
  <2>5. \A s \in Snapshots : processed[s] # None => processed[s] \in now..load.time + Day
    BY <2>1, <2>2 DEF AnswersInv
  <2>6. job.at \in {"idle", "scan", "upsert", "clear"} /\ missed \subseteq Keys
    BY <2>1 DEF DataShape
  <2>7. walk.at \in {"idle", "walking", "done"} /\ walk.start \cup walk.touched \cup walk.back \subseteq Keys
    BY <2>1 DEF WalkInv
  <2> QED
    BY <2>2, <2>3, <2>4, <2>5, <2>6, <2>7 DEF SnapshotTypeOK, BufferTypeOK
<1> QED
  BY <1>1, Invariance, PTL

\* The observation last written to Redis is in Postgres or still dirty, for
\* every overlap of requests, job, failures and crashes (structure_flush.py).
THEOREM NothingIsForgotten == Spec => []NothingForgotten
<1>1. Inv => NothingForgotten
  BY DEF Inv, BufferInv, DataInv
<1> QED
  BY <1>1, Invariance, PTL

\* A client is told "accepted" of an item only when it was written, or was
\* refused in an earlier answer (post_structures in telemetry.py).
THEOREM AcceptedIsWritten == Spec => []AcceptedWasWritten
<1>1. Inv => AcceptedWasWritten
  BY DEF Inv, BufferInv, AnswersInv, AcceptedWasWritten
<1> QED
  BY <1>1, Invariance, PTL

\* A walk over the pages leaves out no row that was there and has not moved, and
\* returns none twice but for those whose time went back meanwhile, whatever is
\* written between the pages (structure_repo.list_page).
THEOREM PagesAreComplete == Spec => []PagesComplete
<1>1. Inv => PagesComplete
  <2> SUFFICES ASSUME Inv PROVE PagesComplete
    OBVIOUS
  <2>1. WalkInv
    BY DEF Inv
  <2>2. \A i, j \in DOMAIN walk.got :
          walk.got[i] = walk.got[j] => i = j \/ walk.got[i] \in walk.back
    BY <2>1 DEF WalkInv
  <2>3. ASSUME walk.at = "done", NEW k \in walk.start \ walk.touched
        PROVE  k \in {walk.got[i] : i \in DOMAIN walk.got}
    BY <2>1, <2>3 DEF WalkInv, Got
  <2> QED
    BY <2>2, <2>3 DEF PagesComplete
<1> QED
  BY <1>1, Invariance, PTL

\* A row turns stale only by mark_stale, which has looked at its time.
LEMMA OnlyMarkStale ==
  ASSUME DataInv, [Next]_vars, NEW k \in Keys, rows[k] # None,
         rows[k].status = "active", rows'[k].status # "active"
  PROVE  rows[k].last < now - Day
<1>1. rows[k] \in Row /\ rows \in [Keys -> Row \cup {None}] /\ ~UNCHANGED rows
  BY DEF DataInv, DataShape
<1>2. ~(UpsertRow /\ rows' = [rows EXCEPT ![job.key] = Upserted(@, job.data)])
  <2> SUFFICES ASSUME UpsertRow, rows' = [rows EXCEPT ![job.key] = Upserted(@, job.data)] PROVE FALSE
    OBVIOUS
  <2>1. job.key \in Keys
    BY DEF UpsertRow, DataInv, JobOK
  <2>2. CASE k = job.key
    <3>1. rows'[k] = Upserted(rows[k], job.data)
      BY <1>1, <2>2
    <3> QED
      BY <3>1 DEF Upserted
  <2>3. CASE k # job.key
    BY <1>1, <2>1, <2>3
  <2> QED
    BY <2>2, <2>3
<1>3. BufferNext
  BY <1>1 DEF Next, StartWalk, ReadPage, vars, bufferVars
<1>4. MarkStale
  BY <1>1, <1>2, <1>3
  DEF BufferNext, Post, RequestStep, TakeTime, NextItem, MarkProcessed, JobStep, StartJob, UpsertRow,
      ClearDirty, JobFails, ReadHash, Tick, ProcessEnds
<1>5. rows'[k] = IF rows[k] # None /\ rows[k].last < now - Day
                 THEN [rows[k] EXCEPT !.status = "possibly_demolished"] ELSE rows[k]
  BY <1>4 DEF MarkStale
<1> QED
  BY <1>5

\* A structure is reported as possibly demolished only if the observation last
\* written of it is older than a day, not carried over yet, or missed
\* (mark_stale_structures).
THEOREM StaleIsUnseen == Spec => StaleOnlyIfUnseen
<1>1. ASSUME Inv, [Next]_vars, NEW k \in Keys, rows[k] # None,
             rows[k].status = "active", rows'[k].status # "active"
      PROVE  \/ newest[k].last < now - Day
             \/ cache[k] # None /\ cache[k].dirty
             \/ k \in missed
  <2>1. rows[k].last < now - Day
    BY <1>1, OnlyMarkStale DEF Inv, BufferInv
  <2>2. newest[k] # None
    BY <1>1 DEF Inv, BufferInv, DataInv, RowOK
  <2> QED
    BY <1>1, <2>1, <2>2 DEF Inv, BufferInv, DataInv, NothingForgotten, InRow
<1>2. Inv /\ [Next]_vars =>
        [\A k \in Keys :
           rows[k] # None /\ rows[k].status = "active" /\ rows'[k].status # "active" =>
              \/ newest[k].last < now - Day
              \/ cache[k] # None /\ cache[k].dirty
              \/ k \in missed]_bufferVars
  BY <1>1
<1> QED
  BY <1>2, Invariance, PTL DEF Spec, StaleOnlyIfUnseen
=============================================================================
