--------------------------- MODULE StructureQuery ---------------------------
(***************************************************************************)
(* GET /v1/tribes/{tribe_id}/structures: a client walks through the rows   *)
(* page by page (services/structure_query_service.py, structure_repo.      *)
(* list_page) while SnapshotBuffer writes them.  Each page is one SELECT,  *)
(* and the cursor is the sort key of the last row of the page before.      *)
(***************************************************************************)
EXTENDS SnapshotBuffer

CONSTANTS
    RowId(_),  \* the order of the rows' ids
    Limit      \* rows of a page

ASSUME QueryAssumption ==
    /\ Limit \in Nat \ {0}
    /\ \A k \in Keys : RowId(k) \in Int
    /\ \A j, k \in Keys : RowId(j) = RowId(k) => j = k
    /\ None \notin [last : Nat, id : Int]

VARIABLE
    walk  \* [at, map, after, got, start, touched, back]: the filter, the cursor, and
          \* for the properties what was returned, what there was, what changed since,
          \* and which rows an observation with an older time moved backwards

vars == <<bufferVars, walk>>

NoWalk == [at |-> "idle", map |-> None, after |-> None, got |-> <<>>, start |-> {}, touched |-> {},
           back |-> {}]

SnapshotTypeOK ==
    /\ BufferTypeOK
    /\ walk.at \in {"idle", "walking", "done"}
    /\ walk.start \cup walk.touched \cup walk.back \subseteq Keys

Init == BufferInit /\ walk = NoWalk

Matching(map) == {k \in Keys : rows[k] # None /\ (map = None \/ MapOf(k) = map)}

\* The first request, without a cursor.
StartWalk ==
    /\ load.reads
    /\ walk.at = "idle"
    /\ \E map \in {MapOf(k) : k \in Keys} \cup {None} :
         walk' = [NoWalk EXCEPT !.at = "walking", !.map = map, !.start = Matching(map)]
    /\ UNCHANGED bufferVars

SortKey(k) == [last |-> rows[k].last, id |-> RowId(k)]

\* Deviation: no tie-break by id.
BelowByTime(a, b) == a.last < b.last

\* Descending by last_seen_at, then by id.
Below(a, b) == a.last < b.last \/ (a.last = b.last /\ a.id < b.id)

\* Deviation: the page goes on behind as many rows as were returned.
AfterOffset(map) ==
    {k \in Matching(map) :
        Cardinality({j \in Matching(map) : Below(SortKey(k), SortKey(j))}) >= Len(walk.got)}

AfterCursor(map) ==
    {k \in Matching(map) : walk.after = None \/ Below(SortKey(k), walk.after)}

\* The first rows of a set in that order.
Place(k, left) == 1 + Cardinality({j \in left : Below(SortKey(k), SortKey(j))})
Page(left) ==
    LET size == IF Cardinality(left) > Limit THEN Limit ELSE Cardinality(left)
    IN  [n \in 1..size |-> CHOOSE k \in left : Place(k, left) = n]

\* list_structures: one page; a cursor only if there is more.
ReadPage ==
    LET left == AfterCursor(walk.map)
        more == Cardinality(left) > Limit
    IN
    /\ walk.at = "walking"
    /\ walk' = [walk EXCEPT !.got = @ \o Page(left),
                            !.at = IF more THEN "walking" ELSE "done",
                            !.after = IF more THEN SortKey(Page(left)[Limit]) ELSE None]
    /\ UNCHANGED bufferVars

\* The rows a step of SnapshotBuffer inserts or moves to another place, and
\* those it moves backwards.
Moved == {k \in Keys : rows'[k] # rows[k] /\ (rows[k] = None \/ rows'[k].last # rows[k].last)}
MovedBack == {k \in Keys : rows[k] # None /\ rows'[k].last < rows[k].last}

Watched == [walk EXCEPT !.touched = @ \cup Moved, !.back = @ \cup MovedBack]

Next ==
    \/ BufferNext /\ walk' = IF walk.at = "walking" THEN Watched ELSE walk
    \/ StartWalk
    \/ ReadPage

Spec == Init /\ [][Next]_vars /\ BufferFairness

----------------------------------------------------------------------------

\* A walk returns every row that was there when it began, but for those that a
\* newer observation moved in front of the cursor meanwhile, and it returns
\* none twice (structure_repo.py:87-89: pages by key, not by OFFSET).  Named
\* gap: a row whose time went back during the walk, because a request took the
\* time before another one and wrote after it (structure_store.py:58, 81).
PagesComplete ==
    /\ \A i, j \in DOMAIN walk.got :
         walk.got[i] = walk.got[j] => i = j \/ walk.got[i] \in walk.back
    /\ walk.at = "done" => walk.start \ walk.touched \subseteq {walk.got[i] : i \in DOMAIN walk.got}
=============================================================================
