----------------------------- MODULE MCSnapshot -----------------------------
(***************************************************************************)
(* Workloads for the passing of days, for retries with failures and a      *)
(* crash, and for a reader beside the writers, of two rows and of three.   *)
(***************************************************************************)
EXTENDS StructureQuery

At(x, val) == [class |-> "wall", map |-> "island", x |-> x, val |-> val, valid |-> TRUE]
Bad == [At(0, 1) EXCEPT !.valid = FALSE]
Elsewhere == [At(0, 1) EXCEPT !.map = "ragnarok"]

\* 140 and 160 lie on both sides of a cell's edge; -100 rounds to the cell of 100.
Two == [id |-> "two", items |-> <<At(100, 1), Bad, Elsewhere>>]
Again == [id |-> "again", items |-> <<At(-100, 2)>>]
Edge == [id |-> "edge", items |-> <<At(140, 1), At(160, 1)>>]
Maps == [id |-> "maps", items |-> <<Elsewhere, At(100, 1)>>]
One == [id |-> "one", items |-> <<At(100, 1)>>]
Three == [id |-> "three", items |-> <<Elsewhere, At(100, 1), At(200, 1)>>]

MCSnapshots == {Two, Again, Edge, Maps, One, Three}

Load(sent, posts, time) ==
    [sent |-> sent, reads |-> FALSE, posts |-> posts, time |-> time, failures |-> 0, crashes |-> 0]

MCWorkloads == {
    Load({One, Again}, 2, 4),
    [Load({One}, 2, 3) EXCEPT !.failures = 1, !.crashes = 1],
    [Load({Two}, 2, 0) EXCEPT !.failures = 2, !.crashes = 1],
    [Load({Edge, Again}, 2, 0) EXCEPT !.reads = TRUE],
    [Load({Maps, One}, 2, 1) EXCEPT !.reads = TRUE],
    [Load({Three}, 1, 1) EXCEPT !.reads = TRUE]}

\* An order of the ids unlike that of the cells.
MCRowId(key) == IF key[2] = "ragnarok" THEN 2 ELSE 3 - 2 * key[3]
=============================================================================
