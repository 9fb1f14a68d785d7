------------------------------ MODULE MCIngest ------------------------------
(***************************************************************************)
(* One server, one tribe that is renamed in the game, and messages of the  *)
(* three streams that meet in its rows while the sampler runs.  Each       *)
(* workload is a set of messages of one behaviour.                         *)
(***************************************************************************)
EXTENDS SightingIngest

CONSTANTS s1, n1, n2, c1, c2, h1, h2, p1

Sighting(kind, what, code, name, team) ==
    [kind |-> kind, server |-> s1, what |-> what, code |-> code, name |-> name, team |-> team,
     removed |-> FALSE, turret |-> FALSE, tamed |-> kind = "dino", parses |-> TRUE, pos |-> 1]

Wall(name, team) == Sighting("structure", h1, c1, name, team)
Turret == [Wall(None, 0) EXCEPT !.turret = TRUE]
Gone == [Wall(None, 0) EXCEPT !.removed = TRUE, !.code = None]
Rex(name, pos) == [Sighting("dino", h2, c2, name, 1) EXCEPT !.pos = pos]
Wild == [Rex(None, 1) EXCEPT !.tamed = FALSE]
Garbled == [Wall(None, 0) EXCEPT !.parses = FALSE]
Portless == [Wall(None, 0) EXCEPT !.server = None]
Classless == [Wall(None, 0) EXCEPT !.code = None]
Person == Sighting("player", p1, p1, None, 0)

Tame(name, team) == [tamed |-> TRUE, name |-> name, team |-> team]
Room1 == <<Tame(n1, 1), Tame(n1, 1), [Tame(n2, 1) EXCEPT !.tamed = FALSE]>>
Room2 == <<Tame(n1, 1), Tame(None, 1), Tame(n2, 0)>>

MCWorkloads == {
    \* renamed in the game while both streams report it
    [sent |-> {Wall(n1, 1), Wall(n2, 1), Rex(n2, 1)}, rooms |-> {Room1}],
    \* known by its name only, then by its id
    [sent |-> {Wall(n1, 0), Rex(n2, 1)}, rooms |-> {Room2}],
    [sent |-> {Wall(n1, 0), Rex(n2, 1), Wall(n1, 1)}, rooms |-> {}],
    [sent |-> {Turret, Gone, Person}, rooms |-> {}],
    [sent |-> {Rex(n1, 1), Rex(n1, 5), Rex(n1, None), Wild}, rooms |-> {}],
    [sent |-> {Garbled, Classless, Portless, Person, Rex(None, 2)}, rooms |-> {}],
    [sent |-> {}, rooms |-> {Room1, Room2}]}

MCMessages == UNION {load.sent : load \in MCWorkloads}
=============================================================================
