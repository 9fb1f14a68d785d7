--------------------------- MODULE SightingIngest ---------------------------
(***************************************************************************)
(* The handlers behind the three streams (services/structure_sighting_     *)
(* service.py, dino_sighting_service.py, player_ingest_service.py) and the *)
(* density sampler (services/dino_density_service.py), which all resolve   *)
(* their rows through Registry at the same time.                           *)
(*                                                                         *)
(* A handler that raises leaves its message unacknowledged, and the        *)
(* consumer hands it out again (StreamConsumer); one whose acknowledgement *)
(* is lost is handed out again too.  A message that can never be stored as *)
(* it is, is dropped by returning normally.                                *)
(***************************************************************************)
EXTENDS Registry, Sequences

CONSTANTS
    Messages,       \* every message of the three streams
    Workloads,      \* what one behaviour meets: [sent |-> messages, rooms |-> what the
                    \* sampler may find in the live view: sequences of dinos]
    MaxDinos,       \* bound on tamed_dino rows
    Near,           \* _MATCH_RADIUS, in the units of the positions
    MaxRedeliveries,
    MaxCrashes

Structure == [code : Codes, tribe : TribeRows \cup {None}, turret : BOOLEAN]
Creature == [tamed : BOOLEAN, name : Names \cup {None}, team : Teams \cup {0}]

ASSUME IngestAssumption ==
    /\ Workers = {"structure", "dino", "player", "density"}
    /\ \A m \in Messages :
         /\ m.kind \in {"structure", "dino", "player"} /\ m.server \in Servers \cup {None}
         /\ m.code \in Codes \cup {None} /\ m.name \in Names \cup {None} /\ m.team \in Teams \cup {0}
         /\ {m.removed, m.turret, m.tamed, m.parses} \subseteq BOOLEAN
    /\ \A load \in Workloads : load.sent \subseteq Messages /\ load.rooms \subseteq Seq(Creature)
    /\ None \notin Messages \cup Structure
    /\ MaxDinos \in Nat /\ MaxRedeliveries \in Nat /\ MaxCrashes \in Nat

VARIABLES
    inbox,        \* messages not acknowledged
    tried,        \* messages handed out since the rest of their stream was
    done,         \* messages whose handler has returned
    structures,   \* ark_structure rows by object_hash: [code, tribe, turret], or None
    dinos,        \* tamed_dino rows: [what, pos, tribe]
    players,      \* player rows by platform_id: present or not
    cells,        \* dino_density rows by tribe, one cell and window: [last, max]
    rooms,        \* the rooms of this behaviour
    todo,         \* cells the sampler has still to write: [name, team, n]
    redelivered,
    crashes

stored == <<structures, dinos, players, cells>>
budget == <<rooms, redelivered, crashes>>
queues == <<inbox, tried>>
vars == <<registryVars, queues, done, stored, todo, budget>>

Hashes == {m.what : m \in {n \in Messages : n.kind = "structure"}}
Platforms == {m.what : m \in {n \in Messages : n.kind = "player"}}

\* A cell nobody has counted in yet: no row.
EmptyCell == [last |-> 0, max |-> 0]

NewDino(m, tribe) == [what |-> m.what, pos |-> m.pos, tribe |-> tribe]

IngestTypeOK ==
    /\ RegistryTypeOK
    /\ inbox \subseteq Messages /\ tried \subseteq Messages /\ done \subseteq Messages
    /\ structures \in [Hashes -> Structure \cup {None}]
    /\ Len(dinos) <= MaxDinos
    /\ players \in [Platforms -> BOOLEAN]
    /\ \A r \in TribeRows : cells[r].last \in Nat /\ cells[r].max \in Nat
    /\ \A c \in todo : c.name \in Names /\ c.team \in Teams \cup {0} /\ c.n \in Nat \ {0}
    /\ redelivered \in 0..MaxRedeliveries /\ crashes \in 0..MaxCrashes

Init ==
    /\ RegistryInit
    /\ \E load \in Workloads : inbox = load.sent /\ rooms = load.rooms
    /\ tried = {}
    /\ done = {}
    /\ structures = [h \in Hashes |-> None]
    /\ dinos = <<>>
    /\ players = [p \in Platforms |-> FALSE]
    /\ cells = [r \in TribeRows |-> EmptyCell]
    /\ todo = {}
    /\ redelivered = 0
    /\ crashes = 0

----------------------------------------------------------------------------
(* Handling a message. *)

\* parse_sighting gives None, or there is nothing to store: the handler returns.
DroppedStructure(m) ==
    m.kind = "structure" /\ (~m.parses \/ (~m.removed /\ m.code = None /\ SplitIpPort(m)))
DroppedDino(m) == m.kind = "dino" /\ (~m.parses \/ m.code = None \/ ~m.tamed)
DroppedPlayer(m) == m.kind = "player" /\ ~m.parses
Dropped(m) == DroppedStructure(m) \/ DroppedDino(m) \/ DroppedPlayer(m)

\* Deviation: only entries never delivered before are read.
TakeNewMessage(m) ==
    /\ m \in inbox \ tried
    /\ At(m.kind, "idle")
    /\ ~Dropped(m)
    /\ tried' = tried \cup {m}
    /\ Goto(m.kind, [Closed EXCEPT !.at = "server", !.job = m])
    /\ UNCHANGED <<done, inbox, stored, todo, budget>>

\* The worker of a stream takes up an unacknowledged message of its own; what
\* has failed is claimed again only behind the rest (StreamConsumer).
TakeMessage(m) ==
    LET stream == {n \in Messages : n.kind = m.kind} IN
    /\ m \in inbox
    /\ At(m.kind, "idle")
    /\ m \in tried => inbox \cap stream \subseteq tried
    /\ tried' = IF m \in tried THEN (tried \ stream) \cup {m} ELSE tried \cup {m}
    /\ \/ /\ Dropped(m)
          /\ done' = done \cup {m}
          /\ inbox' = inbox \ {m}
          /\ UNCHANGED registryVars
       \/ /\ ~Dropped(m)
          /\ Goto(m.kind, [Closed EXCEPT !.at = "server", !.job = m])
          /\ UNCHANGED <<done, inbox>>
    /\ UNCHANGED <<stored, todo, budget>>

Resolve(w) ==
    /\ \/ SelectServer(w) \/ InsertServer(w)
       \/ ~At(w, "idle") /\ ~Job(w).removed /\ LookUpCode(w)
       \/ SelectByArkId(w) \/ SelectByName(w) \/ InsertTribe(w)
    /\ UNCHANGED <<queues, done, stored, budget>>
    /\ todo' = IF sess'[w] = Closed /\ w = "density" THEN {} ELSE todo

\* The handler returns, and the entry is acknowledged.
Finish(w) ==
    /\ done' = done \cup {Job(w)}
    /\ inbox' = inbox \ {Job(w)}
    /\ sess' = [sess EXCEPT ![w] = Closed]

\* Deviation: the exception is swallowed and the message acknowledged.
RaisesSilently(w) ==
    /\ At(w, "commit") /\ ~CommitWaits(w) /\ CommitRefused(w)
    /\ Finish(w)
    /\ UNCHANGED <<tables, raced, tried, stored, todo, budget>>

Raises(w) ==
    /\ At(w, "commit") /\ ~CommitWaits(w) /\ CommitRefused(w)
    /\ CloseSession(w)
    /\ todo' = IF w = "density" THEN {} ELSE todo
    /\ UNCHANGED <<queues, done, stored, budget>>

Commits(w) ==
    /\ At(w, "commit") /\ ~CommitWaits(w) /\ ~CommitRefused(w)
    /\ CommitRegistry(w)
    /\ UNCHANGED <<tried, budget>>

\* The first commit of ingest_structure_sighting; a turret has a second one.
UpsertStructure(w) ==
    LET m == Job(w)  old == structures[m.what] IN
    /\ w = "structure"
    /\ Commits(w)
    /\ structures' = [structures EXCEPT ![m.what] =
         [code |-> m.code,
          tribe |-> IF sess[w].tribe = None /\ old # None THEN old.tribe ELSE sess[w].tribe,
          turret |-> old # None /\ old.turret]]
    /\ IF m.turret THEN sess' = [sess EXCEPT ![w] = [@ EXCEPT !.at = "turret", !.change = "none",
                                                             !.server = "known", !.code = "known"]]
                        /\ UNCHANGED <<done, inbox>>
       ELSE Finish(w)
    /\ UNCHANGED <<dinos, players, cells, todo>>

\* Deviation: acknowledged before the turret is written.
TurretLater(w) ==
    /\ w = "structure" /\ At(w, "turret")
    /\ Finish(w)
    /\ UNCHANGED <<tables, raced, tried, stored, todo, budget>>

UpsertTurret(w) ==
    /\ w = "structure" /\ At(w, "turret")
    /\ structures' = [structures EXCEPT ![Job(w).what].turret = TRUE]
    /\ Finish(w)
    /\ UNCHANGED <<tables, raced, tried, dinos, players, cells, todo, budget>>

\* delete_by_hash: the server is resolved, nothing else; without a row there
\* is no commit either, and a fresh server goes with the session.
DeleteStructure(w) ==
    LET m == Job(w) IN
    /\ w = "structure" /\ At(w, "code") /\ m.removed
    /\ IF structures[m.what] = None
       THEN UNCHANGED <<tables, raced, structures>>
       ELSE CommitRegistry(w) /\ structures' = [structures EXCEPT ![m.what] = None]
    /\ Finish(w)
    /\ UNCHANGED <<tried, dinos, players, cells, todo, budget>>

\* upsert_dino: the nearest row of the same hash within the radius, else a new one.
Distance(a, b) == IF a > b THEN a - b ELSE b - a
Candidates(m) ==
    {i \in DOMAIN dinos : /\ m.pos # None /\ dinos[i].pos # None
                          /\ dinos[i].what = m.what
                          /\ Distance(dinos[i].pos, m.pos) <= Near}
Nearest(m) ==
    {i \in Candidates(m) : \A j \in Candidates(m) :
        Distance(dinos[i].pos, m.pos) <= Distance(dinos[j].pos, m.pos)}

UpsertDino(w) ==
    LET m == Job(w)  tribe == sess[w].tribe IN
    /\ w = "dino"
    /\ Commits(w)
    /\ \/ \E i \in Nearest(m) :
            dinos' = [dinos EXCEPT ![i] = [what |-> @.what, pos |-> m.pos,
                                           tribe |-> IF tribe = None THEN @.tribe ELSE tribe]]
       \/ /\ Nearest(m) = {}
          /\ Len(dinos) < MaxDinos
          /\ dinos' = Append(dinos, NewDino(m, tribe))
    /\ Finish(w)
    /\ UNCHANGED <<structures, players, cells, todo>>

UpsertPlayer(w) ==
    /\ w = "player"
    /\ Commits(w)
    /\ players' = [players EXCEPT ![Job(w).what] = TRUE]
    /\ Finish(w)
    /\ UNCHANGED <<structures, dinos, cells, todo>>

----------------------------------------------------------------------------
(* The density sampler. *)

\* _collect_room: tamed dinos with a tribe, counted by tribe and team.
Collect(room) ==
    LET counted == {i \in DOMAIN room : room[i].tamed /\ room[i].name # None}
        kinds == {[name |-> room[i].name, team |-> room[i].team] : i \in counted}
    IN  {[name |-> k.name, team |-> k.team,
          n |-> Cardinality({i \in counted : room[i].name = k.name /\ room[i].team = k.team})] :
         k \in kinds}

\* What the sampler's session resolves for, before it has taken a cell.
Sampling(s) == [kind |-> "density", server |-> s, code |-> None, name |-> None, team |-> 0,
                removed |-> FALSE, n |-> 0]

\* sample_once reaches a room of the live view; one sample at a time.
SampleRoom ==
    /\ At("density", "idle")
    /\ todo = {}
    /\ \E room \in rooms, s \in Servers :
         /\ Collect(room) # {}
         /\ todo' = Collect(room)
         /\ Goto("density", [Closed EXCEPT !.at = "server", !.job = Sampling(s)])
    /\ UNCHANGED <<queues, done, stored, budget>>

\* _write_cells takes the next cell; its session goes on after each commit.
NextCell ==
    /\ At("density", "commit") /\ Job("density").name = None
    /\ \E c \in todo :
         LET job == [Job("density") EXCEPT !.name = c.name, !.team = c.team, !.n = c.n] IN
         /\ todo' = todo \ {c}
         /\ Goto("density", [sess["density"] EXCEPT !.at = TribeStep(job), !.job = job])
    /\ UNCHANGED <<queues, done, stored, budget>>

\* upsert_cell: ON CONFLICT, count_last is overwritten, count_max only grows.
UpsertCell ==
    LET s == sess["density"]
        n == s.job.n
        cell == cells[s.tribe]
    IN
    /\ s.tribe # None
    /\ Commits("density")
    /\ cells' = [cells EXCEPT ![s.tribe] = [last |-> n, max |-> IF n > cell.max THEN n ELSE cell.max]]
    /\ sess' = [sess EXCEPT !["density"] =
         IF todo = {} THEN Closed
         ELSE [s EXCEPT !.job = Sampling(s.job.server), !.tribe = None,
                        !.change = "none", !.server = "known"]]
    /\ UNCHANGED <<inbox, done, structures, dinos, players, todo>>

----------------------------------------------------------------------------
(* What the consumers and the process add. *)

\* An acknowledgement is lost and the entry claimed again.
Redeliver(m) ==
    /\ m \in done \ inbox
    /\ redelivered < MaxRedeliveries
    /\ redelivered' = redelivered + 1
    /\ inbox' = inbox \cup {m}
    /\ UNCHANGED <<registryVars, tried, done, stored, todo, rooms, crashes>>

\* The process ends; Postgres rolls every session back.
ProcessEnds ==
    /\ crashes < MaxCrashes
    /\ \E w \in Workers : ~At(w, "idle")
    /\ crashes' = crashes + 1
    /\ sess' = [w \in Workers |-> Closed]
    /\ todo' = {}
    /\ UNCHANGED <<tables, raced, queues, done, stored, rooms, redelivered>>

Step(w) ==
    \/ Resolve(w) \/ Raises(w)
    \/ UpsertStructure(w) \/ UpsertTurret(w) \/ DeleteStructure(w)
    \/ UpsertDino(w) \/ UpsertPlayer(w)
    \/ w = "density" /\ (NextCell \/ UpsertCell)

Next ==
    \/ \E m \in Messages : TakeMessage(m) \/ Redeliver(m)
    \/ \E w \in Workers : Step(w)
    \/ SampleRoom
    \/ ProcessEnds

\* Threads go on, and a consumer takes up what its stream still holds.
Fairness == \A w \in Workers : WF_vars(Step(w) \/ \E m \in Messages : m.kind = w /\ TakeMessage(m))

Spec == Init /\ [][Next]_vars /\ Fairness

----------------------------------------------------------------------------
(* Properties. *)

Removals(h) == {m \in done : m.kind = "structure" /\ m.removed /\ m.what = h}

\* What is acknowledged is in Postgres, whole: the row with its turret, and
\* every row it refers to, although a conflict inside get-or-create throws
\* away what the same session had flushed before (server_repo.py:119).
AckedIsStored ==
    /\ \A m \in done :
         ~Dropped(m) /\ m \notin inbox =>
           /\ m.kind = "structure" /\ ~m.removed /\ Removals(m.what) = {} =>
                structures[m.what] # None /\ (m.turret => structures[m.what].turret)
           /\ m.kind = "dino" => \E i \in DOMAIN dinos : dinos[i].what = m.what
           /\ m.kind = "player" => players[m.what]
    /\ \A h \in Hashes : structures[h] # None =>
         /\ structures[h].code \in codes
         /\ structures[h].tribe # None => tribes[structures[h].tribe] # None
    /\ \A i \in DOMAIN dinos : dinos[i].tribe # None => tribes[dinos[i].tribe] # None
    /\ \A r \in TribeRows : cells[r].last > 0 => tribes[r] # None /\ cells[r].max >= cells[r].last

\* An address without a port, two rows of the reported id, or the reported
\* name on another row than the id: the split, the lookup or the rename fails
\* each time.  (So would a reporter that is no UUID, structure_sighting_service.py:115:
\* messages have none here, for the relay fills the field in from its token.)
Blocked(m) ==
    \/ m.server = None
    \/ /\ m.name # None /\ m.team # 0
       /\ \/ Cardinality(ById(m)) > 1
          \/ \E r \in ById(m) : tribes[r].name # m.name /\ ByName(m) # {}

\* Every message ends up handled, through conflicts, failures and a crash of
\* the process; what is retried for ever is named by Blocked.
EventuallyStored == <>[](\A m \in inbox : m \in done \/ Blocked(m))
=============================================================================
