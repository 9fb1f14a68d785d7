------------------------------ MODULE Registry ------------------------------
(***************************************************************************)
(* Get-or-create of the rows other rows refer to: server, tribe,           *)
(* structure_class, species and person (repositories/server_repo.py,       *)
(* ark_lookups_repo.py, player_repo.py), by sessions of Postgres that run  *)
(* beside each other at READ COMMITTED.                                    *)
(*                                                                         *)
(* Each SELECT and each INSERT is a step.  An INSERT waits while another   *)
(* session holds an uncommitted row of the same unique key; if that row is *)
(* committed, the code rolls its whole session back and selects again.     *)
(* Renames and backfills of a tribe are flushed with the commit.           *)
(***************************************************************************)
EXTENDS Naturals, FiniteSets

CONSTANTS
    Workers,    \* the tasks that write: one session each at a time
    Servers,    \* "ip:port" of a server, its unique key; None is a malformed one
    TribeRows,  \* tribe ids
    Names,      \* tribe names
    Teams,      \* ark_tribe_id values, positive
    Codes,      \* structure classes, blueprint paths and platform ids
    None        \* SQL NULL, no value

ASSUME RegistryAssumption ==
    /\ None \notin Names \cup TribeRows \cup Codes \cup Servers
    /\ Teams \subseteq Nat \ {0}
    /\ None \notin [server : Servers, name : Names, ark : Teams \cup {0}]

VARIABLES
    servers,  \* committed server rows
    codes,    \* committed structure_class, species and person rows
    tribes,   \* committed tribe rows: [server, name, ark], or None
    sess,     \* what each worker's session is doing
    raced     \* ids committed while another session had looked for them in vain (ghost)

tables == <<servers, codes, tribes>>
registryVars == <<tables, sess, raced>>

\* What a session resolves for: team 0 stands for unknown.
Closed == [at |-> "idle", job |-> None, server |-> "none", code |-> "none",
           tribe |-> None, change |-> "none"]

Held == {"none", "known", "fresh", "lost"}

RegistryTypeOK ==
    /\ servers \subseteq Servers
    /\ codes \subseteq Codes
    /\ tribes \in [TribeRows -> [server : Servers, name : Names, ark : Teams \cup {0}] \cup {None}]
    /\ \A w \in Workers :
         /\ sess[w].at \in {"idle", "server", "insertServer", "code", "byId", "byName",
                            "insertTribe", "commit", "turret"}
         /\ sess[w].server \in Held /\ sess[w].code \in Held
         /\ sess[w].tribe \in TribeRows \cup {None}
         /\ sess[w].change \in {"none", "insert", "rename", "backfill"}
    /\ raced \subseteq Teams

RegistryInit ==
    /\ servers = {}
    /\ codes = {}
    /\ tribes = [r \in TribeRows |-> None]
    /\ sess = [w \in Workers |-> Closed]
    /\ raced = {}

----------------------------------------------------------------------------
(* Sessions. *)

At(w, at) == sess[w].at = at
Job(w) == sess[w].job
Goto(w, s) == sess' = [sess EXCEPT ![w] = s] /\ UNCHANGED <<tables, raced>>

\* session.rollback(): what this session had flushed is gone; the objects stay.
RolledBack(s) ==
    LET lose(x) == IF x = "fresh" THEN "lost" ELSE x
    IN  [s EXCEPT !.server = lose(@), !.code = lose(@)]

\* The session is closed without a commit.
CloseSession(w) == Goto(w, Closed)

----------------------------------------------------------------------------
(* get_or_create_server_by_ip. *)

\* _split_ip_port raises unless there is a port.
SplitIpPort(job) == job.server # None

SelectServer(w) ==
    /\ At(w, "server")
    /\ \/ ~SplitIpPort(Job(w)) /\ CloseSession(w)
       \/ Job(w).server \in servers /\ Goto(w, [sess[w] EXCEPT !.server = "known", !.at = "code"])
       \/ /\ SplitIpPort(Job(w)) /\ Job(w).server \notin servers
          /\ Goto(w, [sess[w] EXCEPT !.at = "insertServer"])

InsertServer(w) ==
    /\ At(w, "insertServer")
    /\ ~\E u \in Workers \ {w} : sess[u].server = "fresh" /\ Job(u).server = Job(w).server
    /\ \/ /\ Job(w).server \in servers
          /\ Goto(w, [RolledBack(sess[w]) EXCEPT !.server = "known", !.at = "code"])
       \/ /\ Job(w).server \notin servers
          /\ Goto(w, [sess[w] EXCEPT !.server = "fresh", !.at = "code"])

----------------------------------------------------------------------------
(* get_or_create_structure_class, get_or_create_species and                *)
(* get_or_create_person: each table has one worker that writes it.         *)

\* Where get_or_create_tribe begins for a job; without a name it returns None.
TribeStep(job) ==
    CASE job.name = None -> "commit"
      [] job.name # None /\ job.team # 0 -> "byId"
      [] OTHER -> "byName"

LookUpCode(w) ==
    /\ At(w, "code")
    /\ Goto(w, [sess[w] EXCEPT !.at = TribeStep(Job(w)),
                  !.code = IF Job(w).code = None THEN "none"
                           ELSE IF Job(w).code \in codes THEN "known" ELSE "fresh"])

----------------------------------------------------------------------------
(* get_or_create_tribe. *)

RowsOf(job) == {r \in TribeRows : tribes[r] # None /\ tribes[r].server = job.server}
ById(job) == {r \in RowsOf(job) : tribes[r].ark = job.team}
ByName(job) == {r \in RowsOf(job) : tribes[r].name = job.name}

\* Deviation: the id is only looked for after the name.
SelectByArkIdLast(w) == At(w, "byId") /\ Goto(w, [sess[w] EXCEPT !.at = "byName"])

\* The id comes first, and the row takes the name reported; two rows of one id
\* make scalar_one_or_none raise.
SelectByArkId(w) ==
    LET job == Job(w)  found == ById(job) IN
    /\ At(w, "byId")
    /\ \/ found = {} /\ Goto(w, [sess[w] EXCEPT !.at = "byName"])
       \/ \E r \in found :
            /\ found = {r}
            /\ Goto(w, [sess[w] EXCEPT !.at = "commit", !.tribe = r,
                          !.change = IF tribes[r].name = job.name THEN "none" ELSE "rename"])
       \/ Cardinality(found) > 1 /\ CloseSession(w)

\* Then the name; a row without an id gets this one.
SelectByName(w) ==
    LET job == Job(w) IN
    /\ At(w, "byName")
    /\ \/ ByName(job) = {} /\ Goto(w, [sess[w] EXCEPT !.at = "insertTribe"])
       \/ \E r \in ByName(job) :
            Goto(w, [sess[w] EXCEPT !.at = "commit", !.tribe = r,
                       !.change = IF job.team # 0 /\ tribes[r].ark = 0 THEN "backfill" ELSE "none"])

SameTribeKey(job1, job2) == job1.server = job2.server /\ job1.name = job2.name

PendingTribe(w) ==
    \E u \in Workers \ {w} : sess[u].change = "insert" /\ SameTribeKey(Job(u), Job(w))

\* Ids nobody has used; TribeRows is a bound.
FreeRows == {r \in TribeRows : tribes[r] = None /\ \A u \in Workers : sess[u].tribe # r}
FreeRow == CHOOSE r \in FreeRows : TRUE

\* The INSERT; when the name is taken by now, a rollback and the row by name.
InsertTribe(w) ==
    LET job == Job(w) IN
    /\ At(w, "insertTribe")
    /\ ~PendingTribe(w)
    /\ \/ \E r \in ByName(job) : Goto(w, [RolledBack(sess[w]) EXCEPT !.at = "commit", !.tribe = r])
       \/ /\ ByName(job) = {} /\ FreeRows # {}
          /\ Goto(w, [sess[w] EXCEPT !.at = "commit", !.tribe = FreeRow, !.change = "insert"])

----------------------------------------------------------------------------
(* The commit, with what is flushed only now. *)

\* The unique index keeps a rename waiting for an uncommitted row of that name.
CommitWaits(w) == sess[w].change = "rename" /\ PendingTribe(w)

\* A foreign key to a row that was rolled back, or a rename to a name in use.
CommitRefused(w) ==
    \/ "lost" \in {sess[w].server, sess[w].code}
    \/ sess[w].change = "rename" /\ ByName(Job(w)) \ {sess[w].tribe} # {}

\* Deviation: the arguments of the constructor are swapped.
ChangedSwapped(row, s) ==
    IF s.change = "insert" THEN [server |-> s.job.server, name |-> s.job.team, ark |-> s.job.name]
    ELSE row

Changed(row, s) ==
    CASE s.change = "insert" -> [server |-> s.job.server, name |-> s.job.name, ark |-> s.job.team]
      [] s.change = "rename" -> [row EXCEPT !.name = s.job.name]
      [] s.change = "backfill" -> [row EXCEPT !.ark = s.job.team]
      [] OTHER -> row

\* Sessions that found no row of an id and do not know of one committed now.
InVain(u, team) ==
    /\ sess[u].at \in {"byName", "insertTribe", "commit"}
    /\ sess[u].change # "rename"
    /\ Job(u).team = team

CommitRegistry(w) ==
    LET s == sess[w] IN
    /\ servers' = IF s.server = "fresh" THEN servers \cup {s.job.server} ELSE servers
    /\ codes' = IF s.code = "fresh" THEN codes \cup {s.job.code} ELSE codes
    /\ tribes' = IF s.tribe = None THEN tribes ELSE [tribes EXCEPT ![s.tribe] = Changed(@, s)]
    /\ raced' = IF s.change \in {"insert", "backfill"} /\ \E u \in Workers \ {w} : InVain(u, s.job.team)
                THEN raced \cup ({s.job.team} \ {0}) ELSE raced

\* A tribe of a known id has one row, however often it is renamed and whoever
\* meets it first: the id is looked for before the name (server_repo.py:85-92).
\* The exception is named: two sessions that looked for the id at the same
\* time, under different names, each insert one.
OneRowPerTribe ==
    \A r, q \in TribeRows :
        r # q /\ tribes[r] # None /\ tribes[q] # None /\ tribes[r].server = tribes[q].server =>
            /\ tribes[r].name # tribes[q].name
            /\ tribes[r].ark # 0 /\ tribes[r].ark = tribes[q].ark => tribes[r].ark \in raced
=============================================================================
