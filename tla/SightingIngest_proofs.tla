------------------------ MODULE SightingIngest_proofs ------------------------
(***************************************************************************)
(* The handlers of the three streams and the density sampler over the      *)
(* registry they share, for any messages, servers, tribes and rows.        *)
(*                                                                         *)
(* RegInv says what every session may rely on at each stage, however the   *)
(* others commit: above all which rows cannot exist behind the back of a   *)
(* session that is about to insert, rename or backfill one.  StoredInv     *)
(* says what the rows owe to the messages that are done.                   *)
(***************************************************************************)
EXTENDS SightingIngest, FiniteSetTheorems, TLAPS

Tribe == [server : Servers, name : Names, ark : Teams \cup {0}]
SamplerJob == [kind : {"density"}, server : Servers, code : {None}, name : Names \cup {None},
               team : Teams \cup {0}, removed : {FALSE}, n : Nat]
Jobs == Messages \cup SamplerJob
Stages == {"idle", "server", "insertServer", "code", "byId", "byName", "insertTribe", "commit", "turret"}
Changes == {"none", "insert", "rename", "backfill"}
Session == [at : Stages, job : Jobs \cup {None}, server : Held, code : Held,
            tribe : TribeRows \cup {None}, change : Changes]

\* What a session is resolving, by its stage.
JobOK(w, s) ==
    /\ s.at = "idle" => s = Closed
    /\ s.at # "idle" => s.job \in Jobs /\ s.job.kind = w /\ (w # "density" => ~Dropped(s.job))
    /\ s.at \notin {"idle", "server"} => s.job.server \in Servers
    /\ s.at \in {"byId", "byName", "insertTribe", "commit", "turret"} =>
         ~s.job.removed /\ (s.job.code = None <=> s.code = "none")
    /\ s.at \in {"byId", "byName", "insertTribe"} => s.job.name \in Names
    /\ s.at = "byId" => s.job.team # 0
    /\ s.at = "turret" => w = "structure"

\* What it holds already.
HoldsOK(s) ==
    /\ s.at \in {"idle", "server", "insertServer"} => s.server = "none"
    /\ s.at \in {"idle", "server", "insertServer", "code"} => s.code = "none"
    /\ s.at \notin {"commit", "turret"} => s.tribe = None
    /\ s.at # "commit" => s.change = "none"
    /\ s.change # "none" => s.tribe # None
    /\ s.tribe # None => s.job.name \in Names

\* What it knows of the rows: the row it has found stays, the row it inserts
\* is nobody's, and the name it inserts is not in use.
KnowsOK(s) ==
    /\ s.code = "known" => s.job.code \in codes
    /\ s.tribe # None /\ s.change # "insert" =>
         tribes[s.tribe] # None /\ tribes[s.tribe].server = s.job.server
    /\ s.change = "insert" => tribes[s.tribe] = None /\ ByName(s.job) = {}

\* A session that looked for an id in vain: there still is no such row, or the
\* id is among those that were raced.
VainOK(s) ==
    s.at \in {"byName", "insertTribe"} \/ s.change \in {"insert", "backfill"} =>
        s.job.team = 0 \/ ById(s.job) = {} \/ s.job.team \in raced

SessOK(w, s) == s \in Session /\ JobOK(w, s) /\ HoldsOK(s) /\ KnowsOK(s) /\ VainOK(s)

\* Two sessions never hold one new row or one new name.
InsertsApart ==
    \A u, w \in Workers : u # w /\ sess[u].change = "insert" =>
        /\ sess[w].tribe # sess[u].tribe
        /\ sess[w].change = "insert" => ~SameTribeKey(Job(u), Job(w))

TablesOK ==
    /\ servers \subseteq Servers /\ codes \subseteq Codes /\ raced \subseteq Teams
    /\ tribes \in [TribeRows -> Tribe \cup {None}]

RegInv ==
    /\ TablesOK
    /\ sess \in [Workers -> Session]
    /\ \A w \in Workers : SessOK(w, sess[w])
    /\ InsertsApart
    /\ OneRowPerTribe

Dino == [what : {m.what : m \in Messages}, pos : {m.pos : m \in Messages},
         tribe : TribeRows \cup {None}]
Cell == [name : Names, team : Teams \cup {0}, n : Nat \ {0}]

StoredOK ==
    /\ inbox \subseteq Messages /\ tried \subseteq Messages /\ done \subseteq Messages
    /\ structures \in [Hashes -> Structure \cup {None}]
    /\ dinos \in Seq(Dino) /\ Len(dinos) <= MaxDinos
    /\ players \in [Platforms -> BOOLEAN]
    /\ cells \in [TribeRows -> [last : Nat, max : Nat]]
    /\ todo \subseteq Cell /\ rooms \subseteq Seq(Creature)
    /\ redelivered \in 0..MaxRedeliveries /\ crashes \in 0..MaxCrashes

\* What a message that is done has left behind, in its inbox or not.
Kept(m) ==
    /\ m.kind = "structure" /\ ~m.removed /\ Removals(m.what) = {} =>
         structures[m.what] # None /\ (m.turret => structures[m.what].turret)
    /\ m.kind = "dino" => \E i \in DOMAIN dinos : dinos[i].what = m.what
    /\ m.kind = "player" => players[m.what]

Present(r) == r = None \/ tribes[r] # None

RefersOK ==
    /\ \A h \in Hashes : structures[h] # None => structures[h].code \in codes /\ Present(structures[h].tribe)
    /\ \A i \in DOMAIN dinos : Present(dinos[i].tribe)
    /\ \A r \in TribeRows : cells[r].last > 0 => tribes[r] # None /\ cells[r].max >= cells[r].last

StoredInv ==
    /\ StoredOK
    /\ \A m \in done : Dropped(m) \/ Kept(m)
    /\ RefersOK
    /\ At("structure", "turret") => structures[Job("structure").what] # None

Inv == RegInv /\ StoredInv
----------------------------------------------------------------------------
(* The constants. *)

LEMMA NoneApart ==
  /\ None \notin Servers /\ None \notin Names /\ None \notin TribeRows /\ None \notin Codes
  /\ None \notin Tribe /\ None \notin Structure
  /\ 0 \notin Teams
BY RegistryAssumption, IngestAssumption DEF Tribe

LEMMA JobFacts ==
  ASSUME NEW j \in Jobs
  PROVE  /\ j.server \in Servers \cup {None} /\ j.code \in Codes \cup {None}
         /\ j.name \in Names \cup {None} /\ j.team \in Teams \cup {0} /\ j.removed \in BOOLEAN
         /\ j.kind = "density" <=> j \in SamplerJob
<1>1. CASE j \in Messages
  <2>1. j.kind # "density"
    BY <1>1, IngestAssumption
  <2>2. j \notin SamplerJob
    BY <2>1 DEF SamplerJob
  <2> QED
    BY <1>1, <2>1, <2>2, IngestAssumption
<1>2. CASE j \in SamplerJob
  BY <1>2 DEF SamplerJob
<1> QED
  BY <1>1, <1>2 DEF Jobs

LEMMA ClosedFacts ==
  /\ Closed \in Session /\ Closed.at = "idle" /\ Closed.job = None /\ Closed.server = "none"
  /\ Closed.code = "none" /\ Closed.tribe = None /\ Closed.change = "none"
  /\ \A w \in Workers : SessOK(w, Closed)
<1>1. /\ Closed \in Session /\ Closed.at = "idle" /\ Closed.job = None /\ Closed.server = "none"
      /\ Closed.code = "none" /\ Closed.tribe = None /\ Closed.change = "none"
  BY DEF Closed, Session, Stages, Held, Changes
<1> QED
  BY <1>1 DEF SessOK, JobOK, HoldsOK, KnowsOK, VainOK

\* A structure past the look-up of its class has one.
LEMMA CodeOfJob ==
  ASSUME NEW w \in Workers, NEW s, SessOK(w, s),
         s.at \in {"byId", "byName", "insertTribe", "commit", "turret"}
  PROVE  /\ s.code # "none" => s.job.code \in Codes
         /\ w = "structure" => s.code # "none" /\ s.job.code \in Codes
                               /\ s.job \in Messages /\ s.job.what \in Hashes
<1>1. /\ s.job \in Jobs /\ s.job.kind = w /\ (w # "density" => ~Dropped(s.job))
      /\ s.job.server \in Servers /\ ~s.job.removed /\ (s.job.code = None <=> s.code = "none")
  BY DEF SessOK, JobOK
<1>2. s.code # "none" => s.job.code \in Codes
  BY <1>1, JobFacts
<1>3. ASSUME w = "structure" PROVE s.job.code # None /\ s.job \in Messages /\ s.job.what \in Hashes
  <2>1. s.job \in Messages
    BY <1>1, <1>3, JobFacts DEF Jobs
  <2>2. s.job.server # None
    BY <1>1, NoneApart
  <2> QED
    BY <1>1, <1>3, <2>1, <2>2 DEF Dropped, DroppedStructure, SplitIpPort, Hashes
<1> QED
  BY <1>1, <1>2, <1>3

----------------------------------------------------------------------------
(* The registry: a step of a session that writes nothing. *)

LEMMA SessFrame ==
  ASSUME NEW w \in Workers, NEW s, SessOK(w, s), sess'[w] = s, UNCHANGED <<tables, raced>>
  PROVE  SessOK(w, sess[w])'
<1>1. UNCHANGED <<servers, codes, tribes, raced>>
  BY DEF tables
<1>2. JobOK(w, sess[w])'
  BY DEF SessOK, JobOK, Dropped, DroppedStructure, DroppedDino, DroppedPlayer, SplitIpPort
<1>3. HoldsOK(sess[w])'
  BY DEF SessOK, HoldsOK
<1>4. KnowsOK(sess[w])'
  BY <1>1 DEF SessOK, KnowsOK, ByName, RowsOf
<1>5. VainOK(sess[w])'
  BY <1>1 DEF SessOK, VainOK, ById, RowsOf
<1> QED
  BY <1>2, <1>3, <1>4, <1>5 DEF SessOK

LEMMA GotoReg ==
  ASSUME RegInv, NEW w \in Workers, NEW s, SessOK(w, s),
         UNCHANGED <<tables, raced>>, sess' = [sess EXCEPT ![w] = s],
         s.change = "insert" => \A u \in Workers \ {w} :
            /\ sess[u].tribe # s.tribe
            /\ sess[u].change = "insert" => ~SameTribeKey(Job(u), s.job)
  PROVE  RegInv'
<1>1. /\ sess'[w] = s /\ \A u \in Workers \ {w} : sess'[u] = sess[u]
      /\ sess' \in [Workers -> Session]
  BY DEF RegInv, SessOK
<1>2. UNCHANGED <<servers, codes, tribes, raced>>
  BY DEF tables
<1>3. ASSUME NEW u \in Workers PROVE SessOK(u, sess[u])'
  <2>1. CASE u = w
    BY <2>1, <1>1, SessFrame
  <2>2. CASE u # w
    <3>1. PICK o : o = sess[u] /\ o = sess'[u] /\ SessOK(u, o)
      BY <2>2, <1>1 DEF RegInv
    <3> QED
      BY <3>1, SessFrame
  <2> QED
    BY <2>1, <2>2
<1>4. ASSUME NEW u \in Workers, NEW v \in Workers, u # v, sess'[u].change = "insert"
      PROVE  /\ sess'[v].tribe # sess'[u].tribe
             /\ sess'[v].change = "insert" => ~SameTribeKey(sess'[u].job, sess'[v].job)
  <2>1. CASE u # w /\ v # w
    BY <2>1, <1>1, <1>4 DEF RegInv, InsertsApart, SameTribeKey, Job
  <2>2. CASE u = w
    BY <2>2, <1>1, <1>4 DEF SameTribeKey, Job
  <2>3. CASE v = w
    <3>1. sess[u].change = "insert" /\ tribes[sess[u].tribe] = None /\ sess[u].tribe # None
      BY <2>3, <1>1, <1>4 DEF RegInv, SessOK, KnowsOK, HoldsOK
    <3>2. s.tribe # None /\ s.change # "insert" => tribes[s.tribe] # None
      BY DEF SessOK, KnowsOK
    <3> QED
      BY <3>1, <3>2, <2>3, <1>1, <1>4 DEF SameTribeKey, Job
  <2> QED
    BY <2>1, <2>2, <2>3
<1>5. InsertsApart'
  BY <1>4 DEF InsertsApart, SameTribeKey, Job
<1>6. TablesOK' /\ OneRowPerTribe'
  BY <1>2 DEF RegInv, TablesOK, OneRowPerTribe
<1> QED
  BY <1>1, <1>3, <1>5, <1>6 DEF RegInv

----------------------------------------------------------------------------
(* The registry: a commit. *)

\* What the guards of a commit leave: a rename to a name that is free.
RenameFits(w) ==
    sess[w].change = "rename" => ~PendingTribe(w) /\ ByName(Job(w)) \ {sess[w].tribe} = {}

\* Only the session's own row changes, and only as its change says.
LEMMA CommitTribes ==
  ASSUME RegInv, NEW w \in Workers, CommitRegistry(w), NEW o, o = sess[w]
  PROVE  /\ tribes' \in [TribeRows -> Tribe \cup {None}]
         /\ \A r \in TribeRows : r # o.tribe => tribes'[r] = tribes[r]
         /\ o.tribe # None =>
              /\ o.tribe \in TribeRows /\ o.job.server \in Servers
              /\ tribes'[o.tribe] # None /\ tribes'[o.tribe].server = o.job.server
              /\ o.change # "insert" =>
                   tribes[o.tribe] # None /\ tribes[o.tribe].server = o.job.server
              /\ tribes'[o.tribe].name =
                   IF o.change \in {"insert", "rename"} THEN o.job.name ELSE tribes[o.tribe].name
              /\ tribes'[o.tribe].ark =
                   IF o.change \in {"insert", "backfill"} THEN o.job.team ELSE tribes[o.tribe].ark
         /\ \A r \in TribeRows : tribes[r] # None =>
              tribes'[r] # None /\ tribes'[r].server = tribes[r].server
<1>1. /\ SessOK(w, o) /\ o \in Session /\ tribes \in [TribeRows -> Tribe \cup {None}]
      /\ o.tribe \in TribeRows \cup {None} /\ o.change \in Changes
  BY DEF RegInv, TablesOK, SessOK, Session
<1>2. CASE o.tribe = None
  <2>1. tribes' = tribes
    BY <1>2 DEF CommitRegistry
  <2> QED
    BY <1>1, <1>2, <2>1
<1>3. CASE o.tribe # None
  <2> DEFINE r == o.tribe
             row == Changed(tribes[r], o)
  <2>1. r \in TribeRows /\ tribes' = [tribes EXCEPT ![r] = row]
    BY <1>1, <1>3 DEF CommitRegistry
  <2>2. o.at # "idle" /\ o.at # "server" /\ o.job \in Jobs /\ o.job.server \in Servers
        /\ o.job.team \in Teams \cup {0}
    BY <1>1, <1>3, JobFacts DEF SessOK, JobOK, HoldsOK
  <2>3. o.change # "none" => o.job.name \in Names
    BY <1>1 DEF SessOK, HoldsOK
  <2>4. o.change # "insert" => tribes[r] \in Tribe /\ tribes[r] # None /\ tribes[r].server = o.job.server
    BY <1>1, <1>3, <2>1 DEF SessOK, KnowsOK
  <2>5. /\ row \in Tribe /\ row.server = o.job.server
        /\ row.name = IF o.change \in {"insert", "rename"} THEN o.job.name ELSE tribes[r].name
        /\ row.ark = IF o.change \in {"insert", "backfill"} THEN o.job.team ELSE tribes[r].ark
    <3>1. CASE o.change = "insert"
      BY <3>1, <2>2, <2>3 DEF Changed, Tribe
    <3>2. CASE o.change = "rename"
      BY <3>2, <2>3, <2>4 DEF Changed, Tribe
    <3>3. CASE o.change = "backfill"
      BY <3>3, <2>2, <2>4 DEF Changed, Tribe
    <3>4. CASE o.change = "none"
      BY <3>4, <2>4 DEF Changed, Tribe
    <3> QED
      BY <3>1, <3>2, <3>3, <3>4, <1>1 DEF Changes
  <2>6. row # None
    BY <2>5, NoneApart
  <2> HIDE DEF row
  <2>7. tribes'[r] = row /\ \A q \in TribeRows : q # r => tribes'[q] = tribes[q]
    BY <1>1, <2>1
  <2>8. tribes[r] # None => tribes[r].server = o.job.server
    BY <1>1, <1>3, <2>4 DEF SessOK, KnowsOK
  <2> QED
    BY <1>1, <1>3, <2>1, <2>2, <2>4, <2>5, <2>6, <2>7, <2>8
<1> QED
  BY <1>2, <1>3

\* The rows of the committing session and any other stay apart.
LEMMA CommitKeepsApart ==
  ASSUME RegInv, NEW w \in Workers, CommitRegistry(w), RenameFits(w), NEW q \in TribeRows,
         sess[w].tribe # None, q # sess[w].tribe, tribes[q] # None,
         tribes[q].server = Job(w).server
  PROVE  /\ tribes'[sess[w].tribe].name # tribes[q].name
         /\ tribes'[sess[w].tribe].ark # 0 /\ tribes'[sess[w].tribe].ark = tribes[q].ark
              => tribes[q].ark \in raced'
<1> DEFINE o == sess[w]
           r == o.tribe
<1>1. /\ SessOK(w, o) /\ o \in Session /\ o.change \in Changes /\ Job(w) = o.job
      /\ raced \subseteq raced' /\ OneRowPerTribe
  BY DEF RegInv, SessOK, Session, Job, CommitRegistry
<1>2. /\ r \in TribeRows
      /\ o.change # "insert" => tribes[r] # None /\ tribes[r].server = o.job.server
      /\ tribes'[r].name = IF o.change \in {"insert", "rename"} THEN o.job.name ELSE tribes[r].name
      /\ tribes'[r].ark = IF o.change \in {"insert", "backfill"} THEN o.job.team ELSE tribes[r].ark
  BY CommitTribes
<1> HIDE DEF o
<1>3. tribes[q].name = o.job.name => q \in ByName(o.job)
  BY <1>1 DEF ByName, RowsOf
<1>4. tribes[q].ark = o.job.team => q \in ById(o.job)
  BY <1>1 DEF ById, RowsOf
<1>5. tribes'[r].name # tribes[q].name
  <2>1. CASE o.change = "insert"
    BY <2>1, <1>1, <1>2, <1>3 DEF SessOK, KnowsOK
  <2>2. CASE o.change = "rename"
    BY <2>2, <1>1, <1>2, <1>3 DEF RenameFits, o
  <2>3. CASE o.change \in {"backfill", "none"}
    BY <2>3, <1>1, <1>2 DEF OneRowPerTribe, o
  <2> QED
    BY <2>1, <2>2, <2>3, <1>1 DEF Changes
<1>6. ASSUME tribes'[r].ark # 0, tribes'[r].ark = tribes[q].ark PROVE tribes[q].ark \in raced'
  <2>1. CASE o.change \in {"insert", "backfill"}
    BY <2>1, <1>1, <1>2, <1>4, <1>6 DEF SessOK, VainOK
  <2>2. CASE o.change \in {"rename", "none"}
    BY <2>2, <1>1, <1>2, <1>6 DEF OneRowPerTribe, o
  <2> QED
    BY <2>1, <2>2, <1>1 DEF Changes
<1> QED
  BY <1>5, <1>6 DEF o

LEMMA CommitOneRow ==
  ASSUME RegInv, NEW w \in Workers, CommitRegistry(w), RenameFits(w) PROVE OneRowPerTribe'
<1> DEFINE mine == sess[w].tribe
<1>1. /\ \A r \in TribeRows : r # mine => tribes'[r] = tribes[r]
      /\ mine # None => tribes'[mine].server = Job(w).server
      /\ raced \subseteq raced' /\ OneRowPerTribe
  BY CommitTribes DEF CommitRegistry, RegInv, Job
<1> SUFFICES ASSUME NEW r \in TribeRows, NEW q \in TribeRows, r # q,
                    tribes'[r] # None, tribes'[q] # None, tribes'[r].server = tribes'[q].server
             PROVE  /\ tribes'[r].name # tribes'[q].name
                    /\ tribes'[r].ark # 0 /\ tribes'[r].ark = tribes'[q].ark => tribes'[r].ark \in raced'
  BY DEF OneRowPerTribe
<1>2. CASE r # mine /\ q # mine
  BY <1>1, <1>2 DEF OneRowPerTribe
<1>3. CASE r = mine
  <2>1. mine # None /\ tribes'[q] = tribes[q] /\ tribes[q].server = Job(w).server
    BY <1>1, <1>3, NoneApart
  <2> QED
    BY <1>3, <2>1, CommitKeepsApart
<1>4. CASE q = mine
  <2>1. mine # None /\ tribes'[r] = tribes[r] /\ tribes[r].server = Job(w).server
    BY <1>1, <1>4, NoneApart
  <2> QED
    BY <1>4, <2>1, CommitKeepsApart
<1> QED
  BY <1>2, <1>3, <1>4

\* What another session knows survives the commit.
LEMMA CommitOthers ==
  ASSUME RegInv, NEW w \in Workers, CommitRegistry(w), RenameFits(w),
         NEW u \in Workers \ {w}, sess'[u] = sess[u]
  PROVE  SessOK(u, sess[u])'
<1> DEFINE o == sess[w]
<1>1. PICK s : s = sess[u] /\ s = sess'[u] /\ SessOK(u, s)
  BY DEF RegInv
<1>2. /\ \A r \in TribeRows : r # o.tribe => tribes'[r] = tribes[r]
      /\ o.tribe # None =>
           /\ o.tribe \in TribeRows /\ tribes'[o.tribe].server = o.job.server
           /\ o.change # "insert" => tribes[o.tribe] # None /\ tribes[o.tribe].server = o.job.server
           /\ tribes'[o.tribe].name =
                IF o.change \in {"insert", "rename"} THEN o.job.name ELSE tribes[o.tribe].name
           /\ tribes'[o.tribe].ark =
                IF o.change \in {"insert", "backfill"} THEN o.job.team ELSE tribes[o.tribe].ark
      /\ \A r \in TribeRows : tribes[r] # None =>
           tribes'[r] # None /\ tribes'[r].server = tribes[r].server
  BY CommitTribes
<1>3. codes \subseteq codes' /\ raced \subseteq raced'
  BY DEF CommitRegistry
<1>4. o.change \in Changes /\ s \in Session /\ o \in Session
  BY <1>1 DEF RegInv, SessOK, Session
<1>5. JobOK(u, sess[u])' /\ HoldsOK(sess[u])'
  BY <1>1 DEF SessOK, JobOK, HoldsOK, Dropped, DroppedStructure, DroppedDino, DroppedPlayer, SplitIpPort
<1>6. ASSUME s.change = "insert" PROVE tribes'[s.tribe] = None
  <2>1. s.tribe # o.tribe /\ s.tribe \in TribeRows /\ tribes[s.tribe] = None
    BY <1>1, <1>4, <1>6 DEF RegInv, InsertsApart, SessOK, HoldsOK, KnowsOK, Session
  <2> QED
    BY <2>1, <1>2
<1>7. ASSUME s.change = "insert", NEW r \in TribeRows, tribes'[r] # None,
             tribes'[r].server = s.job.server, tribes'[r].name = s.job.name
      PROVE  FALSE
  <2>1. ByName(s.job) = {}
    BY <1>1, <1>7 DEF SessOK, KnowsOK
  <2>2. r = o.tribe
    BY <1>2, <1>7, <2>1 DEF ByName, RowsOf
  <2>3. o.tribe # None
    BY <2>2, NoneApart
  <2>4. CASE o.change = "insert"
    <3>1. SameTribeKey(s.job, o.job)
      BY <1>2, <1>7, <2>2, <2>3, <2>4 DEF SameTribeKey
    <3> QED
      BY <3>1, <2>4, <1>1, <1>7 DEF RegInv, InsertsApart, Job
  <2>5. CASE o.change = "rename"
    <3>1. SameTribeKey(s.job, o.job)
      BY <1>2, <1>7, <2>2, <2>3, <2>5 DEF SameTribeKey
    <3> QED
      BY <3>1, <2>5, <1>1, <1>7 DEF RenameFits, PendingTribe, Job
  <2>6. CASE o.change \in {"backfill", "none"}
    BY <2>1, <2>2, <2>3, <2>6, <1>2, <1>7 DEF ByName, RowsOf
  <2> QED
    BY <2>4, <2>5, <2>6, <1>4 DEF Changes
<1>8. KnowsOK(sess[u])'
  <2>1. s.code = "known" => s.job.code \in codes'
    BY <1>1, <1>3 DEF SessOK, KnowsOK
  <2>2. s.tribe # None /\ s.change # "insert" =>
          tribes'[s.tribe] # None /\ tribes'[s.tribe].server = s.job.server
    BY <1>1, <1>2, <1>4 DEF SessOK, KnowsOK, Session
  <2>3. s.change = "insert" => ByName(s.job)' = {}
    BY <1>7 DEF ByName, RowsOf
  <2> QED
    BY <1>1, <1>6, <2>1, <2>2, <2>3 DEF KnowsOK, ByName, RowsOf
<1>9. VainOK(sess[u])'
  <2> SUFFICES ASSUME s.at \in {"byName", "insertTribe"} \/ s.change \in {"insert", "backfill"},
                      s.job.team # 0, s.job.team \notin raced',
                      NEW r \in TribeRows, tribes'[r] # None,
                      tribes'[r].server = s.job.server, tribes'[r].ark = s.job.team
               PROVE  FALSE
    BY <1>1 DEF VainOK, ById, RowsOf
  <2>1. ById(s.job) = {}
    BY <1>1, <1>3 DEF SessOK, VainOK
  <2>2. r = o.tribe /\ o.tribe # None
    BY <1>2, <2>1, NoneApart DEF ById, RowsOf
  <2>3. CASE o.change \in {"insert", "backfill"}
    <3>1. o.job.team = s.job.team
      BY <1>2, <2>2, <2>3
    <3>2. InVain(u, o.job.team)
      BY <3>1, <1>1 DEF InVain, Job, SessOK, HoldsOK
    <3>3. s.job.team \in raced'
      BY <3>1, <3>2, <2>3 DEF CommitRegistry
    <3> QED
      BY <3>3
  <2>4. CASE o.change \in {"rename", "none"}
    BY <2>1, <2>2, <2>4, <1>2 DEF ById, RowsOf
  <2> QED
    BY <2>3, <2>4, <1>4 DEF Changes
<1> QED
  BY <1>1, <1>4, <1>5, <1>8, <1>9 DEF SessOK

\* The committing session's own references.
LEMMA CommitOwn ==
  ASSUME RegInv, NEW w \in Workers, CommitRegistry(w), sess[w].at \in {"code", "commit"}
  PROVE  /\ sess[w].code \in {"known", "fresh"} => Job(w).code \in codes'
         /\ servers' \subseteq Servers /\ codes' \subseteq Codes /\ raced' \subseteq Teams
<1> DEFINE o == sess[w]
<1>1. SessOK(w, o) /\ o \in Session /\ Job(w) = o.job /\ TablesOK
  BY DEF RegInv, SessOK, Job
<1>2. o.job.server \in Servers /\ o.job \in Jobs /\ o.job.team \in Teams \cup {0}
  BY <1>1, JobFacts DEF SessOK, JobOK
<1>3. o.code # "none" => o.job.code \in Codes
  BY <1>1, CodeOfJob DEF SessOK, HoldsOK
<1>4. o.code = "known" => o.job.code \in codes
  BY <1>1 DEF SessOK, KnowsOK
<1> QED
  BY <1>1, <1>2, <1>3, <1>4 DEF CommitRegistry, TablesOK

LEMMA CommitReg ==
  ASSUME RegInv, NEW w \in Workers, CommitRegistry(w), RenameFits(w),
         sess[w].at \in {"code", "commit"},
         NEW s \in Session, sess' = [sess EXCEPT ![w] = s], SessOK(w, sess[w])',
         s.change = "none", s.tribe \in {None, sess[w].tribe}
  PROVE  RegInv'
<1>1. /\ sess'[w] = s /\ \A u \in Workers \ {w} : sess'[u] = sess[u]
      /\ sess' \in [Workers -> Session]
  BY DEF RegInv
<1>2. \A u \in Workers : SessOK(u, sess[u])'
  BY <1>1, CommitOthers
<1>3. TablesOK'
  BY CommitOwn, CommitTribes DEF TablesOK
<1>4. ASSUME NEW u \in Workers, NEW v \in Workers, u # v, sess'[u].change = "insert"
      PROVE  /\ sess'[v].tribe # sess'[u].tribe
             /\ sess'[v].change = "insert" => ~SameTribeKey(sess'[u].job, sess'[v].job)
  <2>1. u # w /\ sess[u].change = "insert" /\ sess[u].tribe # None /\ sess'[u] = sess[u]
    BY <1>1, <1>4 DEF RegInv, SessOK, HoldsOK
  <2>2. CASE v # w
    BY <2>1, <2>2, <1>1, <1>4 DEF RegInv, InsertsApart, SameTribeKey, Job
  <2>3. CASE v = w
    BY <2>1, <2>3, <1>1, <1>4 DEF RegInv, InsertsApart
  <2> QED
    BY <2>2, <2>3
<1>5. InsertsApart'
  BY <1>4 DEF InsertsApart, SameTribeKey, Job
<1> QED
  BY <1>1, <1>2, <1>3, <1>5, CommitOneRow DEF RegInv

----------------------------------------------------------------------------
(* The registry: the look-ups. *)

LEMMA CloseReg ==
  ASSUME RegInv, NEW w \in Workers, UNCHANGED <<tables, raced>>, sess' = [sess EXCEPT ![w] = Closed]
  PROVE  RegInv'
BY GotoReg, ClosedFacts

\* What a session at work has.
LEMMA AtWork ==
  ASSUME RegInv, NEW w \in Workers, NEW o, o = sess[w], o.at # "idle"
  PROVE  /\ SessOK(w, o) /\ o \in Session /\ Job(w) = o.job
         /\ o.job \in Jobs /\ o.job.kind = w /\ o.job.server \in Servers \cup {None}
         /\ o.job.name \in Names \cup {None} /\ o.job.team \in Teams \cup {0}
         /\ o.job.code \in Codes \cup {None}
<1>1. SessOK(w, o) /\ o \in Session /\ Job(w) = o.job /\ o.job \in Jobs /\ o.job.kind = w
  BY DEF RegInv, SessOK, JobOK, Job
<1> QED
  BY <1>1, JobFacts

LEMMA RolledBackFacts ==
  ASSUME NEW s \in Session
  PROVE  /\ RolledBack(s) \in Session /\ RolledBack(s).at = s.at /\ RolledBack(s).job = s.job
         /\ RolledBack(s).tribe = s.tribe /\ RolledBack(s).change = s.change
         /\ RolledBack(s).server = (IF s.server = "fresh" THEN "lost" ELSE s.server)
         /\ RolledBack(s).code = (IF s.code = "fresh" THEN "lost" ELSE s.code)
BY DEF RolledBack, Session, Held

LEMMA SelectServerReg == ASSUME RegInv, NEW w \in Workers, SelectServer(w) PROVE RegInv'
<1>1. PICK o : o = sess[w]
  OBVIOUS
<1>2. o.at = "server"
  BY <1>1 DEF SelectServer, At
<1>3. SessOK(w, o) /\ o \in Session /\ Job(w) = o.job /\ o.job.server \in Servers \cup {None}
  BY <1>1, <1>2, AtWork
<1>4. CASE CloseSession(w)
  BY <1>4, CloseReg DEF CloseSession, Goto
<1>5. CASE Job(w).server \in servers /\ Goto(w, [sess[w] EXCEPT !.server = "known", !.at = "code"])
  <2> DEFINE s == [o EXCEPT !.server = "known", !.at = "code"]
  <2>1. /\ s \in Session /\ s.at = "code" /\ s.server = "known" /\ s.job = o.job /\ s.code = o.code
        /\ s.tribe = o.tribe /\ s.change = o.change
    BY <1>3 DEF Session, Stages, Held
  <2>2. UNCHANGED <<tables, raced>> /\ sess' = [sess EXCEPT ![w] = s]
    BY <1>1, <1>5 DEF Goto
  <2> HIDE DEF s
  <2>3. o.job.server \in Servers
    BY <1>3, <1>5 DEF RegInv, TablesOK
  <2>4. SessOK(w, s) /\ s.change = "none"
    BY <2>1, <2>3, <1>2, <1>3 DEF SessOK, JobOK, HoldsOK, KnowsOK, VainOK
  <2> QED
    BY <2>2, <2>4, GotoReg
<1>6. CASE SplitIpPort(Job(w)) /\ Goto(w, [sess[w] EXCEPT !.at = "insertServer"])
  <2> DEFINE s == [o EXCEPT !.at = "insertServer"]
  <2>1. /\ s \in Session /\ s.at = "insertServer" /\ s.server = o.server /\ s.job = o.job
        /\ s.code = o.code /\ s.tribe = o.tribe /\ s.change = o.change
    BY <1>3 DEF Session, Stages
  <2>2. UNCHANGED <<tables, raced>> /\ sess' = [sess EXCEPT ![w] = s]
    BY <1>1, <1>6 DEF Goto
  <2> HIDE DEF s
  <2>3. o.job.server \in Servers
    BY <1>3, <1>6 DEF SplitIpPort
  <2>4. SessOK(w, s) /\ s.change = "none"
    BY <2>1, <2>3, <1>2, <1>3 DEF SessOK, JobOK, HoldsOK, KnowsOK, VainOK
  <2> QED
    BY <2>2, <2>4, GotoReg
<1> QED
  BY <1>4, <1>5, <1>6 DEF SelectServer

LEMMA InsertServerReg == ASSUME RegInv, NEW w \in Workers, InsertServer(w) PROVE RegInv'
<1>1. PICK o : o = sess[w]
  OBVIOUS
<1>2. o.at = "insertServer"
  BY <1>1 DEF InsertServer, At
<1>3. SessOK(w, o) /\ o \in Session /\ Job(w) = o.job
  BY <1>1, <1>2, AtWork
<1>4. PICK s : /\ s \in Session /\ s.at = "code" /\ s.job = o.job /\ s.code = o.code
               /\ s.tribe = o.tribe /\ s.change = o.change
               /\ UNCHANGED <<tables, raced>> /\ sess' = [sess EXCEPT ![w] = s]
  <2>1. CASE Goto(w, [RolledBack(sess[w]) EXCEPT !.server = "known", !.at = "code"])
    <3> DEFINE b == RolledBack(o)
               s == [b EXCEPT !.server = "known", !.at = "code"]
    <3>1. /\ b \in Session /\ b.job = o.job /\ b.tribe = o.tribe /\ b.change = o.change
          /\ b.code = o.code
      BY <1>2, <1>3, RolledBackFacts DEF SessOK, HoldsOK
    <3>2. UNCHANGED <<tables, raced>> /\ sess' = [sess EXCEPT ![w] = s]
      BY <1>1, <2>1 DEF Goto
    <3> HIDE DEF b
    <3>3. /\ s \in Session /\ s.at = "code" /\ s.job = b.job /\ s.code = b.code
          /\ s.tribe = b.tribe /\ s.change = b.change
      BY <3>1 DEF Session, Stages, Held
    <3> HIDE DEF s
    <3> QED
      BY <3>1, <3>2, <3>3
  <2>2. CASE Goto(w, [sess[w] EXCEPT !.server = "fresh", !.at = "code"])
    <3> DEFINE s == [o EXCEPT !.server = "fresh", !.at = "code"]
    <3>1. /\ s \in Session /\ s.at = "code" /\ s.job = o.job /\ s.code = o.code
          /\ s.tribe = o.tribe /\ s.change = o.change
      BY <1>3 DEF Session, Stages, Held
    <3>2. UNCHANGED <<tables, raced>> /\ sess' = [sess EXCEPT ![w] = s]
      BY <1>1, <2>2 DEF Goto
    <3> HIDE DEF s
    <3> QED
      BY <3>1, <3>2
  <2> QED
    BY <2>1, <2>2 DEF InsertServer
<1>5. SessOK(w, s) /\ s.change = "none"
  BY <1>2, <1>3, <1>4 DEF SessOK, JobOK, HoldsOK, KnowsOK, VainOK
<1> QED
  BY <1>4, <1>5, GotoReg

\* Where the tribe is looked for first.
LEMMA TribeStepFacts ==
  ASSUME NEW job \in Jobs
  PROVE  /\ TribeStep(job) \in {"byId", "byName", "commit"}
         /\ TribeStep(job) # "commit" => job.name \in Names
         /\ TribeStep(job) = "byId" => job.team # 0
         /\ TribeStep(job) = "byName" => job.team = 0
BY JobFacts DEF TribeStep

LEMMA LookUpCodeReg ==
  ASSUME RegInv, NEW w \in Workers, LookUpCode(w), ~Job(w).removed PROVE RegInv'
<1>1. PICK o : o = sess[w]
  OBVIOUS
<1>2. o.at = "code"
  BY <1>1 DEF LookUpCode, At
<1>3. SessOK(w, o) /\ o \in Session /\ Job(w) = o.job /\ o.job \in Jobs
  BY <1>1, <1>2, AtWork
<1>4. PICK at, code : at = TribeStep(o.job) /\ code = IF o.job.code = None THEN "none"
                                                      ELSE IF o.job.code \in codes THEN "known" ELSE "fresh"
  OBVIOUS
<1> DEFINE s == [o EXCEPT !.at = at, !.code = code]
<1>5. UNCHANGED <<tables, raced>> /\ sess' = [sess EXCEPT ![w] = s]
  BY <1>1, <1>3, <1>4 DEF LookUpCode, Goto
<1>6. /\ s \in Session /\ s.at = at /\ s.job = o.job /\ s.code = code /\ s.server = o.server
      /\ s.tribe = o.tribe /\ s.change = o.change
  BY <1>3, <1>4, TribeStepFacts DEF Session, Stages, Held
<1> HIDE DEF s
<1>7. SessOK(w, s) /\ s.change = "none"
  BY <1>2, <1>3, <1>4, <1>6, TribeStepFacts DEF SessOK, JobOK, HoldsOK, KnowsOK, VainOK
<1> QED
  BY <1>5, <1>7, GotoReg

LEMMA SelectByArkIdReg == ASSUME RegInv, NEW w \in Workers, SelectByArkId(w) PROVE RegInv'
<1>1. PICK o : o = sess[w]
  OBVIOUS
<1>2. o.at = "byId"
  BY <1>1 DEF SelectByArkId, At
<1>3. SessOK(w, o) /\ o \in Session /\ Job(w) = o.job
  BY <1>1, <1>2, AtWork
<1>4. CASE ById(o.job) = {} /\ Goto(w, [sess[w] EXCEPT !.at = "byName"])
  <2> DEFINE s == [o EXCEPT !.at = "byName"]
  <2>1. /\ s \in Session /\ s.at = "byName" /\ s.server = o.server /\ s.job = o.job
        /\ s.code = o.code /\ s.tribe = o.tribe /\ s.change = o.change
    BY <1>3 DEF Session, Stages
  <2>2. UNCHANGED <<tables, raced>> /\ sess' = [sess EXCEPT ![w] = s]
    BY <1>1, <1>4 DEF Goto
  <2> HIDE DEF s
  <2>3. SessOK(w, s) /\ s.change = "none"
    BY <2>1, <1>2, <1>3, <1>4 DEF SessOK, JobOK, HoldsOK, KnowsOK, VainOK
  <2> QED
    BY <2>2, <2>3, GotoReg
<1>5. CASE \E r \in ById(o.job) :
             Goto(w, [sess[w] EXCEPT !.at = "commit", !.tribe = r,
                        !.change = IF tribes[r].name = o.job.name THEN "none" ELSE "rename"])
  <2>1. PICK r \in ById(o.job), change \in {"none", "rename"} :
          Goto(w, [sess[w] EXCEPT !.at = "commit", !.tribe = r, !.change = change])
    BY <1>5
  <2> DEFINE s == [o EXCEPT !.at = "commit", !.tribe = r, !.change = change]
  <2>2. r \in TribeRows /\ tribes[r] # None /\ tribes[r].server = o.job.server
    BY <2>1 DEF ById, RowsOf
  <2>3. UNCHANGED <<tables, raced>> /\ sess' = [sess EXCEPT ![w] = s]
    BY <1>1, <2>1 DEF Goto
  <2>4. /\ s \in Session /\ s.at = "commit" /\ s.server = o.server /\ s.job = o.job
        /\ s.code = o.code /\ s.tribe = r /\ s.change = change
    BY <1>3, <2>1, <2>2 DEF Session, Stages, Changes
  <2> HIDE DEF s
  <2>5. SessOK(w, s) /\ s.change # "insert"
    BY <2>1, <2>2, <2>4, <1>2, <1>3, NoneApart DEF SessOK, JobOK, HoldsOK, KnowsOK, VainOK
  <2> QED
    BY <2>3, <2>5, GotoReg
<1>6. CASE CloseSession(w)
  BY <1>6, CloseReg DEF CloseSession, Goto
<1> QED
  BY <1>1, <1>3, <1>4, <1>5, <1>6 DEF SelectByArkId

LEMMA SelectByNameReg == ASSUME RegInv, NEW w \in Workers, SelectByName(w) PROVE RegInv'
<1>1. PICK o : o = sess[w]
  OBVIOUS
<1>2. o.at = "byName"
  BY <1>1 DEF SelectByName, At
<1>3. SessOK(w, o) /\ o \in Session /\ Job(w) = o.job
  BY <1>1, <1>2, AtWork
<1>4. CASE Goto(w, [sess[w] EXCEPT !.at = "insertTribe"])
  <2> DEFINE s == [o EXCEPT !.at = "insertTribe"]
  <2>1. /\ s \in Session /\ s.at = "insertTribe" /\ s.server = o.server /\ s.job = o.job
        /\ s.code = o.code /\ s.tribe = o.tribe /\ s.change = o.change
    BY <1>3 DEF Session, Stages
  <2>2. UNCHANGED <<tables, raced>> /\ sess' = [sess EXCEPT ![w] = s]
    BY <1>1, <1>4 DEF Goto
  <2> HIDE DEF s
  <2>3. SessOK(w, s) /\ s.change = "none"
    BY <2>1, <1>2, <1>3 DEF SessOK, JobOK, HoldsOK, KnowsOK, VainOK
  <2> QED
    BY <2>2, <2>3, GotoReg
<1>5. CASE \E r \in ByName(o.job) :
             Goto(w, [sess[w] EXCEPT !.at = "commit", !.tribe = r,
                        !.change = IF o.job.team # 0 /\ tribes[r].ark = 0 THEN "backfill" ELSE "none"])
  <2>1. PICK r \in ByName(o.job), change \in {"none", "backfill"} :
          Goto(w, [sess[w] EXCEPT !.at = "commit", !.tribe = r, !.change = change])
    BY <1>5
  <2> DEFINE s == [o EXCEPT !.at = "commit", !.tribe = r, !.change = change]
  <2>2. r \in TribeRows /\ tribes[r] # None /\ tribes[r].server = o.job.server
    BY <2>1 DEF ByName, RowsOf
  <2>3. UNCHANGED <<tables, raced>> /\ sess' = [sess EXCEPT ![w] = s]
    BY <1>1, <2>1 DEF Goto
  <2>4. /\ s \in Session /\ s.at = "commit" /\ s.server = o.server /\ s.job = o.job
        /\ s.code = o.code /\ s.tribe = r /\ s.change = change
    BY <1>3, <2>1, <2>2 DEF Session, Stages, Changes
  <2> HIDE DEF s
  <2>5. SessOK(w, s) /\ s.change # "insert"
    BY <2>1, <2>2, <2>4, <1>2, <1>3, NoneApart DEF SessOK, JobOK, HoldsOK, KnowsOK, VainOK
  <2> QED
    BY <2>3, <2>5, GotoReg
<1> QED
  BY <1>1, <1>3, <1>4, <1>5 DEF SelectByName

LEMMA InsertTribeReg == ASSUME RegInv, NEW w \in Workers, InsertTribe(w) PROVE RegInv'
<1>1. PICK o : o = sess[w]
  OBVIOUS
<1>2. o.at = "insertTribe" /\ ~PendingTribe(w)
  BY <1>1 DEF InsertTribe, At
<1>3. SessOK(w, o) /\ o \in Session /\ Job(w) = o.job
  BY <1>1, <1>2, AtWork
<1>4. CASE \E r \in ByName(o.job) : Goto(w, [RolledBack(sess[w]) EXCEPT !.at = "commit", !.tribe = r])
  <2>1. PICK r \in ByName(o.job) : Goto(w, [RolledBack(sess[w]) EXCEPT !.at = "commit", !.tribe = r])
    BY <1>4
  <2> DEFINE b == RolledBack(o)
             s == [b EXCEPT !.at = "commit", !.tribe = r]
  <2>2. r \in TribeRows /\ tribes[r] # None /\ tribes[r].server = o.job.server
    BY <2>1 DEF ByName, RowsOf
  <2>3. UNCHANGED <<tables, raced>> /\ sess' = [sess EXCEPT ![w] = s]
    BY <1>1, <2>1 DEF Goto
  <2>4. /\ b \in Session /\ b.job = o.job /\ b.change = o.change
        /\ b.code = IF o.code = "fresh" THEN "lost" ELSE o.code
    BY <1>3, RolledBackFacts
  <2> HIDE DEF b
  <2>5. /\ s \in Session /\ s.at = "commit" /\ s.job = o.job /\ s.code = b.code
        /\ s.tribe = r /\ s.change = o.change
    BY <2>2, <2>4 DEF Session, Stages
  <2> HIDE DEF s
  <2>6. SessOK(w, s) /\ s.change = "none"
    BY <2>2, <2>4, <2>5, <1>2, <1>3, NoneApart DEF SessOK, JobOK, HoldsOK, KnowsOK, VainOK
  <2> QED
    BY <2>3, <2>6, GotoReg
<1>5. CASE /\ ByName(o.job) = {} /\ FreeRows # {}
           /\ Goto(w, [sess[w] EXCEPT !.at = "commit", !.tribe = FreeRow, !.change = "insert"])
  <2>1. PICK r : r = FreeRow /\ r \in FreeRows
    BY <1>5 DEF FreeRow
  <2> DEFINE s == [o EXCEPT !.at = "commit", !.tribe = r, !.change = "insert"]
  <2>2. r \in TribeRows /\ tribes[r] = None /\ \A u \in Workers : sess[u].tribe # r
    BY <2>1 DEF FreeRows
  <2>3. UNCHANGED <<tables, raced>> /\ sess' = [sess EXCEPT ![w] = s]
    BY <1>1, <1>5, <2>1 DEF Goto
  <2>4. /\ s \in Session /\ s.at = "commit" /\ s.job = o.job /\ s.code = o.code
        /\ s.tribe = r /\ s.change = "insert"
    BY <1>3, <2>2 DEF Session, Stages, Changes
  <2> HIDE DEF s
  <2>5. SessOK(w, s)
    BY <2>2, <2>4, <1>2, <1>3, <1>5, NoneApart DEF SessOK, JobOK, HoldsOK, KnowsOK, VainOK
  <2>6. \A u \in Workers \ {w} : sess[u].change = "insert" => ~SameTribeKey(Job(u), s.job)
    BY <1>2, <1>3, <2>4 DEF PendingTribe
  <2> QED
    BY <2>2, <2>3, <2>4, <2>5, <2>6, GotoReg
<1> QED
  BY <1>1, <1>3, <1>4, <1>5 DEF InsertTribe

----------------------------------------------------------------------------
(* What the commits leave behind. *)

LEMMA ClosedAgain == ASSUME NEW w \in Workers, sess'[w] = Closed PROVE SessOK(w, sess[w])'
BY ClosedFacts DEF SessOK, JobOK, HoldsOK, KnowsOK, VainOK

LEMMA CommitFacts ==
  ASSUME RegInv, NEW w \in Workers, Commits(w), NEW o, o = sess[w]
  PROVE  /\ o.at = "commit" /\ SessOK(w, o) /\ o \in Session /\ Job(w) = o.job
         /\ CommitRegistry(w) /\ RenameFits(w)
         /\ \A r \in TribeRows : tribes[r] # None => tribes'[r] # None
         /\ codes \subseteq codes'
         /\ o.tribe # None => tribes'[o.tribe] # None /\ tribes'[o.tribe].server = o.job.server
         /\ o.code # "none" => o.job.code \in codes'
<1>1. /\ o.at = "commit" /\ CommitRegistry(w) /\ RenameFits(w)
      /\ o.code # "lost"
  BY DEF Commits, At, CommitWaits, CommitRefused, RenameFits
<1>2. SessOK(w, o) /\ o \in Session /\ Job(w) = o.job
  BY <1>1, AtWork
<1>3. o.code \in Held
  BY <1>2 DEF Session
<1>4. o.code # "none" => o.job.code \in codes'
  BY <1>1, <1>2, <1>3, CommitOwn DEF Held
<1>5. codes \subseteq codes'
  BY <1>1 DEF CommitRegistry
<1> QED
  BY <1>1, <1>2, <1>4, <1>5, CommitTribes

LEMMA CommitAndClose ==
  ASSUME RegInv, NEW w \in Workers, Commits(w), sess' = [sess EXCEPT ![w] = Closed] PROVE RegInv'
<1>1. sess'[w] = Closed
  BY DEF RegInv
<1>2. SessOK(w, sess[w])'
  BY <1>1, ClosedAgain
<1>3. CommitRegistry(w) /\ RenameFits(w) /\ sess[w].at = "commit"
  BY CommitFacts
<1> QED
  BY <1>2, <1>3, ClosedFacts, CommitReg

\* Nothing is written to the rows of the handlers.
LEMMA StoredFrame ==
  ASSUME StoredInv, UNCHANGED <<stored, rooms>>,
         \A r \in TribeRows : tribes[r] # None => tribes'[r] # None, codes \subseteq codes',
         inbox' \subseteq Messages, tried' \subseteq Messages, todo' \subseteq Cell,
         redelivered' \in 0..MaxRedeliveries, crashes' \in 0..MaxCrashes,
         done \subseteq done', done' \subseteq Messages,
         \A m \in done' \ done : Dropped(m) \/ (m.kind = "structure" /\ m.removed),
         sess'["structure"].at = "turret" => sess'["structure"] = sess["structure"]
  PROVE  StoredInv'
<1>1. UNCHANGED <<structures, dinos, players, cells, rooms>>
  BY DEF stored
<1>2. StoredOK'
  BY <1>1 DEF StoredInv, StoredOK
<1>3. \A h : Removals(h) \subseteq Removals(h)'
  BY DEF Removals
<1>4. ASSUME NEW m \in done' PROVE Dropped(m) \/ Kept(m)'
  <2>1. CASE m \in done
    BY <2>1, <1>1, <1>3 DEF StoredInv, Kept
  <2>2. CASE m \notin done
    BY <2>2 DEF Kept
  <2> QED
    BY <2>1, <2>2
<1>5. ASSUME NEW r \in TribeRows \cup {None}, Present(r) PROVE Present(r)'
  BY <1>5 DEF Present
<1>6. \A h \in Hashes : structures[h] # None => structures[h].tribe \in TribeRows \cup {None}
  BY DEF StoredInv, StoredOK, Structure
<1>7. \A i \in DOMAIN dinos : dinos[i].tribe \in TribeRows \cup {None}
  <2>1. \A i \in DOMAIN dinos : dinos[i] \in Dino
    BY DEF StoredInv, StoredOK
  <2> QED
    BY <2>1 DEF Dino
<1>8. RefersOK'
  BY <1>1, <1>5, <1>6, <1>7 DEF StoredInv, RefersOK, Present
<1>9. (At("structure", "turret") => structures[Job("structure").what] # None)'
  BY <1>1 DEF StoredInv, At, Job
<1>10. \A m \in done' : Dropped(m)' \/ Kept(m)'
  BY <1>4 DEF Dropped, DroppedStructure, DroppedDino, DroppedPlayer, SplitIpPort
<1> QED
  BY <1>2, <1>8, <1>9, <1>10 DEF StoredInv

\* A row of ark_structure is written, and keeps its turret.
LEMMA StructureWritten ==
  ASSUME StoredInv, NEW h \in Hashes, NEW row \in Structure,
         structures' = [structures EXCEPT ![h] = row],
         structures[h] # None => (structures[h].turret => row.turret),
         row.code \in codes', Present(row.tribe)',
         UNCHANGED <<tried, dinos, players, cells, todo, budget>>,
         \A r \in TribeRows : tribes[r] # None => tribes'[r] # None, codes \subseteq codes',
         NEW m \in Messages, m.kind = "structure", m.what = h,
         inbox' \subseteq inbox,
         done' = done \/ (done' = done \cup {m} /\ (m.turret => row.turret)),
         sess'["structure"].at = "turret" => sess'["structure"].job = m
  PROVE  StoredInv'
<1>1. UNCHANGED <<tried, dinos, players, cells, todo, rooms, redelivered, crashes>>
  BY DEF budget
<1>2. row # None
  BY NoneApart
<1>3. /\ structures \in [Hashes -> Structure \cup {None}]
      /\ structures'[h] = row /\ \A x \in Hashes : x # h => structures'[x] = structures[x]
  BY DEF StoredInv, StoredOK
<1>4. StoredOK'
  BY <1>1, <1>3 DEF StoredInv, StoredOK
<1>5. \A x : Removals(x) \subseteq Removals(x)'
  BY DEF Removals
<1>6. ASSUME NEW d \in done' PROVE Dropped(d)' \/ Kept(d)'
  <2>1. CASE d \in done
    <3>1. Dropped(d) => Dropped(d)'
      BY DEF Dropped, DroppedStructure, DroppedDino, DroppedPlayer, SplitIpPort
    <3>2. CASE Kept(d)
      <4>1. ASSUME d.kind = "structure", ~d.removed, Removals(d.what)' = {}
            PROVE  structures'[d.what] # None /\ (d.turret => structures'[d.what].turret)
        <5>1. structures[d.what] # None /\ (d.turret => structures[d.what].turret)
          BY <3>2, <4>1, <1>5 DEF Kept
        <5>2. d.what \in Hashes
          BY <2>1, <4>1 DEF StoredInv, StoredOK, Hashes
        <5> QED
          BY <5>1, <5>2, <1>2, <1>3
      <4> QED
        BY <4>1, <3>2, <1>1 DEF Kept
    <3> QED
      BY <3>1, <3>2, <2>1 DEF StoredInv
  <2>2. CASE d = m /\ (m.turret => row.turret)
    BY <2>2, <1>2, <1>3 DEF Kept
  <2> QED
    BY <2>1, <2>2
<1>7. ASSUME NEW r \in TribeRows \cup {None}, Present(r) PROVE Present(r)'
  BY <1>7 DEF Present
<1>8. ASSUME NEW x \in Hashes, structures'[x] # None
      PROVE  structures'[x].code \in codes' /\ Present(structures[x].tribe)'
  <2>1. CASE x = h
    BY <2>1, <1>3 DEF Present
  <2>2. CASE x # h
    <3>1. /\ structures'[x] = structures[x] /\ structures[x].tribe \in TribeRows \cup {None}
          /\ structures[x].code \in codes /\ Present(structures[x].tribe)
      BY <2>2, <1>3, <1>8 DEF StoredInv, RefersOK, Structure
    <3> QED
      BY <3>1, <1>7 DEF Present
  <2> QED
    BY <2>1, <2>2
<1>9. \A i \in DOMAIN dinos : dinos[i].tribe \in TribeRows \cup {None}
  <2>1. \A i \in DOMAIN dinos : dinos[i] \in Dino
    BY DEF StoredInv, StoredOK
  <2> QED
    BY <2>1 DEF Dino
<1>10. RefersOK'
  BY <1>1, <1>7, <1>8, <1>9 DEF StoredInv, RefersOK, Present
<1>11. (At("structure", "turret") => structures[Job("structure").what] # None)'
  BY <1>2, <1>3 DEF At, Job
<1> QED
  BY <1>4, <1>6, <1>10, <1>11 DEF StoredInv

----------------------------------------------------------------------------
(* The handlers. *)

\* A stream's session has a message of its stream.
LEMMA MessageAtWork ==
  ASSUME RegInv, NEW w \in Workers \ {"density"}, sess[w].at # "idle"
  PROVE  Job(w) \in Messages /\ Job(w).kind = w /\ ~Dropped(Job(w))
<1>1. Job(w) \in Jobs /\ Job(w).kind = w /\ ~Dropped(Job(w))
  BY DEF RegInv, SessOK, JobOK, Job
<1> QED
  BY <1>1, JobFacts DEF Jobs

LEMMA TurretReg ==
  ASSUME RegInv, Commits("structure"), NEW o, o = sess["structure"],
         sess' = [sess EXCEPT !["structure"] =
                    [o EXCEPT !.at = "turret", !.change = "none", !.server = "known", !.code = "known"]]
  PROVE  RegInv' /\ sess'["structure"].job = o.job
<1> DEFINE w == "structure"
           s == [o EXCEPT !.at = "turret", !.change = "none", !.server = "known", !.code = "known"]
<1>1. /\ w \in Workers /\ o.at = "commit" /\ SessOK(w, o) /\ o \in Session
      /\ CommitRegistry(w) /\ RenameFits(w)
      /\ o.tribe # None => tribes'[o.tribe] # None /\ tribes'[o.tribe].server = o.job.server
      /\ o.code # "none" => o.job.code \in codes'
  BY CommitFacts, IngestAssumption
<1>2. /\ s \in Session /\ s.at = "turret" /\ s.change = "none" /\ s.server = "known"
      /\ s.code = "known" /\ s.job = o.job /\ s.tribe = o.tribe
  BY <1>1 DEF Session, Stages, Held, Changes
<1>3. o.code # "none" /\ o.job.code \in Codes
  BY <1>1, CodeOfJob
<1> HIDE DEF s
<1>4. sess' = [sess EXCEPT ![w] = s] /\ sess'[w] = s
  BY <1>1 DEF s, RegInv
<1>5. SessOK(w, sess[w])'
  <2>1. JobOK(w, sess[w])'
    BY <1>1, <1>2, <1>3, <1>4, NoneApart
    DEF SessOK, JobOK, Dropped, DroppedStructure, DroppedDino, DroppedPlayer, SplitIpPort
  <2>2. HoldsOK(sess[w])'
    BY <1>1, <1>2, <1>4 DEF SessOK, HoldsOK
  <2>3. KnowsOK(sess[w])' /\ VainOK(sess[w])'
    BY <1>1, <1>2, <1>3, <1>4 DEF KnowsOK, VainOK
  <2> QED
    BY <1>2, <1>4, <2>1, <2>2, <2>3 DEF SessOK
<1> QED
  BY <1>1, <1>2, <1>4, <1>5, CommitReg

LEMMA UpsertStructureInv == ASSUME Inv, NEW w \in Workers, UpsertStructure(w) PROVE Inv'
<1> USE DEF Inv
<1>1. PICK o, m, old : o = sess[w] /\ m = Job(w) /\ old = structures[m.what]
  OBVIOUS
<1>2. w = "structure" /\ Commits(w)
  BY DEF UpsertStructure
<1>3. /\ o.at = "commit" /\ SessOK(w, o) /\ o \in Session /\ m = o.job
      /\ \A r \in TribeRows : tribes[r] # None => tribes'[r] # None
      /\ codes \subseteq codes'
      /\ o.tribe # None => tribes'[o.tribe] # None
      /\ o.code # "none" => m.code \in codes'
  BY <1>1, <1>2, CommitFacts
<1>4. m \in Messages /\ m.kind = "structure" /\ m.what \in Hashes /\ m.code \in Codes /\ m.code \in codes'
  BY <1>1, <1>2, <1>3, CodeOfJob, MessageAtWork
<1>5. old \in Structure \cup {None}
  BY <1>1, <1>4 DEF StoredInv, StoredOK
<1> DEFINE row == [code |-> m.code,
                   tribe |-> IF o.tribe = None /\ old # None THEN old.tribe ELSE o.tribe,
                   turret |-> old # None /\ old.turret]
<1>6. structures' = [structures EXCEPT ![m.what] = row]
  BY <1>1 DEF UpsertStructure
<1>7. /\ row \in Structure /\ row.code = m.code /\ (old # None => row.turret = old.turret)
      /\ row.tribe = IF o.tribe = None /\ old # None THEN old.tribe ELSE o.tribe
  <2>1. o.tribe \in TribeRows \cup {None}
    BY <1>3 DEF Session
  <2>2. old # None => old.tribe \in TribeRows \cup {None} /\ old.turret \in BOOLEAN
    BY <1>5 DEF Structure
  <2>3. row.tribe \in TribeRows \cup {None} /\ row.turret \in BOOLEAN
    BY <2>1, <2>2
  <2>4. row \in Structure
    BY <2>3, <1>4 DEF Structure
  <2>5. ASSUME old # None PROVE row.turret = old.turret
    BY <2>2, <2>5
  <2> QED
    BY <2>4, <2>5
<1> HIDE DEF row
<1>8. Present(row.tribe)'
  <2>1. CASE o.tribe = None /\ old # None
    <3>1. Present(old.tribe) /\ old.tribe \in TribeRows \cup {None}
      BY <2>1, <1>1, <1>4, <1>5 DEF StoredInv, RefersOK, Structure
    <3> QED
      BY <3>1, <2>1, <1>3, <1>7 DEF Present
  <2>2. CASE ~(o.tribe = None /\ old # None)
    BY <2>2, <1>3, <1>7 DEF Present
  <2> QED
    BY <2>1, <2>2
<1>9. UNCHANGED <<tried, dinos, players, cells, todo, budget>>
  BY <1>2 DEF UpsertStructure, Commits
<1>10. CASE m.turret /\ UNCHANGED <<done, inbox>>
            /\ sess' = [sess EXCEPT ![w] = [o EXCEPT !.at = "turret", !.change = "none",
                                                     !.server = "known", !.code = "known"]]
  <2>1. RegInv' /\ sess'["structure"].job = m
    BY <1>1, <1>2, <1>3, <1>10, TurretReg
  <2>2. StoredInv'
    BY <1>1, <1>3, <1>4, <1>6, <1>7, <1>8, <1>9, <1>10, <2>1, StructureWritten
  <2> QED
    BY <2>1, <2>2
<1>11. CASE ~m.turret /\ Finish(w)
  <2>1. /\ sess' = [sess EXCEPT ![w] = Closed] /\ done' = done \cup {m} /\ inbox' \subseteq inbox
        /\ sess'["structure"] = Closed
    BY <1>1, <1>2, <1>11 DEF Finish, RegInv
  <2>2. RegInv'
    BY <1>2, <2>1, CommitAndClose
  <2>3. sess'["structure"].at # "turret"
    BY <2>1, ClosedFacts
  <2>4. StoredInv'
    BY <1>1, <1>3, <1>4, <1>6, <1>7, <1>8, <1>9, <1>11, <2>1, <2>3, StructureWritten
  <2> QED
    BY <2>2, <2>4
<1>12. m.turret \in BOOLEAN
  BY <1>4, IngestAssumption
<1> QED
  BY <1>1, <1>2, <1>10, <1>11, <1>12 DEF UpsertStructure

LEMMA UpsertTurretInv == ASSUME Inv, NEW w \in Workers, UpsertTurret(w) PROVE Inv'
<1> USE DEF Inv
<1>1. PICK o, m, old : o = sess[w] /\ m = Job(w) /\ old = structures[m.what]
  OBVIOUS
<1>2. /\ w = "structure" /\ o.at = "turret" /\ sess' = [sess EXCEPT ![w] = Closed]
      /\ done' = done \cup {m} /\ inbox' \subseteq inbox /\ UNCHANGED <<tables, raced>>
      /\ UNCHANGED <<tried, dinos, players, cells, todo, budget>>
  BY <1>1 DEF UpsertTurret, At, Finish
<1>3. SessOK(w, o) /\ m = o.job
  BY <1>1, <1>2, AtWork
<1>4. m \in Messages /\ m.kind = "structure" /\ m.what \in Hashes
  BY <1>1, <1>2, <1>3, CodeOfJob, MessageAtWork
<1>5. old # None /\ old \in Structure
  BY <1>1, <1>2, <1>4 DEF StoredInv, StoredOK, At
<1> DEFINE row == [old EXCEPT !.turret = TRUE]
<1>6. structures' = [structures EXCEPT ![m.what] = row]
  BY <1>1, <1>4 DEF UpsertTurret
<1>7. row \in Structure /\ row.code = old.code /\ row.tribe = old.tribe /\ row.turret = TRUE
  BY <1>5 DEF Structure
<1> HIDE DEF row
<1>8. UNCHANGED <<codes, tribes>>
  BY <1>2 DEF tables
<1>9. row.code \in codes' /\ Present(row.tribe)'
  BY <1>1, <1>4, <1>5, <1>7, <1>8 DEF StoredInv, RefersOK, Present
<1>10. RegInv'
  BY <1>2, CloseReg
<1>11. sess'["structure"] = Closed /\ sess'["structure"].at # "turret"
  BY <1>2, ClosedFacts DEF RegInv
<1>12. StoredInv'
  BY <1>1, <1>2, <1>4, <1>6, <1>7, <1>8, <1>9, <1>11, StructureWritten
<1> QED
  BY <1>10, <1>12

LEMMA DeleteStructureInv == ASSUME Inv, NEW w \in Workers, DeleteStructure(w) PROVE Inv'
<1> USE DEF Inv
<1>1. PICK o, m : o = sess[w] /\ m = Job(w)
  OBVIOUS
<1>2. /\ w = "structure" /\ o.at = "code" /\ m.removed /\ sess' = [sess EXCEPT ![w] = Closed]
      /\ done' = done \cup {m} /\ inbox' \subseteq inbox
      /\ UNCHANGED <<tried, dinos, players, cells, todo, budget>>
  BY <1>1 DEF DeleteStructure, At, Finish
<1>3. SessOK(w, o) /\ o \in Session /\ m = o.job /\ o.change = "none"
  BY <1>1, <1>2, AtWork DEF SessOK, HoldsOK
<1>4. m \in Messages /\ m.kind = "structure" /\ m.what \in Hashes
  BY <1>1, <1>2, MessageAtWork DEF Hashes
<1>5. sess'["structure"] = Closed /\ sess'["structure"].at # "turret" /\ SessOK(w, sess[w])'
  BY <1>2, ClosedFacts, ClosedAgain DEF RegInv
<1>6. CASE UNCHANGED <<tables, raced, structures>>
  <2>1. RegInv'
    BY <1>2, <1>6, CloseReg
  <2>2. \A d \in done' \ done : d.kind = "structure" /\ d.removed
    BY <1>2, <1>4
  <2>3. StoredInv'
    <3>1. UNCHANGED <<stored, rooms, todo, tried, redelivered, crashes, codes, tribes>>
      BY <1>2, <1>6 DEF stored, budget, tables
    <3> QED
      BY <1>2, <1>4, <1>5, <2>2, <3>1, StoredFrame DEF StoredInv, StoredOK
  <2> QED
    BY <2>1, <2>3
<1>7. CASE CommitRegistry(w) /\ structures' = [structures EXCEPT ![m.what] = None]
  <2>1. RenameFits(w)
    BY <1>1, <1>3 DEF RenameFits
  <2>2. RegInv'
    BY <1>1, <1>2, <1>5, <1>7, <2>1, ClosedFacts, CommitReg
  <2>3. /\ \A r \in TribeRows : tribes[r] # None => tribes'[r] # None
        /\ codes \subseteq codes'
    BY <1>7, CommitTribes DEF CommitRegistry
  <2>4. UNCHANGED <<tried, dinos, players, cells, todo, rooms, redelivered, crashes>>
    BY <1>2 DEF budget
  <2>5. /\ structures \in [Hashes -> Structure \cup {None}]
        /\ structures'[m.what] = None
        /\ \A x \in Hashes : x # m.what => structures'[x] = structures[x]
    BY <1>4, <1>7 DEF StoredInv, StoredOK
  <2>6. StoredOK'
    BY <1>2, <1>4, <1>7, <2>4, <2>5 DEF StoredInv, StoredOK
  <2>7. \A x : Removals(x) \subseteq Removals(x)'
    BY <1>2 DEF Removals
  <2>8. m \in Removals(m.what)'
    BY <1>2, <1>4 DEF Removals
  <2>9. ASSUME NEW d \in done' PROVE Dropped(d)' \/ Kept(d)'
    <3>1. Dropped(d) => Dropped(d)'
      BY DEF Dropped, DroppedStructure, DroppedDino, DroppedPlayer, SplitIpPort
    <3>2. CASE d \in done /\ Kept(d)
      <4>1. ASSUME d.kind = "structure", ~d.removed, Removals(d.what)' = {}
            PROVE  structures'[d.what] # None /\ (d.turret => structures'[d.what].turret)
        <5>1. structures[d.what] # None /\ (d.turret => structures[d.what].turret)
          BY <3>2, <4>1, <2>7 DEF Kept
        <5>2. d.what \in Hashes /\ d.what # m.what
          BY <3>2, <4>1, <2>8 DEF StoredInv, StoredOK, Hashes
        <5> QED
          BY <5>1, <5>2, <2>5
      <4> QED
        BY <4>1, <3>2, <2>4 DEF Kept
    <3>3. CASE d = m
      BY <3>3, <1>2, <1>4 DEF Kept
    <3> QED
      BY <3>1, <3>2, <3>3, <1>2 DEF StoredInv
  <2>10. ASSUME NEW r \in TribeRows \cup {None}, Present(r) PROVE Present(r)'
    BY <2>3, <2>10 DEF Present
  <2>11. ASSUME NEW x \in Hashes, structures'[x] # None
         PROVE  structures'[x].code \in codes' /\ Present(structures[x].tribe)'
    <3>1. /\ structures'[x] = structures[x] /\ structures[x].tribe \in TribeRows \cup {None}
          /\ structures[x].code \in codes /\ Present(structures[x].tribe)
      BY <2>5, <2>11 DEF StoredInv, RefersOK, Structure
    <3> QED
      BY <3>1, <2>3, <2>10 DEF Present
  <2>12. \A i \in DOMAIN dinos : dinos[i].tribe \in TribeRows \cup {None}
    <3>1. \A i \in DOMAIN dinos : dinos[i] \in Dino
      BY DEF StoredInv, StoredOK
    <3> QED
      BY <3>1 DEF Dino
  <2>13. RefersOK'
    BY <2>3, <2>4, <2>10, <2>11, <2>12 DEF StoredInv, RefersOK, Present
  <2>14. StoredInv'
    BY <1>5, <2>6, <2>9, <2>13 DEF StoredInv, At
  <2> QED
    BY <2>2, <2>14
<1> QED
  BY <1>1, <1>6, <1>7 DEF DeleteStructure

\* Rows of dinos, players or cells are written; structures are as they were.
LEMMA RowsWritten ==
  ASSUME StoredInv, UNCHANGED <<structures, tried, rooms, redelivered, crashes>>,
         \A r \in TribeRows : tribes[r] # None => tribes'[r] # None, codes \subseteq codes',
         inbox' \subseteq inbox, todo' \subseteq Cell,
         dinos' \in Seq(Dino), Len(dinos') <= MaxDinos,
         players' \in [Platforms -> BOOLEAN], cells' \in [TribeRows -> [last : Nat, max : Nat]],
         \A i \in DOMAIN dinos : i \in DOMAIN dinos' /\ dinos'[i].what = dinos[i].what,
         \A i \in DOMAIN dinos' : Present(dinos[i].tribe)',
         \A p \in Platforms : players[p] => players'[p],
         \A r \in TribeRows : cells'[r].last > 0 => tribes'[r] # None /\ cells'[r].max >= cells'[r].last,
         done' \subseteq Messages, done \subseteq done',
         \A m \in done' \ done : Kept(m)',
         sess'["structure"].at = "turret" => sess'["structure"] = sess["structure"]
  PROVE  StoredInv'
<1>1. StoredOK'
  BY DEF StoredInv, StoredOK
<1>2. \A x : Removals(x) \subseteq Removals(x)'
  BY DEF Removals
<1>3. ASSUME NEW m \in done' PROVE Dropped(m)' \/ Kept(m)'
  <2>1. Dropped(m) => Dropped(m)'
    BY DEF Dropped, DroppedStructure, DroppedDino, DroppedPlayer, SplitIpPort
  <2>2. CASE m \in done /\ Kept(m)
    <3>1. m.kind = "player" => m.what \in Platforms
      BY <2>2 DEF StoredInv, StoredOK, Platforms
    <3>2. m.kind = "dino" => \E i \in DOMAIN dinos' : dinos'[i].what = m.what
      BY <2>2 DEF Kept
    <3> QED
      BY <2>2, <3>1, <3>2, <1>2 DEF Kept
  <2> QED
    BY <2>1, <2>2 DEF StoredInv
<1>4. ASSUME NEW h \in Hashes, structures[h] # None
      PROVE  structures[h].code \in codes' /\ Present(structures[h].tribe)'
  <2>1. /\ structures[h].tribe \in TribeRows \cup {None}
        /\ structures[h].code \in codes /\ Present(structures[h].tribe)
    BY <1>4 DEF StoredInv, StoredOK, RefersOK, Structure
  <2> QED
    BY <2>1 DEF Present
<1>5. RefersOK'
  BY <1>4 DEF RefersOK, Present
<1>6. (At("structure", "turret") => structures[Job("structure").what] # None)'
  BY DEF StoredInv, At, Job
<1> QED
  BY <1>1, <1>3, <1>5, <1>6 DEF StoredInv

\* The rows that were there before a commit refer to what is there after it.
LEMMA DinosRefer ==
  ASSUME StoredInv, \A r \in TribeRows : tribes[r] # None => tribes'[r] # None
  PROVE  /\ \A i \in DOMAIN dinos : dinos[i].tribe = None \/ tribes'[dinos[i].tribe] # None
         /\ \A r \in TribeRows : cells[r].last > 0 => tribes'[r] # None /\ cells[r].max >= cells[r].last
<1>1. \A i \in DOMAIN dinos : dinos[i] \in Dino
  BY DEF StoredInv, StoredOK
<1> QED
  BY <1>1 DEF StoredInv, RefersOK, Present, Dino

LEMMA UpsertPlayerInv == ASSUME Inv, NEW w \in Workers, UpsertPlayer(w) PROVE Inv'
<1> USE DEF Inv
<1>1. PICK m : m = Job(w)
  OBVIOUS
<1>2. /\ w = "player" /\ Commits(w) /\ sess' = [sess EXCEPT ![w] = Closed]
      /\ players' = [players EXCEPT ![m.what] = TRUE]
      /\ done' = done \cup {m} /\ inbox' \subseteq inbox
      /\ UNCHANGED <<structures, dinos, cells, todo, tried, budget>>
  BY <1>1 DEF UpsertPlayer, Finish, Commits
<1>3. /\ sess[w].at = "commit" /\ codes \subseteq codes'
      /\ \A r \in TribeRows : tribes[r] # None => tribes'[r] # None
  BY <1>2, CommitFacts
<1>4. m \in Messages /\ m.kind = "player" /\ m.what \in Platforms
  BY <1>1, <1>2, <1>3, MessageAtWork DEF Platforms
<1>5. RegInv'
  BY <1>2, CommitAndClose
<1>6. sess'["structure"] = sess["structure"]
  BY <1>2 DEF RegInv
<1>7. UNCHANGED <<rooms, redelivered, crashes>>
  BY <1>2 DEF budget
<1>8. /\ players' \in [Platforms -> BOOLEAN] /\ players'[m.what] = TRUE
      /\ \A p \in Platforms : players[p] => players'[p]
  BY <1>2, <1>4 DEF StoredInv, StoredOK
<1>9. Kept(m)'
  BY <1>4, <1>8 DEF Kept
<1>10. \A i \in DOMAIN dinos' : Present(dinos[i].tribe)'
  BY <1>2, <1>3, DinosRefer DEF Present
<1>11. \A r \in TribeRows : cells'[r].last > 0 => tribes'[r] # None /\ cells'[r].max >= cells'[r].last
  BY <1>2, <1>3, DinosRefer
<1>12. StoredInv'
  BY <1>2, <1>3, <1>4, <1>6, <1>7, <1>8, <1>9, <1>10, <1>11, RowsWritten DEF StoredInv, StoredOK
<1> QED
  BY <1>5, <1>12

LEMMA UpsertDinoInv == ASSUME Inv, NEW w \in Workers, UpsertDino(w) PROVE Inv'
<1> USE DEF Inv
<1>1. PICK m, tribe : m = Job(w) /\ tribe = sess[w].tribe
  OBVIOUS
<1>2. /\ w = "dino" /\ Commits(w) /\ sess' = [sess EXCEPT ![w] = Closed]
      /\ done' = done \cup {m} /\ inbox' \subseteq inbox
      /\ UNCHANGED <<structures, players, cells, todo, tried, budget>>
  BY <1>1 DEF UpsertDino, Finish, Commits
<1>3. /\ sess[w].at = "commit" /\ codes \subseteq codes' /\ tribe \in TribeRows \cup {None}
      /\ \A r \in TribeRows : tribes[r] # None => tribes'[r] # None
      /\ tribe # None => tribes'[tribe] # None
  BY <1>1, <1>2, CommitFacts DEF Session
<1>4. m \in Messages /\ m.kind = "dino"
  BY <1>1, <1>2, <1>3, MessageAtWork
<1>5. RegInv'
  BY <1>2, CommitAndClose
<1>6. sess'["structure"] = sess["structure"]
  BY <1>2 DEF RegInv
<1>7. UNCHANGED <<rooms, redelivered, crashes>>
  BY <1>2 DEF budget
<1>8. /\ dinos \in Seq(Dino) /\ Len(dinos) <= MaxDinos /\ Len(dinos) \in Nat
      /\ \A i \in DOMAIN dinos : dinos[i] \in Dino
  BY DEF StoredInv, StoredOK
<1>9. \A i \in DOMAIN dinos : dinos[i].tribe = None \/ tribes'[dinos[i].tribe] # None
  BY <1>3, DinosRefer
<1>10. /\ dinos' \in Seq(Dino) /\ Len(dinos') <= MaxDinos
       /\ \A i \in DOMAIN dinos : i \in DOMAIN dinos' /\ dinos'[i].what = dinos[i].what
       /\ \E i \in DOMAIN dinos' : dinos'[i].what = m.what
       /\ \A i \in DOMAIN dinos' : dinos'[i].tribe = None \/ tribes'[dinos'[i].tribe] # None
  <2>1. ASSUME NEW i \in Nearest(m),
               dinos' = [dinos EXCEPT ![i] = [what |-> @.what, pos |-> m.pos,
                                              tribe |-> IF tribe = None THEN @.tribe ELSE tribe]]
        PROVE  /\ dinos' \in Seq(Dino) /\ Len(dinos') <= MaxDinos
               /\ \A j \in DOMAIN dinos : j \in DOMAIN dinos' /\ dinos'[j].what = dinos[j].what
               /\ \E j \in DOMAIN dinos' : dinos'[j].what = m.what
               /\ \A j \in DOMAIN dinos' : dinos'[j].tribe = None \/ tribes'[dinos'[j].tribe] # None
    <3> DEFINE d == [what |-> dinos[i].what, pos |-> m.pos,
                     tribe |-> IF tribe = None THEN dinos[i].tribe ELSE tribe]
    <3>1. i \in DOMAIN dinos /\ dinos[i].what = m.what
      BY <2>1 DEF Nearest, Candidates
    <3>2. /\ d \in Dino /\ d.what = m.what
          /\ d.tribe = None \/ tribes'[d.tribe] # None
      BY <3>1, <1>3, <1>4, <1>8, <1>9 DEF Dino
    <3>3. dinos' = [dinos EXCEPT ![i] = d]
      BY <2>1, <3>1
    <3> HIDE DEF d
    <3>4. /\ dinos' \in Seq(Dino) /\ Len(dinos') = Len(dinos) /\ DOMAIN dinos' = DOMAIN dinos
          /\ dinos'[i] = d /\ \A j \in DOMAIN dinos : j # i => dinos'[j] = dinos[j]
      BY <3>1, <3>2, <3>3, <1>8
    <3> QED
      BY <3>1, <3>2, <3>4, <1>8, <1>9
  <2>2. ASSUME Len(dinos) < MaxDinos, dinos' = Append(dinos, NewDino(m, tribe))
        PROVE  /\ dinos' \in Seq(Dino) /\ Len(dinos') <= MaxDinos
               /\ \A i \in DOMAIN dinos : i \in DOMAIN dinos' /\ dinos'[i].what = dinos[i].what
               /\ \E i \in DOMAIN dinos' : dinos'[i].what = m.what
               /\ \A i \in DOMAIN dinos' : dinos'[i].tribe = None \/ tribes'[dinos'[i].tribe] # None
    <3>1. PICK d : d = NewDino(m, tribe)
      OBVIOUS
    <3>2. d \in Dino /\ d.what = m.what /\ d.tribe = tribe
      BY <3>1, <1>3, <1>4 DEF NewDino, Dino
    <3>3. /\ dinos' \in Seq(Dino) /\ Len(dinos') = Len(dinos) + 1
          /\ DOMAIN dinos = 1..Len(dinos) /\ DOMAIN dinos' = 1..(Len(dinos) + 1)
          /\ dinos'[Len(dinos) + 1] = d /\ \A j \in 1..Len(dinos) : dinos'[j] = dinos[j]
      BY <2>2, <3>1, <3>2, <1>8
    <3>4. Len(dinos') <= MaxDinos
      BY <3>3, <2>2, <1>8, IngestAssumption
    <3>5. Len(dinos) + 1 \in DOMAIN dinos'
      BY <3>3, <1>8
    <3> QED
      BY <3>2, <3>3, <3>4, <3>5, <1>3, <1>8, <1>9
  <2> QED
    BY <1>1, <2>1, <2>2 DEF UpsertDino
<1>11. Kept(m)'
  BY <1>4, <1>10 DEF Kept
<1>12. \A i \in DOMAIN dinos' : Present(dinos[i].tribe)'
  BY <1>10 DEF Present
<1>13. \A r \in TribeRows : cells'[r].last > 0 => tribes'[r] # None /\ cells'[r].max >= cells'[r].last
  BY <1>2, <1>3, DinosRefer
<1>14. StoredInv'
  BY <1>2, <1>3, <1>4, <1>6, <1>7, <1>10, <1>11, <1>12, <1>13, RowsWritten DEF StoredInv, StoredOK
<1> QED
  BY <1>5, <1>14

----------------------------------------------------------------------------
(* The density sampler. *)

\* What is counted in a room: tribes and teams that are there.
LEMMA CollectFacts == ASSUME NEW room \in Seq(Creature) PROVE Collect(room) \subseteq Cell
<1> DEFINE counted == {i \in DOMAIN room : room[i].tamed /\ room[i].name # None}
           Of(name, team) == {i \in counted : room[i].name = name /\ room[i].team = team}
<1>1. /\ Len(room) \in Nat /\ DOMAIN room = 1..Len(room)
      /\ \A i \in DOMAIN room : room[i].name \in Names \cup {None} /\ room[i].team \in Teams \cup {0}
  <2>1. \A i \in DOMAIN room : room[i] \in Creature
    OBVIOUS
  <2> QED
    BY <2>1 DEF Creature
<1>2. ASSUME NEW i \in counted PROVE Cardinality(Of(room[i].name, room[i].team)) \in Nat \ {0}
  <2> DEFINE same == Of(room[i].name, room[i].team)
  <2>1. same \subseteq 1..Len(room) /\ i \in same
    BY <1>1
  <2>2. IsFiniteSet(1..Len(room))
    BY <1>1, FS_Interval
  <2>3. IsFiniteSet(same)
    BY <2>1, <2>2, FS_Subset
  <2> HIDE DEF same
  <2>4. Cardinality(same) \in Nat /\ Cardinality(same) # 0
    BY <2>1, <2>3, FS_CardinalityType, FS_EmptySet
  <2> QED
    BY <2>4 DEF same
<1>3. ASSUME NEW c \in Collect(room) PROVE c \in Cell
  <2>1. PICK i \in counted : c = [name |-> room[i].name, team |-> room[i].team,
                                  n |-> Cardinality(Of(room[i].name, room[i].team))]
    <3>1. PICK k \in {[name |-> room[i].name, team |-> room[i].team] : i \in counted} :
            c = [name |-> k.name, team |-> k.team, n |-> Cardinality(Of(k.name, k.team))]
      BY <1>3, Zenon DEF Collect
    <3>2. PICK i \in counted : k = [name |-> room[i].name, team |-> room[i].team]
      BY <3>1
    <3>3. k.name = room[i].name /\ k.team = room[i].team
      BY <3>2
    <3> QED
      BY <3>1, <3>3, Zenon
  <2>2. room[i].name \in Names /\ room[i].team \in Teams \cup {0}
    BY <1>1
  <2> HIDE DEF Of
  <2> QED
    BY <1>2, <2>1, <2>2 DEF Cell
<1> QED
  BY <1>3

LEMMA SamplingFacts ==
  ASSUME NEW s \in Servers
  PROVE  /\ Sampling(s) \in SamplerJob /\ Sampling(s) \in Jobs /\ Sampling(s).kind = "density"
         /\ Sampling(s).server = s /\ Sampling(s).code = None /\ Sampling(s).name = None
         /\ ~Sampling(s).removed
BY DEF Sampling, SamplerJob, Jobs

\* A session that begins.
LEMMA BeginFacts ==
  ASSUME NEW w \in Workers, NEW j \in Jobs, j.kind = w, w # "density" => ~Dropped(j)
  PROVE  /\ SessOK(w, [Closed EXCEPT !.at = "server", !.job = j])
         /\ [Closed EXCEPT !.at = "server", !.job = j].change = "none"
         /\ [Closed EXCEPT !.at = "server", !.job = j].at = "server"
<1> DEFINE s == [Closed EXCEPT !.at = "server", !.job = j]
<1>1. /\ s \in Session /\ s.at = "server" /\ s.job = j /\ s.server = "none" /\ s.code = "none"
      /\ s.tribe = None /\ s.change = "none"
  BY DEF Closed, Session, Stages, Held, Changes
<1> HIDE DEF s
<1>2. SessOK(w, s)
  BY <1>1 DEF SessOK, JobOK, HoldsOK, KnowsOK, VainOK
<1> QED
  BY <1>1, <1>2 DEF s

LEMMA SampleRoomInv == ASSUME Inv, SampleRoom PROVE Inv'
<1> USE DEF Inv
<1>1. PICK room \in rooms, s \in Servers :
        /\ todo' = Collect(room)
        /\ Goto("density", [Closed EXCEPT !.at = "server", !.job = Sampling(s)])
        /\ UNCHANGED <<queues, done, stored, budget>>
  BY DEF SampleRoom
<1>2. "density" \in Workers /\ "structure" \in Workers
  BY IngestAssumption
<1>3. RegInv'
  BY <1>1, <1>2, BeginFacts, SamplingFacts, GotoReg DEF Goto
<1>4. room \in Seq(Creature) /\ todo' \subseteq Cell
  BY <1>1, CollectFacts DEF StoredInv, StoredOK
<1>5. sess'["structure"] = sess["structure"]
  BY <1>1, <1>2 DEF Goto, RegInv
<1>6. UNCHANGED <<inbox, tried, rooms, redelivered, crashes, codes, tribes>>
  BY <1>1 DEF queues, budget, Goto, tables
<1>7. StoredInv'
  BY <1>1, <1>4, <1>5, <1>6, StoredFrame DEF StoredInv, StoredOK
<1> QED
  BY <1>3, <1>7

\* The sampler's session has a job of the sampler, and nothing of a code.
LEMMA SamplerAtCommit ==
  ASSUME RegInv, NEW o, o = sess["density"], o.at = "commit"
  PROVE  /\ SessOK("density", o) /\ o \in Session /\ o.job \in SamplerJob
         /\ o.code = "none" /\ o.job.server \in Servers
<1>1. "density" \in Workers
  BY IngestAssumption
<1>2. SessOK("density", o) /\ o \in Session /\ o.job \in Jobs /\ o.job.kind = "density"
  BY <1>1, AtWork
<1>3. o.job \in SamplerJob
  BY <1>2, JobFacts
<1> QED
  BY <1>2, <1>3 DEF SessOK, JobOK, SamplerJob

LEMMA NextCellInv == ASSUME Inv, NextCell PROVE Inv'
<1> USE DEF Inv
<1>1. PICK o : o = sess["density"]
  OBVIOUS
<1>2. o.at = "commit" /\ o.job.name = None
  BY <1>1 DEF NextCell, At, Job
<1>3. SessOK("density", o) /\ o \in Session /\ o.job \in SamplerJob /\ o.code = "none"
  BY <1>1, <1>2, SamplerAtCommit
<1>4. PICK c \in todo :
        /\ todo' = todo \ {c}
        /\ Goto("density", [o EXCEPT !.at = TribeStep([o.job EXCEPT !.name = c.name, !.team = c.team, !.n = c.n]),
                                     !.job = [o.job EXCEPT !.name = c.name, !.team = c.team, !.n = c.n]])
  BY <1>1 DEF NextCell, Job
<1>5. PICK job : job = [o.job EXCEPT !.name = c.name, !.team = c.team, !.n = c.n]
  OBVIOUS
<1>6. c.name \in Names /\ c.team \in Teams \cup {0} /\ c.n \in Nat
  BY DEF StoredInv, StoredOK, Cell
<1>7. /\ job \in SamplerJob /\ job.name \in Names /\ job.kind = "density" /\ job.server = o.job.server
      /\ job.code = None /\ ~job.removed /\ job.server \in Servers
  BY <1>3, <1>5, <1>6 DEF SamplerJob
<1>8. job \in Jobs /\ job.name # None
  BY <1>7, NoneApart DEF Jobs
<1>9. PICK at : at = TribeStep(job)
  OBVIOUS
<1>10. at \in {"byId", "byName"} /\ (at = "byId" => job.team # 0) /\ (at = "byName" => job.team = 0)
  BY <1>8, <1>9, TribeStepFacts DEF TribeStep
<1> DEFINE s == [o EXCEPT !.at = at, !.job = job]
<1>11. /\ s \in Session /\ s.at = at /\ s.job = job /\ s.code = "none" /\ s.server = o.server
       /\ s.tribe = o.tribe /\ s.change = o.change
  BY <1>3, <1>8, <1>10 DEF Session, Stages
<1>12. Goto("density", s)
  BY <1>4, <1>5, <1>9
<1> HIDE DEF s
<1>13. s.tribe = None /\ s.change = "none"
  BY <1>2, <1>3, <1>11, NoneApart DEF SessOK, HoldsOK
<1>14. SessOK("density", s)
  BY <1>7, <1>8, <1>10, <1>11, <1>13 DEF SessOK, JobOK, HoldsOK, KnowsOK, VainOK
<1>15. "density" \in Workers /\ "structure" \in Workers
  BY IngestAssumption
<1>16. RegInv'
  BY <1>12, <1>13, <1>14, <1>15, GotoReg DEF Goto
<1>17. sess'["structure"] = sess["structure"]
  BY <1>12, <1>15 DEF Goto, RegInv
<1>18. UNCHANGED <<inbox, tried, rooms, redelivered, crashes, codes, tribes, done, stored>>
  BY <1>12 DEF NextCell, queues, budget, Goto, tables
<1>19. StoredInv'
  BY <1>4, <1>17, <1>18, StoredFrame DEF StoredInv, StoredOK
<1> QED
  BY <1>16, <1>19

\* After a cell the sampler's session goes on with the next, or is closed.
LEMMA GoesOn ==
  ASSUME RegInv, Commits("density"), NEW o, o = sess["density"],
         sess' = [sess EXCEPT !["density"] =
           IF todo = {} THEN Closed
           ELSE [o EXCEPT !.job = Sampling(o.job.server), !.tribe = None,
                          !.change = "none", !.server = "known"]]
  PROVE  RegInv'
<1>1. "density" \in Workers
  BY IngestAssumption
<1>2. CASE todo = {}
  BY <1>1, <1>2, CommitAndClose
<1>3. CASE todo # {}
  <2> DEFINE s == [o EXCEPT !.job = Sampling(o.job.server), !.tribe = None,
                            !.change = "none", !.server = "known"]
  <2>1. o.at = "commit" /\ CommitRegistry("density") /\ RenameFits("density")
    BY <1>1, CommitFacts
  <2>2. SessOK("density", o) /\ o \in Session /\ o.code = "none" /\ o.job.server \in Servers
    BY <2>1, SamplerAtCommit
  <2>3. /\ s \in Session /\ s.at = "commit" /\ s.job = Sampling(o.job.server) /\ s.tribe = None
        /\ s.change = "none" /\ s.server = "known" /\ s.code = "none"
    BY <2>1, <2>2, SamplingFacts DEF Session, Held, Changes
  <2>4. sess' = [sess EXCEPT !["density"] = s]
    BY <1>3
  <2> HIDE DEF s
  <2>5. sess'["density"] = s
    BY <1>1, <2>4 DEF RegInv
  <2>6. SessOK("density", sess["density"])'
    <3>1. /\ s.job \in Jobs /\ s.job.kind = "density" /\ s.job.server \in Servers
          /\ s.job.code = None /\ ~s.job.removed
      BY <2>2, <2>3, SamplingFacts
    <3>2. JobOK("density", sess["density"])'
      BY <2>3, <2>5, <3>1 DEF JobOK
    <3>3. HoldsOK(sess["density"])'
      BY <2>3, <2>5 DEF HoldsOK
    <3>4. KnowsOK(sess["density"])' /\ VainOK(sess["density"])'
      BY <2>3, <2>5 DEF KnowsOK, VainOK
    <3> QED
      BY <2>3, <2>5, <3>2, <3>3, <3>4 DEF SessOK
  <2> QED
    BY <1>1, <2>1, <2>3, <2>4, <2>6, CommitReg
<1> QED
  BY <1>2, <1>3

LEMMA UpsertCellInv == ASSUME Inv, UpsertCell PROVE Inv'
<1> USE DEF Inv
<1>1. PICK o : o = sess["density"]
  OBVIOUS
<1>2. PICK n, r : n = o.job.n /\ r = o.tribe
  OBVIOUS
<1>3. /\ r # None /\ Commits("density")
      /\ cells' = [cells EXCEPT ![r] = [last |-> n, max |-> IF n > cells[r].max THEN n ELSE cells[r].max]]
      /\ sess' = [sess EXCEPT !["density"] =
           IF todo = {} THEN Closed
           ELSE [o EXCEPT !.job = Sampling(o.job.server), !.tribe = None,
                          !.change = "none", !.server = "known"]]
      /\ UNCHANGED <<inbox, done, structures, dinos, players, todo>>
  BY <1>1, <1>2 DEF UpsertCell
<1>4. "density" \in Workers /\ "structure" \in Workers
  BY IngestAssumption
<1>5. /\ o.at = "commit" /\ codes \subseteq codes' /\ tribes'[r] # None
      /\ \A q \in TribeRows : tribes[q] # None => tribes'[q] # None
  BY <1>1, <1>2, <1>3, <1>4, CommitFacts
<1>6. o \in Session /\ o.job \in SamplerJob
  BY <1>1, <1>5, SamplerAtCommit
<1>7. r \in TribeRows /\ n \in Nat
  BY <1>2, <1>3, <1>6 DEF Session, SamplerJob
<1>8. RegInv'
  BY <1>1, <1>3, GoesOn
<1>9. sess'["structure"] = sess["structure"]
  BY <1>3, <1>4 DEF RegInv
<1>10. cells \in [TribeRows -> [last : Nat, max : Nat]] /\ cells[r].max \in Nat
  BY <1>7 DEF StoredInv, StoredOK
<1>11. PICK row : row = [last |-> n, max |-> IF n > cells[r].max THEN n ELSE cells[r].max]
  OBVIOUS
<1>12. row \in [last : Nat, max : Nat] /\ row.max >= row.last
  BY <1>7, <1>10, <1>11
<1>13. /\ cells' \in [TribeRows -> [last : Nat, max : Nat]] /\ cells'[r] = row
       /\ \A q \in TribeRows : q # r => cells'[q] = cells[q]
  BY <1>3, <1>7, <1>10, <1>11, <1>12
<1>14. \A q \in TribeRows : cells'[q].last > 0 => tribes'[q] # None /\ cells'[q].max >= cells'[q].last
  BY <1>5, <1>12, <1>13, DinosRefer
<1>15. \A i \in DOMAIN dinos' : Present(dinos[i].tribe)'
  BY <1>3, <1>5, DinosRefer DEF Present
<1>16. UNCHANGED <<tried, rooms, redelivered, crashes>>
  BY <1>3 DEF Commits, budget
<1>17. StoredInv'
  BY <1>3, <1>5, <1>9, <1>13, <1>14, <1>15, <1>16, RowsWritten DEF StoredInv, StoredOK
<1> QED
  BY <1>8, <1>17

----------------------------------------------------------------------------
(* The consumers and the process. *)

LEMMA TakeMessageInv == ASSUME Inv, NEW m \in Messages, TakeMessage(m) PROVE Inv'
<1> USE DEF Inv
<1>1. /\ m \in inbox /\ At(m.kind, "idle") /\ tried' \subseteq tried \cup {m}
      /\ UNCHANGED <<stored, todo, budget>>
  BY DEF TakeMessage
<1>2. m.kind \in Workers /\ m.kind # "density" /\ "structure" \in Workers
  BY IngestAssumption
<1>3. CASE Dropped(m) /\ done' = done \cup {m} /\ inbox' = inbox \ {m} /\ UNCHANGED registryVars
  <2>1. RegInv'
    BY <1>3 DEF registryVars, tables, RegInv, TablesOK, SessOK, JobOK, HoldsOK, KnowsOK, VainOK,
                ByName, ById, RowsOf, InsertsApart, SameTribeKey, Job, OneRowPerTribe
  <2>2. UNCHANGED <<rooms, redelivered, crashes, codes, tribes, sess>>
    BY <1>1, <1>3 DEF budget, registryVars, tables
  <2>3. StoredInv'
    BY <1>1, <1>3, <2>2, StoredFrame DEF StoredInv, StoredOK
  <2> QED
    BY <2>1, <2>3
<1>4. CASE /\ ~Dropped(m) /\ Goto(m.kind, [Closed EXCEPT !.at = "server", !.job = m])
           /\ UNCHANGED <<done, inbox>>
  <2>1. PICK s : s = [Closed EXCEPT !.at = "server", !.job = m]
    OBVIOUS
  <2>2. SessOK(m.kind, s) /\ s.change = "none" /\ s.at = "server"
    BY <1>2, <1>4, <2>1, BeginFacts DEF Jobs
  <2>3. RegInv'
    BY <1>2, <1>4, <2>1, <2>2, GotoReg DEF Goto
  <2>4. sess'["structure"] = sess["structure"] \/ sess'["structure"] = s
    BY <1>2, <1>4, <2>1 DEF Goto, RegInv
  <2>5. UNCHANGED <<rooms, redelivered, crashes, codes, tribes>>
    BY <1>1, <1>4 DEF budget, Goto, tables
  <2>6. StoredInv'
    BY <1>1, <1>4, <2>2, <2>4, <2>5, StoredFrame DEF StoredInv, StoredOK
  <2> QED
    BY <2>3, <2>6
<1> QED
  BY <1>3, <1>4 DEF TakeMessage

LEMMA RedeliverInv == ASSUME Inv, NEW m \in Messages, Redeliver(m) PROVE Inv'
<1> USE DEF Inv
<1>1. /\ m \in done /\ redelivered < MaxRedeliveries /\ redelivered' = redelivered + 1
      /\ inbox' = inbox \cup {m}
      /\ UNCHANGED <<servers, codes, tribes, sess, raced, tried, done, stored, todo, rooms, crashes>>
  BY DEF Redeliver, registryVars, tables
<1>2. RegInv'
  BY <1>1 DEF RegInv, TablesOK, SessOK, JobOK, HoldsOK, KnowsOK, VainOK,
              ByName, ById, RowsOf, InsertsApart, SameTribeKey, Job, OneRowPerTribe
<1>3. redelivered' \in 0..MaxRedeliveries
  BY <1>1, IngestAssumption DEF StoredInv, StoredOK
<1>4. StoredInv'
  BY <1>1, <1>3, StoredFrame DEF StoredInv, StoredOK
<1> QED
  BY <1>2, <1>4

\* A step of the registry that goes on, and does not go to the turret.
GoesTo(w) ==
    /\ UNCHANGED <<tables, raced>>
    /\ \A u \in Workers \ {w} : sess'[u] = sess[u]
    /\ sess'[w].at # "turret"

LEMMA GotoAt ==
  ASSUME RegInv, NEW w \in Workers, NEW s, Goto(w, s), s.at # "turret" PROVE GoesTo(w)
BY DEF Goto, GoesTo, RegInv

LEMMA CloseAt == ASSUME RegInv, NEW w \in Workers, CloseSession(w) PROVE GoesTo(w)
BY GotoAt, ClosedFacts DEF CloseSession

LEMMA ResolveAt ==
  ASSUME RegInv, NEW w \in Workers,
         \/ SelectServer(w) \/ InsertServer(w) \/ (~At(w, "idle") /\ ~Job(w).removed /\ LookUpCode(w))
         \/ SelectByArkId(w) \/ SelectByName(w) \/ InsertTribe(w)
  PROVE  RegInv' /\ GoesTo(w)
<1>1. PICK o : o = sess[w]
  OBVIOUS
<1>2. o \in Session
  BY <1>1 DEF RegInv
<1>3. RolledBack(o) \in Session
  BY <1>2, RolledBackFacts
<1>4. CASE SelectServer(w)
  <2>1. /\ [o EXCEPT !.server = "known", !.at = "code"].at = "code"
        /\ [o EXCEPT !.at = "insertServer"].at = "insertServer"
    BY <1>2 DEF Session
  <2> QED
    BY <1>1, <1>4, <2>1, GotoAt, CloseAt, SelectServerReg DEF SelectServer
<1>5. CASE InsertServer(w)
  <2>1. /\ [RolledBack(o) EXCEPT !.server = "known", !.at = "code"].at = "code"
        /\ [o EXCEPT !.server = "fresh", !.at = "code"].at = "code"
    BY <1>2, <1>3 DEF Session
  <2> QED
    BY <1>1, <1>5, <2>1, GotoAt, InsertServerReg DEF InsertServer
<1>6. CASE ~At(w, "idle") /\ ~Job(w).removed /\ LookUpCode(w)
  <2>1. PICK at, code : /\ at = TribeStep(Job(w)) /\ Goto(w, [o EXCEPT !.at = at, !.code = code])
    BY <1>1, <1>6 DEF LookUpCode
  <2>2. at \in {"byId", "byName", "commit"}
    BY <2>1 DEF TribeStep
  <2>3. [o EXCEPT !.at = at, !.code = code].at = at
    BY <1>2 DEF Session
  <2> QED
    BY <1>6, <2>1, <2>2, <2>3, GotoAt, LookUpCodeReg
<1>7. CASE SelectByArkId(w)
  <2>1. /\ [o EXCEPT !.at = "byName"].at = "byName"
        /\ \A r, change : [o EXCEPT !.at = "commit", !.tribe = r, !.change = change].at = "commit"
    BY <1>2 DEF Session
  <2>2. \/ Goto(w, [o EXCEPT !.at = "byName"])
        \/ \E r, change : Goto(w, [o EXCEPT !.at = "commit", !.tribe = r, !.change = change])
        \/ CloseSession(w)
    BY <1>1, <1>7 DEF SelectByArkId
  <2> QED
    BY <1>7, <2>1, <2>2, GotoAt, CloseAt, SelectByArkIdReg
<1>8. CASE SelectByName(w)
  <2>1. /\ [o EXCEPT !.at = "insertTribe"].at = "insertTribe"
        /\ \A r, change : [o EXCEPT !.at = "commit", !.tribe = r, !.change = change].at = "commit"
    BY <1>2 DEF Session
  <2>2. \/ Goto(w, [o EXCEPT !.at = "insertTribe"])
        \/ \E r, change : Goto(w, [o EXCEPT !.at = "commit", !.tribe = r, !.change = change])
    BY <1>1, <1>8 DEF SelectByName
  <2> QED
    BY <1>8, <2>1, <2>2, GotoAt, SelectByNameReg
<1>9. CASE InsertTribe(w)
  <2>1. /\ \A r : [RolledBack(o) EXCEPT !.at = "commit", !.tribe = r].at = "commit"
        /\ \A r : [o EXCEPT !.at = "commit", !.tribe = r, !.change = "insert"].at = "commit"
    BY <1>2, <1>3 DEF Session
  <2>2. \/ \E r : Goto(w, [RolledBack(o) EXCEPT !.at = "commit", !.tribe = r])
        \/ \E r : Goto(w, [o EXCEPT !.at = "commit", !.tribe = r, !.change = "insert"])
    BY <1>1, <1>9 DEF InsertTribe
  <2> QED
    BY <1>9, <2>1, <2>2, GotoAt, InsertTribeReg
<1> QED
  BY <1>4, <1>5, <1>6, <1>7, <1>8, <1>9

\* A session that goes on or is closed writes nothing.
LEMMA GoesOnStored ==
  ASSUME Inv, NEW w \in Workers, GoesTo(w), todo' \in {{}, todo},
         UNCHANGED <<queues, done, stored, budget>>
  PROVE  StoredInv'
<1>1. UNCHANGED <<codes, tribes, inbox, tried, rooms, redelivered, crashes>>
  BY DEF GoesTo, tables, queues, budget
<1>2. sess'["structure"].at = "turret" => sess'["structure"] = sess["structure"]
  BY IngestAssumption DEF GoesTo
<1> QED
  BY <1>1, <1>2, StoredFrame DEF Inv, StoredInv, StoredOK

LEMMA ResolveInv == ASSUME Inv, NEW w \in Workers, Resolve(w) PROVE Inv'
<1>1. RegInv' /\ GoesTo(w)
  BY ResolveAt DEF Inv, Resolve
<1>2. todo' \in {{}, todo} /\ UNCHANGED <<queues, done, stored, budget>>
  BY DEF Resolve
<1> QED
  BY <1>1, <1>2, GoesOnStored DEF Inv

LEMMA RaisesInv == ASSUME Inv, NEW w \in Workers, Raises(w) PROVE Inv'
<1>1. CloseSession(w) /\ todo' \in {{}, todo} /\ UNCHANGED <<queues, done, stored, budget>>
  BY DEF Raises
<1>2. RegInv' /\ GoesTo(w)
  BY <1>1, CloseReg, CloseAt DEF Inv, CloseSession, Goto
<1> QED
  BY <1>1, <1>2, GoesOnStored DEF Inv

LEMMA ProcessEndsInv == ASSUME Inv, ProcessEnds PROVE Inv'
<1> USE DEF Inv
<1>1. /\ crashes < MaxCrashes /\ crashes' = crashes + 1 /\ todo' = {}
      /\ sess' = [w \in Workers |-> Closed]
      /\ UNCHANGED <<servers, codes, tribes, raced, inbox, tried, done, stored, rooms, redelivered>>
  BY DEF ProcessEnds, tables, queues
<1>2. sess' \in [Workers -> Session] /\ \A w \in Workers : sess'[w] = Closed
  BY <1>1, ClosedFacts
<1>3. \A w \in Workers : SessOK(w, sess[w])'
  BY <1>2, ClosedAgain
<1>4. InsertsApart'
  BY <1>2, ClosedFacts DEF InsertsApart
<1>5. TablesOK' /\ OneRowPerTribe'
  BY <1>1 DEF RegInv, TablesOK, OneRowPerTribe
<1>6. RegInv'
  BY <1>2, <1>3, <1>4, <1>5 DEF RegInv
<1>7. crashes' \in 0..MaxCrashes
  BY <1>1, IngestAssumption DEF StoredInv, StoredOK
<1>8. sess'["structure"].at # "turret"
  BY <1>2, ClosedFacts, IngestAssumption
<1>9. StoredInv'
  BY <1>1, <1>7, <1>8, StoredFrame DEF StoredInv, StoredOK
<1> QED
  BY <1>6, <1>9

----------------------------------------------------------------------------
(* Every behaviour. *)

LEMMA InitInv == ASSUME Init PROVE Inv
<1>1. /\ servers = {} /\ codes = {} /\ raced = {} /\ tribes = [r \in TribeRows |-> None]
      /\ sess = [w \in Workers |-> Closed]
      /\ tried = {} /\ done = {} /\ structures = [h \in Hashes |-> None] /\ dinos = <<>>
      /\ players = [p \in Platforms |-> FALSE] /\ cells = [r \in TribeRows |-> EmptyCell]
      /\ todo = {} /\ redelivered = 0 /\ crashes = 0
      /\ inbox \subseteq Messages /\ rooms \subseteq Seq(Creature)
  BY IngestAssumption DEF Init, RegistryInit
<1>2. \A w \in Workers : sess[w] = Closed
  BY <1>1
<1>3. sess \in [Workers -> Session] /\ \A w \in Workers : SessOK(w, sess[w])
  BY <1>1, <1>2, ClosedFacts
<1>4. InsertsApart /\ OneRowPerTribe /\ TablesOK
  BY <1>1, <1>2, ClosedFacts DEF InsertsApart, OneRowPerTribe, TablesOK
<1>5. dinos \in Seq(Dino) /\ Len(dinos) <= MaxDinos /\ DOMAIN dinos = {}
  BY <1>1, IngestAssumption
<1>6. StoredOK
  BY <1>1, <1>5, IngestAssumption DEF StoredOK, EmptyCell
<1>7. RefersOK
  BY <1>1, <1>5 DEF RefersOK, EmptyCell
<1>8. ~At("structure", "turret")
  BY <1>2, ClosedFacts, IngestAssumption DEF At
<1> QED
  BY <1>1, <1>3, <1>4, <1>6, <1>7, <1>8 DEF Inv, RegInv, StoredInv

LEMMA StepInv == ASSUME Inv, NEW w \in Workers, Step(w) PROVE Inv'
BY ResolveInv, RaisesInv, UpsertStructureInv, UpsertTurretInv, DeleteStructureInv, UpsertDinoInv,
   UpsertPlayerInv, NextCellInv, UpsertCellInv DEF Step

LEMMA NextInv == Inv /\ [Next]_vars => Inv'
<1>1. ASSUME Inv, Next PROVE Inv'
  BY <1>1, TakeMessageInv, RedeliverInv, StepInv, SampleRoomInv, ProcessEndsInv DEF Next
<1>2. ASSUME Inv, UNCHANGED vars PROVE Inv'
  <2>1. UNCHANGED <<servers, codes, tribes, sess, raced, inbox, tried, done, stored, rooms, todo,
                    redelivered, crashes>>
    BY <1>2 DEF vars, registryVars, tables, queues, budget
  <2>2. RegInv'
    BY <1>2, <2>1 DEF Inv, RegInv, TablesOK, SessOK, JobOK, HoldsOK, KnowsOK, VainOK,
                      ByName, ById, RowsOf, InsertsApart, SameTribeKey, Job, OneRowPerTribe
  <2>3. StoredInv'
    BY <1>2, <2>1, StoredFrame DEF Inv, StoredInv, StoredOK
  <2> QED
    BY <2>2, <2>3 DEF Inv
<1> QED
  BY <1>1, <1>2

LEMMA Invariance == Spec => []Inv
BY InitInv, NextInv, PTL DEF Spec

\* Every table, session and counter of the handlers keeps its type: whatever the
\* three streams carry, no session is at a stage, or holds a row, of no meaning.
THEOREM IngestTypeCorrect == Spec => []IngestTypeOK
<1>1. ASSUME Inv PROVE IngestTypeOK
  <2>1. RegistryTypeOK
    BY <1>1 DEF Inv, RegInv, TablesOK, Tribe, RegistryTypeOK, Session, Stages, Changes
  <2>2. \A c \in todo : c.name \in Names /\ c.team \in Teams \cup {0} /\ c.n \in Nat \ {0}
    BY <1>1 DEF Inv, StoredInv, StoredOK, Cell
  <2>3. \A r \in TribeRows : cells[r].last \in Nat /\ cells[r].max \in Nat
    BY <1>1 DEF Inv, StoredInv, StoredOK
  <2> QED
    BY <1>1, <2>1, <2>2, <2>3 DEF Inv, StoredInv, StoredOK, IngestTypeOK
<1> QED
  BY <1>1, Invariance, PTL

\* get_or_create_tribe leaves one row for a tribe's id and one for its name,
\* for any number of sessions that insert, rename and backfill at once; an id
\* with two rows is one that two sessions had looked for in vain together
\* (server_repo.py:85-135).
THEOREM OneRowOfATribe == Spec => []OneRowPerTribe
<1>1. Inv => OneRowPerTribe
  BY DEF Inv, RegInv
<1> QED
  BY <1>1, Invariance, PTL

\* What the consumers have acknowledged is in Postgres with every row it refers
\* to, through conflicts, rollbacks inside get-or-create, redelivery and the
\* end of the process at any step.
THEOREM AckedIsKept == Spec => []AckedIsStored
<1>1. ASSUME Inv PROVE AckedIsStored
  <2>1. \A m \in done : Dropped(m) \/ Kept(m)
    BY <1>1 DEF Inv, StoredInv
  <2>2. RefersOK
    BY <1>1 DEF Inv, StoredInv
  <2> QED
    BY <2>1, <2>2 DEF AckedIsStored, Kept, RefersOK, Present
<1> QED
  BY <1>1, Invariance, PTL
=============================================================================
