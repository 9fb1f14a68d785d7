------------------------ MODULE StreamConsumer_proofs ------------------------
(***************************************************************************)
(* Safety of StreamConsumer for any stream length, batch size, set of      *)
(* poisonous entries and number of failures: the inductive invariant       *)
(* IInv, what follows from it, and that every step of the consumer is a    *)
(* step of AtLeastOnce or changes nothing AtLeastOnce sees.                *)
(***************************************************************************)
EXTENDS StreamConsumer, TLAPS

IInv ==
    /\ TypeOK
    /\ NothingForgotten
    /\ AckedWasApplied
    /\ GroupInv

----------------------------------------------------------------------------

\* Deliver moves the cursor to the last entry it hands out, and hands out every
\* entry it moves past that is still in the stream.
LEMMA DeliverFacts ==
  ASSUME TypeOK, Deliver
  PROVE  /\ delivered' \in delivered..produced
         /\ pel' = pel \cup Undelivered
         /\ \A i \in Undelivered : i \in Entries /\ delivered < i /\ i <= delivered' /\ trimmed < i
         /\ \A i \in Entries : trimmed < i /\ delivered < i /\ i <= delivered' => i \in Undelivered
<1> USE StreamAssumption
<1> DEFINE lo == IF delivered < trimmed THEN trimmed ELSE delivered
           hi == IF produced < lo + BatchSize THEN produced ELSE lo + BatchSize
<1>1. /\ lo \in Nat /\ hi \in Nat /\ produced \in Nat /\ delivered \in Nat /\ trimmed \in Nat
      /\ delivered <= lo /\ trimmed <= lo /\ delivered <= produced
  BY DEF TypeOK
<1>2. \A i : i \in Undelivered <=> i \in Nat /\ lo < i /\ i <= hi
  BY <1>1 DEF Undelivered, Entries
<1>3. CASE Undelivered = {}
  <2>1. delivered' = delivered /\ pel' = pel \cup Undelivered
    BY <1>3 DEF Deliver
  <2>2. QED
    BY <1>1, <1>3, <2>1 DEF Entries
<1>4. CASE Undelivered # {}
  <2>1. hi \in Undelivered /\ \A j \in Undelivered : j <= hi
    BY <1>1, <1>2, <1>4
  <2>2. /\ delivered' \in Undelivered /\ \A j \in Undelivered : j <= delivered'
        /\ pel' = pel \cup Undelivered
    BY <1>4, <2>1 DEF Deliver
  <2>3. delivered' = hi
    BY <1>1, <1>2, <2>1, <2>2
  <2>4. hi <= produced
    BY <1>1
  <2>5. QED
    BY <1>1, <1>2, <2>2, <2>3, <2>4 DEF Entries
<1>5. QED
  BY <1>3, <1>4

\* What Scanned picks is pending, and a claim only takes trimmed entries away.
LEMMA ClaimFacts ==
  ASSUME TypeOK, ClaimScanned
  PROVE  /\ Scanned \subseteq pel
         /\ pel' \subseteq pel /\ stale' \subseteq pel'
         /\ \A i \in pel : trimmed < i => i \in pel'
<1>1. Scanned \subseteq stale
  BY DEF Scanned
<1>2. stale \subseteq pel /\ pel \subseteq Nat /\ trimmed \in Nat
  BY DEF TypeOK, Entries
<1>3. stale' = stale \ Scanned /\ pel' = pel \ {i \in Scanned : i <= trimmed}
  BY DEF ClaimScanned
<1> HIDE DEF Scanned
<1>4. QED
  BY <1>1, <1>2, <1>3

LEMMA InitEstablishes == Init => IInv
<1> SUFFICES ASSUME Init PROVE IInv
  OBVIOUS
<1> USE StreamAssumption DEF Init
<1>1. TypeOK
  <2>1. /\ produced \in 0..MaxEntries /\ trimmed \in 0..produced
        /\ since \in 0..produced /\ delivered \in 0..produced
        /\ errors \in 0..MaxErrors /\ crashes \in 0..MaxCrashes /\ resets \in 0..MaxResets
    OBVIOUS
  <2>2. pel = {} /\ stale = {} /\ batch = {} /\ applied = {} /\ acked = {}
    OBVIOUS
  <2>3. group \in BOOLEAN /\ task \in Tasks /\ next \in {"claim", "read"}
    BY DEF Tasks
  <2> HIDE DEF Init
  <2>4. QED
    BY <2>1, <2>2, <2>3 DEF TypeOK
<1>2. NothingForgotten /\ AckedWasApplied
  BY DEF NothingForgotten, AckedWasApplied
<1>3. GroupInv
  <2>1. task # "ack" /\ ~group
    OBVIOUS
  <2>2. acked \cup batch \cup pel = {} /\ trimmed <= since
    OBVIOUS
  <2> HIDE DEF Init
  <2>3. QED
    BY <2>1, <2>2 DEF GroupInv
<1>4. QED
  BY <1>1, <1>2, <1>3 DEF IInv

----------------------------------------------------------------------------

LEMMA TypeStep ==
  ASSUME TypeOK, [Next]_vars
  PROVE  TypeOK'
<1> USE StreamAssumption DEF TypeOK, Entries, Tasks
<1>1. CASE Publish
  <2>1. produced' \in 0..MaxEntries /\ produced' = produced + 1 /\ trimmed' \in 0..produced'
    BY <1>1 DEF Publish
  <2>2. QED
    BY <1>1, <2>1 DEF Publish, counters
<1>2. ASSUME NEW i \in pel, GrowStale(i) PROVE TypeOK'
  BY <1>2 DEF GrowStale, counters
<1>3. CASE Reset
  <2>1. resets' \in 0..MaxResets /\ errors' = errors /\ crashes' = crashes
    BY <1>3 DEF Reset
  <2>2. trimmed' \in 0..produced' /\ since' \in 0..produced'
    BY <1>3 DEF Reset
  <2>3. pel' = {} /\ stale' = {} /\ group' = FALSE
    BY <1>3 DEF Reset
  <2>4. QED
    BY <1>3, <2>1, <2>2, <2>3 DEF Reset
<1>4. CASE Restart
  BY <1>4 DEF Restart, redis, counters
<1>5. CASE Crash
  BY <1>5 DEF Crash, redis
<1>6. CASE EnsureGroup
  BY <1>6 DEF EnsureGroup, counters
<1>7. CASE EnsureGroupFails
  BY <1>7 DEF EnsureGroupFails, Error, redis
<1>8. CASE Claim
  <2>1. Scanned \subseteq pel /\ pel' \subseteq pel /\ stale' \subseteq pel'
    BY <1>8, ClaimFacts DEF Claim
  <2>2. QED
    BY <1>8, <2>1 DEF Claim, Handle, counters
<1>9. CASE ClaimFails
  <2>1. pel' \subseteq pel /\ stale' \subseteq pel'
    BY <1>9, ClaimFacts DEF ClaimFails
  <2>2. errors' \in 0..MaxErrors /\ crashes' = crashes /\ resets' = resets
    BY <1>9 DEF ClaimFails, Error, counters
  <2>3. QED
    BY <1>9, <2>1, <2>2 DEF ClaimFails
<1>10. CASE Backoff
  BY <1>10 DEF Backoff, redis, counters
<1>11. CASE Read
  <2>1. delivered' \in 0..produced /\ pel' = pel \cup Undelivered /\ Undelivered \subseteq Entries
    BY <1>11, DeliverFacts DEF Read
  <2>2. QED
    BY <1>11, <2>1 DEF Read, Handle, counters
<1>12. CASE ReadFails
  <2>1. delivered' \in 0..produced /\ pel \subseteq pel' /\ pel' \subseteq Entries
    <3>1. CASE Deliver
      <4>1. /\ delivered' \in delivered..produced /\ pel' = pel \cup Undelivered
            /\ Undelivered \subseteq Entries
        BY <3>1, DeliverFacts
      <4>2. QED
        BY <4>1
    <3>2. CASE UNCHANGED <<delivered, pel>>
      BY <3>2
    <3>3. QED
      BY <1>12, <3>1, <3>2 DEF ReadFails
  <2>2. errors' \in 0..MaxErrors /\ crashes' = crashes /\ resets' = resets
    BY <1>12 DEF ReadFails, Error, counters
  <2>3. QED
    BY <1>12, <2>1, <2>2 DEF ReadFails
<1>13. ASSUME NEW i \in batch, HandlerSucceeds(i) PROVE TypeOK'
  BY <1>13 DEF HandlerSucceeds, redis, counters
<1>14. ASSUME NEW i \in batch, HandlerRaises(i) PROVE TypeOK'
  BY <1>14 DEF HandlerRaises, Drop, Error, redis, counters
<1>15. ASSUME NEW i \in batch, Ack(i) PROVE TypeOK'
  BY <1>15 DEF Ack, Drop, counters
<1>16. ASSUME NEW i \in batch, AckFails(i) PROVE TypeOK'
  <2>1. pel' \subseteq pel /\ stale' \subseteq pel' /\ acked' \subseteq Entries
    BY <1>16 DEF AckFails
  <2>2. QED
    BY <1>16, <2>1 DEF AckFails, Error
<1>17. CASE UNCHANGED vars
  BY <1>17 DEF vars, redis, counters
<1>18. QED
  BY <1>1, <1>2, <1>3, <1>4, <1>5, <1>6, <1>7, <1>8, <1>9, <1>10, <1>11, <1>12, <1>13,
     <1>14, <1>15, <1>16, <1>17 DEF Next

\* Whoever takes an entry from the pending list acknowledges it or finds it trimmed,
\* and the cursor passes nothing that it does not add to the list.
LEMMA ForgetStep ==
  ASSUME TypeOK, NothingForgotten, [Next]_vars
  PROVE  NothingForgotten'
<1> USE StreamAssumption DEF NothingForgotten, Entries
<1>0. produced \in Nat /\ trimmed \in Nat /\ since \in Nat /\ delivered \in 0..produced
  BY DEF TypeOK
<1>1. CASE Publish
  BY <1>0, <1>1 DEF Publish
<1>2. CASE Reset
  BY <1>2 DEF Reset
<1>3. CASE EnsureGroup
  <2>1. CASE group
    BY <1>3, <2>1 DEF EnsureGroup
  <2>2. CASE ~group
    BY <1>0, <1>3, <2>2 DEF EnsureGroup
  <2>3. QED
    BY <2>1, <2>2
<1>4. ASSUME ClaimScanned, UNCHANGED <<produced, trimmed, group, since, delivered, acked>>
      PROVE  NothingForgotten'
  BY <1>0, <1>4, ClaimFacts
<1>5. ASSUME Deliver, UNCHANGED <<produced, trimmed, group, since, acked>>
      PROVE  NothingForgotten'
  BY <1>0, <1>5, DeliverFacts
<1>6. ASSUME UNCHANGED <<produced, trimmed, group, since, delivered, pel, acked>>
      PROVE  NothingForgotten'
  BY <1>6
<1>7. ASSUME NEW i, UNCHANGED <<produced, trimmed, group, since, delivered>>,
             pel' = pel \ {i}, acked' = acked \cup {i}
      PROVE  NothingForgotten'
  BY <1>7
<1>8. CASE Claim
  BY <1>4, <1>8 DEF Claim
<1>9. CASE ClaimFails
  BY <1>4, <1>6, <1>9 DEF ClaimFails
<1>10. CASE Read
  BY <1>5, <1>10 DEF Read
<1>11. CASE ReadFails
  BY <1>5, <1>6, <1>11 DEF ReadFails
<1>12. ASSUME NEW i \in batch, Ack(i) \/ AckFails(i) PROVE NothingForgotten'
  BY <1>6, <1>7, <1>12 DEF Ack, AckFails
<1>13. ASSUME NEW i, GrowStale(i) \/ HandlerSucceeds(i) \/ HandlerRaises(i)
       PROVE  NothingForgotten'
  BY <1>6, <1>13 DEF GrowStale, HandlerSucceeds, HandlerRaises, redis
<1>14. CASE Restart \/ Crash \/ EnsureGroupFails \/ Backoff \/ UNCHANGED vars
  BY <1>6, <1>14 DEF Restart, Crash, EnsureGroupFails, Backoff, redis, vars
<1>15. QED
  BY <1>1, <1>2, <1>3, <1>8, <1>9, <1>10, <1>11, <1>12, <1>13, <1>14 DEF Next

\* Only Ack and AckFails acknowledge, and only the first entry of the batch, whose
\* handler has succeeded by then.
LEMMA AppliedStep ==
  ASSUME TypeOK, AckedWasApplied, GroupInv, [Next]_vars
  PROVE  AckedWasApplied'
<1> USE DEF AckedWasApplied
<1>1. ASSUME NEW i \in batch, Ack(i) \/ AckFails(i) PROVE AckedWasApplied'
  <2>1. i \in applied /\ applied' = applied /\ acked' \subseteq acked \cup {i}
    BY <1>1 DEF Ack, AckFails, GroupInv
  <2>2. QED
    BY <2>1
<1>2. ASSUME NEW i, HandlerSucceeds(i) \/ HandlerRaises(i) \/ GrowStale(i) PROVE AckedWasApplied'
  BY <1>2 DEF HandlerSucceeds, HandlerRaises, GrowStale
<1>3. CASE Publish \/ Reset \/ Restart \/ Crash \/ EnsureGroup \/ EnsureGroupFails
  BY <1>3 DEF Publish, Reset, Restart, Crash, EnsureGroup, EnsureGroupFails
<1>4. CASE Claim \/ ClaimFails \/ Backoff \/ Read \/ ReadFails \/ UNCHANGED vars
  BY <1>4 DEF Claim, ClaimFails, Backoff, Read, ReadFails, vars
<1>5. QED
  BY <1>1, <1>2, <1>3, <1>4 DEF Next

\* The conjuncts of GroupInv: Deliver keeps the pending list between the fresh start
\* and the cursor, what Ack removes leaves batch and list together, and the task
\* comes to "ack" only by HandlerSucceeds.
LEMMA GroupStep ==
  ASSUME TypeOK, GroupInv, [Next]_vars
  PROVE  GroupInv'
<1> USE StreamAssumption DEF GroupInv
<1>0. /\ produced \in Nat /\ trimmed \in 0..produced /\ since \in 0..produced
      /\ delivered \in 0..produced
  BY DEF TypeOK
<1>1. CASE Publish
  <2>1. produced' = produced + 1 /\ trimmed' \in trimmed..produced'
        /\ (trimmed' = trimmed \/ trimmed' <= produced' - MaxLen)
    BY <1>1 DEF Publish
  <2>2. trimmed' <= since' \/ trimmed' <= produced' - MaxLen
    BY <1>0, <1>1, <2>1 DEF Publish
  <2>3. QED
    BY <1>1, <2>2 DEF Publish, IsFirst
<1>2. CASE Reset
  <2>1. trimmed' = produced /\ since' = produced
    BY <1>2 DEF Reset
  <2>2. QED
    BY <1>0, <1>2, <2>1 DEF Reset, IsFirst
<1>3. CASE EnsureGroup
  <2>1. CASE group
    BY <1>3, <2>1 DEF EnsureGroup
  <2>2. CASE ~group
    <3>1. pel' = {} /\ batch' = batch /\ acked' = acked /\ task' = "claim"
      BY <1>3, <2>2 DEF EnsureGroup
    <3>2. since' = produced /\ delivered' = produced /\ trimmed' = trimmed
      BY <1>3, <2>2 DEF EnsureGroup
    <3>3. acked' \cup batch' \cup pel' \subseteq 1..delivered'
      BY <1>0, <3>1, <3>2
    <3>4. since' <= delivered' /\ trimmed' <= since'
      BY <1>0, <3>2
    <3>5. QED
      BY <3>1, <3>3, <3>4
  <2>3. QED
    BY <2>1, <2>2
<1>4. ASSUME UNCHANGED <<produced, trimmed, group, since, delivered>>,
             pel' \subseteq pel, batch' \subseteq batch \cup pel,
             acked' = acked, task' # "ack"
      PROVE  GroupInv'
  BY <1>4
<1>5. ASSUME Deliver, group, UNCHANGED <<produced, trimmed, group, since, acked>>,
             batch' \subseteq batch \cup Undelivered, task' # "ack"
      PROVE  GroupInv'
  <2>1. /\ delivered' \in delivered..produced /\ pel' = pel \cup Undelivered
        /\ \A i \in Undelivered : i \in Nat \ {0} /\ delivered < i /\ i <= delivered'
    BY <1>0, <1>5, DeliverFacts DEF Entries
  <2>2. acked' \cup batch' \cup pel' \subseteq 1..delivered'
    BY <1>0, <1>5, <2>1
  <2>3. acked' \cap (batch' \cup pel') = {}
    <3>1. acked \cap Undelivered = {}
      BY <1>0, <2>1
    <3>2. QED
      BY <1>5, <2>1, <3>1
  <2>4. since' <= delivered' /\ \A i \in pel' : since' < i
    BY <1>0, <1>5, <2>1
  <2>5. QED
    BY <1>5, <2>2, <2>3, <2>4
<1>6. CASE Claim
  <2>1. Scanned \subseteq pel /\ pel' \subseteq pel
    BY <1>6, ClaimFacts DEF Claim
  <2>2. batch' \subseteq Scanned /\ task' # "ack"
    BY <1>6 DEF Claim, Handle
  <2>3. QED
    BY <1>4, <1>6, <2>1, <2>2 DEF Claim
<1>7. CASE ClaimFails
  <2>1. pel' \subseteq pel
    BY <1>7, ClaimFacts DEF ClaimFails
  <2>2. QED
    BY <1>4, <1>7, <2>1 DEF ClaimFails
<1>8. CASE Read
  <2>1. batch' = Undelivered /\ task' # "ack"
    BY <1>8 DEF Read, Handle
  <2>2. QED
    BY <1>5, <1>8, <2>1 DEF Read
<1>9. CASE ReadFails
  <2>1. CASE UNCHANGED <<delivered, pel>>
    BY <1>4, <1>9, <2>1 DEF ReadFails
  <2>2. CASE group /\ Deliver
    BY <1>5, <1>9, <2>2 DEF ReadFails
  <2>3. QED
    BY <1>9, <2>1, <2>2 DEF ReadFails
<1>10. ASSUME NEW i \in batch, HandlerSucceeds(i) PROVE GroupInv'
  <2>1. \A j \in batch : IsFirst(j) => j = i
    <3>1. batch \subseteq Nat
      BY <1>0
    <3>2. QED
      BY <1>10, <3>1 DEF HandlerSucceeds, IsFirst
  <2>2. batch' = batch /\ applied' = applied \cup {i}
    BY <1>10 DEF HandlerSucceeds
  <2>3. task' = "ack" => \A j \in batch' : IsFirst(j)' => j \in applied'
    BY <2>1, <2>2 DEF IsFirst
  <2>4. QED
    BY <1>10, <2>3 DEF HandlerSucceeds, redis
<1>11. ASSUME NEW i \in batch, HandlerRaises(i) PROVE GroupInv'
  <2>1. batch' \subseteq batch /\ task' # "ack"
    BY <1>11 DEF HandlerRaises, Drop, TypeOK
  <2>2. QED
    BY <1>4, <1>11, <2>1 DEF HandlerRaises, redis
<1>12. ASSUME NEW i \in batch, Ack(i) \/ AckFails(i) PROVE GroupInv'
  <2>1. batch' \subseteq batch \ {i} /\ task' # "ack"
    BY <1>12 DEF Ack, AckFails, Drop, TypeOK
  <2>2. CASE pel' = pel \ {i} /\ acked' = acked \cup {i}
    BY <1>12, <2>1, <2>2 DEF Ack, AckFails
  <2>3. CASE UNCHANGED <<pel, acked>>
    BY <1>4, <1>12, <2>1, <2>3 DEF Ack, AckFails
  <2>4. QED
    BY <1>12, <2>2, <2>3 DEF Ack, AckFails
<1>13. CASE Restart \/ Crash \/ EnsureGroupFails \/ Backoff
  BY <1>4, <1>13 DEF Restart, Crash, EnsureGroupFails, Backoff, redis
<1>14. ASSUME NEW i, GrowStale(i) PROVE GroupInv'
  BY <1>14 DEF GrowStale, IsFirst
<1>15. CASE UNCHANGED vars
  BY <1>15 DEF vars, redis, IsFirst
<1>16. QED
  BY <1>1, <1>2, <1>3, <1>6, <1>7, <1>8, <1>9, <1>10, <1>11, <1>12, <1>13, <1>14, <1>15
     DEF Next

LEMMA StepPreserves ==
  ASSUME IInv, [Next]_vars
  PROVE  IInv'
BY TypeStep, ForgetStep, AppliedStep, GroupStep DEF IInv

LEMMA Inductive == Spec => []IInv
BY InitEstablishes, StepPreserves, PTL DEF Spec

----------------------------------------------------------------------------

\* Whatever is lost after a step was acknowledged by nobody and is older than the
\* fresh start or than MaxLen entries, so that AtLeastOnce may give it up. A step
\* that takes nothing lost back, neither by acknowledging it nor by handing it to
\* the task, is therefore a GiveUp.
LEMMA GiveUpStep ==
  ASSUME TypeOK', GroupInv', Lost \subseteq Lost'
  PROVE  Promise!GiveUp
<1>1. \A i \in Lost' : i \in Entries' \ acked' /\ (i <= trimmed' \/ i <= since')
  BY DEF Lost
<1>2. /\ produced' \in Nat /\ trimmed' \in 0..produced' /\ since' \in 0..produced'
      /\ trimmed' <= since' \/ trimmed' <= produced' - MaxLen
  BY DEF TypeOK, GroupInv
<1>3. \A i \in Entries' : i <= trimmed' => i <= since' \/ i <= produced' - MaxLen
  <2>1. /\ trimmed' \in Int /\ since' \in Int /\ produced' - MaxLen \in Int
        /\ Entries' \subseteq Int
    BY <1>2, StreamAssumption DEF Entries
  <2>2. QED
    BY <1>2, <2>1
<1>4. Lost' \in SUBSET Promise!Forfeit'
  BY <1>1, <1>3 DEF Promise!Forfeit, Promise!Entries, Entries
<1>5. Lost' = Lost \cup Lost'
  OBVIOUS
<1>6. QED
  BY <1>4, <1>5 DEF Promise!GiveUp

\* What was lost stays lost in a step that only adds to the stream, the cursors and
\* the batch, as long as the batch gains nothing that was lost.
LEMMA LostGrows ==
  ASSUME TypeOK, produced <= produced', trimmed <= trimmed', since <= since',
         TypeOK', (acked' \cup batch') \cap Lost = {}
  PROVE  Lost \subseteq Lost'
<1>1. \A i \in Lost : i \in Entries /\ (i <= trimmed \/ i <= since)
  BY DEF Lost
<1>2. /\ produced \in Nat /\ produced' \in Nat /\ trimmed \in Nat /\ trimmed' \in Nat
      /\ since \in Nat /\ since' \in Nat
  BY DEF TypeOK
<1>3. \A i \in Lost : i \in Entries' /\ (i <= trimmed' \/ i <= since')
  BY <1>1, <1>2 DEF Entries
<1>4. QED
  BY <1>3 DEF Lost

\* Every step of the stream and its consumer is one AtLeastOnce allows.
LEMMA StepRefines ==
  ASSUME IInv, [Next]_vars
  PROVE  [Promise!Next]_(Promise!vars)
<1> USE StreamAssumption
<1>1. IInv' /\ TypeOK /\ GroupInv /\ TypeOK' /\ GroupInv'
  BY StepPreserves DEF IInv
<1>2. acked \cap Lost = {} /\ batch \cap Lost = {} /\ Lost \subseteq Entries
  BY DEF Lost
<1>3. produced \in Nat /\ trimmed \in 0..produced /\ since \in 0..produced
  BY <1>1 DEF TypeOK
<1>4. ASSUME UNCHANGED <<produced, since, applied, acked>>, trimmed <= trimmed',
             batch' \cap Lost = {}
      PROVE  Promise!Next
  <2>1. Lost \subseteq Lost'
    BY <1>1, <1>2, <1>3, <1>4, LostGrows
  <2>2. Promise!GiveUp
    BY <1>1, <2>1, GiveUpStep
  <2>3. QED
    BY <1>4, <2>2 DEF Promise!Next, Promise!Abandon
<1>5. ASSUME UNCHANGED <<redis, batch, acked, applied>> PROVE UNCHANGED Promise!vars
  BY <1>5 DEF redis, Promise!vars, Lost, Entries
<1>6. CASE Publish
  <2>1. produced' = produced + 1 /\ trimmed <= trimmed'
    BY <1>3, <1>6 DEF Publish
  <2>2. Lost \subseteq Lost'
    BY <1>1, <1>2, <1>3, <1>6, <2>1, LostGrows DEF Publish
  <2>3. Promise!GiveUp
    BY <1>1, <2>2, GiveUpStep
  <2>4. Promise!Publish
    BY <1>6, <2>1, <2>3 DEF Publish, Promise!Publish
  <2>5. QED
    BY <2>4 DEF Promise!Next
<1>7. ASSUME since' = produced, trimmed <= trimmed',
             UNCHANGED <<produced, applied, acked, batch>>
      PROVE  Promise!Next
  <2>1. Lost \subseteq Lost'
    BY <1>1, <1>2, <1>3, <1>7, LostGrows
  <2>2. Promise!GiveUp
    BY <1>1, <2>1, GiveUpStep
  <2>3. QED
    BY <1>7, <2>2 DEF Promise!Next, Promise!StartAfresh
<1>8. CASE Reset
  BY <1>3, <1>7, <1>8 DEF Reset
<1>9. CASE EnsureGroup
  <2>1. CASE group
    BY <1>3, <1>4, <1>2, <1>9, <2>1 DEF EnsureGroup
  <2>2. CASE ~group
    BY <1>3, <1>7, <1>9, <2>2 DEF EnsureGroup
  <2>3. QED
    BY <2>1, <2>2
<1>10. CASE Claim
  <2>1. \A i \in batch' : i \in pel /\ trimmed < i
    BY <1>1, <1>10, ClaimFacts DEF Claim, Handle
  <2>2. batch' \cap Lost = {}
    <3>1. \A i \in batch' : ~(i <= trimmed) /\ ~(i <= since)
      BY <1>1, <1>3, <2>1 DEF GroupInv, TypeOK, Entries
    <3>2. QED
      BY <3>1 DEF Lost
  <2>3. QED
    BY <1>3, <1>4, <1>10, <2>2 DEF Claim
<1>11. CASE Read
  <2>1. \A i \in batch' : i \in Entries /\ delivered < i /\ trimmed < i
    BY <1>1, <1>11, DeliverFacts DEF Read, Handle
  <2>2. batch' \cap Lost = {}
    <3>1. \A i \in batch' : ~(i <= trimmed) /\ ~(i <= since)
      BY <1>1, <1>3, <1>11, <2>1 DEF Read, GroupInv, TypeOK, Entries
    <3>2. QED
      BY <3>1 DEF Lost
  <2>3. QED
    BY <1>3, <1>4, <1>11, <2>2 DEF Read
<1>12. CASE ClaimFails \/ ReadFails
  BY <1>2, <1>3, <1>4, <1>12 DEF ClaimFails, ReadFails
<1>13. CASE Restart \/ Crash \/ EnsureGroupFails \/ Backoff
  BY <1>2, <1>3, <1>4, <1>13 DEF Restart, Crash, EnsureGroupFails, Backoff, redis
<1>14. ASSUME NEW i, GrowStale(i) PROVE Promise!Next
  BY <1>2, <1>3, <1>4, <1>14 DEF GrowStale
<1>15. ASSUME NEW i \in batch, HandlerSucceeds(i) PROVE Promise!Next
  <2>1. UNCHANGED Lost /\ UNCHANGED <<produced, since, acked>>
    BY <1>15 DEF HandlerSucceeds, redis, Lost, Entries
  <2>2. i \in Entries \ Lost
    BY <1>1, <1>2 DEF TypeOK
  <2>3. Promise!Apply(i)
    BY <1>15, <2>1, <2>2 DEF HandlerSucceeds, Promise!Apply, Promise!Entries, Entries
  <2>4. QED
    BY <2>2, <2>3 DEF Promise!Next, Promise!Entries, Entries
<1>16. ASSUME NEW i \in batch, HandlerRaises(i) PROVE Promise!Next
  <2>1. batch' \subseteq batch
    BY <1>16 DEF HandlerRaises, Drop
  <2>2. QED
    BY <1>2, <1>3, <1>4, <1>16, <2>1 DEF HandlerRaises, redis
<1>17. ASSUME NEW i \in batch, Ack(i) \/ AckFails(i) PROVE Promise!Next
  <2>1. /\ UNCHANGED <<produced, trimmed, since, applied>>
        /\ batch' \subseteq batch
        /\ i \in applied
    BY <1>1, <1>17 DEF Ack, AckFails, Drop, GroupInv
  <2>2. CASE acked' = acked
    BY <1>2, <1>3, <1>4, <2>1, <2>2
  <2>3. CASE acked' = acked \cup {i}
    <3>1. i \notin acked /\ i \notin Lost /\ i \in Entries
      BY <1>1, <1>2 DEF GroupInv, TypeOK
    <3>2. (acked' \cup batch') \cap Lost = {}
      BY <1>2, <2>1, <2>3, <3>1
    <3>3. Lost \subseteq Lost'
      BY <1>1, <1>3, <2>1, <3>2, LostGrows
    <3>4. Promise!GiveUp
      BY <1>1, <3>3, GiveUpStep
    <3>5. Promise!Finish(i)
      BY <2>1, <2>3, <3>1, <3>4 DEF Promise!Finish
    <3>6. QED
      BY <3>1, <3>5 DEF Promise!Next, Promise!Entries, Entries
  <2>4. QED
    BY <1>17, <2>2, <2>3 DEF Ack, AckFails
<1>18. CASE UNCHANGED vars
  BY <1>5, <1>18 DEF vars
<1>19. QED
  BY <1>6, <1>8, <1>9, <1>10, <1>11, <1>12, <1>13, <1>14, <1>15, <1>16, <1>17, <1>18 DEF Next

----------------------------------------------------------------------------

\* Every variable keeps its type; in particular the cursor never passes the end of
\* the stream and what is in hand was published.
THEOREM StreamTypeCorrect == Spec => []TypeOK
<1>1. IInv => TypeOK
  BY DEF IInv
<1>2. QED
  BY <1>1, Inductive, PTL

\* Whatever was delivered and is still in the stream is acknowledged or pending,
\* whichever call failed and whenever the process ended.
THEOREM StreamForgetsNothing == Spec => []NothingForgotten
<1>1. IInv => NothingForgotten
  BY DEF IInv
<1>2. QED
  BY <1>1, Inductive, PTL

\* Only entries on which a handler call succeeded are acknowledged.
THEOREM StreamAcksApplied == Spec => []AckedWasApplied
<1>1. IInv => AckedWasApplied
  BY DEF IInv
<1>2. QED
  BY <1>1, Inductive, PTL

\* The stream and its consumer implement AtLeastOnce.
THEOREM StreamKeepsPromise == Spec => KeepsPromise
<1>1. Init => Promise!Init
  BY DEF Init, Promise!Init, Lost, Entries
<1>2. IInv /\ [Next]_vars => [Promise!Next]_(Promise!vars)
  BY StepRefines
<1>3. QED
  BY <1>1, <1>2, Inductive, PTL DEF Spec, KeepsPromise, Promise!Spec
=============================================================================
