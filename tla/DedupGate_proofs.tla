-------------------------- MODULE DedupGate_proofs --------------------------
(***************************************************************************)
(* Safety of the dedup gate for any number of connections, any bounds and  *)
(* any failing calls.                                                      *)
(*                                                                         *)
(* What a lookup compares with is a hash that some connection has          *)
(* recorded.  KnownInv ties it, and what every handler is about to record, *)
(* to what was published since the last keyframe.                          *)
(***************************************************************************)
EXTENDS DedupGate, TLAPS

\* A handler that looks up, publishes or records deals with a sighting.
SightingInv ==
    /\ entity \in Entities
    /\ \A c \in Clients : handler[c].at \in {"upsert", "lookup", "publish", "mark"} => handler[c].val \in Values

\* A hash younger than the keyframe was published, and so was what a handler is
\* about to record.
KnownInv ==
    /\ gate.hash # None /\ ~gate.old => \E known \in sent : known.cell = gate.hash
    /\ \A c \in Clients : handler[c].at = "mark" => handler[c].val \in sent

IInv == GateTypeOK /\ SightingInv /\ KnownInv

HandlerType == [at : {"idle", "upsert", "lookup", "publish", "mark", "vanished"}, val : Values \cup {None}]

\* Goto moves one handler, which keeps its value or gives it up.
LEMMA GotoFacts ==
  ASSUME GateTypeOK, NEW c \in Clients, NEW at \in {"idle", "lookup", "publish", "mark"}, Goto(c, at)
  PROVE  /\ handler' \in [Clients -> HandlerType]
         /\ handler'[c].at = at
         /\ at # "idle" => handler'[c].val = handler[c].val
         /\ \A d \in Clients : d # c => handler'[d] = handler[d]
<1>1. handler \in [Clients -> HandlerType]
  BY DEF GateTypeOK, HandlerType
<1>2. Free \in HandlerType /\ Free.at = "idle"
  BY DEF Free, HandlerType
<1>3. handler' = [handler EXCEPT ![c] = IF at = "idle" THEN Free ELSE [handler[c] EXCEPT !.at = at]]
  BY DEF Goto
<1> DEFINE moved == [handler[c] EXCEPT !.at = at]
<1>4. moved \in HandlerType /\ moved.at = at /\ moved.val = handler[c].val
  BY <1>1 DEF HandlerType
<1> HIDE DEF moved
<1>5. handler' = [handler EXCEPT ![c] = IF at = "idle" THEN Free ELSE moved]
  BY <1>3 DEF moved
<1>6. CASE at = "idle"
  <2>1. handler' = [handler EXCEPT ![c] = Free]
    BY <1>5, <1>6
  <2> QED
    BY <1>1, <1>2, <1>6, <2>1
<1>7. CASE at # "idle"
  <2>1. handler' = [handler EXCEPT ![c] = moved]
    BY <1>5, <1>7
  <2> QED
    BY <1>1, <1>4, <1>7, <2>1
<1> QED
  BY <1>6, <1>7

\* An entry that is put into the stream keeps it well typed and within bounds.
LEMMA EnqueueFacts ==
  ASSUME GateTypeOK, NEW val \in Values \cup {None}, NEW removed \in BOOLEAN, Enqueue(val, removed)
  PROVE  stream' \in Seq(Entries) /\ Len(stream') <= MaxStream
<1>1. [val |-> val, removed |-> removed] \in Entries
  BY DEF Entries
<1> DEFINE e == [val |-> val, removed |-> removed]
<1>2. stream \in Seq(Entries) /\ Len(stream) < MaxStream /\ stream' = Append(stream, e)
  BY DEF Enqueue, GateTypeOK
<1> HIDE DEF e
<1>3. Len(Append(stream, e)) = Len(stream) + 1 /\ Append(stream, e) \in Seq(Entries) /\ Len(stream) \in Nat
  BY <1>1, <1>2 DEF e
<1> QED
  BY <1>2, <1>3, GateAssumption

\* A call that fails is counted, within bounds.
LEMMA FailsFacts ==
  ASSUME GateTypeOK, Fails \/ UNCHANGED failures
  PROVE  failures' \in 0..MaxFailures
BY GateAssumption DEF GateTypeOK, Fails

\* What the backend makes of an entry is a row, or none.
LEMMA ApplyFacts ==
  ASSUME GateTypeOK, NEW entry \in Entries, Apply(entry)
  PROVE  row' \in Values \cup {None}
<1>1. entry.val \in Values \cup {None} /\ row \in Values \cup {None}
  BY DEF Entries, GateTypeOK
<1>2. CASE row' = entry.val
  BY <1>1, <1>2
<1>3. CASE entry.val # None /\ row # None /\ row' = [entry.val EXCEPT !.owner = row.owner]
  <2>1. entry.val \in Values /\ row.owner \in Owners \cup {NoTribe}
    BY <1>1, <1>3 DEF Values
  <2> QED
    BY <1>3, <2>1 DEF Values
<1> QED
  BY <1>2, <1>3 DEF Apply

LEMMA InitInv == ASSUME Init PROVE IInv
<1>1. GateTypeOK
  <2>1. entity \in Entities /\ entity.forms \subseteq Values /\ world \in entity.forms
    BY GateAssumption DEF Init
  <2>2. handler \in [Clients -> HandlerType]
    BY DEF Init, Free, HandlerType
  <2>3. gate \in [hash : Cells \cup {None}, old : BOOLEAN, ttl : BOOLEAN]
    BY DEF Init, NoHash
  <2>4. stream \in Seq(Entries) /\ Len(stream) <= MaxStream
    BY GateAssumption DEF Init
  <2>5. changes \in 0..MaxChanges /\ failures \in 0..MaxFailures
    BY GateAssumption DEF Init
  <2> QED
    BY <2>1, <2>2, <2>3, <2>4, <2>5 DEF Init, GateTypeOK, HandlerType
<1>2. SightingInv /\ KnownInv
  BY DEF Init, SightingInv, KnownInv, Free, NoHash
<1> QED
  BY <1>1, <1>2 DEF IInv

\* What the outside of the relay does leaves the gate and its handlers alone, but
\* for a handler that begins.
LEMMA OutsideStep ==
  ASSUME IInv,
         \/ WorldChanges \/ Deliver \/ Reclaim
         \/ \E c \in Clients : Report(c) \/ ReportVanished(c)
  PROVE  IInv'
<1> USE DEF IInv
<1>1. CASE WorldChanges
  <2>1. world' \in Values \cup {None}
    BY <1>1, GateAssumption DEF WorldChanges, SightingInv
  <2>2. changes' \in 0..MaxChanges
    BY <1>1, GateAssumption DEF WorldChanges, GateTypeOK
  <2>3. GateTypeOK'
    BY <1>1, <2>1, <2>2 DEF WorldChanges, GateTypeOK
  <2> QED
    BY <1>1, <2>3 DEF WorldChanges, SightingInv, KnownInv
<1>2. CASE Deliver
  <2>1. Head(stream) \in Entries /\ Tail(stream) \in Seq(Entries) /\ Len(Tail(stream)) <= MaxStream
    <3>1. stream \in Seq(Entries) /\ stream # <<>> /\ Len(stream) <= MaxStream
      BY <1>2 DEF Deliver, GateTypeOK
    <3>2. Len(Tail(stream)) = Len(stream) - 1 /\ Len(stream) \in Nat
      BY <3>1
    <3> QED
      BY <3>1, <3>2, GateAssumption
  <2>2. row' \in Values \cup {None}
    BY <1>2, <2>1, ApplyFacts DEF Deliver, GateTypeOK
  <2>3. row' \in Values \cup {None} /\ pending' \subseteq Entries
    BY <1>2, <2>1, <2>2 DEF Deliver, GateTypeOK
  <2>4. failures' \in 0..MaxFailures
    BY <1>2, FailsFacts DEF Deliver
  <2>5. lingers' \in BOOLEAN
    BY <1>2 DEF Deliver, GateTypeOK
  <2>6. stream' = Tail(stream) /\ UNCHANGED <<world, seen, handler, gate, entity, sent, changes>>
    BY <1>2 DEF Deliver
  <2>7. GateTypeOK'
    BY <2>1, <2>3, <2>4, <2>5, <2>6 DEF GateTypeOK
  <2> QED
    BY <2>6, <2>7 DEF SightingInv, KnownInv
<1>3. CASE Reclaim
  <2>1. PICK e \in pending : Apply(e) /\ pending' = pending \ {e} /\ lingers' = (lingers \/ ~e.removed)
    BY <1>3 DEF Reclaim
  <2>2. row' \in Values \cup {None}
    BY <2>1, ApplyFacts DEF GateTypeOK
  <2>3. GateTypeOK'
    BY <1>3, <2>1, <2>2 DEF Reclaim, GateTypeOK
  <2> QED
    BY <1>3, <2>3 DEF Reclaim, SightingInv, KnownInv
<1>4. ASSUME NEW c \in Clients, Report(c) PROVE IInv'
  <2>1. world \in Values
    BY <1>4 DEF Report, GateTypeOK
  <2> DEFINE begun == [at |-> "upsert", val |-> world]
  <2>2. begun \in HandlerType /\ begun.at = "upsert" /\ begun.val \in Values
    BY <2>1 DEF HandlerType
  <2>3. handler' = [handler EXCEPT ![c] = begun] /\ handler \in [Clients -> HandlerType]
    BY <1>4 DEF Report, GateTypeOK, HandlerType
  <2> HIDE DEF begun
  <2>4. /\ handler' \in [Clients -> HandlerType]
        /\ handler'[c] = begun
        /\ \A d \in Clients : d # c => handler'[d] = handler[d]
    BY <2>2, <2>3
  <2>5. GateTypeOK'
    BY <1>4, <2>4 DEF Report, GateTypeOK, HandlerType
  <2>6. SightingInv'
    BY <1>4, <2>2, <2>4 DEF Report, SightingInv
  <2>7. KnownInv'
    BY <1>4, <2>2, <2>4 DEF Report, KnownInv
  <2> QED
    BY <2>5, <2>6, <2>7
<1>5. ASSUME NEW c \in Clients, ReportVanished(c) PROVE IInv'
  <2> DEFINE begun == [at |-> "vanished", val |-> None]
  <2>1. begun \in HandlerType /\ begun.at = "vanished"
    BY DEF HandlerType
  <2>2. handler' = [handler EXCEPT ![c] = begun] /\ handler \in [Clients -> HandlerType]
    BY <1>5 DEF ReportVanished, GateTypeOK, HandlerType
  <2> HIDE DEF begun
  <2>3. /\ handler' \in [Clients -> HandlerType]
        /\ handler'[c] = begun
        /\ \A d \in Clients : d # c => handler'[d] = handler[d]
    BY <2>1, <2>2
  <2>4. GateTypeOK'
    BY <1>5, <2>3 DEF ReportVanished, GateTypeOK, HandlerType
  <2>5. SightingInv' /\ KnownInv'
    BY <1>5, <2>1, <2>3 DEF ReportVanished, SightingInv, KnownInv
  <2> QED
    BY <2>4, <2>5
<1> QED
  BY <1>1, <1>2, <1>3, <1>4, <1>5

\* The five steps of a handler.
LEMMA HandleStep ==
  ASSUME IInv, NEW c \in Clients, Handle(c)
  PROVE  IInv'
<1> USE DEF IInv
<1>1. CASE Upsert(c)
  <2>1. Goto(c, "lookup") /\ UNCHANGED <<world, seen, stream, pending, row, entity, sent, lingers, changes>>
    BY <1>1 DEF Upsert
  <2>2. handler[c].at = "upsert" /\ handler[c].val \in Values
    BY <1>1 DEF Upsert, SightingInv
  <2>3. gate' \in [hash : Cells \cup {None}, old : BOOLEAN, ttl : BOOLEAN]
        /\ gate'.hash = gate.hash /\ gate'.old = gate.old
    BY <1>1 DEF Upsert, GateTypeOK
  <2>4. failures' \in 0..MaxFailures
    BY <1>1, FailsFacts DEF Upsert
  <2>5. GateTypeOK'
    BY <2>1, <2>3, <2>4, GotoFacts DEF GateTypeOK, HandlerType
  <2>6. SightingInv' /\ KnownInv'
    BY <2>1, <2>2, <2>3, GotoFacts DEF SightingInv, KnownInv
  <2> QED
    BY <2>5, <2>6
<1>2. CASE LastHash(c)
  <2>1. PICK at \in {"idle", "publish"} : Goto(c, at)
    BY <1>2 DEF LastHash
  <2>2. /\ UNCHANGED <<world, seen, gate, stream, pending, row, entity, sent, lingers, changes>>
        /\ handler[c].at = "lookup" /\ handler[c].val \in Values
    BY <1>2 DEF LastHash, SightingInv
  <2>3. failures' \in 0..MaxFailures
    BY <1>2, FailsFacts DEF LastHash
  <2>4. GateTypeOK'
    BY <2>1, <2>2, <2>3, GotoFacts DEF GateTypeOK, HandlerType
  <2>5. SightingInv' /\ KnownInv'
    BY <2>1, <2>2, GotoFacts DEF SightingInv, KnownInv
  <2> QED
    BY <2>4, <2>5
<1>3. CASE Publish(c)
  <2>1. /\ UNCHANGED <<world, seen, gate, pending, row, entity, lingers, changes>>
        /\ handler[c].at = "publish" /\ handler[c].val \in Values
    BY <1>3 DEF Publish, SightingInv
  <2>2. handler[c].val \in Values
    BY <2>1
  <2>3. failures' \in 0..MaxFailures
    BY <1>3, FailsFacts DEF Publish
  <2>4. CASE Enqueue(handler[c].val, FALSE) /\ sent' = sent \cup {handler[c].val} /\ Goto(c, "mark")
    <3>1. stream' \in Seq(Entries) /\ Len(stream') <= MaxStream
      BY <2>1, <2>4, EnqueueFacts
    <3>2. GateTypeOK'
      BY <2>1, <2>2, <2>3, <2>4, <3>1, GotoFacts DEF GateTypeOK, HandlerType
    <3>3. SightingInv'
      BY <2>1, <2>4, GotoFacts DEF SightingInv
    <3>4. KnownInv'
      BY <2>1, <2>4, GotoFacts DEF KnownInv
    <3> QED
      BY <3>2, <3>3, <3>4
  <2>5. CASE Goto(c, "idle") /\ UNCHANGED <<stream, sent>>
    <3>1. GateTypeOK'
      BY <2>1, <2>3, <2>5, GotoFacts DEF GateTypeOK, HandlerType
    <3>2. SightingInv' /\ KnownInv'
      BY <2>1, <2>5, GotoFacts DEF SightingInv, KnownInv
    <3> QED
      BY <3>1, <3>2
  <2> QED
    BY <1>3, <2>4, <2>5 DEF Publish
<1>4. CASE SetLastHash(c)
  <2>1. /\ Goto(c, "idle")
        /\ UNCHANGED <<world, seen, stream, pending, row, entity, sent, lingers, changes>>
        /\ handler[c].at = "mark" /\ handler[c].val \in Values
    BY <1>4 DEF SetLastHash, SightingInv
  <2>2. handler[c].val.cell \in Cells /\ handler[c].val \in sent
    BY <2>1 DEF Values, KnownInv
  <2>3. gate' \in [hash : Cells \cup {None}, old : BOOLEAN, ttl : BOOLEAN]
        /\ (gate' = gate \/ gate'.hash = handler[c].val.cell)
    BY <1>4, <2>2 DEF SetLastHash, GateTypeOK
  <2>4. failures' \in 0..MaxFailures
    BY <1>4, FailsFacts DEF SetLastHash
  <2>5. GateTypeOK'
    BY <2>1, <2>3, <2>4, GotoFacts DEF GateTypeOK, HandlerType
  <2>6. SightingInv' /\ KnownInv'
    BY <2>1, <2>2, <2>3, GotoFacts DEF SightingInv, KnownInv
  <2> QED
    BY <2>5, <2>6
<1>5. CASE StreamVanished(c)
  <2>1. Goto(c, "idle") /\ UNCHANGED <<world, seen, gate, pending, row, entity, sent, changes>>
    BY <1>5 DEF StreamVanished
  <2>2. stream' \in Seq(Entries) /\ Len(stream') <= MaxStream
    BY <1>5, EnqueueFacts DEF StreamVanished, GateTypeOK
  <2>3. lingers' \in BOOLEAN
    BY <1>5 DEF StreamVanished, GateTypeOK
  <2>4. failures' \in 0..MaxFailures
    BY <1>5, FailsFacts DEF StreamVanished
  <2>5. GateTypeOK'
    BY <2>1, <2>2, <2>3, <2>4, GotoFacts DEF GateTypeOK, HandlerType
  <2>6. SightingInv' /\ KnownInv'
    BY <2>1, GotoFacts DEF SightingInv, KnownInv
  <2> QED
    BY <2>5, <2>6
<1> QED
  BY <1>1, <1>2, <1>3, <1>4, <1>5 DEF Handle

\* A keyframe and an expiry make the gate forget, never know more. No handler is
\* about to record when a keyframe passes.
LEMMA TimeStep ==
  ASSUME IInv, KeyframePasses \/ HashExpires
  PROVE  IInv'
<1> USE DEF IInv
<1>1. CASE KeyframePasses
  <2>1. gate' \in [hash : Cells \cup {None}, old : BOOLEAN, ttl : BOOLEAN] /\ gate'.old
    BY <1>1 DEF KeyframePasses, GateTypeOK
  <2> QED
    BY <1>1, <2>1 DEF KeyframePasses, GateTypeOK, SightingInv, KnownInv
<1>2. CASE HashExpires
  <2>1. NoHash \in [hash : Cells \cup {None}, old : BOOLEAN, ttl : BOOLEAN] /\ NoHash.hash = None
    BY DEF NoHash
  <2>2. /\ gate' = NoHash
        /\ sent' = {handler[c].val : c \in {d \in Clients : handler[d].at = "mark"}}
        /\ UNCHANGED <<world, seen, handler, stream, pending, row, entity, lingers, changes, failures>>
    BY <1>2 DEF HashExpires
  <2>3. sent' \subseteq Values
    BY <2>2 DEF SightingInv, Values
  <2>4. GateTypeOK'
    BY <2>1, <2>2, <2>3 DEF GateTypeOK
  <2> QED
    BY <2>1, <2>2, <2>4 DEF SightingInv, KnownInv
<1> QED
  BY <1>1, <1>2

LEMMA InvStep == ASSUME IInv, [Next]_vars PROVE IInv'
<1>1. CASE Next
  BY <1>1, OutsideStep, HandleStep, TimeStep DEF Next
<1>2. CASE UNCHANGED vars
  BY <1>2 DEF vars, IInv, GateTypeOK, SightingInv, KnownInv
<1> QED
  BY <1>1, <1>2

\* A handler leaves the lookup for good only if the gate's hash is that of its
\* sighting and younger than the keyframe.
LEMMA SuppressStep ==
  ASSUME IInv, [Next]_vars, NEW c \in Clients,
         entity.durable, handler[c].at = "lookup", handler'[c].at = "idle"
  PROVE  \E known \in sent : known.cell = handler[c].val.cell
<1>1. handler'[c] # handler[c]
  OBVIOUS
<1>2. LastHash(c)
  <2>1. ~UNCHANGED handler
    BY <1>1
  <2>2. ASSUME NEW d \in Clients, d # c, \E at \in {"idle", "lookup", "publish", "mark"} : Goto(d, at)
        PROVE  FALSE
    BY <1>1, <2>2, GotoFacts DEF IInv
  <2>3. ASSUME NEW d \in Clients, Report(d) \/ ReportVanished(d) PROVE FALSE
    <3>1. handler[d].at = "idle"
      BY <2>3 DEF Report, ReportVanished, Free
    <3>2. d # c
      BY <3>1
    <3>3. handler'[c] = handler[c]
      BY <2>3, <3>2 DEF Report, ReportVanished, IInv, GateTypeOK
    <3> QED
      BY <1>1, <3>3
  <2>4. PICK d \in Clients : Handle(d)
    BY <2>1, <2>3 DEF Next, vars, WorldChanges, KeyframePasses, HashExpires, Deliver, Reclaim
  <2>5. \E at \in {"idle", "lookup", "publish", "mark"} : Goto(d, at)
    BY <2>4 DEF Handle, Upsert, LastHash, Publish, SetLastHash, StreamVanished
  <2>6. d = c
    BY <2>2, <2>5
  <2> QED
    BY <2>4, <2>6 DEF Handle, Upsert, Publish, SetLastHash, StreamVanished
<1>3. ~Goto(c, "publish")
  BY GotoFacts DEF IInv
<1>4. handler[c].val.cell = gate.hash /\ ~gate.old
  BY <1>2, <1>3 DEF LastHash
<1>5. handler[c].val.cell \in Cells
  BY DEF IInv, SightingInv, Values
<1> QED
  BY <1>4, <1>5, GateAssumption DEF IInv, KnownInv

\* Every variable of the gate keeps its type (handleSighting, maybeStream,
\* streamVanished and the backend behind the stream).
THEOREM GateTypeCorrect == Spec => []GateTypeOK
<1>1. IInv => GateTypeOK
  BY DEF IInv
<1> QED
  BY <1>1, InitInv, InvStep, PTL DEF Spec

\* Only content published within the keyframe is held back by maybeStream.
THEOREM GateHoldsBackKnown == Spec => SuppressedIsKnown
<1>1. IInv /\ [Next]_vars =>
        [\A c \in Clients : entity.durable /\ handler[c].at = "lookup" /\ handler'[c].at = "idle"
            => \E known \in sent : known.cell = handler[c].val.cell]_vars
  BY SuppressStep
<1> QED
  BY <1>1, InitInv, InvStep, PTL DEF Spec, SuppressedIsKnown
=============================================================================
