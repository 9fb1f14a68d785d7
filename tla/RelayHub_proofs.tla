--------------------------- MODULE RelayHub_proofs ---------------------------
(***************************************************************************)
(* Safety of the hub for any number of connections, rooms and accounts and *)
(* any buffer capacity.                                                    *)
(*                                                                         *)
(* TypeOK and PumpInv are inductive together (a queued payload is well     *)
(* typed because a reporter that is storing or fanning out has accepted a  *)
(* batch), and everything else is proved relative to them.  The last part  *)
(* maps every step to one of RoomBroadcast.                                *)
(***************************************************************************)
EXTENDS RelayHub, FiniteSetTheorems, TLAPS

\* Replacing one room of the map touches no other room, keeps the map well typed
\* and keeps it free of empty rooms.
LEMMA WithRoomFacts ==
  ASSUME TypeOK, NEW k \in Rooms, NEW S \in SUBSET Clients, rooms' = WithRoom(k, S)
  PROVE  /\ DOMAIN rooms' = IF S = {} THEN DOMAIN rooms \ {k} ELSE DOMAIN rooms \cup {k}
         /\ DOMAIN rooms' \subseteq Rooms
         /\ \A j \in DOMAIN rooms' : rooms'[j] = IF j = k THEN S ELSE rooms[j]
         /\ \A j \in DOMAIN rooms' : rooms'[j] \subseteq Clients
<1>1. DOMAIN rooms' = IF S = {} THEN DOMAIN rooms \ {k} ELSE DOMAIN rooms \cup {k}
  BY DEF WithRoom
<1>2. \A j \in DOMAIN rooms' : rooms'[j] = IF j = k THEN S ELSE rooms[j]
  BY DEF WithRoom
<1>3. QED
  BY <1>1, <1>2 DEF TypeOK

\* A non-empty queue splits into a well-typed head and a well-typed rest.
LEMMA QueueSplit ==
  ASSUME NEW q \in Seq(Payload), q # <<>>
  PROVE  /\ Head(q) \in Payload
         /\ Tail(q) \in Seq(Payload)
         /\ Head(q) = q[1] /\ 1 \in DOMAIN q
         /\ DOMAIN Tail(q) = 1..(Len(q) - 1)
         /\ \A i \in DOMAIN Tail(q) : Tail(q)[i] = q[i + 1] /\ i + 1 \in DOMAIN q
OBVIOUS

\* Queueing keeps what is queued and puts the payload last.
LEMMA QueueAppend ==
  ASSUME NEW q \in Seq(Payload), NEW p \in Payload
  PROVE  /\ Append(q, p) \in Seq(Payload)
         /\ DOMAIN Append(q, p) = 1..(Len(q) + 1)
         /\ DOMAIN q = 1..Len(q) /\ Len(q) \in Nat
         /\ \A i \in DOMAIN q : Append(q, p)[i] = q[i]
         /\ Append(q, p)[Len(q) + 1] = p
OBVIOUS

\* The payload a reporter hands out is well typed.
LEMMA HandedOutTyped ==
  ASSUME TypeOK, PumpInv, NEW c \in Clients, NEW d \in Clients, BroadcastSend(c, d)
  PROVE  /\ [from |-> c, seq |-> lastSeq[c]] \in SightingPayload
         /\ [from |-> c, seq |-> lastSeq[c]] \in Payload
         /\ [from |-> c, seq |-> lastSeq[c]] # Pong
<1>1. lastSeq[c] \in 0..MaxSeq
  BY DEF TypeOK, PumpInv, BroadcastSend
<1>2. QED
  BY <1>1, HubAssumption DEF SightingPayload, Payload

LEMMA TypeStep ==
  ASSUME TypeOK, PumpInv, [Next]_vars
  PROVE  TypeOK'
<1> USE HubAssumption
<1>1. ASSUME NEW c \in Clients, Register(c) PROVE TypeOK'
  <2>1. RoomOf[c] \in Rooms /\ Room(RoomOf[c]) \cup {c} \in SUBSET Clients
    BY DEF TypeOK, Room
  <2>2. /\ DOMAIN rooms' \subseteq Rooms
        /\ \A k \in DOMAIN rooms' : rooms'[k] \subseteq Clients
    <3>1. rooms' = WithRoom(RoomOf[c], Room(RoomOf[c]) \cup {c})
      BY <1>1 DEF Register
    <3>2. QED
      BY <2>1, <3>1, WithRoomFacts
  <2>3. /\ clients' \in Int
        /\ run' \in [Clients -> {"new", "serving", "over"}]
        /\ reader' \in [Clients -> {"off", "reading", "storing", "fanout", "ended"}]
        /\ writer' \in [Clients -> {"off", "running", "ended"}]
    BY <1>1 DEF Register, TypeOK
  <2>4. QED
    BY <1>1, <2>2, <2>3 DEF Register, TypeOK
<1>2. ASSUME NEW c \in Clients, Unregister(c) PROVE TypeOK'
  <2>1. RoomOf[c] \in Rooms /\ Room(RoomOf[c]) \ {c} \in SUBSET Clients
    BY DEF TypeOK, Room
  <2>2. /\ DOMAIN rooms' \subseteq Rooms
        /\ \A k \in DOMAIN rooms' : rooms'[k] \subseteq Clients
    <3>1. CASE rooms' = WithRoom(RoomOf[c], Room(RoomOf[c]) \ {c})
      BY <2>1, <3>1, WithRoomFacts
    <3>2. CASE UNCHANGED rooms
      BY <3>2 DEF TypeOK
    <3>3. QED
      BY <1>2, <3>1, <3>2 DEF Unregister
  <2>3. clients' \in Int /\ run' \in [Clients -> {"new", "serving", "over"}]
    BY <1>2 DEF Unregister, TypeOK
  <2>4. QED
    BY <1>2, <2>2, <2>3 DEF Unregister, TypeOK
<1>3. ASSUME NEW c \in Clients, ReadEnds(c) PROVE TypeOK'
  BY <1>3 DEF ReadEnds, TypeOK
<1>4. ASSUME NEW c \in Clients, ReadPing(c) PROVE TypeOK'
  BY <1>4 DEF ReadPing, connVars, Payload, TypeOK
<1>5. ASSUME NEW c \in Clients, NEW seq \in 0..MaxSeq, ReadSighting(c, seq)
      PROVE  TypeOK'
  BY <1>5 DEF ReadSighting, TypeOK
<1>6. ASSUME NEW c \in Clients, BroadcastSnapshot(c) PROVE TypeOK'
  BY <1>6 DEF BroadcastSnapshot, Room, TypeOK
<1>7. ASSUME NEW c \in Clients, NEW d \in Clients, BroadcastSend(c, d) PROVE TypeOK'
  <2>1. send' \in [Clients -> Seq(Payload)]
    <3>1. [from |-> c, seq |-> lastSeq[c]] \in Payload
      BY <1>7, HandedOutTyped
    <3>2. send[d] \in Seq(Payload)
      BY DEF TypeOK
    <3>3. Append(send[d], [from |-> c, seq |-> lastSeq[c]]) \in Seq(Payload)
      BY <3>1, <3>2, QueueAppend
    <3>4. QED
      BY <1>7, <3>3 DEF BroadcastSend, TypeOK
  <2>2. closed' \in [Clients -> BOOLEAN] /\ targets' \in [Clients -> SUBSET Clients]
    BY <1>7 DEF BroadcastSend, TypeOK
  <2>3. QED
    BY <1>7, <2>1, <2>2 DEF BroadcastSend, TypeOK
<1>8. ASSUME NEW c \in Clients, BroadcastDone(c) PROVE TypeOK'
  BY <1>8 DEF BroadcastDone, TypeOK
<1>9. ASSUME NEW c \in Clients, WriteFrame(c) PROVE TypeOK'
  <2>1. Head(send[c]) \in Payload /\ Tail(send[c]) \in Seq(Payload)
    BY <1>9, QueueSplit DEF WriteFrame, TypeOK
  <2>2. send' \in [Clients -> Seq(Payload)]
    BY <1>9, <2>1 DEF WriteFrame, TypeOK
  <2>3. got' \in [Clients -> [Clients -> 0..MaxSeq \cup {NoSeq}]]
    <3>1. CASE Head(send[c]) = Pong
      BY <1>9, <3>1 DEF WriteFrame, TypeOK
    <3>2. CASE Head(send[c]) # Pong
      <4> DEFINE p == Head(send[c])
      <4>1. p.from \in Clients /\ p.seq \in 0..MaxSeq
        BY <2>1, <3>2 DEF Payload, SightingPayload
      <4>2. got' = [got EXCEPT ![c][p.from] = p.seq]
        BY <1>9, <3>2 DEF WriteFrame
      <4> HIDE DEF p
      <4>3. QED
        BY <4>1, <4>2 DEF TypeOK
    <3>3. QED
      BY <3>1, <3>2
  <2>4. QED
    BY <1>9, <2>2, <2>3 DEF WriteFrame, connVars, TypeOK
<1>10. ASSUME NEW c \in Clients, WriteFails(c) PROVE TypeOK'
  <2>1. send' \in [Clients -> Seq(Payload)]
    <3>1. CASE UNCHANGED send
      BY <3>1 DEF TypeOK
    <3>2. CASE send[c] # <<>> /\ send' = [send EXCEPT ![c] = Tail(@)]
      <4>1. send[c] \in Seq(Payload)
        BY DEF TypeOK
      <4>2. Tail(send[c]) \in Seq(Payload)
        BY <3>2, <4>1, QueueSplit
      <4>3. QED
        BY <3>2, <4>2 DEF TypeOK
    <3>3. QED
      BY <1>10, <3>1, <3>2 DEF WriteFails
  <2>2. QED
    BY <1>10, <2>1 DEF WriteFails, TypeOK
<1>11. ASSUME NEW c \in Clients, RevokeClose(c) PROVE TypeOK'
  BY <1>11 DEF RevokeClose, TypeOK
<1>12. ASSUME NEW g, NEW a, RevokeSnapshot(g, a) PROVE TypeOK'
  BY <1>12 DEF RevokeSnapshot, connVars, Registered, TypeOK
<1>13. CASE UNCHANGED vars
  BY <1>13 DEF vars, TypeOK
<1>14. QED
  BY <1>1, <1>2, <1>3, <1>4, <1>5, <1>6, <1>7, <1>8, <1>9, <1>10, <1>11, <1>12, <1>13
     DEF Next, ReadPump

LEMMA PumpStep ==
  ASSUME TypeOK, PumpInv, RegistryMatchesRuns, [Next]_vars
  PROVE  PumpInv'
<1> USE HubAssumption DEF PumpInv
<1>1. ASSUME NEW c \in Clients, Register(c) PROVE PumpInv'
  BY <1>1 DEF Register, TypeOK
<1>2. ASSUME NEW c \in Clients, Unregister(c) PROVE PumpInv'
  BY <1>2 DEF Unregister, TypeOK
<1>3. ASSUME NEW c \in Clients, ReadEnds(c) PROVE PumpInv'
  BY <1>3 DEF ReadEnds, TypeOK
<1>4. ASSUME NEW c \in Clients, ReadPing(c) PROVE PumpInv'
  BY <1>4 DEF ReadPing, connVars, TypeOK
<1>5. ASSUME NEW c \in Clients, NEW seq \in 0..MaxSeq, ReadSighting(c, seq)
      PROVE  PumpInv'
  BY <1>5 DEF ReadSighting, TypeOK, NoSeq
<1>6. ASSUME NEW c \in Clients, BroadcastSnapshot(c) PROVE PumpInv'
  <2>1. \A d \in Room(RoomOf[c]) \ {c} : d # c /\ RoomOf[d] = RoomOf[c]
    BY DEF RegistryMatchesRuns, Room
  <2>2. QED
    BY <1>6, <2>1 DEF BroadcastSnapshot, TypeOK
<1>7. ASSUME NEW c \in Clients, NEW d \in Clients, BroadcastSend(c, d) PROVE PumpInv'
  BY <1>7 DEF BroadcastSend, TypeOK
<1>8. ASSUME NEW c \in Clients, BroadcastDone(c) PROVE PumpInv'
  BY <1>8 DEF BroadcastDone, TypeOK
<1>9. ASSUME NEW c \in Clients, WriteFrame(c) PROVE PumpInv'
  BY <1>9 DEF WriteFrame, connVars, TypeOK
<1>10. ASSUME NEW c \in Clients, WriteFails(c) PROVE PumpInv'
  BY <1>10 DEF WriteFails, TypeOK
<1>11. ASSUME NEW c \in Clients, RevokeClose(c) PROVE PumpInv'
  BY <1>11 DEF RevokeClose, TypeOK
<1>12. ASSUME NEW g, NEW a, RevokeSnapshot(g, a) PROVE PumpInv'
  BY <1>12 DEF RevokeSnapshot, connVars, TypeOK
<1>13. CASE UNCHANGED vars
  BY <1>13 DEF vars
<1>14. QED
  BY <1>1, <1>2, <1>3, <1>4, <1>5, <1>6, <1>7, <1>8, <1>9, <1>10, <1>11, <1>12, <1>13
     DEF Next, ReadPump

\* Only Register and Unregister touch the registry, and each changes the set of
\* serving clients, the room map and the head count by the same one client.
LEMMA RegistryStep ==
  ASSUME TypeOK, PumpInv, RegistryMatchesRuns, [Next]_vars
  PROVE  RegistryMatchesRuns'
<1> USE HubAssumption
<1> DEFINE serving == {c \in Clients : run[c] = "serving"}
<1>0. IsFiniteSet(serving)
  BY FS_Subset
<1>1. ASSUME NEW c \in Clients, Register(c) PROVE RegistryMatchesRuns'
  <2> DEFINE k == RoomOf[c]
  <2>1. k \in Rooms /\ Room(k) \cup {c} \in SUBSET Clients
    BY DEF TypeOK, Room
  <2>2. rooms' = WithRoom(k, Room(k) \cup {c})
    BY <1>1 DEF Register
  <2>3. /\ DOMAIN rooms' = DOMAIN rooms \cup {k}
        /\ \A j \in DOMAIN rooms' : rooms'[j] = IF j = k THEN Room(k) \cup {c} ELSE rooms[j]
    <3> DEFINE S == Room(k) \cup {c}
    <3>1. S # {}
      OBVIOUS
    <3>2. k \in Rooms /\ S \in SUBSET Clients /\ rooms' = WithRoom(k, S)
      BY <2>1, <2>2
    <3> HIDE DEF k, S
    <3>3. DOMAIN rooms' = DOMAIN rooms \cup {k}
      BY <3>1, <3>2, WithRoomFacts
    <3>4. \A j \in DOMAIN rooms' : rooms'[j] = IF j = k THEN S ELSE rooms[j]
      BY <3>2, WithRoomFacts
    <3>5. QED
      BY <3>3, <3>4 DEF S
  <2>4. Room(k) = {d \in Clients : run[d] = "serving" /\ RoomOf[d] = k}
    BY DEF RegistryMatchesRuns, Room
  <2>5. \A d \in Clients : run'[d] = "serving" <=> (run[d] = "serving" \/ d = c)
    BY <1>1 DEF Register, TypeOK
  <2>6. \A j \in DOMAIN rooms' :
           /\ rooms'[j] # {}
           /\ rooms'[j] = {d \in Clients : run'[d] = "serving" /\ RoomOf[d] = j}
    <3> TAKE j \in DOMAIN rooms'
    <3>1. CASE j = k
      BY <2>3, <2>4, <2>5, <3>1
    <3>2. CASE j # k
      <4>1. j \in DOMAIN rooms /\ rooms'[j] = rooms[j]
        BY <2>3, <3>2
      <4>2. rooms[j] # {} /\ rooms[j] = {d \in Clients : run[d] = "serving" /\ RoomOf[d] = j}
        BY <4>1 DEF RegistryMatchesRuns
      <4>3. QED
        BY <2>5, <3>2, <4>1, <4>2
    <3>3. QED
      BY <3>1, <3>2
  <2>7. \A d \in Clients : run'[d] = "serving" => RoomOf[d] \in DOMAIN rooms'
    BY <2>3, <2>5 DEF RegistryMatchesRuns
  <2>8. {d \in Clients : run'[d] = "serving"} = serving \cup {c} /\ c \notin serving
    BY <1>1, <2>5 DEF Register
  <2>9. Cardinality(serving \cup {c}) = Cardinality(serving) + 1
    <3> HIDE DEF serving
    <3> QED
      BY <1>0, <2>8, FS_AddElement
  <2>10. clients' = Cardinality({d \in Clients : run'[d] = "serving"})
    BY <1>1, <2>8, <2>9 DEF Register, RegistryMatchesRuns
  <2>11. QED
    BY <2>6, <2>7, <2>10 DEF RegistryMatchesRuns
<1>2. ASSUME NEW c \in Clients, Unregister(c) PROVE RegistryMatchesRuns'
  <2> DEFINE k == RoomOf[c]
  <2>1. k \in Rooms /\ Room(k) \ {c} \in SUBSET Clients
    BY DEF TypeOK, Room
  <2>2. k \in DOMAIN rooms /\ c \in Room(k)
    BY <1>2 DEF Unregister, RegistryMatchesRuns, Room
  <2>3. rooms' = WithRoom(k, Room(k) \ {c}) /\ clients' = clients - 1
    BY <1>2, <2>2 DEF Unregister
  <2>4. /\ DOMAIN rooms' = IF Room(k) \ {c} = {} THEN DOMAIN rooms \ {k} ELSE DOMAIN rooms \cup {k}
        /\ \A j \in DOMAIN rooms' : rooms'[j] = IF j = k THEN Room(k) \ {c} ELSE rooms[j]
    <3> DEFINE S == Room(k) \ {c}
    <3>1. k \in Rooms /\ S \in SUBSET Clients /\ rooms' = WithRoom(k, S)
      BY <2>1, <2>3
    <3> HIDE DEF k, S
    <3>2. DOMAIN rooms' = IF S = {} THEN DOMAIN rooms \ {k} ELSE DOMAIN rooms \cup {k}
      BY <3>1, WithRoomFacts
    <3>3. \A j \in DOMAIN rooms' : rooms'[j] = IF j = k THEN S ELSE rooms[j]
      BY <3>1, WithRoomFacts
    <3>4. QED
      BY <3>2, <3>3 DEF S
  <2>5. Room(k) = {d \in Clients : run[d] = "serving" /\ RoomOf[d] = k}
    BY <2>2 DEF RegistryMatchesRuns, Room
  <2>6. \A d \in Clients : run'[d] = "serving" <=> (run[d] = "serving" /\ d # c)
    BY <1>2 DEF Unregister, TypeOK
  <2>7. \A j \in DOMAIN rooms' :
           /\ rooms'[j] # {}
           /\ rooms'[j] = {d \in Clients : run'[d] = "serving" /\ RoomOf[d] = j}
    <3> TAKE j \in DOMAIN rooms'
    <3>1. CASE j = k
      <4>1. Room(k) \ {c} # {} /\ rooms'[j] = Room(k) \ {c}
        BY <2>4, <3>1
      <4>2. QED
        BY <2>5, <2>6, <3>1, <4>1
    <3>2. CASE j # k
      <4>1. j \in DOMAIN rooms /\ rooms'[j] = rooms[j]
        BY <2>4, <3>2
      <4>2. rooms[j] # {} /\ rooms[j] = {d \in Clients : run[d] = "serving" /\ RoomOf[d] = j}
        BY <4>1 DEF RegistryMatchesRuns
      <4>3. QED
        BY <2>6, <3>2, <4>1, <4>2
    <3>3. QED
      BY <3>1, <3>2
  <2>8. ASSUME NEW d \in Clients, run'[d] = "serving" PROVE RoomOf[d] \in DOMAIN rooms'
    <3>1. run[d] = "serving" /\ d # c /\ RoomOf[d] \in DOMAIN rooms
      BY <2>6, <2>8 DEF RegistryMatchesRuns
    <3>2. CASE RoomOf[d] = k
      <4>1. d \in Room(k) \ {c}
        BY <2>5, <3>1, <3>2
      <4>2. QED
        BY <2>4, <3>2, <4>1
    <3>3. CASE RoomOf[d] # k
      BY <2>4, <3>1, <3>3
    <3>4. QED
      BY <3>2, <3>3
  <2>9. {d \in Clients : run'[d] = "serving"} = serving \ {c} /\ c \in serving
    BY <1>2, <2>6 DEF Unregister
  <2>10. Cardinality(serving \ {c}) = Cardinality(serving) - 1
    <3> HIDE DEF serving
    <3> QED
      BY <1>0, <2>9, FS_RemoveElement
  <2>11. clients' = Cardinality({d \in Clients : run'[d] = "serving"})
    BY <2>3, <2>9, <2>10 DEF RegistryMatchesRuns
  <2>12. QED
    BY <2>7, <2>8, <2>11 DEF RegistryMatchesRuns
<1>3. ASSUME UNCHANGED <<rooms, clients, run>> PROVE RegistryMatchesRuns'
  BY <1>3 DEF RegistryMatchesRuns
<1>4. QED
  <2>1. \/ \E c \in Clients : Register(c) \/ Unregister(c)
        \/ UNCHANGED <<rooms, clients, run>>
    BY DEF Next, vars, connVars, ReadPump, ReadEnds, ReadPing, ReadSighting,
           BroadcastSnapshot, BroadcastSend, BroadcastDone, WriteFrame, WriteFails,
           RevokeSnapshot, RevokeClose
  <2>2. QED
    BY <1>1, <1>2, <1>3, <2>1

\* Only replyPong, Broadcast and writePump touch a queue; Broadcast takes its
\* targets from a snapshot that PumpInv confines to the reporter's room.
LEMMA RoomStep ==
  ASSUME TypeOK, PumpInv, SightingsStayInRoom, [Next]_vars
  PROVE  SightingsStayInRoom'
<1> USE HubAssumption
<1>1. ASSUME NEW c \in Clients, ReadPing(c) PROVE SightingsStayInRoom'
  <2>1. send[c] \in Seq(Payload) /\ Pong \in Payload
    BY DEF TypeOK, Payload
  <2>2. send' = [send EXCEPT ![c] = Append(send[c], Pong)]
    BY <1>1 DEF ReadPing
  <2>3. \A i \in DOMAIN Append(send[c], Pong) :
          \/ i \in DOMAIN send[c] /\ Append(send[c], Pong)[i] = send[c][i]
          \/ Append(send[c], Pong)[i] = Pong
    BY <2>1, QueueAppend
  <2>4. QED
    BY <2>2, <2>3 DEF SightingsStayInRoom, TypeOK
<1>2. ASSUME NEW c \in Clients, NEW d \in Clients, BroadcastSend(c, d)
      PROVE  SightingsStayInRoom'
  <2> DEFINE p == [from |-> c, seq |-> lastSeq[c]]
  <2>1. d # c /\ RoomOf[d] = RoomOf[c] /\ p.from = c
    BY <1>2 DEF BroadcastSend, PumpInv
  <2>2. CASE send' = [send EXCEPT ![d] = Append(send[d], p)]
    <3>1. send[d] \in Seq(Payload) /\ p \in Payload
      BY <1>2, HandedOutTyped DEF TypeOK
    <3> HIDE DEF p
    <3>2. \A i \in DOMAIN Append(send[d], p) :
            \/ i \in DOMAIN send[d] /\ Append(send[d], p)[i] = send[d][i]
            \/ Append(send[d], p)[i] = p
      BY <3>1, QueueAppend
    <3>3. QED
      BY <2>1, <2>2, <3>2 DEF SightingsStayInRoom, TypeOK
  <2>3. CASE UNCHANGED send
    BY <2>3 DEF SightingsStayInRoom
  <2>4. QED
    BY <1>2, <2>2, <2>3 DEF BroadcastSend
<1>3. ASSUME NEW c \in Clients, send[c] # <<>>, send' = [send EXCEPT ![c] = Tail(send[c])]
      PROVE  SightingsStayInRoom'
  <2>1. \A i \in DOMAIN Tail(send[c]) : Tail(send[c])[i] = send[c][i + 1] /\ i + 1 \in DOMAIN send[c]
    BY <1>3, QueueSplit DEF TypeOK
  <2>2. QED
    BY <1>3, <2>1 DEF SightingsStayInRoom, TypeOK
<1>4. ASSUME UNCHANGED send PROVE SightingsStayInRoom'
  BY <1>4 DEF SightingsStayInRoom
<1>5. QED
  <2>1. \/ \E c \in Clients :
            \/ ReadPing(c)
            \/ \E d \in Clients : BroadcastSend(c, d)
            \/ send[c] # <<>> /\ send' = [send EXCEPT ![c] = Tail(send[c])]
        \/ UNCHANGED send
    BY DEF Next, vars, ReadPump, Register, Unregister, ReadEnds, ReadSighting,
           BroadcastSnapshot, BroadcastDone, WriteFrame, WriteFails,
           RevokeSnapshot, RevokeClose
  <2>2. QED
    BY <1>1, <1>2, <1>3, <1>4, <2>1

\* What a step may do to the queues and still keep QueueInv: lose a head, gain a
\* pong, or gain the batch its reporter owes this very target.
LEMMA QueueStep ==
  ASSUME TypeOK, PumpInv, QueueInv, [Next]_vars
  PROVE  QueueInv'
<1> USE HubAssumption
<1>1. ASSUME NEW c \in Clients, NEW seq \in 0..MaxSeq, ReadSighting(c, seq)
      PROVE  QueueInv'
  <2>1. lastSeq[c] < seq /\ lastSeq' = [lastSeq EXCEPT ![c] = seq]
    BY <1>1 DEF ReadSighting, TypeOK, NoSeq
  <2>2. \A d, e \in Clients : d # c => (Undelivered(d, e)' <=> Undelivered(d, e))
    BY <1>1 DEF ReadSighting, Undelivered, TypeOK
  <2>3. \A d \in Clients : lastSeq[d] \in Int /\ lastSeq'[d] \in Int
    BY <2>1 DEF TypeOK, NoSeq
  <2>4. \A e \in Clients : got[e][c] \in Int
    BY DEF TypeOK, NoSeq
  <2>5. \A e \in Clients : \A i \in DOMAIN send[e] :
           send[e][i] # Pong => send[e][i].seq \in Int
    BY DEF TypeOK, Payload, SightingPayload
  <2>6. ASSUME NEW e \in Clients, NEW d \in Clients
        PROVE  /\ got'[e][d] <= lastSeq'[d]
               /\ Undelivered(d, e)' => got'[e][d] < lastSeq'[d]
               /\ \A i \in DOMAIN send'[e] :
                    send'[e][i] # Pong /\ send'[e][i].from = d =>
                       /\ send'[e][i].seq <= lastSeq'[d]
                       /\ Undelivered(d, e)' => send'[e][i].seq < lastSeq'[d]
    <3>1. got' = got /\ send' = send
      BY <1>1 DEF ReadSighting
    <3>2. CASE d = c
      <4>1. lastSeq'[d] = seq /\ lastSeq[d] < seq
        BY <2>1, <3>2 DEF TypeOK
      <4>2. got[e][d] < seq
        BY <2>3, <2>4, <3>2, <4>1 DEF QueueInv
      <4>3. \A i \in DOMAIN send[e] :
              send[e][i] # Pong /\ send[e][i].from = d => send[e][i].seq < seq
        BY <2>3, <2>5, <4>1 DEF QueueInv
      <4>4. got[e][d] <= seq
        BY <2>4, <3>2, <4>2
      <4>5. \A i \in DOMAIN send[e] :
              send[e][i] # Pong /\ send[e][i].from = d => send[e][i].seq <= seq
        BY <2>5, <4>3
      <4>6. QED
        BY <3>1, <4>1, <4>2, <4>3, <4>4, <4>5
    <3>3. CASE d # c
      <4>1. lastSeq'[d] = lastSeq[d]
        BY <2>1, <3>3 DEF TypeOK
      <4>2. QED
        BY <2>2, <3>1, <3>3, <4>1 DEF QueueInv
    <3>4. QED
      BY <3>2, <3>3
  <2>7. QED
    BY <2>6 DEF QueueInv
<1>2. ASSUME UNCHANGED <<got, send, lastSeq>>,
             \A d, e \in Clients : Undelivered(d, e)' => Undelivered(d, e)
      PROVE  QueueInv'
  BY <1>2 DEF QueueInv
<1>3. ASSUME NEW c \in Clients, ReadPing(c) PROVE QueueInv'
  <2>1. send[c] \in Seq(Payload) /\ Pong \in Payload
    BY DEF TypeOK, Payload
  <2>2. \A e \in Clients : \A i \in DOMAIN send'[e] :
          \/ i \in DOMAIN send[e] /\ send'[e][i] = send[e][i]
          \/ send'[e][i] = Pong
    BY <1>3, <2>1, QueueAppend DEF ReadPing, TypeOK
  <2>3. UNCHANGED <<got, lastSeq, reader, targets>>
    BY <1>3 DEF ReadPing, connVars
  <2>4. QED
    BY <2>2, <2>3 DEF QueueInv, Undelivered
<1>4. ASSUME NEW c \in Clients, NEW d \in Clients, BroadcastSend(c, d)
      PROVE  QueueInv'
  <2> DEFINE p == [from |-> c, seq |-> lastSeq[c]]
  <2>1. UNCHANGED <<got, lastSeq, reader>>
    BY <1>4 DEF BroadcastSend
  <2>2. \A e, f \in Clients : Undelivered(e, f)' => Undelivered(e, f)
    BY <1>4 DEF BroadcastSend, Undelivered, TypeOK
  <2>3. ~Undelivered(c, d)'
    BY <1>4 DEF BroadcastSend, Undelivered, TypeOK
  <2>4. CASE send' = [send EXCEPT ![d] = Append(send[d], p)]
    <3>1. send[d] \in Seq(Payload) /\ p \in Payload /\ p.from = c /\ p.seq = lastSeq[c]
      BY <1>4, HandedOutTyped DEF TypeOK
    <3>2. lastSeq[c] <= lastSeq[c]
      <4>1. lastSeq[c] \in Int
        BY DEF TypeOK, NoSeq
      <4>2. QED
        BY <4>1
    <3> HIDE DEF p
    <3>3. ASSUME NEW e \in Clients, NEW i \in DOMAIN send'[e]
          PROVE  \/ i \in DOMAIN send[e] /\ send'[e][i] = send[e][i]
                 \/ e = d /\ send'[e][i] = p
      <4>1. CASE e # d
        <5>1. send'[e] = send[e]
          BY <2>4, <4>1 DEF TypeOK
        <5>2. QED
          BY <5>1
      <4>2. CASE e = d
        <5>1. send'[d] = Append(send[d], p)
          BY <2>4 DEF TypeOK
        <5>2. /\ DOMAIN Append(send[d], p) = 1..(Len(send[d]) + 1)
              /\ DOMAIN send[d] = 1..Len(send[d]) /\ Len(send[d]) \in Nat
              /\ \A j \in DOMAIN send[d] : Append(send[d], p)[j] = send[d][j]
              /\ Append(send[d], p)[Len(send[d]) + 1] = p
          BY <3>1, QueueAppend
        <5>3. i \in DOMAIN send[d] \/ i = Len(send[d]) + 1
          BY <4>2, <5>1, <5>2
        <5>4. QED
          BY <4>2, <5>1, <5>2, <5>3
      <4>3. QED
        BY <4>1, <4>2
    <3>4. QED
      BY <2>1, <2>2, <2>3, <3>1, <3>2, <3>3 DEF QueueInv
  <2>5. CASE UNCHANGED send
    BY <2>1, <2>2, <2>5 DEF QueueInv
  <2>6. QED
    BY <1>4, <2>4, <2>5 DEF BroadcastSend
<1>5. ASSUME NEW c \in Clients, WriteFrame(c) PROVE QueueInv'
  <2>1. UNCHANGED <<lastSeq, reader, targets>>
    BY <1>5 DEF WriteFrame, connVars
  <2>2. send[c] \in Seq(Payload) /\ send[c] # <<>>
    BY <1>5 DEF WriteFrame, TypeOK
  <2>3. \A e \in Clients : \A i \in DOMAIN send'[e] :
          \E j \in DOMAIN send[e] : send'[e][i] = send[e][j]
    BY <1>5, <2>2, QueueSplit DEF WriteFrame, TypeOK
  <2>4. \A e, d \in Clients :
          \/ got'[e][d] = got[e][d]
          \/ \E j \in DOMAIN send[e] :
                send[e][j] # Pong /\ send[e][j].from = d /\ got'[e][d] = send[e][j].seq
    <3>1. CASE Head(send[c]) = Pong
      BY <1>5, <3>1 DEF WriteFrame
    <3>2. CASE Head(send[c]) # Pong
      <4> DEFINE p == Head(send[c])
      <4>1. got' = [got EXCEPT ![c][p.from] = p.seq]
        BY <1>5, <3>2 DEF WriteFrame
      <4>2. p = send[c][1] /\ 1 \in DOMAIN send[c] /\ p # Pong
        BY <2>2, <3>2, QueueSplit
      <4> HIDE DEF p
      <4>3. QED
        BY <4>1, <4>2 DEF TypeOK
    <3>3. QED
      BY <3>1, <3>2
  <2>5. QED
    BY <2>1, <2>3, <2>4 DEF QueueInv, Undelivered
<1>6. ASSUME NEW c \in Clients, WriteFails(c) PROVE QueueInv'
  <2>1. UNCHANGED <<got, lastSeq, reader, targets>>
    BY <1>6 DEF WriteFails
  <2>2. \A e \in Clients : \A i \in DOMAIN send'[e] :
          \E j \in DOMAIN send[e] : send'[e][i] = send[e][j]
    <3>1. CASE UNCHANGED send
      BY <3>1
    <3>2. CASE send[c] # <<>> /\ send' = [send EXCEPT ![c] = Tail(send[c])]
      BY <3>2, QueueSplit DEF TypeOK
    <3>3. QED
      BY <1>6, <3>1, <3>2 DEF WriteFails
  <2>3. QED
    BY <2>1, <2>2 DEF QueueInv, Undelivered
<1>7. ASSUME NEW c \in Clients, BroadcastSnapshot(c) PROVE QueueInv'
  BY <1>2, <1>7 DEF BroadcastSnapshot, Undelivered, TypeOK
<1>8. ASSUME NEW c \in Clients, BroadcastDone(c) \/ ReadEnds(c) \/ Register(c)
      PROVE  QueueInv'
  BY <1>2, <1>8 DEF BroadcastDone, ReadEnds, Register, Undelivered, TypeOK
<1>9. ASSUME UNCHANGED <<got, send, lastSeq, reader, targets>> PROVE QueueInv'
  BY <1>2, <1>9 DEF Undelivered
<1>10. ASSUME NEW c \in Clients, Unregister(c) \/ RevokeClose(c) PROVE QueueInv'
  BY <1>9, <1>10 DEF Unregister, RevokeClose
<1>11. ASSUME NEW g, NEW a, RevokeSnapshot(g, a) PROVE QueueInv'
  BY <1>9, <1>11 DEF RevokeSnapshot, connVars
<1>12. CASE UNCHANGED vars
  BY <1>9, <1>12 DEF vars
<1>13. QED
  BY <1>1, <1>3, <1>4, <1>5, <1>6, <1>7, <1>8, <1>10, <1>11, <1>12 DEF Next, ReadPump

\* The batches of one reporter in one queue are numbered upwards, from above what
\* the peer already has: the head may be delivered and the next one appended.
LEMMA OrderStep ==
  ASSUME TypeOK, PumpInv, QueueInv, BatchesInOrder, [Next]_vars
  PROVE  BatchesInOrder'
<1> USE HubAssumption
<1>1. ASSUME NEW c \in Clients, ReadPing(c) PROVE BatchesInOrder'
  <2>1. send[c] \in Seq(Payload) /\ Pong \in Payload
    BY DEF TypeOK, Payload
  <2>2. got' = got
    BY <1>1 DEF ReadPing
  <2>3. \A e \in Clients : \A i \in DOMAIN send'[e] :
          \/ i \in DOMAIN send[e] /\ send'[e][i] = send[e][i]
          \/ send'[e][i] = Pong
    BY <1>1, <2>1, QueueAppend DEF ReadPing, TypeOK
  <2>4. QED
    BY <2>2, <2>3 DEF BatchesInOrder
<1>2. ASSUME NEW c \in Clients, NEW d \in Clients, BroadcastSend(c, d)
      PROVE  BatchesInOrder'
  <2> DEFINE p == [from |-> c, seq |-> lastSeq[c]]
  <2>1. got' = got
    BY <1>2 DEF BroadcastSend
  <2>2. CASE send' = [send EXCEPT ![d] = Append(send[d], p)]
    <3>1. send[d] \in Seq(Payload) /\ p \in Payload /\ p.from = c /\ p.seq = lastSeq[c]
      BY <1>2, HandedOutTyped DEF TypeOK
    <3>2. Undelivered(c, d)
      BY <1>2 DEF BroadcastSend, Undelivered
    <3>3. got[d][c] < p.seq
      BY <3>1, <3>2 DEF QueueInv
    <3>4. \A i \in DOMAIN send[d] :
            send[d][i] # Pong /\ send[d][i].from = c => send[d][i].seq < p.seq
      BY <3>1, <3>2 DEF QueueInv
    <3> HIDE DEF p
    <3>5. \A e \in Clients : e # d => send'[e] = send[e]
      BY <2>2 DEF TypeOK
    <3>6. send'[d] = Append(send[d], p)
      BY <2>2 DEF TypeOK
    <3>7. /\ DOMAIN send'[d] = 1..(Len(send[d]) + 1)
          /\ DOMAIN send[d] = 1..Len(send[d]) /\ Len(send[d]) \in Nat
          /\ \A i \in DOMAIN send[d] : send'[d][i] = send[d][i]
          /\ send'[d][Len(send[d]) + 1] = p
      BY <3>1, <3>6, QueueAppend
    <3>8. ASSUME NEW e \in Clients, NEW f \in Clients,
                 NEW i \in DOMAIN send'[e], send'[e][i] # Pong, send'[e][i].from = f
          PROVE  /\ got'[e][f] < send'[e][i].seq
                 /\ \A j \in DOMAIN send'[e] :
                      send'[e][j] # Pong /\ send'[e][j].from = f /\ i < j =>
                        send'[e][i].seq < send'[e][j].seq
      <4>1. CASE e # d
        BY <2>1, <3>5, <3>8, <4>1 DEF BatchesInOrder
      <4>2. CASE e = d
        <5> DEFINE n == Len(send[d]) + 1
        <5>1. \A j \in DOMAIN send'[d] : j # n => j \in DOMAIN send[d]
          BY <3>7
        <5>2. \A j \in DOMAIN send'[d] : ~(n < j)
          BY <3>7
        <5>3. send'[d][n] = p
          BY <3>7
        <5> HIDE DEF n
        <5>4. CASE i = n
          BY <2>1, <3>1, <3>3, <3>8, <4>2, <5>2, <5>3, <5>4
        <5>5. CASE i # n
          <6>1. i \in DOMAIN send[d] /\ send'[d][i] = send[d][i]
            BY <3>7, <4>2, <5>1, <5>5
          <6>2. got[d][f] < send[d][i].seq
            BY <3>8, <4>2, <6>1 DEF BatchesInOrder
          <6>3. ASSUME NEW j \in DOMAIN send'[d], send'[d][j] # Pong,
                       send'[d][j].from = f, i < j
                PROVE  send'[d][i].seq < send'[d][j].seq
            <7>1. CASE j = n
              BY <3>1, <3>4, <3>8, <4>2, <5>3, <6>1, <6>3, <7>1
            <7>2. CASE j # n
              <8>1. j \in DOMAIN send[d] /\ send'[d][j] = send[d][j]
                BY <3>7, <5>1, <7>2
              <8>2. QED
                BY <3>8, <4>2, <6>1, <6>3, <8>1 DEF BatchesInOrder
            <7>3. QED
              BY <7>1, <7>2
          <6>4. QED
            BY <2>1, <4>2, <6>1, <6>2, <6>3
        <5>6. QED
          BY <5>4, <5>5
      <4>3. QED
        BY <4>1, <4>2
    <3>9. QED
      BY <3>8 DEF BatchesInOrder
  <2>3. CASE UNCHANGED send
    BY <2>1, <2>3 DEF BatchesInOrder
  <2>4. QED
    BY <1>2, <2>2, <2>3 DEF BroadcastSend
<1>3. ASSUME NEW c \in Clients, send[c] # <<>>,
             send' = [send EXCEPT ![c] = Tail(send[c])],
             \A e, d \in Clients :
                \/ got'[e][d] = got[e][d]
                \/ /\ e = c /\ send[c][1] # Pong /\ send[c][1].from = d
                   /\ got'[e][d] = send[c][1].seq
      PROVE  BatchesInOrder'
  <2>1. send[c] \in Seq(Payload)
    BY DEF TypeOK
  <2>2. /\ \A e \in Clients : e # c => send'[e] = send[e]
        /\ send'[c] = Tail(send[c])
    BY <1>3 DEF TypeOK
  <2>3. /\ 1 \in DOMAIN send[c]
        /\ \A i \in DOMAIN send'[c] :
             /\ send'[c][i] = send[c][i + 1]
             /\ i + 1 \in DOMAIN send[c]
             /\ i \in Nat /\ 1 < i + 1
    <3> DEFINE q == send[c]
    <3>1. /\ 1 \in DOMAIN q
          /\ DOMAIN Tail(q) = 1..(Len(q) - 1)
          /\ \A i \in DOMAIN Tail(q) : Tail(q)[i] = q[i + 1] /\ i + 1 \in DOMAIN q
      BY <1>3, <2>1, QueueSplit
    <3>2. Len(q) \in Nat
      BY <2>1
    <3> HIDE DEF q
    <3>3. \A i \in DOMAIN Tail(q) : i \in Nat /\ 1 < i + 1
      BY <3>1, <3>2
    <3>4. QED
      BY <2>2, <3>1, <3>3 DEF q
  <2>4. ASSUME NEW e \in Clients, NEW d \in Clients,
               NEW i \in DOMAIN send'[e], send'[e][i] # Pong, send'[e][i].from = d
        PROVE  /\ got'[e][d] < send'[e][i].seq
               /\ \A j \in DOMAIN send'[e] :
                    send'[e][j] # Pong /\ send'[e][j].from = d /\ i < j =>
                      send'[e][i].seq < send'[e][j].seq
    <3>1. CASE e # c
      BY <1>3, <2>2, <2>4, <3>1 DEF BatchesInOrder
    <3>2. CASE e = c
      <4>1. got'[c][d] < send'[c][i].seq
        <5>1. /\ send'[c][i] = send[c][i + 1] /\ i + 1 \in DOMAIN send[c]
              /\ 1 < i + 1 /\ send[c][i + 1] # Pong /\ send[c][i + 1].from = d
          BY <2>3, <2>4, <3>2
        <5>2. CASE got'[c][d] = got[c][d]
          BY <5>1, <5>2 DEF BatchesInOrder
        <5>3. CASE /\ send[c][1] # Pong /\ send[c][1].from = d
                   /\ got'[c][d] = send[c][1].seq
          <6>1. send[c][1].seq < send[c][i + 1].seq
            BY <2>3, <5>1, <5>3 DEF BatchesInOrder
          <6>2. QED
            BY <5>1, <5>3, <6>1
        <5>4. QED
          BY <1>3, <5>2, <5>3
      <4>2. ASSUME NEW j \in DOMAIN send'[c], send'[c][j] # Pong,
                   send'[c][j].from = d, i < j
            PROVE  send'[c][i].seq < send'[c][j].seq
        <5>1. i + 1 < j + 1
          BY <2>3, <2>4, <3>2, <4>2
        <5>2. QED
          BY <2>3, <2>4, <3>2, <4>2, <5>1 DEF BatchesInOrder
      <4>3. QED
        BY <3>2, <4>1, <4>2
    <3>3. QED
      BY <3>1, <3>2
  <2>5. QED
    BY <2>4 DEF BatchesInOrder
<1>4. ASSUME NEW c \in Clients, WriteFrame(c) PROVE BatchesInOrder'
  <2>1. send[c] \in Seq(Payload) /\ send[c] # <<>> /\ Head(send[c]) = send[c][1]
    BY <1>4, QueueSplit DEF WriteFrame, TypeOK
  <2>2. \A e, d \in Clients :
          \/ got'[e][d] = got[e][d]
          \/ /\ e = c /\ send[c][1] # Pong /\ send[c][1].from = d
             /\ got'[e][d] = send[c][1].seq
    <3>1. CASE Head(send[c]) = Pong
      BY <1>4, <3>1 DEF WriteFrame
    <3>2. CASE Head(send[c]) # Pong
      <4> DEFINE p == Head(send[c])
      <4>1. got' = [got EXCEPT ![c][p.from] = p.seq]
        BY <1>4, <3>2 DEF WriteFrame
      <4>2. p = send[c][1] /\ p # Pong
        BY <2>1, <3>2
      <4> HIDE DEF p
      <4>3. QED
        BY <4>1, <4>2 DEF TypeOK
    <3>3. QED
      BY <3>1, <3>2
  <2>3. send' = [send EXCEPT ![c] = Tail(send[c])]
    BY <1>4 DEF WriteFrame
  <2>4. QED
    BY <1>3, <2>1, <2>2, <2>3
<1>5. ASSUME UNCHANGED <<send, got>> PROVE BatchesInOrder'
  BY <1>5 DEF BatchesInOrder
<1>6. ASSUME NEW c \in Clients, WriteFails(c) PROVE BatchesInOrder'
  BY <1>3, <1>5, <1>6 DEF WriteFails
<1>7. QED
  <2>1. \/ \E c \in Clients :
            \/ ReadPing(c)
            \/ \E d \in Clients : BroadcastSend(c, d)
            \/ WriteFrame(c)
            \/ WriteFails(c)
        \/ UNCHANGED <<send, got>>
    BY DEF Next, vars, ReadPump, Register, Unregister, ReadEnds, ReadSighting,
           BroadcastSnapshot, BroadcastDone, RevokeSnapshot, RevokeClose
  <2>2. QED
    BY <1>1, <1>2, <1>4, <1>5, <1>6, <2>1

\* The snapshots are taken of registered clients, and only clients of a snapshot or
\* with a running writer are closed.
LEMMA FreshStep ==
  ASSUME TypeOK, PumpInv, RegistryMatchesRuns, FreshInv, [Next]_vars
  PROVE  FreshInv'
<1> USE HubAssumption DEF FreshInv
<1>1. \A k \in DOMAIN rooms : \A c \in rooms[k] : c \in Clients /\ run[c] = "serving"
  BY DEF RegistryMatchesRuns
<1>2. ASSUME NEW c \in Clients, Register(c) \/ Unregister(c) PROVE FreshInv'
  BY <1>2 DEF Register, Unregister, TypeOK
<1>3. ASSUME NEW c \in Clients, BroadcastSnapshot(c) PROVE FreshInv'
  BY <1>1, <1>3 DEF BroadcastSnapshot, Room, TypeOK
<1>4. ASSUME NEW c \in Clients, NEW d \in Clients, BroadcastSend(c, d) PROVE FreshInv'
  BY <1>4 DEF BroadcastSend, TypeOK
<1>5. ASSUME NEW c \in Clients, WriteFails(c) PROVE FreshInv'
  BY <1>5 DEF WriteFails, PumpInv, TypeOK
<1>6. ASSUME NEW c \in Clients, RevokeClose(c) PROVE FreshInv'
  BY <1>6 DEF RevokeClose, TypeOK
<1>7. ASSUME NEW g, NEW a, RevokeSnapshot(g, a) PROVE FreshInv'
  BY <1>1, <1>7 DEF RevokeSnapshot, Registered, connVars
<1>8. ASSUME UNCHANGED <<run, closed, revoking, targets>> PROVE FreshInv'
  BY <1>8
<1>9. QED
  <2>1. \/ \E c \in Clients :
            \/ Register(c) \/ Unregister(c) \/ BroadcastSnapshot(c) \/ WriteFails(c)
            \/ RevokeClose(c) \/ \E d \in Clients : BroadcastSend(c, d)
        \/ \E k \in Rooms, c \in Clients : RevokeSnapshot(k.group, AccountOf[c])
        \/ UNCHANGED <<run, closed, revoking, targets>>
    BY DEF Next, vars, connVars, ReadPump, ReadEnds, ReadPing, ReadSighting,
           BroadcastDone, WriteFrame
  <2>2. QED
    BY <1>2, <1>3, <1>4, <1>5, <1>6, <1>7, <1>8, <2>1

\* The inductive invariant: the properties of the runs and what they lean on.
IInv ==
    /\ TypeOK
    /\ PumpInv
    /\ RegistryMatchesRuns
    /\ SightingsStayInRoom
    /\ QueueInv
    /\ BatchesInOrder
    /\ FreshInv

LEMMA InitEstablishes == Init => IInv
<1> SUFFICES ASSUME Init PROVE IInv
  OBVIOUS
<1> USE HubAssumption
<1>1. DOMAIN rooms = {} /\ \A c \in Clients : DOMAIN send[c] = {}
  BY DEF Init
<1>2. TypeOK
  BY DEF Init, TypeOK, NoSeq
<1>3. PumpInv
  BY DEF Init, PumpInv
<1>4. RegistryMatchesRuns
  <2>1. {c \in Clients : run[c] = "serving"} = {}
    BY DEF Init
  <2>2. Cardinality({}) = 0
    BY FS_EmptySet
  <2>3. QED
    BY <1>1, <2>1, <2>2 DEF Init, RegistryMatchesRuns
<1>5. SightingsStayInRoom /\ BatchesInOrder
  BY <1>1 DEF SightingsStayInRoom, BatchesInOrder
<1>6. QueueInv
  BY <1>1 DEF Init, QueueInv, Undelivered, NoSeq
<1>7. FreshInv
  BY DEF Init, FreshInv
<1>8. QED
  BY <1>2, <1>3, <1>4, <1>5, <1>6, <1>7 DEF IInv

LEMMA StepPreserves == IInv /\ [Next]_vars => IInv'
BY TypeStep, PumpStep, RegistryStep, RoomStep, QueueStep, OrderStep, FreshStep DEF IInv

LEMMA Inductive == Spec => []IInv
BY InitEstablishes, StepPreserves, PTL DEF Spec

----------------------------------------------------------------------------
(* The refinement of RoomBroadcast. *)

Debts == [to : Clients, from : Clients, seq : 0..MaxSeq]

LEMMA OwedUnchanged ==
  ASSUME UNCHANGED closed,
         \A b \in Debts : ~closed[b.to] => (OnItsWay(b)' <=> OnItsWay(b))
  PROVE  Owed' = Owed
BY DEF Owed, Debts

\* Nothing is on its way in a state the step does not touch.
LEMMA WayUnchanged ==
  ASSUME NEW b \in Debts, send'[b.to] = send[b.to],
         lastSeq'[b.from] = lastSeq[b.from],
         b.to \in targets'[b.from] <=> b.to \in targets[b.from]
  PROVE  OnItsWay(b)' <=> OnItsWay(b)
BY DEF OnItsWay

\* Steps of the hub that RoomBroadcast does not see.
LEMMA Unseen ==
  ASSUME UNCHANGED <<run, closed, lastSeq, got>>, Owed' = Owed,
         \A c \in Clients : reader'[c] = "storing" <=> reader[c] = "storing"
  PROVE  UNCHANGED FanOut!vars
BY DEF FanOut!vars

\* Closing a connection a second time is nothing; the first time, it is being
\* served, and the batches on their way to others are not affected.
LEMMA ClosingIsCut ==
  ASSUME TypeOK, PumpInv, NEW c \in Clients, run[c] # "new",
         closed' = [closed EXCEPT ![c] = TRUE],
         UNCHANGED <<run, reader, lastSeq, got>>,
         \A b \in Debts : b.to # c => (OnItsWay(b)' <=> OnItsWay(b))
  PROVE  [FanOut!Next]_(FanOut!vars)
<1>1. CASE closed[c]
  <2>1. closed' = closed
    BY <1>1 DEF TypeOK
  <2>2. Owed' = Owed
    BY <1>1, <2>1, OwedUnchanged
  <2>3. QED
    BY <2>1, <2>2, Unseen
<1>2. CASE ~closed[c]
  <2>1. run[c] = "serving"
    BY <1>2 DEF PumpInv, TypeOK
  <2>2. \A d \in Clients : closed'[d] <=> closed[d] \/ d = c
    BY DEF TypeOK
  <2>3. {d \in Clients : closed[d]}' = {d \in Clients : closed[d]} \cup {c}
    BY <2>2
  <2>4. Owed' = {b \in Owed : b.to # c}
    BY <2>2 DEF Owed, Debts
  <2>5. FanOut!Cut(c)
    BY <2>1, <2>3, <2>4 DEF FanOut!Cut
  <2>6. QED
    BY <2>5 DEF FanOut!Next
<1>3. QED
  BY <1>1, <1>2

\* Queueing for d what Broadcast still owed it changes where the batch is, not
\* whether it is on its way.
LEMMA QueueingKeepsWay ==
  ASSUME TypeOK, PumpInv, NEW c \in Clients, NEW d \in Clients, BroadcastSend(c, d),
         send' = [send EXCEPT ![d] = Append(send[d], [from |-> c, seq |-> lastSeq[c]])],
         NEW b \in Debts
  PROVE  OnItsWay(b)' <=> OnItsWay(b)
<1> DEFINE p == [from |-> c, seq |-> lastSeq[c]]
           x == [from |-> b.from, seq |-> b.seq]
<1>1. b.to \in Clients /\ b.from \in Clients
  BY DEF Debts
<1>2. lastSeq' = lastSeq /\ d \in targets[c]
  BY DEF BroadcastSend
<1>3. b.to \in targets'[b.from] <=> b.to \in targets[b.from] /\ ~(b.from = c /\ b.to = d)
  BY <1>1 DEF BroadcastSend, TypeOK
<1>4. CASE b.to # d
  <2>1. send'[b.to] = send[b.to]
    BY <1>1, <1>4 DEF TypeOK
  <2>2. QED
    BY <1>2, <1>3, <1>4, <2>1, WayUnchanged
<1>5. CASE b.to = d
  <2>1. send[d] \in Seq(Payload) /\ p \in Payload /\ send'[d] = Append(send[d], p)
    BY HandedOutTyped DEF TypeOK
  <2>2. p = x <=> b.from = c /\ b.seq = lastSeq[c]
    OBVIOUS
  <2> HIDE DEF p, x
  <2>3. (\E i \in DOMAIN send'[d] : send'[d][i] = x)
           <=> (\E i \in DOMAIN send[d] : send[d][i] = x) \/ p = x
    <3>1. /\ DOMAIN send'[d] = 1..(Len(send[d]) + 1)
          /\ DOMAIN send[d] = 1..Len(send[d]) /\ Len(send[d]) \in Nat
          /\ \A i \in DOMAIN send[d] : send'[d][i] = send[d][i]
          /\ send'[d][Len(send[d]) + 1] = p
      BY <2>1, QueueAppend
    <3>2. DOMAIN send'[d] = DOMAIN send[d] \cup {Len(send[d]) + 1}
      BY <3>1
    <3>3. QED
      BY <3>1, <3>2
  <2>4. OnItsWay(b)' <=> \/ \E i \in DOMAIN send'[d] : send'[d][i] = x
                         \/ d \in targets'[b.from] /\ b.seq = lastSeq[b.from]
    BY <1>2, <1>5 DEF OnItsWay, x
  <2>5. OnItsWay(b) <=> \/ \E i \in DOMAIN send[d] : send[d][i] = x
                        \/ d \in targets[b.from] /\ b.seq = lastSeq[b.from]
    BY <1>5 DEF OnItsWay, x
  <2>6. QED
    BY <1>2, <1>3, <1>5, <2>2, <2>3, <2>4, <2>5
<1>6. QED
  BY <1>4, <1>5

\* The head of a queue is the oldest batch its reporter owes that peer, and once it
\* is written nothing of it is left, in the queue or in a snapshot.
LEMMA HeadIsOldest ==
  ASSUME IInv, NEW c \in Clients, WriteFrame(c), Head(send[c]) # Pong,
         NEW b \in Debts, b.to = c, b.from = Head(send[c]).from, b.seq = Head(send[c]).seq
  PROVE  /\ b \in Owed
         /\ FanOut!Oldest(b)
         /\ \A o \in Debts : o.to = c => (OnItsWay(o)' <=> OnItsWay(o) /\ o # b)
<1> DEFINE p == Head(send[c])
           x(o) == [from |-> o.from, seq |-> o.seq]
<1>1. TypeOK /\ QueueInv /\ BatchesInOrder
  BY DEF IInv
<1>2. send[c] \in Seq(Payload) /\ send[c] # <<>> /\ ~closed[c]
  BY <1>1 DEF TypeOK, WriteFrame
<1>3. /\ p \in Payload /\ p = send[c][1] /\ 1 \in DOMAIN send[c]
      /\ \A i \in DOMAIN send[c] : i \in Nat /\ 1 <= i
  BY <1>2, QueueSplit
<1>4. p = x(b) /\ p \in SightingPayload
  BY <1>3 DEF Payload, SightingPayload
<1>5. send'[c] = Tail(send[c]) /\ UNCHANGED <<lastSeq, targets>>
  BY <1>1 DEF WriteFrame, TypeOK
<1>6. \A o \in Debts : x(o) \in SightingPayload
  BY DEF Debts, SightingPayload
<1>7. \A o \in Debts : o.from \in Clients /\ o.to \in Clients /\ o.seq \in Int
  BY DEF Debts
<1>8. ASSUME NEW i \in DOMAIN send[c], i # 1, NEW o \in Debts, send[c][i] = x(o), o.from = b.from
      PROVE  b.seq < o.seq
  <2>1. /\ send[c][i] # Pong /\ send[c][i].from = b.from /\ send[c][i].seq = o.seq
    BY <1>6, <1>8, HubAssumption
  <2>2. send[c][1] # Pong /\ send[c][1].from = b.from /\ send[c][1].seq = b.seq
    BY <1>3
  <2>3. 1 < i
    BY <1>3, <1>8
  <2>4. QED
    BY <1>1, <1>3, <1>7, <2>1, <2>2, <2>3 DEF BatchesInOrder
<1>9. ASSUME NEW o \in Debts, o.to = c, o.from = b.from,
             c \in targets[o.from], o.seq = lastSeq[o.from]
      PROVE  b.seq < o.seq
  <2>1. send[c][1] # Pong /\ send[c][1].from = b.from /\ send[c][1].seq = b.seq
    BY <1>3
  <2>2. Undelivered(b.from, c)
    BY <1>9 DEF Undelivered
  <2>3. QED
    BY <1>1, <1>3, <1>7, <1>9, <2>1, <2>2 DEF QueueInv
<1>10. b \in Owed
  BY <1>2, <1>3, <1>4 DEF Owed, Debts, OnItsWay
<1>11. ASSUME NEW o \in Debts, o.to = c, o.from = b.from, OnItsWay(o)
       PROVE  o = b \/ b.seq < o.seq
  <2>1. CASE c \in targets[o.from] /\ o.seq = lastSeq[o.from]
    BY <1>9, <1>11, <2>1
  <2>2. ASSUME NEW i \in DOMAIN send[c], send[c][i] = x(o) PROVE o = b \/ b.seq < o.seq
    <3>1. CASE i = 1
      BY <1>3, <1>4, <1>11, <2>2, <3>1 DEF Debts
    <3>2. CASE i # 1
      BY <1>8, <1>11, <2>2, <3>2
    <3>3. QED
      BY <3>1, <3>2
  <2>3. QED
    BY <1>11, <2>1, <2>2 DEF OnItsWay
<1>12. FanOut!Oldest(b)
  <2> SUFFICES ASSUME NEW o \in Owed, o.to = b.to, o.from = b.from PROVE b.seq <= o.seq
    BY DEF FanOut!Oldest
  <2>1. o \in Debts /\ OnItsWay(o)
    BY DEF Owed, Debts
  <2>2. QED
    BY <1>7, <1>11, <2>1
<1>13. ASSUME NEW o \in Debts, o.to = c
       PROVE  OnItsWay(o)' <=> OnItsWay(o) /\ o # b
  <2>1. /\ DOMAIN Tail(send[c]) = 1..(Len(send[c]) - 1)
        /\ DOMAIN send[c] = 1..Len(send[c]) /\ Len(send[c]) \in Nat
        /\ \A i \in DOMAIN Tail(send[c]) : Tail(send[c])[i] = send[c][i + 1]
    BY <1>2
  <2>2. (\E i \in DOMAIN send'[c] : send'[c][i] = x(o))
           <=> \E i \in DOMAIN send[c] : i # 1 /\ send[c][i] = x(o)
    <3>1. ASSUME NEW i \in DOMAIN send'[c], send'[c][i] = x(o)
          PROVE  \E j \in DOMAIN send[c] : j # 1 /\ send[c][j] = x(o)
      <4>1. i + 1 \in DOMAIN send[c] /\ i + 1 # 1 /\ send[c][i + 1] = x(o)
        BY <1>5, <2>1, <3>1
      <4>2. QED
        BY <4>1
    <3>2. ASSUME NEW j \in DOMAIN send[c], j # 1, send[c][j] = x(o)
          PROVE  \E i \in DOMAIN send'[c] : send'[c][i] = x(o)
      <4>1. j - 1 \in DOMAIN send'[c] /\ (j - 1) + 1 = j
        BY <1>5, <2>1, <3>2
      <4>2. send'[c][j - 1] = x(o)
        BY <1>5, <2>1, <3>2, <4>1
      <4>3. QED
        BY <4>1, <4>2
    <3> HIDE DEF x
    <3>3. QED
      BY <3>1, <3>2
  <2>3. OnItsWay(o)' <=> \/ \E i \in DOMAIN send'[c] : send'[c][i] = x(o)
                         \/ c \in targets[o.from] /\ o.seq = lastSeq[o.from]
    BY <1>5, <1>13 DEF OnItsWay
  <2>4. OnItsWay(o) <=> \/ \E i \in DOMAIN send[c] : send[c][i] = x(o)
                        \/ c \in targets[o.from] /\ o.seq = lastSeq[o.from]
    BY <1>13 DEF OnItsWay
  <2>5. CASE o = b
    <3>1. ~ \E i \in DOMAIN send[c] : i # 1 /\ send[c][i] = x(o)
      <4>1. ~(b.seq < b.seq)
        BY <1>7
      <4>2. QED
        BY <1>8, <2>5, <4>1
    <3>2. ~(c \in targets[o.from] /\ o.seq = lastSeq[o.from])
      <4>1. ~(b.seq < b.seq)
        BY <1>7
      <4>2. QED
        BY <1>9, <2>5, <4>1
    <3>3. QED
      BY <2>2, <2>3, <2>5, <3>1, <3>2
  <2>6. CASE o # b
    <3>1. send[c][1] # x(o)
      BY <1>3, <1>4, <1>13, <2>6 DEF Debts
    <3>2. (\E i \in DOMAIN send[c] : i # 1 /\ send[c][i] = x(o))
             <=> \E i \in DOMAIN send[c] : send[c][i] = x(o)
      BY <3>1
    <3>3. QED
      BY <2>2, <2>3, <2>4, <2>6, <3>2
  <2>7. QED
    BY <2>5, <2>6
<1>14. QED
  BY <1>10, <1>12, <1>13

\* Every step of the hub is a step of RoomBroadcast under the mapping, or none.
LEMMA StepFansOut ==
  ASSUME IInv, [Next]_vars
  PROVE  [FanOut!Next]_(FanOut!vars)
<1> USE HubAssumption
<1>1. TypeOK /\ PumpInv /\ RegistryMatchesRuns /\ FreshInv
  BY DEF IInv
<1>2. \A b \in Debts : b.to \in Clients /\ b.from \in Clients
  BY DEF Debts
<1>3. ASSUME NEW c \in Clients, Register(c) PROVE FanOut!Next
  <2>1. Owed' = Owed
    BY <1>3 DEF Register, Owed, OnItsWay
  <2>2. {d \in Clients : run[d] = "serving"}' = {d \in Clients : run[d] = "serving"} \cup {c}
    BY <1>1, <1>3 DEF Register, TypeOK
  <2>3. {d \in Clients : reader[d] = "storing"}' = {d \in Clients : reader[d] = "storing"}
    BY <1>1, <1>3 DEF Register, PumpInv, TypeOK
  <2>4. FanOut!Join(c)
    BY <1>1, <1>3, <2>1, <2>2, <2>3 DEF Register, FreshInv, FanOut!Join
  <2>5. QED
    BY <2>4 DEF FanOut!Next
<1>4. ASSUME NEW c \in Clients, Unregister(c) PROVE FanOut!Next
  <2>1. Owed' = Owed
    BY <1>4 DEF Unregister, Owed, OnItsWay
  <2>2. {d \in Clients : run[d] = "serving"}' = {d \in Clients : run[d] = "serving"} \ {c}
    BY <1>1, <1>4 DEF Unregister, TypeOK
  <2>3. FanOut!Leave(c)
    BY <1>1, <1>4, <2>1, <2>2 DEF Unregister, PumpInv, FanOut!Leave
  <2>4. QED
    BY <2>3 DEF FanOut!Next
<1>5. ASSUME NEW c \in Clients, ReadEnds(c) \/ BroadcastDone(c) PROVE UNCHANGED FanOut!vars
  <2>1. UNCHANGED <<closed, run, lastSeq, got, send, targets>>
    BY <1>5 DEF ReadEnds, BroadcastDone
  <2>2. Owed' = Owed
    BY <2>1 DEF Owed, OnItsWay
  <2>3. \A d \in Clients : reader'[d] = "storing" <=> reader[d] = "storing"
    BY <1>1, <1>5 DEF ReadEnds, BroadcastDone, TypeOK
  <2>4. QED
    BY <2>1, <2>2, <2>3, Unseen
<1>6. ASSUME NEW c \in Clients, ReadPing(c) PROVE UNCHANGED FanOut!vars
  <2>1. UNCHANGED <<closed, run, reader, lastSeq, got, targets>>
    BY <1>6 DEF ReadPing, connVars
  <2>2. ASSUME NEW b \in Debts PROVE OnItsWay(b)' <=> OnItsWay(b)
    <3>1. CASE b.to # c
      BY <1>1, <1>2, <1>6, <2>1, <3>1, WayUnchanged DEF ReadPing, TypeOK
    <3>2. CASE b.to = c
      <4> DEFINE x == [from |-> b.from, seq |-> b.seq]
      <4>1. x # Pong
        BY DEF Debts, SightingPayload
      <4> HIDE DEF x
      <4>2. send[c] \in Seq(Payload) /\ Pong \in Payload /\ send'[c] = Append(send[c], Pong)
        BY <1>1, <1>6 DEF ReadPing, TypeOK, Payload
      <4>3. /\ DOMAIN send'[c] = 1..(Len(send[c]) + 1)
            /\ DOMAIN send[c] = 1..Len(send[c]) /\ Len(send[c]) \in Nat
            /\ \A i \in DOMAIN send[c] : send'[c][i] = send[c][i]
            /\ send'[c][Len(send[c]) + 1] = Pong
        BY <4>2, QueueAppend
      <4>4. DOMAIN send'[c] = DOMAIN send[c] \cup {Len(send[c]) + 1}
        BY <4>3
      <4>5. (\E i \in DOMAIN send'[c] : send'[c][i] = x) <=> \E i \in DOMAIN send[c] : send[c][i] = x
        BY <4>1, <4>3, <4>4
      <4>6. QED
        BY <2>1, <3>2, <4>5 DEF OnItsWay, x
    <3>3. QED
      BY <3>1, <3>2
  <2>3. Owed' = Owed
    BY <2>1, <2>2, OwedUnchanged
  <2>4. QED
    BY <2>1, <2>3, Unseen
<1>7. ASSUME NEW c \in Clients, NEW seq \in 0..MaxSeq, ReadSighting(c, seq)
      PROVE  FanOut!Next
  <2>1. UNCHANGED <<closed, run, got, send, targets>> /\ targets[c] = {} /\ lastSeq[c] < seq
    <3>1. UNCHANGED <<closed, run, got, send, targets>>
      BY <1>7 DEF ReadSighting
    <3>2. targets[c] = {}
      BY <1>1, <1>7 DEF ReadSighting, PumpInv
    <3>3. lastSeq[c] < seq
      BY <1>1, <1>7 DEF ReadSighting, TypeOK, NoSeq
    <3>4. QED
      BY <3>1, <3>2, <3>3
  <2>2. lastSeq' = [lastSeq EXCEPT ![c] = seq]
    BY <1>7 DEF ReadSighting
  <2>3. ASSUME NEW b \in Debts PROVE OnItsWay(b)' <=> OnItsWay(b)
    <3>1. b.from # c => lastSeq'[b.from] = lastSeq[b.from]
      BY <1>1, <1>2, <2>2 DEF TypeOK
    <3>2. QED
      BY <2>1, <3>1 DEF OnItsWay
  <2>4. Owed' = Owed
    BY <2>1, <2>3, OwedUnchanged
  <2>5. {d \in Clients : reader[d] = "storing"}' = {d \in Clients : reader[d] = "storing"} \cup {c}
    BY <1>1, <1>7 DEF ReadSighting, TypeOK
  <2>6. seq > lastSeq[c] /\ run[c] = "serving" /\ ~closed[c] /\ reader[c] # "storing"
    <3>1. run[c] = "serving"
      BY <1>1, <1>7 DEF ReadSighting, PumpInv, TypeOK
    <3>2. lastSeq[c] \in Int
      BY <1>1 DEF TypeOK, NoSeq
    <3>3. QED
      BY <1>7, <2>1, <3>1, <3>2 DEF ReadSighting
  <2>7. FanOut!Accept(c, seq)
    BY <2>1, <2>2, <2>4, <2>5, <2>6 DEF FanOut!Accept
  <2>8. QED
    BY <2>7 DEF FanOut!Next
<1>8. ASSUME NEW c \in Clients, BroadcastSnapshot(c) PROVE FanOut!Next
  <2>1. UNCHANGED <<closed, run, got, send, lastSeq>>
    BY <1>8 DEF BroadcastSnapshot
  <2>2. Room(RoomOf[c]) = {d \in Clients : run[d] = "serving" /\ RoomOf[d] = RoomOf[c]}
    BY <1>1 DEF RegistryMatchesRuns, Room
  <2>3. targets[c] = {} /\ lastSeq[c] \in 0..MaxSeq
    BY <1>1, <1>8 DEF BroadcastSnapshot, PumpInv, TypeOK
  <2>4. /\ targets'[c] = Room(RoomOf[c]) \ {c}
        /\ \A d \in Clients : d # c => targets'[d] = targets[d]
    BY <1>1, <1>8 DEF BroadcastSnapshot, TypeOK
  <2>5. ASSUME NEW b \in Debts
        PROVE  OnItsWay(b)' <=>
                 \/ OnItsWay(b)
                 \/ b.from = c /\ b.seq = lastSeq[c] /\ b.to \in Room(RoomOf[c]) \ {c}
    <3>1. CASE b.from = c
      BY <2>1, <2>3, <2>4, <3>1 DEF OnItsWay
    <3>2. CASE b.from # c
      BY <1>2, <2>1, <2>4, <3>2 DEF OnItsWay
    <3>3. QED
      BY <3>1, <3>2
  <2> DEFINE new == {[to |-> d, from |-> c, seq |-> lastSeq[c]] : d \in FanOut!Audience(c)}
  <2>6. FanOut!Audience(c) = {d \in Room(RoomOf[c]) \ {c} : ~closed[d]}
    BY <2>2 DEF FanOut!Audience
  <2>7. \A b \in Debts : b \in new <=> /\ b.from = c /\ b.seq = lastSeq[c]
                                       /\ b.to \in Room(RoomOf[c]) \ {c} /\ ~closed[b.to]
    BY <2>6 DEF Debts
  <2>8. new \subseteq Debts
    <3>1. \A d \in FanOut!Audience(c) : d \in Clients
      BY <2>2, <2>6
    <3>2. QED
      BY <2>3, <3>1 DEF Debts
  <2> HIDE DEF new
  <2>9. Owed' = Owed \cup new
    BY <2>1, <2>5, <2>7, <2>8 DEF Owed, Debts
  <2>10. {d \in Clients : reader[d] = "storing"}' = {d \in Clients : reader[d] = "storing"} \ {c}
    BY <1>1, <1>8 DEF BroadcastSnapshot, TypeOK
  <2>11. c \in {d \in Clients : reader[d] = "storing"}
    BY <1>8 DEF BroadcastSnapshot
  <2>12. FanOut!Share(c)
    BY <2>1, <2>9, <2>10, <2>11 DEF FanOut!Share, new
  <2>13. QED
    BY <2>12 DEF FanOut!Next
<1>9. ASSUME NEW c \in Clients, NEW d \in Clients, BroadcastSend(c, d)
      PROVE  [FanOut!Next]_(FanOut!vars)
  <2>1. UNCHANGED <<run, reader, lastSeq, got>>
    BY <1>9 DEF BroadcastSend
  <2>2. CASE /\ send' = [send EXCEPT ![d] = Append(send[d], [from |-> c, seq |-> lastSeq[c]])]
             /\ UNCHANGED closed
    <3>1. Owed' = Owed
      BY <1>1, <1>9, <2>2, QueueingKeepsWay, OwedUnchanged
    <3>2. QED
      BY <2>1, <2>2, <3>1, Unseen
  <2>3. CASE closed' = [closed EXCEPT ![d] = TRUE] /\ UNCHANGED send
    <3>1. run[d] # "new"
      BY <1>1, <1>9 DEF BroadcastSend, FreshInv
    <3>2. ASSUME NEW b \in Debts, b.to # d PROVE OnItsWay(b)' <=> OnItsWay(b)
      <4>1. b.to \in targets'[b.from] <=> b.to \in targets[b.from]
        BY <1>1, <1>2, <1>9, <3>2 DEF BroadcastSend, TypeOK
      <4>2. QED
        BY <2>1, <2>3, <4>1, WayUnchanged
    <3>3. QED
      BY <1>1, <2>1, <2>3, <3>1, <3>2, ClosingIsCut
  <2>4. QED
    BY <1>9, <2>2, <2>3 DEF BroadcastSend
<1>10. ASSUME NEW c \in Clients, WriteFrame(c) PROVE [FanOut!Next]_(FanOut!vars)
  <2> DEFINE p == Head(send[c])
  <2>1. UNCHANGED <<closed, run, reader, lastSeq, targets>>
    BY <1>10 DEF WriteFrame, connVars
  <2>2. send[c] \in Seq(Payload) /\ send[c] # <<>> /\ ~closed[c] /\ run[c] = "serving"
    BY <1>1, <1>10 DEF WriteFrame, PumpInv, TypeOK
  <2>3. p \in Payload /\ p = send[c][1] /\ 1 \in DOMAIN send[c]
    BY <2>2, QueueSplit
  <2>4. \A o \in Debts : o.to # c => (OnItsWay(o)' <=> OnItsWay(o))
    <3>1. \A o \in Debts : o.to # c => send'[o.to] = send[o.to]
      BY <1>1, <1>2, <1>10 DEF WriteFrame, TypeOK
    <3>2. QED
      BY <2>1, <3>1, WayUnchanged
  <2>5. CASE p = Pong
    <3>1. got' = got
      BY <1>10, <2>5 DEF WriteFrame
    <3>2. ASSUME NEW o \in Debts, o.to = c PROVE OnItsWay(o)' <=> OnItsWay(o)
      <4> DEFINE x == [from |-> o.from, seq |-> o.seq]
      <4>1. x # Pong
        BY DEF Debts, SightingPayload
      <4> HIDE DEF x
      <4>2. send'[c] = Tail(send[c])
        BY <1>1, <1>10 DEF WriteFrame, TypeOK
      <4>3. /\ DOMAIN send'[c] = 1..(Len(send[c]) - 1)
            /\ DOMAIN send[c] = 1..Len(send[c]) /\ Len(send[c]) \in Nat
            /\ \A i \in DOMAIN send'[c] : send'[c][i] = send[c][i + 1]
        BY <2>2, <4>2
      <4>4. ASSUME NEW i \in DOMAIN send[c], send[c][i] = x
            PROVE  \E j \in DOMAIN send'[c] : send'[c][j] = x
        <5>1. i # 1
          BY <2>3, <2>5, <4>1, <4>4
        <5>2. i - 1 \in DOMAIN send'[c] /\ (i - 1) + 1 = i
          BY <4>3, <5>1
        <5>3. send'[c][i - 1] = x
          BY <4>3, <4>4, <5>2
        <5>4. QED
          BY <5>2, <5>3
      <4>5. ASSUME NEW i \in DOMAIN send'[c], send'[c][i] = x
            PROVE  \E j \in DOMAIN send[c] : send[c][j] = x
        <5>1. i + 1 \in DOMAIN send[c] /\ send[c][i + 1] = x
          BY <4>3, <4>5
        <5>2. QED
          BY <5>1
      <4>6. QED
        BY <2>1, <3>2, <4>4, <4>5 DEF OnItsWay, x
    <3>3. Owed' = Owed
      BY <2>1, <2>4, <3>2, OwedUnchanged
    <3>4. QED
      BY <2>1, <3>1, <3>3, Unseen
  <2>6. CASE p # Pong
    <3> DEFINE b == [to |-> c, from |-> p.from, seq |-> p.seq]
    <3>1. b \in Debts /\ b.to = c /\ b.from = p.from /\ b.seq = p.seq
      BY <2>3, <2>6 DEF Payload, SightingPayload, Debts
    <3> HIDE DEF b
    <3>2. /\ b \in Owed
          /\ FanOut!Oldest(b)
          /\ \A o \in Debts : o.to = c => (OnItsWay(o)' <=> OnItsWay(o) /\ o # b)
      BY <1>10, <2>6, <3>1, HeadIsOldest
    <3>3. Owed' = Owed \ {b}
      BY <2>1, <2>4, <3>1, <3>2 DEF Owed, Debts
    <3>4. got' = [got EXCEPT ![b.to][b.from] = b.seq]
      BY <1>10, <2>6, <3>1 DEF WriteFrame
    <3>5. FanOut!Deliver(b)
      BY <2>1, <2>2, <3>1, <3>2, <3>3, <3>4 DEF FanOut!Deliver
    <3>6. QED
      BY <3>2, <3>5 DEF FanOut!Next
  <2>7. QED
    BY <2>5, <2>6
<1>11. ASSUME NEW c \in Clients, WriteFails(c) \/ RevokeClose(c)
       PROVE  [FanOut!Next]_(FanOut!vars)
  <2>1. /\ run[c] # "new"
        /\ closed' = [closed EXCEPT ![c] = TRUE]
        /\ UNCHANGED <<run, reader, lastSeq, got, targets>>
        /\ \A d \in Clients : d # c => send'[d] = send[d]
    BY <1>1, <1>11 DEF WriteFails, RevokeClose, PumpInv, FreshInv, TypeOK
  <2>2. \A b \in Debts : b.to # c => (OnItsWay(b)' <=> OnItsWay(b))
    BY <1>2, <2>1, WayUnchanged
  <2>3. QED
    BY <1>1, <2>1, <2>2, ClosingIsCut
<1>12. ASSUME UNCHANGED <<run, reader, closed, send, lastSeq, targets, got>>
       PROVE  UNCHANGED FanOut!vars
  <2>1. Owed' = Owed
    BY <1>12 DEF Owed, OnItsWay
  <2>2. QED
    BY <1>12, <2>1, Unseen
<1>13. ASSUME NEW g, NEW a, RevokeSnapshot(g, a) PROVE UNCHANGED FanOut!vars
  BY <1>12, <1>13 DEF RevokeSnapshot, connVars
<1>14. CASE UNCHANGED vars
  BY <1>12, <1>14 DEF vars
<1>15. QED
  BY <1>3, <1>4, <1>5, <1>6, <1>7, <1>8, <1>9, <1>10, <1>11, <1>13, <1>14 DEF Next, ReadPump

----------------------------------------------------------------------------

\* The hub's state stays well formed whatever the connections do; in particular
\* a client's queue only ever holds payloads this process built.
THEOREM HubTypeCorrect == Spec => []TypeOK
<1>1. IInv => TypeOK
  BY DEF IInv
<1>2. QED
  BY <1>1, Inductive, PTL

\* Register and Unregister, run by every client's own goroutine in any order,
\* keep the room map and the head count equal to the set of clients being
\* served, and no client stays in a room after its Run returned.
THEOREM HubRegistryCorrect == Spec => []RegistryMatchesRuns
<1>1. IInv => RegistryMatchesRuns
  BY DEF IInv
<1>2. QED
  BY <1>1, Inductive, PTL

\* Broadcast never crosses a room, although it works from a snapshot taken
\* before the lock was released.
THEOREM HubRoomIsolation == Spec => []SightingsStayInRoom
<1>1. IInv => SightingsStayInRoom
  BY DEF IInv
<1>2. QED
  BY <1>1, Inductive, PTL

\* A peer never sees two batches of one reporter swapped or repeated, however
\* many reporters fan out at once and whichever frames are lost.
THEOREM HubOrder == Spec => []BatchesInOrder
<1>1. IInv => BatchesInOrder
  BY DEF IInv
<1>2. QED
  BY <1>1, Inductive, PTL

\* When Client.Run returns, both pumps have returned and the connection is closed.
THEOREM HubTeardown == Spec => []FinishedIsClosed
<1>1. IInv => FinishedIsClosed
  BY DEF IInv, PumpInv, FinishedIsClosed
<1>2. QED
  BY <1>1, Inductive, PTL

\* The hub implements RoomBroadcast for any number of clients and rooms and any
\* buffer: a batch that was fanned out reaches, in order, each peer that was in the
\* room at the snapshot, or the hub closes that peer. Broadcast never drops one
\* quietly, and a send to a client that has left is no debt.
THEOREM HubKeepsFanOut == Spec => KeepsFanOut
<1>1. Init => FanOut!Init
  <2> SUFFICES ASSUME Init PROVE FanOut!Init
    OBVIOUS
  <2>1. Owed = {}
    BY DEF Init, Owed, OnItsWay
  <2>2. QED
    BY <2>1 DEF Init, FanOut!Init, NoSeq, FanOut!NoSeq
<1>2. IInv /\ [Next]_vars => [FanOut!Next]_(FanOut!vars)
  BY StepFansOut
<1>3. QED
  BY <1>1, <1>2, Inductive, PTL DEF Spec, KeepsFanOut, FanOut!Spec
=============================================================================
