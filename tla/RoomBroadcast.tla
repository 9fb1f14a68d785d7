--------------------------- MODULE RoomBroadcast ---------------------------
(***************************************************************************)
(* What a relay room promises: a batch that was accepted and shared is     *)
(* owed to everyone connected in the reporter's room at that moment.  It   *)
(* is delivered, oldest first, to each of them; the only way out of a debt *)
(* is to cut the peer off, which cancels everything owed to it.  Nobody    *)
(* who stays connected misses a batch.                                     *)
(***************************************************************************)
EXTENDS Integers

CONSTANTS Clients, RoomOf, MaxSeq

VARIABLES
    present,    \* connections being served
    cut,        \* connections closed from this side
    latest,     \* latest[c]: number of the last batch accepted from c
    pending,    \* reporters whose last batch is accepted and not yet shared
    owed,       \* batches on their way: [to, from, seq]
    got         \* got[c][d]: the last batch of d delivered to c

vars == <<present, cut, latest, pending, owed, got>>

NoSeq == -1

Init ==
    /\ present = {}
    /\ cut = {}
    /\ latest = [c \in Clients |-> NoSeq]
    /\ pending = {}
    /\ owed = {}
    /\ got = [c \in Clients |-> [d \in Clients |-> NoSeq]]

Join(c) ==
    /\ c \notin present \cup cut
    /\ present' = present \cup {c}
    /\ UNCHANGED <<cut, latest, pending, owed, got>>

\* A connection leaves after it was cut off and its reporter is done.
Leave(c) ==
    /\ c \in (present \cap cut) \ pending
    /\ present' = present \ {c}
    /\ UNCHANGED <<cut, latest, pending, owed, got>>

Accept(c, seq) ==
    /\ c \in present \ (cut \cup pending)
    /\ seq > latest[c]
    /\ latest' = [latest EXCEPT ![c] = seq]
    /\ pending' = pending \cup {c}
    /\ UNCHANGED <<present, cut, owed, got>>

\* Those who get what c shares.
Audience(c) == {d \in (present \ cut) \ {c} : RoomOf[d] = RoomOf[c]}

Share(c) ==
    /\ c \in pending
    /\ pending' = pending \ {c}
    /\ owed' = owed \cup {[to |-> d, from |-> c, seq |-> latest[c]] : d \in Audience(c)}
    /\ UNCHANGED <<present, cut, latest, got>>

Oldest(b) == \A o \in owed : o.to = b.to /\ o.from = b.from => b.seq <= o.seq

Deliver(b) ==
    /\ b \in owed
    /\ b.to \in present \ cut
    /\ Oldest(b)
    /\ owed' = owed \ {b}
    /\ got' = [got EXCEPT ![b.to][b.from] = b.seq]
    /\ UNCHANGED <<present, cut, latest, pending>>

Cut(c) ==
    /\ c \in present
    /\ cut' = cut \cup {c}
    /\ owed' = {b \in owed : b.to # c}
    /\ UNCHANGED <<present, latest, pending, got>>

Next ==
    \/ \E c \in Clients :
        \/ Join(c)
        \/ Leave(c)
        \/ \E seq \in 0..MaxSeq : Accept(c, seq)
        \/ Share(c)
        \/ Cut(c)
    \/ \E b \in owed : Deliver(b)

Spec == Init /\ [][Next]_vars
=============================================================================
