---------------------------- MODULE AtLeastOnce ----------------------------
(***************************************************************************)
(* What the durable path promises its handlers, whatever breaks: an entry  *)
(* is finished only after its handler succeeded on it, it is finished once, *)
(* and it is given up unhandled only if the stream has grown by MaxLen     *)
(* since, or if it is older than the stream's latest fresh start.          *)
(***************************************************************************)
EXTENDS Integers

CONSTANT MaxLen

VARIABLES
    published,  \* entries published so far; they are numbered from 1
    since,      \* the promise holds for entries after this one
    applied,    \* entries some handler call succeeded on
    done,       \* entries finished
    lost        \* entries given up

vars == <<published, since, applied, done, lost>>

Entries == 1..published

Init ==
    /\ published = 0
    /\ since = 0
    /\ applied = {}
    /\ done = {}
    /\ lost = {}

\* Entries that may be given up.
Forfeit == {i \in Entries \ done : i <= since \/ i <= published - MaxLen}

\* Some of them are.
GiveUp == lost' \in {lost \cup S : S \in SUBSET Forfeit'}

\* A new entry may push old ones out.
Publish ==
    /\ published' = published + 1
    /\ UNCHANGED <<since, applied, done>>
    /\ GiveUp

\* The stream starts afresh.
StartAfresh ==
    /\ since' = published
    /\ UNCHANGED <<published, applied, done>>
    /\ GiveUp

\* A handler call succeeds, perhaps not for the first time.
Apply(i) ==
    /\ i \in Entries \ lost
    /\ applied' = applied \cup {i}
    /\ UNCHANGED <<published, since, done, lost>>

\* The end of a batch may also be the end of what was left of it.
Finish(i) ==
    /\ i \in applied \ (done \cup lost)
    /\ done' = done \cup {i}
    /\ UNCHANGED <<published, since, applied>>
    /\ GiveUp

Abandon ==
    /\ UNCHANGED <<published, since, applied, done>>
    /\ GiveUp

Next ==
    \/ Publish
    \/ StartAfresh
    \/ \E i \in Entries : Apply(i) \/ Finish(i)
    \/ Abandon

Spec == Init /\ [][Next]_vars
=============================================================================
