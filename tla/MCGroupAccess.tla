--------------------------- MODULE MCGroupAccess ---------------------------
(***************************************************************************)
(* One founded group and one that may still be created; an owner and a     *)
(* member; two connections of the member.  The two threads are alike, and  *)
(* so are the two connections.                                             *)
(***************************************************************************)
EXTENDS GroupAccess, TLC

CONSTANTS owner1, member1, c1, c2, w1, w2

MCAccounts == {owner1, member1}
MCFounders == [g \in Groups |-> IF g = "g1" THEN owner1 ELSE None]
MCConns == {c1, c2}
MCConnAccount == [c \in MCConns |-> member1]
MCWorkers == {w1, w2}
MCSymmetry == Permutations(MCConns) \cup Permutations(MCWorkers)
=============================================================================
