----------------------------- MODULE MCRelayHub -----------------------------
(***************************************************************************)
(* Instances of RelayHub.  Three connections: two accounts of one group on *)
(* server s1, one of them connected to s2 as well, so that fan-out has two *)
(* rooms to keep apart and a revocation has two connections to close.      *)
(* Pair: the two on s1 alone, for ordering and liveness.                   *)
(***************************************************************************)
EXTENDS RelayHub

MCRooms == [group : {"g"}, server : {"s1", "s2"}]

MCTrio == {"ann", "bob", "ann2"}
MCTrioRoomOf == [c \in MCTrio |->
    [group |-> "g", server |-> IF c = "ann2" THEN "s2" ELSE "s1"]]
MCTrioAccountOf == [c \in MCTrio |-> IF c = "bob" THEN "b" ELSE "a"]

MCPair == {"ann", "bob"}
MCPairRoomOf == [c \in MCPair |-> [group |-> "g", server |-> "s1"]]
MCPairAccountOf == [c \in MCPair |-> IF c = "bob" THEN "b" ELSE "a"]
=============================================================================
