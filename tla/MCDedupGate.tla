---------------------------- MODULE MCDedupGate ----------------------------
(* Two connections that report one entity, of each kind the gate tells apart: *)
(* a structure changes hands or is abandoned where it stands, a player of one *)
(* tribe moves.                                                               *)
EXTENDS DedupGate

CONSTANTS o1, o2

MCEntities ==
    { [cat |-> "structure", durable |-> TRUE, forms |-> [owner : Owners \cup {NoTribe}, cell : {1}]],
      [cat |-> "player", durable |-> TRUE, forms |-> [owner : {o1}, cell : Cells]],
      [cat |-> "dino", durable |-> FALSE, forms |-> [owner : {o1}, cell : {1}]] }
=============================================================================
