-------------------------- MODULE MCSharingService --------------------------
(***************************************************************************)
(* SharingService alone, with no relay listening: one founded group, its   *)
(* owner and one or two accounts to join it, two threads.                  *)
(***************************************************************************)
EXTENDS SharingService

MCFounders == [g \in Groups |-> "owner"]
=============================================================================
