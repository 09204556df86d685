----------------------------- MODULE MCLinkBuffer -----------------------------
(***************************************************************************)
(* The messages of LinkBuffer with bodies of a fixed size.                 *)
(***************************************************************************)
EXTENDS LinkBuffer

MCFixed == [Heartbeat |-> 1, CloseCluster |-> 1]
=============================================================================
