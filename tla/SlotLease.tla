------------------------------ MODULE SlotLease ------------------------------
(***************************************************************************)
(* What a clusterhead promises its followers about the slots of its        *)
(* downstream window: within a superframe a slot, once granted, stays with *)
(* its follower, no follower is granted two, and no slot has two.  Which   *)
(* free slot a follower gets is left open, and so is which of them ever    *)
(* learns of its slot.  ClusterFormation implements this specification for *)
(* every node.                                                             *)
(***************************************************************************)
EXTENDS Naturals

CONSTANTS Follower, NoFollower, Slot, Epoch

VARIABLES
    epoch,   \* the superframe
    lease    \* the follower each slot is granted to

LeaseTypeOK ==
    /\ epoch \in Epoch
    /\ lease \in [Slot -> Follower \cup {NoFollower}]

NoLease == [s \in Slot |-> NoFollower]

Holds(f) == \E s \in Slot : lease[s] = f

LeaseInit == epoch \in Epoch /\ lease = NoLease

\* A follower without a slot is granted a free one.
Grant(f, s) ==
    /\ ~Holds(f)
    /\ lease[s] = NoFollower
    /\ lease' = [lease EXCEPT ![s] = f]
    /\ UNCHANGED epoch

\* A superframe begins: every lease ends, and only then.
Expire ==
    /\ epoch' \in Epoch /\ epoch' # epoch
    /\ lease' = NoLease

LeaseNext == (\E f \in Follower, s \in Slot : Grant(f, s)) \/ Expire

LeaseSpec == LeaseInit /\ [][LeaseNext]_<<epoch, lease>>

-----------------------------------------------------------------------------
\* No follower holds two slots, so no two followers are told to transmit in
\* the same slot of one window and none transmits twice (accept,
\* multihop.cpp:370-414).
OneSlotEach ==
    \A s, t \in Slot : lease[s] = lease[t] /\ lease[s] # NoFollower => s = t
=============================================================================
