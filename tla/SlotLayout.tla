------------------------------ MODULE SlotLayout ------------------------------
(***************************************************************************)
(* How the slots of a superframe are laid out in lib/net (multihop.cpp,    *)
(* main.cpp): one advertising slot, then REUSE_DISTANCE windows of equal   *)
(* length, one for the clusterheads of each ring modulo REUSE_DISTANCE.    *)
(* In a window, slot 0 is unused, each follower sends in one slot, and the *)
(* clusterhead answers in the last.                                        *)
(***************************************************************************)
EXTENDS Integers

CONSTANTS SUPERFRAME_SLOT_COUNT, REUSE_DISTANCE

ASSUME SlotAssumption ==
    /\ SUPERFRAME_SLOT_COUNT \in Nat /\ REUSE_DISTANCE \in Nat \ {0}
    /\ SUPERFRAME_SLOT_COUNT > REUSE_DISTANCE

GATEWAY_ADDR == 0
UNKNOWN_ADDR == 255
UNKNOWN_RING == 255
GATEWAY_RING == 0
ADV_SLOTS == 1

vtdma_window_size == (SUPERFRAME_SLOT_COUNT - ADV_SLOTS) \div REUSE_DISTANCE

\* Mutant: the rings take turns in one window fewer.
downstream_start_slot_Crowded(r) ==
    ADV_SLOTS + (REUSE_DISTANCE - 1 - (r % (REUSE_DISTANCE - 1))) * vtdma_window_size

\* The slot a clusterhead's downstream window starts at (prepare_clusterhead):
\* deeper rings first, the gateway's window last, so that data can travel to
\* the gateway within one superframe.
downstream_start_slot(r) ==
    ADV_SLOTS + (REUSE_DISTANCE - 1 - (r % REUSE_DISTANCE)) * vtdma_window_size
=============================================================================
