------------------------------ MODULE LoraRadio ------------------------------
(***************************************************************************)
(* lib/lora/src/LoraRadio.cpp as built for the simulator: the radio is a   *)
(* file, one for each spreading factor, and a change of spreading factor   *)
(* closes one and opens another.  The operators act on the module's static *)
(* state, a record                                                         *)
(*     [initialized |-> INITIALIZED, file |-> RF95, spread |-> SPREAD]     *)
(* and return the set of records they may leave: open and close may fail,  *)
(* and their callers in link_layer.cpp ignore it.                          *)
(***************************************************************************)
EXTENDS Integers

NoFile == -1
DefaultSpread == 6
SpreadingFactors == 6 .. 12

\* link::hash_cdma_code.
hash_cdma_code(id) == (id % 7) + 6

Off == [initialized |-> FALSE, file |-> NoFile, spread |-> DefaultSpread]

\* init: a failed open leaves INITIALIZED as it was.
Opened(r) ==
    {[initialized |-> TRUE, file |-> r.spread, spread |-> r.spread],
     [r EXCEPT !.file = NoFile]}

\* deinit: a failed close leaves INITIALIZED set.
Closed(r) == {[r EXCEPT !.initialized = FALSE], r}

\* Mutant: the radio is opened again before SPREAD is assigned.
set_spreading_factor_Stale(r, sf) ==
    {[o EXCEPT !.spread = sf] :
        o \in UNION {Opened(c) : c \in IF r.initialized THEN Closed(r) ELSE {r}}}

set_spreading_factor(r, sf) ==
    UNION {Opened([c EXCEPT !.spread = sf]) : c \in IF r.initialized THEN Closed(r) ELSE {r}}

\* link::set_cdma_code, which ignores what set_spreading_factor returns.
set_cdma_code(r, id) == set_spreading_factor(r, hash_cdma_code(id))

\* What send and wait_recv begin with: a radio that is not active is opened.
Activated(r) == IF r.initialized THEN {r} ELSE Opened(r)
=============================================================================
