------------------------------ MODULE FramePool ------------------------------
(***************************************************************************)
(* What the physical memory manager promises its callers: after the pool   *)
(* is opened, frames are taken from it and returned; a frame has one       *)
(* holder at a time, reserved frames have none, and the number of frames   *)
(* left is exact.                                                          *)
(***************************************************************************)
EXTENDS Integers, FiniteSets

CONSTANT Reserved

VARIABLES open, left, held

poolVars == <<open, left, held>>

PoolInit == open = FALSE /\ left = 0 /\ held = {}

Open ==
    /\ ~ open /\ open' = TRUE
    /\ left' \in Nat
    /\ UNCHANGED held

Take(S) ==
    /\ open
    /\ S \cap (held \cup Reserved) = {}
    /\ Cardinality(S) <= left
    /\ left' = left - Cardinality(S)
    /\ held' = held \cup S
    /\ UNCHANGED open

Return(f) ==
    /\ f \in held
    /\ left' = left + 1
    /\ held' = held \ {f}
    /\ UNCHANGED open

(* The frames a step takes are those it adds to the held ones. *)
PoolNext ==
    \/ Open
    \/ Take(held' \ held)
    \/ \E f \in held : Return(f)

PoolSpec == PoolInit /\ [][PoolNext]_poolVars
=============================================================================
