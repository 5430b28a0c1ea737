---------------------------- MODULE LinkRelease ----------------------------
(***************************************************************************)
(* What the JESD204B synchronisation controller promises to the transport  *)
(* layer, with nothing about how it does it.                               *)
(*                                                                         *)
(* The gate of a group of links is open while the group's samples are let  *)
(* through to the serialisers.  At every edge of the link clock            *)
(*   - a gate may only be opened on an LMFC boundary, and only if every    *)
(*     link the group requires is ready;                                   *)
(*   - an open gate stays open for as long as the links are ready;         *)
(*   - a gate is closed by the very edge that sees the links not ready.    *)
(* Between the edges the links may come and go and the software may        *)
(* change what a group requires; the gates do not move.                    *)
(***************************************************************************)
CONSTANT Group

VARIABLES
  rst,       \* the reset input sampled by the next edge
  boundary,  \* the LMFC boundary seen by the next edge
  ready,     \* ready[g]: every link that g requires is ready
  open       \* open[g]: the samples of g are released

vars == <<rst, boundary, ready, open>>

Init ==
  /\ rst \in BOOLEAN
  /\ boundary = FALSE
  /\ ready \in [Group -> BOOLEAN]
  /\ open = [g \in Group |-> FALSE]

Environment ==
  /\ rst' \in BOOLEAN
  /\ ready' \in [Group -> BOOLEAN]
  /\ UNCHANGED <<boundary, open>>

Reset ==
  /\ rst
  /\ boundary' = FALSE
  /\ open' = [g \in Group |-> FALSE]
  /\ UNCHANGED <<rst, ready>>

Edge ==
  /\ ~rst
  /\ open' \in [Group -> BOOLEAN]
  /\ \A g \in Group :
       /\ open'[g] => ready[g]
       /\ open[g] /\ ready[g] => open'[g]
       /\ ~open[g] /\ open'[g] => boundary
  /\ boundary' \in BOOLEAN
  /\ UNCHANGED <<rst, ready>>

Next == Environment \/ Reset \/ Edge

Spec == Init /\ [][Next]_vars
=============================================================================
