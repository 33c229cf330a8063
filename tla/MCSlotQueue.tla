----------------------------- MODULE MCSlotQueue -----------------------------
(* Instance of SlotQueue for TLC.  Liveness is checked: no symmetry. *)
EXTENDS SlotQueue, TLC
==============================================================================
