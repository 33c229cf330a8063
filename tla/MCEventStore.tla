---------------------------- MODULE MCEventStore ----------------------------
(* Instance of EventStore for TLC. *)
EXTENDS EventStore, TLC

CONSTANTS s1, s2, r1, r2

Symmetry == Permutations(Replays)
=============================================================================
