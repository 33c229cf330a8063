----------------------------- MODULE SlotService -----------------------------
(***************************************************************************)
(* What the per-host request limiter (src/src/core/http-limits.ts)         *)
(* promises the callers of withSlot, without saying how the wait line is   *)
(* kept: at most Cap of them hold a place on the host, a call waits only   *)
(* behind somebody who holds one, and nobody is left waiting when the last *)
(* holder goes.                                                            *)
(***************************************************************************)
EXTENDS Naturals, FiniteSets

CONSTANTS
  Callers,  \* the calls of withSlot for one host
  Cap       \* the largest concurrency limit ever configured

VARIABLES
  holding,  \* the callers that hold a place on the host
  line      \* the callers that wait for one

serviceVars == <<holding, line>>

ServiceTypeOK ==
  /\ holding \subseteq Callers
  /\ line \subseteq Callers

Init ==
  /\ holding = {}
  /\ line = {}

\* A caller gets a place at once.
Take(c) ==
  /\ c \notin holding \cup line
  /\ Cardinality(holding) < Cap
  /\ holding' = holding \cup {c}
  /\ UNCHANGED line

\* A caller starts to wait: somebody holds a place that will come free.
Join(c) ==
  /\ c \notin holding \cup line
  /\ holding # {}
  /\ line' = line \cup {c}
  /\ UNCHANGED holding

\* A caller gives up waiting (its timer, or its abort signal).
Leave(c) ==
  /\ c \in line
  /\ line' = line \ {c}
  /\ UNCHANGED holding

\* A holder is done.  Its place goes to at most one waiting caller, and it may
\* stay free only if nobody waits or another holder is still there to hand over.
Free(c) ==
  /\ c \in holding
  /\ \/ \E next \in line :
          /\ holding' = (holding \ {c}) \cup {next}
          /\ line' = line \ {next}
     \/ /\ line = {} \/ holding # {c}
        /\ holding' = holding \ {c}
        /\ UNCHANGED line

\* The limiter is drained: it starts over, with nobody holding or waiting.
Reset ==
  /\ holding' = {}
  /\ line' = {}

Next ==
  \/ \E c \in Callers : Take(c) \/ Join(c) \/ Leave(c) \/ Free(c)
  \/ Reset

Spec == Init /\ [][Next]_serviceVars
==============================================================================
