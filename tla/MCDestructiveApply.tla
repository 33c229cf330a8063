------------------------- MODULE MCDestructiveApply -------------------------
(* Instance of DestructiveApply for TLC: the modes and weights of the runs. *)
EXTENDS DestructiveApply, TLC

CONSTANTS c1, c2, c3, c4, c5, del, bulk

Weights == (del :> 1) @@ (bulk :> 2)

\* Every mode in which a gate stands before the write, and of those without a
\* gate one in apply mode and one in plan mode: the others differ in nothing
\* that a call without a gate looks at.
GatedModes == {m \in ModeType : m.confirm # "off" /\ (~m.apply \/ m.prod)}
PlainMode  == {[apply |-> TRUE, prod |-> FALSE, confirm |-> "token",
                modern |-> TRUE, elicits |-> TRUE],
               [apply |-> FALSE, prod |-> FALSE, confirm |-> "off",
                modern |-> TRUE, elicits |-> TRUE]}
AllModes   == GatedModes \cup PlainMode

Symmetry == Permutations(Calls)
=============================================================================
