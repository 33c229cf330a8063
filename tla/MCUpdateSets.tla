---------------------------- MODULE MCUpdateSets ----------------------------
EXTENDS UpdateSets, TLC
CONSTANTS c1, c2, c3, s1, s2, own
BoundTo == (c1 :> s1) @@ (c2 :> s2) @@ (c3 :> own)
=============================================================================
