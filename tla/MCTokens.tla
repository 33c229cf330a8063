------------------------------ MODULE MCTokens ------------------------------
(***************************************************************************)
(* Instance of both holders of OAuth tokens for TLC: the links of users    *)
(* (UserTokens) and the provider (OAuthTokens).  They share no variable,   *)
(* and each property is about one of them.  So every behaviour of the one  *)
(* is covered by those in which the other stays where it began.            *)
(***************************************************************************)
EXTENDS UserTokens, OAuthTokens, TLC

CONSTANTS p1, p2, c1, c2, c3, l1, l2, o1, o2, a1, a2

CallAt == (c1 :> p1) @@ (c2 :> p1) @@ (c3 :> p2)

Symmetry == UNION {Permutations(S) : S \in {{c1, c2}, {l1, l2}, {o1, o2}, {a1, a2}}}

TokensInit == Init /\ ProviderInit

TokensNext ==
    \/ ProviderInit /\ UNCHANGED providerVars /\ Next
    \/ Init /\ UNCHANGED vars /\ ProviderNext

TokensSpec == TokensInit /\ [][TokensNext]_<<vars, providerVars>>
=============================================================================
