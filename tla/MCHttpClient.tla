---------------------------- MODULE MCHttpClient ----------------------------
(* Instance of HttpClient for TLC: which requests fetch a token of their own. *)
EXTENDS HttpClient, TLC

CONSTANTS w, r, d, gw, gr, gd

WriteGrant == w :> gw

\* States that differ only in local variables nobody will read again are one:
\* those of a request that has ended, and the Slot it last held a place of.
View ==
  <<pc, limit, gen, active, waiters, st, outcome, hostVars, applied,
    [x \in Requests |-> IF pc[x] \in {"waiting", "granted", "running"}
                          THEN genOf[x] ELSE 0],
    [x \in Requests |-> IF st[x] = "done" THEN <<>>
                        ELSE <<attempt[x], reply[x], replayed[x], aborted[x], late[x]>>]>>
==============================================================================
