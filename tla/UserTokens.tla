----------------------------- MODULE UserTokens -----------------------------
(***************************************************************************)
(* The link of one OAuth subject to its ServiceNow account                 *)
(* (core/user-tokens.ts): the refresh token in the store file the replicas *)
(* share, the access token each of them caches, refreshes, the callback    *)
(* that completes a link and the request that drops it.                    *)
(*                                                                         *)
(* The instance is external: it may rotate a refresh token when it is used *)
(* (the old one is refused from then on), revoke one, and its answers may  *)
(* get lost.  Reads and writes of the store file are atomic here.          *)
(***************************************************************************)
EXTENDS Naturals

CONSTANTS Replicas,   \* server processes that share the store
          Calls,      \* delegated tool calls, each made again and again
          Where,      \* the replica a call runs on
          Links,      \* callbacks of the instance's authorize page
          MaxTokens,  \* bound: refresh tokens the instance issues
          Nobody

ASSUME UserTokensAssumption ==
    /\ Where \in [Calls -> Replicas]
    /\ MaxTokens \in Nat
    /\ Nobody \notin Replicas \cup Calls
    /\ {"linked", "never"} \cap Replicas = {}

VARIABLES store,    \* the subject's entry of the store file: a token, 0 if none
          issued,   \* tokens 1..issued exist
          valid,    \* those the instance accepts
          cached,   \* replicas with an unexpired access token
          inflight, \* the call whose refresh a replica shares
          pc, tok, new,     \* what a call does, with which token, and what it got
          stage, at, fresh, \* the callbacks: their replica and their token
          revoking, \* tokens of dropped links, about to be revoked
          wish,     \* history: "linked", or the replica that unlinked last
          excuse    \* history: since then, what the code does not protect from

calls == <<pc, tok, new>>
links == <<stage, at, fresh>>
vars == <<store, issued, valid, cached, inflight, calls, links, revoking, wish, excuse>>

Tokens == 0..MaxTokens
Busy == {"sent", "answered", "rejected"}

TypeOK ==
    /\ store \in Tokens /\ issued \in Tokens
    /\ valid \subseteq Tokens /\ revoking \subseteq Tokens
    /\ cached \subseteq Replicas
    /\ inflight \in [Replicas -> Calls \cup {Nobody}]
    /\ pc \in [Calls -> {"idle", "joined"} \cup Busy]
    /\ tok \in [Calls -> Tokens] /\ new \in [Calls -> Tokens]
    /\ stage \in [Links -> {"idle", "exchange", "verify", "done"}]
    /\ at \in [Links -> Replicas \cup {Nobody}] /\ fresh \in [Links -> Tokens]
    /\ \A l \in Links : stage[l] \in {"exchange", "verify"} => at[l] \in Replicas
    /\ wish \in {"linked", "never"} \cup Replicas
    /\ excuse \in BOOLEAN

Init ==
    /\ store = 0 /\ issued = 0
    /\ valid = {} /\ revoking = {}
    /\ cached = {}
    /\ inflight = [p \in Replicas |-> Nobody]
    /\ pc = [c \in Calls |-> "idle"]
    /\ tok = [c \in Calls |-> 0] /\ new = [c \in Calls |-> 0]
    /\ stage = [l \in Links |-> "idle"]
    /\ at = [l \in Links |-> Nobody] /\ fresh = [l \in Links |-> 0]
    /\ wish = "never"
    /\ excuse = FALSE

UnderWay == {c \in Calls : pc[c] \in Busy}

-----------------------------------------------------------------------------
(* userAccessToken *)

\* A refresh of this replica is under way: the call awaits it.
Join(c) ==
    /\ pc[c] = "idle"
    /\ Where[c] \notin cached
    /\ inflight[Where[c]] # Nobody
    /\ pc' = [pc EXCEPT ![c] = "joined"]
    /\ UNCHANGED <<store, issued, valid, cached, inflight, tok, new, links, revoking, wish, excuse>>

\* None is: load the account and send its refresh token.  (Without an account
\* the call fails with the link to open, and nothing changes.)
Refresh_Alone(c) ==
    /\ pc[c] = "idle"
    /\ Where[c] \notin cached
    /\ store # 0
    /\ pc' = [pc EXCEPT ![c] = "sent"]
    /\ tok' = [tok EXCEPT ![c] = store]
    /\ inflight' = [inflight EXCEPT ![Where[c]] = c]
    /\ excuse' = (excuse \/ \E d \in UnderWay : Where[d] # Where[c])
    /\ UNCHANGED <<store, issued, valid, cached, new, links, revoking, wish>>
Refresh(c) ==
    /\ pc[c] = "idle"
    /\ Where[c] \notin cached
    /\ inflight[Where[c]] = Nobody
    /\ store # 0
    /\ pc' = [pc EXCEPT ![c] = "sent"]
    /\ tok' = [tok EXCEPT ![c] = store]
    /\ inflight' = [inflight EXCEPT ![Where[c]] = c]
    \* Another replica may be using up the same token.
    /\ excuse' = (excuse \/ \E d \in UnderWay : Where[d] # Where[c])
    /\ UNCHANGED <<store, issued, valid, cached, new, links, revoking, wish>>

\* The instance grants the refresh, with the same token or a new one.
Grant(c) ==
    /\ pc[c] = "sent" /\ tok[c] \in valid
    /\ pc' = [pc EXCEPT ![c] = "answered"]
    /\ \/ /\ new' = [new EXCEPT ![c] = tok[c]]
          /\ UNCHANGED <<issued, valid>>
       \/ /\ issued < MaxTokens
          /\ issued' = issued + 1
          /\ valid' = (valid \ {tok[c]}) \cup {issued + 1}
          /\ new' = [new EXCEPT ![c] = issued + 1]
    /\ UNCHANGED <<store, cached, inflight, tok, links, revoking, wish, excuse>>

Refuse(c) ==
    /\ pc[c] = "sent" /\ tok[c] \notin valid
    /\ pc' = [pc EXCEPT ![c] = "rejected"]
    /\ UNCHANGED <<store, issued, valid, cached, inflight, tok, new, links, revoking, wish, excuse>>

\* The answer is lost and the request, idempotent to the client, sent again.
Resend(c) ==
    /\ pc[c] = "answered"
    /\ pc' = [pc EXCEPT ![c] = "sent"]
    /\ excuse' = (excuse \/ new[c] # tok[c])
    /\ UNCHANGED <<store, issued, valid, cached, inflight, tok, new, links, revoking, wish>>

\* The end of c's refresh, for c and for every call that joined it.
Ended(c) ==
    /\ pc' = [d \in Calls |-> IF d = c \/ (pc[d] = "joined" /\ Where[d] = Where[c])
                              THEN "idle" ELSE pc[d]]
    /\ tok' = [tok EXCEPT ![c] = 0]
    /\ new' = [new EXCEPT ![c] = 0]
    /\ inflight' = [inflight EXCEPT ![Where[c]] = Nobody]

\* Save the token if it was rotated, whatever the store holds by now.
Succeed(c) ==
    /\ pc[c] = "answered"
    /\ store' = IF new[c] # tok[c] THEN new[c] ELSE store
    /\ cached' = cached \cup {Where[c]}
    /\ Ended(c)
    /\ UNCHANGED <<issued, valid, links, revoking, wish, excuse>>

\* The token was refused: drop the account, whatever it holds by now.
Drop(c) ==
    /\ pc[c] = "rejected"
    /\ store' = 0
    /\ Ended(c)
    /\ UNCHANGED <<issued, valid, cached, links, revoking, wish, excuse>>

\* Any other failure: no answer in time, a server error, a refused client.
Fail(c) ==
    /\ pc[c] \in {"sent", "answered"}
    /\ excuse' = (excuse \/ (pc[c] = "answered" /\ new[c] # tok[c]))
    /\ Ended(c)
    /\ UNCHANGED <<store, issued, valid, cached, links, revoking, wish>>

\* The access token expires, or invalidateUserToken drops it after a 401.
Invalidate(p) ==
    /\ p \in cached
    /\ cached' = cached \ {p}
    /\ UNCHANGED <<store, issued, valid, inflight, calls, links, revoking, wish, excuse>>

-----------------------------------------------------------------------------
(* completeLink *)

Callback(l, p) ==
    /\ stage[l] = "idle"
    /\ stage' = [stage EXCEPT ![l] = "exchange"]
    /\ at' = [at EXCEPT ![l] = p]
    /\ UNCHANGED <<store, issued, valid, cached, inflight, calls, fresh, revoking, wish, excuse>>

\* exchangeAuthorizationCode: the code is worth a refresh token.
Exchange(l) ==
    /\ stage[l] = "exchange"
    /\ issued < MaxTokens
    /\ issued' = issued + 1
    /\ valid' = valid \cup {issued + 1}
    /\ stage' = [stage EXCEPT ![l] = "verify"]
    /\ fresh' = [fresh EXCEPT ![l] = issued + 1]
    /\ UNCHANGED <<store, cached, inflight, calls, at, revoking, wish, excuse>>

\* accountLogin confirmed that the account is the subject's.
Save(l) ==
    /\ stage[l] = "verify"
    /\ store' = fresh[l]
    /\ cached' = cached \cup {at[l]}
    /\ stage' = [stage EXCEPT ![l] = "done"]
    /\ wish' = "linked"
    \* A refresh with an older token will save or drop over this one; or the
    \* instance took this one back before it was saved.
    /\ excuse' = (UnderWay # {} \/ fresh[l] \notin valid)
    /\ UNCHANGED <<issued, valid, inflight, calls, at, fresh, revoking>>

\* The user refused, the exchange failed, or the account is somebody else's.
GiveUp(l) ==
    /\ stage[l] \in {"exchange", "verify"}
    /\ stage' = [stage EXCEPT ![l] = "done"]
    /\ UNCHANGED <<store, issued, valid, cached, inflight, calls, at, fresh, revoking, wish, excuse>>

-----------------------------------------------------------------------------
(* unlinkSubject *)

Unlink_KeepsToken(p) ==
    /\ store' = 0
    /\ revoking' = IF store = 0 THEN revoking ELSE revoking \cup {store}
    /\ wish' = p
    /\ excuse' = (UnderWay # {})
    /\ UNCHANGED <<issued, valid, cached, inflight, calls, links>>
Unlink(p) ==
    /\ store' = 0
    /\ cached' = cached \ {p}
    /\ revoking' = IF store = 0 THEN revoking ELSE revoking \cup {store}
    /\ wish' = p
    \* A refresh under way will save its token afterwards.
    /\ excuse' = (UnderWay # {})
    /\ UNCHANGED <<issued, valid, inflight, calls, links>>

\* Best effort: the instance revokes the token, or it stays valid there.
Revoke(t) ==
    /\ t \in revoking
    /\ revoking' = revoking \ {t}
    /\ valid' \in {valid, valid \ {t}}
    /\ UNCHANGED <<store, issued, cached, inflight, calls, links, wish, excuse>>

-----------------------------------------------------------------------------
\* A refresh token expires or is revoked at the instance.
Lapse(t) ==
    /\ t \in valid
    /\ valid' = valid \ {t}
    /\ excuse' = TRUE
    /\ UNCHANGED <<store, issued, cached, inflight, calls, links, revoking, wish>>

Next ==
    \/ \E c \in Calls : \/ Join(c) \/ Refresh(c) \/ Grant(c) \/ Refuse(c) \/ Resend(c)
                        \/ Succeed(c) \/ Drop(c) \/ Fail(c)
    \/ \E p \in Replicas : Invalidate(p) \/ Unlink(p)
    \/ \E l \in Links : Exchange(l) \/ Save(l) \/ GiveUp(l) \/ \E p \in Replicas : Callback(l, p)
    \/ \E t \in Tokens : Revoke(t) \/ Lapse(t)

Spec == Init /\ [][Next]_vars

-----------------------------------------------------------------------------
(* Properties *)

\* A completed link stays usable: the store holds a refresh token the instance
\* accepts, or the answer with its successor is on the way, however many calls
\* of a replica need it at once (user-tokens.ts:524-565).  What it does not
\* survive is named by excuse: a lost answer to a rotation, two replicas that
\* refresh at once, a refresh under way when the link was completed.
LinkUsable ==
    wish = "linked" /\ ~excuse =>
        \/ store \in valid
        \/ \E c \in Calls : pc[c] = "answered" /\ tok[c] = store
                                /\ new[c] \in valid

\* An unlink is final: unless a refresh was under way, neither the store nor the
\* replica that did it has a token of the link until a callback completes the
\* next one (user-tokens.ts:580-606).  Another replica may use its own access
\* token until that expires.
UnlinkFinal ==
    wish \in Replicas /\ ~excuse => store = 0 /\ wish \notin cached
=============================================================================
