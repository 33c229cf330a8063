---------------------------- MODULE HttpSessions ----------------------------
(***************************************************************************)
(* The sessions of the HTTP transport (src/src/mcp/http-sessions.ts) and   *)
(* its shutdown (mcp/transport.ts): initialize requests open sessions up   *)
(* to a cap, other requests are dispatched to them, a sweeper closes those *)
(* that were idle for the TTL, a shutdown drains and closes all.           *)
(*                                                                         *)
(* A session is named by the initialize request that builds it.  Bearer    *)
(* subjects and the stateless 2026 wire are left out.                      *)
(***************************************************************************)
EXTENDS Naturals, FiniteSets

CONSTANTS
  Inits,       \* initialize POSTs
  Posts,       \* POSTs of an established session
  Gets,     \* GETs: an SSE stream stays open
  None,
  MaxSessions, \* SN_HTTP_MAX_SESSIONS
  Sweeps       \* SN_HTTP_SESSION_TTL_SEC > 0

Requests == Inits \cup Posts \cup Gets

ASSUME RequestsAssumption ==
  /\ None \notin Requests /\ IsFiniteSet(Requests)
  /\ Inits \cap (Posts \cup Gets) = {}
ASSUME CapAssumption == MaxSessions \in Nat /\ Sweeps \in BOOLEAN

VARIABLES
  \* each request
  pc,     \* where it is
  target, \* the session it is for
  \* each session
  life,   \* "none", "building", "listed" (in the map), "closing", "closed",
          \* "dropped": never listed, and nobody closes it
  open,   \* HttpSession.open
  posts,  \* HttpSession.posts
  \* the manager
  pending,  \* sessions being initialized
  sweeping, \* the session the sweep is closing now
  expired,  \* what it found expired and has not got to yet
  \* the transport
  phase,    \* "up", "draining", "closing" (closeAll), "down"
  ending    \* the sessions closeAll awaits

requestVars == <<pc, target>>
sessionVars == <<life, open, posts>>
sweepVars   == <<sweeping, expired>>
shutVars    == <<phase, ending>>
vars        == <<requestVars, sessionVars, pending, sweepVars, shutVars>>

Listed == {s \in Inits : life[s] = "listed"}

\* A client knows the id of a session that was listed.
Known == {"listed", "closing", "closed"}

Init ==
  /\ pc = [r \in Requests |-> "idle"]
  /\ target = [r \in Requests |-> IF r \in Inits THEN r ELSE None]
  /\ life = [s \in Inits |-> "none"]
  /\ open = [s \in Inits |-> 0]
  /\ posts = [s \in Inits |-> 0]
  /\ pending = 0
  /\ sweeping = None /\ expired = {}
  /\ phase = "up" /\ ending = {}

------------------------------------------------------------------------------
(* Pieces. *)

Ends(r) == pc' = [pc EXCEPT ![r] = "done"]

\* close(): nothing for a session that is closed already.
Close(S) ==
  life' = [s \in Inits |-> IF s \in S /\ life[s] \notin {"closing", "closed"}
                             THEN "closing" ELSE life[s]]

\* dispatch(), up to the request's first await.
Dispatch(r, s) ==
  /\ open' = [open EXCEPT ![s] = @ + 1]
  /\ posts' = [posts EXCEPT ![s] = IF r \in Gets THEN @ ELSE @ + 1]

\* Mutant: a stream is counted as finished once its handler returned.
Settle_ForgetsGets(r, s) ==
  /\ open' = [open EXCEPT ![s] = IF r \in Gets THEN @ ELSE @ - 1]
  /\ posts' = [posts EXCEPT ![s] = IF r \in Gets THEN @ ELSE @ - 1]

\* done() of dispatch(): the response ended or its connection closed.
Settle(r, s) ==
  /\ open' = [open EXCEPT ![s] = @ - 1]
  /\ posts' = [posts EXCEPT ![s] = IF r \in Gets THEN @ ELSE @ - 1]

------------------------------------------------------------------------------
(* Requests. *)

\* The transport takes a request in; while draining it answers 503.  Then it
\* awaits the authorization.
Arrive(r) ==
  /\ pc[r] = "idle" /\ phase # "down"
  /\ \/ r \in Inits /\ UNCHANGED target
     \/ /\ r \notin Inits
        /\ \E s \in Inits : life[s] \in Known /\ target' = [target EXCEPT ![r] = s]
  /\ IF phase = "up"
       THEN pc' = [pc EXCEPT ![r] = "auth"]
       ELSE Ends(r)
  /\ UNCHANGED <<sessionVars, pending, sweepVars, shutVars>>

\* Authorized: a request with a session id is dispatched or answered 404.
Route(r) ==
  /\ pc[r] = "auth" /\ r \notin Inits
  /\ IF life[target[r]] = "listed"
       THEN Dispatch(r, target[r]) /\ pc' = [pc EXCEPT ![r] = "served"]
       ELSE Ends(r) /\ UNCHANGED <<open, posts>>
  /\ UNCHANGED <<target, life, pending, sweepVars, shutVars>>

\* Mutant: sessions being initialized do not count.
Full_ListedOnly == Cardinality(Listed) >= MaxSessions

Full == Cardinality(Listed) + pending >= MaxSessions

\* Authorized: an initialize request is refused when its body cannot be read, as
\* after its connection was dropped, or at the cap; otherwise it builds a session.
Create(r) ==
  /\ pc[r] = "auth" /\ r \in Inits
  /\ \/ Ends(r) /\ UNCHANGED <<life, pending>>
     \/ phase # "down" /\ Full /\ Ends(r) /\ UNCHANGED <<life, pending>>
     \/ /\ phase # "down" /\ ~Full
        /\ pc' = [pc EXCEPT ![r] = "connecting"]
        /\ life' = [life EXCEPT ![r] = "building"]
        /\ pending' = pending + 1
  /\ UNCHANGED <<target, open, posts, sweepVars, shutVars>>

\* The server is connected: the request is dispatched to its own session.
Connect(r) ==
  /\ pc[r] = "connecting"
  /\ Dispatch(r, r)
  /\ pc' = [pc EXCEPT ![r] = "initializing"]
  /\ UNCHANGED <<target, life, pending, sweepVars, shutVars>>

\* The server cannot be built or connected, or the dispatch throws before there
\* is an id: the exception passes the line that would close the session.
BuildThrows(r) ==
  /\ pc[r] \in {"connecting", "initializing"} /\ life[r] = "building"
  /\ pc' = [pc EXCEPT ![r] = IF @ = "connecting" THEN "done" ELSE "served"]
  /\ pending' = pending - 1
  /\ life' = [life EXCEPT ![r] = "dropped"]
  /\ UNCHANGED <<target, open, posts, sweepVars, shutVars>>

\* onsessioninitialized: from here on the session can be used.
SessionInitialized(r) ==
  /\ pc[r] = "initializing" /\ life[r] = "building"
  /\ life' = [life EXCEPT ![r] = "listed"]
  /\ UNCHANGED <<requestVars, open, posts, pending, sweepVars, shutVars>>

\* Mutant: a session that never got an id is forgotten, not closed.
HandOver_LeaksFailed(r) ==
  /\ pc[r] = "initializing"
  /\ pc' = [pc EXCEPT ![r] = "served"]
  /\ pending' = pending - 1
  /\ UNCHANGED <<target, sessionVars, sweepVars, shutVars>>

\* dispatch() of the initialize request returned: the session is no longer
\* pending; one that never got an id is closed.
HandOver(r) ==
  /\ pc[r] = "initializing"
  /\ pc' = [pc EXCEPT ![r] = "served"]
  /\ pending' = pending - 1
  /\ IF life[r] = "building"
       THEN Close({r})
       ELSE UNCHANGED life
  /\ UNCHANGED <<target, open, posts, sweepVars, shutVars>>

\* The response is complete, or its connection is gone.  A DELETE (a POST here)
\* and a broken transport close the session with it.
Finish(r) ==
  /\ pc[r] = "served"
  /\ Settle(r, target[r])
  /\ Ends(r)
  /\ \/ UNCHANGED life
     \/ r \in Posts /\ Close({target[r]})
  /\ UNCHANGED <<target, pending, sweepVars, shutVars>>

------------------------------------------------------------------------------
(* Closing. *)

\* server.close and the runtime's dispose are done.
Closed(s) ==
  /\ life[s] = "closing"
  /\ life' = [life EXCEPT ![s] = "closed"]
  /\ UNCHANGED <<requestVars, open, posts, pending, sweepVars, shutVars>>

\* Sessions none of whose requests is open; their TTL may be over or not.
Idle == {s \in Listed : open[s] = 0}

\* The sweep lists what has expired and starts closing the first of it.  (A tick
\* during a sweep is left out: ticks are seconds apart.)
Sweep ==
  /\ Sweeps /\ phase \in {"up", "draining"}
  /\ sweeping = None /\ expired = {}
  /\ \E found \in SUBSET Idle : \E s \in found :
       /\ Close({s})
       /\ sweeping' = s
       /\ expired' = found \ {s}
  /\ UNCHANGED <<requestVars, open, posts, pending, shutVars>>

\* The close it awaited is done: on to the next of the list, whatever became of
\* it meanwhile.
SweepOn ==
  /\ sweeping # None /\ life[sweeping] = "closed"
  /\ IF expired = {}
       THEN sweeping' = None /\ UNCHANGED <<expired, life>>
       ELSE \E s \in expired :
              /\ Close({s})
              /\ sweeping' = s
              /\ expired' = expired \ {s}
  /\ UNCHANGED <<requestVars, open, posts, pending, shutVars>>

------------------------------------------------------------------------------
(* Shutdown. *)

Shutdown ==
  /\ phase = "up"
  /\ phase' = "draining"
  /\ UNCHANGED <<requestVars, sessionVars, pending, sweepVars, ending>>

\* No POST of a listed session is in flight, or the drain time is over; every
\* listed session is closed.
CloseAll ==
  /\ phase = "draining"
  /\ phase' = "closing" /\ ending' = Listed
  /\ Close(Listed)
  /\ UNCHANGED <<requestVars, open, posts, pending, sweepVars>>

\* All closes that closeAll started are done; connections are dropped, which
\* ends the responses that are still open (Finish).
Down ==
  /\ phase = "closing"
  /\ \A s \in ending : life[s] = "closed"
  /\ phase' = "down"
  /\ UNCHANGED <<requestVars, sessionVars, pending, sweepVars, ending>>

Advance(r) ==
  \/ Route(r) \/ Create(r) \/ Connect(r) \/ BuildThrows(r) \/ HandOver(r) \/ Finish(r)

Next ==
  \/ \E r \in Requests : Arrive(r) \/ Advance(r)
  \/ \E s \in Inits : SessionInitialized(s) \/ Closed(s)
  \/ Sweep \/ SweepOn
  \/ Shutdown \/ CloseAll \/ Down

Spec == Init /\ [][Next]_vars

\* Awaited work ends, clients end their streams, TTLs pass and the sweeper
\* ticks; nobody has to send a request or shut the server down.
FairSpec ==
  /\ Spec
  /\ \A r \in Requests : WF_vars(Advance(r))
  /\ \A s \in Inits : WF_vars(Closed(s))
  /\ WF_vars(Sweep) /\ WF_vars(SweepOn)
  /\ WF_vars(CloseAll) /\ WF_vars(Down)

------------------------------------------------------------------------------
(* Properties. *)

TypeOK ==
  /\ pc \in [Requests -> {"idle", "auth", "connecting", "initializing", "served", "done"}]
  /\ target \in [Requests -> Inits \cup {None}]
  /\ life \in [Inits -> {"none", "building", "listed", "closing", "closed", "dropped"}]
  /\ open \in [Inits -> Nat] /\ posts \in [Inits -> Nat]
  /\ pending \in Nat
  /\ sweeping \in Inits \cup {None} /\ expired \subseteq Inits
  /\ phase \in {"up", "draining", "closing", "down"} /\ ending \subseteq Inits

Present == {s \in Inits : life[s] \in {"building", "listed"}}

\* Sessions in the map and sessions being built stay within the cap together,
\* although each is built across several awaits.
CapRespected == Cardinality(Present) <= MaxSessions

Served(s) == {r \in Requests : target[r] = s /\ pc[r] \in {"initializing", "served"}}

Initializing == {r \in Inits : pc[r] \in {"connecting", "initializing"}}

\* What the sweeper and the drain go by is exact: the open requests of every
\* session, also of one that is closing, and the builds under way.
CountsExact ==
  /\ \A s \in Inits : open[s] = Cardinality(Served(s))
  /\ \A s \in Inits : posts[s] = Cardinality(Served(s) \ Gets)
  /\ pending = Cardinality(Initializing)

\* The manager's bookkeeping as a whole: what the cap is checked against is what
\* there is, so that it is neither exceeded nor reached by sessions long gone.
SessionsCounted == CapRespected /\ CountsExact

\* A session that was built is in the map, is being closed, or its initialize
\* request still holds it: none is left behind with its runtime, unless an
\* exception cut its build short (BuildThrows).
NoneLeftBehind ==
  \A s \in Inits :
    life[s] = "building" => s \in Initializing

\* Every session ends up closed once its clients fall silent, unless the server
\* begins to shut down before.
AllClosed ==
  \A s \in Inits : life[s] = "listed" ~> (life[s] = "closed" \/ phase # "up")

=============================================================================
