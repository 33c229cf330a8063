------------------------- MODULE HttpSessionsProofs -------------------------
(***************************************************************************)
(* Proofs about the sessions of the HTTP transport and the event store     *)
(* each of them keeps: HttpSessions for any finite set of requests and any *)
(* cap, EventStore for any streams, sizes and limits and any number of     *)
(* replays.  The store's running total is compared with a fold over what   *)
(* is held, about which the lemmas that are needed are proved first.       *)
(***************************************************************************)
EXTENDS HttpSessions, EventStore, FiniteSetTheorems, TLAPS

------------------------------------------------------------------------------
(* The sessions. *)

\* An initialize request is for its own session, and only it goes through a
\* build; the others are for sessions that were in the map.
Targeted ==
  /\ \A r \in Inits : target[r] = r
  /\ \A r \in Requests : pc[r] \in {"connecting", "initializing"} => r \in Inits
  /\ \A r \in Requests \ Inits :
       /\ pc[r] \in {"auth", "served"} => target[r] \in Inits
       /\ target[r] \in Inits => life[target[r]] \in {"listed", "closing", "closed"}

\* Before its initialize request is let in there is no session, and what the
\* sweep found was in the map.
Unborn ==
  /\ \A s \in Inits : pc[s] \in {"idle", "auth"} => life[s] = "none"
  /\ \A s \in expired : life[s] \in {"listed", "closing", "closed"}

\* The inductive invariant.  The cap is not inductive alone: the check adds up
\* the map and the counter of builds, so the counter has to be exact, and every
\* session that is being built has to be counted by it.
IInv ==
  /\ TypeOK
  /\ Targeted
  /\ Unborn
  /\ CountsExact
  /\ NoneLeftBehind
  /\ CapRespected

USE RequestsAssumption, CapAssumption

AtWork == {"initializing", "served"}
AtBuild == {"connecting", "initializing"}
------------------------------------------------------------------------------
(* The counts. *)

LEMMA FiniteSets ==
  ASSUME NEW s
  PROVE  /\ IsFiniteSet(Inits) /\ IsFiniteSet(Served(s)) /\ IsFiniteSet(Served(s) \ Gets)
         /\ IsFiniteSet(Initializing) /\ IsFiniteSet(Present) /\ IsFiniteSet(Listed)
<1>1. IsFiniteSet(Requests) /\ Inits \in SUBSET Requests
  BY DEF Requests
<1>2. /\ Served(s) \in SUBSET Requests /\ Served(s) \ Gets \in SUBSET Requests
      /\ Initializing \in SUBSET Requests /\ Present \in SUBSET Requests
      /\ Listed \in SUBSET Requests
  BY DEF Served, Initializing, Present, Listed, Requests
<1> QED
  BY <1>1, <1>2, FS_Subset

\* A request enters the session it is for.
LEMMA Entered ==
  ASSUME IInv, NEW r \in Requests, NEW q \in AtWork, pc[r] \notin AtWork, target[r] \in Inits,
         pc' = [pc EXCEPT ![r] = q], target' = target, Dispatch(r, target[r])
  PROVE  /\ open' \in [Inits -> Nat] /\ posts' \in [Inits -> Nat]
         /\ \A s \in Inits : open'[s] = Cardinality(Served(s)') /\ posts'[s] = Cardinality(Served(s)' \ Gets)
<1>1. \A s \in Inits : open'[s] = Cardinality(Served(s)') /\ posts'[s] = Cardinality(Served(s)' \ Gets)
  <2> SUFFICES ASSUME NEW s \in Inits
               PROVE  open'[s] = Cardinality(Served(s)') /\ posts'[s] = Cardinality(Served(s)' \ Gets)
    OBVIOUS
  <2>0. /\ open \in [Inits -> Nat] /\ posts \in [Inits -> Nat]
        /\ open[s] = Cardinality(Served(s)) /\ posts[s] = Cardinality(Served(s) \ Gets)
    BY DEF IInv, TypeOK, CountsExact
  <2>1. CASE s # target[r]
    <3>1. Served(s)' = Served(s)
      BY <2>1 DEF Served, AtWork, IInv, TypeOK
    <3>2. open'[s] = open[s] /\ posts'[s] = posts[s]
      BY <2>0, <2>1 DEF Dispatch
    <3> QED
      BY <3>1, <3>2, <2>0
  <2>2. CASE s = target[r]
    <3>1. Served(s)' = Served(s) \cup {r} /\ r \notin Served(s)
      BY <2>2 DEF Served, AtWork, IInv, TypeOK
    <3>2. Cardinality(Served(s) \cup {r}) = Cardinality(Served(s)) + 1
      BY <3>1, FiniteSets, FS_AddElement
    <3>3. open'[s] = open[s] + 1 /\ posts'[s] = IF r \in Gets THEN posts[s] ELSE posts[s] + 1
      BY <2>0, <2>2 DEF Dispatch
    <3>4. CASE r \in Gets
      <4>1. Served(s)' \ Gets = Served(s) \ Gets
        BY <3>1, <3>4
      <4> QED
        BY <4>1, <3>1, <3>2, <3>3, <3>4, <2>0
    <3>5. CASE r \notin Gets
      <4>1. Served(s)' \ Gets = (Served(s) \ Gets) \cup {r} /\ r \notin Served(s) \ Gets
        BY <3>1, <3>5
      <4>2. Cardinality((Served(s) \ Gets) \cup {r}) = Cardinality(Served(s) \ Gets) + 1
        BY <4>1, FiniteSets, FS_AddElement
      <4> QED
        BY <4>1, <4>2, <3>1, <3>2, <3>3, <3>5, <2>0
    <3> QED
      BY <3>4, <3>5
  <2> QED
    BY <2>1, <2>2
<1>2. \A s \in Inits : Cardinality(Served(s)') \in Nat /\ Cardinality(Served(s)' \ Gets) \in Nat
  <2> SUFFICES ASSUME NEW s \in Inits
               PROVE  Cardinality(Served(s)') \in Nat /\ Cardinality(Served(s)' \ Gets) \in Nat
    OBVIOUS
  <2>1. Served(s)' \in SUBSET Requests /\ Served(s)' \ Gets \in SUBSET Requests
    BY DEF Served
  <2> QED
    BY <2>1, FS_Subset, FS_CardinalityType DEF Requests
<1>3. open' = [s \in Inits |-> open'[s]] /\ posts' = [s \in Inits |-> posts'[s]]
  BY DEF IInv, TypeOK, Dispatch
<1>4. \A s \in Inits : open'[s] \in Nat /\ posts'[s] \in Nat
  BY <1>1, <1>2
<1> QED
  BY <1>1, <1>3, <1>4

\* A request leaves its session.
LEMMA Left ==
  ASSUME IInv, NEW r \in Requests, pc[r] \in AtWork, target[r] \in Inits,
         pc' = [pc EXCEPT ![r] = "done"], target' = target, Settle(r, target[r])
  PROVE  /\ open' \in [Inits -> Nat] /\ posts' \in [Inits -> Nat]
         /\ \A s \in Inits : open'[s] = Cardinality(Served(s)') /\ posts'[s] = Cardinality(Served(s)' \ Gets)
<1>1. \A s \in Inits : open'[s] = Cardinality(Served(s)') /\ posts'[s] = Cardinality(Served(s)' \ Gets)
  <2> SUFFICES ASSUME NEW s \in Inits
               PROVE  open'[s] = Cardinality(Served(s)') /\ posts'[s] = Cardinality(Served(s)' \ Gets)
    OBVIOUS
  <2>0. /\ open \in [Inits -> Nat] /\ posts \in [Inits -> Nat]
        /\ open[s] = Cardinality(Served(s)) /\ posts[s] = Cardinality(Served(s) \ Gets)
    BY DEF IInv, TypeOK, CountsExact
  <2>1. CASE s # target[r]
    <3>1. Served(s)' = Served(s)
      BY <2>1 DEF Served, AtWork, IInv, TypeOK
    <3>2. open'[s] = open[s] /\ posts'[s] = posts[s]
      BY <2>0, <2>1 DEF Settle
    <3> QED
      BY <3>1, <3>2, <2>0
  <2>2. CASE s = target[r]
    <3>1. Served(s)' = Served(s) \ {r} /\ r \in Served(s)
      BY <2>2 DEF Served, AtWork, IInv, TypeOK
    <3>2. Cardinality(Served(s) \ {r}) = Cardinality(Served(s)) - 1
      BY <3>1, FiniteSets, FS_RemoveElement
    <3>3. open'[s] = open[s] - 1 /\ posts'[s] = IF r \in Gets THEN posts[s] ELSE posts[s] - 1
      BY <2>0, <2>2 DEF Settle
    <3>4. CASE r \in Gets
      <4>1. Served(s)' \ Gets = Served(s) \ Gets
        BY <3>1, <3>4
      <4> QED
        BY <4>1, <3>1, <3>2, <3>3, <3>4, <2>0
    <3>5. CASE r \notin Gets
      <4>1. Served(s)' \ Gets = (Served(s) \ Gets) \ {r} /\ r \in Served(s) \ Gets
        BY <3>1, <3>5
      <4>2. Cardinality((Served(s) \ Gets) \ {r}) = Cardinality(Served(s) \ Gets) - 1
        BY <4>1, FiniteSets, FS_RemoveElement
      <4> QED
        BY <4>1, <4>2, <3>1, <3>2, <3>3, <3>5, <2>0
    <3> QED
      BY <3>4, <3>5
  <2> QED
    BY <2>1, <2>2
<1>2. \A s \in Inits : Cardinality(Served(s)') \in Nat /\ Cardinality(Served(s)' \ Gets) \in Nat
  <2> SUFFICES ASSUME NEW s \in Inits
               PROVE  Cardinality(Served(s)') \in Nat /\ Cardinality(Served(s)' \ Gets) \in Nat
    OBVIOUS
  <2>1. Served(s)' \in SUBSET Requests /\ Served(s)' \ Gets \in SUBSET Requests
    BY DEF Served
  <2> QED
    BY <2>1, FS_Subset, FS_CardinalityType DEF Requests
<1>3. open' = [s \in Inits |-> open'[s]] /\ posts' = [s \in Inits |-> posts'[s]]
  BY DEF IInv, TypeOK, Settle
<1>4. \A s \in Inits : open'[s] \in Nat /\ posts'[s] \in Nat
  BY <1>1, <1>2
<1> QED
  BY <1>1, <1>3, <1>4

\* Nobody enters or leaves a session.
LEMMA CountsKept ==
  ASSUME IInv, \A s \in Inits : Served(s)' = Served(s), open' = open, posts' = posts
  PROVE  /\ open' \in [Inits -> Nat] /\ posts' \in [Inits -> Nat]
         /\ \A s \in Inits : open'[s] = Cardinality(Served(s)') /\ posts'[s] = Cardinality(Served(s)' \ Gets)
<1>1. \A s \in Inits : open[s] = Cardinality(Served(s)) /\ posts[s] = Cardinality(Served(s) \ Gets)
  BY DEF IInv, CountsExact
<1>2. open' \in [Inits -> Nat] /\ posts' \in [Inits -> Nat]
  BY DEF IInv, TypeOK
<1> QED
  BY <1>1, <1>2

\* A build starts, or it is over.
LEMMA BuildStarts ==
  ASSUME IInv, NEW r \in Inits \ Initializing, Initializing' = Initializing \cup {r}, pending' = pending + 1
  PROVE  pending' \in Nat /\ pending' = Cardinality(Initializing')
<1>1. Cardinality(Initializing \cup {r}) = Cardinality(Initializing) + 1
  BY FiniteSets, FS_AddElement
<1>2. pending \in Nat /\ pending = Cardinality(Initializing)
  BY DEF IInv, TypeOK, CountsExact
<1> QED
  BY <1>1, <1>2

LEMMA BuildEnds ==
  ASSUME IInv, NEW r \in Initializing, Initializing' = Initializing \ {r}, pending' = pending - 1
  PROVE  pending' \in Nat /\ pending' = Cardinality(Initializing')
<1>1. /\ IsFiniteSet(Initializing \ {r})
      /\ Cardinality(Initializing \ {r}) = Cardinality(Initializing) - 1
  BY FiniteSets, FS_RemoveElement
<1>2. Cardinality(Initializing \ {r}) \in Nat
  BY <1>1, FS_CardinalityType
<1>3. pending \in Nat /\ pending = Cardinality(Initializing)
  BY DEF IInv, TypeOK, CountsExact
<1> QED
  BY <1>1, <1>2, <1>3

\* Fewer sessions are within the cap too.
LEMMA CapKept ==
  ASSUME IInv, Present' \subseteq Present
  PROVE  CapRespected'
<1>1. Present' \in SUBSET Present
  OBVIOUS
<1>2. IsFiniteSet(Present')
  BY <1>1, FiniteSets, FS_Subset
<1>3. /\ Cardinality(Present') \in Nat /\ Cardinality(Present) \in Nat
      /\ Cardinality(Present') <= Cardinality(Present)
  BY <1>1, <1>2, FiniteSets, FS_Subset, FS_CardinalityType
<1> QED
  BY <1>3 DEF IInv, CapRespected
------------------------------------------------------------------------------
(* The invariant holds initially and every step preserves it. *)

\* A step in which no request moves and no session is born.
LEMMA QuietStep ==
  ASSUME IInv, TypeOK', UNCHANGED <<pc, target, open, posts, pending>>,
         \A s \in Inits : \/ life'[s] = life[s]
                          \/ life[s] # "none" /\ life'[s] \in {"closing", "closed"},
         \A s \in expired' : life[s] \in {"listed", "closing", "closed"}
  PROVE  IInv'
<1>1. Targeted' /\ Unborn' /\ NoneLeftBehind'
  BY DEF IInv, TypeOK, Targeted, Unborn, NoneLeftBehind, Initializing
<1>2. CountsExact'
  <2>1. \A s \in Inits : Served(s)' = Served(s)
    BY DEF Served
  <2>2. Initializing' = Initializing
    BY DEF Initializing
  <2> QED
    BY <2>1, <2>2, CountsKept DEF IInv, CountsExact
<1>3. CapRespected'
  BY CapKept DEF Present
<1> QED
  BY <1>1, <1>2, <1>3 DEF IInv

LEMMA InitIInv == Init => IInv
<1> SUFFICES ASSUME Init
             PROVE  IInv
  OBVIOUS
<1>1. TypeOK /\ Targeted /\ Unborn /\ NoneLeftBehind
  BY DEF Init, TypeOK, Targeted, Unborn, NoneLeftBehind, Requests
<1>2. Initializing = {} /\ Present = {} /\ \A s \in Inits : Served(s) = {}
  BY DEF Init, Initializing, Present, Served, Requests
<1>3. CountsExact
  <2>1. \A s \in Inits : Served(s) \ Gets = {}
    BY <1>2
  <2> QED
    BY <1>2, <2>1, FS_EmptySet DEF CountsExact, Init
<1>4. CapRespected
  BY <1>2, FS_EmptySet DEF CapRespected
<1> QED
  BY <1>1, <1>3, <1>4 DEF IInv

LEMMA ArriveStep ==
  ASSUME IInv, NEW r \in Requests, Arrive(r)
  PROVE  IInv'
<1>0. /\ UNCHANGED <<life, open, posts, pending, sweeping, expired, phase, ending>>
      /\ pc[r] = "idle"
      /\ \/ pc' = [pc EXCEPT ![r] = "auth"]
         \/ pc' = [pc EXCEPT ![r] = "done"]
  BY DEF Arrive, Ends, sessionVars, sweepVars, shutVars
<1>1. \/ target' = target /\ r \in Inits
      \/ /\ r \notin Inits
         /\ \E s \in Inits : life[s] \in Known /\ target' = [target EXCEPT ![r] = s]
  BY DEF Arrive
<1>2. pc \in [Requests -> {"idle", "auth", "connecting", "initializing", "served", "done"}]
      /\ target \in [Requests -> Inits \cup {None}] /\ Inits \subseteq Requests
  BY DEF IInv, TypeOK, Requests
<1>3. \A x \in Requests \ {r} : pc'[x] = pc[x] /\ target'[x] = target[x]
  BY <1>0, <1>1, <1>2
<1>4. pc'[r] \in {"auth", "done"} /\ pc'[r] \notin AtWork /\ pc[r] \notin AtWork
  BY <1>0, <1>2 DEF AtWork
<1>5. TypeOK'
  <2>1. pc' \in [Requests -> {"idle", "auth", "connecting", "initializing", "served", "done"}]
    BY <1>0, <1>2
  <2>2. target' \in [Requests -> Inits \cup {None}]
    BY <1>1, <1>2
  <2> QED
    BY <1>0, <2>1, <2>2 DEF IInv, TypeOK
<1>6. Targeted' /\ Unborn' /\ NoneLeftBehind'
  <2>1. /\ \A x \in Inits : target'[x] = x
        /\ \A x \in Requests : pc'[x] \in {"connecting", "initializing"} => x \in Inits
    BY <1>0, <1>1, <1>2, <1>3, <1>4 DEF IInv, Targeted
  <2>2. \A x \in Requests \ Inits :
          /\ pc'[x] \in {"auth", "served"} => target'[x] \in Inits
          /\ target'[x] \in Inits => life[target'[x]] \in {"listed", "closing", "closed"}
    <3>1. r \notin Inits => \E s \in Inits : target'[r] = s /\ life[s] \in {"listed", "closing", "closed"}
      BY <1>1, <1>2 DEF Known
    <3> QED
      BY <1>3, <3>1 DEF IInv, Targeted
  <2>3. Targeted'
    BY <2>1, <2>2, <1>0 DEF Targeted
  <2>4. Unborn' /\ NoneLeftBehind'
    BY <1>0, <1>2, <1>3, <1>4 DEF IInv, Unborn, NoneLeftBehind, Initializing, AtWork
  <2> QED
    BY <2>3, <2>4
<1>7. CountsExact'
  <2>1. \A s \in Inits : Served(s)' = Served(s)
    BY <1>3, <1>4 DEF Served, AtWork
  <2>2. Initializing' = Initializing
    BY <1>0, <1>2, <1>3, <1>4 DEF Initializing
  <2> QED
    BY <1>0, <2>1, <2>2, CountsKept DEF IInv, CountsExact
<1>8. CapRespected'
  BY <1>0, CapKept DEF Present
<1> QED
  BY <1>5, <1>6, <1>7, <1>8 DEF IInv

\* The shape of a step of request r that stays with its session.
LEMMA Moves ==
  ASSUME IInv, NEW r \in Requests, NEW q, pc' = [pc EXCEPT ![r] = q], target' = target
  PROVE  /\ Inits \subseteq Requests
         /\ pc \in [Requests -> {"idle", "auth", "connecting", "initializing", "served", "done"}]
         /\ pc'[r] = q
         /\ \A x \in Requests \ {r} : pc'[x] = pc[x]
         /\ target'[r] = target[r]
         /\ q \notin AtWork /\ pc[r] \notin AtWork => \A s \in Inits : Served(s)' = Served(s)
         /\ r \notin Inits \/ (q \in AtBuild <=> pc[r] \in AtBuild) => Initializing' = Initializing
<1>1. /\ Inits \subseteq Requests
      /\ pc \in [Requests -> {"idle", "auth", "connecting", "initializing", "served", "done"}]
  BY DEF IInv, TypeOK, Requests
<1>2. pc'[r] = q /\ \A x \in Requests \ {r} : pc'[x] = pc[x]
  BY <1>1
<1>3. q \notin AtWork /\ pc[r] \notin AtWork => \A s \in Inits : Served(s)' = Served(s)
  BY <1>2 DEF Served, AtWork
<1>4. r \notin Inits \/ (q \in AtBuild <=> pc[r] \in AtBuild) => Initializing' = Initializing
  BY <1>1, <1>2 DEF Initializing, AtBuild
<1> QED
  BY <1>1, <1>2, <1>3, <1>4

LEMMA RouteStep ==
  ASSUME IInv, NEW r \in Requests, Route(r)
  PROVE  IInv'
<1>0. /\ UNCHANGED <<target, life, pending, sweeping, expired, phase, ending>>
      /\ pc[r] = "auth" /\ r \notin Inits /\ target[r] \in Inits
  BY DEF Route, sweepVars, shutVars, IInv, Targeted
<1>1. PICK q \in {"served", "done"} : pc' = [pc EXCEPT ![r] = q]
  BY DEF Route, Ends
<1>2. /\ open' \in [Inits -> Nat] /\ posts' \in [Inits -> Nat]
      /\ \A s \in Inits : open'[s] = Cardinality(Served(s)') /\ posts'[s] = Cardinality(Served(s)' \ Gets)
  <2>1. CASE life[target[r]] = "listed"
    BY <1>0, <2>1, Entered DEF Route, AtWork, IInv, TypeOK
  <2>2. CASE life[target[r]] # "listed"
    <3>1. pc' = [pc EXCEPT ![r] = "done"] /\ UNCHANGED <<open, posts>>
      BY <2>2 DEF Route, Ends
    <3>2. \A s \in Inits : Served(s)' = Served(s)
      BY <1>0, <3>1, Moves DEF AtWork
    <3> QED
      BY <3>1, <3>2, CountsKept DEF IInv, TypeOK
  <2> QED
    BY <2>1, <2>2
<1>3. TypeOK'
  <2>1. pc' \in [Requests -> {"idle", "auth", "connecting", "initializing", "served", "done"}]
    BY <1>0, <1>1, Moves
  <2> QED
    BY <1>0, <1>2, <2>1 DEF IInv, TypeOK
<1>4. Targeted' /\ Unborn' /\ NoneLeftBehind'
  BY ZenonT(60), <1>0, <1>1, Moves DEF IInv, Targeted, Unborn, NoneLeftBehind
<1>5. CountsExact'
  <2>1. Initializing' = Initializing
    BY <1>0, <1>1, Moves
  <2> QED
    BY <1>0, <1>2, <2>1 DEF IInv, CountsExact
<1>6. CapRespected'
  BY <1>0, CapKept DEF Present
<1> QED
  BY <1>3, <1>4, <1>5, <1>6 DEF IInv

\* The check of the cap: the sessions there are, are in the map or counted.
LEMMA RoomForOne ==
  ASSUME IInv, ~Full, NEW r \in Inits, Present' \subseteq Present \cup {r}
  PROVE  CapRespected'
<1> DEFINE both == Listed \cup Initializing
<1>1. IsFiniteSet(Listed) /\ IsFiniteSet(Initializing)
  BY FiniteSets
<1>2. Cardinality(Listed) \in Nat /\ Cardinality(Initializing) \in Nat
  BY <1>1, FS_CardinalityType
<1>3. /\ IsFiniteSet(both) /\ Cardinality(both) \in Nat
      /\ Cardinality(both) <= Cardinality(Listed) + Cardinality(Initializing)
  <2>1. /\ Cardinality(both)
             = Cardinality(Listed) + Cardinality(Initializing) - Cardinality(Listed \cap Initializing)
        /\ IsFiniteSet(both)
    BY <1>1, FS_Union
  <2>2. Cardinality(Listed \cap Initializing) \in Nat
    BY <1>1, FS_Intersection, FS_CardinalityType
  <2>3. Cardinality(both) \in Nat
    BY <2>1, FS_CardinalityType
  <2> QED
    BY <1>2, <2>1, <2>2, <2>3
<1>4. Present' \subseteq both \cup {r}
  BY DEF Present, Listed, Initializing, IInv, NoneLeftBehind
<1> HIDE DEF both
<1>5. IsFiniteSet(both \cup {r}) /\ Cardinality(both \cup {r}) \in Nat /\ Cardinality(both \cup {r}) <= Cardinality(both) + 1
  <2>1. /\ IsFiniteSet(both \cup {r})
        /\ Cardinality(both \cup {r}) = IF r \in both THEN Cardinality(both) ELSE Cardinality(both) + 1
    BY <1>3, FS_AddElement
  <2> QED
    BY <1>3, <2>1
<1>6. Cardinality(Present') \in Nat /\ Cardinality(Present') <= Cardinality(both \cup {r})
  <2>1. Present' \in SUBSET (both \cup {r})
    BY <1>4
  <2> QED
    BY <1>5, <2>1, FS_Subset, FS_CardinalityType
<1>7. Cardinality(Listed) + Cardinality(Initializing) < MaxSessions
  <2>1. pending = Cardinality(Initializing) /\ ~(Cardinality(Listed) + pending >= MaxSessions)
    BY DEF Full, IInv, CountsExact
  <2> QED
    BY <1>2, <2>1
<1>8. Cardinality(Present') <= MaxSessions
  BY <1>2, <1>3, <1>5, <1>6, <1>7
<1> QED
  BY <1>8 DEF CapRespected

LEMMA CreateStep ==
  ASSUME IInv, NEW r \in Requests, Create(r)
  PROVE  IInv'
<1>0. /\ UNCHANGED <<target, open, posts, sweeping, expired, phase, ending>>
      /\ pc[r] = "auth" /\ r \in Inits /\ life[r] = "none"
  BY DEF Create, sweepVars, shutVars, IInv, Unborn
<1>1. \/ /\ pc' = [pc EXCEPT ![r] = "done"] /\ UNCHANGED <<life, pending>>
      \/ /\ pc' = [pc EXCEPT ![r] = "connecting"] /\ ~Full
         /\ life' = [life EXCEPT ![r] = "building"] /\ pending' = pending + 1
  BY DEF Create, Ends
<1>2. PICK q \in {"done", "connecting"} : pc' = [pc EXCEPT ![r] = q]
  BY <1>1
<1>3. \A s \in Inits : Served(s)' = Served(s)
  BY <1>0, <1>2, Moves DEF AtWork
<1>4. /\ open' \in [Inits -> Nat] /\ posts' \in [Inits -> Nat]
      /\ \A s \in Inits : open'[s] = Cardinality(Served(s)') /\ posts'[s] = Cardinality(Served(s)' \ Gets)
  BY <1>0, <1>3, CountsKept
<1>5. pc' \in [Requests -> {"idle", "auth", "connecting", "initializing", "served", "done"}]
  BY <1>0, <1>2, Moves
<1>7. pending' \in Nat /\ pending' = Cardinality(Initializing') /\ CapRespected'
  <2>1. CASE pc' = [pc EXCEPT ![r] = "done"] /\ UNCHANGED <<life, pending>>
    <3>1. Initializing' = Initializing
      BY <1>0, <2>1, Moves DEF AtBuild
    <3> QED
      BY <2>1, <3>1, CapKept DEF IInv, TypeOK, CountsExact, Present
  <2>2. CASE /\ pc' = [pc EXCEPT ![r] = "connecting"] /\ ~Full
             /\ life' = [life EXCEPT ![r] = "building"] /\ pending' = pending + 1
    <3>1. Initializing' = Initializing \cup {r} /\ r \notin Initializing
      BY ZenonT(60), <1>0, <2>2, Moves DEF Initializing
    <3>2. Present' \subseteq Present \cup {r}
      BY <2>2 DEF Present, IInv, TypeOK
    <3> QED
      BY <1>0, <2>2, <3>1, <3>2, BuildStarts, RoomForOne
  <2> QED
    BY <1>1, <2>1, <2>2
<1>8. TypeOK'
  <2>1. life' \in [Inits -> {"none", "building", "listed", "closing", "closed", "dropped"}]
    BY <1>1 DEF IInv, TypeOK
  <2> QED
    BY <1>0, <1>4, <1>5, <1>7, <2>1 DEF IInv, TypeOK
<1>9. Targeted' /\ Unborn' /\ NoneLeftBehind'
  <2>1. \A s \in Inits : s # r => life'[s] = life[s]
    BY <1>1 DEF IInv, TypeOK
  <2>2. IF pc'[r] = "connecting" THEN life'[r] = "building" ELSE pc'[r] = "done" /\ life'[r] = "none"
    BY <1>0, <1>1, Moves DEF IInv, TypeOK
  <2>3. Targeted'
    BY <1>0, <1>2, <2>1, <2>2, Moves DEF IInv, Targeted
  <2>4. Unborn'
    BY <1>0, <1>2, <2>1, <2>2, Moves DEF IInv, TypeOK, Unborn
  <2>5. NoneLeftBehind'
    BY <1>0, <1>2, <2>1, <2>2, Moves DEF IInv, NoneLeftBehind, Initializing
  <2> QED
    BY <2>3, <2>4, <2>5
<1> QED
  BY <1>4, <1>7, <1>8, <1>9 DEF IInv, CountsExact

LEMMA ConnectStep ==
  ASSUME IInv, NEW r \in Requests, Connect(r)
  PROVE  IInv'
<1>0. /\ UNCHANGED <<target, life, pending, sweeping, expired, phase, ending>>
      /\ pc[r] = "connecting" /\ r \in Inits /\ target[r] = r
      /\ pc' = [pc EXCEPT ![r] = "initializing"] /\ Dispatch(r, target[r])
  BY DEF Connect, sweepVars, shutVars, IInv, Targeted
<1>1. /\ open' \in [Inits -> Nat] /\ posts' \in [Inits -> Nat]
      /\ \A s \in Inits : open'[s] = Cardinality(Served(s)') /\ posts'[s] = Cardinality(Served(s)' \ Gets)
  BY <1>0, Entered DEF AtWork
<1>2. Initializing' = Initializing
  BY <1>0, Moves DEF AtBuild
<1>3. TypeOK'
  <2>1. pc' \in [Requests -> {"idle", "auth", "connecting", "initializing", "served", "done"}]
    BY <1>0, Moves
  <2> QED
    BY <1>0, <1>1, <2>1 DEF IInv, TypeOK
<1>4. Targeted' /\ Unborn' /\ NoneLeftBehind'
  <2>0. \A x \in Requests : target'[x] = target[x] /\ (pc'[x] = pc[x] \/ (x = r /\ pc'[x] = "initializing"))
    BY <1>0, Moves
  <2>1. Targeted'
    BY <1>0, <2>0 DEF IInv, Targeted, Requests
  <2>2. Unborn'
    BY <1>0, <2>0 DEF IInv, Unborn, Requests
  <2>3. NoneLeftBehind'
    BY <1>0, <1>2 DEF IInv, NoneLeftBehind
  <2> QED
    BY <2>1, <2>2, <2>3
<1>5. CapRespected'
  BY <1>0, CapKept DEF Present
<1> QED
  BY <1>0, <1>1, <1>2, <1>3, <1>4, <1>5 DEF IInv, CountsExact

LEMMA SessionInitializedStep ==
  ASSUME IInv, NEW r \in Inits, SessionInitialized(r)
  PROVE  IInv'
<1>0. /\ UNCHANGED <<pc, target, open, posts, pending, sweeping, expired, phase, ending>>
      /\ pc[r] = "initializing" /\ life[r] = "building"
      /\ life' = [life EXCEPT ![r] = "listed"]
  BY DEF SessionInitialized, requestVars, sweepVars, shutVars
<1>1. TypeOK'
  BY <1>0 DEF IInv, TypeOK
<1>2. life'[r] = "listed" /\ \A s \in Inits \ {r} : life'[s] = life[s]
  BY <1>0 DEF IInv, TypeOK
<1>3. Targeted' /\ Unborn' /\ NoneLeftBehind'
  <2>1. Targeted'
    BY <1>0, <1>2 DEF IInv, Targeted
  <2>2. Unborn'
    BY <1>0, <1>2 DEF IInv, Unborn
  <2>3. NoneLeftBehind'
    BY <1>0, <1>2 DEF IInv, NoneLeftBehind, Initializing
  <2> QED
    BY <2>1, <2>2, <2>3
<1>4. CountsExact'
  <2>1. \A s \in Inits : Served(s)' = Served(s)
    BY <1>0 DEF Served
  <2>2. Initializing' = Initializing
    BY <1>0 DEF Initializing
  <2> QED
    BY <1>0, <2>1, <2>2, CountsKept DEF IInv, CountsExact
<1>5. CapRespected'
  BY <1>0, <1>2, CapKept DEF Present
<1> QED
  BY <1>1, <1>3, <1>4, <1>5 DEF IInv

\* What close() does to the sessions.
LEMMA Closes ==
  ASSUME IInv, NEW S \in SUBSET Inits, Close(S)
  PROVE  /\ life' \in [Inits -> {"none", "building", "listed", "closing", "closed", "dropped"}]
         /\ \A s \in Inits : IF s \in S /\ life[s] \notin {"closing", "closed"}
                               THEN life'[s] = "closing"
                               ELSE life'[s] = life[s]
         /\ (\A s \in S : life[s] # "none") =>
              \A t \in Inits : life'[t] = life[t] \/ (life[t] # "none" /\ life'[t] = "closing")
<1>1. life' \in [Inits -> {"none", "building", "listed", "closing", "closed", "dropped"}]
  BY DEF Close, IInv, TypeOK
<1>2. \A s \in Inits : IF s \in S /\ life[s] \notin {"closing", "closed"}
                        THEN life'[s] = "closing"
                        ELSE life'[s] = life[s]
  BY DEF Close
<1>3. (\A s \in S : life[s] # "none") =>
        \A t \in Inits : life'[t] = life[t] \/ (life[t] # "none" /\ life'[t] = "closing")
  BY <1>2
<1> QED
  BY <1>1, <1>2, <1>3

\* An exception ends a build: one session less is present, one build less counted.
LEMMA BuildThrowsStep ==
  ASSUME IInv, NEW r \in Requests, BuildThrows(r)
  PROVE  IInv'
<1>0. /\ UNCHANGED <<target, open, posts, sweeping, expired, phase, ending>>
      /\ pc[r] \in AtBuild /\ r \in Inits /\ r \in Initializing
      /\ pending' = pending - 1
      /\ life[r] = "building" /\ life' = [life EXCEPT ![r] = "dropped"]
  BY DEF BuildThrows, AtBuild, sweepVars, shutVars, IInv, Targeted, Initializing
<1>1. /\ life' \in [Inits -> {"none", "building", "listed", "closing", "closed", "dropped"}]
      /\ \A s \in Inits \ {r} : life'[s] = life[s]
      /\ life'[r] = "dropped"
  BY <1>0 DEF IInv, TypeOK
<1>2. PICK q \in {"done", "served"} : /\ pc' = [pc EXCEPT ![r] = q]
                                      /\ q = "served" <=> pc[r] \in AtWork
  <2>1. CASE pc[r] = "connecting"
    BY <2>1 DEF BuildThrows, AtWork
  <2>2. CASE pc[r] = "initializing"
    BY <2>2 DEF BuildThrows, AtWork
  <2> QED
    BY <1>0, <2>1, <2>2 DEF AtBuild
<1>3. /\ Inits \subseteq Requests
      /\ pc' \in [Requests -> {"idle", "auth", "connecting", "initializing", "served", "done"}]
      /\ pc'[r] = q /\ \A x \in Requests \ {r} : pc'[x] = pc[x]
  BY <1>2 DEF IInv, TypeOK, Requests
<1>4. Initializing' = Initializing \ {r}
  BY <1>0, <1>3 DEF Initializing
<1>5. pending' \in Nat /\ pending' = Cardinality(Initializing')
  BY <1>0, <1>4, BuildEnds
<1>6. \A s \in Inits : Served(s)' = Served(s)
  <2>1. \A x \in Requests : pc'[x] \in AtWork <=> pc[x] \in AtWork
    BY <1>2, <1>3 DEF AtWork
  <2> QED
    BY <1>0, <2>1 DEF Served, AtWork
<1>7. /\ open' \in [Inits -> Nat] /\ posts' \in [Inits -> Nat]
      /\ \A s \in Inits : open'[s] = Cardinality(Served(s)') /\ posts'[s] = Cardinality(Served(s)' \ Gets)
  BY <1>0, <1>6, CountsKept
<1>8. TypeOK'
  BY <1>0, <1>1, <1>3, <1>5, <1>7 DEF IInv, TypeOK
<1>9. Targeted' /\ Unborn' /\ NoneLeftBehind'
  <2>1. Targeted'
    <3>1. \A x \in Requests : target'[x] = target[x] /\ (pc'[x] = pc[x] \/ x = r)
      BY <1>0, <1>3
    <3>2. \A s \in Inits : life[s] \in {"listed", "closing", "closed"} => life'[s] \in {"listed", "closing", "closed"}
      BY <1>0, <1>1
    <3> QED
      BY <1>0, <3>1, <3>2 DEF IInv, Targeted, Requests
  <2>2. Unborn'
    BY <1>0, <1>1, <1>3 DEF IInv, TypeOK, Unborn
  <2>3. NoneLeftBehind'
    BY <1>0, <1>1, <1>4 DEF IInv, NoneLeftBehind
  <2> QED
    BY <2>1, <2>2, <2>3
<1>10. CapRespected'
  BY <1>1, CapKept DEF Present
<1> QED
  BY <1>5, <1>7, <1>8, <1>9, <1>10 DEF IInv, CountsExact

LEMMA HandOverStep ==
  ASSUME IInv, NEW r \in Requests, HandOver(r)
  PROVE  IInv'
<1>0. /\ UNCHANGED <<target, open, posts, sweeping, expired, phase, ending>>
      /\ pc[r] = "initializing" /\ r \in Inits /\ r \in Initializing
      /\ pc' = [pc EXCEPT ![r] = "served"] /\ pending' = pending - 1
  BY DEF HandOver, sweepVars, shutVars, IInv, Targeted, Initializing
<1>1. /\ life' \in [Inits -> {"none", "building", "listed", "closing", "closed", "dropped"}]
      /\ \A s \in Inits \ {r} : life'[s] = life[s]
      /\ life'[r] = IF life[r] = "building" THEN "closing" ELSE life[r]
  <2>1. CASE life[r] = "building"
    BY <1>0, <2>1, Closes DEF HandOver
  <2>2. CASE life[r] # "building"
    BY <1>0, <2>2 DEF HandOver, IInv, TypeOK
  <2> QED
    BY <2>1, <2>2
<1>2. Initializing' = Initializing \ {r}
  BY <1>0, Moves DEF Initializing
<1>3. pending' \in Nat /\ pending' = Cardinality(Initializing')
  BY <1>0, <1>2, BuildEnds
<1>4. \A s \in Inits : Served(s)' = Served(s)
  BY <1>0, Moves DEF Served
<1>5. /\ open' \in [Inits -> Nat] /\ posts' \in [Inits -> Nat]
      /\ \A s \in Inits : open'[s] = Cardinality(Served(s)') /\ posts'[s] = Cardinality(Served(s)' \ Gets)
  BY <1>0, <1>4, CountsKept
<1>6. TypeOK'
  <2>1. pc' \in [Requests -> {"idle", "auth", "connecting", "initializing", "served", "done"}]
    BY <1>0, Moves
  <2> QED
    BY <1>0, <1>1, <1>3, <1>5, <2>1 DEF IInv, TypeOK
<1>7. Targeted' /\ Unborn' /\ NoneLeftBehind'
  <2>1. Targeted'
    <3>1. \A x \in Requests : target'[x] = target[x] /\ (pc'[x] = pc[x] \/ x = r)
      BY <1>0, Moves
    <3>2. \A s \in Inits : life[s] \in {"listed", "closing", "closed"} => life'[s] \in {"listed", "closing", "closed"}
      BY <1>1
    <3> QED
      BY <1>0, <3>1, <3>2 DEF IInv, Targeted, Requests
  <2>2. Unborn'
    BY <1>0, <1>1, Moves DEF IInv, TypeOK, Unborn
  <2>3. NoneLeftBehind'
    BY <1>0, <1>1, <1>2 DEF IInv, NoneLeftBehind
  <2> QED
    BY <2>1, <2>2, <2>3
<1>8. CapRespected'
  BY <1>1, CapKept DEF Present
<1> QED
  BY <1>3, <1>5, <1>6, <1>7, <1>8 DEF IInv, CountsExact

LEMMA FinishStep ==
  ASSUME IInv, NEW r \in Requests, Finish(r)
  PROVE  IInv'
<1>0. /\ UNCHANGED <<target, pending, sweeping, expired, phase, ending>>
      /\ pc[r] = "served" /\ target[r] \in Inits
      /\ pc' = [pc EXCEPT ![r] = "done"]
      /\ Settle(r, target[r])
  BY DEF Finish, Ends, sweepVars, shutVars, IInv, Targeted
<1>1. /\ life' \in [Inits -> {"none", "building", "listed", "closing", "closed", "dropped"}]
      /\ \A s \in Inits : \/ life'[s] = life[s]
                          \/ life[s] = "listed" /\ life'[s] = "closing"
  <2>1. CASE UNCHANGED life
    BY <2>1 DEF IInv, TypeOK
  <2>2. CASE r \in Posts /\ Close({target[r]})
    <3>1. life[target[r]] \in {"listed", "closing", "closed"}
      BY <1>0, <2>2 DEF IInv, Targeted
    <3>2. {target[r]} \in SUBSET Inits
      BY <1>0
    <3>3. /\ life' \in [Inits -> {"none", "building", "listed", "closing", "closed", "dropped"}]
          /\ \A s \in Inits : IF s \in {target[r]} /\ life[s] \notin {"closing", "closed"}
                                THEN life'[s] = "closing"
                                ELSE life'[s] = life[s]
      BY <2>2, <3>2, Closes
    <3> QED
      BY <3>1, <3>3
  <2> QED
    BY <2>1, <2>2 DEF Finish
<1>2. Initializing' = Initializing
  BY <1>0, Moves DEF AtBuild
<1>3. /\ open' \in [Inits -> Nat] /\ posts' \in [Inits -> Nat]
      /\ \A s \in Inits : open'[s] = Cardinality(Served(s)') /\ posts'[s] = Cardinality(Served(s)' \ Gets)
  BY <1>0, Left DEF AtWork
<1>4. TypeOK'
  <2>1. pc' \in [Requests -> {"idle", "auth", "connecting", "initializing", "served", "done"}]
    BY <1>0, Moves
  <2> QED
    BY <1>0, <1>1, <1>3, <2>1 DEF IInv, TypeOK
<1>5. Targeted' /\ Unborn' /\ NoneLeftBehind'
  <2>1. Targeted'
    <3>1. \A x \in Requests : target'[x] = target[x] /\ (pc'[x] = pc[x] \/ pc'[x] = "done")
      BY <1>0, Moves
    <3>2. \A s \in Inits : life[s] \in {"listed", "closing", "closed"} => life'[s] \in {"listed", "closing", "closed"}
      BY <1>1
    <3> QED
      BY <1>0, <3>1, <3>2 DEF IInv, Targeted, Requests
  <2>2. Unborn'
    BY <1>0, <1>1, Moves DEF IInv, TypeOK, Unborn
  <2>3. NoneLeftBehind'
    BY <1>0, <1>1, <1>2 DEF IInv, NoneLeftBehind
  <2> QED
    BY <2>1, <2>2, <2>3
<1>6. CapRespected'
  BY <1>1, CapKept DEF Present
<1> QED
  BY <1>0, <1>2, <1>3, <1>4, <1>5, <1>6 DEF IInv, CountsExact

LEMMA ClosedStep == ASSUME IInv, NEW s \in Inits, Closed(s) PROVE IInv'
<1>1. TypeOK'
  BY DEF IInv, TypeOK, Closed, requestVars, sweepVars, shutVars
<1> QED
  BY <1>1, QuietStep DEF IInv, TypeOK, Unborn, Closed, requestVars, sweepVars, shutVars

LEMMA SweepStep == ASSUME IInv, Sweep PROVE IInv'
<1>0. UNCHANGED <<pc, target, open, posts, pending, phase, ending>>
  BY DEF Sweep, requestVars, shutVars
<1>1. PICK s \in Inits : /\ life[s] = "listed" /\ Close({s}) /\ sweeping' = s
                         /\ expired' \subseteq Idle
  BY DEF Sweep, Idle, Listed
<1>2. \A t \in expired' : t \in Inits /\ life[t] = "listed"
  BY <1>1 DEF Idle, Listed
<1>3. /\ life' \in [Inits -> {"none", "building", "listed", "closing", "closed", "dropped"}]
      /\ \A t \in Inits : life'[t] = life[t] \/ (life[t] # "none" /\ life'[t] = "closing")
  <2>1. {s} \in SUBSET Inits /\ \A t \in {s} : life[t] # "none"
    BY <1>1
  <2> QED
    BY <1>1, <2>1, Closes
<1>4. TypeOK'
  BY <1>0, <1>1, <1>2, <1>3 DEF IInv, TypeOK
<1> QED
  BY <1>0, <1>2, <1>3, <1>4, QuietStep

LEMMA SweepOnStep == ASSUME IInv, SweepOn PROVE IInv'
<1>0. UNCHANGED <<pc, target, open, posts, pending, phase, ending>>
  BY DEF SweepOn, requestVars, shutVars
<1>1. CASE expired = {}
  <2>1. sweeping' = None /\ UNCHANGED <<expired, life>>
    BY <1>1 DEF SweepOn
  <2>2. TypeOK'
    BY <1>0, <2>1 DEF IInv, TypeOK
  <2> QED
    BY <1>0, <1>1, <2>1, <2>2, QuietStep
<1>2. CASE expired # {}
  <2>1. PICK s \in expired : Close({s}) /\ sweeping' = s /\ expired' = expired \ {s}
    BY <1>2 DEF SweepOn
  <2>2. s \in Inits /\ life[s] # "none"
    BY DEF IInv, TypeOK, Unborn
  <2>3. /\ life' \in [Inits -> {"none", "building", "listed", "closing", "closed", "dropped"}]
        /\ \A t \in Inits : life'[t] = life[t] \/ (life[t] # "none" /\ life'[t] = "closing")
    <3>1. {s} \in SUBSET Inits /\ \A t \in {s} : life[t] # "none"
      BY <2>2
    <3> QED
      BY <2>1, <3>1, Closes
  <2>4. TypeOK'
    BY <1>0, <2>1, <2>2, <2>3 DEF IInv, TypeOK
  <2>5. \A t \in expired' : life[t] \in {"listed", "closing", "closed"}
    BY <2>1 DEF IInv, Unborn
  <2> QED
    BY <1>0, <2>3, <2>4, <2>5, QuietStep
<1> QED
  BY <1>1, <1>2

LEMMA ShutdownStep == ASSUME IInv, Shutdown \/ Down \/ UNCHANGED vars PROVE IInv'
<1>0. /\ UNCHANGED <<pc, target, life, open, posts, pending, sweeping, expired, ending>>
      /\ phase' \in {phase, "draining", "down"}
  BY DEF Shutdown, Down, vars, requestVars, sessionVars, sweepVars, shutVars
<1>1. TypeOK'
  BY <1>0 DEF IInv, TypeOK
<1> QED
  BY <1>0, <1>1, QuietStep DEF IInv, Unborn

LEMMA CloseAllStep == ASSUME IInv, CloseAll PROVE IInv'
<1>0. /\ UNCHANGED <<pc, target, open, posts, pending, sweeping, expired>>
      /\ phase' = "closing" /\ ending' = Listed /\ Close(Listed)
  BY DEF CloseAll, requestVars, sweepVars, shutVars
<1>1. Listed \in SUBSET Inits /\ \A s \in Listed : life[s] # "none"
  BY DEF Listed
<1>2. /\ life' \in [Inits -> {"none", "building", "listed", "closing", "closed", "dropped"}]
      /\ \A t \in Inits : life'[t] = life[t] \/ (life[t] # "none" /\ life'[t] = "closing")
  BY <1>0, <1>1, Closes
<1>3. TypeOK'
  BY <1>0, <1>1, <1>2 DEF IInv, TypeOK
<1> QED
  BY <1>0, <1>2, <1>3, QuietStep DEF IInv, Unborn

LEMMA StepIInv == IInv /\ [Next]_vars => IInv'
<1> SUFFICES ASSUME IInv, [Next]_vars
             PROVE  IInv'
  OBVIOUS
<1>1. ASSUME NEW r \in Requests, Arrive(r) \/ Advance(r)
      PROVE  IInv'
  BY <1>1, ArriveStep, RouteStep, CreateStep, ConnectStep, BuildThrowsStep, HandOverStep, FinishStep DEF Advance
<1>2. ASSUME NEW s \in Inits, SessionInitialized(s) \/ Closed(s)
      PROVE  IInv'
  BY <1>2, SessionInitializedStep, ClosedStep
<1> QED
  BY <1>1, <1>2, SweepStep, SweepOnStep, ShutdownStep, CloseAllStep DEF Next

LEMMA Invariance == Spec => []IInv
  BY InitIInv, StepIInv, PTL DEF Spec
------------------------------------------------------------------------------
(* The theorems. *)

\* Every variable keeps its type; that no counter goes below zero rests on the
\* counts being exact.
THEOREM TypeCorrect == Spec => []TypeOK
<1>1. IInv => TypeOK
  BY DEF IInv
<1> QED
  BY <1>1, Invariance, PTL

\* With any number of initialize requests under way, the sessions in the map
\* and those being built stay within SN_HTTP_MAX_SESSIONS.
THEOREM CapHolds == Spec => []CapRespected
<1>1. IInv => CapRespected
  BY DEF IInv
<1> QED
  BY <1>1, Invariance, PTL

\* open, posts and pending count what they stand for in every state.
THEOREM CountsAreExact == Spec => []CountsExact
<1>1. IInv => CountsExact
  BY DEF IInv
<1> QED
  BY <1>1, Invariance, PTL

\* The cap and the counts together: the manager's bookkeeping.
THEOREM SessionsAreCounted == Spec => []SessionsCounted
BY CapHolds, CountsAreExact, PTL DEF SessionsCounted

\* A session that was built is never lost between the map and its closing.
THEOREM NoneIsLeftBehind == Spec => []NoneLeftBehind
<1>1. IInv => NoneLeftBehind
  BY DEF IInv
<1> QED
  BY <1>1, Invariance, PTL

------------------------------------------------------------------------------
(* The event store of a session. *)

\* StoreTypeOK without the running total.
StoreTypes ==
  /\ seq \in Nat /\ dropped \in Nat /\ seq <= MaxSeq /\ dropped <= seq
  /\ streamOf \in [Events -> Streams]
  /\ real \in [Events -> BOOLEAN]
  /\ at \in [Replays -> {"idle", "sending", "done", "refused"}]
  /\ last \in [Replays -> Nat] /\ \A r \in Replays : last[r] <= seq
  /\ next \in [Replays -> Nat]
  /\ sent \in [Replays -> Seq(Nat)]
  /\ \A r \in Replays : \A i \in 1 .. Len(sent[r]) : sent[r][i] <= seq
  /\ until \in [Replays -> Nat] /\ \A r \in Replays : until[r] <= seq
  /\ quiet \in [Replays -> BOOLEAN]

\* A replay that has not begun has sent nothing; one that is suspended stands
\* behind what it sent last, and exactly there if nothing was shifted out.
Standing ==
  \A r \in Replays :
    /\ at[r] = "idle" => quiet[r]
    /\ at[r] \in {"idle", "refused"} => sent[r] = <<>>
    /\ at[r] \in {"sending", "done"} => last[r] > 0
    /\ at[r] = "sending" =>
         /\ sent[r] # <<>>
         /\ sent[r][Len(sent[r])] <= dropped + next[r]
         /\ quiet[r] => sent[r][Len(sent[r])] = dropped + next[r]

\* What a suspended replay has behind it is sent.
SentSoFar ==
  \A r \in Replays : at[r] = "sending" /\ quiet[r] =>
    \A e \in last[r] + 1 .. dropped + next[r] : Due(e, last[r]) => WasSent(r, e)

\* The inductive invariant.  That a replay keeps the order is not inductive: the
\* iterator's position is relative to a ring that moves.
StoreIInv ==
  /\ StoreTypes
  /\ Bounded
  /\ Standing
  /\ SentOnceInOrder
  /\ SentSoFar
  /\ QuietReplayComplete

USE StreamsAssumption, LimitsAssumption
------------------------------------------------------------------------------
LEMMA StoreInitIInv == StoreInit => StoreIInv
<1> SUFFICES ASSUME StoreInit
             PROVE  StoreIInv
  OBVIOUS
<1>1. StoreTypes
  BY DEF StoreInit, StoreTypes, Events
<1>2. Bounded
  BY DEF StoreInit, Bounded
<1>3. Standing /\ SentOnceInOrder /\ SentSoFar /\ QuietReplayComplete
  BY DEF StoreInit, Standing, SentOnceInOrder, SentSoFar, QuietReplayComplete
<1> QED
  BY <1>1, <1>2, <1>3 DEF StoreIInv

\* What was stored before is as it was.
LEMMA StoreEventStep == ASSUME StoreIInv, StoreEvent PROVE StoreIInv'
<1>1. PICK first \in dropped + 1 .. seq + 1 :
        /\ dropped' = first - 1
        /\ first = seq + 1 \/ ((seq + 1) - first + 1 <= MaxEvents /\ bytes' <= MaxBytes)
  <2>1. PICK size \in Sizes : \E first \in dropped + 1 .. seq + 1 :
          /\ Fits(first, seq + 1, BytesAfter(size, dropped + 1 .. first - 1))
          /\ dropped' = first - 1
          /\ bytes' = BytesAfter(size, dropped + 1 .. first - 1)
    BY DEF StoreEvent
  <2>2. PICK first \in dropped + 1 .. seq + 1 :
          /\ Fits(first, seq + 1, bytes')
          /\ dropped' = first - 1
    BY <2>1
  <2>3. first = seq + 1 \/ ((seq + 1) - first + 1 <= MaxEvents /\ bytes' <= MaxBytes)
    BY <2>2 DEF Fits
  <2> QED
    BY <2>2, <2>3, Zenon
<1>2. /\ seq < MaxSeq /\ seq' = seq + 1
      /\ \E stream \in Streams : streamOf' = [streamOf EXCEPT ![seq + 1] = stream]
      /\ \E message \in BOOLEAN : real' = [real EXCEPT ![seq + 1] = message]
      /\ quiet' = [r \in Replays |-> quiet[r] /\ (at[r] = "sending" => dropped' = dropped)]
      /\ UNCHANGED <<at, last, next, sent, until>>
  BY DEF StoreEvent
<1>3. dropped' \in Nat /\ dropped <= dropped' /\ dropped' <= seq
  BY <1>1 DEF StoreIInv, StoreTypes
<1>4. \A e \in Events : e <= seq => streamOf'[e] = streamOf[e] /\ real'[e] = real[e]
  BY <1>2 DEF StoreIInv, StoreTypes, Events
<1>5. \A e, from \in Nat : 0 < from /\ from < e /\ e <= seq => (Due(e, from)' <=> Due(e, from))
  BY <1>2, <1>4 DEF Due, Events, StoreIInv, StoreTypes
<1>6. StoreTypes'
  BY <1>2, <1>3 DEF StoreIInv, StoreTypes, Events
<1>7. Bounded'
  BY <1>1, <1>2, <1>3 DEF StoreIInv, StoreTypes, Bounded
<1>8. Standing'
  <2> SUFFICES ASSUME NEW r \in Replays
               PROVE  /\ at[r] = "idle" => quiet'[r]
                      /\ at[r] = "sending" =>
                           /\ sent[r][Len(sent[r])] <= dropped' + next[r]
                           /\ quiet'[r] => sent[r][Len(sent[r])] = dropped' + next[r]
    BY <1>2 DEF StoreIInv, Standing
  <2>1. at[r] = "sending" =>
          \E v \in Nat : /\ v = sent[r][Len(sent[r])] /\ v <= dropped + next[r]
                         /\ quiet[r] => v = dropped + next[r]
    <3>1. sent[r] # <<>> => sent[r][Len(sent[r])] \in Nat
      BY DEF StoreIInv, StoreTypes
    <3> QED
      BY <3>1 DEF StoreIInv, Standing
  <2>2. next[r] \in Nat /\ dropped \in Nat
    BY DEF StoreIInv, StoreTypes
  <2>3. quiet'[r] = (quiet[r] /\ (at[r] = "sending" => dropped' = dropped))
    BY <1>2
  <2> QED
    <3>1. at[r] = "idle" => quiet'[r]
      BY <2>3 DEF StoreIInv, Standing
    <3> HIDE DEF StoreIInv
    <3>2. ASSUME at[r] = "sending"
          PROVE  /\ sent[r][Len(sent[r])] <= dropped' + next[r]
                 /\ quiet'[r] => sent[r][Len(sent[r])] = dropped' + next[r]
      <4>1. PICK v \in Nat : /\ v = sent[r][Len(sent[r])] /\ v <= dropped + next[r]
                             /\ quiet[r] => v = dropped + next[r]
        BY <3>2, <2>1
      <4>2. v <= dropped' + next[r]
        BY <4>1, <2>2, <1>3
      <4>3. quiet'[r] => quiet[r] /\ dropped' = dropped
        BY <3>2, <2>3
      <4> QED
        BY <4>1, <4>2, <4>3
    <3> QED
      BY <3>1, <3>2
<1>9. SentOnceInOrder'
  <2> SUFFICES ASSUME NEW r \in Replays, NEW j \in 1 .. Len(sent[r])
               PROVE  Due(sent[r][j], last[r])' /\ \A i \in 1 .. j - 1 : sent[r][i] < sent[r][j]
    BY <1>2 DEF SentOnceInOrder
  <2>1. Due(sent[r][j], last[r]) /\ \A i \in 1 .. j - 1 : sent[r][i] < sent[r][j]
    BY DEF StoreIInv, SentOnceInOrder
  <2>2. sent[r] # <<>> /\ sent[r][j] \in Nat /\ sent[r][j] <= seq /\ last[r] \in Nat /\ last[r] > 0
    BY DEF StoreIInv, StoreTypes, Standing
  <2>3. last[r] < sent[r][j]
    BY <2>1, <2>2 DEF Due
  <2>4. Due(sent[r][j], last[r])' <=> Due(sent[r][j], last[r])
    BY <1>2, <1>5, <2>2, <2>3
  <2> QED
    BY <2>1, <2>4
<1>10. SentSoFar'
  <2> SUFFICES ASSUME NEW r \in Replays, at[r] = "sending", quiet'[r],
                      NEW e \in last[r] + 1 .. dropped' + next[r], Due(e, last[r])'
               PROVE  WasSent(r, e)
    BY <1>2 DEF SentSoFar, WasSent
  <2>1. dropped' = dropped /\ quiet[r]
    BY <1>2
  <2>2. last[r] \in Nat /\ last[r] > 0 /\ next[r] \in Nat /\ e \in Nat /\ last[r] < e
    BY <1>3, <2>1 DEF StoreIInv, StoreTypes, Standing
  <2>3. e <= seq
    <3>1. sent[r] # <<>> /\ sent[r][Len(sent[r])] = dropped + next[r]
      BY <2>1 DEF StoreIInv, Standing
    <3>2. Len(sent[r]) \in 1 .. Len(sent[r])
      BY <3>1 DEF StoreIInv, StoreTypes
    <3>3. sent[r][Len(sent[r])] <= seq
      BY <3>2 DEF StoreIInv, StoreTypes
    <3>4. dropped + next[r] <= seq
      BY <3>1, <3>3
    <3> QED
      BY <2>1, <2>2, <3>4 DEF StoreIInv, StoreTypes
  <2>4. Due(e, last[r])
    BY <1>5, <1>2, <2>2, <2>3
  <2> QED
    BY <2>1, <2>4 DEF StoreIInv, SentSoFar
<1>11. QuietReplayComplete'
  <2> SUFFICES ASSUME NEW r \in Replays, at[r] = "done", quiet'[r],
                      NEW e \in last[r] + 1 .. until[r], Due(e, last[r])'
               PROVE  WasSent(r, e)
    BY <1>2 DEF QuietReplayComplete, WasSent
  <2>1. quiet[r]
    BY <1>2
  <2>2. last[r] \in Nat /\ last[r] > 0 /\ e \in Nat /\ last[r] < e /\ e <= seq
    BY DEF StoreIInv, StoreTypes, Standing
  <2>3. Due(e, last[r])
    BY <1>5, <1>2, <2>2
  <2> QED
    BY <2>1, <2>3 DEF StoreIInv, QuietReplayComplete
<1> QED
  BY <1>6, <1>7, <1>8, <1>9, <1>10, <1>11 DEF StoreIInv

\* What the loop adds: nothing, or the first event ahead of position i.
LEMMA SendNextStep ==
  ASSUME StoreIInv, NEW r \in Replays, NEW from \in 1 .. seq, NEW i \in Nat, SendNext(r, from, i)
  PROVE  \/ /\ at' = [at EXCEPT ![r] = "done"] /\ next' = next /\ sent' = sent
            /\ \A f \in Held : f >= dropped + 1 + i => ~Due(f, from)
         \/ \E e \in Held :
              /\ e >= dropped + 1 + i /\ Due(e, from)
              /\ \A f \in Held : f >= dropped + 1 + i /\ Due(f, from) => e <= f
              /\ at' = [at EXCEPT ![r] = "sending"]
              /\ next' = [next EXCEPT ![r] = e - dropped]
              /\ sent' = [sent EXCEPT ![r] = Append(sent[r], e)]
<1>1. CASE Ahead(r, from, i) = {}
  BY <1>1 DEF SendNext, Ahead
<1>2. CASE Ahead(r, from, i) # {}
  <2>1. PICK e \in Ahead(r, from, i) :
          /\ \A f \in Ahead(r, from, i) : e <= f
          /\ at' = [at EXCEPT ![r] = "sending"]
          /\ next' = [next EXCEPT ![r] = e - dropped]
          /\ sent' = [sent EXCEPT ![r] = Append(@, e)]
    BY <1>2 DEF SendNext
  <2>2. e \in Held /\ e >= dropped + 1 + i /\ Due(e, from)
    BY DEF Ahead
  <2>3. \A f \in Held : f >= dropped + 1 + i /\ Due(f, from) => e <= f
    BY <2>1 DEF Ahead
  <2> QED
    BY <2>1, <2>2, <2>3
<1> QED
  BY <1>1, <1>2

\* A replay is at the end of the ring, and has sent what was due.
LEMMA Ended ==
  ASSUME StoreIInv, NEW r \in Replays, NEW i \in Nat, NEW from \in 1 .. seq,
         at' = [at EXCEPT ![r] = "done"], next' = next, sent' = sent,
         last' = [last EXCEPT ![r] = from], quiet' = quiet,
         UNCHANGED <<seq, dropped, bytes, eventVars>>,
         until' = until \/ until' = [until EXCEPT ![r] = seq],
         \A f \in Held : f >= dropped + 1 + i => ~Due(f, from),
         sent[r] # <<>> => last[r] = from,
         quiet[r] => \A e \in from + 1 .. dropped + i : Due(e, from) => WasSent(r, e)
  PROVE  StoreIInv'
<1>0. from \in Nat /\ from <= seq /\ seq \in Nat
  BY DEF StoreIInv, StoreTypes, Held
<1>1. StoreTypes'
  <2>1. until' \in [Replays -> Nat] /\ \A x \in Replays : until'[x] <= seq
    <3>1. CASE until' = until
      BY <3>1 DEF StoreIInv, StoreTypes
    <3>2. CASE until' = [until EXCEPT ![r] = seq]
      BY <1>0, <3>2 DEF StoreIInv, StoreTypes
    <3> QED
      BY <3>1, <3>2
  <2>2. last' \in [Replays -> Nat] /\ \A x \in Replays : last'[x] <= seq
    BY <1>0 DEF StoreIInv, StoreTypes
  <2>3. at' \in [Replays -> {"idle", "sending", "done", "refused"}]
    BY DEF StoreIInv, StoreTypes
  <2> QED
    BY <2>1, <2>2, <2>3 DEF StoreIInv, StoreTypes, eventVars, Events
<1>2. Bounded'
  BY DEF StoreIInv, Bounded
<1>3. /\ \A x \in Replays \ {r} : /\ at'[x] = at[x] /\ last'[x] = last[x] /\ until'[x] = until[x]
      /\ at'[r] = "done" /\ last'[r] = from /\ until'[r] \in Nat /\ until'[r] <= seq
      /\ from \in Nat /\ from > 0 /\ from <= seq /\ dropped \in Nat /\ seq \in Nat
  BY DEF StoreIInv, StoreTypes, Held
<1>4. Standing'
  BY <1>3 DEF StoreIInv, Standing
<1>5. \A e, f : Due(e, f)' <=> Due(e, f)
  BY DEF Due, eventVars
<1>6. SentOnceInOrder'
  <2> SUFFICES ASSUME NEW x \in Replays, NEW j \in 1 .. Len(sent[x])
               PROVE  Due(sent[x][j], last'[x]) /\ \A k \in 1 .. j - 1 : sent[x][k] < sent[x][j]
    BY <1>5 DEF SentOnceInOrder
  <2>1. last'[x] = last[x]
    <3>1. sent[x] # <<>>
      BY DEF StoreIInv, StoreTypes
    <3> QED
      BY <1>3, <3>1
  <2> QED
    BY <2>1 DEF StoreIInv, SentOnceInOrder
<1>7. SentSoFar'
  <2> SUFFICES ASSUME NEW x \in Replays, at'[x] = "sending", quiet[x],
                      NEW e \in last'[x] + 1 .. dropped + next[x], Due(e, last'[x])
               PROVE  WasSent(x, e)
    BY <1>5 DEF SentSoFar, WasSent
  <2>1. x # r /\ last'[x] = last[x] /\ at[x] = "sending"
    BY <1>3
  <2> QED
    BY <2>1 DEF StoreIInv, SentSoFar
<1>8. QuietReplayComplete'
  <2> SUFFICES ASSUME NEW x \in Replays, at'[x] = "done", quiet[x],
                      NEW e \in last'[x] + 1 .. until'[x], Due(e, last'[x])
               PROVE  WasSent(x, e)
    BY <1>5 DEF QuietReplayComplete, WasSent
  <2>1. CASE x # r
    BY <1>3, <2>1 DEF StoreIInv, QuietReplayComplete
  <2>2. CASE x = r
    <3>1. e \in Nat /\ from < e /\ e <= seq /\ Due(e, from)
      BY <1>3, <2>2
    <3>2. e <= dropped + i
      <4> SUFFICES ASSUME e >= dropped + 1 + i
                   PROVE  FALSE
        BY <1>3, <3>1
      <4>1. e \in Held
        BY <1>3, <3>1 DEF Held
      <4> QED
        BY <3>1, <4>1
    <3>4. e \in from + 1 .. dropped + i
      BY <1>3, <3>1, <3>2
    <3> QED
      BY <2>2, <3>1, <3>4
  <2> QED
    BY <2>1, <2>2
<1> QED
  BY <1>1, <1>2, <1>4, <1>6, <1>7, <1>8 DEF StoreIInv

\* A replay sends the next event that is due.
LEMMA Sends ==
  ASSUME StoreIInv, NEW r \in Replays, NEW i \in Nat, NEW from \in 1 .. seq, NEW e \in Held,
         at' = [at EXCEPT ![r] = "sending"], next' = [next EXCEPT ![r] = e - dropped],
         sent' = [sent EXCEPT ![r] = Append(sent[r], e)],
         last' = [last EXCEPT ![r] = from], quiet' = quiet,
         UNCHANGED <<seq, dropped, bytes, eventVars>>,
         until' = until \/ until' = [until EXCEPT ![r] = seq],
         e >= dropped + 1 + i, Due(e, from),
         \A f \in Held : f >= dropped + 1 + i /\ Due(f, from) => e <= f,
         sent[r] # <<>> => last[r] = from /\ sent[r][Len(sent[r])] <= dropped + i,
         quiet[r] => \A f \in from + 1 .. dropped + i : Due(f, from) => WasSent(r, f)
  PROVE  StoreIInv'
<1>0. /\ from \in Nat /\ from > 0 /\ from <= seq /\ seq \in Nat /\ dropped \in Nat
      /\ e \in Nat /\ e <= seq /\ dropped < e /\ e - dropped \in Nat
      /\ dropped + (e - dropped) = e
  BY DEF StoreIInv, StoreTypes, Held
<1>1. sent'[r] = Append(sent[r], e) /\ \A x \in Replays \ {r} : sent'[x] = sent[x]
  BY DEF StoreIInv, StoreTypes
<1>2. /\ sent[r] \in Seq(Nat) /\ Len(sent[r]) \in Nat
      /\ sent'[r] # <<>> /\ sent'[r] \in Seq(Nat) /\ Len(sent'[r]) = Len(sent[r]) + 1
      /\ sent'[r][Len(sent'[r])] = e
      /\ \A j \in 1 .. Len(sent[r]) : sent'[r][j] = sent[r][j]
  <2>1. sent[r] \in Seq(Nat)
    BY DEF StoreIInv, StoreTypes
  <2> QED
    BY <1>0, <1>1, <2>1
<1>3. /\ \A x \in Replays \ {r} :
           /\ at'[x] = at[x] /\ last'[x] = last[x] /\ until'[x] = until[x] /\ next'[x] = next[x]
      /\ at'[r] = "sending" /\ last'[r] = from /\ next'[r] = e - dropped
  BY DEF StoreIInv, StoreTypes
<1>4. StoreTypes'
  <2>1. until' \in [Replays -> Nat] /\ \A x \in Replays : until'[x] <= seq
    <3>1. CASE until' = until
      BY <3>1 DEF StoreIInv, StoreTypes
    <3>2. CASE until' = [until EXCEPT ![r] = seq]
      BY <1>0, <3>2 DEF StoreIInv, StoreTypes
    <3> QED
      BY <3>1, <3>2
  <2>2. last' \in [Replays -> Nat] /\ \A x \in Replays : last'[x] <= seq
    BY <1>0 DEF StoreIInv, StoreTypes
  <2>3. at' \in [Replays -> {"idle", "sending", "done", "refused"}]
    BY DEF StoreIInv, StoreTypes
  <2>4. next' \in [Replays -> Nat]
    BY <1>0 DEF StoreIInv, StoreTypes
  <2>5. sent' \in [Replays -> Seq(Nat)]
    BY <1>1, <1>2 DEF StoreIInv, StoreTypes
  <2>6. ASSUME NEW x \in Replays, NEW j \in 1 .. Len(sent'[x])
        PROVE  sent'[x][j] <= seq
    <3>1. CASE x # r
      BY <1>1, <3>1 DEF StoreIInv, StoreTypes
    <3>2. CASE x = r
      <4>1. j \in 1 .. Len(sent[r]) \/ j = Len(sent'[r])
        BY <1>2, <3>2
      <4>2. j \in 1 .. Len(sent[r]) => sent[r][j] <= seq
        BY DEF StoreIInv, StoreTypes
      <4> QED
        BY <1>0, <1>2, <3>2, <4>1, <4>2
    <3> QED
      BY <3>1, <3>2
  <2> QED
    BY <2>1, <2>2, <2>3, <2>4, <2>5, <2>6 DEF StoreIInv, StoreTypes, eventVars, Events
<1>5. Bounded'
  BY DEF StoreIInv, Bounded
<1>6. Standing'
  <2>1. /\ at'[r] = "sending" /\ last'[r] > 0 /\ sent'[r] # <<>>
        /\ sent'[r][Len(sent'[r])] = dropped + next'[r]
    BY <1>0, <1>2, <1>3
  <2>2. sent'[r][Len(sent'[r])] <= dropped + next'[r]
    BY <1>0, <1>2, <1>3
  <2> QED
    BY <1>1, <1>3, <2>1, <2>2 DEF StoreIInv, Standing
<1>7. \A f, g : Due(f, g)' <=> Due(f, g)
  BY DEF Due, eventVars
<1>8. SentOnceInOrder'
  <2> SUFFICES ASSUME NEW x \in Replays, NEW j \in 1 .. Len(sent'[x])
               PROVE  Due(sent'[x][j], last'[x]) /\ \A k \in 1 .. j - 1 : sent'[x][k] < sent'[x][j]
    BY <1>7 DEF SentOnceInOrder
  <2>1. CASE x # r
    BY <1>1, <1>3, <2>1 DEF StoreIInv, SentOnceInOrder
  <2>2. CASE x = r /\ j \in 1 .. Len(sent[r])
    <3>1. last[r] = from
      BY <2>2
    <3>2. Due(sent[r][j], last[r]) /\ \A k \in 1 .. j - 1 : sent[r][k] < sent[r][j]
      BY <2>2 DEF StoreIInv, SentOnceInOrder
    <3>3. \A k \in 1 .. j - 1 : k \in 1 .. Len(sent[r])
      BY <1>2, <2>2
    <3> QED
      BY SMTT(60), <1>2, <1>3, <2>2, <3>1, <3>2, <3>3
  <2>3. CASE x = r /\ j = Len(sent[r]) + 1
    <3>1. sent'[r][j] = e
      BY <1>2, <2>3
    <3>2. ASSUME NEW k \in 1 .. j - 1
          PROVE  sent'[r][k] < e
      <4>1. k \in 1 .. Len(sent[r]) /\ sent[r] # <<>> /\ Len(sent[r]) \in 1 .. Len(sent[r])
        BY <1>2, <2>3
      <4>2. sent'[r][k] = sent[r][k] /\ sent[r][k] \in Nat /\ sent[r][Len(sent[r])] \in Nat
        BY <1>2, <4>1
      <4>3. k = Len(sent[r]) \/ sent[r][k] < sent[r][Len(sent[r])]
        <5>1. \A q \in 1 .. Len(sent[r]) - 1 : sent[r][q] < sent[r][Len(sent[r])]
          BY <4>1 DEF StoreIInv, SentOnceInOrder
        <5>2. k = Len(sent[r]) \/ k \in 1 .. Len(sent[r]) - 1
          BY <1>2, <4>1
        <5> QED
          BY <5>1, <5>2
      <4>4. PICK a \in Nat, b \in Nat : a = sent[r][k] /\ b = sent[r][Len(sent[r])]
        BY <4>2
      <4>5. (a = b \/ a < b) /\ b <= dropped + i
        BY <4>1, <4>3, <4>4
      <4>6. a < e
        BY <1>0, <4>5
      <4> QED
        BY <4>2, <4>4, <4>6
    <3> QED
      BY <1>3, <2>3, <3>1, <3>2
  <2> QED
    BY <1>2, <2>1, <2>2, <2>3
<1>9. \A x \in Replays : \A f : WasSent(x, f) => WasSent(x, f)'
  <2> SUFFICES ASSUME NEW x \in Replays, NEW f, NEW k \in 1 .. Len(sent[x]), sent[x][k] = f
               PROVE  \E q \in 1 .. Len(sent'[x]) : sent'[x][q] = f
    BY DEF WasSent
  <2>1. k \in 1 .. Len(sent'[x]) /\ sent'[x][k] = f
    BY <1>1, <1>2
  <2> QED
    BY <2>1
<1>10. WasSent(r, e)'
  <2>1. Len(sent'[r]) \in 1 .. Len(sent'[r])
    BY <1>2
  <2> QED
    BY <1>2, <2>1 DEF WasSent
<1>11. SentSoFar'
  <2> SUFFICES ASSUME NEW x \in Replays, at'[x] = "sending", quiet[x],
                      NEW f \in last'[x] + 1 .. dropped + next'[x], Due(f, last'[x])
               PROVE  WasSent(x, f)'
    BY <1>7 DEF SentSoFar
  <2>1. CASE x # r
    BY <1>3, <1>9, <2>1 DEF StoreIInv, SentSoFar
  <2>2. CASE x = r
    <3>0. dropped + next'[r] = e /\ last'[r] = from
      BY <1>0, <1>3
    <3>1. f \in Nat /\ from < f /\ f <= e /\ Due(f, from)
      <4>1. f \in from + 1 .. e /\ Due(f, from)
        BY <2>2, <3>0
      <4>2. from \in Nat /\ e \in Nat
        BY <1>0
      <4>3. f \in Nat /\ from < f /\ f <= e
        BY <4>1, <4>2
      <4> QED
        BY <4>1, <4>3
    <3>2. CASE f <= dropped + i
      <4>1. f \in from + 1 .. dropped + i
        BY <1>0, <3>1, <3>2
      <4> QED
        BY <1>9, <2>2, <3>1, <4>1
    <3>3. CASE f > dropped + i
      <4>1. f \in Held /\ f >= dropped + 1 + i
        BY <1>0, <3>1, <3>3 DEF Held
      <4>2. f = e
        BY <1>0, <3>1, <4>1
      <4> QED
        BY <1>10, <2>2, <4>2
    <3> QED
      BY <1>0, <3>1, <3>2, <3>3
  <2> QED
    BY <2>1, <2>2
<1>12. QuietReplayComplete'
  <2> SUFFICES ASSUME NEW x \in Replays, at'[x] = "done", quiet[x],
                      NEW f \in last'[x] + 1 .. until'[x], Due(f, last'[x])
               PROVE  WasSent(x, f)'
    BY <1>7 DEF QuietReplayComplete
  <2>1. x # r
    BY <1>3
  <2> QED
    BY <1>3, <1>9, <2>1 DEF StoreIInv, QuietReplayComplete
<1> QED
  BY <1>4, <1>5, <1>6, <1>8, <1>11, <1>12 DEF StoreIInv

LEMMA ReconnectStep == ASSUME StoreIInv, NEW r \in Replays, Reconnect(r) PROVE StoreIInv'
<1>1. PICK e \in 1 .. seq : last' = [last EXCEPT ![r] = e] /\ SendNext(r, e, 0) /\ e > dropped
  <2>1. PICK e \in Held : last' = [last EXCEPT ![r] = e] /\ SendNext(r, e, 0)
    BY DEF Reconnect
  <2>2. e \in 1 .. seq /\ e > dropped
    BY DEF Held, StoreIInv, StoreTypes
  <2> QED
    BY <2>1, <2>2
<1>2. /\ until' = [until EXCEPT ![r] = seq] /\ quiet' = quiet
      /\ UNCHANGED <<seq, dropped, bytes, eventVars>> /\ sent[r] = <<>>
  BY DEF Reconnect, StoreIInv, Standing
<1>3. \A f \in e + 1 .. dropped + 0 : Due(f, e) => WasSent(r, f)
  BY <1>1 DEF StoreIInv, StoreTypes
<1> QED
  BY <1>1, <1>2, <1>3, SendNextStep, Ended, Sends

LEMMA ResumeStep == ASSUME StoreIInv, NEW r \in Replays, Resume(r) PROVE StoreIInv'
<1>1. /\ at[r] = "sending" /\ SendNext(r, last[r], next[r])
      /\ UNCHANGED <<seq, dropped, bytes, eventVars, last, until, quiet>>
  BY DEF Resume
<1>2. /\ last[r] \in 1 .. seq /\ next[r] \in Nat /\ last' = [last EXCEPT ![r] = last[r]]
      /\ sent[r][Len(sent[r])] <= dropped + next[r]
  BY <1>1 DEF StoreIInv, StoreTypes, Standing
<1>3. quiet[r] => \A f \in last[r] + 1 .. dropped + next[r] : Due(f, last[r]) => WasSent(r, f)
  BY <1>1 DEF StoreIInv, SentSoFar
<1> QED
  BY <1>1, <1>2, <1>3, SendNextStep, Ended, Sends

LEMMA TooLateStep == ASSUME StoreIInv, NEW r \in Replays, TooLate(r) PROVE StoreIInv'
<1>1. /\ at[r] = "idle" /\ at' = [at EXCEPT ![r] = "refused"]
      /\ UNCHANGED <<seq, dropped, bytes, streamOf, sizeOf, real, last, next, sent, until, quiet>>
  BY DEF TooLate, eventVars
<1>2. at'[r] = "refused" /\ \A x \in Replays \ {r} : at'[x] = at[x]
  BY <1>1 DEF StoreIInv, StoreTypes
<1>3. StoreTypes' /\ Bounded'
  BY <1>1 DEF StoreIInv, StoreTypes, Bounded, Events
<1>4. Standing'
  BY <1>1, <1>2 DEF StoreIInv, Standing
<1>5. SentOnceInOrder'
  BY <1>1 DEF StoreIInv, SentOnceInOrder, Due
<1>6. SentSoFar'
  BY <1>1, <1>2 DEF StoreIInv, SentSoFar, Due, WasSent
<1>7. QuietReplayComplete'
  BY <1>1, <1>2 DEF StoreIInv, QuietReplayComplete, Due, WasSent
<1> QED
  BY <1>3, <1>4, <1>5, <1>6, <1>7 DEF StoreIInv

LEMMA StoreStepIInv == StoreIInv /\ [StoreNext]_storeVars => StoreIInv'
<1> SUFFICES ASSUME StoreIInv, [StoreNext]_storeVars
             PROVE  StoreIInv'
  OBVIOUS
<1>1. CASE UNCHANGED storeVars
  BY <1>1 DEF storeVars, eventVars, replayVars, StoreIInv, StoreTypes, Bounded, Standing, SentOnceInOrder,
              SentSoFar, QuietReplayComplete, Due, WasSent, Events
<1> QED
  BY <1>1, StoreEventStep, ReconnectStep, ResumeStep, TooLateStep DEF StoreNext

LEMMA StoreInvariance == StoreSpec => []StoreIInv
  BY StoreInitIInv, StoreStepIInv, PTL DEF StoreSpec
------------------------------------------------------------------------------
(* Sums.  The fold of the library is a recursion on finite sets; that it is   *)
(* defined, and adds up in any order, is proved from a smallest set on which  *)
(* it were not.                                                               *)

\* The element that a fold takes first.
First(S) == CHOOSE x \in S : TRUE

\* The fold's recursion, on the subsets of S.
Rec(w, S, g) ==
  g = [T \in SUBSET S |-> IF T = {} THEN 0 ELSE w[First(T)] + g[T \ {First(T)}]]

\* What it computes.
Total(w, S) == (CHOOSE g : Rec(w, S, g))[S]

\* What BytesOf computes.
LEMMA BytesAreTotal == ASSUME NEW S PROVE BytesOf(S) = Total(sizeOf, S)
  BY DEF BytesOf, FoldSet, MapThenFoldSet, Total, Rec, First

\* A set of subsets of a finite set has a smallest one: induction on finite
\* sets, as a fact about sets.
LEMMA SmallestSet ==
  ASSUME NEW S, IsFiniteSet(S), NEW F \in SUBSET SUBSET S, F # {}
  PROVE  \E A \in F : \A B \in F : B \subseteq A => B = A
<1>1. FiniteSubsetsOf(S) = SUBSET S
  BY FS_FiniteSubsetsOfFinite
<1>2. IsWellFoundedOn(StrictSubsetOrdering(S), SUBSET S)
  BY <1>1, FS_StrictSubsetOrderingWellFounded
<1>3. PICK A \in F : \A B \in F : ~(<<B, A>> \in StrictSubsetOrdering(S))
  BY <1>2, WFMin
<1>4. ASSUME NEW B \in F, B \subseteq A PROVE B = A
  BY <1>3, <1>4 DEF StrictSubsetOrdering
<1> QED
  BY <1>4

\* Two runs of the recursion agree where both are defined.
LEMMA RecsAgree ==
  ASSUME NEW w, NEW A, NEW B, IsFiniteSet(A), NEW g, NEW h, Rec(w, A, g), Rec(w, B, h)
  PROVE  \A T \in SUBSET A : T \subseteq B => g[T] = h[T]
<1> DEFINE F == {T \in SUBSET A : T \subseteq B /\ g[T] # h[T]}
<1>1. SUFFICES ASSUME F # {} PROVE FALSE
  OBVIOUS
<1>2. F \in SUBSET SUBSET A
  OBVIOUS
<1>3. PICK T \in F : \A U \in F : U \subseteq T => U = T
  <2> HIDE DEF F
  <2> QED
    BY <1>1, <1>2, SmallestSet
<1>4. T # {}
  BY <1>3 DEF Rec
<1>5. First(T) \in T
  BY <1>4 DEF First
<1>6. g[T \ {First(T)}] = h[T \ {First(T)}]
  BY <1>3, <1>5
<1>7. g[T] = w[First(T)] + g[T \ {First(T)}] /\ h[T] = w[First(T)] + h[T \ {First(T)}]
  BY <1>3, <1>4 DEF Rec
<1> QED
  BY <1>3, <1>6, <1>7

\* The recursion is defined on every finite set.
LEMMA RecExists ==
  ASSUME NEW w, NEW S, IsFiniteSet(S)
  PROVE  \E g : Rec(w, S, g)
<1> DEFINE F == {A \in SUBSET S : ~ \E g : Rec(w, A, g)}
<1>1. SUFFICES ASSUME F # {} PROVE FALSE
  OBVIOUS
<1>2. F \in SUBSET SUBSET S
  OBVIOUS
<1>3. PICK A \in F : \A B \in F : B \subseteq A => B = A
  <2> HIDE DEF F
  <2> QED
    BY <1>1, <1>2, SmallestSet
<1> DEFINE Run(B) == CHOOSE g : Rec(w, B, g)
<1>4. ASSUME NEW B \in SUBSET A, B # A
      PROVE  Rec(w, B, Run(B)) /\ IsFiniteSet(B)
  <2>1. B \notin F /\ B \in SUBSET S
    BY <1>3, <1>4
  <2> QED
    BY <2>1, FS_Subset
<1> HIDE DEF Run
<1> DEFINE val(T) == IF T = {} THEN 0 ELSE w[First(T)] + Run(T \ {First(T)})[T \ {First(T)}]
           f == [T \in SUBSET A |-> val(T)]
<1>5. ASSUME NEW T \in SUBSET A, T # {}
      PROVE  f[T \ {First(T)}] = Run(T \ {First(T)})[T \ {First(T)}]
  <2> DEFINE U == T \ {First(T)}
  <2>1. U \in SUBSET A /\ U # A
    BY <1>5 DEF First
  <2> HIDE DEF U
  <2>2. Rec(w, U, Run(U))
    BY <1>4, <2>1
  <2>3. f[U] = val(U)
    BY <2>1
  <2>4. CASE U = {}
    <3>1. Run(U)[U] = 0
      BY <2>2, <2>4 DEF Rec
    <3> QED
      BY <2>3, <2>4, <3>1 DEF U
  <2>5. CASE U # {}
    <3> DEFINE X == U \ {First(U)}
    <3>1. First(U) \in U
      BY <2>5 DEF First
    <3>2. X \in SUBSET A /\ X # A /\ X \in SUBSET U
      BY <2>1, <3>1
    <3> HIDE DEF X
    <3>3. Rec(w, X, Run(X)) /\ IsFiniteSet(X)
      BY <1>4, <3>2
    <3>4. Run(X)[X] = Run(U)[X]
      <4>1. \A Y \in SUBSET X : Y \subseteq U => Run(X)[Y] = Run(U)[Y]
        BY <2>2, <3>3, RecsAgree
      <4> QED
        BY <3>2, <4>1
    <3>5. Run(U)[U] = w[First(U)] + Run(U)[X]
      BY <2>2, <2>5 DEF Rec, X
    <3> QED
      BY <2>3, <2>5, <3>4, <3>5 DEF U, X
  <2> QED
    BY <2>4, <2>5
<1>6. f = [T \in SUBSET A |-> IF T = {} THEN 0 ELSE w[First(T)] + f[T \ {First(T)}]]
  BY <1>5
<1>7. Rec(w, A, f)
  BY <1>6 DEF Rec
<1> QED
  BY <1>3, <1>7

\* What a fold computes: nothing for no element, else its first and the rest.
LEMMA TotalStep ==
  ASSUME NEW w, NEW S, IsFiniteSet(S)
  PROVE  Total(w, S) = IF S = {} THEN 0 ELSE w[First(S)] + Total(w, S \ {First(S)})
<1> DEFINE X == S \ {First(S)}
<1>1. PICK g : g = CHOOSE f : Rec(w, S, f)
  OBVIOUS
<1>2. PICK h : h = CHOOSE f : Rec(w, X, f)
  OBVIOUS
<1>3. Total(w, S) = g[S] /\ Total(w, X) = h[X]
  BY <1>1, <1>2 DEF Total
<1>4. IsFiniteSet(X) /\ X \in SUBSET S /\ X \in SUBSET X
  BY FS_Subset
<1> HIDE DEF X
<1>5. Rec(w, S, g)
  BY <1>1, RecExists
<1>6. Rec(w, X, h)
  BY <1>2, <1>4, RecExists
<1>7. \A Y \in SUBSET X : Y \subseteq S => h[Y] = g[Y]
  BY <1>4, <1>5, <1>6, RecsAgree
<1>8. h[X] = g[X]
  BY <1>4, <1>7
<1>9. g[S] = IF S = {} THEN 0 ELSE w[First(S)] + g[X]
  BY <1>5 DEF Rec, X
<1> QED
  BY <1>3, <1>8, <1>9 DEF X

\* A total is a number.
LEMMA TotalType ==
  ASSUME NEW w, NEW S, IsFiniteSet(S), \A x \in S : w[x] \in Nat
  PROVE  Total(w, S) \in Nat
<1> DEFINE F == {T \in SUBSET S : Total(w, T) \notin Nat}
<1>1. SUFFICES ASSUME F # {} PROVE FALSE
  OBVIOUS
<1>2. F \in SUBSET SUBSET S
  OBVIOUS
<1>3. PICK T \in F : \A U \in F : U \subseteq T => U = T
  <2> HIDE DEF F
  <2> QED
    BY <1>1, <1>2, SmallestSet
<1>4. Total(w, T) = IF T = {} THEN 0 ELSE w[First(T)] + Total(w, T \ {First(T)})
  BY <1>3, FS_Subset, TotalStep
<1>5. T # {}
  BY <1>3, <1>4
<1>6. First(T) \in T
  BY <1>5 DEF First
<1>7. Total(w, T \ {First(T)}) \in Nat
  BY <1>3, <1>6
<1> QED
  BY <1>3, <1>4, <1>5, <1>6, <1>7

\* Any element may be taken first.
LEMMA TotalRemove ==
  ASSUME NEW w, NEW S, IsFiniteSet(S), \A x \in S : w[x] \in Nat
  PROVE  \A e \in S : Total(w, S) = w[e] + Total(w, S \ {e})
<1> DEFINE F == {T \in SUBSET S : \E e \in T : Total(w, T) # w[e] + Total(w, T \ {e})}
<1>1. SUFFICES ASSUME F # {} PROVE FALSE
  OBVIOUS
<1>2. F \in SUBSET SUBSET S
  OBVIOUS
<1>3. PICK T \in F : \A U \in F : U \subseteq T => U = T
  <2> HIDE DEF F
  <2> QED
    BY <1>1, <1>2, SmallestSet
<1>4. PICK e \in T : Total(w, T) # w[e] + Total(w, T \ {e})
  BY <1>3
<1> DEFINE p == First(T)
           R == T \ {e, p}
<1>5. p \in T /\ Total(w, T) = w[p] + Total(w, T \ {p})
  <2>1. p \in T
    BY <1>4 DEF First
  <2> QED
    BY <1>3, <2>1, FS_Subset, TotalStep
<1>6. p # e
  BY <1>4, <1>5
<1> HIDE DEF p
<1>7. Total(w, T \ {p}) = w[e] + Total(w, R)
  <2>1. T \ {p} \in SUBSET S /\ T \ {p} \notin F /\ e \in T \ {p} /\ (T \ {p}) \ {e} = R
    BY <1>3, <1>4, <1>5, <1>6
  <2> QED
    BY <2>1
<1>8. Total(w, T \ {e}) = w[p] + Total(w, R)
  <2>1. T \ {e} \in SUBSET S /\ T \ {e} \notin F /\ p \in T \ {e} /\ (T \ {e}) \ {p} = R
    BY <1>3, <1>4, <1>5, <1>6
  <2> QED
    BY <2>1
<1>9. Total(w, R) \in Nat /\ w[e] \in Nat /\ w[p] \in Nat
  <2>1. IsFiniteSet(R) /\ R \in SUBSET S
    BY <1>3, FS_Subset
  <2> QED
    BY <1>3, <1>4, <1>5, <2>1, TotalType
<1> QED
  BY <1>4, <1>5, <1>7, <1>8, <1>9

\* Only the weights of the elements count.
LEMMA TotalSame ==
  ASSUME NEW w, NEW u, NEW S, IsFiniteSet(S), \A x \in S : w[x] = u[x]
  PROVE  Total(w, S) = Total(u, S)
<1> DEFINE F == {T \in SUBSET S : Total(w, T) # Total(u, T)}
<1>1. SUFFICES ASSUME F # {} PROVE FALSE
  OBVIOUS
<1>2. F \in SUBSET SUBSET S
  OBVIOUS
<1>3. PICK T \in F : \A U \in F : U \subseteq T => U = T
  <2> HIDE DEF F
  <2> QED
    BY <1>1, <1>2, SmallestSet
<1>4. /\ Total(w, T) = IF T = {} THEN 0 ELSE w[First(T)] + Total(w, T \ {First(T)})
      /\ Total(u, T) = IF T = {} THEN 0 ELSE u[First(T)] + Total(u, T \ {First(T)})
  BY <1>3, FS_Subset, TotalStep
<1>5. T # {}
  BY <1>3, <1>4
<1>6. First(T) \in T
  BY <1>5 DEF First
<1>7. Total(w, T \ {First(T)}) = Total(u, T \ {First(T)})
  BY <1>3, <1>6
<1> QED
  BY <1>3, <1>4, <1>5, <1>6, <1>7

\* The total of two sets that share nothing.
LEMMA TotalUnion ==
  ASSUME NEW w, NEW A, NEW B, IsFiniteSet(A), IsFiniteSet(B), A \cap B = {},
         \A x \in A \cup B : w[x] \in Nat
  PROVE  Total(w, A \cup B) = Total(w, A) + Total(w, B)
<1> DEFINE F == {T \in SUBSET B : Total(w, A \cup T) # Total(w, A) + Total(w, T)}
<1>1. SUFFICES ASSUME F # {} PROVE FALSE
  OBVIOUS
<1>2. F \in SUBSET SUBSET B
  OBVIOUS
<1>3. PICK T \in F : \A U \in F : U \subseteq T => U = T
  <2> HIDE DEF F
  <2> QED
    BY <1>1, <1>2, SmallestSet
<1>4. IsFiniteSet(T) /\ IsFiniteSet(A \cup T) /\ Total(w, A) \in Nat /\ T \in SUBSET B
  BY <1>3, FS_Subset, FS_Union, TotalType
<1>5. PICK e \in T : TRUE
  <2>1. Total(w, {}) = 0
    BY FS_EmptySet, TotalStep
  <2>2. A \cup {} = A
    OBVIOUS
  <2>3. {} \notin F
    BY <1>4, <2>1, <2>2
  <2> QED
    BY <1>3, <2>3
<1> DEFINE X == T \ {e}
<1>6. X \in SUBSET B /\ X \notin F /\ IsFiniteSet(X) /\ (A \cup T) \ {e} = A \cup X
  BY <1>3, <1>4, <1>5, FS_Subset
<1>7. Total(w, T) = w[e] + Total(w, X)
  BY <1>4, <1>5, TotalRemove
<1>8. Total(w, A \cup T) = w[e] + Total(w, A \cup X)
  <2>1. \A x \in A \cup T : w[x] \in Nat
    BY <1>4
  <2>2. e \in A \cup T
    BY <1>5
  <2>3. Total(w, A \cup T) = w[e] + Total(w, (A \cup T) \ {e})
    BY <1>4, <2>1, <2>2, TotalRemove
  <2> QED
    BY <1>6, <2>3
<1>9. Total(w, X) \in Nat /\ w[e] \in Nat
  BY <1>4, <1>5, <1>6, TotalType
<1>10. Total(w, A \cup X) = Total(w, A) + Total(w, X)
  BY <1>6
<1> QED
  BY <1>3, <1>4, <1>7, <1>8, <1>9, <1>10

------------------------------------------------------------------------------
(* The running total. *)

\* Every size is a number, and the running total is the sum of what is held.
BytesInv == sizeOf \in [Events -> Sizes] /\ BytesAccounted

LEMMA StoreInitBytes == StoreInit => BytesInv
<1> SUFFICES ASSUME StoreInit PROVE BytesInv
  OBVIOUS
<1>1. sizeOf \in [Events -> Sizes]
  BY SizesAssumption DEF StoreInit
<1>2. bytes = 0 /\ Held = {}
  BY DEF StoreInit, Held
<1>3. Total(sizeOf, {}) = 0
  BY FS_EmptySet, TotalStep
<1> QED
  BY <1>1, <1>2, <1>3, BytesAreTotal DEF BytesInv, BytesAccounted

\* What goes is taken off, what comes is added, and what stays weighs what it did.
LEMMA StoreEventBytes == ASSUME StoreIInv, BytesInv, StoreEvent PROVE BytesInv'
<1>1. PICK size \in Sizes, first \in dropped + 1 .. seq + 1 :
        /\ sizeOf' = [sizeOf EXCEPT ![seq + 1] = size]
        /\ dropped' = first - 1
        /\ bytes' = BytesAfter(size, dropped + 1 .. first - 1)
  BY DEF StoreEvent
<1>2. /\ seq < MaxSeq /\ seq' = seq + 1 /\ seq \in Nat /\ dropped \in Nat /\ dropped <= seq
      /\ MaxSeq \in Nat /\ first \in Nat /\ dropped < first /\ first <= seq + 1
  BY LimitsAssumption DEF StoreEvent, StoreIInv, StoreTypes
<1> DEFINE gone == dropped + 1 .. first - 1
           kept == first .. seq
<1>3. /\ Held = gone \cup kept /\ gone \cap kept = {}
      /\ gone \in SUBSET Events /\ kept \in SUBSET Events
      /\ (dropped' + 1 .. seq') = kept \cup {seq + 1} /\ seq + 1 \notin kept
      /\ seq + 1 \in Events
  <2>1. \A e : /\ e \in Held <=> e \in gone \/ e \in kept
               /\ ~(e \in gone /\ e \in kept)
    BY <1>2 DEF Held
  <2>2. \A e : /\ e \in gone => e \in Events
               /\ e \in kept => e \in Events
               /\ e \in dropped' + 1 .. seq' <=> e \in kept \/ e = seq + 1
    BY <1>1, <1>2 DEF Events
  <2>3. seq + 1 \notin kept /\ seq + 1 \in Events
    BY <1>2 DEF Events
  <2> HIDE DEF gone, kept
  <2>4. Held = gone \cup kept /\ gone \cap kept = {}
    BY <2>1, Zenon
  <2>5. gone \in SUBSET Events /\ kept \in SUBSET Events
    BY <2>2
  <2>6. (dropped' + 1 .. seq') = kept \cup {seq + 1}
    BY <2>2
  <2> QED
    BY <2>3, <2>4, <2>5, <2>6
<1>4. IsFiniteSet(gone) /\ IsFiniteSet(kept) /\ IsFiniteSet(kept \cup {seq + 1})
  <2>1. dropped + 1 \in Int /\ first - 1 \in Int /\ first \in Int /\ seq \in Int
    BY <1>2
  <2>2. IsFiniteSet(gone) /\ IsFiniteSet(kept)
    BY <2>1, FS_Interval
  <2> QED
    BY <2>2, FS_AddElement
<1>5. /\ sizeOf \in [Events -> Nat] /\ sizeOf' \in [Events -> Nat] /\ size \in Nat
      /\ sizeOf' \in [Events -> Sizes]
      /\ sizeOf'[seq + 1] = size
      /\ \A e \in kept : sizeOf'[e] = sizeOf[e]
  BY <1>1, <1>2, <1>3, SizesAssumption DEF BytesInv
<1>6. bytes = BytesOf(Held) /\ bytes' = bytes + size - BytesOf(gone)
  BY <1>1 DEF BytesInv, BytesAccounted, BytesAfter
<1>7. BytesAccounted' <=> bytes' = Total(sizeOf', dropped' + 1 .. seq')
  BY DEF BytesAccounted, Held, BytesOf, FoldSet, MapThenFoldSet, Total, Rec, First
<1> HIDE DEF gone, kept
<1>8. bytes = Total(sizeOf, gone) + Total(sizeOf, kept)
  BY <1>3, <1>4, <1>5, <1>6, BytesAreTotal, TotalUnion
<1>9. bytes' = bytes + size - Total(sizeOf, gone)
  BY <1>6, BytesAreTotal
<1>10. Total(sizeOf', kept \cup {seq + 1}) = size + Total(sizeOf', kept)
  <2>1. (kept \cup {seq + 1}) \ {seq + 1} = kept
    BY <1>3
  <2>2. \A e \in kept \cup {seq + 1} : sizeOf'[e] \in Nat
    BY <1>3, <1>5
  <2> QED
    BY <1>4, <1>5, <2>1, <2>2, TotalRemove
<1>11. Total(sizeOf', kept) = Total(sizeOf, kept)
  BY <1>4, <1>5, TotalSame
<1>12. Total(sizeOf, gone) \in Nat /\ Total(sizeOf, kept) \in Nat
  BY <1>3, <1>4, <1>5, TotalType
<1>13. bytes' = Total(sizeOf', dropped' + 1 .. seq')
  <2>1. Total(sizeOf', dropped' + 1 .. seq') = size + Total(sizeOf, kept)
    <3>1. dropped' + 1 .. seq' = kept \cup {seq + 1}
      BY <1>3
    <3> QED
      BY <1>10, <1>11, <3>1, Zenon
  <2>2. bytes' = size + Total(sizeOf, kept)
    BY <1>5, <1>8, <1>9, <1>12
  <2> QED
    BY <2>1, <2>2, Zenon
<1> QED
  BY <1>5, <1>7, <1>13 DEF BytesInv

LEMMA StoreStepBytes == StoreIInv /\ BytesInv /\ [StoreNext]_storeVars => BytesInv'
<1> SUFFICES ASSUME StoreIInv, BytesInv, [StoreNext]_storeVars PROVE BytesInv'
  OBVIOUS
<1>1. CASE StoreEvent
  BY <1>1, StoreEventBytes
<1>2. CASE UNCHANGED <<seq, dropped, bytes, sizeOf>>
  <2>1. /\ BytesAccounted <=> bytes = Total(sizeOf, dropped + 1 .. seq)
        /\ BytesAccounted' <=> bytes' = Total(sizeOf', dropped' + 1 .. seq')
    BY DEF BytesAccounted, Held, BytesOf, FoldSet, MapThenFoldSet, Total, Rec, First
  <2> QED
    BY <1>2, <2>1 DEF BytesInv
<1>3. CASE \E r \in Replays : Reconnect(r) \/ TooLate(r) \/ Resume(r)
  BY <1>2, <1>3 DEF Reconnect, TooLate, Resume, eventVars
<1>4. CASE UNCHANGED storeVars
  BY <1>2, <1>4 DEF storeVars, eventVars
<1> QED
  BY <1>1, <1>3, <1>4 DEF StoreNext

------------------------------------------------------------------------------
(* The theorems. *)

\* The ring stays within its limits and keeps its newest event, whatever the
\* sizes of the events.
THEOREM RingIsBounded == StoreSpec => []Bounded
<1>1. StoreIInv => Bounded
  BY DEF StoreIInv
<1> QED
  BY <1>1, StoreInvariance, PTL

\* Whatever is stored and evicted while replays are suspended, each sends
\* messages of its stream only, each once, in order, after the one last seen.
THEOREM ReplaysAreInOrder == StoreSpec => []SentOnceInOrder
<1>1. StoreIInv => SentOnceInOrder
  BY DEF StoreIInv
<1> QED
  BY <1>1, StoreInvariance, PTL

\* A replay during which nothing was evicted sent all that was due.
THEOREM QuietReplaysAreComplete == StoreSpec => []QuietReplayComplete
<1>1. StoreIInv => QuietReplayComplete
  BY DEF StoreIInv
<1> QED
  BY <1>1, StoreInvariance, PTL

\* Whatever was stored and evicted, the running total is what the ring holds.
THEOREM BytesAreAccounted == StoreSpec => []BytesAccounted
<1>1. BytesInv => BytesAccounted
  BY DEF BytesInv
<1> QED
  BY <1>1, StoreInitBytes, StoreStepBytes, StoreInvariance, PTL DEF StoreSpec

\* The types of the store: the total is a number, and no replay has sent what
\* was not stored.
THEOREM StoreTypeCorrect == StoreSpec => []StoreTypeOK
<1>1. ASSUME StoreIInv, BytesInv PROVE StoreTypeOK
  <2>1. StoreTypes /\ sizeOf \in [Events -> Sizes]
    BY <1>1 DEF StoreIInv, BytesInv
  <2>2. bytes \in Nat
    <3>1. dropped + 1 \in Int /\ seq \in Int /\ dropped \in Nat /\ seq <= MaxSeq
      BY <2>1 DEF StoreTypes
    <3>2. IsFiniteSet(Held)
      BY <3>1, FS_Interval DEF Held
    <3>3. \A e \in Held : sizeOf[e] \in Nat
      <4>1. Held \subseteq Events
        BY <3>1 DEF Held, Events
      <4> QED
        BY <2>1, <4>1, SizesAssumption
    <3>4. bytes = Total(sizeOf, Held)
      BY <1>1, BytesAreTotal DEF BytesInv, BytesAccounted
    <3> QED
      BY <3>2, <3>3, <3>4, TotalType
  <2>3. ASSUME NEW r \in Replays PROVE sent[r] \in Seq(1 .. seq)
    <3>1. sent[r] \in Seq(Nat) /\ last[r] \in Nat /\ seq \in Nat
      BY <2>1 DEF StoreTypes
    <3>2. ASSUME NEW i \in 1 .. Len(sent[r]) PROVE sent[r][i] \in 1 .. seq
      <4>1. sent[r][i] > last[r]
        BY <1>1 DEF StoreIInv, SentOnceInOrder, Due
      <4>2. sent[r][i] <= seq /\ sent[r][i] \in Nat
        BY <2>1 DEF StoreTypes
      <4> QED
        BY <3>1, <4>1, <4>2
    <3> QED
      BY <3>1, <3>2
  <2>4. sent \in [Replays -> Seq(1 .. seq)]
    BY <2>1, <2>3 DEF StoreTypes
  <2>5. last \in [Replays -> 0 .. seq] /\ until \in [Replays -> 0 .. seq]
    BY <2>1 DEF StoreTypes
  <2> QED
    BY <2>1, <2>2, <2>4, <2>5 DEF StoreTypes, StoreTypeOK
<1> QED
  BY <1>1, StoreInitBytes, StoreStepBytes, StoreInvariance, PTL DEF StoreSpec
=============================================================================
