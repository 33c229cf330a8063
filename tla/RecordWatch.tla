---------------------------- MODULE RecordWatch ----------------------------
(***************************************************************************)
(* Record watches (mcp/record-watch.ts).  A session subscribes to a        *)
(* record; the server reads the record's version, installs a watch with a  *)
(* timer, polls the record at every tick and notifies the session when     *)
(* the version moved.  A watch ends when it is unsubscribed, when its      *)
(* session's server closes, when the record is gone or when the runtime    *)
(* is disposed.  The first read and each poll are awaited, and whatever    *)
(* happens meanwhile finds the tables as they are: `all` (the process) and *)
(* `mine` (byServer, one map per session).                                 *)
(*                                                                         *)
(* A version stands for sys_updated_on and sys_mod_count; 0 is a record    *)
(* that was deleted.  Bounds: Watches (as many subscribes, watches and     *)
(* polls of stopped watches at a time; an id is used again when nothing of *)
(* it is left), MaxVersion, MaxFailures.                                   *)
(***************************************************************************)
EXTENDS Naturals, FiniteSets

CONSTANTS Sessions, Records, Watches,
          MaxPerSession,    \* SN_RECORD_WATCH_MAX_PER_SESSION
          MaxWatches,       \* SN_RECORD_WATCH_MAX
          MaxVersion,       \* bound: changes of a record
          MaxFailures,      \* bound: reads and notifications that fail
          None

ASSUME WatchAssumption ==
    /\ MaxPerSession \in Nat /\ MaxWatches \in Nat
    /\ MaxVersion \in Nat \ {0} /\ MaxFailures \in Nat
    /\ None \notin Watches \cup Sessions \cup Records \cup Nat
    /\ IsFiniteSet(Watches) /\ IsFiniteSet(Records)

VARIABLES
    version,    \* the records on the instance
    open,       \* the sessions whose server is open
    watch,      \* per id, see Blank
    all,        \* the live watches of the process
    mine,       \* byServer: per session and record the live watch
    hooked,     \* the sessions whose onclose stops their watches
    crossed,    \* ghost: the end of a stopped watch removed the entry of a newer one
    failures

vars == <<version, open, watch, all, mine, hooked, crossed, failures>>
tables == <<all, mine, hooked, crossed>>

Gone == 0

Blank == [pc |-> "free",    \* free, first (read awaited), on, stopped (poll under way)
          session |-> None, record |-> None,
          flight |-> "idle",    \* idle, asked (a read is awaited), sending
          answer |-> None,  \* what the instance answered
          seen |-> None,    \* watch.version
          told |-> None,    \* ghost: the version the session was last told of
          lost |-> FALSE,   \* ghost: a notification was not delivered
          late |-> FALSE]   \* ghost: the session closed during the first read

----------------------------------------------------------------------------
Entry(w) == mine[watch[w].session][watch[w].record]

Watched(s) == {r \in Records : mine[s][r] # None}

Polling(s) == {w \in all : watch[w].session = s}

\* The caps, read before and again after the awaited first read.
Full(s) ==
    \/ Cardinality(Watched(s)) >= MaxPerSession
    \/ Cardinality(all) >= MaxWatches

Set(w, v) == watch' = [watch EXCEPT ![w] = v]

\* v without its poll; nothing is left of a stopped one.
Landed(v) ==
    IF v.pc = "stopped" THEN Blank ELSE [v EXCEPT !.flight = "idle", !.answer = None]

\* stop(w) for every w of W: clears the timer and deletes the entry under the
\* session and URI of w, whichever watch is there.
Stop(W) ==
    /\ all' = all \ W
    /\ mine' = [s \in Sessions |-> [r \in Records |->
                  IF \E w \in W : watch[w].session = s /\ watch[w].record = r
                  THEN None ELSE mine[s][r]]]
    /\ crossed' = (crossed \/ \E w \in W : Entry(w) \notin W \cup {None})
    /\ UNCHANGED hooked

\* A poll that is under way when its watch is stopped goes on.
Stopped(v) == IF v.flight = "idle" THEN Blank ELSE [v EXCEPT !.pc = "stopped"]

StopAll(W) ==
    /\ Stop(W)
    /\ watch' = [w \in Watches |-> IF w \in W THEN Stopped(watch[w]) ELSE watch[w]]

----------------------------------------------------------------------------
(* The instance.                                                           *)

Change(r) ==
    /\ version[r] # Gone
    /\ \E v \in {version[r] + 1, Gone} : v <= MaxVersion /\ version' = [version EXCEPT ![r] = v]
    /\ UNCHANGED <<open, watch, tables, failures>>

\* The instance serves the read that w awaits; the answer arrives later.
Serve(w) ==
    /\ watch[w].flight = "asked" /\ watch[w].answer = None
    /\ Set(w, [watch[w] EXCEPT !.answer = version[watch[w].record]])
    /\ UNCHANGED <<version, open, tables, failures>>

----------------------------------------------------------------------------
(* Subscribe, unsubscribe, close, dispose.                                 *)

Subscribe(w, s, r) ==
    /\ watch[w].pc = "free" /\ s \in open
    /\ mine[s][r] = None /\ ~Full(s)
    /\ Set(w, [Blank EXCEPT !.pc = "first", !.session = s, !.record = r, !.flight = "asked"])
    /\ UNCHANGED <<version, open, tables, failures>>

CanInstall(w) == Entry(w) = None /\ ~Full(watch[w].session)

\* Mutant: the close of the server is not hooked.
Install_Unhooked(w) ==
    /\ watch[w].pc = "first" /\ watch[w].answer \notin {None, Gone}
    /\ CanInstall(w)
    /\ Set(w, [Landed(watch[w]) EXCEPT !.pc = "on", !.seen = watch[w].answer,
                                       !.told = watch[w].answer])
    /\ all' = all \cup {w}
    /\ mine' = [mine EXCEPT ![watch[w].session][watch[w].record] = w]
    /\ UNCHANGED <<version, open, hooked, crossed, failures>>

\* Mutant: the checks are not repeated after the read.
Install_Unchecked(w) ==
    /\ watch[w].pc = "first" /\ watch[w].answer \notin {None, Gone}
    /\ Set(w, [Landed(watch[w]) EXCEPT !.pc = "on", !.seen = watch[w].answer,
                                       !.told = watch[w].answer])
    /\ all' = all \cup {w}
    /\ mine' = [mine EXCEPT ![watch[w].session][watch[w].record] = w]
    /\ hooked' = hooked \cup {watch[w].session}
    /\ UNCHANGED <<version, open, crossed, failures>>

\* The first read is answered and no other subscribe won meanwhile.
Install(w) ==
    /\ watch[w].pc = "first" /\ watch[w].answer \notin {None, Gone}
    /\ CanInstall(w)
    /\ Set(w, [Landed(watch[w]) EXCEPT !.pc = "on", !.seen = watch[w].answer,
                                       !.told = watch[w].answer])
    /\ all' = all \cup {w}
    /\ mine' = [mine EXCEPT ![watch[w].session][watch[w].record] = w]
    /\ hooked' = hooked \cup {watch[w].session}
    /\ UNCHANGED <<version, open, crossed, failures>>

\* The read found no record, or a check fails now.
Refuse(w) ==
    /\ watch[w].pc = "first" /\ watch[w].answer # None
    /\ watch[w].answer = Gone \/ ~CanInstall(w)
    /\ Set(w, Blank)
    /\ UNCHANGED <<version, open, tables, failures>>

Unsubscribe(s, r) ==
    /\ s \in open /\ mine[s][r] # None
    /\ StopAll({mine[s][r]})
    /\ UNCHANGED <<version, open, failures>>

\* The server of s closes; stopRecordWatches stops what the session's map
\* holds.  Only a hooked session has ever had a watch in it.
Close(s) ==
    /\ s \in open
    /\ open' = open \ {s}
    /\ LET W == IF s \in hooked THEN {mine[s][r] : r \in Watched(s)} ELSE {}
           L(v) == IF v.pc = "first" /\ v.session = s THEN [v EXCEPT !.late = TRUE] ELSE v
       IN  /\ Stop(W)
           /\ watch' = [w \in Watches |->
                          IF w \in W THEN Stopped(watch[w]) ELSE L(watch[w])]
    /\ UNCHANGED <<version, failures>>

\* The runtime is disposed: every timer is cleared.
Dispose ==
    /\ all # {}
    /\ StopAll(all)
    /\ UNCHANGED <<version, open, failures>>

----------------------------------------------------------------------------
(* The polls.                                                              *)

Tick(w) ==
    /\ w \in all /\ watch[w].flight = "idle"
    /\ Set(w, [watch[w] EXCEPT !.flight = "asked"])
    /\ UNCHANGED <<version, open, tables, failures>>

Polled(w) == watch[w].pc \in {"on", "stopped"} /\ watch[w].answer # None

Same(w) ==
    /\ Polled(w) /\ watch[w].answer = watch[w].seen
    /\ Set(w, Landed(watch[w]))
    /\ UNCHANGED <<version, open, tables, failures>>

\* The version is taken over before the notification is sent.
Moved(w) ==
    /\ Polled(w) /\ watch[w].answer \notin {watch[w].seen, Gone}
    /\ Set(w, [watch[w] EXCEPT !.seen = watch[w].answer, !.answer = None,
                               !.flight = "sending"])
    /\ UNCHANGED <<version, open, tables, failures>>

Sent(w) ==
    /\ watch[w].flight = "sending"
    /\ Set(w, Landed([watch[w] EXCEPT !.told = watch[w].seen]))
    /\ UNCHANGED <<version, open, tables, failures>>

\* Deleted: the watch stops, whether or not the session hears of it.
Deleted(w) ==
    /\ Polled(w) /\ watch[w].answer = Gone
    /\ Stop({w})
    /\ Set(w, Blank)
    /\ UNCHANGED <<version, open, failures>>

\* Mutant: a failed poll leaves inFlight set.
Fails_StaysInFlight(w) ==
    /\ failures < MaxFailures
    /\ watch[w].flight # "idle" /\ watch[w].answer = None
    /\ failures' = failures + 1
    /\ Set(w, IF watch[w].pc = "first" THEN Blank ELSE [watch[w] EXCEPT !.flight = "failed"])
    /\ UNCHANGED <<version, open, tables>>

\* An awaited read, or the notification, fails.
Fails(w) ==
    /\ failures < MaxFailures
    /\ watch[w].flight # "idle" /\ watch[w].answer = None
    /\ failures' = failures + 1
    /\ Set(w, IF watch[w].pc = "first" THEN Blank
              ELSE Landed([watch[w] EXCEPT !.lost = (@ \/ watch[w].flight = "sending")]))
    /\ UNCHANGED <<version, open, tables>>

----------------------------------------------------------------------------
Init ==
    /\ version = [r \in Records |-> 1]
    /\ open = Sessions
    /\ watch = [w \in Watches |-> Blank]
    /\ all = {} /\ hooked = {}
    /\ mine = [s \in Sessions |-> [r \in Records |-> None]]
    /\ crossed = FALSE
    /\ failures = 0

Poll(w) == Tick(w) \/ Serve(w) \/ Same(w) \/ Moved(w) \/ Sent(w) \/ Deleted(w)

Next ==
    \/ \E r \in Records : Change(r)
    \/ \E w \in Watches, s \in Sessions, r \in Records : Subscribe(w, s, r)
    \/ \E w \in Watches : Install(w) \/ Refuse(w) \/ Poll(w) \/ Fails(w)
    \/ \E s \in Sessions, r \in Records : Unsubscribe(s, r)
    \/ \E s \in Sessions : Close(s)
    \/ Dispose

Spec == Init /\ [][Next]_vars

\* The timers tick, and every read is answered or fails (HttpClient.AllEnd).
FairSpec == Spec /\ \A w \in Watches : WF_vars(Poll(w))

----------------------------------------------------------------------------
Versions == 0 .. MaxVersion

WatchRecord ==
    [pc : {"free", "first", "on", "stopped"},
     session : Sessions \cup {None}, record : Records \cup {None},
     flight : {"idle", "asked", "sending"}, answer : Versions \cup {None},
     seen : Versions \cup {None}, told : Versions \cup {None},
     lost : BOOLEAN, late : BOOLEAN]

TypeOK ==
    /\ version \in [Records -> Versions]
    /\ open \subseteq Sessions /\ hooked \subseteq Sessions /\ all \subseteq Watches
    /\ watch \in [Watches -> WatchRecord]
    /\ mine \in [Sessions -> [Records -> Watches \cup {None}]]
    /\ crossed \in BOOLEAN /\ failures \in 0 .. MaxFailures

\* However subscribes, polls and closes interleave, the process never polls
\* more records than its cap and a session none beyond its own.  The second
\* half stops holding once a poll that outlived its watch removed the entry of
\* a newer watch of the same record (stop, record-watch.ts:101-105, deletes by URI): that one
\* is polled until it finds the record gone, and the session's map, which the
\* cap counts, no longer shows it.
CapsKept ==
    /\ Cardinality(all) <= MaxWatches
    /\ ~crossed => \A s \in Sessions : Cardinality(Polling(s)) <= MaxPerSession

\* A closed session leaves no timer behind (the module comment, record-watch.ts:32-33,
\* "polling stops ... when the session's server closes"), but for a watch
\* whose first read was awaited when the server closed, which watchRecord
\* installs on the closed server, or one hidden as above.
NoneLeftBehind ==
    \A w \in all : watch[w].session \in open \/ watch[w].late \/ crossed

\* A watch that goes on tells its session of the record's latest version,
\* though polls fail in between.  A notification that was not delivered is not
\* repeated (the version was taken over before it was sent).
ChangeTold ==
    \A w \in Watches :
        (w \in all /\ watch[w].told # version[watch[w].record])
            ~> (w \notin all \/ watch[w].told = version[watch[w].record] \/ watch[w].lost)
=============================================================================
