---------------------------- MODULE TasksProofs ----------------------------
(***************************************************************************)
(* Safety of the task store, for any number of tasks and requests, and the *)
(* proof that it implements TaskService.                                   *)
(***************************************************************************)
EXTENDS Tasks, TLAPS

\* How far a run is limits what its task and its request's runtime can be.
RunsKnown ==
    \A t \in Tasks :
      /\ work[t] = "none" <=> entry[t].status = "none"
      /\ work[t] = "none" => entry[t] = NoEntry
      /\ work[t] = "starting" => entry[t].status \in {"working", "gone"}
      /\ work[t] \in {"none", "starting"} => t \notin due /\ served[t] = "open"
      /\ entry[t].status = "gone" => entry[t] = Dropped

\* The result of a task of the 2025 wire is there as soon as its status is final.
ResultsKept ==
    \A t \in Tasks \ Modern :
      entry[t].status \in {"completed", "failed"} => entry[t].result = "result"

\* Requests ask about tasks that were handed out.
CallsKnown ==
    \A c \in Calls :
      /\ call[c].pc = "idle" <=> call[c].task = NoTask
      /\ call[c].pc # "done" => call[c].answer = "none"
      /\ call[c].pc # "idle" => work[call[c].task] \notin {"none", "starting"}
      /\ call[c].pc # "idle" /\ c \in Readers => call[c].task \notin Modern
      /\ call[c].pc = "fetch" =>
           /\ c \in Readers
           /\ entry[call[c].task].status \in {"completed", "failed", "gone"}

IInv == TypeOK /\ NoOrphanWork /\ RunKeepsRuntime /\ RunsKnown /\ ResultsKept /\ CallsKnown

\* The part of the invariant that does not speak of requests.
StoreInv == TypeOK /\ NoOrphanWork /\ RunKeepsRuntime /\ RunsKnown /\ ResultsKept

Entries == [status : {"none", "working", "gone"} \cup TERMINAL,
            result : {"none", "result", "error"},
            note   : {"none", "progress", "error"}]

Requests == [pc : {"idle", "poll", "fetch", "apply", "done"},
             task : Tasks \cup {NoTask},
             answer : {"none", "result", "cancelled", "final", "notFound", "left", "stopped"}]

LEMMA SweptType ==
  ASSUME TypeOK
  PROVE  /\ entry \in [Tasks -> Entries] /\ Swept \in [Tasks -> Entries]
         /\ \A t \in Tasks : \/ Swept[t] = entry[t] /\ t \notin Stale
                             \/ Swept[t] = Dropped /\ t \in Stale /\ t \in due
                                                     /\ entry[t].status \notin {"none", "gone"}
<1>1. Dropped \in Entries
  BY DEF Dropped, NoEntry, Entries
<1>2. entry \in [Tasks -> Entries]
  BY DEF TypeOK, Entries
<1> QED
  BY <1>1, <1>2 DEF Swept, Stale, Stored

\* A sweep drops entries with their runs, and a cancellation one task with its
\* run, whatever the request that caused it is told.
LEMMA StoreStep ==
  ASSUME IInv, NEW T \in SUBSET Tasks, Stop(T),
         entry' = [t \in Tasks |-> IF t \in T
                                   THEN [status |-> "cancelled", result |-> "none", note |-> entry[t].note]
                                   ELSE Swept[t]],
         \A t \in T : Swept[t].status = "working" /\ work[t] \notin {"none", "starting"},
         UNCHANGED <<due, work, served>>, call' \in [Calls -> Requests]
  PROVE  StoreInv'
<1>0. TypeOK /\ NoOrphanWork /\ RunKeepsRuntime /\ RunsKnown /\ ResultsKept
  BY DEF IInv
<1>1. /\ entry \in [Tasks -> Entries] /\ Swept \in [Tasks -> Entries]
      /\ \A t \in Tasks : \/ Swept[t] = entry[t] /\ t \notin Stale
                          \/ Swept[t] = Dropped /\ t \in Stale /\ t \in due
                                                  /\ entry[t].status \notin {"none", "gone"}
  BY <1>0, SweptType
<1>2. entry' \in [Tasks -> Entries]
  BY <1>1 DEF Entries, TERMINAL
<1>3. TypeOK'
  BY <1>0, <1>2 DEF TypeOK, Stop, Entries, Stale, Requests
<1>4. NoOrphanWork'
  BY <1>0, <1>1 DEF NoOrphanWork, Stop
<1>5. RunKeepsRuntime'
  BY <1>0 DEF RunKeepsRuntime
<1>6. RunsKnown'
  BY <1>0, <1>1 DEF RunsKnown, Dropped, NoEntry, Entries
<1>7. ResultsKept'
  BY <1>0, <1>1 DEF ResultsKept, Dropped, NoEntry, Entries
<1> QED
  BY <1>3, <1>4, <1>5, <1>6, <1>7 DEF StoreInv

CallGoesOn(c, pc, a) ==
    /\ call' \in [Calls -> Requests]
    /\ \A d \in Calls \ {c} : call'[d] = call[d]
    /\ call'[c].pc = pc /\ call'[c].task = call[c].task /\ call'[c].answer = a

\* A request about a task is answered or goes on; the others are left alone.
LEMMA CallStep ==
  ASSUME IInv, NEW c \in Calls, NEW T \in SUBSET Tasks,
         NEW pc \in {"poll", "fetch", "apply", "done"}, NEW a, CallGoesOn(c, pc, a),
         pc # "done" => a = "none",
         call[c].pc # "idle",
         work' = work,
         \A t \in Tasks :
             entry[t].status \in {"completed", "failed", "gone"} =>
                entry'[t].status \in {"completed", "failed", "gone"},
         pc = "fetch" =>
             /\ c \in Readers
             /\ entry'[call[c].task].status \in {"completed", "failed", "gone"}
  PROVE  call' \in [Calls -> Requests] /\ CallsKnown'
<1>1. CallsKnown /\ \A d \in Calls : call[d].task \in Tasks \cup {NoTask}
  BY DEF IInv, TypeOK
<1>2. call' \in [Calls -> Requests]
  BY DEF CallGoesOn
<1>3. ASSUME NEW d \in Calls, d # c
      PROVE  call'[d] = call[d]
  BY <1>3 DEF CallGoesOn
<1>4. call'[c].pc = pc /\ call'[c].task = call[c].task /\ call'[c].answer = a
  BY DEF CallGoesOn
<1> QED
  BY <1>1, <1>2, <1>3, <1>4, TaskAssumption DEF CallsKnown

\* A step that leaves the requests alone and takes no run back.
LEMMA CallStutter ==
  ASSUME IInv, call' = call,
         \A t \in Tasks : work[t] \notin {"none", "starting"} =>
                             work'[t] \notin {"none", "starting"},
         \A t \in Tasks :
             entry[t].status \in {"completed", "failed", "gone"} =>
                entry'[t].status \in {"completed", "failed", "gone"}
  PROVE  CallsKnown'
<1>1. call \in [Calls -> Requests] /\ CallsKnown
  BY DEF IInv, TypeOK, Requests
<1>2. \A d \in Calls : call[d].task \in Tasks \cup {NoTask}
  BY <1>1 DEF Requests
<1> QED
  BY <1>1, <1>2, TaskAssumption DEF CallsKnown

\* Once a task is final or gone, a sweep leaves it final or gone.
LEMMA SweptFinal ==
  ASSUME TypeOK
  PROVE  \A t \in Tasks :
             entry[t].status \in {"completed", "failed", "gone"} =>
                Swept[t].status \in {"completed", "failed", "gone"}
BY SweptType DEF Dropped

LEMMA SweepStep ==
  ASSUME IInv, Sweep, UNCHANGED <<due, work, served>>, call' \in [Calls -> Requests]
  PROVE  StoreInv'
<1>1. entry' = [t \in Tasks |-> IF t \in {}
                     THEN [status |-> "cancelled", result |-> "none", note |-> entry[t].note]
                     ELSE Swept[t]]
  BY DEF Sweep, Swept
<1> QED
  BY <1>1, StoreStep DEF Sweep

LEMMA CancelStep ==
  ASSUME IInv, NEW t \in Tasks, entry' = Cancelled(t), Stop({t}),
         Swept[t].status = "working", work[t] \notin {"none", "starting"},
         UNCHANGED <<due, work, served>>, call' \in [Calls -> Requests]
  PROVE  StoreInv'
<1>1. entry' = [u \in Tasks |-> IF u \in {t}
                     THEN [status |-> "cancelled", result |-> "none", note |-> entry[u].note]
                     ELSE Swept[u]]
  BY DEF Cancelled, Swept
<1> QED
  BY <1>1, StoreStep

LEMMA ReplyForm ==
  ASSUME TypeOK, NEW c \in Calls,
         NEW a \in {"none", "result", "cancelled", "final", "notFound", "left", "stopped"},
         call' = Reply(c, a)
  PROVE  CallGoesOn(c, "done", a)
BY DEF Reply, TypeOK, CallGoesOn, Requests

LEMMA PhaseForm ==
  ASSUME TypeOK, NEW c \in Calls, NEW pc \in {"poll", "fetch", "apply", "done"},
         call' = [call EXCEPT ![c].pc = pc], call[c].answer = "none"
  PROVE  CallGoesOn(c, pc, "none")
BY DEF TypeOK, CallGoesOn, Requests

-----------------------------------------------------------------------------
(* Every action preserves the invariant *)

LEMMA StartsAndRuns ==
  ASSUME IInv, NEW t \in Tasks,
         Create(t) \/ Start(t) \/ Report(t) \/ Expire(t) \/ CloseRequest(t) \/ DisposeRequest(t)
  PROVE  IInv'
<1>0. StoreInv /\ call' = call
  BY DEF IInv, StoreInv, Create, Start, Report, Expire, CloseRequest, DisposeRequest
<1>1. CASE Create(t)
  <2>1. /\ entry \in [Tasks -> Entries] /\ Swept \in [Tasks -> Entries]
        /\ \A u \in Tasks : \/ Swept[u] = entry[u] /\ u \notin Stale
                            \/ Swept[u] = Dropped /\ u \in Stale /\ u \in due
                                                    /\ entry[u].status \notin {"none", "gone"}
    BY SweptType DEF IInv
  <2>2. entry' = [Swept EXCEPT ![t] = Fresh] /\ Fresh \in Entries /\ Stop({})
    BY <1>1 DEF Create, Fresh, Entries
  <2>3. work[t] = "none" /\ work' = [work EXCEPT ![t] = "starting"] /\ UNCHANGED <<due, served>>
    BY <1>1 DEF Create
  <2>4. entry' \in [Tasks -> Entries]
    BY <2>1, <2>2
  <2>5. TypeOK'
    BY <1>0, <2>2, <2>3, <2>4 DEF StoreInv, TypeOK, Entries, Stop, Stale
  <2>6. NoOrphanWork'
    BY <1>0, <2>1, <2>2, <2>3 DEF StoreInv, NoOrphanWork, Stop, TypeOK
  <2>7. RunKeepsRuntime'
    BY <1>0, <2>3 DEF StoreInv, RunKeepsRuntime, TypeOK
  <2>8. RunsKnown'
    BY <1>0, <2>1, <2>2, <2>3 DEF StoreInv, RunsKnown, TypeOK, Fresh, Dropped, NoEntry
  <2>9. ResultsKept'
    BY <1>0, <2>1, <2>2 DEF StoreInv, ResultsKept, Fresh, Dropped
  <2>10. CallsKnown'
    <3>1. \A u \in Tasks : work[u] \notin {"none", "starting"} => work'[u] \notin {"none", "starting"}
      BY <1>0, <2>3 DEF StoreInv, TypeOK
    <3>2. entry[t].status = "none"
      BY <1>0, <2>3 DEF StoreInv, RunsKnown
    <3>3. \A u \in Tasks : entry[u].status \in {"completed", "failed", "gone"} =>
                              entry'[u].status \in {"completed", "failed", "gone"}
      BY <2>1, <2>2, <3>2 DEF Dropped
    <3> QED
      BY <1>0, <3>1, <3>3, CallStutter
  <2> QED
    BY <2>5, <2>6, <2>7, <2>8, <2>9, <2>10 DEF IInv
<1>2. CASE Start(t)
  <2>1. /\ work[t] = "starting" /\ tracked' = tracked \cup {t}
        /\ work' = [work EXCEPT ![t] = IF Stored(t) THEN "running" ELSE "stray"]
        /\ UNCHANGED <<entry, due, aborted, served>>
    BY <1>2 DEF Start
  <2>2. TypeOK'
    BY <1>0, <2>1 DEF StoreInv, TypeOK
  <2>3. NoOrphanWork' /\ RunKeepsRuntime' /\ RunsKnown' /\ ResultsKept'
    BY <1>0, <2>1 DEF StoreInv, TypeOK, NoOrphanWork, RunKeepsRuntime, RunsKnown, ResultsKept, Stored
  <2>4. CallsKnown'
    BY <1>0, <2>1, CallStutter DEF StoreInv, TypeOK
  <2> QED
    BY <2>2, <2>3, <2>4 DEF IInv
<1>3. CASE Report(t)
  <2>1. /\ work[t] \in {"running", "stray"} /\ entry[t].status = "working"
        /\ entry' = [entry EXCEPT ![t].note = "progress"]
        /\ UNCHANGED <<due, work, tracked, aborted, served>>
    BY <1>3 DEF Report
  <2>2. TypeOK'
    BY <1>0, <2>1 DEF StoreInv, TypeOK
  <2>3. NoOrphanWork' /\ RunKeepsRuntime' /\ RunsKnown' /\ ResultsKept'
    BY <1>0, <2>1 DEF StoreInv, TypeOK, NoOrphanWork, RunKeepsRuntime, RunsKnown, ResultsKept
  <2>4. CallsKnown'
    BY <1>0, <2>1, CallStutter DEF StoreInv, TypeOK
  <2> QED
    BY <2>2, <2>3, <2>4 DEF IInv
<1>4. CASE Expire(t)
  <2>1. /\ Stored(t) /\ work[t] # "starting" /\ due' = due \cup {t}
        /\ UNCHANGED <<entry, work, tracked, aborted, served>>
    BY <1>4 DEF Expire
  <2>2. TypeOK' /\ NoOrphanWork' /\ RunKeepsRuntime' /\ RunsKnown' /\ ResultsKept'
    BY <1>0, <2>1 DEF StoreInv, TypeOK, NoOrphanWork, RunKeepsRuntime, RunsKnown, ResultsKept, Stored
  <2>3. CallsKnown'
    BY <1>0, <2>1, CallStutter
  <2> QED
    BY <2>2, <2>3 DEF IInv
<1>5. CASE CloseRequest(t) \/ DisposeRequest(t)
  <2>1. /\ \/ work[t] \notin {"none", "starting"} /\ served' = [served EXCEPT ![t] = "closed"]
           \/ /\ served[t] = "closed" /\ work[t] \notin {"running", "stray"}
              /\ served' = [served EXCEPT ![t] = "disposed"]
        /\ UNCHANGED <<entry, due, work, tracked, aborted>>
    BY <1>5 DEF CloseRequest, DisposeRequest, WorkSettled
  <2>2. TypeOK' /\ NoOrphanWork' /\ RunKeepsRuntime' /\ RunsKnown' /\ ResultsKept'
    BY <1>0, <2>1 DEF StoreInv, TypeOK, NoOrphanWork, RunKeepsRuntime, RunsKnown, ResultsKept
  <2>3. CallsKnown'
    BY <1>0, <2>1, CallStutter
  <2> QED
    BY <2>2, <2>3 DEF IInv
<1> QED
  BY <1>1, <1>2, <1>3, <1>4, <1>5

LEMMA SettleStep ==
  ASSUME IInv, NEW t \in Tasks, NEW out \in {"ok", "toolError", "thrown"}, Settle(t, out)
  PROVE  IInv'
<1>0. StoreInv
  BY DEF IInv, StoreInv
<1>1. /\ work[t] \in {"running", "stray"} /\ work' = [work EXCEPT ![t] = "over"]
      /\ UNCHANGED <<due, served, call>>
  BY DEF Settle
<1>2. RunKeepsRuntime'
  BY <1>0, <1>1 DEF StoreInv, RunKeepsRuntime, TypeOK
<1>3. CASE t \in aborted
  <2>1. tracked' = tracked \ {t} /\ UNCHANGED <<entry, aborted>>
    BY <1>3 DEF Settle
  <2>2. TypeOK' /\ NoOrphanWork' /\ RunsKnown' /\ ResultsKept'
    BY <1>0, <1>1, <2>1 DEF StoreInv, TypeOK, NoOrphanWork, RunsKnown, ResultsKept
  <2>3. CallsKnown'
    BY <1>0, <1>1, <2>1, CallStutter DEF StoreInv, TypeOK
  <2> QED
    BY <1>2, <2>2, <2>3 DEF IInv
<1>4. CASE t \notin aborted
  <2>1. /\ entry \in [Tasks -> Entries] /\ Swept \in [Tasks -> Entries]
        /\ \A u \in Tasks : \/ Swept[u] = entry[u] /\ u \notin Stale
                            \/ Swept[u] = Dropped /\ u \in Stale /\ u \in due
                                                    /\ entry[u].status \notin {"none", "gone"}
    BY SweptType DEF IInv
  <2>2. /\ tracked' = tracked \ (Stale \cup {t})
        /\ aborted' = aborted \cup ((tracked \ {t}) \cap Stale)
        /\ entry' = IF Open(t) THEN [Swept EXCEPT ![t] = Recorded(t, out)] ELSE Swept
    BY <1>4 DEF Settle
  <2>3. /\ Recorded(t, out) \in Entries
        /\ Recorded(t, out).status \in {"completed", "failed"}
        /\ t \notin Modern => Recorded(t, out).result = "result"
    BY <2>1 DEF Recorded, Entries, TERMINAL
  <2>4. entry' \in [Tasks -> Entries]
    BY <2>1, <2>2, <2>3
  <2>5. \A u \in Tasks : entry'[u] = IF u = t /\ Open(t) THEN Recorded(t, out) ELSE Swept[u]
    BY <2>1, <2>2
  <2>6. TypeOK'
    BY <1>0, <1>1, <2>2, <2>4 DEF StoreInv, TypeOK, Entries
  <2>7. NoOrphanWork'
    BY <1>0, <1>1, <2>1, <2>2, <2>5 DEF StoreInv, NoOrphanWork, TypeOK
  <2>8. RunsKnown'
    BY <1>0, <1>1, <2>1, <2>3, <2>5 DEF StoreInv, RunsKnown, TypeOK, Dropped, NoEntry
  <2>9. ResultsKept'
    BY <1>0, <2>1, <2>3, <2>5 DEF StoreInv, ResultsKept, Dropped
  <2>10. CallsKnown'
    <3>1. \A u \in Tasks : entry[u].status \in {"completed", "failed", "gone"} =>
                              entry'[u].status \in {"completed", "failed", "gone"}
      BY <1>0, <2>3, <2>5, SweptFinal DEF StoreInv
    <3> QED
      BY <1>0, <1>1, <3>1, CallStutter DEF StoreInv, TypeOK
  <2> QED
    BY <1>2, <2>6, <2>7, <2>8, <2>9, <2>10 DEF IInv
<1> QED
  BY <1>3, <1>4

LEMMA LookStep ==
  ASSUME IInv, Look
  PROVE  IInv'
<1>1. Sweep /\ UNCHANGED <<due, work, served>> /\ call' = call /\ entry' = Swept
  BY DEF Look, Sweep
<1>2. StoreInv'
  BY <1>1, SweepStep DEF IInv, TypeOK, Requests
<1>3. CallsKnown'
  BY <1>1, SweptFinal, CallStutter DEF IInv
<1> QED
  BY <1>2, <1>3 DEF IInv, StoreInv

LEMMA DisposeStep ==
  ASSUME IInv, Dispose
  PROVE  IInv'
<1>0. StoreInv
  BY DEF IInv, StoreInv
<1>1. /\ aborted' = aborted \cup tracked /\ tracked' = {}
      /\ entry' = [t \in Tasks |-> IF Stored(t) THEN Dropped ELSE entry[t]]
      /\ UNCHANGED <<due, work, served, call>>
  BY DEF Dispose
<1>2. entry \in [Tasks -> Entries] /\ Dropped \in Entries
  BY <1>0 DEF StoreInv, TypeOK, Entries, Dropped
<1>3. \A t \in Tasks : \/ entry'[t] = entry[t] /\ entry[t].status \in {"none", "gone"}
                       \/ entry'[t] = Dropped /\ entry[t].status \notin {"none", "gone"}
  BY <1>1, <1>2 DEF Stored
<1>4. TypeOK'
  BY <1>0, <1>1, <1>2 DEF StoreInv, TypeOK, Entries
<1>5. NoOrphanWork' /\ RunKeepsRuntime'
  BY <1>0, <1>1 DEF StoreInv, NoOrphanWork, RunKeepsRuntime
<1>6. RunsKnown' /\ ResultsKept'
  BY <1>0, <1>1, <1>3 DEF StoreInv, RunsKnown, ResultsKept, Dropped, NoEntry
<1>7. CallsKnown'
  BY <1>1, <1>3, CallStutter DEF Dropped
<1> QED
  BY <1>4, <1>5, <1>6, <1>7 DEF IInv

LEMMA AskStep ==
  ASSUME IInv, NEW c \in Calls, NEW t \in Tasks, Ask(c, t)
  PROVE  IInv'
<1>1. /\ call[c].pc = "idle" /\ work[t] \notin {"none", "starting"}
      /\ c \in Readers => t \notin Modern
      /\ call' = [call EXCEPT ![c].pc = "poll", ![c].task = t]
      /\ UNCHANGED <<entry, due, work, tracked, aborted, served>>
  BY DEF Ask
<1>2. TypeOK'
  BY <1>1 DEF IInv, TypeOK
<1>3. NoOrphanWork' /\ RunKeepsRuntime' /\ RunsKnown' /\ ResultsKept'
  BY <1>1 DEF IInv, NoOrphanWork, RunKeepsRuntime, RunsKnown, ResultsKept
<1>4. CallsKnown'
  <2>1. call \in [Calls -> Requests]
    BY DEF IInv, TypeOK, Requests
  <2>2. call'[c].pc = "poll" /\ call'[c].task = t /\ call'[c].answer = call[c].answer
    BY <1>1, <2>1 DEF Requests
  <2>3. \A d \in Calls \ {c} : call'[d] = call[d]
    BY <1>1, <2>1
  <2>4. CallsKnown /\ t # NoTask
    BY TaskAssumption DEF IInv
  <2> SUFFICES ASSUME NEW d \in Calls
               PROVE  CallsKnown!(d)'
    BY DEF CallsKnown
  <2>5. CASE d = c
    BY <1>1, <2>2, <2>4, <2>5 DEF CallsKnown
  <2>6. CASE d # c
    BY <1>1, <2>3, <2>4, <2>6 DEF CallsKnown
  <2> QED
    BY <2>5, <2>6
<1> QED
  BY <1>2, <1>3, <1>4 DEF IInv

\* What the actions of a request need to know of it.
LEMMA Asked ==
  ASSUME IInv, NEW c \in Calls, call[c].pc \in {"poll", "fetch", "apply"}
  PROVE  /\ call[c].task \in Tasks /\ call[c].answer = "none"
         /\ work[call[c].task] \notin {"none", "starting"}
         /\ c \in Readers => call[c].task \notin Modern
         /\ call[c].pc = "fetch" => c \in Readers
BY DEF IInv, TypeOK, CallsKnown

\* A request that only sweeps and is then answered or goes on.
LEMMA SweepAndGoOn ==
  ASSUME IInv, NEW c \in Calls, call[c].pc # "idle", Sweep, UNCHANGED <<due, work, served>>,
         NEW pc \in {"poll", "fetch", "apply", "done"}, NEW a, CallGoesOn(c, pc, a),
         pc # "done" => a = "none",
         pc = "fetch" => c \in Readers /\ Swept[call[c].task].status \in {"completed", "failed"}
  PROVE  IInv'
<1>1. StoreInv'
  BY SweepStep DEF CallGoesOn
<1>2. entry' = Swept
  BY DEF Sweep
<1>3. CallsKnown'
  BY <1>2, SweptFinal, CallStep DEF IInv
<1> QED
  BY <1>1, <1>3 DEF IInv, StoreInv

LEMMA PollStep ==
  ASSUME IInv, NEW r \in Calls, Poll(r) \/ Leave(r)
  PROVE  IInv'
<1>1. call[r].pc = "poll" /\ r \in Readers /\ Sweep /\ UNCHANGED <<due, work, served>>
  BY DEF Poll, Leave
<1>2. call[r].task \in Tasks /\ call[r].answer = "none"
  BY <1>1, Asked
<1>3. CASE call' = call
  BY <1>1, <1>3, LookStep DEF Look
<1>4. ASSUME NEW a \in {"notFound", "cancelled", "left"}, call' = Reply(r, a)
      PROVE  IInv'
  BY <1>1, <1>4, ReplyForm, SweepAndGoOn DEF IInv
<1>5. CASE /\ Swept[call[r].task].status \in {"completed", "failed"}
           /\ call' = [call EXCEPT ![r].pc = "fetch"]
  BY <1>1, <1>2, <1>5, PhaseForm, SweepAndGoOn DEF IInv
<1> QED
  BY <1>3, <1>4, <1>5 DEF Poll, Leave

LEMMA FetchStep ==
  ASSUME IInv, NEW r \in Calls, Fetch(r)
  PROVE  IInv'
<1>1. call[r].pc = "fetch" /\ Sweep /\ UNCHANGED <<due, work, served>>
  BY DEF Fetch
<1>2. ASSUME NEW a \in {"notFound", "result"}, call' = Reply(r, a)
      PROVE  IInv'
  BY <1>1, <1>2, ReplyForm, SweepAndGoOn DEF IInv
<1> QED
  BY <1>2 DEF Fetch

\* A cancellation that takes effect and is acknowledged.
LEMMA CancelTakesEffect ==
  ASSUME IInv, NEW c \in Calls, call[c].pc \in {"poll", "apply"},
         Swept[call[c].task].status = "working", entry' = Cancelled(call[c].task),
         Stop({call[c].task}), call' = Reply(c, "stopped"), UNCHANGED <<due, work, served>>
  PROVE  IInv'
<1> DEFINE t == call[c].task
<1>1. t \in Tasks /\ work[t] \notin {"none", "starting"}
  BY Asked
<1>2. CallGoesOn(c, "done", "stopped")
  BY ReplyForm DEF IInv
<1>3. call' \in [Calls -> Requests]
  BY <1>2 DEF CallGoesOn
<1>4. StoreInv'
  BY <1>1, <1>3, CancelStep
<1>5. \A u \in Tasks : entry[u].status \in {"completed", "failed", "gone"} =>
                          entry'[u].status \in {"completed", "failed", "gone"}
  <2>1. \A u \in Tasks \ {t} : entry'[u] = Swept[u]
    BY DEF Cancelled, Swept
  <2>2. Swept[t].status = "working" /\ TypeOK
    BY DEF IInv
  <2>3. entry[t].status \notin {"completed", "failed", "gone"}
    BY <1>1, <2>2, SweptFinal
  <2> QED
    BY <2>1, <2>2, <2>3, SweptFinal
<1>6. CallsKnown'
  BY <1>2, <1>5, CallStep
<1> QED
  BY <1>4, <1>6 DEF IInv, StoreInv

LEMMA CancellerStep ==
  ASSUME IInv, NEW c \in Calls, LookForCancel(c) \/ ApplyCancel(c)
  PROVE  IInv'
<1>1. call[c].pc \in {"poll", "apply"} /\ UNCHANGED <<due, work, served>>
  BY DEF LookForCancel, ApplyCancel
<1>2. ASSUME Sweep, NEW a \in {"notFound", "final"}, call' = Reply(c, a)
      PROVE  IInv'
  BY <1>1, <1>2, ReplyForm, SweepAndGoOn DEF IInv
<1>3. CASE Sweep /\ call' = [call EXCEPT ![c].pc = "apply"]
  <2>1. CallGoesOn(c, "apply", "none")
    BY <1>1, <1>3, Asked, PhaseForm DEF IInv
  <2> QED
    BY <1>1, <1>3, <2>1, SweepAndGoOn
<1>4. CASE /\ Swept[call[c].task].status = "working" /\ entry' = Cancelled(call[c].task)
           /\ Stop({call[c].task}) /\ call' = Reply(c, "stopped")
  BY <1>1, <1>4, CancelTakesEffect
<1> QED
  BY <1>2, <1>3, <1>4 DEF LookForCancel, ApplyCancel

LEMMA InitOK == Init => IInv
<1> SUFFICES ASSUME Init PROVE IInv
  OBVIOUS
<1>1. TypeOK
  BY DEF Init, TypeOK, NoEntry
<1>2. NoOrphanWork /\ RunKeepsRuntime /\ RunsKnown /\ ResultsKept
  BY DEF Init, NoOrphanWork, RunKeepsRuntime, RunsKnown, ResultsKept, NoEntry
<1>3. CallsKnown
  BY DEF Init, CallsKnown
<1> QED
  BY <1>1, <1>2, <1>3 DEF IInv

LEMMA Invariance == Spec => []IInv
<1>1. IInv /\ [Next]_vars => IInv'
  <2> SUFFICES ASSUME IInv, [Next]_vars PROVE IInv'
    OBVIOUS
  <2>1. CASE UNCHANGED vars
    BY <2>1 DEF vars, IInv, TypeOK, NoOrphanWork, RunKeepsRuntime, RunsKnown, ResultsKept, CallsKnown
  <2>2. ASSUME NEW t \in Tasks,
               \/ Create(t) \/ Start(t) \/ Report(t) \/ Expire(t)
               \/ CloseRequest(t) \/ DisposeRequest(t)
        PROVE  IInv'
    BY <2>2, StartsAndRuns
  <2>3. ASSUME NEW t \in Tasks, NEW out \in {"ok", "toolError", "thrown"}, Settle(t, out)
        PROVE  IInv'
    BY <2>3, SettleStep
  <2>4. ASSUME NEW t \in Tasks, NEW c \in Calls, Ask(c, t)
        PROVE  IInv'
    BY <2>4, AskStep
  <2>5. ASSUME NEW c \in Calls, Poll(c) \/ Leave(c) \/ Fetch(c) \/ LookForCancel(c) \/ ApplyCancel(c)
        PROVE  IInv'
    BY <2>5, PollStep, FetchStep, CancellerStep
  <2>6. CASE Look \/ Dispose
    BY <2>6, LookStep, DisposeStep
  <2> QED
    BY <2>1, <2>2, <2>3, <2>4, <2>5, <2>6 DEF Next
<1> QED
  BY <1>1, InitOK, PTL DEF Spec

-----------------------------------------------------------------------------
(* The theorems *)

\* Entries, controllers, runs and requests have their types (SnTaskStore).
THEOREM TypeCorrect == Spec => []TypeOK
<1>1. IInv => TypeOK
  BY DEF IInv
<1> QED
  BY <1>1, Invariance, PTL

\* Whatever drops a task or cancels it aborts its run, and no run loses the
\* runtime it works in (stop, sweep, updateTaskStatus, taskWorkSettled).
THEOREM RunsAreKept == Spec => []WorkSafe
<1>1. IInv => WorkSafe
  BY DEF IInv, WorkSafe
<1> QED
  BY <1>1, Invariance, PTL

-----------------------------------------------------------------------------
(* The store implements its service *)

Targets == [c \in Calls |-> call[c].task]
Answers == [c \in Calls |-> call[c].answer]

\* Nobody can tell when an expired entry is swept.
LEMMA SweepIsHidden ==
  ASSUME TypeOK, entry' = Swept, due' = due
  PROVE  Shown' = Shown /\ ShownNote' = ShownNote
BY SweptType DEF Shown, ShownNote

LEMMA OneTaskShown ==
  ASSUME TypeOK, NEW t \in Tasks, due' = due,
         \A u \in Tasks \ {t} : entry'[u] = Swept[u]
  PROVE  /\ Shown' = [Shown EXCEPT ![t] = IF t \in due THEN "gone" ELSE entry'[t].status]
         /\ ShownNote' = [ShownNote EXCEPT ![t] = IF t \in due THEN "none" ELSE entry'[t].note]
BY SweptType DEF Shown, ShownNote

LEMMA ReplyShown ==
  ASSUME TypeOK, NEW c \in Calls,
         NEW a \in {"none", "result", "cancelled", "final", "notFound", "left", "stopped"},
         call' = Reply(c, a)
  PROVE  Targets' = Targets /\ Answers' = [Answers EXCEPT ![c] = a]
<1>1. CallGoesOn(c, "done", a)
  BY ReplyForm
<1> QED
  BY <1>1 DEF CallGoesOn, Targets, Answers

LEMMA GoOnHidden ==
  ASSUME TypeOK, NEW c \in Calls, NEW pc \in {"fetch", "apply"},
         call' = [call EXCEPT ![c].pc = pc]
  PROVE  Targets' = Targets /\ Answers' = Answers
BY DEF TypeOK, Targets, Answers

LEMMA ServiceInit == Init => Service!Init
BY DEF Init, Service!Init, Shown, ShownNote, NoEntry

\* A reply that follows a sweep is true of the task shown at that moment.
LEMMA ServiceAnswer ==
  ASSUME IInv, NEW c \in Calls, call[c].pc \in {"poll", "fetch", "apply"},
         Sweep, due' = due,
         NEW a \in {"result", "cancelled", "final", "notFound", "left"}, call' = Reply(c, a),
         LET s == Swept[call[c].task].status IN
           \/ a = "result"    /\ s \in {"completed", "failed"}
           \/ a = "cancelled" /\ s = "cancelled"
           \/ a = "final"     /\ s \in TERMINAL
           \/ a = "notFound"  /\ s = "gone"
           \/ a = "left"      /\ s = "working"
  PROVE  Service!Answer(c, a)
<1> DEFINE t == call[c].task
<1>1. t \in Tasks /\ call[c].answer = "none"
  BY Asked
<1>2. TypeOK /\ RunsKnown
  BY DEF IInv
<1>3. Shown[t] = Swept[t].status
  <2>1. CASE t \in due
    <3>1. Swept[t].status \in {"gone", "none"}
      BY <1>1, <1>2, <2>1, SweptType DEF Dropped, Swept, Stale, Stored
    <3>2. entry[t].status # "none"
      BY <1>1, <1>2, Asked DEF RunsKnown
    <3>3. Swept[t].status # "none"
      BY <1>1, <1>2, <3>2, SweptType DEF Dropped
    <3> QED
      BY <1>1, <2>1, <3>1, <3>3 DEF Shown
  <2>2. CASE t \notin due
    BY <1>1, <1>2, <2>2, SweptType DEF Shown
  <2> QED
    BY <2>1, <2>2
<1>4. Shown' = Shown /\ ShownNote' = ShownNote
  BY <1>2, SweepIsHidden DEF Sweep
<1>5. Targets' = Targets /\ Answers' = [Answers EXCEPT ![c] = a]
  BY <1>2, ReplyShown
<1>6. Targets[c] = t /\ Answers[c] = "none"
  BY <1>1 DEF Targets, Answers
<1> QED
  BY <1>1, <1>3, <1>4, <1>5, <1>6 DEF Service!Answer, Service!Final, TERMINAL, Targets, Answers

LEMMA ServiceCancel ==
  ASSUME IInv, NEW c \in Calls, call[c].pc \in {"poll", "apply"}, due' = due,
         Swept[call[c].task].status = "working", entry' = Cancelled(call[c].task),
         call' = Reply(c, "stopped")
  PROVE  Service!Cancel(c)
<1> DEFINE t == call[c].task
<1>1. t \in Tasks /\ call[c].answer = "none" /\ TypeOK
  BY Asked DEF IInv
<1>2. t \notin due /\ Swept[t] = entry[t]
  BY <1>1, SweptType DEF Swept, Stale, Stored, Dropped
<1>3. entry'[t].status = "cancelled" /\ entry'[t].note = entry[t].note
  BY <1>1 DEF Cancelled, Swept
<1>4. \A u \in Tasks \ {t} : entry'[u] = Swept[u]
  BY DEF Cancelled, Swept
<1>5. /\ Shown' = [Shown EXCEPT ![t] = "cancelled"]
      /\ ShownNote' = ShownNote
  BY <1>1, <1>2, <1>3, <1>4, OneTaskShown DEF ShownNote
<1>6. Targets' = Targets /\ Answers' = [Answers EXCEPT ![c] = "stopped"]
  BY <1>1, ReplyShown
<1>7. Targets[c] = t /\ Answers[c] = "none" /\ Shown[t] = "working"
  BY <1>1, <1>2 DEF Targets, Answers, Shown
<1> QED
  BY <1>1, <1>5, <1>6, <1>7 DEF Service!Cancel, Targets, Answers

LEMMA ServiceSettle ==
  ASSUME IInv, NEW t \in Tasks, NEW out \in {"ok", "toolError", "thrown"}, Settle(t, out)
  PROVE  Service!Finish(t) \/ UNCHANGED Service!vars
<1>1. TypeOK /\ UNCHANGED <<due, call>>
  BY DEF IInv, Settle
<1>2. CASE entry' = entry
  BY <1>1, <1>2 DEF Service!vars, Shown, ShownNote
<1>3. CASE entry' = Swept
  BY <1>1, <1>3, SweepIsHidden DEF Service!vars
<1>4. CASE Open(t) /\ entry' = [Swept EXCEPT ![t] = Recorded(t, out)]
  <2>1. t \notin due /\ Swept[t] = entry[t] /\ entry[t].status = "working"
    BY <1>1, <1>4, SweptType DEF Open, Swept, Stale, Stored, Dropped
  <2>2. /\ entry'[t] = Recorded(t, out)
        /\ \A u \in Tasks \ {t} : entry'[u] = Swept[u]
    BY <1>4 DEF Swept
  <2>3. \/ entry'[t].status = "completed" /\ entry'[t].note = entry[t].note
        \/ entry'[t].status = "failed" /\ entry'[t].note \in {entry[t].note, "error"}
    BY <2>2 DEF Recorded
  <2>4. /\ Shown' = [Shown EXCEPT ![t] = entry'[t].status]
        /\ ShownNote' = [ShownNote EXCEPT ![t] = entry'[t].note]
    BY <1>1, <2>1, <2>2, OneTaskShown
  <2>5. Shown[t] = "working" /\ ShownNote[t] = entry[t].note
    BY <2>1 DEF Shown, ShownNote
  <2>6. ShownNote = [ShownNote EXCEPT ![t] = entry[t].note]
    BY <2>5 DEF ShownNote
  <2>7. CASE entry'[t].status = "completed" /\ entry'[t].note = entry[t].note
    <3>1. Shown' = [Shown EXCEPT ![t] = "completed"] /\ ShownNote' = ShownNote
      BY <2>4, <2>6, <2>7
    <3> QED
      BY <1>1, <2>5, <3>1 DEF Service!Finish
  <2>8. CASE entry'[t].status = "failed" /\ entry'[t].note \in {entry[t].note, "error"}
    <3>1. /\ Shown' = [Shown EXCEPT ![t] = "failed"]
          /\ ShownNote' = ShownNote \/ ShownNote' = [ShownNote EXCEPT ![t] = "error"]
      BY <2>4, <2>6, <2>8
    <3> QED
      BY <1>1, <2>5, <3>1 DEF Service!Finish
  <2> QED
    BY <2>3, <2>7, <2>8
<1> QED
  BY <1>2, <1>3, <1>4 DEF Settle

LEMMA ServiceTaskStep ==
  ASSUME IInv, NEW t \in Tasks,
         Create(t) \/ Start(t) \/ Report(t) \/ Expire(t) \/ CloseRequest(t) \/ DisposeRequest(t)
  PROVE  Service!Next \/ UNCHANGED Service!vars
<1>0. TypeOK /\ RunsKnown
  BY DEF IInv
<1>1. CASE Create(t)
  <2>1. /\ work[t] = "none" /\ UNCHANGED <<due, call>>
        /\ entry' = [Swept EXCEPT ![t] = Fresh]
    BY <1>1 DEF Create
  <2>2. t \notin due /\ entry[t] = NoEntry
    BY <1>0, <2>1 DEF RunsKnown
  <2>3. entry'[t] = Fresh /\ \A u \in Tasks \ {t} : entry'[u] = Swept[u]
    BY <2>1 DEF Swept
  <2>4. Shown' = [Shown EXCEPT ![t] = "working"] /\ ShownNote' = ShownNote
    <3>1. /\ Shown' = [Shown EXCEPT ![t] = "working"]
          /\ ShownNote' = [ShownNote EXCEPT ![t] = "none"]
      BY <1>0, <2>1, <2>2, <2>3, OneTaskShown DEF Fresh
    <3>2. ShownNote[t] = "none"
      BY <2>2 DEF NoEntry, ShownNote
    <3>3. ShownNote = [ShownNote EXCEPT ![t] = "none"]
      BY <3>2 DEF ShownNote
    <3> QED
      BY <3>1, <3>3
  <2>5. Shown[t] = "none"
    BY <2>2 DEF Shown, NoEntry
  <2> QED
    BY <2>1, <2>4, <2>5 DEF Service!Create, Service!Next
<1>2. CASE Start(t) \/ CloseRequest(t) \/ DisposeRequest(t)
  BY <1>2 DEF Start, CloseRequest, DisposeRequest, Service!vars, Shown, ShownNote
<1>3. CASE Report(t)
  <2>1. /\ entry[t].status = "working" /\ UNCHANGED <<due, call>>
        /\ entry' = [entry EXCEPT ![t].note = "progress"]
    BY <1>3 DEF Report
  <2>2. Shown' = Shown
    BY <1>0, <2>1 DEF Shown, TypeOK
  <2>3. CASE t \in due
    BY <1>0, <2>1, <2>2, <2>3 DEF ShownNote, TypeOK, Service!vars
  <2>4. CASE t \notin due
    <3>1. ShownNote' = [ShownNote EXCEPT ![t] = "progress"] /\ Shown[t] = "working"
      <4>1. entry'[t].note = "progress" /\ \A u \in Tasks \ {t} : entry'[u] = entry[u]
        BY <1>0, <2>1 DEF TypeOK
      <4>2. Shown[t] = "working"
        BY <2>1, <2>4 DEF Shown
      <4>3. \A u \in Tasks : ShownNote'[u] = IF u = t THEN "progress" ELSE ShownNote[u]
        BY <2>1, <2>4, <4>1 DEF ShownNote
      <4>4. ShownNote' = [ShownNote EXCEPT ![t] = "progress"]
        BY <4>3 DEF ShownNote
      <4> QED
        BY <4>2, <4>4
    <3> QED
      BY <2>1, <2>2, <3>1 DEF Service!Report, Service!Next
  <2> QED
    BY <2>3, <2>4
<1>4. CASE Expire(t)
  <2>1. Stored(t) /\ due' = due \cup {t} /\ UNCHANGED <<entry, call>>
    BY <1>4 DEF Expire
  <2>2. Shown[t] # "none"
    BY <2>1 DEF Shown, Stored
  <2>3. /\ Shown' = [u \in Tasks |-> IF u \in {t} THEN "gone" ELSE Shown[u]]
        /\ ShownNote' = [u \in Tasks |-> IF u \in {t} THEN "none" ELSE ShownNote[u]]
    BY <2>1 DEF Shown, ShownNote
  <2> QED
    <3>1. Service!Vanish({t})
      BY <2>1, <2>2, <2>3 DEF Service!Vanish
    <3>2. {t} \in SUBSET Tasks
      OBVIOUS
    <3> QED
      BY <3>1, <3>2 DEF Service!Next
<1> QED
  BY <1>1, <1>2, <1>3, <1>4

LEMMA ServiceDispose ==
  ASSUME IInv, Dispose
  PROVE  Service!Next
<1> DEFINE T == {t \in Tasks : Stored(t)}
<1>1. /\ UNCHANGED <<due, call>>
      /\ entry' = [t \in Tasks |-> IF Stored(t) THEN Dropped ELSE entry[t]]
  BY DEF Dispose
<1>2. \A t \in T : Shown[t] # "none"
  BY DEF Shown, Stored
<1>3. /\ Shown' = [t \in Tasks |-> IF t \in T THEN "gone" ELSE Shown[t]]
      /\ ShownNote' = [t \in Tasks |-> IF t \in T THEN "none" ELSE ShownNote[t]]
  BY <1>1 DEF Shown, ShownNote, Dropped
<1>4. Service!Vanish(T)
  BY <1>1, <1>2, <1>3 DEF Service!Vanish
<1> QED
  BY <1>4 DEF Service!Next

LEMMA ServiceAsk ==
  ASSUME IInv, NEW c \in Calls, NEW t \in Tasks, Ask(c, t)
  PROVE  Service!Ask(c, t)
<1>1. /\ call[c].pc = "idle" /\ work[t] \notin {"none", "starting"}
      /\ call' = [call EXCEPT ![c].pc = "poll", ![c].task = t]
      /\ UNCHANGED <<entry, due>>
  BY DEF Ask
<1>2. Targets[c] = NoTask /\ Targets' = [Targets EXCEPT ![c] = t] /\ Answers' = Answers
  BY <1>1 DEF IInv, TypeOK, CallsKnown, Targets, Answers
<1>3. Shown[t] # "none"
  BY <1>1 DEF IInv, RunsKnown, Shown
<1>4. Shown' = Shown /\ ShownNote' = ShownNote
  BY <1>1 DEF Shown, ShownNote
<1> QED
  BY <1>2, <1>3, <1>4 DEF Service!Ask, Targets, Answers

LEMMA ServiceRequestStep ==
  ASSUME IInv, NEW c \in Calls, Poll(c) \/ Leave(c) \/ Fetch(c) \/ LookForCancel(c) \/ ApplyCancel(c)
  PROVE  Service!Next \/ UNCHANGED Service!vars
<1>0. /\ call[c].pc \in {"poll", "fetch", "apply"} /\ due' = due /\ TypeOK
  BY DEF IInv, Poll, Leave, Fetch, LookForCancel, ApplyCancel
<1> DEFINE s == Swept[call[c].task].status
<1>1. ASSUME Sweep,
             NEW a \in {"result", "cancelled", "final", "notFound", "left"}, call' = Reply(c, a),
             \/ a = "result"    /\ s \in {"completed", "failed"}
             \/ a = "cancelled" /\ s = "cancelled"
             \/ a = "final"     /\ s \in TERMINAL
             \/ a = "notFound"  /\ s = "gone"
             \/ a = "left"      /\ s = "working"
      PROVE  Service!Next
  <2>1. Service!Answer(c, a)
    BY <1>0, <1>1, ServiceAnswer
  <2> QED
    BY <2>1 DEF Service!Next
<1>2. ASSUME Sweep, NEW pc \in {"fetch", "apply"}, call' = [call EXCEPT ![c].pc = pc] \/ call' = call
      PROVE  UNCHANGED Service!vars
  <2>1. Shown' = Shown /\ ShownNote' = ShownNote
    BY <1>0, <1>2, SweepIsHidden DEF Sweep
  <2>2. Targets' = Targets /\ Answers' = Answers
    BY <1>0, <1>2, GoOnHidden DEF Targets, Answers
  <2> QED
    BY <2>1, <2>2 DEF Service!vars, Targets, Answers
<1>3. CASE s = "working" /\ entry' = Cancelled(call[c].task) /\ call' = Reply(c, "stopped")
           /\ call[c].pc \in {"poll", "apply"}
  <2>1. Service!Cancel(c)
    BY <1>0, <1>3, ServiceCancel
  <2> QED
    BY <2>1 DEF Service!Next
<1>4. CASE Poll(c) \/ Leave(c)
  BY <1>1, <1>2, <1>4 DEF Poll, Leave
<1>5. CASE Fetch(c)
  <2>1. call[c].task \in Tasks
    BY <1>0, Asked
  <2>2. call[c].pc = "fetch" /\ s \in {"completed", "failed", "gone"}
    BY <1>0, <1>5, <2>1, SweptFinal DEF Fetch, IInv, CallsKnown
  <2>3. Swept[call[c].task].result = "result" => s # "gone"
    BY <1>0, <2>1, SweptType DEF IInv, RunsKnown, Dropped
  <2> QED
    BY <1>1, <1>5, <2>2, <2>3 DEF Fetch
<1>6. CASE LookForCancel(c) \/ ApplyCancel(c)
  BY <1>1, <1>2, <1>3, <1>6 DEF LookForCancel, ApplyCancel
<1> QED
  BY <1>4, <1>5, <1>6

\* Every step of the store is a step of the service it promises or hidden from
\* every client: a task has one final status, every answer is true when it is
\* given, an acknowledged cancellation took effect.
THEOREM Implementation == Spec => ImplementsService
<1>1. IInv /\ [Next]_vars => [Service!Next]_(Service!vars)
  <2> SUFFICES ASSUME IInv, [Next]_vars
               PROVE  Service!Next \/ UNCHANGED Service!vars
    OBVIOUS
  <2>1. CASE UNCHANGED vars
    BY <2>1 DEF vars, Service!vars, Shown, ShownNote
  <2>2. ASSUME NEW t \in Tasks,
               \/ Create(t) \/ Start(t) \/ Report(t) \/ Expire(t)
               \/ CloseRequest(t) \/ DisposeRequest(t)
        PROVE  Service!Next \/ UNCHANGED Service!vars
    BY <2>2, ServiceTaskStep
  <2>3. ASSUME NEW t \in Tasks, NEW out \in {"ok", "toolError", "thrown"}, Settle(t, out)
        PROVE  Service!Next \/ UNCHANGED Service!vars
    BY <2>3, ServiceSettle DEF Service!Next
  <2>4. ASSUME NEW t \in Tasks, NEW c \in Calls, Ask(c, t)
        PROVE  Service!Next
    BY <2>4, ServiceAsk DEF Service!Next
  <2>5. ASSUME NEW c \in Calls, Poll(c) \/ Leave(c) \/ Fetch(c) \/ LookForCancel(c) \/ ApplyCancel(c)
        PROVE  Service!Next \/ UNCHANGED Service!vars
    BY <2>5, ServiceRequestStep
  <2>6. CASE Dispose
    BY <2>6, ServiceDispose
  <2>7. CASE Look
    <3>1. Shown' = Shown /\ ShownNote' = ShownNote /\ call' = call
      BY <2>7, SweepIsHidden DEF Look, Sweep, IInv
    <3> QED
      BY <3>1 DEF Service!vars
  <2> QED
    BY <2>1, <2>2, <2>3, <2>4, <2>5, <2>6, <2>7 DEF Next
<1> QED
  BY <1>1, ServiceInit, Invariance, PTL DEF Spec, ImplementsService, Service!Spec
=============================================================================
