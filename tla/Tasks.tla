------------------------------- MODULE Tasks -------------------------------
(***************************************************************************)
(* The task store of one runtime (mcp/tasks.ts): tools that run on in the  *)
(* background after their call was answered, the requests that wait for    *)
(* them or cancel them, and the disposal of the store.                     *)
(*                                                                         *)
(* Tasks of the 2025-11-25 wire and of the 2026-07-28 extension (Modern)   *)
(* live in the same store, bound to different owners.  Expiry is lazy:     *)
(* nothing happens when a TTL ends, the next access sweeps.                *)
(***************************************************************************)
EXTENDS Naturals

CONSTANTS Tasks, Modern,      \* Modern \subseteq Tasks
          Readers, Cancellers, \* tasks/result and tasks/cancel requests
          NoTask

ASSUME TaskAssumption ==
    /\ Modern \subseteq Tasks
    /\ Readers \cap Cancellers = {}
    /\ NoTask \notin Tasks

VARIABLES entry,    \* entries: status, result and statusMessage of a task
          due,      \* tasks whose expiresAt has passed, swept or not
          work,     \* the background run of a task
          tracked,  \* running: tasks whose AbortController the store knows
          aborted,  \* tasks whose signal is aborted
          served,   \* runtime of the request that started a Modern task
          call      \* the waiting and cancelling requests

vars == <<entry, due, work, tracked, aborted, served, call>>

Calls == Readers \cup Cancellers
TERMINAL == {"completed", "failed", "cancelled"}

NoEntry == [status |-> "none", result |-> "none", note |-> "none"]
Fresh   == [status |-> "working", result |-> "none", note |-> "none"]
Dropped == [status |-> "gone", result |-> "none", note |-> "none"]

TypeOK ==
    /\ entry \in [Tasks -> [status : {"none", "working", "gone"} \cup TERMINAL,
                            result : {"none", "result", "error"},
                            note   : {"none", "progress", "error"}]]
    /\ due \subseteq Tasks
    /\ work \in [Tasks -> {"none", "starting", "running", "stray", "over"}]
    /\ tracked \subseteq Tasks
    /\ aborted \subseteq Tasks
    /\ served \in [Tasks -> {"open", "closed", "disposed"}]
    /\ call \in [Calls -> [pc : {"idle", "poll", "fetch", "apply", "done"},
                           task : Tasks \cup {NoTask}, answer : {"none",
                           "result", "cancelled", "final", "notFound", "left", "stopped"}]]

Init ==
    /\ entry = [t \in Tasks |-> NoEntry]
    /\ due = {}
    /\ work = [t \in Tasks |-> "none"]
    /\ tracked = {}
    /\ aborted = {}
    /\ served = [t \in Tasks |-> "open"]
    /\ call = [c \in Calls |-> [pc |-> "idle", task |-> NoTask, answer |-> "none"]]

-----------------------------------------------------------------------------
(* The store *)

Stored(t) == entry[t].status \notin {"none", "gone"}

\* Expired entries that nobody has swept yet.
Stale == {t \in due : Stored(t)}

Swept_Never == entry
Swept == [t \in Tasks |-> IF t \in Stale THEN Dropped ELSE entry[t]]

\* stop: abort and forget the controllers of T, with those of the sweep.
Stop_KeepsExpired(T) ==
    /\ aborted' = aborted \cup (tracked \cap T)
    /\ tracked' = tracked \ (Stale \cup T)
Stop(T) ==
    /\ aborted' = aborted \cup (tracked \cap (Stale \cup T))
    /\ tracked' = tracked \ (Stale \cup T)

Sweep == entry' = Swept /\ Stop({})

\* createTask of a call that asked for a task (or, on the 2026 wire, was made
\* one); the caller goes on after an await.
Create(t) ==
    /\ work[t] = "none"
    /\ work' = [work EXCEPT ![t] = "starting"]
    /\ entry' = [Swept EXCEPT ![t] = Fresh]
    /\ Stop({})
    /\ UNCHANGED <<due, served, call>>

\* The continuation: track, then start the run and answer with the handle.
\* A store disposed in between has no entry for the run: it is a stray.
Start(t) ==
    /\ work[t] = "starting"
    /\ work' = [work EXCEPT ![t] = IF Stored(t) THEN "running" ELSE "stray"]
    /\ tracked' = tracked \cup {t}
    /\ UNCHANGED <<entry, due, aborted, served, call>>

\* reportStatus: no sweep, and nothing once the task is final or gone.
Report(t) ==
    /\ work[t] \in {"running", "stray"}
    /\ entry[t].status = "working"
    /\ entry' = [entry EXCEPT ![t].note = "progress"]
    /\ UNCHANGED <<due, work, tracked, aborted, served, call>>

\* What storeTaskResult or storeTaskError make of the outcome of a run.
Recorded(t, out) ==
    LET rejected == t \in Modern /\ out = "thrown" IN
    [status |-> IF rejected \/ (t \notin Modern /\ out # "ok") THEN "failed" ELSE "completed",
     result |-> IF rejected THEN "error" ELSE "result",
     note   |-> IF rejected THEN "error" ELSE entry[t].note]

\* mustGet and the test for a final status: may t still be given an outcome?
Open(t) == Swept[t].status = "working"

\* The run ends: untrack, and unless it was aborted record the outcome.
Settle(t, out) ==
    /\ work[t] \in {"running", "stray"}
    /\ work' = [work EXCEPT ![t] = "over"]
    /\ IF t \in aborted
       THEN /\ tracked' = tracked \ {t}
            /\ UNCHANGED <<entry, aborted>>
       ELSE /\ entry' = IF Open(t) THEN [Swept EXCEPT ![t] = Recorded(t, out)]
                                   ELSE Swept
            /\ tracked' = tracked \ (Stale \cup {t})
            /\ aborted' = aborted \cup ((tracked \ {t}) \cap Stale)
    /\ UNCHANGED <<due, served, call>>

\* expiresAt passes.
Expire(t) ==
    /\ Stored(t) /\ work[t] # "starting"
    /\ due' = due \cup {t}
    /\ UNCHANGED <<entry, work, tracked, aborted, served, call>>

\* tasks/get, tasks/list, tasks/update: they show, and sweep.
Look ==
    /\ Sweep
    /\ UNCHANGED <<due, work, served, call>>

\* dispose of the runtime the store belongs to.
Dispose ==
    /\ aborted' = aborted \cup tracked
    /\ tracked' = {}
    /\ entry' = [t \in Tasks |-> IF Stored(t) THEN Dropped ELSE entry[t]]
    /\ UNCHANGED <<due, work, served, call>>

-----------------------------------------------------------------------------
(* The runtime of a Modern request, which the run goes on using *)

CloseRequest(t) ==
    /\ t \in Modern
    /\ work[t] \notin {"none", "starting"}
    /\ served[t] = "open"
    /\ served' = [served EXCEPT ![t] = "closed"]
    /\ UNCHANGED <<entry, due, work, tracked, aborted, call>>

\* taskWorkSettled
WorkSettled(t) == work[t] \notin {"running", "stray"}

DisposeRequest(t) ==
    /\ served[t] = "closed"
    /\ WorkSettled(t)
    /\ served' = [served EXCEPT ![t] = "disposed"]
    /\ UNCHANGED <<entry, due, work, tracked, aborted, call>>

-----------------------------------------------------------------------------
(* Requests about a task *)

\* A client knows the id from the handle.
Ask(c, t) ==
    /\ call[c].pc = "idle"
    /\ work[t] \notin {"none", "starting"}
    /\ c \in Readers => t \notin Modern
    /\ call' = [call EXCEPT ![c].pc = "poll", ![c].task = t]
    /\ UNCHANGED <<entry, due, work, tracked, aborted, served>>

Reply(c, a) == [call EXCEPT ![c].pc = "done", ![c].answer = a]

\* One round of the loop of tasks/result: getTask, then an answer, the wait for
\* the next round, or the read of the result after an await.
Poll(r) ==
    /\ call[r].pc = "poll" /\ r \in Readers
    /\ Sweep
    /\ LET s == Swept[call[r].task].status IN
         \/ s = "gone"      /\ call' = Reply(r, "notFound")
         \/ s = "cancelled" /\ call' = Reply(r, "cancelled")
         \/ s \in {"completed", "failed"} /\ call' = [call EXCEPT ![r].pc = "fetch"]
         \/ s = "working"   /\ UNCHANGED call
    /\ UNCHANGED <<due, work, served>>

\* The client gave up: the round ends the loop.
Leave(r) ==
    /\ call[r].pc = "poll" /\ r \in Readers
    /\ Swept[call[r].task].status = "working"
    /\ Sweep
    /\ call' = Reply(r, "left")
    /\ UNCHANGED <<due, work, served>>

\* getTaskResult
Fetch(r) ==
    /\ call[r].pc = "fetch"
    /\ Sweep
    /\ LET e == Swept[call[r].task] IN
         \/ e.status = "gone" /\ call' = Reply(r, "notFound")
         \/ e.result = "result" /\ call' = Reply(r, "result")
    /\ UNCHANGED <<due, work, served>>

\* status = "cancelled" keeps the last progress report.
Cancelled(t) ==
    [Swept EXCEPT ![t] = [status |-> "cancelled", result |-> "none", note |-> entry[t].note]]

\* tasks/cancel looks first; the 2026 wire goes on in the same step, the 2025
\* wire after an await.
LookForCancel(c) ==
    /\ call[c].pc = "poll" /\ c \in Cancellers
    /\ LET t == call[c].task  s == Swept[t].status IN
         \/ /\ s = "gone"
            /\ Sweep /\ call' = Reply(c, "notFound")
         \/ /\ s \in TERMINAL
            /\ Sweep /\ call' = Reply(c, "final")
         \/ /\ s = "working" /\ t \notin Modern
            /\ Sweep /\ call' = [call EXCEPT ![c].pc = "apply"]
         \/ /\ s = "working" /\ t \in Modern
            /\ entry' = Cancelled(t) /\ Stop({t}) /\ call' = Reply(c, "stopped")
    /\ UNCHANGED <<due, work, served>>

\* updateTaskStatus
ApplyCancel_Blind(c) ==
    /\ call[c].pc = "apply"
    /\ LET t == call[c].task IN
         \/ /\ Swept[t].status = "gone"
            /\ Sweep /\ call' = Reply(c, "notFound")
         \/ /\ Swept[t].status # "gone"
            /\ entry' = Cancelled(t) /\ Stop({t}) /\ call' = Reply(c, "stopped")
    /\ UNCHANGED <<due, work, served>>
ApplyCancel(c) ==
    /\ call[c].pc = "apply"
    /\ LET t == call[c].task  s == Swept[t].status IN
         \/ /\ s = "gone"
            /\ Sweep /\ call' = Reply(c, "notFound")
         \/ /\ s \in TERMINAL
            /\ Sweep /\ call' = Reply(c, "final")
         \/ /\ s = "working"
            /\ entry' = Cancelled(t) /\ Stop({t}) /\ call' = Reply(c, "stopped")
    /\ UNCHANGED <<due, work, served>>

-----------------------------------------------------------------------------
Next ==
    \/ \E t \in Tasks : \/ Create(t) \/ Start(t) \/ Report(t) \/ Expire(t)
                        \/ \E out \in {"ok", "toolError", "thrown"} : Settle(t, out)
                        \/ CloseRequest(t) \/ DisposeRequest(t)
                        \/ \E c \in Calls : Ask(c, t)
    \/ \E c \in Calls : Poll(c) \/ Leave(c) \/ Fetch(c) \/ LookForCancel(c) \/ ApplyCancel(c)
    \/ Look \/ Dispose

Spec == Init /\ [][Next]_vars

\* Continuations run, the timer between two polls fires, and an hour passes.
\* Runs are not assumed to end, nor clients to give up.
FairSpec ==
    /\ Spec
    /\ \A r \in Readers : WF_vars(Poll(r)) /\ WF_vars(Fetch(r))
    /\ \A t \in Tasks : WF_vars(Expire(t))

-----------------------------------------------------------------------------
(* Properties *)

\* A run that nobody aborted is one the store can still stop: its controller is
\* registered and its task is working, expired unnoticed at most (tasks.ts:206-220).
\* A sweep, a cancellation or a disposal that drops a task takes its run with it.
NoOrphanWork ==
    \A t \in Tasks : work[t] = "running" /\ t \notin aborted =>
                         t \in tracked /\ entry[t].status = "working"

\* Disposal of a request's runtime waits for the run it started
\* (tasks.ts:910-929, http-modern.ts:180).
RunKeepsRuntime ==
    \A t \in Tasks : served[t] = "disposed" => work[t] = "over"

WorkSafe == NoOrphanWork /\ RunKeepsRuntime

\* The store keeps the promises of TaskService, where an expired task counts as
\* gone from the moment its hour is over, whenever it is swept.
Shown == [t \in Tasks |-> IF t \in due THEN "gone" ELSE entry[t].status]
ShownNote == [t \in Tasks |-> IF t \in due THEN "none" ELSE entry[t].note]
Service == INSTANCE TaskService WITH
    status <- Shown, note <- ShownNote,
    target <- [c \in Calls |-> call[c].task],
    answer <- [c \in Calls |-> call[c].answer]

ImplementsService == Service!Spec

\* A tasks/result request is answered, be it with the expiry (tasks.ts:666-691).
ReadersEnd == \A r \in Readers : call[r].pc = "poll" ~> call[r].pc = "done"
=============================================================================
