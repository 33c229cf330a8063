---------------------------- MODULE TaskService ----------------------------
(***************************************************************************)
(* What a client of the task store may rely on, whatever runs concurrently *)
(* (mcp/tasks.ts).  A task is working, then has one final status that never*)
(* changes, and may vanish at any time after it was created.  Every answer *)
(* is true of the task at the moment the answer is decided.                *)
(***************************************************************************)

CONSTANTS Tasks,  \* background calls
          Calls   \* tasks/result and tasks/cancel requests

VARIABLES status, \* of each task
          note,   \* its statusMessage: none, a progress report, the error
          target, \* the task a request asks about; NoTask before it is sent
          answer  \* what the request was told; "none" until then

vars == <<status, note, target, answer>>

CONSTANT NoTask

Final == {"completed", "failed", "cancelled"}

Init ==
    /\ status = [t \in Tasks |-> "none"]
    /\ note = [t \in Tasks |-> "none"]
    /\ target = [c \in Calls |-> NoTask]
    /\ answer = [c \in Calls |-> "none"]

Create(t) ==
    /\ status[t] = "none"
    /\ status' = [status EXCEPT ![t] = "working"]
    /\ UNCHANGED <<note, target, answer>>

Report(t) ==
    /\ status[t] = "working"
    /\ note' = [note EXCEPT ![t] = "progress"]
    /\ UNCHANGED <<status, target, answer>>

Finish(t) ==
    /\ status[t] = "working"
    /\ \/ /\ status' = [status EXCEPT ![t] = "completed"]
          /\ UNCHANGED note
       \/ /\ status' = [status EXCEPT ![t] = "failed"]
          /\ note' \in {note, [note EXCEPT ![t] = "error"]}
    /\ UNCHANGED <<target, answer>>

\* Expired, or dropped with everything else when the store is disposed.
Vanish(T) ==
    /\ \A t \in T : status[t] # "none"
    /\ status' = [t \in Tasks |-> IF t \in T THEN "gone" ELSE status[t]]
    /\ note' = [t \in Tasks |-> IF t \in T THEN "none" ELSE note[t]]
    /\ UNCHANGED <<target, answer>>

Ask(c, t) ==
    /\ target[c] = NoTask
    /\ status[t] # "none"
    /\ target' = [target EXCEPT ![c] = t]
    /\ UNCHANGED <<status, note, answer>>

Answer(c, a) ==
    /\ target[c] \in Tasks
    /\ answer[c] = "none"
    /\ LET s == status[target[c]] IN
         \/ a = "result"    /\ s \in {"completed", "failed"}
         \/ a = "cancelled" /\ s = "cancelled"
         \/ a = "final"     /\ s \in Final
         \/ a = "notFound"  /\ s = "gone"
         \/ a = "left"      /\ s = "working"   \* the client gave up waiting
    /\ answer' = [answer EXCEPT ![c] = a]
    /\ UNCHANGED <<status, note, target>>

\* A cancellation that is acknowledged took effect, at that very moment.
Cancel(c) ==
    /\ target[c] \in Tasks
    /\ answer[c] = "none"
    /\ status[target[c]] = "working"
    /\ status' = [status EXCEPT ![target[c]] = "cancelled"]
    /\ answer' = [answer EXCEPT ![c] = "stopped"]
    /\ UNCHANGED <<note, target>>

Next ==
    \/ \E t \in Tasks : Create(t) \/ Report(t) \/ Finish(t)
    \/ \E T \in SUBSET Tasks : Vanish(T)
    \/ \E c \in Calls : \/ \E t \in Tasks : Ask(c, t)
                        \/ \E a \in {"result", "cancelled", "final", "notFound", "left"} : Answer(c, a)
                        \/ Cancel(c)

Spec == Init /\ [][Next]_vars
=============================================================================
