----------------------------- MODULE UpdateSets -----------------------------
(***************************************************************************)
(* Writes bound to an update set (api/updatesets.ts, applyInUpdateSet):    *)
(* the user's preferences on the instance are pointed at the set, the      *)
(* write is sent, and the preferences are put back, under a lock of the    *)
(* process for that user.  The lock is a chain of promises: each caller    *)
(* awaits the one that was last when it came.                              *)
(*                                                                         *)
(* Any request can fail, with or without having had its effect; the user   *)
(* may choose another set in the browser; the process may end.             *)
(***************************************************************************)
EXTENDS Naturals

CONSTANTS Calls,     \* bound writes of one user
          SetOf,     \* the set a call is bound to
          Scoped,    \* calls whose set has an application: two preferences
          OwnSets,   \* sets the user chooses in the browser
          MaxChoices, \* bound: how often
          NoRow, Nobody

ASSUME UpdateSetsAssumption ==
    /\ Scoped \subseteq Calls /\ Nobody \notin Calls /\ MaxChoices \in Nat
    /\ NoRow \notin {SetOf[c] : c \in Calls} \cup OwnSets

VARIABLES pref,    \* the preferences on the instance (external), NoRow if none
          tail,    \* locks: the call that came last, if it is not done
          pc, after, todo, undo, old,  \* the calls: the one they wait for, the
                   \* preferences to switch and to restore, their old values
          found,   \* history: the preferences when a call entered
          blame,   \* history: since then, what the code does not protect from
          choices  \* of the user so far

vars == <<pref, tail, pc, after, todo, undo, old, found, blame, choices>>

Prefs == {"user", "scope"}
Values == {SetOf[c] : c \in Calls} \cup OwnSets \cup {NoRow}
Switching == {"read", "write"}
Inside == Switching \cup {"run", "restore", "leave"}

TypeOK ==
    /\ pref \in [Prefs -> Values]
    /\ tail \in Calls \cup {Nobody}
    /\ pc \in [Calls -> {"idle", "wait", "done"} \cup Inside]
    /\ after \in [Calls -> Calls \cup {Nobody}]
    /\ todo \in [Calls -> SUBSET Prefs] /\ undo \in [Calls -> SUBSET Prefs]
    /\ old \in [Calls -> [Prefs -> Values]] /\ found \in [Calls -> [Prefs -> Values]]
    /\ blame \in [Calls -> BOOLEAN]
    /\ choices \in 0..MaxChoices

Init ==
    /\ pref \in [Prefs -> OwnSets \cup {NoRow}]
    /\ tail = Nobody
    /\ pc = [c \in Calls |-> "idle"] /\ after = [c \in Calls |-> Nobody]
    /\ todo = [c \in Calls |-> {}] /\ undo = [c \in Calls |-> {}]
    /\ old = [c \in Calls |-> pref] /\ found = [c \in Calls |-> pref]
    /\ blame = [c \in Calls |-> FALSE]
    /\ choices = 0

-----------------------------------------------------------------------------
(* withLock *)

Come(c) ==
    /\ pc[c] = "idle"
    /\ pc' = [pc EXCEPT ![c] = "wait"]
    /\ after' = [after EXCEPT ![c] = tail]
    /\ tail' = c
    /\ UNCHANGED <<pref, todo, undo, old, found, blame, choices>>

\* The promise of a call resolves when it and all before it are done.
Enter(c) ==
    /\ pc[c] = "wait"
    /\ after[c] \in {Nobody} \cup {d \in Calls : pc[d] = "done"}
    /\ pc' = [pc EXCEPT ![c] = "read"]
    /\ found' = [found EXCEPT ![c] = pref]
    /\ todo' = [todo EXCEPT ![c] = IF c \in Scoped THEN Prefs ELSE {"user"}]
    /\ UNCHANGED <<pref, tail, after, undo, old, blame, choices>>

Leave_ForgetsQueue(c) ==
    /\ pc[c] = "leave"
    /\ pc' = [pc EXCEPT ![c] = "done"]
    /\ tail' = Nobody
    /\ UNCHANGED <<pref, after, todo, undo, old, found, blame, choices>>
Leave_OnlyClean(c) ==
    /\ pc[c] = "leave" /\ ~blame[c]
    /\ pc' = [pc EXCEPT ![c] = "done"]
    /\ tail' = IF tail = c THEN Nobody ELSE tail
    /\ UNCHANGED <<pref, after, todo, undo, old, found, blame, choices>>
Leave(c) ==
    /\ pc[c] = "leave"
    /\ pc' = [pc EXCEPT ![c] = "done"]
    /\ tail' = IF tail = c THEN Nobody ELSE tail
    /\ UNCHANGED <<pref, after, todo, undo, old, found, blame, choices>>

-----------------------------------------------------------------------------
(* setPref, run, restorePref *)

\* The preferences are switched in this order and restored in the reverse one.
First(c) == IF "user" \in todo[c] THEN "user" ELSE "scope"
Last(c)  == IF "scope" \in undo[c] THEN "scope" ELSE "user"

\* The next preference is switched: its old value is stacked.
Switched(c) ==
    /\ pc' = [pc EXCEPT ![c] = IF todo[c] = {First(c)} THEN "run" ELSE "read"]
    /\ todo' = [todo EXCEPT ![c] = todo[c] \ {First(c)}]
    /\ undo' = [undo EXCEPT ![c] = undo[c] \cup {First(c)}]

\* The old value is kept whether or not it has to be changed.
Read(c) ==
    /\ pc[c] = "read"
    /\ old' = [old EXCEPT ![c][First(c)] = pref[First(c)]]
    /\ \/ pref[First(c)] = SetOf[c] /\ Switched(c)
       \/ /\ pref[First(c)] # SetOf[c]
          /\ pc' = [pc EXCEPT ![c] = "write"]
          /\ UNCHANGED <<todo, undo>>
    /\ UNCHANGED <<pref, tail, after, found, blame, choices>>

\* PATCH of the row, or POST of a new one.
Write(c) ==
    /\ pc[c] = "write"
    /\ pref' = [pref EXCEPT ![First(c)] = SetOf[c]]
    /\ Switched(c)
    /\ UNCHANGED <<tail, after, old, found, blame, choices>>

\* The read fails, or the write with or without its effect: nothing of this
\* preference is on the stack, what is there is restored.
SwitchFails_Leaves(c) ==
    /\ pc[c] \in Switching
    /\ pc' = [pc EXCEPT ![c] = "leave"]
    /\ UNCHANGED <<pref, tail, after, todo, undo, old, found, blame, choices>>
SwitchFails(c) ==
    /\ pc[c] \in Switching
    /\ pc' = [pc EXCEPT ![c] = IF undo[c] = {} THEN "leave" ELSE "restore"]
    /\ \/ UNCHANGED <<pref, blame>>
       \/ /\ pc[c] = "write"
          /\ pref' = [pref EXCEPT ![First(c)] = SetOf[c]]
          /\ blame' = [blame EXCEPT ![c] = TRUE]
    /\ UNCHANGED <<tail, after, todo, undo, old, found, choices>>

\* The write itself, journaled with the set; it may fail.
Run(c) ==
    /\ pc[c] = "run"
    /\ pc' = [pc EXCEPT ![c] = "restore"]
    /\ UNCHANGED <<pref, tail, after, todo, undo, old, found, blame, choices>>

\* Last switched, first restored: PATCH the old value, DELETE a row that was
\* created.  A failure is reported as a warning and the rest goes on; one that
\* took effect all the same has restored the preference, so it is the first case
\* (the warning is no part of the state), and only one without effect is blamed.
Restore(c) ==
    /\ pc[c] = "restore"
    /\ undo' = [undo EXCEPT ![c] = undo[c] \ {Last(c)}]
    /\ pc' = [pc EXCEPT ![c] = IF undo[c] = {Last(c)} THEN "leave" ELSE "restore"]
    /\ \/ /\ pref' = [pref EXCEPT ![Last(c)] = old[c][Last(c)]]
          /\ UNCHANGED blame
       \/ /\ blame' = [blame EXCEPT ![c] = TRUE]
          /\ UNCHANGED pref
    /\ UNCHANGED <<tail, after, todo, old, found, choices>>

-----------------------------------------------------------------------------
\* The user chooses an update set in the browser.
Choose(p, v) ==
    /\ choices < MaxChoices
    /\ choices' = choices + 1
    /\ pref' = [pref EXCEPT ![p] = v]
    /\ blame' = [c \in Calls |-> blame[c] \/ pc[c] \in Inside]
    /\ UNCHANGED <<tail, pc, after, todo, undo, old, found>>

\* The process ends; what it had switched stays switched.  Calls that had not
\* come yet are made of the next process.
Crash ==
    /\ pc' = [c \in Calls |-> IF pc[c] = "idle" THEN "idle" ELSE "done"]
    /\ todo' = [c \in Calls |-> {}] /\ undo' = [c \in Calls |-> {}]
    /\ tail' = Nobody
    /\ UNCHANGED <<pref, after, old, found, blame, choices>>

Step(c) ==
    \/ Enter(c) \/ Leave(c) \/ Read(c) \/ Write(c) \/ SwitchFails(c)
    \/ Run(c) \/ Restore(c)

Next ==
    \/ \E c \in Calls : Come(c) \/ Step(c)
    \/ \E p \in Prefs, v \in OwnSets : Choose(p, v)
    \/ Crash

Spec == Init /\ [][Next]_vars

\* Requests end, with an answer or at their deadline, and continuations run.
FairSpec == Spec /\ \A c \in Calls : WF_vars(Step(c))

-----------------------------------------------------------------------------
(* Properties *)

\* A write is sent only while the preferences point at its own set, whatever
\* other bound writes of the process do; the user's own choice excepted
\* (updatesets.ts:726-749).
LandsInItsSet ==
    \A c \in Calls : pc[c] = "run" /\ ~blame[c] =>
        /\ pref["user"] = SetOf[c]
        /\ c \in Scoped => pref["scope"] = SetOf[c]

\* A call leaves the preferences as it found them, whichever of its requests
\* failed: unless a switch took effect and its answer was lost, a restore failed
\* (which is reported), or the user chose meanwhile (updatesets.ts:890-920).
LeavesAsFound ==
    \A c \in Calls : pc[c] = "leave" /\ ~blame[c] => pref = found[c]

\* Every bound write gets its turn and ends, after any failure of those before it.
TurnsCome == \A c \in Calls : pc[c] = "wait" ~> pc[c] = "done"
=============================================================================
