------------------------------ MODULE Reverts ------------------------------
(***************************************************************************)
(* Journaled writes of one record and their reverts (core/write-journal.ts *)
(* journaledWrite, api/revert.ts), while other users write it too, answers *)
(* get lost, journal lines get lost and the process may end at any point.  *)
(*                                                                         *)
(* A call reads, and much later writes, and then journals: nothing holds   *)
(* the record in between.  Every new value of a field is a new number, but *)
(* a tool may also write the value that is there.                          *)
(***************************************************************************)
EXTENDS WriteJournal

CONSTANTS Fields,  \* of the record
          Tools,   \* tool calls that create, update or delete the record
          Undos,   \* revert calls
          MaxVal,  \* bound: writes of tools and others, creations
          MaxMishaps \* bound

VARIABLES rec,     \* the record on the instance (external), with sys_mod_count; born is
                   \* history: it tells a record from the one re-created under its sys_id
          clock,   \* the next new value (bound: every write of a tool or another takes one)
          call,    \* what the calls do
          undone,  \* history: how often a line's write was undone
          blurred, \* history: lines whose reverts overlapped or left no line for good
          mishaps  \* how often something failed, ended or was meddled with

vars == <<lines, rotated, head, fresh, faulted, spoiled,
          rec, clock, call, undone, blurred, mishaps>>

Calls == Tools \cup Undos
Ids == 1..MaxLines
Acts == {"create", "update", "delete"}
Unknown == -1   \* a value that could not be read, an answer without mod count

Blank == [f \in Fields |-> Unknown]
Records == [on : BOOLEAN, mod : Nat, val : [Fields -> Int], born : Nat]

\* What a line says: the write, the fields it wrote, the state and the mod count
\* before it, the mod count after it, the line it reverts (0: none).  left is
\* history: the record as an applied write left it.
Bodies == [act : Acts \cup {"other"}, fields : SUBSET Fields,
           val : [Fields -> Int], before : [Fields -> Int],
           prior : {Unknown} \cup Nat, after : {Unknown} \cup Nat,
           result : {"applied", "failed"}, reverts : 0..MaxLines, left : Records]
Nothing == [on |-> FALSE, mod |-> 0, val |-> Blank, born |-> 0]
NoBody == [act |-> "other", fields |-> {}, val |-> Blank, before |-> Blank,
           prior |-> Unknown, after |-> Unknown,
           result |-> "applied", reverts |-> 0, left |-> Nothing]

\* checked and byCount: what the drift check went by.
Idle == [pc |-> "idle", act |-> "other", fields |-> {}, want |-> Blank, before |-> Blank,
         prior |-> Unknown, reverts |-> 0, force |-> FALSE, entry |-> NoBody,
         seen |-> Nothing, byCount |-> FALSE, checked |-> {},
         effect |-> FALSE, line |-> NoBody]

Init ==
    /\ JournalInit
    /\ rec \in [on : BOOLEAN, mod : {0}, val : {[f \in Fields |-> 0]}, born : {0}]
    /\ clock = 1
    /\ call = [c \in Calls |-> Idle]
    /\ undone = [i \in Ids |-> 0]
    /\ blurred = {}
    /\ mishaps = 0

\* Bound: no call starts whose line would be one too many.
Room == fresh + Cardinality({c \in Calls : call[c].pc # "idle"}) <= MaxLines

\* Counts a step that is a mishap if bad holds.
Mishap(bad) ==
    /\ mishaps' = IF bad THEN mishaps + 1 ELSE mishaps
    /\ mishaps' <= MaxMishaps

\* Version 1 lines revert nothing, and have no id to be reverted by
\* (write-journal.ts:47-58, revert.ts:333).
ASSUME OldBodyAssumption ==
    OldBody \in Bodies /\ OldBody.act = "other" /\ OldBody.reverts = 0
ASSUME FieldsAssumption == Fields # {}
ASSUME CallsAssumption == Tools \cap Undos = {}

-----------------------------------------------------------------------------
(* The record on the instance *)

\* The instance counts an update only if it changes something.
Written(act, fields, want) ==
    CASE act = "create" -> [on |-> TRUE, mod |-> 0, born |-> clock,
                            val |-> [f \in Fields |-> IF f \in fields THEN want[f] ELSE 0]]
      [] act = "update" -> [rec EXCEPT
                              !.val = [f \in Fields |-> IF f \in fields THEN want[f] ELSE @[f]],
                              !.mod = IF \E f \in fields : want[f] # rec.val[f] THEN @ + 1 ELSE @]
      [] act = "delete" -> [rec EXCEPT !.on = FALSE]

\* Another user updates or deletes it.
Foreign ==
    /\ rec.on /\ clock <= MaxVal
    /\ \/ \E f \in Fields : rec' = Written("update", {f}, [g \in Fields |-> clock])
       \/ rec' = Written("delete", {}, Blank)
    /\ clock' = clock + 1
    /\ UNCHANGED <<journal, call, undone, blurred, mishaps>>

-----------------------------------------------------------------------------
(* Tool calls *)

\* captureBefore of an update or delete, best effort, with or without the mod
\* count (table.ts strips it, cmdb.ts and change.ts do not).  The fields
\* written get a new value or the one they have.  A create makes
\* the record once: later creates have a sys_id of their own.
Prepare(c, act) ==
    /\ call[c].pc = "idle" /\ Room
    /\ clock <= MaxVal /\ clock' = clock + 1
    /\ act = "create" => rec.born = 0 /\ ~rec.on
    /\ \E fields \in SUBSET Fields, captured \in BOOLEAN, counted \in BOOLEAN :
         \E new \in {{}, fields} :
           /\ fields = {} <=> act = "delete"
           /\ captured => rec.on /\ act # "create"
           /\ counted => captured /\ act = "update"
           /\ call' = [call EXCEPT ![c] = [Idle EXCEPT !.pc = "write", !.act = act,
                         !.fields = fields,
                         !.want = [f \in Fields |-> IF f \in new THEN clock ELSE
                                                    IF f \in fields THEN rec.val[f] ELSE Unknown],
                         !.before = IF captured THEN rec.val ELSE Blank,
                         !.prior = IF counted THEN rec.mod ELSE Unknown]]
    /\ UNCHANGED <<journal, rec, undone, blurred, mishaps>>

-----------------------------------------------------------------------------
(* planRevert *)

RevertedIds_CurrentFile == {lines[i].body.reverts :
    i \in {j \in DOMAIN lines : j > rotated /\ lines[j].body.result = "applied"}}
RevertedIds == {lines[i].body.reverts : i \in {j \in DOMAIN lines : lines[j].body.result = "applied"}}

\* buildRevertSpec
Revertible(l) ==
    /\ l.body.result = "applied"
    /\ l.body.act \in Acts
    /\ l.id \notin RevertedIds
    /\ l.body.act # "create" => l.body.before # Blank

InverseOf(act) ==
    CASE act = "create" -> "delete" [] act = "delete" -> "create" [] OTHER -> act

\* Read the journal; the read of the record follows an await.
Plan(c, i, force) ==
    /\ call[c].pc = "idle" /\ Room
    /\ Integrity
    /\ Revertible(lines[i])
    /\ LET e == lines[i].body IN
         call' = [call EXCEPT ![c] = [Idle EXCEPT !.pc = "read", !.act = InverseOf(e.act),
                      !.fields = IF e.act = "update" THEN e.fields ELSE
                                 IF e.act = "delete" THEN Fields ELSE {},
                      !.want = e.before, !.reverts = lines[i].id, !.force = force, !.entry = e]]
    /\ blurred' = IF \E d \in Undos : call[d].reverts = lines[i].id
                  THEN blurred \cup {lines[i].id} ELSE blurred
    /\ UNCHANGED <<journal, rec, clock, undone, mishaps>>

\* baselineModCount: the count after the write or, for an update that told
\* none, an estimate: one more than before it.
Baseline_EstimateFirst(e) ==
    IF e.act = "update" /\ e.prior # Unknown THEN e.prior + 1 ELSE e.after
Baseline(e) ==
    IF e.after # Unknown THEN e.after
    ELSE IF e.act = "update" /\ e.prior # Unknown THEN e.prior + 1 ELSE Unknown

\* checkDrift, by mod count or by those of the written fields that it can compare.
Clean_Exists(e, byCount, checked) == rec.on
Clean_AnyField(e, byCount, checked) ==
    IF byCount THEN Baseline(e) = rec.mod
    ELSE \E f \in checked : rec.val[f] = e.val[f]
Clean(e, byCount, checked) ==
    IF byCount THEN Baseline(e) = rec.mod
    ELSE checked # {} /\ \A f \in checked : rec.val[f] = e.val[f]

\* A deleted record must not exist again; any other must exist and, unless
\* forced, be as the write left it.  Otherwise the call is refused.  The read
\* may not tell the mod count, some field may be redacted in the line or missing
\* in the read, and then the state before the revert may be no use either.
ReadForRevert(c) ==
    LET e == call[c].entry
        free == call[c].act = "create" \/ call[c].force
    IN
    /\ call[c].pc = "read"
    /\ \E byCount, captured \in BOOLEAN :
         /\ byCount => ~free /\ Baseline(e) # Unknown
         /\ captured => rec.on
         /\ \E checked \in IF free THEN {{}} ELSE IF byCount THEN {Fields} ELSE SUBSET e.fields :
              LET ok == IF call[c].act = "create" THEN ~rec.on
                        ELSE rec.on /\ (free \/ Clean(e, byCount, checked))
              IN call' = [call EXCEPT ![c] = IF ~ok THEN Idle ELSE
                            [@ EXCEPT !.pc = "write", !.seen = rec,
                                      !.byCount = byCount, !.checked = checked,
                                      !.before = IF captured THEN rec.val ELSE Blank]]
    /\ UNCHANGED <<journal, rec, clock, undone, blurred, mishaps>>

-----------------------------------------------------------------------------
(* journaledWrite, of tools and reverts *)

\* Send the write.  It takes effect or not; the answer says so or is lost.
Send(c, effect, answered) ==
    /\ call[c].pc = "write"
    /\ LET possible == IF call[c].act = "create" THEN ~rec.on ELSE rec.on IN
         /\ effect => possible
         /\ answered => effect
         /\ Mishap(possible /\ ~answered)
    /\ rec' = IF effect THEN Written(call[c].act, call[c].fields, call[c].want) ELSE rec
    /\ clock' = IF effect /\ call[c].act = "create" THEN clock + 1 ELSE clock
    /\ clock' <= MaxVal + 1
    /\ \E after \in {Unknown} \cup (IF answered /\ call[c].act # "delete" THEN {rec'.mod} ELSE {}) :
         call' = [call EXCEPT ![c].pc = "journal", ![c].effect = effect,
                    ![c].line = [act |-> call[c].act, fields |-> call[c].fields,
                                 val |-> call[c].want, before |-> call[c].before,
                                 prior |-> call[c].prior, after |-> after,
                                 result |-> IF answered THEN "applied" ELSE "failed",
                                 reverts |-> call[c].reverts, left |-> IF answered THEN rec' ELSE Nothing]]
    /\ undone' = IF effect /\ call[c].reverts # 0
                 THEN [undone EXCEPT ![call[c].reverts] = @ + 1] ELSE undone
    /\ UNCHANGED <<journal, blurred>>

\* Journal the outcome.
JournalIt(c, outcome) ==
    /\ call[c].pc = "journal"
    /\ AppendLine(call[c].line, outcome)
    /\ Mishap(outcome # "done")
    /\ call' = [call EXCEPT ![c] = Idle]
    /\ blurred' = IF call[c].effect /\ (outcome = "lost" \/ call[c].line.result = "failed")
                  THEN blurred \cup {call[c].reverts} ELSE blurred
    /\ UNCHANGED <<rec, clock, undone>>

\* The process ends and is started again.
Crash ==
    /\ Mishap(TRUE)
    /\ call' = [c \in Calls |-> Idle]
    /\ blurred' = blurred \cup {call[c].reverts : c \in {d \in Undos : call[d].pc = "journal"}}
    /\ UNCHANGED <<journal, rec, clock, undone>>

\* Somebody meddles with the files.  A line taken out of a journal that did not
\* verify, or had no head, is gone without a trace.
Meddle ==
    /\ Mishap(TRUE)
    /\ \E i \in DOMAIN lines :
           \/ EditLine(i) /\ UNCHANGED blurred
           \/ /\ RemoveLine(i)
              /\ blurred' = IF spoiled' THEN blurred ELSE blurred \cup {lines[i].body.reverts}
    /\ UNCHANGED <<rec, clock, call, undone>>

-----------------------------------------------------------------------------
Next ==
    \/ Foreign \/ Crash \/ Meddle
    \/ \E c \in Tools, act \in Acts : Prepare(c, act)
    \/ \E c \in Undos : \/ ReadForRevert(c)
                       \/ \E i \in DOMAIN lines, force \in BOOLEAN : Plan(c, i, force)
    \/ \E c \in Calls : \/ \E effect, answered \in BOOLEAN : Send(c, effect, answered)
                       \/ \E outcome \in {"done", "cut", "lost"} : JournalIt(c, outcome)

Spec == Init /\ [][Next]_vars

-----------------------------------------------------------------------------
(* Properties *)

\* The baseline is what the count of this record was when the write was done:
\* not that of a record re-created since, which counts anew, nor an estimate that
\* is too high, because the update changed nothing or met a re-created record.
CountTells(e) ==
    /\ rec.born = e.left.born
    /\ e.after = Unknown => e.prior < e.left.mod

\* The call is about to erase, unforced, what another wrote although the drift
\* check went by it, or without any check at all.
Unnoticed(c) ==
    /\ c.act # "create" /\ ~c.force
    /\ rec = c.seen
    /\ c.byCount => CountTells(c.entry)
    /\ c.checked = {} \/ \E f \in c.checked : rec.val[f] # c.entry.left.val[f]

\* A revert that was not forced has checked something, and what it checked is
\* as the reverted write left it: every field of the record if it went by a
\* count that tells, else the written fields it could compare (the others, and a
\* record a create made, may hold another's change, and go unnoticed); unless the
\* record changed between the drift check and the write (revert.ts:282-315).
NoSilentLoss ==
    [][\A c \in Undos : call[c].pc = "write" /\ call'[c].pc = "journal" /\ call'[c].effect
                          => ~Unnoticed(call[c])]_vars

\* No write is undone twice, forced or not: unless two reverts of it overlapped,
\* or the line of the first was lost, says failed (revert.ts:181-186, 262-268) or
\* was removed by hand from a journal that did not verify anyway.
RevertedOnce == \A i \in Ids : undone[i] > 1 => i \in blurred
=============================================================================
