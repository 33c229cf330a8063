---------------------------- MODULE WriteJournal ----------------------------
(***************************************************************************)
(* The write journal of a profile (core/write-journal.ts): lines linked by *)
(* the hash of the line before, in files that rotate, with the hash of the *)
(* last line in a file of its own.  An append is best effort, and it is    *)
(* several file operations: any of them can fail, or the process end       *)
(* between them.                                                           *)
(*                                                                         *)
(* A line's hash is its id, and differs once the line was edited by hand.  *)
(* The journal has one writing process.                                    *)
(***************************************************************************)
EXTENDS Integers, SequencesExt

CONSTANTS OldBody,    \* what a line of an older version says
          FileLines,  \* lines that fit a file (SN_JOURNAL_MAX_BYTES)
          MaxLines    \* bound

ASSUME LinesAssumption == FileLines \in Nat /\ MaxLines \in Nat \ {0}

VARIABLES lines,   \* of the rotated files and the current one, oldest first
          rotated, \* how many of them are in rotated files
          head,    \* write-journal.head
          fresh,   \* ids are not reused
          faulted, \* history: an append stopped half way
          spoiled  \* history: somebody edited or removed lines of a sound chain

journal == <<lines, rotated, head, fresh, faulted, spoiled>>

NoHash == [id |-> 0, edited |-> FALSE]
Hash(l) == [id |-> l.id, edited |-> l.edited]

\* Version 1 lines carry no link and the journal they are in no head.
OldLine == [id |-> 1, v2 |-> FALSE, prev |-> NoHash, body |-> OldBody, edited |-> FALSE]

JournalInit ==
    /\ \/ lines = <<>> /\ fresh = 1
       \/ lines = <<OldLine>> /\ fresh = 2
    /\ rotated = 0
    /\ head = NoHash
    /\ faulted = FALSE
    /\ spoiled = FALSE

\* readHead: the head file or, without one, the last line of the current file.
ReadHead ==
    IF head # NoHash THEN head
    ELSE IF Len(lines) > rotated THEN Hash(Last(lines)) ELSE NoHash

\* appendWriteJournal: read the head, rotate if the line would not fit, append,
\* write the head.  Nothing is written, or the line without the head, when a
\* step fails or the process ends there.
AppendLine_PerFile(body, outcome) ==
    /\ fresh <= MaxLines
    /\ fresh' = fresh + 1
    /\ rotated' = IF Len(lines) - rotated >= FileLines THEN Len(lines) ELSE rotated
    /\ lines' = IF outcome = "lost" THEN lines ELSE
                lines \o <<[id |-> fresh, v2 |-> TRUE, prev |-> IF rotated' > rotated THEN NoHash ELSE ReadHead,
                            body |-> body, edited |-> FALSE]>>
    /\ head' = IF outcome = "done" THEN [id |-> fresh, edited |-> FALSE] ELSE head
    /\ faulted' = (faulted \/ outcome # "done")
    /\ UNCHANGED spoiled
AppendLine(body, outcome) ==
    /\ fresh <= MaxLines
    /\ fresh' = fresh + 1
    /\ rotated' = IF Len(lines) - rotated >= FileLines THEN Len(lines) ELSE rotated
    /\ lines' = IF outcome = "lost" THEN lines ELSE
                lines \o <<[id |-> fresh, v2 |-> TRUE, prev |-> ReadHead,
                            body |-> body, edited |-> FALSE]>>
    /\ head' = IF outcome = "done" THEN [id |-> fresh, edited |-> FALSE] ELSE head
    /\ faulted' = (faulted \/ outcome # "done")
    /\ UNCHANGED spoiled

-----------------------------------------------------------------------------
(* readWriteJournal *)

Linked(i) ==
    lines[i].v2 => lines[i].prev = IF i = 1 THEN NoHash ELSE Hash(lines[i - 1])

Integrity_LinksOnly == \A i \in DOMAIN lines : Linked(i)
Integrity ==
    /\ \A i \in DOMAIN lines : Linked(i)
    /\ lines # <<>> /\ head # NoHash => head = Hash(Last(lines))

-----------------------------------------------------------------------------
(* Somebody edits the files by hand *)

\* (Bound: a line is edited once.)
EditLine(i) ==
    /\ ~lines[i].edited
    /\ lines' = [lines EXCEPT ![i].edited = TRUE]
    /\ spoiled' = (spoiled \/ (Integrity /\ head # NoHash))
    /\ UNCHANGED <<rotated, head, fresh, faulted>>

RemoveLine(i) ==
    /\ lines' = RemoveAt(lines, i)
    /\ rotated' = IF i <= rotated THEN rotated - 1 ELSE rotated
    /\ spoiled' = (spoiled \/ (Integrity /\ head # NoHash))
    /\ UNCHANGED <<head, fresh, faulted>>

-----------------------------------------------------------------------------
(* Properties *)

\* As long as every append came through and nobody touched the files, the chain
\* verifies, across rotations and from a journal of the older version
\* (write-journal.ts:456-471): no false alarm, which would end all reverts.
JournalIntact == ~faulted /\ ~spoiled => Integrity

\* An edited or truncated journal is detectable (write-journal.ts:47-48), and
\* stays so whatever is appended later; unless no line at all is left of it.
TamperEvident == spoiled /\ lines # <<>> => ~Integrity

\* What revert.ts takes the verdict of the chain for: no false alarm, none missed.
VerdictTrue == JournalIntact /\ TamperEvident
=============================================================================
