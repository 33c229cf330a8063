----------------------------- MODULE MCReverts -----------------------------
EXTENDS Reverts, TLC
CONSTANTS f1, f2, t1, t2, u1, u2
Symmetry == {p @@ q : p \in Permutations(Undos), q \in Permutations(Fields)}
OldWrite == [act |-> "other", fields |-> {}, val |-> [f \in {f1, f2} |-> -1],
             before |-> [f \in {f1, f2} |-> -1], prior |-> -1, after |-> -1,
             result |-> "applied", reverts |-> 0,
             left |-> [on |-> FALSE, mod |-> 0, val |-> [f \in {f1, f2} |-> -1], born |-> 0]]

\* What nobody will read again is left out: of a line all but what a revert of it
\* uses, of a call what its next steps do not use.
Used(b) ==
    CASE b.result = "failed" \/ (b.act # "create" /\ b.before = Blank) -> <<b.result, b.reverts>>
      [] b.act = "delete" -> <<b.act, b.before, b.reverts>>
      [] OTHER -> <<b.act, b.fields, b.before, b.val, Baseline(b), b.after = Unknown /\ b.prior >= b.left.mod,
                    b.reverts, b.left.val, b.left.born>>
\* A journal that does not verify never does again, and none is reverted from; nor
\* does a call start when the bound on lines is reached (dead).  Then nobody reads
\* what the lines say, nor the record once no revert is under way (quiet).
UsedOf(c, dead, quiet) ==
    CASE c.pc = "idle" -> <<>>
      [] c.pc = "journal" -> <<c.pc, c.effect, c.reverts,
                               IF dead THEN <<c.line.result, c.line.reverts>> ELSE Used(c.line)>>
      [] c.pc = "write" -> IF quiet THEN <<c.pc>> ELSE
                           <<c.pc, c.act, c.fields, c.want, c.reverts, Unnoticed(c),
                             IF dead THEN <<>> ELSE <<c.before, c.prior>> >>
      [] c.pc = "read" -> <<c.pc, c.reverts, c.force \/ c.act = "create", Used(c.entry)>>
Lean ==
    LET over == fresh > MaxLines
        dead == over \/ (mishaps = MaxMishaps /\ ~Integrity)
        quiet == dead /\ \A c \in Undos : call[c].pc \in {"idle", "journal"}
    IN <<[i \in DOMAIN lines |-> [lines[i] EXCEPT !.body = IF dead THEN <<@.reverts>> ELSE Used(@)]],
         rotated, head, fresh, faulted, spoiled, IF quiet THEN <<>> ELSE rec,
         IF over THEN 0 ELSE clock,
         [c \in Calls |-> UsedOf(call[c], dead, quiet)], undone, blurred, mishaps>>
=============================================================================
