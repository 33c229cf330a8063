------------------------------ MODULE FetchAll ------------------------------
(***************************************************************************)
(* A read of all matching rows of a table (api/table.ts, queryTable with   *)
(* fetchAll), page by page, while other users insert and delete rows.  The *)
(* instance applies row-level ACLs after it cut the page, so that a page   *)
(* may be short, or empty, with readable rows after it.                    *)
(*                                                                         *)
(* Rows are the numbers they are ordered by.  A read without ORDERBY pages *)
(* by keyset: from its first readable row on, each page asks for the rows  *)
(* past the last one read.  Any other read pages by offset.                *)
(***************************************************************************)
EXTENDS Naturals, FiniteSetsExt

CONSTANTS MaxRow,      \* bound: rows are 1..MaxRow
          Starts,      \* offsets a caller begins at
          PageSize,
          Cap,         \* SN_MAX_RECORDS
          ScanFactor,  \* FETCH_ALL_SCAN_FACTOR
          MaxChanges   \* bound

ASSUME FetchAssumption ==
    MaxRow \in Nat /\ Starts \subseteq Nat /\ {PageSize, Cap, ScanFactor} \subseteq Nat \ {0}

VARIABLES rows,    \* the matching rows on the instance (external)
          how,     \* what is fixed for a read, see Reads
          cursor,  \* the last row read, 0 before the first (keyset)
          at,      \* offset or, past a cursor, skip
          scanned, fetched, total, filtered,
          got,     \* the rows returned, of which a repeated one counts in fetched
          gap,     \* pendingGap
          prev,    \* prevHead, 0 for none
          result,  \* "reading", or how the read ended
          stayed,  \* history: readable rows that were there all the time
          slid,    \* history: the window slid under the read, see EditRow
          changes

read == <<cursor, at, scanned, fetched, total, filtered, got, gap, prev, result>>
fetchVars == <<rows, how, read, stayed, slid, changes>>

Rows == 1..MaxRow
Unknown == MaxRow + 1

\* keyset: no caller ORDERBY.  counted: X-Total-Count is sent.  hidden: rows the
\* ACLs withhold.  server: "deaf" ignores offset and cursor.  alike: the fields
\* read by offset do not tell rows apart.
Reads == {h \in [keyset : BOOLEAN, counted : BOOLEAN, hidden : SUBSET Rows, start : Starts,
                 server : {"sound", "deaf"}, alike : BOOLEAN] : h.keyset => ~h.alike}

\* How many rows of S come before r.
Rank(S, r) == Cardinality({x \in S : x < r})
Past(r) == {x \in rows : x > r}

\* The rows a read is to return or to count as withheld.
Wanted == {r \in rows : Rank(rows, r) >= how.start}

FetchTypeOK ==
    /\ {rows, stayed, got} \subseteq SUBSET Rows
    /\ how \in Reads
    /\ {cursor, prev} \subseteq 0..MaxRow
    /\ {at, scanned, fetched, filtered, gap, changes} \subseteq Nat
    /\ total \in 0..Unknown
    /\ result \in {"reading", "end", "stopped", "cap", "scan_limit", "failed"}
    /\ slid \in BOOLEAN

FetchInit ==
    /\ rows \in SUBSET Rows
    /\ how \in Reads
    /\ cursor = 0 /\ at = how.start
    /\ scanned = 0 /\ fetched = 0 /\ got = {} /\ total = Unknown
    /\ filtered = 0 /\ gap = 0 /\ prev = 0
    /\ result = "reading"
    /\ stayed = Wanted \ how.hidden
    /\ slid = FALSE
    /\ changes = 0

-----------------------------------------------------------------------------
(* The instance *)

Matching == IF how.server = "deaf" THEN rows ELSE Past(cursor)

\* The rows of a request's window of n, and those of them that it returns.
Window(n) ==
    LET skip == IF how.server = "deaf" THEN 0 ELSE at
    IN  {r \in Matching : skip <= Rank(Matching, r) /\ Rank(Matching, r) < skip + n}
Page(n) == Window(n) \ how.hidden

\* Somebody inserts or deletes a row between two pages.  The window slides if
\* that happens among the rows the next page skips; past a cursor, an insert
\* there only shows it a withheld row again.
EditRow(r) ==
    /\ result = "reading" /\ scanned > 0 /\ changes < MaxChanges
    /\ changes' = changes + 1
    /\ rows' = IF r \in rows THEN rows \ {r} ELSE rows \cup {r}
    /\ stayed' = stayed \ {r}
    /\ slid' = (slid \/ /\ r > cursor /\ Rank(Past(cursor), r) < at
                        /\ r \in rows \/ ~how.keyset)
    /\ UNCHANGED <<how, read>>

-----------------------------------------------------------------------------
(* queryTable *)

want == Min({PageSize, Cap - fetched})

\* The loop stops before the next page.
Break ==
    /\ result = "reading"
    /\ \/ want = 0 /\ result' = "cap"
       \/ want > 0 /\ scanned >= Cap * ScanFactor /\ result' = "scan_limit"
    /\ UNCHANGED <<rows, how, cursor, at, scanned, fetched, total, filtered, got, gap, prev,
                   stayed, slid, changes>>

\* The page starts with the row the one before started with, or with one that
\* was read: offset or cursor are ignored.
Repeated(page) ==
    /\ page # {}
    /\ \/ prev # 0 /\ (Min(page) = prev \/ how.alike)
       \/ cursor # 0 /\ Min(page) \in got

\* The position the next page starts at.
NextAt_ByRows(page, n) == IF how.keyset /\ page # {} THEN 0 ELSE at + Cardinality(page)
NextAt(page, n) == IF how.keyset /\ page # {} THEN 0 ELSE at + n

\* Rows withheld from a page, by its count; past a cursor only from one that
\* came back empty.
Withheld(page, n) ==
    LET count == Cardinality(Matching)
        expected == Min({n, count - Min({at, count})})
        returned == Cardinality(page)
    IN  IF returned < expected /\ (cursor = 0 \/ page = {}) THEN expected - returned ELSE 0

\* At the end of a keyset read with a known count the figure is settled.
Settled_PerPage(sum, n) == sum
Settled(sum, n) ==
    IF cursor # 0 /\ total # Unknown
    THEN LET due == how.start + n IN total - Min({total, due})
    ELSE sum

\* The server counts, or an empty page shows, that nothing is left.
Ends(page, n) == IF how.counted THEN at + n >= Cardinality(Matching) ELSE page = {}

\* One page is asked for, and what came back is taken in.
Turn ==
    /\ result = "reading" /\ want > 0 /\ scanned < Cap * ScanFactor
    /\ LET n == want
           page == Page(n)
           ends == Ends(page, n)
           sum == filtered + IF how.counted THEN Withheld(page, n)
                             ELSE IF ends THEN 0 ELSE gap
       IN
       /\ scanned' = scanned + n
       /\ total' = IF cursor = 0 /\ total = Unknown /\ how.counted
                   THEN Cardinality(Matching) ELSE total
       /\ IF Repeated(page)
          THEN /\ result' = "stopped"
               /\ UNCHANGED <<cursor, at, fetched, filtered, got, gap, prev>>
          ELSE /\ got' = got \cup page
               /\ fetched' = fetched + Cardinality(page)
               /\ prev' = IF page = {} THEN 0 ELSE Min(page)
               /\ result' = IF ends THEN "end" ELSE "reading"
               /\ filtered' = IF ends THEN Settled(sum, fetched') ELSE sum
               /\ gap' = IF how.counted \/ ends \/ how.keyset THEN 0 ELSE n - Cardinality(page)
               /\ cursor' = IF how.keyset /\ page # {} THEN Max(page) ELSE cursor
               /\ at' = NextAt(page, n)
    /\ UNCHANGED <<rows, how, stayed, slid, changes>>

\* A request fails, and the read with it.
FetchFails ==
    /\ result = "reading" /\ result' = "failed"
    /\ UNCHANGED <<rows, how, cursor, at, scanned, fetched, total, filtered, got, gap, prev,
                   stayed, slid, changes>>

-----------------------------------------------------------------------------
FetchNext == Turn \/ Break \/ FetchFails \/ \E r \in Rows : EditRow(r)

FetchSpec == FetchInit /\ [][FetchNext]_fetchVars

-----------------------------------------------------------------------------
(* Properties *)

\* What a read returns without saying that it is partial.
Whole == result \in {"end", "stopped"}

\* A row that can be read and stays is neither repeated nor skipped, whatever is
\* inserted and deleted meanwhile (table.ts:190-197), in a read by keyset; in one
\* by offset as long as the window did not slide.  A keyset read skips rows too
\* when a row of an entirely withheld window was deleted, without a count it
\* ends at such a window, and an offset read may end where rows look alike.
EachRowOnce ==
    /\ (how.keyset /\ how.server = "sound") \/ (~slid /\ how.server = "sound") \/ changes = 0
          => Cardinality(got) = fetched
    /\ Whole /\ ~slid /\ how.server = "sound" /\ ~how.alike /\ (how.counted \/ how.hidden = {})
          => stayed \subseteq got

\* What a read says of itself is true of a table that was left alone: the number of
\* rows withheld is exact at the end with a count, and no more than the truth
\* without one; a read that says it is partial has left rows (table.ts:346-365).
SaysWhatItLeft ==
    changes = 0 /\ how.server = "sound" /\ ~how.alike =>
        LET left == Wanted \ got IN
        /\ result = "end" /\ how.counted => filtered = Cardinality(left)
        /\ result = "end" => filtered <= Cardinality(left)
        /\ result \in {"cap", "scan_limit"} /\ how.counted => left # {}
=============================================================================
