-------------------------- MODULE RecordWatchProofs --------------------------
(***************************************************************************)
(* Proofs about reads over time: all rows of a table page by page          *)
(* (FetchAll), one record again and again (RecordWatch), and what is kept  *)
(* of near-static reads (SchemaCache).                                     *)
(*                                                                         *)
(* Pages: for any table, offset, page size, cap and scan factor, and any   *)
(* number of rows inserted and deleted, no row is returned twice and none  *)
(* that stays is skipped.  Rows are ranked among those that match, and a   *)
(* window is an interval of ranks.                                         *)
(*                                                                         *)
(* Watches: the caps, for any number of sessions, records and overlapping  *)
(* subscribes.  They count the entries of the tables, so the tables have   *)
(* to show every live watch: they do until the end of a stopped watch      *)
(* removed the entry of another (crossed).                                 *)
(*                                                                         *)
(* The cache: who comes after an entry in the Map was used since it was,   *)
(* so an entry that gives way had all other places used after it.          *)
(***************************************************************************)
EXTENDS RecordWatch, FetchAll, SchemaCache, FiniteSetTheorems, WellFoundedInduction, TLAPS

-----------------------------------------------------------------------------
(* Pages. *)

Sound == how.server = "sound"

\* What is fixed before the first page, and how cursor and head relate to the
\* rows that were returned.
Shape ==
    /\ scanned = 0 => fetched = 0 /\ cursor = 0 /\ total = Unknown /\ changes = 0
    /\ cursor # 0 => how.keyset /\ cursor \in got
    /\ prev # 0 => prev \in got
    /\ how.keyset /\ cursor = 0 => got = {}
    /\ fetched = 0 => got = {}
    /\ changes = 0 => ~slid
    /\ stayed \subseteq rows \ how.hidden
    /\ how.keyset => ~how.alike

\* What was returned lies before the next window.
Behind ==
    Sound => /\ how.keyset => \A x \in got : x <= cursor
             /\ ~how.keyset /\ ~slid => \A x \in got : x \in rows /\ Rank(rows, x) < at

\* No row was returned twice.
NoneTwice ==
    (Sound /\ (how.keyset \/ ~slid)) \/ changes = 0 => Cardinality(got) = fetched

\* A server that ignores the position answers with rows that were read.
Stuck ==
    ~Sound /\ changes = 0 /\ result = "reading" /\ got # {} =>
        Page(want) = {} \/ (prev # 0 /\ prev = Min(Page(want)))

\* A row that stays was returned, or is in the next window or past it.
NoneSkipped ==
    result = "reading" /\ Sound /\ ~slid /\ ~how.alike =>
        \A x \in stayed \ got : x > cursor /\ at <= Rank(Past(cursor), x)

\* The rows that were in the windows of a read that has no cursor.
Passed == {x \in rows : how.start <= Rank(rows, x) /\ Rank(rows, x) < at}

\* The figures of a read of a table that is left alone.
Figures ==
    changes = 0 /\ Sound =>
        /\ got \subseteq Wanted \ how.hidden
        /\ total = IF how.counted /\ scanned > 0 THEN Cardinality(rows) ELSE Unknown
        /\ result = "reading" =>
             /\ cursor = 0 => /\ how.start <= at /\ got = Passed \ how.hidden
                              /\ how.counted => filtered = Cardinality(Passed \cap how.hidden)
                              /\ ~how.counted => filtered <= Cardinality(Passed \cap how.hidden)
                              /\ ~how.counted /\ at <= Cardinality(rows)
                                   => filtered + gap <= Cardinality(Passed \cap how.hidden)
             /\ ~how.counted /\ how.keyset => filtered = 0 /\ gap = 0
             /\ how.counted /\ scanned > 0 => at < Cardinality(Matching)

FetchIInv == /\ FetchTypeOK /\ Shape /\ Behind /\ NoneTwice /\ Stuck /\ NoneSkipped /\ Figures
             /\ EachRowOnce /\ SaysWhatItLeft

-----------------------------------------------------------------------------
(* Ranks of rows. *)

\* A set of numbers has a least one: the library's induction, as a fact about
\* sets.
LEMMA LeastNumber ==
  ASSUME NEW T \in SUBSET Nat, T # {}
  PROVE  \E x \in T : \A y \in T : x <= y
<1> DEFINE less == OpToRel(<, Nat)
<1>1. IsWellFoundedOn(less, Nat)
  BY NatLessThanWellFounded
<1>2. PICK x \in T : \A y \in T : ~(<<y, x>> \in less)
  <2> HIDE DEF less
  <2>1. \E x \in T : \A y \in T : ~(<<y, x>> \in less)
    BY <1>1, WFMin
  <2> QED
    BY <2>1
<1>3. ASSUME NEW y \in T PROVE x <= y
  <2>1. <<y, x>> \notin {ss \in Nat \X Nat : ss[1] < ss[2]}
    BY <1>2 DEF OpToRel
  <2>2. <<y, x>> \in Nat \X Nat /\ <<y, x>>[1] = y /\ <<y, x>>[2] = x
    OBVIOUS
  <2>3. ~(y < x)
    BY <2>1, <2>2
  <2> QED
    BY <2>3
<1> QED
  BY <1>3

\* The first and the last row of a page.
LEMMA FirstRow ==
  ASSUME NEW S \in SUBSET Rows, S # {}
  PROVE  Min(S) \in S /\ \A y \in S : Min(S) <= y
<1>1. S \in SUBSET Nat /\ S \in SUBSET Int
  BY FetchAssumption DEF Rows
<1>2. \E x \in S : \A y \in S : x <= y
  BY <1>1, LeastNumber
<1> QED
  BY <1>2 DEF Min

LEMMA LastRow ==
  ASSUME NEW S \in SUBSET Rows, S # {}
  PROVE  Max(S) \in S /\ \A y \in S : y <= Max(S)
<1> DEFINE T == {MaxRow - y : y \in S}
<1>0. MaxRow \in Nat
  BY FetchAssumption
<1>1. \A y \in S : y \in Nat /\ y <= MaxRow /\ MaxRow - y \in Nat
  BY <1>0 DEF Rows
<1>2. T \in SUBSET Nat /\ T # {}
  BY <1>1
<1>3. PICK x \in T : \A y \in T : x <= y
  <2> HIDE DEF T
  <2> QED
    BY <1>2, LeastNumber
<1>4. PICK m \in S : x = MaxRow - m
  BY <1>3
<1>5. ASSUME NEW y \in S PROVE m >= y
  <2>1. MaxRow - m <= MaxRow - y
    BY <1>3, <1>4
  <2> QED
    BY <1>0, <1>1, <2>1
<1>6. \E z \in S : \A y \in S : z >= y
  BY <1>5
<1>7. Max(S) \in S /\ \A y \in S : Max(S) >= y
  BY <1>6 DEF Max
<1> QED
  BY <1>1, <1>7

LEMMA RowsAreFinite ==
  ASSUME NEW S \in SUBSET Rows
  PROVE  /\ IsFiniteSet(S) /\ Cardinality(S) \in Nat /\ Cardinality(S) <= MaxRow
         /\ \A x \in S : x \in Nat /\ 0 < x /\ x <= MaxRow
<1>0. MaxRow \in Nat
  BY FetchAssumption
<1>1. IsFiniteSet(Rows) /\ Cardinality(Rows) = MaxRow
  <2>1. Cardinality(1..MaxRow) = IF 1 > MaxRow THEN 0 ELSE MaxRow - 1 + 1
    BY <1>0, FS_Interval
  <2> QED
    BY <1>0, <2>1, FS_Interval DEF Rows
<1>2. IsFiniteSet(S) /\ Cardinality(S) <= MaxRow /\ Cardinality(S) \in Nat
  BY <1>1, FS_Subset, FS_CardinalityType
<1> QED
  BY <1>0, <1>2 DEF Rows

\* A part of a set of rows.
LEMMA PartOfRows ==
  ASSUME NEW S \in SUBSET Rows, NEW T \in SUBSET S
  PROVE  /\ T \in SUBSET Rows
         /\ Cardinality(T) <= Cardinality(S)
         /\ Cardinality(T) = Cardinality(S) => T = S
         /\ Cardinality(S \ T) = Cardinality(S) - Cardinality(T)
<1>1. IsFiniteSet(S)
  BY RowsAreFinite
<1>2. Cardinality(S \ T) = Cardinality(S) - Cardinality(S \cap T) /\ S \cap T = T
  BY <1>1, FS_Difference
<1> QED
  BY <1>1, <1>2, FS_Subset

LEMMA RankType ==
  ASSUME NEW S \in SUBSET Rows, NEW r
  PROVE  Rank(S, r) \in Nat /\ Rank(S, r) <= Cardinality(S)
<1> DEFINE B == {x \in S : x < r}
<1>1. B \in SUBSET S
  OBVIOUS
<1> HIDE DEF B
<1>2. Cardinality(B) \in Nat /\ Cardinality(B) <= Cardinality(S)
  BY <1>1, RowsAreFinite, PartOfRows
<1> QED
  BY <1>2 DEF Rank, B

\* Ranks follow the order of the rows.
LEMMA RankGrows ==
  ASSUME NEW S \in SUBSET Rows, NEW r \in Int, NEW q \in Int
  PROVE  /\ r <= q => Rank(S, r) <= Rank(S, q)
         /\ r < q /\ r \in S => Rank(S, r) < Rank(S, q)
         /\ r \in S => Rank(S, r) < Cardinality(S)
<1> DEFINE B(y) == {x \in S : x < y}
<1>1. \A x \in S : x \in Int
  BY RowsAreFinite
<1>2. \A y : B(y) \in SUBSET S
  OBVIOUS
<1>3. r <= q => B(r) \in SUBSET B(q)
  BY <1>1
<1>4. r < q /\ r \in S => r \in B(q)
  OBVIOUS
<1>5. r \notin B(r)
  OBVIOUS
<1>6. Rank(S, r) = Cardinality(B(r)) /\ Rank(S, q) = Cardinality(B(q))
  BY DEF Rank
<1> HIDE DEF B
<1>7. ASSUME NEW T \in SUBSET S, r \in T, B(r) \in SUBSET T
      PROVE  Cardinality(B(r)) < Cardinality(T)
  <2>1. B(r) # T /\ T \in SUBSET Rows
    BY <1>5, <1>7
  <2>2. Cardinality(B(r)) <= Cardinality(T) /\ Cardinality(B(r)) # Cardinality(T)
    BY <1>7, <2>1, PartOfRows
  <2>3. Cardinality(T) \in Nat /\ Cardinality(B(r)) \in Nat
    BY <1>2, <2>1, RowsAreFinite
  <2> QED
    BY <2>2, <2>3
<1>8. r <= q => Cardinality(B(r)) <= Cardinality(B(q))
  <2>1. B(q) \in SUBSET Rows
    BY <1>2
  <2> QED
    BY <1>3, <2>1, PartOfRows
<1> QED
  BY <1>2, <1>3, <1>4, <1>6, <1>7, <1>8

\* Every rank below the number of rows is that of a row.
LEMMA RankTaken ==
  ASSUME NEW S \in SUBSET Rows, NEW k \in Nat, k < Cardinality(S)
  PROVE  \E x \in S : Rank(S, x) = k
<1> DEFINE T == {j \in Nat : k <= j /\ \E x \in S : Rank(S, x) = j}
<1>0. (\A x \in S : x \in Int) /\ IsFiniteSet(S) /\ Cardinality(S) \in Nat
  BY RowsAreFinite
\* The rank of the last row below a row is one less.
<1>1. ASSUME NEW U \in SUBSET S, U # {}, \A y \in S, z \in U : y <= z => y \in U
      PROVE  \E x \in U : Rank(S, x) = Cardinality(U) - 1
  <2>1. U \in SUBSET Rows
    OBVIOUS
  <2>2. PICK m \in U : \A y \in U : y <= m
    BY <1>1, <2>1, LastRow
  <2>3. {y \in S : y < m} = U \ {m}
    BY <1>0, <1>1, <2>2
  <2>4. Cardinality(U \ {m}) = Cardinality(U) - 1
    BY <2>1, <2>2, RowsAreFinite, FS_RemoveElement
  <2> QED
    BY <2>2, <2>3, <2>4 DEF Rank
<1>2. T \in SUBSET Nat /\ T # {}
  <2>1. S # {}
    BY FS_EmptySet
  <2>2. PICK x \in S : Rank(S, x) = Cardinality(S) - 1
    BY <1>1, <2>1
  <2>3. Cardinality(S) - 1 \in T
    BY <1>0, <2>2
  <2> QED
    BY <2>3
<1>3. PICK j \in T : \A i \in T : j <= i
  <2> HIDE DEF T
  <2> QED
    BY <1>2, LeastNumber
<1>4. PICK x \in S : Rank(S, x) = j
  BY <1>3
<1>5. ASSUME j # k PROVE FALSE
  <2> DEFINE U == {y \in S : y < x}
  <2>1. Cardinality(U) = j /\ j > 0 /\ j > k
    BY <1>3, <1>4, <1>5 DEF Rank
  <2>2. U # {}
    BY <2>1, FS_EmptySet
  <2>3. U \in SUBSET S /\ \A y \in S, z \in U : y <= z => y \in U
    BY <1>0
  <2> HIDE DEF U
  <2>4. PICK y \in U : Rank(S, y) = Cardinality(U) - 1
    BY <1>1, <2>2, <2>3
  <2>5. j - 1 \in T
    BY <1>3, <2>1, <2>3, <2>4
  <2> QED
    BY <1>3, <2>5
<1> QED
  BY <1>4, <1>5

\* How many rows come before a position.
LEMMA RowsBefore ==
  ASSUME NEW S \in SUBSET Rows, NEW k \in Nat
  PROVE  Cardinality({x \in S : Rank(S, x) < k})
           = IF k <= Cardinality(S) THEN k ELSE Cardinality(S)
<1>0. (\A x \in S : x \in Int) /\ Cardinality(S) \in Nat
  BY RowsAreFinite
<1>1. CASE k < Cardinality(S)
  <2>1. PICK y \in S : Rank(S, y) = k
    BY <1>1, RankTaken
  <2>2. ASSUME NEW x \in S PROVE Rank(S, x) < k <=> x < y
    <3>1. Rank(S, x) \in Nat
      BY RankType
    <3> QED
      BY <1>0, <2>1, <3>1, RankGrows
  <2>3. {x \in S : Rank(S, x) < k} = {x \in S : x < y}
    BY <2>2
  <2>4. Cardinality({x \in S : x < y}) = k
    BY <2>1 DEF Rank
  <2>5. k <= Cardinality(S)
    BY <1>0, <1>1
  <2>6. Cardinality({x \in S : Rank(S, x) < k}) = k
    BY <2>3, <2>4
  <2> QED
    BY <2>5, <2>6
<1>2. CASE k >= Cardinality(S)
  <2>1. \A x \in S : Rank(S, x) < k
    <3> TAKE x \in S
    <3>1. Rank(S, x) \in Nat /\ Rank(S, x) < Cardinality(S)
      BY <1>0, RankType, RankGrows
    <3> QED
      BY <1>0, <1>2, <3>1
  <2>2. {x \in S : Rank(S, x) < k} = S
    BY <2>1
  <2> QED
    BY <1>0, <1>2, <2>2
<1> QED
  BY <1>0, <1>1, <1>2

\* How many rows a window holds.
LEMMA RowsWithin ==
  ASSUME NEW S \in SUBSET Rows, NEW k \in Nat, NEW n \in Nat
  PROVE  LET count == Cardinality(S)
         IN  Cardinality({x \in S : k <= Rank(S, x) /\ Rank(S, x) < k + n})
               = IF k + n <= count THEN n ELSE IF k <= count THEN count - k ELSE 0
<1> DEFINE A == {x \in S : Rank(S, x) < k + n}
           B == {x \in S : Rank(S, x) < k}
<1>1. \A x \in S : Rank(S, x) \in Nat
  BY RankType
<1>2. {x \in S : k <= Rank(S, x) /\ Rank(S, x) < k + n} = A \ B
  BY <1>1
<1>3. A \in SUBSET Rows /\ B \in SUBSET A
  BY <1>1
<1>4. Cardinality(A \ B) = Cardinality(A) - Cardinality(B)
  <2> HIDE DEF A, B
  <2> QED
    BY <1>3, PartOfRows
<1>5. Cardinality(A) = IF k + n <= Cardinality(S) THEN k + n ELSE Cardinality(S)
  BY RowsBefore
<1>6. Cardinality(B) = IF k <= Cardinality(S) THEN k ELSE Cardinality(S)
  BY RowsBefore
<1>7. Cardinality(S) \in Nat
  BY RowsAreFinite, FetchAssumption
<1>8. Cardinality(A \ B)
        = IF k + n <= Cardinality(S) THEN n
          ELSE IF k <= Cardinality(S) THEN Cardinality(S) - k ELSE 0
  <2> HIDE DEF A, B
  <2> QED
    BY <1>4, <1>5, <1>6, <1>7
<1> QED
  BY <1>2, <1>8

\* A rank counts only the rows before.
LEMMA RankOfMore ==
  ASSUME NEW S \in SUBSET Rows, NEW T \in SUBSET S, NEW r
  PROVE  Rank(T, r) <= Rank(S, r)
<1>1. {x \in T : x < r} \in SUBSET {x \in S : x < r} /\ {x \in S : x < r} \in SUBSET Rows
  OBVIOUS
<1> QED
  BY <1>1, PartOfRows DEF Rank

\* A row less lowers no rank by more than one.
LEMMA RankOfLess ==
  ASSUME NEW S \in SUBSET Rows, NEW q, NEW r
  PROVE  Rank(S, r) - 1 <= Rank(S \ {q}, r)
<1> DEFINE B == {x \in S : x < r}
<1>1. {x \in S \ {q} : x < r} = B \ {q}
  OBVIOUS
<1>2. B \in SUBSET Rows
  OBVIOUS
<1>3. IsFiniteSet(B) /\ Cardinality(B) \in Nat
  BY <1>2, RowsAreFinite, FetchAssumption
<1>4. Cardinality(B \ {q}) = IF q \in B THEN Cardinality(B) - 1 ELSE Cardinality(B)
  BY <1>3, FS_RemoveElement
<1> QED
  BY <1>1, <1>3, <1>4 DEF Rank

-----------------------------------------------------------------------------
(* A page. *)

LEMMA SmallerOfTwo ==
  ASSUME NEW a \in Int, NEW b \in Int
  PROVE  Min({a, b}) = IF a <= b THEN a ELSE b
<1>1. \E x \in {a, b} : \A y \in {a, b} : x <= y
  OBVIOUS
<1> QED
  BY <1>1 DEF Min

LEMMA ReadIsFixed ==
  ASSUME FetchTypeOK
  PROVE  /\ how.keyset \in BOOLEAN /\ how.counted \in BOOLEAN /\ how.alike \in BOOLEAN
         /\ how.hidden \in SUBSET Rows /\ how.start \in Nat
         /\ how.server \in {"sound", "deaf"}
BY FetchAssumption DEF FetchTypeOK, Reads

LEMMA Numbers ==
  ASSUME FetchTypeOK
  PROVE  /\ cursor \in Nat /\ prev \in Nat /\ at \in Nat /\ scanned \in Nat /\ fetched \in Nat
         /\ filtered \in Nat /\ gap \in Nat /\ changes \in Nat /\ total \in Nat
         /\ MaxRow \in Nat /\ Cap \in Nat \ {0} /\ PageSize \in Nat \ {0} /\ ScanFactor \in Nat \ {0}
         /\ rows \in SUBSET Rows /\ got \in SUBSET Rows /\ stayed \in SUBSET Rows
BY FetchAssumption DEF FetchTypeOK, Unknown

\* How much the next page is asked for.
LEMMA WantedRows ==
  ASSUME FetchTypeOK
  PROVE  /\ want \in Int /\ want <= PageSize /\ want <= Cap - fetched
         /\ want = PageSize \/ want = Cap - fetched
BY Numbers, SmallerOfTwo DEF want

LEMMA PastRows ==
  ASSUME FetchTypeOK
  PROVE  /\ \A r : Past(r) \in SUBSET rows /\ Past(r) \in SUBSET Rows
         /\ Past(0) = rows
         /\ Matching \in SUBSET rows /\ Matching \in SUBSET Rows
         /\ Sound => Matching = Past(cursor)
         /\ Sound /\ cursor = 0 => Matching = rows
<1>1. rows \in SUBSET Rows /\ \A r \in rows : 0 < r
  BY Numbers, RowsAreFinite
<1>2. \A r : Past(r) \in SUBSET rows /\ Past(r) \in SUBSET Rows
  BY <1>1 DEF Past
<1>3. Past(0) = rows
  BY <1>1 DEF Past
<1>4. Matching = IF Sound THEN Past(cursor) ELSE rows
  BY ReadIsFixed DEF Matching, Sound
<1> QED
  BY <1>1, <1>2, <1>3, <1>4

\* A page holds rows that match and may be read.
LEMMA PageRows ==
  ASSUME FetchTypeOK, NEW n
  PROVE  /\ Window(n) \in SUBSET Matching /\ Window(n) \in SUBSET Rows
         /\ Page(n) \in SUBSET Window(n) /\ Page(n) \in SUBSET Rows
         /\ Page(n) = Window(n) \ how.hidden
         /\ Page(n) # {} => Min(Page(n)) \in Page(n) /\ Max(Page(n)) \in Page(n)
         /\ \A r \in Page(n) : r \in Nat /\ 0 < r /\ r <= MaxRow /\ Min(Page(n)) <= r /\ r <= Max(Page(n))
         /\ IsFiniteSet(Page(n)) /\ Cardinality(Page(n)) \in Nat
<1>1. Window(n) \in SUBSET Matching /\ Page(n) = Window(n) \ how.hidden
  BY DEF Window, Page
<1>2. Window(n) \in SUBSET Rows /\ Page(n) \in SUBSET Rows
  BY <1>1, PastRows
<1> QED
  BY <1>1, <1>2, FirstRow, LastRow, RowsAreFinite

\* Where the rows of a window are, on a server that heeds the position.
LEMMA WindowRanks ==
  ASSUME FetchTypeOK, Sound, NEW n
  PROVE  /\ Window(n) = {r \in Past(cursor) : /\ at <= Rank(Past(cursor), r)
                                              /\ Rank(Past(cursor), r) < at + n}
         /\ Page(n) = Window(n) \ how.hidden
<1>1. Matching = Past(cursor) /\ how.server # "deaf"
  BY PastRows DEF Sound
<1> QED
  BY <1>1 DEF Window, Page

\* A server that heeds the position returns no row again, as long as the window
\* did not slide.
LEMMA NothingRepeats ==
  ASSUME FetchTypeOK, Shape, Behind, Sound, how.keyset \/ ~slid, NEW n
  PROVE  Page(n) \cap got = {}
<1> SUFFICES ASSUME NEW x \in Page(n), x \in got
             PROVE  FALSE
  OBVIOUS
<1>1. x \in Past(cursor) /\ at <= Rank(Past(cursor), x) /\ x \in Nat /\ x > cursor
  BY WindowRanks, PageRows DEF Past
<1>2. CASE how.keyset
  BY <1>1, <1>2, Numbers DEF Behind
<1>3. CASE ~how.keyset
  <2>1. cursor = 0 /\ Past(cursor) = rows
    BY <1>3, PastRows DEF Shape
  <2>2. Rank(rows, x) < at /\ Rank(rows, x) \in Nat /\ at \in Nat
    BY <1>3, Numbers, RankType DEF Behind
  <2> QED
    BY <1>1, <2>1, <2>2
<1> QED
  BY <1>2, <1>3, ReadIsFixed

LEMMA NoRepeat ==
  ASSUME FetchTypeOK, Shape, Behind, Sound, ~slid, ~how.alike, NEW n
  PROVE  ~Repeated(Page(n))
<1> SUFFICES ASSUME Repeated(Page(n)) PROVE FALSE
  OBVIOUS
<1>1. Page(n) # {} /\ ((prev # 0 /\ Min(Page(n)) = prev) \/ (cursor # 0 /\ Min(Page(n)) \in got))
  BY DEF Repeated
<1>2. prev # 0 => prev \in got
  BY DEF Shape
<1>3. Min(Page(n)) \in Page(n)
  BY <1>1, PageRows
<1>4. Min(Page(n)) \in got
  BY <1>1, <1>2
<1> QED
  BY <1>3, <1>4, NothingRepeats

-----------------------------------------------------------------------------
(* A turn. *)

\* The turn that takes its page in.
Take == Turn /\ ~Repeated(Page(want))

LEMMA TakeSteps ==
  ASSUME Take, FetchTypeOK
  PROVE  /\ result = "reading" /\ want \in Nat \ {0}
         /\ rows' = rows /\ how' = how /\ stayed' = stayed /\ slid' = slid /\ changes' = changes
         /\ scanned' = scanned + want
         /\ total' = IF cursor = 0 /\ total = Unknown /\ how.counted
                     THEN Cardinality(Matching) ELSE total
         /\ got' = got \cup Page(want)
         /\ fetched' = fetched + Cardinality(Page(want))
         /\ prev' = IF Page(want) = {} THEN 0 ELSE Min(Page(want))
         /\ result' = IF Ends(Page(want), want) THEN "end" ELSE "reading"
         /\ gap' = IF how.counted \/ Ends(Page(want), want) \/ how.keyset THEN 0
                   ELSE want - Cardinality(Page(want))
         /\ cursor' = IF how.keyset /\ Page(want) # {} THEN Max(Page(want)) ELSE cursor
         /\ at' = IF how.keyset /\ Page(want) # {} THEN 0 ELSE at + want
BY WantedRows DEF Take, Turn, NextAt

LEMMA TakeFigure ==
  ASSUME Take
  PROVE  LET sum == filtered + IF how.counted THEN Withheld(Page(want), want)
                               ELSE IF Ends(Page(want), want) THEN 0 ELSE gap
         IN  filtered' = IF Ends(Page(want), want) THEN Settled(sum, fetched') ELSE sum
BY DEF Take, Turn

\* Rows withheld are counted, never less than none.
LEMMA WithheldType ==
  ASSUME FetchTypeOK, want \in Nat
  PROVE  Withheld(Page(want), want) \in Nat
<1> DEFINE count == Cardinality(Matching)
           returned == Cardinality(Page(want))
<1>1. count \in Nat /\ returned \in Nat
  BY PastRows, PageRows, RowsAreFinite
<1>2. at \in Nat
  BY Numbers
<1>3. Min({at, count}) = IF at <= count THEN at ELSE count
  BY <1>1, <1>2, SmallerOfTwo
<1> DEFINE left == count - Min({at, count})
<1>4. left \in Nat
  BY <1>1, <1>2, <1>3
<1> HIDE DEF left
<1>5. Min({want, left}) \in Int
  BY <1>4, SmallerOfTwo
<1>6. Withheld(Page(want), want)
        = IF returned < Min({want, left}) /\ (cursor = 0 \/ Page(want) = {})
          THEN Min({want, left}) - returned ELSE 0
  BY DEF Withheld, left
<1> HIDE DEF returned
<1> QED
  BY <1>1, <1>5, <1>6

LEMMA SettledType ==
  ASSUME FetchTypeOK, NEW sum \in Nat, NEW n \in Nat
  PROVE  Settled(sum, n) \in Nat
<1>1. how.start + n \in Nat /\ total \in Nat
  BY ReadIsFixed, Numbers
<1>2. total - Min({total, how.start + n}) \in Nat
  BY <1>1, SmallerOfTwo
<1> QED
  BY <1>2 DEF Settled

LEMMA TakeTypes ==
  ASSUME Take, FetchTypeOK, Shape
  PROVE  FetchTypeOK'
<1>1. Cardinality(Page(want)) \in Nat /\ Page(want) \in SUBSET Rows
      /\ (Page(want) # {} => Min(Page(want)) \in 0..MaxRow /\ Max(Page(want)) \in 0..MaxRow)
  BY PageRows, Numbers
<1>2. Cardinality(Matching) \in 0..Unknown
  <2>1. Cardinality(Matching) \in Nat /\ Cardinality(Matching) <= MaxRow
    BY PastRows, RowsAreFinite
  <2> QED
    BY <2>1, Numbers DEF Unknown
<1>3. filtered' \in Nat
  <2>1. fetched' \in Nat
    BY <1>1, TakeSteps, Numbers
  <2> DEFINE sum == filtered + IF how.counted THEN Withheld(Page(want), want)
                               ELSE IF Ends(Page(want), want) THEN 0 ELSE gap
  <2>2. sum \in Nat
    BY TakeSteps, WithheldType, Numbers
  <2>3. filtered' = IF Ends(Page(want), want) THEN Settled(sum, fetched') ELSE sum
    BY TakeFigure
  <2>4. Settled(sum, fetched') \in Nat
    <3> HIDE DEF sum
    <3> QED
      BY <2>1, <2>2, SettledType
  <2> QED
    BY <2>2, <2>3, <2>4
<1>4. gap' \in Nat
  <2>1. Cardinality(Page(want)) <= want
    <3>1. Cardinality(Window(want)) <= want
      <4> DEFINE skip == IF how.server = "deaf" THEN 0 ELSE at
      <4>1. skip \in Nat /\ want \in Nat /\ Matching \in SUBSET Rows
        BY TakeSteps, Numbers, PastRows
      <4>2. Window(want) = {r \in Matching : skip <= Rank(Matching, r) /\ Rank(Matching, r) < skip + want}
        BY DEF Window
      <4>3. Cardinality(Window(want))
              = IF skip + want <= Cardinality(Matching) THEN want
                ELSE IF skip <= Cardinality(Matching) THEN Cardinality(Matching) - skip ELSE 0
        BY <4>1, <4>2, RowsWithin
      <4>4. Cardinality(Matching) \in Nat
        BY <4>1, RowsAreFinite
      <4> HIDE DEF skip
      <4> QED
        BY <4>1, <4>3, <4>4
    <3>2. Cardinality(Page(want)) <= Cardinality(Window(want)) /\ Cardinality(Window(want)) \in Nat
      BY PageRows, PartOfRows, RowsAreFinite
    <3> QED
      BY <1>1, <3>1, <3>2, TakeSteps
  <2> QED
    BY <1>1, <2>1, TakeSteps
<1>5. /\ rows' \in SUBSET Rows /\ stayed' \in SUBSET Rows /\ got' \in SUBSET Rows
      /\ how' \in Reads /\ slid' \in BOOLEAN /\ changes' \in Nat
      /\ result' \in {"reading", "end", "stopped", "cap", "scan_limit", "failed"}
  BY <1>1, TakeSteps, Numbers DEF FetchTypeOK
<1>6. cursor' \in 0..MaxRow /\ prev' \in 0..MaxRow
  BY <1>1, TakeSteps, Numbers DEF FetchTypeOK
<1>7. at' \in Nat /\ scanned' \in Nat /\ fetched' \in Nat
  BY <1>1, TakeSteps, Numbers
<1>8. total' \in 0..Unknown
  BY <1>2, TakeSteps DEF FetchTypeOK
<1> QED
  BY <1>3, <1>4, <1>5, <1>6, <1>7, <1>8 DEF FetchTypeOK

LEMMA TakeKeepsShape ==
  ASSUME Take, FetchTypeOK, Shape
  PROVE  Shape'
<1>1. scanned' # 0
  BY TakeSteps, Numbers
<1>2. cursor' # 0 => how'.keyset /\ cursor' \in got'
  BY TakeSteps, PageRows DEF Shape
<1>3. prev' # 0 => prev' \in got'
  BY TakeSteps, PageRows
<1>4. how'.keyset /\ cursor' = 0 => got' = {}
  <2> SUFFICES ASSUME how'.keyset, cursor' = 0 PROVE got' = {}
    OBVIOUS
  <2>1. Page(want) = {} /\ cursor = 0
    BY TakeSteps, PageRows
  <2> QED
    BY <2>1, TakeSteps DEF Shape
<1>5. fetched' = 0 => got' = {}
  <2> SUFFICES ASSUME fetched' = 0 PROVE got' = {}
    OBVIOUS
  <2>1. fetched = 0 /\ Cardinality(Page(want)) = 0
    BY TakeSteps, PageRows, Numbers
  <2>2. Page(want) = {}
    BY <2>1, PageRows, FS_EmptySet
  <2> QED
    BY <2>1, <2>2, TakeSteps DEF Shape
<1>6. /\ changes' = 0 => ~slid'
      /\ stayed' \subseteq rows' \ how'.hidden
      /\ how'.keyset => ~how'.alike
  BY TakeSteps DEF Shape
<1> QED
  BY <1>1, <1>2, <1>3, <1>4, <1>5, <1>6 DEF Shape

LEMMA TakeKeepsBehind ==
  ASSUME Take, FetchTypeOK, Shape, Behind
  PROVE  Behind'
<1> SUFFICES ASSUME Sound
             PROVE  /\ how.keyset => \A x \in got' : x <= cursor'
                    /\ ~how.keyset /\ ~slid => \A x \in got' : x \in rows /\ Rank(rows, x) < at'
  BY TakeSteps DEF Behind, Sound
<1>1. ASSUME how.keyset, NEW x \in got' PROVE x <= cursor'
  <2>1. CASE Page(want) = {}
    BY <1>1, <2>1, TakeSteps DEF Behind
  <2>2. CASE Page(want) # {}
    <3>1. cursor' = Max(Page(want)) /\ Max(Page(want)) \in Page(want)
      BY <1>1, <2>2, TakeSteps, PageRows
    <3>2. Page(want) \in SUBSET Past(cursor)
      BY WindowRanks
    <3>3. cursor < cursor' /\ cursor' \in Nat /\ cursor \in Nat
      BY <3>1, <3>2, PageRows, Numbers DEF Past
    <3>4. CASE x \in got
      <4>1. x <= cursor /\ x \in Nat
        BY <1>1, <3>4, Numbers, RowsAreFinite DEF Behind
      <4> QED
        BY <3>3, <4>1
    <3>5. CASE x \in Page(want)
      BY <3>1, <3>5, PageRows
    <3> QED
      BY <1>1, <3>4, <3>5, TakeSteps
  <2> QED
    BY <2>1, <2>2
<1>2. ASSUME ~how.keyset, ~slid, NEW x \in got' PROVE x \in rows /\ Rank(rows, x) < at'
  <2>1. cursor = 0 /\ Past(cursor) = rows /\ at' = at + want
    BY <1>2, TakeSteps, PastRows DEF Shape
  <2>2. CASE x \in got
    <3>1. x \in rows /\ Rank(rows, x) < at /\ Rank(rows, x) \in Nat
      BY <1>2, <2>2, Numbers, RankType DEF Behind
    <3> QED
      BY <2>1, <3>1, TakeSteps, Numbers
  <2>3. CASE x \in Page(want)
    BY <2>1, <2>3, WindowRanks
  <2> QED
    BY <1>2, <2>2, <2>3, TakeSteps
<1> QED
  BY <1>1, <1>2

LEMMA TakeKeepsOnce ==
  ASSUME Take, FetchTypeOK, Shape, Behind, NoneTwice, Stuck
  PROVE  NoneTwice'
<1> SUFFICES ASSUME (Sound /\ (how.keyset \/ ~slid)) \/ changes = 0
             PROVE  Cardinality(got') = fetched'
  BY TakeSteps DEF NoneTwice, Sound
<1>1. Page(want) \cap got = {}
  <2>1. CASE Sound /\ (how.keyset \/ ~slid)
    BY <2>1, NothingRepeats
  <2>2. CASE Sound /\ changes = 0
    BY <2>2, NothingRepeats DEF Shape
  <2>3. CASE ~Sound /\ changes = 0 /\ got # {} /\ Page(want) # {}
    <3>1. prev # 0 /\ prev = Min(Page(want))
      BY <2>3, TakeSteps DEF Stuck
    <3> QED
      BY <2>3, <3>1 DEF Take, Repeated
  <2> QED
    BY <2>1, <2>2, <2>3
<1>2. /\ IsFiniteSet(got) /\ Cardinality(got) \in Nat
      /\ IsFiniteSet(Page(want)) /\ Cardinality(Page(want)) \in Nat
  BY PageRows, Numbers, RowsAreFinite
<1>3. Cardinality(got \cup Page(want)) = Cardinality(got) + Cardinality(Page(want))
  <2>1. got \cap Page(want) = {}
    BY <1>1
  <2>2. Cardinality(got \cup Page(want))
          = Cardinality(got) + Cardinality(Page(want)) - Cardinality(got \cap Page(want))
    BY <1>2, FS_Union
  <2>3. Cardinality(got \cap Page(want)) = 0
    BY <2>1, FS_EmptySet
  <2> QED
    BY <1>2, <2>2, <2>3
<1>4. Cardinality(got) = fetched
  BY DEF NoneTwice
<1> QED
  BY <1>3, <1>4, TakeSteps

\* What a server returns that ignores the position.
LEMMA DeafPage ==
  ASSUME FetchTypeOK, ~Sound, NEW n \in Int
  PROVE  Page(n) = {r \in rows : 0 <= Rank(rows, r) /\ Rank(rows, r) < n} \ how.hidden
<1>1. Matching = rows /\ how.server = "deaf"
  BY ReadIsFixed DEF Matching, Sound
<1>2. 0 + n = n
  OBVIOUS
<1> QED
  BY <1>1, <1>2 DEF Page, Window

LEMMA TakeKeepsStuck ==
  ASSUME Take, FetchTypeOK, Shape, Stuck
  PROVE  Stuck'
<1> SUFFICES ASSUME ~Sound, changes = 0, result' = "reading", got' # {}
             PROVE  Page(want)' = {} \/ (prev' # 0 /\ prev' = Min(Page(want)'))
  BY TakeSteps DEF Stuck, Sound
<1>0. FetchTypeOK' /\ (~Sound)'
  BY TakeTypes, TakeSteps DEF Sound
<1>1. want' \in Int /\ want \in Int /\ want' <= want
  <2>1. want' = Min({PageSize, Cap - fetched'}) /\ want = Min({PageSize, Cap - fetched})
    BY DEF want
  <2>2. fetched \in Int /\ fetched' \in Int /\ fetched <= fetched' /\ PageSize \in Int /\ Cap \in Int
    BY TakeSteps, PageRows, Numbers
  <2> QED
    BY <2>1, <2>2, SmallerOfTwo
<1> DEFINE P(n) == {r \in rows : 0 <= Rank(rows, r) /\ Rank(rows, r) < n} \ how.hidden
<1>2. Page(want) = P(want)
  BY <1>1, DeafPage
<1>3. Page(want)' = P(want')
  <2>1. Matching' = rows /\ how'.server = "deaf" /\ rows' = rows /\ how' = how
    BY <1>0, TakeSteps, ReadIsFixed DEF Matching, Sound
  <2>2. 0 + want' = want'
    <3>1. \A k \in Int : 0 + k = k
      OBVIOUS
    <3> QED
      BY <1>1, <3>1
  <2> QED
    BY <2>1, <2>2 DEF Page, Window
<1>4. \A r \in rows : Rank(rows, r) \in Nat /\ r \in Nat
  BY Numbers, RankType, RowsAreFinite
<1>5. CASE Page(want) = {}
  <2>1. P(want') \in SUBSET P(want)
    BY <1>1, <1>4
  <2> QED
    BY <1>2, <1>3, <1>5, <2>1
<1>6. CASE Page(want) # {} /\ Page(want)' # {}
  <2> DEFINE h == Min(Page(want))
  <2>1. PICK x \in P(want') : TRUE
    BY <1>3, <1>6
  <2>2. /\ h \in P(want) /\ h # 0 /\ h \in Nat
        /\ \A r \in P(want) : h <= r
    BY <1>2, <1>6, PageRows
  <2>3. P(want') \in SUBSET P(want) /\ P(want') \in SUBSET Rows
    BY <1>1, <1>4, Numbers
  <2> HIDE DEF h
  <2>4. Rank(rows, h) <= Rank(rows, x)
    <3>1. x \in P(want)
      BY <2>1, <2>3
    <3>2. h <= x /\ x \in Int /\ h \in Int /\ rows \in SUBSET Rows
      <4> HIDE DEF P
      <4> QED
        BY <1>4, <2>2, <2>3, <3>1, Numbers, RowsAreFinite
    <3> QED
      BY <3>2, RankGrows
  <2>5. h \in P(want')
    BY <1>1, <1>4, <2>1, <2>2, <2>4
  <2> DEFINE Q == P(want')
  <2>6. Min(Q) \in Q /\ Min(Q) <= h
    <3> HIDE DEF Q, P
    <3> QED
      BY <2>3, <2>5, FirstRow DEF Q
  <2>7. Min(Q) \in P(want) /\ Min(Q) \in Nat
    BY <1>4, <2>3, <2>6
  <2>8. Min(Q) = h
    <3> HIDE DEF Q, P
    <3> QED
      BY <2>2, <2>6, <2>7
  <2>9. prev' = h
    BY <1>6, TakeSteps DEF h
  <2> QED
    BY <1>3, <2>2, <2>8, <2>9
<1> QED
  BY <1>5, <1>6

\* A row that stays and was not returned before nor by this turn lies past the
\* window.
LEMMA TakeLeaves ==
  ASSUME Take, FetchTypeOK, Shape, NoneSkipped, Sound, ~slid, ~how.alike,
         NEW x \in stayed, x \notin got'
  PROVE  /\ x \in Past(cursor) /\ Rank(Past(cursor), x) \in Nat
         /\ at + want <= Rank(Past(cursor), x)
         /\ Rank(Past(cursor), x) < Cardinality(Past(cursor))
<1>1. x \in rows /\ x \notin how.hidden /\ x \notin got /\ x \notin Page(want)
  BY TakeSteps DEF Shape
<1>2. x > cursor /\ at <= Rank(Past(cursor), x)
  BY <1>1, TakeSteps DEF NoneSkipped
<1>3. x \in Past(cursor) /\ x \in Int
  BY <1>1, <1>2, Numbers, RowsAreFinite DEF Past
<1>4. ~(Rank(Past(cursor), x) < at + want)
  BY <1>1, <1>2, <1>3, WindowRanks
<1>5. Rank(Past(cursor), x) \in Nat /\ Rank(Past(cursor), x) < Cardinality(Past(cursor))
  BY <1>3, PastRows, RankType, RankGrows
<1> QED
  BY <1>3, <1>4, <1>5, Numbers, TakeSteps

LEMMA TakeKeepsAhead ==
  ASSUME Take, FetchTypeOK, Shape, NoneSkipped
  PROVE  NoneSkipped'
<1> SUFFICES ASSUME Sound, ~slid, ~how.alike, NEW x \in stayed, x \notin got'
             PROVE  x > cursor' /\ at' <= Rank(Past(cursor)', x)
  BY TakeSteps DEF NoneSkipped, Sound, Rank, Past
<1>1. /\ x \in Past(cursor) /\ Rank(Past(cursor), x) \in Nat
      /\ at + want <= Rank(Past(cursor), x)
  BY TakeLeaves
<1>2. CASE how.keyset /\ Page(want) # {}
  <2>1. cursor' = Max(Page(want)) /\ Max(Page(want)) \in Page(want) /\ at' = 0
    BY <1>2, TakeSteps, PageRows
  <2>2. /\ cursor' \in Past(cursor) /\ Rank(Past(cursor), cursor') < at + want
        /\ cursor' \in Int /\ x \in Int
    BY <1>1, <2>1, WindowRanks, PastRows, RowsAreFinite
  <2>3. Rank(Past(cursor), cursor') \in Nat
    BY PastRows, RankType
  <2>4. cursor' < x
    <3>1. x <= cursor' => Rank(Past(cursor), x) <= Rank(Past(cursor), cursor')
      BY <2>2, PastRows, RankGrows
    <3> QED
      BY <1>1, <2>2, <2>3, <3>1, Numbers, TakeSteps
  <2>5. Rank(Past(cursor)', x) \in Nat
    <3>1. Past(cursor)' \in SUBSET Rows
      BY TakeSteps, Numbers DEF Past
    <3> QED
      BY <3>1, RankType
  <2> QED
    BY <2>1, <2>2, <2>4, <2>5
<1>3. CASE ~(how.keyset /\ Page(want) # {})
  <2>1. cursor' = cursor /\ at' = at + want /\ Past(cursor)' = Past(cursor)
    BY <1>3, TakeSteps DEF Past
  <2> QED
    BY <1>1, <2>1 DEF Past
<1> QED
  BY <1>2, <1>3

LEMMA TakeKeepsEachRow ==
  ASSUME Take, FetchTypeOK, Shape, Behind, NoneTwice, Stuck, NoneSkipped
  PROVE  EachRowOnce'
<1>1. NoneTwice'
  BY TakeKeepsOnce
<1> SUFFICES ASSUME Sound, ~slid, ~how.alike, how.counted \/ how.hidden = {},
                    result' \in {"end", "stopped"}, NEW x \in stayed, x \notin got'
             PROVE  FALSE
  BY <1>1, TakeSteps DEF EachRowOnce, NoneTwice, Sound, Whole
<1>2. Ends(Page(want), want)
  BY TakeSteps
<1>3. /\ x \in Past(cursor) /\ Rank(Past(cursor), x) \in Nat
      /\ at + want <= Rank(Past(cursor), x)
      /\ Rank(Past(cursor), x) < Cardinality(Past(cursor))
  BY TakeLeaves
<1>4. Matching = Past(cursor) /\ Past(cursor) \in SUBSET Rows
  BY PastRows
<1>5. at \in Nat /\ want \in Nat \ {0} /\ Cardinality(Past(cursor)) \in Nat
  BY <1>4, Numbers, TakeSteps, RowsAreFinite
<1>6. CASE how.counted
  BY <1>2, <1>3, <1>4, <1>5, <1>6 DEF Ends
<1>7. CASE ~how.counted
  <2>1. Page(want) = {} /\ how.hidden = {}
    BY <1>2, <1>7 DEF Ends
  <2>2. at < Cardinality(Past(cursor))
    BY <1>3, <1>5
  <2>3. PICK y \in Past(cursor) : Rank(Past(cursor), y) = at
    BY <1>4, <1>5, <2>2, RankTaken
  <2>4. y \in Page(want)
    BY <1>5, <2>1, <2>3, WindowRanks
  <2> QED
    BY <2>1, <2>4
<1> QED
  BY <1>6, <1>7

-----------------------------------------------------------------------------
(* The figures. *)

\* The rows that a window of a read without a cursor withholds.
LEMMA WithheldRows ==
  ASSUME FetchTypeOK, Sound, cursor = 0, want \in Nat
  PROVE  /\ Withheld(Page(want), want) = Cardinality(Window(want) \cap how.hidden)
         /\ Cardinality(Window(want) \cap how.hidden) \in Nat
         /\ Cardinality(Window(want)) - Cardinality(Page(want))
              = Cardinality(Window(want) \cap how.hidden)
         /\ Cardinality(Window(want)) = IF at + want <= Cardinality(rows) THEN want
                                        ELSE IF at <= Cardinality(rows)
                                             THEN Cardinality(rows) - at ELSE 0
<1> DEFINE W == Window(want)
           H == W \cap how.hidden
           count == Cardinality(rows)
           left == count - Min({at, count})
<1>1. Matching = rows /\ Past(cursor) = rows /\ rows \in SUBSET Rows
  BY PastRows, Numbers
<1>2. at \in Nat /\ count \in Nat
  BY <1>1, Numbers, RowsAreFinite
<1>3. Cardinality(W) = IF at + want <= count THEN want ELSE IF at <= count THEN count - at ELSE 0
  <2>1. W = {r \in rows : at <= Rank(rows, r) /\ Rank(rows, r) < at + want}
    BY <1>1, WindowRanks
  <2> HIDE DEF W
  <2> QED
    BY <1>1, <1>2, <2>1, RowsWithin
<1>4. left = IF at <= count THEN count - at ELSE 0
  BY <1>2, SmallerOfTwo
<1>5. Min({want, left}) = Cardinality(W)
  <2>1. left \in Nat
    BY <1>2, <1>4
  <2> HIDE DEF left
  <2>2. Min({want, left}) = IF want <= left THEN want ELSE left
    BY <2>1, SmallerOfTwo
  <2> HIDE DEF W, count
  <2> QED
    BY <1>2, <1>3, <1>4, <2>2
<1>6. W \in SUBSET Rows /\ H \in SUBSET W /\ Page(want) = W \ H
  BY PageRows
<1>7. /\ Cardinality(W) \in Nat /\ Cardinality(H) \in Nat /\ Cardinality(Page(want)) \in Nat
      /\ Cardinality(Page(want)) = Cardinality(W) - Cardinality(H)
  <2>1. H \in SUBSET Rows /\ Page(want) \in SUBSET Rows
    BY <1>6
  <2> HIDE DEF W, H
  <2> QED
    BY <1>6, <2>1, PartOfRows, RowsAreFinite
<1>8. Withheld(Page(want), want)
        = IF Cardinality(Page(want)) < Min({want, left})
          THEN Min({want, left}) - Cardinality(Page(want)) ELSE 0
  BY <1>1 DEF Withheld
<1>9. Withheld(Page(want), want) = Cardinality(H)
  <2> HIDE DEF W, H, left
  <2> QED
    BY <1>5, <1>7, <1>8
<1> QED
  BY <1>3, <1>7, <1>9

\* The windows of a read without a cursor follow one another.
LEMMA PassedGrows ==
  ASSUME FetchTypeOK, Sound, cursor = 0, want \in Nat, how.start <= at
  PROVE  LET P == {x \in rows : how.start <= Rank(rows, x) /\ Rank(rows, x) < at + want}
         IN  /\ P \ how.hidden = (Passed \ how.hidden) \cup Page(want)
             /\ Cardinality(P \cap how.hidden)
                  = Cardinality(Passed \cap how.hidden) + Cardinality(Window(want) \cap how.hidden)
             /\ Cardinality(Passed \cap how.hidden) \in Nat
<1> DEFINE P == {x \in rows : how.start <= Rank(rows, x) /\ Rank(rows, x) < at + want}
           W == Window(want)
           H == how.hidden
<1>1. Past(cursor) = rows /\ rows \in SUBSET Rows /\ at \in Nat /\ how.start \in Nat
  BY PastRows, Numbers, ReadIsFixed
<1>2. \A x \in rows : Rank(rows, x) \in Nat
  BY <1>1, RankType
<1>3. W = {r \in rows : at <= Rank(rows, r) /\ Rank(rows, r) < at + want} /\ Page(want) = W \ H
  BY <1>1, WindowRanks
<1>4. \A x \in rows : x \in P <=> x \in Passed \/ x \in W
  BY <1>1, <1>2, <1>3 DEF Passed
<1>5. \A x \in rows : ~(x \in Passed /\ x \in W)
  BY <1>1, <1>2, <1>3 DEF Passed
<1>6. P \in SUBSET rows /\ Passed \in SUBSET rows /\ W \in SUBSET rows
  BY <1>3 DEF Passed
<1> HIDE DEF P, W
<1>7. P = Passed \cup W /\ Passed \cap W = {}
  BY <1>4, <1>5, <1>6
<1>8. P \ H = (Passed \ H) \cup Page(want)
  BY <1>3, <1>7
<1> DEFINE A == Passed \cap H
           B == W \cap H
<1>9. P \cap H = A \cup B /\ A \cap B = {} /\ A \in SUBSET Rows /\ B \in SUBSET Rows
  BY <1>1, <1>6, <1>7
<1> HIDE DEF A, B
<1>10. /\ IsFiniteSet(A) /\ IsFiniteSet(B) /\ Cardinality(A) \in Nat /\ Cardinality(B) \in Nat
  BY <1>9, RowsAreFinite
<1>11. Cardinality(A \cup B) = Cardinality(A) + Cardinality(B)
  <2>1. Cardinality(A \cup B) = Cardinality(A) + Cardinality(B) - Cardinality(A \cap B)
    BY <1>10, FS_Union
  <2>2. Cardinality(A \cap B) = 0
    BY <1>9, FS_EmptySet
  <2> QED
    BY <1>10, <2>1, <2>2
<1> QED
  BY <1>8, <1>9, <1>10, <1>11 DEF A, B, P, W

\* A read returns only rows it is to return, if nothing changes.
LEMMA TakeWanted ==
  ASSUME Take, FetchTypeOK, Shape, Figures, changes = 0, Sound
  PROVE  got' \subseteq Wanted \ how.hidden
<1> SUFFICES ASSUME NEW x \in Page(want)
             PROVE  x \in Wanted \ how.hidden
  BY TakeSteps DEF Figures
<1>1. x \in Past(cursor) /\ at <= Rank(Past(cursor), x) /\ x \notin how.hidden
  BY WindowRanks
<1>2. x \in rows /\ x > cursor /\ x \in Int /\ rows \in SUBSET Rows
  BY <1>1, Numbers, PageRows DEF Past
<1>3. Rank(rows, x) \in Nat /\ how.start \in Nat /\ at \in Nat
  BY <1>2, RankType, ReadIsFixed, Numbers
<1>4. CASE cursor = 0
  <2>1. how.start <= at /\ Past(cursor) = rows
    BY <1>4, TakeSteps, PastRows DEF Figures
  <2> QED
    BY <1>1, <1>2, <1>3, <2>1 DEF Wanted
<1>5. CASE cursor # 0
  <2>1. cursor \in Wanted /\ cursor \in Int
    BY <1>5, Numbers DEF Shape, Figures
  <2>2. Rank(rows, cursor) <= Rank(rows, x) /\ Rank(rows, cursor) >= how.start
    BY <1>2, <2>1, RankGrows DEF Wanted
  <2>3. Rank(rows, cursor) \in Nat
    BY <1>2, RankType
  <2> QED
    BY <1>1, <1>2, <1>3, <2>2, <2>3 DEF Wanted
<1> QED
  BY <1>4, <1>5

\* The count of the first page stands for the read.
LEMMA TurnTotal ==
  ASSUME Turn, FetchTypeOK, Shape, Figures, changes = 0, Sound
  PROVE  total' = IF how.counted THEN Cardinality(rows) ELSE Unknown
<1>1. total' = IF cursor = 0 /\ total = Unknown /\ how.counted THEN Cardinality(Matching) ELSE total
  BY DEF Turn
<1>2. total = IF how.counted /\ scanned > 0 THEN Cardinality(rows) ELSE Unknown
  BY DEF Figures
<1>3. cursor # 0 => scanned > 0
  BY Numbers DEF Shape
<1>4. cursor = 0 => Matching = rows
  BY PastRows
<1>5. Cardinality(rows) # Unknown
  <2>1. Cardinality(rows) \in Nat /\ Cardinality(rows) <= MaxRow /\ MaxRow \in Nat
    BY Numbers, RowsAreFinite
  <2> QED
    BY <2>1 DEF Unknown
<1> QED
  BY <1>1, <1>2, <1>3, <1>4, <1>5

LEMMA TakeKeepsFigures ==
  ASSUME Take, FetchTypeOK, Shape, Figures
  PROVE  Figures'
<1> SUFFICES ASSUME changes = 0, Sound
             PROVE  Figures'
  BY TakeSteps DEF Figures, Sound
<1>1. got' \subseteq (Wanted \ how.hidden)'
  BY TakeSteps, TakeWanted DEF Wanted
<1>2. total' = IF how'.counted /\ scanned' > 0 THEN Cardinality(rows') ELSE Unknown
  <2>1. scanned' > 0
    BY TakeSteps, Numbers
  <2> QED
    BY <2>1, TakeSteps, TurnTotal DEF Take
<1> SUFFICES ASSUME result' = "reading"
             PROVE  /\ cursor' = 0 =>
                         /\ how.start <= at' /\ got' = Passed' \ how.hidden
                         /\ how.counted => filtered' = Cardinality(Passed' \cap how.hidden)
                         /\ ~how.counted => filtered' <= Cardinality(Passed' \cap how.hidden)
                         /\ ~how.counted /\ at' <= Cardinality(rows)
                              => filtered' + gap' <= Cardinality(Passed' \cap how.hidden)
                    /\ ~how.counted /\ how.keyset => filtered' = 0 /\ gap' = 0
                    /\ how.counted /\ scanned' > 0 => at' < Cardinality(Matching')
  BY <1>1, <1>2, TakeSteps DEF Figures, Sound
<1>3. /\ ~Ends(Page(want), want)
      /\ filtered' = filtered + IF how.counted THEN Withheld(Page(want), want) ELSE gap
  BY TakeSteps, TakeFigure
<1>4. want \in Nat \ {0} /\ at \in Nat /\ filtered \in Nat /\ gap \in Nat
  BY TakeSteps, Numbers
<1>5. ASSUME cursor' = 0
      PROVE  /\ how.start <= at' /\ got' = Passed' \ how.hidden
             /\ how.counted => filtered' = Cardinality(Passed' \cap how.hidden)
             /\ ~how.counted => filtered' <= Cardinality(Passed' \cap how.hidden)
             /\ ~how.counted /\ at' <= Cardinality(rows)
                  => filtered' + gap' <= Cardinality(Passed' \cap how.hidden)
  <2>1. cursor = 0 /\ at' = at + want
    BY <1>5, TakeSteps, PageRows
  <2>2. /\ how.start <= at /\ got = Passed \ how.hidden
        /\ how.counted => filtered = Cardinality(Passed \cap how.hidden)
        /\ ~how.counted => filtered <= Cardinality(Passed \cap how.hidden)
        /\ ~how.counted /\ at <= Cardinality(rows)
             => filtered + gap <= Cardinality(Passed \cap how.hidden)
    BY <2>1, TakeSteps DEF Figures
  <2> DEFINE P == Cardinality(Passed \cap how.hidden)
             W == Cardinality(Window(want) \cap how.hidden)
  <2>3. /\ Passed' \ how.hidden = (Passed \ how.hidden) \cup Page(want)
        /\ Cardinality(Passed' \cap how.hidden) = P + W
        /\ P \in Nat
    <3>1. Passed' = {x \in rows : how.start <= Rank(rows, x) /\ Rank(rows, x) < at + want}
      BY <2>1, TakeSteps DEF Passed, Rank
    <3> QED
      BY <1>4, <2>1, <2>2, <3>1, PassedGrows
  <2>4. /\ Withheld(Page(want), want) = W /\ W \in Nat
        /\ Cardinality(Window(want)) - Cardinality(Page(want)) = W
        /\ at + want <= Cardinality(rows) => Cardinality(Window(want)) = want
    BY <1>4, <2>1, WithheldRows
  <2>5. how.start <= at' /\ got' = Passed' \ how.hidden
    BY <1>4, <2>1, <2>2, <2>3, TakeSteps, ReadIsFixed
  <2>6. how.counted => filtered' = P + W
    BY <1>3, <2>2, <2>4
  <2>7. ~how.counted => filtered' <= P + W /\ filtered' <= P
    <3> SUFFICES ASSUME ~how.counted PROVE filtered' <= P + W /\ filtered' <= P
      OBVIOUS
    <3>1. Page(want) # {}
      BY <1>3 DEF Ends
    <3>2. at < Cardinality(rows)
      <4>1. Min(Page(want)) \in Page(want) /\ Past(cursor) = rows /\ rows \in SUBSET Rows
        BY <2>1, <3>1, PageRows, PastRows, Numbers
      <4>2. PICK x \in rows : at <= Rank(rows, x)
        BY <4>1, WindowRanks
      <4>3. Rank(rows, x) \in Nat /\ Rank(rows, x) < Cardinality(rows) /\ Cardinality(rows) \in Nat
        BY <4>1, <4>2, RankType, RankGrows, RowsAreFinite
      <4> QED
        BY <1>4, <4>2, <4>3
    <3>3. Cardinality(rows) \in Nat
      BY Numbers, RowsAreFinite
    <3>4. filtered + gap <= P /\ filtered' = filtered + gap
      BY <1>3, <1>4, <2>2, <3>2, <3>3
    <3> HIDE DEF P, W
    <3> QED
      BY <1>4, <2>3, <2>4, <3>4
  <2>8. ~how.counted /\ at' <= Cardinality(rows) => filtered' + gap' <= P + W
    <3> SUFFICES ASSUME ~how.counted, at + want <= Cardinality(rows)
                 PROVE  filtered' + gap' <= P + W
      BY <2>1
    <3>1. Cardinality(Page(want)) \in Nat /\ want - Cardinality(Page(want)) = W
      BY <2>4, PageRows
    <3>2. gap' = 0 \/ gap' = W
      BY <3>1, TakeSteps
    <3>3. filtered' \in Nat
      BY <1>3, <1>4
    <3> HIDE DEF P, W
    <3> QED
      BY <2>3, <2>4, <2>7, <3>2, <3>3
  <2> QED
    BY <2>3, <2>5, <2>6, <2>7, <2>8
<1>6. ~how.counted /\ how.keyset => filtered' = 0 /\ gap' = 0
  BY <1>3, <1>4, TakeSteps DEF Figures
<1>7. ASSUME how.counted
      PROVE  at' < Cardinality(Matching')
  <2>1. at + want < Cardinality(Past(cursor)) /\ Past(cursor) \in SUBSET Rows
    <3>1. Matching = Past(cursor) /\ Past(cursor) \in SUBSET Rows
      BY PastRows
    <3>2. Cardinality(Matching) \in Nat
      BY <3>1, RowsAreFinite
    <3> QED
      BY <1>3, <1>4, <1>7, <3>1, <3>2 DEF Ends
  <2>2. Matching' = {x \in rows : x > cursor'}
    BY TakeSteps DEF Matching, Sound, Past
  <2>3. CASE ~(how.keyset /\ Page(want) # {})
    BY <2>1, <2>2, <2>3, TakeSteps DEF Past
  <2>4. CASE how.keyset /\ Page(want) # {}
    <3>1. cursor' = Max(Page(want)) /\ Max(Page(want)) \in Page(want) /\ at' = 0
      BY <2>4, TakeSteps, PageRows
    <3>2. cursor' \in Past(cursor) /\ Rank(Past(cursor), cursor') < at + want /\ cursor' \in Int
      BY <2>1, <3>1, WindowRanks, RowsAreFinite
    <3>3. PICK y \in Past(cursor) : Rank(Past(cursor), y) = at + want
      <4>1. at + want \in Nat
        BY <1>4
      <4> QED
        BY <2>1, <4>1, RankTaken
    <3>4. y \in Int /\ y \in rows
      BY <2>1, <3>3, RowsAreFinite DEF Past
    <3>5. y > cursor'
      <4>1. y <= cursor' => Rank(Past(cursor), y) <= Rank(Past(cursor), cursor')
        BY <2>1, <3>2, <3>4, RankGrows
      <4>2. Rank(Past(cursor), cursor') \in Nat
        BY <2>1, RankType
      <4> QED
        BY <1>4, <3>2, <3>3, <3>4, <4>1, <4>2
    <3>6. y \in Matching' /\ Matching' \in SUBSET Rows
      BY <2>2, <3>4, <3>5, Numbers
    <3>7. Cardinality(Matching') \in Nat /\ Cardinality(Matching') # 0
      BY <3>6, RowsAreFinite, FS_EmptySet
    <3> QED
      BY <3>1, <3>7
  <2> QED
    BY <2>3, <2>4
<1> QED
  BY <1>5, <1>6, <1>7

\* How many rows a read is to return or to count as withheld.
LEMMA WantedCount ==
  ASSUME FetchTypeOK
  PROVE  /\ Wanted \in SUBSET rows /\ Wanted \in SUBSET Rows
         /\ Cardinality(Wanted) = IF how.start <= Cardinality(rows)
                                  THEN Cardinality(rows) - how.start ELSE 0
<1> DEFINE B == {x \in rows : Rank(rows, x) < how.start}
<1>1. rows \in SUBSET Rows /\ how.start \in Nat /\ Cardinality(rows) \in Nat
  BY Numbers, ReadIsFixed, RowsAreFinite
<1>2. \A x \in rows : Rank(rows, x) \in Nat
  BY <1>1, RankType
<1>3. Wanted = rows \ B /\ B \in SUBSET rows
  BY <1>1, <1>2 DEF Wanted
<1>4. Cardinality(B) = IF how.start <= Cardinality(rows) THEN how.start ELSE Cardinality(rows)
  BY <1>1, RowsBefore
<1>5. Cardinality(rows \ B) = Cardinality(rows) - Cardinality(B)
  <2> HIDE DEF B
  <2> QED
    BY <1>1, <1>3, PartOfRows
<1> HIDE DEF B
<1> QED
  BY <1>1, <1>3, <1>4, <1>5

LEMMA TakeKeepsSays ==
  ASSUME Take, FetchTypeOK, Shape, Behind, NoneTwice, Stuck, Figures
  PROVE  SaysWhatItLeft'
<1> DEFINE left == Wanted \ got'
<1> SUFFICES ASSUME changes = 0, Sound, result' = "end"
             PROVE  /\ how.counted => filtered' = Cardinality(left)
                    /\ filtered' <= Cardinality(left)
  <2>1. Wanted' = Wanted /\ (result' = "end" \/ result' = "reading")
    BY TakeSteps DEF Wanted
  <2> QED
    BY <2>1, TakeSteps DEF SaysWhatItLeft, Sound
<1> DEFINE sum == filtered + IF how.counted THEN Withheld(Page(want), want) ELSE 0
<1>1. Ends(Page(want), want) /\ filtered' = Settled(sum, fetched')
  BY TakeSteps, TakeFigure
<1>2. want \in Nat \ {0} /\ at \in Nat /\ filtered \in Nat /\ fetched' \in Nat
  BY TakeSteps, Numbers, PageRows
<1>3. got' \in SUBSET Wanted /\ Wanted \in SUBSET Rows
  BY WantedCount, TakeWanted
<1>4. Cardinality(left) \in Nat /\ Cardinality(left) = Cardinality(Wanted) - fetched'
  <2>1. Cardinality(got') = fetched'
    BY TakeSteps, TakeKeepsOnce DEF NoneTwice
  <2>2. left \in SUBSET Rows
    BY <1>3
  <2> QED
    BY <1>3, <2>1, <2>2, PartOfRows, RowsAreFinite
<1>5. CASE cursor = 0
  <2> DEFINE P == {x \in rows : how.start <= Rank(rows, x) /\ Rank(rows, x) < at + want}
             H == how.hidden
  <2>1. /\ how.start <= at /\ got = Passed \ H
        /\ how.counted => filtered = Cardinality(Passed \cap H)
        /\ ~how.counted => filtered <= Cardinality(Passed \cap H)
    BY <1>5, TakeSteps DEF Figures
  <2>2. /\ P \ H = (Passed \ H) \cup Page(want)
        /\ Cardinality(P \cap H) = Cardinality(Passed \cap H) + Cardinality(Window(want) \cap H)
        /\ Cardinality(Passed \cap H) \in Nat
    BY <1>2, <1>5, <2>1, PassedGrows
  <2>3. Withheld(Page(want), want) = Cardinality(Window(want) \cap H)
    BY <1>2, <1>5, WithheldRows
  <2>4. filtered' = sum
    BY <1>1, <1>5 DEF Settled
  <2>5. CASE how.counted
    <3>1. P = Wanted
      <4>1. at + want >= Cardinality(rows) /\ rows \in SUBSET Rows
        BY <1>1, <1>5, <2>5, PastRows, Numbers DEF Ends
      <4>2. \A x \in rows : Rank(rows, x) \in Nat /\ Rank(rows, x) < Cardinality(rows)
        BY <4>1, RankType, RankGrows, RowsAreFinite
      <4>3. Cardinality(rows) \in Nat
        BY <4>1, RowsAreFinite
      <4>4. \A x \in rows : Rank(rows, x) < at + want
        BY <1>2, <4>1, <4>2, <4>3
      <4>5. how.start \in Nat
        BY ReadIsFixed
      <4> QED
        BY <4>2, <4>4, <4>5 DEF Wanted
    <3>2. left = P \cap H
      BY <2>1, <2>2, <3>1, TakeSteps
    <3>3. filtered' = Cardinality(P \cap H)
      BY <2>1, <2>2, <2>3, <2>4, <2>5
    <3> HIDE DEF P, left
    <3> QED
      BY <1>4, <3>2, <3>3
  <2>6. CASE ~how.counted
    <3>1. Page(want) = {} /\ got' = got
      BY <1>1, <2>6, TakeSteps DEF Ends
    <3>2. Passed \in SUBSET Wanted
      BY Numbers, RankType, ReadIsFixed DEF Passed, Wanted
    <3>3. Passed \cap H \in SUBSET left /\ left \in SUBSET Rows
      BY <1>3, <2>1, <3>1, <3>2
    <3>4. Cardinality(Passed \cap H) <= Cardinality(left)
      <4> HIDE DEF left, H
      <4> QED
        BY <3>3, PartOfRows
    <3>5. filtered' <= Cardinality(Passed \cap H) /\ filtered' \in Nat
      BY <1>2, <2>1, <2>4, <2>6
    <3> HIDE DEF left, H
    <3> QED
      BY <1>4, <2>2, <2>6, <3>4, <3>5
  <2> QED
    BY <2>5, <2>6, ReadIsFixed
<1>6. CASE cursor # 0
  <2>1. scanned > 0 /\ how.keyset /\ total = IF how.counted THEN Cardinality(rows) ELSE Unknown
    BY <1>6, Numbers DEF Shape, Figures
  <2>2. Cardinality(rows) \in Nat /\ Cardinality(rows) # Unknown /\ how.start \in Nat
    <3>1. Cardinality(rows) \in Nat /\ Cardinality(rows) <= MaxRow /\ MaxRow \in Nat
      BY Numbers, RowsAreFinite
    <3> QED
      BY <3>1, ReadIsFixed DEF Unknown
  <2>3. CASE how.counted
    <3>1. filtered' = Cardinality(rows) - Min({Cardinality(rows), how.start + fetched'})
      BY <1>1, <1>6, <2>1, <2>2, <2>3 DEF Settled
    <3>2. Min({Cardinality(rows), how.start + fetched'})
            = IF Cardinality(rows) <= how.start + fetched' THEN Cardinality(rows)
              ELSE how.start + fetched'
      BY <1>2, <2>2, SmallerOfTwo
    <3>3. Cardinality(Wanted) = IF how.start <= Cardinality(rows)
                                THEN Cardinality(rows) - how.start ELSE 0
      BY WantedCount
    <3>4. filtered' = Cardinality(left)
      <4>1. \A c \in Nat, b \in Nat, f \in Nat, l \in Nat :
              l = (IF b <= c THEN c - b ELSE 0) - f
                => c - (IF c <= b + f THEN c ELSE b + f) = l
        OBVIOUS
      <4>2. Cardinality(left) = (IF how.start <= Cardinality(rows)
                                 THEN Cardinality(rows) - how.start ELSE 0) - fetched'
        BY <1>4, <3>3
      <4> HIDE DEF left
      <4>3. Cardinality(rows) - (IF Cardinality(rows) <= how.start + fetched'
                                 THEN Cardinality(rows) ELSE how.start + fetched')
              = Cardinality(left)
        BY <1>2, <1>4, <2>2, <4>1, <4>2
      <4> QED
        BY <3>1, <3>2, <4>3
    <3> HIDE DEF left
    <3> QED
      BY <1>4, <3>4
  <2>4. CASE ~how.counted
    <3>1. filtered' = sum
      BY <1>1, <2>1, <2>4 DEF Settled
    <3>2. filtered = 0
      BY <2>1, <2>4, TakeSteps DEF Figures
    <3> HIDE DEF left
    <3> QED
      BY <1>4, <2>4, <3>1, <3>2
  <2> QED
    BY <2>3, <2>4, ReadIsFixed
<1> HIDE DEF left
<1> QED
  BY <1>5, <1>6, Numbers

LEMMA TakeStep ==
  ASSUME Take, FetchIInv
  PROVE  FetchIInv'
BY TakeTypes, TakeKeepsShape, TakeKeepsBehind, TakeKeepsOnce, TakeKeepsStuck, TakeKeepsAhead,
   TakeKeepsFigures, TakeKeepsEachRow, TakeKeepsSays DEF FetchIInv

-----------------------------------------------------------------------------
(* The other steps. *)

\* A turn that stops at a repeated page.
LEMMA RepeatedStep ==
  ASSUME Turn, Repeated(Page(want)), FetchIInv
  PROVE  FetchIInv'
<1>0. FetchTypeOK /\ Shape /\ Behind /\ NoneTwice /\ Figures
  BY DEF FetchIInv
<1>1. /\ result' = "stopped" /\ want \in Nat \ {0} /\ scanned' = scanned + want
      /\ cursor' = cursor /\ at' = at /\ fetched' = fetched /\ filtered' = filtered /\ got' = got
      /\ gap' = gap /\ prev' = prev
      /\ rows' = rows /\ how' = how /\ stayed' = stayed /\ slid' = slid /\ changes' = changes
      /\ total' = IF cursor = 0 /\ total = Unknown /\ how.counted
                  THEN Cardinality(Matching) ELSE total
  BY <1>0, WantedRows DEF Turn
<1>2. scanned' \in Nat /\ scanned' # 0 /\ scanned' > 0
  BY <1>0, <1>1, Numbers
<1>3. FetchTypeOK'
  <2>1. Cardinality(Matching) \in 0..Unknown
    <3>1. Cardinality(Matching) \in Nat /\ Cardinality(Matching) <= MaxRow
      BY <1>0, PastRows, RowsAreFinite
    <3> QED
      BY <1>0, <3>1, Numbers DEF Unknown
  <2> QED
    BY <1>0, <1>1, <1>2, <2>1 DEF FetchTypeOK
<1>4. Shape'
  BY <1>0, <1>1, <1>2 DEF Shape
<1>5. Behind' /\ NoneTwice'
  BY <1>0, <1>1 DEF Behind, NoneTwice, Sound
<1>6. Stuck' /\ NoneSkipped'
  BY <1>1 DEF Stuck, NoneSkipped
<1>7. Figures'
  <2> SUFFICES ASSUME changes = 0, Sound
               PROVE  Figures'
    BY <1>1 DEF Figures, Sound
  <2>1. total' = IF how.counted THEN Cardinality(rows) ELSE Unknown
    BY <1>0, TurnTotal
  <2> QED
    BY <1>0, <1>1, <1>2, <2>1 DEF Figures, Wanted
<1>8. EachRowOnce'
  <2>1. ~(Sound /\ ~slid /\ ~how.alike)
    BY <1>0, NoRepeat
  <2> QED
    BY <1>0, <1>1, <2>1 DEF EachRowOnce, NoneTwice, Sound
<1>9. SaysWhatItLeft'
  BY <1>1 DEF SaysWhatItLeft
<1> QED
  BY <1>3, <1>4, <1>5, <1>6, <1>7, <1>8, <1>9 DEF FetchIInv

\* The steps that only end the read.
LEMMA EndKeeps ==
  ASSUME FetchIInv, result' \in {"cap", "scan_limit", "failed"},
         UNCHANGED <<rows, how, cursor, at, scanned, fetched, total, filtered, got, gap, prev,
                     stayed, slid, changes>>
  PROVE  /\ FetchTypeOK' /\ Shape' /\ Behind' /\ NoneTwice' /\ Stuck' /\ NoneSkipped' /\ Figures'
         /\ EachRowOnce'
<1>0. FetchTypeOK /\ Shape /\ Behind /\ NoneTwice /\ Figures
  BY DEF FetchIInv
<1>1. FetchTypeOK'
  BY <1>0 DEF FetchTypeOK
<1>2. Shape' /\ Behind' /\ NoneTwice'
  BY <1>0 DEF Shape, Behind, NoneTwice, Sound
<1>3. Stuck' /\ NoneSkipped'
  BY DEF Stuck, NoneSkipped
<1>4. Figures'
  BY <1>0 DEF Figures, Sound, Wanted
<1>5. EachRowOnce'
  BY <1>0 DEF EachRowOnce, NoneTwice, Sound, Whole
<1> QED
  BY <1>1, <1>2, <1>3, <1>4, <1>5

LEMMA BreakStep ==
  ASSUME Break, FetchIInv
  PROVE  FetchIInv'
<1>0. FetchTypeOK /\ Shape /\ Behind /\ Figures
  BY DEF FetchIInv
<1>1. /\ result = "reading" /\ result' \in {"cap", "scan_limit"}
      /\ UNCHANGED <<rows, how, cursor, at, scanned, fetched, total, filtered, got, gap, prev,
                     stayed, slid, changes>>
  BY DEF Break
<1>2. SaysWhatItLeft'
  <2> SUFFICES ASSUME changes = 0, Sound, how.counted
               PROVE  Wanted \ got # {}
    BY <1>1 DEF SaysWhatItLeft, Sound, Wanted
  <2>1. scanned > 0
    <3>1. CASE want = 0
      <4>1. fetched # 0
        BY <1>0, <3>1, WantedRows, Numbers
      <4> QED
        BY <1>0, <4>1, Numbers DEF Shape
    <3>2. CASE scanned >= Cap * ScanFactor
      <4>1. \A a \in Nat \ {0}, b \in Nat \ {0} : a * b \in Nat /\ a * b > 0
        OBVIOUS
      <4>2. Cap * ScanFactor \in Nat /\ Cap * ScanFactor > 0 /\ scanned \in Nat
        BY <1>0, <4>1, Numbers
      <4> QED
        BY <3>2, <4>2
    <3> QED
      BY <3>1, <3>2 DEF Break
  <2>2. at < Cardinality(Past(cursor)) /\ Past(cursor) \in SUBSET Rows
    BY <1>0, <1>1, <2>1, PastRows DEF Figures
  <2>3. at \in Nat /\ how.start \in Nat /\ rows \in SUBSET Rows
    BY <1>0, Numbers, ReadIsFixed
  <2>4. PICK y \in Past(cursor) : Rank(Past(cursor), y) = at
    BY <2>2, <2>3, RankTaken
  <2>5. y \in rows /\ y > cursor /\ y \in Int /\ Rank(rows, y) \in Nat
    BY <2>3, <2>4, RankType, RowsAreFinite DEF Past
  <2>6. CASE cursor = 0
    <3>1. how.start <= at /\ Past(cursor) = rows /\ got = Passed \ how.hidden
      BY <1>0, <1>1, <2>6, PastRows DEF Figures
    <3>2. y \in Wanted /\ y \notin Passed
      BY <2>3, <2>4, <2>5, <3>1 DEF Wanted, Passed
    <3> QED
      BY <3>1, <3>2
  <2>7. CASE cursor # 0
    <3>1. how.keyset /\ cursor \in got /\ cursor \in Wanted /\ cursor \in Int
      BY <1>0, <2>7, Numbers DEF Shape, Figures
    <3>2. y \notin got
      <4>1. y \in got => y <= cursor
        BY <1>0, <3>1 DEF Behind
      <4> QED
        BY <2>5, <3>1, <4>1
    <3>3. Rank(rows, cursor) <= Rank(rows, y) /\ how.start <= Rank(rows, cursor)
          /\ Rank(rows, cursor) \in Nat
      BY <2>3, <2>5, <3>1, RankGrows, RankType DEF Wanted
    <3>4. y \in Wanted
      BY <2>3, <2>5, <3>3 DEF Wanted
    <3> QED
      BY <3>2, <3>4
  <2> QED
    BY <2>6, <2>7
<1> QED
  BY <1>1, <1>2, EndKeeps DEF FetchIInv

LEMMA FetchFailsStep ==
  ASSUME FetchFails, FetchIInv
  PROVE  FetchIInv'
<1>1. result' = "failed"
      /\ UNCHANGED <<rows, how, cursor, at, scanned, fetched, total, filtered, got, gap, prev,
                     stayed, slid, changes>>
  BY DEF FetchFails
<1>2. SaysWhatItLeft'
  BY <1>1 DEF SaysWhatItLeft
<1> QED
  BY <1>1, <1>2, EndKeeps DEF FetchIInv

\* A row that is inserted or deleted past the rows to skip moves no row into them.
LEMMA EditBehind ==
  ASSUME NEW r \in Rows, EditRow(r), FetchIInv
  PROVE  Behind'
<1>0. FetchTypeOK /\ Shape /\ Behind
  BY DEF FetchIInv
<1>1. how' = how /\ got' = got /\ cursor' = cursor /\ at' = at
      /\ slid' = (slid \/ /\ r > cursor /\ Rank(Past(cursor), r) < at
                          /\ r \in rows \/ ~how.keyset)
      /\ rows' = IF r \in rows THEN rows \ {r} ELSE rows \cup {r}
  BY DEF EditRow, read
<1> SUFFICES ASSUME Sound, ~how.keyset, ~slid', NEW x \in got
             PROVE  x \in rows' /\ Rank(rows', x) < at
  BY <1>0, <1>1 DEF Behind, Sound
<1>2. cursor = 0 /\ Past(cursor) = rows /\ rows \in SUBSET Rows /\ got \in SUBSET Rows /\ at \in Nat
  BY <1>0, PastRows, Numbers DEF Shape
<1>3. r \in Int /\ r > cursor /\ x \in Int
  BY <1>0, <1>2, RowsAreFinite, Numbers DEF Rows
<1>4. ~slid /\ ~(Rank(rows, r) < at)
  BY <1>1, <1>2, <1>3
<1>5. x \in rows /\ Rank(rows, x) < at
  BY <1>0, <1>4 DEF Behind
<1>6. Rank(rows, x) \in Nat /\ Rank(rows, r) \in Nat
  BY <1>2, RankType
<1>7. x < r
  <2>1. r <= x => Rank(rows, r) <= Rank(rows, x)
    BY <1>2, <1>3, RankGrows
  <2> QED
    BY <1>2, <1>3, <1>4, <1>5, <1>6, <2>1
<1>8. {y \in rows' : y < x} = {y \in rows : y < x}
  BY <1>1, <1>3, <1>7
<1> QED
  BY <1>1, <1>5, <1>7, <1>8 DEF Rank

LEMMA EditAhead ==
  ASSUME NEW r \in Rows, EditRow(r), FetchIInv
  PROVE  NoneSkipped'
<1>0. FetchTypeOK /\ Shape /\ NoneSkipped
  BY DEF FetchIInv
<1>1. /\ how' = how /\ got' = got /\ cursor' = cursor /\ at' = at /\ result' = result
      /\ slid' = (slid \/ /\ r > cursor /\ Rank(Past(cursor), r) < at
                          /\ r \in rows \/ ~how.keyset)
      /\ rows' = IF r \in rows THEN rows \ {r} ELSE rows \cup {r}
      /\ stayed' = stayed \ {r} /\ result = "reading"
  BY DEF EditRow, read
<1> SUFFICES ASSUME Sound, ~slid', ~how.alike, NEW x \in stayed, x # r, x \notin got
             PROVE  x > cursor /\ at <= Rank(Past(cursor)', x)
  BY <1>1 DEF NoneSkipped, Sound, Rank, Past
<1>2. x > cursor /\ at <= Rank(Past(cursor), x)
  BY <1>0, <1>1 DEF NoneSkipped
<1>3. Past(cursor) \in SUBSET Rows /\ x \in Rows /\ x \in Int /\ r \in Int /\ cursor \in Int /\ at \in Nat
  <2>1. r \in Int /\ x \in Rows
    BY <1>0, Numbers DEF Rows
  <2>2. x \in Int
    BY <2>1, <1>0, Numbers DEF Rows
  <2> QED
    BY <1>0, <2>1, <2>2, PastRows, Numbers
<1>4. Past(cursor)' = {y \in rows' : y > cursor}
  BY <1>1 DEF Past
<1>5. Rank(Past(cursor), x) \in Nat
  BY <1>3, RankType
<1>6. CASE r \notin rows
  <2>1. Past(cursor) \in SUBSET Past(cursor)' /\ Past(cursor)' \in SUBSET Rows
    BY <1>0, <1>1, <1>4, <1>6, Numbers DEF Past
  <2>2. Rank(Past(cursor), x) <= Rank(Past(cursor)', x) /\ Rank(Past(cursor)', x) \in Nat
    BY <2>1, RankOfMore, RankType
  <2> QED
    BY <1>2, <1>3, <1>5, <2>2
<1>7. CASE r \in rows
  <2>1. Past(cursor)' = Past(cursor) \ {r}
    BY <1>1, <1>4, <1>7 DEF Past
  <2>2. CASE r > cursor /\ r < x
    <3>1. r \in Past(cursor) /\ ~(Rank(Past(cursor), r) < at)
      BY <1>1, <1>7, <2>2 DEF Past
    <3>2. Rank(Past(cursor), r) < Rank(Past(cursor), x) /\ Rank(Past(cursor), r) \in Nat
      BY <1>3, <2>2, <3>1, RankGrows, RankType
    <3>3. Rank(Past(cursor), x) - 1 <= Rank(Past(cursor)', x)
      BY <1>3, <2>1, RankOfLess
    <3>4. Rank(Past(cursor)', x) \in Nat
      BY <1>3, <2>1, RankType
    <3> QED
      BY <1>2, <1>3, <1>5, <3>1, <3>2, <3>3, <3>4
  <2>3. CASE ~(r > cursor /\ r < x)
    <3>1. {y \in Past(cursor)' : y < x} = {y \in Past(cursor) : y < x}
      BY <2>1, <2>3 DEF Past
    <3> QED
      BY <1>2, <3>1 DEF Rank
  <2> QED
    BY <2>2, <2>3
<1> QED
  BY <1>6, <1>7

LEMMA EditStep ==
  ASSUME NEW r \in Rows, EditRow(r), FetchIInv
  PROVE  FetchIInv'
<1>0. FetchTypeOK /\ Shape /\ NoneTwice
  BY DEF FetchIInv
<1>1. /\ how' = how /\ cursor' = cursor /\ at' = at /\ scanned' = scanned /\ fetched' = fetched
      /\ total' = total /\ filtered' = filtered /\ got' = got /\ gap' = gap /\ prev' = prev
      /\ result' = result /\ result = "reading" /\ scanned > 0
      /\ changes' = changes + 1 /\ changes' # 0 /\ changes' \in Nat
      /\ rows' = IF r \in rows THEN rows \ {r} ELSE rows \cup {r}
      /\ stayed' = stayed \ {r} /\ slid' \in BOOLEAN /\ (slid => slid')
  BY <1>0, Numbers DEF EditRow, read, FetchTypeOK
<1>2. FetchTypeOK'
  <2>1. rows' \in SUBSET Rows /\ stayed' \in SUBSET Rows
    BY <1>0, <1>1, Numbers
  <2> QED
    BY <1>0, <1>1, <2>1 DEF FetchTypeOK
<1>3. Shape'
  <2>1. stayed' \subseteq rows' \ how.hidden
    BY <1>0, <1>1 DEF Shape
  <2>2. scanned # 0
    BY <1>0, <1>1, Numbers
  <2> QED
    BY <1>0, <1>1, <2>1, <2>2 DEF Shape
<1>4. NoneTwice'
  BY <1>0, <1>1 DEF NoneTwice, Sound
<1>5. Stuck' /\ Figures' /\ SaysWhatItLeft'
  BY <1>1 DEF Stuck, Figures, SaysWhatItLeft
<1>6. EachRowOnce'
  BY <1>1, <1>4 DEF EachRowOnce, NoneTwice, Sound, Whole
<1> QED
  BY <1>2, <1>3, <1>4, <1>5, <1>6, EditBehind, EditAhead DEF FetchIInv

-----------------------------------------------------------------------------
(* The invariant. *)

LEMMA FetchBegins == FetchInit => FetchIInv
<1> SUFFICES ASSUME FetchInit PROVE FetchIInv
  OBVIOUS
<1>1. /\ rows \in SUBSET Rows /\ how \in Reads /\ cursor = 0 /\ at = how.start
      /\ scanned = 0 /\ fetched = 0 /\ got = {} /\ total = Unknown /\ filtered = 0 /\ gap = 0
      /\ prev = 0 /\ result = "reading" /\ stayed = Wanted \ how.hidden /\ slid = FALSE /\ changes = 0
  BY DEF FetchInit
<1>2. how.start \in Nat /\ (how.keyset => ~how.alike) /\ MaxRow \in Nat
  BY <1>1, FetchAssumption DEF Reads
<1>3. FetchTypeOK
  <2>1. rows \in SUBSET Rows /\ got \in SUBSET Rows /\ stayed \in SUBSET Rows
    BY <1>1 DEF Wanted
  <2>2. cursor \in 0..MaxRow /\ prev \in 0..MaxRow /\ total \in 0..Unknown
    BY <1>1, <1>2 DEF Unknown
  <2>3. at \in Nat /\ scanned \in Nat /\ fetched \in Nat /\ filtered \in Nat /\ gap \in Nat
        /\ changes \in Nat
    BY <1>1, <1>2
  <2> QED
    BY <1>1, <2>1, <2>2, <2>3 DEF FetchTypeOK
<1>4. Shape
  BY <1>1, <1>2 DEF Shape, Wanted
<1>5. Behind /\ Stuck
  BY <1>1 DEF Behind, Stuck
<1>6. Cardinality({}) = 0
  BY FS_EmptySet
<1>7. NoneTwice
  BY <1>1, <1>6 DEF NoneTwice
<1>8. NoneSkipped
  <2>1. Past(cursor) = rows
    BY <1>1, <1>3, PastRows
  <2>2. \A x \in rows : x > 0
    BY <1>1, RowsAreFinite
  <2> QED
    BY <1>1, <2>1, <2>2 DEF NoneSkipped, Wanted
<1>9. Figures
  <2>1. Passed = {}
    <3>1. \A x \in rows : Rank(rows, x) \in Nat
      BY <1>1, RankType
    <3> QED
      BY <1>1, <1>2, <3>1 DEF Passed
  <2>2. Passed \cap how.hidden = {} /\ Passed \ how.hidden = {}
    BY <2>1
  <2> QED
    BY <1>1, <1>2, <1>6, <2>2 DEF Figures
<1>10. EachRowOnce
  BY <1>1, <1>6 DEF EachRowOnce, Whole
<1>11. SaysWhatItLeft
  BY <1>1 DEF SaysWhatItLeft
<1> QED
  BY <1>3, <1>4, <1>5, <1>7, <1>8, <1>9, <1>10, <1>11 DEF FetchIInv

LEMMA FetchInductive == FetchIInv /\ [FetchNext]_fetchVars => FetchIInv'
<1> SUFFICES ASSUME FetchIInv, [FetchNext]_fetchVars PROVE FetchIInv'
  OBVIOUS
<1>1. CASE Turn
  BY <1>1, TakeStep, RepeatedStep DEF Take
<1>2. CASE Break
  BY <1>2, BreakStep
<1>3. CASE FetchFails
  BY <1>3, FetchFailsStep
<1>4. ASSUME NEW r \in Rows, EditRow(r) PROVE FetchIInv'
  BY <1>4, EditStep
<1>5. CASE UNCHANGED fetchVars
  BY <1>5 DEF fetchVars, read, FetchIInv, FetchTypeOK, Shape, Behind, NoneTwice, Stuck, NoneSkipped,
              Figures, EachRowOnce, SaysWhatItLeft, Sound, Passed, Wanted, Past, Matching, Page,
              Window, want, Whole, Rank
<1> QED
  BY <1>1, <1>2, <1>3, <1>4, <1>5 DEF FetchNext

LEMMA FetchInvariance == FetchSpec => []FetchIInv
BY FetchBegins, FetchInductive, PTL DEF FetchSpec

\* The variables of a read keep their types.
THEOREM FetchTypeCorrect == FetchSpec => []FetchTypeOK
<1>1. FetchIInv => FetchTypeOK
  BY DEF FetchIInv
<1> QED
  BY <1>1, FetchInvariance, PTL

\* A readable row that stays is returned once by a keyset read, whatever is
\* inserted and deleted meanwhile, and by one by offset as long as the window did
\* not slide (queryTable with fetchAll).
THEOREM RowsComeOnce == FetchSpec => []EachRowOnce
<1>1. FetchIInv => EachRowOnce
  BY DEF FetchIInv
<1> QED
  BY <1>1, FetchInvariance, PTL

\* The figures that a read of a table that was left alone gives of the rows it
\* did not return are true.
THEOREM FiguresAreTrue == FetchSpec => []SaysWhatItLeft
<1>1. FetchIInv => SaysWhatItLeft
  BY DEF FetchIInv
<1> QED
  BY <1>1, FetchInvariance, PTL

-----------------------------------------------------------------------------
(* Watches. *)

USE WatchAssumption

\* The tables hold live watches, each under its own session and record.
Listed ==
    /\ \A w \in Watches : w \in all <=> watch[w].pc = "on"
    /\ \A w \in Watches : watch[w].pc # "free" =>
         watch[w].session \in Sessions /\ watch[w].record \in Records
    /\ \A w \in Watches : watch[w].pc = "free" => watch[w] = Blank
    /\ \A s \in Sessions, r \in Records : mine[s][r] # None =>
         /\ mine[s][r] \in all
         /\ watch[mine[s][r]].session = s /\ watch[mine[s][r]].record = r

\* Every live watch is entered, and its session stops it when it closes.
Entered ==
    /\ \A w \in all : watch[w].session \in hooked
    /\ ~crossed => \A w \in all : Entry(w) = w

\* A subscribe that is still reading knows whether its session closed.
Warned ==
    \A w \in Watches : watch[w].pc = "first" => watch[w].session \in open \/ watch[w].late

IInv == TypeOK /\ Listed /\ Entered /\ Warned /\ NoneLeftBehind /\ CapsKept

Kept == Listed' /\ Entered' /\ Warned' /\ NoneLeftBehind' /\ CapsKept'

-----------------------------------------------------------------------------
LEMMA BlankTyped == Blank \in WatchRecord
BY DEF Blank, WatchRecord

LEMMA LandedTyped ==
  ASSUME NEW v \in WatchRecord
  PROVE  /\ Landed(v) \in WatchRecord
         /\ v.pc # "stopped" => Landed(v).pc = v.pc /\ Landed(v).session = v.session
                                  /\ Landed(v).record = v.record /\ Landed(v).late = v.late
         /\ v.pc = "stopped" => Landed(v) = Blank
BY BlankTyped DEF WatchRecord, Landed, Blank

LEMMA StoppedTyped ==
  ASSUME NEW v \in WatchRecord
  PROVE  /\ Stopped(v) \in WatchRecord
         /\ \/ Stopped(v) = Blank
            \/ Stopped(v).pc = "stopped" /\ Stopped(v).session = v.session /\ Stopped(v).record = v.record
BY BlankTyped DEF WatchRecord, Stopped, Blank

LEMMA SetTyped ==
  ASSUME TypeOK, NEW w \in Watches, NEW v \in WatchRecord, Set(w, v)
  PROVE  /\ watch' \in [Watches -> WatchRecord] /\ watch'[w] = v
         /\ \A u \in Watches : u # w => watch'[u] = watch[u]
BY DEF TypeOK, Set

LEMMA StopTyped ==
  ASSUME TypeOK, NEW W, Stop(W)
  PROVE  /\ all' \subseteq Watches /\ mine' \in [Sessions -> [Records -> Watches \cup {None}]]
         /\ crossed' \in BOOLEAN /\ hooked' = hooked
<1>1. \A s \in Sessions, r \in Records : mine[s][r] \in Watches \cup {None}
  BY DEF TypeOK
<1>2. mine' \in [Sessions -> [Records -> Watches \cup {None}]]
  BY <1>1 DEF Stop
<1>3. crossed' \in BOOLEAN
  BY DEF Stop, TypeOK
<1> QED
  BY <1>2, <1>3 DEF Stop, TypeOK

-----------------------------------------------------------------------------
\* A step that leaves the tables alone: reads, polls and their answers.
LEMMA Quiet ==
  ASSUME IInv, TypeOK', UNCHANGED <<open, tables>>,
         \A w \in Watches :
           \/ /\ watch'[w].pc = watch[w].pc /\ watch'[w].session = watch[w].session
              /\ watch'[w].record = watch[w].record /\ watch'[w].late = watch[w].late
           \/ /\ watch[w].pc # "on" /\ watch'[w].pc # "on"
              /\ watch'[w].pc # "free" =>
                   watch'[w].session \in Sessions /\ watch'[w].record \in Records
              /\ watch'[w].pc = "first" => watch'[w].session \in open,
         \A w \in Watches : watch'[w].pc = "free" => watch'[w] = Blank
  PROVE  Kept
<1>0. TypeOK /\ Listed /\ Entered /\ Warned /\ NoneLeftBehind /\ CapsKept
  BY DEF IInv
<1>1. UNCHANGED <<open, all, mine, hooked, crossed>>
  BY DEF tables
<1>2. \A w \in all : w \in Watches /\ watch'[w].pc = "on" /\ watch'[w].session = watch[w].session
                       /\ watch'[w].record = watch[w].record /\ watch'[w].late = watch[w].late
  BY <1>0 DEF Listed, TypeOK
<1>3. Listed'
  BY <1>0, <1>1, <1>2 DEF Listed
<1>4. Entered'
  BY <1>0, <1>1, <1>2 DEF Entered, Entry
<1>5. Warned'
  BY <1>0, <1>1 DEF Warned
<1>6. NoneLeftBehind'
  BY <1>0, <1>1, <1>2 DEF NoneLeftBehind
<1>7. \A s \in Sessions : Polling(s)' = Polling(s)
  BY <1>1, <1>2 DEF Polling
<1>8. CapsKept'
  BY <1>0, <1>1, <1>7 DEF CapsKept
<1> QED
  BY <1>3, <1>4, <1>5, <1>6, <1>8 DEF Kept

LEMMA Finite ==
  ASSUME TypeOK
  PROVE  /\ IsFiniteSet(all) /\ Cardinality(all) \in Nat
         /\ \A s : IsFiniteSet(Polling(s)) /\ Cardinality(Polling(s)) \in Nat
         /\ \A s : IsFiniteSet(Watched(s)) /\ Cardinality(Watched(s)) \in Nat
<1>1. IsFiniteSet(all) /\ Cardinality(all) \in Nat
  BY FS_Subset, FS_CardinalityType DEF TypeOK
<1>2. ASSUME NEW s PROVE IsFiniteSet(Polling(s)) /\ Cardinality(Polling(s)) \in Nat
  <2>1. Polling(s) \in SUBSET all
    BY DEF Polling
  <2> QED
    BY <1>1, <2>1, FS_Subset, FS_CardinalityType
<1>3. ASSUME NEW s PROVE IsFiniteSet(Watched(s)) /\ Cardinality(Watched(s)) \in Nat
  <2>1. Watched(s) \in SUBSET Records
    BY DEF Watched
  <2> QED
    BY <2>1, FS_Subset, FS_CardinalityType
<1> QED
  BY <1>1, <1>2, <1>3

\* Watches W stop; what holds of the others is left to show.
LEMMA Stopping ==
  ASSUME IInv, TypeOK', NEW W \in SUBSET Watches, Stop(W),
         \A w \in Watches \ W :
           /\ watch'[w].pc = "free" => watch'[w] = watch[w]
           /\ watch'[w].pc = watch[w].pc /\ watch'[w].session = watch[w].session
           /\ watch'[w].record = watch[w].record,
         \A w \in W :
           /\ watch'[w].pc \in {"free", "stopped"}
           /\ watch'[w].pc = "stopped" =>
                watch'[w].session \in Sessions /\ watch'[w].record \in Records
           /\ watch'[w].pc = "free" => watch'[w] = Blank,
         Warned', NoneLeftBehind'
  PROVE  Kept
<1>0. TypeOK /\ Listed /\ Entered /\ CapsKept
  BY DEF IInv
<1>1. /\ all' = all \ W /\ hooked' = hooked
      /\ ~crossed' => ~crossed /\ \A w \in W : Entry(w) \in W \cup {None}
  BY DEF Stop
<1>2. \A s \in Sessions, r \in Records :
        mine'[s][r] = IF \E w \in W : watch[w].session = s /\ watch[w].record = r
                      THEN None ELSE mine[s][r]
  BY DEF Stop
<1>3. Listed'
  <2>1. \A w \in Watches : w \in all' <=> watch'[w].pc = "on"
    BY <1>0, <1>1 DEF Listed
  <2>2. \A w \in Watches : watch'[w].pc # "free" =>
          watch'[w].session \in Sessions /\ watch'[w].record \in Records
    BY <1>0 DEF Listed
  <2>3. ASSUME NEW s \in Sessions, NEW r \in Records, mine'[s][r] # None
        PROVE  /\ mine'[s][r] \in all'
               /\ watch'[mine'[s][r]].session = s /\ watch'[mine'[s][r]].record = r
    <3>1. /\ mine'[s][r] = mine[s][r] /\ mine[s][r] # None
          /\ \A w \in W : ~(watch[w].session = s /\ watch[w].record = r)
      BY <1>2, <2>3
    <3>2. mine[s][r] \in all /\ watch[mine[s][r]].session = s /\ watch[mine[s][r]].record = r
      BY <1>0, <3>1 DEF Listed
    <3>3. mine[s][r] \in Watches \ W
      BY <1>0, <3>1, <3>2 DEF TypeOK
    <3> QED
      BY <1>1, <3>1, <3>2, <3>3
  <2>4. \A w \in Watches : watch'[w].pc = "free" => watch'[w] = Blank
    BY <1>0 DEF Listed
  <2> QED
    BY <2>1, <2>2, <2>3, <2>4 DEF Listed
<1>4. Entered'
  <2>1. \A w \in all' : w \in all /\ w \in Watches \ W
    BY <1>0, <1>1 DEF TypeOK
  <2>2. \A w \in all' : watch'[w].session \in hooked'
    BY <1>0, <1>1, <2>1 DEF Entered
  <2>3. ASSUME ~crossed', NEW w \in all' PROVE Entry(w)' = w
    <3> DEFINE s == watch[w].session
               r == watch[w].record
    <3>1. w \in all /\ w \in Watches \ W /\ w # None
      BY <2>1
    <3>2. s \in Sessions /\ r \in Records /\ mine[s][r] = w
      BY <1>0, <1>1, <2>3, <3>1 DEF Listed, Entered, Entry
    <3>3. \A u \in W : ~(watch[u].session = s /\ watch[u].record = r)
      BY <1>1, <2>3, <3>1, <3>2 DEF Entry
    <3>4. mine'[s][r] = w
      BY <1>2, <3>2, <3>3
    <3> QED
      BY <3>1, <3>4 DEF Entry
  <2> QED
    BY <2>2, <2>3 DEF Entered
<1>5. CapsKept'
  <2>1. Cardinality(all') <= MaxWatches
    <3>1. Cardinality(all') \in Nat /\ Cardinality(all') <= Cardinality(all)
      BY <1>0, <1>1, Finite, FS_Subset, FS_CardinalityType
    <3> QED
      BY <1>0, <3>1, Finite DEF CapsKept
  <2>2. ASSUME ~crossed', NEW s \in Sessions PROVE Cardinality(Polling(s)') <= MaxPerSession
    <3>1. Polling(s)' \in SUBSET Polling(s)
      BY <1>0, <1>1 DEF Polling, TypeOK
    <3>2. Cardinality(Polling(s)') \in Nat /\ Cardinality(Polling(s)') <= Cardinality(Polling(s))
      BY <1>0, <3>1, Finite, FS_Subset, FS_CardinalityType
    <3>3. Cardinality(Polling(s)) <= MaxPerSession
      BY <1>0, <1>1, <2>2 DEF CapsKept
    <3> QED
      BY <1>0, <3>2, <3>3, Finite
  <2> QED
    BY <2>1, <2>2 DEF CapsKept
<1> QED
  BY <1>3, <1>4, <1>5 DEF Kept

-----------------------------------------------------------------------------
\* The tables show every live watch of a session: none beyond its map is polled.
LEMMA PollingCounted ==
  ASSUME IInv, ~crossed, NEW s \in Sessions
  PROVE  Cardinality(Polling(s)) <= Cardinality(Watched(s))
<1> DEFINE f == [w \in Polling(s) |-> watch[w].record]
<1>0. TypeOK /\ Listed /\ Entered
  BY DEF IInv
<1>1. ASSUME NEW w \in Polling(s)
      PROVE  watch[w].record \in Watched(s) /\ mine[s][watch[w].record] = w
  <2>1. w \in all /\ watch[w].session = s /\ w \in Watches
    BY <1>0 DEF Polling, TypeOK
  <2>2. watch[w].record \in Records
    BY <1>0, <2>1 DEF Listed
  <2>3. mine[s][watch[w].record] = w /\ w # None
    BY <1>0, <2>1 DEF Entered, Entry
  <2> QED
    BY <2>2, <2>3 DEF Watched
<1>2. f \in Injection(Polling(s), Watched(s))
  BY <1>1 DEF Injection, IsInjective
<1> QED
  BY <1>0, <1>2, Finite, FS_Injection

LEMMA InstallStep ==
  ASSUME IInv, NEW w \in Watches, Install(w)
  PROVE  TypeOK' /\ Kept
<1>0. TypeOK /\ Listed /\ Entered /\ Warned /\ NoneLeftBehind /\ CapsKept
  BY DEF IInv
<1> DEFINE v == [Landed(watch[w]) EXCEPT !.pc = "on", !.seen = watch[w].answer,
                                         !.told = watch[w].answer]
           s == watch[w].session
           r == watch[w].record
<1>1. watch[w] \in WatchRecord /\ watch[w].pc = "first" /\ s \in Sessions /\ r \in Records
  BY <1>0 DEF Install, TypeOK, Listed
<1>2. Landed(watch[w]) \in WatchRecord /\ Landed(watch[w]).session = s
        /\ Landed(watch[w]).record = r /\ Landed(watch[w]).late = watch[w].late
  BY <1>1, LandedTyped
<1>3. v \in WatchRecord /\ v.pc = "on" /\ v.session = s /\ v.record = r /\ v.late = watch[w].late
  BY <1>1, <1>2 DEF WatchRecord
<1>4. /\ watch' \in [Watches -> WatchRecord] /\ watch'[w] = v
      /\ \A u \in Watches : u # w => watch'[u] = watch[u]
  BY <1>0, <1>3, SetTyped DEF Install
<1> HIDE DEF v
<1>5. /\ all' = all \cup {w} /\ hooked' = hooked \cup {s}
      /\ UNCHANGED <<version, open, crossed, failures>>
      /\ mine[s][r] = None
      /\ Cardinality(Watched(s)) < MaxPerSession /\ Cardinality(all) < MaxWatches
  BY <1>0, Finite DEF Install, CanInstall, Entry, Full
<1>6. w \notin all
  BY <1>0, <1>1 DEF Listed
<1>7. /\ mine' \in [Sessions -> [Records -> Watches \cup {None}]] /\ mine'[s][r] = w
      /\ \A t \in Sessions, q \in Records : t # s \/ q # r => mine'[t][q] = mine[t][q]
  BY <1>0, <1>1 DEF Install, TypeOK
<1>8. TypeOK'
  BY <1>0, <1>1, <1>4, <1>5, <1>7 DEF TypeOK
<1>9. Listed'
  <2>1. \A u \in Watches : u \in all' <=> watch'[u].pc = "on"
    BY <1>0, <1>3, <1>4, <1>5 DEF Listed
  <2>2. \A u \in Watches : watch'[u].pc # "free" =>
          watch'[u].session \in Sessions /\ watch'[u].record \in Records
    <3>1. watch'[w].session \in Sessions /\ watch'[w].record \in Records
      BY <1>1, <1>3, <1>4
    <3>2. \A u \in Watches : u # w /\ watch'[u].pc # "free" =>
            watch'[u].session \in Sessions /\ watch'[u].record \in Records
      BY <1>0, <1>4 DEF Listed
    <3> QED
      BY <3>1, <3>2
  <2>3. ASSUME NEW t \in Sessions, NEW q \in Records, mine'[t][q] # None
        PROVE  /\ mine'[t][q] \in all'
               /\ watch'[mine'[t][q]].session = t /\ watch'[mine'[t][q]].record = q
    <3>1. CASE t = s /\ q = r
      BY <1>3, <1>4, <1>5, <1>7, <3>1
    <3>2. CASE t # s \/ q # r
      <4>1. mine'[t][q] = mine[t][q]
        BY <1>7, <3>2
      <4>2. mine[t][q] \in all /\ mine[t][q] \in Watches /\ mine[t][q] # w
            /\ watch[mine[t][q]].session = t /\ watch[mine[t][q]].record = q
        BY <1>0, <1>6, <2>3, <4>1 DEF Listed, TypeOK
      <4> QED
        BY <1>4, <1>5, <4>1, <4>2
    <3> QED
      BY <3>1, <3>2
  <2>4. \A u \in Watches : watch'[u].pc = "free" => watch'[u] = Blank
    BY <1>0, <1>3, <1>4 DEF Listed
  <2> QED
    BY <2>1, <2>2, <2>3, <2>4 DEF Listed
<1>10. Entered'
  <2>1. ASSUME NEW u \in all' PROVE watch'[u].session \in hooked'
    <3>1. u = w \/ (u \in all /\ u \in Watches /\ u # w)
      BY <1>0, <1>5 DEF TypeOK
    <3> QED
      BY <1>0, <1>3, <1>4, <1>5, <3>1 DEF Entered
  <2>2. ASSUME ~crossed', NEW u \in all' PROVE Entry(u)' = u
    <3>1. CASE u = w
      BY <1>3, <1>4, <1>7, <3>1 DEF Entry
    <3>2. CASE u # w
      <4>1. u \in all /\ u \in Watches /\ watch'[u] = watch[u] /\ u # None
        BY <1>0, <1>4, <1>5, <3>2 DEF TypeOK
      <4>2. mine[watch[u].session][watch[u].record] = u
        BY <1>0, <1>5, <2>2, <4>1 DEF Entered, Entry
      <4>3. watch[u].session \in Sessions /\ watch[u].record \in Records
        BY <1>0, <4>1 DEF Listed
      <4>4. watch[u].session # s \/ watch[u].record # r
        BY <1>5, <4>1, <4>2
      <4> QED
        BY <1>7, <4>1, <4>2, <4>3, <4>4 DEF Entry
    <3> QED
      BY <3>1, <3>2
  <2> QED
    BY <2>1, <2>2 DEF Entered
<1>11. Warned'
  BY <1>0, <1>3, <1>4, <1>5 DEF Warned
<1>12. NoneLeftBehind'
  <2> SUFFICES ASSUME NEW u \in all'
               PROVE  watch'[u].session \in open' \/ watch'[u].late \/ crossed'
    BY DEF NoneLeftBehind
  <2>1. CASE u = w
    <3>1. s \in open \/ watch[w].late
      BY <1>0, <1>1 DEF Warned
    <3> QED
      BY <1>3, <1>4, <1>5, <2>1, <3>1
  <2>2. CASE u # w
    BY <1>0, <1>4, <1>5, <2>2 DEF NoneLeftBehind, TypeOK
  <2> QED
    BY <2>1, <2>2
<1>13. CapsKept'
  <2>1. Cardinality(all') <= MaxWatches
    <3>1. Cardinality(all') = Cardinality(all) + 1
      BY <1>0, <1>5, <1>6, Finite, FS_AddElement
    <3> QED
      BY <1>0, <1>5, <3>1, Finite
  <2>2. ASSUME ~crossed', NEW t \in Sessions PROVE Cardinality(Polling(t)') <= MaxPerSession
    <3>1. CASE t = s
      <4>1. Polling(t)' = Polling(t) \cup {w} /\ w \notin Polling(t)
        <5>1. watch'[w].session = t
          BY <1>3, <1>4, <3>1
        <5>2. \A u \in all : u \in Watches /\ u # w /\ watch'[u] = watch[u]
          BY <1>0, <1>4, <1>6 DEF TypeOK
        <5> QED
          BY <1>5, <1>6, <5>1, <5>2 DEF Polling
      <4>2. Cardinality(Polling(t)') = Cardinality(Polling(t)) + 1
        BY <1>0, <4>1, Finite, FS_AddElement
      <4>3. Cardinality(Polling(t)) <= Cardinality(Watched(t))
        BY <1>5, <2>2, PollingCounted
      <4> QED
        BY <1>0, <1>5, <3>1, <4>2, <4>3, Finite
    <3>2. CASE t # s
      <4>1. Polling(t)' = Polling(t)
        BY <1>0, <1>3, <1>4, <1>5, <1>6, <3>2 DEF Polling, TypeOK
      <4> QED
        BY <1>0, <1>5, <2>2, <4>1 DEF CapsKept
    <3> QED
      BY <3>1, <3>2
  <2> QED
    BY <2>1, <2>2 DEF CapsKept
<1> QED
  BY <1>8, <1>9, <1>10, <1>11, <1>12, <1>13 DEF Kept

-----------------------------------------------------------------------------
\* One watch moves and the tables stay.
LEMMA QuietSet ==
  ASSUME IInv, UNCHANGED <<open, tables>>, NEW w \in Watches, NEW v \in WatchRecord, Set(w, v),
         version' \in [Records -> Versions], failures' \in 0 .. MaxFailures,
         \/ /\ v.pc = watch[w].pc /\ v.session = watch[w].session
            /\ v.record = watch[w].record /\ v.late = watch[w].late
         \/ watch[w].pc # "on" /\ v = Blank
         \/ /\ watch[w].pc # "on" /\ v.pc = "first" /\ v.session \in open
            /\ v.record \in Records,
         watch[w].pc # "free" \/ v.pc # "free" \/ v = Blank
  PROVE  TypeOK' /\ Kept
<1>0. TypeOK /\ open \subseteq Sessions /\ Blank.pc = "free"
  BY DEF IInv, TypeOK, Blank
<1>1. /\ watch' \in [Watches -> WatchRecord] /\ watch'[w] = v
      /\ \A u \in Watches : u # w => watch'[u] = watch[u]
  BY <1>0, SetTyped
<1>2. TypeOK'
  BY <1>0, <1>1 DEF TypeOK, tables
<1>3. ASSUME NEW u \in Watches
      PROVE  \/ /\ watch'[u].pc = watch[u].pc /\ watch'[u].session = watch[u].session
                /\ watch'[u].record = watch[u].record /\ watch'[u].late = watch[u].late
             \/ /\ watch[u].pc # "on" /\ watch'[u].pc # "on"
                /\ watch'[u].pc # "free" =>
                     watch'[u].session \in Sessions /\ watch'[u].record \in Records
                /\ watch'[u].pc = "first" => watch'[u].session \in open
  <2>1. CASE u = w
    BY <1>0, <1>1, <2>1
  <2>2. CASE u # w
    BY <1>1, <2>2
  <2> QED
    BY <2>1, <2>2
<1>4. \A u \in Watches : watch'[u].pc = "free" => watch'[u] = Blank
  BY <1>1 DEF IInv, Listed
<1> QED
  BY <1>2, <1>3, <1>4, Quiet

LEMMA SubscribeStep ==
  ASSUME IInv, NEW w \in Watches, NEW s \in Sessions, NEW r \in Records, Subscribe(w, s, r)
  PROVE  TypeOK' /\ Kept
<1> DEFINE v == [Blank EXCEPT !.pc = "first", !.session = s, !.record = r, !.flight = "asked"]
<1>1. v \in WatchRecord /\ v.pc = "first" /\ v.session = s /\ v.record = r
  BY DEF Blank, WatchRecord
<1>2. version' \in [Records -> Versions] /\ failures' \in 0 .. MaxFailures
  BY DEF Subscribe, IInv, TypeOK
<1>3. /\ UNCHANGED <<open, tables>> /\ Set(w, v) /\ watch[w].pc = "free" /\ s \in open
  BY DEF Subscribe
<1> HIDE DEF v
<1> QED
  BY <1>1, <1>2, <1>3, QuietSet

LEMMA RefuseStep ==
  ASSUME IInv, NEW w \in Watches, Refuse(w)
  PROVE  TypeOK' /\ Kept
<1>1. Blank \in WatchRecord /\ Blank.pc = "free"
  BY BlankTyped DEF Blank
<1>2. version' \in [Records -> Versions] /\ failures' \in 0 .. MaxFailures
  BY DEF Refuse, IInv, TypeOK
<1>3. /\ UNCHANGED <<open, tables>> /\ Set(w, Blank) /\ watch[w].pc = "first"
  BY DEF Refuse
<1> QED
  BY <1>1, <1>2, <1>3, QuietSet

\* A poll goes on, or lands: of a stopped watch nothing is left then.
LEMMA PollingStep ==
  ASSUME IInv, NEW w \in Watches, Serve(w) \/ Tick(w) \/ Same(w) \/ Moved(w) \/ Sent(w)
  PROVE  TypeOK' /\ Kept
<1>0. /\ watch[w] \in WatchRecord /\ version \in [Records -> Versions]
      /\ version' \in [Records -> Versions] /\ failures' \in 0 .. MaxFailures
      /\ UNCHANGED <<open, tables>>
  BY DEF Serve, Tick, Same, Moved, Sent, IInv, TypeOK
<1>a. /\ watch[w].pc # "free"
      /\ watch[w].record \in Records
  <2>1. watch[w] # Blank \/ watch[w].pc = "on"
    BY DEF Serve, Tick, Same, Moved, Sent, Polled, Blank, IInv, Listed
  <2> QED
    BY <2>1 DEF IInv, Listed
<1> DEFINE Follows(v) ==
             /\ v \in WatchRecord
             /\ \/ /\ v.pc = watch[w].pc /\ v.session = watch[w].session
                   /\ v.record = watch[w].record /\ v.late = watch[w].late
                \/ watch[w].pc # "on" /\ v = Blank
<1>1. ASSUME NEW v, Follows(v), Set(w, v) PROVE TypeOK' /\ Kept
  BY <1>0, <1>1, <1>a, QuietSet
<1>2. ASSUME NEW v \in WatchRecord, v.pc = watch[w].pc, v.session = watch[w].session,
             v.record = watch[w].record, v.late = watch[w].late
      PROVE  Follows(Landed(v))
  BY <1>2, LandedTyped
<1>3. CASE Serve(w)
  <2>1. version[watch[w].record] \in Versions
    BY <1>0, <1>a
  <2>2. Follows([watch[w] EXCEPT !.answer = version[watch[w].record]])
    BY <1>0, <2>1 DEF WatchRecord
  <2> QED
    BY <1>1, <1>3, <2>2 DEF Serve
<1>4. CASE Tick(w)
  <2>1. Follows([watch[w] EXCEPT !.flight = "asked"])
    BY <1>0 DEF WatchRecord
  <2> QED
    BY <1>1, <1>4, <2>1 DEF Tick
<1>5. CASE Same(w)
  <2>1. Follows(Landed(watch[w]))
    BY <1>0, <1>2
  <2> QED
    BY <1>1, <1>5, <2>1 DEF Same
<1>6. CASE Moved(w)
  <2>1. Follows([watch[w] EXCEPT !.seen = watch[w].answer, !.answer = None, !.flight = "sending"])
    BY <1>0 DEF WatchRecord
  <2> QED
    BY <1>1, <1>6, <2>1 DEF Moved
<1>7. CASE Sent(w)
  <2> DEFINE v == [watch[w] EXCEPT !.told = watch[w].seen]
  <2>1. /\ v \in WatchRecord /\ v.pc = watch[w].pc /\ v.session = watch[w].session
        /\ v.record = watch[w].record /\ v.late = watch[w].late
    BY <1>0 DEF WatchRecord
  <2> HIDE DEF v
  <2>2. Follows(Landed(v))
    BY <1>2, <2>1
  <2> QED
    BY <1>1, <1>7, <2>2 DEF Sent, v
<1> QED
  BY <1>3, <1>4, <1>5, <1>6, <1>7

LEMMA FailsStep ==
  ASSUME IInv, NEW w \in Watches, Fails(w)
  PROVE  TypeOK' /\ Kept
<1>1. /\ watch[w] \in WatchRecord /\ watch[w].pc # "free"
      /\ version' \in [Records -> Versions] /\ failures' \in 0 .. MaxFailures
      /\ UNCHANGED <<open, tables>>
  BY DEF Fails, IInv, TypeOK, Listed, Blank
<1>2. CASE watch[w].pc = "first"
  BY <1>1, <1>2, BlankTyped, QuietSet DEF Fails
<1>3. CASE watch[w].pc # "first"
  <2> DEFINE v == [watch[w] EXCEPT !.lost = (@ \/ watch[w].flight = "sending")]
  <2>1. /\ v \in WatchRecord /\ v.pc = watch[w].pc /\ v.session = watch[w].session
        /\ v.record = watch[w].record /\ v.late = watch[w].late
    BY <1>1 DEF WatchRecord
  <2>2. Set(w, Landed(v))
    BY <1>3 DEF Fails
  <2> HIDE DEF v
  <2>3. /\ Landed(v) \in WatchRecord
        /\ \/ /\ Landed(v).pc = watch[w].pc /\ Landed(v).session = watch[w].session
              /\ Landed(v).record = watch[w].record /\ Landed(v).late = watch[w].late
           \/ watch[w].pc # "on" /\ Landed(v) = Blank
    BY <2>1, LandedTyped
  <2> QED
    BY <1>1, <2>2, <2>3, QuietSet
<1> QED
  BY <1>2, <1>3

LEMMA ChangeStep ==
  ASSUME IInv, NEW r \in Records, Change(r)
  PROVE  TypeOK' /\ Kept
<1>0. TypeOK /\ UNCHANGED <<open, watch, tables, failures>>
  BY DEF Change, IInv
<1>1. version' \in [Records -> Versions]
  <2>1. version[r] + 1 \in Nat /\ Gone \in Nat
    BY <1>0 DEF TypeOK, Versions, Gone
  <2>2. PICK v \in {version[r] + 1, Gone} : v <= MaxVersion /\ version' = [version EXCEPT ![r] = v]
    BY DEF Change
  <2>3. v \in Versions
    BY <2>1, <2>2 DEF Versions
  <2> QED
    BY <1>0, <2>2, <2>3 DEF TypeOK
<1>2. TypeOK'
  BY <1>0, <1>1 DEF TypeOK, tables
<1>3. \A w \in Watches : watch'[w].pc = "free" => watch'[w] = Blank
  BY <1>0 DEF IInv, Listed
<1> QED
  BY <1>0, <1>2, <1>3, Quiet

-----------------------------------------------------------------------------
LEMMA StopAllTyped ==
  ASSUME TypeOK, Listed, NEW W \in SUBSET all, Stop(W),
         NEW f \in [Watches -> WatchRecord],
         watch' = [w \in Watches |-> IF w \in W THEN Stopped(watch[w]) ELSE f[w]]
  PROVE  /\ watch' \in [Watches -> WatchRecord]
         /\ \A w \in W :
              /\ watch'[w].pc \in {"free", "stopped"}
              /\ watch'[w].pc = "stopped" =>
                   watch'[w].session \in Sessions /\ watch'[w].record \in Records
              /\ watch'[w].pc = "free" => watch'[w] = Blank
<1>1. ASSUME NEW w \in W
      PROVE  /\ w \in Watches /\ watch[w] \in WatchRecord /\ watch[w].pc = "on"
             /\ watch[w].session \in Sessions /\ watch[w].record \in Records
  BY DEF TypeOK, Listed
<1>2. \A w \in Watches : watch'[w] = IF w \in W THEN Stopped(watch[w]) ELSE f[w]
  OBVIOUS
<1>3. ASSUME NEW w \in Watches PROVE watch'[w] \in WatchRecord
  BY <1>1, <1>2, StoppedTyped
<1>4. ASSUME NEW w \in W
      PROVE  /\ watch'[w].pc \in {"free", "stopped"}
             /\ watch'[w].pc = "stopped" =>
                  watch'[w].session \in Sessions /\ watch'[w].record \in Records
             /\ watch'[w].pc = "free" => watch'[w] = Blank
  <2>1. watch'[w] = Stopped(watch[w])
    BY <1>1, <1>2
  <2>2. \/ Stopped(watch[w]) = Blank
        \/ /\ Stopped(watch[w]).pc = "stopped"
           /\ Stopped(watch[w]).session = watch[w].session
           /\ Stopped(watch[w]).record = watch[w].record
    BY <1>1, StoppedTyped
  <2>3. Blank.pc = "free"
    BY DEF Blank
  <2> QED
    BY <1>1, <2>1, <2>2, <2>3
<1> QED
  BY <1>3, <1>4

LEMMA StopAllStep ==
  ASSUME IInv, NEW W \in SUBSET all, StopAll(W), UNCHANGED <<version, open, failures>>
  PROVE  TypeOK' /\ Kept
<1>0. TypeOK /\ Listed /\ Warned /\ NoneLeftBehind /\ W \in SUBSET Watches /\ Stop(W)
  BY DEF IInv, TypeOK, StopAll
<1>1. /\ watch \in [Watches -> WatchRecord]
      /\ watch' = [w \in Watches |-> IF w \in W THEN Stopped(watch[w]) ELSE watch[w]]
  BY <1>0 DEF StopAll, TypeOK
<1>2. /\ watch' \in [Watches -> WatchRecord]
      /\ \A w \in W :
           /\ watch'[w].pc \in {"free", "stopped"}
           /\ watch'[w].pc = "stopped" =>
                watch'[w].session \in Sessions /\ watch'[w].record \in Records
           /\ watch'[w].pc = "free" => watch'[w] = Blank
  BY <1>0, <1>1, StopAllTyped
<1>3. \A w \in Watches \ W : watch'[w] = watch[w]
  BY <1>1
<1>4. TypeOK'
  BY <1>0, <1>2, StopTyped DEF TypeOK
<1>5. Warned'
  BY <1>0, <1>2, <1>3 DEF Warned
<1>6. NoneLeftBehind'
  BY <1>0, <1>3, <1>4 DEF NoneLeftBehind, Stop, TypeOK
<1> QED
  BY <1>0, <1>2, <1>3, <1>4, <1>5, <1>6, Stopping

LEMMA DeletedStep ==
  ASSUME IInv, NEW w \in Watches, Deleted(w)
  PROVE  TypeOK' /\ Kept
<1>0. /\ TypeOK /\ Listed /\ Warned /\ NoneLeftBehind /\ {w} \in SUBSET Watches /\ Stop({w})
      /\ UNCHANGED <<version, open, failures>> /\ Set(w, Blank)
  BY DEF IInv, Deleted
<1>1. /\ watch' \in [Watches -> WatchRecord] /\ watch'[w] = Blank /\ Blank.pc = "free"
      /\ \A u \in Watches : u # w => watch'[u] = watch[u]
  BY <1>0, BlankTyped, SetTyped DEF Blank
<1>2. TypeOK'
  BY <1>0, <1>1, StopTyped DEF TypeOK
<1>3. Warned'
  BY <1>0, <1>1 DEF Warned
<1>4. NoneLeftBehind'
  BY <1>0, <1>1 DEF NoneLeftBehind, Stop, TypeOK
<1> QED
  BY <1>0, <1>1, <1>2, <1>3, <1>4, Stopping

LEMMA CloseStep ==
  ASSUME IInv, NEW s \in Sessions, Close(s)
  PROVE  TypeOK' /\ Kept
<1> DEFINE W == IF s \in hooked THEN {mine[s][r] : r \in Watched(s)} ELSE {}
           L(v) == IF v.pc = "first" /\ v.session = s THEN [v EXCEPT !.late = TRUE] ELSE v
           f == [w \in Watches |-> L(watch[w])]
<1>0. /\ TypeOK /\ Listed /\ Entered /\ Warned /\ NoneLeftBehind /\ Stop(W)
      /\ open' = open \ {s} /\ UNCHANGED <<version, failures>>
      /\ watch' = [w \in Watches |-> IF w \in W THEN Stopped(watch[w]) ELSE L(watch[w])]
  BY DEF IInv, Close
<1>1. W \in SUBSET all /\ W \in SUBSET Watches
  BY <1>0 DEF Listed, Watched, TypeOK
<1>2. ASSUME NEW w \in Watches
      PROVE  /\ f[w] \in WatchRecord /\ f[w].pc = watch[w].pc
             /\ f[w].session = watch[w].session /\ f[w].record = watch[w].record
             /\ f[w].pc # "first" => f[w] = watch[w]
             /\ f[w].pc = "first" /\ f[w].session = s => f[w].late
             /\ watch[w].late => f[w].late
  <2>1. watch[w] \in WatchRecord
    BY <1>0 DEF TypeOK
  <2> QED
    BY <2>1 DEF WatchRecord
<1>3. f \in [Watches -> WatchRecord]
  BY <1>2
<1>4. watch' = [w \in Watches |-> IF w \in W THEN Stopped(watch[w]) ELSE f[w]]
  BY <1>0
<1> HIDE DEF W, f
<1>5. /\ watch' \in [Watches -> WatchRecord]
      /\ \A w \in W :
           /\ watch'[w].pc \in {"free", "stopped"}
           /\ watch'[w].pc = "stopped" =>
                watch'[w].session \in Sessions /\ watch'[w].record \in Records
           /\ watch'[w].pc = "free" => watch'[w] = Blank
  BY <1>0, <1>1, <1>3, <1>4, StopAllTyped
<1>6. \A w \in Watches \ W : watch'[w] = f[w]
  BY <1>4
<1>7. TypeOK'
  BY <1>0, <1>5, StopTyped DEF TypeOK
<1>8. Warned'
  BY <1>0, <1>1, <1>2, <1>5, <1>6 DEF Warned
<1>9. NoneLeftBehind'
  <2> SUFFICES ASSUME NEW w \in all', ~crossed', watch'[w].session \notin open'
               PROVE  watch'[w].late
    BY DEF NoneLeftBehind
  <2>1. w \in all /\ w \in Watches \ W /\ watch[w].pc = "on" /\ ~crossed
    BY <1>0, <1>1 DEF Stop, TypeOK, Listed
  <2>2. watch'[w] = watch[w]
    BY <1>2, <1>6, <2>1
  <2>3. watch[w].session # s
    <3> SUFFICES ASSUME watch[w].session = s PROVE FALSE
      OBVIOUS
    <3>1. s \in hooked /\ mine[s][watch[w].record] = w /\ watch[w].record \in Records
      BY <1>0, <2>1 DEF Entered, Entry, Listed
    <3>2. w # None
      BY <2>1
    <3> QED
      BY <2>1, <3>1, <3>2 DEF W, Watched
  <2> QED
    BY <1>0, <2>1, <2>2, <2>3 DEF NoneLeftBehind
<1> QED
  BY <1>0, <1>1, <1>2, <1>5, <1>6, <1>7, <1>8, <1>9, Stopping

-----------------------------------------------------------------------------
LEMMA Initially == Init => IInv
<1> SUFFICES ASSUME Init PROVE IInv
  OBVIOUS
<1>1. TypeOK
  <2>1. 1 \in Versions /\ 0 \in 0 .. MaxFailures
    BY DEF Versions
  <2> QED
    BY <2>1, BlankTyped DEF Init, TypeOK
<1>2. Listed /\ Entered /\ Warned /\ NoneLeftBehind
  BY DEF Init, Listed, Entered, Warned, NoneLeftBehind, Blank
<1>3. CapsKept
  <2>1. all = {} /\ \A s : Polling(s) = {}
    BY DEF Init, Polling
  <2> QED
    BY <2>1, FS_EmptySet DEF CapsKept
<1> QED
  BY <1>1, <1>2, <1>3 DEF IInv

LEMMA Inductive == IInv /\ [Next]_vars => IInv'
<1> SUFFICES ASSUME IInv, [Next]_vars PROVE TypeOK' /\ Kept
  BY DEF IInv, Kept
<1>1. CASE UNCHANGED vars
  <2>1. UNCHANGED <<open, tables, watch, version, failures>> /\ TypeOK'
    BY <1>1 DEF vars, tables, IInv, TypeOK
  <2>2. \A w \in Watches : watch'[w].pc = "free" => watch'[w] = Blank
    BY <2>1 DEF IInv, Listed
  <2> QED
    BY <2>1, <2>2, Quiet
<1>2. CASE \E r \in Records : Change(r)
  BY <1>2, ChangeStep
<1>3. CASE \E w \in Watches, s \in Sessions, r \in Records : Subscribe(w, s, r)
  BY <1>3, SubscribeStep
<1>4. ASSUME NEW w \in Watches, Install(w) \/ Refuse(w) \/ Poll(w) \/ Fails(w)
      PROVE  TypeOK' /\ Kept
  <2>1. CASE Install(w) \/ Refuse(w) \/ Fails(w)
    BY <2>1, InstallStep, RefuseStep, FailsStep
  <2>2. CASE Poll(w)
    BY <2>2, PollingStep, DeletedStep DEF Poll
  <2> QED
    BY <1>4, <2>1, <2>2
<1>5. ASSUME NEW s \in Sessions, NEW r \in Records, Unsubscribe(s, r) PROVE TypeOK' /\ Kept
  <2>1. {mine[s][r]} \in SUBSET all
    BY <1>5 DEF Unsubscribe, IInv, Listed
  <2> QED
    BY <1>5, <2>1, StopAllStep DEF Unsubscribe
<1>6. CASE \E s \in Sessions : Close(s)
  BY <1>6, CloseStep
<1>7. CASE Dispose
  BY <1>7, StopAllStep DEF Dispose
<1> QED
  BY <1>1, <1>2, <1>3, <1>4, <1>5, <1>6, <1>7 DEF Next

LEMMA Invariance == Spec => []IInv
BY Initially, Inductive, PTL DEF Spec

\* Every variable stays within its type.
THEOREM TypeCorrect == Spec => []TypeOK
<1>1. IInv => TypeOK
  BY DEF IInv
<1> QED
  BY <1>1, Invariance, PTL

\* The caps on polled records hold, of a session until an entry was crossed.
THEOREM CapsHold == Spec => []CapsKept
<1>1. IInv => CapsKept
  BY DEF IInv
<1> QED
  BY <1>1, Invariance, PTL

\* A closed session is polled for only by a late or a crossed watch.
THEOREM NoneStays == Spec => []NoneLeftBehind
<1>1. IInv => NoneLeftBehind
  BY DEF IInv
<1> QED
  BY <1>1, Invariance, PTL

-----------------------------------------------------------------------------
(* The cache of reads. *)

\* Who comes after a wanted entry in the Map was used since that one was.
UsedBehind == \A e \in older : e[1] \in wanted => e[2] \in since[e[1]]

Recency ==
    /\ IsFiniteSet(held) /\ \A k \in Keys : IsFiniteSet(since[k])
    /\ wanted \cap held \subseteq live
    /\ UsedBehind /\ WithinMax /\ UsedStay

\* A load of a key that was not being read at the change reads as the new user.
LoadsCurrent == \A r \in Readers : load[r].key \in Keys \ racing => load[r].under = identity

CacheInv == CacheTypeOK /\ Recency /\ LoadsCurrent /\ ReadAsCurrent

-----------------------------------------------------------------------------
\* Every variable of the cache stays within its type.
THEOREM CacheTypeCorrect == CacheSpec => []CacheTypeOK
<1> USE SchemaCacheAssumption
<1>1. CacheInit => CacheTypeOK
  BY DEF CacheInit, CacheTypeOK, Loads, NoLoad
<1>2. CacheTypeOK /\ [CacheNext]_cacheVars => CacheTypeOK'
  <2> SUFFICES ASSUME CacheTypeOK, [CacheNext]_cacheVars PROVE CacheTypeOK'
    OBVIOUS
  <2>0. NoLoad \in Loads
    BY DEF NoLoad, Loads
  <2>1. ASSUME NEW k \in Keys, Hit(k) PROVE CacheTypeOK'
    BY <2>1 DEF CacheTypeOK, Hit, PutLast, Among
  <2>2. ASSUME NEW k \in Keys, Expire(k) PROVE CacheTypeOK'
    BY <2>2 DEF CacheTypeOK, Expire
  <2>3. ASSUME NEW r \in Readers, NEW k \in Keys, Miss(r, k) PROVE CacheTypeOK'
    BY <2>3 DEF CacheTypeOK, Miss, Among, Loads
  <2>4. ASSUME NEW r \in Readers, Insert(r) PROVE CacheTypeOK'
    <3>1. load[r].key \in Keys /\ load[r].under \in Nat
      BY <2>4 DEF CacheTypeOK, Insert, Loads
    <3>2. PICK stay \in Room(live \ {load[r].key}) : PutLast(stay, load[r].key)
      BY <2>4 DEF Insert
    <3>3. stay \subseteq live
      BY <3>2 DEF Room
    <3> QED
      BY <2>0, <2>4, <3>1, <3>2, <3>3 DEF CacheTypeOK, Insert, PutLast, Among
  <2>5. ASSUME NEW r \in Readers, LoadFails(r) PROVE CacheTypeOK'
    BY <2>0, <2>5 DEF CacheTypeOK, LoadFails
  <2>6. CASE Clear
    BY <2>6 DEF CacheTypeOK, Clear, Empty
  <2>7. CASE ChangeCredentials
    BY <2>7 DEF CacheTypeOK, ChangeCredentials, Empty, Loads
  <2>8. CASE UNCHANGED cacheVars
    BY <2>8 DEF CacheTypeOK, cacheVars
  <2> QED
    BY <2>1, <2>2, <2>3, <2>4, <2>5, <2>6, <2>7, <2>8 DEF CacheNext
<1> QED
  BY <1>1, <1>2, PTL DEF CacheSpec

-----------------------------------------------------------------------------
\* What stays leaves room for one more, and an entry gives way only if all
\* places but one are taken by entries used after it.
LEMMA RoomFacts ==
  ASSUME NEW entries, IsFiniteSet(entries), NEW stay \in Room(entries)
  PROVE  /\ stay \subseteq entries /\ IsFiniteSet(stay)
         /\ Cardinality(stay) <= MaxEntries - 1
         /\ stay # entries => Cardinality(stay) = MaxEntries - 1
         /\ \A j \in entries \ stay, i \in stay : <<j, i>> \in older
<1>1. stay \subseteq entries /\ \A j \in entries \ stay, i \in stay : <<j, i>> \in older
  BY DEF Room
<1>2. IsFiniteSet(stay) /\ (Cardinality(entries) = Cardinality(stay) => entries = stay)
  BY <1>1, FS_Subset
<1>3. Cardinality(stay) = IF Cardinality(entries) < MaxEntries THEN Cardinality(entries) ELSE MaxEntries - 1
  BY DEF Room
<1>4. Cardinality(entries) \in Nat /\ MaxEntries \in Nat
  BY FS_CardinalityType, SchemaCacheAssumption
<1> QED
  BY <1>1, <1>2, <1>3, <1>4

\* The recency survives an entry put last, if those that gave way were the least
\* recently used of a full Map or nobody wants them any more.
LEMMA PutLastKeeps ==
  ASSUME CacheTypeOK, Recency, CacheTypeOK', NEW k \in Keys, NEW stay \in SUBSET (held \ {k}),
         PutLast(stay, k), IsFiniteSet(stay), Cardinality(stay) <= MaxEntries - 1,
         \A j \in (wanted \cap held) \ (stay \cup {k}) :
           Cardinality(stay) = MaxEntries - 1 /\ \A i \in stay : <<j, i>> \in older
  PROVE  Recency'
<1> USE DEF Recency, CacheTypeOK
<1>1. /\ held' = stay \cup {k} /\ older' = Among(stay) \cup (stay \X {k})
      /\ live' = (live \cap stay) \cup {k} /\ wanted' = wanted \cup {k}
      /\ since' = [j \in Keys |-> IF j = k THEN {} ELSE since[j] \cup {k}]
  BY DEF PutLast
<1>2. IsFiniteSet(held') /\ Cardinality(held') = Cardinality(stay) + 1
  BY <1>1, FS_AddElement
<1>3. Cardinality(stay) \in Nat /\ MaxEntries \in Nat
  BY FS_CardinalityType, SchemaCacheAssumption
<1>4. \A j \in Keys : IsFiniteSet(since'[j])
  <2> TAKE j \in Keys
  <2>1. CASE j = k
    BY <1>1, <2>1, FS_EmptySet
  <2>2. CASE j # k
    BY <1>1, <2>2, FS_AddElement
  <2> QED
    BY <2>1, <2>2
<1>5. wanted' \cap held' \subseteq live'
  BY <1>1
<1>6. UsedBehind'
  <2> SUFFICES ASSUME NEW e \in older', e[1] \in wanted' PROVE e[2] \in since'[e[1]]
    BY DEF UsedBehind
  <2>1. CASE e \in Among(stay)
    <3>1. e \in older /\ e[1] \in stay /\ e[2] \in stay
      BY <2>1 DEF Among
    <3>2. e[1] \in Keys /\ e[1] # k /\ e[1] \in wanted
      BY <1>1, <3>1
    <3> QED
      BY <1>1, <3>1, <3>2 DEF UsedBehind
  <2>2. CASE e \in stay \X {k}
    BY <1>1, <2>2
  <2> QED
    BY <1>1, <2>1, <2>2
<1>7. WithinMax'
  BY <1>2, <1>3 DEF WithinMax
<1>8. UsedStay'
  <2> SUFFICES ASSUME NEW j \in wanted', j \notin held' PROVE Cardinality(since'[j]) >= MaxEntries
    BY <1>3, <1>4, FS_CardinalityType DEF UsedStay
  <2>1. j \in wanted /\ j # k /\ j \notin stay /\ since'[j] = since[j] \cup {k}
    BY <1>1
  <2>2. IsFiniteSet(since[j]) /\ IsFiniteSet(since'[j])
    BY <1>4, <2>1
  <2>3. Cardinality(since[j]) \in Nat /\ Cardinality(since'[j]) \in Nat
    BY <2>2, FS_CardinalityType
  <2>4. CASE j \notin held
    <3>1. Cardinality(since[j]) >= MaxEntries
      BY <1>3, <2>1, <2>3, <2>4 DEF UsedStay
    <3>2. Cardinality(since[j]) <= Cardinality(since'[j])
      BY <2>1, <2>2, FS_Subset
    <3> QED
      BY <1>3, <2>3, <3>1, <3>2
  <2>5. CASE j \in held
    <3>1. Cardinality(stay) = MaxEntries - 1 /\ \A i \in stay : <<j, i>> \in older
      BY <2>1, <2>5
    <3>2. stay \subseteq since[j]
      BY <2>1, <3>1 DEF UsedBehind
    <3>3. held' \subseteq since'[j]
      BY <1>1, <2>1, <3>2
    <3>4. Cardinality(held') <= Cardinality(since'[j])
      BY <2>2, <3>3, FS_Subset
    <3> QED
      BY <1>2, <1>3, <2>3, <3>1, <3>4
  <2> QED
    BY <2>4, <2>5
<1> QED
  BY <1>2, <1>4, <1>5, <1>6, <1>7, <1>8

LEMMA HitStep ==
  ASSUME CacheInv, CacheTypeOK', NEW k \in Keys, Hit(k)
  PROVE  CacheInv'
<1>1. k \in held /\ PutLast(held \ {k}, k) /\ UNCHANGED <<identity, under, load, racing>>
  BY DEF Hit, CacheInv, CacheTypeOK
<1>2. IsFiniteSet(held \ {k}) /\ Cardinality(held \ {k}) = Cardinality(held) - 1
  BY <1>1, FS_RemoveElement DEF CacheInv, Recency
<1>3. Cardinality(held) \in Nat /\ MaxEntries \in Nat
  BY FS_CardinalityType, SchemaCacheAssumption DEF CacheInv, Recency
<1>4. Cardinality(held \ {k}) <= MaxEntries - 1
  BY <1>2, <1>3 DEF CacheInv, Recency, WithinMax
<1>5. Recency'
  BY <1>1, <1>2, <1>4, PutLastKeeps DEF CacheInv
<1>6. held' = held
  BY <1>1 DEF PutLast
<1>7. LoadsCurrent' /\ ReadAsCurrent'
  BY <1>1, <1>6 DEF CacheInv, LoadsCurrent, ReadAsCurrent
<1> QED
  BY <1>5, <1>7 DEF CacheInv

LEMMA InsertStep ==
  ASSUME CacheInv, CacheTypeOK', NEW r \in Readers, Insert(r)
  PROVE  CacheInv'
<1> DEFINE k == load[r].key
<1>1. /\ k \in Keys
      /\ under' = [under EXCEPT ![k] = load[r].under]
      /\ load' = [load EXCEPT ![r] = NoLoad] /\ UNCHANGED <<identity, racing>>
  BY DEF Insert, CacheInv, CacheTypeOK, Loads
<1>2. PICK stay \in Room(live \ {k}) : PutLast(stay, k)
  BY DEF Insert
<1>3. IsFiniteSet(live \ {k}) /\ live \subseteq held
  BY FS_Subset DEF CacheInv, CacheTypeOK, Recency
<1>4. /\ stay \subseteq live \ {k} /\ IsFiniteSet(stay)
      /\ Cardinality(stay) <= MaxEntries - 1
      /\ stay # live \ {k} => Cardinality(stay) = MaxEntries - 1
      /\ \A j \in (live \ {k}) \ stay, i \in stay : <<j, i>> \in older
  BY <1>2, <1>3, RoomFacts
<1>5. Recency'
  <2>1. \A j \in (wanted \cap held) \ (stay \cup {k}) : j \in (live \ {k}) \ stay
    BY DEF CacheInv, Recency
  <2>2. \A j \in (wanted \cap held) \ (stay \cup {k}) :
          Cardinality(stay) = MaxEntries - 1 /\ \A i \in stay : <<j, i>> \in older
    BY <1>4, <2>1
  <2> QED
    BY <1>1, <1>2, <1>3, <1>4, <2>2, PutLastKeeps DEF CacheInv
<1>6. LoadsCurrent'
  BY <1>1, SchemaCacheAssumption DEF CacheInv, CacheTypeOK, LoadsCurrent, NoLoad
<1>7. ReadAsCurrent'
  <2>1. held' \subseteq held \cup {k}
    BY <1>2, <1>3, <1>4 DEF PutLast
  <2>2. k \in racing \/ load[r].under = identity
    BY <1>1 DEF CacheInv, LoadsCurrent
  <2> QED
    BY <1>1, <2>1, <2>2 DEF CacheInv, CacheTypeOK, ReadAsCurrent
<1> QED
  BY <1>5, <1>6, <1>7 DEF CacheInv

LEMMA MissStep ==
  ASSUME CacheInv, CacheTypeOK', NEW r \in Readers, NEW k \in Keys, Miss(r, k)
  PROVE  CacheInv'
<1> USE DEF CacheInv, Recency, CacheTypeOK
<1>1. /\ held' = held \ {k} /\ older' \subseteq older /\ live' = live /\ k \notin live
      /\ load' = [load EXCEPT ![r] = [key |-> k, under |-> identity]]
      /\ UNCHANGED <<identity, under, racing, since, wanted>>
  BY DEF Miss, Among
<1>2. IsFiniteSet(held') /\ Cardinality(held') <= Cardinality(held)
  BY <1>1, FS_Subset
<1>3. Cardinality(held) \in Nat /\ Cardinality(held') \in Nat /\ MaxEntries \in Nat
  BY <1>2, FS_CardinalityType, SchemaCacheAssumption
<1>4. WithinMax'
  BY <1>2, <1>3 DEF WithinMax
<1>5. UsedBehind'
  BY <1>1 DEF UsedBehind
<1>6. UsedStay'
  BY <1>1 DEF UsedStay
<1>7. Recency'
  BY <1>1, <1>2, <1>4, <1>5, <1>6
<1>8. LoadsCurrent' /\ ReadAsCurrent'
  BY <1>1 DEF LoadsCurrent, ReadAsCurrent
<1> QED
  BY <1>7, <1>8

\* A step that leaves the order of the Map alone, or empties it.
LEMMA NoUseKeeps ==
  ASSUME CacheTypeOK, Recency, UNCHANGED since, wanted' \subseteq wanted,
         \/ UNCHANGED <<held, older>> /\ wanted' \cap held \subseteq live' /\ live' \subseteq live
         \/ Empty
  PROVE  Recency'
<1> USE DEF Recency, CacheTypeOK
<1>1. CASE UNCHANGED <<held, older>> /\ wanted' \cap held \subseteq live' /\ live' \subseteq live
  <2>1. UsedBehind' /\ WithinMax' /\ UsedStay'
    BY <1>1 DEF UsedBehind, WithinMax, UsedStay
  <2> QED
    BY <1>1, <2>1
<1>2. CASE Empty
  <2>1. IsFiniteSet(held') /\ WithinMax'
    BY <1>2, FS_EmptySet, SchemaCacheAssumption DEF Empty, WithinMax
  <2>2. UsedBehind' /\ UsedStay'
    BY <1>2 DEF Empty, UsedBehind, UsedStay
  <2> QED
    BY <1>2, <2>1, <2>2 DEF Empty
<1> QED
  BY <1>1, <1>2

LEMMA CacheInductive == CacheInv /\ CacheTypeOK' /\ [CacheNext]_cacheVars => CacheInv'
<1> SUFFICES ASSUME CacheInv, CacheTypeOK', [CacheNext]_cacheVars PROVE CacheInv'
  OBVIOUS
<1>0. CacheTypeOK /\ Recency /\ wanted \cap held \subseteq live
  BY DEF CacheInv, Recency
<1>1. ASSUME NEW k \in Keys, Expire(k) PROVE CacheInv'
  <2>1. Recency'
    BY <1>0, <1>1, NoUseKeeps DEF Expire
  <2> QED
    BY <1>1, <2>1 DEF Expire, CacheInv, LoadsCurrent, ReadAsCurrent
<1>2. ASSUME NEW r \in Readers, LoadFails(r) PROVE CacheInv'
  <2>1. Recency'
    BY <1>0, <1>2, NoUseKeeps DEF LoadFails
  <2> QED
    BY <1>2, <2>1, SchemaCacheAssumption
       DEF LoadFails, CacheInv, CacheTypeOK, LoadsCurrent, ReadAsCurrent, NoLoad
<1>3. CASE Clear
  <2>1. Recency'
    BY <1>0, <1>3, NoUseKeeps DEF Clear, Empty
  <2> QED
    BY <1>3, <2>1 DEF Clear, Empty, CacheInv, LoadsCurrent, ReadAsCurrent
<1>4. CASE ChangeCredentials
  <2>1. Recency'
    BY <1>0, <1>4, NoUseKeeps DEF ChangeCredentials, Empty
  <2>2. LoadsCurrent'
    BY <1>4, SchemaCacheAssumption DEF ChangeCredentials, LoadsCurrent
  <2> QED
    BY <1>4, <2>1, <2>2 DEF ChangeCredentials, Empty, CacheInv, ReadAsCurrent
<1>5. CASE UNCHANGED cacheVars
  <2>1. Recency'
    BY <1>0, <1>5, NoUseKeeps DEF cacheVars
  <2> QED
    BY <1>5, <2>1 DEF cacheVars, CacheInv, LoadsCurrent, ReadAsCurrent
<1> QED
  BY <1>1, <1>2, <1>3, <1>4, <1>5, HitStep, MissStep, InsertStep DEF CacheNext

LEMMA CacheInvariance == CacheSpec => []CacheInv
<1>1. CacheInit => CacheInv
  <2> SUFFICES ASSUME CacheInit PROVE CacheInv
    OBVIOUS
  <2>1. CacheTypeOK
    BY SchemaCacheAssumption DEF CacheInit, CacheTypeOK, Loads, NoLoad
  <2>2. Recency
    BY FS_EmptySet, SchemaCacheAssumption DEF CacheInit, Recency, UsedBehind, WithinMax, UsedStay
  <2> QED
    BY <2>1, <2>2, SchemaCacheAssumption DEF CacheInit, CacheInv, LoadsCurrent, ReadAsCurrent, NoLoad
<1>2. CacheInv => CacheTypeOK
  BY DEF CacheInv
<1> QED
  BY <1>1, <1>2, CacheInductive, CacheTypeCorrect, PTL DEF CacheSpec

\* The cache never holds more entries than its maximum.
THEOREM CacheIsBounded == CacheSpec => []WithinMax
<1>1. CacheInv => WithinMax
  BY DEF CacheInv, Recency
<1> QED
  BY <1>1, CacheInvariance, PTL

\* What gives way is the least recently used of a cache full of used entries.
THEOREM UsedEntriesStay == CacheSpec => []UsedStay
<1>1. CacheInv => UsedStay
  BY DEF CacheInv, Recency
<1> QED
  BY <1>1, CacheInvariance, PTL

\* Room is made exactly when it is needed, and from the right end.
THEOREM CacheEvictsByUse == CacheSpec => []EvictsByUse
BY CacheIsBounded, UsedEntriesStay, PTL DEF EvictsByUse

\* What is cached was read under the current credentials, but for loads under way.
THEOREM CachedReadsCurrent == CacheSpec => []ReadAsCurrent
<1>1. CacheInv => ReadAsCurrent
  BY DEF CacheInv
<1> QED
  BY <1>1, CacheInvariance, PTL
=============================================================================
