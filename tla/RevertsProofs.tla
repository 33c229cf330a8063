--------------------------- MODULE RevertsProofs ---------------------------
(***************************************************************************)
(* Proofs about WriteJournal and Reverts, for any number of lines, files   *)
(* of any length, any sets of tool calls and reverts, and any number of    *)
(* mishaps.                                                                *)
(***************************************************************************)
EXTENDS Reverts, FiniteSetTheorems, SequenceTheorems, WellFoundedInduction, TLAPS

------------------------------------------------------------------------------
(* The journal. *)

Hashes == [id : Nat, edited : BOOLEAN]
JournalLines == [id : Nat, v2 : BOOLEAN, prev : Hashes, body : Bodies, edited : BOOLEAN]

JournalTypes ==
  /\ lines \in Seq(JournalLines)
  /\ rotated \in Nat
  /\ head \in Hashes
  /\ fresh \in 1 .. MaxLines + 1
  /\ faulted \in BOOLEAN
  /\ spoiled \in BOOLEAN

\* Ids are not reused, only the first line may be of the older version, the head
\* was never edited, and a link to an edited line is younger than the edit.
ChainShape ==
  /\ head.edited = FALSE
  /\ head.id < fresh
  /\ \A i \in DOMAIN lines : lines[i].id >= 1 /\ lines[i].id < fresh /\ lines[i].prev.id < fresh
  /\ \A i, j \in DOMAIN lines : lines[i].id = lines[j].id => i = j
  /\ \A i \in DOMAIN lines : i >= 2 => lines[i].v2
  /\ \A i, j \in DOMAIN lines :
        lines[i].prev.edited /\ lines[j].id = lines[i].prev.id => lines[j].edited

\* As long as all went well the head is the last line's hash, and there is no
\* head only before the first append.
Sound ==
  ~faulted /\ ~spoiled =>
    IF head = NoHash
    THEN rotated = 0 /\ (lines = << >> \/ (Len(lines) = 1 /\ ~lines[1].v2))
    ELSE lines # << >> /\ Integrity

Broken(hashes) ==
  /\ head \in hashes
  /\ NoHash \notin hashes
  /\ \A i \in DOMAIN lines :
        Hash(lines[i]) \in hashes => lines[i].v2 /\ lines[i].prev \in hashes
BreakIsKept == spoiled => \E hashes \in SUBSET Hashes : Broken(hashes)

JournalIInv == JournalTypes /\ ChainShape /\ Sound /\ BreakIsKept

------------------------------------------------------------------------------
(* What a step makes of the lines. *)

\* Dropping a position of a sequence keeps the others in order.
LEMMA RemoveAtProperties ==
  ASSUME NEW S, NEW s \in Seq(S), NEW i \in DOMAIN s
  PROVE  /\ RemoveAt(s, i) \in Seq(S)
         /\ Len(RemoveAt(s, i)) = Len(s) - 1
         /\ \A j \in 1 .. Len(s) - 1 :
              RemoveAt(s, i)[j] = IF j < i THEN s[j] ELSE s[j + 1]
<1> DEFINE front == SubSeq(s, 1, i - 1)
           back  == SubSeq(s, i + 1, Len(s))
           cat   == front \o back
<1>1. i \in 1 .. Len(s) /\ Len(s) \in Nat /\ \A k \in 1 .. Len(s) : s[k] \in S
  BY LenProperties, ElementOfSeq
<1>2. /\ front \in Seq(S)
      /\ Len(front) = i - 1
      /\ \A j \in 1 .. i - 1 : front[j] = s[j]
  <2>1. \A k \in 1 .. i - 1 : s[k] \in S
    BY <1>1
  <2>2. /\ front \in Seq(S)
        /\ Len(front) = IF 1 <= i - 1 THEN (i - 1) - 1 + 1 ELSE 0
        /\ \A j \in 1 .. (i - 1) - 1 + 1 : front[j] = s[1 + j - 1]
    BY <1>1, <2>1, SubSeqProperties
  <2> QED
    BY <1>1, <2>2
<1>3. /\ back \in Seq(S)
      /\ Len(back) = Len(s) - i
      /\ \A j \in 1 .. Len(s) - i : back[j] = s[i + j]
  <2>1. \A k \in i + 1 .. Len(s) : s[k] \in S
    BY <1>1
  <2>2. /\ back \in Seq(S)
        /\ Len(back) = IF i + 1 <= Len(s) THEN Len(s) - (i + 1) + 1 ELSE 0
        /\ \A j \in 1 .. Len(s) - (i + 1) + 1 : back[j] = s[(i + 1) + j - 1]
    BY <1>1, <2>1, SubSeqProperties
  <2> QED
    BY <1>1, <2>2
<1>4. /\ cat \in Seq(S)
      /\ Len(cat) = Len(front) + Len(back)
      /\ \A j \in 1 .. Len(front) + Len(back) :
           cat[j] = IF j <= Len(front) THEN front[j] ELSE back[j - Len(front)]
  BY <1>2, <1>3, ConcatProperties
<1>5. RemoveAt(s, i) = cat
  BY DEF RemoveAt
<1> HIDE DEF front, back, cat
<1>6. \A j \in 1 .. Len(s) - 1 : cat[j] = IF j < i THEN s[j] ELSE s[j + 1]
  <2> SUFFICES ASSUME NEW j \in 1 .. Len(s) - 1
               PROVE  cat[j] = IF j < i THEN s[j] ELSE s[j + 1]
    OBVIOUS
  <2>1. CASE j < i
    BY <2>1, <1>1, <1>2, <1>3, <1>4
  <2>2. CASE ~(j < i)
    <3>1. /\ j - (i - 1) \in 1 .. Len(s) - i
          /\ ~(j <= i - 1)
          /\ i + (j - (i - 1)) = j + 1
      BY <2>2, <1>1
    <3>2. cat[j] = back[j - (i - 1)]
      <4>1. Len(front) = i - 1 /\ j \in 1 .. Len(front) + Len(back)
        BY <1>1, <1>2, <1>3
      <4>2. cat[j] = IF j <= Len(front) THEN front[j] ELSE back[j - Len(front)]
        BY <1>4, <4>1
      <4> QED
        BY <3>1, <4>1, <4>2
    <3> QED
      BY <2>2, <3>1, <3>2, <1>3
  <2> QED
    BY <2>1, <2>2
<1>7. Len(cat) = Len(s) - 1
  BY <1>1, <1>2, <1>3, <1>4
<1> QED
  BY <1>4, <1>5, <1>6, <1>7

LEMMA LinesAreNumbered ==
  ASSUME JournalTypes
  PROVE  /\ Len(lines) \in Nat
         /\ DOMAIN lines = 1 .. Len(lines)
         /\ \A i \in DOMAIN lines : lines[i] \in JournalLines
         /\ lines = << >> <=> Len(lines) = 0
<1>1. lines \in Seq(JournalLines)
  BY DEF JournalTypes
<1>2. QED
  BY <1>1, LenProperties, ElementOfSeq, EmptySeq

LEMMA HashesOfLines ==
  ASSUME NEW l \in JournalLines
  PROVE  Hash(l) \in Hashes /\ Hash(l).id = l.id /\ Hash(l).edited = l.edited
BY DEF Hash, Hashes, JournalLines

LEMMA SameHash ==
  ASSUME NEW g \in Hashes, NEW h \in Hashes, g.id = h.id, g.edited = h.edited
  PROVE  g = h
BY DEF Hashes

\* What the next line is linked to.
LEMMA ReadHeadType ==
  ASSUME JournalTypes
  PROVE  /\ ReadHead \in Hashes
         /\ head # NoHash => ReadHead = head
         /\ head = NoHash =>
              \/ ReadHead = NoHash
              \/ lines # << >> /\ ReadHead = Hash(lines[Len(lines)])
<1>1. NoHash \in Hashes /\ head \in Hashes
  BY DEF NoHash, Hashes, JournalTypes
<1>2. CASE head # NoHash
  BY <1>1, <1>2 DEF ReadHead
<1>3. CASE head = NoHash /\ Len(lines) > rotated
  <2>1. Len(lines) \in DOMAIN lines /\ lines # << >>
    BY <1>3, LinesAreNumbered DEF JournalTypes
  <2>2. Hash(lines[Len(lines)]) \in Hashes
    BY <2>1, LinesAreNumbered, HashesOfLines
  <2>3. ReadHead = Hash(lines[Len(lines)])
    BY <1>3 DEF ReadHead, Last
  <2> QED
    BY <1>3, <2>1, <2>2, <2>3
<1>4. CASE head = NoHash /\ ~(Len(lines) > rotated)
  BY <1>1, <1>4 DEF ReadHead
<1> QED
  BY <1>2, <1>3, <1>4

\* The line an append adds.
NextLine(body) == [id |-> fresh, v2 |-> TRUE, prev |-> ReadHead, body |-> body, edited |-> FALSE]

LEMMA AppendedLines ==
  ASSUME NEW body \in Bodies, NEW outcome, JournalTypes, AppendLine(body, outcome)
  PROVE  \/ outcome = "lost" /\ lines' = lines
         \/ /\ outcome # "lost"
            /\ lines' \in Seq(JournalLines)
            /\ Len(lines') = Len(lines) + 1
            /\ DOMAIN lines' = DOMAIN lines \cup {Len(lines) + 1}
            /\ \A i \in DOMAIN lines : lines'[i] = lines[i]
            /\ lines'[Len(lines) + 1] = NextLine(body)
            /\ NextLine(body) \in JournalLines
<1>1. CASE outcome = "lost"
  BY <1>1 DEF AppendLine
<1>2. CASE outcome # "lost"
  <2>1. NextLine(body) \in JournalLines
    BY ReadHeadType DEF NextLine, JournalLines, JournalTypes
  <2>2. lines' = lines \o << NextLine(body) >>
    BY <1>2 DEF AppendLine, NextLine
  <2>3. lines \in Seq(JournalLines) /\ << NextLine(body) >> \in Seq(JournalLines)
        /\ Len(<< NextLine(body) >>) = 1 /\ << NextLine(body) >>[1] = NextLine(body)
    BY <2>1 DEF JournalTypes
  <2> HIDE DEF NextLine
  <2>4. /\ lines' \in Seq(JournalLines)
        /\ Len(lines') = Len(lines) + 1
        /\ \A i \in 1 .. Len(lines) + 1 :
              lines'[i] = IF i <= Len(lines) THEN lines[i] ELSE << NextLine(body) >>[i - Len(lines)]
    BY <2>2, <2>3, ConcatProperties
  <2>5. Len(lines) \in Nat /\ DOMAIN lines = 1 .. Len(lines) /\ DOMAIN lines' = 1 .. Len(lines) + 1
    BY <2>3, <2>4, LenProperties
  <2>6. \A i \in DOMAIN lines : lines'[i] = lines[i]
    BY <2>4, <2>5
  <2>7. lines'[Len(lines) + 1] = NextLine(body)
    BY <2>3, <2>4, <2>5
  <2> QED
    BY <1>2, <2>1, <2>4, <2>5, <2>6, <2>7
<1> QED
  BY <1>1, <1>2

LEMMA EditedLines ==
  ASSUME NEW i \in DOMAIN lines, JournalTypes, EditLine(i)
  PROVE  /\ lines' \in Seq(JournalLines)
         /\ Len(lines') = Len(lines)
         /\ DOMAIN lines' = DOMAIN lines
         /\ \A k \in DOMAIN lines :
              lines'[k] = IF k = i THEN [lines[i] EXCEPT !.edited = TRUE] ELSE lines[k]
<1>1. /\ Len(lines) \in Nat /\ DOMAIN lines = 1 .. Len(lines)
      /\ \A k \in DOMAIN lines : lines[k] \in JournalLines
  BY LinesAreNumbered
<1>2. lines \in Seq(JournalLines) /\ [lines[i] EXCEPT !.edited = TRUE] \in JournalLines
  BY <1>1 DEF JournalTypes, JournalLines
<1>3. lines' = [lines EXCEPT ![i] = [lines[i] EXCEPT !.edited = TRUE]]
  BY DEF EditLine
<1>4. /\ lines' \in Seq(JournalLines)
      /\ Len(lines') = Len(lines)
      /\ \A k \in 1 .. Len(lines) :
            lines'[k] = IF k = i THEN [lines[i] EXCEPT !.edited = TRUE] ELSE lines[k]
  BY <1>1, <1>2, <1>3, ExceptSeq
<1>5. DOMAIN lines' = 1 .. Len(lines')
  BY <1>4, LenProperties
<1> QED
  BY <1>1, <1>4, <1>5

\* Where the line at k of the shortened journal was before.
Was(i, k) == IF k < i THEN k ELSE k + 1

LEMMA RemovedLines ==
  ASSUME NEW i \in DOMAIN lines, JournalTypes, RemoveLine(i)
  PROVE  /\ lines' \in Seq(JournalLines)
         /\ Len(lines') = Len(lines) - 1
         /\ DOMAIN lines' = 1 .. Len(lines) - 1
         /\ \A k \in DOMAIN lines' :
              Was(i, k) \in DOMAIN lines /\ Was(i, k) # i /\ lines'[k] = lines[Was(i, k)]
<1>1. Len(lines) \in Nat /\ DOMAIN lines = 1 .. Len(lines) /\ lines \in Seq(JournalLines)
  BY LinesAreNumbered DEF JournalTypes
<1>2. /\ lines' \in Seq(JournalLines)
      /\ Len(lines') = Len(lines) - 1
      /\ \A k \in 1 .. Len(lines) - 1 : lines'[k] = IF k < i THEN lines[k] ELSE lines[k + 1]
  BY <1>1, RemoveAtProperties DEF RemoveLine
<1>3. DOMAIN lines' = 1 .. Len(lines')
  BY <1>2, LenProperties
<1>4. \A k \in DOMAIN lines' :
         Was(i, k) \in DOMAIN lines /\ Was(i, k) # i /\ lines'[k] = lines[Was(i, k)]
  BY <1>1, <1>2, <1>3 DEF Was
<1> QED
  BY <1>2, <1>3, <1>4

------------------------------------------------------------------------------
(* The invariant of the journal. *)

LEMMA JournalInitIInv ==
  ASSUME JournalInit
  PROVE  JournalIInv
<1>1. NoHash \in Hashes /\ MaxLines \in Nat \ {0} /\ OldBody \in Bodies
  BY LinesAssumption, OldBodyAssumption DEF NoHash, Hashes
<1>2. /\ head = NoHash /\ rotated = 0 /\ faulted = FALSE /\ spoiled = FALSE
      /\ head.edited = FALSE /\ head.id = 0
  BY DEF JournalInit, NoHash
<1>3. CASE lines = << >> /\ fresh = 1
  <2>1. lines \in Seq(JournalLines) /\ DOMAIN lines = {}
    BY <1>3
  <2>2. JournalTypes
    <3>1. fresh \in 1 .. MaxLines + 1
      BY <1>1, <1>3
    <3> QED
      BY <1>1, <1>2, <2>1, <3>1 DEF JournalTypes
  <2>3. ChainShape
    BY <1>2, <1>3, <2>1 DEF ChainShape
  <2> QED
    BY <1>2, <1>3, <2>2, <2>3 DEF JournalIInv, Sound, BreakIsKept
<1>4. CASE lines = << OldLine >> /\ fresh = 2
  <2>1. OldLine \in JournalLines /\ ~OldLine.v2 /\ OldLine.id = 1 /\ OldLine.prev = NoHash
    BY <1>1 DEF OldLine, JournalLines
  <2>2. /\ lines \in Seq(JournalLines) /\ DOMAIN lines = {1} /\ Len(lines) = 1
        /\ lines[1] = OldLine
    BY <1>4, <2>1
  <2>3. JournalTypes
    <3>1. fresh \in 1 .. MaxLines + 1
      BY <1>1, <1>4
    <3> QED
      BY <1>1, <1>2, <2>2, <3>1 DEF JournalTypes
  <2>4. ChainShape
    BY <1>2, <1>4, <2>1, <2>2 DEF ChainShape, NoHash
  <2> QED
    BY <1>2, <2>1, <2>2, <2>3, <2>4 DEF JournalIInv, Sound, BreakIsKept
<1> QED
  BY <1>3, <1>4 DEF JournalInit

\* Of an empty journal without head and of no other journal the next line is the
\* first of the chain.
LEMMA AppendKeepsShape ==
  ASSUME NEW body \in Bodies, NEW outcome, JournalIInv, AppendLine(body, outcome)
  PROVE  JournalTypes' /\ ChainShape'
<1> USE DEF JournalIInv
<1>1. JournalTypes /\ ChainShape
  OBVIOUS
<1>2. /\ Len(lines) \in Nat /\ DOMAIN lines = 1 .. Len(lines)
      /\ \A i \in DOMAIN lines : lines[i] \in JournalLines
  BY LinesAreNumbered
<1>3. /\ fresh' = fresh + 1 /\ fresh <= MaxLines /\ fresh \in Nat /\ fresh >= 1
      /\ MaxLines \in Nat /\ spoiled' = spoiled
      /\ head' = head \/ head' = [id |-> fresh, edited |-> FALSE]
  BY <1>1, LinesAssumption DEF AppendLine, JournalTypes
<1>4. lines' \in Seq(JournalLines)
  BY <1>1, AppendedLines DEF JournalTypes
<1>5. rotated' \in Nat /\ faulted' \in BOOLEAN
  BY <1>1, <1>2 DEF AppendLine, JournalTypes
<1>6. head' \in Hashes /\ head'.edited = FALSE /\ head'.id < fresh'
  <2>1. head \in Hashes /\ head.id \in Nat /\ head.id < fresh /\ head.edited = FALSE
    BY <1>1 DEF JournalTypes, ChainShape, Hashes
  <2>2. CASE head' = head
    BY <1>3, <2>1, <2>2
  <2>3. CASE head' = [id |-> fresh, edited |-> FALSE]
    BY <1>3, <2>3 DEF Hashes
  <2> QED
    BY <1>3, <2>2, <2>3
<1>7. JournalTypes'
  <2>1. fresh' \in 1 .. MaxLines + 1
    BY <1>3
  <2> QED
    BY <1>1, <1>3, <1>4, <1>5, <1>6, <2>1 DEF JournalTypes
<1>8. CASE lines' = lines
  <2>1. \A i \in DOMAIN lines : lines[i].id < fresh' /\ lines[i].prev.id < fresh'
    BY <1>1, <1>2, <1>3 DEF ChainShape, JournalLines, Hashes
  <2> QED
    BY <1>1, <1>6, <1>7, <1>8, <2>1 DEF ChainShape
<1>9. CASE lines' # lines
  <2> DEFINE n == Len(lines) + 1
             l == NextLine(body)
  <2>1. /\ DOMAIN lines' = DOMAIN lines \cup {n}
        /\ \A i \in DOMAIN lines : lines'[i] = lines[i]
        /\ lines'[n] = l
        /\ l \in JournalLines
    BY <1>1, <1>9, AppendedLines
  <2>2. n \notin DOMAIN lines /\ l.id = fresh /\ l.v2 /\ l.edited = FALSE /\ l.prev = ReadHead
    BY <1>2 DEF NextLine
  <2> HIDE DEF n, l
  <2>3. \A i \in DOMAIN lines :
           /\ lines[i].id \in Nat /\ lines[i].id >= 1 /\ lines[i].id < fresh
           /\ lines[i].prev.id \in Nat /\ lines[i].prev.id < fresh
    BY <1>1, <1>2 DEF ChainShape, JournalLines, Hashes
  <2>4. l.prev.id \in Nat /\ l.prev.id < fresh
    <3>1. ReadHead = head \/ ReadHead = NoHash \/
          (lines # << >> /\ ReadHead = Hash(lines[Len(lines)]))
      BY <1>1, ReadHeadType
    <3>2. lines # << >> => Len(lines) \in DOMAIN lines
      BY <1>1, <1>2, LinesAreNumbered
    <3> QED
      BY <1>1, <1>3, <2>2, <2>3, <3>1, <3>2 DEF ChainShape, JournalTypes, Hashes, NoHash, Hash
  <2>5. \A i \in DOMAIN lines' : lines'[i].id >= 1 /\ lines'[i].id < fresh' /\ lines'[i].prev.id < fresh'
    BY <1>3, <2>1, <2>2, <2>3, <2>4
  <2>6. \A i, j \in DOMAIN lines' : lines'[i].id = lines'[j].id => i = j
    BY <1>1, <1>3, <2>1, <2>2, <2>3 DEF ChainShape
  <2>7. \A i \in DOMAIN lines' : i >= 2 => lines'[i].v2
    BY <1>1, <2>1, <2>2 DEF ChainShape
  <2>8. ASSUME NEW j \in DOMAIN lines, l.prev.edited, lines[j].id = l.prev.id
        PROVE  lines[j].edited
    <3>1. head.edited = FALSE /\ NoHash.edited = FALSE
      BY <1>1 DEF ChainShape, NoHash
    <3>2. lines # << >> /\ ReadHead = Hash(lines[Len(lines)])
      BY <1>1, <2>2, <2>8, <3>1, ReadHeadType
    <3>3. Len(lines) \in DOMAIN lines
      BY <1>1, <1>2, <3>2, LinesAreNumbered
    <3>4. j = Len(lines)
      BY <1>1, <2>2, <2>8, <3>2, <3>3 DEF ChainShape, Hash
    <3> QED
      BY <2>2, <2>8, <3>2, <3>4 DEF Hash
  <2>9. \A i, j \in DOMAIN lines' :
           lines'[i].prev.edited /\ lines'[j].id = lines'[i].prev.id => lines'[j].edited
    BY <1>1, <1>3, <2>1, <2>2, <2>3, <2>4, <2>8 DEF ChainShape
  <2> QED
    BY <1>6, <1>7, <2>5, <2>6, <2>7, <2>9 DEF ChainShape
<1> QED
  BY <1>7, <1>8, <1>9

LEMMA AppendKeepsSound ==
  ASSUME NEW body \in Bodies, NEW outcome, JournalIInv, AppendLine(body, outcome)
  PROVE  Sound'
<1> SUFFICES ASSUME ~faulted', ~spoiled'
             PROVE  head' # NoHash /\ lines' # << >> /\ Integrity'
  BY DEF Sound
<1>1. outcome = "done" /\ ~faulted /\ ~spoiled
  BY DEF AppendLine
<1>2. JournalTypes /\ ChainShape /\ Sound
  BY DEF JournalIInv
<1>3. /\ Len(lines) \in Nat /\ DOMAIN lines = 1 .. Len(lines)
      /\ lines = << >> <=> Len(lines) = 0
  BY <1>2, LinesAreNumbered
<1> DEFINE n == Len(lines) + 1
<1>4. /\ lines' \in Seq(JournalLines)
      /\ Len(lines') = n /\ DOMAIN lines' = DOMAIN lines \cup {n}
      /\ \A i \in DOMAIN lines : lines'[i] = lines[i]
      /\ lines'[n] = NextLine(body)
  BY <1>1, <1>2, AppendedLines
<1>5. lines' # << >>
  BY <1>3, <1>4
<1>6. head' = [id |-> fresh, edited |-> FALSE] /\ fresh >= 1
  BY <1>1, <1>2 DEF AppendLine, JournalTypes
<1>7. head' # NoHash
  BY <1>6 DEF NoHash
<1>8. head' = Hash(Last(lines'))
  BY <1>4, <1>6 DEF Hash, Last, NextLine
<1>9. \A i \in DOMAIN lines : Linked(i)
  <2>1. CASE head = NoHash
    BY <1>1, <1>2, <1>3, <2>1 DEF Sound, Linked
  <2>2. CASE head # NoHash
    BY <1>1, <1>2, <2>2 DEF Sound, Integrity
  <2> QED
    BY <2>1, <2>2
<1>10. ReadHead = IF n = 1 THEN NoHash ELSE Hash(lines[n - 1])
  <2>1. CASE head = NoHash /\ lines = << >>
    BY <1>2, <1>3, <2>1, ReadHeadType
  <2>2. CASE head = NoHash /\ lines # << >>
    <3>1. Len(lines) > rotated
      BY <1>1, <1>2, <1>3, <2>2 DEF Sound
    <3> QED
      BY <1>3, <2>2, <3>1 DEF ReadHead, Last
  <2>3. CASE head # NoHash
    <3>1. lines # << >> /\ head = Hash(Last(lines))
      BY <1>1, <1>2, <2>3 DEF Sound, Integrity
    <3> QED
      BY <1>3, <2>3, <3>1 DEF ReadHead, Last
  <2> QED
    BY <2>1, <2>2, <2>3
<1>11. ASSUME NEW i \in DOMAIN lines' PROVE Linked(i)'
  <2>1. CASE i \in DOMAIN lines
    <3>1. i # 1 => i - 1 \in DOMAIN lines
      BY <1>3, <2>1
    <3>2. lines'[i] = lines[i] /\ (i # 1 => lines'[i - 1] = lines[i - 1])
      BY <1>4, <2>1, <3>1
    <3> QED
      BY <1>9, <2>1, <3>2 DEF Linked
  <2>2. CASE i = n
    <3>1. n # 1 => n - 1 \in DOMAIN lines
      BY <1>3
    <3>2. lines'[n].prev = ReadHead /\ (n # 1 => lines'[n - 1] = lines[n - 1])
      BY <1>4, <3>1 DEF NextLine
    <3> HIDE DEF n
    <3> QED
      BY <1>10, <2>2, <3>2 DEF Linked
  <2> QED
    BY <1>4, <2>1, <2>2
<1> QED
  BY <1>5, <1>7, <1>8, <1>11 DEF Integrity

LEMMA AppendKeepsBreak ==
  ASSUME NEW body \in Bodies, NEW outcome, JournalIInv, AppendLine(body, outcome)
  PROVE  BreakIsKept'
<1> SUFFICES ASSUME spoiled'
             PROVE  \E hashes \in SUBSET Hashes : Broken(hashes)'
  BY DEF BreakIsKept
<1>1. JournalTypes /\ ChainShape /\ spoiled
  BY DEF JournalIInv, AppendLine
<1>2. PICK hashes \in SUBSET Hashes : Broken(hashes)
  BY <1>1 DEF JournalIInv, BreakIsKept
<1>3. head # NoHash /\ head \in hashes /\ ReadHead = head
  BY <1>1, <1>2, ReadHeadType DEF Broken
<1> DEFINE new == [id |-> fresh, edited |-> FALSE]
<1>4. new \in Hashes /\ new # NoHash /\ fresh \in Nat
  BY <1>1 DEF JournalTypes, Hashes, NoHash
<1>5. \A i \in DOMAIN lines : Hash(lines[i]) # new
  BY <1>1, <1>4, LinesAreNumbered DEF ChainShape, Hash, JournalLines
<1>6. PICK more \in SUBSET Hashes : more = hashes \cup {new}
  BY <1>4
<1>7. head' = head \/ head' = new
  BY DEF AppendLine
<1> HIDE DEF new
<1>8. CASE lines' = lines
  <2>1. Broken(more)'
    BY <1>2, <1>3, <1>4, <1>5, <1>6, <1>7, <1>8 DEF Broken
  <2> QED
    BY <2>1
<1>9. CASE lines' # lines
  <2> DEFINE n == Len(lines) + 1
  <2>1. /\ DOMAIN lines' = DOMAIN lines \cup {n}
        /\ \A i \in DOMAIN lines : lines'[i] = lines[i]
        /\ lines'[n] = NextLine(body)
    BY <1>1, <1>9, AppendedLines
  <2>2. NextLine(body).v2 /\ NextLine(body).prev = head
    BY <1>3 DEF NextLine
  <2> HIDE DEF n
  <2>3. Broken(more)'
    BY <1>2, <1>3, <1>4, <1>5, <1>6, <1>7, <2>1, <2>2 DEF Broken
  <2> QED
    BY <2>3
<1> QED
  BY <1>8, <1>9

\* Of a chain that verified, the links from a line on lead only to lines from
\* there on.
LEMMA TailIsClosed ==
  ASSUME NEW i \in DOMAIN lines, JournalTypes, ChainShape, Integrity, head # NoHash
  PROVE  \E hashes \in SUBSET Hashes :
            /\ hashes = {Hash(lines[j]) : j \in {k \in DOMAIN lines : k >= i}}
            /\ head \in hashes
            /\ NoHash \notin hashes
            /\ \A k \in DOMAIN lines :
                  Hash(lines[k]) \in hashes <=> k >= i
            /\ \A k \in DOMAIN lines :
                  k > i => lines[k].v2 /\ lines[k].prev \in hashes
<1> DEFINE from == {k \in DOMAIN lines : k >= i}
           D == {Hash(lines[j]) : j \in from}
<1>1. /\ Len(lines) \in Nat /\ DOMAIN lines = 1 .. Len(lines) /\ lines # << >>
      /\ \A k \in DOMAIN lines : lines[k] \in JournalLines
  BY LinesAreNumbered
<1>2. \A k \in DOMAIN lines : Hash(lines[k]) \in Hashes /\ Hash(lines[k]).id = lines[k].id
  BY <1>1, HashesOfLines
<1>3. D \in SUBSET Hashes
  BY <1>2
<1>4. head \in D
  <2>1. head = Hash(lines[Len(lines)])
    BY <1>1 DEF Integrity, Last
  <2>2. Len(lines) \in from
    BY <1>1
  <2> QED
    BY <2>1, <2>2
<1>5. NoHash \notin D
  BY <1>1, <1>2 DEF ChainShape, NoHash, JournalLines
<1>6. ASSUME NEW k \in DOMAIN lines PROVE Hash(lines[k]) \in D <=> k >= i
  <2>1. ASSUME NEW j \in from, Hash(lines[k]) = Hash(lines[j]) PROVE k = j
    BY <1>2, <2>1 DEF ChainShape
  <2> QED
    BY <2>1
<1>7. ASSUME NEW k \in DOMAIN lines, k > i PROVE lines[k].v2 /\ lines[k].prev \in D
  <2>1. k >= 2 /\ k - 1 \in from /\ k # 1
    BY <1>1, <1>7
  <2>2. lines[k].v2 /\ Linked(k)
    BY <2>1 DEF ChainShape, Integrity
  <2>3. lines[k].prev = Hash(lines[k - 1])
    BY <2>1, <2>2 DEF Linked
  <2> QED
    BY <2>1, <2>2, <2>3
<1> HIDE DEF D
<1> QED
  BY <1>3, <1>4, <1>5, <1>6, <1>7 DEF D

LEMMA EditKeepsIInv ==
  ASSUME NEW i \in DOMAIN lines, JournalIInv, EditLine(i)
  PROVE  JournalIInv'
<1>1. JournalTypes /\ ChainShape /\ Sound /\ BreakIsKept
  BY DEF JournalIInv
<1>2. /\ Len(lines) \in Nat /\ DOMAIN lines = 1 .. Len(lines)
      /\ \A k \in DOMAIN lines : lines[k] \in JournalLines
      /\ lines = << >> <=> Len(lines) = 0
  BY <1>1, LinesAreNumbered
<1>3. /\ lines' \in Seq(JournalLines)
      /\ Len(lines') = Len(lines)
      /\ DOMAIN lines' = DOMAIN lines
      /\ \A k \in DOMAIN lines :
           lines'[k] = IF k = i THEN [lines[i] EXCEPT !.edited = TRUE] ELSE lines[k]
  BY <1>1, EditedLines
<1>4. /\ rotated' = rotated /\ head' = head /\ fresh' = fresh /\ faulted' = faulted
      /\ spoiled' = (spoiled \/ (Integrity /\ head # NoHash))
      /\ ~lines[i].edited
  BY DEF EditLine
<1>5. \A k \in DOMAIN lines :
         /\ lines'[k].id = lines[k].id /\ lines'[k].prev = lines[k].prev
         /\ lines'[k].v2 = lines[k].v2
         /\ k = i => lines'[k].edited
         /\ k # i => lines'[k] = lines[k]
  BY <1>2, <1>3 DEF JournalLines
<1>6. JournalTypes'
  BY <1>1, <1>3, <1>4 DEF JournalTypes
<1>7. ChainShape'
  <2>1. \A k \in DOMAIN lines : lines[k].edited => lines'[k].edited
    BY <1>5
  <2> QED
    BY <1>1, <1>3, <1>4, <1>5, <2>1 DEF ChainShape
<1>8. Sound'
  <2> SUFFICES ASSUME ~faulted', ~spoiled'
               PROVE  head = NoHash /\ rotated = 0 /\
                      (lines' = << >> \/ (Len(lines') = 1 /\ ~lines'[1].v2))
    BY <1>4 DEF Sound
  <2>1. head = NoHash /\ rotated = 0 /\ (lines = << >> \/ (Len(lines) = 1 /\ ~lines[1].v2))
    BY <1>1, <1>4 DEF Sound
  <2> QED
    BY <1>2, <1>3, <1>5, <2>1
<1>9. BreakIsKept'
  <2>1. CASE spoiled
    <3>1. PICK hashes \in SUBSET Hashes : Broken(hashes)
      BY <1>1, <2>1 DEF BreakIsKept
    <3>2. PICK h \in Hashes : h.id = lines[i].id /\ h.edited = TRUE
      <4>1. [id |-> lines[i].id, edited |-> TRUE] \in Hashes
        BY <1>2 DEF Hashes, JournalLines
      <4> QED
        BY <4>1
    <3>3. PICK less \in SUBSET Hashes : less = hashes \ {h}
      OBVIOUS
    <3>4. head' \in less /\ NoHash \notin less
      BY <1>1, <1>4, <3>1, <3>2, <3>3 DEF Broken, ChainShape
    <3>5. ASSUME NEW k \in DOMAIN lines, Hash(lines'[k]) \in less
          PROVE  lines'[k].v2 /\ lines'[k].prev \in less
      <4>1. lines'[k] \in JournalLines /\ lines[k] \in JournalLines
        BY <1>2, <1>3 DEF JournalLines
      <4>2. CASE k = i
        <5>1. Hash(lines'[i]).id = h.id /\ Hash(lines'[i]).edited = h.edited /\ Hash(lines'[i]) \in Hashes
          BY <1>5, <3>2, <4>1, <4>2, HashesOfLines
        <5>2. Hash(lines'[i]) = h
          BY <5>1, SameHash
        <5> QED
          BY <3>3, <3>5, <4>2, <5>2
      <4>3. CASE k # i
        <5>1. Hash(lines'[k]) = Hash(lines[k])
          BY <1>5, <4>3
        <5>2. lines[k].v2 /\ lines[k].prev \in hashes
          BY <3>1, <3>3, <3>5, <5>1 DEF Broken
        <5>3. lines[k].prev # h
          BY <1>1, <1>4, <3>2 DEF ChainShape
        <5> QED
          BY <1>5, <3>3, <5>2, <5>3
      <4> QED
        BY <4>2, <4>3
    <3>6. Broken(less)'
      BY <1>3, <3>4, <3>5 DEF Broken
    <3> QED
      BY <3>6 DEF BreakIsKept
  <2>2. CASE Integrity /\ head # NoHash
    <3>1. PICK hashes \in SUBSET Hashes :
            /\ head \in hashes
            /\ NoHash \notin hashes
            /\ \A k \in DOMAIN lines : Hash(lines[k]) \in hashes <=> k >= i
            /\ \A k \in DOMAIN lines : k > i => lines[k].v2 /\ lines[k].prev \in hashes
            /\ hashes = {Hash(lines[j]) : j \in {k \in DOMAIN lines : k >= i}}
      BY <1>1, <2>2, TailIsClosed
    <3>2. ASSUME NEW k \in DOMAIN lines, Hash(lines'[k]) \in hashes
          PROVE  k > i
      <4>1. lines'[k] \in JournalLines /\ lines[k] \in JournalLines
        BY <1>2, <1>3 DEF JournalLines
      <4>2. CASE k # i
        <5>1. Hash(lines'[k]) = Hash(lines[k])
          BY <1>5, <4>2
        <5>2. k >= i
          BY <3>1, <3>2, <5>1
        <5> QED
          BY <1>2, <4>2, <5>2
      <4>3. CASE k = i
        <5>1. PICK j \in DOMAIN lines : Hash(lines'[i]) = Hash(lines[j])
          BY <3>1, <3>2, <4>3
        <5>2. lines[j].id = lines[i].id /\ lines[j].edited
          BY <1>5, <5>1 DEF Hash
        <5> QED
          BY <1>1, <1>4, <5>2 DEF ChainShape
      <4> QED
        BY <4>2, <4>3
    <3>3. Broken(hashes)'
      BY <1>3, <1>4, <1>5, <3>1, <3>2 DEF Broken
    <3> QED
      BY <3>3 DEF BreakIsKept
  <2>3. CASE ~spoiled'
    BY <2>3 DEF BreakIsKept
  <2> QED
    BY <1>4, <2>1, <2>2, <2>3
<1> QED
  BY <1>6, <1>7, <1>8, <1>9 DEF JournalIInv

LEMMA RemoveKeepsIInv ==
  ASSUME NEW i \in DOMAIN lines, JournalIInv, RemoveLine(i)
  PROVE  JournalIInv'
<1>1. JournalTypes /\ ChainShape /\ Sound /\ BreakIsKept
  BY DEF JournalIInv
<1>2. /\ Len(lines) \in Nat /\ DOMAIN lines = 1 .. Len(lines)
      /\ \A k \in DOMAIN lines : lines[k] \in JournalLines
      /\ lines = << >> <=> Len(lines) = 0
  BY <1>1, LinesAreNumbered
<1>3. /\ lines' \in Seq(JournalLines)
      /\ Len(lines') = Len(lines) - 1
      /\ DOMAIN lines' = 1 .. Len(lines) - 1
      /\ \A k \in DOMAIN lines' :
           Was(i, k) \in DOMAIN lines /\ Was(i, k) # i /\ lines'[k] = lines[Was(i, k)]
  BY <1>1, RemovedLines
<1>4. /\ rotated' = IF i <= rotated THEN rotated - 1 ELSE rotated
      /\ head' = head /\ fresh' = fresh /\ faulted' = faulted
      /\ spoiled' = (spoiled \/ (Integrity /\ head # NoHash))
  BY DEF RemoveLine
<1>5. JournalTypes'
  <2>1. rotated' \in Nat
    BY <1>1, <1>2, <1>4 DEF JournalTypes
  <2> QED
    BY <1>1, <1>3, <1>4, <2>1 DEF JournalTypes
<1>6. ChainShape'
  <2>1. \A k \in DOMAIN lines' : k >= 2 => Was(i, k) >= 2
    BY <1>2, <1>3 DEF Was
  <2>2. \A k, m \in DOMAIN lines' : Was(i, k) = Was(i, m) => k = m
    BY <1>2, <1>3 DEF Was
  <2> QED
    BY <1>1, <1>3, <1>4, <2>1, <2>2 DEF ChainShape
<1>7. Sound'
  <2> SUFFICES ASSUME ~faulted', ~spoiled'
               PROVE  head = NoHash /\ rotated' = 0 /\ lines' = << >>
    BY <1>4 DEF Sound
  <2>1. head = NoHash /\ rotated = 0 /\ (lines = << >> \/ (Len(lines) = 1 /\ ~lines[1].v2))
    BY <1>1, <1>4 DEF Sound
  <2>2. Len(lines') = 0 /\ ~(i <= rotated)
    BY <1>2, <1>3, <2>1
  <2>3. lines' = << >>
    BY <1>3, <2>2, EmptySeq
  <2> QED
    BY <1>4, <2>1, <2>2, <2>3
<1>8. BreakIsKept'
  <2>1. CASE spoiled
    <3>1. PICK hashes \in SUBSET Hashes : Broken(hashes)
      BY <1>1, <2>1 DEF BreakIsKept
    <3>2. Broken(hashes)'
      BY <1>3, <1>4, <3>1 DEF Broken
    <3> QED
      BY <3>2 DEF BreakIsKept
  <2>2. CASE Integrity /\ head # NoHash
    <3>1. PICK hashes \in SUBSET Hashes :
            /\ head \in hashes
            /\ NoHash \notin hashes
            /\ \A k \in DOMAIN lines : Hash(lines[k]) \in hashes <=> k >= i
            /\ \A k \in DOMAIN lines : k > i => lines[k].v2 /\ lines[k].prev \in hashes
      BY <1>1, <2>2, TailIsClosed
    <3>2. \A k \in DOMAIN lines : Hash(lines[k]) \in hashes /\ k # i
             => lines[k].v2 /\ lines[k].prev \in hashes
      BY <1>2, <3>1
    <3>3. Broken(hashes)'
      BY <1>3, <1>4, <3>1, <3>2 DEF Broken
    <3> QED
      BY <3>3 DEF BreakIsKept
  <2>3. CASE ~spoiled'
    BY <2>3 DEF BreakIsKept
  <2> QED
    BY <1>4, <2>1, <2>2, <2>3
<1> QED
  BY <1>5, <1>6, <1>7, <1>8 DEF JournalIInv

LEMMA UnchangedKeepsIInv ==
  ASSUME JournalIInv, UNCHANGED journal
  PROVE  JournalIInv'
BY DEF journal, JournalIInv, JournalTypes, ChainShape, Sound, BreakIsKept, Broken,
       Integrity, Linked

LEMMA AppendKeepsIInv ==
  ASSUME NEW body \in Bodies, NEW outcome, JournalIInv, AppendLine(body, outcome)
  PROVE  JournalIInv'
BY AppendKeepsShape, AppendKeepsSound, AppendKeepsBreak DEF JournalIInv

------------------------------------------------------------------------------
(* What the invariant says of the chain. *)

\* A set of numbers has a least one: the library's induction, as a fact about
\* sets.
LEMMA LeastNumber ==
  ASSUME NEW T \in SUBSET Nat, T # {}
  PROVE  \E x \in T : \A y \in T : x <= y
<1> DEFINE less == OpToRel(<, Nat)
<1>1. IsWellFoundedOn(less, Nat)
  BY NatLessThanWellFounded
<1>2. PICK x \in T : \A y \in T : ~(<< y, x >> \in less)
  <2> HIDE DEF less
  <2>1. \E x \in T : \A y \in T : ~(<< y, x >> \in less)
    BY <1>1, WFMin
  <2> QED
    BY <2>1
<1>3. ASSUME NEW y \in T PROVE x <= y
  <2>1. << y, x >> \notin {ss \in Nat \X Nat : ss[1] < ss[2]}
    BY <1>2 DEF OpToRel
  <2>2. << y, x >> \in Nat \X Nat /\ << y, x >>[1] = y /\ << y, x >>[2] = x
    OBVIOUS
  <2>3. ~(y < x)
    BY <2>1, <2>2
  <2> QED
    BY <2>3
<1> QED
  BY <1>3

\* The first line whose hash is in the broken part would be linked into it.
LEMMA BreakIsSeen ==
  ASSUME JournalIInv
  PROVE  TamperEvident
<1> SUFFICES ASSUME spoiled, lines # << >>, Integrity
             PROVE  FALSE
  BY DEF TamperEvident
<1>1. JournalTypes /\ BreakIsKept
  BY DEF JournalIInv
<1>2. Len(lines) \in Nat /\ DOMAIN lines = 1 .. Len(lines) /\ Len(lines) \in DOMAIN lines
  BY <1>1, LinesAreNumbered
<1>3. PICK hashes \in SUBSET Hashes : Broken(hashes)
  BY <1>1 DEF BreakIsKept
<1> DEFINE T == {k \in DOMAIN lines : Hash(lines[k]) \in hashes}
<1>4. Len(lines) \in T
  BY <1>2, <1>3 DEF Broken, Integrity, Last
<1>5. PICK k \in T : \A j \in T : k <= j
  <2>1. T \in SUBSET Nat /\ T # {}
    BY <1>2, <1>4
  <2> HIDE DEF T
  <2> QED
    BY <2>1, LeastNumber
<1>6. lines[k].v2 /\ lines[k].prev \in hashes /\ Linked(k)
  BY <1>3 DEF Broken, Integrity
<1>7. k # 1 /\ lines[k].prev = Hash(lines[k - 1])
  BY <1>3, <1>6 DEF Broken, Linked
<1>8. k - 1 \in T
  BY <1>2, <1>6, <1>7
<1> QED
  BY <1>2, <1>5, <1>8

LEMMA SoundIsIntact ==
  ASSUME JournalIInv
  PROVE  JournalIntact
<1> SUFFICES ASSUME ~faulted, ~spoiled
             PROVE  Integrity
  BY DEF JournalIntact
<1>1. JournalTypes /\ Sound
  BY DEF JournalIInv
<1>2. CASE head = NoHash
  <2>1. \A k \in DOMAIN lines : ~lines[k].v2
    BY <1>1, <1>2, LinesAreNumbered DEF Sound
  <2> QED
    BY <1>2, <2>1 DEF Integrity, Linked
<1>3. CASE head # NoHash
  BY <1>1, <1>3 DEF Sound
<1> QED
  BY <1>2, <1>3

------------------------------------------------------------------------------
(* The calls and the record. *)

CallStates == [pc : {"idle", "read", "write", "journal"}, act : Acts \cup {"other"},
               fields : SUBSET Fields, want : [Fields -> Int], before : [Fields -> Int],
               prior : {Unknown} \cup Nat,
               reverts : 0 .. MaxLines, force : BOOLEAN, entry : Bodies, seen : Records,
               byCount : BOOLEAN, checked : SUBSET Fields,
               effect : BOOLEAN, line : Bodies]
TypeOK ==
  /\ JournalTypes
  /\ rec \in Records
  /\ clock \in Nat \ {0}
  /\ call \in [Calls -> CallStates]
  /\ undone \in [Ids -> Nat]
  /\ mishaps \in Nat

\* A line of a write that came through and left a record.
Tells(body) == body.result = "applied" /\ body.act \in {"create", "update"}

\* What the fields of a call hold in its states.
CallShape ==
  \A c \in Calls :
    /\ call[c].pc \in {"read", "write"} => call[c].act \in Acts
    /\ call[c].pc = "idle" \/ c \in Tools => call[c].reverts = 0
    /\ call[c].pc # "idle" /\ c \in Undos => call[c].reverts # 0
    /\ call[c].pc = "journal" => call[c].line.reverts = call[c].reverts
    /\ call[c].pc = "read" => c \in Undos
    /\ call[c].pc \in {"read", "write"} /\ c \in Undos /\ call[c].act # "create" =>
         Tells(call[c].entry)

\* As long as the record r is the one the write left, its mod count names its
\* value: the count grows whenever the value changes.  What the line says of the
\* count and the fields written is true.
Known(body, r, now) ==
  Tells(body) =>
    /\ body.left.born < now
    /\ body.left.born = r.born =>
         body.left.mod <= r.mod /\ (body.left.mod = r.mod => body.left.val = r.val)
    /\ body.after # Unknown => body.after = body.left.mod
    /\ \A f \in body.fields : body.left.val[f] = body.val[f]
CountsAreTrue ==
  /\ rec.born < clock
  /\ \A i \in DOMAIN lines : Known(lines[i].body, rec, clock)
  /\ \A c \in Calls : Known(call[c].line, rec, clock) /\ Known(call[c].entry, rec, clock)

\* What the drift check of an unforced revert compared.
Compared(c) ==
  /\ c.checked # {}
  /\ c.byCount => Baseline(c.entry) # Unknown /\ Baseline(c.entry) = c.seen.mod
  /\ ~c.byCount => /\ c.checked \subseteq c.entry.fields
                   /\ \A f \in c.checked : c.seen.val[f] = c.entry.val[f]
DriftWasChecked ==
  \A c \in Undos :
    call[c].pc = "write" /\ call[c].act # "create" /\ ~call[c].force => Compared(call[c])

\* Unless reverts of a line overlapped or left no line, the write is undone once,
\* and then a line says so, or the journal does not verify, or the revert is
\* still to be journaled; and a revert that has yet to write is the only one.
UndoneOnce ==
  \A i \in Ids \ blurred :
    /\ undone[i] <= 1
    /\ undone[i] = 1 =>
         \/ spoiled
         \/ i \in RevertedIds
         \/ \E c \in Undos : call[c].pc = "journal" /\ call[c].effect /\ call[c].reverts = i
    /\ \A c \in Undos : call[c].pc \in {"read", "write"} /\ call[c].reverts = i => undone[i] = 0
    /\ \A c, d \in Undos : call[c].reverts = i /\ call[d].reverts = i => c = d

IInv ==
  /\ TypeOK
  /\ JournalIInv
  /\ CallShape
  /\ CountsAreTrue
  /\ DriftWasChecked
  /\ UndoneOnce

------------------------------------------------------------------------------
(* The initial states. *)

LEMMA IdleValues ==
  /\ Idle \in CallStates /\ Idle.pc = "idle" /\ Idle.reverts = 0
  /\ Idle.line.act = "other" /\ Idle.entry.act = "other"
<1>1. /\ 0 \in 0 .. MaxLines /\ Unknown \in {Unknown} \cup Nat
      /\ Blank \in [Fields -> Int]
  BY LinesAssumption DEF Unknown, Blank
<1> HIDE DEF Blank, Unknown
<1>2. Nothing \in Records
  BY <1>1 DEF Records, Nothing
<1> HIDE DEF Nothing
<1>3. NoBody \in Bodies /\ NoBody.act = "other"
  BY <1>1, <1>2 DEF NoBody, Bodies, Acts
<1> HIDE DEF NoBody
<1> QED
  BY <1>1, <1>2, <1>3 DEF Idle, CallStates, Acts

\* Nothing is journaled, recorded or undone yet.
LEMMA InitIInv == Init => IInv
<1> SUFFICES ASSUME Init
             PROVE  IInv
  OBVIOUS
<1>1. MaxLines \in Nat \ {0} /\ OldBody.act = "other"
  BY LinesAssumption, OldBodyAssumption
<1>2. JournalIInv
  BY JournalInitIInv DEF Init
<1>3. /\ Idle \in CallStates /\ Idle.pc = "idle" /\ Idle.reverts = 0
      /\ Idle.line.act = "other" /\ Idle.entry.act = "other"
  BY IdleValues
<1>4. /\ rec \in Records /\ rec.born = 0 /\ clock = 1
      /\ call = [c \in Calls |-> Idle]
      /\ undone = [i \in Ids |-> 0] /\ blurred = {} /\ mishaps = 0
  BY DEF Init, Records
<1>5. TypeOK
  BY <1>2, <1>3, <1>4 DEF TypeOK, JournalIInv
<1>6. CallShape
  BY <1>3, <1>4 DEF CallShape
<1>7. CountsAreTrue
  <2>1. \A i \in DOMAIN lines : lines[i].body.act = "other"
    <3>1. CASE lines = << >>
      BY <3>1
    <3>2. CASE lines = << OldLine >>
      BY <1>1, <3>2 DEF OldLine
    <3> QED
      BY <3>1, <3>2 DEF Init, JournalInit
  <2> QED
    BY <1>3, <1>4, <2>1 DEF CountsAreTrue, Known, Tells
<1>8. DriftWasChecked
  BY <1>3, <1>4 DEF DriftWasChecked, Calls
<1>9. UndoneOnce
  BY <1>1, <1>3, <1>4 DEF UndoneOnce, Ids, Calls
<1> QED
  BY <1>2, <1>5, <1>6, <1>7, <1>8, <1>9 DEF IInv

------------------------------------------------------------------------------
(* What a step makes of the record, the counts and the lines' bodies. *)

LEMMA WrittenValues ==
  ASSUME NEW act \in Acts, NEW fields \in SUBSET Fields, NEW want \in [Fields -> Int],
         rec \in Records, clock \in Nat
  PROVE  /\ Written(act, fields, want) \in Records
         /\ act = "create" => Written(act, fields, want).born = clock
         /\ act # "create" => Written(act, fields, want).born = rec.born
         /\ act \in {"create", "update"} =>
              \A f \in fields : Written(act, fields, want).val[f] = want[f]
         /\ act # "create" =>
              \/ Written(act, fields, want).mod = rec.mod + 1
              \/ Written(act, fields, want).mod = rec.mod /\ Written(act, fields, want).val = rec.val
<1> DEFINE made == [f \in Fields |-> IF f \in fields THEN want[f] ELSE 0]
           merged == [f \in Fields |-> IF f \in fields THEN want[f] ELSE rec.val[f]]
           count == IF \E f \in fields : want[f] # rec.val[f] THEN rec.mod + 1 ELSE rec.mod
<1>1. /\ rec.val \in [Fields -> Int] /\ rec.mod \in Nat /\ rec.on \in BOOLEAN /\ rec.born \in Nat
  BY DEF Records
<1>2. /\ made \in [Fields -> Int] /\ merged \in [Fields -> Int] /\ count \in Nat
      /\ \A f \in fields : made[f] = want[f] /\ merged[f] = want[f]
  BY <1>1
<1>3. CASE act = "create"
  <2>1. Written(act, fields, want) = [on |-> TRUE, mod |-> 0, born |-> clock, val |-> made]
    BY <1>3 DEF Written
  <2> HIDE DEF made, merged, count
  <2>2. /\ Written(act, fields, want).val = made /\ Written(act, fields, want).born = clock
        /\ Written(act, fields, want) \in Records
    BY <1>2, <2>1 DEF Records
  <2> QED
    BY <1>2, <1>3, <2>2
<1>4. CASE act = "update"
  <2>1. Written(act, fields, want) = [rec EXCEPT !.val = merged, !.mod = count]
    BY <1>1, <1>4 DEF Written, Records
  <2>2. count = rec.mod + 1 \/ (count = rec.mod /\ merged = rec.val)
    <3>1. CASE \E f \in fields : want[f] # rec.val[f]
      BY <3>1
    <3>2. CASE \A f \in fields : want[f] = rec.val[f]
      <4>1. \A f \in Fields : merged[f] = rec.val[f]
        BY <3>2
      <4>2. merged = rec.val
        BY <1>1, <1>2, <4>1
      <4> QED
        BY <3>2, <4>2
    <3> QED
      BY <3>1, <3>2
  <2> HIDE DEF merged, count
  <2>3. /\ Written(act, fields, want).val = merged /\ Written(act, fields, want).mod = count
        /\ Written(act, fields, want).born = rec.born
        /\ Written(act, fields, want) \in Records
    BY <1>2, <2>1 DEF Records
  <2> QED
    BY <1>2, <1>4, <2>2, <2>3
<1>5. CASE act = "delete"
  BY <1>5 DEF Written, Records
<1> QED
  BY <1>3, <1>4, <1>5 DEF Acts

\* A write of the record leaves what was known of it known.
LEMMA CountsStayTrue ==
  ASSUME NEW act \in Acts, NEW fields \in SUBSET Fields, NEW want \in [Fields -> Int],
         rec \in Records, clock \in Nat \ {0}, clock' \in Nat, rec.born < clock,
         \/ rec' = rec /\ clock' >= clock
         \/ rec' = Written(act, fields, want) /\ clock' >= (IF act = "create" THEN clock + 1 ELSE clock)
  PROVE  /\ rec' \in Records
         /\ rec'.born < clock'
         /\ \A body \in Bodies : Known(body, rec, clock) => Known(body, rec', clock')
<1>1. /\ rec.born \in Nat /\ rec.mod \in Nat /\ clock \in Nat
      /\ \A body \in Bodies : body.left.born \in Nat /\ body.left.mod \in Nat
  BY DEF Records, Bodies
<1>2. CASE rec' = rec /\ clock' >= clock
  BY <1>1, <1>2 DEF Known
<1>3. CASE rec' = Written(act, fields, want) /\ clock' >= (IF act = "create" THEN clock + 1 ELSE clock)
  <2>1. /\ rec' \in Records
        /\ act = "create" => rec'.born = clock
        /\ act # "create" => rec'.born = rec.born
        /\ act # "create" => rec'.mod = rec.mod + 1 \/ (rec'.mod = rec.mod /\ rec'.val = rec.val)
    BY <1>1, <1>3, WrittenValues
  <2>2. CASE act = "create"
    BY <1>1, <1>3, <2>1, <2>2 DEF Known
  <2>3. CASE act # "create"
    BY <1>1, <1>3, <2>1, <2>3 DEF Known
  <2> QED
    BY <2>2, <2>3
<1> QED
  BY <1>2, <1>3

LEMMA BodiesOfLines ==
  ASSUME JournalTypes
  PROVE  \A i \in DOMAIN lines : lines[i].body \in Bodies
BY LinesAreNumbered DEF JournalLines

\* Appending forgets no line and adds the one given.
LEMMA AppendedBodies ==
  ASSUME NEW body \in Bodies, NEW outcome, JournalTypes, AppendLine(body, outcome)
  PROVE  /\ \A k \in DOMAIN lines' :
              lines'[k].body = body \/ \E j \in DOMAIN lines : lines'[k].body = lines[j].body
         /\ RevertedIds \subseteq RevertedIds'
         /\ outcome # "lost" /\ body.result = "applied" => body.reverts \in RevertedIds'
<1>1. CASE outcome = "lost"
  <2>1. lines' = lines
    BY <1>1, AppendedLines
  <2> QED
    BY <1>1, <2>1 DEF RevertedIds
<1>2. CASE outcome # "lost"
  <2> DEFINE n == Len(lines) + 1
  <2>1. /\ DOMAIN lines' = DOMAIN lines \cup {n}
        /\ \A i \in DOMAIN lines : lines'[i] = lines[i]
        /\ lines'[n] = NextLine(body)
    BY <1>2, AppendedLines
  <2>2. NextLine(body).body = body
    BY DEF NextLine
  <2> HIDE DEF n
  <2> QED
    BY <2>1, <2>2 DEF RevertedIds
<1> QED
  BY <1>1, <1>2

LEMMA EditedBodies ==
  ASSUME NEW i \in DOMAIN lines, JournalTypes, EditLine(i)
  PROVE  /\ DOMAIN lines' = DOMAIN lines
         /\ \A k \in DOMAIN lines : lines'[k].body = lines[k].body
<1>1. /\ DOMAIN lines' = DOMAIN lines
      /\ \A k \in DOMAIN lines :
           lines'[k] = IF k = i THEN [lines[i] EXCEPT !.edited = TRUE] ELSE lines[k]
  BY EditedLines
<1>2. \A k \in DOMAIN lines : lines[k] \in JournalLines
  BY LinesAreNumbered
<1> QED
  BY <1>1, <1>2 DEF JournalLines

LEMMA RemovedBodies ==
  ASSUME NEW i \in DOMAIN lines, JournalTypes, RemoveLine(i)
  PROVE  /\ \A k \in DOMAIN lines' : \E j \in DOMAIN lines : lines'[k].body = lines[j].body
         /\ RevertedIds \subseteq RevertedIds' \cup {lines[i].body.reverts}
<1>1. /\ Len(lines) \in Nat /\ DOMAIN lines = 1 .. Len(lines)
      /\ DOMAIN lines' = 1 .. Len(lines) - 1
      /\ \A k \in DOMAIN lines' :
           Was(i, k) \in DOMAIN lines /\ lines'[k] = lines[Was(i, k)]
  BY LinesAreNumbered, RemovedLines
<1>2. \A j \in DOMAIN lines : j # i => \E k \in DOMAIN lines' : Was(i, k) = j
  <2> SUFFICES ASSUME NEW j \in DOMAIN lines, j # i
               PROVE  \E k \in DOMAIN lines' : Was(i, k) = j
    OBVIOUS
  <2>1. CASE j < i
    <3>1. j \in DOMAIN lines' /\ Was(i, j) = j
      BY <1>1, <2>1 DEF Was
    <3> QED
      BY <3>1
  <2>2. CASE j > i
    <3>1. j - 1 \in DOMAIN lines' /\ Was(i, j - 1) = j
      BY <1>1, <2>2 DEF Was
    <3> QED
      BY <3>1
  <2> QED
    BY <1>1, <2>1, <2>2
<1>3. ASSUME NEW j \in DOMAIN lines, j # i
      PROVE  \E k \in DOMAIN lines' : lines'[k] = lines[j]
  BY <1>1, <1>2, <1>3
<1>4. \A k \in DOMAIN lines' : \E j \in DOMAIN lines : lines'[k].body = lines[j].body
  BY <1>1
<1>5. RevertedIds \subseteq RevertedIds' \cup {lines[i].body.reverts}
  <2> SUFFICES ASSUME NEW j \in DOMAIN lines, lines[j].body.result = "applied", j # i
               PROVE  lines[j].body.reverts \in RevertedIds'
    BY DEF RevertedIds
  <2>1. PICK k \in DOMAIN lines' : lines'[k] = lines[j]
    BY <1>3
  <2> QED
    BY <2>1 DEF RevertedIds
<1> QED
  BY <1>4, <1>5

------------------------------------------------------------------------------
(* The steps. *)

LEMMA ForeignStep ==
  ASSUME IInv, Foreign
  PROVE  IInv'
<1>1. TypeOK /\ JournalIInv /\ CountsAreTrue
  BY DEF IInv
<1>2. PICK act \in {"update", "delete"}, fields \in SUBSET Fields, want \in [Fields -> Int] :
         rec' = Written(act, fields, want)
  <2>1. clock \in Int /\ Blank \in [Fields -> Int]
    BY <1>1 DEF TypeOK, Blank, Unknown
  <2>2. CASE \E f \in Fields : rec' = Written("update", {f}, [g \in Fields |-> clock])
    <3>1. PICK f \in Fields : rec' = Written("update", {f}, [g \in Fields |-> clock])
      BY <2>2
    <3>2. [g \in Fields |-> clock] \in [Fields -> Int] /\ {f} \in SUBSET Fields
      BY <2>1
    <3> QED
      BY <3>1, <3>2
  <2>3. CASE rec' = Written("delete", {}, Blank)
    BY <2>1, <2>3
  <2> QED
    BY <2>2, <2>3 DEF Foreign
<1>3. /\ clock \in Nat \ {0} /\ clock \in Int /\ clock' = clock + 1 /\ clock' \in Nat \ {0}
      /\ rec \in Records /\ rec.born < clock
  BY <1>1 DEF Foreign, TypeOK, CountsAreTrue
<1>4. /\ UNCHANGED journal /\ UNCHANGED << call, undone, blurred, mishaps >>
      /\ lines' = lines /\ spoiled' = spoiled
  BY DEF Foreign, journal
<1>5. /\ rec' \in Records
      /\ rec'.born < clock'
      /\ \A body \in Bodies : Known(body, rec, clock) => Known(body, rec', clock')
  <2>1. act \in Acts /\ act # "create" /\ clock' >= clock
    BY <1>3 DEF Acts
  <2> QED
    BY <1>2, <1>3, <2>1, CountsStayTrue
<1>6. JournalIInv'
  BY <1>1, <1>4, UnchangedKeepsIInv
<1>7. TypeOK'
  BY <1>1, <1>3, <1>4, <1>5, <1>6 DEF TypeOK, JournalIInv
<1>8. CallShape'
  BY <1>4 DEF IInv, CallShape
<1>9. CountsAreTrue'
  <2>1. /\ \A i \in DOMAIN lines : lines[i].body \in Bodies
        /\ \A c \in Calls : call[c].line \in Bodies /\ call[c].entry \in Bodies
    BY <1>1, BodiesOfLines DEF TypeOK, CallStates
  <2> QED
    BY <1>1, <1>4, <1>5, <2>1 DEF CountsAreTrue
<1>10. DriftWasChecked'
  BY <1>4 DEF IInv, DriftWasChecked
<1>11. UndoneOnce'
  BY <1>4 DEF IInv, UndoneOnce, RevertedIds
<1> QED
  BY <1>6, <1>7, <1>8, <1>9, <1>10, <1>11 DEF IInv

\* The parts of the invariant that only the journal and the calls disturb, when
\* the journal is as it was and one call changes.
LEMMA CallStep ==
  ASSUME IInv, NEW c \in Calls, NEW new \in CallStates,
         UNCHANGED journal, rec' = rec, undone' = undone, mishaps' \in Nat,
         clock' \in Nat, clock' >= clock,
         call' = [call EXCEPT ![c] = new],
         ~Tells(new.line) \/ new.line = call[c].line,
         Known(new.entry, rec, clock)
  PROVE  TypeOK' /\ JournalIInv' /\ CountsAreTrue'
<1>1. TypeOK /\ JournalIInv /\ CountsAreTrue
  BY DEF IInv
<1>2. lines' = lines /\ clock \in Nat \ {0} /\ clock' \in Nat \ {0}
  BY <1>1 DEF journal, TypeOK
<1>3. /\ call \in [Calls -> CallStates] /\ call'[c] = new
      /\ \A d \in Calls : d # c => call'[d] = call[d]
  BY <1>1 DEF TypeOK
<1>4. JournalIInv'
  BY <1>1, UnchangedKeepsIInv
<1>5. TypeOK'
  <2>1. call' \in [Calls -> CallStates]
    BY <1>3
  <2> QED
    BY <1>1, <1>2, <1>4, <2>1 DEF TypeOK, JournalIInv
<1>6. CountsAreTrue'
  <2>1. rec.born \in Nat /\ rec.born < clock
    BY <1>1 DEF TypeOK, Records, CountsAreTrue
  <2>2. rec'.born < clock'
    BY <1>2, <2>1
  <2>3. \A body \in Bodies : Known(body, rec, clock) => Known(body, rec', clock')
    <3>1. \A body \in Bodies : body.left.born \in Nat
      BY DEF Bodies, Records
    <3> QED
      BY <1>2, <3>1 DEF Known
  <2>4. /\ \A i \in DOMAIN lines : lines[i].body \in Bodies
        /\ \A d \in Calls : call[d].line \in Bodies /\ call[d].entry \in Bodies
        /\ new.line \in Bodies /\ new.entry \in Bodies
    BY <1>1, BodiesOfLines DEF TypeOK, CallStates
  <2>5. Known(new.line, rec, clock)
    BY <1>1 DEF CountsAreTrue, Known
  <2>6. \A d \in Calls : /\ Known(call'[d].line, rec, clock) /\ Known(call'[d].entry, rec, clock)
                         /\ call'[d].line \in Bodies /\ call'[d].entry \in Bodies
    BY <1>1, <1>3, <2>4, <2>5 DEF CountsAreTrue
  <2>7. \A i \in DOMAIN lines' : Known(lines'[i].body, rec, clock) /\ lines'[i].body \in Bodies
    BY <1>1, <1>2, <2>4 DEF CountsAreTrue
  <2> QED
    BY <2>2, <2>3, <2>6, <2>7 DEF CountsAreTrue
<1> QED
  BY <1>4, <1>5, <1>6

LEMMA PrepareStep ==
  ASSUME IInv, NEW c \in Tools, NEW act \in Acts, Prepare(c, act)
  PROVE  IInv'
<1>1. TypeOK /\ CallShape /\ DriftWasChecked /\ UndoneOnce
  BY DEF IInv
<1>2. c \in Calls /\ c \notin Undos
  BY CallsAssumption DEF Calls
<1>3. /\ UNCHANGED journal /\ UNCHANGED << rec, undone, blurred, mishaps >>
      /\ lines' = lines /\ spoiled' = spoiled
  BY DEF Prepare, journal
<1>4. clock \in Nat /\ clock' \in Nat /\ clock' >= clock /\ mishaps' \in Nat /\ rec \in Records
  BY <1>1, <1>3 DEF Prepare, TypeOK
<1>5. PICK fields \in SUBSET Fields, want \in [Fields -> Int], before \in [Fields -> Int],
           prior \in {Unknown} \cup Nat :
         call' = [call EXCEPT ![c] = [Idle EXCEPT !.pc = "write", !.act = act, !.fields = fields,
                                        !.want = want, !.before = before, !.prior = prior]]
  <2>1. PICK fields \in SUBSET Fields, captured \in BOOLEAN, counted \in BOOLEAN :
          \E new \in {{}, fields} :
            /\ fields = {} <=> act = "delete"
            /\ captured => rec.on /\ act # "create"
            /\ counted => captured /\ act = "update"
            /\ call' = [call EXCEPT ![c] = [Idle EXCEPT !.pc = "write", !.act = act,
                         !.fields = fields,
                         !.want = [f \in Fields |-> IF f \in new THEN clock ELSE
                                                    IF f \in fields THEN rec.val[f] ELSE Unknown],
                         !.before = IF captured THEN rec.val ELSE Blank,
                         !.prior = IF counted THEN rec.mod ELSE Unknown]]
    BY DEF Prepare
  <2>2. PICK new \in {{}, fields} :
            call' = [call EXCEPT ![c] = [Idle EXCEPT !.pc = "write", !.act = act,
                         !.fields = fields,
                         !.want = [f \in Fields |-> IF f \in new THEN clock ELSE
                                                    IF f \in fields THEN rec.val[f] ELSE Unknown],
                         !.before = IF captured THEN rec.val ELSE Blank,
                         !.prior = IF counted THEN rec.mod ELSE Unknown]]
    BY <2>1
  <2>3. /\ clock \in Int /\ Unknown \in Int /\ rec.mod \in Nat
        /\ rec.val \in [Fields -> Int] /\ Blank \in [Fields -> Int]
    BY <1>4 DEF Records, Unknown, Blank
  <2>4. [f \in Fields |-> IF f \in new THEN clock ELSE
                          IF f \in fields THEN rec.val[f] ELSE Unknown] \in [Fields -> Int]
    BY <2>3
  <2>5. (IF captured THEN rec.val ELSE Blank) \in [Fields -> Int]
    BY <2>3
  <2>6. (IF counted THEN rec.mod ELSE Unknown) \in {Unknown} \cup Nat
    BY <2>3
  <2> QED
    BY <2>2, <2>4, <2>5, <2>6
<1> DEFINE new == [Idle EXCEPT !.pc = "write", !.act = act, !.fields = fields,
                               !.want = want, !.before = before, !.prior = prior]
<1>7. /\ new \in CallStates /\ new.pc = "write" /\ new.act = act /\ new.reverts = 0
      /\ new.line.act = "other" /\ new.entry.act = "other"
  BY IdleValues DEF CallStates
<1>8. call' = [call EXCEPT ![c] = new]
  BY <1>5
<1> HIDE DEF new
<1>9. ~Tells(new.line) /\ Known(new.entry, rec, clock)
  BY <1>7 DEF Known, Tells
<1>10. TypeOK' /\ JournalIInv' /\ CountsAreTrue'
  BY <1>2, <1>3, <1>4, <1>7, <1>8, <1>9, CallStep
<1>11. /\ call'[c] = new
       /\ \A d \in Calls : d # c => call'[d] = call[d]
       /\ \A d \in Undos : d \in Calls /\ d # c
  BY <1>1, <1>2, <1>8 DEF TypeOK, Calls
<1>12. CallShape'
  BY <1>1, <1>2, <1>7, <1>11 DEF CallShape
<1>13. DriftWasChecked'
  BY <1>1, <1>11 DEF DriftWasChecked
<1>14. UndoneOnce'
  BY <1>1, <1>3, <1>11 DEF UndoneOnce, RevertedIds
<1> QED
  BY <1>10, <1>12, <1>13, <1>14 DEF IInv

LEMMA PlanStep ==
  ASSUME IInv, NEW c \in Undos, NEW i \in DOMAIN lines, NEW force \in BOOLEAN, Plan(c, i, force)
  PROVE  IInv'
<1>1. TypeOK /\ JournalIInv /\ CallShape /\ DriftWasChecked /\ UndoneOnce /\ CountsAreTrue
  BY DEF IInv
<1>2. c \in Calls /\ Undos \subseteq Calls
  BY DEF Calls
<1>3. /\ UNCHANGED journal /\ UNCHANGED << rec, clock, undone, mishaps >>
      /\ lines' = lines /\ spoiled' = spoiled
      /\ call[c].pc = "idle"
      /\ Integrity /\ Revertible(lines[i])
  BY DEF Plan, journal
<1> DEFINE e == lines[i].body
           r == lines[i].id
           fields == IF e.act = "update" THEN e.fields ELSE IF e.act = "delete" THEN Fields ELSE {}
           new == [Idle EXCEPT !.pc = "read", !.act = InverseOf(e.act), !.fields = fields,
                               !.want = e.before, !.reverts = r, !.force = force, !.entry = e]
<1>4. /\ e \in Bodies /\ e.act \in Acts /\ InverseOf(e.act) \in Acts
      /\ e.before \in [Fields -> Int] /\ fields \in SUBSET Fields
      /\ Known(e, rec, clock)
      /\ InverseOf(e.act) # "create" => Tells(e)
  <2>1. e \in Bodies /\ e.act \in Acts /\ e.result = "applied" /\ Known(e, rec, clock)
    BY <1>1, <1>3, BodiesOfLines DEF TypeOK, Revertible, CountsAreTrue
  <2>2. InverseOf(e.act) \in Acts /\ (InverseOf(e.act) # "create" => Tells(e))
    BY <2>1 DEF InverseOf, Acts, Tells
  <2>3. e.before \in [Fields -> Int] /\ fields \in SUBSET Fields
    BY <2>1 DEF Bodies
  <2> QED
    BY <2>1, <2>2, <2>3
<1>5. r \in Ids /\ r \in 0 .. MaxLines /\ r # 0
  <2>1. r \in Nat /\ r >= 1 /\ r < fresh /\ fresh \in 1 .. MaxLines + 1
    BY <1>1, LinesAreNumbered DEF JournalIInv, ChainShape, JournalLines, TypeOK, JournalTypes
  <2> QED
    BY <2>1, LinesAssumption DEF Ids
<1>6. call' = [call EXCEPT ![c] = new]
  BY DEF Plan
<1>7. /\ new \in CallStates /\ new.pc = "read" /\ new.act = InverseOf(e.act) /\ new.reverts = r
      /\ new.line.act = "other" /\ new.entry = e
  <2> HIDE DEF e, r, fields
  <2> QED
    BY <1>4, <1>5, IdleValues DEF CallStates
<1> HIDE DEF new, e, fields
<1>8. TypeOK' /\ JournalIInv' /\ CountsAreTrue'
  <2>1. clock' \in Nat /\ clock' >= clock /\ mishaps' \in Nat
    BY <1>1, <1>3 DEF TypeOK
  <2> QED
    BY <1>2, <1>3, <1>4, <1>6, <1>7, <2>1, CallStep DEF Tells
<1>9. /\ call'[c] = new
      /\ \A d \in Calls : d # c => call'[d] = call[d]
  BY <1>1, <1>2, <1>6 DEF TypeOK
<1>10. CallShape'
  BY <1>1, <1>2, <1>4, <1>5, <1>7, <1>9, CallsAssumption DEF CallShape, Calls
<1>11. DriftWasChecked'
  BY <1>1, <1>2, <1>7, <1>9 DEF DriftWasChecked
<1>12. UndoneOnce'
  <2> SUFFICES ASSUME NEW k \in Ids \ blurred'
               PROVE  /\ undone[k] <= 1
                      /\ undone[k] = 1 =>
                           \/ spoiled
                           \/ k \in RevertedIds
                           \/ \E d \in Undos : call'[d].pc = "journal" /\ call'[d].effect
                                               /\ call'[d].reverts = k
                      /\ \A d \in Undos : call'[d].pc \in {"read", "write"} /\ call'[d].reverts = k
                           => undone[k] = 0
                      /\ \A d, f \in Undos : call'[d].reverts = k /\ call'[f].reverts = k => d = f
    BY <1>3 DEF UndoneOnce, RevertedIds
  <2>1. blurred' = IF \E d \in Undos : call[d].reverts = r THEN blurred \cup {r} ELSE blurred
    BY DEF Plan
  <2>2. k \in Ids \ blurred
    BY <2>1
  <2>3. /\ undone[k] <= 1 /\ undone[k] \in Nat
        /\ undone[k] = 1 =>
             \/ spoiled
             \/ k \in RevertedIds
             \/ \E d \in Undos : call[d].pc = "journal" /\ call[d].effect /\ call[d].reverts = k
        /\ \A d \in Undos : call[d].pc \in {"read", "write"} /\ call[d].reverts = k => undone[k] = 0
        /\ \A d, f \in Undos : call[d].reverts = k /\ call[f].reverts = k => d = f
    BY <1>1, <2>2 DEF UndoneOnce, TypeOK
  <2>4. call[c].reverts = 0 /\ k # 0
    BY <1>1, <1>2, <1>3, <2>2, LinesAssumption DEF CallShape, Ids
  <2>5. CASE k # r
    <3>1. \A d \in Undos : call'[d].reverts = k => d # c /\ call'[d] = call[d]
      BY <1>2, <1>7, <1>9, <2>5
    <3>2. \A d \in Undos : call[d].reverts = k => d # c /\ call'[d] = call[d]
      BY <1>2, <1>9, <2>4
    <3> QED
      BY <2>3, <3>1, <3>2
  <2>6. CASE k = r
    <3>1. \A d \in Undos : call[d].reverts # k
      BY <2>1, <2>6
    <3>2. lines # << >>
      OBVIOUS
    <3>3. ~spoiled
      BY <1>1, <1>3, <3>2, BreakIsSeen DEF TamperEvident
    <3>4. k \notin RevertedIds
      BY <1>3, <2>6 DEF Revertible
    <3>5. undone[k] = 0
      BY <2>3, <3>1, <3>3, <3>4
    <3>6. \A d \in Undos : call'[d].reverts = k => d = c
      BY <1>2, <1>9, <3>1
    <3> QED
      BY <3>5, <3>6
  <2> QED
    BY <2>5, <2>6
<1> QED
  BY <1>8, <1>10, <1>11, <1>12 DEF IInv

LEMMA ReadForRevertStep ==
  ASSUME IInv, NEW c \in Undos, ReadForRevert(c)
  PROVE  IInv'
<1>1. TypeOK /\ JournalIInv /\ CallShape /\ DriftWasChecked /\ UndoneOnce /\ CountsAreTrue
  BY DEF IInv
<1>2. c \in Calls /\ Undos \subseteq Calls
  BY DEF Calls
<1>3. /\ UNCHANGED journal /\ UNCHANGED << rec, clock, undone, blurred, mishaps >>
      /\ lines' = lines /\ spoiled' = spoiled
      /\ call[c].pc = "read"
  BY DEF ReadForRevert, journal
<1>4. call \in [Calls -> CallStates] /\ call[c] \in CallStates /\ rec \in Records
  BY <1>1, <1>2 DEF TypeOK
<1> DEFINE free == call[c].act = "create" \/ call[c].force
           entry == call[c].entry
<1>a. PICK byCount \in BOOLEAN, captured \in BOOLEAN :
         /\ byCount => ~free /\ Baseline(entry) # Unknown
         /\ \E checked \in IF free THEN {{}} ELSE IF byCount THEN {Fields} ELSE SUBSET entry.fields :
              LET ok == IF call[c].act = "create" THEN ~rec.on
                        ELSE rec.on /\ (free \/ Clean(entry, byCount, checked))
              IN call' = [call EXCEPT ![c] = IF ~ok THEN Idle ELSE
                            [@ EXCEPT !.pc = "write", !.seen = rec,
                                      !.byCount = byCount, !.checked = checked,
                                      !.before = IF captured THEN rec.val ELSE Blank]]
  BY DEF ReadForRevert
<1>d. PICK checked \in IF free THEN {{}} ELSE IF byCount THEN {Fields} ELSE SUBSET entry.fields :
         LET ok == IF call[c].act = "create" THEN ~rec.on
                   ELSE rec.on /\ (free \/ Clean(entry, byCount, checked))
         IN call' = [call EXCEPT ![c] = IF ~ok THEN Idle ELSE
                       [@ EXCEPT !.pc = "write", !.seen = rec,
                                 !.byCount = byCount, !.checked = checked,
                                 !.before = IF captured THEN rec.val ELSE Blank]]
  BY <1>a
<1> DEFINE before == IF captured THEN rec.val ELSE Blank
           next == [call[c] EXCEPT !.pc = "write", !.seen = rec,
                                   !.byCount = byCount, !.checked = checked, !.before = before]
           ok == IF call[c].act = "create" THEN ~rec.on
                 ELSE rec.on /\ (free \/ Clean(entry, byCount, checked))
           new == IF ok THEN next ELSE Idle
<1>5. call' = [call EXCEPT ![c] = new]
  BY <1>4, <1>d
<1>b. checked \in SUBSET Fields /\ before \in [Fields -> Int]
  BY <1>4, <1>d DEF Records, Blank, Unknown, CallStates, Bodies
<1>6. /\ next \in CallStates /\ next.pc = "write" /\ next.act = call[c].act
      /\ next.reverts = call[c].reverts /\ next.force = call[c].force
      /\ next.entry = entry /\ next.line = call[c].line /\ next.seen = rec
      /\ next.byCount = byCount /\ next.checked = checked
  <2> HIDE DEF before
  <2> QED
    BY <1>4, <1>b DEF CallStates
<1> HIDE DEF next
<1>7. /\ new \in CallStates
      /\ ~Tells(new.line) \/ new.line = call[c].line
      /\ Known(new.entry, rec, clock)
      /\ new.pc \in {"idle", "write"}
      /\ new.pc = "idle" => new.reverts = 0
      /\ new.pc = "write" => new = next /\ ok
  <2>1. CASE ok
    BY <1>1, <1>2, <1>6, <2>1 DEF CountsAreTrue
  <2>2. CASE ~ok
    BY <2>2, IdleValues DEF Known, Tells
  <2> QED
    BY <2>1, <2>2
<1> HIDE DEF new
<1>8. TypeOK' /\ JournalIInv' /\ CountsAreTrue'
  <2>1. clock' \in Nat /\ clock' >= clock /\ mishaps' \in Nat
    BY <1>1, <1>3 DEF TypeOK
  <2> QED
    BY <1>2, <1>3, <1>5, <1>7, <2>1, CallStep
<1>9. /\ call'[c] = new
      /\ \A d \in Calls : d # c => call'[d] = call[d]
  BY <1>4, <1>2, <1>5
<1>10. CallShape'
  BY <1>1, <1>2, <1>3, <1>6, <1>7, <1>9, CallsAssumption DEF CallShape
<1>11. DriftWasChecked'
  <2>1. ASSUME new.pc = "write", new.act # "create", ~new.force
        PROVE  Compared(new)
    <3>1. new = next /\ ok /\ ~free
      BY <1>6, <1>7, <2>1
    <3>2. Clean(entry, byCount, checked)
      BY <1>6, <3>1
    <3>3. CASE byCount
      <4>1. checked = Fields /\ Baseline(entry) # Unknown
        BY <1>a, <1>d, <3>1, <3>3
      <4>2. Baseline(entry) = rec.mod /\ Fields # {}
        BY <3>2, <3>3, FieldsAssumption DEF Clean
      <4> QED
        BY <1>6, <3>1, <3>3, <4>1, <4>2 DEF Compared
    <3>4. CASE ~byCount
      <4>1. checked \subseteq entry.fields
        BY <1>d, <3>1, <3>4
      <4>2. checked # {} /\ \A f \in checked : rec.val[f] = entry.val[f]
        BY <3>2, <3>4 DEF Clean
      <4> QED
        BY <1>6, <3>1, <3>4, <4>1, <4>2 DEF Compared
    <3> QED
      BY <3>3, <3>4
  <2> QED
    BY <1>1, <1>2, <1>9, <2>1 DEF DriftWasChecked
<1>12. UndoneOnce'
  <2>1. \A d \in Undos :
           /\ call'[d].reverts \in {0, call[d].reverts}
           /\ call'[d].pc = "journal" <=> call[d].pc = "journal"
           /\ call'[d].pc = "journal" => call'[d] = call[d]
           /\ call'[d].pc \in {"read", "write"} => call[d].pc \in {"read", "write"}
                                                   /\ call'[d].reverts = call[d].reverts
    BY <1>2, <1>3, <1>6, <1>7, <1>9
  <2>2. \A k \in Ids : k # 0
    BY LinesAssumption DEF Ids
  <2>3. \A d \in Undos : \A k \in Ids : call'[d].reverts = k => call[d].reverts = k
    BY <2>1, <2>2
  <2> QED
    BY <1>1, <1>3, <2>1, <2>2, <2>3 DEF UndoneOnce, RevertedIds
<1> QED
  BY <1>8, <1>10, <1>11, <1>12 DEF IInv

LEMMA SendStep ==
  ASSUME IInv, NEW c \in Calls, NEW effect \in BOOLEAN, NEW answered \in BOOLEAN,
         Send(c, effect, answered)
  PROVE  IInv'
<1>1. TypeOK /\ JournalIInv /\ CallShape /\ DriftWasChecked /\ UndoneOnce /\ CountsAreTrue
  BY DEF IInv
<1>2. Undos \subseteq Calls
  BY DEF Calls
<1>3. /\ UNCHANGED journal /\ blurred' = blurred
      /\ lines' = lines /\ spoiled' = spoiled
      /\ call[c].pc = "write"
      /\ answered => effect
  BY DEF Send, journal
<1>4. /\ call \in [Calls -> CallStates] /\ call[c] \in CallStates /\ rec \in Records
      /\ call[c].act \in Acts /\ call[c].fields \in SUBSET Fields
      /\ call[c].want \in [Fields -> Int] /\ call[c].before \in [Fields -> Int]
      /\ call[c].prior \in {Unknown} \cup Nat /\ call[c].reverts \in 0 .. MaxLines
      /\ clock \in Nat \ {0} /\ rec.born < clock /\ mishaps \in Nat
      /\ undone \in [Ids -> Nat]
  BY <1>1, <1>3 DEF TypeOK, CallShape, CallStates, CountsAreTrue
<1>5. /\ rec' = IF effect THEN Written(call[c].act, call[c].fields, call[c].want) ELSE rec
      /\ clock' = IF effect /\ call[c].act = "create" THEN clock + 1 ELSE clock
      /\ mishaps' \in Nat
  BY <1>4 DEF Send, Mishap
<1>6. /\ clock' \in Nat \ {0} /\ clock' >= clock
      /\ effect => clock' >= (IF call[c].act = "create" THEN clock + 1 ELSE clock)
  BY <1>4, <1>5
<1>7. /\ rec' \in Records
      /\ rec'.born < clock'
      /\ \A body \in Bodies : Known(body, rec, clock) => Known(body, rec', clock')
  <2>1. PICK act \in Acts, fields \in SUBSET Fields, want \in [Fields -> Int] :
          act = call[c].act /\ fields = call[c].fields /\ want = call[c].want
    BY <1>4
  <2>2. \/ rec' = rec /\ clock' >= clock
        \/ rec' = Written(act, fields, want) /\ clock' >= (IF act = "create" THEN clock + 1 ELSE clock)
    BY <1>5, <1>6, <2>1
  <2> HIDE DEF Records
  <2> QED
    BY <1>4, <1>6, <2>2, CountsStayTrue
<1>8. PICK after \in {Unknown} \cup (IF answered /\ call[c].act # "delete" THEN {rec'.mod} ELSE {}) :
         call' = [call EXCEPT ![c].pc = "journal", ![c].effect = effect,
                    ![c].line = [act |-> call[c].act, fields |-> call[c].fields,
                                 val |-> call[c].want, before |-> call[c].before,
                                 prior |-> call[c].prior, after |-> after,
                                 result |-> IF answered THEN "applied" ELSE "failed",
                                 reverts |-> call[c].reverts, left |-> IF answered THEN rec' ELSE Nothing]]
  BY DEF Send
<1> DEFINE says == IF answered THEN "applied" ELSE "failed"
           left == IF answered THEN rec' ELSE Nothing
           line == [act |-> call[c].act, fields |-> call[c].fields,
                    val |-> call[c].want, before |-> call[c].before,
                    prior |-> call[c].prior, after |-> after, result |-> says,
                    reverts |-> call[c].reverts, left |-> left]
           new == [call[c] EXCEPT !.pc = "journal", !.effect = effect, !.line = line]
<1>9. after \in {Unknown} \cup Nat /\ left \in Records /\ says \in {"applied", "failed"}
  <2>1. Nothing \in Records
    BY DEF Nothing, Records, Blank, Unknown
  <2>2. rec'.mod \in Nat
    BY <1>7 DEF Records
  <2> HIDE DEF Records
  <2> QED
    BY <1>7, <1>8, <2>1, <2>2
<1>10. call' = [call EXCEPT ![c] = new]
  BY <1>4, <1>8
<1>c. (answered <=> says = "applied") /\ (answered => left = rec')
  OBVIOUS
<1> HIDE DEF says, left
<1>11. /\ line \in Bodies /\ line.after = after /\ line.val = call[c].want /\ line.left = left
       /\ line.fields = call[c].fields /\ line.result = says
       /\ line.act = call[c].act /\ line.reverts = call[c].reverts
  <2> HIDE DEF Records
  <2> QED
    BY <1>4, <1>9 DEF Bodies
<1> HIDE DEF line
<1>12. /\ new \in CallStates /\ new.pc = "journal" /\ new.effect = effect /\ new.line = line
       /\ new.reverts = call[c].reverts /\ new.entry = call[c].entry
  BY <1>4, <1>11 DEF CallStates
<1> HIDE DEF new
<1>13. /\ call'[c] = new /\ call' \in [Calls -> CallStates]
       /\ \A d \in Calls : d # c => call'[d] = call[d]
  BY <1>4, <1>10, <1>12
<1>14. undone' = IF effect /\ call[c].reverts # 0
                 THEN [undone EXCEPT ![call[c].reverts] = @ + 1] ELSE undone
  BY DEF Send
<1>15. JournalIInv'
  BY <1>1, <1>3, UnchangedKeepsIInv
<1>16. TypeOK'
  <2>1. undone' \in [Ids -> Nat]
    BY <1>4, <1>14 DEF Ids
  <2> QED
    BY <1>5, <1>6, <1>7, <1>13, <1>15, <2>1 DEF TypeOK, JournalIInv
<1>17. CallShape'
  BY <1>1, <1>3, <1>11, <1>12, <1>13 DEF CallShape
<1>18. CountsAreTrue'
  <2>1. /\ \A i \in DOMAIN lines : lines[i].body \in Bodies /\ Known(lines[i].body, rec, clock)
        /\ \A d \in Calls : /\ call[d].line \in Bodies /\ call[d].entry \in Bodies
                            /\ Known(call[d].line, rec, clock) /\ Known(call[d].entry, rec, clock)
    BY <1>1, BodiesOfLines DEF TypeOK, CallStates, CountsAreTrue
  <2>2. Known(line, rec', clock')
    <3> SUFFICES ASSUME Tells(line)
                 PROVE  Known(line, rec', clock')
      BY DEF Known
    <3>1. answered /\ effect /\ call[c].act \in {"create", "update"}
      BY <1>3, <1>11, <1>c DEF Tells
    <3>2. line.left = rec'
      BY <1>11, <1>c, <3>1
    <3>3. line.after # Unknown => line.after = line.left.mod
      BY <1>8, <1>11, <3>2
    <3>4. \A f \in line.fields : line.left.val[f] = line.val[f]
      <4>1. rec' = Written(call[c].act, call[c].fields, call[c].want)
        BY <1>5, <3>1
      <4>2. PICK act \in Acts, fields \in SUBSET Fields, want \in [Fields -> Int] :
              act = call[c].act /\ fields = call[c].fields /\ want = call[c].want
        BY <1>4
      <4>3. clock \in Nat
        BY <1>4
      <4>4. \A f \in fields : Written(act, fields, want).val[f] = want[f]
        BY <1>4, <3>1, <4>2, <4>3, WrittenValues
      <4> QED
        BY <1>11, <3>2, <4>1, <4>2, <4>4
    <3>5. rec'.mod \in Nat
      BY <1>7 DEF Records
    <3> QED
      BY <1>7, <3>2, <3>3, <3>4, <3>5 DEF Known
  <2>3. \A i \in DOMAIN lines' : Known(lines'[i].body, rec', clock')
    BY <1>3, <1>7, <2>1
  <2>4. \A d \in Calls : call'[d].entry = call[d].entry
    BY <1>12, <1>13
  <2>5. \A d \in Calls : call'[d].line = line \/ call'[d].line = call[d].line
    BY <1>12, <1>13
  <2>6. \A d \in Calls : Known(call'[d].entry, rec', clock') /\ Known(call'[d].line, rec', clock')
    BY <1>7, <2>1, <2>2, <2>4, <2>5
  <2> QED
    BY <1>7, <2>3, <2>6 DEF CountsAreTrue
<1>19. DriftWasChecked'
  BY <1>1, <1>2, <1>12, <1>13 DEF DriftWasChecked
<1>20. UndoneOnce'
  <2> SUFFICES ASSUME NEW k \in Ids \ blurred
               PROVE  /\ undone'[k] <= 1
                      /\ undone'[k] = 1 =>
                           \/ spoiled
                           \/ k \in RevertedIds
                           \/ \E d \in Undos : call'[d].pc = "journal" /\ call'[d].effect
                                               /\ call'[d].reverts = k
                      /\ \A d \in Undos : call'[d].pc \in {"read", "write"} /\ call'[d].reverts = k
                           => undone'[k] = 0
                      /\ \A d, f \in Undos : call'[d].reverts = k /\ call'[f].reverts = k => d = f
    BY <1>3 DEF UndoneOnce, RevertedIds
  <2>1. /\ undone[k] <= 1 /\ undone[k] \in Nat
        /\ undone[k] = 1 =>
             \/ spoiled
             \/ k \in RevertedIds
             \/ \E d \in Undos : call[d].pc = "journal" /\ call[d].effect /\ call[d].reverts = k
        /\ \A d \in Undos : call[d].pc \in {"read", "write"} /\ call[d].reverts = k => undone[k] = 0
        /\ \A d, f \in Undos : call[d].reverts = k /\ call[f].reverts = k => d = f
    BY <1>1, <1>4 DEF UndoneOnce
  <2>2. k # 0
    BY LinesAssumption DEF Ids
  <2>3. \A d \in Undos : call'[d].reverts = call[d].reverts
    BY <1>2, <1>12, <1>13
  <2>4. \A d \in Undos : call[d].pc = "journal" => d # c /\ call'[d] = call[d]
    BY <1>2, <1>3, <1>13
  <2>5. \A d \in Undos : call'[d].pc \in {"read", "write"} => d # c /\ call'[d] = call[d]
    BY <1>2, <1>12, <1>13
  <2>6. CASE effect /\ call[c].reverts = k
    <3>1. c \in Undos
      BY <1>1, <2>2, <2>6 DEF CallShape, Calls
    <3>2. undone[k] = 0
      BY <1>3, <2>1, <2>6, <3>1
    <3>3. undone'[k] = 1
      BY <1>4, <1>14, <2>2, <2>6, <3>2
    <3>4. \A d \in Undos : call'[d].pc \in {"read", "write"} => call'[d].reverts # k
      BY <2>1, <2>5, <2>6, <3>1
    <3>5. call'[c].pc = "journal" /\ call'[c].effect /\ call'[c].reverts = k
      BY <1>12, <1>13, <2>6
    <3> QED
      BY <2>1, <2>3, <3>1, <3>3, <3>4, <3>5
  <2>7. CASE ~(effect /\ call[c].reverts = k)
    <3>1. undone'[k] = undone[k]
      BY <1>4, <1>14, <2>7
    <3> QED
      BY <2>1, <2>3, <2>4, <2>5, <3>1
  <2> QED
    BY <2>6, <2>7
<1> QED
  BY <1>15, <1>16, <1>17, <1>18, <1>19, <1>20 DEF IInv

LEMMA JournalItStep ==
  ASSUME IInv, NEW c \in Calls, NEW outcome \in {"done", "cut", "lost"}, JournalIt(c, outcome)
  PROVE  IInv'
<1>1. TypeOK /\ JournalIInv /\ CallShape /\ DriftWasChecked /\ UndoneOnce /\ CountsAreTrue
      /\ JournalTypes
  BY DEF IInv, TypeOK
<1>2. Undos \subseteq Calls
  BY DEF Calls
<1>3. /\ UNCHANGED << rec, clock, undone >>
      /\ call[c].pc = "journal" /\ call' = [call EXCEPT ![c] = Idle]
      /\ AppendLine(call[c].line, outcome)
      /\ spoiled' = spoiled
  BY DEF JournalIt, AppendLine
<1>4. /\ call \in [Calls -> CallStates] /\ call[c].line \in Bodies /\ mishaps \in Nat
  BY <1>1 DEF TypeOK, CallStates
<1>5. PICK body \in Bodies : body = call[c].line
  BY <1>4
<1>6. AppendLine(body, outcome)
  BY <1>3, <1>5
<1>7. JournalIInv'
  BY <1>1, <1>6, AppendKeepsIInv
<1>8. /\ \A k \in DOMAIN lines' :
           lines'[k].body = body \/ \E j \in DOMAIN lines : lines'[k].body = lines[j].body
      /\ RevertedIds \subseteq RevertedIds'
      /\ outcome # "lost" /\ body.result = "applied" => body.reverts \in RevertedIds'
  BY <1>1, <1>6, AppendedBodies
<1>9. /\ call'[c] = Idle /\ call' \in [Calls -> CallStates]
      /\ \A d \in Calls : d # c => call'[d] = call[d]
  BY <1>3, <1>4, IdleValues
<1>10. TypeOK'
  <2>1. mishaps' \in Nat
    BY <1>4 DEF JournalIt, Mishap
  <2> QED
    BY <1>1, <1>3, <1>7, <1>9, <2>1 DEF TypeOK, JournalIInv
<1>11. CallShape'
  BY <1>1, <1>9, IdleValues DEF CallShape
<1>12. CountsAreTrue'
  <2>1. Known(body, rec, clock)
    BY <1>1, <1>5 DEF CountsAreTrue
  <2>2. \A k \in DOMAIN lines' : Known(lines'[k].body, rec, clock)
    BY <1>1, <1>8, <2>1 DEF CountsAreTrue
  <2>3. \A d \in Calls : Known(call'[d].line, rec, clock) /\ Known(call'[d].entry, rec, clock)
    BY <1>1, <1>9, IdleValues DEF CountsAreTrue, Known, Tells
  <2> QED
    BY <1>1, <1>3, <2>2, <2>3 DEF CountsAreTrue
<1>13. DriftWasChecked'
  BY <1>1, <1>2, <1>9, IdleValues DEF DriftWasChecked
<1>14. UndoneOnce'
  <2> SUFFICES ASSUME NEW k \in Ids \ blurred'
               PROVE  /\ undone[k] <= 1
                      /\ undone[k] = 1 =>
                           \/ spoiled
                           \/ k \in RevertedIds'
                           \/ \E d \in Undos : call'[d].pc = "journal" /\ call'[d].effect
                                               /\ call'[d].reverts = k
                      /\ \A d \in Undos : call'[d].pc \in {"read", "write"} /\ call'[d].reverts = k
                           => undone[k] = 0
                      /\ \A d, f \in Undos : call'[d].reverts = k /\ call'[f].reverts = k => d = f
    BY <1>3 DEF UndoneOnce
  <2>1. /\ blurred \subseteq blurred'
        /\ call[c].effect /\ (outcome = "lost" \/ call[c].line.result = "failed")
             => call[c].reverts \in blurred'
    BY DEF JournalIt
  <2>2. /\ undone[k] <= 1
        /\ undone[k] = 1 =>
             \/ spoiled
             \/ k \in RevertedIds
             \/ \E d \in Undos : call[d].pc = "journal" /\ call[d].effect /\ call[d].reverts = k
        /\ \A d \in Undos : call[d].pc \in {"read", "write"} /\ call[d].reverts = k => undone[k] = 0
        /\ \A d, f \in Undos : call[d].reverts = k /\ call[f].reverts = k => d = f
    BY <1>1, <2>1 DEF UndoneOnce
  <2>3. k # 0
    BY LinesAssumption DEF Ids
  <2>4. \A d \in Undos : call'[d].reverts = k => d # c /\ call'[d] = call[d]
    BY <1>2, <1>9, <2>3, IdleValues
  <2>5. ASSUME NEW d \in Undos, call[d].pc = "journal", call[d].effect, call[d].reverts = k
        PROVE  \/ k \in RevertedIds'
               \/ call'[d].pc = "journal" /\ call'[d].effect /\ call'[d].reverts = k
    <3>1. CASE d # c
      BY <1>2, <1>9, <2>5, <3>1
    <3>2. CASE d = c
      <4>1. outcome # "lost" /\ call[c].line.result # "failed"
        BY <2>1, <2>5, <3>2
      <4>2. body.result = "applied" /\ body.reverts = k
        BY <1>1, <1>3, <1>5, <2>5, <3>2, <4>1 DEF Bodies, CallShape
      <4> QED
        BY <1>8, <4>1, <4>2
    <3> QED
      BY <3>1, <3>2
  <2> QED
    BY <1>8, <2>2, <2>4, <2>5
<1> QED
  BY <1>7, <1>10, <1>11, <1>12, <1>13, <1>14 DEF IInv

LEMMA CrashStep ==
  ASSUME IInv, Crash
  PROVE  IInv'
<1>1. TypeOK /\ JournalIInv /\ CallShape /\ DriftWasChecked /\ UndoneOnce /\ CountsAreTrue
  BY DEF IInv
<1>2. Undos \subseteq Calls
  BY DEF Calls
<1>3. /\ UNCHANGED journal /\ UNCHANGED << rec, clock, undone >>
      /\ lines' = lines /\ spoiled' = spoiled
      /\ call' = [c \in Calls |-> Idle]
      /\ blurred' = blurred \cup {call[c].reverts : c \in {d \in Undos : call[d].pc = "journal"}}
  BY DEF Crash, journal
<1>4. \A c \in Calls : call'[c] = Idle
  BY <1>3
<1>5. JournalIInv'
  BY <1>1, <1>3, UnchangedKeepsIInv
<1>6. TypeOK'
  <2>1. mishaps' \in Nat
    BY <1>1 DEF Crash, Mishap, TypeOK
  <2>2. call' \in [Calls -> CallStates]
    BY <1>3, IdleValues
  <2> QED
    BY <1>1, <1>3, <1>5, <2>1, <2>2 DEF TypeOK, JournalIInv
<1>7. CallShape'
  BY <1>4, IdleValues DEF CallShape
<1>8. CountsAreTrue'
  BY <1>1, <1>3, <1>4, IdleValues DEF CountsAreTrue, Known, Tells
<1>9. DriftWasChecked'
  BY <1>2, <1>4, IdleValues DEF DriftWasChecked
<1>10. UndoneOnce'
  <2>1. \A k \in Ids : k # 0
    BY LinesAssumption DEF Ids
  <2>2. \A d \in Undos : call'[d].reverts = 0
    BY <1>2, <1>4, IdleValues
  <2>3. \A d \in Undos : call[d].pc = "journal" => call[d].reverts \in blurred'
    BY <1>3
  <2>4. RevertedIds' = RevertedIds /\ blurred \subseteq blurred'
    BY <1>3 DEF RevertedIds
  <2> QED
    BY <1>1, <1>3, <2>1, <2>2, <2>3, <2>4 DEF UndoneOnce
<1> QED
  BY <1>5, <1>6, <1>7, <1>8, <1>9, <1>10 DEF IInv

LEMMA MeddleStep ==
  ASSUME IInv, Meddle
  PROVE  IInv'
<1>1. TypeOK /\ JournalIInv /\ CallShape /\ DriftWasChecked /\ UndoneOnce /\ CountsAreTrue
      /\ JournalTypes
  BY DEF IInv, TypeOK
<1>2. UNCHANGED << rec, clock, call, undone >> /\ mishaps' \in Nat
  BY <1>1 DEF Meddle, Mishap, TypeOK
<1>3. PICK i \in DOMAIN lines :
         \/ EditLine(i) /\ UNCHANGED blurred
         \/ /\ RemoveLine(i)
            /\ blurred' = IF spoiled' THEN blurred ELSE blurred \cup {lines[i].body.reverts}
  BY DEF Meddle
<1>4. JournalIInv'
  BY <1>1, <1>3, EditKeepsIInv, RemoveKeepsIInv
<1>5. \A k \in DOMAIN lines' : \E j \in DOMAIN lines : lines'[k].body = lines[j].body
  BY <1>1, <1>3, EditedBodies, RemovedBodies
<1>6. /\ blurred \subseteq blurred' /\ (spoiled => spoiled')
      /\ \A k \in RevertedIds : k \in RevertedIds' \/ k \in blurred' \/ spoiled'
  <2>1. CASE EditLine(i) /\ UNCHANGED blurred
    <3>1. /\ DOMAIN lines' = DOMAIN lines
          /\ \A k \in DOMAIN lines : lines'[k].body = lines[k].body
      BY <1>1, <2>1, EditedBodies
    <3>2. RevertedIds' = RevertedIds
      BY <3>1 DEF RevertedIds
    <3> QED
      BY <2>1, <3>2 DEF EditLine
  <2>2. CASE /\ RemoveLine(i)
             /\ blurred' = IF spoiled' THEN blurred ELSE blurred \cup {lines[i].body.reverts}
    <3>1. RevertedIds \subseteq RevertedIds' \cup {lines[i].body.reverts}
      BY <1>1, <2>2, RemovedBodies
    <3> QED
      BY <2>2, <3>1 DEF RemoveLine
  <2> QED
    BY <1>3, <2>1, <2>2
<1>7. TypeOK'
  BY <1>1, <1>2, <1>4 DEF TypeOK, JournalIInv
<1>8. CallShape'
  BY <1>1, <1>2 DEF CallShape
<1>9. CountsAreTrue'
  BY <1>1, <1>2, <1>5 DEF CountsAreTrue
<1>10. DriftWasChecked'
  BY <1>1, <1>2 DEF DriftWasChecked
<1>11. UndoneOnce'
  BY <1>1, <1>2, <1>6 DEF UndoneOnce
<1> QED
  BY <1>4, <1>7, <1>8, <1>9, <1>10, <1>11 DEF IInv

LEMMA StutterStep ==
  ASSUME IInv, UNCHANGED vars
  PROVE  IInv'
<1>1. UNCHANGED journal
  BY DEF vars, journal
<1>2. JournalIInv'
  BY <1>1, UnchangedKeepsIInv DEF IInv
<1> QED
  BY <1>2 DEF IInv, TypeOK, JournalIInv, CallShape, CountsAreTrue,
              DriftWasChecked, UndoneOnce, RevertedIds, vars

LEMMA NextIInv == IInv /\ [Next]_vars => IInv'
<1> SUFFICES ASSUME IInv, [Next]_vars
             PROVE  IInv'
  OBVIOUS
<1>1. CASE Foreign
  BY <1>1, ForeignStep
<1>2. CASE Crash
  BY <1>2, CrashStep
<1>3. CASE Meddle
  BY <1>3, MeddleStep
<1>4. ASSUME NEW c \in Tools, NEW act \in Acts, Prepare(c, act)
      PROVE  IInv'
  BY <1>4, PrepareStep
<1>5. ASSUME NEW c \in Undos, ReadForRevert(c)
      PROVE  IInv'
  BY <1>5, ReadForRevertStep
<1>6. ASSUME NEW c \in Undos, NEW i \in DOMAIN lines, NEW force \in BOOLEAN, Plan(c, i, force)
      PROVE  IInv'
  BY <1>6, PlanStep
<1>7. ASSUME NEW c \in Calls, NEW effect \in BOOLEAN, NEW answered \in BOOLEAN,
             Send(c, effect, answered)
      PROVE  IInv'
  BY <1>7, SendStep
<1>8. ASSUME NEW c \in Calls, NEW outcome \in {"done", "cut", "lost"}, JournalIt(c, outcome)
      PROVE  IInv'
  BY <1>8, JournalItStep
<1>9. CASE UNCHANGED vars
  BY <1>9, StutterStep
<1> QED
  BY <1>1, <1>2, <1>3, <1>4, <1>5, <1>6, <1>7, <1>8, <1>9 DEF Next

------------------------------------------------------------------------------
(* The theorems. *)

\* What holds in every state, for journals and calls of any number.
THEOREM Invariance == Spec => []IInv
<1>1. Init => IInv
  BY InitIInv
<1>2. IInv /\ [Next]_vars => IInv'
  BY NextIInv
<1> QED
  BY <1>1, <1>2, PTL DEF Spec

\* The state is of its types, and a line never holds what a journal line cannot
\* (JournalEntry, write-journal.ts:77-140).
THEOREM TypeCorrect == Spec => []TypeOK
<1>1. IInv => TypeOK
  BY DEF IInv
<1> QED
  BY <1>1, Invariance, PTL

\* No false alarm: while every append comes through and nobody touches the files
\* the chain verifies, however often it rotates and whether or not it starts
\* behind a line of the older version (write-journal.ts:456-471).
THEOREM ChainVerifies == Spec => []JournalIntact
<1>1. IInv => JournalIntact
  BY SoundIsIntact DEF IInv
<1> QED
  BY <1>1, Invariance, PTL

\* No missed alarm: after a line of a sound chain was edited or removed by hand
\* no later append, complete or cut short, makes the journal verify again, so
\* every revert planned from it is refused (revert.ts:255-261).
THEOREM TamperingIsEvident == Spec => []TamperEvident
<1>1. IInv => TamperEvident
  BY BreakIsSeen DEF IInv
<1> QED
  BY <1>1, Invariance, PTL

\* The verdict that a revert goes by (revert.ts:255-261) is right both ways.
THEOREM VerdictIsTrue == Spec => []VerdictTrue
BY ChainVerifies, TamperingIsEvident, PTL DEF VerdictTrue

\* The write of a line is undone at most once, whatever the calls, answers,
\* crashes and edits between, unless reverts of it overlapped or left no line
\* (revert.ts:181-186, 262-268).
THEOREM UndoneAtMostOnce == Spec => []RevertedOnce
<1>1. IInv => RevertedOnce
  BY DEF IInv, UndoneOnce, RevertedOnce, TypeOK
<1> QED
  BY <1>1, Invariance, PTL

\* A revert that was not forced has checked something, and what it checked is as
\* the reverted write left it (the whole record by a count that tells, else the
\* written fields it could compare), if the record is still the one it read
\* (revert.ts:282-315).
THEOREM NothingIsErasedSilently == Spec => NoSilentLoss
<1> DEFINE Harmless ==
      \A c \in Undos : call[c].pc = "write" /\ call'[c].pc = "journal" /\ call'[c].effect
                        => ~Unnoticed(call[c])
<1>1. IInv /\ [Next]_vars => [Harmless]_vars
  <2> SUFFICES ASSUME IInv, NEW c \in Undos, call[c].pc = "write", Unnoticed(call[c])
               PROVE  FALSE
    OBVIOUS
  <2> DEFINE e == call[c].entry
  <2>1. /\ call[c].act # "create" /\ ~call[c].force
        /\ rec = call[c].seen
        /\ call[c].byCount => CountTells(e)
        /\ call[c].checked = {} \/ \E f \in call[c].checked : rec.val[f] # e.left.val[f]
    BY DEF Unnoticed
  <2>2. Compared(call[c]) /\ Known(e, rec, clock) /\ Tells(e)
    BY <2>1 DEF IInv, DriftWasChecked, CountsAreTrue, CallShape, Calls
  <2>3. e \in Bodies /\ rec \in Records
    BY DEF IInv, TypeOK, CallStates, Calls
  <2>4. e.left.mod \in Nat /\ rec.mod \in Nat /\ (e.prior = Unknown \/ e.prior \in Nat)
    BY <2>3 DEF Bodies, Records
  <2> HIDE DEF e
  <2>5. CASE call[c].byCount
    <3>1. Baseline(e) # Unknown /\ Baseline(e) = rec.mod
      BY <2>1, <2>2, <2>5 DEF Compared, e
    <3>2. e.left.born = rec.born /\ (e.after = Unknown => e.prior < e.left.mod)
      BY <2>1, <2>5 DEF CountTells
    <3>3. e.left.mod <= rec.mod /\ (e.left.mod = rec.mod => e.left.val = rec.val)
      BY <2>2, <3>2 DEF Known
    <3>4. CASE e.after # Unknown
      BY <2>1, <2>2, <3>1, <3>3, <3>4 DEF Baseline, Known, Compared
    <3>5. CASE e.after = Unknown
      <4>1. e.prior # Unknown /\ rec.mod = e.prior + 1
        BY <3>1, <3>5 DEF Baseline
      <4>2. e.left.mod = rec.mod
        BY <2>4, <3>2, <3>3, <3>5, <4>1
      <4> QED
        BY <2>1, <2>2, <3>3, <4>2 DEF Compared
    <3> QED
      BY <3>4, <3>5
  <2>6. CASE ~call[c].byCount
    <3>1. /\ call[c].checked # {} /\ call[c].checked \subseteq e.fields
          /\ \A f \in call[c].checked : rec.val[f] = e.val[f]
      BY <2>1, <2>2, <2>6 DEF Compared, e
    <3> QED
      BY <2>1, <2>2, <3>1 DEF Known
  <2> QED
    BY <2>5, <2>6
<1>2. Spec => [][Next]_vars /\ []IInv
  BY Invariance, PTL DEF Spec
<1>3. Spec => [][Harmless]_vars
  BY <1>1, <1>2, PTL
<1> QED
  BY <1>3 DEF NoSilentLoss
=============================================================================
