-------------------------- MODULE HttpClientProofs --------------------------
(***************************************************************************)
(* Proofs about SlotQueue, for any set of callers, any bounded set of      *)
(* limits, any length of the wait line and any number of drains, and about *)
(* HttpClient, which extends it, for any set of requests.                  *)
(***************************************************************************)
EXTENDS HttpClient, FiniteSetTheorems, SequenceTheorems, TLAPS

------------------------------------------------------------------------------
(* The slot queue. *)

\* The inductive invariant.  The type of active (never negative) and the limit
\* rest on the accounting of places, which rests on the line holding exactly
\* the calls that wait: only then does a hand-over grant a call that waits.
SlotIInv ==
  /\ SlotTypeOK
  /\ PlacesAccounted
  /\ LineIsTheWaiting
  /\ LimitRespected
  /\ NobodyStranded

------------------------------------------------------------------------------
(* Sequences used as a line. *)

\* Dropping a position of a sequence keeps the others in order.
LEMMA RemoveAtProperties ==
  ASSUME NEW S, NEW s \in Seq(S), NEW i \in DOMAIN s
  PROVE  /\ RemoveAt(s, i) \in Seq(S)
         /\ Len(RemoveAt(s, i)) = Len(s) - 1
         /\ \A j \in 1 .. Len(s) - 1 :
              RemoveAt(s, i)[j] = IF j < i THEN s[j] ELSE s[j + 1]
<1> DEFINE front == SubSeq(s, 1, i - 1)
           back  == SubSeq(s, i + 1, Len(s))
           cat   == front \o back
<1>1. i \in 1 .. Len(s) /\ Len(s) \in Nat /\ \A k \in 1 .. Len(s) : s[k] \in S
  BY LenProperties, ElementOfSeq
<1>2. /\ front \in Seq(S)
      /\ Len(front) = i - 1
      /\ \A j \in 1 .. i - 1 : front[j] = s[j]
  <2>1. \A k \in 1 .. i - 1 : s[k] \in S
    BY <1>1
  <2>2. /\ front \in Seq(S)
        /\ Len(front) = IF 1 <= i - 1 THEN (i - 1) - 1 + 1 ELSE 0
        /\ \A j \in 1 .. (i - 1) - 1 + 1 : front[j] = s[1 + j - 1]
    BY <1>1, <2>1, SubSeqProperties
  <2> QED
    BY <1>1, <2>2
<1>3. /\ back \in Seq(S)
      /\ Len(back) = Len(s) - i
      /\ \A j \in 1 .. Len(s) - i : back[j] = s[i + j]
  <2>1. \A k \in i + 1 .. Len(s) : s[k] \in S
    BY <1>1
  <2>2. /\ back \in Seq(S)
        /\ Len(back) = IF i + 1 <= Len(s) THEN Len(s) - (i + 1) + 1 ELSE 0
        /\ \A j \in 1 .. Len(s) - (i + 1) + 1 : back[j] = s[(i + 1) + j - 1]
    BY <1>1, <2>1, SubSeqProperties
  <2> QED
    BY <1>1, <2>2
<1>4. /\ cat \in Seq(S)
      /\ Len(cat) = Len(front) + Len(back)
      /\ \A j \in 1 .. Len(front) + Len(back) :
           cat[j] = IF j <= Len(front) THEN front[j] ELSE back[j - Len(front)]
  BY <1>2, <1>3, ConcatProperties
<1>5. RemoveAt(s, i) = cat
  BY DEF RemoveAt
<1> HIDE DEF front, back, cat
<1>6. \A j \in 1 .. Len(s) - 1 : cat[j] = IF j < i THEN s[j] ELSE s[j + 1]
  <2> SUFFICES ASSUME NEW j \in 1 .. Len(s) - 1
               PROVE  cat[j] = IF j < i THEN s[j] ELSE s[j + 1]
    OBVIOUS
  <2>1. CASE j < i
    BY <2>1, <1>1, <1>2, <1>3, <1>4
  <2>2. CASE ~(j < i)
    <3>1. /\ j - (i - 1) \in 1 .. Len(s) - i
          /\ ~(j <= i - 1)
          /\ i + (j - (i - 1)) = j + 1
      BY <2>2, <1>1
    <3>2. cat[j] = back[j - (i - 1)]
      <4>1. Len(front) = i - 1 /\ j \in 1 .. Len(front) + Len(back)
        BY <1>1, <1>2, <1>3
      <4>2. cat[j] = IF j <= Len(front) THEN front[j] ELSE back[j - Len(front)]
        BY <1>4, <4>1
      <4> QED
        BY <3>1, <4>1, <4>2
    <3> QED
      BY <2>2, <3>1, <3>2, <1>3
  <2> QED
    BY <2>1, <2>2
<1>7. Len(cat) = Len(s) - 1
  BY <1>1, <1>2, <1>3, <1>4
<1> QED
  BY <1>4, <1>5, <1>6, <1>7

\* A line in which every caller stands once.
Distinct(s) == \A i, j \in DOMAIN s : s[i] = s[j] => i = j

\* A caller that leaves a line takes itself out of it and nobody else.
LEMMA WithoutCallerProperties ==
  ASSUME NEW S, NEW s \in Seq(S), Distinct(s), NEW c \in ToSet(s)
  PROVE  /\ WithoutCaller(s, c) \in Seq(S)
         /\ Distinct(WithoutCaller(s, c))
         /\ ToSet(WithoutCaller(s, c)) = ToSet(s) \ {c}
         /\ Len(WithoutCaller(s, c)) = Len(s) - 1
<1> DEFINE i == CHOOSE k \in DOMAIN s : s[k] = c
           r == RemoveAt(s, i)
<1>1. i \in DOMAIN s /\ s[i] = c
  BY DEF ToSet
<1>2. DOMAIN s = 1 .. Len(s) /\ Len(s) \in Nat
  BY LenProperties
<1>3. /\ r \in Seq(S)
      /\ Len(r) = Len(s) - 1
      /\ \A j \in 1 .. Len(s) - 1 : r[j] = IF j < i THEN s[j] ELSE s[j + 1]
  BY <1>1, RemoveAtProperties
<1>4. DOMAIN r = 1 .. Len(s) - 1
  BY <1>3, LenProperties
<1>5. WithoutCaller(s, c) = r
  BY DEF WithoutCaller
<1> HIDE DEF i, r
<1>6. Distinct(r)
  <2> SUFFICES ASSUME NEW j \in 1 .. Len(s) - 1, NEW k \in 1 .. Len(s) - 1,
                      r[j] = r[k]
               PROVE  j = k
    BY <1>4 DEF Distinct
  <2> DEFINE old(n) == IF n < i THEN n ELSE n + 1
  <2>1. /\ old(j) \in DOMAIN s /\ r[j] = s[old(j)]
        /\ old(k) \in DOMAIN s /\ r[k] = s[old(k)]
    BY <1>1, <1>2, <1>3
  <2>2. old(j) = old(k)
    BY <2>1 DEF Distinct
  <2> QED
    BY <2>2, <1>1, <1>2
<1>7. ToSet(r) = ToSet(s) \ {c}
  <2>1. ASSUME NEW j \in DOMAIN r PROVE r[j] \in ToSet(s) \ {c}
    <3>1. CASE j < i
      BY <3>1, <1>1, <1>2, <1>3, <1>4 DEF Distinct, ToSet
    <3>2. CASE j >= i
      <4>1. r[j] = s[j + 1] /\ j + 1 \in DOMAIN s /\ j + 1 # i
        BY <3>2, <1>1, <1>2, <1>3, <1>4
      <4> QED
        BY <4>1, <1>1 DEF Distinct, ToSet
    <3> QED
      BY <3>1, <3>2, <1>1, <1>2, <1>4
  <2>2. ASSUME NEW k \in DOMAIN s, s[k] # c PROVE s[k] \in ToSet(r)
    <3>1. CASE k < i
      <4>1. k \in DOMAIN r /\ r[k] = s[k]
        BY <3>1, <1>1, <1>2, <1>3, <1>4
      <4> QED
        BY <4>1 DEF ToSet
    <3>2. CASE k > i
      <4>1. k - 1 \in DOMAIN r /\ r[k - 1] = s[k]
        BY <3>2, <1>1, <1>2, <1>3, <1>4
      <4> QED
        BY <4>1 DEF ToSet
    <3> QED
      BY <3>1, <3>2, <2>2, <1>1, <1>2
  <2> QED
    BY <2>1, <2>2 DEF ToSet
<1> QED
  BY <1>2, <1>3, <1>5, <1>6, <1>7

\* The head of a line is the one caller its tail has not.
LEMMA HeadTailOfLine ==
  ASSUME NEW S, NEW s \in Seq(S), Distinct(s), s # <<>>
  PROVE  /\ Head(s) \in ToSet(s)
         /\ Tail(s) \in Seq(S)
         /\ Distinct(Tail(s))
         /\ ToSet(Tail(s)) = ToSet(s) \ {Head(s)}
<1>1. DOMAIN s = 1 .. Len(s) /\ Len(s) \in Nat /\ Len(s) > 0 /\ Head(s) = s[1]
  BY LenProperties, EmptySeq
<1>2. /\ Tail(s) \in Seq(S)
      /\ Len(Tail(s)) = Len(s) - 1
      /\ \A i \in 1 .. Len(Tail(s)) : Tail(s)[i] = s[i + 1]
  BY HeadTailProperties
<1>3. DOMAIN Tail(s) = 1 .. Len(s) - 1
  BY <1>2, LenProperties
<1>4. Distinct(Tail(s))
  <2> SUFFICES ASSUME NEW j \in 1 .. Len(s) - 1, NEW k \in 1 .. Len(s) - 1,
                      Tail(s)[j] = Tail(s)[k]
               PROVE  j = k
    BY <1>3 DEF Distinct
  <2> QED
    BY <1>1, <1>2 DEF Distinct
<1>5. \A j \in DOMAIN Tail(s) : Tail(s)[j] \in ToSet(s) \ {Head(s)}
  <2> TAKE j \in DOMAIN Tail(s)
  <2>1. Tail(s)[j] = s[j + 1] /\ j + 1 \in DOMAIN s /\ j + 1 # 1 /\ 1 \in DOMAIN s
    BY <1>1, <1>2, <1>3
  <2> QED
    BY <2>1, <1>1 DEF Distinct, ToSet
<1>6. \A k \in DOMAIN s : s[k] # Head(s) => s[k] \in ToSet(Tail(s))
  <2> TAKE k \in DOMAIN s
  <2> HAVE s[k] # Head(s)
  <2>1. k - 1 \in DOMAIN Tail(s) /\ Tail(s)[k - 1] = s[k]
    BY <1>1, <1>2, <1>3
  <2> QED
    BY <2>1 DEF ToSet
<1>7. ToSet(Tail(s)) = ToSet(s) \ {Head(s)}
  BY <1>5, <1>6 DEF ToSet
<1>8. Head(s) \in ToSet(s)
  BY <1>1 DEF ToSet
<1> QED
  BY <1>2, <1>4, <1>7, <1>8

\* A new caller at the end of a line.
LEMMA AppendToLine ==
  ASSUME NEW S, NEW s \in Seq(S), Distinct(s), NEW c \in S, c \notin ToSet(s)
  PROVE  /\ Append(s, c) \in Seq(S)
         /\ Append(s, c) # <<>>
         /\ Distinct(Append(s, c))
         /\ ToSet(Append(s, c)) = ToSet(s) \cup {c}
<1> DEFINE t == Append(s, c)
<1>1. DOMAIN s = 1 .. Len(s) /\ Len(s) \in Nat
  BY LenProperties
<1>2. /\ t \in Seq(S) /\ t # <<>>
      /\ Len(t) = Len(s) + 1
      /\ \A i \in 1 .. Len(s) : t[i] = s[i]
      /\ t[Len(s) + 1] = c
  BY AppendProperties
<1>3. DOMAIN t = 1 .. Len(s) + 1
  BY <1>2, LenProperties
<1> HIDE DEF t
<1>4. Distinct(t)
  BY <1>1, <1>2, <1>3 DEF Distinct, ToSet
<1>5. ToSet(t) = ToSet(s) \cup {c}
  BY <1>1, <1>2, <1>3 DEF ToSet
<1> QED
  BY <1>2, <1>4, <1>5 DEF t

------------------------------------------------------------------------------
(* Places and their holders. *)

LEMMA HoldersFinite ==
  ASSUME NEW g
  PROVE  /\ IsFiniteSet(Holders(g))
         /\ Cardinality(Holders(g)) \in Nat
<1>1. Holders(g) \in SUBSET Callers
  BY DEF Holders
<1>2. IsFiniteSet(Holders(g))
  BY <1>1, CallersFinite, FS_Subset
<1> QED
  BY <1>2, FS_CardinalityType

\* Cap is a limit, and no limit is larger.
LEMMA CapIsLargest ==
  /\ Cap \in Nat \ {0}
  /\ \A l \in Limits : l \in Nat \ {0} /\ l <= Cap
BY LimitsAssumption DEF Cap

\* Floor is a limit, and no limit is smaller.
LEMMA FloorIsSmallest ==
  /\ Floor \in Nat \ {0}
  /\ \A l \in Limits : l \in Nat \ {0} /\ Floor <= l
BY LimitsAssumption DEF Floor

\* The first state satisfies the invariant.
LEMMA SlotInitInvariant == SlotInit => SlotIInv
<1> SUFFICES ASSUME SlotInit PROVE SlotIInv
  OBVIOUS
<1> USE DEF SlotInit
<1>1. 0 \in Gens
  BY BoundsNatural DEF Gens
<1>2. SlotTypeOK
  BY <1>1 DEF SlotTypeOK, Status, Outside, Holding
<1>3. \A g : Holders(g) = {}
  BY DEF Holders, Holding
<1>4. Cardinality({}) = 0
  BY FS_EmptySet
<1>5. PlacesAccounted /\ LimitRespected
  <2>1. ASSUME NEW g \in Gens
        PROVE  active[g] = Cardinality(Holders(g)) /\ Cardinality(Holders(g)) <= Cap
    <3>1. Cardinality(Holders(g)) = 0
      BY <1>3, <1>4
    <3> QED
      BY <3>1, CapIsLargest
  <2> QED
    BY <2>1 DEF PlacesAccounted, LimitRespected
<1>6. LineIsTheWaiting
  BY DEF LineIsTheWaiting, InLine, ToSet
<1>7. NobodyStranded
  BY DEF NobodyStranded
<1> QED
  BY <1>2, <1>5, <1>6, <1>7 DEF SlotIInv

\* A step that moves callers between the states outside a Slot, and changes
\* neither the line nor a place, keeps the invariant.
LEMMA OutsideStep ==
  ASSUME SlotIInv,
         NEW c \in Callers, NEW state \in Outside \cup {"bypass"},
         pc[c] \in Outside \cup {"bypass"},
         pc' = [pc EXCEPT ![c] = state],
         \/ genOf' = genOf
         \/ genOf' = [genOf EXCEPT ![c] = gen],
         \/ limitOf' = limitOf
         \/ limitOf' = [limitOf EXCEPT ![c] = limit],
         UNCHANGED <<limit, gen, active, waiters>>
  PROVE  SlotIInv'
<1> USE DEF SlotIInv
<1>1. SlotTypeOK'
  BY DEF SlotTypeOK, Status
<1>2. \A g : Holders(g)' = Holders(g)
  BY DEF Holders, Holding, Outside, SlotTypeOK
<1>3. InLine' = InLine
  BY DEF InLine, Outside, SlotTypeOK
<1>4. PlacesAccounted' /\ LimitRespected' /\ NobodyStranded'
  BY <1>2 DEF PlacesAccounted, LimitRespected, NobodyStranded
<1>5. LineIsTheWaiting'
  BY <1>3 DEF LineIsTheWaiting, InLine, SlotTypeOK, Outside
<1> QED
  BY <1>1, <1>4, <1>5

\* Taking a free place.
LEMMA TakeStep ==
  ASSUME SlotIInv, NEW c \in Callers, Take(c)
  PROVE  SlotIInv'
<1> USE DEF SlotIInv
<1>1. /\ pc[c] \in Outside /\ active[gen] < limit /\ gen \in Gens
      /\ pc' = [pc EXCEPT ![c] = "running"]
      /\ genOf' = [genOf EXCEPT ![c] = gen]
      /\ active' = [active EXCEPT ![gen] = @ + 1]
      /\ UNCHANGED <<limit, gen, waiters>>
  BY DEF Take, SlotTypeOK
<1>2. SlotTypeOK'
  BY <1>1 DEF Take, SlotTypeOK, Status, Holding
<1>3. c \notin Holders(gen) /\ Holders(gen)' = Holders(gen) \cup {c}
  BY <1>1 DEF Holders, Holding, Outside, SlotTypeOK
<1>4. \A g \in Gens : g # gen => Holders(g)' = Holders(g)
  BY <1>1 DEF Holders, Holding, Outside, SlotTypeOK
<1>5. Cardinality(Holders(gen)') = Cardinality(Holders(gen)) + 1
  BY <1>3, HoldersFinite, FS_AddElement
<1>6. active[gen] = Cardinality(Holders(gen)) /\ active[gen] \in Nat /\ limit \in Limits
  BY <1>1 DEF PlacesAccounted, SlotTypeOK
<1>7. PlacesAccounted'
  BY <1>1, <1>4, <1>5, <1>6 DEF PlacesAccounted, SlotTypeOK
<1>8. LimitRespected'
  BY <1>1, <1>4, <1>5, <1>6, CapIsLargest DEF LimitRespected
<1>9. LineIsTheWaiting'
  <2>1. InLine' = InLine
    BY <1>1 DEF InLine, Outside, SlotTypeOK
  <2> QED
    BY <1>1, <2>1 DEF LineIsTheWaiting, InLine, SlotTypeOK
<1>10. NobodyStranded'
  BY <1>1, <1>3, <1>5, <1>6, FloorIsSmallest DEF NobodyStranded
<1> QED
  BY <1>2, <1>7, <1>8, <1>9, <1>10

\* Joining the line: the places are all taken, so somebody holds one.
LEMMA JoinStep ==
  ASSUME SlotIInv, NEW c \in Callers, Join(c)
  PROVE  SlotIInv'
<1> USE DEF SlotIInv
<1>1. /\ pc[c] \in Outside /\ active[gen] >= limit /\ gen \in Gens
      /\ pc' = [pc EXCEPT ![c] = "waiting"]
      /\ genOf' = [genOf EXCEPT ![c] = gen]
      /\ waiters' = Append(waiters, c)
      /\ UNCHANGED <<limit, gen, active>>
  BY DEF Join, SlotTypeOK
<1>2. c \notin InLine /\ InLine' = InLine \cup {c}
  BY <1>1 DEF InLine, Outside, SlotTypeOK
<1>3. waiters \in Seq(Callers) /\ Distinct(waiters) /\ ToSet(waiters) = InLine
  BY DEF SlotTypeOK, LineIsTheWaiting, Distinct
<1>4. /\ waiters' \in Seq(Callers)
      /\ Distinct(waiters')
      /\ ToSet(waiters') = ToSet(waiters) \cup {c}
  BY <1>1, <1>2, <1>3, AppendToLine
<1>5. SlotTypeOK'
  BY <1>1, <1>4 DEF Join, SlotTypeOK, Status
<1>6. \A g : Holders(g)' = Holders(g)
  BY <1>1 DEF Holders, Holding, Outside, SlotTypeOK
<1>7. PlacesAccounted' /\ LimitRespected'
  BY <1>1, <1>6 DEF PlacesAccounted, LimitRespected
<1>8. LineIsTheWaiting'
  <2>1. \A d \in InLine' : genOf'[d] = gen'
    BY <1>1, <1>2 DEF LineIsTheWaiting, InLine, SlotTypeOK
  <2> QED
    BY <1>2, <1>3, <1>4, <2>1 DEF LineIsTheWaiting, Distinct
<1>9. NobodyStranded'
  <2>1. active[gen] = Cardinality(Holders(gen)) /\ limit \in Nat \ {0} /\ active[gen] \in Nat
    BY <1>1, LimitsAssumption DEF PlacesAccounted, SlotTypeOK
  <2>2. Holders(gen) # {}
    BY <1>1, <2>1, HoldersFinite, FS_EmptySet
  <2>3. Cardinality(Holders(gen)) >= Floor
    BY <1>1, <2>1, FloorIsSmallest DEF SlotTypeOK
  <2> QED
    BY <1>1, <1>6, <2>2, <2>3 DEF NobodyStranded
<1> QED
  BY <1>5, <1>7, <1>8, <1>9

\* Leaving the line early.
LEMMA GiveUpStep ==
  ASSUME SlotIInv, NEW c \in Callers, GiveUp(c)
  PROVE  SlotIInv'
<1> USE DEF SlotIInv
<1>1. /\ pc[c] = "waiting"
      /\ pc' = [pc EXCEPT ![c] = "refused"]
      /\ waiters' = WithoutCaller(waiters, c)
      /\ UNCHANGED <<limit, limitOf, gen, genOf, active>>
  BY DEF GiveUp
<1>2. waiters \in Seq(Callers) /\ Distinct(waiters) /\ ToSet(waiters) = InLine
  BY DEF SlotTypeOK, LineIsTheWaiting, Distinct
<1>3. c \in InLine /\ InLine' = InLine \ {c}
  BY <1>1 DEF InLine, SlotTypeOK
<1>4. /\ waiters' \in Seq(Callers)
      /\ Distinct(waiters')
      /\ ToSet(waiters') = ToSet(waiters) \ {c}
  BY <1>1, <1>2, <1>3, WithoutCallerProperties
<1>5. SlotTypeOK'
  BY <1>1, <1>4 DEF SlotTypeOK, Status, Outside
<1>6. \A g : Holders(g)' = Holders(g)
  BY <1>1 DEF Holders, Holding, SlotTypeOK
<1>7. PlacesAccounted' /\ LimitRespected'
  BY <1>1, <1>6 DEF PlacesAccounted, LimitRespected
<1>8. LineIsTheWaiting'
  BY <1>1, <1>2, <1>3, <1>4 DEF LineIsTheWaiting, Distinct
<1>9. NobodyStranded'
  <2>1. waiters # <<>>
    BY <1>2, <1>3, EmptySeq DEF ToSet
  <2> QED
    BY <1>1, <1>6, <2>1 DEF NobodyStranded
<1> QED
  BY <1>5, <1>7, <1>8, <1>9

\* The granted call goes on.
LEMMA ResumeStep ==
  ASSUME SlotIInv, NEW c \in Callers, Resume(c)
  PROVE  SlotIInv'
<1> USE DEF SlotIInv, Resume
<1>1. SlotTypeOK'
  BY DEF SlotTypeOK, Status, Holding
<1>2. \A g : Holders(g)' = Holders(g)
  BY DEF Holders, Holding, SlotTypeOK
<1>3. InLine' = InLine
  BY DEF InLine, SlotTypeOK
<1>4. PlacesAccounted' /\ LimitRespected' /\ NobodyStranded'
  BY <1>2 DEF PlacesAccounted, LimitRespected, NobodyStranded
<1>5. LineIsTheWaiting'
  BY <1>3 DEF LineIsTheWaiting
<1> QED
  BY <1>1, <1>4, <1>5

\* A holder is done and its place goes to the head of the line.
LEMMA HandOverStep ==
  ASSUME SlotIInv, NEW c \in Callers, Finish(c), HandsOver(c)
  PROVE  SlotIInv'
<1> USE DEF SlotIInv
<1> DEFINE h == Head(waiters)
<1>1. /\ pc[c] = "running" /\ genOf[c] = gen /\ waiters # <<>>
      /\ pc' = [pc EXCEPT ![c] = "idle", ![h] = "granted"]
      /\ waiters' = Tail(waiters)
      /\ UNCHANGED <<limit, limitOf, gen, genOf, active>>
  BY DEF Finish, HandsOver
<1>2. waiters \in Seq(Callers) /\ Distinct(waiters) /\ ToSet(waiters) = InLine
  BY DEF SlotTypeOK, LineIsTheWaiting, Distinct
<1>3. /\ h \in InLine
      /\ waiters' \in Seq(Callers)
      /\ Distinct(waiters')
      /\ ToSet(waiters') = InLine \ {h}
  BY <1>1, <1>2, HeadTailOfLine
<1>4. h \in Callers /\ pc[h] = "waiting" /\ h # c /\ genOf[h] = gen
  BY <1>1, <1>3 DEF InLine, LineIsTheWaiting
<1> HIDE DEF h
<1>5. /\ pc' \in [Callers -> Status] /\ pc'[c] = "idle" /\ pc'[h] = "granted"
      /\ \A d \in Callers : d # c /\ d # h => pc'[d] = pc[d]
  BY <1>1, <1>4 DEF SlotTypeOK, Status, Outside, Holding
<1>6. SlotTypeOK'
  BY <1>1, <1>3, <1>5 DEF SlotTypeOK
<1>7. InLine' = InLine \ {h}
  BY <1>1, <1>4, <1>5 DEF InLine
<1>8. LineIsTheWaiting'
  BY <1>1, <1>3, <1>7 DEF LineIsTheWaiting, Distinct
<1>9. Holders(gen)' = (Holders(gen) \ {c}) \cup {h}
  BY <1>1, <1>4, <1>5 DEF Holders, Holding
<1>10. c \in Holders(gen) /\ h \notin Holders(gen) \ {c}
  BY <1>1, <1>4 DEF Holders, Holding
<1>11. Cardinality(Holders(gen)') = Cardinality(Holders(gen))
  <2>1. /\ IsFiniteSet(Holders(gen) \ {c})
        /\ Cardinality(Holders(gen) \ {c}) = Cardinality(Holders(gen)) - 1
    BY <1>10, HoldersFinite, FS_RemoveElement
  <2>2. Cardinality((Holders(gen) \ {c}) \cup {h}) = Cardinality(Holders(gen) \ {c}) + 1
    BY <1>10, <2>1, FS_AddElement
  <2> QED
    BY <1>9, <2>1, <2>2, HoldersFinite
<1>12. \A g \in Gens : g # gen => Holders(g)' = Holders(g)
  BY <1>1, <1>4, <1>5 DEF Holders
<1>13. PlacesAccounted' /\ LimitRespected'
  BY <1>1, <1>11, <1>12 DEF PlacesAccounted, LimitRespected
<1>14. NobodyStranded'
  BY <1>1, <1>9, <1>11 DEF NobodyStranded
<1> QED
  BY <1>6, <1>8, <1>13, <1>14

\* A holder is done and nobody gets its place.  Somebody may still wait on the
\* same Slot, but then the limit c read leaves another holder there.
LEMMA FreeStep ==
  ASSUME SlotIInv, NEW c \in Callers, Finish(c), ~HandsOver(c)
  PROVE  SlotIInv'
<1> USE DEF SlotIInv
<1> PICK g0 \in Gens : g0 = genOf[c]
  BY DEF SlotTypeOK
<1>1. /\ pc[c] = "running"
      /\ pc' = [pc EXCEPT ![c] = "idle"]
      /\ active' = [active EXCEPT ![g0] = @ - 1]
      /\ UNCHANGED <<limit, limitOf, gen, genOf, waiters>>
  BY DEF Finish
<1>2. c \in Holders(g0)
  BY <1>1 DEF SlotTypeOK, Holders, Holding
<1>3. Holders(g0)' = Holders(g0) \ {c}
  BY <1>1 DEF Holders, Holding, SlotTypeOK
<1>4. ASSUME NEW g \in Gens, g # g0 PROVE Holders(g)' = Holders(g)
  BY <1>1, <1>4 DEF Holders, Holding, SlotTypeOK
<1>5. Cardinality(Holders(g0)') = Cardinality(Holders(g0)) - 1
  BY <1>2, <1>3, HoldersFinite, FS_RemoveElement
<1>6. active[g0] = Cardinality(Holders(g0)) /\ active[g0] \in Nat
  BY DEF PlacesAccounted, SlotTypeOK
<1>7. Cardinality(Holders(g0)) > 0
  BY <1>2, HoldersFinite, FS_EmptySet
<1>8. SlotTypeOK'
  BY <1>1, <1>6, <1>7 DEF SlotTypeOK, Status, Outside
<1>9. PlacesAccounted'
  <2> SUFFICES ASSUME NEW g \in Gens PROVE active'[g] = Cardinality(Holders(g)')
    BY DEF PlacesAccounted
  <2>1. CASE g = g0
    BY <2>1, <1>1, <1>5, <1>6 DEF SlotTypeOK
  <2>2. CASE g # g0
    BY <2>2, <1>1, <1>4 DEF PlacesAccounted, SlotTypeOK
  <2> QED
    BY <2>1, <2>2
<1>10. LimitRespected'
  <2> SUFFICES ASSUME NEW g \in Gens PROVE Cardinality(Holders(g)') <= Cap
    BY DEF LimitRespected
  <2>1. CASE g = g0
    BY <2>1, <1>5, HoldersFinite, CapIsLargest DEF LimitRespected
  <2>2. CASE g # g0
    BY <2>2, <1>4 DEF LimitRespected
  <2> QED
    BY <2>1, <2>2
<1>11. InLine' = InLine
  BY <1>1 DEF InLine, SlotTypeOK
<1>12. LineIsTheWaiting'
  BY <1>1, <1>11 DEF LineIsTheWaiting
<1>13. NobodyStranded'
  <2> SUFFICES ASSUME waiters # <<>>
               PROVE  Holders(gen)' # {} /\ Cardinality(Holders(gen)') >= Floor
    BY <1>1 DEF NobodyStranded
  <2> PICK g1 \in Gens : g1 = gen
    BY DEF SlotTypeOK
  <2>1. Holders(gen)' = Holders(g1)'
    BY <1>1
  <2>2. CASE g1 # g0
    <3>1. Holders(g1)' = Holders(g1)
      BY <1>4, <2>2
    <3> QED
      BY <2>1, <3>1 DEF NobodyStranded
  <2>3. CASE g1 = g0
    <3>1. active[g0] - 1 >= limitOf[c] /\ limitOf[c] \in Nat \ {0} /\ Floor <= limitOf[c] /\ Floor \in Nat
      <4>1. limitOf[c] \in Nat \ {0} /\ Floor <= limitOf[c] /\ Floor \in Nat
        BY FloorIsSmallest DEF SlotTypeOK
      <4>2. ~(active[g0] - 1 < limitOf[c])
        BY <2>3 DEF HandsOver
      <4> QED
        BY <4>1, <4>2, <1>6
    <3>2. Cardinality(Holders(g0)') > 0 /\ Cardinality(Holders(g0)') >= Floor
      BY <3>1, <1>5, <1>6
    <3>3. Holders(gen)' = Holders(g0)'
      BY <2>1, <2>3
    <3>4. Holders(g0)' # {}
      <4>1. SUFFICES ASSUME Holders(g0)' = {} PROVE FALSE
        OBVIOUS
      <4>2. Cardinality(Holders(g0)') = Cardinality({})
        BY <4>1
      <4> QED
        BY <3>2, <4>2, FS_EmptySet
    <3> QED
      BY <3>2, <3>3, <3>4
  <2> QED
    BY <2>2, <2>3
<1> QED
  BY <1>8, <1>9, <1>10, <1>12, <1>13

\* The table is drained.
LEMMA DrainStep ==
  ASSUME SlotIInv, Drain
  PROVE  SlotIInv'
<1> USE DEF SlotIInv, Drain
<1>1. SlotTypeOK'
  <2>1. pc' \in [Callers -> Status]
    BY DEF SlotTypeOK, Status, Outside
  <2>2. gen' \in Gens
    BY BoundsNatural DEF SlotTypeOK, Gens
  <2>3. waiters' \in Seq(Callers)
    BY EmptySeq
  <2> QED
    BY <2>1, <2>2, <2>3 DEF SlotTypeOK
<1>2. \A g : Holders(g)' = Holders(g)
  BY DEF Holders, Holding, Outside, SlotTypeOK
<1>3. PlacesAccounted' /\ LimitRespected' /\ NobodyStranded'
  BY <1>2 DEF PlacesAccounted, LimitRespected, NobodyStranded
<1>4. InLine' = {}
  BY DEF InLine, SlotTypeOK
<1>5. waiters' = <<>> /\ DOMAIN waiters' = {} /\ ToSet(waiters') = {}
  BY DEF ToSet
<1>6. LineIsTheWaiting'
  BY <1>4, <1>5 DEF LineIsTheWaiting
<1> QED
  BY <1>1, <1>3, <1>6

\* The setting changes.
LEMMA ReconfigureStep ==
  ASSUME SlotIInv, Reconfigure
  PROVE  SlotIInv'
<1> USE DEF SlotIInv, Reconfigure
<1>1. SlotTypeOK'
  BY DEF SlotTypeOK
<1>2. \A g : Holders(g)' = Holders(g)
  BY DEF Holders
<1>3. InLine' = InLine
  BY DEF InLine
<1> QED
  BY <1>1, <1>2, <1>3
  DEF PlacesAccounted, LimitRespected, NobodyStranded, LineIsTheWaiting

LEMMA SlotNextInvariant == SlotIInv /\ [SlotNext]_slotVars => SlotIInv'
<1> SUFFICES ASSUME SlotIInv, [SlotNext]_slotVars PROVE SlotIInv'
  OBVIOUS
<1>1. CASE UNCHANGED slotVars
  BY <1>1 DEF slotVars, SlotIInv, SlotTypeOK, PlacesAccounted, LineIsTheWaiting,
              LimitRespected, NobodyStranded, Holders, InLine
<1>2. ASSUME NEW c \in Callers, EnterBypass(c) \/ FinishBypass(c) \/ Refuse(c)
      PROVE  SlotIInv'
  BY <1>2, OutsideStep DEF EnterBypass, FinishBypass, Refuse, Outside
<1>3. ASSUME NEW c \in Callers, Finish(c) PROVE SlotIInv'
  BY <1>3, HandOverStep, FreeStep
<1> QED
  BY <1>1, <1>2, <1>3, TakeStep, JoinStep, GiveUpStep, ResumeStep, DrainStep,
     ReconfigureStep
  DEF SlotNext, Enter

THEOREM SlotInvariance == SlotSpec => []SlotIInv
BY SlotInitInvariant, SlotNextInvariant, PTL DEF SlotSpec

\* The variables of the limiter keep their types: in particular no release
\* ever drives Slot.active below zero.
THEOREM SlotTypeCorrect == SlotSpec => []SlotTypeOK
<1>1. SlotIInv => SlotTypeOK
  BY DEF SlotIInv
<1> QED
  BY <1>1, SlotInvariance, PTL

\* Slot.active always counts the calls that hold a place (withSlot, release).
THEOREM PlacesAreAccounted == SlotSpec => []PlacesAccounted
<1>1. SlotIInv => PlacesAccounted
  BY DEF SlotIInv
<1> QED
  BY <1>1, SlotInvariance, PTL

\* The concurrency limit holds for every number of callers, whatever limits
\* are configured in between (withSlot, release).
THEOREM LimitIsRespected == SlotSpec => []LimitRespected
<1>1. SlotIInv => LimitRespected
  BY DEF SlotIInv
<1> QED
  BY <1>1, SlotInvariance, PTL

\* A waiting call always has a holder in front of it that will hand over.
THEOREM NobodyIsStranded == SlotSpec => []NobodyStranded
<1>1. SlotIInv => NobodyStranded
  BY DEF SlotIInv
<1> QED
  BY <1>1, SlotInvariance, PTL

\* The three together: what withSlot keeps for its callers.
THEOREM PlacesAreKept == SlotSpec => []PlacesKept
BY PlacesAreAccounted, LimitIsRespected, NobodyIsStranded, PTL DEF PlacesKept

\* Who takes a place gets it in turn: a newcomer finds no line, or a place that
\* a raised limit opened, since the line has the smallest limit served before it;
\* a hand-over goes to the head of the line (withSlot, release).
THEOREM PlacesAreGivenInOrder == SlotSpec => FirstComeFirstServed
<1>1. ASSUME SlotIInv, [SlotNext]_slotVars, NEW c \in Callers,
             pc[c] \notin Holding, pc'[c] \in Holding
      PROVE  \/ waiters = <<>> \/ Head(waiters) = c
             \/ pc[c] # "waiting" /\ limit > Floor
  <2>1. CASE UNCHANGED slotVars
    BY <1>1, <2>1 DEF slotVars
  <2>2. ASSUME NEW d \in Callers, Take(d), waiters # <<>>
        PROVE  pc[c] # "waiting" /\ limit > Floor
    <3>1. c = d /\ pc[c] # "waiting"
      BY <1>1, <2>2 DEF Take, SlotIInv, SlotTypeOK, Outside
    <3>2. active[gen] >= Floor /\ active[gen] < limit
      BY <2>2, <1>1 DEF Take, SlotIInv, SlotTypeOK, PlacesAccounted, NobodyStranded
    <3>3. active[gen] \in Nat /\ limit \in Nat /\ Floor \in Nat
      BY <1>1, FloorIsSmallest DEF SlotIInv, SlotTypeOK
    <3> QED
      BY <3>1, <3>2, <3>3
  <2>3. ASSUME NEW d \in Callers, Finish(d)
        PROVE  Head(waiters) = c
    BY <1>1, <2>3 DEF Finish, SlotIInv, SlotTypeOK, Holding
  <2>4. ASSUME NEW d \in Callers,
               \/ EnterBypass(d) \/ FinishBypass(d) \/ Refuse(d) \/ Join(d)
               \/ GiveUp(d) \/ Resume(d)
        PROVE  FALSE
    BY <1>1, <2>4 DEF EnterBypass, FinishBypass, Refuse, Join, GiveUp, Resume,
                      SlotIInv, SlotTypeOK, Holding
  <2>5. CASE Drain \/ Reconfigure
    BY <1>1, <2>5 DEF Drain, Reconfigure, Holding
  <2> QED
    BY <1>1, <2>1, <2>2, <2>3, <2>4, <2>5 DEF SlotNext, Enter
<1>2. SlotIInv /\ [SlotNext]_slotVars =>
        [\A c \in Callers :
           pc[c] \notin Holding /\ pc'[c] \in Holding
             => \/ waiters = <<>> \/ Head(waiters) = c
                \/ pc[c] # "waiting" /\ limit > Floor]_slotVars
  BY <1>1
<1> QED
  BY <1>2, SlotInvariance, PTL DEF SlotSpec, FirstComeFirstServed

------------------------------------------------------------------------------
(* The limiter implements its service. *)

\* No call works on a Slot that the table has not held yet.
SlotsKnown == \A c \in Callers : genOf[c] <= gen

LEMMA SlotsKnownInvariant == SlotSpec => []SlotsKnown
<1>1. SlotInit => SlotsKnown
  BY DEF SlotInit, SlotsKnown
<1>2. SlotIInv /\ SlotsKnown /\ [SlotNext]_slotVars => SlotsKnown'
  <2> SUFFICES ASSUME SlotIInv, SlotsKnown, [SlotNext]_slotVars PROVE SlotsKnown'
    OBVIOUS
  <2>1. gen \in Nat /\ \A c \in Callers : genOf[c] \in Nat
    BY BoundsNatural DEF SlotIInv, SlotTypeOK, Gens
  <2>2. genOf \in [Callers -> Gens]
    BY DEF SlotIInv, SlotTypeOK
  <2>3. CASE UNCHANGED slotVars
    BY <2>3 DEF slotVars, SlotsKnown
  <2>4. ASSUME NEW c \in Callers, Enter(c) PROVE SlotsKnown'
    <3>1. gen' = gen /\ (genOf' = genOf \/ genOf' = [genOf EXCEPT ![c] = gen])
      BY <2>4 DEF Enter, EnterBypass, Take, Refuse, Join
    <3> QED
      BY <3>1, <2>1, <2>2 DEF SlotsKnown
  <2>5. ASSUME NEW c \in Callers,
               FinishBypass(c) \/ GiveUp(c) \/ Resume(c) \/ Finish(c)
        PROVE  SlotsKnown'
    BY <2>5 DEF FinishBypass, GiveUp, Resume, Finish, SlotsKnown
  <2>6. CASE Drain
    BY <2>6, <2>1 DEF Drain, SlotsKnown
  <2>7. CASE Reconfigure
    BY <2>7 DEF Reconfigure, SlotsKnown
  <2> QED
    BY <2>3, <2>4, <2>5, <2>6, <2>7 DEF SlotNext
<1> QED
  BY <1>1, <1>2, SlotInvariance, PTL DEF SlotSpec

LEMMA ServiceInit == SlotInit => Service!Init
BY DEF SlotInit, Service!Init, Holders, Holding, InLine

\* Steps that neither move a place of the table's Slot nor the line.
LEMMA ServiceStutter ==
  ASSUME SlotIInv, NEW c \in Callers,
         \/ EnterBypass(c) \/ FinishBypass(c) \/ Refuse(c) \/ Resume(c)
         \/ Finish(c) /\ genOf[c] # gen
  PROVE  UNCHANGED Service!serviceVars
<1>1. gen' = gen /\ InLine' = InLine
  BY DEF EnterBypass, FinishBypass, Refuse, Resume, Finish, HandsOver, InLine,
         Outside, SlotIInv, SlotTypeOK
<1>2. Holders(gen)' = Holders(gen)
  BY DEF EnterBypass, FinishBypass, Refuse, Resume, Finish, HandsOver, Holders,
         Outside, Holding, SlotIInv, SlotTypeOK
<1> QED
  BY <1>1, <1>2 DEF Service!serviceVars

LEMMA ServiceTake ==
  ASSUME SlotIInv, NEW c \in Callers, Take(c)
  PROVE  Service!Take(c)
<1>1. c \notin Holders(gen) \cup InLine
  BY DEF Take, Holders, InLine, Outside, Holding
<1>2. Cardinality(Holders(gen)) < Cap
  <2>1. /\ active[gen] = Cardinality(Holders(gen)) /\ active[gen] < limit
        /\ limit \in Limits /\ active[gen] \in Nat
    BY DEF SlotIInv, SlotTypeOK, PlacesAccounted, Take
  <2> QED
    BY <2>1, CapIsLargest
<1>3. Holders(gen)' = Holders(gen) \cup {c} /\ InLine' = InLine
  BY DEF Take, Holders, InLine, Outside, Holding, SlotIInv, SlotTypeOK
<1>4. Service!Cardinality(Holders(gen)) = Cardinality(Holders(gen))
  BY DEF Service!Cardinality, Cardinality
<1> QED
  BY <1>1, <1>2, <1>3, <1>4 DEF Service!Take

LEMMA ServiceJoin ==
  ASSUME SlotIInv, NEW c \in Callers, Join(c)
  PROVE  Service!Join(c)
<1>1. c \notin Holders(gen) \cup InLine
  BY DEF Join, Holders, InLine, Outside, Holding
<1>2. Holders(gen)' = Holders(gen) /\ InLine' = InLine \cup {c}
  BY DEF Join, Holders, InLine, Outside, Holding, SlotIInv, SlotTypeOK
<1>3. Holders(gen) # {}
  <2>1. active[gen] = Cardinality(Holders(gen)) /\ active[gen] >= limit
    BY DEF SlotIInv, SlotTypeOK, PlacesAccounted, Join
  <2>2. limit \in Nat \ {0}
    BY LimitsAssumption DEF SlotIInv, SlotTypeOK
  <2> QED
    BY <2>1, <2>2, FS_EmptySet
<1> QED
  BY <1>1, <1>2, <1>3 DEF Service!Join

LEMMA ServiceLeave ==
  ASSUME SlotIInv, NEW c \in Callers, GiveUp(c)
  PROVE  Service!Leave(c)
BY DEF GiveUp, Service!Leave, Holders, Holding, InLine, SlotIInv, SlotTypeOK

LEMMA ServiceFree ==
  ASSUME SlotIInv, NEW c \in Callers, Finish(c), genOf[c] = gen
  PROVE  Service!Free(c)
<1>1. c \in Holders(gen)
  BY DEF Finish, Holders, Holding
<1>2. CASE HandsOver(c)
  <2>1. PICK h : h = Head(waiters)
    OBVIOUS
  <2>2. h \in InLine
    BY <1>2, <2>1, HeadTailOfLine
    DEF HandsOver, SlotIInv, SlotTypeOK, LineIsTheWaiting, Distinct
  <2>3. h \in Callers /\ pc[h] = "waiting" /\ genOf[h] = gen
    BY <2>2 DEF InLine, SlotIInv, LineIsTheWaiting
  <2>4. pc' = [pc EXCEPT ![c] = "idle", ![h] = "granted"] /\ UNCHANGED <<gen, genOf>>
    BY <1>2, <2>1 DEF Finish
  <2>5. pc[c] = "running"
    BY DEF Finish
  <2>6. InLine' = InLine \ {h}
    BY <2>3, <2>4, <2>5 DEF InLine, SlotIInv, SlotTypeOK
  <2>7. Holders(gen)' = (Holders(gen) \ {c}) \cup {h}
    BY <2>3, <2>4, <2>5 DEF Holders, Holding, SlotIInv, SlotTypeOK
  <2> QED
    BY <1>1, <2>2, <2>6, <2>7 DEF Service!Free
<1>3. CASE ~HandsOver(c)
  <2>1. SlotIInv'
    BY <1>3, FreeStep
  <2>2. /\ pc' = [pc EXCEPT ![c] = "idle"]
        /\ UNCHANGED <<gen, genOf, waiters>>
    BY <1>3 DEF Finish
  <2>3. Holders(gen)' = Holders(gen) \ {c} /\ InLine' = InLine
    BY <2>2 DEF Holders, Holding, InLine, SlotIInv, SlotTypeOK, Finish
  <2>4. InLine = {} \/ Holders(gen) # {c}
    <3>1. CASE waiters = <<>>
      BY <3>1 DEF SlotIInv, LineIsTheWaiting, ToSet
    <3>2. CASE waiters # <<>>
      <4>1. Holders(gen)' # {}
        BY <2>1, <2>2, <3>2 DEF SlotIInv, NobodyStranded
      <4> QED
        BY <4>1, <2>3
    <3> QED
      BY <3>1, <3>2
  <2> QED
    BY <1>1, <2>3, <2>4 DEF Service!Free
<1> QED
  BY <1>2, <1>3

LEMMA ServiceReset ==
  ASSUME SlotIInv, SlotsKnown, Drain
  PROVE  Service!Reset
<1>1. InLine' = {}
  BY DEF Drain, InLine, SlotIInv, SlotTypeOK
<1>2. gen \in Nat /\ gen' = gen + 1 /\ genOf' = genOf /\ genOf \in [Callers -> Nat]
  BY BoundsNatural DEF Drain, SlotIInv, SlotTypeOK, Gens
<1>3. \A c \in Callers : genOf'[c] # gen'
  BY <1>2 DEF SlotsKnown
<1>4. Holders(gen)' = {}
  BY <1>3 DEF Holders
<1> QED
  BY <1>1, <1>4 DEF Service!Reset

\* Every step of the limiter is a step of the service it promises, or changes
\* nothing the callers can tell: Cap bounds the places, a call waits only behind
\* a holder, and a drain starts the service over.
THEOREM Implementation == SlotSpec => ImplementsService
<1>1. SlotIInv /\ SlotsKnown /\ [SlotNext]_slotVars => [Service!Next]_(Service!serviceVars)
  <2> SUFFICES ASSUME SlotIInv, SlotsKnown, [SlotNext]_slotVars
               PROVE  Service!Next \/ UNCHANGED Service!serviceVars
    OBVIOUS
  <2>1. CASE UNCHANGED slotVars
    BY <2>1 DEF slotVars, Holders, InLine, Service!serviceVars
  <2>2. ASSUME NEW c \in Callers, Enter(c)
        PROVE  Service!Next \/ UNCHANGED Service!serviceVars
    BY <2>2, ServiceStutter, ServiceTake, ServiceJoin DEF Enter, Service!Next
  <2>3. ASSUME NEW c \in Callers,
               FinishBypass(c) \/ GiveUp(c) \/ Resume(c) \/ Finish(c)
        PROVE  Service!Next \/ UNCHANGED Service!serviceVars
    BY <2>3, ServiceStutter, ServiceLeave, ServiceFree DEF Service!Next
  <2>4. CASE Drain
    BY <2>4, ServiceReset DEF Service!Next
  <2>5. CASE Reconfigure
    BY <2>5 DEF Reconfigure, Holders, InLine, Service!serviceVars
  <2> QED
    BY <2>1, <2>2, <2>3, <2>4, <2>5 DEF SlotNext
<1> QED
  BY <1>1, ServiceInit, SlotInvariance, SlotsKnownInvariant, PTL
  DEF SlotSpec, ImplementsService, Service!Spec
------------------------------------------------------------------------------
(* HttpClient takes the steps of the slot queue it extends. *)

LEMMA LeaveSlotIsSlotStep ==
  ASSUME NEW r \in Requests, LeaveSlot(r)
  PROVE  SlotNext
BY CallersAssumption DEF LeaveSlot, SlotNext

LEMMA StepIsSlotStep == [Next]_vars => [SlotNext]_slotVars
<1> SUFFICES ASSUME [Next]_vars PROVE [SlotNext]_slotVars
  OBVIOUS
<1> USE CallersAssumption
<1>1. CASE UNCHANGED vars
  BY <1>1 DEF vars
<1>2. ASSUME NEW r \in Requests, Begin(r) PROVE [SlotNext]_slotVars
  BY <1>2 DEF Begin
<1>3. ASSUME NEW r \in Requests, Advance(r) PROVE [SlotNext]_slotVars
  <2>1. CASE Authorize(r) \/ NeedToken(r) \/ Granted(r) \/ OutOfTime(r) \/ Send(r)
    BY <2>1 DEF Authorize, NeedToken, Granted, OutOfTime, Send
  <2>2. CASE EnterSlot(r)
    BY <2>2 DEF EnterSlot, SlotNext, Enter
  <2>3. CASE Refused(r)
    BY <2>3 DEF Refused, SlotNext, Enter
  <2>4. CASE GetPlace(r)
    BY <2>4 DEF GetPlace, SlotNext
  <2>5. CASE NotSent(r) \/ Answer(r) \/ Fail(r)
    BY <2>5, LeaveSlotIsSlotStep DEF NotSent, Answer, Fail
  <2>6. CASE RetryTransport(r) \/ EndTransport(r) \/ Redirected(r) \/ Reauthenticate(r)
             \/ RetryStatus(r) \/ EndStatus(r) \/ Succeed(r) \/ Wake(r)
    BY <2>6 DEF RetryTransport, EndTransport, Redirected, Reauthenticate,
                RetryStatus, EndStatus, Succeed, Wake, Quiet
  <2> QED
    BY <1>3, <2>1, <2>2, <2>3, <2>4, <2>5, <2>6 DEF Advance
<1>4. ASSUME NEW r \in Requests, QueueTimeout(r) PROVE [SlotNext]_slotVars
  BY <1>4 DEF QueueTimeout, SlotNext
<1>5. ASSUME NEW r \in Requests, Abort(r) PROVE [SlotNext]_slotVars
  BY <1>5 DEF Abort, SlotNext
<1>6. ASSUME NEW r \in Requests, DeadlinePasses(r) PROVE [SlotNext]_slotVars
  BY <1>6 DEF DeadlinePasses
<1>7. CASE WindowEnds \/ TokenExpires
  BY <1>7 DEF WindowEnds, TokenExpires
<1>8. CASE Dispose
  BY <1>8 DEF Dispose, SlotNext
<1> QED
  BY <1>1, <1>2, <1>3, <1>4, <1>5, <1>6, <1>7, <1>8 DEF Next

\* The client is a user of the queue: seen through the queue's variables, every
\* behaviour of rawRequest is one of withSlot, release and drainSlots, so that
\* what is proved of SlotSpec holds of it.
THEOREM ClientUsesQueue == Spec => SlotSpec
<1>1. Init => SlotInit
  BY DEF Init
<1> QED
  BY <1>1, StepIsSlotStep, PTL DEF Spec, SlotSpec

\* Retries, cancelled requests, passed deadlines and a disposed runtime do not
\* leak a place, exceed the limit or strand a waiting request (http-util.ts).
THEOREM ClientKeepsPlaces == Spec => []PlacesKept
BY ClientUsesQueue, PlacesAreKept, PTL

------------------------------------------------------------------------------
(* Types. *)

\* The types of what an action may change, so that an action's own step need
\* not look at the lists of steps and outcomes.
RunTypes ==
  /\ st \in [Requests -> Steps]
  /\ attempt \in [Requests -> Nat]
  /\ outcome \in [Requests -> Outcomes]

BreakerTypes == failures \in 0 .. Threshold /\ open \in BOOLEAN

LEMMA StepTypes ==
  ASSUME NEW r \in Requests, RunTypes, NEW s \in Steps
  PROVE  [st EXCEPT ![r] = s] \in [Requests -> Steps]
BY DEF RunTypes

LEMMA EndTypes ==
  ASSUME NEW r \in Requests, NEW how \in Outcomes, RunTypes, End(r, how)
  PROVE  RunTypes'
BY DEF RunTypes, End, Steps

LEMMA NextAttemptTypes ==
  ASSUME NEW r \in Requests, RunTypes, NextAttempt(r)
  PROVE  RunTypes'
<1>1. "CANCELLED" \in Outcomes
  BY DEF Outcomes
<1>2. CASE aborted[r]
  BY <1>1, <1>2, EndTypes DEF NextAttempt
<1>3. CASE ~aborted[r]
  BY <1>3 DEF NextAttempt, RunTypes, Steps
<1> QED
  BY <1>2, <1>3

LEMMA BreakerStepTypes ==
  ASSUME BreakerTypes, BreakerFailure \/ BreakerSuccess \/ BreakerUnchanged
  PROVE  BreakerTypes'
<1>1. CASE BreakerFailure
  <2>1. CASE Threshold = 0
    BY <1>1, <2>1 DEF BreakerTypes, BreakerFailure
  <2>2. CASE Threshold # 0
    <3>1. failures' \in 0 .. Threshold
      BY <1>1, <2>2, PolicyAssumption DEF BreakerTypes, BreakerFailure
    <3>2. open' \in BOOLEAN
      BY <1>1, <2>2 DEF BreakerTypes, BreakerFailure
    <3> QED
      BY <3>1, <3>2 DEF BreakerTypes
  <2> QED
    BY <2>1, <2>2
<1>2. CASE BreakerSuccess \/ BreakerUnchanged
  <2>1. failures' \in 0 .. Threshold
    BY <1>2, PolicyAssumption DEF BreakerTypes, BreakerSuccess, BreakerUnchanged
  <2>2. open' \in BOOLEAN
    BY <1>2 DEF BreakerTypes, BreakerSuccess, BreakerUnchanged
  <2> QED
    BY <2>1, <2>2 DEF BreakerTypes
<1> QED
  BY <1>1, <1>2

LEMMA BackOffTypes ==
  ASSUME NEW r \in Requests, NEW failure \in BOOLEAN, RunTypes, BreakerTypes,
         BackOff(r, failure)
  PROVE  RunTypes' /\ BreakerTypes'
<1>1. CASE End(r, "DEADLINE_EXCEEDED") /\ IF failure THEN BreakerFailure ELSE BreakerUnchanged
  <2>1. "DEADLINE_EXCEEDED" \in Outcomes
    BY DEF Outcomes
  <2> QED
    BY <1>1, <2>1, EndTypes, BreakerStepTypes
<1>2. CASE /\ st' = [st EXCEPT ![r] = "backoff"]
           /\ UNCHANGED <<attempt, outcome>>
           /\ BreakerUnchanged
  BY <1>2, BreakerStepTypes DEF RunTypes, Steps
<1> QED
  BY <1>1, <1>2 DEF BackOff

\* TypeOK in parts.
OwnTypes ==
  /\ reply \in [Requests -> NoAnswer \cup Answers \cup {"none"}]
  /\ replayed \in [Requests -> BOOLEAN]
  /\ aborted \in [Requests -> BOOLEAN]
  /\ late \in [Requests -> BOOLEAN]
  /\ cached \in BOOLEAN
  /\ applied \in [Requests -> 0 .. 2]

LEMMA TypeParts == TypeOK <=> SlotTypeOK /\ RunTypes /\ BreakerTypes /\ OwnTypes
BY DEF TypeOK, RunTypes, BreakerTypes, OwnTypes

LEMMA OutcomeNames ==
  {"ok", "CANCELLED", "CIRCUIT_OPEN", "BUSY", "TIMEOUT", "UNREACHABLE",
   "DEADLINE_EXCEEDED", "REDIRECT_BLOCKED", "HTTP_4XX", "HTTP_5XX",
   "UNUSABLE"} \subseteq Outcomes
BY DEF Outcomes

LEMMA TypesStep ==
  ASSUME RunTypes, BreakerTypes, OwnTypes, [Next]_vars
  PROVE  RunTypes' /\ BreakerTypes' /\ OwnTypes'
<1> USE OutcomeNames
<1>1. CASE UNCHANGED vars
  BY <1>1 DEF vars, runVars, hostVars, RunTypes, BreakerTypes, OwnTypes
<1>2. ASSUME NEW r \in Requests, Begin(r)
      PROVE  RunTypes' /\ BreakerTypes' /\ OwnTypes'
  <2>1. BreakerTypes' /\ OwnTypes'
    BY <1>2 DEF Begin, BreakerTypes, OwnTypes, hostVars
  <2>2. CASE End(r, "CANCELLED") \/ End(r, "CIRCUIT_OPEN")
    BY <2>1, <2>2, EndTypes
  <2>3. CASE st' = [st EXCEPT ![r] = "auth"] /\ UNCHANGED <<attempt, outcome>>
    BY <2>1, <2>3 DEF RunTypes, Steps
  <2> QED
    BY <1>2, <2>2, <2>3 DEF Begin
<1>3. ASSUME NEW r \in Requests, Advance(r)
      PROVE  RunTypes' /\ BreakerTypes' /\ OwnTypes'
  <2>1. CASE Authorize(r) \/ Send(r) \/ EnterSlot(r)
    <3>1. BreakerTypes' /\ OwnTypes'
      BY <2>1 DEF Authorize, Send, EnterSlot, BreakerTypes, OwnTypes, hostVars
    <3>2. RunTypes'
      BY <2>1 DEF Authorize, Send, EnterSlot, RunTypes, Steps
    <3> QED
      BY <3>1, <3>2
  <2>2. CASE NeedToken(r)
    <3>1. GrantOf[r] \in Requests
      BY <2>2, GrantsAssumption DEF NeedToken, HasGrant, Requests
    <3>2. BreakerTypes' /\ OwnTypes'
      BY <2>2, <3>1 DEF NeedToken, BreakerTypes, OwnTypes, hostVars
    <3>3. RunTypes'
      BY <2>2, <3>1 DEF NeedToken, RunTypes, Steps, Outcomes
    <3> QED
      BY <3>2, <3>3
  <2>3. CASE HasGrant(r) /\ Granted(r)
    <3>1. GrantOf[r] \in Requests
      BY <2>3, GrantsAssumption DEF HasGrant, Requests
    <3>2. BreakerTypes' /\ OwnTypes'
      BY <2>3 DEF Granted, BreakerTypes, OwnTypes
    <3>3. CASE \E how \in Outcomes : End(r, how)
      BY <3>2, <3>3, EndTypes
    <3>4. CASE st' = [st EXCEPT ![r] = "ready"] /\ UNCHANGED <<outcome, attempt>>
      BY <3>2, <3>4 DEF RunTypes, Steps
    <3>5. outcome[GrantOf[r]] \in Outcomes
      BY <3>1 DEF RunTypes
    <3> QED
      BY <2>3, <3>3, <3>4, <3>5 DEF Granted
  <2>4. CASE OutOfTime(r) \/ Refused(r) \/ NotSent(r)
    <3>1. BreakerTypes' /\ OwnTypes'
      BY <2>4 DEF OutOfTime, Refused, NotSent, BreakerTypes, OwnTypes, hostVars
    <3>2. \E how \in Outcomes : End(r, how)
      BY <2>4 DEF OutOfTime, Refused, NotSent
    <3> QED
      BY <3>1, <3>2, EndTypes
  <2>5. CASE GetPlace(r)
    BY <2>5 DEF GetPlace, runVars, hostVars, RunTypes, BreakerTypes, OwnTypes
  <2>6. CASE Answer(r) \/ Fail(r)
    <3>1. BreakerTypes' /\ RunTypes'
      BY <2>6 DEF Answer, Fail, RunTypes, Steps, BreakerTypes, hostVars
    <3>2. applied' \in [Requests -> 0 .. 2]
      BY <2>6 DEF Answer, Fail, Apply, OwnTypes
    <3>3. reply' \in [Requests -> NoAnswer \cup Answers \cup {"none"}]
      BY <2>6 DEF Answer, Fail, OwnTypes
    <3>4. late' \in [Requests -> BOOLEAN]
      BY <2>6 DEF Answer, Fail, OwnTypes
    <3>5. UNCHANGED <<replayed, aborted, cached>>
      BY <2>6 DEF Answer, Fail, hostVars
    <3> QED
      BY <3>1, <3>2, <3>3, <3>4, <3>5 DEF OwnTypes
  <2>7. CASE RetryTransport(r) \/ RetryStatus(r)
    <3>1. OwnTypes'
      BY <2>7 DEF RetryTransport, RetryStatus, Quiet, OwnTypes
    <3>2. \E failure \in BOOLEAN : BackOff(r, failure)
      BY <2>7 DEF RetryTransport, RetryStatus
    <3> QED
      BY <3>1, <3>2, BackOffTypes
  <2>8. CASE EndTransport(r) \/ EndStatus(r) \/ Redirected(r) \/ Succeed(r)
    <3>1. OwnTypes'
      BY <2>8 DEF EndTransport, EndStatus, Redirected, Succeed, Quiet, OwnTypes
    <3>2. \E how \in Outcomes : End(r, how)
      BY <2>8 DEF EndTransport, EndStatus, Redirected, Succeed
    <3>3. BreakerFailure \/ BreakerSuccess \/ BreakerUnchanged
      BY <2>8 DEF EndTransport, EndStatus, Redirected, Succeed
    <3> QED
      BY <3>1, <3>2, <3>3, EndTypes, BreakerStepTypes
  <2>9. CASE Reauthenticate(r) \/ Wake(r)
    <3>1. BreakerTypes' /\ OwnTypes'
      BY <2>9 DEF Reauthenticate, Wake, BreakerTypes, OwnTypes, hostVars
    <3> QED
      BY <2>9, <3>1, NextAttemptTypes DEF Reauthenticate, Wake
  <2> QED
    BY <1>3, <2>1, <2>2, <2>3, <2>4, <2>5, <2>6, <2>7, <2>8, <2>9 DEF Advance
<1>4. ASSUME NEW r \in Requests, QueueTimeout(r) \/ Abort(r)
      PROVE  RunTypes' /\ BreakerTypes' /\ OwnTypes'
  <2>1. BreakerTypes' /\ OwnTypes'
    BY <1>4 DEF QueueTimeout, Abort, BreakerTypes, OwnTypes, hostVars
  <2>2. CASE \E how \in Outcomes : End(r, how)
    BY <2>1, <2>2, EndTypes
  <2>3. CASE UNCHANGED <<st, attempt, outcome>>
    BY <2>1, <2>3 DEF RunTypes
  <2> QED
    BY <1>4, <2>2, <2>3 DEF QueueTimeout, Abort
<1>5. ASSUME NEW r \in Requests, DeadlinePasses(r)
      PROVE  RunTypes' /\ BreakerTypes' /\ OwnTypes'
  BY <1>5 DEF DeadlinePasses, RunTypes, BreakerTypes, OwnTypes, hostVars
<1>6. CASE WindowEnds \/ TokenExpires
  BY <1>6 DEF WindowEnds, TokenExpires, RunTypes, BreakerTypes, OwnTypes, runVars
<1>7. CASE Dispose
  <2>1. BreakerTypes' /\ OwnTypes'
    BY <1>7, BreakerStepTypes DEF Dispose, OwnTypes
  <2>2. RunTypes'
    BY <1>7 DEF Dispose, RunTypes, Steps
  <2> QED
    BY <2>1, <2>2
<1> QED
  BY <1>1, <1>2, <1>3, <1>4, <1>5, <1>6, <1>7 DEF Next

\* Every variable of the client keeps its type; the breaker's count stays
\* within its threshold.
THEOREM TypeCorrect == Spec => []TypeOK
<1>1. Init => TypeOK
  <2> SUFFICES ASSUME Init PROVE TypeOK
    OBVIOUS
  <2>1. SlotTypeOK
    BY SlotInitInvariant DEF Init, SlotIInv
  <2>2. RunTypes
    BY DEF Init, RunTypes, Steps, Outcomes
  <2>3. BreakerTypes
    <3>1. failures \in 0 .. Threshold
      BY PolicyAssumption DEF Init
    <3>2. open \in BOOLEAN
      BY DEF Init
    <3> QED
      BY <3>1, <3>2 DEF BreakerTypes
  <2>4. applied \in [Requests -> 0 .. 2]
    BY DEF Init
  <2>5. /\ replayed \in [Requests -> BOOLEAN]
        /\ aborted \in [Requests -> BOOLEAN]
        /\ late \in [Requests -> BOOLEAN]
    BY DEF Init
  <2>6. reply \in [Requests -> NoAnswer \cup Answers \cup {"none"}] /\ cached \in BOOLEAN
    BY DEF Init
  <2>7. OwnTypes
    BY <2>4, <2>5, <2>6 DEF OwnTypes
  <2> QED
    BY <2>1, <2>2, <2>3, <2>7, TypeParts
<1>2. TypeOK /\ SlotTypeOK' /\ [Next]_vars => TypeOK'
  <2>1. TypeOK /\ [Next]_vars => RunTypes' /\ BreakerTypes' /\ OwnTypes'
    BY TypesStep, TypeParts
  <2> QED
    BY <2>1 DEF TypeOK, RunTypes, BreakerTypes, OwnTypes
<1> QED
  BY <1>1, <1>2, ClientUsesQueue, SlotTypeCorrect, PTL DEF Spec

------------------------------------------------------------------------------
(* What a write has done to the instance. *)

\* Of the API's requests only one in withSlot stands in its line.
WaitingInSlot == \A r \in Api : pc[r] = "waiting" => st[r] = "slot"

\* Until a write's attempt came back the write is not applied; from then on it
\* is at most once, and what came back says whether it is, unless nothing or an
\* error of the instance did.  Nothing that leaves it open is ever retried.
SentOnce ==
  \A r \in Writes :
    /\ applied[r] \in {0, 1}
    /\ st[r] # "done" => outcome[r] = "none"
    /\ st[r] \notin {"back", "done"} => applied[r] = 0
    /\ st[r] = "back" /\ reply[r] = "ok" => applied[r] = 1
    /\ st[r] = "back" /\ reply[r] \in {"redirect", "401", "429", "4xx"} => applied[r] = 0

\* The inductive invariant.  Honest outcomes rest on what came back last.
IInv == WaitingInSlot /\ SentOnce /\ OutcomeHonest

Shapes == /\ pc \in [Requests -> Status]
          /\ st \in [Requests -> Steps]
          /\ outcome \in [Requests -> Outcomes]
          /\ applied \in [Requests -> 0 .. 2]
          /\ reply \in [Requests -> NoAnswer \cup Answers \cup {"none"}]

LEMMA ShapesKnown == TypeOK => Shapes
BY CallersAssumption DEF TypeOK, SlotTypeOK, Shapes

LEMMA ApiRequests == Writes \subseteq Api /\ Api \subseteq Requests
BY DEF Api, Requests

LEMMA EndEffect ==
  ASSUME NEW r \in Requests, NEW how, Shapes, End(r, how)
  PROVE  /\ st'[r] = "done" /\ outcome'[r] = how
         /\ \A x \in Requests \ {r} : st'[x] = st[x] /\ outcome'[x] = outcome[x]
BY DEF End, Shapes

\* No slot step but Join makes a request wait.
LEMMA LeaveSlotWaits ==
  ASSUME NEW r \in Requests, Shapes, LeaveSlot(r)
  PROVE  /\ pc[r] \in {"running", "bypass"} /\ pc'[r] # "waiting"
         /\ \A x \in Requests : pc'[x] = "waiting" => pc[x] = "waiting"
BY DEF LeaveSlot, FinishBypass, Finish, Shapes

\* An action that changes one request's run, and nobody's place in the line to
\* waiting, keeps the invariant if it keeps it for that request.
LEMMA OneRequest ==
  ASSUME IInv, NEW r \in Requests,
         \A x \in Requests \ {r} : /\ st'[x] = st[x] /\ outcome'[x] = outcome[x]
                                   /\ applied'[x] = applied[x] /\ reply'[x] = reply[x]
                                   /\ pc'[x] = "waiting" => pc[x] = "waiting",
         r \in Api => (pc'[r] = "waiting" => st'[r] = "slot"),
         r \in Writes =>
           /\ applied'[r] \in {0, 1}
           /\ st'[r] # "done" => outcome'[r] = "none"
           /\ st'[r] \notin {"back", "done"} => applied'[r] = 0
           /\ st'[r] = "back" /\ reply'[r] = "ok" => applied'[r] = 1
           /\ st'[r] = "back" /\ reply'[r] \in {"redirect", "401", "429", "4xx"} => applied'[r] = 0
           /\ outcome'[r] = "ok" => applied'[r] = 1
           /\ outcome'[r] \in {"BUSY", "CIRCUIT_OPEN"} => applied'[r] = 0
  PROVE  IInv'
BY ApiRequests DEF IInv, WaitingInSlot, SentOnce, OutcomeHonest

\* The case that it ends: with "ok" only if it is applied, with BUSY or
\* CIRCUIT_OPEN only if it is not.
LEMMA RequestEnds ==
  ASSUME IInv, Shapes, NEW r \in Requests, NEW how, End(r, how),
         UNCHANGED <<applied, reply>>,
         \A x \in Requests : pc'[x] = "waiting" => pc[x] = "waiting",
         r \in Api => pc'[r] # "waiting",
         r \in Writes => /\ how = "ok" => applied[r] = 1
                         /\ how \in {"BUSY", "CIRCUIT_OPEN"} => applied[r] = 0
  PROVE  IInv'
<1>1. r \in Writes => applied[r] \in {0, 1}
  BY DEF IInv, SentOnce
<1> QED
  BY <1>1, EndEffect, OneRequest

LEMMA InitIInv == Init => IInv
BY ApiRequests, CallersAssumption
DEF Init, SlotInit, IInv, WaitingInSlot, SentOnce, OutcomeHonest

\* The steps that leave a request where nothing of it is applied.
LEMMA QuietMoves ==
  ASSUME IInv, Shapes, NEW r \in Requests,
         Authorize(r) \/ Send(r) \/ DeadlinePasses(r) \/ GetPlace(r)
  PROVE  IInv'
<1>1. CASE Authorize(r)
  BY <1>1, OneRequest DEF Authorize, Shapes, IInv, SentOnce, WaitingInSlot, slotVars,
     OutcomeHonest
<1>2. CASE Send(r)
  BY <1>2, OneRequest DEF Send, InSlot, Shapes, IInv, SentOnce, WaitingInSlot, slotVars,
     OutcomeHonest
<1>3. CASE DeadlinePasses(r)
  BY <1>3 DEF DeadlinePasses, IInv, SentOnce, WaitingInSlot, OutcomeHonest, slotVars
<1>4. CASE GetPlace(r)
  <2>1. UNCHANGED <<st, outcome, applied, reply>>
    BY <1>4 DEF GetPlace, runVars
  <2>2. \A x \in Requests : pc'[x] = "waiting" => pc[x] = "waiting"
    BY <1>4 DEF GetPlace, Resume, Shapes
  <2> QED
    BY <2>1, <2>2, ApiRequests DEF IInv, WaitingInSlot, SentOnce, OutcomeHonest
<1> QED
  BY <1>1, <1>2, <1>3, <1>4

LEMMA BeginKeeps ==
  ASSUME IInv, Shapes, NEW r \in Requests, Begin(r)
  PROVE  IInv'
<1>1. UNCHANGED <<pc, applied, reply>> /\ r \in Api /\ st[r] = "idle"
  BY DEF Begin, slotVars
<1>2. pc[r] # "waiting" /\ (r \in Writes => applied[r] = 0)
  BY <1>1 DEF IInv, WaitingInSlot, SentOnce
<1>3. CASE End(r, "CANCELLED") \/ End(r, "CIRCUIT_OPEN")
  BY <1>1, <1>2, <1>3, RequestEnds
<1>4. CASE st' = [st EXCEPT ![r] = "auth"] /\ UNCHANGED <<attempt, outcome>>
  BY <1>1, <1>2, <1>4, OneRequest DEF Shapes, IInv, SentOnce, OutcomeHonest
<1> QED
  BY <1>3, <1>4 DEF Begin

\* A token request is none of the writes: what it ends with is passed on while
\* nothing of the request itself was sent.
LEMMA TokenKeeps ==
  ASSUME IInv, Shapes, NEW r \in Requests, NeedToken(r) \/ (HasGrant(r) /\ Granted(r))
  PROVE  IInv'
<1> DEFINE g == GrantOf[r]
<1>1. r \in Api /\ g \in Requests /\ g \notin Api
  BY GrantsAssumption, CallersAssumption DEF NeedToken, HasGrant, Requests
<1>2. pc[r] # "waiting" /\ (r \in Writes => applied[r] = 0)
  BY <1>1 DEF IInv, WaitingInSlot, SentOnce, NeedToken, Granted
<1>3. CASE NeedToken(r)
  <2>1. UNCHANGED <<pc, applied>>
    BY <1>3 DEF NeedToken, slotVars
  <2>2. \A x \in Api \ {r} : st'[x] = st[x] /\ outcome'[x] = outcome[x] /\ reply'[x] = reply[x]
    BY <1>1, <1>3, ApiRequests DEF NeedToken, Shapes
  <2>3. st'[r] = "granting" /\ outcome'[r] = outcome[r] /\ st[r] = "auth"
    BY <1>1, <1>3 DEF NeedToken, Shapes
  <2> QED
    BY <1>1, <1>2, <2>1, <2>2, <2>3, ApiRequests
    DEF IInv, WaitingInSlot, SentOnce, OutcomeHonest
<1>4. CASE Granted(r)
  <2>1. UNCHANGED <<pc, applied, reply>>
    BY <1>4 DEF Granted, slotVars
  <2>2. CASE \E how : how # "ok" /\ End(r, how)
    BY <1>2, <2>1, <2>2, RequestEnds
  <2>3. CASE st' = [st EXCEPT ![r] = "ready"] /\ UNCHANGED <<outcome, attempt>>
    <3>1. st[r] = "granting"
      BY <1>4 DEF Granted
    <3> QED
      BY <1>1, <1>2, <2>1, <2>3, <3>1, OneRequest DEF Shapes, IInv, SentOnce, OutcomeHonest
  <2> QED
    BY <1>4, <2>2, <2>3 DEF Granted
<1> QED
  BY <1>3, <1>4

LEMMA EnterSlotKeeps ==
  ASSUME IInv, Shapes, NEW r \in Requests, EnterSlot(r)
  PROVE  IInv'
<1>1. UNCHANGED <<applied, reply, outcome>> /\ st[r] = "ready" /\ st' = [st EXCEPT ![r] = "slot"]
  BY DEF EnterSlot
<1>2. \A x \in Requests \ {r} : pc'[x] = pc[x]
  BY DEF EnterSlot, EnterBypass, Take, Join, Shapes
<1> QED
  BY <1>1, <1>2, OneRequest DEF Shapes, IInv, SentOnce, OutcomeHonest

\* The ends of a request nothing of which was sent.
LEMMA UnsentEnds ==
  ASSUME IInv, Shapes, NEW r \in Requests,
         OutOfTime(r) \/ Refused(r) \/ QueueTimeout(r) \/ NotSent(r)
  PROVE  IInv'
<1>1. UNCHANGED <<applied, reply>>
  BY DEF OutOfTime, Refused, QueueTimeout, NotSent
<1>2. CASE OutOfTime(r)
  <2>1. st[r] = "ready" /\ UNCHANGED pc /\ End(r, "DEADLINE_EXCEEDED")
    BY <1>2 DEF OutOfTime, slotVars
  <2> QED
    BY <1>1, <2>1, RequestEnds DEF IInv, WaitingInSlot
<1>3. CASE Refused(r)
  <2>1. st[r] = "ready" /\ pc' = [pc EXCEPT ![r] = "refused"] /\ (End(r, "BUSY") \/ End(r, "CANCELLED"))
    BY <1>3 DEF Refused, Refuse
  <2>2. r \in Writes => applied[r] = 0
    BY <2>1 DEF IInv, SentOnce
  <2> QED
    BY <1>1, <2>1, <2>2, RequestEnds DEF Shapes
<1>4. CASE QueueTimeout(r)
  <2>1. pc[r] = "waiting" /\ pc' = [pc EXCEPT ![r] = "refused"] /\ End(r, "BUSY")
    BY <1>4 DEF QueueTimeout, GiveUp
  <2>2. r \in Writes => applied[r] = 0
    BY <2>1, ApiRequests DEF IInv, WaitingInSlot, SentOnce
  <2> QED
    BY <1>1, <2>1, <2>2, RequestEnds DEF Shapes
<1>5. CASE NotSent(r)
  <2>1. LeaveSlot(r) /\ (End(r, "DEADLINE_EXCEEDED") \/ End(r, "CANCELLED"))
    BY <1>5 DEF NotSent
  <2> QED
    BY <1>1, <2>1, LeaveSlotWaits, RequestEnds
<1> QED
  BY <1>2, <1>3, <1>4, <1>5

\* The attempt comes back: the write is applied at most once, and for certain if
\* and only if the answer says so.
LEMMA AttemptBack ==
  ASSUME IInv, Shapes, NEW r \in Requests, Answer(r) \/ Fail(r)
  PROVE  IInv'
<1>1. /\ st[r] = "flight" /\ st' = [st EXCEPT ![r] = "back"]
      /\ UNCHANGED outcome /\ LeaveSlot(r)
  BY DEF Answer, Fail
<1>2. r \in Writes => applied[r] = 0 /\ outcome[r] = "none"
  BY <1>1 DEF IInv, SentOnce
<1>3. PICK a \in NoAnswer \cup Answers :
        /\ reply' = [reply EXCEPT ![r] = a]
        /\ \/ a \in {"ok", "500", "gateway"} \cup NoAnswer /\ Apply(r)
           \/ a # "ok" /\ UNCHANGED applied
  BY DEF Answer, Fail, NoAnswer, Answers
<1>4. \A x \in Requests \ {r} : applied'[x] = applied[x] /\ reply'[x] = reply[x]
  BY <1>3 DEF Apply, Shapes
<1>5. /\ reply'[r] = a
      /\ r \in Writes => /\ applied'[r] \in {0, 1}
                         /\ a = "ok" => applied'[r] = 1
                         /\ a \in {"redirect", "401", "429", "4xx"} => applied'[r] = 0
  BY <1>2, <1>3 DEF Apply, Shapes, NoAnswer
<1> QED
  BY <1>1, <1>2, <1>4, <1>5, LeaveSlotWaits, OneRequest DEF Shapes

\* Going round: only a request that was told it did nothing, or may be repeated.
LEMMA GoesRound ==
  ASSUME IInv, Shapes, NEW r \in Requests,
         RetryTransport(r) \/ RetryStatus(r) \/ Reauthenticate(r) \/ Wake(r)
  PROVE  IInv'
<1>1. UNCHANGED <<pc, applied, reply>> /\ st[r] \in {"back", "backoff"}
  BY DEF RetryTransport, RetryStatus, Reauthenticate, Wake, Quiet, Back, slotVars
<1>2. r \in Api => pc[r] # "waiting"
  BY <1>1 DEF IInv, WaitingInSlot
<1>3. r \in Writes => applied[r] = 0 /\ outcome[r] = "none"
  <2>1. CASE Wake(r)
    BY <2>1 DEF Wake, IInv, SentOnce
  <2>2. CASE RetryTransport(r)
    BY <2>2 DEF RetryTransport, Idempotent
  <2>3. CASE RetryStatus(r)
    BY <2>3 DEF RetryStatus, Retryable, Idempotent, Back, IInv, SentOnce
  <2>4. CASE Reauthenticate(r)
    BY <2>4 DEF Reauthenticate, Back, IInv, SentOnce
  <2> QED
    BY <2>1, <2>2, <2>3, <2>4
<1>4. \/ \E how \in {"DEADLINE_EXCEEDED", "CANCELLED"} : End(r, how)
      \/ \E s \in {"auth", "backoff"} : st' = [st EXCEPT ![r] = s] /\ UNCHANGED outcome
  BY DEF RetryTransport, RetryStatus, Reauthenticate, Wake, BackOff, NextAttempt
<1>5. CASE \E how \in {"DEADLINE_EXCEEDED", "CANCELLED"} : End(r, how)
  BY <1>1, <1>2, <1>5, RequestEnds
<1>6. CASE \E s \in {"auth", "backoff"} : st' = [st EXCEPT ![r] = s] /\ UNCHANGED outcome
  BY <1>1, <1>2, <1>3, <1>6, OneRequest DEF Shapes
<1> QED
  BY <1>4, <1>5, <1>6

LEMMA SentEnds ==
  ASSUME IInv, Shapes, NEW r \in Requests,
         EndTransport(r) \/ Redirected(r) \/ EndStatus(r) \/ Succeed(r)
  PROVE  IInv'
<1>1. UNCHANGED <<pc, applied, reply>> /\ st[r] = "back"
  BY DEF EndTransport, Redirected, EndStatus, Succeed, Quiet, Back, slotVars
<1>2. r \in Api => pc[r] # "waiting"
  BY <1>1 DEF IInv, WaitingInSlot
<1>3. CASE Succeed(r)
  <2>1. reply[r] = "ok" /\ (End(r, "ok") \/ End(r, "UNUSABLE"))
    BY <1>3 DEF Succeed, Back
  <2>2. CASE End(r, "ok")
    BY <1>1, <1>2, <2>1, <2>2, RequestEnds DEF IInv, SentOnce
  <2>3. CASE End(r, "UNUSABLE")
    BY <1>1, <1>2, <2>3, RequestEnds
  <2> QED
    BY <2>1, <2>2, <2>3
<1>4. CASE EndTransport(r) \/ Redirected(r) \/ EndStatus(r)
  <2>1. \E how \in {"CANCELLED", "DEADLINE_EXCEEDED", "TIMEOUT", "UNREACHABLE",
                     "REDIRECT_BLOCKED", "HTTP_4XX", "HTTP_5XX"} : End(r, how)
    BY <1>4 DEF EndTransport, Redirected, EndStatus
  <2> QED
    BY <1>1, <1>2, <2>1, RequestEnds
<1> QED
  BY <1>3, <1>4

LEMMA AbortKeeps ==
  ASSUME IInv, Shapes, NEW r \in Requests, Abort(r)
  PROVE  IInv'
<1>1. UNCHANGED <<applied, reply>>
  BY DEF Abort
<1>2. CASE GiveUp(r) /\ End(r, "CANCELLED")
  <2>1. pc' = [pc EXCEPT ![r] = "refused"]
    BY <1>2 DEF GiveUp
  <2> QED
    BY <1>1, <1>2, <2>1, RequestEnds DEF Shapes
<1>3. CASE UNCHANGED <<slotVars, st, outcome>>
  BY <1>1, <1>3 DEF IInv, WaitingInSlot, SentOnce, OutcomeHonest, slotVars
<1> QED
  BY <1>2, <1>3 DEF Abort

LEMMA DisposeKeeps ==
  ASSUME IInv, Shapes, Dispose
  PROVE  IInv'
<1>1. UNCHANGED <<applied, reply>>
  BY DEF Dispose
<1>2. \A x \in Requests :
        /\ pc'[x] # "waiting"
        /\ pc[x] = "waiting" => st'[x] = "done" /\ outcome'[x] = "BUSY"
        /\ pc[x] # "waiting" => st'[x] = st[x] /\ outcome'[x] = outcome[x]
  BY CallersAssumption DEF Dispose, Drain
<1>3. \A x \in Writes : pc[x] = "waiting" => applied[x] = 0
  BY ApiRequests DEF IInv, WaitingInSlot, SentOnce
<1> QED
  BY <1>1, <1>2, <1>3, ApiRequests DEF IInv, WaitingInSlot, SentOnce, OutcomeHonest

LEMMA NextIInv == IInv /\ TypeOK /\ [Next]_vars => IInv'
<1> SUFFICES ASSUME IInv, Shapes, [Next]_vars PROVE IInv'
  BY ShapesKnown
<1>1. CASE UNCHANGED vars \/ WindowEnds \/ TokenExpires
  BY <1>1 DEF WindowEnds, TokenExpires, vars, slotVars, runVars,
              IInv, WaitingInSlot, SentOnce, OutcomeHonest
<1>2. ASSUME NEW r \in Requests, Advance(r) PROVE IInv'
  BY <1>2, QuietMoves, TokenKeeps, EnterSlotKeeps, UnsentEnds, AttemptBack, GoesRound,
     SentEnds
  DEF Advance
<1>3. ASSUME NEW r \in Requests, Begin(r) \/ QueueTimeout(r) \/ Abort(r) \/ DeadlinePasses(r)
      PROVE  IInv'
  BY <1>3, BeginKeeps, UnsentEnds, AbortKeeps, QuietMoves
<1> QED
  BY <1>1, <1>2, <1>3, DisposeKeeps DEF Next

THEOREM Invariance == Spec => []IInv
BY InitIInv, NextIInv, TypeCorrect, PTL DEF Spec

\* However many requests share the host, its queue, its breaker and its tokens,
\* and whatever the instance answers or fails to, no write is carried out twice
\* (the retry matrix of rawRequest).
THEOREM AppliedOnce == Spec => []WriteAppliedOnce
<1>1. IInv => WriteAppliedOnce
  BY DEF IInv, SentOnce, WriteAppliedOnce
<1> QED
  BY <1>1, Invariance, PTL

\* "ok" means the write is there and "request not sent" that it is not, on every
\* path to an outcome, a drained line and a failed token request included.
THEOREM OutcomesAreHonest == Spec => []OutcomeHonest
<1>1. IInv => OutcomeHonest
  BY DEF IInv
<1> QED
  BY <1>1, Invariance, PTL

------------------------------------------------------------------------------
(* What counts against the host. *)

Evidence ==
  failures' > failures \/ (open' /\ ~open)
    => \E r \in Requests :
         /\ st[r] = "back" /\ st'[r] = "done" /\ outcome'[r] # "CANCELLED"
         /\ reply[r] \in NoAnswer \cup {"500", "gateway"}

LEMMA NothingCounted ==
  ASSUME TypeOK, BreakerSuccess \/ BreakerUnchanged
  PROVE  Evidence
<1>1. failures \in Nat
  BY PolicyAssumption DEF TypeOK
<1>2. ~(failures' > failures) /\ ~(open' /\ ~open)
  <2>1. ~(failures' > failures)
    BY <1>1 DEF BreakerSuccess, BreakerUnchanged
  <2>2. ~(open' /\ ~open)
    BY DEF BreakerSuccess, BreakerUnchanged
  <2> QED
    BY <2>1, <2>2
<1> QED
  BY <1>2 DEF Evidence

LEMMA EvidenceStep == TypeOK /\ [Next]_vars => Evidence
<1> SUFFICES ASSUME TypeOK, [Next]_vars PROVE Evidence
  OBVIOUS
<1>0. Shapes
  BY ShapesKnown
<1>1. ASSUME NEW r \in Requests, RetryTransport(r) PROVE Evidence
  <2>1. CASE BreakerUnchanged
    BY <2>1, NothingCounted
  <2>2. CASE End(r, "DEADLINE_EXCEEDED")
    BY <1>0, <1>1, <2>2, EndEffect DEF RetryTransport, Back, Evidence, NoAnswer
  <2> QED
    BY <1>1, <2>1, <2>2 DEF RetryTransport, BackOff
<1>2. ASSUME NEW r \in Requests, RetryStatus(r) PROVE Evidence
  <2>1. CASE BreakerUnchanged
    BY <2>1, NothingCounted
  <2>2. CASE End(r, "DEADLINE_EXCEEDED") /\ reply[r] = "gateway"
    BY <1>0, <1>2, <2>2, EndEffect DEF RetryStatus, Back, Evidence
  <2> QED
    BY <1>2, <2>1, <2>2 DEF RetryStatus, BackOff
<1>3. ASSUME NEW r \in Requests, EndTransport(r) PROVE Evidence
  <2>1. CASE BreakerUnchanged
    BY <2>1, NothingCounted
  <2>2. CASE \E how \in {"DEADLINE_EXCEEDED", "TIMEOUT", "UNREACHABLE"} : End(r, how)
    BY <1>0, <1>3, <2>2, EndEffect DEF EndTransport, Back, Evidence
  <2> QED
    BY <1>3, <2>1, <2>2 DEF EndTransport
<1>4. ASSUME NEW r \in Requests, EndStatus(r) PROVE Evidence
  <2>1. CASE BreakerSuccess
    BY <2>1, NothingCounted
  <2>2. CASE End(r, "HTTP_5XX") /\ reply[r] \in {"500", "gateway"}
    BY <1>0, <1>4, <2>2, EndEffect DEF EndStatus, Back, Evidence
  <2> QED
    BY <1>4, <2>1, <2>2 DEF EndStatus
<1>5. ASSUME NEW r \in Requests,
             Redirected(r) \/ Succeed(r) \/ Reauthenticate(r) \/ Wake(r)
      PROVE  Evidence
  BY <1>5, NothingCounted
  DEF Redirected, Succeed, Reauthenticate, Wake, hostVars, BreakerUnchanged
<1>6. ASSUME NEW r \in Requests,
             \/ Authorize(r) \/ NeedToken(r) \/ Granted(r) \/ OutOfTime(r)
             \/ EnterSlot(r) \/ Refused(r) \/ GetPlace(r) \/ NotSent(r) \/ Send(r)
             \/ Answer(r) \/ Fail(r)
      PROVE  Evidence
  BY <1>6, NothingCounted
  DEF Authorize, NeedToken, Granted, OutOfTime, EnterSlot, Refused, GetPlace, NotSent,
      Send, Answer, Fail, hostVars, BreakerUnchanged
<1>7. ASSUME NEW r \in Requests,
             Begin(r) \/ QueueTimeout(r) \/ Abort(r) \/ DeadlinePasses(r)
      PROVE  Evidence
  BY <1>7, NothingCounted
  DEF Begin, QueueTimeout, Abort, DeadlinePasses, hostVars, BreakerUnchanged
<1>8. CASE UNCHANGED vars \/ TokenExpires \/ Dispose
  BY <1>8, NothingCounted DEF TokenExpires, Dispose, vars, hostVars, BreakerUnchanged
<1>9. CASE WindowEnds
  <2>1. failures \in Nat
    BY PolicyAssumption DEF TypeOK
  <2>2. ~(failures' > failures)
    BY <1>9, <2>1 DEF WindowEnds
  <2>3. ~open'
    BY <1>9 DEF WindowEnds
  <2> QED
    BY <2>2, <2>3 DEF Evidence
<1> QED
  BY <1>1, <1>2, <1>3, <1>4, <1>5, <1>6, <1>7, <1>8, <1>9 DEF Next, Advance

\* The breaker counts and opens for one reason only: the instance failed a request
\* that was sent and that its caller had not cancelled (breakerFailure).
THEOREM CountsOnlyEvidence == Spec => BreakerEvidence
<1>1. TypeOK /\ [Next]_vars =>
        (failures' > failures \/ (open' /\ ~open)
           => \E r \in Requests :
                /\ st[r] = "back" /\ st'[r] = "done" /\ outcome'[r] # "CANCELLED"
                /\ reply[r] \in NoAnswer \cup {"500", "gateway"})
  BY EvidenceStep DEF Evidence
<1> QED
  BY <1>1, TypeCorrect, PTL DEF Spec, BreakerEvidence
==============================================================================
