-------------------------- MODULE UpdateSetsProofs --------------------------
(***************************************************************************)
(* Safety of the update-set binding, for any number of bound writes.  The  *)
(* chain of promises is a queue whose first alone is at work, so whoever   *)
(* is at work is the only one of the process that touches the preferences. *)
(***************************************************************************)
EXTENDS UpdateSets, TLAPS

Present == {c \in Calls : pc[c] \notin {"idle", "done"}}

\* The calls that are present, q[1] to q[n], each behind the one it waits for.
Queue(n, q) ==
    /\ n \in Nat /\ q \in [1..n -> Calls]
    /\ \A i, j \in 1..n : q[i] = q[j] => i = j
    /\ \A c \in Calls : c \in Present <=> \E i \in 1..n : q[i] = c
    /\ tail = IF n = 0 THEN Nobody ELSE q[n]
    /\ \A i \in 2..n : after[q[i]] = q[i-1] /\ pc[q[i]] = "wait"

Queued == \E n \in Nat : \E q \in [1..n -> Calls] : Queue(n, q)

\* How far a call is with its preferences.
Shaped(c) ==
    /\ pc[c] \in Switching =>
         \/ c \in Scoped /\ todo[c] = Prefs /\ undo[c] = {}
         \/ c \notin Scoped /\ todo[c] = {"user"} /\ undo[c] = {}
         \/ c \in Scoped /\ todo[c] = {"scope"} /\ undo[c] = {"user"}
    /\ pc[c] = "run" => undo[c] = IF c \in Scoped THEN Prefs ELSE {"user"}
    /\ pc[c] = "restore" => undo[c] \in {{"user"}, Prefs}
    /\ pc[c] \in {"idle", "wait", "leave", "done"} => undo[c] = {}

\* What the preferences are while nothing outside of the code interfered.
Followed(c) ==
    pc[c] \in Inside /\ ~blame[c] =>
      /\ \A p \in Prefs \ undo[c] : pref[p] = found[c][p]
      /\ \A p \in undo[c] : old[c][p] = found[c][p]
      /\ pc[c] \in Switching \cup {"run"} => \A p \in undo[c] : pref[p] = SetOf[c]
      /\ pc[c] = "write" => old[c][First(c)] = pref[First(c)]

IInv == TypeOK /\ Queued /\ \A c \in Calls : Shaped(c) /\ Followed(c)

USE UpdateSetsAssumption

\* Every variable stays within its type.
THEOREM TypeCorrect == Spec => []TypeOK
<1>1. Init => TypeOK
  BY DEF Init, TypeOK, Prefs, Values, Inside, Switching
<1>2. TypeOK /\ [Next]_vars => TypeOK'
  <2> SUFFICES ASSUME TypeOK, [Next]_vars PROVE TypeOK'
    OBVIOUS
  <2>1. ASSUME NEW c \in Calls, Come(c) PROVE TypeOK'
    BY <2>1 DEF TypeOK, Come
  <2>2. ASSUME NEW c \in Calls, Enter(c) PROVE TypeOK'
    BY <2>2 DEF TypeOK, Enter, Prefs, Inside, Switching
  <2>3. ASSUME NEW c \in Calls, Leave(c) PROVE TypeOK'
    BY <2>3 DEF TypeOK, Leave
  <2>4. ASSUME NEW c \in Calls, Read(c) PROVE TypeOK'
    <3>1. First(c) \in Prefs
      BY DEF First, Prefs
    <3>2. old' \in [Calls -> [Prefs -> Values]]
      BY <2>4, <3>1 DEF TypeOK, Read
    <3>3. pc' \in [Calls -> {"idle", "wait", "done"} \cup Inside]
      BY <2>4 DEF TypeOK, Read, Switched, Inside, Switching
    <3>4. todo' \in [Calls -> SUBSET Prefs] /\ undo' \in [Calls -> SUBSET Prefs]
      <4>1. CASE Switched(c)
        BY <4>1, <3>1 DEF TypeOK, Switched
      <4>2. CASE UNCHANGED <<todo, undo>>
        BY <4>2 DEF TypeOK
      <4> QED
        BY <2>4, <4>1, <4>2 DEF Read
    <3> QED
      BY <2>4, <3>2, <3>3, <3>4 DEF TypeOK, Read
  <2>5. ASSUME NEW c \in Calls, Write(c) PROVE TypeOK'
    BY <2>5 DEF TypeOK, Write, Switched, First, Prefs, Inside, Switching, Values
  <2>6. ASSUME NEW c \in Calls, SwitchFails(c) PROVE TypeOK'
    <3>1. First(c) \in Prefs /\ SetOf[c] \in Values
      BY DEF First, Prefs, Values
    <3>2. pref' \in [Prefs -> Values] /\ blame' \in [Calls -> BOOLEAN]
      BY <2>6, <3>1 DEF TypeOK, SwitchFails
    <3>3. pc' \in [Calls -> {"idle", "wait", "done"} \cup Inside]
      BY <2>6 DEF TypeOK, SwitchFails, Inside, Switching
    <3> QED
      BY <2>6, <3>2, <3>3 DEF TypeOK, SwitchFails
  <2>7. ASSUME NEW c \in Calls, Run(c) PROVE TypeOK'
    BY <2>7 DEF TypeOK, Run, Inside
  <2>8. ASSUME NEW c \in Calls, Restore(c) PROVE TypeOK'
    <3>1. Last(c) \in Prefs
      BY DEF Last, Prefs
    <3>2. pref' \in [Prefs -> Values]
      <4>1. old[c][Last(c)] \in Values
        BY <3>1 DEF TypeOK
      <4> QED
        BY <2>8, <3>1, <4>1 DEF TypeOK, Restore
    <3>5. blame' \in [Calls -> BOOLEAN]
      BY <2>8 DEF TypeOK, Restore
    <3>3. pc' \in [Calls -> {"idle", "wait", "done"} \cup Inside]
      BY <2>8 DEF TypeOK, Restore, Inside
    <3>4. undo' \in [Calls -> SUBSET Prefs]
      BY <2>8 DEF TypeOK, Restore
    <3> QED
      BY <2>8, <3>2, <3>3, <3>4, <3>5 DEF TypeOK, Restore
  <2>9. ASSUME NEW p \in Prefs, NEW v \in OwnSets, Choose(p, v) PROVE TypeOK'
    BY <2>9 DEF TypeOK, Choose, Values
  <2>10. CASE Crash
    BY <2>10 DEF TypeOK, Crash
  <2>11. CASE UNCHANGED vars
    BY <2>11 DEF TypeOK, vars
  <2> QED
    BY <2>1, <2>2, <2>3, <2>4, <2>5, <2>6, <2>7, <2>8, <2>9, <2>10, <2>11 DEF Next, Step
<1> QED
  BY <1>1, <1>2, PTL DEF Spec

-----------------------------------------------------------------------------
\* Who is at work is first in the queue, hence alone.
LEMMA WorkerFirst ==
  ASSUME NEW n, NEW q, Queue(n, q), NEW c \in Calls, pc[c] \in Inside
  PROVE  n # 0 /\ c = q[1]
<1>1. c \in Present
  BY DEF Present, Inside, Switching
<1>2. PICK i \in 1..n : q[i] = c
  BY <1>1 DEF Queue
<1>3. i \notin 2..n
  BY <1>2 DEF Queue, Inside, Switching
<1> QED
  BY <1>2, <1>3 DEF Queue

LEMMA OneWorker ==
  ASSUME Queued, NEW c \in Calls, NEW d \in Calls, pc[c] \in Inside, pc[d] \in Inside
  PROVE  c = d
<1>1. PICK n \in Nat : \E q \in [1..n -> Calls] : Queue(n, q)
  BY DEF Queued
<1>2. PICK q \in [1..n -> Calls] : Queue(n, q)
  BY <1>1
<1> QED
  BY <1>2, WorkerFirst

\* A step of the one at work leaves the queue alone.
LEMMA QueueKept ==
  ASSUME TypeOK, Queued, NEW c \in Calls, pc[c] \in Inside,
         NEW s \in Inside, pc' = [pc EXCEPT ![c] = s], after' = after, tail' = tail
  PROVE  Queued'
<1>1. PICK n \in Nat : \E q \in [1..n -> Calls] : Queue(n, q)
  BY DEF Queued
<1>2. PICK q \in [1..n -> Calls] : Queue(n, q)
  BY <1>1
<1>3. Present' = Present
  BY DEF Present, TypeOK, Inside, Switching
<1>4. ASSUME NEW i \in 2..n PROVE after'[q[i]] = q[i-1] /\ pc'[q[i]] = "wait"
  <2>1. pc[q[i]] = "wait" /\ after[q[i]] = q[i-1] /\ q[i] \in Calls
    BY <1>2 DEF Queue
  <2>2. q[i] # c
    BY <2>1 DEF Inside, Switching
  <2> QED
    BY <2>1, <2>2 DEF TypeOK
<1>5. Queue(n, q)'
  BY <1>2, <1>3, <1>4 DEF Queue
<1> QED
  BY <1>5 DEF Queued

LEMMA ComeQueues ==
  ASSUME TypeOK, Queued, NEW c \in Calls, Come(c)
  PROVE  Queued'
<1>1. PICK n \in Nat : \E q \in [1..n -> Calls] : Queue(n, q)
  BY DEF Queued
<1>2. PICK q \in [1..n -> Calls] : Queue(n, q)
  BY <1>1
<1> DEFINE r == [i \in 1..(n+1) |-> IF i = n+1 THEN c ELSE q[i]]
<1>3. r \in [1..(n+1) -> Calls] /\ r[n+1] = c /\ \A i \in 1..n : r[i] = q[i]
  BY <1>1
<1>4. \A i \in 1..n : q[i] # c
  BY <1>2 DEF Queue, Come, Present
<1>5. Present' = Present \cup {c}
  BY DEF Come, Present, TypeOK
<1>6. \A i, j \in 1..(n+1) : r[i] = r[j] => i = j
  <2>1. \A i \in 1..(n+1) : i = n+1 \/ i \in 1..n
    BY <1>1
  <2>2. \A i, j \in 1..n : q[i] = q[j] => i = j
    BY <1>2 DEF Queue
  <2> QED
    BY <2>1, <2>2, <1>3, <1>4
<1>7. \A d \in Calls : d \in Present' <=> \E i \in 1..(n+1) : r[i] = d
  <2> SUFFICES ASSUME NEW d \in Calls PROVE d \in Present' <=> \E i \in 1..(n+1) : r[i] = d
    OBVIOUS
  <2>1. d \in Present <=> \E i \in 1..n : q[i] = d
    BY <1>2 DEF Queue
  <2>2. \A i \in 1..n : i \in 1..(n+1)
    BY <1>1
  <2>3. \A i \in 1..(n+1) : i = n+1 \/ i \in 1..n
    BY <1>1
  <2>4. n+1 \in 1..(n+1)
    BY <1>1
  <2> QED
    BY <1>3, <1>5, <2>1, <2>2, <2>3, <2>4
<1>8. ASSUME NEW i \in 2..(n+1) PROVE after'[r[i]] = r[i-1] /\ pc'[r[i]] = "wait"
  <2>1. CASE i = n+1
    <3>1. n # 0 /\ i-1 = n /\ n \in 1..n
      BY <1>1, <2>1
    <3>2. tail = q[n]
      BY <3>1, <1>2 DEF Queue
    <3> QED
      BY <3>1, <3>2, <2>1, <1>3 DEF Come, TypeOK
  <2>2. CASE i # n+1
    <3>1. i \in 2..n /\ i \in 1..n /\ i-1 \in 1..n
      BY <1>1, <2>2
    <3>2. pc[q[i]] = "wait" /\ after[q[i]] = q[i-1] /\ q[i] \in Calls
      BY <3>1, <1>2 DEF Queue
    <3>3. q[i] # c
      BY <1>4, <3>1
    <3> QED
      BY <3>1, <3>2, <3>3, <1>3 DEF Come, TypeOK
  <2> QED
    BY <2>1, <2>2
<1>9. Queue(n+1, r)'
  <2>1. n+1 \in Nat /\ n+1 # 0
    BY <1>1
  <2>2. tail' = c
    BY DEF Come
  <2> QED
    BY <1>3, <1>6, <1>7, <1>8, <2>1, <2>2 DEF Queue
<1>10. n+1 \in Nat
  BY <1>1
<1> HIDE DEF r
<1> QED
  BY <1>3, <1>9, <1>10 DEF Queued

\* A call that enters is first: the one a later call waits for is present.
LEMMA EnterQueues ==
  ASSUME TypeOK, Queued, NEW c \in Calls, Enter(c)
  PROVE  Queued' /\ \A d \in Calls : pc[d] \notin Inside
<1>1. PICK n \in Nat : \E q \in [1..n -> Calls] : Queue(n, q)
  BY DEF Queued
<1>2. PICK q \in [1..n -> Calls] : Queue(n, q)
  BY <1>1
<1>3. c \in Present
  BY DEF Enter, Present
<1>4. PICK k \in 1..n : q[k] = c
  BY <1>2, <1>3 DEF Queue
<1>5. k = 1
  <2> SUFFICES ASSUME k \in 2..n PROVE FALSE
    OBVIOUS
  <2>1. after[c] = q[k-1] /\ k-1 \in 1..n
    BY <1>2, <1>4 DEF Queue
  <2>2. q[k-1] \in Present /\ q[k-1] \in Calls
    BY <2>1, <1>2 DEF Queue
  <2> QED
    BY <2>1, <2>2 DEF Enter, Present
<1>6. Present' = Present
  BY DEF Enter, Present, TypeOK
<1>7. ASSUME NEW i \in 2..n PROVE after'[q[i]] = q[i-1] /\ pc'[q[i]] = "wait"
  <2>1. pc[q[i]] = "wait" /\ after[q[i]] = q[i-1] /\ q[i] \in Calls
    BY <1>2 DEF Queue
  <2>2. q[i] # c
    BY <1>2, <1>4, <1>5 DEF Queue
  <2> QED
    BY <2>1, <2>2 DEF Enter, TypeOK
<1>8. Queue(n, q)'
  BY <1>2, <1>6, <1>7 DEF Queue, Enter
<1>9. \A d \in Calls : pc[d] \notin Inside
  <2> SUFFICES ASSUME NEW d \in Calls, pc[d] \in Inside PROVE FALSE
    OBVIOUS
  <2>1. d = c
    BY <1>2, <1>4, <1>5, WorkerFirst
  <2> QED
    BY <2>1 DEF Enter, Inside, Switching
<1> QED
  BY <1>8, <1>9 DEF Queued

LEMMA LeaveQueues ==
  ASSUME TypeOK, Queued, NEW c \in Calls, Leave(c)
  PROVE  Queued'
<1>1. PICK n \in Nat : \E q \in [1..n -> Calls] : Queue(n, q)
  BY DEF Queued
<1>2. PICK q \in [1..n -> Calls] : Queue(n, q)
  BY <1>1
<1>3. n # 0 /\ c = q[1]
  BY <1>2, WorkerFirst DEF Leave, Inside, Switching
<1> DEFINE m == n-1
           r == [i \in 1..m |-> q[i+1]]
<1>4. m \in Nat /\ \A i \in 1..m : i+1 \in 2..n /\ i+1 \in 1..n
  BY <1>1, <1>3
<1>5. r \in [1..m -> Calls] /\ \A i \in 1..m : r[i] = q[i+1]
  BY <1>2, <1>4 DEF Queue
<1>6. \A i, j \in 1..n : q[i] = q[j] => i = j
  BY <1>2 DEF Queue
<1>7. \A i, j \in 1..m : r[i] = r[j] => i = j
  BY <1>4, <1>5, <1>6
<1>8. Present' = Present \ {c}
  BY DEF Leave, Present, TypeOK
<1>9. \A d \in Calls : d \in Present' <=> \E i \in 1..m : r[i] = d
  <2> SUFFICES ASSUME NEW d \in Calls PROVE d \in Present' <=> \E i \in 1..m : r[i] = d
    OBVIOUS
  <2>1. d \in Present <=> \E i \in 1..n : q[i] = d
    BY <1>2 DEF Queue
  <2>2. ASSUME NEW i \in 1..n, q[i] = d, d # c PROVE \E j \in 1..m : r[j] = d
    <3>1. i-1 \in 1..m /\ (i-1)+1 = i
      BY <1>1, <1>3, <2>2
    <3> QED
      BY <3>1, <2>2, <1>5
  <2>3. ASSUME NEW j \in 1..m, r[j] = d PROVE d # c /\ \E i \in 1..n : q[i] = d
    <3>1. j+1 \in 1..n /\ j+1 # 1 /\ 1 \in 1..n
      BY <1>4, <1>1, <1>3
    <3> QED
      BY <3>1, <2>3, <1>3, <1>5, <1>6
  <2> QED
    BY <1>8, <2>1, <2>2, <2>3
<1>10. tail' = IF m = 0 THEN Nobody ELSE r[m]
  <2>1. tail = q[n]
    BY <1>2, <1>3 DEF Queue
  <2>2. CASE m = 0
    <3>1. n = 1
      BY <1>1, <2>2
    <3> QED
      BY <2>1, <2>2, <3>1, <1>3 DEF Leave
  <2>3. CASE m # 0
    <3>1. m \in 1..m /\ m+1 = n /\ n \in 1..n /\ 1 \in 1..n /\ n # 1
      BY <1>1, <1>4, <2>3
    <3>2. r[m] = q[n] /\ q[n] # c
      BY <3>1, <1>3, <1>5, <1>6
    <3> QED
      BY <2>1, <2>3, <3>2 DEF Leave
  <2> QED
    BY <2>2, <2>3
<1>11. ASSUME NEW i \in 2..m PROVE after'[r[i]] = r[i-1] /\ pc'[r[i]] = "wait"
  <2>1. i \in 1..m /\ i-1 \in 1..m /\ i+1 \in 2..n /\ (i+1)-1 = i /\ (i-1)+1 = i
    BY <1>1, <1>4
  <2>2. pc[q[i+1]] = "wait" /\ after[q[i+1]] = q[(i+1)-1] /\ q[i+1] \in Calls
    BY <2>1, <1>2 DEF Queue
  <2>3. r[i] = q[i+1] /\ r[i-1] = q[i]
    BY <2>1, <1>5
  <2>4. q[i+1] # c
    BY <2>2 DEF Leave
  <2> QED
    BY <2>1, <2>2, <2>3, <2>4 DEF Leave, TypeOK
<1>12. Queue(m, r)'
  BY <1>4, <1>5, <1>7, <1>9, <1>10, <1>11 DEF Queue
<1> QED
  BY <1>4, <1>5, <1>12 DEF Queued

LEMMA EmptyQueue ==
  ASSUME tail = Nobody, Present = {}
  PROVE  Queued
<1> DEFINE q == [i \in 1..0 |-> Nobody]
<1>1. q \in [1..0 -> Calls] /\ 1..0 = {} /\ 2..0 = {}
  OBVIOUS
<1>2. Queue(0, q)
  BY <1>1 DEF Queue
<1> QED
  BY <1>1, <1>2 DEF Queued

-----------------------------------------------------------------------------
LEMMA Initially == Init => IInv
<1> SUFFICES ASSUME Init PROVE IInv
  OBVIOUS
<1>1. TypeOK
  BY DEF Init, TypeOK, Prefs, Values, Inside, Switching
<1>2. Queued
  BY EmptyQueue DEF Init, Present
<1>3. \A c \in Calls : Shaped(c) /\ Followed(c)
  BY DEF Init, Shaped, Followed, Inside, Switching
<1> QED
  BY <1>1, <1>2, <1>3 DEF IInv

\* What a step of the one at work has to establish.
LEMMA Work ==
  ASSUME IInv, NEW c \in Calls, pc[c] \in Inside,
         NEW s \in Inside, pc' = [pc EXCEPT ![c] = s], after' = after, tail' = tail,
         \A d \in Calls : d # c => todo'[d] = todo[d] /\ undo'[d] = undo[d],
         Shaped(c)', Followed(c)'
  PROVE  Queued' /\ \A d \in Calls : Shaped(d)' /\ Followed(d)'
<1>0. TypeOK /\ Queued /\ \A d \in Calls : Shaped(d) /\ Followed(d)
  BY DEF IInv
<1>1. Queued'
  BY <1>0, QueueKept
<1>2. ASSUME NEW d \in Calls, d # c PROVE Shaped(d)' /\ Followed(d)'
  <2>1. pc'[d] = pc[d] /\ pc[d] \notin Inside
    BY <1>0, <1>2, OneWorker DEF TypeOK
  <2> QED
    BY <1>0, <1>2, <2>1 DEF Shaped, Followed
<1> QED
  BY <1>1, <1>2

LEMMA ReadStep ==
  ASSUME IInv, NEW c \in Calls, Read(c)
  PROVE  Queued' /\ \A d \in Calls : Shaped(d)' /\ Followed(d)'
<1>0. TypeOK /\ Shaped(c) /\ Followed(c) /\ pc[c] = "read" /\ pc[c] \in Inside
  BY DEF IInv, Read, Inside, Switching
<1> DEFINE p == First(c)
<1>1. p \in Prefs /\ p \notin undo[c] /\ p \in todo[c]
  BY <1>0 DEF Shaped, First, Prefs, Switching
<1>2. old'[c][p] = pref[p] /\ \A r \in Prefs \ {p} : old'[c][r] = old[c][r]
  BY <1>0, <1>1 DEF Read, TypeOK
<1>3. pref' = pref /\ found' = found /\ blame' = blame /\ after' = after /\ tail' = tail
  BY DEF Read
<1>4. undo[c] \subseteq Prefs
  BY <1>0 DEF TypeOK
<1>5. CASE pref[p] = SetOf[c] /\ Switched(c)
  <2> DEFINE s == IF todo[c] = {p} THEN "run" ELSE "read"
  <2>1. s \in Inside /\ pc' = [pc EXCEPT ![c] = s]
    BY <1>5 DEF Switched, Inside, Switching
  <2>2. pc'[c] = s /\ todo'[c] = todo[c] \ {p} /\ undo'[c] = undo[c] \cup {p}
    BY <1>0, <1>5 DEF Switched, TypeOK
  <2>3. \A d \in Calls : d # c => todo'[d] = todo[d] /\ undo'[d] = undo[d]
    BY <1>0, <1>5 DEF Switched, TypeOK
  <2>4. Shaped(c)'
    BY <1>0, <2>2 DEF Shaped, First, Prefs, Switching
  <2>5. Followed(c)'
    BY <1>0, <1>1, <1>2, <1>3, <1>4, <1>5, <2>2 DEF Followed, Inside, Switching
  <2> QED
    BY <1>0, <1>3, <2>1, <2>3, <2>4, <2>5, Work
<1>6. CASE pc' = [pc EXCEPT ![c] = "write"] /\ UNCHANGED <<todo, undo>>
  <2>1. "write" \in Inside /\ pc'[c] = "write"
    BY <1>0, <1>6 DEF TypeOK, Inside, Switching
  <2>2. Shaped(c)'
    BY <1>0, <1>6, <2>1 DEF Shaped, Switching
  <2>3. First(c)' = p
    BY <1>6 DEF First
  <2>4. Followed(c)'
    BY <1>0, <1>1, <1>2, <1>3, <1>4, <1>6, <2>1, <2>3 DEF Followed, Switching
  <2> QED
    BY <1>0, <1>3, <1>6, <2>1, <2>2, <2>4, Work
<1> QED
  BY <1>5, <1>6 DEF Read

LEMMA WriteStep ==
  ASSUME IInv, NEW c \in Calls, Write(c)
  PROVE  Queued' /\ \A d \in Calls : Shaped(d)' /\ Followed(d)'
<1>0. TypeOK /\ Shaped(c) /\ Followed(c) /\ pc[c] = "write" /\ pc[c] \in Inside
  BY DEF IInv, Write, Inside, Switching
<1> DEFINE p == First(c)
           s == IF todo[c] = {p} THEN "run" ELSE "read"
<1>1. p \in Prefs /\ p \notin undo[c] /\ p \in todo[c]
  BY <1>0 DEF Shaped, First, Prefs, Switching
<1>2. pref'[p] = SetOf[c] /\ \A r \in Prefs \ {p} : pref'[r] = pref[r]
  BY <1>0, <1>1 DEF Write, TypeOK
<1>3. old' = old /\ found' = found /\ blame' = blame /\ after' = after /\ tail' = tail
  BY DEF Write
<1>4. undo[c] \subseteq Prefs
  BY <1>0 DEF TypeOK
<1>5. s \in Inside /\ pc' = [pc EXCEPT ![c] = s]
  BY DEF Write, Switched, Inside, Switching
<1>6. pc'[c] = s /\ todo'[c] = todo[c] \ {p} /\ undo'[c] = undo[c] \cup {p}
  BY <1>0 DEF Write, Switched, TypeOK
<1>7. \A d \in Calls : d # c => todo'[d] = todo[d] /\ undo'[d] = undo[d]
  BY <1>0 DEF Write, Switched, TypeOK
<1>8. Shaped(c)'
  BY <1>0, <1>6 DEF Shaped, First, Prefs, Switching
<1>9. Followed(c)'
  BY <1>0, <1>1, <1>2, <1>3, <1>4, <1>6 DEF Followed, Inside, Switching
<1> QED
  BY <1>0, <1>3, <1>5, <1>7, <1>8, <1>9, Work

LEMMA FailStep ==
  ASSUME IInv, NEW c \in Calls, SwitchFails(c)
  PROVE  Queued' /\ \A d \in Calls : Shaped(d)' /\ Followed(d)'
<1>0. TypeOK /\ Shaped(c) /\ Followed(c) /\ pc[c] \in Switching /\ pc[c] \in Inside
  BY DEF IInv, SwitchFails, Inside
<1> DEFINE s == IF undo[c] = {} THEN "leave" ELSE "restore"
<1>1. s \in Inside /\ pc' = [pc EXCEPT ![c] = s] /\ pc'[c] = s
  BY <1>0 DEF SwitchFails, Inside, TypeOK
<1>2. UNCHANGED <<tail, after, todo, undo, old, found>>
  BY DEF SwitchFails
<1>3. Shaped(c)'
  BY <1>0, <1>1, <1>2 DEF Shaped, Switching, Prefs
<1>4. Followed(c)'
  <2>1. CASE UNCHANGED <<pref, blame>>
    BY <1>0, <1>1, <1>2, <2>1 DEF Followed, Switching
  <2>2. CASE blame' = [blame EXCEPT ![c] = TRUE]
    <3>1. blame'[c] = TRUE
      BY <1>0, <2>2 DEF TypeOK
    <3> QED
      BY <3>1 DEF Followed
  <2> QED
    BY <2>1, <2>2 DEF SwitchFails
<1> QED
  BY <1>0, <1>1, <1>2, <1>3, <1>4, Work

LEMMA RunStep ==
  ASSUME IInv, NEW c \in Calls, Run(c)
  PROVE  Queued' /\ \A d \in Calls : Shaped(d)' /\ Followed(d)'
<1>0. TypeOK /\ Shaped(c) /\ Followed(c) /\ pc[c] = "run" /\ pc[c] \in Inside
  BY DEF IInv, Run, Inside
<1>1. "restore" \in Inside /\ pc' = [pc EXCEPT ![c] = "restore"] /\ pc'[c] = "restore"
  BY <1>0 DEF Run, Inside, TypeOK
<1>2. UNCHANGED <<pref, tail, after, todo, undo, old, found, blame>>
  BY DEF Run
<1>3. Shaped(c)'
  BY <1>0, <1>1, <1>2 DEF Shaped, Switching
<1>4. Followed(c)'
  BY <1>0, <1>1, <1>2 DEF Followed, Switching
<1> QED
  BY <1>0, <1>1, <1>2, <1>3, <1>4, Work

LEMMA RestoreStep ==
  ASSUME IInv, NEW c \in Calls, Restore(c)
  PROVE  Queued' /\ \A d \in Calls : Shaped(d)' /\ Followed(d)'
<1>0. TypeOK /\ Shaped(c) /\ Followed(c) /\ pc[c] = "restore" /\ pc[c] \in Inside
  BY DEF IInv, Restore, Inside
<1> DEFINE p == Last(c)
           s == IF undo[c] = {p} THEN "leave" ELSE "restore"
<1>1. p \in Prefs /\ p \in undo[c]
  BY <1>0 DEF Shaped, Last, Prefs
<1>2. s \in Inside /\ pc' = [pc EXCEPT ![c] = s] /\ pc'[c] = s
  BY <1>0 DEF Restore, Inside, TypeOK
<1>3. UNCHANGED <<tail, after, todo, old, found>>
  BY DEF Restore
<1>4. undo'[c] = undo[c] \ {p} /\ \A d \in Calls : d # c => undo'[d] = undo[d]
  BY <1>0 DEF Restore, TypeOK
<1>5. Shaped(c)'
  BY <1>0, <1>2, <1>4 DEF Shaped, Last, Switching, Prefs
<1>6. Followed(c)'
  <2>1. CASE blame' = [blame EXCEPT ![c] = TRUE]
    <3>1. blame'[c] = TRUE
      BY <1>0, <2>1 DEF TypeOK
    <3> QED
      BY <3>1 DEF Followed
  <2>2. CASE pref' = [pref EXCEPT ![p] = old[c][p]] /\ blame' = blame
    <3>1. pref'[p] = old[c][p] /\ \A r \in Prefs \ {p} : pref'[r] = pref[r]
      BY <1>0, <1>1, <2>2 DEF TypeOK
    <3> QED
      BY <1>0, <1>1, <1>2, <1>3, <1>4, <2>2, <3>1 DEF Followed, Switching
  <2> QED
    BY <2>1, <2>2 DEF Restore
<1> QED
  BY <1>0, <1>2, <1>3, <1>4, <1>5, <1>6, Work

\* The other steps: coming and going, the user and the end of the process.
LEMMA ComeStep ==
  ASSUME IInv, NEW c \in Calls, Come(c)
  PROVE  Queued' /\ \A d \in Calls : Shaped(d)' /\ Followed(d)'
<1>0. TypeOK /\ Queued /\ \A d \in Calls : Shaped(d) /\ Followed(d)
  BY DEF IInv
<1>1. Queued'
  BY <1>0, ComeQueues
<1>2. pc[c] = "idle" /\ pc'[c] = "wait" /\ \A d \in Calls : d # c => pc'[d] = pc[d]
  BY <1>0 DEF Come, TypeOK
<1>3. UNCHANGED <<pref, todo, undo, old, found, blame>>
  BY DEF Come
<1>4. ASSUME NEW d \in Calls PROVE Shaped(d)' /\ Followed(d)'
  <2>1. First(d)' = First(d)
    BY <1>3 DEF First
  <2> QED
    BY <1>0, <1>2, <1>3, <2>1 DEF Shaped, Followed, Inside, Switching
<1> QED
  BY <1>1, <1>4

LEMMA EnterStep ==
  ASSUME IInv, NEW c \in Calls, Enter(c)
  PROVE  Queued' /\ \A d \in Calls : Shaped(d)' /\ Followed(d)'
<1>0. TypeOK /\ \A d \in Calls : Shaped(d) /\ Followed(d)
  BY DEF IInv
<1>1. Queued' /\ \A d \in Calls : pc[d] \notin Inside
  BY EnterQueues DEF IInv
<1>2. pc[c] = "wait" /\ pc'[c] = "read" /\ \A d \in Calls : d # c => pc'[d] = pc[d]
  BY <1>0 DEF Enter, TypeOK
<1>3. /\ UNCHANGED <<pref, undo, old, blame>>
      /\ found'[c] = pref
      /\ todo'[c] = IF c \in Scoped THEN Prefs ELSE {"user"}
      /\ \A d \in Calls : d # c => todo'[d] = todo[d]
  BY <1>0 DEF Enter, TypeOK
<1>4. undo[c] = {}
  BY <1>0, <1>2 DEF Shaped
<1>5. Shaped(c)' /\ Followed(c)'
  BY <1>2, <1>3, <1>4 DEF Shaped, Followed, Switching
<1>6. ASSUME NEW d \in Calls, d # c PROVE Shaped(d)' /\ Followed(d)'
  BY <1>0, <1>1, <1>2, <1>3, <1>6 DEF Shaped, Followed
<1> QED
  BY <1>1, <1>5, <1>6

LEMMA LeaveStep ==
  ASSUME IInv, NEW c \in Calls, Leave(c)
  PROVE  Queued' /\ \A d \in Calls : Shaped(d)' /\ Followed(d)'
<1>0. TypeOK /\ Queued /\ \A d \in Calls : Shaped(d) /\ Followed(d)
  BY DEF IInv
<1>1. Queued'
  BY <1>0, LeaveQueues
<1>2. pc[c] = "leave" /\ pc'[c] = "done" /\ \A d \in Calls : d # c => pc'[d] = pc[d]
  BY <1>0 DEF Leave, TypeOK
<1>3. UNCHANGED <<pref, todo, undo, old, found, blame>>
  BY DEF Leave
<1>4. ASSUME NEW d \in Calls PROVE Shaped(d)' /\ Followed(d)'
  <2>1. First(d)' = First(d)
    BY <1>3 DEF First
  <2> QED
    BY <1>0, <1>2, <1>3, <2>1 DEF Shaped, Followed, Inside, Switching
<1> QED
  BY <1>1, <1>4

LEMMA ChooseStep ==
  ASSUME IInv, NEW p \in Prefs, NEW v \in OwnSets, Choose(p, v)
  PROVE  Queued' /\ \A d \in Calls : Shaped(d)' /\ Followed(d)'
<1>1. UNCHANGED <<tail, pc, after, todo, undo, old, found>>
  BY DEF Choose
<1>2. Queued'
  <2>1. PICK n \in Nat : \E q \in [1..n -> Calls] : Queue(n, q)
    BY DEF IInv, Queued
  <2>2. PICK q \in [1..n -> Calls] : Queue(n, q)
    BY <2>1
  <2>3. Queue(n, q)'
    BY <1>1, <2>2 DEF Queue, Present
  <2> QED
    BY <2>3 DEF Queued
<1>3. \A d \in Calls : Shaped(d)'
  BY <1>1 DEF IInv, Shaped
<1>4. \A d \in Calls : Followed(d)'
  BY <1>1 DEF Choose, Followed
<1> QED
  BY <1>2, <1>3, <1>4

LEMMA CrashStep ==
  ASSUME IInv, Crash
  PROVE  Queued' /\ \A d \in Calls : Shaped(d)' /\ Followed(d)'
<1>1. \A d \in Calls : pc'[d] \in {"idle", "done"} /\ undo'[d] = {}
  BY DEF Crash
<1>2. Queued'
  <2>1. tail' = Nobody /\ Present' = {}
    BY <1>1 DEF Crash, Present
  <2> DEFINE q == [i \in 1..0 |-> Nobody]
  <2>2. q \in [1..0 -> Calls] /\ 1..0 = {} /\ 2..0 = {}
    OBVIOUS
  <2>3. Queue(0, q)'
    BY <2>1, <2>2 DEF Queue
  <2> HIDE DEF q
  <2> QED
    BY <2>2, <2>3 DEF Queued
<1>3. \A d \in Calls : Shaped(d)' /\ Followed(d)'
  BY <1>1 DEF Shaped, Followed, Inside, Switching
<1> QED
  BY <1>2, <1>3

LEMMA Inductive == IInv /\ TypeOK' /\ [Next]_vars => IInv'
<1> SUFFICES ASSUME IInv, [Next]_vars
             PROVE  Queued' /\ \A c \in Calls : Shaped(c)' /\ Followed(c)'
  BY DEF IInv
<1>1. CASE UNCHANGED vars
  BY <1>1 DEF vars, IInv, Queued, Queue, Present, Shaped, Followed, First
<1>2. CASE \E c \in Calls : Come(c) \/ Enter(c) \/ Leave(c)
  BY <1>2, ComeStep, EnterStep, LeaveStep
<1>3. CASE \E c \in Calls : Read(c) \/ Write(c) \/ SwitchFails(c) \/ Run(c) \/ Restore(c)
  BY <1>3, ReadStep, WriteStep, FailStep, RunStep, RestoreStep
<1>4. CASE Crash \/ \E p \in Prefs, v \in OwnSets : Choose(p, v)
  BY <1>4, CrashStep, ChooseStep
<1> QED
  BY <1>1, <1>2, <1>3, <1>4 DEF Next, Step

LEMMA Invariance == Spec => []IInv
<1>1. IInv => TypeOK
  BY DEF IInv
<1> QED
  BY <1>1, Initially, Inductive, TypeCorrect, PTL DEF Spec

-----------------------------------------------------------------------------
\* A bound write is sent while the preferences point at its set.
THEOREM SetKept == Spec => []LandsInItsSet
<1>1. IInv => LandsInItsSet
  BY DEF IInv, LandsInItsSet, Shaped, Followed, Inside, Prefs
<1> QED
  BY <1>1, Invariance, PTL

\* A call leaves the preferences as it found them, the named cases excepted.
THEOREM Restored == Spec => []LeavesAsFound
<1>1. IInv => LeavesAsFound
  <2> SUFFICES ASSUME IInv, NEW c \in Calls, pc[c] = "leave", ~blame[c]
               PROVE  pref = found[c]
    BY DEF LeavesAsFound
  <2>1. undo[c] = {} /\ \A p \in Prefs \ undo[c] : pref[p] = found[c][p]
    BY DEF IInv, Shaped, Followed, Inside
  <2>2. pref \in [Prefs -> Values] /\ found[c] \in [Prefs -> Values]
    BY DEF IInv, TypeOK
  <2> QED
    BY <2>1, <2>2
<1> QED
  BY <1>1, Invariance, PTL
=============================================================================
