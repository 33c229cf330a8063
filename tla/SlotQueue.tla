------------------------------ MODULE SlotQueue ------------------------------
(***************************************************************************)
(* The per-host counting semaphore with a bounded, timed wait line         *)
(* (src/src/core/http-limits.ts, withSlot / release / drainSlots).         *)
(*                                                                         *)
(* One host is modelled: the table of the code holds one independent Slot  *)
(* per host, and a drain empties all of them.  A drain clears the table,   *)
(* so that later calls find a fresh Slot while the calls in flight keep    *)
(* the old, detached one: a Slot is a generation number here.              *)
(***************************************************************************)
EXTENDS Naturals, FiniteSets, Sequences, SequencesExt

CONSTANTS
  Callers,    \* calls of withSlot for the host
  Limits,     \* the values SN_MAX_CONCURRENT may be given
  MaxQueue,   \* SN_MAX_QUEUE
  MaxDrains   \* bound: how often the table is drained

ASSUME CallersFinite == IsFiniteSet(Callers)
ASSUME LimitsAssumption ==
  /\ Limits \subseteq Nat \ {0}
  /\ \E l \in Limits : \A m \in Limits : l <= m
  /\ \E l \in Limits : \A m \in Limits : m <= l
ASSUME BoundsNatural == MaxQueue \in Nat /\ MaxDrains \in Nat

Gens == 0 .. MaxDrains

VARIABLES
  pc,       \* where each caller is in withSlot
  limit,    \* the limit currently configured (getMaxConcurrent)
  limitOf,  \* the limit each caller read when it entered
  gen,      \* the Slot the table holds now
  genOf,    \* the Slot each caller works on
  active,   \* Slot.active of each generation
  waiters   \* Slot.waiters of the current generation (a drained one has none)

slotVars == <<pc, limit, limitOf, gen, genOf, active, waiters>>

\* "idle" and "refused": outside withSlot, after a normal end and after an
\* error that kept fn from running.  "granted": the place was handed over and
\* the awaiting continuation has not run yet.  "running": fn is in progress.
Outside == {"idle", "refused"}
Holding == {"granted", "running"}
Status  == Outside \cup Holding \cup {"waiting", "bypass"}

SlotInit ==
  /\ pc = [c \in Callers |-> "idle"]
  /\ limit \in Limits
  /\ limitOf = [c \in Callers |-> limit]
  /\ gen = 0
  /\ genOf = [c \in Callers |-> 0]
  /\ active = [g \in Gens |-> 0]
  /\ waiters = <<>>

------------------------------------------------------------------------------
(* Entering withSlot. *)

\* Diagnostics skip the limiter altogether.
EnterBypass(c) ==
  /\ pc[c] \in Outside
  /\ pc' = [pc EXCEPT ![c] = "bypass"]
  /\ UNCHANGED <<limit, limitOf, gen, genOf, active, waiters>>

FinishBypass(c) ==
  /\ pc[c] = "bypass"
  /\ pc' = [pc EXCEPT ![c] = "idle"]
  /\ UNCHANGED <<limit, limitOf, gen, genOf, active, waiters>>

\* Mutant: an off-by-one in the capacity test.
Take_OffByOne(c) ==
  /\ pc[c] \in Outside
  /\ active[gen] <= limit
  /\ pc' = [pc EXCEPT ![c] = "running"]
  /\ limitOf' = [limitOf EXCEPT ![c] = limit]
  /\ genOf' = [genOf EXCEPT ![c] = gen]
  /\ active' = [active EXCEPT ![gen] = @ + 1]
  /\ UNCHANGED <<limit, gen, waiters>>

\* There is room: take a place and run fn in the same synchronous stretch.
Take(c) ==
  /\ pc[c] \in Outside
  /\ active[gen] < limit
  /\ pc' = [pc EXCEPT ![c] = "running"]
  /\ limitOf' = [limitOf EXCEPT ![c] = limit]
  /\ genOf' = [genOf EXCEPT ![c] = gen]
  /\ active' = [active EXCEPT ![gen] = @ + 1]
  /\ UNCHANGED <<limit, gen, waiters>>

\* No room: refuse when the line is full, or when the caller's signal has
\* aborted already (tested after the line's length).
Refuse(c) ==
  /\ pc[c] \in Outside
  /\ active[gen] >= limit
  /\ pc' = [pc EXCEPT ![c] = "refused"]
  /\ limitOf' = [limitOf EXCEPT ![c] = limit]
  /\ genOf' = [genOf EXCEPT ![c] = gen]
  /\ UNCHANGED <<limit, gen, active, waiters>>

\* No room, and the line has some: wait at its end.
Join(c) ==
  /\ pc[c] \in Outside
  /\ active[gen] >= limit
  /\ Len(waiters) < MaxQueue
  /\ pc' = [pc EXCEPT ![c] = "waiting"]
  /\ limitOf' = [limitOf EXCEPT ![c] = limit]
  /\ genOf' = [genOf EXCEPT ![c] = gen]
  /\ waiters' = Append(waiters, c)
  /\ UNCHANGED <<limit, gen, active>>

------------------------------------------------------------------------------
(* Leaving the line, and running fn. *)

\* leave(): drop c from wherever it stands in the line.
WithoutCaller(s, c) ==
  LET i == CHOOSE i \in DOMAIN s : s[i] = c
  IN  RemoveAt(s, i)

\* The queue timer fires, or the caller's signal aborts: leave and reject.
GiveUp(c) ==
  /\ pc[c] = "waiting"
  /\ pc' = [pc EXCEPT ![c] = "refused"]
  /\ waiters' = WithoutCaller(waiters, c)
  /\ UNCHANGED <<limit, limitOf, gen, genOf, active>>

\* The continuation of a granted call runs fn.
Resume(c) ==
  /\ pc[c] = "granted"
  /\ pc' = [pc EXCEPT ![c] = "running"]
  /\ UNCHANGED <<limit, limitOf, gen, genOf, active, waiters>>

\* Whose turn it is when c releases a place of its generation: the head of the
\* line, if there is one, if the place counts against the limit c read, and if
\* the line is that of c's own Slot.
HandsOver(c) ==
  /\ active[genOf[c]] - 1 < limitOf[c]
  /\ genOf[c] = gen
  /\ waiters # <<>>

\* Mutant: the place is freed and the line not looked at.
Finish_NoHandOver(c) ==
  /\ pc[c] = "running"
  /\ pc' = [pc EXCEPT ![c] = "idle"]
  /\ active' = [active EXCEPT ![genOf[c]] = @ - 1]
  /\ UNCHANGED <<limit, limitOf, gen, genOf, waiters>>

\* Mutant: the hand-over grants the waiter and does not count it again.
Finish_ForgetsGranted(c) ==
  /\ pc[c] = "running"
  /\ active' = [active EXCEPT ![genOf[c]] = @ - 1]
  /\ IF HandsOver(c)
       THEN /\ pc' = [pc EXCEPT ![c] = "idle", ![Head(waiters)] = "granted"]
            /\ waiters' = Tail(waiters)
       ELSE /\ pc' = [pc EXCEPT ![c] = "idle"]
            /\ UNCHANGED waiters
  /\ UNCHANGED <<limit, limitOf, gen, genOf>>

\* Mutant: the place goes to the newest waiter.
Finish_LastInLine(c) ==
  /\ pc[c] = "running"
  /\ IF HandsOver(c)
       THEN /\ pc' = [pc EXCEPT ![c] = "idle", ![Last(waiters)] = "granted"]
            /\ waiters' = Front(waiters)
            /\ UNCHANGED active
       ELSE /\ pc' = [pc EXCEPT ![c] = "idle"]
            /\ active' = [active EXCEPT ![genOf[c]] = @ - 1]
            /\ UNCHANGED waiters
  /\ UNCHANGED <<limit, limitOf, gen, genOf>>

\* fn ended, by value or by error: the finally block releases the place on the
\* Slot it was taken from, handing it straight to the next waiter.
Finish(c) ==
  /\ pc[c] = "running"
  /\ IF HandsOver(c)
       THEN /\ pc' = [pc EXCEPT ![c] = "idle", ![Head(waiters)] = "granted"]
            /\ waiters' = Tail(waiters)
            /\ UNCHANGED active
       ELSE /\ pc' = [pc EXCEPT ![c] = "idle"]
            /\ active' = [active EXCEPT ![genOf[c]] = @ - 1]
            /\ UNCHANGED waiters
  /\ UNCHANGED <<limit, limitOf, gen, genOf>>

------------------------------------------------------------------------------
(* The table as a whole. *)

\* drainSlots: every waiter is rejected, and the table forgets the Slot; calls
\* in flight are not interrupted and keep it.
Drain ==
  /\ gen < MaxDrains
  /\ pc' = [c \in Callers |-> IF pc[c] = "waiting" THEN "refused" ELSE pc[c]]
  /\ waiters' = <<>>
  /\ gen' = gen + 1
  /\ UNCHANGED <<limit, limitOf, genOf, active>>

\* The setting is read on every call, so a change bites on the next one.
Reconfigure ==
  /\ limit' \in Limits \ {limit}
  /\ UNCHANGED <<pc, limitOf, gen, genOf, active, waiters>>

Enter(c) == EnterBypass(c) \/ Take(c) \/ Refuse(c) \/ Join(c)

SlotNext ==
  \/ \E c \in Callers :
       \/ Enter(c) \/ FinishBypass(c)
       \/ GiveUp(c) \/ Resume(c) \/ Finish(c)
  \/ Drain
  \/ Reconfigure

SlotSpec == SlotInit /\ [][SlotNext]_slotVars

\* A microtask that is due runs, and fn ends: every attempt has a timeout.
SlotFairness == \A c \in Callers : WF_slotVars(Resume(c)) /\ WF_slotVars(Finish(c))

SlotFairSpec == SlotSpec /\ SlotFairness

------------------------------------------------------------------------------
(* Properties. *)

\* The callers that hold a place on the Slot of generation g.
Holders(g) == {c \in Callers : pc[c] \in Holding /\ genOf[c] = g}

InLine == {c \in Callers : pc[c] = "waiting"}

\* The variables of a SlotQueue have their types.
SlotTypeOK ==
  /\ pc \in [Callers -> Status]
  /\ limit \in Limits
  /\ limitOf \in [Callers -> Limits]
  /\ gen \in Gens
  /\ genOf \in [Callers -> Gens]
  /\ active \in [Gens -> Nat]
  /\ waiters \in Seq(Callers)

\* Slot.active is the number of calls that hold a place on that Slot, whatever
\* mix of hand-overs, give-ups, drains and limit changes led here: a place is
\* neither leaked nor released twice.
PlacesAccounted == \A g \in Gens : active[g] = Cardinality(Holders(g))

\* The line holds exactly the calls that wait, each once, and all of them wait
\* on the Slot of the table: no timer, abort or drain leaves a dead waiter that
\* a later release would hand its place to.
LineIsTheWaiting ==
  /\ InLine = ToSet(waiters)
  /\ \A i, j \in DOMAIN waiters : waiters[i] = waiters[j] => i = j
  /\ \A c \in InLine : genOf[c] = gen

Cap == CHOOSE l \in Limits : \A m \in Limits : m <= l

\* No Slot ever serves more calls at once than the largest limit configured,
\* although every call releases under the limit it read on entry.
LimitRespected == \A g \in Gens : Cardinality(Holders(g)) <= Cap

Floor == CHOOSE l \in Limits : \A m \in Limits : l <= m

\* While somebody waits, as many calls are being served as the smallest limit
\* configured allows, and each of them will hand over: lowering or raising the
\* limit under the waiters' feet neither strands them nor idles a place that
\* every setting grants.
NobodyStranded ==
  waiters # <<>> => Holders(gen) # {} /\ Cardinality(Holders(gen)) >= Floor

\* What the callers of withSlot rely on in every state: places are neither lost
\* nor given twice, never more than the limit, and whoever waits is behind enough
\* holders that will hand over.
PlacesKept == PlacesAccounted /\ LimitRespected /\ NobodyStranded

\* Places are given in the order of arrival: a call gets one only when nobody,
\* or itself, is first in line.  The one exception is a newcomer that finds a
\* place the raised limit has opened while the line, which only a release
\* looks at, has not moved.
FirstComeFirstServed ==
  [][\A c \in Callers :
       pc[c] \notin Holding /\ pc'[c] \in Holding
         => \/ waiters = <<>> \/ Head(waiters) = c
            \/ pc[c] # "waiting" /\ limit > Floor]_slotVars

\* Every call that waits is served or refused, even if no timer ever fires.
WaitEnds == \A c \in Callers : pc[c] = "waiting" ~> pc[c] # "waiting"

\* The limiter implements the service its callers rely on; the places on a
\* detached Slot are no longer the table's.
Service == INSTANCE SlotService WITH holding <- Holders(gen), line <- InLine

ImplementsService == Service!Spec
==============================================================================
