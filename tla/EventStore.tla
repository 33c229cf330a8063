----------------------------- MODULE EventStore -----------------------------
(***************************************************************************)
(* The event store of one HTTP session (src/src/mcp/event-store.ts): a     *)
(* ring of the last events of all its SSE streams, replayed to clients     *)
(* that come back with a Last-Event-ID.                                    *)
(*                                                                         *)
(* Events are named by their sequence numbers, which are also their ids.   *)
(* events.push and events.shift keep the array equal to the run of numbers *)
(* dropped + 1 .. seq; element i (from 0) is event dropped + 1 + i.        *)
(***************************************************************************)
EXTENDS Naturals, Sequences, FiniteSets, FiniteSetsExt

CONSTANTS
  Streams,
  Sizes,      \* sizes an event can have
  Replays,    \* reconnections, one replay each
  MaxEvents,  \* EVENT_STORE_MAX_EVENTS
  MaxBytes,   \* EVENT_STORE_MAX_BYTES
  MaxSeq      \* bound: events stored in a session

ASSUME StreamsAssumption == Streams # {}
ASSUME SizesAssumption == Sizes \subseteq Nat /\ Sizes # {}
ASSUME LimitsAssumption == MaxEvents \in Nat \ {0} /\ MaxBytes \in Nat /\ MaxSeq \in Nat

VARIABLES
  seq,      \* the last number given out
  dropped,  \* how many events were shifted out
  bytes,    \* the running total
  streamOf, \* the stream of each event stored so far
  sizeOf,   \* its serialized size
  real,     \* it is a message, not the SDK's priming event
  \* each replay
  at,       \* "idle", "sending" (suspended in send), "done" or "refused"
  last,     \* the event the client saw last
  next,     \* the iterator's position in the array
  sent,     \* what the replay sent, in order
  \* history of each replay
  until,    \* seq when it began
  quiet     \* nothing was shifted out while it was suspended

eventVars  == <<streamOf, sizeOf, real>>
replayVars == <<at, last, next, sent, until, quiet>>
storeVars       == <<seq, dropped, bytes, eventVars, replayVars>>

Events == 1 .. MaxSeq
Held   == dropped + 1 .. seq

StoreInit ==
  /\ seq = 0 /\ dropped = 0 /\ bytes = 0
  /\ streamOf = [e \in Events |-> CHOOSE s \in Streams : TRUE]
  /\ sizeOf = [e \in Events |-> CHOOSE b \in Sizes : TRUE]
  /\ real = [e \in Events |-> TRUE]
  /\ at = [r \in Replays |-> "idle"]
  /\ last = [r \in Replays |-> 0]
  /\ next = [r \in Replays |-> 0]
  /\ sent = [r \in Replays |-> <<>>]
  /\ until = [r \in Replays |-> 0]
  /\ quiet = [r \in Replays |-> TRUE]

------------------------------------------------------------------------------
(* Storing. *)

BytesOf(S) == FoldSet(LAMBDA e, n : sizeOf[e] + n, 0, S)

\* Within the limits; the newest event stays even when it alone is too large.
Fits(first, newest, total) ==
  first = newest \/ (newest - first + 1 <= MaxEvents /\ total <= MaxBytes)

\* Mutant: the bytes of evicted events stay in the total.
BytesAfter_Kept(size, gone) == bytes + size

\* The total once an event of this size is in and those gone are out.
BytesAfter(size, gone) == bytes + size - BytesOf(gone)

\* push, then shift until it fits: as few as it takes.
StoreEvent ==
  /\ seq < MaxSeq
  /\ seq' = seq + 1
  /\ \E stream \in Streams, size \in Sizes, message \in BOOLEAN :
       /\ streamOf' = [streamOf EXCEPT ![seq + 1] = stream]
       /\ sizeOf' = [sizeOf EXCEPT ![seq + 1] = size]
       /\ real' = [real EXCEPT ![seq + 1] = message]
       /\ LET total(first) == BytesAfter(size, dropped + 1 .. first - 1)
              fits(first) == Fits(first, seq + 1, total(first))
          IN \E first \in dropped + 1 .. seq + 1 :
               /\ fits(first)
               /\ \A earlier \in dropped + 1 .. first - 1 : ~fits(earlier)
               /\ dropped' = first - 1
               /\ bytes' = total(first)
  /\ quiet' = [r \in Replays |-> quiet[r] /\ (at[r] = "sending" => dropped' = dropped)]
  /\ UNCHANGED <<at, last, next, sent, until>>

------------------------------------------------------------------------------
(* Replaying. *)

\* A message of the same stream after the one the client saw last.
Due(e, from) == e > from /\ streamOf[e] = streamOf[from] /\ real[e]

\* Mutant: the loop starts over after every send.
Ahead_FromStart(r, from, i) == {e \in Held : Due(e, from)}

\* Mutant: the iterator stands one element too far.
Ahead_SkipsOne(r, from, i) == {e \in Held : e >= dropped + 2 + i /\ Due(e, from)}

\* What the loop will find at position i or after.
Ahead(r, from, i) == {e \in Held : e >= dropped + 1 + i /\ Due(e, from)}

\* The loop runs on, without a pause, to the next message it has to send.
SendNext(r, from, i) ==
  LET ahead == Ahead(r, from, i) IN
  IF ahead = {}
    THEN at' = [at EXCEPT ![r] = "done"] /\ UNCHANGED <<next, sent>>
    ELSE \E e \in ahead :
           /\ \A f \in ahead : e <= f
           /\ at' = [at EXCEPT ![r] = "sending"]
           /\ next' = [next EXCEPT ![r] = e - dropped]
           /\ sent' = [sent EXCEPT ![r] = Append(@, e)]

\* A client reconnects with the id of an event the ring still holds.
Reconnect(r) ==
  /\ at[r] = "idle"
  /\ \E e \in Held :
       /\ last' = [last EXCEPT ![r] = e]
       /\ SendNext(r, e, 0)
  /\ until' = [until EXCEPT ![r] = seq]
  /\ UNCHANGED <<seq, dropped, bytes, eventVars, quiet>>

\* The ring does not hold it any more: the SDK answers 400.
TooLate(r) ==
  /\ at[r] = "idle" /\ dropped > 0
  /\ at' = [at EXCEPT ![r] = "refused"]
  /\ UNCHANGED <<seq, dropped, bytes, eventVars, last, next, sent, until, quiet>>

\* send has resolved; the array may have moved under the iterator meanwhile.
Resume(r) ==
  /\ at[r] = "sending"
  /\ SendNext(r, last[r], next[r])
  /\ UNCHANGED <<seq, dropped, bytes, eventVars, last, until, quiet>>

StoreNext == StoreEvent \/ \E r \in Replays : Reconnect(r) \/ TooLate(r) \/ Resume(r)

StoreSpec == StoreInit /\ [][StoreNext]_storeVars

------------------------------------------------------------------------------
(* Properties. *)

StoreTypeOK ==
  /\ seq \in 0 .. MaxSeq /\ dropped \in 0 .. seq
  /\ bytes \in Nat
  /\ streamOf \in [Events -> Streams]
  /\ sizeOf \in [Events -> Sizes]
  /\ real \in [Events -> BOOLEAN]
  /\ at \in [Replays -> {"idle", "sending", "done", "refused"}]
  /\ last \in [Replays -> 0 .. seq]
  /\ next \in [Replays -> Nat]
  /\ sent \in [Replays -> Seq(1 .. seq)]
  /\ until \in [Replays -> 0 .. seq]
  /\ quiet \in [Replays -> BOOLEAN]

\* The ring never empties once something was stored, and is within both limits
\* unless its newest event alone is too large.
Bounded ==
  /\ seq > 0 => dropped < seq
  /\ seq - dropped <= MaxEvents
  /\ bytes <= MaxBytes \/ seq - dropped = 1

\* The running total is the sum of what is held, whatever was evicted: a drift
\* would shrink the ring for the rest of the session.
BytesAccounted == bytes = BytesOf(Held)

\* However the ring moves while a replay is suspended, it sends nothing twice,
\* nothing out of order, nothing the client has, and nothing of another stream.
SentOnceInOrder ==
  \A r \in Replays : \A j \in 1 .. Len(sent[r]) :
    /\ Due(sent[r][j], last[r])
    /\ \A i \in 1 .. j - 1 : sent[r][i] < sent[r][j]

WasSent(r, e) == \E i \in 1 .. Len(sent[r]) : sent[r][i] = e

\* A replay during which nothing is evicted is complete.
QuietReplayComplete ==
  \A r \in Replays : at[r] = "done" /\ quiet[r] =>
    \A e \in last[r] + 1 .. until[r] : Due(e, last[r]) => WasSent(r, e)

=============================================================================
