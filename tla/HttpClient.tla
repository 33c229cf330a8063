----------------------------- MODULE HttpClient -----------------------------
(***************************************************************************)
(* The request primitive rawRequest (src/src/core/http-util.ts) with the   *)
(* policy of snRequest (core/http.ts) and of the OAuth token request       *)
(* (core/auth.ts), for several requests to one host: circuit breaker,      *)
(* authorization per attempt, retry matrix, deadline, caller's abort and   *)
(* the one 401 replay.  The requests are the callers of the host's slot    *)
(* queue, module SlotQueue, whose variables and steps this one shares.     *)
(*                                                                         *)
(* Time is abstract: a deadline passes, a breaker window ends and a cached *)
(* token expires at any moment.  The instance is external: it answers as   *)
(* it likes, and an attempt that gets no answer may have been applied.     *)
(***************************************************************************)
EXTENDS SlotQueue

CONSTANTS
  Reads,         \* GET requests of the API
  Writes,        \* requests of the API that are not idempotent
  Diagnostics,   \* GET requests with bypassQueue (test_connection, doctor)
  Grants,        \* token requests, one per API request: there is no sharing
  GrantOf,       \* the token request of an API request, under OAuth
  Bearers,       \* requests of the API with a bearer token from a file
  MaxRetries,    \* SN_MAX_RETRIES
  Threshold      \* SN_BREAKER_THRESHOLD (0 turns the breaker off)

Api      == Reads \cup Writes \cup Diagnostics
Requests == Api \cup Grants

\* The callers of the host's slot queue are the requests; a token request is
\* none of the API.
ASSUME CallersAssumption == Callers = Requests /\ Grants \cap Api = {}
ASSUME GrantsAssumption == GrantOf \in [DOMAIN GrantOf -> Grants] /\ DOMAIN GrantOf \subseteq Api
ASSUME BearersAssumption == Bearers \subseteq Api
ASSUME PolicyAssumption == MaxRetries \in Nat /\ Threshold \in Nat

VARIABLES
  \* each request's run through rawRequestInner
  st,        \* where it is
  attempt,   \* the loop variable
  reply,     \* what the last attempt came back with
  replayed,  \* retried401
  aborted,   \* the caller's signal
  late,      \* the deadline has passed
  outcome,   \* "ok" or the error code it ended with
  \* shared state of the host
  failures,  \* Breaker.failures, counted up to Threshold
  open,      \* Breaker.openUntil > now
  cached,    \* the token cache holds a token that is still fresh
  \* the instance
  applied    \* how often the instance carried a write out, up to 2

runVars  == <<st, attempt, reply, replayed, aborted, late, outcome>>
hostVars == <<failures, open, cached>>
vars     == <<slotVars, runVars, hostVars, applied>>

\* What an attempt can come back with.  "cut" is a timeout of an attempt that
\* the deadline had shortened; "gateway" is 502, 503 or 504.
NoAnswer == {"transport", "timeout", "cut"}
Answers  == {"ok", "redirect", "401", "429", "4xx", "500", "gateway"}

Steps == {"idle", "auth", "granting", "ready", "slot", "flight", "back",
          "backoff", "done"}
\* "UNUSABLE" stands for RESPONSE_TOO_LARGE, and UNEXPECTED_RESPONSE of a token.
Outcomes == {"none", "ok", "CANCELLED", "CIRCUIT_OPEN", "BUSY", "TIMEOUT",
             "UNREACHABLE", "DEADLINE_EXCEEDED", "REDIRECT_BLOCKED",
             "HTTP_4XX", "HTTP_5XX", "UNUSABLE"}

HasGrant(r)      == r \in DOMAIN GrantOf
Idempotent(r)    == r \notin Writes
RetriesOf(r)     == IF r \in Grants THEN 1 ELSE MaxRetries

Init ==
  /\ SlotInit
  /\ st       = [r \in Requests |-> "idle"]
  /\ attempt  = [r \in Requests |-> 0]
  /\ reply    = [r \in Requests |-> "none"]
  /\ replayed = [r \in Requests |-> FALSE]
  /\ aborted  = [r \in Requests |-> FALSE]
  /\ late     = [r \in Requests |-> FALSE]
  /\ outcome  = [r \in Requests |-> "none"]
  /\ failures = 0
  /\ open     = FALSE
  /\ cached   = FALSE
  /\ applied  = [r \in Requests |-> 0]

------------------------------------------------------------------------------
(* The circuit breaker. *)

BreakerSuccess ==
  /\ failures' = 0
  /\ open' = FALSE

\* Counting stops at the threshold, which is all that is ever tested.  Past it,
\* every failure opens the breaker again: half-open after the window.
BreakerFailure ==
  IF Threshold = 0
    THEN UNCHANGED <<failures, open>>
    ELSE /\ failures' = IF failures < Threshold THEN failures + 1 ELSE failures
         /\ open' = (open \/ failures + 1 >= Threshold)

BreakerUnchanged == UNCHANGED <<failures, open>>

Blocks == Threshold > 0 /\ open

------------------------------------------------------------------------------
(* Pieces of the loop. *)

End(r, how) ==
  /\ st' = [st EXCEPT ![r] = "done"]
  /\ outcome' = [outcome EXCEPT ![r] = how]
  /\ UNCHANGED attempt

\* The loop goes round, unless the caller gave up meanwhile.
NextAttempt(r) ==
  IF aborted[r]
    THEN End(r, "CANCELLED")
    ELSE /\ st' = [st EXCEPT ![r] = "auth"]
         /\ attempt' = [attempt EXCEPT ![r] = @ + 1]
         /\ UNCHANGED outcome

\* The request leaves withSlot; the attempt came back with what.
LeaveSlot(r) == IF r \in Diagnostics THEN FinishBypass(r) ELSE Finish(r)

------------------------------------------------------------------------------
(* Starting. *)

\* A caller starts the request.  Diagnostics are never stopped by the breaker.
Begin(r) ==
  /\ r \in Api /\ st[r] = "idle"
  /\ IF aborted[r] THEN End(r, "CANCELLED")
     ELSE IF r \notin Diagnostics /\ Blocks THEN End(r, "CIRCUIT_OPEN")
     ELSE /\ st' = [st EXCEPT ![r] = "auth"]
          /\ UNCHANGED <<attempt, outcome>>
  /\ UNCHANGED <<slotVars, hostVars, applied, reply, replayed, aborted, late>>

\* headers() with no token to fetch: another auth mode, a cached token, or the
\* token request itself.
Authorize(r) ==
  /\ st[r] = "auth"
  /\ HasGrant(r) => cached
  /\ st' = [st EXCEPT ![r] = "ready"]
  /\ UNCHANGED <<slotVars, hostVars, applied, attempt, reply, replayed,
                 aborted, late, outcome>>

\* headers() with no fresh token in the cache: a token request of its own, with
\* its own deadline and no caller's signal, outside any slot.  It does not
\* inherit bypassQueue.
NeedToken(r) ==
  /\ st[r] = "auth" /\ HasGrant(r) /\ ~cached
  /\ LET g == GrantOf[r] IN
     /\ attempt' = [attempt EXCEPT ![g] = 0]
     /\ reply' = [reply EXCEPT ![g] = "none"]
     /\ late' = [late EXCEPT ![g] = FALSE]
     /\ IF Blocks
          THEN /\ st' = [st EXCEPT ![r] = "granting", ![g] = "done"]
               /\ outcome' = [outcome EXCEPT ![g] = "CIRCUIT_OPEN"]
          ELSE /\ st' = [st EXCEPT ![r] = "granting", ![g] = "auth"]
               /\ outcome' = [outcome EXCEPT ![g] = "none"]
  /\ UNCHANGED <<slotVars, hostVars, applied, replayed, aborted>>

\* The token request ended: cache the token and go on, or fail with its error or
\* because the answer holds no token.
Granted(r) ==
  /\ st[r] = "granting" /\ st[GrantOf[r]] = "done"
  /\ LET how == outcome[GrantOf[r]] IN
     \/ /\ how = "ok"
        /\ st' = [st EXCEPT ![r] = "ready"]
        /\ cached' = TRUE
        /\ UNCHANGED <<outcome, attempt>>
     \/ /\ End(r, IF how = "ok" THEN "UNUSABLE" ELSE how)
        /\ UNCHANGED cached
  /\ UNCHANGED <<slotVars, failures, open, applied, reply, replayed, aborted, late>>

------------------------------------------------------------------------------
(* Getting a slot and sending. *)

OutOfTime(r) ==
  /\ st[r] = "ready" /\ late[r]
  /\ End(r, "DEADLINE_EXCEEDED")
  /\ UNCHANGED <<slotVars, hostVars, applied, reply, replayed, aborted, late>>

\* Mutant: diagnostics stand in line with everybody else.
EnterSlot_QueuesAll(r) ==
  /\ st[r] = "ready" /\ ~late[r]
  /\ Take(r) \/ (~aborted[r] /\ Join(r))
  /\ st' = [st EXCEPT ![r] = "slot"]
  /\ UNCHANGED <<hostVars, applied, attempt, reply, replayed, aborted, late, outcome>>

EnterSlot(r) ==
  /\ st[r] = "ready" /\ ~late[r]
  /\ \/ r \in Diagnostics /\ EnterBypass(r)
     \/ r \notin Diagnostics /\ Take(r)
     \/ r \notin Diagnostics /\ ~aborted[r] /\ Join(r)
  /\ st' = [st EXCEPT ![r] = "slot"]
  /\ UNCHANGED <<hostVars, applied, attempt, reply, replayed, aborted, late, outcome>>

\* No place and a full line, or (tested after it) a signal already aborted.
Refused(r) ==
  /\ st[r] = "ready" /\ ~late[r] /\ r \notin Diagnostics
  /\ Refuse(r)
  /\ \/ Len(waiters) >= MaxQueue /\ End(r, "BUSY")
     \/ Len(waiters) < MaxQueue /\ aborted[r] /\ End(r, "CANCELLED")
  /\ UNCHANGED <<hostVars, applied, reply, replayed, aborted, late>>

\* The queue timer fires.
QueueTimeout(r) ==
  /\ GiveUp(r)
  /\ End(r, "BUSY")
  /\ UNCHANGED <<hostVars, applied, reply, replayed, aborted, late>>

GetPlace(r) == Resume(r) /\ UNCHANGED <<runVars, hostVars, applied>>

InSlot(r) == st[r] = "slot" /\ pc[r] \in {"running", "bypass"}

\* fn inside the slot: no time left, or fetch refuses an aborted signal.
NotSent(r) ==
  /\ InSlot(r) /\ (late[r] \/ aborted[r])
  /\ LeaveSlot(r)
  /\ End(r, IF late[r] THEN "DEADLINE_EXCEEDED" ELSE "CANCELLED")
  /\ UNCHANGED <<hostVars, applied, reply, replayed, aborted, late>>

Send(r) ==
  /\ InSlot(r) /\ ~late[r] /\ ~aborted[r]
  /\ st' = [st EXCEPT ![r] = "flight"]
  /\ UNCHANGED <<slotVars, hostVars, applied, attempt, reply, replayed,
                 aborted, late, outcome>>

\* Only what a write does to the instance is of interest.
Apply(r) ==
  applied' = [applied EXCEPT ![r] = IF r \in Writes /\ @ < 2 THEN @ + 1 ELSE @]

\* The instance answers.  An error of the instance may come after the fact.
Answer(r) ==
  /\ st[r] = "flight"
  /\ \E a \in Answers :
       /\ reply' = [reply EXCEPT ![r] = a]
       /\ \/ a = "ok" /\ Apply(r)
          \/ a \in {"500", "gateway"} /\ Apply(r)
          \/ a # "ok" /\ UNCHANGED applied
  /\ LeaveSlot(r)
  /\ st' = [st EXCEPT ![r] = "back"]
  /\ UNCHANGED <<hostVars, attempt, replayed, aborted, late, outcome>>

\* Mutant: an attempt that throws does not give its place back.
Fail_KeepsPlace(r) ==
  /\ st[r] = "flight"
  /\ \E a \in NoAnswer :
       /\ reply' = [reply EXCEPT ![r] = a]
       /\ late' = [late EXCEPT ![r] = @ \/ a = "cut"]
  /\ Apply(r) \/ UNCHANGED applied
  /\ UNCHANGED slotVars
  /\ st' = [st EXCEPT ![r] = "back"]
  /\ UNCHANGED <<hostVars, attempt, replayed, aborted, outcome>>

\* No answer: the connection breaks, the attempt times out (both whether or not
\* the request arrived), or the caller's abort cancels the fetch.
Fail(r) ==
  /\ st[r] = "flight"
  /\ \E a \in NoAnswer :
       /\ reply' = [reply EXCEPT ![r] = a]
       /\ late' = [late EXCEPT ![r] = @ \/ a = "cut"]
  /\ Apply(r) \/ UNCHANGED applied
  /\ LeaveSlot(r)
  /\ st' = [st EXCEPT ![r] = "back"]
  /\ UNCHANGED <<hostVars, attempt, replayed, aborted, outcome>>

------------------------------------------------------------------------------
(* What the attempt came back with. *)

Back(r, replies) == st[r] = "back" /\ reply[r] \in replies

\* Everything below leaves these alone.
Quiet == UNCHANGED <<slotVars, cached, applied, reply, aborted, late>>

\* Wait for the next attempt, unless the wait would outlast the deadline.
BackOff(r, failure) ==
  \/ /\ ~late[r]
     /\ st' = [st EXCEPT ![r] = "backoff"]
     /\ UNCHANGED <<attempt, outcome>>
     /\ BreakerUnchanged
  \/ /\ End(r, "DEADLINE_EXCEEDED")
     /\ IF failure THEN BreakerFailure ELSE BreakerUnchanged

\* Mutant: a write is sent again although its outcome is unknown.
RetryTransport_AnyMethod(r) ==
  /\ Back(r, {"transport", "timeout"}) /\ ~aborted[r]
  /\ attempt[r] < RetriesOf(r)
  /\ BackOff(r, TRUE)
  /\ UNCHANGED replayed
  /\ Quiet

RetryTransport(r) ==
  /\ Back(r, {"transport", "timeout"}) /\ ~aborted[r]
  /\ Idempotent(r) /\ attempt[r] < RetriesOf(r)
  /\ BackOff(r, TRUE)
  /\ UNCHANGED replayed
  /\ Quiet

\* Mutant: a request its caller cancelled counts against the instance.
EndTransport_CountsCancel(r) ==
  /\ Back(r, NoAnswer)
  /\ \/ aborted[r] /\ End(r, "CANCELLED") /\ BreakerFailure
     \/ ~aborted[r] /\ reply[r] = "cut" /\ End(r, "DEADLINE_EXCEEDED") /\ BreakerFailure
     \/ /\ ~aborted[r] /\ reply[r] # "cut"
        /\ ~(Idempotent(r) /\ attempt[r] < RetriesOf(r))
        /\ End(r, IF reply[r] = "timeout" THEN "TIMEOUT" ELSE "UNREACHABLE")
        /\ BreakerFailure
  /\ UNCHANGED replayed
  /\ Quiet

\* No answer and no retry: cancelled by the caller, cut by the deadline, or a
\* failure of the instance.
EndTransport(r) ==
  /\ Back(r, NoAnswer)
  /\ \/ aborted[r] /\ End(r, "CANCELLED") /\ BreakerUnchanged
     \/ ~aborted[r] /\ reply[r] = "cut" /\ End(r, "DEADLINE_EXCEEDED") /\ BreakerFailure
     \/ /\ ~aborted[r] /\ reply[r] # "cut"
        /\ ~(Idempotent(r) /\ attempt[r] < RetriesOf(r))
        /\ End(r, IF reply[r] = "timeout" THEN "TIMEOUT" ELSE "UNREACHABLE")
        /\ BreakerFailure
  /\ UNCHANGED replayed
  /\ Quiet

Redirected(r) ==
  /\ Back(r, {"redirect"})
  /\ End(r, "REDIRECT_BLOCKED")
  /\ BreakerSuccess
  /\ UNCHANGED replayed
  /\ Quiet

\* A 401 replays the request once, even when no retry is left; a retry it finds
\* unused it uses up.  With a token of its own (OAuth, a user's linked account) it
\* must, with a bearer token only if the file holds a new one by now.
MustReplay(r) == HasGrant(r) /\ ~replayed[r]
MayReplay(r)  == MustReplay(r) \/ (r \in Bearers /\ ~replayed[r])

Reauthenticate(r) ==
  /\ Back(r, {"401"}) /\ MayReplay(r)
  /\ replayed' = [replayed EXCEPT ![r] = TRUE]
  /\ cached' = (cached /\ ~HasGrant(r))
  /\ NextAttempt(r)
  /\ UNCHANGED <<slotVars, failures, open, applied, reply, aborted, late>>

Retryable(r) == reply[r] = "429" \/ (reply[r] = "gateway" /\ Idempotent(r))

RetryStatus(r) ==
  /\ Back(r, Answers) /\ Retryable(r) /\ attempt[r] < RetriesOf(r)
  /\ BackOff(r, reply[r] = "gateway")
  /\ UNCHANGED replayed
  /\ Quiet

\* An error answer that is final: a 4xx speaks for a live instance.
EndStatus(r) ==
  /\ Back(r, {"401", "429", "4xx", "500", "gateway"})
  /\ ~(reply[r] = "401" /\ MustReplay(r))
  /\ ~(Retryable(r) /\ attempt[r] < RetriesOf(r))
  /\ IF reply[r] \in {"500", "gateway"}
       THEN End(r, "HTTP_5XX") /\ BreakerFailure
       ELSE End(r, "HTTP_4XX") /\ BreakerSuccess
  /\ UNCHANGED replayed
  /\ Quiet

\* An answer that is too long for SN_MAX_BODY_BYTES ends in an error.
Succeed(r) ==
  /\ Back(r, {"ok"})
  /\ End(r, "ok") \/ End(r, "UNUSABLE")
  /\ BreakerSuccess
  /\ UNCHANGED replayed
  /\ Quiet

\* The backoff is over, or an abort ended it early.
Wake(r) ==
  /\ st[r] = "backoff"
  /\ NextAttempt(r)
  /\ UNCHANGED <<slotVars, hostVars, applied, reply, replayed, aborted, late>>

------------------------------------------------------------------------------
(* The surroundings. *)

\* The caller cancels.  A request in the wait line leaves it on the spot.
Abort(r) ==
  /\ r \in Api /\ ~aborted[r] /\ st[r] # "done"
  /\ aborted' = [aborted EXCEPT ![r] = TRUE]
  /\ IF pc[r] = "waiting"
       THEN GiveUp(r) /\ End(r, "CANCELLED")
       ELSE UNCHANGED <<slotVars, st, attempt, outcome>>
  /\ UNCHANGED <<hostVars, applied, reply, replayed, late>>

DeadlinePasses(r) ==
  /\ st[r] \notin {"idle", "done"} /\ ~late[r]
  /\ late' = [late EXCEPT ![r] = TRUE]
  /\ UNCHANGED <<slotVars, hostVars, applied, st, attempt, reply, replayed,
                 aborted, outcome>>

WindowEnds ==
  /\ open /\ open' = FALSE
  /\ UNCHANGED <<slotVars, runVars, failures, cached, applied>>

TokenExpires ==
  /\ cached /\ cached' = FALSE
  /\ UNCHANGED <<slotVars, runVars, failures, open, applied>>

\* dispose() of the process runtime: the line is drained (its requests end with
\* BUSY), the breakers close and the cached tokens go.
Dispose ==
  /\ Drain
  /\ st' = [r \in Requests |-> IF pc[r] = "waiting" THEN "done" ELSE st[r]]
  /\ outcome' = [r \in Requests |-> IF pc[r] = "waiting" THEN "BUSY" ELSE outcome[r]]
  /\ BreakerSuccess
  /\ cached' = FALSE
  /\ UNCHANGED <<applied, attempt, reply, replayed, aborted, late>>

\* What moves a request on, once it has begun.
Advance(r) ==
  \/ Authorize(r) \/ NeedToken(r) \/ (HasGrant(r) /\ Granted(r))
  \/ OutOfTime(r) \/ EnterSlot(r) \/ Refused(r) \/ GetPlace(r)
  \/ NotSent(r) \/ Send(r) \/ Answer(r) \/ Fail(r)
  \/ RetryTransport(r) \/ EndTransport(r) \/ Redirected(r) \/ Reauthenticate(r)
  \/ RetryStatus(r) \/ EndStatus(r) \/ Succeed(r) \/ Wake(r)

Finished == \A r \in Api : st[r] = "done"

Next ==
  \/ \E r \in Requests :
       Begin(r) \/ Advance(r) \/ QueueTimeout(r) \/ Abort(r) \/ DeadlinePasses(r)
  \/ WindowEnds \/ TokenExpires \/ Dispose
  \/ Finished /\ UNCHANGED vars

Spec == Init /\ [][Next]_vars

\* What the diagnostics need: their attempts have timeouts and their backoffs
\* timers, and continuations run.  No caller has to start, to cancel or to run
\* into its deadline, and nothing is assumed of the other requests.
FairSpec == Spec /\ \A r \in Diagnostics : WF_vars(Advance(r))

\* The other requests move on too, for the same reasons.
AllMoveOn == \A r \in Requests : WF_vars(Advance(r))

------------------------------------------------------------------------------
(* Properties. *)

TypeOK ==
  /\ SlotTypeOK
  /\ st \in [Requests -> Steps]
  /\ attempt \in [Requests -> Nat]
  /\ reply \in [Requests -> NoAnswer \cup Answers \cup {"none"}]
  /\ replayed \in [Requests -> BOOLEAN]
  /\ aborted \in [Requests -> BOOLEAN]
  /\ late \in [Requests -> BOOLEAN]
  /\ outcome \in [Requests -> Outcomes]
  /\ failures \in 0 .. Threshold
  /\ open \in BOOLEAN /\ cached \in BOOLEAN
  /\ applied \in [Requests -> 0 .. 2]

\* No combination of retries, 401 replays, rate limits and lost answers makes
\* the instance carry a write out twice.
WriteAppliedOnce == \A r \in Writes : applied[r] <= 1

\* What the caller of a write is told is true of the instance: "ok" means the
\* write is there, and "request not sent" (BUSY, CIRCUIT_OPEN) that it is not,
\* although an earlier attempt of the same request may have been sent.
OutcomeHonest ==
  \A r \in Writes :
    /\ outcome[r] = "ok" => applied[r] = 1
    /\ outcome[r] \in {"BUSY", "CIRCUIT_OPEN"} => applied[r] = 0

\* Only an instance that failed to answer a sent request, or answered 5xx, is
\* held against the host: the breaker neither counts nor opens for a request
\* that was cancelled, refused, never sent, or answered.
BreakerEvidence ==
  [][failures' > failures \/ (open' /\ ~open)
       => \E r \in Requests :
            /\ st[r] = "back" /\ st'[r] = "done" /\ outcome'[r] # "CANCELLED"
            /\ reply[r] \in NoAnswer \cup {"500", "gateway"}]_vars

\* Every request that was started ends, one place for all of them or not, and
\* without any queue timer, if every request moves on when it can.
AllEnd == AllMoveOn => \A r \in Api : st[r] # "idle" ~> st[r] = "done"

\* Diagnostics end although no other request on the host ever does.
DiagnosticsEnd == \A r \in Diagnostics : st[r] # "idle" ~> st[r] = "done"
==============================================================================
