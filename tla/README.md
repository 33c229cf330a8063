# A TLA+ model of servicenow-mcp-ai

servicenow-mcp-ai is an MCP server: it gives a language model's client tools
that read and write a ServiceNow instance. It runs as one Node.js process, for
one client over stdio or for many over HTTP. The code is sequential between
awaits; what is hard about it is what may happen *at* an await: other calls of
the same session, other sessions, timers, aborts, answers that are lost, and
shutdown. The modules here model those parts, and the properties say what must
hold whatever happens in between.

Paths below are relative to `src/` of the repository (so `src/core/http.ts` is
the request layer). `PROJECT.json` names, for every definition, the lines it
models.

## 1. Inventory

Parts whose control is worth modelling; all of them are. "Hard" names what a unit test
hardly reaches; the hazards in `PROJECT.json` give the line where each one bites.

| Part | State it keeps | Operations | Hard | Correct means |
|---|---|---|---|---|
| Per-host limiter, `core/http-limits.ts` | per host: places in use, wait line; the table of hosts | `withSlot`, `release`, queue timer, abort, `drainSlots`; the limit is read anew on each call | a place handed over while the limit changes; a timer racing a grant; a drain under calls in flight | no place leaked or doubled, the limit holds, nobody waits behind nobody |
| Request primitive, `core/http-util.ts`, `http.ts`, `http-retry.ts` | per request: attempt, deadline, signal, replay flag; per host: breaker; the token cache | authorize, take a slot, send, retry, replay a 401, back off, count for the breaker | answers lost after the write landed; a token request that needs the place its request will need; cancel, deadline and breaker at once | a write is carried out once, what the caller is told is true, every request ends |
| Destructive gate, `mcp/confirm.ts`, `plan-token.ts`, `input.ts`, `core/write-journal.ts` | plan tokens, question nonces, write-cap usage, journal | preview, apply with a token, ask on either wire, retry a round, check cap, write, journal | a client that repeats, reorders or overlaps its calls; awaits between check and use | one write per plan and per yes, a refusal is final, the journal is honest |
| Event store, `mcp/event-store.ts` | ring of SSE events of a session, byte total | store and evict, replay | eviction under a replay suspended in `send` | order, no duplicates, completeness, both limits |
| HTTP sessions, `mcp/http-sessions.ts`, `transport.ts` | map of sessions, counters of open requests and of builds, shutdown phase | initialize, dispatch, sweep, DELETE, drain and close | sessions built across awaits, closed while requests are inside, swept from a list that ages | the cap, exact counts, no session left behind |
| Tasks, `mcp/tasks.ts` | task store with TTLs, waiting input, results | create, run, settle, cancel, expire, get, list, dispose | cancel against completion; input rounds; expiry under a reader | one final status, no run that nobody can stop, no hung reader |
| User tokens, `core/user-tokens.ts` | linked accounts in a file, token cache | link, refresh, reject, unlink, sweep | unlink or re-link against a refresh under way; replicas sharing the file and the rotating token | an unlinked user stays unlinked; a fresh link survives an old refresh |
| OAuth provider, `core/auth.ts` | token cache by profile, rotating refresh token in process.env and the env file | get, refresh, persist, invalidate | no single flight; a grant that outlives a change of credentials or a switch of the profile; a file that cannot be written, or that a login writes too | no token of old credentials; no login lost by requests that use it at once; a loss on restart is announced |
| Update-set binding, `api/updatesets.ts` | lock per user; a preference on the instance | lock, set, run, restore | callers queued behind one that fails; lost answers, a crash between set and restore | each write lands in its set, the user's update set is what it was |
| Write journal and revert, `core/write-journal.ts`, `api/revert.ts` | JSONL file, head file, rotated files | append, rotate, read, verify, plan and apply a revert | two files written apart; several processes; drift between check and write | the chain verifies unless tampered with; one revert per entry, and none over a change |
| Record watches, `mcp/record-watch.ts` | watches by server, process total | subscribe, poll, unsubscribe, close | all of them across awaited reads | caps, no watch of a closed session, no lost change |
| Paged reads, `api/table.ts` | loop variables of `fetchAll` | offset and keyset pages | rows hidden after paging; rows inserted and deleted between pages | no readable row that stayed is skipped or repeated, partial results say so |
| Schema cache, `core/cache.ts` | entries with expiry in order of recency, counters | get or load, evict, clear | several loads of one key; a load in flight across a clear | the cap; only the least recently used give way; nothing of an earlier user is served |

Parts left out, with the reason, are in `PROJECT.json` ("components"): settings
and profiles, policy and redaction, registry, resources and prompts, result
shaping, the API analysers and document generators, tool definitions, logging
and tracing, command line, extension and scripts. They are stateless decisions,
tables, text production or single synchronous steps.

How they interact: a tool call enters through a session (HTTP) or stdio, passes
the gate if it is destructive, is journaled, and reaches the instance through
the request primitive, which takes its place from the limiter and its token
from the provider. The provider's own requests go through the same primitive
and the same limiter. Closing a session disposes its runtime; a shutdown
disposes the process's, which drains the limiter and clears breakers and tokens.

## 2. Plan

Built, in this order: `SlotService`, `SlotQueue`, `HttpClient` (which
extends `SlotQueue`: each step of a request is a step of the queue or leaves it
alone), `DestructiveApply`, `EventStore`, `HttpSessions`,
`TaskService`, `Tasks`, `UserTokens`, `WriteJournal`, `Reverts` (which extends
`WriteJournal`), `UpdateSets`, `RecordWatch`, `FetchAll`, `OAuthTokens`, `SchemaCache`.
All are proved about, in eight modules of proofs, see section 6.

Left: the owners of tasks (who may see which), and several processes that write one
journal.

## 3. Modules

| Module | Models | Remarks |
|---|---|---|
| `SlotService` | what a caller of the limiter may rely on | abstract: who holds a place, who is in line, who was turned away |
| `SlotQueue` | `withSlot`, `release`, `leave`, `drainSlots` for one host | hosts are independent; a Slot is a generation number, because a drain leaves calls in flight with the old, detached Slot |
| `HttpClient` | `rawRequest` with the hooks of `snRequest` and of the token request | each request walks `idle, auth, granting, ready, slot, flight, back, backoff, done`; every await is a point where others step |
| `DestructiveApply` | `confirmDestructiveApply`, plan store, questions, `journaledWrite` | a call's gate runs without a pause and is one action; the pauses are the prompt (2025 wire), the read of the answer (2026 wire), preparing, and the request |
| `EventStore` | `SessionEventStore` | events are their sequence numbers; the array is `dropped + 1 .. seq`, and the iterator of a `for ... of` is a position in it, as in JavaScript |
| `HttpSessions` | `HttpSessionManager`, `closeHttpTransport` | a session is named by the initialize request that builds it; an idle session's TTL may be over or not, so a sweep finds any of them |
| `TaskService` | what a client of the task store may rely on | abstract: a task works, has one final status, is gone; every answer is true when it is decided |
| `Tasks` | the task store of both wires, the background runs, `tasks/result` and `tasks/cancel`, the runtime a run goes on using | expiry is lazy in the code: `due` are the tasks whose hour is over, swept or not |
| `UserTokens` | `userAccessToken`, `invalidateUserToken`, `completeLink`, `unlinkSubject` for one subject | refresh tokens are numbers in order of issue; the store file is shared by replicas, each caches its own access token |
| `WriteJournal` | `appendWriteJournal`, the check of `readWriteJournal` | a line's hash is its id and whether it was edited; an append is "done", "cut" (line without head) or "lost" |
| `Reverts` | `captureBefore`, `journaledWrite`, `planRevert`, `applyRevert` for one record | every new value of a field is a new number, but a tool may also write what is there; a write may tell its mod count or not, and a revert chooses as `checkDrift` does what it compares |
| `UpdateSets` | `applyInUpdateSet` for one user | the lock is a chain of promises: a call waits for the one that was last when it came |
| `RecordWatch` | `watchRecord`, `poll`, `unwatchRecord`, the hook on `onclose`, dispose | a version is a number, 0 a deleted record; the process's set and the sessions' maps are kept apart, as in the code |
| `FetchAll` | the `fetchAll` loop of `queryTable` | rows are the numbers they are ordered by, a page is a set of them and a row's place in it its rank; a row read again shows in the count only; ACLs hide rows after the page was cut |
| `OAuthTokens` | `getToken`, the second try of `requestToken`, `persistRotatedRefreshToken`, the invalidations; `set_credentials`, `use_instance`, a login and a restart as far as they touch tokens | refresh tokens are numbers in order of issue, an access token is the number of the secrets it was obtained with |
| `SchemaCache` | `cached`, `insert`, the clears | the Map's order is the relation `older`; a value is the number of the credentials it was read under |

State and actions correspond one to one to fields and handlers: the comment of
each variable names its field, the comment of each action the code path. What a
definition stands for is in `PROJECT.json` under "map". Operators with a name
`X_Something` are *mutants*: `X` with a plausible bug, used to show that each
property can fail; no run uses them.

Abstractions worth knowing:

- **Time** is a choice. A timer that is armed may fire at any moment, a deadline
  may pass, a TTL may elapse. Every real schedule is among those, so safety
  carries over; where the order of two timers is fixed by the code (plan tokens
  of equal lifetime expire in order of issue) the model keeps that order.
- **The instance** answers as it likes. `ok`, 5xx and gateway errors and lost
  answers may all come after a write was carried out; redirects, 401, 429 and
  other 4xx come before. An `ok` may be unusable: too long, or without a token.
- **Data** is reduced to what properties tell apart: arguments that a plan
  binds are one value, messages are numbers, weights are the number of writes a
  bulk call counts for.
- **Histories** (`stayed`, `wish`, `blame`, `told`, `undone`, `newer`, `since`, `wanted`, ...) are variables
  that only properties read; their comments say so.
- **Excuses.** Where the code leaves a window open, the property names the
  window (`excuse`, `blame`, `blurred`, `crossed`, `late`, `slid`, `spoilt`,
  `racing`) and says that there is no other. The windows are listed in section 5.
- **Bounds** named as such in the CONSTANTS (`MaxDrains`, `MaxSeq`,
  `MaxInFlight`, `MaxTokens`, `MaxChoices`, `MaxVal`, `MaxLines`, `MaxMishaps`,
  `MaxVersion`, `MaxFailures`, `Watches`, `MaxRow`, `MaxChanges`, `MaxMade`, `MaxSecrets`,
  `MaxUsers`) appear in
  guards and nowhere in the code. `MaxInFlight` is a statement about the
  client. The theorems hold for every value of them.

## 4. Runs

| Run | Instance | What it shows |
|---|---|---|
| `slots` | 4 calls, limit switching between 1 and 2, line of 2, one drain; fair | accounting, limit, order, nobody stranded, refinement of `SlotService`, every wait ends |
| `http` | a write under OAuth with its grant, a read with a bearer token from a file; 1 place, line of 1, 1 retry, breaker of 2, one dispose | no write twice, honest outcomes, what the breaker counts is evidence of a sick host |
| `http_fair` | a write with its grant, a diagnostic without one; 1 place, breaker of 1; fair | every request ends; diagnostics end even if the others never move |
| `apply` | 5 calls, 2 at a time, all gated modes and the plain ones, 2 kinds of arguments of weight 1 and 2, 2 plans, cap 3 | one write per plan and per yes, refusals final, an honest journal, the overshoot of the cap |
| `events` | 2 replays, 5 events, 2 streams, sizes 1 and 5 against a byte limit of 4, ring of 3 | byte total, order, completeness |
| `sessions` | 3 initializes, a POST, a stream; cap 2; sweeper and shutdown; fair | cap, counts, nothing left behind, every session closed in the end |
| `tasks` | a task of each wire, 1 reader, 2 cancellers; fair | a run is stoppable or stopped and keeps its runtime, refinement of `TaskService`, readers are answered |
| `tokens` | `UserTokens`: 2 replicas, 3 calls (two on one replica), 2 callbacks, 3 refresh tokens. `OAuthTokens`: 2 profiles, 2 requests that get tokens again and again, 2 refresh tokens issued beside the first, 2 sets of secrets | a completed link stays usable, an unlink is final; no access token of old secrets, no login lost by grants at once, a loss on restart announced |
| `reverts` | 1 tool, 2 reverts, another user; 2 fields, values up to 2, 4 lines in files of 2, one mishap | the chain verifies unless something failed or was tampered with, and then not; one revert per write; what the drift check of an unforced revert went by is as the write left it |
| `updatesets` | 3 bound writes of a user, one with a second preference, one choice in the browser; any request fails, a crash; fair | each write in its set, preferences as they were, every call gets its turn |
| `watches` | 2 sessions, 2 records, 2 watches, caps of 1; 2 versions, one failure; fair | caps, no watch of a closed session, changes told |
| `reads` | `FetchAll`: 5 rows, any of them hidden; pages of 2, cap 3, scan factor 2, offset 0 or 1; 2 rows inserted or deleted. `SchemaCache`: 4 keys, 2 readers, cap 2, 2 changes of the credentials | each readable row that stays comes once, and what a read says it left is true; the cap, eviction of the least recently used only, nothing of an earlier user |

`tokens` and `reads` check two modules each. The two share no variable and each
property is about one of them, so that every behaviour of the one is covered by those in
which the other stays where it began: in `MCTokens` and `MCReads` each steps only while
the other is there. The states of such a run are those of the one and those of the other.

Why these bounds are enough. *slots*: with the limit at 1 and a line of 2 the
fourth call meets a full line, a drain leaves a detached Slot with a holder
while the new one fills, and both directions of a limit change happen with
waiters present. *http*: with one place the write's grant, the write and the
read must all use the place one after the other, so every wait and refusal
occurs; two failures open a breaker that a third request then meets; one retry
and one replay interleave in both orders. *apply*: five calls are preview,
apply, repeat, a second plan and a second repeat, two of them overlapping;
three plans meet a store of two. *events*: five events push a ring of three past
its limit twice, once by count and once by bytes, under two suspended replays.
*sessions*: three initializes meet a cap of two while one is being built and
another is being closed, and two may expire in one sweep. *tasks*: both wires
differ in cancellation and errors; two cancellers meet one completion. *tokens*:
one call joins another's refresh, a second replica refreshes beside them, and a
rotation meets a second link; two grants of the provider redeem one refresh token and
rotate it both, or one rotates what a login replaces in the file, and of two profiles
one is switched away from under a grant. A third refresh token of the provider (11.7
million states) was checked by hand with the same result. *reverts*: two reverts of one write overlap, or
one follows the other across a rotation; each kind of mishap comes at every
step; two fields are the one that was written and the one that was not. *updatesets*: three calls make a queue with one before and one behind the
call that fails. *watches*: two subscribes overlap under a cap of one; with two
ids a poll that outlives its watch meets a newer watch of its record. A larger
instance (3 ids, caps of 1 and 2, safety only, 4.75 million states) was checked
by hand with the same result. *reads*: the cap falls within the second page,
the scan budget is three pages, and a page can be wholly hidden between two that are
not; a key that two readers load at once comes second into a full cache, beside entries
that expired and such that did not.

`http` uses a VIEW that drops variables nobody will read again (local variables
of a request that ended, the Slot number of a call that holds no place); it
checks no liveness. `reverts` uses one too (`Lean`), which drops what no later step or
property reads: of a line all but what a revert of it uses, of a call what its next
steps do not use, and the lines of a journal from which nobody can revert any more.
`apply`, `events`, `tokens`, `reverts` and `reads` use symmetry of
calls (in `tokens`, of one replica), callbacks, replays, reverts and fields, profiles, requests,
keys or readers, and check no liveness either.

Deadlock is checked in `slots`, `http`, `http_fair` and `tokens`. The other
systems stop when every call of the instance has been made, hence
`CHECK_DEADLOCK FALSE`.

The type invariants of all modules are proved. The inductive invariants of section 6 were
checked with TLC on instances like those of the runs before they were proved.
`RevertedOnce` was also checked with two mishaps (11.7 million states), which the
run does not do: a line edited and then removed by hand is one of those.

### Fairness

- `SlotFairSpec` of `SlotQueue`: a granted continuation runs (a microtask), and `fn`
  ends (each attempt has `SN_HTTP_TIMEOUT_MS`). The queue timer is *not* assumed
  to fire: `WaitEnds` shows that waiters get their turn.
- `FairSpec` of `HttpClient`: only diagnostics are assumed to move on; `AllEnd`
  carries the assumption for the others in its premise, `AllMoveOn`. Both rest on
  timeouts of attempts, timers of backoffs, and continuations. Starting,
  cancelling, deadlines, queue timers, the end of a breaker window: not assumed.
- `FairSpec` of `HttpSessions`: awaited work ends, TTLs pass, the sweeper's interval
  ticks, and clients end their streams. The last is the client's duty, and
  without it a stream keeps its session by design.
- `FairSpec` of `Tasks`: continuations run, the timer between two polls fires, and an
  hour passes. Neither are background runs assumed to end nor clients to give up.
- `FairSpec` of `UpdateSets`: each step of a call is taken; its requests end with an
  answer or with the deadline (`AllEnd` of `HttpClient`).
- `FairSpec` of `RecordWatch`: timers tick, and awaited reads and notifications end or
  fail. Reads rest on `AllEnd` again.

## 5. Known deviations

Where the code does not do what a text of the repository, or a reader of the
code, would expect. The models have these steps; the properties exclude them by
name or bound them. For those marked * TLC finds the behaviour on the instance
of the component's run as soon as the promise is checked in the place of the
property that makes the exception.

- *Write cap* (`core/write-journal.ts:512`, against `README.md:772`): it is
  checked before the request and charged after it, so overlapping writes pass it
  together.* By how much is bounded: `OvershootBounded`.
- *Replay* (`mcp/event-store.ts:85`): a replay iterates the live array across an
  await while evictions shift it, and passes over an event that is still held.
  `QuietReplayComplete` speaks of replays without evictions.
- *Sessions*: the sweeper goes on through a list made before its awaits and
  closes a session that is in use again (`mcp/http-sessions.ts:338-347`)*; an
  initialize let in before the shutdown opens a session after `closeAll`
  (`mcp/transport.ts:159-186`); a session being initialized counts twice against
  the cap between `onsessioninitialized` and the end of its first request
  (`http-sessions.ts:235, 274, 298`), so the cap errs on the low side; a build cut short by
  an exception (262-296: the factory, `connect`, a dispatch without an id) passes
  the line that would close it (302, against 300-301), so that its server and
  runtime are dropped without being closed (`BuildThrows`, "dropped")*.
- *Diagnostics* (`core/auth.ts:481`, against `core/http-limits.ts:198-199`): the
  token request of a diagnostic does not inherit `bypassQueue`, and the breaker or
  the line may turn it away.*
- *Retries*: `core/http.ts:101-103` says that writes are retried only on
  connection errors and never on a received response; `http-retry.ts:13` does
  otherwise.* The model follows the code, which is right: neither a 429
  nor a 401 says that the write may have landed.
- *Journal* (`core/write-journal.ts:464`): a crash or a failed write between the
  line and the head breaks the chain for every later line, a false alarm that
  ends all reverts. A journal of which no line is left verifies.
- *Reverts* (`api/revert.ts:333`): drift check and write are apart, so that a
  change in between is overwritten and two reverts of one entry both pass. The
  check itself is weaker than "refused if the record changed since"
  (`docs/tools/revert.md:43`), as `README.md:1334-1337` says in part. It goes by the
  mod count, which a record deleted and created again starts anew; for an update that
  told none, as `update_ci` and `update_change`, by the count before it and
  one (`revert.ts:284-290`), which is too high if the update changed nothing, so that
  the next change of another fits it*; without a count by the written fields
  that it can compare (305-314), so that a change of another field passes*, and after
  `create_change` (which tells no count) the unforced revert deletes the record with
  it; a redacted or unread field is not compared. `NoSilentLoss` says what is left: an
  unforced revert has compared something, and each thing it compared is as the write
  left it. Also, a revert whose line was lost, or taken out of a
  journal whose check fails already or has nothing to compare with, can be repeated.
- *User tokens*: a refresh rejected or rotated after the user linked again, or
  while another replica refreshes, drops or overwrites the newer token
  (`core/user-tokens.ts:541`); a refresh under way saves a link that was unlinked
  (`user-tokens.ts:585`, against 580-584).*
- *OAuth provider* (`core/auth.ts`): a grant under way when the secrets change fills
  the cache with a token of the old ones (715, against `tools/admin.ts:497`)*; a rotated refresh
  token is kept for the profile that is active when the answer is here, so a switch
  under a grant overwrites the login of one profile and leaves the other with a
  token that may be spent (377, against README.md:565-567)*; a rotation in a running server
  overwrites what a login in another process put into the file; a rotated token whose
  answer is lost is lost, and the second try sends the old one.
- *Schema cache*: a load under way when the credentials change stores what it read
  as the previous user (`core/cache.ts:106`, against `tools/admin.ts:497`).*
- *Update sets* (`api/updatesets.ts:811`): a switch that took effect but whose
  answer was lost is not undone; a crash before the restore (912) leaves the same.
- *Record watches*: a watch whose first read is awaited when its server closes is
  installed on the closed server (`mcp/record-watch.ts:223`, against 32-33)*;
  `stop` deletes by URI and can hide a newer watch of the record (104); the
  version is taken over before the notification, which is not repeated when its
  delivery fails (135).
- *Paged reads* (`api/table.ts`): a keyset read skips a readable row when a row of
  a wholly hidden window is deleted while the next request skips that window
  (against 193-195)*; by offset, a page whose first row looks like the one before
  ends the read without a word (276-283), which rows that the chosen fields do not
  tell apart do; without X-Total-Count a wholly hidden page ends it too; in a keyset
  read cut short, `filtered` may count a hidden row twice.

Beside the list in `PROJECT.json`: a plan token evicted by newer
plans before it is used fails closed, and `expected_mod_count` is compared with a
read before the delete (`tools/table.ts:779`), the same window as that of reverts.

## 6. Proofs

Every theorem is of the form `Spec => []P` (or an action property, or a
refinement), for all values of the constants under the ASSUMEs of the module,
which TLC evaluates in the runs. Where a run checks a conjunction of named
parts, the parts are theorems of their own and the whole follows from them:
`PlacesAreKept`, `SessionsAreCounted`, `VerdictIsTrue`, `LoginIsSafe`,
`CacheEvictsByUse`.

- **`HttpClientProofs`**, of the limiter: `SlotTypeCorrect`, `PlacesAreAccounted`,
  `LimitIsRespected`, `NobodyIsStranded`, `PlacesAreGivenInOrder`,
  `Implementation` (it refines `SlotService`). The invariant is the conjunction of
  the named properties: `active` counts the holders, the line is a duplicate-free
  list of exactly the waiting calls, the limit holds, and a non-empty line has
  at least as many holders before it as the smallest limit. None is inductive
  alone: a hand-over keeps the count only because the head of the line really
  waits on this Slot, and a release that skips the line leaves a holder
  because the count is exact. Assumed: finitely many callers; the limits have a
  largest and a smallest member.
  Of the request primitive: `ClientUsesQueue` says that every behaviour of
  `HttpClient`, seen through the limiter's variables, is one of `SlotQueue`; so
  `ClientKeepsPlaces` needs no second proof that retries, cancellations and
  deadlines leak no place, and `TypeCorrect` takes the limiter's types from there.
  `AppliedOnce` and `OutcomesAreHonest` rest on one invariant: until its attempt
  comes back a write is not applied, whatever came back before; of the answers only
  `ok` says that it is and only the refusals say that it is not, and nothing that
  leaves it open is sent again. `CountsOnlyEvidence` (of the breaker) is an action
  property. Assumed: the callers of the limiter are the requests, and token requests
  are none of the API's.
- **`DestructiveApplyProofs`**: `TypeCorrect`, `PlansAreUsedOnce`,
  `YesesAreUsedOnce`, `JournalIsHonest`, `RefusalsAreFinal`. The
  properties speak of calls the gate let through; the invariant extends them to
  calls on their way there: a token used up by a call is in no store and with no
  other call that used it up, a state spent by a call is no nonce any more, and
  a refused call's plan is spent. `CapIsPassedByLittle`: what is used stays within
  the cap and all but one of the heaviest writes. The bound itself is not inductive.
  The invariant `CapKept` names one write under way, the one checked last: what is
  used, with what that one weighs and the heaviest for each of the others, is within
  the limit. When it ends, any other takes its place, since none weighs more than it
  was counted for; so no sum over the writes under way is needed. Assumed: among
  what calls may ask for there is a heaviest (a batch and an import have a most
  rows), and the client has at least one call at a time.
- **`HttpSessionsProofs`**: `TypeCorrect`, `CapHolds`, `CountsAreExact`,
  `NoneIsLeftBehind`. The cap needs the counts: a check that reads the map and
  `pending` bounds the sessions present only if `pending` counts every build.
  `Targeted` and `Unborn` tie a request to the session it is dispatched to.
  Of a session's event store: `RingIsBounded`, `ReplaysAreInOrder`,
  `QuietReplaysAreComplete`, `BytesAreAccounted`, `StoreTypeCorrect`. Order is not
  inductive, since the iterator's position is relative to a ring that moves;
  `Standing` relates the last event sent to the position (at or before it, and equal
  to it as long as nothing was shifted), `SentSoFar` says what a quiet, suspended
  replay has covered. The running total is compared with a fold over the events
  held. That the fold's recursion is defined on every finite set, computes the same
  in any order, and adds up over sets that share nothing is proved here
  (`RecExists`, `TotalRemove`, `TotalUnion`); with it, what an eviction takes off and
  what an event adds keep the total exact. Assumed: sizes are naturals.
- **`TasksProofs`**: `TypeCorrect`, `RunsAreKept`, `Implementation`. The refinement maps
  a task to "gone" from the moment its hour is over: the sweep, which the code
  leaves to the next access, is a stutter, and every answer is given from the
  store after a sweep, so it is true of the mapped state. The invariant says which
  entries, runs and requests can stand together.
- **`UserTokensProofs`**: `TypeCorrect`, `LinkKept`, `UnlinkKept`. The invariant:
  a replica shares one refresh and knows whose it is (`Shared`); the unsaved token of
  a callback is known to nobody else (`Unsaved`); while a link is wished for and
  nothing excuses its loss, at most one refresh is under way, with the stored token
  (`Linked`); after an unlink that nothing excuses none is, so that nothing can save
  a token but a callback (`Unlinked`).
  Of the provider: `ProviderTypeCorrect`, `CachedSecretsCurrent`, `LoginSurvives`,
  `RestartLossReported`. That several grants redeem one refresh token does no harm,
  because a rotated token is known to its grant alone until it is kept (`Unkept`): no
  other grant can spend it, so that what the process keeps last is accepted, in
  whatever order the answers come. The same holds of a login's token until the next
  start (`Waiting`). Until the secrets change, grants use those there are
  (`UnderCurrent`). Assumed: the bounds are numbers.
- **`UpdateSetsProofs`**: `TypeCorrect`, `SetKept`, `Restored`. The calls present
  form a queue through the promises they wait for, and only the first is at work;
  `Shaped` says what a call at each step has still to do and to undo, `Followed`
  that undoing it leads back to what it found.
- **`RecordWatchProofs`**: `TypeCorrect`, `CapsHold`, `NoneStays`. The maps list
  live watches, a live watch is entered in its session's map unless `crossed`,
  and a session with a watch is hooked. The cap of a session follows by an injection
  from its polled watches to the records its map lists.
  Of the paged reads: `FetchTypeCorrect`, `RowsComeOnce`, `FiguresAreTrue`. Rows are
  ranked among those that match, and a window is an interval of ranks; that ranks are
  distinct, leave no gap, and how an insert or a delete moves them is proved first.
  What was returned lies before the next window (`Behind`), what stays and was not
  returned in it or past it (`NoneSkipped`), so no row comes twice (`NoneTwice`); a
  server that ignores the position is caught by its second page (`Stuck`). On a table
  left alone, `Figures` counts the withheld rows window by window; past a cursor the
  sum is not exact any more, and the figure rests on the settlement at the end.
  Assumed: page size, cap and scan factor are positive (settings and inputs
  declared positive, a constant of `api/table.ts`).
  Of the schema cache: `CacheTypeCorrect`, `CacheIsBounded`, `UsedEntriesStay`,
  `CachedReadsCurrent`. That the first of the Map is the least recently used is
  `UsedBehind`: who comes after an entry was used since it was. So an entry that gives
  way from a full Map had all other places used after it. Assumed: the cap is
  positive.
- **`RevertsProofs`**: `Invariance`, `TypeCorrect`, `ChainVerifies`,
  `TamperingIsEvident`, `UndoneAtMostOnce`, `NothingIsErasedSilently`. As long as all went
  well the journal verifies and the head is the hash of its last line (`Sound`). That
  a break stays evident is not inductive as it stands, because appends go on and
  files rotate over the place where it is. `BreakIsKept` says why it cannot be healed:
  there is a set of hashes that holds the head's and not that of an empty journal, and is
  closed under going back from a line to the one before; a journal that verified
  would lead along its lines, all of them in the set, to a first line that is not.
  For reverts: a line keeps, as history, the record its write left (`left`). While the
  record is that one, its mod count is at least that of `left`, and equal only if
  every field is the same (`CountsAreTrue`); an unforced revert at its write has
  compared a count, or some of the written fields, with what it read
  (`DriftWasChecked`). So a count that tells (`CountTells`: of the same record, and if
  it is an estimate not too high) vouches for the whole record, and a
  comparison of fields for these fields. Of a line that is
  not `blurred` at most one revert has ever come past the check (`UndoneOnce`). That a
  record created again is excepted matters beyond the bounds of the run only, where
  the re-creation and another change do not fit; that the estimate is, and that only
  what was compared is vouched for, matters in it.
  Assumed: a line of the older version has no id and so cannot be reverted, a record
  has a field, and a tool call is not a revert.

Two lemmas stand for induction, which the provers cannot apply as a rule:
`LeastNumber` (a set of numbers that is not empty has a least one) and `SmallestSet`
(a set of subsets of a finite set has one with none of the others inside) follow from
the library's well-founded orders as facts about sets. A proof by induction then
looks at the least counterexample.

Only model-checked: liveness (`WaitEnds`, `AllEnd`, `DiagnosticsEnd`,
`AllClosed`, `ReadersEnd`, `TurnsCome`, `ChangeTold`), since the prover has no
rules for fairness. Every safety property that a run checks is proved.

## 7. Not modelled

Within the modelled parts: other hosts, profiles and users (independent copies of
the same state), subjects of bearer tokens, the stateless 2026 HTTP leg, TLS and
origin checks, texts, headers, parsing, counters for telemetry, a second sweeper
tick during a sweep, the per-principal split of the plan store, who may see a
task, the sealing of the token file, several processes that write one journal,
before states of which single fields are redacted, and how a call finds the update set it is bound to. The
notes of the components in `PROJECT.json` have the full list.

The components without a module (settings and profiles, dispatchers, policy and
redaction, registry, resources and prompts, result shaping, the API analysers and document generators, tool
definitions, logging and tracing, command line, extension and scripts) make most of
the repository's lines and have no control of their own: they decide from their arguments,
produce text, or are sequences of requests whose hard part is the request
primitive.
