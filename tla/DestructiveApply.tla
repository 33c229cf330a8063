-------------------------- MODULE DestructiveApply --------------------------
(***************************************************************************)
(* A destructive write from the tool call to the journal: the gate         *)
(* confirmDestructiveApply (src/src/mcp/confirm.ts), the single-use plan   *)
(* tokens (plan-token.ts), the question to the user on both wires          *)
(* (input.ts) and journaledWrite with the session cap                      *)
(* (core/write-journal.ts), for concurrent calls of one session.           *)
(*                                                                         *)
(* A member of Args stands for a tool, a profile and the arguments a plan  *)
(* binds.  A token, and a question, is named by the call that issued it.   *)
(***************************************************************************)
EXTENDS Naturals, FiniteSets, FiniteSetsExt

CONSTANTS
  Calls,       \* tool calls; each is made once
  Args,        \* what a call asks for
  Weight,      \* how many writes each of Args counts for
  None,        \* no token, no question
  Modes,       \* the settings and clients looked at, see ModeType
  MaxPlans,    \* PLAN_TOKEN_MAX
  MaxWrites,   \* SN_MAX_WRITES_PER_SESSION, SN_MAX_DELETES_PER_SESSION
  MaxInFlight  \* bound: calls the client has under way at once

ModeType == [apply : BOOLEAN,    \* SN_WRITE_MODE=apply
             prod : BOOLEAN,     \* the profile is marked prod
             confirm : {"off", "token", "elicit"}, \* SN_DESTRUCTIVE_CONFIRM
             modern : BOOLEAN,   \* the 2026-07-28 wire
             elicits : BOOLEAN]  \* the client can be asked

ASSUME CallsAssumption == None \notin Calls /\ IsFiniteSet(Calls)
ASSUME ModesAssumption == Modes \subseteq ModeType
ASSUME PlansAssumption == MaxPlans \in Nat \ {0}
ASSUME CapAssumption == MaxWrites \in Nat /\ Weight \in [Args -> Nat]
\* A batch and an import take at most so many writes.
ASSUME HeaviestAssumption == \E a \in Args : \A b \in Args : Weight[b] <= Weight[a]
ASSUME InFlightAssumption == MaxInFlight \in Nat \ {0}

VARIABLES
  mode,     \* the mode of this session, fixed
  \* each call
  pc,       \* where it is
  args,     \* what it asks for
  tok,      \* the plan token it came with
  ask,      \* the question whose answer let it through
  outcome,  \* the tool result
  \* the plan store
  plans,    \* tokens it holds
  expired,  \* tokens past SN_PLAN_TOKEN_TTL_SEC
  issuedAt, \* the order in which tokens were issued
  \* questions
  nonces,   \* questions (modern wire) whose state was not used yet
  said,     \* what the user answered
  \* the session and the instance
  used,     \* write-cap-usage
  journal,  \* the outcome journaled for a call
  landed    \* the instance carried the write out

callVars  == <<pc, args, tok, ask, outcome>>
planVars  == <<plans, expired, issuedAt>>
askVars   == <<nonces, said>>
writeVars == <<used, journal, landed>>
vars      == <<mode, callVars, planVars, askVars, writeVars>>

Outcomes == {"none", "preview", "applied", "failed", "notSent", "WRITE_CAP",
             "PLAN_REQUIRED", "PLAN_EXPIRED", "CONFIRM_REQUIRED",
             "CONFIRM_DECLINED", "input_required"}

\* The gate let the call through to the handler's write path.
Authorised(c) ==
  pc[c] \in {"preparing", "writing"} \/
  outcome[c] \in {"applied", "failed", "notSent", "WRITE_CAP"}

Init ==
  /\ mode \in Modes
  /\ pc       = [c \in Calls |-> "idle"]
  /\ args     \in [Calls -> Args]
  /\ tok      = [c \in Calls |-> None]
  /\ ask      = [c \in Calls |-> None]
  /\ outcome  = [c \in Calls |-> "none"]
  /\ plans    = {}
  /\ expired  = {}
  /\ issuedAt = [c \in Calls |-> 0]
  /\ nonces   = {}
  /\ said     = [c \in Calls |-> "none"]
  /\ used     = 0
  /\ journal  = [c \in Calls |-> "none"]
  /\ landed   = {}

------------------------------------------------------------------------------
(* Plan tokens. *)

\* checkPlanToken.
Matches(t, c) == t \in plans /\ t \notin expired /\ args[t] = args[c]

Mismatch(t, c) == IF t \in plans /\ t \in expired THEN "PLAN_EXPIRED" ELSE "PLAN_REQUIRED"

\* consumePlanToken: a match is used up, an expired plan is dropped, and any
\* other mismatch leaves the token valid.
Consume(t, c) ==
  plans' = IF Matches(t, c) \/ t \in expired THEN plans \ {t} ELSE plans

\* prune: expired plans go, then the oldest until there is room for one.
Pruned ==
  LET valid == plans \ expired IN
  {t \in valid : Cardinality({u \in valid : issuedAt[u] > issuedAt[t]}) < MaxPlans - 1}

------------------------------------------------------------------------------
(* What happens to a call.  A call is started by the action that decides its *)
(* first step; the gate itself does not wait.                                *)

Busy == {c \in Calls : pc[c] \notin {"idle", "done"}}

Starts(c) == pc[c] = "idle" /\ Cardinality(Busy) < MaxInFlight

Goes(c, where) == pc' = [pc EXCEPT ![c] = where] /\ UNCHANGED outcome

Ends(c, how) ==
  /\ pc' = [pc EXCEPT ![c] = "done"]
  /\ outcome' = [outcome EXCEPT ![c] = how]

InPlanMode == ~mode.apply

\* In apply mode only a prod profile is gated.
Gated == mode.confirm # "off" /\ (InPlanMode \/ mode.prod)

Asks == Gated /\ (mode.confirm = "elicit" \/ mode.apply)

\* The confirmation takes two rounds and the token goes in the second.
TwoRounds == mode.confirm = "elicit" /\ mode.modern

\* A plan preview: apply was not set, or (self-healing) no token came with it.
Preview(c) ==
  /\ Starts(c) /\ InPlanMode
  /\ Goes(c, "previewing")
  /\ UNCHANGED <<mode, args, tok, ask, planVars, askVars, writeVars>>

\* planPreview: the record was read; under SN_DESTRUCTIVE_CONFIRM a token goes
\* with the preview.
EndPreview(c) ==
  /\ pc[c] = "previewing"
  /\ Ends(c, "preview")
  /\ IF mode.confirm = "off"
       THEN UNCHANGED planVars
       ELSE /\ plans' = Pruned \cup {c}
            /\ issuedAt' = [issuedAt EXCEPT ![c] = Cardinality({u \in Calls : issuedAt[u] > 0}) + 1]
            /\ UNCHANGED expired
  /\ UNCHANGED <<mode, args, tok, ask, askVars, writeVars>>

\* An apply that no gate stands before.
ApplyFreely(c) ==
  /\ Starts(c) /\ ~Gated
  /\ Goes(c, "preparing")
  /\ UNCHANGED <<mode, args, tok, ask, planVars, askVars, writeVars>>

\* What a client can have for a token or a state: one it was given.
GivenTokens == {t \in Calls : issuedAt[t] > 0}
GivenStates == {q \in Calls : outcome[q] = "input_required"}

\* The token is consumed at once; then the user is asked, where that is
\* configured and the client can.
ApplyWithToken(c) ==
  /\ Starts(c) /\ Gated /\ InPlanMode /\ ~TwoRounds
  /\ \E t \in GivenTokens :
       /\ Consume(t, c)
       /\ IF Matches(t, c)
            THEN /\ tok' = [tok EXCEPT ![c] = t]
                 /\ Goes(c, IF Asks /\ mode.elicits THEN "asking" ELSE "preparing")
            ELSE Ends(c, Mismatch(t, c)) /\ UNCHANGED tok
  /\ UNCHANGED <<mode, args, ask, expired, issuedAt, askVars, writeVars>>

\* A prod profile in apply mode: the user's word is all there is.
ApplyOnProd(c) ==
  /\ Starts(c) /\ Gated /\ mode.apply /\ ~(mode.modern /\ mode.elicits)
  /\ IF mode.elicits THEN Goes(c, "asking") ELSE Ends(c, "CONFIRM_REQUIRED")
  /\ UNCHANGED <<mode, args, tok, ask, planVars, askVars, writeVars>>

Refuse(c) ==
  /\ Ends(c, "CONFIRM_DECLINED")
  /\ journal' = [journal EXCEPT ![c] = "refused"]

\* The 2025 wire: the prompt of a waiting call is answered, or fails.
Answered(c) ==
  /\ pc[c] = "asking"
  /\ \E word \in {"accept", "decline", "failed"} :
       /\ said' = [said EXCEPT ![c] = word]
       /\ IF word = "accept"
            THEN Goes(c, "preparing") /\ ask' = [ask EXCEPT ![c] = c] /\ UNCHANGED journal
            ELSE Refuse(c) /\ UNCHANGED ask
  /\ UNCHANGED <<mode, args, tok, planVars, nonces, used, landed>>

\* The 2026 wire.  The token, which prod in apply mode does not need, is only
\* checked: a mismatch ends the call and leaves token and question as they are.
Checked(c, t, go) ==
  IF InPlanMode /\ ~Matches(t, c)
    THEN Ends(c, Mismatch(t, c)) /\ UNCHANGED <<tok, ask, nonces>>
    ELSE tok' = [tok EXCEPT ![c] = t] /\ go

TokenChoices == IF InPlanMode THEN GivenTokens ELSE {None}

\* The question is minted and the call ends with it.
AskRound(c, spent) ==
  /\ nonces' = (nonces \ spent) \cup {c}
  /\ Ends(c, "input_required")
  /\ UNCHANGED ask

\* First round; a client that cannot be asked passes on its token alone.
ApplyModern(c) ==
  /\ Starts(c) /\ Gated /\ Asks /\ mode.modern
  /\ InPlanMode \/ mode.elicits
  /\ \E t \in TokenChoices :
       Checked(c, t, IF mode.elicits
                       THEN AskRound(c, {})
                       ELSE Goes(c, "accepted") /\ UNCHANGED <<ask, nonces>>)
  /\ UNCHANGED <<mode, args, planVars, said, writeVars>>

\* Mutant: a state may be used again.
Acceptable_Replayed(q, c, t) == args[q] = args[c] /\ tok[q] = t

\* The state was minted for these arguments (the token among them) and this is
\* its first use.
Acceptable(q, c, t) == q \in nonces /\ args[q] = args[c] /\ tok[q] = t

\* Next round: the client repeats the call with a state and, perhaps, the
\* user's answer to it.  The state is spent on first sight.
Retry(c) ==
  /\ Starts(c) /\ Gated /\ Asks /\ mode.modern /\ mode.elicits
  /\ \E t \in TokenChoices, q \in GivenStates :
       Checked(c, t,
         IF Acceptable(q, c, t) /\ said[q] = "none"
           THEN AskRound(c, {q})
           ELSE /\ nonces' = nonces \ {q}
                /\ Goes(c, IF Acceptable(q, c, t) /\ said[q] = "accept"
                             THEN "accepted" ELSE "rejected")
                /\ ask' = [ask EXCEPT ![c] = q])
  /\ UNCHANGED <<mode, args, planVars, said, writeVars>>

\* Mutant: the check of the first part is trusted.
Decide_TrustsCheck(c) ==
  /\ pc[c] \in {"accepted", "rejected"}
  /\ IF InPlanMode THEN Consume(tok[c], c) ELSE UNCHANGED plans
  /\ IF pc[c] = "rejected"
       THEN Refuse(c)
       ELSE Goes(c, "preparing") /\ UNCHANGED journal
  /\ UNCHANGED <<mode, args, tok, ask, expired, issuedAt, askVars, used, landed>>

\* Mutant: a refused confirmation leaves the plan valid.
Decide_DeclineKeepsPlan(c) ==
  /\ pc[c] \in {"accepted", "rejected"}
  /\ IF InPlanMode /\ pc[c] = "accepted" THEN Consume(tok[c], c) ELSE UNCHANGED plans
  /\ IF pc[c] = "rejected"
       THEN Refuse(c)
       ELSE /\ IF InPlanMode /\ ~Matches(tok[c], c)
                 THEN Ends(c, Mismatch(tok[c], c))
                 ELSE Goes(c, "preparing")
            /\ UNCHANGED journal
  /\ UNCHANGED <<mode, args, tok, ask, expired, issuedAt, askVars, used, landed>>

\* Back from the await: any answer ends the plan, and a plan that was used or
\* ended meanwhile refuses the call.
Decide(c) ==
  /\ pc[c] \in {"accepted", "rejected"}
  /\ IF InPlanMode THEN Consume(tok[c], c) ELSE UNCHANGED plans
  /\ IF pc[c] = "rejected"
       THEN Refuse(c)
       ELSE /\ IF InPlanMode /\ ~Matches(tok[c], c)
                 THEN Ends(c, Mismatch(tok[c], c))
                 ELSE Goes(c, "preparing")
            /\ UNCHANGED journal
  /\ UNCHANGED <<mode, args, tok, ask, expired, issuedAt, askVars, used, landed>>

------------------------------------------------------------------------------
(* The write. *)

\* A precondition (expected_mod_count, the SDK guard, the update set) fails.
NotSent(c) ==
  /\ pc[c] = "preparing"
  /\ Ends(c, "notSent")
  /\ UNCHANGED <<mode, args, tok, ask, planVars, askVars, writeVars>>

\* Mutant: the cap is compared with what is used already.
PastCap_WithoutThisCall(c) == MaxWrites > 0 /\ used > MaxWrites

\* assertWriteCap; 0 is no cap, and a call that weighs nothing always passes.
PastCap(c) ==
  MaxWrites > 0 /\ Weight[args[c]] > 0 /\ used + Weight[args[c]] > MaxWrites

SendWrite(c) ==
  /\ pc[c] = "preparing"
  /\ IF PastCap(c)
       THEN Ends(c, "WRITE_CAP") /\ journal' = [journal EXCEPT ![c] = "refused"]
       ELSE Goes(c, "writing") /\ UNCHANGED journal
  /\ UNCHANGED <<mode, args, tok, ask, planVars, askVars, used, landed>>

Applied(c) ==
  /\ pc[c] = "writing"
  /\ Ends(c, "applied")
  /\ landed' = landed \cup {c}
  /\ journal' = [journal EXCEPT ![c] = "applied"]
  /\ used' = used + Weight[args[c]]
  /\ UNCHANGED <<mode, args, tok, ask, planVars, askVars>>

\* Mutant: a write that fails is not journaled.
Failed_Unjournaled(c) ==
  /\ pc[c] = "writing"
  /\ Ends(c, "failed")
  /\ landed' \in {landed, landed \cup {c}}
  /\ UNCHANGED <<mode, args, tok, ask, planVars, askVars, used, journal>>

\* A 403 is journaled as a refusal.  A failed write may have landed.
Failed(c) ==
  /\ pc[c] = "writing"
  /\ Ends(c, "failed")
  /\ \/ journal' = [journal EXCEPT ![c] = "failed"] /\ landed' \in {landed, landed \cup {c}}
     \/ journal' = [journal EXCEPT ![c] = "refused"] /\ UNCHANGED landed
  /\ UNCHANGED <<mode, args, tok, ask, planVars, askVars, used>>

------------------------------------------------------------------------------
(* Time and the user. *)

\* Every token lives equally long: they expire in the order of issue.
PlanExpires ==
  /\ \E t \in plans \ expired :
       /\ \A u \in plans \ expired : issuedAt[t] <= issuedAt[u]
       /\ expired' = expired \cup {t}
  /\ UNCHANGED <<mode, callVars, plans, issuedAt, askVars, writeVars>>

\* A state expires, or newer questions crowd it out (INPUT_NONCE_MAX).
StateLapses ==
  /\ \E q \in nonces : nonces' = nonces \ {q}
  /\ UNCHANGED <<mode, callVars, planVars, said, writeVars>>

UserAnswers ==
  /\ \E q \in GivenStates, word \in {"accept", "decline"} :
       said[q] = "none" /\ said' = [said EXCEPT ![q] = word]
  /\ UNCHANGED <<mode, callVars, planVars, nonces, writeVars>>

Step(c) ==
  \/ Preview(c) \/ EndPreview(c) \/ ApplyFreely(c) \/ ApplyWithToken(c)
  \/ ApplyOnProd(c) \/ Answered(c) \/ ApplyModern(c) \/ Retry(c) \/ Decide(c)
  \/ NotSent(c) \/ SendWrite(c) \/ Applied(c) \/ Failed(c)

Next ==
  \/ \E c \in Calls : Step(c)
  \/ PlanExpires \/ StateLapses \/ UserAnswers

Spec == Init /\ [][Next]_vars

------------------------------------------------------------------------------
(* Properties. *)

NeedsPlan == Gated /\ InPlanMode

TypeOK ==
  /\ mode \in Modes
  /\ pc \in [Calls -> {"idle", "previewing", "asking", "accepted", "rejected",
                       "preparing", "writing", "done"}]
  /\ args \in [Calls -> Args]
  /\ tok \in [Calls -> Calls \cup {None}]
  /\ ask \in [Calls -> Calls \cup {None}]
  /\ outcome \in [Calls -> Outcomes]
  /\ issuedAt \in [Calls -> Nat]
  /\ plans \subseteq GivenTokens /\ expired \subseteq GivenTokens
  /\ nonces \subseteq GivenStates
  /\ said \in [Calls -> {"none", "accept", "decline", "failed"}]
  /\ used \in Nat
  /\ journal \in [Calls -> {"none", "applied", "failed", "refused"}]
  /\ landed \subseteq Calls

\* Where a plan is required, every write the gate let through was previewed
\* with the same arguments, and no other write was let through on that preview:
\* whatever the client repeats, in whatever order, on either wire.
OneWritePerPlan ==
  NeedsPlan =>
    \A c \in Calls : Authorised(c) =>
      /\ tok[c] \in Calls
      /\ outcome[tok[c]] = "preview" /\ args[tok[c]] = args[c]
      /\ \A d \in Calls \ {c} : Authorised(d) => tok[d] # tok[c]

\* Where the user is asked, every write the gate let through has a yes of its
\* own, to a question about the same arguments: a replayed state, an answer to
\* another question or a failed prompt is no yes, and a client that cannot be
\* asked never gets a write through on a prod profile in apply mode.
OneWritePerYes ==
  Asks /\ (mode.elicits \/ mode.apply) =>
    \A c \in Calls : Authorised(c) =>
      /\ ask[c] \in Calls
      /\ said[ask[c]] = "accept" /\ args[ask[c]] = args[c]
      /\ \A d \in Calls \ {c} : Authorised(d) => ask[d] # ask[c]

\* Once a confirmation was refused, its plan lets no write through any more.
RefusalEndsPlan ==
  [][NeedsPlan =>
       \A c, d \in Calls :
         outcome[d] = "CONFIRM_DECLINED" /\ tok[d] = tok[c]' /\ ~Authorised(c)
           => ~Authorised(c)']_vars

\* The journal tells what happened: whatever landed has a line, a line
\* "applied" is true, and nothing has a line of a write that the gate stopped.
JournalHonest ==
  \A c \in Calls :
    /\ c \in landed /\ pc[c] = "done" => journal[c] \in {"applied", "failed"}
    /\ journal[c] = "applied" => c \in landed
    /\ journal[c] \in {"applied", "failed"} => Authorised(c)

\* No write weighs more.
Heaviest == CHOOSE w \in {Weight[a] : a \in Args} : \A a \in Args : Weight[a] <= w

\* A client that has at most n calls under way at once passes the cap by at most
\* n - 1 of the heaviest writes: the ones checked before the others were charged.
OvershootBounded ==
  MaxWrites > 0 => used <= MaxWrites + (MaxInFlight - 1) * Heaviest

=============================================================================
