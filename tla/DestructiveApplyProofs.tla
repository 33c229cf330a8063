----------------------- MODULE DestructiveApplyProofs -----------------------
(***************************************************************************)
(* Proofs about DestructiveApply, for any finite set of calls, any modes,  *)
(* any limit of the plan store, any cap and any number of calls in flight. *)
(***************************************************************************)
EXTENDS DestructiveApply, FiniteSetTheorems, TLAPS

\* The call has used up its token: it was let through, or it waits for the
\* prompt that follows.
Holds(c) == Authorised(c) \/ pc[c] = "asking"

\* The call has its yes: it was let through, or is about to be.
Cleared(c) == Authorised(c) \/ pc[c] = "accepted"

\* A call has a result exactly when it is done, only previews issue tokens, and
\* which wire a waiting call is on.
CallsWellFormed ==
  /\ \A c \in Calls : pc[c] = "done" <=> outcome[c] # "none"
  /\ \A t \in Calls : issuedAt[t] > 0 => outcome[t] = "preview"
  /\ \A c \in Calls : pc[c] = "asking" => ~mode.modern
  /\ \A c \in Calls : pc[c] \in {"accepted", "rejected"} => mode.modern

\* A held token was previewed with these arguments, is out of the store, and
\* has one holder.
TokensHeldOnce ==
  NeedsPlan =>
    \A c \in Calls : Holds(c) =>
      /\ tok[c] \in Calls \ plans
      /\ issuedAt[tok[c]] > 0 /\ args[tok[c]] = args[c]
      /\ \A d \in Calls \ {c} : Holds(d) => tok[d] # tok[c]

\* A yes is to a question about these arguments, cannot be given again (its
\* state is spent, or it was this call's own prompt), and clears one call.
YesesHeldOnce ==
  Asks /\ mode.elicits =>
    \A c \in Calls : Cleared(c) =>
      /\ ask[c] \in Calls \ nonces
      /\ said[ask[c]] = "accept" /\ args[ask[c]] = args[c]
      /\ IF mode.modern THEN outcome[ask[c]] = "input_required" ELSE ask[c] = c
      /\ \A d \in Calls \ {c} : Cleared(d) => ask[d] # ask[c]

\* A refused plan is out of the store for good, and on the wire where the
\* refusal is the answer to a prompt nobody else holds it.
RefusedAreSpent ==
  NeedsPlan =>
    /\ \A c \in Calls : pc[c] \in {"accepted", "rejected"} =>
         tok[c] \in GivenTokens /\ args[tok[c]] = args[c]
    /\ \A d \in Calls : outcome[d] = "CONFIRM_DECLINED" =>
         /\ tok[d] \in GivenTokens \ plans
         /\ ~mode.modern => \A c \in Calls : Holds(c) => tok[c] # tok[d]

\* On a prod profile in apply mode nothing moves for a client that cannot be
\* asked.
ProdHeld ==
  Gated /\ mode.apply /\ ~mode.elicits =>
    \A c \in Calls : ~Authorised(c) /\ pc[c] \notin {"asking", "accepted"}

\* A call that is not over has neither landed nor been journaled.
WritesRecorded ==
  /\ JournalHonest
  /\ \A c \in Calls : pc[c] # "done" => c \notin landed /\ journal[c] = "none"

\* The inductive invariant.  That a plan lets one write through is not
\* inductive: a call that waits for the user holds its token already, and a
\* token must not come back to the store once it is held.
IInv ==
  /\ TypeOK
  /\ CallsWellFormed
  /\ TokensHeldOnce
  /\ YesesHeldOnce
  /\ RefusedAreSpent
  /\ ProdHeld
  /\ WritesRecorded

USE CallsAssumption, ModesAssumption, CapAssumption
------------------------------------------------------------------------------
(* The invariant holds initially and every step of a call preserves it. *)

LEMMA InitIInv == Init => IInv
  BY DEF Init, IInv, TypeOK, CallsWellFormed, TokensHeldOnce, YesesHeldOnce, RefusedAreSpent,
         ProdHeld, WritesRecorded, JournalHonest, Holds, Cleared, Authorised, Outcomes,
         GivenTokens, GivenStates

\* A preview starts.
LEMMA PreviewStep ==
  ASSUME IInv, NEW c \in Calls, Preview(c)
  PROVE  IInv'
<1> USE DEF IInv, Preview, Starts, Goes, callVars, planVars, askVars, writeVars, InPlanMode, Outcomes
<1>1. TypeOK'
  BY DEF TypeOK, GivenTokens, GivenStates, Authorised, CallsWellFormed
<1>2. CallsWellFormed'
  BY DEF TypeOK, CallsWellFormed, Authorised, GivenTokens
<1>3. TokensHeldOnce'
  BY DEF TypeOK, CallsWellFormed, TokensHeldOnce, Holds, Authorised, NeedsPlan, Gated, Asks, GivenTokens
<1>4. YesesHeldOnce'
  BY DEF TypeOK, CallsWellFormed, YesesHeldOnce, Cleared, Authorised, Gated, Asks, GivenStates
<1>5. RefusedAreSpent'
  BY DEF TypeOK, CallsWellFormed, TokensHeldOnce, RefusedAreSpent, Holds, Authorised, NeedsPlan,
         Gated, Asks, GivenTokens
<1>6. ProdHeld'
  BY DEF TypeOK, CallsWellFormed, ProdHeld, Authorised, Gated, Asks
<1>7. WritesRecorded'
  BY DEF TypeOK, CallsWellFormed, WritesRecorded, JournalHonest, Authorised
<1> QED
  BY <1>1, <1>2, <1>3, <1>4, <1>5, <1>6, <1>7

\* A token is issued: it is nobody's yet, since its call had no result.
LEMMA EndPreviewStep ==
  ASSUME IInv, NEW c \in Calls, EndPreview(c)
  PROVE  IInv'
<1>a. outcome[c] = "none" /\ issuedAt[c] = 0 /\ pc[c] = "previewing"
  BY DEF EndPreview, IInv, TypeOK, CallsWellFormed
<1>b. Cardinality({u \in Calls : issuedAt[u] > 0}) \in Nat
  <2> DEFINE issued == {u \in Calls : issuedAt[u] > 0}
  <2>1. issued \in SUBSET Calls
    OBVIOUS
  <2>2. IsFiniteSet(issued)
    BY <2>1, FS_Subset, CallsAssumption
  <2> HIDE DEF issued
  <2>3. Cardinality(issued) \in Nat
    BY <2>2, FS_CardinalityType
  <2> QED
    BY <2>3 DEF issued
<1>c. Pruned \subseteq plans
  BY DEF Pruned
<1>d. PICK n \in Nat : n = Cardinality({u \in Calls : issuedAt[u] > 0})
  BY <1>b
<1>e. /\ pc' = [pc EXCEPT ![c] = "done"]
      /\ outcome' = [outcome EXCEPT ![c] = "preview"]
      /\ \/ UNCHANGED <<plans, issuedAt, expired>>
         \/ /\ issuedAt' = [issuedAt EXCEPT ![c] = n + 1]
            /\ c \in plans' /\ plans' \subseteq plans \cup {c}
            /\ UNCHANGED expired
      /\ UNCHANGED <<mode, args, tok, ask, nonces, said, used, journal, landed>>
  <2> HIDE DEF Pruned
  <2> QED
    BY <1>c, <1>d DEF EndPreview, Ends, planVars, askVars, writeVars
<1> HIDE DEF EndPreview
<1> USE DEF IInv, InPlanMode, Outcomes
<1>1. TypeOK'
  BY <1>a, <1>e DEF TypeOK, GivenTokens, GivenStates, Authorised, CallsWellFormed
<1>2. CallsWellFormed'
  BY <1>a, <1>e DEF TypeOK, CallsWellFormed, Authorised, GivenTokens
<1>3. TokensHeldOnce'
  BY <1>a, <1>e DEF TypeOK, CallsWellFormed, TokensHeldOnce, Holds, Authorised, NeedsPlan, Gated, Asks, GivenTokens
<1>4. YesesHeldOnce'
  BY <1>a, <1>e DEF TypeOK, CallsWellFormed, YesesHeldOnce, Cleared, Authorised, Gated, Asks, GivenStates
<1>5. RefusedAreSpent'
  BY <1>a, <1>e DEF TypeOK, CallsWellFormed, TokensHeldOnce, RefusedAreSpent, Holds, Authorised, NeedsPlan,
         Gated, Asks, GivenTokens
<1>6. ProdHeld'
  BY <1>a, <1>e DEF TypeOK, CallsWellFormed, ProdHeld, Authorised, Gated, Asks
<1>7. WritesRecorded'
  BY <1>a, <1>e DEF TypeOK, CallsWellFormed, WritesRecorded, JournalHonest, Authorised
<1> QED
  BY <1>1, <1>2, <1>3, <1>4, <1>5, <1>6, <1>7

\* No gate: no plan and no question is involved.
LEMMA ApplyFreelyStep ==
  ASSUME IInv, NEW c \in Calls, ApplyFreely(c)
  PROVE  IInv'
<1> USE DEF IInv, ApplyFreely, Starts, Goes, Gated, callVars, planVars, askVars, writeVars, InPlanMode, Outcomes
<1>1. TypeOK'
  BY DEF TypeOK, GivenTokens, GivenStates, Authorised, CallsWellFormed
<1>2. CallsWellFormed'
  BY DEF TypeOK, CallsWellFormed, Authorised, GivenTokens
<1>3. TokensHeldOnce'
  BY DEF TypeOK, CallsWellFormed, TokensHeldOnce, Holds, Authorised, NeedsPlan, Gated, Asks, GivenTokens
<1>4. YesesHeldOnce'
  BY DEF TypeOK, CallsWellFormed, YesesHeldOnce, Cleared, Authorised, Gated, Asks, GivenStates
<1>5. RefusedAreSpent'
  BY DEF TypeOK, CallsWellFormed, TokensHeldOnce, RefusedAreSpent, Holds, Authorised, NeedsPlan,
         Gated, Asks, GivenTokens
<1>6. ProdHeld'
  BY DEF TypeOK, CallsWellFormed, ProdHeld, Authorised, Gated, Asks
<1>7. WritesRecorded'
  BY DEF TypeOK, CallsWellFormed, WritesRecorded, JournalHonest, Authorised
<1> QED
  BY <1>1, <1>2, <1>3, <1>4, <1>5, <1>6, <1>7

\* The token was in the store, so nobody held it; now it is out.
LEMMA ApplyWithTokenStep ==
  ASSUME IInv, NEW c \in Calls, ApplyWithToken(c)
  PROVE  IInv'
<1> USE DEF IInv, ApplyWithToken, Starts, Goes, Ends, Gated, Asks, TwoRounds, Consume, Matches, Mismatch, callVars, planVars, askVars, writeVars, InPlanMode, Outcomes
<1>1. TypeOK'
  BY DEF TypeOK, GivenTokens, GivenStates, Authorised, CallsWellFormed
<1>2. CallsWellFormed'
  BY DEF TypeOK, CallsWellFormed, Authorised, GivenTokens
<1>3. TokensHeldOnce'
  BY DEF TypeOK, CallsWellFormed, TokensHeldOnce, Holds, Authorised, NeedsPlan, Gated, Asks, GivenTokens
<1>4. YesesHeldOnce'
  BY DEF TypeOK, CallsWellFormed, YesesHeldOnce, Cleared, Authorised, Gated, Asks, GivenStates
<1>5. RefusedAreSpent'
  BY DEF TypeOK, CallsWellFormed, TokensHeldOnce, RefusedAreSpent, Holds, Authorised, NeedsPlan,
         Gated, Asks, GivenTokens
<1>6. ProdHeld'
  BY DEF TypeOK, CallsWellFormed, ProdHeld, Authorised, Gated, Asks
<1>7. WritesRecorded'
  BY DEF TypeOK, CallsWellFormed, WritesRecorded, JournalHonest, Authorised
<1> QED
  BY <1>1, <1>2, <1>3, <1>4, <1>5, <1>6, <1>7

\* Prod in apply mode.
LEMMA ApplyOnProdStep ==
  ASSUME IInv, NEW c \in Calls, ApplyOnProd(c)
  PROVE  IInv'
<1> USE DEF IInv, ApplyOnProd, Starts, Goes, Ends, Gated, Asks, callVars, planVars, askVars, writeVars, InPlanMode, Outcomes
<1>1. TypeOK'
  BY DEF TypeOK, GivenTokens, GivenStates, Authorised, CallsWellFormed
<1>2. CallsWellFormed'
  BY DEF TypeOK, CallsWellFormed, Authorised, GivenTokens
<1>3. TokensHeldOnce'
  BY DEF TypeOK, CallsWellFormed, TokensHeldOnce, Holds, Authorised, NeedsPlan, Gated, Asks, GivenTokens
<1>4. YesesHeldOnce'
  BY DEF TypeOK, CallsWellFormed, YesesHeldOnce, Cleared, Authorised, Gated, Asks, GivenStates
<1>5. RefusedAreSpent'
  BY DEF TypeOK, CallsWellFormed, TokensHeldOnce, RefusedAreSpent, Holds, Authorised, NeedsPlan,
         Gated, Asks, GivenTokens
<1>6. ProdHeld'
  BY DEF TypeOK, CallsWellFormed, ProdHeld, Authorised, Gated, Asks
<1>7. WritesRecorded'
  BY DEF TypeOK, CallsWellFormed, WritesRecorded, JournalHonest, Authorised
<1> QED
  BY <1>1, <1>2, <1>3, <1>4, <1>5, <1>6, <1>7

\* The prompt is answered: the call holds its token already.
LEMMA AnsweredStep ==
  ASSUME IInv, NEW c \in Calls, Answered(c)
  PROVE  IInv'
<1> USE DEF IInv, Answered, Goes, Ends, Refuse, callVars, planVars, askVars, writeVars, InPlanMode, Outcomes
<1>1. TypeOK'
  BY DEF TypeOK, GivenTokens, GivenStates, Authorised, CallsWellFormed
<1>2. CallsWellFormed'
  BY DEF TypeOK, CallsWellFormed, Authorised, GivenTokens
<1>3. TokensHeldOnce'
  BY DEF TypeOK, CallsWellFormed, TokensHeldOnce, Holds, Authorised, NeedsPlan, Gated, Asks, GivenTokens
<1>4. YesesHeldOnce'
  BY DEF TypeOK, CallsWellFormed, YesesHeldOnce, Cleared, Authorised, Gated, Asks, GivenStates
<1>5. RefusedAreSpent'
  BY DEF TypeOK, CallsWellFormed, TokensHeldOnce, RefusedAreSpent, Holds, Authorised, NeedsPlan,
         Gated, Asks, GivenTokens
<1>6. ProdHeld'
  BY DEF TypeOK, CallsWellFormed, ProdHeld, Authorised, Gated, Asks
<1>7. WritesRecorded'
  BY DEF TypeOK, CallsWellFormed, WritesRecorded, JournalHonest, Authorised
<1> QED
  BY <1>1, <1>2, <1>3, <1>4, <1>5, <1>6, <1>7

\* First round: nothing is used up.
LEMMA ApplyModernStep ==
  ASSUME IInv, NEW c \in Calls, ApplyModern(c)
  PROVE  IInv'
<1> USE DEF IInv, ApplyModern, Starts, Goes, Ends, Gated, Asks, Checked, TokenChoices, AskRound, Matches, Mismatch, callVars, planVars, askVars, writeVars, InPlanMode, Outcomes
<1>1. TypeOK'
  BY DEF TypeOK, GivenTokens, GivenStates, Authorised, CallsWellFormed
<1>2. CallsWellFormed'
  BY DEF TypeOK, CallsWellFormed, Authorised, GivenTokens
<1>3. TokensHeldOnce'
  BY DEF TypeOK, CallsWellFormed, TokensHeldOnce, Holds, Authorised, NeedsPlan, Gated, Asks, GivenTokens
<1>4. YesesHeldOnce'
  BY DEF TypeOK, CallsWellFormed, YesesHeldOnce, Cleared, Authorised, Gated, Asks, GivenStates
<1>5. RefusedAreSpent'
  BY DEF TypeOK, CallsWellFormed, TokensHeldOnce, RefusedAreSpent, Holds, Authorised, NeedsPlan,
         Gated, Asks, GivenTokens
<1>6. ProdHeld'
  BY DEF TypeOK, CallsWellFormed, ProdHeld, Authorised, Gated, Asks
<1>7. WritesRecorded'
  BY DEF TypeOK, CallsWellFormed, WritesRecorded, JournalHonest, Authorised
<1> QED
  BY <1>1, <1>2, <1>3, <1>4, <1>5, <1>6, <1>7

\* A later round: the state was unused, so its yes was nobody's; now it is spent.
LEMMA RetryStep ==
  ASSUME IInv, NEW c \in Calls, Retry(c)
  PROVE  IInv'
<1> USE DEF IInv, Retry, Starts, Goes, Ends, Gated, Asks, Checked, TokenChoices, AskRound, GivenStates, Acceptable, Matches, Mismatch, callVars, planVars, askVars, writeVars, InPlanMode, Outcomes
<1>1. TypeOK'
  BY DEF TypeOK, GivenTokens, GivenStates, Authorised, CallsWellFormed
<1>2. CallsWellFormed'
  BY DEF TypeOK, CallsWellFormed, Authorised, GivenTokens
<1>3. TokensHeldOnce'
  BY DEF TypeOK, CallsWellFormed, TokensHeldOnce, Holds, Authorised, NeedsPlan, Gated, Asks, GivenTokens
<1>4. YesesHeldOnce'
  BY DEF TypeOK, CallsWellFormed, YesesHeldOnce, Cleared, Authorised, Gated, Asks, GivenStates
<1>5. RefusedAreSpent'
  BY DEF TypeOK, CallsWellFormed, TokensHeldOnce, RefusedAreSpent, Holds, Authorised, NeedsPlan,
         Gated, Asks, GivenTokens
<1>6. ProdHeld'
  BY DEF TypeOK, CallsWellFormed, ProdHeld, Authorised, Gated, Asks
<1>7. WritesRecorded'
  BY DEF TypeOK, CallsWellFormed, WritesRecorded, JournalHonest, Authorised
<1> QED
  BY <1>1, <1>2, <1>3, <1>4, <1>5, <1>6, <1>7

\* The token is consumed only if it is still in the store, so nobody held it.
LEMMA DecideStep ==
  ASSUME IInv, NEW c \in Calls, Decide(c)
  PROVE  IInv'
<1> USE DEF IInv, Decide, Goes, Ends, Refuse, Consume, Matches, Mismatch, callVars, planVars, askVars, writeVars, InPlanMode, Outcomes
<1>1. TypeOK'
  BY DEF TypeOK, GivenTokens, GivenStates, Authorised, CallsWellFormed
<1>2. CallsWellFormed'
  BY DEF TypeOK, CallsWellFormed, Authorised, GivenTokens
<1>3. TokensHeldOnce'
  BY DEF TypeOK, CallsWellFormed, TokensHeldOnce, Holds, Authorised, NeedsPlan, Gated, Asks, GivenTokens
<1>4. YesesHeldOnce'
  BY DEF TypeOK, CallsWellFormed, YesesHeldOnce, Cleared, Authorised, Gated, Asks, GivenStates
<1>5. RefusedAreSpent'
  BY DEF TypeOK, CallsWellFormed, TokensHeldOnce, RefusedAreSpent, Holds, Authorised, NeedsPlan,
         Gated, Asks, GivenTokens
<1>6. ProdHeld'
  BY DEF TypeOK, CallsWellFormed, ProdHeld, Authorised, Gated, Asks
<1>7. WritesRecorded'
  BY DEF TypeOK, CallsWellFormed, WritesRecorded, JournalHonest, Authorised
<1> QED
  BY <1>1, <1>2, <1>3, <1>4, <1>5, <1>6, <1>7

\* A precondition fails.
LEMMA NotSentStep ==
  ASSUME IInv, NEW c \in Calls, NotSent(c)
  PROVE  IInv'
<1> USE DEF IInv, NotSent, Ends, callVars, planVars, askVars, writeVars, InPlanMode, Outcomes
<1>1. TypeOK'
  BY DEF TypeOK, GivenTokens, GivenStates, Authorised, CallsWellFormed
<1>2. CallsWellFormed'
  BY DEF TypeOK, CallsWellFormed, Authorised, GivenTokens
<1>3. TokensHeldOnce'
  BY DEF TypeOK, CallsWellFormed, TokensHeldOnce, Holds, Authorised, NeedsPlan, Gated, Asks, GivenTokens
<1>4. YesesHeldOnce'
  BY DEF TypeOK, CallsWellFormed, YesesHeldOnce, Cleared, Authorised, Gated, Asks, GivenStates
<1>5. RefusedAreSpent'
  BY DEF TypeOK, CallsWellFormed, TokensHeldOnce, RefusedAreSpent, Holds, Authorised, NeedsPlan,
         Gated, Asks, GivenTokens
<1>6. ProdHeld'
  BY DEF TypeOK, CallsWellFormed, ProdHeld, Authorised, Gated, Asks
<1>7. WritesRecorded'
  BY DEF TypeOK, CallsWellFormed, WritesRecorded, JournalHonest, Authorised
<1> QED
  BY <1>1, <1>2, <1>3, <1>4, <1>5, <1>6, <1>7

\* The write is sent or capped.
LEMMA SendWriteStep ==
  ASSUME IInv, NEW c \in Calls, SendWrite(c)
  PROVE  IInv'
<1> USE DEF IInv, SendWrite, Goes, Ends, PastCap, callVars, planVars, askVars, writeVars, InPlanMode, Outcomes
<1>1. TypeOK'
  BY DEF TypeOK, GivenTokens, GivenStates, Authorised, CallsWellFormed
<1>2. CallsWellFormed'
  BY DEF TypeOK, CallsWellFormed, Authorised, GivenTokens
<1>3. TokensHeldOnce'
  BY DEF TypeOK, CallsWellFormed, TokensHeldOnce, Holds, Authorised, NeedsPlan, Gated, Asks, GivenTokens
<1>4. YesesHeldOnce'
  BY DEF TypeOK, CallsWellFormed, YesesHeldOnce, Cleared, Authorised, Gated, Asks, GivenStates
<1>5. RefusedAreSpent'
  BY DEF TypeOK, CallsWellFormed, TokensHeldOnce, RefusedAreSpent, Holds, Authorised, NeedsPlan,
         Gated, Asks, GivenTokens
<1>6. ProdHeld'
  BY DEF TypeOK, CallsWellFormed, ProdHeld, Authorised, Gated, Asks
<1>7. WritesRecorded'
  BY DEF TypeOK, CallsWellFormed, WritesRecorded, JournalHonest, Authorised
<1> QED
  BY <1>1, <1>2, <1>3, <1>4, <1>5, <1>6, <1>7

\* The write is applied.
LEMMA AppliedStep ==
  ASSUME IInv, NEW c \in Calls, Applied(c)
  PROVE  IInv'
<1> USE DEF IInv, Applied, Ends, callVars, planVars, askVars, writeVars, InPlanMode, Outcomes
<1>1. TypeOK'
  BY DEF TypeOK, GivenTokens, GivenStates, Authorised, CallsWellFormed
<1>2. CallsWellFormed'
  BY DEF TypeOK, CallsWellFormed, Authorised, GivenTokens
<1>3. TokensHeldOnce'
  BY DEF TypeOK, CallsWellFormed, TokensHeldOnce, Holds, Authorised, NeedsPlan, Gated, Asks, GivenTokens
<1>4. YesesHeldOnce'
  BY DEF TypeOK, CallsWellFormed, YesesHeldOnce, Cleared, Authorised, Gated, Asks, GivenStates
<1>5. RefusedAreSpent'
  BY DEF TypeOK, CallsWellFormed, TokensHeldOnce, RefusedAreSpent, Holds, Authorised, NeedsPlan,
         Gated, Asks, GivenTokens
<1>6. ProdHeld'
  BY DEF TypeOK, CallsWellFormed, ProdHeld, Authorised, Gated, Asks
<1>7. WritesRecorded'
  BY DEF TypeOK, CallsWellFormed, WritesRecorded, JournalHonest, Authorised
<1> QED
  BY <1>1, <1>2, <1>3, <1>4, <1>5, <1>6, <1>7

\* The write fails.
LEMMA FailedStep ==
  ASSUME IInv, NEW c \in Calls, Failed(c)
  PROVE  IInv'
<1> USE DEF IInv, Failed, Ends, callVars, planVars, askVars, writeVars, InPlanMode, Outcomes
<1>1. TypeOK'
  BY DEF TypeOK, GivenTokens, GivenStates, Authorised, CallsWellFormed
<1>2. CallsWellFormed'
  BY DEF TypeOK, CallsWellFormed, Authorised, GivenTokens
<1>3. TokensHeldOnce'
  BY DEF TypeOK, CallsWellFormed, TokensHeldOnce, Holds, Authorised, NeedsPlan, Gated, Asks, GivenTokens
<1>4. YesesHeldOnce'
  BY DEF TypeOK, CallsWellFormed, YesesHeldOnce, Cleared, Authorised, Gated, Asks, GivenStates
<1>5. RefusedAreSpent'
  BY DEF TypeOK, CallsWellFormed, TokensHeldOnce, RefusedAreSpent, Holds, Authorised, NeedsPlan,
         Gated, Asks, GivenTokens
<1>6. ProdHeld'
  BY DEF TypeOK, CallsWellFormed, ProdHeld, Authorised, Gated, Asks
<1>7. WritesRecorded'
  BY DEF TypeOK, CallsWellFormed, WritesRecorded, JournalHonest, Authorised
<1> QED
  BY <1>1, <1>2, <1>3, <1>4, <1>5, <1>6, <1>7

------------------------------------------------------------------------------
(* Time, the user, and any step. *)

LEMMA SurroundingsStep ==
  ASSUME IInv, PlanExpires \/ StateLapses \/ UserAnswers \/ UNCHANGED vars
  PROVE  IInv'
<1> USE DEF IInv, vars, callVars, planVars, askVars, writeVars, TypeOK, CallsWellFormed,
            TokensHeldOnce, YesesHeldOnce, RefusedAreSpent, ProdHeld, WritesRecorded,
            JournalHonest, Holds, Cleared, Authorised, NeedsPlan, Gated, Asks, InPlanMode,
            GivenTokens, GivenStates
<1>1. CASE PlanExpires
  BY <1>1 DEF PlanExpires
<1>2. CASE StateLapses
  BY <1>2 DEF StateLapses
<1>3. CASE UserAnswers
  BY <1>3 DEF UserAnswers
<1>4. CASE UNCHANGED vars
  BY <1>4
<1> QED
  BY <1>1, <1>2, <1>3, <1>4

LEMMA NextIInv == IInv /\ [Next]_vars => IInv'
<1> SUFFICES ASSUME IInv, [Next]_vars PROVE IInv'
  OBVIOUS
<1>1. CASE \E c \in Calls : Step(c)
  <2>1. PICK c \in Calls : Step(c)
    BY <1>1
  <2> QED
    BY <2>1, PreviewStep, EndPreviewStep, ApplyFreelyStep, ApplyWithTokenStep, ApplyOnProdStep,
       AnsweredStep, ApplyModernStep, RetryStep, DecideStep, NotSentStep, SendWriteStep,
       AppliedStep, FailedStep DEF Step
<1>2. CASE PlanExpires \/ StateLapses \/ UserAnswers \/ UNCHANGED vars
  BY <1>2, SurroundingsStep
<1> QED
  BY <1>1, <1>2 DEF Next

LEMMA Inductive == Spec => []IInv
  BY InitIInv, NextIInv, PTL DEF Spec

------------------------------------------------------------------------------
(* The write cap.  How far calls in flight pass it is a statement about all   *)
(* of them together: one of them was checked last, when what it adds was      *)
(* within the cap, and each of the others adds at most the heaviest write.    *)

\* The calls whose writes are under way and will be charged.
Charging == {c \in Calls : pc[c] = "writing" /\ Weight[args[c]] > 0}

\* How far the cap can be passed.
Limit == MaxWrites + (MaxInFlight - 1) * Heaviest

\* What is used, with what is under way, keeps within the limit.
CapKept ==
  MaxWrites > 0 =>
    /\ used <= Limit
    /\ Charging # {} =>
         \E c \in Charging :
           used + Weight[args[c]] + (Cardinality(Charging) - 1) * Heaviest <= Limit

CapInv == Cardinality(Busy) <= MaxInFlight /\ CapKept

\* The heaviest write is one.
LEMMA HeaviestIsMost == Heaviest \in Nat /\ \A a \in Args : Weight[a] <= Heaviest
<1>1. PICK a \in Args : \A b \in Args : Weight[b] <= Weight[a]
  BY HeaviestAssumption
<1>2. Weight[a] \in {Weight[b] : b \in Args} /\ \A b \in Args : Weight[b] <= Weight[a]
  BY <1>1
<1>3. /\ Heaviest \in {Weight[b] : b \in Args}
      /\ \A b \in Args : Weight[b] <= Heaviest
  BY <1>2 DEF Heaviest
<1> QED
  BY <1>3

\* n - 1 of the heaviest are one less than n, and more of them weigh more.
LEMMA Multiples ==
  ASSUME NEW h \in Nat
  PROVE  /\ \A n \in Int : n * h \in Int /\ (n - 1) * h = n * h - h
         /\ \A m, n \in Int : m <= n => m * h <= n * h
<1>1. \A n \in Int : n * h \in Int /\ (n - 1) * h = n * h - h
  BY SMT
<1>2. ASSUME NEW m \in Int, NEW n \in Int, m <= n PROVE m * h <= n * h
  <2>1. PICK k \in Nat : n = m + k
    <3>1. n - m \in Nat /\ n = m + (n - m)
      BY <1>2
    <3> QED
      BY <3>1
  <2>2. n * h = m * h + k * h
    BY <2>1, SMT
  <2>3. k * h \in Nat /\ m * h \in Int
    BY SMT
  <2> QED
    BY <2>2, <2>3
<1> QED
  BY <1>1, <1>2

LEMMA LimitType == Limit \in Nat /\ MaxWrites <= Limit
<1>1. (MaxInFlight - 1) * Heaviest \in Nat
  <2>1. 0 * Heaviest = 0
    BY HeaviestIsMost
  <2> QED
    BY <2>1, HeaviestIsMost, InFlightAssumption, Multiples
<1> QED
  BY <1>1 DEF Limit

\* Sets of calls are finite, and smaller ones have no more members.
LEMMA CallSets ==
  /\ \A S \in SUBSET Calls : IsFiniteSet(S) /\ Cardinality(S) \in Nat
  /\ \A S, T \in SUBSET Calls : S \subseteq T => Cardinality(S) <= Cardinality(T)
  /\ \A S \in SUBSET Calls, c \in Calls :
       Cardinality(S \cup {c}) = IF c \in S THEN Cardinality(S) ELSE Cardinality(S) + 1
  /\ \A S \in SUBSET Calls : \A c \in S : Cardinality(S \ {c}) = Cardinality(S) - 1
<1>1. \A S \in SUBSET Calls : IsFiniteSet(S) /\ Cardinality(S) \in Nat
  BY FS_Subset, FS_CardinalityType
<1> QED
  BY <1>1, FS_Subset, FS_AddElement, FS_RemoveElement

\* A step that starts a call or moves one that is neither sending nor sent.
LEMMA QuietMoveKeepsCap ==
  ASSUME IInv, CapInv, NEW c \in Calls, NEW where,
         pc' = [pc EXCEPT ![c] = where], where \notin {"idle", "writing"},
         pc[c] \notin {"writing", "done"},
         pc[c] = "idle" => Cardinality(Busy) < MaxInFlight,
         UNCHANGED <<args, used>>
  PROVE  CapInv'
<1>1. Charging' = Charging
  BY DEF Charging, IInv, TypeOK
<1>2. CapKept'
  BY <1>1 DEF CapInv, CapKept, Charging
<1>3. CASE pc[c] = "idle"
  <2>1. Busy' \subseteq Busy \cup {c} /\ Busy \in SUBSET Calls
    BY DEF Busy, IInv, TypeOK
  <2>2. Cardinality(Busy') <= Cardinality(Busy) + 1
    <3>1. Busy' \in SUBSET Calls /\ Busy \cup {c} \in SUBSET Calls
      BY <2>1 DEF Busy
    <3>2. Cardinality(Busy') <= Cardinality(Busy \cup {c})
      BY <2>1, <3>1, CallSets
    <3>3. Cardinality(Busy \cup {c}) = Cardinality(Busy) + 1
      <4>1. c \notin Busy
        BY <1>3 DEF Busy
      <4> QED
        BY <2>1, <4>1, CallSets
    <3> QED
      BY <3>2, <3>3
  <2>3. Cardinality(Busy) \in Nat /\ Cardinality(Busy') \in Nat
    BY <2>1, CallSets DEF Busy
  <2> QED
    BY <1>2, <1>3, <2>2, <2>3, InFlightAssumption DEF CapInv
<1>4. CASE pc[c] # "idle"
  <2>1. Busy' \subseteq Busy /\ Busy \in SUBSET Calls /\ Busy' \in SUBSET Calls
    BY <1>4 DEF Busy, IInv, TypeOK
  <2>2. /\ Cardinality(Busy') <= Cardinality(Busy)
        /\ Cardinality(Busy) \in Nat /\ Cardinality(Busy') \in Nat
    BY <2>1, CallSets
  <2> QED
    BY <1>2, <2>2, InFlightAssumption DEF CapInv
<1> QED
  BY <1>3, <1>4

\* A write that is sent was within the cap: it is the one checked last.
LEMMA SentWriteKeepsCap ==
  ASSUME IInv, CapInv, NEW c \in Calls, SendWrite(c), ~PastCap(c)
  PROVE  CapInv'
<1>1. /\ pc[c] = "preparing" /\ pc' = [pc EXCEPT ![c] = "writing"]
      /\ UNCHANGED <<args, used>>
  BY DEF SendWrite, Goes
<1>2. Busy' = Busy /\ Busy \in SUBSET Calls /\ Charging \in SUBSET Calls
  BY <1>1 DEF Busy, Charging, IInv, TypeOK
<1>3. Weight[args[c]] \in Nat /\ Weight[args[c]] <= Heaviest /\ used \in Nat
  BY HeaviestIsMost DEF IInv, TypeOK
<1>4. CASE Weight[args[c]] = 0
  <2>1. Charging' = Charging
    BY <1>1, <1>4 DEF Charging, IInv, TypeOK
  <2> QED
    BY <1>1, <1>2, <2>1 DEF CapInv, CapKept, Charging
<1>5. CASE Weight[args[c]] # 0
  <2>1. Charging' = Charging \cup {c} /\ c \notin Charging
    BY <1>1, <1>3, <1>5 DEF Charging, IInv, TypeOK
  <2>2. Charging' \subseteq Busy' /\ Charging' \in SUBSET Calls /\ Busy' \in SUBSET Calls
    BY DEF Charging, Busy
  <2>3. /\ Cardinality(Charging') \in Nat
        /\ Cardinality(Charging') <= Cardinality(Busy')
        /\ Cardinality(Busy') \in Nat
    BY <2>2, CallSets
  <2>4. Cardinality(Charging') <= MaxInFlight
    BY <1>2, <2>3, InFlightAssumption DEF CapInv
  <2>5. (Cardinality(Charging') - 1) * Heaviest <= (MaxInFlight - 1) * Heaviest
    BY <2>3, <2>4, HeaviestIsMost, Multiples, InFlightAssumption
  <2>6. /\ (Cardinality(Charging') - 1) * Heaviest \in Int
        /\ (MaxInFlight - 1) * Heaviest \in Int
    BY <2>3, HeaviestIsMost, Multiples, InFlightAssumption
  <2>7. ASSUME MaxWrites > 0
        PROVE  used + Weight[args[c]] + (Cardinality(Charging') - 1) * Heaviest <= Limit
    <3>1. used + Weight[args[c]] <= MaxWrites
      BY <1>3, <1>5, <2>7 DEF PastCap
    <3> QED
      BY <1>3, <2>5, <2>6, <3>1 DEF Limit
  <2> QED
    BY <1>1, <1>2, <2>1, <2>7 DEF CapInv, CapKept
<1> QED
  BY <1>4, <1>5

\* A write that ends leaves room for what was counted for it: the last one
\* checked for what it weighs, any other for at most the heaviest.
LEMMA EndedWriteKeepsCap ==
  ASSUME IInv, CapInv, NEW c \in Calls, Applied(c) \/ Failed(c)
  PROVE  CapInv'
<1> DEFINE w == Weight[args[c]]
           n == Cardinality(Charging)
<1>1. /\ pc[c] = "writing" /\ pc' = [pc EXCEPT ![c] = "done"]
      /\ UNCHANGED args /\ used' \in {used, used + w}
  BY DEF Applied, Failed, Ends
<1>2. w \in Nat /\ w <= Heaviest /\ Heaviest \in Nat /\ used \in Nat
  BY HeaviestIsMost DEF IInv, TypeOK
<1>3. /\ Busy' = Busy \ {c} /\ Busy \in SUBSET Calls
      /\ Charging' = Charging \ {c} /\ Charging \in SUBSET Calls
      /\ c \in Charging <=> w > 0
  BY <1>1 DEF Busy, Charging, IInv, TypeOK
<1>4. Cardinality(Busy') <= MaxInFlight
  <2>1. Busy' \in SUBSET Calls /\ Busy' \subseteq Busy
    BY <1>3
  <2>2. /\ Cardinality(Busy') <= Cardinality(Busy)
        /\ Cardinality(Busy) \in Nat /\ Cardinality(Busy') \in Nat
    BY <1>3, <2>1, CallSets
  <2> QED
    BY <2>2, InFlightAssumption DEF CapInv
<1>5. n \in Nat
  BY <1>3, CallSets
<1>6. CASE w = 0
  <2>1. used' = used /\ Charging' = Charging
    BY <1>1, <1>2, <1>3, <1>6
  <2> QED
    BY <1>1, <1>4, <2>1 DEF CapInv, CapKept, Charging
<1>7. CASE w # 0 /\ MaxWrites > 0
  <2>1. c \in Charging /\ Cardinality(Charging') = n - 1
    BY <1>2, <1>3, <1>7, CallSets
  <2>2. PICK d \in Charging : used + Weight[args[d]] + (n - 1) * Heaviest <= Limit
    BY <1>7, <2>1 DEF CapInv, CapKept
  <2>3. /\ Weight[args[d]] \in Nat /\ Weight[args[d]] <= Heaviest
        /\ Limit \in Nat
    BY <2>2, HeaviestIsMost, LimitType DEF IInv, TypeOK, Charging
  <2>4. /\ n * Heaviest \in Int /\ (n - 1) * Heaviest = n * Heaviest - Heaviest
        /\ (n - 1) * Heaviest \in Int
        /\ (n - 1 - 1) * Heaviest = (n - 1) * Heaviest - Heaviest
        /\ n - 1 >= 0 => (n - 1) * Heaviest >= 0
    <3>1. 0 * Heaviest = 0
      BY <1>2
    <3> QED
      BY <1>2, <1>5, <3>1, Multiples
  <2>5. n >= 1
    <3>1. Cardinality(Charging \ {c}) \in Nat
      BY <1>3, CallSets
    <3> QED
      BY <1>3, <1>5, <2>1, <3>1
  <2>6. CASE d = c
    <3>1. used' + (n - 1) * Heaviest <= Limit /\ used' <= Limit
      BY <1>1, <1>2, <1>5, <2>2, <2>3, <2>4, <2>5, <2>6
    <3>2. ASSUME NEW e \in Charging'
          PROVE  used' + Weight[args'[e]] + (Cardinality(Charging') - 1) * Heaviest <= Limit
      <4>1. Weight[args[e]] \in Nat /\ Weight[args[e]] <= Heaviest
        BY <1>3, HeaviestIsMost DEF IInv, TypeOK
      <4>2. used' \in Nat /\ args'[e] = args[e]
        BY <1>1, <1>2
      <4>3. (n - 1 - 1) * Heaviest \in Int
        BY <1>2, <2>4
      <4> QED
        BY <1>2, <1>5, <2>1, <2>3, <2>4, <3>1, <4>1, <4>2, <4>3
    <3> QED
      BY <1>4, <3>1, <3>2, LimitType DEF CapInv, CapKept
  <2>7. CASE d # c
    <3>1. d \in Charging'
      BY <1>3, <2>7
    <3>2. n - 1 >= 1
      <4>1. Cardinality(Charging') \in Nat /\ Cardinality((Charging \ {c}) \ {d}) \in Nat
        BY <1>3, CallSets
      <4>2. Cardinality((Charging \ {c}) \ {d}) = Cardinality(Charging \ {c}) - 1
        BY <1>3, <3>1, CallSets
      <4> QED
        BY <1>3, <1>5, <2>1, <4>1, <4>2
    <3>3. (n - 2) * Heaviest >= 0
      <4>1. 0 * Heaviest = 0
        BY <1>2
      <4> QED
        BY <1>2, <1>5, <3>2, <4>1, Multiples
    <3>4. /\ used' + Weight[args[d]] + (n - 1 - 1) * Heaviest <= Limit
          /\ used' <= Limit
      BY <1>1, <1>2, <1>5, <2>2, <2>3, <2>4, <3>3
    <3> QED
      BY <1>1, <1>4, <2>1, <3>1, <3>4 DEF CapInv, CapKept
  <2> QED
    BY <2>6, <2>7
<1>8. CASE ~(MaxWrites > 0)
  BY <1>4, <1>8 DEF CapInv, CapKept
<1> QED
  BY <1>6, <1>7, <1>8

LEMMA InitCapInv == Init => CapInv
<1> SUFFICES ASSUME Init PROVE CapInv
  OBVIOUS
<1>1. Busy = {} /\ Charging = {} /\ used = 0
  BY DEF Init, Busy, Charging
<1> QED
  BY <1>1, FS_EmptySet, LimitType, InFlightAssumption DEF CapInv, CapKept

\* Every step is one of the three kinds, or moves no call.
LEMMA NextCapInv == IInv /\ CapInv /\ [Next]_vars => CapInv'
<1> SUFFICES ASSUME IInv, CapInv, [Next]_vars PROVE CapInv'
  OBVIOUS
<1>1. CASE \E c \in Calls : Step(c)
  <2>1. PICK c \in Calls : Step(c)
    BY <1>1
  <2>2. CASE Applied(c) \/ Failed(c)
    BY <2>2, EndedWriteKeepsCap
  <2>3. CASE SendWrite(c) /\ ~PastCap(c)
    BY <2>3, SentWriteKeepsCap
  <2>4. CASE \E where : /\ pc' = [pc EXCEPT ![c] = where] /\ where \notin {"idle", "writing"}
                        /\ pc[c] \notin {"writing", "done"}
                        /\ pc[c] = "idle" => Cardinality(Busy) < MaxInFlight
                        /\ UNCHANGED <<args, used>>
    BY <2>4, QuietMoveKeepsCap
  <2>5. CASE Preview(c) \/ EndPreview(c) \/ ApplyFreely(c) \/ ApplyOnProd(c)
    BY <2>4, <2>5 DEF Preview, EndPreview, ApplyFreely, ApplyOnProd, Starts, Goes, Ends, writeVars
  <2>6. CASE ApplyWithToken(c)
    BY <2>4, <2>6 DEF ApplyWithToken, Starts, Goes, Ends, writeVars
  <2>7. CASE Answered(c) \/ Decide(c)
    BY <2>4, <2>7 DEF Answered, Decide, Goes, Ends, Refuse
  <2>8. CASE ApplyModern(c)
    BY <2>4, <2>8 DEF ApplyModern, Starts, Goes, Ends, Checked, AskRound, writeVars
  <2>9. CASE Retry(c)
    BY <2>4, <2>9 DEF Retry, Starts, Goes, Ends, Checked, AskRound, writeVars
  <2>10. CASE NotSent(c) \/ (SendWrite(c) /\ PastCap(c))
    BY <2>4, <2>10 DEF NotSent, SendWrite, Ends, writeVars
  <2> QED
    BY <2>1, <2>2, <2>3, <2>5, <2>6, <2>7, <2>8, <2>9, <2>10 DEF Step
<1>2. CASE PlanExpires \/ StateLapses \/ UserAnswers \/ UNCHANGED vars
  <2>1. UNCHANGED <<pc, args, used>>
    BY <1>2 DEF PlanExpires, StateLapses, UserAnswers, vars, callVars, writeVars
  <2> QED
    BY <2>1 DEF CapInv, CapKept, Charging, Busy
<1> QED
  BY <1>1, <1>2 DEF Next

------------------------------------------------------------------------------
(* The theorems. *)

\* The types of all variables: in particular every token in the store was
\* issued by a preview, and every live state by a call that ended with it.
THEOREM TypeCorrect == Spec => []TypeOK
<1>1. IInv => TypeOK
  BY DEF IInv
<1> QED
  BY <1>1, Inductive, PTL

\* Where a plan is required, a write that was let through was previewed with
\* the same arguments, and its preview let no other write through.
THEOREM PlansAreUsedOnce == Spec => []OneWritePerPlan
<1>1. IInv => OneWritePerPlan
  BY DEF IInv, TypeOK, CallsWellFormed, TokensHeldOnce, OneWritePerPlan, Holds
<1> QED
  BY <1>1, Inductive, PTL

\* Where the user is asked, a write that was let through has a yes of its own;
\* on a prod profile in apply mode a client that cannot be asked has none.
THEOREM YesesAreUsedOnce == Spec => []OneWritePerYes
<1>1. IInv => OneWritePerYes
  BY DEF IInv, YesesHeldOnce, ProdHeld, OneWritePerYes, Cleared, Asks
<1> QED
  BY <1>1, Inductive, PTL

\* What landed is journaled, and a line "applied" is true.
THEOREM JournalIsHonest == Spec => []JournalHonest
<1>1. IInv => JournalHonest
  BY DEF IInv, WritesRecorded
<1> QED
  BY <1>1, Inductive, PTL

\* After a refusal no call passes the gate on the refused plan.
THEOREM RefusalsAreFinal == Spec => RefusalEndsPlan
<1>1. ASSUME IInv, [Next]_vars, NeedsPlan, NEW c \in Calls, NEW d \in Calls,
             outcome[d] = "CONFIRM_DECLINED", tok[d] = tok'[c], ~Authorised(c), Authorised(c)'
      PROVE  FALSE
  <2> USE DEF callVars, planVars, askVars, writeVars, Authorised, IInv, TypeOK, CallsWellFormed
  <2>1. PICK e \in Calls : Step(e)
    BY <1>1 DEF Next, PlanExpires, StateLapses, UserAnswers, vars
  <2>6. CASE Preview(e) \/ EndPreview(e) \/ ApplyOnProd(e)
    BY <1>1, <2>6 DEF Preview, EndPreview, ApplyOnProd, Starts, Goes, Ends
  <2>7. CASE ApplyModern(e) \/ Retry(e)
    BY <1>1, <2>7 DEF ApplyModern, Retry, Starts, Goes, Ends, Checked, AskRound, Mismatch
  <2>8. CASE NotSent(e) \/ SendWrite(e) \/ Applied(e) \/ Failed(e)
    BY <1>1, <2>8 DEF NotSent, SendWrite, Applied, Failed, Goes, Ends
  <2>2. CASE ApplyFreely(e)
    BY <1>1, <2>2 DEF ApplyFreely, NeedsPlan
  <2>3. CASE ApplyWithToken(e)
    BY <1>1, <2>3 DEF ApplyWithToken, Matches, RefusedAreSpent, Ends, Goes, Mismatch, Starts
  <2>4. CASE Answered(e)
    BY <1>1, <2>4 DEF Answered, RefusedAreSpent, Holds, Goes, Ends, Refuse
  <2>5. CASE Decide(e)
    BY <1>1, <2>5 DEF Decide, Matches, RefusedAreSpent, Ends, Goes, Refuse, NeedsPlan, Mismatch
  <2> QED
    BY <2>1, <2>2, <2>3, <2>4, <2>5, <2>6, <2>7, <2>8 DEF Step
<1>2. IInv /\ [Next]_vars =>
        [NeedsPlan => \A c, d \in Calls :
           outcome[d] = "CONFIRM_DECLINED" /\ tok[d] = tok[c]' /\ ~Authorised(c)
             => ~Authorised(c)']_vars
  BY <1>1
<1> QED
  BY <1>2, Inductive, PTL DEF Spec, RefusalEndsPlan

\* Calls in flight together pass the cap by at most all but one of the heaviest
\* writes, however they start, fail and end.
THEOREM CapIsPassedByLittle == Spec => []OvershootBounded
<1>1. CapInv => OvershootBounded
  BY DEF CapInv, CapKept, OvershootBounded, Limit
<1> QED
  BY <1>1, InitCapInv, NextCapInv, Inductive, PTL DEF Spec
=============================================================================
