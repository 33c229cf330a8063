-------------------------- MODULE UserTokensProofs --------------------------
(***************************************************************************)
(* Safety of the two holders of OAuth tokens, for any number of requests.  *)
(*                                                                         *)
(* The provider (OAuthTokens): a rotated refresh token is known to its     *)
(* grant alone until it is kept, so no other request can spend it.         *)
(*                                                                         *)
(* The link of a subject (UserTokens): while nothing excuses a loss, at    *)
(* most one refresh of the token in the store is under way, and a token a  *)
(* callback holds is known to nobody else until it is saved.               *)
(***************************************************************************)
EXTENDS UserTokens, OAuthTokens, TLAPS

-----------------------------------------------------------------------------
(* The provider. *)

\* Refresh tokens come from the instance.
Issued ==
    /\ \A p \in Profiles : setting[p] \in 0..made /\ file[p] \in 0..made /\ accepted[p] \subseteq 0..made
    /\ \A c \in Askers : grant[c].sent \in 0..made /\ grant[c].back \in 0..made

\* Nobody holds the refresh token t but who is to keep it.
Fresh(t) ==
    /\ t # 0
    /\ \A p \in Profiles : setting[p] # t
    /\ \A c \in Askers : grant[c].sent # t

\* A rotated token is known to its grant alone until it is kept, ...
Unkept ==
    \A c \in Askers : Rotated(c) =>
      /\ Fresh(grant[c].back)
      /\ grant[c].by \in spoilt \/ grant[c].back \in accepted[grant[c].by]
      /\ \A p \in Profiles : file[p] # grant[c].back
      /\ \A d \in Askers : Rotated(d) /\ grant[d].back = grant[c].back => d = c

\* ... and one of a login to the file until the next start.
Waiting ==
    \A p \in newer :
      /\ Fresh(file[p])
      /\ p \in spoilt \/ file[p] \in accepted[p]

\* Until the secrets change, grants use those there are.
UnderCurrent ==
    \A p \in Profiles \ crossed : \A c \in Granting(p) : grant[c].under = secrets[p]

Current == UnderCurrent /\ SecretsCurrent
LoginInv == Issued /\ Unkept /\ Waiting /\ LoginKept /\ RestartLossTold
ProviderInv == ProviderTypeOK /\ Current /\ LoginInv

-----------------------------------------------------------------------------
\* Every variable of the provider stays within its type.
THEOREM ProviderTypeCorrect == ProviderSpec => []ProviderTypeOK
<1>1. ProviderInit => ProviderTypeOK
  BY ProviderAssumption DEF ProviderInit, ProviderTypeOK, Grants, NoGrant
<1>2. ProviderTypeOK /\ [ProviderNext]_providerVars => ProviderTypeOK'
  <2> SUFFICES ASSUME ProviderTypeOK, [ProviderNext]_providerVars PROVE ProviderTypeOK'
    OBVIOUS
  <2> USE ProviderAssumption
  <2>0. NoGrant \in Grants
    BY DEF NoGrant, Grants
  <2>1. ASSUME NEW c \in Askers, AskToken(c) PROVE ProviderTypeOK'
    BY <2>1 DEF ProviderTypeOK, AskToken, stored, instance, Grants
  <2>2. ASSUME NEW c \in Askers, GrantToken(c) PROVE ProviderTypeOK'
    <3>1. grant[c].by \in Profiles /\ grant[c] \in Grants
      BY <2>2 DEF ProviderTypeOK, GrantToken, NoGrant
    <3>2. CASE UNCHANGED instance
      BY <2>2, <3>1, <3>2 DEF ProviderTypeOK, GrantToken, stored, instance, Grants
    <3>3. ASSUME made' = made + 1,
                 grant' = [grant EXCEPT ![c].step = "answered", ![c].back = made + 1],
                 NEW old \in {{}, {grant[c].sent}},
                 accepted' = [accepted EXCEPT ![grant[c].by] = (@ \ old) \cup {made + 1}]
          PROVE  ProviderTypeOK'
      BY <2>2, <3>1, <3>3 DEF ProviderTypeOK, GrantToken, stored, Grants
    <3> QED
      BY <2>2, <3>2, <3>3 DEF GrantToken
  <2>3. ASSUME NEW c \in Askers, ResendToken(c) PROVE ProviderTypeOK'
    <3>1. grant[c].by \in Profiles /\ grant[c] \in Grants
      BY <2>3 DEF ProviderTypeOK, ResendToken, NoGrant
    <3> QED
      BY <2>3, <3>1 DEF ProviderTypeOK, ResendToken, Lose, NoGrant, stored, instance, Grants
  <2>4. ASSUME NEW c \in Askers, FailToken(c) PROVE ProviderTypeOK'
    BY <2>0, <2>4 DEF ProviderTypeOK, FailToken, Lose, Rotated, stored, instance, Grants
  <2>5. ASSUME NEW c \in Askers, KeepToken(c) PROVE ProviderTypeOK'
    <3>1. grant[c].by \in Profiles /\ grant[c] \in Grants
      BY <2>5 DEF ProviderTypeOK, KeepToken, NoGrant
    <3> QED
      BY <2>0, <2>5, <3>1 DEF ProviderTypeOK, KeepToken, Persist, stored, instance, Grants
  <2>6. ASSUME NEW p \in Profiles, DropAccess(p) PROVE ProviderTypeOK'
    BY <2>6 DEF ProviderTypeOK, DropAccess, stored, instance
  <2>7. ASSUME NEW p \in Profiles, ChangeSecrets(p) PROVE ProviderTypeOK'
    BY <2>7 DEF ProviderTypeOK, ChangeSecrets, NoTokens, stored, instance
  <2>8. ASSUME NEW p \in Profiles, SwitchProfile(p) PROVE ProviderTypeOK'
    BY <2>8 DEF ProviderTypeOK, SwitchProfile, NoTokens, stored, instance
  <2>9. ASSUME NEW p \in Profiles, Login(p) PROVE ProviderTypeOK'
    BY <2>9 DEF ProviderTypeOK, Login
  <2>10. ASSUME NEW p \in Profiles, Withdraw(p) PROVE ProviderTypeOK'
    BY <2>10 DEF ProviderTypeOK, Withdraw, stored
  <2>11. CASE Restart
    <3>1. \A c \in Askers : Rotated(c) => grant[c].by \in Profiles
      BY DEF ProviderTypeOK, Rotated, NoGrant
    <3> QED
      BY <2>0, <2>11, <3>1 DEF ProviderTypeOK, Restart, NoTokens, instance
  <2>12. CASE UNCHANGED providerVars
    BY <2>12 DEF ProviderTypeOK, providerVars, stored, instance
  <2> QED
    BY <2>1, <2>2, <2>3, <2>4, <2>5, <2>6, <2>7, <2>8, <2>9, <2>10, <2>11, <2>12 DEF ProviderNext
<1> QED
  BY <1>1, <1>2, PTL DEF ProviderSpec

-----------------------------------------------------------------------------
\* A request in flight has a profile.
LEMMA GrantFacts ==
  ASSUME ProviderTypeOK, NEW c \in Askers
  PROVE  /\ grant[c] \in Grants
         /\ grant[c].step # "idle" => grant[c].by \in Profiles
         /\ grant[c].step = "idle" => grant[c] = NoGrant
         /\ \A p \in Profiles : c \in Granting(p) => grant[c].step # "idle"
BY ProviderAssumption DEF ProviderTypeOK, NoGrant, Granting

\* The next four: the cached tokens.  A step that neither changes secrets nor
\* caches a token may empty the cache and end grants.
LEMMA CurrentIdle ==
  ASSUME ProviderInv, ProviderTypeOK', UNCHANGED <<secrets, crossed>>,
         access' = access \/ access' = NoTokens \/ \E p \in Profiles : access' = [access EXCEPT ![p] = 0],
         \A c \in Askers : \/ grant'[c].by = grant[c].by /\ grant'[c].under = grant[c].under
                           \/ grant'[c] = NoGrant
                           \/ grant'[c].by = active /\ grant'[c].under = secrets[active]
  PROVE  Current'
<1>1. UnderCurrent'
  BY ProviderAssumption DEF ProviderInv, ProviderTypeOK, Current, UnderCurrent, Granting, NoGrant
<1>2. SecretsCurrent'
  BY DEF ProviderInv, ProviderTypeOK, Current, SecretsCurrent, NoTokens
<1> QED
  BY <1>1, <1>2 DEF Current

LEMMA CurrentKeep ==
  ASSUME ProviderInv, NEW c \in Askers, KeepToken(c)
  PROVE  Current'
<1>1. grant[c].by \in Profiles /\ c \in Granting(grant[c].by)
  BY GrantFacts DEF ProviderInv, KeepToken, Granting
<1>2. UnderCurrent'
  BY ProviderAssumption DEF ProviderInv, ProviderTypeOK, KeepToken, Current, UnderCurrent, Granting, NoGrant
<1>3. SecretsCurrent'
  BY <1>1 DEF ProviderInv, ProviderTypeOK, KeepToken, Current, UnderCurrent, SecretsCurrent
<1> QED
  BY <1>2, <1>3 DEF Current

LEMMA CurrentChange ==
  ASSUME ProviderInv, NEW p \in Profiles, ChangeSecrets(p)
  PROVE  Current'
<1>1. UnderCurrent'
  BY DEF ProviderInv, ProviderTypeOK, ChangeSecrets, Current, UnderCurrent, Granting
<1>2. SecretsCurrent'
  BY DEF ProviderInv, ProviderTypeOK, ChangeSecrets, NoTokens, SecretsCurrent
<1> QED
  BY <1>1, <1>2 DEF Current

LEMMA CurrentRestart ==
  ASSUME ProviderInv, Restart
  PROVE  Current'
BY ProviderAssumption DEF Restart, Current, UnderCurrent, SecretsCurrent, Granting, NoGrant, NoTokens

\* What the conjuncts of LoginInv are about.
loginVars == <<stored, grant, instance, spoilt>>

LEMMA LoginSame == ProviderInv /\ UNCHANGED loginVars => LoginInv'
BY DEF ProviderInv, LoginInv, loginVars, stored, instance, Issued, Unkept, Fresh, Waiting, LoginKept,
       RestartLossTold, Rotated, Granting

LEMMA AskStep ==
  ASSUME ProviderInv, NEW c \in Askers, AskToken(c)
  PROVE  LoginInv'
<1> USE DEF ProviderInv, LoginInv, ProviderTypeOK
<1>1. grant' = [grant EXCEPT ![c] = [step |-> "sent", by |-> active, under |-> secrets[active],
                                     sent |-> setting[active], back |-> 0]]
      /\ grant[c] = NoGrant /\ UNCHANGED <<stored, instance, spoilt>>
  BY DEF AskToken
<1>2. \A d \in Askers : Rotated(d)' => d # c /\ Rotated(d) /\ grant'[d] = grant[d]
  BY <1>1 DEF Rotated
<1>3. \A d \in Askers : Rotated(d) => d # c /\ Rotated(d)' /\ grant'[d] = grant[d]
  BY <1>1 DEF Rotated, NoGrant
<1>4. \A t : Fresh(t) => Fresh(t)'
  BY <1>1 DEF Fresh, stored
<1>5. Issued'
  BY <1>1 DEF Issued, stored, instance
<1>6. Unkept'
  BY <1>1, <1>2, <1>4 DEF Unkept, stored, instance
<1>7. Waiting'
  BY <1>1, <1>4 DEF Waiting, stored, instance
<1>8. LoginKept'
  BY <1>1, <1>3 DEF LoginKept, Granting, stored, instance
<1>9. RestartLossTold'
  BY <1>1 DEF RestartLossTold, stored
<1> QED
  BY <1>5, <1>6, <1>7, <1>8, <1>9

\* A rotation drops the token of the grant alone; nobody has the new one.
LEMMA GrantTokenStep ==
  ASSUME ProviderInv, NEW c \in Askers, GrantToken(c)
  PROVE  LoginInv'
<1> USE DEF ProviderInv, LoginInv, ProviderTypeOK
<1> DEFINE g == grant[c]
<1>1. /\ g \in Grants /\ g.step = "sent" /\ g.by \in Profiles
      /\ UNCHANGED <<stored, spoilt>>
  BY GrantFacts DEF GrantToken
<1>2. CASE /\ grant' = [grant EXCEPT ![c].step = "answered", ![c].back = g.sent]
           /\ UNCHANGED instance
  <2>1. \A d \in Askers : Rotated(d)' <=> Rotated(d)
    BY <1>1, <1>2 DEF Rotated, Grants
  <2>2. \A d \in Askers : grant'[d].sent = grant[d].sent /\ grant'[d].by = grant[d].by
    BY <1>1, <1>2 DEF Grants
  <2>3. \A d \in Askers : Rotated(d) => grant'[d] = grant[d]
    BY <1>1, <1>2 DEF Rotated
  <2>4. \A t : Fresh(t) => Fresh(t)'
    BY <1>1, <2>2 DEF Fresh, stored
  <2>5. Issued'
    BY <1>1, <1>2, <2>2 DEF Issued, stored, instance
  <2>6. UNCHANGED <<setting, file, newer, accepted, spoilt>>
    BY <1>1, <1>2 DEF stored, instance
  <2>7. Unkept'
    BY <2>1, <2>3, <2>4, <2>6 DEF Unkept
  <2>8. Waiting'
    BY <2>4, <2>6 DEF Waiting
  <2>9. LoginKept'
    BY <2>1, <2>2, <2>3, <2>6 DEF LoginKept, Granting
  <2>10. RestartLossTold'
    BY <1>1 DEF RestartLossTold, stored
  <2> QED
    BY <2>5, <2>7, <2>8, <2>9, <2>10
<1>3. ASSUME made' = made + 1,
             grant' = [grant EXCEPT ![c].step = "answered", ![c].back = made + 1],
             NEW old \in {{}, {g.sent}},
             accepted' = [accepted EXCEPT ![g.by] = (@ \ old) \cup {made + 1}]
      PROVE  LoginInv'
  <2>1. /\ grant'[c].back = made + 1 /\ grant'[c].sent = g.sent /\ grant'[c].by = g.by
        /\ grant'[c].step = "answered" /\ Rotated(c)'
    <3>1. grant'[c].back = made + 1 /\ grant'[c].sent = g.sent /\ grant'[c].by = g.by
          /\ grant'[c].step = "answered"
      BY <1>1, <1>3 DEF Grants
    <3> QED
      BY <3>1 DEF Rotated, Issued
  <2>2. \A d \in Askers \ {c} : grant'[d] = grant[d] /\ (Rotated(d)' <=> Rotated(d))
    BY <1>3 DEF Rotated
  <2>3. ~Rotated(c)
    BY <1>1 DEF Rotated
  <2>4. \A t : Fresh(t) => Fresh(t)'
    BY <1>1, <2>1, <2>2 DEF Fresh, stored
  <2>5. \A n \in 0..made : n \in Nat /\ n # made + 1
    OBVIOUS
  <2>6. Fresh(made)'
    <3>1. \A d \in Askers : grant'[d].sent = grant[d].sent
      BY <2>1, <2>2
    <3>2. made + 1 # 0 /\ made' = made + 1 /\ setting' = setting
      BY <1>1, <1>3 DEF stored
    <3> QED
      BY <2>5, <3>1, <3>2 DEF Fresh, Issued
  <2>7. \A p \in Profiles : \A t : t \in accepted[p] /\ t # g.sent => t \in accepted'[p]
    BY <1>1, <1>3
  <2>8. \A p \in Profiles : \A t : p # g.by /\ t \in accepted[p] => t \in accepted'[p]
    BY <1>1, <1>3
  <2>9. made + 1 \in accepted'[g.by]
    BY <1>1, <1>3
  <2>10. Issued'
    <3>1. made \in Nat /\ made' \in Nat /\ made' = made + 1
      BY <1>3
    <3>2. \A p \in Profiles : accepted'[p] \subseteq accepted[p] \cup {made + 1}
      BY <1>1, <1>3
    <3> QED
      BY <1>1, <2>1, <2>2, <3>1, <3>2 DEF Issued, stored
  <2>11. Unkept'
    <3> SUFFICES ASSUME NEW d \in Askers, Rotated(d)'
                 PROVE  /\ Fresh(grant[d].back)'
                        /\ grant'[d].by \in spoilt \/ grant'[d].back \in accepted'[grant'[d].by]
                        /\ \A p \in Profiles : file[p] # grant'[d].back
                        /\ \A e \in Askers : Rotated(e)' /\ grant'[e].back = grant'[d].back => e = d
      BY <1>1 DEF Unkept, stored
    <3>1. CASE d = c
      <4>1. Fresh(grant[c].back)'
        BY <1>3, <2>1, <2>6 DEF Fresh
      <4>2. \A e \in Askers : e # c => grant'[e].back # grant'[c].back
        BY <2>1, <2>2, <2>5 DEF Issued
      <4>3. \A p \in Profiles : file[p] # grant'[c].back
        BY <2>1, <2>5 DEF Issued
      <4> QED
        BY <2>1, <2>9, <3>1, <4>1, <4>2, <4>3
    <3>2. CASE d # c
      <4>1. Rotated(d) /\ grant'[d] = grant[d] /\ Fresh(grant[d].back) /\ grant[d].back # g.sent
        BY <2>2, <3>2 DEF Unkept, Fresh
      <4>2. grant[d].back # made + 1 /\ grant[d].by \in Profiles
        BY <2>5, <4>1, GrantFacts DEF Issued, Rotated
      <4>3. Fresh(grant[d].back)'
        BY <2>4, <4>1 DEF Fresh
      <4>4. grant[d].by \in spoilt \/ grant[d].back \in accepted'[grant[d].by]
        BY <2>7, <4>1, <4>2 DEF Unkept
      <4>5. \A e \in Askers : Rotated(e)' /\ grant'[e].back = grant[d].back => e = d
        BY <2>1, <2>2, <4>1, <4>2 DEF Unkept
      <4> QED
        BY <4>1, <4>3, <4>4, <4>5 DEF Unkept
    <3> QED
      BY <3>1, <3>2
  <2>12. Waiting'
    <3>1. \A p \in newer : Fresh(file[p]) /\ file[p] # g.sent /\ p \in Profiles
      BY DEF Waiting, Fresh
    <3> QED
      BY <1>1, <2>4, <2>7, <3>1 DEF Waiting, Fresh, stored
  <2>13. LoginKept'
    <3> SUFFICES ASSUME NEW p \in Profiles \ spoilt
                 PROVE  \/ setting[p] \in accepted'[p]
                        \/ \E d \in Askers : /\ grant'[d].by = p /\ Rotated(d)' /\ grant'[d].sent = setting[p]
                                             /\ grant'[d].back \in accepted'[p]
      BY <1>1 DEF LoginKept, Granting, stored
    <3>1. CASE p = g.by /\ setting[p] = g.sent
      BY <2>1, <2>9, <3>1
    <3>2. CASE ~(p = g.by /\ setting[p] = g.sent) /\ setting[p] \in accepted[p]
      BY <2>7, <2>8, <3>2
    <3>3. ASSUME NEW d \in Granting(p), Rotated(d), grant[d].sent = setting[p],
                 grant[d].back \in accepted[p]
          PROVE  /\ grant'[d].by = p /\ Rotated(d)' /\ grant'[d].sent = setting[p]
                 /\ grant'[d].back \in accepted'[p]
      <4>1. d \in Askers /\ d # c /\ grant[d].back # g.sent
        BY <2>3, <3>3 DEF Granting, Unkept, Fresh
      <4> QED
        BY <2>2, <2>7, <3>3, <4>1 DEF Granting
    <3> QED
      BY <3>1, <3>2, <3>3 DEF LoginKept, Granting
  <2>14. RestartLossTold'
    BY <1>1 DEF RestartLossTold, stored
  <2> QED
    BY <2>10, <2>11, <2>12, <2>13, <2>14
<1> QED
  BY <1>2, <1>3 DEF GrantToken

\* A rotated token that is dropped spoils its profile.
LEMMA LoseStep ==
  ASSUME ProviderInv, NEW c \in Askers, Lose(c), UNCHANGED <<stored, instance>>,
         \A d \in Askers \ {c} : grant'[d] = grant[d],
         grant'[c] = NoGrant \/ grant'[c] = [grant[c] EXCEPT !.step = "sent", !.back = 0]
  PROVE  LoginInv'
<1> USE DEF ProviderInv, LoginInv, ProviderTypeOK
<1>1. ~Rotated(c)' /\ grant'[c].sent \in {0, grant[c].sent} /\ grant'[c].back = 0
  <2>1. CASE grant'[c] = NoGrant
    BY <2>1 DEF Rotated, NoGrant
  <2>2. CASE grant'[c] = [grant[c] EXCEPT !.step = "sent", !.back = 0]
    <3>1. grant[c] \in Grants
      OBVIOUS
    <3>2. grant'[c].step = "sent" /\ grant'[c].sent = grant[c].sent /\ grant'[c].back = 0
      BY <2>2, <3>1 DEF Grants
    <3> QED
      BY <3>2 DEF Rotated
  <2> QED
    BY <2>1, <2>2
<1>2. \A d \in Askers : Rotated(d)' => d # c /\ Rotated(d) /\ grant'[d] = grant[d]
  BY <1>1 DEF Rotated
<1>3. \A d \in Askers : Rotated(d) /\ d # c => Rotated(d)' /\ grant'[d] = grant[d]
  BY DEF Rotated
<1>4. spoilt \subseteq spoilt' /\ \A p \in Profiles \ spoilt' : Rotated(c) => grant[c].by # p
  BY DEF Lose
<1>5. \A t : Fresh(t) => Fresh(t)'
  BY <1>1 DEF Fresh, stored
<1>6. Issued'
  BY <1>1 DEF Issued, stored, instance
<1>7. Unkept'
  BY <1>2, <1>4, <1>5 DEF Unkept, stored, instance
<1>8. Waiting'
  BY <1>4, <1>5 DEF Waiting, stored, instance
<1>9. LoginKept'
  BY <1>3, <1>4 DEF LoginKept, Granting, stored, instance
<1>10. RestartLossTold'
  BY DEF RestartLossTold, stored
<1> QED
  BY <1>6, <1>7, <1>8, <1>9, <1>10

\* A rotated token that is kept is the one the instance accepts.
LEMMA KeepStep ==
  ASSUME ProviderInv, NEW c \in Askers, KeepToken(c)
  PROVE  LoginInv'
<1> USE DEF ProviderInv, LoginInv, ProviderTypeOK
<1> DEFINE g == grant[c]
<1>1. /\ g.step = "answered" /\ g \in Grants /\ g.by \in Profiles
      /\ grant' = [grant EXCEPT ![c] = NoGrant] /\ UNCHANGED instance
  BY GrantFacts DEF KeepToken
<1>2. \A d \in Askers : Rotated(d)' => d # c /\ Rotated(d) /\ grant'[d] = grant[d]
  BY <1>1 DEF Rotated, NoGrant
<1>3. \A d \in Askers : Rotated(d) /\ d # c => Rotated(d)' /\ grant'[d] = grant[d]
  BY <1>1 DEF Rotated
<1>4. \A d \in Askers : grant'[d].sent \in {0, grant[d].sent} /\ grant'[d].back \in {0, grant[d].back}
  BY <1>1 DEF NoGrant
<1>5. CASE ~Rotated(c)
  <2>1. UNCHANGED <<stored, spoilt>>
    BY <1>5 DEF KeepToken
  <2>2. \A t : Fresh(t) => Fresh(t)'
    BY <1>4, <2>1 DEF Fresh, stored
  <2>3. Issued'
    BY <1>1, <1>4, <2>1 DEF Issued, stored, instance
  <2>4. Unkept'
    BY <1>1, <1>2, <2>1, <2>2 DEF Unkept, stored, instance
  <2>5. Waiting'
    BY <1>1, <2>1, <2>2 DEF Waiting, stored, instance
  <2>6. LoginKept'
    BY <1>1, <1>3, <1>5, <2>1 DEF LoginKept, Granting, stored, instance
  <2>7. RestartLossTold'
    BY <2>1 DEF RestartLossTold, stored
  <2> QED
    BY <2>3, <2>4, <2>5, <2>6, <2>7
<1>6. CASE Rotated(c)
  <2>1. /\ setting' = [setting EXCEPT ![active] = g.back]
        /\ \/ /\ file' = [file EXCEPT ![active] = g.back]
              /\ memoryOnly' = memoryOnly \ {active} /\ newer' = newer \ {active}
           \/ memoryOnly' = memoryOnly \cup {active} /\ UNCHANGED <<file, newer>>
        /\ spoilt' = IF g.by = active THEN spoilt ELSE spoilt \cup {g.by, active}
    BY <1>6 DEF KeepToken, Persist
  <2>2. /\ Fresh(g.back) /\ \A p \in Profiles : file[p] # g.back
        /\ g.by \in spoilt \/ g.back \in accepted[g.by]
    BY <1>6 DEF Unkept
  <2>3. \A t : Fresh(t) /\ t # g.back => Fresh(t)'
    BY <1>4, <2>1 DEF Fresh
  <2>4. Issued'
    BY <1>1, <1>4, <2>1 DEF Issued, instance
  <2>5. Unkept'
    BY <1>1, <1>2, <1>6, <2>1, <2>3 DEF Unkept, instance
  <2>6. Waiting'
    BY <1>1, <2>1, <2>2, <2>3 DEF Waiting, instance
  <2>7. LoginKept'
    <3> SUFFICES ASSUME NEW p \in Profiles \ spoilt'
                 PROVE  \/ setting'[p] \in accepted[p]
                        \/ \E d \in Askers : /\ grant'[d].by = p /\ Rotated(d)' /\ grant'[d].sent = setting'[p]
                                             /\ grant'[d].back \in accepted[p]
      BY <1>1 DEF LoginKept, Granting, instance
    <3>1. CASE p = active
      BY <2>1, <2>2, <3>1
    <3>2. CASE p # active
      BY <1>3, <2>1, <3>2 DEF LoginKept, Granting
    <3> QED
      BY <3>1, <3>2
  <2>8. RestartLossTold'
    BY <2>1, <2>2 DEF RestartLossTold
  <2> QED
    BY <2>4, <2>5, <2>6, <2>7, <2>8
<1> QED
  BY <1>5, <1>6

\* A login's token is new: nobody sent it, and only the file has it.
LEMMA LoginStep ==
  ASSUME ProviderInv, NEW p \in Profiles, Login(p)
  PROVE  LoginInv'
<1> USE DEF ProviderInv, LoginInv, ProviderTypeOK
<1>1. /\ made' = made + 1 /\ file' = [file EXCEPT ![p] = made + 1] /\ newer' = newer \cup {p}
      /\ accepted' = [accepted EXCEPT ![p] = @ \cup {made + 1}]
      /\ UNCHANGED <<setting, memoryOnly, grant, spoilt>>
  BY DEF Login
<1>2. \A n \in 0..made : n # made + 1
  OBVIOUS
<1>3. \A d \in Askers : Rotated(d)' <=> Rotated(d)
  BY <1>1 DEF Rotated
<1>4. (\A t : Fresh(t) => Fresh(t)') /\ Fresh(made)'
  BY <1>1, <1>2 DEF Fresh, Issued
<1>5. \A q \in Profiles : accepted[q] \subseteq accepted'[q] /\ accepted'[q] \subseteq accepted[q] \cup {made + 1}
  BY <1>1
<1>6. made + 1 \in accepted'[p]
  BY <1>1
<1>7. Issued'
  BY <1>1, <1>5 DEF Issued
<1>8. Unkept'
  <2>1. \A d \in Askers : Rotated(d) => grant[d].by \in Profiles
    BY GrantFacts DEF Rotated
  <2> QED
    BY <1>1, <1>2, <1>3, <1>4, <1>5, <2>1 DEF Unkept, Issued
<1>9. Waiting'
  <2>1. ASSUME NEW q \in newer, q # p
        PROVE  Fresh(file[q])' /\ (q \in spoilt \/ file[q] \in accepted'[q]) /\ file'[q] = file[q]
    <3>1. file'[q] = file[q] /\ q \in Profiles
      BY <1>1, <2>1
    <3> QED
      BY <1>4, <1>5, <2>1, <3>1 DEF Waiting, Fresh
  <2>2. Fresh(file[p])' /\ file'[p] \in accepted'[p]
    <3>1. file'[p] = made + 1 /\ made' = made + 1
      BY <1>1
    <3> QED
      BY <1>4, <1>6, <3>1 DEF Fresh
  <2> QED
    BY <1>1, <2>1, <2>2 DEF Waiting
<1>10. LoginKept'
  BY <1>1, <1>3, <1>5 DEF LoginKept, Granting
<1>11. RestartLossTold'
  BY <1>1, <1>2 DEF RestartLossTold, Issued
<1> QED
  BY <1>7, <1>8, <1>9, <1>10, <1>11

\* A start finds what the last process or a login put into the file.
LEMMA RestartStep ==
  ASSUME ProviderInv, Restart
  PROVE  LoginInv'
<1> USE DEF ProviderInv, LoginInv, ProviderTypeOK
<1>1. /\ setting' = file /\ memoryOnly' = {} /\ newer' = {} /\ UNCHANGED <<file, made, accepted>>
      /\ \A c \in Askers : grant'[c] = NoGrant
  BY DEF Restart, instance
<1>2. \A c \in Askers : ~Rotated(c)'
  BY <1>1 DEF Rotated, NoGrant
<1>3. Issued'
  BY <1>1 DEF Issued, NoGrant
<1>4. Unkept' /\ Waiting'
  BY <1>1, <1>2 DEF Unkept, Waiting
<1>5. LoginKept'
  <2> SUFFICES ASSUME NEW p \in Profiles \ spoilt', file[p] \notin accepted[p] PROVE FALSE
    BY <1>1 DEF LoginKept
  <2>1. p \notin spoilt /\ p \notin memoryOnly /\ \A c \in Askers : Rotated(c) => grant[c].by # p
    BY DEF Restart
  <2>2. p \notin newer
    BY <2>1 DEF Waiting
  <2>3. setting[p] = file[p]
    BY <2>1, <2>2 DEF RestartLossTold
  <2> QED
    BY <2>1, <2>3 DEF LoginKept, Granting
<1>6. RestartLossTold'
  BY <1>1 DEF RestartLossTold
<1> QED
  BY <1>3, <1>4, <1>5, <1>6

LEMMA WithdrawStep ==
  ASSUME ProviderInv, NEW p \in Profiles, Withdraw(p)
  PROVE  LoginInv'
<1> USE DEF ProviderInv, LoginInv, ProviderTypeOK
<1>1. /\ accepted' = [accepted EXCEPT ![p] = {}] /\ spoilt' = spoilt \cup {p}
      /\ UNCHANGED <<setting, file, memoryOnly, newer, grant, made>>
  BY DEF Withdraw, stored
<1>2. \A d \in Askers : Rotated(d)' <=> Rotated(d)
  BY <1>1 DEF Rotated
<1>3. \A t : Fresh(t)' <=> Fresh(t)
  BY <1>1 DEF Fresh
<1>4. \A q \in Profiles \ spoilt' : q # p /\ q \notin spoilt /\ accepted'[q] = accepted[q]
  BY <1>1
<1>5. Issued'
  BY <1>1 DEF Issued
<1>6. Unkept'
  <2>1. \A d \in Askers : Rotated(d) => grant[d].by \in Profiles
    BY GrantFacts DEF Rotated
  <2> QED
    BY <1>1, <1>2, <1>3, <1>4, <2>1 DEF Unkept
<1>7. Waiting'
  BY <1>1, <1>3, <1>4 DEF Waiting
<1>8. LoginKept'
  BY <1>1, <1>2, <1>4 DEF LoginKept, Granting
<1>9. RestartLossTold'
  BY <1>1 DEF RestartLossTold
<1> QED
  BY <1>5, <1>6, <1>7, <1>8, <1>9

-----------------------------------------------------------------------------
LEMMA ProviderStarts == ProviderInit => ProviderInv
<1> SUFFICES ASSUME ProviderInit PROVE ProviderInv
  OBVIOUS
<1>1. ProviderTypeOK
  BY ProviderAssumption DEF ProviderInit, ProviderTypeOK, Grants, NoGrant
<1>2. \A c \in Askers : grant[c] = NoGrant /\ ~Rotated(c)
  BY DEF ProviderInit, Rotated, NoGrant
<1>3. Current
  BY <1>2, ProviderAssumption DEF ProviderInit, Current, UnderCurrent, SecretsCurrent, Granting, NoGrant
<1>4. LoginInv
  BY <1>2 DEF ProviderInit, LoginInv, Issued, Unkept, Waiting, LoginKept, RestartLossTold, NoGrant
<1> QED
  BY <1>1, <1>3, <1>4 DEF ProviderInv

LEMMA ProviderInductive == ProviderInv /\ ProviderTypeOK' /\ [ProviderNext]_providerVars => ProviderInv'
<1> SUFFICES ASSUME ProviderInv, ProviderTypeOK', [ProviderNext]_providerVars
             PROVE  Current' /\ LoginInv'
  BY DEF ProviderInv
<1> USE DEF stored, instance
<1>1. ASSUME NEW c \in Askers, AskToken(c) PROVE Current' /\ LoginInv'
  <2>1. Current'
    BY <1>1, CurrentIdle DEF AskToken, ProviderInv, ProviderTypeOK
  <2> QED
    BY <1>1, <2>1, AskStep
<1>2. ASSUME NEW c \in Askers, GrantToken(c) PROVE Current' /\ LoginInv'
  <2>1. \A d \in Askers : grant'[d].by = grant[d].by /\ grant'[d].under = grant[d].under
    BY <1>2, GrantFacts DEF GrantToken, ProviderInv, ProviderTypeOK, Grants
  <2>2. UNCHANGED <<secrets, crossed, access>>
    BY <1>2 DEF GrantToken
  <2>3. Current'
    BY <2>1, <2>2, CurrentIdle
  <2> QED
    BY <1>2, <2>3, GrantTokenStep
<1>3. ASSUME NEW c \in Askers, ResendToken(c) PROVE Current' /\ LoginInv'
  <2>1. grant'[c] = [grant[c] EXCEPT !.step = "sent", !.back = 0] /\ \A d \in Askers \ {c} : grant'[d] = grant[d]
    BY <1>3, GrantFacts DEF ResendToken, ProviderInv, ProviderTypeOK, Grants
  <2>2. grant'[c].by = grant[c].by /\ grant'[c].under = grant[c].under
    BY <2>1, GrantFacts DEF ProviderInv, Grants
  <2>3. UNCHANGED <<secrets, crossed, access, stored, instance>> /\ Lose(c)
    BY <1>3 DEF ResendToken
  <2>4. Current'
    BY <2>1, <2>2, <2>3, CurrentIdle
  <2> QED
    BY <2>1, <2>3, <2>4, LoseStep
<1>4. ASSUME NEW c \in Askers, FailToken(c) PROVE Current' /\ LoginInv'
  <2>1. grant'[c] = NoGrant /\ \A d \in Askers \ {c} : grant'[d] = grant[d]
    BY <1>4 DEF FailToken, ProviderInv, ProviderTypeOK
  <2>2. UNCHANGED <<secrets, crossed, access, stored, instance>> /\ Lose(c)
    BY <1>4 DEF FailToken
  <2>3. Current'
    BY <2>1, <2>2, CurrentIdle
  <2> QED
    BY <2>1, <2>2, <2>3, LoseStep
<1>5. ASSUME NEW c \in Askers, KeepToken(c) PROVE Current' /\ LoginInv'
  BY <1>5, CurrentKeep, KeepStep
<1>6. ASSUME NEW p \in Profiles, DropAccess(p) PROVE Current' /\ LoginInv'
  BY <1>6, CurrentIdle, LoginSame DEF DropAccess, loginVars
<1>7. ASSUME NEW p \in Profiles, ChangeSecrets(p) PROVE Current' /\ LoginInv'
  BY <1>7, CurrentChange, LoginSame DEF ChangeSecrets, loginVars
<1>8. ASSUME NEW p \in Profiles, SwitchProfile(p) PROVE Current' /\ LoginInv'
  BY <1>8, CurrentIdle, LoginSame DEF SwitchProfile, loginVars
<1>9. ASSUME NEW p \in Profiles, Login(p) PROVE Current' /\ LoginInv'
  <2>1. Current'
    BY <1>9, CurrentIdle DEF Login
  <2> QED
    BY <1>9, <2>1, LoginStep
<1>10. ASSUME NEW p \in Profiles, Withdraw(p) PROVE Current' /\ LoginInv'
  <2>1. Current'
    BY <1>10, CurrentIdle DEF Withdraw
  <2> QED
    BY <1>10, <2>1, WithdrawStep
<1>11. CASE Restart
  BY <1>11, CurrentRestart, RestartStep
<1>12. CASE UNCHANGED providerVars
  BY <1>12, CurrentIdle, LoginSame DEF providerVars, loginVars
<1> QED
  BY <1>1, <1>2, <1>3, <1>4, <1>5, <1>6, <1>7, <1>8, <1>9, <1>10, <1>11, <1>12 DEF ProviderNext

LEMMA ProviderInvariance == ProviderSpec => []ProviderInv
<1>1. ProviderInv => ProviderTypeOK
  BY DEF ProviderInv
<1> QED
  BY <1>1, ProviderStarts, ProviderInductive, ProviderTypeCorrect, PTL DEF ProviderSpec

\* A changed secret takes the tokens obtained with the old one along, but for a
\* grant under way.
THEOREM CachedSecretsCurrent == ProviderSpec => []SecretsCurrent
<1>1. ProviderInv => SecretsCurrent
  BY DEF ProviderInv, Current
<1> QED
  BY <1>1, ProviderInvariance, PTL

\* Requests that redeem one refresh token at once do not lose the login.
THEOREM LoginSurvives == ProviderSpec => []LoginKept
<1>1. ProviderInv => LoginKept
  BY DEF ProviderInv, LoginInv
<1> QED
  BY <1>1, ProviderInvariance, PTL

\* The warning of a refresh token that a restart loses is right.
THEOREM RestartLossReported == ProviderSpec => []RestartLossTold
<1>1. ProviderInv => RestartLossTold
  BY DEF ProviderInv, LoginInv
<1> QED
  BY <1>1, ProviderInvariance, PTL

\* A login is not lost in the process, nor without a warning with it.
THEOREM LoginIsSafe == ProviderSpec => []LoginSafe
BY LoginSurvives, RestartLossReported, PTL DEF LoginSafe

-----------------------------------------------------------------------------
(* A subject's link. *)

USE UserTokensAssumption

\* The refresh of a replica is the one its calls share.
Shared == \A c \in UnderWay : inflight[Where[c]] = c

\* Tokens come from the instance.
Known ==
    /\ store \in 0..issued /\ revoking \subseteq 0..issued
    /\ \A c \in Calls : tok[c] \in 0..issued /\ new[c] \in 0..issued

\* What a callback got from the instance is its own until it is saved.
Unsaved ==
    \A l \in Links : stage[l] = "verify" =>
      /\ fresh[l] \in 1..issued /\ fresh[l] # store /\ fresh[l] \notin revoking
      /\ \A c \in Calls : tok[c] # fresh[l] /\ new[c] # fresh[l]
      /\ \A k \in Links : stage[k] = "verify" /\ fresh[k] = fresh[l] => k = l

Linked ==
    wish = "linked" /\ ~excuse =>
      /\ store \notin revoking
      /\ \A c, d \in UnderWay : c = d
      /\ \A c \in UnderWay :
           /\ tok[c] = store /\ pc[c] # "rejected"
           /\ pc[c] = "sent" => tok[c] \in valid
           /\ pc[c] = "answered" => new[c] \in valid \ revoking
      /\ store \in valid \/ \E c \in UnderWay : pc[c] = "answered"

Unlinked ==
    wish \in Replicas /\ ~excuse => store = 0 /\ wish \notin cached /\ UnderWay = {}

IInv == TypeOK /\ Shared /\ Known /\ Unsaved /\ Linked /\ Unlinked

Kept == Shared /\ Known /\ Unsaved /\ Linked /\ Unlinked

-----------------------------------------------------------------------------
\* Every variable stays within its type.
THEOREM TypeCorrect == Spec => []TypeOK
<1>1. Init => TypeOK
  <2>1. 0 \in Tokens
    BY DEF Tokens
  <2> QED
    BY <2>1 DEF Init, TypeOK, Busy
<1>2. TypeOK /\ [Next]_vars => TypeOK'
  <2> SUFFICES ASSUME TypeOK, [Next]_vars PROVE TypeOK'
    OBVIOUS
  <2>1. ASSUME NEW c \in Calls, Join(c) PROVE TypeOK'
    BY <2>1 DEF TypeOK, Join, links, Busy
  <2>2. ASSUME NEW c \in Calls, Refresh(c) PROVE TypeOK'
    BY <2>2 DEF TypeOK, Refresh, links, Busy
  <2>3. ASSUME NEW c \in Calls, Grant(c) PROVE TypeOK'
    <3>1. issued < MaxTokens => issued + 1 \in Tokens
      BY DEF TypeOK, Tokens
    <3> QED
      BY <2>3, <3>1 DEF TypeOK, Grant, links, Busy
  <2>4. ASSUME NEW c \in Calls, Refuse(c) PROVE TypeOK'
    BY <2>4 DEF TypeOK, Refuse, links, Busy
  <2>5. ASSUME NEW c \in Calls, Resend(c) PROVE TypeOK'
    BY <2>5 DEF TypeOK, Resend, links, Busy
  <2>6. ASSUME NEW c \in Calls, Ended(c), UNCHANGED <<issued, valid, links, revoking, wish>>,
               store' \in Tokens, cached' \subseteq Replicas, excuse' \in BOOLEAN
        PROVE  TypeOK'
    <3>1. 0 \in Tokens
      BY DEF Tokens
    <3> QED
      BY <2>6, <3>1 DEF TypeOK, Ended, links
  <2>7. ASSUME NEW c \in Calls, Succeed(c) \/ Drop(c) \/ Fail(c) PROVE TypeOK'
    <3>1. Ended(c) /\ UNCHANGED <<issued, valid, links, revoking, wish>>
      BY <2>7 DEF Succeed, Drop, Fail
    <3>2. 0 \in Tokens /\ new[c] \in Tokens /\ Where[c] \in Replicas
      BY DEF TypeOK, Tokens
    <3>3. store' \in Tokens
      BY <2>7, <3>2 DEF Succeed, Drop, Fail, TypeOK
    <3>4. cached' \subseteq Replicas
      BY <2>7, <3>2 DEF Succeed, Drop, Fail, TypeOK
    <3>5. excuse' \in BOOLEAN
      BY <2>7 DEF Succeed, Drop, Fail, TypeOK
    <3> QED
      BY <2>6, <3>1, <3>3, <3>4, <3>5
  <2>8. ASSUME NEW p \in Replicas, Invalidate(p) \/ Unlink(p) PROVE TypeOK'
    <3>1. 0 \in Tokens
      BY DEF Tokens
    <3>2. CASE Invalidate(p)
      BY <3>2 DEF TypeOK, Invalidate, calls, links
    <3>3. CASE Unlink(p)
      <4>1. excuse' \in BOOLEAN /\ revoking' \subseteq Tokens
        BY <3>3 DEF Unlink, TypeOK
      <4> QED
        BY <3>1, <3>3, <4>1 DEF TypeOK, Unlink, calls, links
    <3> QED
      BY <2>8, <3>2, <3>3
  <2>9. ASSUME NEW l \in Links, NEW p \in Replicas, Callback(l, p) PROVE TypeOK'
    BY <2>9 DEF TypeOK, Callback, calls
  <2>10. ASSUME NEW l \in Links, Exchange(l) PROVE TypeOK'
    <3>1. issued + 1 \in Tokens
      BY <2>10 DEF TypeOK, Tokens, Exchange
    <3> QED
      BY <2>10, <3>1 DEF TypeOK, Exchange, calls
  <2>11. ASSUME NEW l \in Links, Save(l) PROVE TypeOK'
    <3>1. at[l] \in Replicas /\ fresh[l] \in Tokens
      BY <2>11 DEF Save, TypeOK
    <3>2. excuse' \in BOOLEAN
      BY <2>11 DEF Save
    <3> QED
      BY <2>11, <3>1, <3>2 DEF TypeOK, Save, calls
  <2>12. ASSUME NEW l \in Links, GiveUp(l) PROVE TypeOK'
    BY <2>12 DEF TypeOK, GiveUp, calls
  <2>13. ASSUME NEW t \in Tokens, Revoke(t) \/ Lapse(t) PROVE TypeOK'
    BY <2>13 DEF TypeOK, Revoke, Lapse, calls, links
  <2>14. CASE UNCHANGED vars
    BY <2>14 DEF TypeOK, vars, calls, links
  <2> QED
    BY <2>1, <2>2, <2>3, <2>4, <2>5, <2>7, <2>8, <2>9, <2>10, <2>11, <2>12, <2>13, <2>14 DEF Next
<1> QED
  BY <1>1, <1>2, PTL DEF Spec

-----------------------------------------------------------------------------
LEMMA Initially == Init => IInv
<1> SUFFICES ASSUME Init PROVE IInv
  OBVIOUS
<1>0. 0 \in Tokens /\ UnderWay = {}
  BY DEF Init, Tokens, UnderWay, Busy
<1>1. TypeOK
  BY <1>0 DEF Init, TypeOK, Busy
<1>2. Shared /\ Known /\ Unsaved /\ Linked /\ Unlinked
  BY <1>0 DEF Init, Shared, Known, Unsaved, Linked, Unlinked
<1> QED
  BY <1>1, <1>2 DEF IInv

\* What each step keeps, besides the types.
LEMMA JoinStep ==
  ASSUME IInv, NEW c \in Calls, Join(c)
  PROVE  Kept'
<1>1. pc[c] = "idle" /\ pc'[c] = "joined" /\ \A d \in Calls : d # c => pc'[d] = pc[d]
  BY DEF Join, IInv, TypeOK
<1>2. UnderWay' = UnderWay /\ \A d \in UnderWay : pc'[d] = pc[d]
  BY <1>1 DEF UnderWay, Busy
<1>3. UNCHANGED <<store, issued, valid, cached, inflight, tok, new, stage, fresh, revoking, wish, excuse>>
  BY DEF Join, links
<1> QED
  BY <1>2, <1>3 DEF IInv, Kept, Shared, Known, Unsaved, Linked, Unlinked

LEMMA RefreshStep ==
  ASSUME IInv, NEW c \in Calls, Refresh(c)
  PROVE  Kept'
<1>0. TypeOK /\ Shared /\ Known /\ Unsaved /\ Linked /\ Unlinked
  BY DEF IInv
<1>1. /\ pc[c] = "idle" /\ pc'[c] = "sent" /\ tok'[c] = store /\ store # 0
      /\ \A d \in Calls : d # c => pc'[d] = pc[d] /\ tok'[d] = tok[d]
  BY <1>0 DEF Refresh, TypeOK
<1>2. UnderWay' = UnderWay \cup {c} /\ c \notin UnderWay
  BY <1>1 DEF UnderWay, Busy
<1>3. UNCHANGED <<store, issued, valid, cached, new, stage, fresh, revoking, wish>>
  BY DEF Refresh, links
<1>4. \A d \in UnderWay : Where[d] # Where[c]
  BY <1>0 DEF Refresh, Shared, UnderWay
<1>5. inflight'[Where[c]] = c /\ \A p \in Replicas : p # Where[c] => inflight'[p] = inflight[p]
  BY <1>0 DEF Refresh, TypeOK
<1>6. Shared'
  BY <1>0, <1>2, <1>4, <1>5 DEF Shared, UnderWay
<1>7. Known' /\ Unsaved'
  BY <1>0, <1>1, <1>3 DEF Known, Unsaved
<1>8. ~excuse' => ~excuse /\ UnderWay = {}
  BY <1>0, <1>4 DEF Refresh, TypeOK
<1>9. Linked'
  BY <1>0, <1>1, <1>2, <1>3, <1>8 DEF Linked
<1>10. Unlinked'
  BY <1>0, <1>1, <1>3, <1>8 DEF Unlinked
<1> QED
  BY <1>6, <1>7, <1>9, <1>10 DEF Kept

LEMMA GrantStep ==
  ASSUME IInv, NEW c \in Calls, Grant(c)
  PROVE  Kept'
<1>0. TypeOK /\ Shared /\ Known /\ Unsaved /\ Linked /\ Unlinked
  BY DEF IInv
<1>1. /\ pc[c] = "sent" /\ pc'[c] = "answered" /\ tok[c] \in valid
      /\ \A d \in Calls : d # c => pc'[d] = pc[d] /\ new'[d] = new[d]
  BY <1>0 DEF Grant, TypeOK
<1>2. UnderWay' = UnderWay /\ c \in UnderWay
  BY <1>1 DEF UnderWay, Busy
<1>3. UNCHANGED <<store, cached, inflight, tok, stage, fresh, revoking, wish, excuse>>
  BY DEF Grant, links
<1>4. Shared' /\ Unlinked'
  BY <1>0, <1>2, <1>3 DEF Shared, Unlinked
<1>5. CASE new' = [new EXCEPT ![c] = tok[c]] /\ UNCHANGED <<issued, valid>>
  <2>1. new'[c] = tok[c]
    BY <1>0, <1>5 DEF TypeOK
  <2>2. Known' /\ Unsaved'
    BY <1>0, <1>1, <1>3, <1>5, <2>1 DEF Known, Unsaved
  <2>3. Linked'
    BY <1>0, <1>1, <1>2, <1>3, <1>5, <2>1 DEF Linked
  <2> QED
    BY <1>4, <2>2, <2>3 DEF Kept
<1>6. CASE /\ issued' = issued + 1
           /\ valid' = (valid \ {tok[c]}) \cup {issued + 1}
           /\ new' = [new EXCEPT ![c] = issued + 1]
  <2>1. new'[c] = issued + 1 /\ issued \in Nat /\ issued + 1 \notin revoking
    BY <1>0, <1>6 DEF TypeOK, Tokens, Known
  <2>2. Known'
    BY <1>0, <1>1, <1>3, <1>6, <2>1 DEF Known
  <2>3. Unsaved'
    BY <1>0, <1>1, <1>3, <1>6, <2>1 DEF Unsaved
  <2>4. Linked'
    BY <1>0, <1>1, <1>2, <1>3, <1>6, <2>1 DEF Linked
  <2> QED
    BY <1>4, <2>2, <2>3, <2>4 DEF Kept
<1> QED
  BY <1>5, <1>6 DEF Grant

LEMMA RefuseStep ==
  ASSUME IInv, NEW c \in Calls, Refuse(c)
  PROVE  Kept'
<1>0. TypeOK /\ Shared /\ Known /\ Unsaved /\ Linked /\ Unlinked
  BY DEF IInv
<1>1. pc[c] = "sent" /\ tok[c] \notin valid /\ \A d \in Calls : d # c => pc'[d] = pc[d]
  BY <1>0 DEF Refuse, TypeOK
<1>2. UnderWay' = UnderWay /\ c \in UnderWay
  BY <1>0, <1>1 DEF UnderWay, Busy, Refuse, TypeOK
<1>3. UNCHANGED <<store, issued, valid, cached, inflight, tok, new, stage, fresh, revoking, wish, excuse>>
  BY DEF Refuse, links
<1>4. Shared' /\ Known' /\ Unsaved' /\ Unlinked'
  BY <1>0, <1>2, <1>3 DEF Shared, Known, Unsaved, Unlinked
<1>5. ~(wish = "linked" /\ ~excuse)
  BY <1>0, <1>1, <1>2 DEF Linked
<1>6. Linked'
  BY <1>3, <1>5 DEF Linked
<1> QED
  BY <1>4, <1>6 DEF Kept

LEMMA ResendStep ==
  ASSUME IInv, NEW c \in Calls, Resend(c)
  PROVE  Kept'
<1>0. TypeOK /\ Shared /\ Known /\ Unsaved /\ Linked /\ Unlinked
  BY DEF IInv
<1>1. pc[c] = "answered" /\ pc'[c] = "sent" /\ \A d \in Calls : d # c => pc'[d] = pc[d]
  BY <1>0 DEF Resend, TypeOK
<1>2. UnderWay' = UnderWay /\ c \in UnderWay
  BY <1>1 DEF UnderWay, Busy
<1>3. UNCHANGED <<store, issued, valid, cached, inflight, tok, new, stage, fresh, revoking, wish>>
  BY DEF Resend, links
<1>4. ~excuse' => ~excuse /\ new[c] = tok[c]
  BY <1>0 DEF Resend, TypeOK
<1>5. Shared' /\ Known' /\ Unsaved' /\ Unlinked'
  BY <1>0, <1>2, <1>3, <1>4 DEF Shared, Known, Unsaved, Unlinked
<1>6. Linked'
  BY <1>0, <1>1, <1>2, <1>3, <1>4 DEF Linked
<1> QED
  BY <1>5, <1>6 DEF Kept

\* What the end of a refresh leaves, however it ended.
LEMMA EndFacts ==
  ASSUME TypeOK, Shared, NEW c \in UnderWay, Ended(c)
  PROVE  /\ UnderWay' = UnderWay \ {c} /\ Shared'
         /\ \A d \in UnderWay' : pc'[d] = pc[d]
         /\ tok'[c] = 0 /\ new'[c] = 0
         /\ \A d \in Calls : d # c => tok'[d] = tok[d] /\ new'[d] = new[d]
<1>1. c \in Calls
  BY DEF UnderWay
<1>2. \A d \in Calls : pc'[d] = IF d = c \/ (pc[d] = "joined" /\ Where[d] = Where[c])
                                THEN "idle" ELSE pc[d]
  BY DEF Ended
<1>3. UnderWay' = UnderWay \ {c} /\ \A d \in UnderWay' : pc'[d] = pc[d]
  BY <1>1, <1>2 DEF UnderWay, Busy
<1>4. tok'[c] = 0 /\ new'[c] = 0 /\ \A d \in Calls : d # c => tok'[d] = tok[d] /\ new'[d] = new[d]
  BY <1>1 DEF Ended, TypeOK
<1>5. Shared'
  <2> SUFFICES ASSUME NEW d \in UnderWay' PROVE inflight'[Where[d]] = d
    BY DEF Shared
  <2>1. d \in UnderWay /\ d # c /\ d \in Calls
    BY <1>3 DEF UnderWay
  <2>2. inflight[Where[d]] = d /\ inflight[Where[c]] = c
    BY <2>1 DEF Shared
  <2>3. Where[d] # Where[c] /\ Where[d] \in Replicas
    BY <2>1, <2>2
  <2> QED
    BY <2>2, <2>3 DEF Ended, TypeOK
<1> QED
  BY <1>3, <1>4, <1>5

LEMMA SucceedStep ==
  ASSUME IInv, NEW c \in Calls, Succeed(c)
  PROVE  Kept'
<1>0. TypeOK /\ Shared /\ Known /\ Unsaved /\ Linked /\ Unlinked
  BY DEF IInv
<1>1. c \in UnderWay /\ pc[c] = "answered" /\ Ended(c)
  BY DEF Succeed, UnderWay, Busy
<1>2. /\ UnderWay' = UnderWay \ {c} /\ Shared'
      /\ tok'[c] = 0 /\ new'[c] = 0
      /\ \A d \in Calls : d # c => tok'[d] = tok[d] /\ new'[d] = new[d]
  BY <1>0, <1>1, EndFacts
<1>3. UNCHANGED <<issued, valid, stage, fresh, revoking, wish, excuse>>
  BY DEF Succeed, links
<1>4. store' = IF new[c] # tok[c] THEN new[c] ELSE store
  BY DEF Succeed
<1>5. Known'
  BY <1>0, <1>2, <1>3, <1>4 DEF Known, TypeOK, Tokens
<1>6. Unsaved'
  BY <1>0, <1>2, <1>3, <1>4 DEF Unsaved
<1>7. Linked'
  BY <1>0, <1>1, <1>2, <1>3, <1>4 DEF Linked
<1>8. Unlinked'
  BY <1>0, <1>1, <1>3 DEF Unlinked
<1> QED
  BY <1>2, <1>5, <1>6, <1>7, <1>8 DEF Kept

LEMMA DropStep ==
  ASSUME IInv, NEW c \in Calls, Drop(c)
  PROVE  Kept'
<1>0. TypeOK /\ Shared /\ Known /\ Unsaved /\ Linked /\ Unlinked
  BY DEF IInv
<1>1. c \in UnderWay /\ pc[c] = "rejected" /\ Ended(c)
  BY DEF Drop, UnderWay, Busy
<1>2. /\ UnderWay' = UnderWay \ {c} /\ Shared'
      /\ tok'[c] = 0 /\ new'[c] = 0
      /\ \A d \in Calls : d # c => tok'[d] = tok[d] /\ new'[d] = new[d]
  BY <1>0, <1>1, EndFacts
<1>3. UNCHANGED <<issued, valid, cached, stage, fresh, revoking, wish, excuse>> /\ store' = 0
  BY DEF Drop, links
<1>4. Known'
  BY <1>0, <1>2, <1>3 DEF Known, TypeOK, Tokens
<1>5. Unsaved'
  BY <1>0, <1>2, <1>3 DEF Unsaved
<1>6. ~(wish = "linked" /\ ~excuse) /\ ~(wish \in Replicas /\ ~excuse)
  BY <1>0, <1>1 DEF Linked, Unlinked
<1>7. Linked' /\ Unlinked'
  BY <1>3, <1>6 DEF Linked, Unlinked
<1> QED
  BY <1>2, <1>4, <1>5, <1>7 DEF Kept

LEMMA FailStep ==
  ASSUME IInv, NEW c \in Calls, Fail(c)
  PROVE  Kept'
<1>0. TypeOK /\ Shared /\ Known /\ Unsaved /\ Linked /\ Unlinked
  BY DEF IInv
<1>1. c \in UnderWay /\ pc[c] \in {"sent", "answered"} /\ Ended(c)
  BY DEF Fail, UnderWay, Busy
<1>2. /\ UnderWay' = UnderWay \ {c} /\ Shared'
      /\ tok'[c] = 0 /\ new'[c] = 0
      /\ \A d \in Calls : d # c => tok'[d] = tok[d] /\ new'[d] = new[d]
  BY <1>0, <1>1, EndFacts
<1>3. UNCHANGED <<store, issued, valid, cached, stage, fresh, revoking, wish>>
  BY DEF Fail, links
<1>4. ~excuse' => ~excuse /\ (pc[c] = "answered" => new[c] = tok[c])
  BY <1>0 DEF Fail, TypeOK
<1>5. Known'
  BY <1>0, <1>2, <1>3 DEF Known, TypeOK, Tokens
<1>6. Unsaved'
  BY <1>0, <1>2, <1>3 DEF Unsaved
<1>7. Linked'
  BY <1>0, <1>1, <1>2, <1>3, <1>4 DEF Linked
<1>8. Unlinked'
  BY <1>0, <1>1, <1>3, <1>4 DEF Unlinked
<1> QED
  BY <1>2, <1>5, <1>6, <1>7, <1>8 DEF Kept

LEMMA InvalidateStep ==
  ASSUME IInv, NEW p \in Replicas, Invalidate(p)
  PROVE  Kept'
<1>1. /\ UNCHANGED <<store, issued, valid, inflight, pc, tok, new, stage, fresh, revoking, wish, excuse>>
      /\ cached' \subseteq cached
  BY DEF Invalidate, calls, links
<1>2. UnderWay' = UnderWay
  BY <1>1 DEF UnderWay
<1> QED
  BY <1>1, <1>2 DEF IInv, Kept, Shared, Known, Unsaved, Linked, Unlinked

LEMMA UnlinkStep ==
  ASSUME IInv, NEW p \in Replicas, Unlink(p)
  PROVE  Kept'
<1>0. TypeOK /\ Shared /\ Known /\ Unsaved /\ Linked /\ Unlinked
  BY DEF IInv
<1>1. /\ UNCHANGED <<issued, valid, inflight, pc, tok, new, stage, fresh>>
      /\ store' = 0 /\ cached' = cached \ {p} /\ wish' = p
  BY DEF Unlink, calls, links
<1>2. UnderWay' = UnderWay
  BY <1>1 DEF UnderWay
<1>3. revoking' \subseteq revoking \cup {store}
  BY DEF Unlink
<1>4. Shared'
  BY <1>0, <1>1, <1>2 DEF Shared
<1>5. Known'
  BY <1>0, <1>1, <1>3 DEF Known, TypeOK, Tokens
<1>6. Unsaved'
  BY <1>0, <1>1, <1>3 DEF Unsaved
<1>7. Linked'
  BY <1>1 DEF Linked
<1>8. ~excuse' => UnderWay = {}
  BY DEF Unlink
<1>9. Unlinked'
  BY <1>1, <1>2, <1>8 DEF Unlinked
<1> QED
  BY <1>4, <1>5, <1>6, <1>7, <1>9 DEF Kept

LEMMA CallbackStep ==
  ASSUME IInv, NEW l \in Links, NEW p \in Replicas, Callback(l, p) \/ GiveUp(l)
  PROVE  Kept'
<1>0. TypeOK /\ Shared /\ Known /\ Unsaved /\ Linked /\ Unlinked
  BY DEF IInv
<1>1. UNCHANGED <<store, issued, valid, cached, inflight, pc, tok, new, fresh, revoking, wish, excuse>>
  BY DEF Callback, GiveUp, calls
<1>2. \A k \in Links : stage'[k] = "verify" => stage[k] = "verify"
  BY <1>0 DEF Callback, GiveUp, TypeOK
<1>3. UnderWay' = UnderWay
  BY <1>1 DEF UnderWay
<1>4. Unsaved'
  BY <1>0, <1>1, <1>2 DEF Unsaved
<1> QED
  BY <1>0, <1>1, <1>3, <1>4 DEF Kept, Shared, Known, Linked, Unlinked

LEMMA ExchangeStep ==
  ASSUME IInv, NEW l \in Links, Exchange(l)
  PROVE  Kept'
<1>0. TypeOK /\ Shared /\ Known /\ Unsaved /\ Linked /\ Unlinked
  BY DEF IInv
<1>1. /\ UNCHANGED <<store, cached, inflight, pc, tok, new, revoking, wish, excuse>>
      /\ issued' = issued + 1 /\ valid' = valid \cup {issued + 1}
  BY DEF Exchange, calls
<1>2. /\ fresh'[l] = issued + 1
      /\ \A k \in Links : k # l => stage'[k] = stage[k] /\ fresh'[k] = fresh[k]
  BY <1>0 DEF Exchange, TypeOK
<1>3. UnderWay' = UnderWay
  BY <1>1 DEF UnderWay
<1>4. issued \in Nat
  BY <1>0 DEF TypeOK, Tokens
<1>5. Known'
  BY <1>0, <1>1, <1>4 DEF Known
<1>6. Unsaved'
  <2> SUFFICES ASSUME NEW k \in Links, stage'[k] = "verify"
               PROVE  /\ fresh'[k] \in 1..issued' /\ fresh'[k] # store' /\ fresh'[k] \notin revoking'
                      /\ \A c \in Calls : tok'[c] # fresh'[k] /\ new'[c] # fresh'[k]
                      /\ \A m \in Links : stage'[m] = "verify" /\ fresh'[m] = fresh'[k] => m = k
    BY DEF Unsaved
  <2>1. CASE k = l
    <3>1. issued + 1 # store /\ issued + 1 \notin revoking
      BY <1>0, <1>4 DEF Known
    <3>2. \A c \in Calls : tok[c] # issued + 1 /\ new[c] # issued + 1
      BY <1>0, <1>4 DEF Known
    <3>3. \A m \in Links : m # l /\ stage'[m] = "verify" => fresh'[m] # issued + 1
      BY <1>0, <1>2, <1>4 DEF Unsaved
    <3> QED
      BY <1>1, <1>2, <1>4, <2>1, <3>1, <3>2, <3>3
  <2>2. CASE k # l
    <3>1. stage[k] = "verify" /\ fresh'[k] = fresh[k] /\ fresh[k] \in 1..issued
      BY <1>0, <1>2, <2>2 DEF Unsaved
    <3>2. fresh[k] # issued + 1 /\ fresh[k] \in 1..(issued + 1)
      BY <1>4, <3>1
    <3> QED
      BY <1>0, <1>1, <1>2, <2>2, <3>1, <3>2 DEF Unsaved
  <2> QED
    BY <2>1, <2>2
<1>7. Linked'
  BY <1>0, <1>1, <1>3 DEF Linked
<1> QED
  BY <1>0, <1>1, <1>3, <1>5, <1>6, <1>7 DEF Kept, Shared, Unlinked

LEMMA SaveStep ==
  ASSUME IInv, NEW l \in Links, Save(l)
  PROVE  Kept'
<1>0. TypeOK /\ Shared /\ Known /\ Unsaved /\ Linked /\ Unlinked
  BY DEF IInv
<1>1. /\ UNCHANGED <<issued, valid, inflight, pc, tok, new, fresh, revoking>>
      /\ store' = fresh[l] /\ wish' = "linked" /\ stage[l] = "verify"
  BY DEF Save, calls
<1>2. /\ stage'[l] # "verify"
      /\ \A k \in Links : k # l => stage'[k] = stage[k]
  BY <1>0 DEF Save, TypeOK
<1>3. UnderWay' = UnderWay
  BY <1>1 DEF UnderWay
<1>4. fresh[l] \in 1..issued /\ fresh[l] \notin revoking /\ issued \in Nat
  BY <1>0, <1>1 DEF Unsaved, TypeOK, Tokens
<1>5. Known'
  BY <1>0, <1>1, <1>4 DEF Known
<1>6. Unsaved'
  BY <1>0, <1>1, <1>2 DEF Unsaved
<1>7. ~excuse' => UnderWay = {} /\ fresh[l] \in valid
  BY DEF Save
<1>8. Linked'
  BY <1>1, <1>3, <1>4, <1>7 DEF Linked
<1>9. Unlinked'
  BY <1>1 DEF Unlinked
<1> QED
  BY <1>0, <1>1, <1>3, <1>5, <1>6, <1>8, <1>9 DEF Kept, Shared

LEMMA RevokeStep ==
  ASSUME IInv, NEW t \in Tokens, Revoke(t)
  PROVE  Kept'
<1>0. TypeOK /\ Shared /\ Known /\ Unsaved /\ Linked /\ Unlinked
  BY DEF IInv
<1>1. /\ UNCHANGED <<store, issued, cached, inflight, pc, tok, new, stage, fresh, wish, excuse>>
      /\ t \in revoking /\ revoking' \subseteq revoking
  BY DEF Revoke, calls, links
<1>2. valid \ revoking \subseteq valid' \ revoking'
  BY DEF Revoke
<1>3. UnderWay' = UnderWay
  BY <1>1 DEF UnderWay
<1>4. Linked'
  BY <1>0, <1>1, <1>2, <1>3 DEF Linked
<1> QED
  BY <1>0, <1>1, <1>3, <1>4 DEF Kept, Shared, Known, Unsaved, Unlinked

LEMMA LapseStep ==
  ASSUME IInv, NEW t \in Tokens, Lapse(t)
  PROVE  Kept'
<1>1. /\ UNCHANGED <<store, issued, cached, inflight, pc, tok, new, stage, fresh, revoking, wish>>
      /\ excuse' = TRUE
  BY DEF Lapse, calls, links
<1>2. UnderWay' = UnderWay
  BY <1>1 DEF UnderWay
<1> QED
  BY <1>1, <1>2 DEF IInv, Kept, Shared, Known, Unsaved, Linked, Unlinked

LEMMA Inductive == IInv /\ TypeOK' /\ [Next]_vars => IInv'
<1> SUFFICES ASSUME IInv, [Next]_vars PROVE Kept'
  BY DEF IInv, Kept
<1>1. CASE UNCHANGED vars
  <2>1. UnderWay' = UnderWay
    BY <1>1 DEF vars, calls, UnderWay
  <2> QED
    BY <1>1, <2>1 DEF vars, calls, links, IInv, Kept, Shared, Known, Unsaved, Linked, Unlinked
<1>2. CASE \E c \in Calls : \/ Join(c) \/ Refresh(c) \/ Grant(c) \/ Refuse(c) \/ Resend(c)
                            \/ Succeed(c) \/ Drop(c) \/ Fail(c)
  BY <1>2, JoinStep, RefreshStep, GrantStep, RefuseStep, ResendStep, SucceedStep, DropStep, FailStep
<1>3. CASE \E p \in Replicas : Invalidate(p) \/ Unlink(p)
  BY <1>3, InvalidateStep, UnlinkStep
<1>4. ASSUME NEW l \in Links, Exchange(l) \/ Save(l) PROVE Kept'
  BY <1>4, ExchangeStep, SaveStep
<1>5. ASSUME NEW l \in Links, NEW p \in Replicas, Callback(l, p) PROVE Kept'
  BY <1>5, CallbackStep
<1>6. ASSUME NEW l \in Links, GiveUp(l) PROVE Kept'
  <2>1. at[l] \in Replicas
    BY <1>6 DEF GiveUp, IInv, TypeOK
  <2> QED
    BY <1>6, <2>1, CallbackStep
<1>7. CASE \E t \in Tokens : Revoke(t) \/ Lapse(t)
  BY <1>7, RevokeStep, LapseStep
<1> QED
  BY <1>1, <1>2, <1>3, <1>4, <1>5, <1>6, <1>7 DEF Next

LEMMA Invariance == Spec => []IInv
<1>1. IInv => TypeOK
  BY DEF IInv
<1> QED
  BY <1>1, Initially, Inductive, TypeCorrect, PTL DEF Spec

-----------------------------------------------------------------------------
\* A completed link stays usable, the cases excuse names excepted.
THEOREM LinkKept == Spec => []LinkUsable
<1>1. IInv => LinkUsable
  BY DEF IInv, Linked, LinkUsable, UnderWay
<1> QED
  BY <1>1, Invariance, PTL

\* An unlink is final, a refresh under way excepted.
THEOREM UnlinkKept == Spec => []UnlinkFinal
<1>1. IInv => UnlinkFinal
  BY DEF IInv, Unlinked, UnlinkFinal
<1> QED
  BY <1>1, Invariance, PTL
=============================================================================
