---------------------------- MODULE OAuthTokens ----------------------------
(***************************************************************************)
(* The OAuth provider (core/auth.ts) for one host and client: the cached   *)
(* access token of each profile, the grants that fill the cache, of which  *)
(* there may be several at a time, and the refresh token, which a grant    *)
(* may rotate.  It is kept in process.env and in the env file, where a     *)
(* login in another process (core/oauth-login.ts) puts a new one.          *)
(*                                                                         *)
(* The instance is external: it may issue a new refresh token with a grant *)
(* and refuse the old one from then on, and its answers may get lost.      *)
(***************************************************************************)
EXTENDS Naturals

CONSTANTS Profiles,   \* OAuth profiles with a refresh token of their own
          Askers,     \* requests that need an access token, again and again
          MaxMade,    \* bound: refresh tokens the instance issues
          MaxSecrets, \* bound: passwords and client secrets of a profile
          None

ASSUME ProviderAssumption == {MaxMade, MaxSecrets} \subseteq Nat /\ None \notin Profiles

VARIABLES active,     \* the profile tool calls use
          secrets,    \* per profile, the number of its password and client secret
          setting,    \* SN_OAUTH_REFRESH_TOKEN in process.env, 0 the first of a profile
          file,       \* and in the env file
          memoryOnly, \* rotatedInMemory: profiles whose rotated token is not in the file
          access,     \* tokenCache: the secrets a token was obtained with, 0 if none
          grant,      \* what a request is getting, see Grants
          made,       \* refresh tokens 1..made were issued
          accepted,   \* those the instance accepts for a profile
          newer,      \* history: the file has a login's token, for the next start
          crossed,    \* history: a grant was under way when the secrets changed
          spoilt      \* history: what the code does not protect a refresh token from

stored == <<setting, file, memoryOnly, newer>>
instance == <<made, accepted>>
providerVars == <<active, secrets, stored, access, grant, instance, crossed, spoilt>>

\* A grant's profile, its secrets, its refresh token and the one it came back with.
Grants == [step : {"idle", "sent", "answered"}, by : Profiles \cup {None},
           under : Nat, sent : Nat, back : Nat]
NoGrant == [step |-> "idle", by |-> None, under |-> 0, sent |-> 0, back |-> 0]

ProviderTypeOK ==
    /\ active \in Profiles
    /\ secrets \in [Profiles -> Nat \ {0}] /\ access \in [Profiles -> Nat]
    /\ {setting, file} \subseteq [Profiles -> Nat]
    /\ {memoryOnly, newer, crossed, spoilt} \subseteq SUBSET Profiles
    /\ grant \in [Askers -> Grants]
    /\ \A c \in Askers : grant[c] # NoGrant => grant[c].step # "idle" /\ grant[c].by \in Profiles
    /\ made \in Nat
    /\ accepted \in [Profiles -> SUBSET Nat]

ProviderInit ==
    /\ active \in Profiles
    /\ secrets = [p \in Profiles |-> 1] /\ access = [p \in Profiles |-> 0]
    /\ setting = [p \in Profiles |-> 0] /\ file = setting
    /\ memoryOnly = {} /\ newer = {} /\ crossed = {} /\ spoilt = {}
    /\ grant = [c \in Askers |-> NoGrant]
    /\ made = 0
    /\ accepted = [p \in Profiles |-> {0}]

Granting(p) == {c \in Askers : grant[c].by = p}
Rotated(c) == grant[c].step = "answered" /\ grant[c].back # grant[c].sent

-----------------------------------------------------------------------------
(* getToken *)

\* No fresh token is cached: read the settings and send a grant.
AskToken(c) ==
    /\ grant[c] = NoGrant /\ access[active] = 0
    /\ grant' = [grant EXCEPT ![c] = [step |-> "sent", by |-> active, under |-> secrets[active],
                                      sent |-> setting[active], back |-> 0]]
    /\ UNCHANGED <<active, secrets, stored, access, instance, crossed, spoilt>>

\* The instance grants it, with a new refresh token or without.
GrantToken(c) ==
    LET g == grant[c] IN
    /\ g.step = "sent" /\ g.sent \in accepted[g.by]
    /\ \/ /\ grant' = [grant EXCEPT ![c].step = "answered", ![c].back = g.sent]
          /\ UNCHANGED instance
       \/ /\ made < MaxMade /\ made' = made + 1
          /\ grant' = [grant EXCEPT ![c].step = "answered", ![c].back = made + 1]
          /\ \E old \in {{}, {g.sent}} :
               accepted' = [accepted EXCEPT ![g.by] = (@ \ old) \cup {made + 1}]
    /\ UNCHANGED <<active, secrets, stored, access, crossed, spoilt>>

\* What becomes of a profile whose rotated token is lost.
Lose(c) == spoilt' = IF Rotated(c) THEN spoilt \cup {grant[c].by} ELSE spoilt

\* The answer is lost; a grant is replayable and sent again.
ResendToken(c) ==
    /\ grant[c].step = "answered"
    /\ Lose(c)
    /\ grant' = [grant EXCEPT ![c].step = "sent", ![c].back = 0]
    /\ UNCHANGED <<active, secrets, stored, access, instance, crossed>>

\* The grant is refused or fails for good, and the request with it.  (One that
\* the instance carries out later is a lost answer, here as after a restart.)
FailToken(c) ==
    /\ grant[c] # NoGrant
    /\ Lose(c)
    /\ grant' = [grant EXCEPT ![c] = NoGrant]
    /\ UNCHANGED <<active, secrets, stored, access, instance, crossed>>

\* Mutants: a failed write is not noted; the running process keeps the old token.
Persist_Silent(p, t) ==
    /\ setting' = [setting EXCEPT ![p] = t]
    /\ \/ /\ file' = [file EXCEPT ![p] = t]
          /\ memoryOnly' = memoryOnly \ {p} /\ newer' = newer \ {p}
       \/ UNCHANGED <<file, memoryOnly, newer>>
Persist_FileOnly(p, t) ==
    /\ file' = [file EXCEPT ![p] = t]
    /\ UNCHANGED <<setting, memoryOnly, newer>>

\* persistRotatedRefreshToken: to the env file, or to process.env alone when the
\* file cannot be written.
Persist(p, t) ==
    /\ setting' = [setting EXCEPT ![p] = t]
    /\ \/ /\ file' = [file EXCEPT ![p] = t]
          /\ memoryOnly' = memoryOnly \ {p} /\ newer' = newer \ {p}
       \/ memoryOnly' = memoryOnly \cup {p} /\ UNCHANGED <<file, newer>>

\* The answer is here: cache the access token; a rotated refresh token is kept
\* under the key of the profile that is active by now.
KeepToken(c) ==
    LET g == grant[c] IN
    /\ g.step = "answered"
    /\ grant' = [grant EXCEPT ![c] = NoGrant]
    /\ access' = [access EXCEPT ![g.by] = g.under]
    /\ IF Rotated(c)
       THEN /\ Persist(active, g.back)
            /\ spoilt' = IF g.by = active THEN spoilt ELSE spoilt \cup {g.by, active}
       ELSE UNCHANGED <<stored, spoilt>>
    /\ UNCHANGED <<active, secrets, instance, crossed>>

\* An access token expires, or invalidateToken drops it after a 401.
DropAccess(p) ==
    /\ access[p] # 0
    /\ access' = [access EXCEPT ![p] = 0]
    /\ UNCHANGED <<active, secrets, stored, grant, instance, crossed, spoilt>>

-----------------------------------------------------------------------------
(* What changes the settings *)

NoTokens == [p \in Profiles |-> 0]

\* Mutant: the cached tokens stay.
ChangeSecrets_Keeps(p) ==
    /\ secrets[p] < MaxSecrets
    /\ secrets' = [secrets EXCEPT ![p] = @ + 1]
    /\ crossed' = IF Granting(p) = {} THEN crossed \ {p} ELSE crossed \cup {p}
    /\ UNCHANGED <<active, stored, access, grant, instance, spoilt>>

\* set_credentials: the password or the client secret, which are not part of
\* the cache key; the cached tokens go (invalidateTokens).
ChangeSecrets(p) ==
    /\ secrets[p] < MaxSecrets
    /\ secrets' = [secrets EXCEPT ![p] = @ + 1]
    /\ access' = NoTokens
    /\ crossed' = IF Granting(p) = {} THEN crossed \ {p} ELSE crossed \cup {p}
    /\ UNCHANGED <<active, stored, grant, instance, spoilt>>

\* use_instance over stdio.
SwitchProfile(p) ==
    /\ p # active /\ active' = p
    /\ access' = NoTokens
    /\ UNCHANGED <<secrets, stored, grant, instance, crossed, spoilt>>

\* runOAuthLogin in another process: a new refresh token for the env file.
Login(p) ==
    /\ made < MaxMade /\ made' = made + 1
    /\ accepted' = [accepted EXCEPT ![p] = @ \cup {made'}]
    /\ file' = [file EXCEPT ![p] = made']
    /\ newer' = newer \cup {p}
    /\ UNCHANGED <<active, secrets, setting, memoryOnly, access, grant, crossed, spoilt>>

\* The server stops or dies, and starts with what the env file has.
Restart ==
    /\ active' \in Profiles
    /\ setting' = file /\ memoryOnly' = {} /\ newer' = {}
    /\ access' = NoTokens /\ crossed' = {}
    /\ grant' = [c \in Askers |-> NoGrant]
    /\ spoilt' = (spoilt \cup memoryOnly \cup {grant[c].by : c \in {d \in Askers : Rotated(d)}})
                   \ {p \in newer : file[p] \in accepted[p]}
    /\ UNCHANGED <<secrets, file, instance>>

\* The instance withdraws the refresh tokens of a profile, or they expire.
Withdraw(p) ==
    /\ accepted' = [accepted EXCEPT ![p] = {}]
    /\ spoilt' = spoilt \cup {p}
    /\ UNCHANGED <<active, secrets, stored, access, grant, made, crossed>>

ProviderNext ==
    \/ \E c \in Askers : \/ AskToken(c) \/ GrantToken(c) \/ ResendToken(c)
                         \/ FailToken(c) \/ KeepToken(c)
    \/ \E p \in Profiles : \/ DropAccess(p) \/ ChangeSecrets(p) \/ SwitchProfile(p)
                           \/ Login(p) \/ Withdraw(p)
    \/ Restart

ProviderSpec == ProviderInit /\ [][ProviderNext]_providerVars

-----------------------------------------------------------------------------
(* Properties *)

\* No access token is cached that was obtained with a secret changed since
\* (auth.ts:341-343), unless a grant was under way when it was changed.
SecretsCurrent ==
    \A p \in Profiles \ crossed : access[p] \in {0, secrets[p]}

\* However many grants use a profile's refresh token at once, and in whatever
\* order their answers are taken in (auth.ts:690-724), the process keeps one the
\* instance accepts, or the answer that brings it is here.  What spoils it: a
\* rotation whose answer is lost or comes after a switch of the profile, a restart
\* without the file, the instance.
LoginKept ==
    \A p \in Profiles \ spoilt :
        \/ setting[p] \in accepted[p]
        \/ \E c \in Granting(p) : /\ Rotated(c) /\ grant[c].sent = setting[p]
                                  /\ grant[c].back \in accepted[p]

\* The warning that a refresh token is lost on restart (auth.ts:429-432) is given
\* when that is so and only then; what a login put into the file is no loss.
RestartLossTold ==
    \A p \in Profiles :
        p \in memoryOnly \/ p \notin newer => (p \in memoryOnly <=> setting[p] # file[p])

\* A login is not lost in the process, nor without a warning with it.
LoginSafe == LoginKept /\ RestartLossTold
=============================================================================
