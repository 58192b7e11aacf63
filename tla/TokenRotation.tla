--------------------------- MODULE TokenRotation ---------------------------
(***************************************************************************)
(* The stored secret of one sub2api upstream with balance_auth_type        *)
(* sub2api_refresh_token, and the three parties that change what it is     *)
(* worth: the refresh of the poller, which spends the refresh token and    *)
(* saves the new pair; PUT /upstreams/:id, which reads the row, builds a   *)
(* new secret in memory and writes it; the sub2api server, which issues,   *)
(* rotates and expires tokens.  One refresh at a time (theorem             *)
(* MutualExclusion of PollerProofs), any number of PUT handlers.           *)
(*                                                                         *)
(* Tokens are numbers in the order the server issues them: number n names  *)
(* the access token, and the refresh token if there is a new one, of the   *)
(* n-th answer.  Encryption is a box that opens to what was put in it.     *)
(*                                                                         *)
(* An operator X_Fault is X with a bug its name tells; nothing uses it.    *)
(***************************************************************************)
EXTENDS Integers

CONSTANTS
    Writers,       \* slots for handlers of PUT /upstreams/:id
    CallKeys,      \* the call keys an administrator may configure
    NoKey,         \* call_key is empty
    Faults,        \* what may fail: "balance", "refresh", "revoke", "store"
    MaxTokens,     \* bound: answers of the server that carry tokens
    MaxRestarts    \* bound: process restarts

ASSUME RotationAssumption ==
    /\ NoKey \notin CallKeys
    /\ Faults \subseteq {"balance", "refresh", "revoke", "store"}
    /\ MaxTokens \in Nat \ {0}
    /\ MaxRestarts \in Nat

VARIABLES
    secret,        \* auth_secret_ciphertext, decrypted
    mask,          \* auth_secret_masked
    task,          \* the refresh in progress
    put,           \* the PUT handlers in progress
    shown,         \* what the last refresh told the dashboard about the balance
    issued,        \* tokens issued so far
    login,         \* which login of the account a token descends from
    validRefresh,  \* refresh tokens the server accepts
    validAccess,   \* access tokens the server accepts
    lapsed,        \* access tokens whose expires_in has run out
    restarts

stored == <<secret, mask>>
server == <<issued, login, validRefresh, validAccess, lapsed>>
vars   == <<stored, task, put, shown, server, restarts>>

-----------------------------------------------------------------------------
None  == 0                      \* the field is empty
Token == None .. MaxTokens
Key   == CallKeys \cup {NoKey}

\* BalanceCredentials; expires: balance_token_expires_at is set.
Credentials == [refresh: Token, access: Token, expires: BOOLEAN, call: Key]

Mask == [refresh: Token, access: Token, call: Key]

Outcome == {"balance", "call_only", "error"}

TaskRecord == [pc: {"idle", "cached", "refreshing", "probing", "saving"},
               creds: Credentials, outcome: Outcome]

PutRecord == [pc: {"idle", "writing"}, kind: {"attach", "replace", "settings"},
              secret: Credentials, mask: Mask]

NoCreds == [refresh |-> None, access |-> None, expires |-> FALSE, call |-> NoKey]
NoMask  == [refresh |-> None, access |-> None, call |-> NoKey]
NoTask  == [pc |-> "idle", creds |-> NoCreds, outcome |-> "error"]
NoPut   == [pc |-> "idle", kind |-> "settings", secret |-> NoCreds, mask |-> NoMask]

TypeOK ==
    /\ secret \in Credentials
    /\ mask \in Mask
    /\ task \in TaskRecord
    /\ put \in [Writers -> PutRecord]
    /\ shown \in Outcome \cup {"none"}
    /\ issued \in Token
    /\ login \in [Token -> Token]
    /\ validRefresh \in SUBSET Token
    /\ validAccess \in SUBSET Token
    /\ lapsed \in SUBSET Token
    /\ restarts \in 0 .. MaxRestarts

\* MaskBalanceCredentials: the tail of each part.
MaskBalanceCredentials(s) ==
    [refresh |-> s.refresh, access |-> s.access, call |-> s.call]

\* appendCallMask: the call part is replaced or added, the rest is kept.
appendCallMask(m, key) == [m EXCEPT !.call = key]

\* AttachCallCredentials on a secret that decodes as BalanceCredentials.
AttachCallCredentials(s, key) == [s EXCEPT !.call = key]

\* The administrator has added the upstream with the pair of the first login.
Init ==
    /\ \E access \in {None, 1}, expires \in BOOLEAN, key \in Key :
         secret = [refresh |-> 1, access |-> access, expires |-> expires, call |-> key]
    /\ mask = MaskBalanceCredentials(secret)
    /\ task = NoTask
    /\ put = [w \in Writers |-> NoPut]
    /\ shown = "none"
    /\ issued = 1
    /\ login = [t \in Token |-> IF t = 1 THEN 1 ELSE None]
    /\ validRefresh = {1}
    /\ validAccess = {1}
    /\ lapsed = {}
    /\ restarts = 0

-----------------------------------------------------------------------------
(* The server                                                              *)

\* A token nobody has seen, descending from a login.
Issue(origin) ==
    /\ issued < MaxTokens
    /\ issued' = issued + 1
    /\ login' = [login EXCEPT ![issued + 1] = origin]
    /\ validAccess' = validAccess \cup {issued + 1}
    /\ UNCHANGED lapsed

\* POST /api/v1/auth/refresh is accepted.  The server keeps the refresh token
\* it was given or replaces it; kept tells which.
Rotate(old, kept) ==
    /\ old \in validRefresh
    /\ Issue(login[old])
    /\ validRefresh' = IF kept THEN validRefresh
                       ELSE (validRefresh \ {old}) \cup {issued + 1}

\* expires_in runs out (not while the token is new and being tried).
Lapse(t) ==
    /\ issued < MaxTokens
    /\ t \in validAccess
    /\ ~(task.pc = "probing" /\ t = task.creds.access)
    /\ validAccess' = validAccess \ {t}
    /\ lapsed' = lapsed \cup {t}
    /\ UNCHANGED <<stored, task, put, shown, issued, login, validRefresh, restarts>>

\* The server drops an access token before it expires.
Revoke(t) ==
    /\ "revoke" \in Faults
    /\ issued < MaxTokens
    /\ t \in validAccess
    /\ validAccess' = validAccess \ {t}
    /\ UNCHANGED <<stored, task, put, shown, issued, login, validRefresh, lapsed,
                   restarts>>

-----------------------------------------------------------------------------
(* The refresh: RefreshUpstream around fetchWithRefreshToken               *)

\* The refresh ends and what it has of the balance is published.
Done(outcome) == task' = NoTask /\ shown' = outcome

WithoutBalance_Unknown(s) == IF s.call # NoKey THEN "unknown" ELSE "error"

\* The balance cannot be had: with call credentials fetchCallOnly answers and
\* the refresh is a success, without them it is an error.
WithoutBalance(s) == IF s.call # NoKey THEN "call_only" ELSE "error"

canUseCachedAccessToken_IgnoresExpiry(s) == s.access # None

canUseCachedAccessToken(s) ==
    s.access # None /\ (s.expires => s.access \notin lapsed)

\* GetUpstream and Decrypt: from here on the refresh works on its copy.
BeginRefresh ==
    /\ task.pc = "idle"
    /\ LET start(pc) == /\ task' = [NoTask EXCEPT !.pc = pc, !.creds = secret]
                        /\ UNCHANGED shown
       IN \/ canUseCachedAccessToken(secret) /\ start("cached")
          \/ ~canUseCachedAccessToken(secret) /\ secret.refresh # None
                 /\ start("refreshing")
          \/ ~canUseCachedAccessToken(secret) /\ secret.refresh = None
                 /\ Done("error")
    /\ UNCHANGED <<stored, put, server, restarts>>

\* fetchWithAccessToken with the cached token.
CachedOK ==
    /\ task.pc = "cached"
    /\ task.creds.access \in validAccess
    /\ Done("balance")
    /\ UNCHANGED <<stored, put, server, restarts>>

\* It fails: fetchCallOnly when there are call credentials; only without them
\* is the refresh token tried.
CachedFails ==
    /\ task.pc = "cached"
    /\ "balance" \in Faults \/ task.creds.access \notin validAccess
    /\ \/ /\ task.creds.call = NoKey /\ task.creds.refresh # None
          /\ task' = [task EXCEPT !.pc = "refreshing"]
          /\ UNCHANGED shown
       \/ /\ task.creds.call # NoKey \/ task.creds.refresh = None
          /\ Done(WithoutBalance(task.creds))
    /\ UNCHANGED <<stored, put, server, restarts>>

\* refreshAccessToken: the answer carries an access token and its expiry, and
\* perhaps a refresh token (without one the old one is kept).
RefreshAccessToken ==
    /\ task.pc = "refreshing"
    /\ \E kept \in BOOLEAN :
         /\ Rotate(task.creds.refresh, kept)
         /\ task' = [task EXCEPT !.pc = "probing",
                       !.creds = [refresh |-> IF kept THEN @.refresh ELSE issued + 1,
                                  access  |-> issued + 1,
                                  expires |-> TRUE,
                                  call    |-> @.call]]
    /\ UNCHANGED <<stored, put, shown, restarts>>

\* The server refuses the token, or the exchange fails before or after the
\* server has acted on it.  (Out of tokens, the modelled server refuses.)
RefreshFails ==
    /\ task.pc = "refreshing"
    /\ \/ /\ \/ task.creds.refresh \notin validRefresh
             \/ "refresh" \in Faults
             \/ issued = MaxTokens
          /\ UNCHANGED server
       \/ /\ "refresh" \in Faults
          /\ \E kept \in BOOLEAN : Rotate(task.creds.refresh, kept)
    /\ Done(WithoutBalance(task.creds))
    /\ UNCHANGED <<stored, put, restarts>>

Probe_DropsSecret ==
    /\ task.pc = "probing"
    /\ \/ /\ task.creds.access \in validAccess
          /\ task' = [task EXCEPT !.pc = "saving", !.outcome = "balance"]
          /\ UNCHANGED shown
       \/ /\ "balance" \in Faults \/ task.creds.access \notin validAccess
          /\ Done(WithoutBalance(task.creds))
    /\ UNCHANGED <<stored, put, server, restarts>>

\* fetchWithAccessToken with the new token.  Any FetchResult, the one of
\* fetchCallOnly too, is returned with the new secret; an error without it.
Probe ==
    /\ task.pc = "probing"
    /\ \/ /\ task.creds.access \in validAccess
          /\ task' = [task EXCEPT !.pc = "saving", !.outcome = "balance"]
          /\ UNCHANGED shown
       \/ /\ "balance" \in Faults \/ task.creds.access \notin validAccess
          /\ IF task.creds.call # NoKey
             THEN /\ task' = [task EXCEPT !.pc = "saving", !.outcome = "call_only"]
                  /\ UNCHANGED shown
             ELSE Done("error")
    /\ UNCHANGED <<stored, put, server, restarts>>

SaveSecret_KeepsMask ==
    /\ task.pc = "saving"
    /\ secret' = task.creds
    /\ Done(task.outcome)
    /\ UNCHANGED <<mask, put, server, restarts>>

SaveSecret_Merges ==
    /\ task.pc = "saving"
    /\ secret' = [secret EXCEPT !.access = task.creds.access]
    /\ mask' = MaskBalanceCredentials(secret')
    /\ Done(task.outcome)
    /\ UNCHANGED <<put, server, restarts>>

\* Encrypt and UpdateUpstreamSecret: ciphertext, nonce and mask in one UPDATE,
\* whatever the row holds by now.
SaveSecret ==
    /\ task.pc = "saving"
    /\ \/ /\ secret' = task.creds
          /\ mask' = MaskBalanceCredentials(task.creds)
          /\ Done(task.outcome)
       \/ /\ "store" \in Faults
          /\ Done("error")
          /\ UNCHANGED stored
    /\ UNCHANGED <<put, server, restarts>>

-----------------------------------------------------------------------------
(* PUT /upstreams/:id: GetUpstream and buildUpdate, then UpdateUpstream    *)

PutIdle(w) == put[w].pc = "idle"

PutBuilt(w, kind, s, m) ==
    put' = [put EXCEPT ![w] = [pc |-> "writing", kind |-> kind,
                               secret |-> s, mask |-> m]]

\* shouldAttachCallCredentialsOnly: the request has a call key (and URL) only.
PutAttach(w) ==
    /\ PutIdle(w)
    /\ \E key \in CallKeys :
         PutBuilt(w, "attach", AttachCallCredentials(secret, key),
                               appendCallMask(mask, key))
    /\ UNCHANGED <<stored, task, shown, server, restarts>>

\* shouldUpdateCredential: the administrator has logged in at the server and
\* sends what that login gave, with or without call credentials.
PutReplace(w) ==
    /\ PutIdle(w)
    /\ Issue(issued + 1)
    /\ validRefresh' = validRefresh \cup {issued + 1}
    /\ \E refresh, access \in {None, issued + 1}, expires \in BOOLEAN, key \in Key :
         /\ refresh # None \/ access # None
         /\ LET new == [refresh |-> refresh, access |-> access, expires |-> expires,
                        call |-> key]
            IN PutBuilt(w, "replace", new, MaskBalanceCredentials(new))
    /\ UNCHANGED <<stored, task, shown, restarts>>

\* No credential field: ciphertext and nonce are emptied in memory.
PutSettings(w) ==
    /\ PutIdle(w)
    /\ PutBuilt(w, "settings", NoCreds, mask)
    /\ UNCHANGED <<stored, task, shown, server, restarts>>

\* UpdateUpstream writes the secret columns only if there is a ciphertext.
PutWrite(w) ==
    /\ put[w].pc = "writing"
    /\ \/ put[w].kind # "settings" /\ secret' = put[w].secret /\ mask' = put[w].mask
       \/ put[w].kind = "settings" /\ UNCHANGED stored
       \/ "store" \in Faults /\ UNCHANGED stored
    /\ put' = [put EXCEPT ![w] = NoPut]
    /\ UNCHANGED <<task, shown, server, restarts>>

-----------------------------------------------------------------------------
\* The process dies and starts again; the row survives.
Restart ==
    /\ restarts < MaxRestarts
    /\ restarts' = restarts + 1
    /\ task' = NoTask
    /\ put' = [w \in Writers |-> NoPut]
    /\ UNCHANGED <<stored, shown, server>>

TaskStep == BeginRefresh \/ CachedOK \/ CachedFails \/ RefreshAccessToken
                \/ RefreshFails \/ Probe \/ SaveSecret

PutStep(w) == PutAttach(w) \/ PutReplace(w) \/ PutSettings(w) \/ PutWrite(w)

Next ==
    \/ TaskStep
    \/ \E w \in Writers : PutStep(w)
    \/ \E t \in Token : Lapse(t) \/ Revoke(t)
    \/ Restart

Spec == Init /\ [][Next]_vars

\* The ticker starts refresh after refresh and every call ends; a balance
\* endpoint that is asked again and again answers at some time.
FairSpec == Spec /\ WF_vars(TaskStep) /\ SF_vars(CachedOK)

-----------------------------------------------------------------------------
(* Properties                                                              *)

\* The mask the API shows is the mask of the secret in the row, whichever of
\* the poller and the PUT handlers wrote last: each of them writes both.
MaskDescribesSecret == mask = MaskBalanceCredentials(secret)

\* The two tokens of the row come from one login of the account, though a
\* rotation and PUTs with other tokens interleave: nobody merges halves.
OneLogin ==
    secret.refresh # None /\ secret.access # None =>
        login[secret.refresh] = login[secret.access]

\* No handler or refresh is between its read and its write.
Quiet == task.pc = "idle" /\ \A w \in Writers : PutIdle(w)

\* With call credentials a failing balance endpoint costs nothing: a rotated
\* refresh token is saved all the same (UpdatedSecret accompanies the result of
\* fetchCallOnly), so between refreshes the row holds a token that works.
CallKeyProtectsRotation ==
    Quiet /\ secret.call # NoKey => secret.refresh \in validRefresh

\* docs/05-frontend-api.md:607: after a successful refresh the new tokens are
\* saved.  So between refreshes the row holds a token that works, and the
\* administrator need not log in again.
RotatedTokenSaved == Quiet => secret.refresh \in validRefresh

LoginOf(s) == login[IF s.refresh # None THEN s.refresh ELSE s.access]

\* docs/05-frontend-api.md:396: credentials sent by PUT are saved.  A refresh
\* changes neither the login nor the call key of a secret, so when it saves,
\* the row still has those the administrator sent last.
AdminWriteNotOverwritten ==
    [][task.pc = "saving" /\ task' # task =>
         secret'.call = secret.call /\ LoginOf(secret)' = LoginOf(secret)]_vars

\* The balance comes back after failures of its endpoint when there is a call
\* key, so that no rotated token is lost, and balance_token_expires_at is set (a
\* refresh always sets it) or there is no access token yet, so that the call key
\* does not hide from fetchWithRefreshToken that the cached token is worthless.
BalanceRecoversOnExpiry ==
    shown # "balance" /\ secret.call # NoKey /\ (secret.expires \/ secret.access = None)
        ~> shown = "balance"
=============================================================================
