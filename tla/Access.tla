------------------------------- MODULE Access -------------------------------
(***************************************************************************)
(* One upstream from the dialog to the status of its items: the row an     *)
(* administrator creates and edits (AddChannelModal, handlers createUpstream*)
(* and updateUpstream), and the refresh that opens the secret, logs in     *)
(* where it must, asks the upstream for the account with what the auth     *)
(* type makes of the secret, and checks the call key of each group.        *)
(*                                                                         *)
(* An edit and a refresh exclude each other here; what they do to each     *)
(* other is the subject of TokenRotation.  Encryption and the store do not *)
(* fail.  The table of items is the subject of Poller and GroupItems.      *)
(*                                                                         *)
(* An operator X_Fault is X with a bug its name tells; nothing uses it.    *)
(***************************************************************************)
EXTENDS Secrets

CONSTANTS
    Groups,     \* the enabled groups of the upstream
    Entries,    \* ids of the channels or accounts an admin API lists
    Self        \* external id of the item of the account itself

ASSUME AccessAssumption == Groups # {} /\ Self \notin Entries

VARIABLES
    row,     \* the row of table upstreams
    given,   \* what the administrator last entered as credential and as call key
    task     \* the refresh in progress, or the last one

vars == <<row, given, task>>

-----------------------------------------------------------------------------
NotCalled == [http |-> "not_called", lines |-> {}]

\* An item and what the call endpoint answered for its group.
Item == [ext: Entries \cup {Self}, group: Groups,
         answer: Answer \cup {NotCalled}, status: {"unknown", "available", "error"}]

\* auth_type, secret: runtimeUpstream and runtimeSecret, the secret as exchanged.
\* sent: the credentials the upstream has seen.  cached: the access token at hand was
\* tried.  lapsed: there was none to try.  exchanged: the refresh token was spent.
Task == [pc: {"idle", "login", "fetch", "exchange", "me", "profile", "user", "save", "done"},
         auth_type: AuthTypes, secret: Secret,
         sent: SUBSET (Accounts \cup {None, Envelope}),
         cached: BOOLEAN, lapsed: BOOLEAN, exchanged: BOOLEAN,
         items: SUBSET Item, failed: BOOLEAN]

NoTask == [pc |-> "idle", auth_type |-> "bearer", secret |-> EmptySecret, sent |-> {},
           cached |-> FALSE, lapsed |-> FALSE, exchanged |-> FALSE,
           items |-> {}, failed |-> FALSE]

Resting == task.pc \in {"idle", "done"}

Key1 == ExtractCallCredentials(task.secret)

TypeOK ==
    /\ row \in Row
    /\ given \in [account: Accounts, call: Key]
    /\ task \in Task

-----------------------------------------------------------------------------
(* The administrator.                                                      *)

\* The fields the documentation has a request of a type bring.
DocumentedFields(type) ==
    CASE type = "newapi_access_token" -> {{"balance_access_token", "balance_user_id"}}
      [] type = "sub2api_refresh_token" ->
           {{"balance_refresh_token"}, {"balance_access_token"},
            {"balance_refresh_token", "balance_access_token"}}
      [] type = "new_api_token" -> {{"access_token", "user_id"}}
      [] type = "password" -> {{"auth_username", "auth_password"}}
      [] type = "x_api_key" -> {{"api_key"}}
      [] OTHER -> {{"auth_secret"}}

DocumentedTypes(kind) ==
    {"password", "x_api_key", "bearer", "cookie", "admin_api_key"} \cup
        (IF kind = "new_api" THEN {"newapi_access_token", "new_api_token"}
         ELSE {"sub2api_refresh_token"})

\* A type of the balance goes in balance_auth_type, any other in auth_type.
RequestOf(kind, type, fields, account, call) ==
    [kind |-> kind,
     auth_type |-> IF type \in BalanceAuthTypes THEN "" ELSE type,
     balance_auth_type |-> IF type \in BalanceAuthTypes THEN type ELSE "",
     has |-> fields \cup {"url"}, account |-> account, call |-> call]

Init ==
    /\ task = NoTask
    /\ \E kind \in Kinds, account \in Accounts, call \in Key :
         \E type \in DocumentedTypes(kind) : \E fields \in DocumentedFields(type) :
           /\ row \in buildCreate(RequestOf(kind, type, fields, account, call))
           /\ given = [account |-> account, call |-> call]

\* The form of the dialog when it opens.
defaultBalanceAuthType(kind) ==
    IF kind = "new_api" THEN "newapi_access_token" ELSE "sub2api_refresh_token"

initialBalanceAuthType(u) ==
    CASE u.auth_type = "password" -> "password"
      [] u.auth_type \in {"x_api_key", "admin_api_key"} -> "x_api_key"
      [] u.auth_type \in {"newapi_access_token", "new_api_token"} -> "newapi_access_token"
      [] u.auth_type = "sub2api_refresh_token" -> "sub2api_refresh_token"
      [] OTHER -> defaultBalanceAuthType(u.kind)

Offered(kind) ==
    {defaultBalanceAuthType(kind), "password"} \cup
        (IF initialBalanceAuthType(row) = "x_api_key" THEN {"x_api_key"} ELSE {})

\* The administrator edits the row in the dialog: the call key, the credential or
\* both.  The credential may stay blank while its mode stays, the call key while the
\* mask shows one.
Put ==
    /\ Resting
    /\ \E kind \in Kinds, call \in Key : \E mode \in Offered(kind) :
         /\ call # NoKey \/ row.mask # NoKey
         /\ \/ /\ mode = initialBalanceAuthType(row)
               /\ row' \in buildUpdate(row, RequestOf(kind, "", {}, None, call))
               /\ given' = [given EXCEPT !.call = IF call = NoKey THEN @ ELSE call]
            \/ \E fields \in DocumentedFields(mode), account \in Accounts :
                 /\ row' \in buildUpdate(row, RequestOf(kind, mode, fields, account, call))
                 /\ given' = [account |-> account,
                              call |-> IF call = NoKey THEN given.call ELSE call]
    /\ task' = NoTask

-----------------------------------------------------------------------------
(* The refresh.                                                            *)

\* GetUpstream, Decrypt.
Load ==
    /\ Resting
    /\ task' = [NoTask EXCEPT !.pc = IF row.auth_type = "password" THEN "login" ELSE "fetch",
                              !.auth_type = row.auth_type, !.secret = row.secret]
    /\ UNCHANGED <<row, given>>

\* An account that answered is available, unless its call key says otherwise.
StatusOf(key, answer) ==
    LET status == CheckOpenAICompatibleCall(key, answer)
    IN  IF status = "unknown" THEN "available" ELSE status

\* What the check of a key comes upon.
Answers(key) == IF key = NoKey THEN {NotCalled} ELSE Answer

\* The credential the next request bears joins those the upstream has seen.
Sent(type) == task.sent \cup {ApplyAuth(type, task.secret)}

\* A fetch is over; a new pair of tokens is still to be saved.
Over == IF task.exchanged THEN "save" ELSE "done"

\* The item of the account itself, in the group it reports or the first enabled one.
UserItem(sent) ==
    \E g \in Groups, answer \in Answers(Key1) :
      task' = [task EXCEPT !.pc = Over, !.sent = sent,
                 !.items = {[ext |-> Self, group |-> g, answer |-> answer,
                             status |-> StatusOf(Key1, answer)]}]

\* An admin API lists entries, each in some of the groups.
ListItems(Listings) ==
    \E listed \in Listings : \E answers \in [listed -> Answers(Key1)] :
      task' = [task EXCEPT !.pc = "done", !.sent = Sent(task.auth_type),
                 !.items = {[ext |-> l[1], group |-> l[2], answer |-> answers[l],
                             status |-> CheckOpenAICompatibleCall(Key1, answers[l])] :
                              l \in listed}]

\* fetchCallOnly: without the account, an item for each group.
CallOnly(sent) ==
    \E answers \in [Groups -> Answer] :
      task' = [task EXCEPT !.pc = Over, !.sent = sent,
                 !.items = {[ext |-> Self, group |-> g, answer |-> answers[g],
                             status |-> CheckOpenAICompatibleCall(Key1, answers[g])] :
                              g \in Groups}]

Fail(sent) == task' = [task EXCEPT !.pc = "done", !.sent = sent, !.failed = TRUE]

CallOnlyOrFail_Fails(sent) == Fail(sent)

CallOnlyOrFail(sent) ==
    \/ Key1 # NoKey /\ CallOnly(sent)
    \/ Key1 = NoKey /\ Fail(sent)

\* LoginWithPassword: a new_api gives a session, a sub2api a token.
Session(kind, account) ==
    IF kind = "new_api" THEN [EmptySecret EXCEPT !.form = "session", !.account = account]
    ELSE RawSecret(account)

LoginWithPassword_LosesKey ==
    /\ task.pc = "login"
    /\ DecodePasswordCredentials(task.secret)
    /\ task' = [task EXCEPT !.pc = "fetch", !.sent = {task.secret.account},
                  !.auth_type = IF row.kind = "new_api" THEN "new_api_session" ELSE "bearer",
                  !.secret = Session(row.kind, task.secret.account)]
    /\ UNCHANGED <<row, given>>

LoginWithPassword ==
    /\ task.pc = "login"
    /\ DecodePasswordCredentials(task.secret)
    /\ LET type == IF row.kind = "new_api" THEN "new_api_session" ELSE "bearer" IN
       \E s \in AttachCallCredentials(type, Session(row.kind, task.secret.account), Key1) :
         task' = [task EXCEPT !.pc = "fetch", !.sent = {task.secret.account},
                              !.auth_type = type, !.secret = s]
    /\ UNCHANGED <<row, given>>

\* The login is refused, or wants a second factor.
LoginFails ==
    /\ task.pc = "login"
    /\ task' = [task EXCEPT !.pc = "done", !.failed = TRUE,
                            !.sent = @ \cup {task.secret.account}]
    /\ UNCHANGED <<row, given>>

(* new_api.                                                                *)
WithAccessToken == task.secret.form = "newapi_access_token"

\* fetchUserSelfWithAccessToken
TokenSelf ==
    /\ task.pc = "fetch" /\ row.kind = "new_api" /\ WithAccessToken
    /\ \/ UserItem(Sent("new_api_token"))
       \/ CallOnlyOrFail(Sent("new_api_token"))
    /\ UNCHANGED <<row, given>>

\* GET /api/channel/: every channel stands for every group.
AdminChannels ==
    /\ task.pc = "fetch" /\ row.kind = "new_api" /\ ~WithAccessToken
    /\ \/ ListItems({E \X Groups : E \in SUBSET Entries})
       \/ task' = [task EXCEPT !.pc = "user", !.sent = Sent(task.auth_type)]
    /\ UNCHANGED <<row, given>>

\* fetchUserSelf
UserSelf ==
    /\ task.pc = "user" /\ row.kind = "new_api"
    /\ \/ UserItem(Sent(task.auth_type))
       \/ CallOnlyOrFail(Sent(task.auth_type))
    /\ UNCHANGED <<row, given>>

(* sub2api.                                                                *)
WithRefreshToken == task.secret.form = "sub2api_refresh_token"

\* An account is listed for its own group, or for every group if it names none.
AdminAccounts ==
    /\ task.pc = "fetch" /\ row.kind = "sub2api" /\ ~WithRefreshToken
    /\ \/ ListItems(SUBSET (Entries \X Groups))
       \/ task' = [task EXCEPT !.pc = "user", !.sent = Sent(task.auth_type)]
    /\ UNCHANGED <<row, given>>

\* fetchUserProfile, over two paths.
UserProfile ==
    /\ task.pc = "user" /\ row.kind = "sub2api"
    /\ \/ UserItem(Sent(task.auth_type))
       \/ CallOnlyOrFail(Sent(task.auth_type))
    /\ UNCHANGED <<row, given>>

\* fetchWithRefreshToken: the access token at hand, if it has not run out; else a
\* new one; else nothing, and the call key is not looked at.
FetchWithRefreshToken ==
    /\ task.pc = "fetch" /\ row.kind = "sub2api" /\ WithRefreshToken
    /\ \/ /\ "access" \in task.secret.tokens
          /\ task' = [task EXCEPT !.pc = "me", !.cached = TRUE]
       \/ /\ "refresh" \in task.secret.tokens
          /\ task' = [task EXCEPT !.pc = "exchange"]
       \/ /\ "refresh" \notin task.secret.tokens
          /\ task' = [task EXCEPT !.pc = "done", !.failed = TRUE, !.lapsed = TRUE]
    /\ UNCHANGED <<row, given>>

\* refreshAccessToken bears the refresh token itself.
RefreshAccessToken ==
    /\ task.pc = "exchange"
    /\ \/ task' = [task EXCEPT !.pc = "me", !.exchanged = TRUE,
                     !.sent = @ \cup {task.secret.account},
                     !.secret.tokens = {"access", "refresh"}]
       \/ CallOnlyOrFail(task.sent \cup {task.secret.account})
    /\ UNCHANGED <<row, given>>

\* fetchWithAccessToken: /auth/me, and /user/profile if it has no balance.
Me ==
    /\ task.pc = "me"
    /\ \/ UserItem(Sent("bearer"))
       \/ task' = [task EXCEPT !.pc = "profile", !.sent = Sent("bearer")]
    /\ UNCHANGED <<row, given>>

\* Without a balance the call key decides.  Without a call key the error of a token
\* at hand leads to a new one, and the error of a new one takes it along.
Profile ==
    /\ task.pc = "profile"
    /\ \/ UserItem(Sent("bearer"))
       \/ Key1 # NoKey /\ CallOnly(Sent("bearer"))
       \/ /\ Key1 = NoKey
          /\ IF task.cached /\ ~task.exchanged /\ "refresh" \in task.secret.tokens
             THEN task' = [task EXCEPT !.pc = "exchange", !.sent = Sent("bearer")]
             ELSE Fail(Sent("bearer"))
    /\ UNCHANGED <<row, given>>

\* UpdateUpstreamSecret
SaveSecret ==
    /\ task.pc = "save"
    /\ row' = [row EXCEPT !.secret = task.secret, !.mask = Key1]
    /\ task' = [task EXCEPT !.pc = "done"]
    /\ UNCHANGED given

Next ==
    \/ Put \/ Load \/ LoginWithPassword \/ LoginFails
    \/ TokenSelf \/ AdminChannels \/ UserSelf
    \/ AdminAccounts \/ UserProfile \/ FetchWithRefreshToken \/ RefreshAccessToken
    \/ Me \/ Profile \/ SaveSecret

Spec == Init /\ [][Next]_vars

-----------------------------------------------------------------------------
(* A bearer row whose call key is entered twice wraps its token twice      *)
(* (README, Disagreements); cookie and admin_api_key rows keep no call     *)
(* key.  The properties below leave out the rows they do not hold of.      *)
Nests(type)    == type = "bearer"
KeepsKey(type) == type \notin {"cookie", "admin_api_key"}

\* The stored secret is what the administrator entered last: the account of the last
\* credential, and no call key but the last, whichever mix of edits, logins and
\* exchanges came between (AttachCallCredentials, credentialSecret, UpdatedSecret).
SecretIsLatest ==
    /\ ~Nests(row.auth_type) => row.secret.account = given.account
    /\ row.secret.call \in {NoKey, given.call}

\* The dialog takes the call part of the mask for proof that a call key is stored:
\* where there is room for one, the part is the tail of the stored key
\* (appendCallMask, MaskBalanceCredentials, credentialSecret).
MaskTellsCallKey == KeepsKey(row.auth_type) => row.mask = row.secret.call

\* What an upstream is shown is the credential entered for it, never the JSON it is
\* kept in and never nothing: the auth type of a row and the encoding of its secret
\* fit each other, also after a login changed both (ApplyAuth, ResolveAuth).
RequestsCarryTheCredential == ~Nests(row.auth_type) => task.sent \subseteq {given.account}

\* With a call key stored, an item is available exactly if the call endpoint of its
\* own group gave a clean stream; the balance has no say, even when its query failed
\* or a login replaced the secret (docs/05-frontend-api.md:325).
StatusIsCallResult ==
    task.pc = "done" /\ row.secret.call # NoKey =>
        \A i \in task.items :
          (i.status = "available")
              <=> (i.answer.http = "ok" /\ i.answer.lines = {"json"})

\* A balance that cannot be read does not hide whether the call key works: with a key
\* stored a refresh ends with items.  Excepted are a password, whose login comes
\* first, and a sub2api access token that has run out with no refresh token to go with
\* it: the code gives up before it looks at the call key.
AvailabilityReported ==
    /\ task.pc = "done" /\ row.secret.call # NoKey
    /\ row.auth_type # "password" /\ ~task.lapsed
    => ~task.failed

\* An edit that leaves the call key blank keeps the stored one
\* (AddChannelModal.vue:440, docs/05-frontend-api.md:396).
CallKeyKept ==
    KeepsKey(row.auth_type) /\ ~Nests(row.auth_type) => row.secret.call = given.call
=============================================================================
