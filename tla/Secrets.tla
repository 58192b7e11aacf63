------------------------------ MODULE Secrets ------------------------------
(***************************************************************************)
(* What is kept in the secret box for an upstream and how it is made, read *)
(* and worn: the encodings of upstream/helpers.go, the rules of            *)
(* httpapi/router.go that turn a request into a stored secret, and the     *)
(* check of a call key.  A secret is data; there are no steps here.        *)
(*                                                                         *)
(* The credential of an account (a token with its user id, a name with its *)
(* password, a cookie) is the name of the account.  An operator that may   *)
(* refuse returns the set of its results: one, or none.                    *)
(*                                                                         *)
(* An operator X_Fault is X with a bug its name tells; nothing uses it.    *)
(***************************************************************************)

CONSTANTS
    Accounts,   \* the accounts whose credentials an administrator may enter
    CallKeys,   \* the call keys an administrator may enter
    NoKey,      \* call_key is empty
    None,       \* no credential
    Envelope    \* the text of an encoded secret, where a credential belongs

ASSUME SecretAssumption ==
    /\ NoKey \notin CallKeys
    /\ None \notin Accounts
    /\ Envelope \notin Accounts \cup {None}

-----------------------------------------------------------------------------
Kinds == {"new_api", "sub2api"}

BalanceAuthTypes == {"newapi_access_token", "sub2api_refresh_token", "password"}

AuthTypes == BalanceAuthTypes \cup
    {"bearer", "cookie", "admin_api_key", "new_api_token", "new_api_session", "x_api_key"}

Key == CallKeys \cup {NoKey}

\* The Go type a secret is the JSON of; "raw" is text that is none of them.
Forms == BalanceAuthTypes \cup {"session", "bearer", "api_key", "raw", "empty"}

\* tokens: which tokens a secret with balance_auth_type sub2api_refresh_token has.
Secret == [form: Forms, account: Accounts \cup {None, Envelope},
           tokens: SUBSET {"access", "refresh"}, call: Key]

EmptySecret   == [form |-> "empty", account |-> None, tokens |-> {}, call |-> NoKey]
RawSecret(a)  == [EmptySecret EXCEPT !.form = "raw", !.account = a]

-----------------------------------------------------------------------------
(* Reading a secret.                                                       *)
DecodeBalanceCredentials(s) == s.form \in BalanceAuthTypes

DecodePasswordCredentials(s) == s.form = "password"

DecodeNewAPITokenCredentials(s) == s.form = "newapi_access_token"

DecodeNewAPISessionCredentials(s) == s.form = "session"

DecodeBearerCredentials(s) ==
    \/ s.form = "bearer"
    \/ s.form = "sub2api_refresh_token" /\ "access" \in s.tokens

DecodeAPIKeyCredentials(s) == s.form = "api_key"

\* The decoder an auth type relies on; the other types take the secret as it is.
Decodes(type, s) ==
    \/ type = "new_api_token"   /\ DecodeNewAPITokenCredentials(s)
    \/ type = "new_api_session" /\ DecodeNewAPISessionCredentials(s)
    \/ type = "x_api_key"       /\ DecodeAPIKeyCredentials(s)
    \/ type = "bearer"          /\ DecodeBearerCredentials(s)

WholeText(s) == IF s.form \in {"raw", "empty"} THEN s.account ELSE Envelope

\* The credential a request to the upstream bears.
ApplyAuth(type, s) == IF Decodes(type, s) THEN s.account ELSE WholeText(s)

\* An envelope in which the decoders find a key; text holds none.
ExtractCallCredentials(s) == s.call

-----------------------------------------------------------------------------
(* Making a secret.                                                        *)
EncodeBearerCredentials(token, key) ==
    IF token = None THEN {}
    ELSE {[form |-> "bearer", account |-> token, tokens |-> {}, call |-> key]}

AttachCallCredentials_Unattached(type, s, key) == {s}

\* Types without an envelope keep no key: the secret is returned as it is.
AttachCallCredentials(type, s, key) ==
    CASE key = NoKey -> {s}
      [] key # NoKey /\ DecodeBalanceCredentials(s) -> {[s EXCEPT !.call = key]}
      [] key # NoKey /\ ~DecodeBalanceCredentials(s) ->
           CASE type = "bearer" -> EncodeBearerCredentials(WholeText(s), key)
             [] type \in {"new_api_token", "new_api_session", "x_api_key"} ->
                  IF Decodes(type, s) THEN {[s EXCEPT !.call = key]} ELSE {}
             [] OTHER -> {s}

-----------------------------------------------------------------------------
(* Requests.  "" is a field that is absent or blank; url stands for url,   *)
(* base_url and call_url, call for call_key and key.  All credentials of a *)
(* request are of one account.                                             *)
Fields == {"url", "auth_secret", "access_token", "user_id", "balance_access_token",
           "balance_refresh_token", "balance_user_id", "auth_username",
           "auth_password", "api_key"}

Request == [kind: Kinds \cup {""}, auth_type: AuthTypes \cup {""},
            balance_auth_type: BalanceAuthTypes \cup {""},
            has: SUBSET Fields, account: Accounts \cup {None}, call: Key]

Has(req, fields) == req.has \cap fields # {}

\* The type of the first rule that applies.
canonicalizeUpstreamRequest(req) ==
    IF req.auth_type # "" THEN req.auth_type
    ELSE IF req.balance_auth_type # "" THEN req.balance_auth_type
    ELSE IF Has(req, {"auth_username", "auth_password"}) THEN "password"
    ELSE IF Has(req, {"api_key"}) THEN "x_api_key"
    ELSE IF Has(req, {"balance_refresh_token"}) THEN "sub2api_refresh_token"
    ELSE IF Has(req, {"balance_access_token", "access_token"}) THEN "newapi_access_token"
    ELSE IF req.kind = "new_api" THEN "newapi_access_token"
    ELSE IF req.kind = "sub2api" THEN "sub2api_refresh_token"
    ELSE "bearer"

\* An update takes the tokens in the other order, and may leave the type open.
canonicalizeUpstreamUpdateRequest(req) ==
    IF req.auth_type # "" THEN req.auth_type
    ELSE IF req.balance_auth_type # "" THEN req.balance_auth_type
    ELSE IF Has(req, {"auth_username", "auth_password"}) THEN "password"
    ELSE IF Has(req, {"balance_access_token", "access_token"}) THEN "newapi_access_token"
    ELSE IF Has(req, {"balance_refresh_token"}) THEN "sub2api_refresh_token"
    ELSE IF Has(req, {"api_key"}) THEN "x_api_key"
    ELSE ""

credentialFields ==
    {"auth_secret", "access_token", "user_id", "balance_user_id", "balance_access_token",
     "balance_refresh_token", "api_key", "auth_username", "auth_password"}

\* call_url counts, base_url and url do not; a request has call_url only with a key.
shouldUpdateCredential(req) ==
    Has(req, credentialFields) \/ req.balance_auth_type # "" \/ req.call # NoKey

shouldAttachCallCredentialsOnly(req) ==
    req.call # NoKey /\ ~Has(req, credentialFields) /\ req.balance_auth_type = ""

\* An api_key in the place of the call key of a password is not modelled.
callCredentialsFromRequest(req) == IF "url" \in req.has THEN req.call ELSE NoKey

\* The groups of fields a type needs one of each of.
Needs(type) ==
    CASE type = "newapi_access_token" ->
           {{"balance_access_token", "access_token", "auth_secret"},
            {"balance_user_id", "user_id"}}
      [] type = "sub2api_refresh_token" ->
           {{"balance_access_token", "access_token", "balance_refresh_token"}}
      [] type = "new_api_token" -> {{"access_token", "auth_secret"}, {"user_id"}}
      [] type = "x_api_key" -> {{"api_key", "auth_secret"}}
      [] type = "password" -> {{"auth_username"}, {"auth_password"}}
      [] OTHER -> {{"auth_secret"}}

\* The tokens of a sub2api_refresh_token credential.
Tokens(type, req) ==
    {t \in {"access", "refresh"} :
       /\ type = "sub2api_refresh_token"
       /\ Has(req, IF t = "access" THEN {"balance_access_token", "access_token"}
                   ELSE {"balance_refresh_token"})}

Encode_OwnForm(type, req) ==
    [form |-> type, account |-> req.account, tokens |-> Tokens(type, req),
     call |-> callCredentialsFromRequest(req)]

\* What a complete request of a type is stored as.
Encode(type, req) ==
    [form    |-> IF type = "new_api_token" THEN "newapi_access_token"
                 ELSE IF type = "x_api_key" THEN "api_key" ELSE type,
     account |-> req.account,
     tokens  |-> Tokens(type, req),
     call    |-> callCredentialsFromRequest(req)]

Encoded == BalanceAuthTypes \cup {"new_api_token", "x_api_key"}

\* The secret and the call part of its mask.  What is missing is an error for a new
\* row; for an update only where an encoding is asked for.
credentialSecret(req, required) ==
    LET type == canonicalizeUpstreamRequest(req) IN
    IF \A fields \in Needs(type) : Has(req, fields)
    THEN IF type \in Encoded
         THEN {[secret |-> Encode(type, req), mask |-> callCredentialsFromRequest(req)]}
         ELSE {[secret |-> RawSecret(req.account), mask |-> NoKey]}
    ELSE IF required \/ (type \in Encoded /\ shouldUpdateCredential(req))
    THEN {}
    ELSE {[secret |-> EmptySecret, mask |-> NoKey]}

-----------------------------------------------------------------------------
(* The row of an upstream, as far as its secret goes.                      *)
Row == [kind: Kinds, auth_type: AuthTypes, secret: Secret, mask: Key]

validateUpstream(kind, type) == kind \in Kinds /\ type \in AuthTypes

buildCreate(req) ==
    LET type == canonicalizeUpstreamRequest(req) IN
    IF ~validateUpstream(req.kind, type) \/ "url" \notin req.has THEN {}
    ELSE {[kind |-> req.kind, auth_type |-> type, secret |-> c.secret, mask |-> c.mask] :
             c \in credentialSecret(req, TRUE)}

appendCallMask_Unmasked(mask, key) == mask
appendCallMask(mask, key) == IF key = NoKey THEN mask ELSE key

buildUpdate_KeepsType(current, req) ==
    LET full == [req EXCEPT !.auth_type = canonicalizeUpstreamUpdateRequest(req)] IN
    IF shouldAttachCallCredentialsOnly(full)
    THEN {[current EXCEPT !.kind = req.kind, !.secret = s,
                          !.mask = appendCallMask(current.mask, full.call)] :
             s \in AttachCallCredentials(current.auth_type, current.secret, full.call)}
    ELSE {[current EXCEPT !.kind = req.kind, !.secret = c.secret, !.mask = c.mask] :
             c \in credentialSecret(full, FALSE)}

\* Neither kind nor type is taken from the row when the request has one.  A request
\* that names no credential leaves the secret alone.
buildUpdate(current, req) ==
    LET type == canonicalizeUpstreamUpdateRequest(req)
        full == [req EXCEPT !.auth_type = type]
        u    == [current EXCEPT !.kind = IF req.kind = "" THEN @ ELSE req.kind,
                                !.auth_type = IF type = "" THEN @ ELSE type]
        key  == callCredentialsFromRequest(full)
    IN  IF ~validateUpstream(u.kind, u.auth_type) THEN {}
        ELSE IF shouldAttachCallCredentialsOnly(full)
        THEN {[u EXCEPT !.secret = s, !.mask = appendCallMask(current.mask, key)] :
                 s \in AttachCallCredentials(u.auth_type, current.secret, key)}
        ELSE IF shouldUpdateCredential(full)
        THEN {[u EXCEPT !.secret = c.secret, !.mask = c.mask] :
                 c \in credentialSecret(full, FALSE)}
        ELSE {u}

-----------------------------------------------------------------------------
(* The check of a call key.  An answer is a stream of lines, of which the  *)
(* kinds count: JSON, JSON with an error, anything else.                   *)
Answer == [http: {"ok"}, lines: SUBSET {"json", "error", "garbled"}]
              \cup [http: {"no_reply", "refused"}, lines: {{}}]

validateOpenAICompatibleStream(lines) ==
    /\ lines \cap {"error", "garbled"} = {}
    /\ "json" \in lines

CheckOpenAICompatibleCall(key, answer) ==
    IF key = NoKey THEN "unknown"
    ELSE IF answer.http = "ok" /\ validateOpenAICompatibleStream(answer.lines)
    THEN "available" ELSE "error"
=============================================================================
