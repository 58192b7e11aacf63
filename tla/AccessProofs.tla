---------------------------- MODULE AccessProofs ----------------------------
(***************************************************************************)
(* Theorems about Access, for any accounts, call keys, groups and entries: *)
(* the stored secret is what was entered last, the mask tells of its call  *)
(* key, the upstream sees the credential and nothing else, and the status  *)
(* of an item is the result of its call.                                   *)
(***************************************************************************)
EXTENDS Access, TLAPS

-----------------------------------------------------------------------------
(* Secrets that fit an auth type                                           *)

FormsOf(type) ==
    CASE type \in {"newapi_access_token", "new_api_token"} -> {"newapi_access_token"}
      [] type = "new_api_session" -> {"session"}
      [] type = "x_api_key" -> {"api_key"}
      [] type = "bearer" -> {"raw", "bearer"}
      [] type \in {"cookie", "admin_api_key"} -> {"raw"}
      [] OTHER -> {type}

\* Text has no room for a call key.
Fits(type, s) == s.form \in FormsOf(type) /\ (s.form = "raw" => s.call = NoKey)

FitsKind(kind, type) ==
    /\ type \in {"newapi_access_token", "new_api_token"} => kind = "new_api"
    /\ type = "sub2api_refresh_token" => kind = "sub2api"

LEMMA SecretTypes ==
    /\ EmptySecret \in Secret
    /\ \A a \in Accounts \cup {None} : RawSecret(a) \in Secret
    /\ \A a \in Accounts \cup {None} : /\ RawSecret(a).form = "raw"
                                       /\ RawSecret(a).account = a
                                       /\ RawSecret(a).call = NoKey
  BY DEF EmptySecret, RawSecret, Secret, Forms, Key

\* What a request bears is an account, nothing, or a text that is neither.
LEMMA ApplyAuthType ==
    ASSUME NEW type, NEW s \in Secret
    PROVE  ApplyAuth(type, s) \in Accounts \cup {None, Envelope}
  BY DEF ApplyAuth, WholeText, Secret

\* A secret that fits its auth type is sent as the credential it holds, unless the type
\* is one a login or a token exchange comes before.
LEMMA FittingSecretIsSent ==
    ASSUME NEW type \in AuthTypes, NEW s \in Secret, Fits(type, s),
           type \notin {"password", "newapi_access_token", "sub2api_refresh_token"}
    PROVE  ApplyAuth(type, s) = s.account
  BY DEF Fits, FormsOf, ApplyAuth, Decodes, WholeText, AuthTypes, BalanceAuthTypes,
         DecodeNewAPITokenCredentials, DecodeNewAPISessionCredentials,
         DecodeBearerCredentials, DecodeAPIKeyCredentials

\* An attached call key is the call key of the result; nothing else changes, but that
\* bearer wraps what it finds.
LEMMA Attached ==
    ASSUME NEW type \in AuthTypes, NEW s \in Secret, NEW key \in CallKeys, Fits(type, s),
           NEW r \in AttachCallCredentials(type, s, key)
    PROVE  /\ r \in Secret
           /\ Fits(type, r)
           /\ type # "bearer" => r.account = s.account
           /\ s.form = "raw" /\ type = "bearer" => r.account = s.account
           /\ IF KeepsKey(type) THEN r.call = key ELSE r.call = NoKey
<1>0. key # NoKey /\ key \in Key
  BY SecretAssumption DEF Key
<1>1. CASE DecodeBalanceCredentials(s)
  <2>1. r = [s EXCEPT !.call = key]
    BY <1>0, <1>1 DEF AttachCallCredentials
  <2>2. r \in Secret /\ r.call = key /\ r.form = s.form /\ r.account = s.account
    BY <1>0, <2>1 DEF Secret
  <2>3. type \in {"newapi_access_token", "new_api_token", "sub2api_refresh_token", "password"}
    BY <1>1 DEF DecodeBalanceCredentials, Fits, FormsOf, AuthTypes, BalanceAuthTypes
  <2>4. QED
    BY <1>0, <1>1, <2>2, <2>3
       DEF Fits, DecodeBalanceCredentials, BalanceAuthTypes, KeepsKey
<1>2. CASE ~DecodeBalanceCredentials(s) /\ type = "bearer"
  <2>1. r \in EncodeBearerCredentials(WholeText(s), key)
    BY <1>0, <1>2 DEF AttachCallCredentials
  <2>2. r = [form |-> "bearer", account |-> WholeText(s), tokens |-> {}, call |-> key]
    BY <2>1 DEF EncodeBearerCredentials
  <2>3. WholeText(s) \in Accounts \cup {None, Envelope}
        /\ (s.form = "raw" => WholeText(s) = s.account)
    BY DEF WholeText, Secret
  <2>4. QED
    BY <1>0, <1>2, <2>2, <2>3 DEF Secret, Forms, Fits, FormsOf, KeepsKey
<1>3. CASE /\ ~DecodeBalanceCredentials(s)
           /\ type \in {"new_api_token", "new_api_session", "x_api_key"}
  <2>1. r = [s EXCEPT !.call = key]
    BY <1>0, <1>3 DEF AttachCallCredentials
  <2>2. r \in Secret /\ r.call = key /\ r.form = s.form /\ r.account = s.account
    BY <1>0, <2>1 DEF Secret
  <2>3. s.form # "raw"
    BY <1>3 DEF Fits, FormsOf
  <2>4. QED
    BY <1>0, <1>3, <2>2, <2>3 DEF Fits, KeepsKey
<1>4. CASE /\ ~DecodeBalanceCredentials(s)
           /\ type \notin {"bearer", "new_api_token", "new_api_session", "x_api_key"}
  <2>1. r = s
    BY <1>0, <1>4 DEF AttachCallCredentials
  <2>2. type \in {"cookie", "admin_api_key"}
    BY <1>4 DEF DecodeBalanceCredentials, Fits, FormsOf, AuthTypes, BalanceAuthTypes
  <2>3. s.form = "raw"
    BY <2>2 DEF Fits, FormsOf
  <2>4. QED
    BY <2>1, <2>2, <2>3 DEF Fits, KeepsKey
<1>5. QED
  BY <1>1, <1>2, <1>3, <1>4

-----------------------------------------------------------------------------
(* Requests of the dialog and of the documentation                         *)

\* A request that brings the fields of its type names a credential and has what the
\* type needs.
LEMMA CompleteRequest ==
    ASSUME NEW type \in AuthTypes \ {"new_api_session"},
           NEW fields \in DocumentedFields(type), NEW req, req.has = fields \cup {"url"}
    PROVE  /\ \A need \in Needs(type) : Has(req, need)
           /\ Has(req, credentialFields)
  BY DEF AuthTypes, BalanceAuthTypes, DocumentedFields, Needs, Has, credentialFields

\* A complete secret fits its type.
LEMMA EncodeFits ==
    ASSUME NEW type \in Encoded, NEW req, req.account \in Accounts, req.call \in Key
    PROVE  LET s == Encode(type, req) IN
           /\ s \in Secret
           /\ Fits(type, s)
           /\ s.account = req.account
           /\ s.call = callCredentialsFromRequest(req)
<1>1. callCredentialsFromRequest(req) \in Key
  BY DEF callCredentialsFromRequest, Key
<1>2. Tokens(type, req) \in SUBSET {"access", "refresh"}
  BY DEF Tokens
<1>3. QED
  BY <1>1, <1>2 DEF Encode, Encoded, Secret, Forms, Fits, FormsOf, BalanceAuthTypes

\* A request of a type that brings what it needs, and what credentialSecret makes of it.
Complete(type, req) ==
    /\ \E fields \in DocumentedFields(type) : req.has = fields \cup {"url"}
    /\ req.account \in Accounts /\ req.call \in Key
    /\ canonicalizeUpstreamRequest(req) = type

Keeps(type, account, call, c) ==
    /\ c.secret \in Secret
    /\ Fits(type, c.secret)
    /\ c.secret.account = account
    /\ c.secret.call \in {NoKey, call}
    /\ type \in Encoded => c.secret.call = call
    /\ c.mask = c.secret.call

LEMMA CompleteSecret ==
    ASSUME NEW type \in AuthTypes \ {"new_api_session"}, NEW req, Complete(type, req),
           NEW c, c \in credentialSecret(req, TRUE) \/ c \in credentialSecret(req, FALSE)
    PROVE  Keeps(type, req.account, req.call, c)
<1>1. PICK fields \in DocumentedFields(type) : req.has = fields \cup {"url"}
  BY DEF Complete
<1>2. \A need \in Needs(type) : Has(req, need)
  BY <1>1, CompleteRequest
<1>3. /\ callCredentialsFromRequest(req) = req.call
      /\ req.account \in Accounts /\ req.call \in Key
      /\ canonicalizeUpstreamRequest(req) = type
  BY <1>1 DEF callCredentialsFromRequest, Complete
<1>4. CASE type \in Encoded
  <2>1. c = [secret |-> Encode(type, req), mask |-> callCredentialsFromRequest(req)]
    BY <1>2, <1>3, <1>4 DEF credentialSecret
  <2>2. QED
    BY <1>3, <1>4, <2>1, EncodeFits DEF Keeps
<1>5. CASE type \notin Encoded
  <2>1. c = [secret |-> RawSecret(req.account), mask |-> NoKey]
    BY <1>2, <1>3, <1>5 DEF credentialSecret
  <2>2. type \in {"bearer", "cookie", "admin_api_key"}
    BY <1>5 DEF Encoded, AuthTypes, BalanceAuthTypes
  <2>3. QED
    BY <1>3, <1>5, <2>1, <2>2, SecretTypes DEF Fits, FormsOf, Keeps
<1>6. QED
  BY <1>4, <1>5

LEMMA Created ==
    ASSUME NEW kind \in Kinds, NEW type \in DocumentedTypes(kind),
           NEW fields \in DocumentedFields(type), NEW account \in Accounts, NEW call \in Key,
           NEW r \in buildCreate(RequestOf(kind, type, fields, account, call))
    PROVE  /\ r \in Row
           /\ FitsKind(r.kind, r.auth_type)
           /\ r.auth_type # "new_api_session"
           /\ Fits(r.auth_type, r.secret)
           /\ r.secret.account = account
           /\ r.secret.call \in {NoKey, call}
           /\ r.mask = r.secret.call
<1> DEFINE req == RequestOf(kind, type, fields, account, call)
<1>1. type \in AuthTypes \ {"new_api_session"} /\ FitsKind(kind, type)
  BY DEF Kinds, DocumentedTypes, AuthTypes, BalanceAuthTypes, FitsKind
<1>2. canonicalizeUpstreamRequest(req) = type
  <2>1. type # ""
    BY <1>1 DEF AuthTypes, BalanceAuthTypes
  <2>2. QED
    BY <2>1 DEF RequestOf, canonicalizeUpstreamRequest
<1>3. PICK c \in credentialSecret(req, TRUE) :
        r = [kind |-> req.kind, auth_type |-> type, secret |-> c.secret, mask |-> c.mask]
  BY <1>2 DEF buildCreate
<1>4. req.has = fields \cup {"url"} /\ req.account = account /\ req.call = call
      /\ req.kind = kind
  BY DEF RequestOf
<1> HIDE DEF req
<1>5. Complete(type, req)
  BY <1>2, <1>4 DEF Complete
<1>6. Keeps(type, req.account, req.call, c)
  BY <1>1, <1>5, CompleteSecret
<1>7. QED
  BY <1>1, <1>3, <1>4, <1>6 DEF Keeps, Row, Key

\* An edit of the call key alone, or of nothing.
KeyEdited(current, kind, call, r) ==
    /\ r.kind = kind /\ r.auth_type = current.auth_type
    /\ IF call = NoKey THEN r.secret = current.secret /\ r.mask = current.mask
       ELSE /\ r.secret \in AttachCallCredentials(current.auth_type, current.secret, call)
            /\ r.mask = call
    /\ r = [kind |-> r.kind, auth_type |-> r.auth_type, secret |-> r.secret, mask |-> r.mask]

LEMMA UpdatedKey ==
    ASSUME NEW current \in Row, NEW kind \in Kinds, NEW call \in Key,
           NEW r \in buildUpdate(current, RequestOf(kind, "", {}, None, call))
    PROVE  KeyEdited(current, kind, call, r)
<1> DEFINE req  == RequestOf(kind, "", {}, None, call)
           type == canonicalizeUpstreamUpdateRequest(req)
           full == [req EXCEPT !.auth_type = type]
           u    == [current EXCEPT !.kind = kind]
<1>1. /\ req.kind = kind /\ req.call = call /\ req.has = {"url"}
      /\ req.auth_type = "" /\ req.balance_auth_type = ""
  BY DEF RequestOf, BalanceAuthTypes
<1>2. type = ""
  BY <1>1 DEF canonicalizeUpstreamUpdateRequest, Has
<1>3. /\ full.call = call /\ full.has = {"url"} /\ full.balance_auth_type = ""
  BY DEF RequestOf, BalanceAuthTypes
<1>4. ~Has(full, credentialFields)
  BY <1>3 DEF Has, credentialFields
<1>5. callCredentialsFromRequest(full) = call
  BY <1>3 DEF callCredentialsFromRequest
<1>6. (shouldAttachCallCredentialsOnly(full) <=> call # NoKey)
      /\ (call = NoKey => ~shouldUpdateCredential(full))
  BY <1>3, <1>4 DEF shouldAttachCallCredentialsOnly, shouldUpdateCredential
<1>7. kind # ""
  BY DEF Kinds
<1>8. u = [current EXCEPT !.kind = IF req.kind = "" THEN @ ELSE req.kind,
                          !.auth_type = IF type = "" THEN @ ELSE type]
  BY <1>1, <1>2, <1>7 DEF Row
<1>9. r \in IF shouldAttachCallCredentialsOnly(full)
            THEN {[u EXCEPT !.secret = s, !.mask = appendCallMask(current.mask, call)] :
                     s \in AttachCallCredentials(u.auth_type, current.secret, call)}
            ELSE IF shouldUpdateCredential(full)
            THEN {[u EXCEPT !.secret = c.secret, !.mask = c.mask] :
                     c \in credentialSecret(full, FALSE)}
            ELSE {u}
  BY <1>5, <1>8, ZenonT(60) DEF buildUpdate
<1>10. u.auth_type = current.auth_type /\ u.kind = kind /\ u.secret = current.secret
       /\ u.mask = current.mask
  BY DEF Row
<1> HIDE DEF req, type, full
<1>11. CASE call = NoKey
  BY <1>6, <1>9, <1>10, <1>11 DEF Row, KeyEdited
<1>12. CASE call # NoKey
  <2>1. PICK s \in AttachCallCredentials(current.auth_type, current.secret, call) :
          r = [u EXCEPT !.secret = s, !.mask = appendCallMask(current.mask, call)]
    BY <1>6, <1>9, <1>10, <1>12
  <2>2. appendCallMask(current.mask, call) = call
    BY <1>12 DEF appendCallMask
  <2>3. QED
    BY <1>12, <2>1, <2>2 DEF Row, KeyEdited
<1>13. QED
  BY <1>11, <1>12

\* An edit of the credential.
LEMMA UpdatedCredential ==
    ASSUME NEW current \in Row, NEW kind \in Kinds,
           NEW mode \in BalanceAuthTypes \cup {"x_api_key"}, FitsKind(kind, mode),
           NEW fields \in DocumentedFields(mode), NEW account \in Accounts, NEW call \in Key,
           NEW r \in buildUpdate(current, RequestOf(kind, mode, fields, account, call))
    PROVE  /\ r \in Row
           /\ FitsKind(r.kind, r.auth_type)
           /\ r.auth_type = mode
           /\ Fits(mode, r.secret)
           /\ r.secret.account = account
           /\ r.secret.call = call
           /\ r.mask = call
<1> DEFINE req  == RequestOf(kind, mode, fields, account, call)
           type == canonicalizeUpstreamUpdateRequest(req)
           full == [req EXCEPT !.auth_type = type]
           u    == [current EXCEPT !.kind = kind, !.auth_type = mode]
<1>1. /\ req.kind = kind /\ req.call = call /\ req.has = fields \cup {"url"}
      /\ req.auth_type = IF mode \in BalanceAuthTypes THEN "" ELSE mode
      /\ req.balance_auth_type = IF mode \in BalanceAuthTypes THEN mode ELSE ""
  BY DEF RequestOf
<1>2. mode \in AuthTypes \ {"new_api_session"} /\ mode \in Encoded
  BY DEF BalanceAuthTypes, AuthTypes, Encoded
<1>3. mode # ""
  BY DEF BalanceAuthTypes
<1>4. type = mode
  BY <1>1, <1>3 DEF canonicalizeUpstreamUpdateRequest
<1>5. /\ full.call = call /\ full.has = fields \cup {"url"} /\ full.account = account
      /\ full.auth_type = mode
  BY <1>4 DEF RequestOf
<1>6. Has(full, credentialFields)
  BY <1>2, <1>5, CompleteRequest
<1>7. ~shouldAttachCallCredentialsOnly(full) /\ shouldUpdateCredential(full)
  BY <1>6 DEF shouldAttachCallCredentialsOnly, shouldUpdateCredential
<1>8. canonicalizeUpstreamRequest(full) = mode
  BY <1>3, <1>5 DEF canonicalizeUpstreamRequest
<1>9. kind # ""
  BY DEF Kinds
<1>10. u = [current EXCEPT !.kind = IF req.kind = "" THEN @ ELSE req.kind,
                          !.auth_type = IF type = "" THEN @ ELSE type]
  BY <1>1, <1>4, <1>3, <1>9 DEF Row
<1>11. r \in IF shouldAttachCallCredentialsOnly(full)
             THEN {[u EXCEPT !.secret = s, !.mask = appendCallMask(current.mask,
                                                        callCredentialsFromRequest(full))] :
                      s \in AttachCallCredentials(u.auth_type, current.secret,
                                                 callCredentialsFromRequest(full))}
             ELSE IF shouldUpdateCredential(full)
             THEN {[u EXCEPT !.secret = c.secret, !.mask = c.mask] :
                      c \in credentialSecret(full, FALSE)}
             ELSE {u}
  BY <1>10, ZenonT(60) DEF buildUpdate
<1>12. PICK c \in credentialSecret(full, FALSE) :
         r = [u EXCEPT !.secret = c.secret, !.mask = c.mask]
  BY <1>7, <1>11
<1> HIDE DEF req, type, full
<1>13. Complete(mode, full)
  BY <1>5, <1>8 DEF Complete
<1>14. Keeps(mode, full.account, full.call, c)
  BY <1>2, <1>13, CompleteSecret
<1>15. r = [kind |-> kind, auth_type |-> mode, secret |-> c.secret, mask |-> c.mask]
  BY <1>12 DEF Row
<1>16. QED
  BY <1>2, <1>5, <1>14, <1>15 DEF Keeps, Row, Key

-----------------------------------------------------------------------------
(* The inductive invariant                                                 *)

\* The row fits its auth type and kind, and holds what was entered last.
RowInv ==
    /\ FitsKind(row.kind, row.auth_type)
    /\ row.auth_type # "new_api_session"
    /\ Fits(row.auth_type, row.secret)
    /\ Nests(row.auth_type) \/ row.secret.account = given.account
    /\ row.secret.call \in {NoKey, given.call}
    /\ KeepsKey(row.auth_type) => row.mask = row.secret.call

Asking == task.pc \in {"fetch", "exchange", "me", "profile", "user", "save"}

\* A refresh has the account and the call key of the row, whichever secret it asks
\* with, and knows by its place what that secret is.
SecretInv ==
    /\ task.pc = "login" => row.auth_type = "password" /\ task.secret = row.secret
    /\ Asking =>
         /\ task.secret.call = row.secret.call
         /\ ~Nests(row.auth_type) => task.secret.account = given.account
         /\ Fits(task.auth_type, task.secret)
         /\ IF row.auth_type = "password" THEN task.auth_type \in {"new_api_session", "bearer"}
            ELSE task.auth_type = row.auth_type
    /\ task.pc \in {"login", "fetch", "user"} => ~task.exchanged
    /\ task.pc = "user" =>
         task.secret.form \notin {"newapi_access_token", "sub2api_refresh_token"}
    /\ task.pc \in {"exchange", "me", "profile", "save"} =>
         task.secret.form = "sub2api_refresh_token"
    /\ task.pc \in {"me", "profile"} => "access" \in task.secret.tokens

\* StatusIsCallResult and AvailabilityReported, at every step of a refresh.
ItemsInv ==
    row.secret.call # NoKey =>
      \A i \in task.items :
        (i.status = "available") <=> (i.answer.http = "ok" /\ i.answer.lines = {"json"})

FailInv ==
    task.failed => task.lapsed \/ row.auth_type = "password" \/ row.secret.call = NoKey

\* Until a fetch is over it has produced nothing and has not failed.
OpenInv ==
    task.pc \in {"login", "fetch", "exchange", "me", "profile", "user"} =>
      task.items = {} /\ ~task.failed

IInv ==
    /\ TypeOK
    /\ RowInv
    /\ SecretInv
    /\ RequestsCarryTheCredential
    /\ ItemsInv
    /\ FailInv
    /\ OpenInv

-----------------------------------------------------------------------------
(* Edits                                                                   *)

LEMMA NoTaskInv ==
    ASSUME row' \in Row, given' \in [account : Accounts, call : Key], RowInv',
           task' = NoTask
    PROVE  IInv'
<1>1. task' \in Task
  BY SecretTypes DEF NoTask, Task, AuthTypes
<1>2. task'.pc = "idle" /\ task'.sent = {} /\ task'.items = {} /\ task'.failed = FALSE
  BY DEF NoTask
<1>3. QED
  BY <1>1, <1>2 DEF IInv, TypeOK, SecretInv, Asking, RequestsCarryTheCredential, ItemsInv,
                    FailInv, OpenInv

LEMMA InitInv == Init => IInv
<1> SUFFICES ASSUME Init PROVE IInv
  OBVIOUS
<1>1. PICK kind \in Kinds, account \in Accounts, call \in Key :
        \E type \in DocumentedTypes(kind) : \E fields \in DocumentedFields(type) :
           /\ row \in buildCreate(RequestOf(kind, type, fields, account, call))
           /\ given = [account |-> account, call |-> call]
  BY DEF Init
<1>2. PICK type \in DocumentedTypes(kind) : \E fields \in DocumentedFields(type) :
           /\ row \in buildCreate(RequestOf(kind, type, fields, account, call))
           /\ given = [account |-> account, call |-> call]
  BY <1>1
<1>3. PICK fields \in DocumentedFields(type) :
           /\ row \in buildCreate(RequestOf(kind, type, fields, account, call))
           /\ given = [account |-> account, call |-> call]
  BY <1>2
<1>4. /\ row \in Row
      /\ FitsKind(row.kind, row.auth_type)
      /\ row.auth_type # "new_api_session"
      /\ Fits(row.auth_type, row.secret)
      /\ row.secret.account = account
      /\ row.secret.call \in {NoKey, call}
      /\ row.mask = row.secret.call
  BY <1>3, Created
<1>5. RowInv /\ given \in [account : Accounts, call : Key]
  BY <1>3, <1>4 DEF RowInv
<1>6. task \in Task
  BY SecretTypes DEF Init, NoTask, Task, AuthTypes
<1>7. task.pc = "idle" /\ task.sent = {} /\ task.items = {} /\ task.failed = FALSE
  BY DEF Init, NoTask
<1>8. QED
  BY <1>4, <1>5, <1>6, <1>7
     DEF IInv, TypeOK, SecretInv, Asking, RequestsCarryTheCredential, ItemsInv, FailInv,
         OpenInv

\* The mode a row opens with is offered for no kind its type does not fit.
LEMMA InitialModeFits ==
    ASSUME row \in Row, NEW kind \in Kinds, initialBalanceAuthType(row) \in Offered(kind)
    PROVE  FitsKind(kind, row.auth_type)
  BY DEF initialBalanceAuthType, Offered, defaultBalanceAuthType, FitsKind, Kinds

LEMMA OfferedModeFits ==
    ASSUME row \in Row, NEW kind \in Kinds, NEW mode \in Offered(kind)
    PROVE  mode \in BalanceAuthTypes \cup {"x_api_key"} /\ FitsKind(kind, mode)
  BY DEF Offered, defaultBalanceAuthType, FitsKind, Kinds, BalanceAuthTypes

LEMMA PutKeeps == IInv /\ Put => IInv'
<1> SUFFICES ASSUME IInv, Put PROVE IInv'
  OBVIOUS
<1>1. row \in Row /\ given \in [account : Accounts, call : Key] /\ RowInv
  BY DEF IInv, TypeOK
<1>2. PICK kind \in Kinds, call \in Key : \E mode \in Offered(kind) :
         \/ /\ mode = initialBalanceAuthType(row)
            /\ row' \in buildUpdate(row, RequestOf(kind, "", {}, None, call))
            /\ given' = [given EXCEPT !.call = IF call = NoKey THEN @ ELSE call]
         \/ \E fields \in DocumentedFields(mode), account \in Accounts :
              /\ row' \in buildUpdate(row, RequestOf(kind, mode, fields, account, call))
              /\ given' = [account |-> account,
                           call |-> IF call = NoKey THEN given.call ELSE call]
  BY DEF Put
<1>3. PICK mode \in Offered(kind) :
         \/ /\ mode = initialBalanceAuthType(row)
            /\ row' \in buildUpdate(row, RequestOf(kind, "", {}, None, call))
            /\ given' = [given EXCEPT !.call = IF call = NoKey THEN @ ELSE call]
         \/ \E fields \in DocumentedFields(mode), account \in Accounts :
              /\ row' \in buildUpdate(row, RequestOf(kind, mode, fields, account, call))
              /\ given' = [account |-> account,
                           call |-> IF call = NoKey THEN given.call ELSE call]
  BY <1>2
<1>4. ASSUME mode = initialBalanceAuthType(row),
             row' \in buildUpdate(row, RequestOf(kind, "", {}, None, call)),
             given' = [given EXCEPT !.call = IF call = NoKey THEN @ ELSE call]
      PROVE  row' \in Row /\ given' \in [account : Accounts, call : Key] /\ RowInv'
  <2>1. row' \in buildUpdate(row, RequestOf(kind, "", {}, None, call))
    BY <1>4
  <2>2. KeyEdited(row, kind, call, row')
    BY <1>1, <2>1, UpdatedKey
  <2>3. /\ row'.kind = kind /\ row'.auth_type = row.auth_type
        /\ IF call = NoKey THEN row'.secret = row.secret /\ row'.mask = row.mask
           ELSE /\ row'.secret \in AttachCallCredentials(row.auth_type, row.secret, call)
                /\ row'.mask = call
        /\ row' = [kind |-> row'.kind, auth_type |-> row'.auth_type,
                   secret |-> row'.secret, mask |-> row'.mask]
    BY <2>2 DEF KeyEdited
  <2>4. FitsKind(kind, row.auth_type)
    BY <1>1, <1>3, <1>4, InitialModeFits
  <2>5. /\ given' \in [account : Accounts, call : Key]
        /\ given'.account = given.account
        /\ given'.call = IF call = NoKey THEN given.call ELSE call
    BY <1>1, <1>4
  <2>6. row.auth_type \in AuthTypes /\ row.secret \in Secret /\ row.mask \in Key
    BY <1>1 DEF Row
  <2>7. CASE call = NoKey
    BY <1>1, <2>3, <2>4, <2>5, <2>6, <2>7 DEF Row, RowInv
  <2>8. CASE call # NoKey
    <3>1. call \in CallKeys /\ Fits(row.auth_type, row.secret)
      BY <1>1, <2>8 DEF Key, RowInv
    <3>2. /\ row'.secret \in Secret
          /\ Fits(row.auth_type, row'.secret)
          /\ row.auth_type # "bearer" => row'.secret.account = row.secret.account
          /\ IF KeepsKey(row.auth_type) THEN row'.secret.call = call
             ELSE row'.secret.call = NoKey
      BY <2>3, <2>6, <2>8, <3>1, Attached
    <3>3. row' \in Row
      BY <2>3, <2>6, <2>8, <3>2 DEF Row
    <3>4. QED
      BY <1>1, <2>3, <2>4, <2>5, <2>8, <3>2, <3>3 DEF RowInv, Nests
  <2>9. QED
    BY <2>7, <2>8
<1>5. ASSUME NEW fields \in DocumentedFields(mode), NEW account \in Accounts,
             row' \in buildUpdate(row, RequestOf(kind, mode, fields, account, call)),
             given' = [account |-> account,
                       call |-> IF call = NoKey THEN given.call ELSE call]
      PROVE  row' \in Row /\ given' \in [account : Accounts, call : Key] /\ RowInv'
  <2>1. mode \in BalanceAuthTypes \cup {"x_api_key"} /\ FitsKind(kind, mode)
    BY <1>1, OfferedModeFits
  <2>2. /\ row' \in Row
        /\ FitsKind(row'.kind, row'.auth_type)
        /\ row'.auth_type = mode
        /\ Fits(mode, row'.secret)
        /\ row'.secret.account = account
        /\ row'.secret.call = call
        /\ row'.mask = call
    BY <1>1, <1>5, <2>1, UpdatedCredential
  <2>3. /\ given' \in [account : Accounts, call : Key]
        /\ given'.account = account
        /\ given'.call = IF call = NoKey THEN given.call ELSE call
    BY <1>1, <1>5
  <2>4. mode # "new_api_session"
    BY <2>1 DEF BalanceAuthTypes
  <2>5. QED
    BY <2>2, <2>3, <2>4 DEF RowInv
<1>6. row' \in Row /\ given' \in [account : Accounts, call : Key] /\ RowInv'
  BY <1>3, <1>4, <1>5
<1>7. QED
  BY <1>6, NoTaskInv DEF Put

-----------------------------------------------------------------------------
(* Requests and what they yield                                            *)

\* The result of a call is what the endpoint answered.
LEMMA CallResult ==
    ASSUME NEW key \in Key, NEW answer \in Answers(key)
    PROVE  LET s == StatusOf(key, answer)
               c == CheckOpenAICompatibleCall(key, answer)
               ok == answer.http = "ok" /\ answer.lines = {"json"}
           IN  /\ {s, c} \subseteq {"unknown", "available", "error"}
               /\ answer \in Answer \cup {NotCalled}
               /\ key # NoKey => (c = "available" <=> ok) /\ (s = "available" <=> ok)
<1>1. CASE key = NoKey
  BY <1>1 DEF Answers, CheckOpenAICompatibleCall, StatusOf
<1>2. CASE key # NoKey
  <2>1. answer \in Answer
    BY <1>2 DEF Answers
  <2>2. answer.lines \subseteq {"json", "error", "garbled"}
    BY <2>1 DEF Answer
  <2>3. validateOpenAICompatibleStream(answer.lines) <=> answer.lines = {"json"}
    BY <2>2 DEF validateOpenAICompatibleStream
  <2>4. QED
    BY <1>2, <2>1, <2>3 DEF CheckOpenAICompatibleCall, StatusOf
<1>3. QED
  BY <1>1, <1>2

\* A request with the credential of the secret adds nothing the upstream may not see.
LEMMA Shown ==
    ASSUME IInv, Asking, NEW type, ApplyAuth(type, task.secret) = task.secret.account
    PROVE  /\ Sent(type) \in SUBSET (Accounts \cup {None, Envelope})
           /\ ~Nests(row.auth_type) => Sent(type) \subseteq {given.account}
<1>1. task \in Task /\ task.secret \in Secret
  BY DEF IInv, TypeOK, Task
<1>2. ApplyAuth(type, task.secret) \in Accounts \cup {None, Envelope}
  BY <1>1, ApplyAuthType
<1>3. task.sent \in SUBSET (Accounts \cup {None, Envelope})
  BY <1>1 DEF Task
<1>4. ~Nests(row.auth_type) => task.secret.account = given.account
  BY DEF IInv, SecretInv
<1>5. ~Nests(row.auth_type) => task.sent \subseteq {given.account}
  BY DEF IInv, RequestsCarryTheCredential
<1>6. QED
  BY <1>2, <1>3, <1>4, <1>5 DEF Sent

\* Without token encoding a refresh asks with the secret as it fits its auth type.
LEMMA AskedWithOwnType ==
    ASSUME IInv, task.pc \in {"fetch", "user"},
           task.secret.form \notin {"newapi_access_token", "sub2api_refresh_token"}
    PROVE  ApplyAuth(task.auth_type, task.secret) = task.secret.account
<1>1. task.secret \in Secret /\ task.auth_type \in AuthTypes
  BY DEF IInv, TypeOK, Task
<1>2. /\ Fits(task.auth_type, task.secret)
      /\ IF row.auth_type = "password" THEN task.auth_type \in {"new_api_session", "bearer"}
         ELSE task.auth_type = row.auth_type
  BY DEF IInv, SecretInv, Asking
<1>3. task.auth_type # "password"
  BY <1>2
<1>4. task.auth_type \notin {"newapi_access_token", "sub2api_refresh_token"}
  BY <1>2 DEF Fits, FormsOf
<1>5. QED
  BY <1>1, <1>2, <1>3, <1>4, FittingSecretIsSent

LEMMA AskedWithToken ==
    ASSUME WithAccessToken
    PROVE  ApplyAuth("new_api_token", task.secret) = task.secret.account
  BY DEF WithAccessToken, ApplyAuth, Decodes, DecodeNewAPITokenCredentials

LEMMA AskedWithBearer ==
    ASSUME IInv, task.pc \in {"me", "profile"}
    PROVE  ApplyAuth("bearer", task.secret) = task.secret.account
  BY DEF IInv, SecretInv, ApplyAuth, Decodes, DecodeBearerCredentials

\* A refresh that moves on with what it asks with unchanged.
LEMMA StepKeeps ==
    ASSUME IInv, UNCHANGED <<row, given>>, Asking, task' \in Task,
           task'.secret.call = task.secret.call,
           task'.secret.account = task.secret.account,
           task'.secret.form = task.secret.form,
           task'.auth_type = task.auth_type,
           task'.pc \in {"exchange", "me", "profile", "user", "save", "done"},
           task'.pc = "user" => /\ ~task'.exchanged
                                /\ task.secret.form \notin {"newapi_access_token",
                                                            "sub2api_refresh_token"},
           task'.pc \in {"exchange", "me", "profile", "save"} =>
               task.secret.form = "sub2api_refresh_token",
           task'.pc \in {"me", "profile"} => "access" \in task'.secret.tokens,
           ~Nests(row.auth_type) => task'.sent \subseteq {given.account},
           ItemsInv', FailInv', OpenInv'
    PROVE  IInv'
<1>1. TypeOK' /\ RowInv' /\ RequestsCarryTheCredential'
  BY DEF IInv, TypeOK, RowInv, RequestsCarryTheCredential
<1>2. /\ task.secret.call = row.secret.call
      /\ ~Nests(row.auth_type) => task.secret.account = given.account
      /\ Fits(task.auth_type, task.secret)
      /\ IF row.auth_type = "password" THEN task.auth_type \in {"new_api_session", "bearer"}
         ELSE task.auth_type = row.auth_type
  BY DEF IInv, SecretInv
<1>3. Fits(task'.auth_type, task'.secret)
  BY <1>2 DEF Fits
<1>4. SecretInv'
  BY <1>2, <1>3 DEF SecretInv
<1>5. QED
  BY <1>1, <1>4 DEF IInv

\* How a fetch may end: with items, or without and no call key to ask.
Ends(sent, pc, items, failed) ==
    task' = [task EXCEPT !.pc = pc, !.sent = sent, !.items = items, !.failed = failed]

LEMMA EndKeeps ==
    ASSUME IInv, UNCHANGED <<row, given>>, task.pc \in {"fetch", "exchange", "me", "profile", "user"},
           NEW sent \in SUBSET (Accounts \cup {None, Envelope}),
           ~Nests(row.auth_type) => sent \subseteq {given.account},
           NEW items \in SUBSET Item, NEW failed \in BOOLEAN,
           Ends(sent, Over, items, failed) \/ Ends(sent, "done", items, failed),
           Key1 # NoKey => /\ ~failed
                           /\ \A i \in items : (i.status = "available")
                                <=> (i.answer.http = "ok" /\ i.answer.lines = {"json"})
    PROVE  IInv'
<1>1. task \in Task
  BY DEF IInv, TypeOK
<1>2. PICK pc \in {Over, "done"} :
        task' = [task EXCEPT !.pc = pc, !.sent = sent, !.items = items, !.failed = failed]
  BY DEF Ends
<1>3. pc \in {"save", "done"} /\ (pc = "save" => task.exchanged)
  BY DEF Over
<1>4. /\ task' \in Task
      /\ task'.pc = pc /\ task'.sent = sent /\ task'.items = items /\ task'.failed = failed
      /\ task'.secret = task.secret /\ task'.auth_type = task.auth_type
  BY <1>1, <1>2, <1>3 DEF Task
<1>5. task.secret.call = row.secret.call /\ Asking
  BY DEF IInv, SecretInv, Asking
<1>6. pc = "save" => task.secret.form = "sub2api_refresh_token"
  BY <1>3 DEF IInv, SecretInv
<1>7. Key1 = row.secret.call
  BY <1>5 DEF Key1, ExtractCallCredentials
<1>8. ItemsInv' /\ FailInv' /\ OpenInv'
  BY <1>3, <1>4, <1>7 DEF ItemsInv, FailInv, OpenInv
<1>9. QED
  BY <1>3, <1>4, <1>5, <1>6, <1>8, StepKeeps

LEMMA OutcomeKeeps ==
    ASSUME IInv, UNCHANGED <<row, given>>, task.pc \in {"fetch", "exchange", "me", "profile", "user"},
           NEW sent \in SUBSET (Accounts \cup {None, Envelope}),
           ~Nests(row.auth_type) => sent \subseteq {given.account},
           \/ UserItem(sent)
           \/ Key1 # NoKey /\ CallOnly(sent)
           \/ Key1 = NoKey /\ Fail(sent)
    PROVE  IInv'
<1>1. task \in Task /\ Key1 \in Key
  BY DEF IInv, TypeOK, Task, Secret, Key1, ExtractCallCredentials
<1>2. task.failed = FALSE
  BY <1>1 DEF IInv, OpenInv, Task
<1>3. ASSUME UserItem(sent) PROVE IInv'
  <2>1. PICK g \in Groups, answer \in Answers(Key1) :
          task' = [task EXCEPT !.pc = Over, !.sent = sent,
                     !.items = {[ext |-> Self, group |-> g, answer |-> answer,
                                 status |-> StatusOf(Key1, answer)]}]
    BY <1>3 DEF UserItem
  <2> DEFINE items == {[ext |-> Self, group |-> g, answer |-> answer,
                        status |-> StatusOf(Key1, answer)]}
  <2>2. Ends(sent, Over, items, FALSE)
    BY <1>1, <1>2, <2>1 DEF Ends, Task
  <2>3. items \in SUBSET Item
    BY <1>1, CallResult DEF Item
  <2>4. Key1 # NoKey => \A i \in items : (i.status = "available")
                          <=> (i.answer.http = "ok" /\ i.answer.lines = {"json"})
    BY <1>1, CallResult
  <2> HIDE DEF items
  <2>5. QED
    BY <2>2, <2>3, <2>4, EndKeeps
<1>4. ASSUME Key1 # NoKey, CallOnly(sent) PROVE IInv'
  <2>1. PICK answers \in [Groups -> Answer] :
          task' = [task EXCEPT !.pc = Over, !.sent = sent,
                     !.items = {[ext |-> Self, group |-> g, answer |-> answers[g],
                                 status |-> CheckOpenAICompatibleCall(Key1, answers[g])] :
                                  g \in Groups}]
    BY <1>4 DEF CallOnly
  <2> DEFINE items == {[ext |-> Self, group |-> g, answer |-> answers[g],
                        status |-> CheckOpenAICompatibleCall(Key1, answers[g])] : g \in Groups}
  <2>2. Ends(sent, Over, items, FALSE)
    BY <1>1, <1>2, <2>1 DEF Ends, Task
  <2>3. \A g \in Groups : answers[g] \in Answers(Key1)
    BY <1>4 DEF Answers
  <2>4. items \in SUBSET Item
    BY <1>1, <2>3, CallResult DEF Item
  <2>5. \A i \in items : (i.status = "available")
                          <=> (i.answer.http = "ok" /\ i.answer.lines = {"json"})
    BY <1>1, <1>4, <2>3, CallResult
  <2> HIDE DEF items
  <2>6. QED
    BY <2>2, <2>4, <2>5, EndKeeps
<1>5. ASSUME Key1 = NoKey, Fail(sent) PROVE IInv'
  <2>1. Ends(sent, "done", {}, TRUE)
    BY <1>1, <1>5 DEF Ends, Task, Fail, IInv, OpenInv
  <2>2. QED
    BY <1>5, <2>1, EndKeeps
<1>6. QED
  BY <1>3, <1>4, <1>5

\* The items of an admin API.
LEMMA ListKeeps ==
    ASSUME IInv, UNCHANGED <<row, given>>, task.pc = "fetch",
           ApplyAuth(task.auth_type, task.secret) = task.secret.account,
           NEW Listings, \A listed \in Listings : listed \subseteq Entries \X Groups,
           ListItems(Listings)
    PROVE  IInv'
<1>1. task \in Task /\ Key1 \in Key
  BY DEF IInv, TypeOK, Task, Secret, Key1, ExtractCallCredentials
<1>2. task.failed = FALSE
  BY <1>1 DEF IInv, OpenInv, Task
<1>3. PICK listed \in Listings : \E answers \in [listed -> Answers(Key1)] :
        task' = [task EXCEPT !.pc = "done", !.sent = Sent(task.auth_type),
                   !.items = {[ext |-> l[1], group |-> l[2], answer |-> answers[l],
                               status |-> CheckOpenAICompatibleCall(Key1, answers[l])] :
                                l \in listed}]
  BY DEF ListItems
<1>4. PICK answers \in [listed -> Answers(Key1)] :
        task' = [task EXCEPT !.pc = "done", !.sent = Sent(task.auth_type),
                   !.items = {[ext |-> l[1], group |-> l[2], answer |-> answers[l],
                               status |-> CheckOpenAICompatibleCall(Key1, answers[l])] :
                                l \in listed}]
  BY <1>3
<1> DEFINE items == {[ext |-> l[1], group |-> l[2], answer |-> answers[l],
                      status |-> CheckOpenAICompatibleCall(Key1, answers[l])] : l \in listed}
<1>5. Ends(Sent(task.auth_type), "done", items, FALSE)
  BY <1>1, <1>2, <1>4 DEF Ends, Task
<1>6. \A l \in listed : answers[l] \in Answers(Key1) /\ l[1] \in Entries /\ l[2] \in Groups
  BY <1>3, <1>4
<1>7. items \in SUBSET Item
  BY <1>1, <1>6, CallResult DEF Item
<1>8. Key1 # NoKey => \A i \in items : (i.status = "available")
                        <=> (i.answer.http = "ok" /\ i.answer.lines = {"json"})
  BY <1>1, <1>6, CallResult
<1>9. /\ Sent(task.auth_type) \in SUBSET (Accounts \cup {None, Envelope})
      /\ ~Nests(row.auth_type) => Sent(task.auth_type) \subseteq {given.account}
  BY Shown DEF Asking
<1> HIDE DEF items
<1>10. QED
  BY <1>5, <1>7, <1>8, <1>9, EndKeeps

\* A fetch that goes on to another request.
LEMMA GoesOn ==
    ASSUME IInv, UNCHANGED <<row, given>>, task.pc \in {"fetch", "me", "profile"},
           NEW type, ApplyAuth(type, task.secret) = task.secret.account,
           NEW pc \in {"user", "profile", "exchange"},
           pc = "user" => /\ ~task.exchanged
                          /\ task.secret.form \notin {"newapi_access_token",
                                                      "sub2api_refresh_token"},
           pc # "user" => task.pc \in {"me", "profile"},
           task' = [task EXCEPT !.pc = pc, !.sent = Sent(type)]
    PROVE  IInv'
<1>1. task \in Task
  BY DEF IInv, TypeOK
<1>2. /\ Sent(type) \in SUBSET (Accounts \cup {None, Envelope})
      /\ ~Nests(row.auth_type) => Sent(type) \subseteq {given.account}
  BY Shown DEF Asking
<1>3. /\ task' \in Task /\ task'.pc = pc /\ task'.sent = Sent(type)
      /\ task'.secret = task.secret /\ task'.auth_type = task.auth_type
      /\ task'.items = task.items /\ task'.failed = task.failed
      /\ task'.lapsed = task.lapsed /\ task'.exchanged = task.exchanged
  BY <1>1, <1>2 DEF Task
<1>4. task.items = {} /\ ~task.failed
  BY DEF IInv, OpenInv
<1>5. ItemsInv' /\ FailInv' /\ OpenInv'
  BY <1>3, <1>4 DEF ItemsInv, FailInv, OpenInv
<1>6. pc # "user" =>
        task.secret.form = "sub2api_refresh_token" /\ "access" \in task.secret.tokens
  BY DEF IInv, SecretInv
<1>7. Asking
  BY DEF Asking
<1>8. QED
  BY <1>2, <1>3, <1>5, <1>6, <1>7, StepKeeps

-----------------------------------------------------------------------------
(* The steps of a refresh                                                  *)

LEMMA LoadKeeps == IInv /\ Load => IInv'
<1> SUFFICES ASSUME IInv, Load PROVE IInv'
  OBVIOUS
<1>1. row \in Row /\ RowInv
  BY DEF IInv, TypeOK
<1>2. /\ UNCHANGED <<row, given>>
      /\ task' = [NoTask EXCEPT !.pc = IF row.auth_type = "password" THEN "login" ELSE "fetch",
                                !.auth_type = row.auth_type, !.secret = row.secret]
  BY DEF Load
<1>3. /\ task'.pc = IF row.auth_type = "password" THEN "login" ELSE "fetch"
      /\ task'.auth_type = row.auth_type /\ task'.secret = row.secret
      /\ task'.sent = {} /\ task'.items = {} /\ task'.failed = FALSE
      /\ task'.exchanged = FALSE /\ task'.lapsed = FALSE /\ task'.cached = FALSE
  BY <1>2 DEF NoTask
<1>4. task' \in Task
  BY <1>1, <1>2 DEF NoTask, Task, Row
<1>5. SecretInv'
  BY <1>1, <1>2, <1>3 DEF SecretInv, Asking, RowInv, Nests
<1>6. QED
  BY <1>2, <1>3, <1>4, <1>5 DEF IInv, TypeOK, RowInv, RequestsCarryTheCredential, ItemsInv,
                                FailInv, OpenInv

LEMMA LoginKeeps == IInv /\ LoginWithPassword => IInv'
<1> SUFFICES ASSUME IInv, LoginWithPassword PROVE IInv'
  OBVIOUS
<1> DEFINE type == IF row.kind = "new_api" THEN "new_api_session" ELSE "bearer"
           old  == Session(row.kind, task.secret.account)
<1>1. /\ task \in Task /\ task.pc = "login" /\ row.auth_type = "password"
      /\ task.secret = row.secret /\ ~task.exchanged
      /\ task.items = {} /\ ~task.failed
  BY DEF IInv, TypeOK, LoginWithPassword, SecretInv, OpenInv
<1>2. row.secret.account = given.account /\ given.account \in Accounts
      /\ row.secret.call \in Key
  BY <1>1 DEF IInv, TypeOK, RowInv, Nests, Row, Secret
<1>3. PICK s \in AttachCallCredentials(type, old, Key1) :
        task' = [task EXCEPT !.pc = "fetch", !.sent = {task.secret.account},
                             !.auth_type = type, !.secret = s]
  BY DEF LoginWithPassword
<1>4. type \in {"new_api_session", "bearer"} /\ type \in AuthTypes
  BY DEF AuthTypes
<1>5. /\ old \in Secret /\ Fits(type, old) /\ old.account = given.account /\ old.call = NoKey
      /\ type = "bearer" => old.form = "raw"
  <2>1. row.secret.account \in Accounts /\ task.secret.account = given.account
    BY <1>1, <1>2
  <2>2. CASE row.kind = "new_api"
    <3>1. type = "new_api_session" /\ old = [EmptySecret EXCEPT !.form = "session",
                                                       !.account = given.account]
      BY <2>1, <2>2 DEF Session
    <3>2. old = [form |-> "session", account |-> given.account, tokens |-> {}, call |-> NoKey]
      BY <3>1 DEF EmptySecret
    <3>3. old \in Secret
      BY <1>2, <3>2 DEF Secret, Forms, Key
    <3>4. old.form = "session" /\ old.account = given.account /\ old.call = NoKey
      BY <3>2
    <3> HIDE DEF type, old
    <3>5. Fits(type, old)
      BY <3>1, <3>4 DEF Fits, FormsOf
    <3>6. QED
      BY <3>1, <3>3, <3>4, <3>5
  <2>3. CASE row.kind # "new_api"
    <3>1. type = "bearer" /\ old = RawSecret(given.account)
      BY <2>1, <2>3 DEF Session
    <3>2. old \in Secret /\ old.form = "raw" /\ old.account = given.account /\ old.call = NoKey
      BY <1>2, <3>1, SecretTypes
    <3>3. QED
      BY <3>1, <3>2 DEF Fits, FormsOf
  <2>4. QED
    BY <2>2, <2>3
<1> HIDE DEF type, old
<1>6. /\ s \in Secret /\ Fits(type, s) /\ s.account = given.account /\ s.call = Key1
  <2>1. Key1 \in Key
    BY <1>1, <1>2 DEF Key1, ExtractCallCredentials
  <2>2. CASE Key1 = NoKey
    <3>1. s = old
      BY <1>3, <2>2 DEF AttachCallCredentials
    <3>2. QED
      BY <1>5, <2>2, <3>1
  <2>3. CASE Key1 # NoKey
    <3>1. Key1 \in CallKeys
      BY <2>1, <2>3 DEF Key
    <3>2. KeepsKey(type)
      BY <1>4 DEF KeepsKey
    <3>3. QED
      BY <1>3, <1>4, <1>5, <3>1, <3>2, Attached
  <2>4. QED
    BY <2>2, <2>3
<1>7. /\ task' \in Task
      /\ task'.pc = "fetch" /\ task'.secret = s /\ task'.auth_type = type
      /\ task'.sent = {given.account}
      /\ task'.items = task.items /\ task'.failed = task.failed
      /\ task'.exchanged = task.exchanged
  BY <1>1, <1>2, <1>3, <1>4, <1>6 DEF Task
<1>8. UNCHANGED <<row, given>>
  BY DEF LoginWithPassword
<1>9. s.call = row.secret.call
  BY <1>1, <1>6 DEF Key1, ExtractCallCredentials
<1>10. SecretInv'
  BY <1>1, <1>4, <1>6, <1>7, <1>8, <1>9 DEF SecretInv, Asking
<1>11. QED
  BY <1>1, <1>7, <1>8, <1>10 DEF IInv, TypeOK, RowInv, RequestsCarryTheCredential, ItemsInv,
                                 FailInv, OpenInv

LEMMA LoginFailsKeeps == IInv /\ LoginFails => IInv'
<1> SUFFICES ASSUME IInv, LoginFails PROVE IInv'
  OBVIOUS
<1>1. /\ task \in Task /\ row.auth_type = "password" /\ task.secret = row.secret
      /\ row.secret.account = given.account /\ given.account \in Accounts
      /\ task.items = {}
  BY DEF IInv, TypeOK, LoginFails, SecretInv, OpenInv, RowInv, Nests
<1>2. /\ task' \in Task /\ task'.pc = "done" /\ task'.items = {}
      /\ task'.sent = task.sent \cup {given.account}
  BY <1>1 DEF LoginFails, Task
<1>3. UNCHANGED <<row, given>>
  BY DEF LoginFails
<1>4. RequestsCarryTheCredential'
  BY <1>2, <1>3 DEF IInv, RequestsCarryTheCredential
<1>5. QED
  BY <1>1, <1>2, <1>3, <1>4 DEF IInv, TypeOK, RowInv, SecretInv, Asking, ItemsInv, FailInv, OpenInv

\* A fetch by any but token encodings asks with the auth type it has.
LEMMA PlainForm ==
    ASSUME IInv, \/ task.pc = "fetch" /\ row.kind = "new_api" /\ ~WithAccessToken
                 \/ task.pc = "fetch" /\ row.kind = "sub2api" /\ ~WithRefreshToken
                 \/ task.pc = "user"
    PROVE  task.secret.form \notin {"newapi_access_token", "sub2api_refresh_token"}
<1>1. CASE task.pc = "user"
  BY <1>1 DEF IInv, SecretInv
<1>2. CASE task.pc = "fetch"
  <2>1. /\ Fits(task.auth_type, task.secret) /\ FitsKind(row.kind, row.auth_type)
        /\ IF row.auth_type = "password" THEN task.auth_type \in {"new_api_session", "bearer"}
           ELSE task.auth_type = row.auth_type
        /\ task.auth_type \in AuthTypes
    BY <1>2 DEF IInv, RowInv, SecretInv, Asking, TypeOK, Task
  <2>2. FitsKind(row.kind, task.auth_type)
    BY <2>1 DEF FitsKind
  <2>3. QED
    BY <1>2, <2>1, <2>2 DEF WithAccessToken, WithRefreshToken, Fits, FormsOf, FitsKind,
                            AuthTypes, BalanceAuthTypes
<1>3. QED
  BY <1>1, <1>2

LEMMA TokenSelfKeeps == IInv /\ TokenSelf => IInv'
<1> SUFFICES ASSUME IInv, TokenSelf PROVE IInv'
  OBVIOUS
<1>1. ApplyAuth("new_api_token", task.secret) = task.secret.account
  BY AskedWithToken DEF TokenSelf
<1>2. task.pc = "fetch" /\ UNCHANGED <<row, given>>
  BY DEF TokenSelf
<1>3. /\ Sent("new_api_token") \in SUBSET (Accounts \cup {None, Envelope})
      /\ ~Nests(row.auth_type) => Sent("new_api_token") \subseteq {given.account}
  BY <1>1, <1>2, Shown DEF Asking
<1>4. QED
  BY <1>2, <1>3, OutcomeKeeps DEF TokenSelf, CallOnlyOrFail

LEMMA AdminKeeps == IInv /\ (AdminChannels \/ AdminAccounts) => IInv'
<1> SUFFICES ASSUME IInv, AdminChannels \/ AdminAccounts PROVE IInv'
  OBVIOUS
<1>1. /\ task.pc = "fetch" /\ UNCHANGED <<row, given>>
      /\ \/ row.kind = "new_api" /\ ~WithAccessToken
         \/ row.kind = "sub2api" /\ ~WithRefreshToken
  BY DEF AdminChannels, AdminAccounts
<1>2. task.secret.form \notin {"newapi_access_token", "sub2api_refresh_token"}
  BY <1>1, PlainForm
<1>3. ApplyAuth(task.auth_type, task.secret) = task.secret.account
  BY <1>1, <1>2, AskedWithOwnType
<1>4. \/ ListItems({E \X Groups : E \in SUBSET Entries})
      \/ ListItems(SUBSET (Entries \X Groups))
      \/ task' = [task EXCEPT !.pc = "user", !.sent = Sent(task.auth_type)]
  BY DEF AdminChannels, AdminAccounts
<1>5. CASE ListItems({E \X Groups : E \in SUBSET Entries})
  <2>1. \A listed \in {E \X Groups : E \in SUBSET Entries} : listed \subseteq Entries \X Groups
    OBVIOUS
  <2>2. QED
    BY <1>1, <1>3, <1>5, <2>1, ListKeeps
<1>6. CASE ListItems(SUBSET (Entries \X Groups))
  <2>1. \A listed \in SUBSET (Entries \X Groups) : listed \subseteq Entries \X Groups
    OBVIOUS
  <2>2. QED
    BY <1>1, <1>3, <1>6, <2>1, ListKeeps
<1>7. CASE task' = [task EXCEPT !.pc = "user", !.sent = Sent(task.auth_type)]
  <2>1. ~task.exchanged
    BY <1>1 DEF IInv, SecretInv
  <2>2. QED
    BY <1>1, <1>2, <1>3, <1>7, <2>1, GoesOn
<1>8. QED
  BY <1>4, <1>5, <1>6, <1>7

LEMMA UserKeeps == IInv /\ (UserSelf \/ UserProfile) => IInv'
<1> SUFFICES ASSUME IInv, UserSelf \/ UserProfile PROVE IInv'
  OBVIOUS
<1>1. /\ task.pc = "user" /\ UNCHANGED <<row, given>>
      /\ \/ UserItem(Sent(task.auth_type))
         \/ CallOnlyOrFail(Sent(task.auth_type))
  BY DEF UserSelf, UserProfile
<1>2. task.secret.form \notin {"newapi_access_token", "sub2api_refresh_token"}
  BY <1>1, PlainForm
<1>3. ApplyAuth(task.auth_type, task.secret) = task.secret.account
  BY <1>1, <1>2, AskedWithOwnType
<1>4. /\ Sent(task.auth_type) \in SUBSET (Accounts \cup {None, Envelope})
      /\ ~Nests(row.auth_type) => Sent(task.auth_type) \subseteq {given.account}
  BY <1>1, <1>3, Shown DEF Asking
<1>5. QED
  BY <1>1, <1>4, OutcomeKeeps DEF CallOnlyOrFail

LEMMA FetchKeeps == IInv /\ FetchWithRefreshToken => IInv'
<1> SUFFICES ASSUME IInv, FetchWithRefreshToken PROVE IInv'
  OBVIOUS
<1>1. /\ task \in Task /\ task.pc = "fetch" /\ task.secret.form = "sub2api_refresh_token"
      /\ task.items = {} /\ ~task.failed /\ UNCHANGED <<row, given>>
      /\ ~Nests(row.auth_type) => task.sent \subseteq {given.account}
  BY DEF IInv, TypeOK, FetchWithRefreshToken, WithRefreshToken, OpenInv,
         RequestsCarryTheCredential
<1>2. Asking
  BY <1>1 DEF Asking
<1>3. CASE "access" \in task.secret.tokens /\ task' = [task EXCEPT !.pc = "me", !.cached = TRUE]
  <2>1. /\ task' \in Task /\ task'.pc = "me" /\ task'.secret = task.secret
        /\ task'.auth_type = task.auth_type /\ task'.items = {} /\ ~task'.failed
        /\ task'.sent = task.sent
    BY <1>1, <1>3 DEF Task
  <2>2. ItemsInv' /\ FailInv' /\ OpenInv'
    BY <2>1 DEF ItemsInv, FailInv, OpenInv
  <2>3. QED
    BY <1>1, <1>2, <1>3, <2>1, <2>2, StepKeeps
<1>4. CASE task' = [task EXCEPT !.pc = "exchange"]
  <2>1. /\ task' \in Task /\ task'.pc = "exchange" /\ task'.secret = task.secret
        /\ task'.auth_type = task.auth_type /\ task'.items = {} /\ ~task'.failed
        /\ task'.sent = task.sent
    BY <1>1, <1>4 DEF Task
  <2>2. ItemsInv' /\ FailInv' /\ OpenInv'
    BY <2>1 DEF ItemsInv, FailInv, OpenInv
  <2>3. QED
    BY <1>1, <1>2, <2>1, <2>2, StepKeeps
<1>5. CASE task' = [task EXCEPT !.pc = "done", !.failed = TRUE, !.lapsed = TRUE]
  <2>1. /\ task' \in Task /\ task'.pc = "done" /\ task'.secret = task.secret
        /\ task'.auth_type = task.auth_type /\ task'.items = {} /\ task'.lapsed
        /\ task'.sent = task.sent
    BY <1>1, <1>5 DEF Task
  <2>2. ItemsInv' /\ FailInv' /\ OpenInv'
    BY <2>1 DEF ItemsInv, FailInv, OpenInv
  <2>3. QED
    BY <1>1, <1>2, <2>1, <2>2, StepKeeps
<1>6. QED
  BY <1>3, <1>4, <1>5 DEF FetchWithRefreshToken

LEMMA ExchangeKeeps == IInv /\ RefreshAccessToken => IInv'
<1> SUFFICES ASSUME IInv, RefreshAccessToken PROVE IInv'
  OBVIOUS
<1> DEFINE sent == task.sent \cup {task.secret.account}
<1>1. /\ task \in Task /\ task.pc = "exchange" /\ task.secret.form = "sub2api_refresh_token"
      /\ task.items = {} /\ ~task.failed /\ UNCHANGED <<row, given>>
      /\ ~Nests(row.auth_type) => task.sent \subseteq {given.account}
      /\ ~Nests(row.auth_type) => task.secret.account = given.account
  BY DEF IInv, TypeOK, RefreshAccessToken, SecretInv, Asking, OpenInv,
         RequestsCarryTheCredential
<1>2. sent \in SUBSET (Accounts \cup {None, Envelope})
  BY <1>1 DEF Task, Secret
<1>3. ~Nests(row.auth_type) => sent \subseteq {given.account}
  BY <1>1
<1>4. CASE task' = [task EXCEPT !.pc = "me", !.exchanged = TRUE, !.sent = sent,
                      !.secret.tokens = {"access", "refresh"}]
  <2>1. /\ task.secret \in Secret
        /\ task'.secret = [task.secret EXCEPT !.tokens = {"access", "refresh"}]
    BY <1>1, <1>4 DEF Task
  <2>2. /\ task'.secret \in Secret /\ task'.secret.call = task.secret.call
        /\ task'.secret.account = task.secret.account /\ task'.secret.form = task.secret.form
        /\ "access" \in task'.secret.tokens
    BY <2>1 DEF Secret
  <2>3. /\ task'.pc = "me" /\ task'.sent = sent
        /\ task'.auth_type = task.auth_type /\ task'.items = {} /\ ~task'.failed
    BY <1>1, <1>4 DEF Task
  <2>4. task' = [task EXCEPT !.pc = "me", !.exchanged = TRUE, !.sent = sent,
                   !.secret = task'.secret]
    BY <1>1, <1>4 DEF Task
  <2>5. task' \in Task
    BY <1>1, <1>2, <2>2, <2>4 DEF Task
  <2>6. ItemsInv' /\ FailInv' /\ OpenInv'
    BY <2>3 DEF ItemsInv, FailInv, OpenInv
  <2>7. Asking
    BY <1>1 DEF Asking
  <2>8. QED
    BY <1>1, <1>3, <2>2, <2>3, <2>5, <2>6, <2>7, StepKeeps
<1>5. CASE CallOnlyOrFail(sent)
  BY <1>1, <1>2, <1>3, <1>5, OutcomeKeeps DEF CallOnlyOrFail
<1>6. QED
  BY <1>4, <1>5 DEF RefreshAccessToken

LEMMA MeKeeps == IInv /\ (Me \/ Profile) => IInv'
<1> SUFFICES ASSUME IInv, Me \/ Profile PROVE IInv'
  OBVIOUS
<1>1. task.pc \in {"me", "profile"} /\ UNCHANGED <<row, given>>
  BY DEF Me, Profile
<1>2. ApplyAuth("bearer", task.secret) = task.secret.account
  BY <1>1, AskedWithBearer
<1>3. /\ Sent("bearer") \in SUBSET (Accounts \cup {None, Envelope})
      /\ ~Nests(row.auth_type) => Sent("bearer") \subseteq {given.account}
  BY <1>1, <1>2, Shown DEF Asking
<1>4. \/ UserItem(Sent("bearer"))
      \/ Key1 # NoKey /\ CallOnly(Sent("bearer"))
      \/ Key1 = NoKey /\ Fail(Sent("bearer"))
      \/ task' = [task EXCEPT !.pc = "profile", !.sent = Sent("bearer")]
      \/ task' = [task EXCEPT !.pc = "exchange", !.sent = Sent("bearer")]
  BY DEF Me, Profile
<1>5. CASE \/ UserItem(Sent("bearer"))
           \/ Key1 # NoKey /\ CallOnly(Sent("bearer"))
           \/ Key1 = NoKey /\ Fail(Sent("bearer"))
  BY <1>1, <1>3, <1>5, OutcomeKeeps
<1>6. CASE task' = [task EXCEPT !.pc = "profile", !.sent = Sent("bearer")]
  BY <1>1, <1>2, <1>6, GoesOn
<1>7. CASE task' = [task EXCEPT !.pc = "exchange", !.sent = Sent("bearer")]
  BY <1>1, <1>2, <1>7, GoesOn
<1>8. QED
  BY <1>4, <1>5, <1>6, <1>7

\* The exchanged secret has the account and the call key of the row it replaces.
LEMMA SaveKeeps == IInv /\ SaveSecret => IInv'
<1> SUFFICES ASSUME IInv, SaveSecret PROVE IInv'
  OBVIOUS
<1>1. /\ row \in Row /\ task \in Task /\ task.pc = "save"
      /\ row' = [row EXCEPT !.secret = task.secret, !.mask = Key1]
      /\ task' = [task EXCEPT !.pc = "done"] /\ UNCHANGED given
  BY DEF IInv, TypeOK, SaveSecret
<1>2. /\ task.secret.call = row.secret.call
      /\ ~Nests(row.auth_type) => task.secret.account = given.account
      /\ Fits(task.auth_type, task.secret)
      /\ IF row.auth_type = "password" THEN task.auth_type \in {"new_api_session", "bearer"}
         ELSE task.auth_type = row.auth_type
      /\ task.secret.form = "sub2api_refresh_token"
  BY <1>1 DEF IInv, SecretInv, Asking
<1>3. row.auth_type # "password"
  BY <1>2 DEF Fits, FormsOf
<1>4. task.secret \in Secret /\ Key1 \in Key
  BY <1>1 DEF Task, Secret, Key1, ExtractCallCredentials
<1>5. /\ row' \in Row /\ row'.kind = row.kind /\ row'.auth_type = row.auth_type
      /\ row'.secret = task.secret /\ row'.mask = task.secret.call
  BY <1>1, <1>4 DEF Row, Key1, ExtractCallCredentials
<1>6. RowInv'
  BY <1>1, <1>2, <1>3, <1>5 DEF IInv, RowInv, Nests
<1>7. /\ task' \in Task /\ task'.pc = "done" /\ task'.sent = task.sent
      /\ task'.items = task.items /\ task'.failed = task.failed
      /\ task'.lapsed = task.lapsed
  BY <1>1 DEF Task
<1>8. ItemsInv' /\ FailInv' /\ RequestsCarryTheCredential'
  BY <1>1, <1>2, <1>5, <1>7 DEF IInv, ItemsInv, FailInv, RequestsCarryTheCredential
<1>9. QED
  BY <1>1, <1>5, <1>6, <1>7, <1>8 DEF IInv, TypeOK, SecretInv, Asking, OpenInv

LEMMA StutterKeeps == IInv /\ UNCHANGED vars => IInv'
  BY DEF vars, IInv, TypeOK, RowInv, SecretInv, Asking, RequestsCarryTheCredential, ItemsInv,
         FailInv, OpenInv

LEMMA StepInv == IInv /\ [Next]_vars => IInv'
  BY PutKeeps, LoadKeeps, LoginKeeps, LoginFailsKeeps, TokenSelfKeeps, AdminKeeps, UserKeeps,
     FetchKeeps, ExchangeKeeps, MeKeeps, SaveKeeps, StutterKeeps DEF Next

\* Every step of an administrator or of a refresh keeps the invariant.
THEOREM Invariance == Spec => []IInv
  BY InitInv, StepInv, PTL DEF Spec

-----------------------------------------------------------------------------
(* The theorems                                                            *)

\* The state has its type, whatever is entered and whatever the upstream answers.
THEOREM AccessTypeCorrect == Spec => []TypeOK
<1>1. IInv => TypeOK
  BY DEF IInv
<1>2. QED
  BY <1>1, Invariance, PTL

\* No mix of edits, logins and exchanges brings back an older credential or call key.
THEOREM LatestIsStored == Spec => []SecretIsLatest
<1>1. IInv => SecretIsLatest
  BY DEF IInv, RowInv, SecretIsLatest
<1>2. QED
  BY <1>1, Invariance, PTL

\* The call part of a mask is the tail of the call key that is stored.
THEOREM MaskIsTrue == Spec => []MaskTellsCallKey
<1>1. IInv => MaskTellsCallKey
  BY DEF IInv, RowInv, MaskTellsCallKey
<1>2. QED
  BY <1>1, Invariance, PTL

\* No upstream is shown an envelope, an empty credential or another account's.
THEOREM OnlyTheCredentialIsSent == Spec => []RequestsCarryTheCredential
<1>1. IInv => RequestsCarryTheCredential
  BY DEF IInv
<1>2. QED
  BY <1>1, Invariance, PTL

\* The status of an item with a call key is what the call endpoint answered.
THEOREM CallDecides == Spec => []StatusIsCallResult
<1>1. IInv => StatusIsCallResult
  BY DEF IInv, ItemsInv, StatusIsCallResult
<1>2. QED
  BY <1>1, Invariance, PTL

\* With a call key a failed balance query still ends in items.
THEOREM FailureHidesNoCall == Spec => []AvailabilityReported
<1>1. IInv => AvailabilityReported
  BY DEF IInv, FailInv, AvailabilityReported
<1>2. QED
  BY <1>1, Invariance, PTL
=============================================================================
