# Xi_monitor in TLA+

Xi_monitor watches accounts at *upstreams* (new_api and sub2api servers): every
half hour, and whenever an administrator asks, it logs in at each upstream,
reads balance and channel status, tries a model call, and writes the result to
PostgreSQL, from which a Vue dashboard is fed. This directory holds TLA+
models of the program, the TLC configurations that check them, and theorems
about them checked by TLAPS.

## Inventory

| Part | State it keeps | Operations | Talks to |
|---|---|---|---|
| `poller` | `running` (guards, one per upstream), `lastAll` (status of the global refresh), goroutines | `Start` (ticker), `RefreshAll`, `RefreshUpstream`, `RefreshItem` | store, clients, secret box |
| `store` | tables `upstreams`, `upstream_groups`, `monitor_items`, `check_logs`, `upstream_config_snapshots` | one method per statement or transaction | PostgreSQL |
| `httpapi` | none (handlers run concurrently) | login, dashboard, refreshes, CRUD of upstreams, group ratio | store, poller (called or started with `go`) |
| `upstream/newapi`, `upstream/sub2api` | none, but spend and receive tokens | `Fetch` by kind of credential | the upstreams, over HTTP |
| `upstream` helpers | none | encode, decode, attach, mask credentials; which group an item belongs to; OpenAI-compatible call check | clients, handlers |
| `auth`, `crypto`, `config` | none after start | sign and check a login token; AES-GCM; read settings | |
| `cmd/server` | the root context | start poller and server, drain the server on SIGTERM | all |
| dashboard view | displayed data, poll timers, run id, baselines, spinners | refresh, poll until items are newer than a baseline, save a ratio | the HTTP API |
| add channel dialog | a form | create or edit an upstream; a secret left blank stays as it is | the HTTP API |

What is hard in it:

* **Concurrency.** Six places start a refresh of the same upstream. A refresh
  is a chain of some ten statements, each its own transaction, around network
  calls that last up to minutes; the administrator edits the same rows meanwhile.
* **Partial failure.** Any of those statements may fail; errors are recorded
  by two further statements that may fail too.
* **Crash and shutdown.** `main` does not wait for the poller; guards and run
  status live in memory only.
* **Tokens that can be spent once.** The refresh token of a sub2api account is
  replaced by using it, before the new one is stored.
* **Encodings.** A secret has eight shapes, a request nine auth types and two
  orders of precedence; logins and token exchanges turn one encoding into another,
  and each must keep the credential and the call key.
* **Overlapping requests of a page.** The answers of the dashboard's loads
  overtake each other; a poll for one refresh goes on loading while the next
  refresh has already replaced it.
* **Identity of items.** An item's row is found through its group, type and
  external id, all three of which the code may change.

What makes each component correct, in short: one refresh per upstream, never a
leaked guard, results that do not go back in time, rows and items that agree
(poller, store); the secret in the row works, belongs to one login and is the
one the administrator gave (httpapi, sub2api, poller); an item shows the ratio
of its own group, in a row found by what it is (store, clients, helpers); the
secret holds what was entered last, the mask says so, requests bear the
credential and nothing else, a status is the result of a call (handlers,
helpers, clients); spinners stop, one poll is live, the table catches up
(frontend). PROJECT.json lists the
hazards line by line.

## Modules

| Module | What it is |
|---|---|
| `Poller` | the refresh engine, the handlers that start refreshes, the rows a refresh writes |
| `RefreshContract` | abstract: what a reader of `last_polled_at` and `last_error` may rely on |
| `PollerProofs` | theorems about `Poller`: types, guards, single flight, results that move forward |
| `PollerResults` | theorems about what its refreshes leave behind: items, completed runs, rows that agree with items |
| `PollerRefinement` | theorem: `Poller` implements `RefreshContract` |
| `TokenRotation` | the stored sub2api secret between refresh, PUT handlers and token server |
| `TokenRotationProofs` | theorems about `TokenRotation` |
| `GroupItems` | the groups of an upstream and its item rows: which row and which ratio an item gets |
| `GroupItemsProofs` | theorems about `GroupItems` |
| `Secrets` | data only: encodings of a secret, the rules that make one of a request, what a request to an upstream bears, the check of a call key |
| `Access` | one upstream from the dialog to the status of its items: edits, login, the chain of endpoints and fallbacks of both clients |
| `AccessProofs` | theorems about `Access` |
| `Dashboard` | the page: loads, refreshes, polls and spinners |
| `DashboardProofs` | theorems about `Dashboard` |
| `MC...` | a module extended with the symmetry sets and names TLC uses |

An operator named `X_Fault` is the operator `X` with a plausible bug. No
specification uses it. PROJECT.json pairs it with the property that fails when
it takes the place of `X`: the evidence that the property has teeth.

### Poller

A goroutine in `RefreshUpstream` is a slot `task[c][u]`: caller `c`, upstream
`u`. Its `pc` names the statement it is about to execute, and each statement
that reads or writes shared state is one action:

    TryStart  tryStart                 UpsertItem/UpsertError/UpsertsDone   the item loop
    Load      checkedAt, GetUpstream   PublishResult      SetUpstreamPollResult(nil)
    FetchOK/FetchError                 RecordError        recordRefreshError, first call
              decrypt, resolve, fetch  RecordItemFailure  recordRefreshError, second call
    SaveSecret UpdateUpstreamSecret    Finish, Return     deferred finish, result to caller

`RefreshAll`, `ListOK`, `ListError`, `WaitDone`, `PublishAll` are the goroutine
of `RefreshAll`; its children are slots of the run `r`. A run started by the
ticker carries the context of `main`, one started by a handler a background
context; `Cancelled` and `MaySucceed` say what a cancelled context allows.
`CreateUpstream`, `RequestRefresh` (a refresh of an upstream or item, and the
test of an upstream), `UpdateUpstream`, `DeleteUpstream` are the handlers, `Shutdown` and `Restart` the process. Of an item's data the module
keeps its status, its time, and whether it was written for a failed refresh
(`RecordUpstreamCheckFailure`, whose message the row bears too) or is one a fetch
reported; of a row the enabled flag, `last_polled_at` and whether `last_error` is
set. A fetch that succeeds reports an arbitrary subset of the items, each with any
status of `Reported`: the call of its key may have failed (`error`) or not been
possible (`unknown`) though the fetch did not. `StoreFails` names the calls of the
store that may fail; the insertion into `check_logs` that ends `UpsertMonitorItem`
is one of its own.

### TokenRotation

One sub2api upstream with `balance_auth_type = sub2api_refresh_token`. `secret`
and `mask` are the columns of its row; `task` is the refresh in progress with
its own copy of the credentials (there is one refresh at a time by theorem
`MutualExclusion`); `put[w]` is a PUT handler between `GetUpstream` and
`UpdateUpstream`, holding what it will write. The server is external:
`issued`, `login`, `validRefresh`, `validAccess`, `lapsed`, changed by the
refresh endpoint (`Rotate`), by expiry and revocation, and by the administrator
logging in elsewhere to obtain a new pair (in `PutReplace`). `Faults` selects
what may fail in a run. Whether the server replaces a refresh token on use or
keeps it is chosen at each use: the client supports both.

### GroupItems

One upstream, its rows of `upstream_groups` and `monitor_items`, and the three
parties that write them: the refresh, `PUT /upstreams/:id` with groups, and the
PUT of a group's ratio. A group is never deleted or renamed, so its name stands
for its id in foreign keys; its `id` orders the lists of the store. A ratio
carries a tag, `of`, the group it was given to: the properties can tell whose
ratio a row shows, whatever the numbers are.

    Fetch              GetUpstream, then the client: every item is built from one
                       reading of the groups (Reports: one set of items per kind
                       of credential and per fallback)
    SettleExternalID   UpsertMonitorItem, its SELECT (existingAccountExternalID)
    SelectFails        the same when the SELECT fails, which counts as no row
    WriteItem          UpsertMonitorItem, INSERT ... ON CONFLICT DO UPDATE
    RefreshDone        the loop ends
    CutOff             the refresh ends early: an error, or the process stops
    PutGroups          UpdateUpstream: upsertGroup and the attaching of rows
                       without group, one transaction; a unique violation in it
                       (Conflict) rolls back all of it
    SetUpstreamGroupRatio

`ManualRatioForGroup`, `GroupForName`, `EnabledGroups`, `UserItems`,
`CallOnlyItems`, `ChannelItems`, `AccountItems`, `MonitorItems` are the
functions of `helpers.go` and of the two clients with those names or roles.
An account takes the external id of whatever account row its group has: with a
user's credential these are two forms of one account, with an admin API they may
be two accounts, which then overwrite each other in one row. The properties claim
no more than that: `OneAccountRowPerGroup` is about a user's credential, and
`UpToDate` asks of the accounts of a group that one of them is shown.
What the upstream says of itself (the group of an account or monitor) is fixed
in a behaviour and arbitrary among `Reported`; with `AdminFails` an admin API
may at any refresh fail to answer, and the client falls back to the user's
view (the run sets it FALSE; theorem `RatioOfOwnGroup` covers both). The items of
an account or channel are upserted in the order of its groups, monitors after
accounts; the accounts of a report may mix. Left out: statuses, balances, messages
(what they depend on is in `Poller`), test settings of a group, and which
groups of a PUT leave out a display name (the form of the dashboard always
sends one).

**One case is excluded.** A group without display name has the empty string for
one, and a monitor the server reports without group has the empty string for
its group name: `ManualRatioForGroup` and the attaching of rows then take them
for each other, and two groups may share a display name. The theorem
`RatioOfOwnGroup` therefore assumes `NamesApart`, and the runs use instances of
it; TLC finds `RatioFromOwnGroup` violated where it does not hold.

### Secrets and Access

A secret is a record: which Go type it is the JSON of (`form`), whose
credential it holds, which tokens, which call key. The credential of an account
(token and user id, name and password, cookie) is the name of the account; text
that the program takes for a credential although it is an encoded secret is
`Envelope`. The operators have the names of the Go functions; one that may
return an error is the set of its results, empty for an error. `Request` says
which fields are present, not what is in them.

`row` of `Access` is the row of the upstream (kind, auth type, secret, call
part of the mask), `given` what the administrator last entered, `task` the
refresh: the secret it asks with, the credentials the upstream has seen, the
items so far with the answers their status came from.

    Init               POST /upstreams with what the documentation asks of each type
    Put                the dialog edits key, credential or both; PUT /upstreams/:id
    Load               GetUpstream, Decrypt
    LoginWithPassword, LoginFails    ResolveAuth: from password to session or token
    TokenSelf, AdminChannels, UserSelf             newapi.Fetch
    AdminAccounts, UserProfile, FetchWithRefreshToken, RefreshAccessToken,
    Me, Profile                                    sub2api.Fetch
    SaveSecret         UpdateUpstreamSecret

Each request to an upstream is an action, its answers are choices; `UserItem`,
`ListItems`, `CallOnly`, `Fail` are the four ways a fetch ends. Left out: what
an edit and a refresh do to each other (`TokenRotation` interleaves them, here
`Put` waits until a refresh is over), failures of the store and of the secret
box, the monitors of a sub2api upstream (their status is the upstream's own
word, not the result of a call), requests that mix credentials of two
accounts, and requests neither the dialog nor the documentation makes. Several
attempts at one endpoint (paths, `RequestFirstJSON`) are one request.

Three kinds of row are excepted, at the properties, because the code treats
them otherwise: a `bearer` row wraps its token once more each time a call key
is attached (`Nests`); `cookie` and `admin_api_key` have no room for a call
key, though their mask may claim one (`KeepsKey`); and a password or an expired
sub2api access token without refresh token stop a refresh before it looks at
the call key (`AvailabilityReported`).

### Dashboard

Everything in `DashboardView.vue` runs in one thread, so an action is what
happens between two awaits. `click[c]` is a handler started by the user
(`RefreshAll`, `RefreshRow`, `EditRatio`) and then its poll
(`scheduleRefreshPolling`: `Posted`, `Timer`, `PollLoaded`); `load[l]` is a
call of `loadDashboard` under way, asked, answered, delivered, so that answers
can overtake each other. The server is, for each upstream, the latest
`last_checked_at` of its items (`latestCheckedAtForUpstream`), which `Check`,
`Add` and `Remove` change at any moment: to a later time or to an earlier one, since
a failed refresh stamps the items with its beginning and a deleted item takes its
time along. Time 0 stands for all that was before the page was opened.
Loads nobody waits for (interval, end of a dialog, deletion) are one
`Background` load at a time. Not modelled: mounting and leaving the page, the
dialogs themselves, sorting and drawing.

The server of `Dashboard` is freer than the program's: the page is not composed
with `Poller`, whose items have a time each (Plan).

## Assumptions of the models

* The wall clock does not step back (Go's `time.Now` is compared with stored
  times of earlier processes, so a step back would break `PolledAtNeverGoesBack`).
* Every store call is atomic: each is one SQL statement or one transaction,
  except `UpsertMonitorItem`, whose second statement is modelled by the failure
  that makes it visible (`UpsertError`).
* One server process at a time, as deployed by the compose files.
* An access token does not expire in the moment between its issue and its
  first use; the server honours all unexpired tokens of an account's logins.

## Runs

| Run | Instance | Shows |
|---|---|---|
| `poller_safety` | 1 upstream, 1 item, 2 runs, 1 handler, time 1..2, 1 restart, failing store | types, `OneRefreshPerUpstream`, `GuardHasHolder`, `OneRunAtATime`, `CompletedRunCoversUpstreams`, `NoOrphanItems`, `PolledAtNeverGoesBack` |
| `poller_contract` | 2 items, 1 run, 1 handler, time 1..2, every statement may fail but the two that store a result, statuses error and another | `QuietUpstreamsAgree`; `Poller` implements `RefreshContract` |
| `poller_liveness` | 1 of each, all four statuses, 1 restart, fair | `GuardReleased`, `RunEnds`, `FirstPollHappens`, `DisagreementRepaired` |
| `rotation_safety` | 1 PUT handler, 2 call keys, 3 tokens, all faults, 1 restart | types, `MaskDescribesSecret`, `OneLogin` |
| `rotation_call_key` | 6 tokens, balance endpoint fails now and then, fair | `CallKeyProtectsRotation`, `BalanceRecoversOnExpiry` |
| `rotation_lost` | violation | a rotated token is lost when the next request fails |
| `rotation_overwrites` | violation | a refresh undoes a concurrent PUT |
| `groups_ratio` | a user's account, two accounts of an admin API, a channel, a monitor; label or nothing reported; two groups, one with a label; 2 changes or failures; fair | types, `RatioFromOwnGroup`, `OneAccountRowPerGroup`, `RatioHeals` |
| `groups_put` | violation | a row without group (here of a user's account, the groups being disabled) that a PUT moved and a refresh wrote again makes every PUT of the groups fail |
| `access` | 2 accounts, 2 call keys, 2 groups, 2 entries of an admin API; no bound on edits and refreshes | types, `SecretIsLatest`, `MaskTellsCallKey`, `RequestsCarryTheCredential`, `StatusIsCallResult`, `AvailabilityReported` |
| `access_call_key` | violation | a new credential with the call key left blank erases the stored call key |
| `dashboard` | 1 upstream, 2 clicks, 2 attempts, times 0..1; fair | types, `NoStuckSpinner`, `OneLivePoller`, `OldRunsAreSilent`, `SpinnersStop`, `DisplayCatchesUp` |

**Why the bounds are enough.** The interesting cases of `Poller` need two
refreshes of one upstream (two callers; three are used), two different times
(a slow refresh and a quick one: time 1..2), a failure at every statement and a
restart at every point, all of which fit one upstream: upstreams share no
state but the list a run takes and its errors. Items share nothing but the loop
over them: two suffice for a failure between two upserts. Of the statuses only
`error` is also written by the poller itself, so that `error` and another one
suffice where all four are too many. A rotation protocol
step needs the current token, its replacement and one of a competing login:
three tokens; liveness runs get more so that the bound on tokens is not what
ends the behaviour. In `GroupItems` two names are needed for a wrong group to
exist, one object of each kind for it to be wrong about, since items of a report
do not depend on each other except through the key of their row; of accounts, which
may share a row, two, one reported under the label and one under the label or
nothing, so that they are in one group or not and report different names in it.
Two changes let one fall between the reading of the groups and an upsert after
another has set what is read; cut-off refreshes and failed SELECTs count as
changes. `Access` needs no bound: its state is finite, and two of each
constant let every account, key, group and entry be taken for another. In
`Dashboard` two clicks are a refresh and the one that replaces it; with two
attempts a poll is tried again and gives up; one upstream is in the table, not
in it, checked or not (a second one multiplies the states beyond what a run can
explore; the safety properties are proved for any number). Bounds are constants
(`MaxTime`, `MaxRestarts`, `MaxTokens`, `MaxChanges`, `MaxClicks`) in guards;
`MaxAttempts` is a constant of the code (`DashboardView.vue`, `maxAttempts`).

**Fairness.** `Poller` assumes weak fairness of each run and each refresh (a
goroutine is scheduled; every call it waits for ends, HTTP calls by the 45
second timeout of the client, `poller.go:51`), of the ticker (`poller.go:66`),
and of the restart of a process that was told to stop. The administrator, the
clock and crashes are not fair. `TokenRotation` assumes that the ticker keeps
starting refreshes, that their calls end, and that a balance endpoint asked
again and again does not fail every time; it assumes nothing of PUTs.
`GroupItems` assumes that refreshes are started and go on, which is what
`poller_liveness` shows; nothing of the administrator. `RatioHeals` is `[]<>`:
changes are bounded, so it speaks of the time after the last one.
`Dashboard` assumes that requests end, one way or the other, that timers fire
and the interval ticks (weak fairness of each load and handler), and, for
`DisplayCatchesUp`, that a load of the dashboard tried for ever succeeds for
ever (strong fairness of the answer to the background load); nothing of the
user, and nothing of the server ever finishing a refresh.

## Disagreements between code and documentation

Each of these is a run that must fail, described with its lines in PROJECT.json
`findings`: `rotation_lost`, `rotation_overwrites`, `groups_put`,
`access_call_key`.

Met while modelling, without a run of their own (paths below
`src/backend/internal/`):

* A cached access token of unknown expiry is used until it is rejected; with a
  call key the rejection is taken for a failed balance query and the refresh
  token is never tried (`upstream/sub2api/client.go:280`,
  `docs/05-frontend-api.md:336`). `BalanceRecoversOnExpiry` therefore assumes a
  known expiry.
* An item filed under a group by the fallback of `GroupForName`
  (`upstream/helpers.go:153`) does not get that group's ratio from
  `ManualRatioForGroup` (`helpers.go:127`), though `docs/05-frontend-api.md:420`
  makes the manual ratio of the group the only source of an item's ratio.
* `docs/05-frontend-api.md:325` and `:567` say that a failed balance query never
  affects the check of the call key; a refused login (`poller/poller.go:143`)
  and an expired access token without refresh token
  (`upstream/sub2api/client.go:235`) end the refresh before the check.
* A second call key attached to a `bearer` row wraps the encoded secret in
  another (`upstream/helpers.go:519`): the upstream is then sent the JSON.
* The mask of `cookie` and `admin_api_key` rows claims a call key
  (`httpapi/router.go:331`) that `AttachCallCredentials` did not store.
* A PUT of `auth_type` alone stores an empty secret (`router.go:342`); a PUT
  of a credential with `call_key` but without any URL drops the key
  (`router.go:636`). The dialog sends neither.
* Two accounts of an admin API in one group (all groups disabled, say, or accounts
  without a group of their own) share one row: the second takes the external id
  of the first (`store/store.go:429`) and overwrites name, balance and status,
  though `external_id` is the id of the resource at the upstream and part of the
  unique key (`docs/02-data-model.md:63`, `:84`). The test of this code
  (`store/store_integration_test.go:152`) is about a user's account only, which
  has two forms of id.
* With empty or shared display names a row may show the ratio of another group
  (`upstream/helpers.go:134`; see GroupItems above), against the same line 420.
* With both tokens and no type, POST stores a `sub2api_refresh_token` and PUT a
  `newapi_access_token` (`router.go:424`).

## Proofs

`PollerProofs`, for any sets of upstreams, items and callers and any bounds:

* `TypeCorrect`: `TypeOK` is inductive; one lemma per group of actions.
* `MutualExclusion` and `GuardNotLeaked`. Neither is inductive alone: that a
  refresh in progress is the only one follows from the guard being taken by
  exactly one holder, and that a restarted run's slots are free from children
  existing only while their run waits. The strengthening is `GuardInv` ==
  `ChildrenAreAwaited /\ GuardHasHolder /\ OneRefreshPerUpstream`.
* `SingleFlight`: `OneRunAtATime` is inductive once typed.
* `ResultsMoveForward`: `[][...]_vars` that `last_polled_at` never goes back. It
  rests on `TimeInv`: no stored time is in the future, and whoever holds the
  guard with a stamp has one at least as late as the stored time. The latter
  is preserved because nobody else publishes (mutual exclusion).

`PollerResults` rests on `Edges`, a summary of what each statement of
`RefreshUpstream` does to the program counter, stamp and error of its slot
(lemma `ControlFlow`), from which the theorems about sequences of statements are
argued without opening the actions again:

* `ItemsHaveUpstreams`: `NoOrphanItems` is inductive once the foreign key guards
  every write of an item and a deletion removes the items with the row.
* `CompletedMeansCovered`, from `CoverInv`: of each upstream a run has listed,
  either the run has an error, or the upstream is covered (a recent result,
  deleted, or skipped), or its child is `Pending`: it may still publish a result
  stamped after the run began, or has failed and will report it. The property
  speaks of the end of a run only; then no child is left (`GuardInv`) and so none
  is pending. A result once recent stays so by `TimeInv`, and a deleted upstream
  stays deleted because ids are not given twice.
* `RowsAgreeWithItems`, from `AgreeInv`, which says for each control point of a
  refresh in progress how far row and items may be apart (`AgreeDuring`), under
  the condition of the property (`Calm`: the two statements that store a result do
  not fail, no shutdown, no restart). `KnownInv` rules out that a refresh runs on into a row created under
  the id it could not find.

`PollerRefinement` proves `PollerImplementsContract`, that is
`Spec => ImplementsContract`. The mapping (`GuardPhase`, `GuardStamp`,
`PublishedRow` in `Poller`) reads phase and stamp off the slot that holds the
guard, with `CHOOSE`. `MapHolds` replaces the choice by what it must choose:
`GuardInv` says that the slot exists and is unique. `OneSeen` and `Stutter` turn
facts about one upstream into facts about the mapped functions, and
`TaskStepImplements` gives each statement its image:

    TryStart, guard free    Take         Finish          LetGo
    Load                    Stamp        CreateUpstream  Add
    PublishResult,          Publish      DeleteUpstream  Remove
      RecordError                        Restart         Lose
    everything else         nothing

`Stamp` may not go back before the published result, which is `TimeInv` for the
clock that `Load` reads; a slot that takes a guard has no stamp yet (`FreshInv`).

`TokenRotationProofs`, for any number of PUT handlers, keys and tokens:

* `RotationTypeCorrect`.
* `MaskIsTruthful`, from `MaskInv`: what a handler holds in memory is a secret
  with its mask, too.
* `TokensOfOneLogin`, from `LoginInv`: every secret in the row, in the refresh
  and in every handler is `Coherent` (its tokens are issued and of one login), so
  that whichever is written last, the row is.
* `CallKeyKeepsToken`: `CallKeyProtectsRotation`, with any number of restarts and
  PUT handlers where its run has none, under hypotheses that name the four ways
  to lose a token for good: a lost answer or a failing store (`Faults`), a crash
  between rotation and save (`NoCrashMidRotation`), a PUT of credentials during
  a refresh (`PutsApart`), and a PUT that adds a call key to a token that is
  already worthless (`PutsWork`). TLC violates the property as soon as one of
  them is dropped. The invariant, `ProtectInv`: the token that works is in the
  row, or in the memory of a refresh that has rotated it and knows of the call
  key; such a refresh saves it whatever the balance endpoint says.
* `WritesApartAreKept`: `AdminWriteNotOverwritten`, which run
  `rotation_overwrites` violates, does hold as long as no PUT of credentials
  overlaps a refresh (`PutsApart`), under all faults and restarts. So the race
  is the only cause. The invariant, `KeepInv`: a refresh in progress has the call
  key and the login of the row.

`GroupItemsProofs`, for any groups, display names, accounts, channels, monitors
and ratios and any number of changes:

* `GroupsTypeCorrect`: types, and no two rows with one key. That a PUT makes no
  two rows of one key follows from `~Conflict`, that the upsert makes none from
  `SameKey`.
* `OneAccountRow`, from `AccountInv`: with a user's credential every stored
  account row is called `account`, and so is what is about to be written; the
  key of the table does the rest.
* `RatioOfOwnGroup`, from `RatioInv`, assuming `NamesApart`: `Own` holds of rows,
  and of items yet to be written, which were built from groups that may have
  changed since. It survives because it does not mention the present groups: a
  ratio's tag and the names its group may go by never change. A row that moves
  goes where a name of it leads, to the group its ratio is from.

`AccessProofs`, for any accounts, call keys, groups and entries:

* One inductive invariant, `IInv`, carries all six theorems (`AccessTypeCorrect`,
  `LatestIsStored`, `MaskIsTrue`, `OnlyTheCredentialIsSent`, `CallDecides`,
  `FailureHidesNoCall`). None of the properties is inductive alone: that an edit
  of the call key keeps the credential, and that a request bears it, depend on
  the encoding of the secret `Fits`ting its auth type (`RowInv`), and that the
  secret a refresh saves may replace the row's depends on the refresh having the
  row's account and key in whatever form, known from its place in the chain
  (`SecretInv`).
* The lemmas below it are about the operators of `Secrets`: what
  `credentialSecret` makes of a complete request (`CompleteSecret`), what
  `AttachCallCredentials` keeps (`Attached`), that a fitting secret is sent as its
  credential (`FittingSecretIsSent`), that a status is `available` exactly for a
  clean stream (`CallResult`). `PlainForm` is why the fallbacks of the clients
  never send an envelope.

`DashboardProofs`, for any number of upstreams, clicks and attempts:

* `PageTypeCorrect`, from `TypeInv`: a timer means that attempts are left.
* `OnePoller`, from `RunInv`: the number of a poll was once `runId`, so the number
  the next one gets is new.
* `SpinnersAreWaitedFor`, from `SpinInv`, which says for the button and for each
  row which request or poll it waits for; `NoStuckSpinner` says only that one
  exists, and is lost at the step that ends it.
* `OldRunsKeepSilent`: an action property; one lemma per action.

The proofs use the named assumptions on the constants in `Poller`
(`CallersAssumption`, `StatusAssumption`, `BoundsAssumption`) and `TokenRotation`
(`RotationAssumption`), `GroupItems` (`GroupAssumption`), `Secrets`
(`SecretAssumption`) and `Dashboard` (`DashboardAssumption`), and in theorem
`RatioOfOwnGroup` `NamesApart`. The hypotheses of `CallKeyKeepsToken` and
`WritesApartAreKept` are part of those theorems and said above.

Every safety property of a passing run is a theorem. Model-checked only: liveness
(`GuardReleased`, `RunEnds`, `FirstPollHappens`, `DisagreementRepaired`,
`BalanceRecoversOnExpiry`, `RatioHeals`, `SpinnersStop`, `DisplayCatchesUp`),
which the proof system cannot treat. Each invariant named above was checked by TLC
on the instances of the runs before it was proved; so were the hypotheses of the
two conditional theorems, one by one.

## Plan

What is left, most important first:

1. Composition of page and refresh engine over the same items: the server of
   `Dashboard` as the latest time of the items of `Poller`, whose steps to check
   are those of single upserts.
2. `PutGroupsAccepted` and `CallKeyKept`, violated by their runs, under the
   conditions that make them true, as was done for `AdminWriteNotOverwritten`.
3. `DashboardSummary`: what `GetDashboard` computes of rows and items
   (placeholders, totals, the two statements outside a transaction).
4. Statuses of sub2api channel monitors, which are the upstream's word.

Abstract specifications worth stating beyond `RefreshContract`: an atomic
register for the stored secret, of which `TokenRotation` is *not* an
implementation (run `rotation_overwrites` is the reason).

## Not modelled

Login tokens (`auth`): stateless. AES-GCM (`crypto`): a library; a box that
opens to what was put in it. Configuration and packaging. Presentation: login
view, sparkline, styles, and of the dialog all but its credentials. Parsing of
what upstreams answer (numbers, names of fields, scaling of a balance),
redaction of errors, latencies. What `GetDashboard` computes, the trend it takes from `check_logs` among it
(`store.go:466`). Config snapshots: written and never read by the program. `poll_interval_seconds` of an upstream is stored
and never used by the poller, which has one interval.

