------------------------------- MODULE Poller -------------------------------
(***************************************************************************)
(* The refresh engine of Xi_monitor: package poller, the HTTP handlers     *)
(* that start refreshes, and the rows of PostgreSQL a refresh writes.      *)
(*                                                                         *)
(* Goroutines are slots.  Slot <<c, u>> is the goroutine in which caller c *)
(* executes Poller.RefreshUpstream for upstream u.  Callers are            *)
(*   Runs      goroutines of Poller.RefreshAll; one child per upstream,    *)
(*   Requests  HTTP handlers that start `go RefreshUpstream' and return,   *)
(*             or, for POST /upstreams/:id/test, wait for it.              *)
(* Between two steps of a slot any other slot, the administrator or a      *)
(* shutdown may act.  Secrets, groups and ratios are not data this module  *)
(* tells apart: modules TokenRotation and GroupItems have them.            *)
(*                                                                         *)
(* An operator X_Fault is X with a bug its name tells; it stands before X  *)
(* and nothing here uses it.  PROJECT.json pairs it with the property that *)
(* notices the bug.                                                        *)
(***************************************************************************)
EXTENDS Integers, FiniteSets

CONSTANTS
    Upstreams,     \* identities (BIGSERIAL ids: never used twice)
    Keys,          \* what an upstream may report: (group, type, external id)
    Reported,      \* the statuses a fetch that returns no error may give an item
    Runs,          \* slots for RefreshAll goroutines
    Requests,      \* slots for HTTP handlers
    MaxTime,       \* bound: the clock stops there
    MaxRestarts,   \* bound: number of process restarts
    StoreFails     \* the calls of the store that may fail at any time

Callers == Runs \cup Requests

\* The calls of the store that a refresh makes, and the insertion into check_logs
\* by which UpsertMonitorItem ends.
StoreCalls == {"ListEnabledUpstreams", "GetUpstream", "UpdateUpstreamSecret",
               "check_logs", "SetUpstreamPollResult", "RecordUpstreamCheckFailure"}

ASSUME CallersAssumption == Runs \cap Requests = {}

\* In the code: available, unavailable, unknown (no key to call with) and error (the
\* call of the key failed).  Only error has a meaning here.
ASSUME StatusAssumption == "error" \in Reported /\ "none" \notin Reported

ASSUME BoundsAssumption ==
    /\ MaxTime \in Nat \ {0}
    /\ MaxRestarts \in Nat
    /\ StoreFails \subseteq StoreCalls

VARIABLES
    running,    \* Poller.running: the upstreams whose guard is taken
    lastAll,    \* Poller.lastAll
    runs,       \* the goroutines of RefreshAll
    task,       \* the executions of RefreshUpstream
    upstreams,  \* table upstreams
    items,      \* table monitor_items
    now,        \* the wall clock
    ctxDone,    \* SIGTERM seen: the context of main is cancelled
    restarts    \* number of restarts so far (for the bound)

vars == <<running, lastAll, runs, task, upstreams, items, now, ctxDone, restarts>>

tables  == <<upstreams, items>>
process == <<now, ctxDone, restarts>>

-----------------------------------------------------------------------------
Never == 0                      \* NULL in a timestamp column
Time  == Never .. MaxTime

NoItem == [status |-> "none", at |-> Never, failed |-> FALSE]

\* failed: written by RecordUpstreamCheckFailure, whose message the row bears, not
\* by the upsert of a reported item.
Item == [status: Reported, at: Time, failed: BOOLEAN] \cup {NoItem}

UpstreamRow == [state: {"unborn", "live", "deleted"}, enabled: BOOLEAN,
                polledAt: Time, lastError: BOOLEAN]

RunRecord == [pc: {"idle", "listing", "waiting", "finishing"}, bg: BOOLEAN,
              startedAt: Time, listed: SUBSET Upstreams,
              skipped: SUBSET Upstreams, errs: BOOLEAN]

\* The control points of RefreshUpstream at which the guard is held.
Holding == {"started", "fetching", "saving", "upserting", "publishing",
            "recording", "failing", "releasing"}

TaskPC == Holding \cup {"idle", "spawned", "returned"}

TaskRecord == [pc: TaskPC, at: Time, fetchedAt: Time,
               todo: [Keys -> Reported \cup {"none"}], err: BOOLEAN]

AllStatus == [running: BOOLEAN,
              message: {"", "refreshing", "completed", "failed"}]

NoRun  == [pc |-> "idle", bg |-> FALSE, startedAt |-> Never,
           listed |-> {}, skipped |-> {}, errs |-> FALSE]

NoTask == [pc |-> "idle", at |-> Never, fetchedAt |-> Never,
           todo |-> [k \in Keys |-> "none"], err |-> FALSE]

\* An id not yet given, or whose row is deleted.
NoRow(state) == [state |-> state, enabled |-> FALSE, polledAt |-> Never,
                 lastError |-> FALSE]

\* The row a reported item becomes.
ItemOf(t, k) == [status |-> t.todo[k], at |-> t.fetchedAt, failed |-> FALSE]

TypeOK ==
    /\ running \in SUBSET Upstreams
    /\ lastAll \in AllStatus
    /\ runs \in [Runs -> RunRecord]
    /\ task \in [Callers -> [Upstreams -> TaskRecord]]
    /\ upstreams \in [Upstreams -> UpstreamRow]
    /\ items \in [Upstreams -> [Keys -> Item]]
    /\ now \in 1 .. MaxTime
    /\ ctxDone \in BOOLEAN
    /\ restarts \in 0 .. MaxRestarts

Init ==
    /\ running = {}
    /\ lastAll = [running |-> FALSE, message |-> ""]
    /\ runs = [r \in Runs |-> NoRun]
    /\ task = [c \in Callers |-> [u \in Upstreams |-> NoTask]]
    /\ upstreams = [u \in Upstreams |-> NoRow("unborn")]
    /\ items = [u \in Upstreams |-> [k \in Keys |-> NoItem]]
    /\ now = 1
    /\ ctxDone = FALSE
    /\ restarts = 0

-----------------------------------------------------------------------------
(* Which calls may fail.  RefreshAll from the ticker carries the context   *)
(* of main, every HTTP handler passes context.Background(); a cancelled    *)
(* context makes every call on the pool and every HTTP request fail.       *)

Cancelled(c) == ctxDone /\ c \in Runs /\ ~runs[c].bg
MayFail(call) == call \in StoreFails \/ ctxDone
MaySucceed(c) == ~Cancelled(c)

Live(u) == upstreams[u].state = "live"

At(c, u, pc) == task[c][u].pc = pc

\* Slot <<c, u>> moves on; f changes the rest of its record.
Goto(c, u, t) == task' = [task EXCEPT ![c][u] = t]

-----------------------------------------------------------------------------
(* RefreshAll                                                              *)

RefreshAll_NotSingle(r, bg) ==
    /\ runs[r].pc = "idle"
    /\ lastAll' = [running |-> TRUE, message |-> "refreshing"]
    /\ runs' = [runs EXCEPT ![r] = [NoRun EXCEPT !.pc = "listing", !.bg = bg,
                                                 !.startedAt = now]]
    /\ UNCHANGED <<running, task, tables, process>>

\* Poller.RefreshAll: called by the ticker with the context of main
\* (bg = FALSE) or by POST /dashboard/refresh with a background context.
\* While lastAll.Running it returns the status and changes nothing.
RefreshAll(r, bg) ==
    /\ ~lastAll.running
    /\ runs[r].pc = "idle"
    /\ lastAll' = [running |-> TRUE, message |-> "refreshing"]
    /\ runs' = [runs EXCEPT ![r] = [NoRun EXCEPT !.pc = "listing", !.bg = bg,
                                                 !.startedAt = now]]
    /\ UNCHANGED <<running, task, tables, process>>

ListOK_Disabled(r) ==
    /\ runs[r].pc = "listing"
    /\ MaySucceed(r)
    /\ LET listed == {u \in Upstreams : Live(u) /\ ~upstreams[u].enabled} IN
         /\ runs' = [runs EXCEPT ![r].pc = "waiting", ![r].listed = listed]
         /\ task' = [task EXCEPT ![r] = [u \in Upstreams |->
                        IF u \in listed THEN [NoTask EXCEPT !.pc = "spawned"]
                                        ELSE NoTask]]
    /\ UNCHANGED <<running, lastAll, tables, process>>

\* ListEnabledUpstreams, then one goroutine per enabled upstream.
ListOK(r) ==
    /\ runs[r].pc = "listing"
    /\ MaySucceed(r)
    /\ LET listed == {u \in Upstreams : Live(u) /\ upstreams[u].enabled} IN
         /\ runs' = [runs EXCEPT ![r].pc = "waiting", ![r].listed = listed]
         /\ task' = [task EXCEPT ![r] = [u \in Upstreams |->
                        IF u \in listed THEN [NoTask EXCEPT !.pc = "spawned"]
                                        ELSE NoTask]]
    /\ UNCHANGED <<running, lastAll, tables, process>>

ListError(r) ==
    /\ runs[r].pc = "listing"
    /\ MayFail("ListEnabledUpstreams")
    /\ runs' = [runs EXCEPT ![r].pc = "finishing", ![r].errs = TRUE]
    /\ UNCHANGED <<running, lastAll, task, tables, process>>

WaitDone_NoWait(r) ==
    /\ runs[r].pc = "waiting"
    /\ runs' = [runs EXCEPT ![r].pc = "finishing"]
    /\ UNCHANGED <<running, lastAll, task, tables, process>>

\* wg.Wait returns once every child has returned.
WaitDone(r) ==
    /\ runs[r].pc = "waiting"
    /\ \A u \in Upstreams : At(r, u, "idle")
    /\ runs' = [runs EXCEPT ![r].pc = "finishing"]
    /\ UNCHANGED <<running, lastAll, task, tables, process>>

PublishAll_KeepsRunning(r) ==
    /\ runs[r].pc = "finishing"
    /\ lastAll' = [lastAll EXCEPT !.message = "failed"]
    /\ runs' = [runs EXCEPT ![r] = NoRun]
    /\ UNCHANGED <<running, task, tables, process>>

\* lastAll = finished, with "completed" or the joined errors.
PublishAll(r) ==
    /\ runs[r].pc = "finishing"
    /\ lastAll' = [running |-> FALSE,
                   message |-> IF runs[r].errs THEN "failed" ELSE "completed"]
    /\ runs' = [runs EXCEPT ![r] = NoRun]
    /\ UNCHANGED <<running, task, tables, process>>

-----------------------------------------------------------------------------
(* RefreshUpstream, one action per call that reads or writes shared state. *)

TryStart_NoGuard(c, u) ==
    /\ At(c, u, "spawned")
    /\ Goto(c, u, [task[c][u] EXCEPT !.pc = "started"])
    /\ running' = running \cup {u}
    /\ UNCHANGED <<runs, lastAll, tables, process>>

\* tryStart: take the guard, or return nil at once when it is taken.
TryStart(c, u) ==
    /\ At(c, u, "spawned")
    /\ IF u \in running
       THEN /\ Goto(c, u, [task[c][u] EXCEPT !.pc = "returned"])
            /\ runs' = IF c \in Runs
                       THEN [runs EXCEPT ![c].skipped = @ \cup {u}] ELSE runs
            /\ UNCHANGED running
       ELSE /\ Goto(c, u, [task[c][u] EXCEPT !.pc = "started"])
            /\ running' = running \cup {u}
            /\ UNCHANGED runs
    /\ UNCHANGED <<lastAll, tables, process>>

Load_LateClock(c, u) ==
    /\ At(c, u, "started")
    /\ Live(u) /\ MaySucceed(c)
    /\ Goto(c, u, [task[c][u] EXCEPT !.pc = "fetching", !.at = now + MaxTime])
    /\ UNCHANGED <<running, lastAll, runs, tables, process>>

Load_LeaksGuard(c, u) ==
    /\ At(c, u, "started")
    /\ \/ /\ Live(u) /\ MaySucceed(c)
          /\ Goto(c, u, [task[c][u] EXCEPT !.pc = "fetching", !.at = now])
       \/ /\ ~Live(u) \/ MayFail("GetUpstream")
          /\ Goto(c, u, [task[c][u] EXCEPT !.pc = "returned", !.at = now, !.err = TRUE])
    /\ UNCHANGED <<running, lastAll, runs, tables, process>>

\* checkedAt := time.Now(), then GetUpstream; a row that cannot be read ends
\* the refresh and nothing is recorded.
Load(c, u) ==
    /\ At(c, u, "started")
    /\ \/ /\ Live(u) /\ MaySucceed(c)
          /\ Goto(c, u, [task[c][u] EXCEPT !.pc = "fetching", !.at = now])
       \/ /\ ~Live(u) \/ MayFail("GetUpstream")
          /\ Goto(c, u, [task[c][u] EXCEPT !.pc = "releasing", !.at = now,
                                           !.err = TRUE])
    /\ UNCHANGED <<running, lastAll, runs, tables, process>>

\* Decrypt, ResolveAuth and Fetch succeed: the upstream reports some of its
\* items, all stamped with the time of the fetch, and may have rotated its
\* token.
FetchOK(c, u) ==
    /\ At(c, u, "fetching")
    /\ MaySucceed(c)
    /\ \E report \in [Keys -> Reported \cup {"none"}], rotated \in BOOLEAN :
         Goto(c, u, [task[c][u] EXCEPT
                       !.pc = IF rotated THEN "saving" ELSE "upserting",
                       !.todo = report, !.fetchedAt = now])
    /\ UNCHANGED <<running, lastAll, runs, tables, process>>

\* Decrypt, ResolveAuth or Fetch fails: a bad key, the upstream is down, it
\* answers with an error, or the HTTP client gives up after 45 seconds.
FetchError(c, u) ==
    /\ At(c, u, "fetching")
    /\ Goto(c, u, [task[c][u] EXCEPT !.pc = "recording", !.err = TRUE])
    /\ UNCHANGED <<running, lastAll, runs, tables, process>>

\* UpdateUpstreamSecret; no row is ErrNotFound.
SaveSecret(c, u) ==
    /\ At(c, u, "saving")
    /\ \/ /\ Live(u) /\ MaySucceed(c)
          /\ Goto(c, u, [task[c][u] EXCEPT !.pc = "upserting"])
       \/ /\ ~Live(u) \/ MayFail("UpdateUpstreamSecret")
          /\ Goto(c, u, [task[c][u] EXCEPT !.pc = "recording", !.err = TRUE])
    /\ UNCHANGED <<running, lastAll, runs, tables, process>>

UpsertItem_NoForeignKey(c, u, k) ==
    /\ At(c, u, "upserting")
    /\ task[c][u].todo[k] # "none"
    /\ MaySucceed(c)
    /\ items' = [items EXCEPT ![u][k] = ItemOf(task[c][u], k)]
    /\ Goto(c, u, [task[c][u] EXCEPT !.todo[k] = "none"])
    /\ UNCHANGED <<running, lastAll, runs, upstreams, process>>

\* UpsertMonitorItem of one reported item.  A deleted upstream violates the
\* foreign key; a value may not fit its column whatever the store's health.
UpsertItem(c, u, k) ==
    /\ At(c, u, "upserting")
    /\ task[c][u].todo[k] # "none"
    /\ Live(u) /\ MaySucceed(c)
    /\ items' = [items EXCEPT ![u][k] = ItemOf(task[c][u], k)]
    /\ Goto(c, u, [task[c][u] EXCEPT !.todo[k] = "none"])
    /\ UNCHANGED <<running, lastAll, runs, upstreams, process>>

\* The row cannot be written, or it is written and its check_logs row is not.
UpsertError(c, u, k) ==
    /\ At(c, u, "upserting")
    /\ task[c][u].todo[k] # "none"
    /\ \/ UNCHANGED items
       \/ /\ Live(u) /\ MaySucceed(c) /\ MayFail("check_logs")
          /\ items' = [items EXCEPT ![u][k] = ItemOf(task[c][u], k)]
    /\ Goto(c, u, [task[c][u] EXCEPT !.pc = "recording", !.err = TRUE,
                                     !.fetchedAt = Never, !.todo = NoTask.todo])
    /\ UNCHANGED <<running, lastAll, runs, upstreams, process>>

\* The loop over the items ends.
UpsertsDone(c, u) ==
    /\ At(c, u, "upserting")
    /\ \A k \in Keys : task[c][u].todo[k] = "none"
    /\ Goto(c, u, [task[c][u] EXCEPT !.pc = "publishing", !.fetchedAt = Never])
    /\ UNCHANGED <<running, lastAll, runs, tables, process>>

\* SetUpstreamPollResult: no row is not an error and changes nothing.
SetUpstreamPollResult(u, at, failed) ==
    upstreams' = IF Live(u)
                 THEN [upstreams EXCEPT ![u].polledAt = at, ![u].lastError = failed]
                 ELSE upstreams

\* The last statement of RefreshUpstream returns this call's error.
PublishResult(c, u) ==
    /\ At(c, u, "publishing")
    /\ \/ /\ MaySucceed(c)
          /\ SetUpstreamPollResult(u, task[c][u].at, FALSE)
          /\ Goto(c, u, [task[c][u] EXCEPT !.pc = "releasing"])
       \/ /\ MayFail("SetUpstreamPollResult")
          /\ Goto(c, u, [task[c][u] EXCEPT !.pc = "releasing", !.err = TRUE])
          /\ UNCHANGED upstreams
    /\ UNCHANGED <<running, lastAll, runs, items, process>>

RecordError_Restamps(c, u) ==
    /\ At(c, u, "recording")
    /\ \/ /\ MaySucceed(c)
          /\ SetUpstreamPollResult(u, now, TRUE)
       \/ /\ MayFail("SetUpstreamPollResult")
          /\ UNCHANGED upstreams
    /\ Goto(c, u, [task[c][u] EXCEPT !.pc = "failing"])
    /\ UNCHANGED <<running, lastAll, runs, items, process>>

\* recordRefreshError, first call; its own failure is ignored.
RecordError(c, u) ==
    /\ At(c, u, "recording")
    /\ \/ /\ MaySucceed(c)
          /\ SetUpstreamPollResult(u, task[c][u].at, TRUE)
       \/ /\ MayFail("SetUpstreamPollResult")
          /\ UNCHANGED upstreams
    /\ Goto(c, u, [task[c][u] EXCEPT !.pc = "failing"])
    /\ UNCHANGED <<running, lastAll, runs, items, process>>

\* RecordUpstreamCheckFailure: every existing row of the upstream, with the
\* time at which the refresh began.
FailedItems(its, at) ==
    [k \in Keys |-> IF its[k] = NoItem THEN NoItem
                    ELSE [status |-> "error", at |-> at, failed |-> TRUE]]

RecordItemFailure_Missing(c, u) ==
    /\ At(c, u, "failing")
    /\ Goto(c, u, [task[c][u] EXCEPT !.pc = "releasing"])
    /\ UNCHANGED <<running, lastAll, runs, tables, process>>

\* recordRefreshError, second call (a transaction of its own).
RecordItemFailure(c, u) ==
    /\ At(c, u, "failing")
    /\ \/ /\ MaySucceed(c)
          /\ items' = [items EXCEPT ![u] = FailedItems(@, task[c][u].at)]
       \/ /\ MayFail("RecordUpstreamCheckFailure")
          /\ UNCHANGED items
    /\ Goto(c, u, [task[c][u] EXCEPT !.pc = "releasing"])
    /\ UNCHANGED <<running, lastAll, runs, upstreams, process>>

Finish_KeepsGuard(c, u) ==
    /\ At(c, u, "releasing")
    /\ Goto(c, u, [task[c][u] EXCEPT !.pc = "returned"])
    /\ UNCHANGED <<running, lastAll, runs, tables, process>>

\* The deferred finish.
Finish(c, u) ==
    /\ At(c, u, "releasing")
    /\ running' = running \ {u}
    /\ Goto(c, u, [task[c][u] EXCEPT !.pc = "returned"])
    /\ UNCHANGED <<lastAll, runs, tables, process>>

\* The caller takes the result: a run appends the error and signals its
\* WaitGroup, testUpstream answers, a bare goroutine ends.
Return(c, u) ==
    /\ At(c, u, "returned")
    /\ Goto(c, u, NoTask)
    /\ runs' = IF c \in Runs
               THEN [runs EXCEPT ![c].errs = @ \/ task[c][u].err] ELSE runs
    /\ UNCHANGED <<running, lastAll, tables, process>>

-----------------------------------------------------------------------------
(* The administrator, through the HTTP handlers                            *)

\* createUpstream: the row, then `go RefreshUpstream', enabled or not.
CreateUpstream(c, u) ==
    /\ \A v \in Upstreams : At(c, v, "idle")
    /\ upstreams[u].state = "unborn"
    /\ \E enabled \in BOOLEAN :
         upstreams' = [upstreams EXCEPT ![u].state = "live", ![u].enabled = enabled]
    /\ Goto(c, u, [NoTask EXCEPT !.pc = "spawned"])
    /\ UNCHANGED <<running, lastAll, runs, items, process>>

\* refreshUpstream, refreshItem and testUpstream take any id.
RequestRefresh(c, u) ==
    /\ \A v \in Upstreams : At(c, v, "idle")
    /\ Goto(c, u, [NoTask EXCEPT !.pc = "spawned"])
    /\ UNCHANGED <<running, lastAll, runs, tables, process>>

\* updateUpstream, as far as this module is concerned: the enabled flag.
UpdateUpstream(u) ==
    /\ Live(u)
    /\ upstreams' = [upstreams EXCEPT ![u].enabled = ~@]
    /\ UNCHANGED <<running, lastAll, runs, task, items, process>>

\* deleteUpstream; the items go with it (ON DELETE CASCADE).
DeleteUpstream(u) ==
    /\ Live(u)
    /\ upstreams' = [upstreams EXCEPT ![u] = NoRow("deleted")]
    /\ items' = [items EXCEPT ![u] = [k \in Keys |-> NoItem]]
    /\ UNCHANGED <<running, lastAll, runs, task, process>>

-----------------------------------------------------------------------------
(* Time and the process                                                    *)

Advance ==
    /\ now < MaxTime
    /\ now' = now + 1
    /\ UNCHANGED <<running, lastAll, runs, task, tables, ctxDone, restarts>>

\* SIGTERM: the context of main is cancelled.  The server drains; goroutines
\* nobody waits for go on until the process exits.
Shutdown ==
    /\ ~ctxDone
    /\ restarts < MaxRestarts
    /\ ctxDone' = TRUE
    /\ UNCHANGED <<running, lastAll, runs, task, tables, now, restarts>>

\* main returns or the process dies, at any point, and is started again.
\* Only the tables survive.
Restart ==
    /\ restarts < MaxRestarts
    /\ restarts' = restarts + 1
    /\ ctxDone' = FALSE
    /\ running' = {}
    /\ lastAll' = [running |-> FALSE, message |-> ""]
    /\ runs' = [r \in Runs |-> NoRun]
    /\ task' = [c \in Callers |-> [u \in Upstreams |-> NoTask]]
    /\ UNCHANGED <<tables, now>>

-----------------------------------------------------------------------------
RunStep(r) == ListOK(r) \/ ListError(r) \/ WaitDone(r) \/ PublishAll(r)

TaskStep(c, u) ==
    \/ TryStart(c, u) \/ Load(c, u) \/ FetchOK(c, u) \/ FetchError(c, u)
    \/ SaveSecret(c, u)
    \/ \E k \in Keys : UpsertItem(c, u, k) \/ UpsertError(c, u, k)
    \/ UpsertsDone(c, u) \/ PublishResult(c, u)
    \/ RecordError(c, u) \/ RecordItemFailure(c, u)
    \/ Finish(c, u) \/ Return(c, u)

Tick == \E r \in Runs : RefreshAll(r, FALSE)

Next ==
    \/ Tick
    \/ \E r \in Runs : RefreshAll(r, TRUE) \/ RunStep(r)
    \/ \E c \in Callers, u \in Upstreams : TaskStep(c, u)
    \/ \E c \in Requests, u \in Upstreams : CreateUpstream(c, u)
    \/ \E c \in Requests, u \in Upstreams : RequestRefresh(c, u)
    \/ \E u \in Upstreams : UpdateUpstream(u) \/ DeleteUpstream(u)
    \/ Advance \/ Shutdown \/ Restart

Spec == Init /\ [][Next]_vars

\* Goroutines are scheduled, PostgreSQL answers and every HTTP exchange ends
\* within the client's 45 seconds; the ticker keeps ticking; a process told to
\* stop does.
Fairness ==
    /\ \A r \in Runs : WF_vars(RunStep(r))
    /\ \A c \in Callers, u \in Upstreams : WF_vars(TaskStep(c, u))
    /\ WF_vars(Tick)
    /\ WF_vars(ctxDone /\ Restart)

FairSpec == Spec /\ Fairness

-----------------------------------------------------------------------------
(* Safety                                                                  *)

Active(c, u) == task[c][u].pc \in Holding

\* At any time at most one refresh works on an upstream, whoever asked for it
\* (tryStart; docs/01-architecture.md:152).
OneRefreshPerUpstream ==
    \A u \in Upstreams : \A c, d \in Callers :
        Active(c, u) /\ Active(d, u) => c = d

\* A guard is never leaked: whenever it is taken some refresh that will give
\* it back is under way, on every early return of RefreshUpstream too.  A
\* leaked guard would make every later refresh return nil until a restart.
GuardHasHolder ==
    \A u \in Upstreams : u \in running <=> \E c \in Callers : Active(c, u)

\* RefreshAll is single-flight: lastAll says running exactly while a run
\* exists, and there is one run then, not two.
OneRunAtATime ==
    /\ \A r, s \in Runs : runs[r].pc # "idle" /\ runs[s].pc # "idle" => r = s
    /\ lastAll.running <=> \E r \in Runs : runs[r].pc # "idle"

\* What "completed" is worth.  When a run is about to report no error, each
\* upstream it listed has a poll result at least as recent as the run, or was
\* deleted, or was left to a refresh already in progress (the guard was taken).
CompletedRunCoversUpstreams ==
    \A r \in Runs : runs[r].pc = "finishing" /\ ~runs[r].errs =>
        \A u \in runs[r].listed :
            \/ ~Live(u)
            \/ u \in runs[r].skipped
            \/ upstreams[u].polledAt >= runs[r].startedAt

\* Nothing a refresh in flight still writes brings a deleted upstream back:
\* no item without its upstream.
NoOrphanItems ==
    \A u \in Upstreams : ~Live(u) => \A k \in Keys : items[u][k] = NoItem

\* What the administrator sees of an upstream that no refresh works on.  If the
\* last poll failed then every item bears that failure, with the time of that
\* poll.  If it succeeded then no item bears a failure from a later time: what
\* else an item says, an error of its own call included, is what a fetch reported.
Agree(u) ==
    Live(u) => \A k \in Keys :
        IF upstreams[u].lastError
        THEN items[u][k] # NoItem =>
                 /\ items[u][k].failed
                 /\ items[u][k].at = upstreams[u].polledAt
        ELSE items[u][k].failed => items[u][k].at <= upstreams[u].polledAt

\* The two statements that publish the result of a refresh do not fail.
ResultsAreStored ==
    StoreFails \cap {"SetUpstreamPollResult", "RecordUpstreamCheckFailure"} = {}

\* Rows and items agree between refreshes, whichever of the other statements
\* fails after whichever items are written, as long as the result itself can be
\* stored and the process has not been told to stop or been restarted
\* (poller_test.go:51-86 checks one failure).
QuietUpstreamsAgree ==
    ResultsAreStored /\ ~ctxDone /\ restarts = 0 =>
        \A u \in Upstreams : u \notin running => Agree(u)

-----------------------------------------------------------------------------
(* Action properties                                                       *)

\* last_polled_at of a row never goes back, however refreshes, timeouts and
\* restarts interleave: a slow refresh cannot overwrite the result of a later
\* one.
PolledAtNeverGoesBack ==
    [][\A u \in Upstreams :
         Live(u) /\ Live(u)' => upstreams'[u].polledAt >= upstreams[u].polledAt]_vars

-----------------------------------------------------------------------------
(* Liveness                                                                *)

\* A guard is always released, so no upstream stays unrefreshable.
GuardReleased == \A u \in Upstreams : u \in running ~> u \notin running

\* A global refresh ends (or the process restarts): the spinner the frontend
\* shows for lastAll.Running, and the block on the next RefreshAll, end.
RunEnds == lastAll.running ~> ~lastAll.running

\* An enabled upstream that was never polled is polled, whatever becomes of the
\* goroutine createUpstream started, unless it is disabled or deleted first.
FirstPollHappens ==
    \A u \in Upstreams :
        Live(u) /\ upstreams[u].enabled /\ upstreams[u].polledAt = Never
            ~> ~Live(u) \/ ~upstreams[u].enabled \/ upstreams[u].polledAt # Never

\* A restart in the middle of a refresh leaves rows and items that disagree;
\* the refreshes that follow repair them.
DisagreementRepaired ==
    \A u \in Upstreams :
        []<>(~Live(u) \/ ~upstreams[u].enabled \/ (u \notin running /\ Agree(u)))

-----------------------------------------------------------------------------
(* Refinement                                                              *)

\* The refresh that holds the guard of u.
Holder(u) == CHOOSE c \in Callers : Active(c, u)

PhaseOf(pc) ==
    CASE pc = "started" -> "taken"
      [] pc \in {"failing", "releasing"} -> "closing"
      [] OTHER -> "stamped"

GuardPhase == [u \in Upstreams |->
                 IF u \in running THEN PhaseOf(task[Holder(u)][u].pc) ELSE "free"]

GuardStamp == [u \in Upstreams |->
                 IF u \in running THEN task[Holder(u)][u].at ELSE Never]

PublishedRow == [u \in Upstreams |->
                   [live |-> Live(u), polledAt |-> upstreams[u].polledAt,
                    lastError |-> upstreams[u].lastError]]

Contract == INSTANCE RefreshContract WITH
    phase <- GuardPhase, stamp <- GuardStamp, row <- PublishedRow

\* However many refreshes are asked for, fail, are skipped or are cut off by a
\* restart, a reader of last_polled_at and last_error sees one refresh of the
\* upstream after the other, each publishing at most one result, stamped with
\* the time it began.
ImplementsContract == Contract!Spec
=============================================================================
