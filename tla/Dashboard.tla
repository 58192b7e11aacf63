----------------------------- MODULE Dashboard -----------------------------
(***************************************************************************)
(* The page of DashboardView.vue: the table it shows, the refreshes the    *)
(* user starts in it, the polls that wait for their results, and the       *)
(* spinners.  Everything runs in one thread and is cut at the awaits: user *)
(* events, timers, and answers of the server arrive in any order, answers  *)
(* of different requests overtake each other.                              *)
(*                                                                         *)
(* Of the server the page sees, for each upstream, the latest check its    *)
(* items tell of (latestCheckedAtForUpstream); an upstream without items   *)
(* has one of its own, the placeholder of GetDashboard.  An item bears the *)
(* time of its fetch or, after a failure, that at which the refresh began, *)
(* so this time may go back as well as forth.  And that a refresh was      *)
(* asked for does not promise a result: it may already be running, fail to *)
(* be written, or be lost with the process.                                *)
(*                                                                         *)
(* An operator X_Fault is X with a bug its name tells; nothing uses it.    *)
(***************************************************************************)
EXTENDS Integers

CONSTANTS
    Upstreams,
    MaxClicks,     \* bound: the refreshes and ratios the user asks for
    MaxAttempts,   \* maxAttempts
    MaxTime        \* bound: times of checks

ASSUME DashboardAssumption ==
    /\ MaxClicks \in Nat
    /\ MaxAttempts \in Nat \ {0}
    /\ MaxTime \in Nat

VARIABLES
    server,          \* the latest check of each upstream, as the server would tell
    shown,           \* the same, as dashboard.items tells
    known,           \* upstreams.value
    refreshing,      \* refreshing.value
    refreshingRows,  \* refreshingRows.value
    runId,           \* refreshPollRunId
    click,           \* the handlers refreshAll, refreshRow, editRatio and their polls
    load             \* the calls of loadDashboard under way

spinners == <<refreshing, refreshingRows>>
page == <<shown, known, spinners, runId, click, load>>
vars == <<server, page>>

-----------------------------------------------------------------------------
NoCheck  == 0     \* listed, not checked, or not since the page was opened
Unlisted == -1
Times    == NoCheck .. MaxTime
Checks   == [Upstreams -> Times \cup {Unlisted}]

\* The handlers, in the order of their clicks, and the loads: one at a time for each
\* handler, and one at a time that no click waits for (interval, deletion, dialog).
Clicks     == 1 .. MaxClicks
Background == 0
Loads      == Clicks \cup {Background}

\* all: the handler is refreshAll.  base: baselines; ids: its domain.  run: the runId
\* of scheduleRefreshPolling.
Click == [pc: {"none", "saving", "reloading", "posting", "timer", "polling", "over"},
          all: BOOLEAN, ids: SUBSET Upstreams, base: [Upstreams -> Times],
          run: Nat, attempts: 0 .. MaxAttempts]

NoClick == [pc |-> "none", all |-> FALSE, ids |-> {},
            base |-> [u \in Upstreams |-> NoCheck], run |-> 0, attempts |-> 0]

\* A handler that is over keeps nothing.
Over == [NoClick EXCEPT !.pc = "over"]

Load == [pc: {"none", "asked", "answered", "failed"}, items: Checks]

NothingListed == [u \in Upstreams |-> Unlisted]
NoLoad == [pc |-> "none", items |-> NothingListed]

Listed(checks) == {u \in Upstreams : checks[u] # Unlisted}

TypeOK ==
    /\ server \in Checks
    /\ shown \in Checks
    /\ known \in SUBSET Upstreams
    /\ refreshing \in BOOLEAN
    /\ refreshingRows \in SUBSET Upstreams
    /\ runId \in Nat
    /\ click \in [Clicks -> Click]
    /\ load \in [Loads -> Load]

Init ==
    /\ server \in [Upstreams -> {NoCheck, Unlisted}]
    /\ shown = NothingListed
    /\ known = {}
    /\ refreshing = FALSE
    /\ refreshingRows = {}
    /\ runId = 0
    /\ click = [c \in Clicks |-> NoClick]
    /\ load = [l \in Loads |-> NoLoad]

-----------------------------------------------------------------------------
(* The server.                                                             *)

\* UpsertMonitorItem, RecordUpstreamCheckFailure, or the first item in the place of
\* the placeholder: a later time or an earlier one, that of a failed refresh which
\* began before the page was opened too.
Check(u) ==
    /\ server[u] # Unlisted
    /\ \E t \in Times : server' = [server EXCEPT ![u] = t]

Add(u) ==
    /\ server[u] = Unlisted
    /\ server' = [server EXCEPT ![u] = NoCheck]

Remove(u) ==
    /\ server[u] # Unlisted
    /\ server' = [server EXCEPT ![u] = Unlisted]

ServerStep == \E u \in Upstreams : Check(u) \/ Add(u) \/ Remove(u)

Serve == ServerStep /\ UNCHANGED page

-----------------------------------------------------------------------------
(* loadDashboard.                                                          *)
Ask(l) == [load EXCEPT ![l] = [pc |-> "asked", items |-> NothingListed]]

\* The answer is made now and may arrive late.
Answer(l) ==
    /\ load[l].pc = "asked"
    /\ load' = [load EXCEPT ![l] = [pc |-> "answered", items |-> server]]
    /\ UNCHANGED <<server, shown, known, spinners, runId, click>>

AnswerFails(l) ==
    /\ load[l].pc = "asked"
    /\ load' = [load EXCEPT ![l].pc = "failed"]
    /\ UNCHANGED <<server, shown, known, spinners, runId, click>>

\* An error empties the table; a list of upstreams that fails is kept.
Deliver(l) ==
    /\ load[l].pc \in {"answered", "failed"}
    /\ shown' = load[l].items
    /\ known' \in IF load[l].pc = "failed" THEN {known} ELSE {known, Listed(load[l].items)}
    /\ load' = [load EXCEPT ![l] = NoLoad]

BackgroundLoad_Never == FALSE /\ UNCHANGED vars

BackgroundLoad ==
    /\ load[Background].pc = "none"
    /\ load' = Ask(Background)
    /\ UNCHANGED <<server, shown, known, spinners, runId, click>>

BackgroundDeliver ==
    /\ Deliver(Background)
    /\ UNCHANGED <<server, spinners, runId, click>>

-----------------------------------------------------------------------------
(* The handlers.                                                           *)
latestCheckedAtForUpstream(table, u) == IF table[u] = Unlisted THEN NoCheck ELSE table[u]

captureRefreshBaselines_Unlisted(table, ids) ==
    [u \in Upstreams |-> IF u \in ids THEN table[u] ELSE NoCheck]

captureRefreshBaselines(table, ids) ==
    [u \in Upstreams |-> IF u \in ids THEN latestCheckedAtForUpstream(table, u) ELSE NoCheck]

IsNext(c) == \A d \in Clicks : click[d].pc = "none" <=> d >= c

\* The baselines are taken before the request is sent.
RefreshAll(c) ==
    /\ IsNext(c)
    /\ ~refreshing
    /\ refreshing' = TRUE
    /\ LET ids == Listed(shown) \cup known IN
       click' = [click EXCEPT ![c].pc = "posting", ![c].all = TRUE, ![c].ids = ids,
                              ![c].base = captureRefreshBaselines(shown, ids)]
    /\ UNCHANGED <<server, shown, known, refreshingRows, runId, load>>

RefreshRow(c, u) ==
    /\ IsNext(c)
    /\ u \in Listed(shown) \ refreshingRows
    /\ refreshingRows' = refreshingRows \cup {u}
    /\ click' = [click EXCEPT ![c].pc = "posting", ![c].ids = {u},
                              ![c].base = captureRefreshBaselines(shown, {u})]
    /\ UNCHANGED <<server, shown, known, refreshing, runId, load>>

EditRatio(c, u) ==
    /\ IsNext(c)
    /\ u \in Listed(shown)
    /\ click' = [click EXCEPT ![c].pc = "saving", ![c].ids = {u}]
    /\ UNCHANGED <<server, shown, known, spinners, runId, load>>

RatioSaved(c) ==
    /\ click[c].pc = "saving"
    /\ click' = [click EXCEPT ![c].pc = "reloading"]
    /\ load' = Ask(c)
    /\ UNCHANGED <<server, shown, known, spinners, runId>>

RatioRefused(c) ==
    /\ click[c].pc = "saving"
    /\ click' = [click EXCEPT ![c] = Over]
    /\ refreshingRows' = refreshingRows \ click[c].ids
    /\ UNCHANGED <<server, shown, known, refreshing, runId, load>>

\* The baseline of a ratio is taken from the table just loaded.
RatioReloaded(c) ==
    /\ click[c].pc = "reloading"
    /\ Deliver(c)
    /\ refreshingRows' = refreshingRows \cup click[c].ids
    /\ click' = [click EXCEPT ![c].pc = "posting",
                              ![c].base = captureRefreshBaselines(shown', click[c].ids)]
    /\ UNCHANGED <<server, refreshing, runId>>

PostFails_KeepsSpinning(c) ==
    /\ click[c].pc = "posting"
    /\ click' = [click EXCEPT ![c] = Over]
    /\ refreshingRows' = IF click[c].all THEN {} ELSE refreshingRows \ click[c].ids
    /\ UNCHANGED <<server, shown, known, refreshing, runId, load>>

PostFails(c) ==
    /\ click[c].pc = "posting"
    /\ click' = [click EXCEPT ![c] = Over]
    /\ refreshingRows' = IF click[c].all THEN {} ELSE refreshingRows \ click[c].ids
    /\ refreshing' = IF click[c].all THEN FALSE ELSE refreshing
    /\ UNCHANGED <<server, shown, known, runId, load>>

-----------------------------------------------------------------------------
(* The polls.                                                              *)
clearRefreshPollTimers_Keeps == click

clearRefreshPollTimers ==
    [c \in Clicks |-> IF click[c].pc = "timer" THEN Over ELSE click[c]]

\* scheduleRefreshPolling, called when the request was accepted.
Posted(c) ==
    /\ click[c].pc = "posting"
    /\ IF click[c].ids = {}
       THEN /\ click' = [clearRefreshPollTimers EXCEPT ![c] = Over]
            /\ refreshing' = FALSE
            /\ refreshingRows' = {}
            /\ UNCHANGED runId
       ELSE /\ runId' = runId + 1
            /\ click' = [clearRefreshPollTimers EXCEPT ![c].pc = "timer", ![c].run = runId + 1,
                                                      ![c].all = FALSE]
            /\ refreshingRows' = IF click[c].all THEN click[c].ids ELSE refreshingRows
            /\ UNCHANGED refreshing
    /\ UNCHANGED <<server, shown, known, load>>

\* poll, up to its await.
Timer(c) ==
    /\ click[c].pc = "timer"
    /\ IF click[c].run # runId
       THEN /\ click' = [click EXCEPT ![c] = Over]
            /\ UNCHANGED load
       ELSE /\ click' = [click EXCEPT ![c].pc = "polling", ![c].attempts = @ + 1]
            /\ load' = Ask(c)
    /\ UNCHANGED <<server, shown, known, spinners, runId>>

Pending(c) ==
    {u \in click[c].ids : latestCheckedAtForUpstream(shown', u) <= click[c].base[u]}

PollLoaded_AnyRun(c) ==
    /\ click[c].pc = "polling"
    /\ Deliver(c)
    /\ IF Pending(c) = {} \/ click[c].attempts >= MaxAttempts
       THEN /\ click' = [click EXCEPT ![c] = Over]
            /\ refreshing' = FALSE
            /\ refreshingRows' = {}
       ELSE /\ click' = [click EXCEPT ![c].pc = "timer"]
            /\ refreshingRows' = Pending(c)
            /\ UNCHANGED refreshing
    /\ UNCHANGED <<server, runId>>

PollLoaded_NoLimit(c) ==
    /\ click[c].pc = "polling"
    /\ Deliver(c)
    /\ IF click[c].run # runId
       THEN click' = [click EXCEPT ![c] = Over] /\ UNCHANGED spinners
       ELSE IF Pending(c) = {}
       THEN /\ click' = [click EXCEPT ![c] = Over]
            /\ refreshing' = FALSE
            /\ refreshingRows' = {}
       ELSE /\ click' = [click EXCEPT ![c].pc = "timer", ![c].attempts = 0]
            /\ refreshingRows' = Pending(c)
            /\ UNCHANGED refreshing
    /\ UNCHANGED <<server, runId>>

\* poll, from its await on.  A later schedule makes this run an old one.
PollLoaded(c) ==
    /\ click[c].pc = "polling"
    /\ Deliver(c)
    /\ IF click[c].run # runId
       THEN click' = [click EXCEPT ![c] = Over] /\ UNCHANGED spinners
       ELSE IF Pending(c) = {} \/ click[c].attempts >= MaxAttempts
       THEN /\ click' = [click EXCEPT ![c] = Over]
            /\ refreshing' = FALSE
            /\ refreshingRows' = {}
       ELSE /\ click' = [click EXCEPT ![c].pc = "timer"]
            /\ refreshingRows' = Pending(c)
            /\ UNCHANGED refreshing
    /\ UNCHANGED <<server, runId>>

-----------------------------------------------------------------------------
Handler(c) ==
    \/ RatioSaved(c) \/ RatioRefused(c) \/ RatioReloaded(c)
    \/ Posted(c) \/ PostFails(c) \/ Timer(c) \/ PollLoaded(c)

User(c) ==
    \/ RefreshAll(c)
    \/ \E u \in Upstreams : RefreshRow(c, u) \/ EditRatio(c, u)

Next ==
    \/ Serve
    \/ \E l \in Loads : Answer(l) \/ AnswerFails(l)
    \/ BackgroundLoad \/ BackgroundDeliver
    \/ \E c \in Clicks : User(c) \/ Handler(c)

\* What a load or a handler waits for: the server, the network, its timer.  There is
\* one such step at a time, and no other step takes it away.
Progress(l) ==
    \/ Answer(l) \/ AnswerFails(l)
    \/ l = Background /\ (BackgroundLoad \/ BackgroundDeliver)
    \/ l # Background /\ Handler(l)

\* Requests end, one way or the other, timers fire, the interval ticks; a load that
\* is tried for ever succeeds for ever.
Fairness ==
    /\ \A l \in Loads : WF_vars(Progress(l))
    /\ SF_vars(Answer(Background))

Spec == Init /\ [][Next]_vars /\ Fairness

-----------------------------------------------------------------------------
Current(c) == click[c].run = runId /\ click[c].pc \in {"timer", "polling"}

\* Whatever spins is waited for: there is a request under way or a poll of the latest
\* run that will turn it off, also where a newer refresh has taken the timers of an
\* older one, a request has failed, or there was nothing to wait for.
NoStuckSpinner ==
    refreshing \/ refreshingRows # {} =>
        \E c \in Clicks : click[c].pc = "posting" \/ Current(c)

\* One poll at a time: of the polls not yet cut off by a newer refresh at most one
\* exists, and a timer is always one of the latest run (clearRefreshPollTimers,
\* refreshPollRunId).
OneLivePoller ==
    /\ \A c, d \in Clicks : Current(c) /\ Current(d) => c = d
    /\ \A c \in Clicks : click[c].pc = "timer" => Current(c)

\* A poll that was cut off while it loaded leaves the spinners to the newer one.
OldRunsAreSilent ==
    [][\A c \in Clicks :
         click[c].pc = "polling" /\ click[c].run # runId /\ click'[c].pc # "polling"
            => UNCHANGED spinners]_vars

\* Every spinner stops, whether or not there ever is a result.
SpinnersStop == (refreshing \/ refreshingRows # {}) ~> (~refreshing /\ refreshingRows = {})

\* Once the server has nothing new to tell, the table agrees with it again and again,
\* although answers overtake each other and errors empty the table.
DisplayCatchesUp == <>[][FALSE]_server => []<>(shown = server)
=============================================================================
