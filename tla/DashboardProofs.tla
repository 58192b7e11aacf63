-------------------------- MODULE DashboardProofs --------------------------
(***************************************************************************)
(* Theorems about Dashboard, for any upstreams, clicks and attempts: types,*)
(* one live poller, spinners that are waited for, old runs that keep their *)
(* hands off.                                                              *)
(***************************************************************************)
EXTENDS Dashboard, TLAPS

-----------------------------------------------------------------------------
(* Types                                                                   *)

\* A poll that will start again has attempts left; a handler has made none.
AttemptsInv ==
    \A c \in Clicks :
        /\ click[c].pc = "timer" => click[c].attempts < MaxAttempts
        /\ click[c].pc \in {"none", "saving", "reloading", "posting"}
              => click[c].attempts = 0

TypeInv == TypeOK /\ AttemptsInv

LEMMA Numbers ==
    /\ MaxAttempts \in Nat /\ 0 < MaxAttempts
    /\ NoCheck \in Times /\ NoCheck \in Int
    /\ \A t \in Times : t \in Int /\ t # Unlisted
  BY DashboardAssumption DEF Times, NoCheck, Unlisted

LEMMA NullRecords == NoClick \in Click /\ Over \in Click /\ NothingListed \in Checks
<1>1. NoClick.base \in [Upstreams -> Times]
  BY Numbers DEF NoClick
<1>2. NoClick \in Click
  BY <1>1, Numbers DEF NoClick, Click
<1>3. Over \in Click
  BY <1>2 DEF Over, Click
<1>4. NothingListed \in Checks
  BY DEF NothingListed, Checks
<1>5. QED
  BY <1>2, <1>3, <1>4

\* What is asked for, answered or delivered is a load.
LEMMA LoadTypes ==
    ASSUME TypeOK, NEW l \in Loads
    PROVE  /\ Ask(l) \in [Loads -> Load]
           /\ [load EXCEPT ![l] = NoLoad] \in [Loads -> Load]
           /\ [load EXCEPT ![l] = [pc |-> "answered", items |-> server]] \in [Loads -> Load]
           /\ [load EXCEPT ![l].pc = "failed"] \in [Loads -> Load]
           /\ load[l].items \in Checks
  BY NullRecords DEF TypeOK, Ask, Load, NoLoad

LEMMA DeliverTypes ==
    ASSUME TypeOK, NEW l \in Loads, Deliver(l)
    PROVE  shown' \in Checks /\ known' \in SUBSET Upstreams /\ load' \in [Loads -> Load]
<1>1. Listed(load[l].items) \subseteq Upstreams
  BY DEF Listed
<1>2. QED
  BY <1>1, LoadTypes DEF Deliver, TypeOK

LEMMA BaselineTypes ==
    ASSUME NEW table \in Checks, NEW ids \in SUBSET Upstreams
    PROVE  /\ \A u \in Upstreams : latestCheckedAtForUpstream(table, u) \in Times
           /\ captureRefreshBaselines(table, ids) \in [Upstreams -> Times]
<1>1. \A u \in Upstreams : latestCheckedAtForUpstream(table, u) \in Times
  BY Numbers DEF latestCheckedAtForUpstream, Checks
<1>2. QED
  BY <1>1, Numbers DEF captureRefreshBaselines

\* Stopping the timers changes no other handler and leaves a handler in the place of
\* one.
LEMMA ClearedTimers ==
    ASSUME TypeOK
    PROVE  /\ clearRefreshPollTimers \in [Clicks -> Click]
           /\ \A c \in Clicks :
                IF click[c].pc = "timer" THEN clearRefreshPollTimers[c] = Over
                ELSE clearRefreshPollTimers[c] = click[c]
  BY NullRecords DEF TypeOK, clearRefreshPollTimers

LEMMA TypeInit == Init => TypeInv
<1> SUFFICES ASSUME Init PROVE TypeInv
  OBVIOUS
<1>1. server \in Checks /\ shown \in Checks
  BY Numbers, NullRecords DEF Init, Checks
<1>2. click \in [Clicks -> Click] /\ load \in [Loads -> Load]
  BY NullRecords DEF Init, Load, NoLoad
<1>3. AttemptsInv
  BY DEF Init, AttemptsInv, NoClick
<1>4. QED
  BY <1>1, <1>2, <1>3 DEF Init, TypeInv, TypeOK

LEMMA ServeTypes == TypeInv /\ Serve => TypeInv'
<1> SUFFICES ASSUME TypeInv, Serve PROVE TypeInv'
  OBVIOUS
<1>1. PICK u \in Upstreams : Check(u) \/ Add(u) \/ Remove(u)
  BY DEF Serve, ServerStep
<1>2. server' \in Checks
  BY <1>1, Numbers DEF Check, Add, Remove, TypeInv, TypeOK, Checks
<1>3. QED
  BY <1>2 DEF Serve, page, spinners, TypeInv, TypeOK, AttemptsInv

LEMMA LoadStepTypes ==
    TypeInv /\ (BackgroundLoad \/ BackgroundDeliver \/ \E l \in Loads : Answer(l) \/ AnswerFails(l))
        => TypeInv'
<1> SUFFICES ASSUME TypeInv,
                    BackgroundLoad \/ BackgroundDeliver \/ \E l \in Loads : Answer(l) \/ AnswerFails(l)
             PROVE  TypeInv'
  OBVIOUS
<1> USE DEF TypeInv, spinners
<1>0. Background \in Loads
  BY DEF Loads
<1>1. CASE BackgroundLoad
  BY <1>0, <1>1, LoadTypes DEF BackgroundLoad, TypeOK, AttemptsInv
<1>2. CASE BackgroundDeliver
  BY <1>0, <1>2, DeliverTypes DEF BackgroundDeliver, TypeOK, AttemptsInv
<1>3. ASSUME NEW l \in Loads, Answer(l) \/ AnswerFails(l) PROVE TypeInv'
  <2>1. load' \in [Loads -> Load]
    <3>1. CASE Answer(l)
      BY <3>1, LoadTypes DEF Answer, TypeOK
    <3>2. CASE AnswerFails(l)
      BY <3>2, LoadTypes DEF AnswerFails, TypeOK
    <3>3. QED
      BY <1>3, <3>1, <3>2
  <2>2. UNCHANGED <<server, shown, known, refreshing, refreshingRows, runId, click>>
    BY <1>3 DEF Answer, AnswerFails
  <2>3. QED
    BY <2>1, <2>2 DEF TypeOK, AttemptsInv
<1>4. QED
  BY <1>1, <1>2, <1>3

\* What an action does to click and load is all that is to be shown of it.
LEMMA UserTypes == \A c \in Clicks : TypeInv /\ User(c) => TypeInv'
<1> SUFFICES ASSUME NEW c \in Clicks, TypeInv, User(c) PROVE TypeInv'
  OBVIOUS
<1> USE DEF TypeInv, spinners
<1>a. c >= c
  BY DashboardAssumption DEF Clicks
<1>b. IsNext(c)
  BY DEF User, RefreshAll, RefreshRow, EditRatio
<1>0. click[c].pc = "none" /\ click[c] \in Click /\ click[c].attempts = 0
  BY <1>a, <1>b DEF IsNext, TypeOK, AttemptsInv
<1>1. CASE RefreshAll(c)
  <2> DEFINE ids == Listed(shown) \cup known
  <2>1. ids \in SUBSET Upstreams /\ captureRefreshBaselines(shown, ids) \in [Upstreams -> Times]
    BY BaselineTypes DEF TypeOK, Listed
  <2>2. click' = [click EXCEPT ![c] = [click[c] EXCEPT !.pc = "posting", !.all = TRUE,
                    !.ids = ids, !.base = captureRefreshBaselines(shown, ids)]]
    BY <1>1 DEF RefreshAll, TypeOK
  <2> HIDE DEF ids
  <2>3. click' \in [Clicks -> Click] /\ AttemptsInv'
    BY <1>0, <2>1, <2>2 DEF TypeOK, Click, AttemptsInv
  <2>4. QED
    BY <1>1, <2>3 DEF RefreshAll, TypeOK
<1>2. ASSUME NEW u \in Upstreams, RefreshRow(c, u) PROVE TypeInv'
  <2>1. captureRefreshBaselines(shown, {u}) \in [Upstreams -> Times]
    BY BaselineTypes DEF TypeOK
  <2> DEFINE new == [click[c] EXCEPT !.pc = "posting", !.ids = {u},
                                     !.base = captureRefreshBaselines(shown, {u})]
  <2>2. click' = [click EXCEPT ![c] = new]
    BY <1>2 DEF RefreshRow, TypeOK
  <2>3. new \in Click /\ new.pc = "posting" /\ new.attempts = 0
    BY <1>0, <2>1 DEF Click
  <2> HIDE DEF new
  <2>4. click' \in [Clicks -> Click] /\ AttemptsInv'
    BY <2>2, <2>3 DEF TypeOK, AttemptsInv
  <2>5. QED
    BY <1>2, <2>4 DEF RefreshRow, TypeOK
<1>3. ASSUME NEW u \in Upstreams, EditRatio(c, u) PROVE TypeInv'
  <2>1. click' = [click EXCEPT ![c] = [click[c] EXCEPT !.pc = "saving", !.ids = {u}]]
    BY <1>3 DEF EditRatio, TypeOK
  <2> DEFINE new == [click[c] EXCEPT !.pc = "saving", !.ids = {u}]
  <2>2. new \in Click /\ new.pc = "saving" /\ new.attempts = 0
    BY <1>0 DEF Click
  <2>3. click' = [click EXCEPT ![c] = new]
    BY <2>1
  <2> HIDE DEF new
  <2>4. click' \in [Clicks -> Click] /\ AttemptsInv'
    BY <2>2, <2>3 DEF TypeOK, AttemptsInv
  <2>5. QED
    BY <1>3, <2>4 DEF EditRatio, TypeOK
<1>4. QED
  BY <1>1, <1>2, <1>3 DEF User

LEMMA HandlerTypes == \A c \in Clicks : TypeInv /\ Handler(c) => TypeInv'
<1> SUFFICES ASSUME NEW c \in Clicks, TypeInv, Handler(c) PROVE TypeInv'
  OBVIOUS
<1> USE DEF TypeInv, spinners
<1>0. c \in Loads /\ click[c] \in Click
  BY DEF Loads, TypeOK
<1>1. CASE RatioSaved(c)
  <2>1. click' = [click EXCEPT ![c] = [click[c] EXCEPT !.pc = "reloading"]]
    BY <1>1 DEF RatioSaved, TypeOK
  <2>2. click' \in [Clicks -> Click] /\ AttemptsInv'
    BY <1>0, <1>1, <2>1 DEF RatioSaved, TypeOK, Click, AttemptsInv
  <2>3. QED
    BY <1>0, <1>1, <2>2, LoadTypes DEF RatioSaved, TypeOK
<1>2. CASE RatioRefused(c)
  <2>1. click' \in [Clicks -> Click] /\ AttemptsInv'
    BY <1>2, NullRecords DEF RatioRefused, TypeOK, AttemptsInv, Over, NoClick
  <2>2. QED
    BY <1>2, <2>1 DEF RatioRefused, TypeOK
<1>3. CASE RatioReloaded(c)
  <2>1. Deliver(c)
    BY <1>3 DEF RatioReloaded
  <2>2. shown' \in Checks /\ known' \in SUBSET Upstreams /\ load' \in [Loads -> Load]
    BY <1>0, <2>1, DeliverTypes
  <2>3. click[c].ids \in SUBSET Upstreams
    BY <1>0 DEF Click
  <2>4. captureRefreshBaselines(shown', click[c].ids) \in [Upstreams -> Times]
    BY <2>2, <2>3, BaselineTypes
  <2>5. click' = [click EXCEPT ![c] = [click[c] EXCEPT !.pc = "posting",
                    !.base = captureRefreshBaselines(shown', click[c].ids)]]
    BY <1>3 DEF RatioReloaded, TypeOK
  <2>6. click' \in [Clicks -> Click] /\ AttemptsInv'
    BY <1>0, <1>3, <2>4, <2>5 DEF RatioReloaded, TypeOK, Click, AttemptsInv
  <2>7. QED
    BY <1>3, <2>2, <2>3, <2>6 DEF RatioReloaded, TypeOK
<1>4. CASE Posted(c)
  <2>1. CASE click[c].ids = {}
    <3>1. click' = [clearRefreshPollTimers EXCEPT ![c] = Over]
      BY <1>4, <2>1 DEF Posted
    <3>2. click' \in [Clicks -> Click] /\ AttemptsInv'
      BY <3>1, ClearedTimers, NullRecords DEF AttemptsInv, Over, NoClick
    <3>3. QED
      BY <1>4, <2>1, <3>2 DEF Posted, TypeOK
  <2>2. CASE click[c].ids # {}
    <3>1. click[c].pc = "posting" /\ click[c].attempts = 0 /\ runId' = runId + 1
      BY <1>4, <2>2 DEF Posted, AttemptsInv
    <3>2. clearRefreshPollTimers[c] = click[c]
      BY <3>1, ClearedTimers
    <3>3. click' = [clearRefreshPollTimers EXCEPT ![c] = [click[c] EXCEPT
                      !.pc = "timer", !.run = runId + 1, !.all = FALSE]]
      BY <1>4, <2>2, <3>2, ClearedTimers DEF Posted
    <3>4. runId + 1 \in Nat
      BY DEF TypeOK
    <3>5. [click[c] EXCEPT !.pc = "timer", !.run = runId + 1, !.all = FALSE] \in Click
      BY <1>0, <3>4 DEF Click
    <3>6. click' \in [Clicks -> Click]
      BY <3>3, <3>5, ClearedTimers
    <3>7. click'[c].pc = "timer" /\ click'[c].attempts = 0
      BY <1>0, <3>1, <3>3, ClearedTimers DEF Click
    <3>8. AttemptsInv'
      <4> SUFFICES ASSUME NEW d \in Clicks PROVE AttemptsInv!(d)'
        BY DEF AttemptsInv
      <4>1. CASE d = c
        BY <3>7, <4>1, Numbers
      <4>2. CASE d # c
        BY <3>3, <4>2, ClearedTimers DEF AttemptsInv, Over, NoClick
      <4>3. QED
        BY <4>1, <4>2
    <3>9. click[c].ids \in SUBSET Upstreams
      BY <1>0 DEF Click
    <3>10. QED
      BY <1>4, <2>2, <3>1, <3>4, <3>6, <3>8, <3>9 DEF Posted, TypeOK
  <2>3. QED
    BY <2>1, <2>2
<1>5. CASE PostFails(c)
  <2>1. click' \in [Clicks -> Click] /\ AttemptsInv'
    BY <1>5, NullRecords DEF PostFails, TypeOK, AttemptsInv, Over, NoClick
  <2>2. QED
    BY <1>5, <2>1 DEF PostFails, TypeOK
<1>6. CASE Timer(c)
  <2>1. CASE click[c].run # runId
    <3>1. click' \in [Clicks -> Click] /\ AttemptsInv'
      <4>1. click' = [click EXCEPT ![c] = Over]
        BY <1>6, <2>1 DEF Timer
      <4>2. Over.pc = "over"
        BY DEF Over, NoClick
      <4>3. QED
        BY <4>1, <4>2, NullRecords DEF TypeOK, AttemptsInv
    <3>2. QED
      BY <1>6, <2>1, <3>1 DEF Timer, TypeOK
  <2>2. CASE click[c].run = runId
    <3>1. click[c].attempts + 1 \in 0 .. MaxAttempts
      BY <1>0, <1>6, Numbers DEF Timer, AttemptsInv, Click
    <3>2. click' = [click EXCEPT ![c] = [click[c] EXCEPT !.pc = "polling",
                                           !.attempts = click[c].attempts + 1]]
      BY <1>6, <2>2 DEF Timer, TypeOK
    <3>3. click' \in [Clicks -> Click] /\ AttemptsInv'
      BY <1>0, <3>1, <3>2 DEF TypeOK, Click, AttemptsInv
    <3>4. QED
      BY <1>0, <1>6, <2>2, <3>3, LoadTypes DEF Timer, TypeOK
  <2>3. QED
    BY <2>1, <2>2
<1>7. CASE PollLoaded(c)
  <2>1. shown' \in Checks /\ known' \in SUBSET Upstreams /\ load' \in [Loads -> Load]
    BY <1>0, <1>7, DeliverTypes DEF PollLoaded
  <2>2. Pending(c) \in SUBSET Upstreams
    BY <1>0 DEF Pending, Click
  <2>3. \/ click' = [click EXCEPT ![c] = Over]
        \/ /\ click[c].attempts < MaxAttempts
           /\ click' = [click EXCEPT ![c] = [click[c] EXCEPT !.pc = "timer"]]
    BY <1>0, <1>7, Numbers DEF PollLoaded, TypeOK, Click
  <2>4. click' \in [Clicks -> Click] /\ AttemptsInv'
    <3>1. CASE click' = [click EXCEPT ![c] = Over]
      BY <3>1, NullRecords DEF TypeOK, AttemptsInv, Over, NoClick
    <3>2. CASE /\ click[c].attempts < MaxAttempts
               /\ click' = [click EXCEPT ![c] = [click[c] EXCEPT !.pc = "timer"]]
      BY <1>0, <3>2 DEF TypeOK, AttemptsInv, Click
    <3>3. QED
      BY <2>3, <3>1, <3>2
  <2>5. QED
    BY <1>7, <2>1, <2>2, <2>4 DEF PollLoaded, TypeOK
<1>8. QED
  BY <1>1, <1>2, <1>3, <1>4, <1>5, <1>6, <1>7 DEF Handler

LEMMA TypeStep == TypeInv /\ [Next]_vars => TypeInv'
<1> SUFFICES ASSUME TypeInv, [Next]_vars PROVE TypeInv'
  OBVIOUS
<1>1. CASE UNCHANGED vars
  BY <1>1 DEF vars, page, spinners, TypeInv, TypeOK, AttemptsInv
<1>2. CASE Next
  BY <1>2, ServeTypes, LoadStepTypes, UserTypes, HandlerTypes DEF Next
<1>3. QED
  BY <1>1, <1>2

LEMMA TypeAlways == Spec => []TypeInv
  BY TypeInit, TypeStep, PTL DEF Spec

\* The page keeps its types: tables, spinners, handlers and loads.
THEOREM PageTypeCorrect == Spec => []TypeOK
  BY TypeAlways, PTL DEF TypeInv

-----------------------------------------------------------------------------
(* Runs                                                                    *)

\* The number of a run was once runId, and a run that has it has it alone.
RunInv ==
    /\ \A c \in Clicks : click[c].pc \in {"timer", "polling"} => click[c].run <= runId
    /\ OneLivePoller

\* A step that neither starts a run nor sets a timer.
LEMMA NoNewRun ==
    ASSUME TypeOK, RunInv, runId' = runId,
           \A c \in Clicks :
              \/ click'[c].pc \notin {"timer", "polling"}
              \/ /\ click'[c].run = click[c].run
                 /\ click[c].pc \in {"timer", "polling"}
                 /\ click'[c].pc = "timer" => Current(c)
    PROVE  RunInv'
<1>1. \A c \in Clicks : Current(c)' => Current(c)
  BY DEF Current
<1>2. \A c \in Clicks : click'[c].pc = "timer" => Current(c)'
  BY DEF Current
<1>3. QED
  BY <1>1, <1>2 DEF RunInv, OneLivePoller

LEMMA RunInit == Init => RunInv
  BY DEF Init, RunInv, OneLivePoller, Current, NoClick

LEMMA RunOfHandlers == \A c \in Clicks : TypeInv /\ RunInv /\ Handler(c) => RunInv'
<1> SUFFICES ASSUME NEW c \in Clicks, TypeInv, RunInv, Handler(c) PROVE RunInv'
  OBVIOUS
<1>0. click \in [Clicks -> Click] /\ runId \in Nat /\ TypeOK
  BY DEF TypeInv, TypeOK
<1>1. CASE RatioSaved(c)
  BY <1>0, <1>1, NoNewRun DEF RatioSaved, spinners, RunInv, OneLivePoller, Click
<1>2. CASE RatioRefused(c)
  BY <1>0, <1>2, NoNewRun DEF RatioRefused, spinners, RunInv, OneLivePoller, Over, NoClick
<1>3. CASE RatioReloaded(c)
  BY <1>0, <1>3, NoNewRun DEF RatioReloaded, spinners, RunInv, OneLivePoller, Click
<1>4. CASE Posted(c)
  <2>1. CASE click[c].ids = {}
    <3>1. /\ click' = [clearRefreshPollTimers EXCEPT ![c] = Over]
          /\ runId' = runId
      BY <1>4, <2>1 DEF Posted
    <3>2. ASSUME NEW d \in Clicks
          PROVE  \/ click'[d].pc = "over"
                 \/ click'[d] = click[d] /\ click[d].pc # "timer"
      BY <1>0, <3>1, ClearedTimers DEF Over, NoClick
    <3>3. QED
      BY <1>0, <3>1, <3>2, NoNewRun
  <2>2. CASE click[c].ids # {}
    <3>1. /\ click[c].pc = "posting"
          /\ runId' = runId + 1
          /\ click' = [clearRefreshPollTimers EXCEPT ![c].pc = "timer", ![c].run = runId + 1,
                                                     ![c].all = FALSE]
      BY <1>4, <2>2 DEF Posted
    <3>2. click'[c].pc = "timer" /\ click'[c].run = runId + 1
      BY <1>0, <3>1, ClearedTimers DEF Click
    <3>3. ASSUME NEW d \in Clicks, d # c
          PROVE  \/ click'[d].pc = "over"
                 \/ click'[d] = click[d] /\ click[d].pc # "timer"
      BY <1>0, <3>1, <3>3, ClearedTimers DEF Over, NoClick
    <3>4. \A d \in Clicks : click'[d].pc \in {"timer", "polling"} => click'[d].run <= runId'
      <4> SUFFICES ASSUME NEW d \in Clicks, click'[d].pc \in {"timer", "polling"}
                   PROVE  click'[d].run <= runId'
        OBVIOUS
      <4>1. CASE d = c
        BY <1>0, <3>1, <3>2, <4>1
      <4>2. CASE d # c
        <5>1. click'[d] = click[d] /\ click[d].pc = "polling"
          BY <3>3, <4>2
        <5>2. click[d].run <= runId /\ click[d].run \in Nat
          BY <1>0, <5>1 DEF RunInv, Click
        <5>3. QED
          BY <1>0, <3>1, <5>1, <5>2
      <4>3. QED
        BY <4>1, <4>2
    <3>5. \A d \in Clicks : Current(d)' => d = c
      <4> SUFFICES ASSUME NEW d \in Clicks, d # c, Current(d)' PROVE FALSE
        OBVIOUS
      <4>1. click'[d].run = runId' /\ click'[d].pc \in {"timer", "polling"}
        BY DEF Current
      <4>2. click'[d] = click[d] /\ click[d].pc = "polling"
        BY <3>3, <4>1
      <4>3. click[d].run <= runId /\ click[d].run \in Nat
        BY <1>0, <4>2 DEF RunInv, Click
      <4>4. QED
        BY <1>0, <3>1, <4>1, <4>2, <4>3
    <3>6. \A d \in Clicks : click'[d].pc = "timer" => Current(d)'
      <4> SUFFICES ASSUME NEW d \in Clicks, click'[d].pc = "timer" PROVE Current(d)'
        OBVIOUS
      <4>1. d = c
        BY <3>3
      <4>2. QED
        BY <3>1, <3>2, <4>1 DEF Current
    <3>7. QED
      BY <3>4, <3>5, <3>6 DEF RunInv, OneLivePoller
  <2>3. QED
    BY <2>1, <2>2
<1>5. CASE PostFails(c)
  BY <1>0, <1>5, NoNewRun DEF PostFails, spinners, RunInv, OneLivePoller, Over, NoClick
<1>6. CASE Timer(c)
  BY <1>0, <1>6, NoNewRun DEF Timer, spinners, RunInv, OneLivePoller, Over, NoClick, Click
<1>7. CASE PollLoaded(c)
  <2>1. runId' = runId /\ click[c].pc = "polling"
    BY <1>7 DEF PollLoaded
  <2>2. \A d \in Clicks : d # c => click'[d] = click[d]
    BY <1>0, <1>7 DEF PollLoaded
  <2>3. \/ click'[c].pc = "over"
        \/ /\ click'[c].pc = "timer" /\ click'[c].run = click[c].run
           /\ click[c].run = runId
    BY <1>0, <1>7 DEF PollLoaded, Over, NoClick, Click
  <2>4. QED
    BY <1>0, <2>1, <2>2, <2>3, NoNewRun DEF Current, RunInv, OneLivePoller
<1>8. QED
  BY <1>1, <1>2, <1>3, <1>4, <1>5, <1>6, <1>7 DEF Handler

\* A click that was none has no run.
LEMMA UserStep ==
    ASSUME TypeInv, NEW c \in Clicks, User(c)
    PROVE  /\ click[c].pc = "none"
           /\ click'[c].pc \in {"saving", "posting"}
           /\ \A d \in Clicks : d # c => click'[d] = click[d]
           /\ runId' = runId
<1>1. c >= c
  BY DashboardAssumption DEF Clicks
<1>2. IsNext(c) /\ runId' = runId
  BY DEF User, RefreshAll, RefreshRow, EditRatio, spinners
<1>3. \E f \in Click :
         f.pc \in {"saving", "posting"} /\ click' = [click EXCEPT ![c] = f]
  <2>1. click' \in [Clicks -> Click] /\ click \in [Clicks -> Click]
    BY UserTypes DEF TypeInv, TypeOK
  <2>2. click' = [click EXCEPT ![c] = click'[c]]
    BY <2>1 DEF User, RefreshAll, RefreshRow, EditRatio
  <2>3. click'[c].pc \in {"saving", "posting"}
    <3>1. CASE RefreshAll(c)
      BY <2>1, <3>1 DEF RefreshAll, Click
    <3>2. ASSUME NEW u \in Upstreams, RefreshRow(c, u) \/ EditRatio(c, u)
          PROVE  click'[c].pc \in {"saving", "posting"}
      BY <2>1, <3>2 DEF RefreshRow, EditRatio, Click
    <3>3. QED
      BY <3>1, <3>2 DEF User
  <2>4. QED
    BY <2>1, <2>2, <2>3
<1>4. QED
  BY <1>1, <1>2, <1>3 DEF IsNext, TypeInv, TypeOK

LEMMA RunStep == TypeInv /\ RunInv /\ [Next]_vars => RunInv'
<1> SUFFICES ASSUME TypeInv, RunInv, [Next]_vars PROVE RunInv'
  OBVIOUS
<1>1. CASE click' = click /\ runId' = runId
  BY <1>1 DEF RunInv, OneLivePoller, Current
<1>2. ASSUME NEW c \in Clicks, User(c) PROVE RunInv'
  BY <1>2, UserStep, NoNewRun DEF RunInv, OneLivePoller, TypeInv
<1>3. ASSUME NEW c \in Clicks, Handler(c) PROVE RunInv'
  BY <1>3, RunOfHandlers
<1>4. QED
  BY <1>1, <1>2, <1>3
     DEF Next, vars, page, Serve, Answer, AnswerFails, BackgroundLoad, BackgroundDeliver

LEMMA RunAlways == Spec => []RunInv
<1>1. TypeInv /\ RunInv /\ [Next]_vars => RunInv'
  BY RunStep
<1>2. QED
  BY <1>1, RunInit, TypeAlways, PTL DEF Spec

\* At most one poll decides about the spinners, and no timer of an older run is left,
\* however many refreshes the user starts while others are polled for.
THEOREM OnePoller == Spec => []OneLivePoller
  BY RunAlways, PTL DEF RunInv

-----------------------------------------------------------------------------
(* Spinners                                                                *)

\* The button waits for the request of a refresh of all or for the current poll, the
\* spinner of a row for a request about the row or for the current poll.
SpinInv ==
    /\ refreshing =>
         \E c \in Clicks : Current(c) \/ (click[c].pc = "posting" /\ click[c].all)
    /\ \A u \in refreshingRows :
         \E c \in Clicks : Current(c) \/ (click[c].pc = "posting" /\ u \in click[c].ids)

\* A step that turns nothing on and ends nothing that is waited for.
LEMMA StillWaited ==
    ASSUME SpinInv,
           refreshing' => refreshing,
           refreshingRows' \subseteq refreshingRows,
           \A c \in Clicks : Current(c) => Current(c)',
           \A c \in Clicks : click[c].pc = "posting" =>
              \/ click'[c] = click[c]
              \/ /\ click[c].all => ~refreshing'
                 /\ click[c].ids \cap refreshingRows' = {}
    PROVE  SpinInv'
<1>1. ASSUME refreshing'
      PROVE  \E c \in Clicks : Current(c)' \/ (click'[c].pc = "posting" /\ click'[c].all)
  BY <1>1 DEF SpinInv
<1>2. ASSUME NEW u \in refreshingRows'
      PROVE  \E c \in Clicks : Current(c)' \/ (click'[c].pc = "posting" /\ u \in click'[c].ids)
  BY <1>2 DEF SpinInv
<1>3. QED
  BY <1>1, <1>2 DEF SpinInv

\* A current poll is enough for every spinner.
LEMMA PollIsEnough ==
    ASSUME NEW c \in Clicks, Current(c)'
    PROVE  SpinInv'
  BY DEF SpinInv

LEMMA SpinInit == Init => SpinInv
  BY DEF Init, SpinInv

LEMMA SpinOfUsers == \A c \in Clicks : TypeInv /\ SpinInv /\ User(c) => SpinInv'
<1> SUFFICES ASSUME NEW c \in Clicks, TypeInv, SpinInv, User(c) PROVE SpinInv'
  OBVIOUS
<1>0. click \in [Clicks -> Click]
  BY DEF TypeInv, TypeOK
<1>1. /\ \A d \in Clicks : Current(d) => Current(d)'
      /\ \A d \in Clicks : click[d].pc = "posting" => click'[d] = click[d]
  BY UserStep DEF Current
<1>2. CASE RefreshAll(c)
  <2>1. click'[c].pc = "posting" /\ click'[c].all /\ refreshingRows' = refreshingRows
    BY <1>0, <1>2 DEF RefreshAll, Click
  <2>2. QED
    BY <1>1, <2>1 DEF SpinInv
<1>3. ASSUME NEW u \in Upstreams, RefreshRow(c, u) PROVE SpinInv'
  <2>1. /\ click'[c].pc = "posting" /\ click'[c].ids = {u}
        /\ refreshing' = refreshing /\ refreshingRows' = refreshingRows \cup {u}
    BY <1>0, <1>3 DEF RefreshRow, Click
  <2>2. QED
    BY <1>1, <2>1 DEF SpinInv
<1>4. ASSUME NEW u \in Upstreams, EditRatio(c, u) PROVE SpinInv'
  BY <1>1, <1>4, StillWaited DEF EditRatio, spinners
<1>5. QED
  BY <1>2, <1>3, <1>4 DEF User

LEMMA SpinOfHandlers ==
    \A c \in Clicks : TypeInv /\ SpinInv /\ Handler(c) => SpinInv'
<1> SUFFICES ASSUME NEW c \in Clicks, TypeInv, SpinInv, Handler(c) PROVE SpinInv'
  OBVIOUS
<1>0. click \in [Clicks -> Click] /\ TypeOK
  BY DEF TypeInv, TypeOK
<1>1. CASE RatioSaved(c)
  BY <1>0, <1>1, StillWaited DEF RatioSaved, spinners, Current
<1>2. CASE RatioRefused(c)
  BY <1>0, <1>2, StillWaited DEF RatioRefused, spinners, Current
<1>3. CASE RatioReloaded(c)
  <2>1. /\ click[c].pc = "reloading"
        /\ click'[c].pc = "posting" /\ click'[c].ids = click[c].ids
        /\ \A d \in Clicks : d # c => click'[d] = click[d]
        /\ refreshing' = refreshing /\ runId' = runId
        /\ refreshingRows' = refreshingRows \cup click[c].ids
    BY <1>0, <1>3 DEF RatioReloaded, Click
  <2>2. \A d \in Clicks : Current(d) => Current(d)'
    BY <2>1 DEF Current
  <2>3. QED
    BY <2>1, <2>2 DEF SpinInv
<1>4. CASE Posted(c)
  <2>1. CASE click[c].ids = {}
    BY <1>4, <2>1 DEF Posted, SpinInv
  <2>2. CASE click[c].ids # {}
    <3>1. click' = [clearRefreshPollTimers EXCEPT ![c].pc = "timer", ![c].run = runId + 1,
                                                  ![c].all = FALSE]
          /\ runId' = runId + 1
      BY <1>4, <2>2 DEF Posted
    <3>2. Current(c)'
      BY <1>0, <3>1, ClearedTimers DEF Current, Click
    <3>3. QED
      BY <3>2, PollIsEnough
  <2>3. QED
    BY <2>1, <2>2
<1>5. CASE PostFails(c)
  <2>1. \A d \in Clicks : Current(d) => Current(d)'
    BY <1>0, <1>5 DEF PostFails, Current
  <2>2. \A d \in Clicks : click[d].pc = "posting" => d = c \/ click'[d] = click[d]
    BY <1>0, <1>5 DEF PostFails
  <2>3. /\ refreshing' => refreshing
        /\ refreshingRows' \subseteq refreshingRows
        /\ click[c].all => ~refreshing'
        /\ click[c].ids \cap refreshingRows' = {}
    BY <1>0, <1>5 DEF PostFails
  <2>4. QED
    BY <2>1, <2>2, <2>3, StillWaited
<1>6. CASE Timer(c)
  <2>1. CASE click[c].run # runId
    BY <1>0, <1>6, <2>1, StillWaited DEF Timer, spinners, Current
  <2>2. CASE click[c].run = runId
    <3>1. Current(c)'
      BY <1>0, <1>6, <2>2 DEF Timer, Current, Click
    <3>2. QED
      BY <3>1, PollIsEnough
  <2>3. QED
    BY <2>1, <2>2
<1>7. CASE PollLoaded(c)
  <2>1. click[c].pc = "polling" /\ runId' = runId
        /\ \A d \in Clicks : d # c => click'[d] = click[d]
    BY <1>0, <1>7 DEF PollLoaded
  <2>2. CASE click[c].run # runId
    <3>1. UNCHANGED spinners /\ ~Current(c)
      BY <1>7, <2>2 DEF PollLoaded, Current
    <3>2. \A d \in Clicks : Current(d) => Current(d)'
      BY <2>1, <3>1 DEF Current
    <3>3. QED
      BY <2>1, <3>1, <3>2, StillWaited DEF spinners
  <2>3. CASE click[c].run = runId
    <3>1. \/ ~refreshing' /\ refreshingRows' = {}
          \/ click' = [click EXCEPT ![c].pc = "timer"]
      BY <1>7, <2>3 DEF PollLoaded
    <3>2. CASE ~refreshing' /\ refreshingRows' = {}
      BY <3>2 DEF SpinInv
    <3>3. CASE click' = [click EXCEPT ![c].pc = "timer"]
      <4>1. Current(c)'
        BY <1>0, <2>1, <2>3, <3>3 DEF Current, Click
      <4>2. QED
        BY <4>1, PollIsEnough
    <3>4. QED
      BY <3>1, <3>2, <3>3
  <2>4. QED
    BY <2>2, <2>3
<1>8. QED
  BY <1>1, <1>2, <1>3, <1>4, <1>5, <1>6, <1>7 DEF Handler

LEMMA SpinStep == TypeInv /\ SpinInv /\ [Next]_vars => SpinInv'
<1> SUFFICES ASSUME TypeInv, SpinInv, [Next]_vars PROVE SpinInv'
  OBVIOUS
<1>1. CASE click' = click /\ runId' = runId /\ UNCHANGED spinners
  BY <1>1 DEF SpinInv, Current, spinners
<1>2. ASSUME NEW c \in Clicks, User(c) PROVE SpinInv'
  BY <1>2, SpinOfUsers
<1>3. ASSUME NEW c \in Clicks, Handler(c) PROVE SpinInv'
  BY <1>3, SpinOfHandlers
<1>4. QED
  BY <1>1, <1>2, <1>3
     DEF Next, vars, page, Serve, Answer, AnswerFails, BackgroundLoad, BackgroundDeliver

\* Nothing spins that no request and no poll will stop, whatever fails and however
\* refreshes overlap.
THEOREM SpinnersAreWaitedFor == Spec => []NoStuckSpinner
<1>1. SpinInv => NoStuckSpinner
  BY DEF SpinInv, NoStuckSpinner
<1>2. QED
  BY <1>1, SpinInit, SpinStep, TypeAlways, PTL DEF Spec

-----------------------------------------------------------------------------
(* Old runs                                                                *)

\* A poll that loads is ended by its own answer only, and one of an old run ends
\* without a word.
LEMMA OldRunStep ==
    ASSUME TypeInv, [Next]_vars, NEW c \in Clicks,
           click[c].pc = "polling", click[c].run # runId, click'[c].pc # "polling"
    PROVE  UNCHANGED spinners
<1>0. click \in [Clicks -> Click] /\ TypeOK
  BY DEF TypeInv, TypeOK
<1>1. ASSUME NEW d \in Clicks, User(d) PROVE FALSE
  BY <1>1, UserStep
<1>2. ASSUME NEW d \in Clicks, Handler(d) PROVE UNCHANGED spinners
  <2>1. CASE Posted(d)
    <3>1. click[d].pc = "posting"
      BY <2>1 DEF Posted
    <3>2. click'[c] = clearRefreshPollTimers[c]
      BY <1>0, <2>1, <3>1, ClearedTimers DEF Posted
    <3>3. QED
      BY <3>2, ClearedTimers, <1>0
  <2>2. CASE PollLoaded(d)
    <3>1. d = c
      BY <1>0, <2>2 DEF PollLoaded
    <3>2. QED
      BY <2>2, <3>1 DEF PollLoaded
  <2>3. CASE RatioSaved(d) \/ RatioRefused(d) \/ RatioReloaded(d) \/ PostFails(d) \/ Timer(d)
    <3>1. click'[c] = click[c]
      BY <1>0, <2>3 DEF RatioSaved, RatioRefused, RatioReloaded, PostFails, Timer
    <3>2. QED
      BY <3>1
  <2>4. QED
    BY <1>2, <2>1, <2>2, <2>3 DEF Handler
<1>3. CASE click' = click
  BY <1>3
<1>4. QED
  BY <1>1, <1>2, <1>3
     DEF Next, vars, page, Serve, Answer, AnswerFails, BackgroundLoad, BackgroundDeliver

\* What a replaced poll still loads does not turn a spinner on or off.
THEOREM OldRunsKeepSilent == Spec => OldRunsAreSilent
<1>1. TypeInv /\ [Next]_vars =>
        [\A c \in Clicks :
           click[c].pc = "polling" /\ click[c].run # runId /\ click'[c].pc # "polling"
              => UNCHANGED spinners]_vars
  BY OldRunStep
<1>2. QED
  BY <1>1, TypeAlways, PTL DEF Spec, OldRunsAreSilent
=============================================================================
