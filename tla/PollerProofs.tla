---------------------------- MODULE PollerProofs ----------------------------
(***************************************************************************)
(* Theorems about Poller, for every set of upstreams, items and slots and  *)
(* every bound: types, mutual exclusion of refreshes, single flight of     *)
(* RefreshAll, and the monotonicity of last_polled_at.                     *)
(***************************************************************************)
EXTENDS Poller, TLAPS

\* The slot a step writes stays a task record, the others do not change.
LEMMA GotoType ==
    ASSUME TypeOK, NEW c \in Callers, NEW u \in Upstreams,
           NEW t \in TaskRecord, Goto(c, u, t)
    PROVE  /\ task' \in [Callers -> [Upstreams -> TaskRecord]]
           /\ task'[c][u] = t
           /\ \A d \in Callers, v \in Upstreams :
                  <<d, v>> # <<c, u>> => task'[d][v] = task[d][v]
  BY DEF TypeOK, Goto

\* The null records are records of their types.
LEMMA NullRecords ==
    /\ NoTask \in TaskRecord
    /\ NoRun \in RunRecord
    /\ NoItem \in Item
    /\ NoRow("unborn") \in UpstreamRow /\ NoRow("deleted") \in UpstreamRow
  BY BoundsAssumption
     DEF NoTask, TaskRecord, TaskPC, Holding, Time, Never,
         NoRun, RunRecord, Item, NoRow, UpstreamRow

\* The initial states have the types.
LEMMA InitType == Init => TypeOK
<1> SUFFICES ASSUME Init PROVE TypeOK
  OBVIOUS
<1>1. running \in SUBSET Upstreams /\ lastAll \in AllStatus
  BY DEF Init, AllStatus
<1>2. runs \in [Runs -> RunRecord]
  BY NullRecords DEF Init
<1>3. task \in [Callers -> [Upstreams -> TaskRecord]]
  BY NullRecords DEF Init
<1>5. upstreams \in [Upstreams -> UpstreamRow]
  BY NullRecords DEF Init
<1>6. items \in [Upstreams -> [Keys -> Item]]
  BY NullRecords DEF Init
<1>7. now \in 1 .. MaxTime /\ ctxDone \in BOOLEAN /\ restarts \in 0 .. MaxRestarts
  <2>1. now = 1 /\ ctxDone = FALSE /\ restarts = 0
    BY DEF Init
  <2>2. now \in 1 .. MaxTime /\ restarts \in 0 .. MaxRestarts
    BY <2>1, BoundsAssumption
  <2>3. QED
    BY <2>1, <2>2
<1>8. QED
  BY <1>1, <1>2, <1>3, <1>5, <1>6, <1>7 DEF TypeOK

\* Each statement of RefreshUpstream keeps the types.
LEMMA TaskStepType ==
    ASSUME TypeOK, NEW c \in Callers, NEW u \in Upstreams, TaskStep(c, u)
    PROVE  TypeOK'
<1> USE DEF tables, process
<1>t. task[c][u] \in TaskRecord
  BY DEF TypeOK
<1>r. runs \in [Runs -> RunRecord]
  BY DEF TypeOK
<1>n. now \in Time /\ Never \in Time /\ task[c][u].at \in Time
      /\ task[c][u].fetchedAt \in Time
  BY <1>t, BoundsAssumption DEF TypeOK, Time, Never, TaskRecord
<1>p. Holding \subseteq TaskPC /\ {"idle", "spawned", "returned"} \subseteq TaskPC
  BY DEF TaskPC
<1>h. {"started", "fetching", "saving", "upserting", "publishing",
       "recording", "failing", "releasing"} \subseteq TaskPC
  BY DEF TaskPC, Holding
<1>d. NoTask \in TaskRecord /\ NoTask.todo \in [Keys -> Reported \cup {"none"}]
  BY NullRecords DEF TaskRecord
<1>1. CASE TryStart(c, u)
  <2>1. runs' \in [Runs -> RunRecord]
    <3>1. CASE c \in Runs /\ u \in running
      <4>1. [runs[c] EXCEPT !.skipped = @ \cup {u}] \in RunRecord
        BY <3>1, <1>r DEF RunRecord
      <4>2. QED
        BY <1>1, <3>1, <4>1 DEF TryStart, TypeOK
    <3>2. CASE ~(c \in Runs /\ u \in running)
      BY <1>1, <3>2 DEF TryStart, TypeOK
    <3>3. QED
      BY <3>1, <3>2
  <2>2. /\ [task[c][u] EXCEPT !.pc = "returned"] \in TaskRecord
        /\ [task[c][u] EXCEPT !.pc = "started"] \in TaskRecord
    BY <1>t, <1>p, <1>h DEF TaskRecord
  <2>3. task' \in [Callers -> [Upstreams -> TaskRecord]]
    BY <1>1, <2>2, GotoType DEF TryStart
  <2>4. running' \in SUBSET Upstreams
    BY <1>1 DEF TryStart, TypeOK
  <2>5. QED
    BY <1>1, <2>1, <2>3, <2>4 DEF TryStart, TypeOK
<1>2. CASE Load(c, u)
  <2>1. /\ [task[c][u] EXCEPT !.pc = "fetching", !.at = now] \in TaskRecord
        /\ [task[c][u] EXCEPT !.pc = "releasing", !.at = now, !.err = TRUE]
               \in TaskRecord
    BY <1>t, <1>n, <1>h DEF TaskRecord
  <2>2. task' \in [Callers -> [Upstreams -> TaskRecord]]
    BY <1>2, <2>1, GotoType DEF Load
  <2>3. QED
    BY <1>2, <2>2 DEF Load, TypeOK
<1>3. CASE FetchOK(c, u)
  <2>1. ASSUME NEW report \in [Keys -> Reported \cup {"none"}],
               NEW pc \in {"saving", "upserting"}
        PROVE  [task[c][u] EXCEPT !.pc = pc, !.todo = report, !.fetchedAt = now]
                   \in TaskRecord
    BY <1>t, <1>n, <1>h DEF TaskRecord
  <2>2. task' \in [Callers -> [Upstreams -> TaskRecord]]
    BY <1>3, <2>1, GotoType DEF FetchOK
  <2>3. QED
    BY <1>3, <2>2 DEF FetchOK, TypeOK
<1>4. CASE FetchError(c, u)
  <2>1. [task[c][u] EXCEPT !.pc = "recording", !.err = TRUE] \in TaskRecord
    BY <1>t, <1>h DEF TaskRecord
  <2>2. task' \in [Callers -> [Upstreams -> TaskRecord]]
    BY <1>4, <2>1, GotoType DEF FetchError
  <2>3. QED
    BY <1>4, <2>2 DEF FetchError, TypeOK
<1>5. CASE SaveSecret(c, u)
  <2>1. /\ [task[c][u] EXCEPT !.pc = "upserting"] \in TaskRecord
        /\ [task[c][u] EXCEPT !.pc = "recording", !.err = TRUE] \in TaskRecord
    BY <1>t, <1>h DEF TaskRecord
  <2>2. task' \in [Callers -> [Upstreams -> TaskRecord]]
    BY <1>5, <2>1, GotoType DEF SaveSecret
  <2>3. QED
    BY <1>5, <2>2 DEF SaveSecret, TypeOK
<1>6. ASSUME NEW k \in Keys, UpsertItem(c, u, k)
      PROVE  TypeOK'
  <2>1. [task[c][u] EXCEPT !.todo[k] = "none"] \in TaskRecord
    BY <1>t DEF TaskRecord
  <2>2. task' \in [Callers -> [Upstreams -> TaskRecord]]
    BY <1>6, <2>1, GotoType DEF UpsertItem
  <2>3. ItemOf(task[c][u], k) \in Item
    <3>1. task[c][u].todo[k] \in Reported
      BY <1>t, <1>6 DEF TaskRecord, UpsertItem
    <3>2. QED
      BY <1>t, <3>1 DEF ItemOf, TaskRecord, Item
  <2>4. items' \in [Upstreams -> [Keys -> Item]]
    BY <1>6, <2>3 DEF UpsertItem, TypeOK
  <2>5. QED
    BY <1>6, <2>2, <2>4 DEF UpsertItem, TypeOK
<1>7. ASSUME NEW k \in Keys, UpsertError(c, u, k)
      PROVE  TypeOK'
  <2>1. [task[c][u] EXCEPT !.pc = "recording", !.err = TRUE, !.fetchedAt = Never,
                           !.todo = NoTask.todo] \in TaskRecord
    BY <1>t, <1>d, <1>h, <1>n DEF TaskRecord
  <2>2. task' \in [Callers -> [Upstreams -> TaskRecord]]
    BY <1>7, <2>1, GotoType DEF UpsertError
  <2>3. ItemOf(task[c][u], k) \in Item
    <3>1. task[c][u].todo[k] \in Reported
      BY <1>t, <1>7 DEF TaskRecord, UpsertError
    <3>2. QED
      BY <1>t, <3>1 DEF ItemOf, TaskRecord, Item
  <2>4. items' \in [Upstreams -> [Keys -> Item]]
    <3>1. CASE UNCHANGED items
      BY <3>1 DEF TypeOK
    <3>2. CASE items' = [items EXCEPT ![u][k] = ItemOf(task[c][u], k)]
      BY <3>2, <2>3 DEF TypeOK
    <3>3. QED
      BY <1>7, <3>1, <3>2 DEF UpsertError
  <2>5. QED
    BY <1>7, <2>2, <2>4 DEF UpsertError, TypeOK
<1>8. CASE UpsertsDone(c, u)
  <2>1. [task[c][u] EXCEPT !.pc = "publishing", !.fetchedAt = Never] \in TaskRecord
    BY <1>t, <1>n, <1>h DEF TaskRecord
  <2>2. task' \in [Callers -> [Upstreams -> TaskRecord]]
    BY <1>8, <2>1, GotoType DEF UpsertsDone
  <2>3. QED
    BY <1>8, <2>2 DEF UpsertsDone, TypeOK
<1>9. ASSUME NEW failed \in BOOLEAN, SetUpstreamPollResult(u, task[c][u].at, failed)
      PROVE  upstreams' \in [Upstreams -> UpstreamRow]
  <2>1. upstreams \in [Upstreams -> UpstreamRow]
    BY DEF TypeOK
  <2>2. [upstreams[u] EXCEPT !.polledAt = task[c][u].at, !.lastError = failed]
            \in UpstreamRow
    BY <1>n, <2>1 DEF UpstreamRow
  <2>3. CASE upstreams' = upstreams
    BY <2>1, <2>3
  <2>4. CASE upstreams' = [upstreams EXCEPT ![u].polledAt = task[c][u].at,
                                            ![u].lastError = failed]
    <3>1. upstreams' = [upstreams EXCEPT ![u] =
              [upstreams[u] EXCEPT !.polledAt = task[c][u].at, !.lastError = failed]]
      BY <2>1, <2>4
    <3>2. QED
      BY <2>1, <2>2, <3>1
  <2>5. QED
    BY <1>9, <2>3, <2>4 DEF SetUpstreamPollResult
<1>10. CASE PublishResult(c, u)
  <2>1. /\ [task[c][u] EXCEPT !.pc = "releasing"] \in TaskRecord
        /\ [task[c][u] EXCEPT !.pc = "releasing", !.err = TRUE] \in TaskRecord
    BY <1>t, <1>h DEF TaskRecord
  <2>2. task' \in [Callers -> [Upstreams -> TaskRecord]]
    BY <1>10, <2>1, GotoType DEF PublishResult
  <2>3. upstreams' \in [Upstreams -> UpstreamRow]
    BY <1>10, <1>9 DEF PublishResult, TypeOK
  <2>4. QED
    BY <1>10, <2>2, <2>3 DEF PublishResult, TypeOK
<1>11. CASE RecordError(c, u)
  <2>1. [task[c][u] EXCEPT !.pc = "failing"] \in TaskRecord
    BY <1>t, <1>h DEF TaskRecord
  <2>2. task' \in [Callers -> [Upstreams -> TaskRecord]]
    BY <1>11, <2>1, GotoType DEF RecordError
  <2>3. upstreams' \in [Upstreams -> UpstreamRow]
    BY <1>11, <1>9 DEF RecordError, TypeOK
  <2>4. QED
    BY <1>11, <2>2, <2>3 DEF RecordError, TypeOK
<1>12. CASE RecordItemFailure(c, u)
  <2>1. [task[c][u] EXCEPT !.pc = "releasing"] \in TaskRecord
    BY <1>t, <1>h DEF TaskRecord
  <2>2. task' \in [Callers -> [Upstreams -> TaskRecord]]
    BY <1>12, <2>1, GotoType DEF RecordItemFailure
  <2>3. ASSUME NEW its \in [Keys -> Item]
        PROVE  FailedItems(its, task[c][u].at) \in [Keys -> Item]
    BY <1>n, StatusAssumption DEF FailedItems, Item
  <2>4. items' \in [Upstreams -> [Keys -> Item]]
    BY <1>12, <2>3 DEF RecordItemFailure, TypeOK
  <2>5. QED
    BY <1>12, <2>2, <2>4 DEF RecordItemFailure, TypeOK
<1>13. CASE Finish(c, u)
  <2>1. [task[c][u] EXCEPT !.pc = "returned"] \in TaskRecord
    BY <1>t, <1>p DEF TaskRecord
  <2>2. task' \in [Callers -> [Upstreams -> TaskRecord]]
    BY <1>13, <2>1, GotoType DEF Finish
  <2>3. QED
    BY <1>13, <2>2 DEF Finish, TypeOK
<1>14. CASE Return(c, u)
  <2>1. task' \in [Callers -> [Upstreams -> TaskRecord]]
    BY <1>14, <1>d, GotoType DEF Return
  <2>2. runs' \in [Runs -> RunRecord]
    <3>1. CASE c \in Runs
      <4>1. ASSUME NEW b \in BOOLEAN
            PROVE  [runs[c] EXCEPT !.errs = b] \in RunRecord
        BY <3>1, <1>r DEF RunRecord
      <4>2. (runs[c].errs \/ task[c][u].err) \in BOOLEAN
        OBVIOUS
      <4>3. runs' = [runs EXCEPT ![c] =
                [runs[c] EXCEPT !.errs = runs[c].errs \/ task[c][u].err]]
        BY <1>14, <3>1 DEF Return, TypeOK, RunRecord
      <4>4. QED
        BY <4>1, <4>2, <4>3 DEF TypeOK
    <3>2. CASE c \notin Runs
      BY <1>14, <3>2 DEF Return, TypeOK
    <3>3. QED
      BY <3>1, <3>2
  <2>3. QED
    BY <1>14, <2>1, <2>2 DEF Return, TypeOK
<1>15. QED
  BY <1>1, <1>2, <1>3, <1>4, <1>5, <1>6, <1>7, <1>8, <1>10, <1>11, <1>12,
     <1>13, <1>14 DEF TaskStep

\* Every step keeps the types.
LEMMA NextType ==
    ASSUME TypeOK, [Next]_vars
    PROVE  TypeOK'
<1> USE DEF tables, process
<1>r. runs \in [Runs -> RunRecord]
  BY DEF TypeOK
<1>1. ASSUME NEW r \in Runs, NEW bg \in BOOLEAN, RefreshAll(r, bg)
      PROVE  TypeOK'
  <2>1. [NoRun EXCEPT !.pc = "listing", !.bg = bg, !.startedAt = now] \in RunRecord
    <3>1. now \in Time
      BY BoundsAssumption DEF TypeOK, Time, Never
    <3>2. QED
      BY <3>1, NullRecords DEF RunRecord
  <2>2. lastAll' \in AllStatus
    BY <1>1 DEF RefreshAll, AllStatus
  <2>3. QED
    BY <1>1, <2>1, <2>2 DEF RefreshAll, TypeOK
<1>2. ASSUME NEW r \in Runs, RunStep(r)
      PROVE  TypeOK'
  <2>1. CASE ListOK(r)
    <3> DEFINE listed == {u \in Upstreams : Live(u) /\ upstreams[u].enabled}
    <3>1. [runs[r] EXCEPT !.pc = "waiting", !.listed = listed] \in RunRecord
      BY <1>r DEF RunRecord
    <3>2. runs' \in [Runs -> RunRecord]
      BY <2>1, <3>1 DEF ListOK, TypeOK
    <3>3. [NoTask EXCEPT !.pc = "spawned"] \in TaskRecord
      BY NullRecords DEF TaskRecord, TaskPC
    <3>4. task' \in [Callers -> [Upstreams -> TaskRecord]]
      BY <2>1, <3>3, NullRecords DEF ListOK, TypeOK
    <3>5. QED
      BY <2>1, <3>2, <3>4 DEF ListOK, TypeOK
  <2>2. CASE ListError(r)
    <3>1. [runs[r] EXCEPT !.pc = "finishing", !.errs = TRUE] \in RunRecord
      BY <1>r DEF RunRecord
    <3>2. QED
      BY <2>2, <3>1 DEF ListError, TypeOK
  <2>3. CASE WaitDone(r)
    <3>1. [runs[r] EXCEPT !.pc = "finishing"] \in RunRecord
      BY <1>r DEF RunRecord
    <3>2. QED
      BY <2>3, <3>1 DEF WaitDone, TypeOK
  <2>4. CASE PublishAll(r)
    <3>1. lastAll' \in AllStatus
      BY <2>4 DEF PublishAll, AllStatus
    <3>2. QED
      BY <2>4, <3>1, NullRecords DEF PublishAll, TypeOK
  <2>5. QED
    BY <1>2, <2>1, <2>2, <2>3, <2>4 DEF RunStep
<1>3. ASSUME NEW c \in Callers, NEW u \in Upstreams, CreateUpstream(c, u)
      PROVE  TypeOK'
  <2>1. [NoTask EXCEPT !.pc = "spawned"] \in TaskRecord
    BY NullRecords DEF TaskRecord, TaskPC
  <2>2. task' \in [Callers -> [Upstreams -> TaskRecord]]
    BY <1>3, <2>1, GotoType DEF CreateUpstream
  <2>3. upstreams' \in [Upstreams -> UpstreamRow]
    <3>1. ASSUME NEW b \in BOOLEAN
          PROVE  [upstreams[u] EXCEPT !.state = "live", !.enabled = b] \in UpstreamRow
      BY DEF TypeOK, UpstreamRow
    <3>2. PICK b \in BOOLEAN : upstreams' = [upstreams EXCEPT
                 ![u] = [upstreams[u] EXCEPT !.state = "live", !.enabled = b]]
      BY <1>3 DEF CreateUpstream, TypeOK, UpstreamRow
    <3>3. QED
      BY <3>1, <3>2 DEF TypeOK
  <2>4. QED
    BY <1>3, <2>2, <2>3 DEF CreateUpstream, TypeOK
<1>4. ASSUME NEW c \in Callers, NEW u \in Upstreams, RequestRefresh(c, u)
      PROVE  TypeOK'
  <2>1. [NoTask EXCEPT !.pc = "spawned"] \in TaskRecord
    BY NullRecords DEF TaskRecord, TaskPC
  <2>2. task' \in [Callers -> [Upstreams -> TaskRecord]]
    BY <1>4, <2>1, GotoType DEF RequestRefresh
  <2>3. QED
    BY <1>4, <2>2 DEF RequestRefresh, TypeOK
<1>5. ASSUME NEW u \in Upstreams, UpdateUpstream(u)
      PROVE  TypeOK'
  <2>1. ASSUME NEW b \in BOOLEAN
        PROVE  [upstreams[u] EXCEPT !.enabled = b] \in UpstreamRow
    BY DEF TypeOK, UpstreamRow
  <2>2. upstreams' = [upstreams EXCEPT ![u] =
                        [upstreams[u] EXCEPT !.enabled = ~upstreams[u].enabled]]
    BY <1>5 DEF UpdateUpstream, TypeOK, UpstreamRow
  <2>3. (~upstreams[u].enabled) \in BOOLEAN
    OBVIOUS
  <2>4. QED
    BY <1>5, <2>1, <2>2, <2>3 DEF UpdateUpstream, TypeOK
<1>6. ASSUME NEW u \in Upstreams, DeleteUpstream(u)
      PROVE  TypeOK'
  BY <1>6, NullRecords DEF DeleteUpstream, TypeOK
<1>7. CASE Advance
  BY <1>7, BoundsAssumption DEF Advance, TypeOK
<1>8. CASE Shutdown
  BY <1>8 DEF Shutdown, TypeOK
<1>9. CASE Restart
  <2>1. lastAll' \in AllStatus
    BY <1>9 DEF Restart, AllStatus
  <2>2. restarts' \in 0 .. MaxRestarts
    <3>1. restarts < MaxRestarts /\ restarts' = restarts + 1
      BY <1>9 DEF Restart
    <3>2. QED
      BY <3>1, BoundsAssumption DEF TypeOK
  <2>3. QED
    BY <1>9, <2>1, <2>2, NullRecords DEF Restart, TypeOK
<1>10. CASE UNCHANGED vars
  BY <1>10 DEF vars, TypeOK
<1>11. QED
  BY <1>1, <1>2, <1>3, <1>4, <1>5, <1>6, <1>7, <1>8, <1>9, <1>10, TaskStepType
     DEF Next, Tick, Callers

\* Every variable keeps its type in every behaviour.
THEOREM TypeCorrect == Spec => []TypeOK
<1>1. TypeOK /\ [Next]_vars => TypeOK'
  BY NextType
<1>2. QED
  BY InitType, <1>1, PTL DEF Spec

-----------------------------------------------------------------------------
(* Mutual exclusion.  GuardHasHolder and OneRefreshPerUpstream are not     *)
(* inductive alone: when RefreshAll starts its children it overwrites the  *)
(* slots of the run, which would lose a holder if a child of an earlier    *)
(* round were still there.  wg.Wait is what rules that out.                *)

\* Children of a run exist only while it waits for them.
ChildrenAreAwaited ==
    \A r \in Runs : runs[r].pc # "waiting" =>
        \A u \in Upstreams : task[r][u].pc = "idle"

GuardInv == ChildrenAreAwaited /\ GuardHasHolder /\ OneRefreshPerUpstream

\* What one statement of RefreshUpstream can do to the guards.
LEMMA TaskStepEffect ==
    ASSUME TypeOK, NEW c \in Callers, NEW u \in Upstreams, TaskStep(c, u)
    PROVE  /\ task[c][u].pc # "idle"
           /\ \A d \in Callers, v \in Upstreams :
                  <<d, v>> # <<c, u>> => task'[d][v] = task[d][v]
           /\ \A r \in Runs : runs'[r].pc = runs[r].pc
           /\ lastAll' = lastAll
           /\ \/ running' = running /\ (Active(c, u)' <=> Active(c, u))
              \/ /\ u \notin running /\ running' = running \cup {u}
                 /\ ~Active(c, u) /\ Active(c, u)'
              \/ /\ running' = running \ {u}
                 /\ Active(c, u) /\ ~Active(c, u)'
<1> USE DEF At, Active
<1>t. task[c][u] \in TaskRecord
  BY DEF TypeOK
<1>s. ASSUME NEW t, Goto(c, u, t)
      PROVE  /\ task'[c][u] = t
             /\ \A d \in Callers, v \in Upstreams :
                    <<d, v>> # <<c, u>> => task'[d][v] = task[d][v]
  BY <1>s DEF Goto, TypeOK
<1>1. CASE TryStart(c, u)
  <2>1. \A r \in Runs : runs'[r].pc = runs[r].pc
    BY <1>1 DEF TryStart, TypeOK, RunRecord
  <2>2. CASE u \in running
    <3>1. task'[c][u].pc = "returned"
      BY <1>1, <1>s, <1>t, <2>2 DEF TryStart, TaskRecord
    <3>2. QED
      BY <1>1, <1>s, <2>1, <2>2, <3>1 DEF TryStart, Holding
  <2>3. CASE u \notin running
    <3>1. task'[c][u].pc = "started"
      BY <1>1, <1>s, <1>t, <2>3 DEF TryStart, TaskRecord
    <3>2. QED
      BY <1>1, <1>s, <2>1, <2>3, <3>1 DEF TryStart, Holding
  <2>4. QED
    BY <2>2, <2>3
<1>2. CASE Load(c, u)
  <2>1. \/ task'[c][u] = [task[c][u] EXCEPT !.pc = "fetching", !.at = now]
        \/ task'[c][u] = [task[c][u] EXCEPT !.pc = "releasing", !.at = now, !.err = TRUE]
    BY <1>2, <1>s DEF Load
  <2>2. task'[c][u].pc \in {"fetching", "releasing"}
    BY <2>1, <1>t DEF TaskRecord
  <2>3. QED
    BY <1>2, <1>s, <2>2 DEF Load, Holding
<1>3. CASE FetchOK(c, u)
  <2>1. \E pc \in {"saving", "upserting"} : \E report :
           task'[c][u] = [task[c][u] EXCEPT !.pc = pc, !.todo = report,
                                            !.fetchedAt = now]
    BY <1>3, <1>s DEF FetchOK
  <2>2. task'[c][u].pc \in {"saving", "upserting"}
    BY <2>1, <1>t DEF TaskRecord
  <2>3. \A d \in Callers, v \in Upstreams :
            <<d, v>> # <<c, u>> => task'[d][v] = task[d][v]
    BY <1>3, <1>s DEF FetchOK
  <2>4. QED
    BY <1>3, <2>2, <2>3 DEF FetchOK, Holding
<1>4. CASE FetchError(c, u)
  <2>1. task'[c][u] = [task[c][u] EXCEPT !.pc = "recording", !.err = TRUE]
    BY <1>4, <1>s DEF FetchError
  <2>2. task'[c][u].pc = "recording"
    BY <2>1, <1>t DEF TaskRecord
  <2>3. QED
    BY <1>4, <1>s, <2>2 DEF FetchError, Holding
<1>5. CASE SaveSecret(c, u)
  <2>1. \/ task'[c][u] = [task[c][u] EXCEPT !.pc = "upserting"]
        \/ task'[c][u] = [task[c][u] EXCEPT !.pc = "recording", !.err = TRUE]
    BY <1>5, <1>s DEF SaveSecret
  <2>2. task'[c][u].pc \in {"upserting", "recording"}
    BY <2>1, <1>t DEF TaskRecord
  <2>3. QED
    BY <1>5, <1>s, <2>2 DEF SaveSecret, Holding
<1>6. ASSUME NEW k \in Keys, UpsertItem(c, u, k)
      PROVE  /\ task[c][u].pc = "upserting" /\ task'[c][u].pc = "upserting"
             /\ UNCHANGED <<running, runs, lastAll>>
             /\ \A d \in Callers, v \in Upstreams :
                    <<d, v>> # <<c, u>> => task'[d][v] = task[d][v]
  BY <1>6, <1>s, <1>t DEF UpsertItem, TaskRecord
<1>7. ASSUME NEW k \in Keys, UpsertError(c, u, k)
      PROVE  /\ task[c][u].pc = "upserting" /\ task'[c][u].pc = "recording"
             /\ UNCHANGED <<running, runs, lastAll>>
             /\ \A d \in Callers, v \in Upstreams :
                    <<d, v>> # <<c, u>> => task'[d][v] = task[d][v]
  <2>1. task'[c][u] = [task[c][u] EXCEPT !.pc = "recording", !.err = TRUE,
                           !.fetchedAt = Never, !.todo = NoTask.todo]
    BY <1>7, <1>s DEF UpsertError
  <2>2. task'[c][u].pc = "recording"
    BY <2>1, <1>t DEF TaskRecord
  <2>3. QED
    BY <1>7, <1>s, <2>2 DEF UpsertError
<1>8. CASE UpsertsDone(c, u)
  <2>1. task'[c][u] = [task[c][u] EXCEPT !.pc = "publishing", !.fetchedAt = Never]
    BY <1>8, <1>s DEF UpsertsDone
  <2>2. task'[c][u].pc = "publishing"
    BY <2>1, <1>t DEF TaskRecord
  <2>3. QED
    BY <1>8, <1>s, <2>2 DEF UpsertsDone, Holding
<1>9. CASE PublishResult(c, u)
  <2>1. \/ task'[c][u] = [task[c][u] EXCEPT !.pc = "releasing"]
        \/ task'[c][u] = [task[c][u] EXCEPT !.pc = "releasing", !.err = TRUE]
    BY <1>9, <1>s DEF PublishResult
  <2>2. task'[c][u].pc = "releasing"
    BY <2>1, <1>t DEF TaskRecord
  <2>3. QED
    BY <1>9, <1>s, <2>2 DEF PublishResult, Holding
<1>10. CASE RecordError(c, u)
  <2>1. task'[c][u].pc = "failing"
    BY <1>10, <1>s, <1>t DEF RecordError, TaskRecord
  <2>2. QED
    BY <1>10, <1>s, <2>1 DEF RecordError, Holding
<1>11. CASE RecordItemFailure(c, u)
  <2>1. task'[c][u].pc = "releasing"
    BY <1>11, <1>s, <1>t DEF RecordItemFailure, TaskRecord
  <2>2. QED
    BY <1>11, <1>s, <2>1 DEF RecordItemFailure, Holding
<1>12. CASE Finish(c, u)
  <2>1. task'[c][u].pc = "returned"
    BY <1>12, <1>s, <1>t DEF Finish, TaskRecord
  <2>2. QED
    BY <1>12, <1>s, <2>1 DEF Finish, Holding
<1>13. CASE Return(c, u)
  <2>1. task'[c][u].pc = "idle"
    BY <1>13, <1>s DEF Return, NoTask
  <2>2. \A r \in Runs : runs'[r].pc = runs[r].pc
    BY <1>13 DEF Return, TypeOK, RunRecord
  <2>3. QED
    BY <1>13, <1>s, <2>1, <2>2 DEF Return, Holding
<1>14. QED
  BY <1>1, <1>2, <1>3, <1>4, <1>5, <1>6, <1>7, <1>8, <1>9, <1>10, <1>11,
     <1>12, <1>13 DEF TaskStep, Holding

\* Slots of handlers are not slots of runs.
LEMMA SlotKinds ==
    ASSUME NEW c \in Requests, NEW r \in Runs
    PROVE  c # r
  BY CallersAssumption

\* No guard is taken initially.
LEMMA GuardInit == Init => GuardInv
<1> SUFFICES ASSUME Init PROVE GuardInv
  OBVIOUS
<1>1. running = {} /\ task = [c \in Callers |-> [u \in Upstreams |-> NoTask]]
  BY DEF Init
<1>2. \A c \in Callers, u \in Upstreams : task[c][u].pc = "idle"
  BY <1>1 DEF NoTask
<1>3. QED
  BY <1>1, <1>2 DEF GuardInv, ChildrenAreAwaited, GuardHasHolder,
         OneRefreshPerUpstream, Active, Holding, Callers

\* A step that only fills or empties slots that hold no guard keeps GuardInv.
LEMMA GuardKept ==
    ASSUME GuardInv, running' = running, ChildrenAreAwaited',
           \A c \in Callers, u \in Upstreams : Active(c, u)' <=> Active(c, u)
    PROVE  GuardInv'
  BY DEF GuardInv, GuardHasHolder, OneRefreshPerUpstream

\* Every step keeps guards and their holders in agreement.
LEMMA GuardStep ==
    ASSUME TypeOK, GuardInv, [Next]_vars
    PROVE  GuardInv'
<1> USE DEF tables, process
<1>1. ASSUME NEW r \in Runs, NEW bg \in BOOLEAN, RefreshAll(r, bg)
      PROVE  GuardInv'
  <2>1. ChildrenAreAwaited'
    <3>1. runs[r].pc = "idle" /\ task' = task
          /\ \A s \in Runs : s # r => runs'[s] = runs[s]
      BY <1>1 DEF RefreshAll, TypeOK
    <3>2. QED
      BY <3>1 DEF GuardInv, ChildrenAreAwaited
  <2>2. \A c \in Callers, u \in Upstreams : Active(c, u)' <=> Active(c, u)
    BY <1>1 DEF RefreshAll, Active
  <2>3. QED
    BY <1>1, <2>1, <2>2, GuardKept DEF RefreshAll
<1>2. ASSUME NEW r \in Runs, RunStep(r)
      PROVE  GuardInv'
  <2>1. CASE ListOK(r)
    <3>1. \A u \in Upstreams : task[r][u].pc = "idle"
      BY <2>1 DEF ListOK, GuardInv, ChildrenAreAwaited
    <3>2. \A u \in Upstreams : task'[r][u].pc \in {"idle", "spawned"}
      BY <2>1 DEF ListOK, TypeOK, NoTask, Callers
    <3>3. \A c \in Callers : c # r => task'[c] = task[c]
      BY <2>1 DEF ListOK, TypeOK
    <3>4. \A c \in Callers, u \in Upstreams : Active(c, u)' <=> Active(c, u)
      BY <3>1, <3>2, <3>3 DEF Active, Holding
    <3>5. runs'[r].pc = "waiting" /\ \A s \in Runs : s # r => runs'[s] = runs[s]
      BY <2>1 DEF ListOK, TypeOK, RunRecord
    <3>6. ChildrenAreAwaited'
      BY <3>3, <3>5 DEF GuardInv, ChildrenAreAwaited, Callers
    <3>7. QED
      BY <2>1, <3>4, <3>6, GuardKept DEF ListOK
  <2>2. ASSUME ListError(r) \/ WaitDone(r) \/ PublishAll(r)
        PROVE  GuardInv'
    <3>1. \A u \in Upstreams : task[r][u].pc = "idle"
      BY <2>2 DEF ListError, WaitDone, PublishAll, GuardInv, ChildrenAreAwaited, At
    <3>2. \A s \in Runs : s # r => runs'[s] = runs[s]
      BY <2>2 DEF ListError, WaitDone, PublishAll, TypeOK
    <3>3. task' = task /\ running' = running
      BY <2>2 DEF ListError, WaitDone, PublishAll
    <3>4. ChildrenAreAwaited'
      BY <3>1, <3>2, <3>3 DEF GuardInv, ChildrenAreAwaited
    <3>5. QED
      BY <3>3, <3>4, GuardKept DEF Active
  <2>3. QED
    BY <1>2, <2>1, <2>2 DEF RunStep
<1>3. ASSUME NEW c \in Callers, NEW u \in Upstreams, TaskStep(c, u)
      PROVE  GuardInv'
  <2>1. /\ task[c][u].pc # "idle"
        /\ \A d \in Callers, v \in Upstreams :
               <<d, v>> # <<c, u>> => task'[d][v] = task[d][v]
        /\ \A r \in Runs : runs'[r].pc = runs[r].pc
    BY <1>3, TaskStepEffect
  <2>2. ChildrenAreAwaited'
    BY <2>1 DEF GuardInv, ChildrenAreAwaited, Callers
  <2>3. \A d \in Callers, v \in Upstreams :
            <<d, v>> # <<c, u>> => (Active(d, v)' <=> Active(d, v))
    BY <2>1 DEF Active
  <2>4. CASE running' = running /\ (Active(c, u)' <=> Active(c, u))
    <3>1. \A d \in Callers, v \in Upstreams : Active(d, v)' <=> Active(d, v)
      BY <2>3, <2>4
    <3>2. QED
      BY <2>2, <2>4, <3>1, GuardKept
  <2>5. CASE /\ u \notin running /\ running' = running \cup {u}
             /\ ~Active(c, u) /\ Active(c, u)'
    <3>1. \A d \in Callers : ~Active(d, u)
      BY <2>5 DEF GuardInv, GuardHasHolder
    <3>2. GuardHasHolder'
      BY <2>3, <2>5 DEF GuardInv, GuardHasHolder
    <3>3. OneRefreshPerUpstream'
      BY <2>3, <2>5, <3>1 DEF GuardInv, OneRefreshPerUpstream
    <3>4. QED
      BY <2>2, <3>2, <3>3 DEF GuardInv
  <2>6. CASE /\ running' = running \ {u}
             /\ Active(c, u) /\ ~Active(c, u)'
    <3>1. \A d \in Callers : d # c => ~Active(d, u)
      BY <2>6 DEF GuardInv, OneRefreshPerUpstream
    <3>2. \A d \in Callers : ~Active(d, u)'
      BY <2>3, <2>6, <3>1
    <3>3. GuardHasHolder'
      BY <2>3, <2>6, <3>2 DEF GuardInv, GuardHasHolder
    <3>4. OneRefreshPerUpstream'
      BY <2>3, <3>2 DEF GuardInv, OneRefreshPerUpstream
    <3>5. QED
      BY <2>2, <3>3, <3>4 DEF GuardInv
  <2>7. QED
    BY <1>3, <2>4, <2>5, <2>6, TaskStepEffect
<1>4. ASSUME NEW c \in Requests, NEW u \in Upstreams,
             CreateUpstream(c, u) \/ RequestRefresh(c, u)
      PROVE  GuardInv'
  <2>1. /\ task[c][u].pc = "idle"
        /\ Goto(c, u, [NoTask EXCEPT !.pc = "spawned"])
        /\ UNCHANGED <<running, runs>>
    BY <1>4 DEF CreateUpstream, RequestRefresh, At
  <2>2. task'[c][u].pc = "spawned"
    BY <2>1 DEF Goto, TypeOK, Callers, NoTask
  <2>3. \A d \in Callers, v \in Upstreams :
            <<d, v>> # <<c, u>> => task'[d][v] = task[d][v]
    BY <2>1 DEF Goto, TypeOK
  <2>4. \A d \in Callers, v \in Upstreams : Active(d, v)' <=> Active(d, v)
    BY <2>1, <2>2, <2>3 DEF Active, Holding
  <2>5. ChildrenAreAwaited'
    BY <2>1, <2>3, SlotKinds DEF GuardInv, ChildrenAreAwaited, Callers
  <2>6. QED
    BY <2>1, <2>4, <2>5, GuardKept
<1>5. ASSUME UNCHANGED <<running, runs, task>>
      PROVE  GuardInv'
  BY <1>5 DEF GuardInv, ChildrenAreAwaited, GuardHasHolder,
              OneRefreshPerUpstream, Active
<1>6. CASE Restart
  BY <1>6 DEF Restart, GuardInv, ChildrenAreAwaited, GuardHasHolder,
              OneRefreshPerUpstream, Active, Holding, NoTask, Callers
<1>7. ASSUME NEW u \in Upstreams, UpdateUpstream(u) \/ DeleteUpstream(u)
      PROVE  GuardInv'
  BY <1>5, <1>7 DEF UpdateUpstream, DeleteUpstream
<1>8. CASE Advance \/ Shutdown \/ UNCHANGED vars
  BY <1>5, <1>8 DEF Advance, Shutdown, vars
<1>9. QED
  BY <1>1, <1>2, <1>3, <1>4, <1>6, <1>7, <1>8 DEF Next, Tick

\* Guards and their holders agree in every behaviour.
LEMMA GuardInvariant == Spec => []GuardInv
<1>1. TypeOK /\ GuardInv /\ [Next]_vars => GuardInv'
  BY GuardStep
<1>2. QED
  BY <1>1, GuardInit, TypeCorrect, PTL DEF Spec

\* At most one refresh per upstream, for any number of callers.
THEOREM MutualExclusion == Spec => []OneRefreshPerUpstream
<1>1. GuardInv => OneRefreshPerUpstream
  BY DEF GuardInv
<1>2. QED
  BY <1>1, GuardInvariant, PTL

\* The guard is taken exactly while a refresh holds it: it is never leaked.
THEOREM GuardNotLeaked == Spec => []GuardHasHolder
<1>1. GuardInv => GuardHasHolder
  BY DEF GuardInv
<1>2. QED
  BY <1>1, GuardInvariant, PTL

-----------------------------------------------------------------------------
(* Single flight of RefreshAll                                             *)

\* No step starts a second global refresh or forgets the one there is.
LEMMA SingleFlightStep ==
    ASSUME TypeOK, OneRunAtATime, [Next]_vars
    PROVE  OneRunAtATime'
<1> USE DEF tables, process
<1>1. ASSUME NEW r \in Runs, NEW bg \in BOOLEAN, RefreshAll(r, bg)
      PROVE  OneRunAtATime'
  <2>1. \A s \in Runs : runs[s].pc = "idle"
    BY <1>1 DEF RefreshAll, OneRunAtATime
  <2>2. runs'[r].pc = "listing" /\ \A s \in Runs : s # r => runs'[s] = runs[s]
    BY <1>1 DEF RefreshAll, TypeOK, NoRun
  <2>3. lastAll'.running
    BY <1>1 DEF RefreshAll
  <2>4. QED
    BY <2>1, <2>2, <2>3 DEF OneRunAtATime
<1>2. ASSUME NEW r \in Runs, RunStep(r)
      PROVE  OneRunAtATime'
  <2>1. /\ runs[r].pc # "idle"
        /\ \A s \in Runs : s # r => runs'[s] = runs[s]
    BY <1>2 DEF RunStep, ListOK, ListError, WaitDone, PublishAll, TypeOK
  <2>2. CASE PublishAll(r)
    <3>1. runs'[r].pc = "idle" /\ ~lastAll'.running
      BY <2>2 DEF PublishAll, NoRun, TypeOK
    <3>2. QED
      BY <2>1, <3>1 DEF OneRunAtATime
  <2>3. CASE ListOK(r) \/ ListError(r) \/ WaitDone(r)
    <3>1. runs'[r].pc # "idle" /\ lastAll' = lastAll
      BY <2>3 DEF ListOK, ListError, WaitDone, TypeOK, RunRecord
    <3>2. QED
      BY <2>1, <3>1 DEF OneRunAtATime
  <2>4. QED
    BY <1>2, <2>2, <2>3 DEF RunStep
<1>3. ASSUME NEW c \in Callers, NEW u \in Upstreams, TaskStep(c, u)
      PROVE  OneRunAtATime'
  BY <1>3, TaskStepEffect DEF OneRunAtATime
<1>4. ASSUME UNCHANGED <<runs, lastAll>>
      PROVE  OneRunAtATime'
  BY <1>4 DEF OneRunAtATime
<1>5. ASSUME NEW c \in Callers, NEW u \in Upstreams,
             CreateUpstream(c, u) \/ RequestRefresh(c, u)
      PROVE  OneRunAtATime'
  BY <1>4, <1>5 DEF CreateUpstream, RequestRefresh
<1>6. ASSUME NEW u \in Upstreams, UpdateUpstream(u) \/ DeleteUpstream(u)
      PROVE  OneRunAtATime'
  BY <1>4, <1>6 DEF UpdateUpstream, DeleteUpstream
<1>7. CASE Restart
  BY <1>7 DEF Restart, OneRunAtATime, NoRun
<1>8. CASE Advance \/ Shutdown \/ UNCHANGED vars
  BY <1>4, <1>8 DEF Advance, Shutdown, vars
<1>9. QED
  BY <1>1, <1>2, <1>3, <1>5, <1>6, <1>7, <1>8 DEF Next, Tick, Callers

\* At most one global refresh runs, and lastAll tells the truth about it.
THEOREM SingleFlight == Spec => []OneRunAtATime
<1>1. Init => OneRunAtATime
  <2> SUFFICES ASSUME Init PROVE OneRunAtATime
    OBVIOUS
  <2>1. lastAll = [running |-> FALSE, message |-> ""] /\ runs = [r \in Runs |-> NoRun]
    BY DEF Init
  <2>2. QED
    BY <2>1 DEF OneRunAtATime, NoRun
<1>2. TypeOK /\ OneRunAtATime /\ [Next]_vars => OneRunAtATime'
  BY SingleFlightStep
<1>3. QED
  BY <1>1, <1>2, TypeCorrect, PTL DEF Spec

-----------------------------------------------------------------------------
(* Results never go back in time.  The refresh that holds the guard read   *)
(* the clock after it took the guard, so its stamp is at least the one in  *)
(* the row, and nobody else can change the row before it lets go.          *)

\* The refresh has read the clock.
Stamped(c, u) == Active(c, u) /\ task[c][u].pc # "started"

TimeInv ==
    \A u \in Upstreams :
        /\ upstreams[u].polledAt <= now
        /\ \A c \in Callers : Stamped(c, u) =>
               upstreams[u].polledAt <= task[c][u].at /\ task[c][u].at <= now

\* Times are natural numbers, so that the provers can compare them.
LEMMA NaturalTimes ==
    ASSUME TypeOK
    PROVE  /\ now \in Nat /\ MaxTime \in Nat
           /\ \A u \in Upstreams : upstreams[u].polledAt \in Nat
           /\ \A c \in Callers, u \in Upstreams : task[c][u].at \in Nat
  BY BoundsAssumption DEF TypeOK, UpstreamRow, TaskRecord, Time, Never

\* What one statement of RefreshUpstream can do to stamps and results.
LEMMA TaskStepTime ==
    ASSUME TypeOK, NEW c \in Callers, NEW u \in Upstreams, TaskStep(c, u)
    PROVE  /\ now' = now
           /\ \A v \in Upstreams : v # u => upstreams'[v] = upstreams[v]
           /\ \/ upstreams'[u].polledAt = upstreams[u].polledAt
              \/ Stamped(c, u) /\ upstreams'[u].polledAt = task[c][u].at
           /\ Stamped(c, u)' =>
                \/ Stamped(c, u) /\ task'[c][u].at = task[c][u].at
                \/ task'[c][u].at = now
<1> USE DEF tables, process, At, Active, Stamped
<1>t. task[c][u] \in TaskRecord
  BY DEF TypeOK
<1>s. ASSUME NEW t, Goto(c, u, t)
      PROVE  task'[c][u] = t
  BY <1>s DEF Goto, TypeOK
<1>1. CASE TryStart(c, u)
  <2>1. task'[c][u].pc \in {"started", "returned"}
    BY <1>1, <1>s, <1>t DEF TryStart, TaskRecord
  <2>2. QED
    BY <1>1, <2>1 DEF TryStart, Holding
<1>2. CASE Load(c, u)
  <2>1. \/ task'[c][u] = [task[c][u] EXCEPT !.pc = "fetching", !.at = now]
        \/ task'[c][u] = [task[c][u] EXCEPT !.pc = "releasing", !.at = now, !.err = TRUE]
    BY <1>2, <1>s DEF Load
  <2>2. task'[c][u].at = now
    BY <2>1, <1>t DEF TaskRecord
  <2>3. QED
    BY <1>2, <2>2 DEF Load
<1>3. CASE FetchOK(c, u)
  <2>1. \E pc, report :
           task'[c][u] = [task[c][u] EXCEPT !.pc = pc, !.todo = report,
                                            !.fetchedAt = now]
    BY <1>3, <1>s DEF FetchOK
  <2>2. task'[c][u].at = task[c][u].at
    BY <2>1, <1>t DEF TaskRecord
  <2>3. QED
    BY <1>3, <2>2 DEF FetchOK, Holding
<1>4. CASE FetchError(c, u)
  <2>1. task'[c][u] = [task[c][u] EXCEPT !.pc = "recording", !.err = TRUE]
    BY <1>4, <1>s DEF FetchError
  <2>2. task'[c][u].at = task[c][u].at
    BY <2>1, <1>t DEF TaskRecord
  <2>3. QED
    BY <1>4, <2>2 DEF FetchError, Holding
<1>5. CASE SaveSecret(c, u)
  <2>1. \/ task'[c][u] = [task[c][u] EXCEPT !.pc = "upserting"]
        \/ task'[c][u] = [task[c][u] EXCEPT !.pc = "recording", !.err = TRUE]
    BY <1>5, <1>s DEF SaveSecret
  <2>2. task'[c][u].at = task[c][u].at
    BY <2>1, <1>t DEF TaskRecord
  <2>3. QED
    BY <1>5, <2>2 DEF SaveSecret, Holding
<1>6. CASE \E k \in Keys : UpsertItem(c, u, k) \/ UpsertError(c, u, k)
  <2>1. \/ \E k \in Keys : task'[c][u] = [task[c][u] EXCEPT !.todo[k] = "none"]
        \/ task'[c][u] = [task[c][u] EXCEPT !.pc = "recording", !.err = TRUE,
                              !.fetchedAt = Never, !.todo = NoTask.todo]
    BY <1>6, <1>s DEF UpsertItem, UpsertError
  <2>2. task'[c][u].at = task[c][u].at
    BY <2>1, <1>t DEF TaskRecord
  <2>3. QED
    BY <1>6, <2>2 DEF UpsertItem, UpsertError, Holding
<1>7. CASE UpsertsDone(c, u)
  <2>1. task'[c][u] = [task[c][u] EXCEPT !.pc = "publishing", !.fetchedAt = Never]
    BY <1>7, <1>s DEF UpsertsDone
  <2>2. task'[c][u].at = task[c][u].at
    BY <2>1, <1>t DEF TaskRecord
  <2>3. QED
    BY <1>7, <2>2 DEF UpsertsDone, Holding
<1>8. ASSUME NEW failed \in BOOLEAN, SetUpstreamPollResult(u, task[c][u].at, failed)
      PROVE  /\ \A v \in Upstreams : v # u => upstreams'[v] = upstreams[v]
             /\ \/ upstreams'[u].polledAt = upstreams[u].polledAt
                \/ upstreams'[u].polledAt = task[c][u].at
  BY <1>8 DEF SetUpstreamPollResult, TypeOK, UpstreamRow
<1>9. CASE PublishResult(c, u)
  <2>1. \/ task'[c][u] = [task[c][u] EXCEPT !.pc = "releasing"]
        \/ task'[c][u] = [task[c][u] EXCEPT !.pc = "releasing", !.err = TRUE]
    BY <1>9, <1>s DEF PublishResult
  <2>2. task'[c][u].at = task[c][u].at
    BY <2>1, <1>t DEF TaskRecord
  <2>3. QED
    BY <1>8, <1>9, <2>2 DEF PublishResult, Holding
<1>10. CASE RecordError(c, u)
  <2>1. task'[c][u] = [task[c][u] EXCEPT !.pc = "failing"]
    BY <1>10, <1>s DEF RecordError
  <2>2. task'[c][u].at = task[c][u].at
    BY <2>1, <1>t DEF TaskRecord
  <2>3. QED
    BY <1>8, <1>10, <2>2 DEF RecordError, Holding
<1>11. CASE RecordItemFailure(c, u)
  <2>1. task'[c][u] = [task[c][u] EXCEPT !.pc = "releasing"]
    BY <1>11, <1>s DEF RecordItemFailure
  <2>2. task'[c][u].at = task[c][u].at
    BY <2>1, <1>t DEF TaskRecord
  <2>3. QED
    BY <1>11, <2>2 DEF RecordItemFailure, Holding
<1>12. CASE Finish(c, u)
  <2>1. task'[c][u].pc = "returned"
    BY <1>12, <1>s, <1>t DEF Finish, TaskRecord
  <2>2. QED
    BY <1>12, <2>1 DEF Finish, Holding
<1>13. CASE Return(c, u)
  <2>1. task'[c][u].pc = "idle"
    BY <1>13, <1>s DEF Return, NoTask
  <2>2. QED
    BY <1>13, <2>1 DEF Return, Holding
<1>14. QED
  BY <1>1, <1>2, <1>3, <1>4, <1>5, <1>6, <1>7, <1>9, <1>10, <1>11,
     <1>12, <1>13 DEF TaskStep

\* Initially nothing has been published.
LEMMA TimeInit == Init => TimeInv
<1> SUFFICES ASSUME Init PROVE TimeInv
  OBVIOUS
<1>1. now = 1
  BY DEF Init
<1>2. upstreams = [u \in Upstreams |-> NoRow("unborn")]
  BY DEF Init
<1>3. task = [c \in Callers |-> [u \in Upstreams |-> NoTask]]
  BY DEF Init
<1>4. \A u \in Upstreams : upstreams[u].polledAt = 0
  BY <1>2 DEF NoRow, Never
<1>5. \A c \in Callers, u \in Upstreams : ~Stamped(c, u)
  BY <1>3 DEF Stamped, Active, Holding, NoTask
<1>6. QED
  BY <1>1, <1>4, <1>5 DEF TimeInv

\* No step publishes a time in the future or past the holder of a guard.
LEMMA TimeStep ==
    ASSUME TypeOK, GuardInv, TimeInv, [Next]_vars
    PROVE  TimeInv' /\ \A u \in Upstreams :
               Live(u) /\ Live(u)' => upstreams'[u].polledAt >= upstreams[u].polledAt
<1> USE DEF tables, process
<1>n. /\ now \in Nat /\ MaxTime \in Nat
      /\ \A u \in Upstreams : upstreams[u].polledAt \in Nat
      /\ \A c \in Callers, u \in Upstreams : task[c][u].at \in Nat
  BY NaturalTimes
<1> DEFINE Kept == \A u \in Upstreams :
               Live(u) /\ Live(u)' => upstreams'[u].polledAt >= upstreams[u].polledAt
\* Steps that touch no row, no clock and no stamp.
<1>q. ASSUME now' = now, \A u \in Upstreams : upstreams'[u].polledAt = upstreams[u].polledAt,
             \A c \in Callers, u \in Upstreams :
                 Stamped(c, u)' => Stamped(c, u) /\ task'[c][u].at = task[c][u].at
      PROVE  TimeInv' /\ Kept
  BY <1>q, <1>n DEF TimeInv
<1>1. ASSUME NEW r \in Runs, NEW bg \in BOOLEAN, RefreshAll(r, bg)
      PROVE  TimeInv' /\ Kept
  BY <1>1, <1>q DEF RefreshAll, Stamped, Active
<1>2. ASSUME NEW r \in Runs, RunStep(r)
      PROVE  TimeInv' /\ Kept
  <2>1. now' = now /\ upstreams' = upstreams
    BY <1>2 DEF RunStep, ListOK, ListError, WaitDone, PublishAll
  <2>2. CASE ListOK(r)
    <3>1. \A u \in Upstreams : task'[r][u].pc \in {"idle", "spawned"}
      BY <2>2 DEF ListOK, TypeOK, NoTask, Callers
    <3>2. \A c \in Callers : c # r => task'[c] = task[c]
      BY <2>2 DEF ListOK, TypeOK
    <3>3. \A c \in Callers, u \in Upstreams :
              Stamped(c, u)' => Stamped(c, u) /\ task'[c][u].at = task[c][u].at
      BY <3>1, <3>2 DEF Stamped, Active, Holding
    <3>4. QED
      BY <2>1, <3>3, <1>q
  <2>3. CASE ListError(r) \/ WaitDone(r) \/ PublishAll(r)
    <3>1. task' = task
      BY <2>3 DEF ListError, WaitDone, PublishAll
    <3>2. QED
      BY <2>1, <3>1, <1>q DEF Stamped, Active
  <2>4. QED
    BY <1>2, <2>2, <2>3 DEF RunStep
<1>3. ASSUME NEW c \in Callers, NEW u \in Upstreams, TaskStep(c, u)
      PROVE  TimeInv' /\ Kept
  <2>1. /\ now' = now
        /\ \A v \in Upstreams : v # u => upstreams'[v] = upstreams[v]
        /\ \/ upstreams'[u].polledAt = upstreams[u].polledAt
           \/ Stamped(c, u) /\ upstreams'[u].polledAt = task[c][u].at
        /\ Stamped(c, u)' =>
             \/ Stamped(c, u) /\ task'[c][u].at = task[c][u].at
             \/ task'[c][u].at = now
    BY <1>3, TaskStepTime
  <2>2. \A d \in Callers, v \in Upstreams :
            <<d, v>> # <<c, u>> => task'[d][v] = task[d][v]
    BY <1>3, TaskStepEffect
  <2>3. \A d \in Callers, v \in Upstreams :
            <<d, v>> # <<c, u>> => (Stamped(d, v)' <=> Stamped(d, v))
    BY <2>2 DEF Stamped, Active
  <2>4. Stamped(c, u) => \A d \in Callers : d # c => ~Stamped(d, u)
    BY DEF Stamped, GuardInv, OneRefreshPerUpstream
  <2>5. /\ upstreams'[u].polledAt \in Nat
        /\ upstreams[u].polledAt <= upstreams'[u].polledAt
        /\ upstreams'[u].polledAt <= now
    BY <1>n, <2>1 DEF TimeInv
  <2>6. Kept
    BY <1>n, <2>1, <2>5
  <2>7. ASSUME NEW v \in Upstreams
        PROVE  /\ upstreams'[v].polledAt <= now'
               /\ \A d \in Callers : Stamped(d, v)' =>
                     upstreams'[v].polledAt <= task'[d][v].at /\ task'[d][v].at <= now'
    <3>1. CASE v # u
      BY <3>1, <2>1, <2>2, <2>3 DEF TimeInv
    <3>2. CASE v = u
      <4>1. ASSUME NEW d \in Callers, d # c, Stamped(d, u)'
            PROVE  upstreams'[u].polledAt <= task'[d][u].at /\ task'[d][u].at <= now
        <5>1. Stamped(d, u) /\ task'[d][u].at = task[d][u].at
          BY <4>1, <2>2, <2>3
        <5>2. upstreams'[u].polledAt = upstreams[u].polledAt
          BY <4>1, <5>1, <2>1, <2>4
        <5>3. QED
          BY <5>1, <5>2 DEF TimeInv
      <4>2. Stamped(c, u)' =>
                upstreams'[u].polledAt <= task'[c][u].at /\ task'[c][u].at <= now
        BY <1>n, <2>1, <2>5 DEF TimeInv
      <4>3. QED
        BY <3>2, <4>1, <4>2, <2>1, <2>5
    <3>3. QED
      BY <3>1, <3>2
  <2>8. QED
    BY <2>6, <2>7 DEF TimeInv
<1>4. ASSUME NEW c \in Callers, NEW u \in Upstreams,
             CreateUpstream(c, u) \/ RequestRefresh(c, u)
      PROVE  TimeInv' /\ Kept
  <2>1. Goto(c, u, [NoTask EXCEPT !.pc = "spawned"]) /\ now' = now
    BY <1>4 DEF CreateUpstream, RequestRefresh
  <2>2. task'[c][u].pc = "spawned"
    BY <2>1 DEF Goto, TypeOK, NoTask
  <2>3. \A d \in Callers, v \in Upstreams :
            <<d, v>> # <<c, u>> => task'[d][v] = task[d][v]
    BY <2>1 DEF Goto, TypeOK
  <2>4. \A d \in Callers, v \in Upstreams :
            Stamped(d, v)' => Stamped(d, v) /\ task'[d][v].at = task[d][v].at
    BY <2>2, <2>3 DEF Stamped, Active, Holding
  <2>5. \A v \in Upstreams : upstreams'[v].polledAt = upstreams[v].polledAt
    <3>1. upstreams \in [Upstreams -> UpstreamRow]
      BY DEF TypeOK
    <3>2. \/ upstreams' = upstreams
          \/ \E enabled \in BOOLEAN :
               upstreams' = [upstreams EXCEPT ![u].state = "live", ![u].enabled = enabled]
      BY <1>4 DEF CreateUpstream, RequestRefresh
    <3>3. QED
      BY <3>1, <3>2 DEF UpstreamRow
  <2>6. QED
    BY <2>1, <2>4, <2>5, <1>q
<1>5. ASSUME NEW u \in Upstreams, UpdateUpstream(u)
      PROVE  TimeInv' /\ Kept
  <2>1. \A v \in Upstreams : upstreams'[v].polledAt = upstreams[v].polledAt
    BY <1>5 DEF UpdateUpstream, TypeOK, UpstreamRow
  <2>2. QED
    BY <1>5, <2>1, <1>q DEF UpdateUpstream, Stamped, Active
<1>6. ASSUME NEW u \in Upstreams, DeleteUpstream(u)
      PROVE  TimeInv' /\ Kept
  <2>1. /\ now' = now /\ task' = task
        /\ \A v \in Upstreams : v # u => upstreams'[v] = upstreams[v]
        /\ upstreams'[u] = NoRow("deleted")
    BY <1>6 DEF DeleteUpstream, TypeOK
  <2>2. upstreams'[u].polledAt = 0 /\ ~Live(u)'
    BY <2>1 DEF NoRow, Never, Live
  <2>3. Kept
    BY <1>n, <2>1, <2>2
  <2>4. TimeInv'
    BY <1>n, <2>1, <2>2 DEF TimeInv, Stamped, Active
  <2>5. QED
    BY <2>3, <2>4
<1>7. CASE Advance
  <2>1. now' = now + 1 /\ task' = task /\ upstreams' = upstreams
    BY <1>7 DEF Advance
  <2>2. QED
    BY <1>n, <2>1 DEF TimeInv, Stamped, Active
<1>8. CASE Restart
  <2>1. now' = now /\ upstreams' = upstreams
        /\ task' = [c \in Callers |-> [u \in Upstreams |-> NoTask]]
    BY <1>8 DEF Restart
  <2>2. \A c \in Callers, u \in Upstreams : ~Stamped(c, u)'
    BY <2>1 DEF Stamped, Active, Holding, NoTask
  <2>3. QED
    BY <2>1, <2>2, <1>q
<1>9. CASE Shutdown \/ UNCHANGED vars
  BY <1>9, <1>q DEF Shutdown, vars, Stamped, Active
<1>10. QED
  BY <1>1, <1>2, <1>3, <1>4, <1>5, <1>6, <1>7, <1>8, <1>9 DEF Next, Tick, Callers

\* Times move forward with the guards: TimeInv is an invariant.
LEMMA TimeInvariant == Spec => []TimeInv
<1>1. TypeOK /\ GuardInv /\ TimeInv /\ [Next]_vars => TimeInv'
  BY TimeStep
<1>2. QED
  BY <1>1, TimeInit, TypeCorrect, GuardInvariant, PTL DEF Spec

\* No step takes the published time of a row back.
THEOREM ResultsMoveForward == Spec => PolledAtNeverGoesBack
<1>1. TypeOK /\ GuardInv /\ TimeInv /\ [Next]_vars =>
        [\A u \in Upstreams :
           Live(u) /\ Live(u)' => upstreams'[u].polledAt >= upstreams[u].polledAt]_vars
  BY TimeStep
<1>2. QED
  BY <1>1, TypeCorrect, GuardInvariant, TimeInvariant, PTL
     DEF Spec, PolledAtNeverGoesBack
=============================================================================
