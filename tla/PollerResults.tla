---------------------------- MODULE PollerResults ----------------------------
(***************************************************************************)
(* Theorems about what the refreshes of Poller leave behind, for every set *)
(* of upstreams, items and slots and every bound: no item outlives its     *)
(* upstream, a completed RefreshAll covers what it listed, and the row of  *)
(* an upstream agrees with its items when no refresh works on it.          *)
(***************************************************************************)
EXTENDS PollerProofs

-----------------------------------------------------------------------------
(* The control flow of RefreshUpstream, seen from the record of its slot   *)

\* The slot goes from one program counter to another; the stamp, the error.
Moves(c, u, from, to) == task[c][u].pc = from /\ task'[c][u].pc = to
SameAt(c, u)  == task'[c][u].at = task[c][u].at
SameErr(c, u) == task'[c][u].err = task[c][u].err

\* What each statement does to the fields pc, at and err.
Edges(c, u) ==
    /\ TryStart(c, u) => /\ Moves(c, u, "spawned", IF u \in running THEN "returned"
                                                                   ELSE "started")
                         /\ SameAt(c, u) /\ SameErr(c, u)
    /\ Load(c, u) => /\ task'[c][u].at = now
                     /\ \/ Moves(c, u, "started", "fetching") /\ Live(u)
                           /\ MaySucceed(c) /\ SameErr(c, u)
                        \/ Moves(c, u, "started", "releasing") /\ task'[c][u].err
    /\ FetchOK(c, u) => /\ \/ Moves(c, u, "fetching", "saving")
                           \/ Moves(c, u, "fetching", "upserting")
                        /\ SameAt(c, u) /\ SameErr(c, u)
    /\ FetchError(c, u) => /\ Moves(c, u, "fetching", "recording")
                           /\ SameAt(c, u) /\ task'[c][u].err
    /\ SaveSecret(c, u) => /\ \/ Moves(c, u, "saving", "upserting") /\ SameErr(c, u)
                              \/ Moves(c, u, "saving", "recording") /\ task'[c][u].err
                           /\ SameAt(c, u)
    /\ \A k \in Keys : UpsertItem(c, u, k) =>
          Moves(c, u, "upserting", "upserting") /\ SameAt(c, u) /\ SameErr(c, u)
    /\ \A k \in Keys : UpsertError(c, u, k) =>
          Moves(c, u, "upserting", "recording") /\ SameAt(c, u) /\ task'[c][u].err
    /\ UpsertsDone(c, u) => /\ Moves(c, u, "upserting", "publishing")
                            /\ SameAt(c, u) /\ SameErr(c, u)
    /\ PublishResult(c, u) =>
          /\ Moves(c, u, "publishing", "releasing") /\ SameAt(c, u)
          /\ task[c][u].err => task'[c][u].err
          /\ task'[c][u].err \/ SetUpstreamPollResult(u, task[c][u].at, FALSE)
    /\ RecordError(c, u) => /\ Moves(c, u, "recording", "failing")
                            /\ SameAt(c, u) /\ SameErr(c, u)
    /\ RecordItemFailure(c, u) => /\ Moves(c, u, "failing", "releasing")
                                  /\ SameAt(c, u) /\ SameErr(c, u)
    /\ Finish(c, u) => /\ Moves(c, u, "releasing", "returned")
                       /\ SameAt(c, u) /\ SameErr(c, u)
    /\ Return(c, u) => Moves(c, u, "returned", "idle")

\* The statements of RefreshUpstream follow each other along Edges.
LEMMA ControlFlow ==
    ASSUME TypeOK, NEW c \in Callers, NEW u \in Upstreams
    PROVE  Edges(c, u)
<1> USE DEF At, Moves, SameAt, SameErr
<1>t. task[c][u] \in TaskRecord
  BY DEF TypeOK
<1>s. ASSUME NEW t, Goto(c, u, t)
      PROVE  task'[c][u] = t
  BY <1>s DEF Goto, TypeOK
<1>1. ASSUME TryStart(c, u)
      PROVE  /\ Moves(c, u, "spawned", IF u \in running THEN "returned" ELSE "started")
             /\ SameAt(c, u) /\ SameErr(c, u)
  <2>1. \/ u \in running /\ task'[c][u] = [task[c][u] EXCEPT !.pc = "returned"]
        \/ u \notin running /\ task'[c][u] = [task[c][u] EXCEPT !.pc = "started"]
    BY <1>1, <1>s DEF TryStart
  <2>2. QED
    BY <1>1, <2>1, <1>t DEF TryStart, TaskRecord
<1>2. ASSUME Load(c, u)
      PROVE  /\ task'[c][u].at = now
             /\ \/ Moves(c, u, "started", "fetching") /\ Live(u)
                   /\ MaySucceed(c) /\ SameErr(c, u)
                \/ Moves(c, u, "started", "releasing") /\ task'[c][u].err
  <2>1. \/ Live(u) /\ MaySucceed(c)
           /\ task'[c][u] = [task[c][u] EXCEPT !.pc = "fetching", !.at = now]
        \/ task'[c][u] = [task[c][u] EXCEPT !.pc = "releasing", !.at = now, !.err = TRUE]
    BY <1>2, <1>s DEF Load
  <2>2. QED
    BY <1>2, <2>1, <1>t DEF Load, TaskRecord
<1>3. ASSUME FetchOK(c, u)
      PROVE  /\ \/ Moves(c, u, "fetching", "saving")
                \/ Moves(c, u, "fetching", "upserting")
             /\ SameAt(c, u) /\ SameErr(c, u)
  <2>1. \E pc \in {"saving", "upserting"} : \E report :
           task'[c][u] = [task[c][u] EXCEPT !.pc = pc, !.todo = report,
                                            !.fetchedAt = now]
    BY <1>3, <1>s DEF FetchOK
  <2>2. task'[c][u].pc \in {"saving", "upserting"} /\ SameAt(c, u) /\ SameErr(c, u)
    BY <2>1, <1>t DEF TaskRecord
  <2>3. QED
    BY <1>3, <2>2 DEF FetchOK
<1>4. ASSUME FetchError(c, u)
      PROVE  Moves(c, u, "fetching", "recording") /\ SameAt(c, u) /\ task'[c][u].err
  BY <1>4, <1>s, <1>t DEF FetchError, TaskRecord
<1>5. ASSUME SaveSecret(c, u)
      PROVE  /\ \/ Moves(c, u, "saving", "upserting") /\ SameErr(c, u)
                \/ Moves(c, u, "saving", "recording") /\ task'[c][u].err
             /\ SameAt(c, u)
  <2>1. \/ task'[c][u] = [task[c][u] EXCEPT !.pc = "upserting"]
        \/ task'[c][u] = [task[c][u] EXCEPT !.pc = "recording", !.err = TRUE]
    BY <1>5, <1>s DEF SaveSecret
  <2>2. QED
    BY <1>5, <2>1, <1>t DEF SaveSecret, TaskRecord
<1>6. ASSUME NEW k \in Keys, UpsertItem(c, u, k)
      PROVE  Moves(c, u, "upserting", "upserting") /\ SameAt(c, u) /\ SameErr(c, u)
  BY <1>6, <1>s, <1>t DEF UpsertItem, TaskRecord
<1>7. ASSUME NEW k \in Keys, UpsertError(c, u, k)
      PROVE  Moves(c, u, "upserting", "recording") /\ SameAt(c, u) /\ task'[c][u].err
  <2>1. task'[c][u] = [task[c][u] EXCEPT !.pc = "recording", !.err = TRUE,
                           !.fetchedAt = Never, !.todo = NoTask.todo]
    BY <1>7, <1>s DEF UpsertError
  <2>2. QED
    BY <1>7, <2>1, <1>t DEF UpsertError, TaskRecord
<1>8. ASSUME UpsertsDone(c, u)
      PROVE  Moves(c, u, "upserting", "publishing") /\ SameAt(c, u) /\ SameErr(c, u)
  BY <1>8, <1>s, <1>t DEF UpsertsDone, TaskRecord
<1>9. ASSUME PublishResult(c, u)
      PROVE  /\ Moves(c, u, "publishing", "releasing") /\ SameAt(c, u)
             /\ task[c][u].err => task'[c][u].err
             /\ task'[c][u].err \/ SetUpstreamPollResult(u, task[c][u].at, FALSE)
  <2>1. \/ /\ task'[c][u] = [task[c][u] EXCEPT !.pc = "releasing"]
           /\ SetUpstreamPollResult(u, task[c][u].at, FALSE)
        \/ task'[c][u] = [task[c][u] EXCEPT !.pc = "releasing", !.err = TRUE]
    BY <1>9, <1>s DEF PublishResult
  <2>2. task[c][u].pc = "publishing"
    BY <1>9 DEF PublishResult
  <2>3. CASE /\ task'[c][u] = [task[c][u] EXCEPT !.pc = "releasing"]
             /\ SetUpstreamPollResult(u, task[c][u].at, FALSE)
    <3>1. /\ task'[c][u].pc = "releasing" /\ task'[c][u].at = task[c][u].at
          /\ task'[c][u].err = task[c][u].err
      BY <2>3, <1>t DEF TaskRecord
    <3>2. QED
      BY <2>2, <2>3, <3>1
  <2>4. CASE task'[c][u] = [task[c][u] EXCEPT !.pc = "releasing", !.err = TRUE]
    <3>1. /\ task'[c][u].pc = "releasing" /\ task'[c][u].at = task[c][u].at
          /\ task'[c][u].err = TRUE
      BY <2>4, <1>t DEF TaskRecord
    <3>2. QED
      BY <2>2, <3>1
  <2>5. QED
    BY <2>1, <2>3, <2>4
<1>10. ASSUME RecordError(c, u)
       PROVE  Moves(c, u, "recording", "failing") /\ SameAt(c, u) /\ SameErr(c, u)
  BY <1>10, <1>s, <1>t DEF RecordError, TaskRecord
<1>11. ASSUME RecordItemFailure(c, u)
       PROVE  Moves(c, u, "failing", "releasing") /\ SameAt(c, u) /\ SameErr(c, u)
  BY <1>11, <1>s, <1>t DEF RecordItemFailure, TaskRecord
<1>12. ASSUME Finish(c, u)
       PROVE  Moves(c, u, "releasing", "returned") /\ SameAt(c, u) /\ SameErr(c, u)
  BY <1>12, <1>s, <1>t DEF Finish, TaskRecord
<1>13. ASSUME Return(c, u)
       PROVE  Moves(c, u, "returned", "idle")
  BY <1>13, <1>s DEF Return, NoTask
<1> HIDE DEF At, Moves, SameAt, SameErr
<1>14. QED
  BY <1>1, <1>2, <1>3, <1>4, <1>5, <1>6, <1>7, <1>8, <1>9, <1>10, <1>11,
     <1>12, <1>13 DEF Edges

\* A refresh never changes whether a row is there, and writes only its own.
LEMMA RowsKept ==
    ASSUME TypeOK, NEW c \in Callers, NEW u \in Upstreams, TaskStep(c, u)
    PROVE  /\ \A v \in Upstreams : /\ upstreams'[v].state = upstreams[v].state
                                   /\ upstreams'[v].enabled = upstreams[v].enabled
           /\ \A v \in Upstreams : v # u =>
                  upstreams'[v] = upstreams[v] /\ items'[v] = items[v]
           /\ ~Live(u) => upstreams' = upstreams
<1> USE DEF tables
<1>1. ASSUME UNCHANGED tables
      PROVE  /\ \A v \in Upstreams : /\ upstreams'[v].state = upstreams[v].state
                                     /\ upstreams'[v].enabled = upstreams[v].enabled
             /\ \A v \in Upstreams : v # u =>
                    upstreams'[v] = upstreams[v] /\ items'[v] = items[v]
             /\ ~Live(u) => upstreams' = upstreams
  BY <1>1
<1>2. CASE \/ TryStart(c, u) \/ Load(c, u) \/ FetchOK(c, u) \/ FetchError(c, u)
           \/ SaveSecret(c, u) \/ UpsertsDone(c, u) \/ Finish(c, u) \/ Return(c, u)
  <2>1. UNCHANGED tables
    BY <1>2 DEF TryStart, Load, FetchOK, FetchError, SaveSecret, UpsertsDone,
                Finish, Return
  <2>2. QED
    BY <1>1, <2>1
<1>3. CASE \/ \E k \in Keys : UpsertItem(c, u, k) \/ UpsertError(c, u, k)
           \/ RecordItemFailure(c, u)
  <2>1. upstreams' = upstreams
    BY <1>3 DEF UpsertItem, UpsertError, RecordItemFailure
  <2>2. \A v \in Upstreams : v # u => items'[v] = items[v]
    BY <1>3 DEF UpsertItem, UpsertError, RecordItemFailure, TypeOK
  <2>3. QED
    BY <2>1, <2>2
<1>4. ASSUME NEW failed \in BOOLEAN, SetUpstreamPollResult(u, task[c][u].at, failed)
      PROVE  /\ \A v \in Upstreams : /\ upstreams'[v].state = upstreams[v].state
                                     /\ upstreams'[v].enabled = upstreams[v].enabled
             /\ \A v \in Upstreams : v # u => upstreams'[v] = upstreams[v]
             /\ ~Live(u) => upstreams' = upstreams
  BY <1>4 DEF SetUpstreamPollResult, TypeOK, UpstreamRow
<1>5. CASE PublishResult(c, u) \/ RecordError(c, u)
  <2>1. items' = items
    BY <1>5 DEF PublishResult, RecordError
  <2>2. \/ upstreams' = upstreams
        \/ \E failed \in BOOLEAN : SetUpstreamPollResult(u, task[c][u].at, failed)
    BY <1>5 DEF PublishResult, RecordError
  <2>3. QED
    BY <1>4, <2>1, <2>2
<1>6. QED
  BY <1>2, <1>3, <1>5 DEF TaskStep

-----------------------------------------------------------------------------
(* No item without its upstream                                            *)

\* One statement of RefreshUpstream writes an item only under a live upstream;
\* RecordUpstreamCheckFailure updates rows and inserts none.
LEMMA TaskStepOrphans ==
    ASSUME TypeOK, NoOrphanItems, NEW c \in Callers, NEW u \in Upstreams,
           TaskStep(c, u)
    PROVE  NoOrphanItems'
<1>1. ASSUME ~Live(u)
      PROVE  items'[u] = items[u]
  <2>1. \A k \in Keys : items[u][k] = NoItem
    BY <1>1 DEF NoOrphanItems
  <2>2. CASE \E k \in Keys : UpsertItem(c, u, k) \/ UpsertError(c, u, k)
    BY <1>1, <2>2 DEF UpsertItem, UpsertError
  <2>3. CASE RecordItemFailure(c, u)
    <3>1. FailedItems(items[u], task[c][u].at) = items[u]
      <4>1. items[u] \in [Keys -> Item]
        BY DEF TypeOK
      <4>2. QED
        BY <2>1, <4>1 DEF FailedItems
    <3>2. QED
      BY <2>3, <3>1 DEF RecordItemFailure, TypeOK
  <2>4. CASE \/ TryStart(c, u) \/ Load(c, u) \/ FetchOK(c, u) \/ FetchError(c, u)
             \/ SaveSecret(c, u) \/ UpsertsDone(c, u) \/ PublishResult(c, u)
             \/ RecordError(c, u) \/ Finish(c, u) \/ Return(c, u)
    BY <2>4 DEF TryStart, Load, FetchOK, FetchError, SaveSecret, UpsertsDone,
                PublishResult, RecordError, Finish, Return, tables
  <2>5. QED
    BY <2>2, <2>3, <2>4 DEF TaskStep
<1>2. \A v \in Upstreams : Live(v)' <=> Live(v)
  BY RowsKept DEF Live
<1>3. \A v \in Upstreams : v # u => items'[v] = items[v]
  BY RowsKept
<1>4. QED
  BY <1>1, <1>2, <1>3 DEF NoOrphanItems

\* Every step keeps items under live upstreams.
LEMMA OrphanStep ==
    ASSUME TypeOK, NoOrphanItems, [Next]_vars
    PROVE  NoOrphanItems'
<1> USE DEF tables, process
<1>1. ASSUME UNCHANGED tables
      PROVE  NoOrphanItems'
  BY <1>1 DEF NoOrphanItems, Live
<1>2. ASSUME NEW r \in Runs, RefreshAll(r, TRUE) \/ RefreshAll(r, FALSE) \/ RunStep(r)
      PROVE  NoOrphanItems'
  BY <1>1, <1>2 DEF RefreshAll, RunStep, ListOK, ListError, WaitDone, PublishAll
<1>3. ASSUME NEW c \in Requests, NEW u \in Upstreams, CreateUpstream(c, u)
      PROVE  NoOrphanItems'
  <2>1. items' = items /\ \A v \in Upstreams : Live(v) => Live(v)'
    BY <1>3 DEF CreateUpstream, Live, TypeOK, UpstreamRow
  <2>2. QED
    BY <2>1 DEF NoOrphanItems
<1>4. ASSUME NEW u \in Upstreams, UpdateUpstream(u)
      PROVE  NoOrphanItems'
  <2>1. items' = items /\ \A v \in Upstreams : Live(v)' <=> Live(v)
    BY <1>4 DEF UpdateUpstream, Live, TypeOK, UpstreamRow
  <2>2. QED
    BY <2>1 DEF NoOrphanItems
<1>5. ASSUME NEW u \in Upstreams, DeleteUpstream(u)
      PROVE  NoOrphanItems'
  <2>1. /\ \A k \in Keys : items'[u][k] = NoItem
        /\ \A v \in Upstreams : v # u =>
               items'[v] = items[v] /\ upstreams'[v] = upstreams[v]
    BY <1>5 DEF DeleteUpstream, TypeOK
  <2>2. QED
    BY <2>1 DEF NoOrphanItems, Live
<1>6. ASSUME NEW c \in Requests, NEW u \in Upstreams, RequestRefresh(c, u)
      PROVE  NoOrphanItems'
  BY <1>1, <1>6 DEF RequestRefresh
<1>7. CASE Advance \/ Shutdown \/ Restart \/ UNCHANGED vars
  BY <1>1, <1>7 DEF Advance, Shutdown, Restart, vars
<1>8. QED
  BY <1>2, <1>3, <1>4, <1>5, <1>6, <1>7, TaskStepOrphans DEF Next, Tick

\* However deletions and refreshes in flight interleave, no item outlives its
\* upstream or is written under one that is gone.
THEOREM ItemsHaveUpstreams == Spec => []NoOrphanItems
<1>1. Init => NoOrphanItems
  <2>1. Init => items = [u \in Upstreams |-> [k \in Keys |-> NoItem]]
    BY DEF Init
  <2>2. QED
    BY <2>1 DEF NoOrphanItems
<1>2. TypeOK /\ NoOrphanItems /\ [Next]_vars => NoOrphanItems'
  BY OrphanStep
<1>3. QED
  BY <1>1, <1>2, TypeCorrect, PTL DEF Spec

-----------------------------------------------------------------------------
(* What "completed" is worth                                               *)

\* The child of run r that refreshes u may still publish a result from after
\* the run began, or it has failed and will say so when it returns.
Pending(r, u) ==
    /\ task[r][u].pc # "idle"
    /\ \/ task[r][u].err
       \/ task[r][u].pc \in {"spawned", "started"}
       \/ /\ task[r][u].pc \in {"fetching", "saving", "upserting", "publishing"}
          /\ task[r][u].at >= runs[r].startedAt

\* What CompletedRunCoversUpstreams says of one upstream of one run.
Covered(r, u) ==
    \/ ~Live(u)
    \/ u \in runs[r].skipped
    \/ upstreams[u].polledAt >= runs[r].startedAt

\* Listed ids are not given again: an upstream that is gone stays gone.
CoverInv ==
    \A r \in Runs :
        /\ runs[r].startedAt <= now
        /\ runs[r].pc = "listing" => runs[r].listed = {}
        /\ \A u \in runs[r].listed :
              /\ upstreams[u].state # "unborn"
              /\ runs[r].errs \/ Covered(r, u) \/ Pending(r, u)

\* What one statement of RefreshUpstream changes in the record of a run.
LEMMA RunsKept ==
    ASSUME TypeOK, NEW c \in Callers, NEW u \in Upstreams, TaskStep(c, u)
    PROVE  \A r \in Runs :
             /\ runs'[r].pc = runs[r].pc
             /\ runs'[r].startedAt = runs[r].startedAt
             /\ runs'[r].listed = runs[r].listed
             /\ runs[r].skipped \subseteq runs'[r].skipped
             /\ runs[r].errs => runs'[r].errs
             /\ r = c /\ TryStart(c, u) /\ u \in running => u \in runs'[r].skipped
             /\ r = c /\ Return(c, u) /\ task[c][u].err => runs'[r].errs
<1>t. \A r \in Runs : runs[r] \in RunRecord
  BY DEF TypeOK
<1>1. CASE TryStart(c, u)
  <2>1. CASE c \in Runs /\ u \in running
    <3>1. runs' = [runs EXCEPT ![c].skipped = @ \cup {u}]
      BY <1>1, <2>1 DEF TryStart
    <3>2. ~Return(c, u)
      BY <1>1 DEF TryStart, Return, At
    <3>3. QED
      BY <3>1, <3>2, <1>t, <2>1 DEF TypeOK, RunRecord
  <2>2. CASE ~(c \in Runs /\ u \in running)
    <3>1. runs' = runs
      BY <1>1, <2>2 DEF TryStart
    <3>2. ~Return(c, u)
      BY <1>1 DEF TryStart, Return, At
    <3>3. QED
      BY <2>2, <3>1, <3>2
  <2>3. QED
    BY <2>1, <2>2
<1>2. CASE Return(c, u)
  <2>1. ~TryStart(c, u)
    BY <1>2 DEF TryStart, Return, At
  <2>2. CASE c \in Runs
    <3>1. runs' = [runs EXCEPT ![c].errs = @ \/ task[c][u].err]
      BY <1>2, <2>2 DEF Return
    <3>2. \A r \in Runs : r # c => runs'[r] = runs[r]
      BY <3>1 DEF TypeOK
    <3>3. /\ runs'[c].pc = runs[c].pc /\ runs'[c].startedAt = runs[c].startedAt
          /\ runs'[c].listed = runs[c].listed /\ runs'[c].skipped = runs[c].skipped
          /\ runs'[c].errs = (runs[c].errs \/ task[c][u].err)
      BY <3>1, <1>t, <2>2 DEF TypeOK, RunRecord
    <3>4. QED
      BY <2>1, <3>2, <3>3
  <2>3. CASE c \notin Runs
    <3>1. runs' = runs
      BY <1>2, <2>3 DEF Return
    <3>2. QED
      BY <2>1, <2>3, <3>1
  <2>4. QED
    BY <2>2, <2>3
<1>3. CASE ~TryStart(c, u) /\ ~Return(c, u)
  <2>1. runs' = runs
    BY <1>3 DEF TaskStep, Load, FetchOK, FetchError, SaveSecret, UpsertItem,
                UpsertError, UpsertsDone, PublishResult, RecordError,
                RecordItemFailure, Finish
  <2>2. QED
    BY <1>3, <2>1
<1>4. QED
  BY <1>1, <1>2, <1>3
\* The step of a child of the run keeps what is promised of its upstream.
LEMMA CoverTaskStep ==
    ASSUME TypeOK, TypeOK', CoverInv,
           NEW c \in Callers, NEW u \in Upstreams, TaskStep(c, u),
           \A v \in Upstreams :
             Live(v) /\ Live(v)' => upstreams'[v].polledAt >= upstreams[v].polledAt
    PROVE  CoverInv'
<1>n. /\ now \in Nat
      /\ \A v \in Upstreams : upstreams[v].polledAt \in Nat
                              /\ upstreams'[v].polledAt \in Nat
      /\ \A d \in Callers, v \in Upstreams : task[d][v].at \in Nat
      /\ \A r \in Runs : runs[r].startedAt \in Nat
  BY BoundsAssumption DEF TypeOK, UpstreamRow, TaskRecord, RunRecord, Time, Never
<1>k. \A r \in Runs :
        /\ runs'[r].pc = runs[r].pc
        /\ runs'[r].startedAt = runs[r].startedAt
        /\ runs'[r].listed = runs[r].listed
        /\ runs[r].skipped \subseteq runs'[r].skipped
        /\ runs[r].errs => runs'[r].errs
        /\ r = c /\ TryStart(c, u) /\ u \in running => u \in runs'[r].skipped
        /\ r = c /\ Return(c, u) /\ task[c][u].err => runs'[r].errs
  BY RunsKept
<1>l. \A v \in Upstreams : /\ upstreams'[v].state = upstreams[v].state
                           /\ Live(v)' <=> Live(v)
  BY RowsKept DEF Live
<1>o. \A d \in Callers, v \in Upstreams :
          <<d, v>> # <<c, u>> => task'[d][v] = task[d][v]
  BY TaskStepEffect
<1>w. now' = now
  BY TaskStepTime
<1>1. ASSUME NEW r \in Runs, NEW v \in Upstreams, Covered(r, v)
      PROVE  Covered(r, v)'
  <2>1. CASE ~Live(v) \/ v \in runs[r].skipped
    BY <2>1, <1>k, <1>l DEF Covered
  <2>2. CASE Live(v) /\ upstreams[v].polledAt >= runs[r].startedAt
    <3>1. upstreams'[v].polledAt >= upstreams[v].polledAt
      BY <2>2, <1>l
    <3>2. upstreams'[v].polledAt >= runs'[r].startedAt
      BY <2>2, <3>1, <1>k, <1>n
    <3>3. QED
      BY <3>2 DEF Covered
  <2>3. QED
    BY <1>1, <2>1, <2>2 DEF Covered
<1>2. ASSUME NEW r \in Runs, NEW v \in Upstreams, Pending(r, v), <<r, v>> # <<c, u>>
      PROVE  Pending(r, v)'
  BY <1>2, <1>k, <1>o DEF Pending, Callers
<1>3. ASSUME c \in Runs, Pending(c, u)
      PROVE  runs'[c].errs \/ Covered(c, u)' \/ Pending(c, u)'
  <2> USE <1>3 DEF Pending, Moves, SameAt, SameErr
  <2>s. runs'[c].startedAt = runs[c].startedAt
    BY <1>k
  <2>t. runs[c].startedAt <= now
    BY DEF CoverInv
  <2>e. Edges(c, u)
    BY ControlFlow
  <2>1. CASE TryStart(c, u)
    <3>1. CASE u \in running
      BY <2>1, <3>1, <1>k DEF Covered
    <3>2. CASE u \notin running
      BY <2>1, <2>e, <3>2 DEF Edges
    <3>3. QED
      BY <3>1, <3>2
  <2>2. CASE Load(c, u)
    <3>1. /\ task'[c][u].at = now
          /\ \/ task'[c][u].pc = "fetching"
             \/ task'[c][u].pc = "releasing" /\ task'[c][u].err
      BY <2>2, <2>e DEF Edges
    <3>2. QED
      BY <3>1, <2>s, <2>t, <1>n
  <2>3. CASE FetchOK(c, u)
    BY <2>3, <2>e, <2>s DEF Edges
  <2>4. CASE FetchError(c, u)
    BY <2>4, <2>e DEF Edges
  <2>5. CASE SaveSecret(c, u)
    BY <2>5, <2>e, <2>s DEF Edges
  <2>6. CASE \E k \in Keys : UpsertItem(c, u, k) \/ UpsertError(c, u, k)
    <3>1. CASE \E k \in Keys : UpsertItem(c, u, k)
      BY <3>1, <2>e, <2>s DEF Edges
    <3>2. CASE \E k \in Keys : UpsertError(c, u, k)
      BY <3>2, <2>e DEF Edges
    <3>3. QED
      BY <2>6, <3>1, <3>2
  <2>7. CASE UpsertsDone(c, u)
    BY <2>7, <2>e, <2>s DEF Edges
  <2>8. CASE PublishResult(c, u)
    <3>1. /\ task[c][u].pc = "publishing" /\ task'[c][u].pc = "releasing"
          /\ task[c][u].err => task'[c][u].err
          /\ task'[c][u].err \/ SetUpstreamPollResult(u, task[c][u].at, FALSE)
      BY <2>8, <2>e DEF Edges
    <3>2. CASE task'[c][u].err
      BY <3>1, <3>2
    <3>3. CASE ~task'[c][u].err
      <4>1. task[c][u].at >= runs[c].startedAt
        BY <3>1, <3>3
      <4>2. Live(u) => upstreams'[u].polledAt = task[c][u].at
        BY <3>1, <3>3 DEF SetUpstreamPollResult, TypeOK, UpstreamRow
      <4>3. Covered(c, u)'
        BY <4>1, <4>2, <1>l, <2>s DEF Covered
      <4>4. QED
        BY <4>3
    <3>4. QED
      BY <3>2, <3>3
  <2>9. CASE RecordError(c, u) \/ RecordItemFailure(c, u) \/ Finish(c, u)
    <3>1. /\ task[c][u].pc \in {"recording", "failing", "releasing"}
          /\ task'[c][u].pc # "idle" /\ task'[c][u].err = task[c][u].err
      BY <2>9, <2>e DEF Edges
    <3>2. QED
      BY <3>1
  <2>10. CASE Return(c, u)
    <3>1. task[c][u].err
      BY <2>10, <2>e DEF Edges
    <3>2. QED
      BY <2>10, <3>1, <1>k
  <2>11. QED
    BY <2>1, <2>2, <2>3, <2>4, <2>5, <2>6, <2>7, <2>8, <2>9, <2>10 DEF TaskStep
<1>4. ASSUME NEW r \in Runs, NEW v \in runs'[r].listed
      PROVE  /\ upstreams'[v].state # "unborn"
             /\ runs'[r].errs \/ Covered(r, v)' \/ Pending(r, v)'
  <2>1. v \in runs[r].listed /\ v \in Upstreams
    BY <1>4, <1>k DEF TypeOK, RunRecord
  <2>2. /\ upstreams[v].state # "unborn"
        /\ runs[r].errs \/ Covered(r, v) \/ Pending(r, v)
    BY <1>4, <1>k, <2>1 DEF CoverInv
  <2>3. CASE runs[r].errs \/ Covered(r, v)
    BY <2>1, <2>2, <2>3, <1>1, <1>k, <1>l
  <2>4. CASE Pending(r, v)
    BY <2>1, <2>2, <2>4, <1>2, <1>3, <1>l
  <2>5. QED
    BY <2>2, <2>3, <2>4
<1>5. \A r \in Runs :
        /\ runs'[r].startedAt <= now'
        /\ runs'[r].pc = "listing" => runs'[r].listed = {}
  BY <1>k, <1>w DEF CoverInv
<1>6. QED
  BY <1>4, <1>5 DEF CoverInv

\* Every step keeps what is promised of the upstreams a run has listed.
LEMMA CoverStep ==
    ASSUME TypeOK, GuardInv, TimeInv, CoverInv, [Next]_vars
    PROVE  CoverInv'
<1> USE DEF tables, process
<1>t. TypeOK'
  BY NextType
<1>m. \A v \in Upstreams :
          Live(v) /\ Live(v)' => upstreams'[v].polledAt >= upstreams[v].polledAt
  BY TimeStep
<1>n. /\ now \in Nat /\ now' \in Nat
      /\ \A v \in Upstreams : upstreams[v].polledAt \in Nat
                              /\ upstreams'[v].polledAt \in Nat
      /\ \A r \in Runs : runs[r].startedAt \in Nat
  BY <1>t, BoundsAssumption DEF TypeOK, UpstreamRow, RunRecord, Time, Never
\* A step that changes no run, no child of a run and revives no upstream.
<1>q. ASSUME runs' = runs, now' >= now, \A r \in Runs : task'[r] = task[r],
             \A v \in Upstreams : upstreams[v].state # "unborn" =>
                 upstreams'[v].state # "unborn" /\ (Live(v)' => Live(v))
      PROVE  CoverInv'
  <2>1. ASSUME NEW r \in Runs, NEW v \in Upstreams,
               upstreams[v].state # "unborn", Covered(r, v)
        PROVE  Covered(r, v)'
    <3>1. CASE ~Live(v) \/ v \in runs[r].skipped
      BY <1>q, <2>1, <3>1 DEF Covered
    <3>2. CASE Live(v) /\ upstreams[v].polledAt >= runs[r].startedAt
      <4>1. CASE Live(v)'
        <5>1. upstreams'[v].polledAt >= upstreams[v].polledAt
          BY <1>m, <3>2, <4>1
        <5>2. upstreams'[v].polledAt >= runs'[r].startedAt
          BY <1>n, <1>q, <3>2, <5>1
        <5>3. QED
          BY <5>2 DEF Covered
      <4>2. CASE ~Live(v)'
        BY <4>2 DEF Covered
      <4>3. QED
        BY <4>1, <4>2
    <3>3. QED
      BY <2>1, <3>1, <3>2 DEF Covered
  <2>2. \A r \in Runs, v \in Upstreams : Pending(r, v) => Pending(r, v)'
    BY <1>q DEF Pending
  <2>3. \A r \in Runs :
          /\ runs'[r].startedAt <= now'
          /\ runs'[r].pc = "listing" => runs'[r].listed = {}
    BY <1>n, <1>q DEF CoverInv
  <2>4. ASSUME NEW r \in Runs, NEW v \in runs'[r].listed
        PROVE  /\ upstreams'[v].state # "unborn"
               /\ runs'[r].errs \/ Covered(r, v)' \/ Pending(r, v)'
    <3>1. v \in Upstreams /\ runs'[r] = runs[r]
      BY <1>q, <2>4 DEF TypeOK, RunRecord
    <3>2. /\ upstreams[v].state # "unborn"
          /\ runs[r].errs \/ Covered(r, v) \/ Pending(r, v)
      BY <2>4, <3>1 DEF CoverInv
    <3>3. QED
      BY <1>q, <2>1, <2>2, <3>1, <3>2
  <2>5. QED
    BY <2>3, <2>4 DEF CoverInv
\* A step of run r that changes no row and no other run.
<1>r. ASSUME NEW r \in Runs, UNCHANGED <<upstreams, now>>,
             \A s \in Runs : s # r => runs'[s] = runs[s] /\ task'[s] = task[s],
             runs'[r].startedAt <= now,
             runs'[r].pc = "listing" => runs'[r].listed = {},
             \A v \in runs'[r].listed :
                 /\ upstreams[v].state # "unborn"
                 /\ runs'[r].errs \/ Covered(r, v)' \/ Pending(r, v)'
      PROVE  CoverInv'
  <2>1. \A s \in Runs, v \in Upstreams : s # r =>
            (Covered(s, v)' <=> Covered(s, v)) /\ (Pending(s, v)' <=> Pending(s, v))
    BY <1>r DEF Covered, Pending, Live
  <2>2. \A s \in Runs : runs[s].listed \subseteq Upstreams
    BY DEF TypeOK, RunRecord
  <2>3. QED
    BY <1>r, <2>1, <2>2 DEF CoverInv
<1>1. ASSUME NEW r \in Runs, NEW bg \in BOOLEAN, RefreshAll(r, bg)
      PROVE  CoverInv'
  <2>1. runs'[r].startedAt = now /\ runs'[r].listed = {}
    BY <1>1 DEF RefreshAll, NoRun, TypeOK
  <2>2. /\ UNCHANGED <<upstreams, now>>
        /\ \A s \in Runs : s # r => runs'[s] = runs[s] /\ task'[s] = task[s]
    BY <1>1 DEF RefreshAll, TypeOK
  <2>3. runs'[r].startedAt <= now
    BY <2>1, <1>n
  <2>4. QED
    BY <1>r, <2>1, <2>2, <2>3
<1>2. ASSUME NEW r \in Runs, ListOK(r)
      PROVE  CoverInv'
  <2> DEFINE listed == {v \in Upstreams : Live(v) /\ upstreams[v].enabled}
  <2>1. /\ runs'[r].listed = listed /\ runs'[r].pc = "waiting"
        /\ runs'[r].startedAt = runs[r].startedAt
        /\ \A s \in Runs : s # r => runs'[s] = runs[s] /\ task'[s] = task[s]
        /\ UNCHANGED <<upstreams, now>>
    BY <1>2 DEF ListOK, TypeOK, RunRecord
  <2>2. \A v \in listed : task'[r][v].pc = "spawned"
    BY <1>2 DEF ListOK, TypeOK, Callers, NoTask
  <2>3. \A v \in listed : upstreams[v].state # "unborn"
    BY DEF Live
  <2>4. \A v \in listed : Pending(r, v)'
    BY <2>2 DEF Pending
  <2>5. runs'[r].startedAt <= now
    BY <2>1 DEF CoverInv
  <2> HIDE DEF listed
  <2>6. QED
    BY <1>r, <2>1, <2>3, <2>4, <2>5
<1>3. ASSUME NEW r \in Runs, ListError(r)
      PROVE  CoverInv'
  <2>1. /\ runs[r].pc = "listing" /\ runs'[r].listed = runs[r].listed
        /\ runs'[r].startedAt = runs[r].startedAt
        /\ \A s \in Runs : s # r => runs'[s] = runs[s] /\ task'[s] = task[s]
        /\ UNCHANGED <<upstreams, now>>
    BY <1>3 DEF ListError, TypeOK, RunRecord
  <2>2. runs'[r].listed = {} /\ runs'[r].startedAt <= now
    BY <2>1 DEF CoverInv
  <2>3. QED
    BY <1>r, <2>1, <2>2
<1>4. ASSUME NEW r \in Runs, WaitDone(r)
      PROVE  CoverInv'
  <2>1. /\ runs'[r].listed = runs[r].listed /\ runs'[r].pc = "finishing"
        /\ runs'[r].startedAt = runs[r].startedAt
        /\ runs'[r].skipped = runs[r].skipped /\ runs'[r].errs = runs[r].errs
        /\ \A s \in Runs : s # r => runs'[s] = runs[s]
        /\ UNCHANGED <<upstreams, now, task>>
    BY <1>4 DEF WaitDone, TypeOK, RunRecord
  <2>2. \A v \in Upstreams :
            (Covered(r, v)' <=> Covered(r, v)) /\ (Pending(r, v)' <=> Pending(r, v))
    BY <2>1 DEF Covered, Pending, Live
  <2>3. \A v \in runs[r].listed :
            /\ v \in Upstreams /\ upstreams[v].state # "unborn"
            /\ runs[r].errs \/ Covered(r, v) \/ Pending(r, v)
    BY DEF CoverInv, TypeOK, RunRecord
  <2>4. runs'[r].startedAt <= now
    BY <2>1 DEF CoverInv
  <2>5. QED
    BY <1>r, <2>1, <2>2, <2>3, <2>4
<1>5. ASSUME NEW r \in Runs, PublishAll(r)
      PROVE  CoverInv'
  <2>1. /\ runs'[r].listed = {} /\ runs'[r].startedAt = 0
        /\ \A s \in Runs : s # r => runs'[s] = runs[s]
        /\ UNCHANGED <<upstreams, now, task>>
    BY <1>5 DEF PublishAll, NoRun, Never, TypeOK
  <2>2. runs'[r].startedAt <= now
    BY <2>1, <1>n
  <2>3. QED
    BY <1>r, <2>1, <2>2
<1>6. ASSUME NEW c \in Callers, NEW u \in Upstreams, TaskStep(c, u)
      PROVE  CoverInv'
  BY <1>6, <1>t, <1>m, CoverTaskStep
<1>7. ASSUME NEW c \in Requests, NEW u \in Upstreams,
             CreateUpstream(c, u) \/ RequestRefresh(c, u)
      PROVE  CoverInv'
  <2>1. /\ runs' = runs /\ now' = now
        /\ \A r \in Runs : task'[r] = task[r]
    BY <1>7, SlotKinds DEF CreateUpstream, RequestRefresh, Goto, TypeOK, Callers
  <2>2. CASE CreateUpstream(c, u)
    <3>1. /\ upstreams[u].state = "unborn" /\ upstreams'[u].state = "live"
          /\ \A v \in Upstreams : v # u => upstreams'[v] = upstreams[v]
      BY <2>2 DEF CreateUpstream, TypeOK, UpstreamRow
    <3>2. QED
      BY <1>n, <1>q, <2>1, <3>1 DEF Live
  <2>3. CASE RequestRefresh(c, u)
    <3>1. upstreams' = upstreams
      BY <2>3 DEF RequestRefresh
    <3>2. QED
      BY <1>n, <1>q, <2>1, <3>1 DEF Live
  <2>4. QED
    BY <1>7, <2>2, <2>3
<1>8. ASSUME NEW u \in Upstreams, UpdateUpstream(u) \/ DeleteUpstream(u)
      PROVE  CoverInv'
  <2>1. /\ runs' = runs /\ now' = now /\ task' = task
        /\ upstreams'[u].state \in {"live", "deleted"} /\ Live(u)
        /\ \A v \in Upstreams : v # u => upstreams'[v] = upstreams[v]
    BY <1>8 DEF UpdateUpstream, DeleteUpstream, NoRow, Live, TypeOK, UpstreamRow
  <2>2. QED
    BY <1>n, <1>q, <2>1 DEF Live
<1>9. CASE Advance \/ Shutdown \/ UNCHANGED vars
  <2>1. /\ runs' = runs /\ task' = task /\ upstreams' = upstreams
        /\ now' = now \/ now' = now + 1
    BY <1>9 DEF Advance, Shutdown, vars
  <2>2. now' >= now
    BY <2>1, <1>n
  <2>3. QED
    BY <1>q, <2>1, <2>2 DEF Live
<1>10. CASE Restart
  <2>1. /\ \A r \in Runs : runs'[r].listed = {} /\ runs'[r].startedAt = 0
        /\ now' = now
    BY <1>10 DEF Restart, NoRun, Never
  <2>2. QED
    BY <2>1, <1>n DEF CoverInv
<1>11. QED
  BY <1>1, <1>2, <1>3, <1>4, <1>5, <1>6, <1>7, <1>8, <1>9, <1>10
     DEF Next, Tick, RunStep

\* What a run has listed is covered, or will be, or the run will report an error.
LEMMA CoverInvariant == Spec => []CoverInv
<1>1. Init => CoverInv
  <2>1. Init => runs = [r \in Runs |-> NoRun] /\ now = 1
    BY DEF Init
  <2>2. QED
    BY <2>1 DEF CoverInv, NoRun, Never
<1>2. TypeOK /\ GuardInv /\ TimeInv /\ CoverInv /\ [Next]_vars => CoverInv'
  BY CoverStep
<1>3. QED
  BY <1>1, <1>2, TypeCorrect, GuardInvariant, TimeInvariant, PTL DEF Spec

\* A RefreshAll that is about to report "completed" has a result at least as
\* recent as itself for each upstream it listed, but for the deleted ones and
\* those it left to a refresh already under way.
THEOREM CompletedMeansCovered == Spec => []CompletedRunCoversUpstreams
<1>1. GuardInv /\ TypeOK /\ CoverInv => CompletedRunCoversUpstreams
  <2> SUFFICES ASSUME GuardInv, TypeOK, CoverInv,
                      NEW r \in Runs, runs[r].pc = "finishing", ~runs[r].errs,
                      NEW u \in runs[r].listed
               PROVE  Covered(r, u)
    BY DEF CompletedRunCoversUpstreams, Covered
  <2>1. u \in Upstreams
    BY DEF TypeOK, RunRecord
  <2>2. ~Pending(r, u)
    BY <2>1 DEF GuardInv, ChildrenAreAwaited, Pending
  <2>3. QED
    BY <2>2 DEF CoverInv
<1>2. QED
  BY <1>1, CoverInvariant, GuardInvariant, TypeCorrect, PTL

-----------------------------------------------------------------------------
(* Rows and items agree between refreshes.  While a refresh works on an    *)
(* upstream they need not: it writes item after item, then the row; or the *)
(* row, then the items.  AgreeDuring says what holds at each of its points.*)

\* The control points behind GetUpstream at which a result is still open.
PastLoad == {"fetching", "saving", "upserting", "publishing", "recording", "failing"}

\* A refresh gets past GetUpstream only for an id that was given.
KnownInv ==
    \A c \in Callers, u \in Upstreams :
        task[c][u].pc \in PastLoad => upstreams[u].state # "unborn"

\* No item bears a failure from after a time.
FailuresBefore(u, at) ==
    \A k \in Keys : items[u][k].failed => items[u][k].at <= at

\* Nothing written yet, or everything; some items written, which bear no failure;
\* the failure written to the row and not yet to the items.
AgreeDuring(c, u) ==
    Live(u) =>
        /\ task[c][u].pc \in {"started", "fetching", "saving", "releasing"} => Agree(u)
        /\ task[c][u].pc \in {"upserting", "publishing"} =>
               FailuresBefore(u, task[c][u].at)
        /\ task[c][u].pc = "failing" =>
               upstreams[u].lastError /\ upstreams[u].polledAt = task[c][u].at

\* The condition of QuietUpstreamsAgree.
Calm == ResultsAreStored /\ ~ctxDone /\ restarts = 0

AgreeInv ==
    Calm => \A u \in Upstreams :
                /\ u \notin running => Agree(u)
                /\ \A c \in Callers : AgreeDuring(c, u)

\* The steps of a refresh keep KnownInv.
LEMMA KnownTaskStep ==
    ASSUME TypeOK, KnownInv, NEW c \in Callers, NEW u \in Upstreams, TaskStep(c, u)
    PROVE  KnownInv'
<1>1. \A v \in Upstreams : upstreams'[v].state = upstreams[v].state
  BY RowsKept
<1>2. \A d \in Callers, v \in Upstreams :
          <<d, v>> # <<c, u>> => task'[d][v] = task[d][v]
  BY TaskStepEffect
<1>3. task'[c][u].pc \in PastLoad => task[c][u].pc \in PastLoad \/ Live(u)
  <2>1. Edges(c, u)
    BY ControlFlow
  <2>2. CASE \E k \in Keys : UpsertItem(c, u, k) \/ UpsertError(c, u, k)
    BY <2>2 DEF UpsertItem, UpsertError, At, PastLoad
  <2>3. CASE ~ \E k \in Keys : UpsertItem(c, u, k) \/ UpsertError(c, u, k)
    BY <2>1, <2>3 DEF TaskStep, Edges, Moves, PastLoad
  <2>4. QED
    BY <2>2, <2>3
<1>4. task'[c][u].pc \in PastLoad => upstreams[u].state # "unborn"
  BY <1>3 DEF KnownInv, Live
<1>5. QED
  BY <1>1, <1>2, <1>4 DEF KnownInv

\* Every step keeps KnownInv.
LEMMA KnownStep ==
    ASSUME TypeOK, KnownInv, [Next]_vars
    PROVE  KnownInv'
<1> USE DEF tables, process
\* A step that starts no refresh past GetUpstream and gives no id.
<1>q. ASSUME \A v \in Upstreams : upstreams[v].state # "unborn" =>
                                      upstreams'[v].state # "unborn",
             \A d \in Callers, v \in Upstreams : task'[d][v].pc \in PastLoad =>
                 task'[d][v] = task[d][v]
      PROVE  KnownInv'
  BY <1>q DEF KnownInv
<1>1. ASSUME NEW r \in Runs, RefreshAll(r, TRUE) \/ RefreshAll(r, FALSE)
      PROVE  KnownInv'
  BY <1>1, <1>q DEF RefreshAll
<1>2. ASSUME NEW r \in Runs, RunStep(r)
      PROVE  KnownInv'
  <2>1. CASE ListOK(r)
    <3>1. \A v \in Upstreams : task'[r][v].pc \in {"idle", "spawned"}
      BY <2>1 DEF ListOK, TypeOK, NoTask, Callers
    <3>2. \A d \in Callers : d # r => task'[d] = task[d]
      BY <2>1 DEF ListOK, TypeOK
    <3>3. \A d \in Callers, v \in Upstreams : task'[d][v].pc \in PastLoad =>
              task'[d][v] = task[d][v]
      BY <3>1, <3>2 DEF PastLoad
    <3>4. QED
      BY <2>1, <3>3, <1>q DEF ListOK
  <2>2. CASE ListError(r) \/ WaitDone(r) \/ PublishAll(r)
    BY <2>2, <1>q DEF ListError, WaitDone, PublishAll
  <2>3. QED
    BY <1>2, <2>1, <2>2 DEF RunStep
<1>3. ASSUME NEW c \in Callers, NEW u \in Upstreams,
             CreateUpstream(c, u) \/ RequestRefresh(c, u)
      PROVE  KnownInv'
  <2>1. Goto(c, u, [NoTask EXCEPT !.pc = "spawned"])
    BY <1>3 DEF CreateUpstream, RequestRefresh
  <2>2. /\ task'[c][u].pc = "spawned"
        /\ \A d \in Callers, v \in Upstreams :
               <<d, v>> # <<c, u>> => task'[d][v] = task[d][v]
    BY <2>1 DEF Goto, TypeOK, NoTask
  <2>3. \A v \in Upstreams : upstreams[v].state # "unborn" =>
                                 upstreams'[v].state # "unborn"
    BY <1>3 DEF CreateUpstream, RequestRefresh, TypeOK, UpstreamRow
  <2>4. QED
    BY <2>2, <2>3, <1>q DEF PastLoad
<1>4. ASSUME NEW u \in Upstreams, UpdateUpstream(u) \/ DeleteUpstream(u)
      PROVE  KnownInv'
  <2>1. /\ task' = task
        /\ \A v \in Upstreams : upstreams[v].state # "unborn" =>
                                    upstreams'[v].state # "unborn"
    BY <1>4 DEF UpdateUpstream, DeleteUpstream, NoRow, TypeOK, UpstreamRow
  <2>2. QED
    BY <2>1, <1>q
<1>5. CASE Advance \/ Shutdown \/ UNCHANGED vars
  BY <1>5, <1>q DEF Advance, Shutdown, vars
<1>6. CASE Restart
  BY <1>6, <1>q DEF Restart, NoTask, PastLoad
<1>7. QED
  BY <1>1, <1>2, <1>3, <1>4, <1>5, <1>6, KnownTaskStep DEF Next, Tick, Callers

\* A step of the refresh that holds the guard keeps what holds at its points;
\* when it lets go of the guard, the row and the items agree.
LEMMA AgreeOwnStep ==
    ASSUME TypeOK, TimeInv, NEW c \in Callers, NEW u \in Upstreams, TaskStep(c, u),
           ~MayFail("SetUpstreamPollResult"), ~MayFail("RecordUpstreamCheckFailure"),
           Active(c, u), AgreeDuring(c, u)
    PROVE  AgreeDuring(c, u)' /\ (~Active(c, u)' => Agree(u)')
<1> USE DEF tables, Moves, SameAt, SameErr, Active
<1>n. /\ upstreams[u].polledAt \in Nat /\ task[c][u].at \in Nat
      /\ \A k \in Keys : items[u][k].at \in Nat
  BY BoundsAssumption DEF TypeOK, UpstreamRow, TaskRecord, Item, NoItem, Time, Never
<1>e. Edges(c, u)
  BY ControlFlow
<1>l. Live(u)' <=> Live(u)
  BY RowsKept DEF Live
<1>k. ASSUME UNCHANGED tables, Agree(u)
      PROVE  Agree(u)'
  BY <1>k DEF Agree, Live
<1>f. ASSUME Live(u), Agree(u), task[c][u].pc \in {"fetching", "saving"}
      PROVE  FailuresBefore(u, task[c][u].at)
  <2>1. upstreams[u].polledAt <= task[c][u].at
    BY <1>f DEF TimeInv, Stamped, Holding
  <2>2. ASSUME NEW k \in Keys, items[u][k].failed
        PROVE  items[u][k].at <= upstreams[u].polledAt
    BY <1>f, <1>n, <2>2 DEF Agree, NoItem
  <2>3. QED
    BY <1>n, <2>1, <2>2 DEF FailuresBefore
<1>1. CASE Load(c, u)
  <2>1. /\ task'[c][u].pc \in {"fetching", "releasing"} /\ task[c][u].pc = "started"
        /\ UNCHANGED tables
    BY <1>1, <1>e DEF Edges, Load
  <2>2. QED
    BY <2>1, <1>k, <1>l DEF AgreeDuring, Holding
<1>2. CASE FetchOK(c, u)
  <2>1. /\ task'[c][u].pc \in {"saving", "upserting"} /\ task[c][u].pc = "fetching"
        /\ task'[c][u].at = task[c][u].at /\ UNCHANGED tables
    BY <1>2, <1>e DEF Edges, FetchOK
  <2>2. QED
    BY <2>1, <1>f, <1>k, <1>l DEF AgreeDuring, FailuresBefore, Holding
<1>3. CASE FetchError(c, u) \/ \E k \in Keys : UpsertError(c, u, k)
  <2>1. task'[c][u].pc = "recording"
    BY <1>3, <1>e DEF Edges
  <2>2. QED
    BY <2>1 DEF AgreeDuring, Holding
<1>4. CASE SaveSecret(c, u)
  <2>1. /\ task'[c][u].pc \in {"upserting", "recording"} /\ task[c][u].pc = "saving"
        /\ task'[c][u].at = task[c][u].at /\ UNCHANGED tables
    BY <1>4, <1>e DEF Edges, SaveSecret
  <2>2. QED
    BY <2>1, <1>f, <1>l DEF AgreeDuring, FailuresBefore, Holding
<1>5. ASSUME NEW k \in Keys, UpsertItem(c, u, k)
      PROVE  AgreeDuring(c, u)' /\ Active(c, u)'
  <2>1. /\ task'[c][u].pc = "upserting" /\ task[c][u].pc = "upserting"
        /\ task'[c][u].at = task[c][u].at
    BY <1>5, <1>e DEF Edges
  <2>2. ~items'[u][k].failed
    BY <1>5 DEF UpsertItem, ItemOf, TypeOK
  <2>3. \A j \in Keys : j # k => items'[u][j] = items[u][j]
    BY <1>5 DEF UpsertItem, TypeOK
  <2>4. FailuresBefore(u, task[c][u].at) => FailuresBefore(u, task[c][u].at)'
    BY <2>1, <2>2, <2>3 DEF FailuresBefore
  <2>5. QED
    BY <2>1, <2>4, <1>l DEF AgreeDuring, Holding
<1>6. CASE UpsertsDone(c, u)
  <2>1. /\ task'[c][u].pc = "publishing" /\ task[c][u].pc = "upserting"
        /\ task'[c][u].at = task[c][u].at /\ UNCHANGED tables
    BY <1>6, <1>e DEF Edges, UpsertsDone
  <2>2. QED
    BY <2>1, <1>l DEF AgreeDuring, FailuresBefore, Holding
<1>7. CASE PublishResult(c, u)
  <2>1. /\ task'[c][u].pc = "releasing" /\ task[c][u].pc = "publishing"
        /\ SetUpstreamPollResult(u, task[c][u].at, FALSE) /\ items' = items
    BY <1>7, <1>e DEF Edges, PublishResult
  <2>2. Live(u) => upstreams'[u].polledAt = task[c][u].at /\ ~upstreams'[u].lastError
    BY <2>1 DEF SetUpstreamPollResult, TypeOK, UpstreamRow
  <2>3. Live(u) => Agree(u)'
    BY <2>1, <2>2 DEF AgreeDuring, FailuresBefore, Agree
  <2>4. QED
    BY <2>1, <2>3, <1>l DEF AgreeDuring, Holding
<1>8. CASE RecordError(c, u)
  <2>1. /\ task'[c][u].pc = "failing" /\ task'[c][u].at = task[c][u].at
        /\ SetUpstreamPollResult(u, task[c][u].at, TRUE)
    BY <1>8, <1>e DEF Edges, RecordError
  <2>2. Live(u) => upstreams'[u].polledAt = task[c][u].at /\ upstreams'[u].lastError
    BY <2>1 DEF SetUpstreamPollResult, TypeOK, UpstreamRow
  <2>3. QED
    BY <2>1, <2>2, <1>l DEF AgreeDuring, Holding
<1>9. CASE RecordItemFailure(c, u)
  <2>1. /\ task'[c][u].pc = "releasing" /\ task[c][u].pc = "failing"
        /\ items'[u] = FailedItems(items[u], task[c][u].at) /\ upstreams' = upstreams
    BY <1>9, <1>e DEF Edges, RecordItemFailure, TypeOK
  <2>2. Live(u) => upstreams'[u].lastError /\ upstreams'[u].polledAt = task[c][u].at
    BY <2>1 DEF AgreeDuring
  <2>3. \A k \in Keys : items'[u][k] # NoItem =>
            items'[u][k].failed /\ items'[u][k].at = task[c][u].at
    BY <2>1 DEF FailedItems
  <2>4. Live(u) => Agree(u)'
    BY <2>2, <2>3 DEF Agree
  <2>5. QED
    BY <2>1, <2>4, <1>l DEF AgreeDuring, Holding
<1>10. CASE Finish(c, u)
  <2>1. /\ task'[c][u].pc = "returned" /\ task[c][u].pc = "releasing"
        /\ UNCHANGED tables
    BY <1>10, <1>e DEF Edges, Finish
  <2>2. Live(u) => Agree(u)'
    BY <2>1, <1>k DEF AgreeDuring
  <2>3. Agree(u)'
    BY <2>2, <1>l DEF Agree
  <2>4. QED
    BY <2>1, <2>3 DEF AgreeDuring
<1>11. ~TryStart(c, u) /\ ~Return(c, u)
  BY DEF TryStart, Return, At, Holding
<1>12. QED
  BY <1>1, <1>2, <1>3, <1>4, <1>5, <1>6, <1>7, <1>8, <1>9, <1>10, <1>11 DEF TaskStep
\* A step of some refresh keeps rows and items in agreement.
LEMMA AgreeTaskStep ==
    ASSUME TypeOK, GuardInv, TimeInv, AgreeInv,
           NEW c \in Callers, NEW u \in Upstreams, TaskStep(c, u)
    PROVE  AgreeInv'
<1> SUFFICES ASSUME Calm'
             PROVE  \A v \in Upstreams : /\ v \notin running' => Agree(v)'
                                         /\ \A d \in Callers : AgreeDuring(d, v)'
  BY DEF AgreeInv
<1>p. UNCHANGED <<ctxDone, restarts>>
  BY DEF TaskStep, TryStart, Load, FetchOK, FetchError, SaveSecret, UpsertItem,
         UpsertError, UpsertsDone, PublishResult, RecordError, RecordItemFailure,
         Finish, Return, process
<1>c. /\ Calm
      /\ ~MayFail("SetUpstreamPollResult") /\ ~MayFail("RecordUpstreamCheckFailure")
  BY <1>p DEF Calm, MayFail, ResultsAreStored
<1>i. \A v \in Upstreams : /\ v \notin running => Agree(v)
                           /\ \A d \in Callers : AgreeDuring(d, v)
  BY <1>c DEF AgreeInv
<1>o. \A d \in Callers, v \in Upstreams :
          <<d, v>> # <<c, u>> => task'[d][v] = task[d][v]
  BY TaskStepEffect
<1>g. \/ running' = running /\ (Active(c, u)' <=> Active(c, u))
      \/ /\ u \notin running /\ running' = running \cup {u}
         /\ ~Active(c, u) /\ Active(c, u)'
      \/ /\ running' = running \ {u}
         /\ Active(c, u) /\ ~Active(c, u)'
  BY TaskStepEffect
<1>1. ASSUME NEW v \in Upstreams, v # u
      PROVE  /\ v \notin running' => Agree(v)'
             /\ \A d \in Callers : AgreeDuring(d, v)'
  <2>1. upstreams'[v] = upstreams[v] /\ items'[v] = items[v]
    BY <1>1, RowsKept
  <2>2. Agree(v)' <=> Agree(v)
    BY <2>1 DEF Agree, Live
  <2>3. \A d \in Callers : AgreeDuring(d, v)' <=> AgreeDuring(d, v)
    BY <1>1, <1>o, <2>1, <2>2 DEF AgreeDuring, FailuresBefore, Live
  <2>4. QED
    BY <1>1, <1>g, <1>i, <2>2, <2>3
<1>2. CASE Active(c, u)
  <2>1. AgreeDuring(c, u)' /\ (~Active(c, u)' => Agree(u)')
    BY <1>2, <1>c, <1>i, AgreeOwnStep
  <2>2. ASSUME NEW d \in Callers, d # c
        PROVE  AgreeDuring(d, u)'
    <3>1. ~Active(d, u)
      BY <1>2, <2>2 DEF GuardInv, OneRefreshPerUpstream
    <3>2. task'[d][u] = task[d][u]
      BY <1>o, <2>2
    <3>3. QED
      BY <3>1, <3>2 DEF AgreeDuring, Active, Holding
  <2>3. u \notin running' => Agree(u)'
    BY <1>2, <1>g, <2>1 DEF GuardInv, GuardHasHolder
  <2>4. QED
    BY <1>1, <2>1, <2>2, <2>3
<1>3. CASE ~Active(c, u)
  <2>1. TryStart(c, u) \/ Return(c, u)
    BY <1>3 DEF TaskStep, Active, Holding, At, Load, FetchOK, FetchError,
         SaveSecret, UpsertItem, UpsertError, UpsertsDone, PublishResult,
         RecordError, RecordItemFailure, Finish
  <2>2. UNCHANGED <<upstreams, items>>
    BY <2>1 DEF TryStart, Return, tables
  <2>3. Agree(u)' <=> Agree(u)
    BY <2>2 DEF Agree, Live
  <2>4. \A d \in Callers : d # c => AgreeDuring(d, u)'
    BY <1>i, <1>o, <2>2, <2>3 DEF AgreeDuring, FailuresBefore, Live
  <2>5. AgreeDuring(c, u)'
    <3>1. task'[c][u].pc \in {"started", "returned", "idle"}
          /\ (task'[c][u].pc = "started" => u \notin running)
      <4>1. Edges(c, u)
        BY ControlFlow
      <4>2. QED
        BY <2>1, <4>1 DEF Edges, Moves
    <3>2. QED
      BY <1>i, <2>3, <3>1 DEF AgreeDuring
  <2>6. u \notin running' => Agree(u)'
    BY <1>3, <1>g, <1>i, <2>3
  <2>7. QED
    BY <1>1, <2>4, <2>5, <2>6
<1>4. QED
  BY <1>2, <1>3

\* Every step keeps rows and items in agreement.
LEMMA AgreeStep ==
    ASSUME TypeOK, GuardInv, TimeInv, KnownInv, NoOrphanItems, AgreeInv, [Next]_vars
    PROVE  AgreeInv'
<1> USE DEF tables, process
\* A step that changes no result, no item and no guard, and starts no refresh.
<1>q. ASSUME Calm' => Calm, running' = running, items' = items,
             \A v \in Upstreams : /\ Live(v)' <=> Live(v)
                                  /\ upstreams'[v].polledAt = upstreams[v].polledAt
                                  /\ upstreams'[v].lastError = upstreams[v].lastError,
             \A d \in Callers, v \in Upstreams :
                 task'[d][v] = task[d][v] \/ task'[d][v].pc \in {"idle", "spawned"}
      PROVE  AgreeInv'
  <2>1. \A v \in Upstreams : Agree(v)' <=> Agree(v)
    BY <1>q DEF Agree
  <2>2. \A d \in Callers, v \in Upstreams : AgreeDuring(d, v) => AgreeDuring(d, v)'
    BY <1>q, <2>1 DEF AgreeDuring, FailuresBefore
  <2>3. QED
    BY <1>q, <2>1, <2>2 DEF AgreeInv
<1>1. ASSUME NEW r \in Runs, RefreshAll(r, TRUE) \/ RefreshAll(r, FALSE)
      PROVE  AgreeInv'
  BY <1>1, <1>q DEF RefreshAll, Calm, Live
<1>2. ASSUME NEW r \in Runs, RunStep(r)
      PROVE  AgreeInv'
  <2>1. UNCHANGED <<running, tables, process>>
    BY <1>2 DEF RunStep, ListOK, ListError, WaitDone, PublishAll
  <2>2. \A d \in Callers, v \in Upstreams :
            task'[d][v] = task[d][v] \/ task'[d][v].pc \in {"idle", "spawned"}
    <3>1. CASE ListOK(r)
      <4>1. \A v \in Upstreams : task'[r][v].pc \in {"idle", "spawned"}
        BY <3>1 DEF ListOK, TypeOK, NoTask, Callers
      <4>2. \A d \in Callers : d # r => task'[d] = task[d]
        BY <3>1 DEF ListOK, TypeOK
      <4>3. QED
        BY <4>1, <4>2
    <3>2. CASE ListError(r) \/ WaitDone(r) \/ PublishAll(r)
      BY <3>2 DEF ListError, WaitDone, PublishAll
    <3>3. QED
      BY <1>2, <3>1, <3>2 DEF RunStep
  <2>3. QED
    BY <2>1, <2>2, <1>q DEF Calm, Live
<1>3. ASSUME NEW c \in Callers, NEW u \in Upstreams,
             Goto(c, u, [NoTask EXCEPT !.pc = "spawned"])
      PROVE  \A d \in Callers, v \in Upstreams :
                 task'[d][v] = task[d][v] \/ task'[d][v].pc = "spawned"
  BY <1>3 DEF Goto, TypeOK, NoTask
<1>4. ASSUME NEW c \in Callers, NEW u \in Upstreams, RequestRefresh(c, u)
      PROVE  AgreeInv'
  <2>1. /\ Goto(c, u, [NoTask EXCEPT !.pc = "spawned"])
        /\ UNCHANGED <<running, tables, process>>
    BY <1>4 DEF RequestRefresh
  <2>2. \A d \in Callers, v \in Upstreams :
            task'[d][v] = task[d][v] \/ task'[d][v].pc \in {"idle", "spawned"}
    BY <2>1, <1>3
  <2>3. QED
    BY <2>1, <2>2, <1>q DEF Calm, Live
<1>5. ASSUME NEW c \in Callers, NEW u \in Upstreams, CreateUpstream(c, u)
      PROVE  AgreeInv'
  <2>1. /\ Goto(c, u, [NoTask EXCEPT !.pc = "spawned"])
        /\ UNCHANGED <<running, items, process>>
        /\ upstreams[u].state = "unborn"
        /\ \A v \in Upstreams : v # u => upstreams'[v] = upstreams[v]
    BY <1>5 DEF CreateUpstream, TypeOK
  <2>2. \A d \in Callers, v \in Upstreams :
            task'[d][v] = task[d][v] \/ task'[d][v].pc = "spawned"
    BY <2>1, <1>3
  <2>3. Agree(u)'
    <3>1. \A k \in Keys : items'[u][k] = NoItem
      BY <2>1 DEF NoOrphanItems, Live
    <3>2. ~NoItem.failed
      BY DEF NoItem
    <3>3. QED
      BY <3>1, <3>2 DEF Agree
  <2>4. \A v \in Upstreams : v # u => (Agree(v)' <=> Agree(v))
    BY <2>1 DEF Agree, Live
  <2>5. \A d \in Callers : task'[d][u].pc \notin PastLoad
    BY <2>1, <2>2 DEF KnownInv, PastLoad
  <2>6. \A d \in Callers : AgreeDuring(d, u)'
    BY <2>3, <2>5 DEF AgreeDuring, PastLoad
  <2>7. \A d \in Callers, v \in Upstreams : v # u =>
            (AgreeDuring(d, v) => AgreeDuring(d, v)')
    BY <2>1, <2>2, <2>4 DEF AgreeDuring, FailuresBefore, Live
  <2>8. QED
    BY <2>1, <2>3, <2>4, <2>6, <2>7 DEF AgreeInv, Calm
<1>6. ASSUME NEW u \in Upstreams, UpdateUpstream(u)
      PROVE  AgreeInv'
  <2>1. /\ UNCHANGED <<running, task, items, process>>
        /\ \A v \in Upstreams : /\ upstreams'[v].state = upstreams[v].state
                                /\ upstreams'[v].polledAt = upstreams[v].polledAt
                                /\ upstreams'[v].lastError = upstreams[v].lastError
    BY <1>6 DEF UpdateUpstream, TypeOK, UpstreamRow
  <2>2. QED
    BY <2>1, <1>q DEF Calm, Live
<1>7. ASSUME NEW u \in Upstreams, DeleteUpstream(u)
      PROVE  AgreeInv'
  <2>1. /\ UNCHANGED <<running, task, process>>
        /\ ~Live(u)'
        /\ \A v \in Upstreams : v # u =>
               upstreams'[v] = upstreams[v] /\ items'[v] = items[v]
    BY <1>7 DEF DeleteUpstream, TypeOK, NoRow, Live
  <2>2. Agree(u)' /\ \A d \in Callers : AgreeDuring(d, u)'
    BY <2>1 DEF Agree, AgreeDuring
  <2>3. \A v \in Upstreams : v # u => (Agree(v)' <=> Agree(v))
    BY <2>1 DEF Agree, Live
  <2>4. \A d \in Callers, v \in Upstreams : v # u =>
            (AgreeDuring(d, v) => AgreeDuring(d, v)')
    BY <2>1, <2>3 DEF AgreeDuring, FailuresBefore, Live
  <2>5. QED
    BY <2>1, <2>2, <2>3, <2>4 DEF AgreeInv, Calm
<1>8. CASE Advance \/ UNCHANGED vars
  BY <1>8, <1>q DEF Advance, vars, Calm, Live
<1>9. CASE Shutdown \/ Restart
  <2>1. ~Calm'
    <3>1. restarts \in Nat
      BY BoundsAssumption DEF TypeOK
    <3>2. ctxDone' = TRUE \/ restarts' = restarts + 1
      BY <1>9 DEF Shutdown, Restart
    <3>3. QED
      BY <3>1, <3>2 DEF Calm
  <2>2. QED
    BY <2>1 DEF AgreeInv
<1>10. QED
  BY <1>1, <1>2, <1>4, <1>5, <1>6, <1>7, <1>8, <1>9, AgreeTaskStep
     DEF Next, Tick, Callers

\* Results are open only for ids that were given.
LEMMA KnownInvariant == Spec => []KnownInv
<1>1. Init => KnownInv
  <2>1. Init => task = [c \in Callers |-> [u \in Upstreams |-> NoTask]]
    BY DEF Init
  <2>2. QED
    BY <2>1 DEF KnownInv, PastLoad, NoTask
<1>2. TypeOK /\ KnownInv /\ [Next]_vars => KnownInv'
  BY KnownStep
<1>3. QED
  BY <1>1, <1>2, TypeCorrect, PTL DEF Spec

\* If the two statements that store a result do not fail and nobody stops the
\* process, then the row and the items of an upstream that no refresh works on tell
\* of the same poll, whatever statuses a fetch reports and whichever of the other
\* statements fails, for any number of items and of refreshes asked for meanwhile.
THEOREM RowsAgreeWithItems == Spec => []QuietUpstreamsAgree
<1>1. Init => AgreeInv
  <2>1. Init => /\ upstreams = [u \in Upstreams |-> NoRow("unborn")]
                /\ task = [c \in Callers |-> [u \in Upstreams |-> NoTask]]
    BY DEF Init
  <2>2. QED
    BY <2>1 DEF AgreeInv, Agree, AgreeDuring, Live, NoRow
<1>2. TypeOK /\ GuardInv /\ TimeInv /\ KnownInv /\ NoOrphanItems /\ AgreeInv
          /\ [Next]_vars => AgreeInv'
  BY AgreeStep
<1>3. AgreeInv => QuietUpstreamsAgree
  BY DEF AgreeInv, QuietUpstreamsAgree, Calm
<1>4. QED
  BY <1>1, <1>2, <1>3, TypeCorrect, GuardInvariant, TimeInvariant, KnownInvariant,
     ItemsHaveUpstreams, PTL DEF Spec
=============================================================================
