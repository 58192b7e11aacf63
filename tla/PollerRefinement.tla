-------------------------- MODULE PollerRefinement --------------------------
(***************************************************************************)
(* Poller implements RefreshContract, for every set of upstreams, items    *)
(* and slots and every bound: whoever reads last_polled_at and last_error  *)
(* sees one refresh of an upstream after the other.                        *)
(*                                                                         *)
(* The mapping reads the phase and the stamp of an upstream off the slot   *)
(* that holds its guard.  Mutual exclusion makes that slot unique, the     *)
(* agreement of guards and holders makes it exist, and TimeInv is why its  *)
(* stamp is not before the result already published.                       *)
(***************************************************************************)
EXTENDS PollerResults

-----------------------------------------------------------------------------
(* Equality of functions and of rows                                       *)

\* Two functions on a set with the same values are the same.
LEMMA SameFunction ==
    ASSUME NEW S, NEW f, NEW g,
           f = [x \in S |-> f[x]], g = [x \in S |-> g[x]],
           \A x \in S : g[x] = f[x]
    PROVE  g = f
  OBVIOUS

\* A row that is added keeps its other fields.
LEMMA MadeLive ==
    ASSUME NEW live, NEW polledAt, NEW lastError, NEW r,
           r = [live |-> live, polledAt |-> polledAt, lastError |-> lastError]
    PROVE  [r EXCEPT !.live = TRUE] =
               [live |-> TRUE, polledAt |-> polledAt, lastError |-> lastError]
<1> DEFINE s == [r EXCEPT !.live = TRUE]
<1> DEFINE t == [live |-> TRUE, polledAt |-> polledAt, lastError |-> lastError]
<1>1. DOMAIN s = DOMAIN t /\ DOMAIN t = {"live", "polledAt", "lastError"}
  OBVIOUS
<1>2. s.live = t.live /\ s.polledAt = t.polledAt /\ s.lastError = t.lastError
  OBVIOUS
<1>3. s = [x \in DOMAIN s |-> s[x]] /\ t = [x \in DOMAIN t |-> t[x]]
  OBVIOUS
<1> HIDE DEF s, t
<1>4. \A x \in DOMAIN t : s[x] = t[x]
  BY <1>1, <1>2
<1>5. s = t
  BY <1>1, <1>3, <1>4
<1>6. QED
  BY <1>5 DEF s, t

-----------------------------------------------------------------------------
(* What the refinement mapping shows                                       *)

\* The mapped variables are functions on the upstreams, told by the slot that
\* holds the guard, whichever it is.
MapInv ==
    /\ GuardPhase = [u \in Upstreams |-> GuardPhase[u]]
    /\ GuardStamp = [u \in Upstreams |-> GuardStamp[u]]
    /\ PublishedRow = [u \in Upstreams |-> PublishedRow[u]]
    /\ \A u \in Upstreams :
         /\ PublishedRow[u] = [live |-> Live(u), polledAt |-> upstreams[u].polledAt,
                               lastError |-> upstreams[u].lastError]
         /\ u \notin running => GuardPhase[u] = "free" /\ GuardStamp[u] = Never
         /\ \A c \in Callers : Active(c, u) =>
                /\ GuardPhase[u] = PhaseOf(task[c][u].pc)
                /\ GuardStamp[u] = task[c][u].at

\* CHOOSE finds the holder of a guard because there is only one.
LEMMA MapHolds == GuardInv => MapInv
<1> SUFFICES ASSUME GuardInv PROVE MapInv
  OBVIOUS
<1>1. /\ GuardPhase = [u \in Upstreams |-> GuardPhase[u]]
      /\ GuardStamp = [u \in Upstreams |-> GuardStamp[u]]
      /\ PublishedRow = [u \in Upstreams |-> PublishedRow[u]]
  BY DEF GuardPhase, GuardStamp, PublishedRow
<1>2. \A u \in Upstreams :
        PublishedRow[u] = [live |-> Live(u), polledAt |-> upstreams[u].polledAt,
                           lastError |-> upstreams[u].lastError]
  BY DEF PublishedRow
<1>3. \A u \in Upstreams : u \notin running =>
        GuardPhase[u] = "free" /\ GuardStamp[u] = Never
  BY DEF GuardPhase, GuardStamp
<1>4. ASSUME NEW u \in Upstreams, NEW c \in Callers, Active(c, u)
      PROVE  /\ GuardPhase[u] = PhaseOf(task[c][u].pc)
             /\ GuardStamp[u] = task[c][u].at
  <2>1. \A d \in Callers : Active(d, u) => d = c
    BY <1>4 DEF GuardInv, OneRefreshPerUpstream
  <2>2. Holder(u) = c
    BY <1>4, <2>1 DEF Holder
  <2>3. u \in running
    BY <1>4 DEF GuardInv, GuardHasHolder
  <2>4. QED
    BY <2>2, <2>3 DEF GuardPhase, GuardStamp
<1>5. QED
  BY <1>1, <1>2, <1>3, <1>4 DEF MapInv

\* A slot that has not tried the guard has no stamp.
FreshInv ==
    \A c \in Callers, u \in Upstreams :
        task[c][u].pc = "spawned" => task[c][u].at = Never

\* Every step keeps FreshInv.
LEMMA FreshStep ==
    ASSUME TypeOK, FreshInv, [Next]_vars
    PROVE  FreshInv'
<1> USE DEF tables, process
<1>q. ASSUME \A d \in Callers, v \in Upstreams : task'[d][v].pc = "spawned" =>
                 task'[d][v] = task[d][v] \/ task'[d][v].at = Never
      PROVE  FreshInv'
  BY <1>q DEF FreshInv
<1>1. ASSUME NEW r \in Runs, RefreshAll(r, TRUE) \/ RefreshAll(r, FALSE)
      PROVE  FreshInv'
  BY <1>1, <1>q DEF RefreshAll
<1>2. ASSUME NEW r \in Runs, RunStep(r)
      PROVE  FreshInv'
  <2>1. CASE ListOK(r)
    <3>1. \A v \in Upstreams : task'[r][v].at = Never
      BY <2>1 DEF ListOK, TypeOK, NoTask, Callers
    <3>2. \A d \in Callers : d # r => task'[d] = task[d]
      BY <2>1 DEF ListOK, TypeOK
    <3>3. QED
      BY <3>1, <3>2, <1>q
  <2>2. CASE ListError(r) \/ WaitDone(r) \/ PublishAll(r)
    BY <2>2, <1>q DEF ListError, WaitDone, PublishAll
  <2>3. QED
    BY <1>2, <2>1, <2>2 DEF RunStep
<1>3. ASSUME NEW c \in Callers, NEW u \in Upstreams, TaskStep(c, u)
      PROVE  FreshInv'
  <2>1. Edges(c, u)
    BY ControlFlow
  <2>2. task'[c][u].pc # "spawned"
    BY <1>3, <2>1 DEF TaskStep, Edges, Moves
  <2>3. \A d \in Callers, v \in Upstreams :
            <<d, v>> # <<c, u>> => task'[d][v] = task[d][v]
    BY <1>3, TaskStepEffect
  <2>4. QED
    BY <2>2, <2>3, <1>q
<1>4. ASSUME NEW c \in Callers, NEW u \in Upstreams,
             CreateUpstream(c, u) \/ RequestRefresh(c, u)
      PROVE  FreshInv'
  <2>1. Goto(c, u, [NoTask EXCEPT !.pc = "spawned"])
    BY <1>4 DEF CreateUpstream, RequestRefresh
  <2>2. /\ task'[c][u].at = Never
        /\ \A d \in Callers, v \in Upstreams :
               <<d, v>> # <<c, u>> => task'[d][v] = task[d][v]
    BY <2>1 DEF Goto, TypeOK, NoTask
  <2>3. QED
    BY <2>2, <1>q
<1>5. ASSUME NEW u \in Upstreams, UpdateUpstream(u) \/ DeleteUpstream(u)
      PROVE  FreshInv'
  BY <1>5, <1>q DEF UpdateUpstream, DeleteUpstream
<1>6. CASE Advance \/ Shutdown \/ UNCHANGED vars
  BY <1>6, <1>q DEF Advance, Shutdown, vars
<1>7. CASE Restart
  BY <1>7, <1>q DEF Restart, NoTask
<1>8. QED
  BY <1>1, <1>2, <1>3, <1>4, <1>5, <1>6, <1>7 DEF Next, Tick, Callers

\* Only slots that got the guard have read the clock.
LEMMA FreshInvariant == Spec => []FreshInv
<1>1. Init => FreshInv
  <2>1. Init => task = [c \in Callers |-> [u \in Upstreams |-> NoTask]]
    BY DEF Init
  <2>2. QED
    BY <2>1 DEF FreshInv, NoTask
<1>2. TypeOK /\ FreshInv /\ [Next]_vars => FreshInv'
  BY FreshStep
<1>3. QED
  BY <1>1, <1>2, TypeCorrect, PTL DEF Spec

-----------------------------------------------------------------------------
(* Steps and their images                                                  *)

\* What the contract sees of upstream v does not change.
SeenSame(v) ==
    /\ GuardPhase'[v] = GuardPhase[v]
    /\ GuardStamp'[v] = GuardStamp[v]
    /\ PublishedRow'[v] = PublishedRow[v]

RowSame(v) ==
    /\ upstreams'[v].state = upstreams[v].state
    /\ upstreams'[v].polledAt = upstreams[v].polledAt
    /\ upstreams'[v].lastError = upstreams[v].lastError

\* A row that keeps its state and its result is seen the same.
LEMMA RowSeen ==
    ASSUME MapInv, MapInv', NEW v \in Upstreams, RowSame(v)
    PROVE  PublishedRow'[v] = PublishedRow[v]
  BY DEF MapInv, RowSame, Live

\* An upstream whose guard nobody takes or gives back, whose holder stays in
\* its phase with its stamp, is seen the same.
LEMMA GuardSeen ==
    ASSUME MapInv, MapInv', GuardInv, NEW v \in Upstreams,
           v \in running' <=> v \in running,
           \A c \in Callers : Active(c, v) =>
               /\ Active(c, v)'
               /\ PhaseOf(task'[c][v].pc) = PhaseOf(task[c][v].pc)
               /\ task'[c][v].at = task[c][v].at
    PROVE  GuardPhase'[v] = GuardPhase[v] /\ GuardStamp'[v] = GuardStamp[v]
<1>1. CASE v \notin running
  BY <1>1 DEF MapInv
<1>2. CASE v \in running
  <2>1. PICK c \in Callers : Active(c, v)
    BY <1>2 DEF GuardInv, GuardHasHolder
  <2>2. GuardPhase[v] = PhaseOf(task[c][v].pc) /\ GuardStamp[v] = task[c][v].at
    BY <2>1 DEF MapInv
  <2>3. Active(c, v)'
    BY <2>1
  <2>4. GuardPhase'[v] = PhaseOf(task'[c][v].pc) /\ GuardStamp'[v] = task'[c][v].at
    BY <2>3 DEF MapInv
  <2>5. QED
    BY <2>1, <2>2, <2>4
<1>3. QED
  BY <1>1, <1>2

\* A step that shows nothing new of any upstream stutters.
LEMMA Stutter ==
    ASSUME MapInv, MapInv', \A v \in Upstreams : SeenSame(v)
    PROVE  UNCHANGED Contract!cvars
<1>1. GuardPhase' = GuardPhase
  BY SameFunction DEF MapInv, SeenSame
<1>2. GuardStamp' = GuardStamp
  BY SameFunction DEF MapInv, SeenSame
<1>3. PublishedRow' = PublishedRow
  BY SameFunction DEF MapInv, SeenSame
<1>4. QED
  BY <1>1, <1>2, <1>3 DEF Contract!cvars

\* A step that shows something new of one upstream updates the mapped variables
\* at this place.
LEMMA OneSeen ==
    ASSUME MapInv, MapInv', NEW u \in Upstreams,
           \A v \in Upstreams : v # u => SeenSame(v)
    PROVE  /\ GuardPhase' = [GuardPhase EXCEPT ![u] = GuardPhase'[u]]
           /\ GuardStamp' = [GuardStamp EXCEPT ![u] = GuardStamp'[u]]
           /\ PublishedRow' = [PublishedRow EXCEPT ![u] = PublishedRow'[u]]
           /\ GuardPhase'[u] = GuardPhase[u] => GuardPhase' = GuardPhase
           /\ GuardStamp'[u] = GuardStamp[u] => GuardStamp' = GuardStamp
           /\ PublishedRow'[u] = PublishedRow[u] => PublishedRow' = PublishedRow
<1>1. /\ GuardPhase' = [GuardPhase EXCEPT ![u] = GuardPhase'[u]]
      /\ GuardPhase'[u] = GuardPhase[u] => GuardPhase' = GuardPhase
  BY DEF MapInv, SeenSame
<1>2. /\ GuardStamp' = [GuardStamp EXCEPT ![u] = GuardStamp'[u]]
      /\ GuardStamp'[u] = GuardStamp[u] => GuardStamp' = GuardStamp
  BY DEF MapInv, SeenSame
<1>3. /\ PublishedRow' = [PublishedRow EXCEPT ![u] = PublishedRow'[u]]
      /\ PublishedRow'[u] = PublishedRow[u] => PublishedRow' = PublishedRow
  BY DEF MapInv, SeenSame
<1>4. QED
  BY <1>1, <1>2, <1>3

\* A refresh shows nothing new of the upstreams of other refreshes.
LEMMA OthersSeen ==
    ASSUME TypeOK, GuardInv, MapInv, MapInv',
           NEW c \in Callers, NEW u \in Upstreams, TaskStep(c, u),
           NEW v \in Upstreams, v # u
    PROVE  SeenSame(v)
<1>1. upstreams'[v] = upstreams[v]
  BY RowsKept
<1>2. \A d \in Callers : task'[d][v] = task[d][v]
  BY TaskStepEffect
<1>3. v \in running' <=> v \in running
  BY TaskStepEffect
<1>4. PublishedRow'[v] = PublishedRow[v]
  BY <1>1, RowSeen DEF RowSame
<1>5. GuardPhase'[v] = GuardPhase[v] /\ GuardStamp'[v] = GuardStamp[v]
  BY <1>2, <1>3, GuardSeen DEF Active
<1>6. QED
  BY <1>4, <1>5 DEF SeenSame

\* A statement that keeps the guard, the stamp, the phase and the row shows
\* nothing new.
LEMMA QuietTaskStep ==
    ASSUME TypeOK, GuardInv, MapInv, MapInv',
           NEW c \in Callers, NEW u \in Upstreams, TaskStep(c, u),
           upstreams' = upstreams, running' = running,
           Active(c, u) => /\ Active(c, u)'
                           /\ PhaseOf(task'[c][u].pc) = PhaseOf(task[c][u].pc)
                           /\ task'[c][u].at = task[c][u].at
    PROVE  UNCHANGED Contract!cvars
<1>1. PublishedRow'[u] = PublishedRow[u]
  BY RowSeen DEF RowSame
<1>2. \A d \in Callers : d # c => task'[d][u] = task[d][u]
  BY TaskStepEffect
<1>3. \A d \in Callers : Active(d, u) =>
          /\ Active(d, u)'
          /\ PhaseOf(task'[d][u].pc) = PhaseOf(task[d][u].pc)
          /\ task'[d][u].at = task[d][u].at
  BY <1>2 DEF Active
<1>4. GuardPhase'[u] = GuardPhase[u] /\ GuardStamp'[u] = GuardStamp[u]
  BY <1>3, GuardSeen
<1>5. \A v \in Upstreams : SeenSame(v)
  BY <1>1, <1>4, OthersSeen DEF SeenSame
<1>6. QED
  BY <1>5, Stutter

\* The image of each statement of RefreshUpstream.
LEMMA TaskStepImplements ==
    ASSUME TypeOK, TypeOK', GuardInv, TimeInv, FreshInv, MapInv, MapInv',
           NEW c \in Callers, NEW u \in Upstreams, TaskStep(c, u)
    PROVE  [Contract!Next]_(Contract!cvars)
<1> USE DEF tables, Moves, SameAt
<1>e. Edges(c, u)
  BY ControlFlow
<1>o. /\ GuardPhase' = [GuardPhase EXCEPT ![u] = GuardPhase'[u]]
      /\ GuardStamp' = [GuardStamp EXCEPT ![u] = GuardStamp'[u]]
      /\ PublishedRow' = [PublishedRow EXCEPT ![u] = PublishedRow'[u]]
      /\ GuardPhase'[u] = GuardPhase[u] => GuardPhase' = GuardPhase
      /\ GuardStamp'[u] = GuardStamp[u] => GuardStamp' = GuardStamp
      /\ PublishedRow'[u] = PublishedRow[u] => PublishedRow' = PublishedRow
  BY OneSeen, OthersSeen
<1>m. /\ Active(c, u) => GuardPhase[u] = PhaseOf(task[c][u].pc)
                         /\ GuardStamp[u] = task[c][u].at
      /\ Active(c, u)' => GuardPhase'[u] = PhaseOf(task'[c][u].pc)
                          /\ GuardStamp'[u] = task'[c][u].at
  BY DEF MapInv
<1>r. upstreams' = upstreams => PublishedRow' = PublishedRow
  BY <1>o, RowSeen DEF RowSame
<1>1. CASE TryStart(c, u)
  <2>1. CASE u \in running
    <3>1. /\ upstreams' = upstreams /\ running' = running
          /\ task[c][u].pc = "spawned"
      BY <1>1, <2>1, <1>e DEF TryStart, Edges
    <3>2. ~Active(c, u)
      BY <3>1 DEF Active, Holding
    <3>3. QED
      BY <3>1, <3>2, QuietTaskStep
  <2>2. CASE u \notin running
    <3>1. /\ task[c][u].pc = "spawned" /\ task'[c][u].pc = "started"
          /\ task'[c][u].at = task[c][u].at /\ upstreams' = upstreams
      BY <1>1, <2>2, <1>e DEF TryStart, Edges
    <3>2. GuardPhase[u] = "free" /\ GuardStamp[u] = Never
      BY <2>2 DEF MapInv
    <3>3. task'[c][u].at = Never
      BY <3>1 DEF FreshInv
    <3>4. GuardPhase'[u] = "taken" /\ GuardStamp'[u] = Never
      BY <3>1, <3>3, <1>m DEF Active, Holding, PhaseOf
    <3>5. Contract!Take(u)
      BY <3>1, <3>2, <3>4, <1>o, <1>r DEF Contract!Take
    <3>6. QED
      BY <3>5 DEF Contract!Next
  <2>3. QED
    BY <2>1, <2>2
<1>2. CASE Load(c, u)
  <2>1. /\ task[c][u].pc = "started" /\ task'[c][u].pc \in {"fetching", "releasing"}
        /\ task'[c][u].at = now /\ upstreams' = upstreams
    BY <1>2, <1>e DEF Load, Edges
  <2>2. GuardPhase[u] = "taken"
    BY <2>1, <1>m DEF Active, Holding, PhaseOf
  <2>3. GuardPhase'[u] \in {"stamped", "closing"} /\ GuardStamp'[u] = now
    BY <2>1, <1>m DEF Active, Holding, PhaseOf
  <2>4. now \in 1 .. MaxTime /\ now >= PublishedRow[u].polledAt
    <3>1. upstreams[u].polledAt <= now
      BY DEF TimeInv
    <3>2. PublishedRow[u].polledAt = upstreams[u].polledAt
      BY DEF MapInv
    <3>3. now \in 1 .. MaxTime
      BY DEF TypeOK
    <3>4. QED
      BY <3>1, <3>2, <3>3, NaturalTimes
  <2>5. Contract!Stamp(u)
    BY <2>1, <2>2, <2>3, <2>4, <1>o, <1>r DEF Contract!Stamp
  <2>6. QED
    BY <2>5 DEF Contract!Next
<1>3. CASE \/ FetchOK(c, u) \/ FetchError(c, u) \/ SaveSecret(c, u)
           \/ UpsertsDone(c, u)
  <2>1. /\ task[c][u].pc \in {"fetching", "saving", "upserting"}
        /\ task'[c][u].pc \in {"saving", "upserting", "publishing", "recording"}
        /\ task'[c][u].at = task[c][u].at
    BY <1>3, <1>e DEF Edges
  <2>2. UNCHANGED <<upstreams, running>>
    BY <1>3 DEF FetchOK, FetchError, SaveSecret, UpsertsDone
  <2>3. QED
    BY <2>1, <2>2, QuietTaskStep DEF Active, Holding, PhaseOf
<1>4. CASE \E k \in Keys : UpsertItem(c, u, k) \/ UpsertError(c, u, k)
  <2>1. /\ task[c][u].pc = "upserting"
        /\ task'[c][u].pc \in {"upserting", "recording"}
        /\ task'[c][u].at = task[c][u].at
    BY <1>4, <1>e DEF Edges
  <2>2. UNCHANGED <<upstreams, running>>
    BY <1>4 DEF UpsertItem, UpsertError
  <2>3. QED
    BY <2>1, <2>2, QuietTaskStep DEF Active, Holding, PhaseOf
<1>5. ASSUME task[c][u].pc \in {"publishing", "recording"},
             task'[c][u].pc \in {"failing", "releasing"},
             task'[c][u].at = task[c][u].at,
             NEW failed \in BOOLEAN,
             \/ UNCHANGED upstreams
             \/ SetUpstreamPollResult(u, task[c][u].at, failed)
      PROVE  Contract!Publish(u)
  <2>1. /\ GuardPhase[u] = "stamped" /\ GuardStamp[u] = task[c][u].at
        /\ GuardPhase'[u] = "closing" /\ GuardStamp'[u] = task[c][u].at
    BY <1>5, <1>m DEF Active, Holding, PhaseOf
  <2>2. CASE upstreams' = upstreams
    BY <2>1, <2>2, <1>o, <1>r DEF Contract!Publish
  <2>3. CASE upstreams' # upstreams
    <3>1. Live(u) /\ SetUpstreamPollResult(u, task[c][u].at, failed)
      BY <1>5, <2>3 DEF SetUpstreamPollResult
    <3>2. /\ upstreams'[u].state = "live" /\ upstreams'[u].polledAt = task[c][u].at
          /\ upstreams'[u].lastError = failed
      BY <3>1 DEF SetUpstreamPollResult, Live, TypeOK, UpstreamRow
    <3>3. PublishedRow'[u] = [live |-> TRUE, polledAt |-> GuardStamp[u],
                              lastError |-> failed]
      <4>1. PublishedRow'[u] = [live |-> upstreams'[u].state = "live",
                                polledAt |-> upstreams'[u].polledAt,
                                lastError |-> upstreams'[u].lastError]
        BY DEF MapInv, Live
      <4>2. (upstreams'[u].state = "live") = TRUE
        BY <3>2
      <4>3. QED
        BY <2>1, <3>2, <4>1, <4>2
    <3>4. PublishedRow[u].live
      BY <3>1 DEF MapInv
    <3>5. QED
      BY <2>1, <3>3, <3>4, <1>o DEF Contract!Publish
  <2>4. QED
    BY <2>2, <2>3
<1>6. CASE PublishResult(c, u)
  <2>1. /\ task[c][u].pc = "publishing" /\ task'[c][u].pc = "releasing"
        /\ task'[c][u].at = task[c][u].at
    BY <1>6, <1>e DEF Edges
  <2>2. \/ UNCHANGED upstreams
        \/ SetUpstreamPollResult(u, task[c][u].at, FALSE)
    BY <1>6 DEF PublishResult
  <2>3. QED
    BY <2>1, <2>2, <1>5 DEF Contract!Next
<1>7. CASE RecordError(c, u)
  <2>1. /\ task[c][u].pc = "recording" /\ task'[c][u].pc = "failing"
        /\ task'[c][u].at = task[c][u].at
    BY <1>7, <1>e DEF Edges
  <2>2. \/ UNCHANGED upstreams
        \/ SetUpstreamPollResult(u, task[c][u].at, TRUE)
    BY <1>7 DEF RecordError
  <2>3. QED
    BY <2>1, <2>2, <1>5 DEF Contract!Next
<1>8. CASE RecordItemFailure(c, u)
  <2>1. /\ task[c][u].pc = "failing" /\ task'[c][u].pc = "releasing"
        /\ task'[c][u].at = task[c][u].at
    BY <1>8, <1>e DEF Edges
  <2>2. UNCHANGED <<upstreams, running>>
    BY <1>8 DEF RecordItemFailure
  <2>3. QED
    BY <2>1, <2>2, QuietTaskStep DEF Active, Holding, PhaseOf
<1>9. CASE Finish(c, u)
  <2>1. /\ task[c][u].pc = "releasing" /\ upstreams' = upstreams
        /\ running' = running \ {u}
    BY <1>9, <1>e DEF Edges, Finish
  <2>2. GuardPhase[u] = "closing"
    BY <2>1, <1>m DEF Active, Holding, PhaseOf
  <2>3. GuardPhase'[u] = "free" /\ GuardStamp'[u] = Never
    BY <2>1 DEF MapInv
  <2>4. Contract!LetGo(u)
    BY <2>1, <2>2, <2>3, <1>o, <1>r DEF Contract!LetGo, Contract!NoTime, Never
  <2>5. QED
    BY <2>4 DEF Contract!Next
<1>10. CASE Return(c, u)
  <2>1. task[c][u].pc = "returned" /\ UNCHANGED <<upstreams, running>>
    BY <1>10, <1>e DEF Edges, Return
  <2>2. QED
    BY <2>1, QuietTaskStep DEF Active, Holding
<1>11. QED
  BY <1>1, <1>2, <1>3, <1>4, <1>6, <1>7, <1>8, <1>9, <1>10 DEF TaskStep

\* A step that leaves every refresh under way alone, and every row but that of
\* u, shows nothing new but the row of u.
LEMMA GuardsSame ==
    ASSUME GuardInv, MapInv, MapInv', running' = running,
           \A c \in Callers, v \in Upstreams :
               Active(c, v) => task'[c][v] = task[c][v],
           NEW u \in Upstreams, \A v \in Upstreams : v # u => RowSame(v)
    PROVE  /\ GuardPhase' = GuardPhase /\ GuardStamp' = GuardStamp
           /\ PublishedRow' = [PublishedRow EXCEPT ![u] = PublishedRow'[u]]
<1>1. \A v \in Upstreams : GuardPhase'[v] = GuardPhase[v] /\ GuardStamp'[v] = GuardStamp[v]
  BY GuardSeen DEF Active
<1>2. \A v \in Upstreams : v # u => SeenSame(v)
  BY <1>1, RowSeen DEF SeenSame
<1>3. QED
  BY <1>1, <1>2, OneSeen

\* If no row shows a new state or result either, the step stutters.
LEMMA QuietStep ==
    ASSUME GuardInv, MapInv, MapInv', running' = running,
           \A c \in Callers, v \in Upstreams :
               Active(c, v) => task'[c][v] = task[c][v],
           \A v \in Upstreams : RowSame(v)
    PROVE  UNCHANGED Contract!cvars
<1>1. \A v \in Upstreams : GuardPhase'[v] = GuardPhase[v] /\ GuardStamp'[v] = GuardStamp[v]
  BY GuardSeen DEF Active
<1>2. \A v \in Upstreams : SeenSame(v)
  BY <1>1, RowSeen DEF SeenSame
<1>3. QED
  BY <1>2, Stutter

\* Every step of the refresh engine is a step of the contract or a stutter.
LEMMA NextImplements ==
    ASSUME TypeOK, TypeOK', GuardInv, TimeInv, FreshInv, MapInv, MapInv',
           [Next]_vars
    PROVE  [Contract!Next]_(Contract!cvars)
<1> USE DEF tables, process
<1>q. ASSUME running' = running, upstreams' = upstreams,
             \A c \in Callers, v \in Upstreams :
                 Active(c, v) => task'[c][v] = task[c][v]
      PROVE  UNCHANGED Contract!cvars
  <2>1. \A v \in Upstreams : RowSame(v)
    BY <1>q DEF RowSame
  <2>2. QED
    BY <1>q, <2>1, QuietStep
<1>1. ASSUME NEW r \in Runs, RefreshAll(r, TRUE) \/ RefreshAll(r, FALSE)
      PROVE  UNCHANGED Contract!cvars
  BY <1>1, <1>q DEF RefreshAll
<1>2. ASSUME NEW r \in Runs, RunStep(r)
      PROVE  UNCHANGED Contract!cvars
  <2>1. CASE ListOK(r)
    <3>1. \A v \in Upstreams : ~Active(r, v)
      BY <2>1 DEF ListOK, GuardInv, ChildrenAreAwaited, Active, Holding
    <3>2. \A c \in Callers : c # r => task'[c] = task[c]
      BY <2>1 DEF ListOK, TypeOK
    <3>3. QED
      BY <2>1, <3>1, <3>2, <1>q DEF ListOK
  <2>2. CASE ListError(r) \/ WaitDone(r) \/ PublishAll(r)
    BY <2>2, <1>q DEF ListError, WaitDone, PublishAll
  <2>3. QED
    BY <1>2, <2>1, <2>2 DEF RunStep
<1>3. ASSUME NEW c \in Callers, NEW u \in Upstreams, TaskStep(c, u)
      PROVE  [Contract!Next]_(Contract!cvars)
  BY <1>3, TaskStepImplements
<1>f. ASSUME NEW c \in Callers, NEW u \in Upstreams, NEW t,
             task[c][u].pc = "idle", Goto(c, u, t)
      PROVE  \A d \in Callers, v \in Upstreams :
                 Active(d, v) => task'[d][v] = task[d][v]
  <2>1. ~Active(c, u)
    BY <1>f DEF Active, Holding
  <2>2. \A d \in Callers, v \in Upstreams :
            <<d, v>> # <<c, u>> => task'[d][v] = task[d][v]
    BY <1>f DEF Goto, TypeOK
  <2>3. QED
    BY <2>1, <2>2
<1>4. ASSUME NEW c \in Callers, NEW u \in Upstreams, RequestRefresh(c, u)
      PROVE  UNCHANGED Contract!cvars
  <2>1. /\ task[c][u].pc = "idle" /\ Goto(c, u, [NoTask EXCEPT !.pc = "spawned"])
        /\ UNCHANGED <<running, upstreams>>
    BY <1>4 DEF RequestRefresh, At
  <2>2. QED
    BY <2>1, <1>f, <1>q
<1>5. ASSUME NEW c \in Callers, NEW u \in Upstreams, CreateUpstream(c, u)
      PROVE  Contract!Add(u)
  <2>1. PICK enabled \in BOOLEAN :
          upstreams' = [upstreams EXCEPT ![u].state = "live", ![u].enabled = enabled]
    BY <1>5 DEF CreateUpstream
  <2>2. /\ upstreams[u].state = "unborn" /\ upstreams'[u].state = "live"
        /\ upstreams'[u].polledAt = upstreams[u].polledAt
        /\ upstreams'[u].lastError = upstreams[u].lastError
    BY <1>5, <2>1 DEF CreateUpstream, TypeOK, UpstreamRow
  <2>3. \A v \in Upstreams : v # u => RowSame(v)
    BY <2>1 DEF RowSame, TypeOK
  <2>4. /\ task[c][u].pc = "idle" /\ Goto(c, u, [NoTask EXCEPT !.pc = "spawned"])
        /\ running' = running
    BY <1>5 DEF CreateUpstream, At
  <2>5. /\ GuardPhase' = GuardPhase /\ GuardStamp' = GuardStamp
        /\ PublishedRow' = [PublishedRow EXCEPT ![u] = PublishedRow'[u]]
    BY <2>3, <2>4, <1>f, GuardsSame
  <2>6. /\ PublishedRow[u] = [live |-> upstreams[u].state = "live",
                              polledAt |-> upstreams[u].polledAt,
                              lastError |-> upstreams[u].lastError]
        /\ PublishedRow'[u] = [live |-> upstreams'[u].state = "live",
                               polledAt |-> upstreams'[u].polledAt,
                               lastError |-> upstreams'[u].lastError]
    BY DEF MapInv, Live
  <2>n. ~PublishedRow[u].live
    <3>1. PublishedRow[u].live = (upstreams[u].state = "live")
      BY <2>6
    <3>2. upstreams[u].state # "live"
      BY <2>2
    <3>3. QED
      BY <3>1, <3>2, Zenon
  <2>7. PublishedRow'[u] = [PublishedRow[u] EXCEPT !.live = TRUE]
    <3>1. PublishedRow'[u] = [live |-> TRUE, polledAt |-> upstreams[u].polledAt,
                              lastError |-> upstreams[u].lastError]
      <4>1. (upstreams'[u].state = "live") = TRUE
        BY <2>2
      <4>2. QED
        BY <2>2, <2>6, <4>1
    <3>2. [PublishedRow[u] EXCEPT !.live = TRUE] =
              [live |-> TRUE, polledAt |-> upstreams[u].polledAt,
               lastError |-> upstreams[u].lastError]
      BY <2>6, MadeLive
    <3>3. QED
      BY <3>1, <3>2
  <2>8. PublishedRow' = [PublishedRow EXCEPT ![u].live = TRUE]
    BY <2>5, <2>7
  <2>9. QED
    BY <2>5, <2>n, <2>8 DEF Contract!Add
<1>6. ASSUME NEW u \in Upstreams, DeleteUpstream(u)
      PROVE  Contract!Remove(u)
  <2>1. /\ Live(u) /\ upstreams' = [upstreams EXCEPT ![u] = NoRow("deleted")]
        /\ UNCHANGED <<running, task>>
    BY <1>6 DEF DeleteUpstream
  <2>2. \A v \in Upstreams : v # u => RowSame(v)
    BY <2>1 DEF RowSame, TypeOK
  <2>3. /\ GuardPhase' = GuardPhase /\ GuardStamp' = GuardStamp
        /\ PublishedRow' = [PublishedRow EXCEPT ![u] = PublishedRow'[u]]
    BY <2>1, <2>2, GuardsSame
  <2>4. upstreams'[u] = NoRow("deleted")
    BY <2>1 DEF TypeOK
  <2>5. PublishedRow'[u] = Contract!NoRow
    <3>1. PublishedRow'[u] = [live |-> upstreams'[u].state = "live",
                              polledAt |-> upstreams'[u].polledAt,
                              lastError |-> upstreams'[u].lastError]
      BY DEF MapInv, Live
    <3>2. (upstreams'[u].state = "live") = FALSE
      BY <2>4 DEF NoRow
    <3>3. upstreams'[u].polledAt = Never /\ upstreams'[u].lastError = FALSE
      BY <2>4 DEF NoRow
    <3>4. QED
      BY <3>1, <3>2, <3>3 DEF Contract!NoRow, Contract!NoTime, Never
  <2>6. PublishedRow[u].live
    BY <2>1 DEF MapInv
  <2>7. QED
    BY <2>3, <2>5, <2>6 DEF Contract!Remove
<1>7. ASSUME NEW u \in Upstreams, UpdateUpstream(u)
      PROVE  UNCHANGED Contract!cvars
  <2>1. \A v \in Upstreams : RowSame(v)
    BY <1>7 DEF UpdateUpstream, RowSame, TypeOK, UpstreamRow
  <2>2. QED
    BY <1>7, <2>1, QuietStep DEF UpdateUpstream
<1>8. CASE Advance \/ Shutdown \/ UNCHANGED vars
  BY <1>8, <1>q DEF Advance, Shutdown, vars
<1>9. CASE Restart
  <2>1. running' = {} /\ upstreams' = upstreams
    BY <1>9 DEF Restart
  <2>2. \A v \in Upstreams : GuardPhase'[v] = "free" /\ GuardStamp'[v] = Never
    BY <2>1 DEF MapInv
  <2>3. GuardPhase' = [v \in Upstreams |-> "free"]
    BY <2>2 DEF MapInv
  <2>4. GuardStamp' = [v \in Upstreams |-> Contract!NoTime]
    BY <2>2 DEF MapInv, Contract!NoTime, Never
  <2>5. PublishedRow' = PublishedRow
    <3>1. \A v \in Upstreams : PublishedRow'[v] = PublishedRow[v]
      BY <2>1, RowSeen DEF RowSame
    <3>2. QED
      BY <3>1, SameFunction DEF MapInv
  <2>6. QED
    BY <2>3, <2>4, <2>5 DEF Contract!Next, Contract!Lose
<1>10. QED
  BY <1>1, <1>2, <1>3, <1>4, <1>5, <1>6, <1>7, <1>8, <1>9
     DEF Next, Tick, Callers, Contract!Next

\* The initial states are those of the contract.
LEMMA InitImplements == Init => Contract!Init
<1>1. Init => running = {} /\ upstreams = [u \in Upstreams |-> NoRow("unborn")]
  BY DEF Init
<1> SUFFICES ASSUME running = {}, upstreams = [u \in Upstreams |-> NoRow("unborn")]
             PROVE  Contract!Init
  BY <1>1
<1>2. GuardPhase = [u \in Upstreams |-> "free"]
  BY DEF GuardPhase
<1>3. GuardStamp = [u \in Upstreams |-> Contract!NoTime]
  BY DEF GuardStamp, Never, Contract!NoTime
<1>4. \A u \in Upstreams : /\ Live(u) = FALSE
                           /\ upstreams[u].polledAt = Never
                           /\ upstreams[u].lastError = FALSE
  BY DEF Live, NoRow
<1>5. PublishedRow = [u \in Upstreams |-> Contract!NoRow]
  BY <1>4 DEF PublishedRow, Contract!NoRow, Contract!NoTime, Never
<1>6. QED
  BY <1>2, <1>3, <1>5 DEF Contract!Init

\* The refresh engine keeps its contract, whatever the number of upstreams,
\* runs, requests and restarts: refreshes of an upstream follow one another,
\* each publishes at most one result, stamped with the time it began, and that
\* time is never before the result already there.
THEOREM PollerImplementsContract == Spec => ImplementsContract
<1>1. TypeOK /\ TypeOK' /\ GuardInv /\ TimeInv /\ FreshInv /\ MapInv /\ MapInv'
          /\ [Next]_vars => [Contract!Next]_(Contract!cvars)
  BY NextImplements
<1>2. (GuardInv => MapInv) /\ (GuardInv => MapInv)'
  BY MapHolds, PTL
<1>3. QED
  BY <1>1, <1>2, InitImplements, TypeCorrect, GuardInvariant, TimeInvariant,
     FreshInvariant, PTL
     DEF Spec, ImplementsContract, Contract!Spec
=============================================================================
