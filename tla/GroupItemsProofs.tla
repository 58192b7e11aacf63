-------------------------- MODULE GroupItemsProofs --------------------------
(***************************************************************************)
(* Theorems about GroupItems, for any groups, display names, accounts,     *)
(* channels, monitors and ratios and any number of changes: the types and  *)
(* the keys of the rows, and, when no display name is empty or shared,     *)
(* that a row never shows the ratio of another group.                      *)
(***************************************************************************)
EXTENDS GroupItems, FiniteSetTheorems, TLAPS

-----------------------------------------------------------------------------
(* The operators                                                           *)

\* The constants have their types.
LEMMA Constants ==
    /\ Names \subseteq GroupNames /\ Blank \in GroupNames /\ Blank \notin Names
    /\ Default \in Names
    /\ \A n \in Names : Displays[n] \subseteq GroupNames
    /\ NoRatio \in Ratio
    /\ \A n \in Names : Given(n) \subseteq Ratio /\ NoRatio \in Given(n)
  BY GroupAssumption DEF GroupNames, NoRatio, Given, Ratio

\* The first group of a set, if any, is in it.
LEMMA FirstIn ==
    ASSUME NEW gs, NEW S
    PROVE  First(gs, S) \in S \cup {NoGroup}
  BY DEF First

\* GroupRatio of a group or none is a ratio.
LEMMA GroupRatioType ==
    ASSUME NEW gs \in [Names -> Group], NEW n \in Names \cup {NoGroup}
    PROVE  GroupRatio(gs, n) \in Ratio
  BY Constants DEF GroupRatio, Group

\* A ratio found by name is a ratio.
LEMMA ManualRatioType ==
    ASSUME NEW gs \in [Names -> Group], NEW name
    PROVE  ManualRatioForGroup(gs, name) \in Ratio
<1>1. First(gs, {n \in Names : gs[n].ratio # NoRatio /\ Called(gs, n, name)})
        \in Names \cup {NoGroup}
  BY FirstIn
<1>2. QED
  BY <1>1, GroupRatioType DEF ManualRatioForGroup

\* The groups of a report are groups, or none.
LEMMA EnabledType ==
    ASSUME NEW gs
    PROVE  /\ EnabledGroups(gs) \subseteq Names \cup {NoGroup}
           /\ \A name : GroupForName(gs, name) \in Names \cup {NoGroup}
           /\ \A n \in Names \cup {NoGroup} : NameOf(n) \in Names
<1>1. Enabled(gs) \subseteq Names
  BY DEF Enabled
<1>2. ASSUME NEW name PROVE GroupForName(gs, name) \in Names \cup {NoGroup}
  BY <1>1, FirstIn DEF GroupForName
<1>3. QED
  BY <1>1, <1>2, Constants DEF EnabledGroups, NameOf, NoGroup

\* A report is of the user's own view or of the admin API, which show what they name.
LEMMA ReportKinds ==
    ASSUME TypeOK, NEW report \in Reports(groups)
    PROVE  \/ /\ report \in {UserItems(groups), CallOnlyItems(groups)}
              /\ remote["user"] \in GroupNames
           \/ report = ChannelItems(groups)
           \/ /\ \/ report = AccountItems(groups)
                 \/ report = AccountItems(groups) \cup MonitorItems(groups)
              /\ \A a \in Accounts \cup Monitors : remote[a] \in GroupNames
<1>1. /\ mode = "user" \/ AdminFails => remote["user"] \in GroupNames
      /\ mode = "sub2api_admin" => \A a \in Accounts \cup Monitors : remote[a] \in GroupNames
  BY Constants DEF TypeOK, Visible
<1>2. \/ /\ mode = "user" \/ AdminFails
         /\ report \in {UserItems(groups), CallOnlyItems(groups)}
      \/ /\ mode = "newapi_admin"
         /\ report = ChannelItems(groups)
      \/ /\ mode = "sub2api_admin"
         /\ \/ report = AccountItems(groups)
            \/ report = AccountItems(groups) \cup MonitorItems(groups)
  BY Zenon DEF Reports
<1>3. QED
  BY <1>1, <1>2

\* The items of every report are rows.
LEMMA ReportType ==
    ASSUME TypeOK, NEW report \in Reports(groups)
    PROVE  report \subseteq Row
<1>g. groups \in [Names -> Group]
  BY DEF TypeOK
<1>e. /\ UserIds \subseteq ExternalId /\ Accounts \subseteq ExternalId
      /\ Channels \subseteq ExternalId /\ Monitors \subseteq ExternalId
      /\ "user:7" \in UserIds /\ "user:self" \in UserIds
  BY DEF ExternalId, AccountIds, UserIds
<1>i. ASSUME NEW n \in Names \cup {NoGroup}, NEW ext \in ExternalId,
             NEW name \in GroupNames, NEW ratio \in Ratio
      PROVE  Item(n, ext, name, ratio) \in Row
  BY DEF Item, Row
<1>1. CASE /\ report \in {UserItems(groups), CallOnlyItems(groups)}
           /\ remote["user"] \in GroupNames
  <2>1. remote["user"] \in GroupNames
    BY <1>1
  <2>2. UserItems(groups) \subseteq Row
    <3> DEFINE name == IF remote["user"] = Blank THEN Default ELSE remote["user"]
    <3>1. name \in GroupNames
      BY <2>1, Constants
    <3>2. Item(GroupForName(groups, name), "user:7", name, ManualRatioForGroup(groups, name))
            \in Row
      BY <3>1, <1>g, <1>e, <1>i, EnabledType, ManualRatioType
    <3>3. QED
      BY <3>2 DEF UserItems
  <2>3. CallOnlyItems(groups) \subseteq Row
    BY <1>g, <1>e, <1>i, Constants, EnabledType, ManualRatioType DEF CallOnlyItems
  <2>4. QED
    BY <1>1, <2>2, <2>3
<1>2. CASE report = ChannelItems(groups)
  <2>1. ASSUME NEW p \in EnabledGroups(groups) \X Channels
        PROVE  Item(p[1], p[2], NameOf(p[1]), GroupRatio(groups, p[1])) \in Row
    <3>1. p[1] \in Names \cup {NoGroup} /\ p[2] \in ExternalId
      BY <1>e, EnabledType
    <3>2. QED
      BY <3>1, <1>g, <1>i, Constants, EnabledType, GroupRatioType
  <2>2. ChannelItems(groups) \subseteq Row
    BY <2>1 DEF ChannelItems
  <2>3. QED
    BY <1>2, <2>2
<1>3. CASE /\ \/ report = AccountItems(groups)
              \/ report = AccountItems(groups) \cup MonitorItems(groups)
           /\ \A a \in Accounts \cup Monitors : remote[a] \in GroupNames
  <2>1. \A a \in Accounts \cup Monitors : remote[a] \in GroupNames
    BY <1>3
  <2>2. ASSUME NEW p \in EnabledGroups(groups) \X Accounts
        PROVE  Item(p[1], p[2],
                    IF p[1] = NoGroup /\ remote[p[2]] # Blank THEN remote[p[2]]
                    ELSE NameOf(p[1]),
                    GroupRatio(groups, p[1])) \in Row
    <3>1. p[1] \in Names \cup {NoGroup} /\ p[2] \in ExternalId /\ p[2] \in Accounts
      BY <1>e, EnabledType
    <3>2. (IF p[1] = NoGroup /\ remote[p[2]] # Blank THEN remote[p[2]]
           ELSE NameOf(p[1])) \in GroupNames
      BY <3>1, <2>1, Constants, EnabledType
    <3>3. QED
      BY <3>1, <3>2, <1>g, <1>i, GroupRatioType
  <2>3. AccountItems(groups) \subseteq Row
    BY <2>2 DEF AccountItems
  <2>4. MonitorItems(groups) \subseteq Row
    BY <2>1, <1>g, <1>e, <1>i, ManualRatioType DEF MonitorItems
  <2>5. QED
    BY <1>3, <2>3, <2>4
<1>4. QED
  BY <1>1, <1>2, <1>3, ReportKinds

-----------------------------------------------------------------------------
(* Types and keys                                                          *)

\* The rows of the table and the items of the refresh are rows.
LEMMA RowsTyped ==
    ASSUME TypeOK
    PROVE  rows \subseteq Row /\ task.todo \subseteq Row /\ task.writing \subseteq Row
  BY DEF TypeOK, Task

\* The initial states have the types.
LEMMA InitType == Init => TypeOK
<1> SUFFICES ASSUME Init PROVE TypeOK
  OBVIOUS
<1>1. groups \in [Names -> Group]
  <2>1. Absent \in Group
    BY Constants DEF Absent, Group
  <2>2. PICK n \in Names, enabled \in BOOLEAN : \E display \in Displays[n] :
          groups = [m \in Names |->
             IF m = n THEN [id |-> 1, display |-> display, enabled |-> enabled,
                            ratio |-> NoRatio]
             ELSE Absent]
    BY DEF Init
  <2>3. PICK display \in Displays[n] :
          groups = [m \in Names |->
             IF m = n THEN [id |-> 1, display |-> display, enabled |-> enabled,
                            ratio |-> NoRatio]
             ELSE Absent]
    BY <2>2
  <2>4. [id |-> 1, display |-> display, enabled |-> enabled, ratio |-> NoRatio] \in Group
    BY Constants DEF Group
  <2>5. QED
    BY <2>1, <2>3, <2>4
<1>2. Idle \in Task
  BY DEF Idle, Task
<1>3. QED
  BY <1>1, <1>2, GroupAssumption DEF Init, TypeOK

\* The ids a change gives are naturals.
LEMMA IdsType ==
    /\ \A S \in SUBSET Names : Cardinality(S) \in Nat
    /\ LastId \in Nat
<1>1. \A S \in SUBSET Names : Cardinality(S) \in Nat
  BY GroupAssumption, FS_Subset, FS_CardinalityType
<1>2. QED
  BY <1>1 DEF LastId, Existing

\* The groups of a form, with their places for ids.
LEMMA FormType ==
    ASSUME TypeOK, NEW S \in SUBSET Names, NEW form \in Forms(S)
    PROVE  /\ DOMAIN form = S
           /\ \A n \in S : /\ form[n] \in Group
                           /\ form[n].id > 0
                           /\ form[n].display \in Displays[n]
                           /\ form[n].ratio \in Given(n)
<1> DEFINE D == {d \in [S -> GroupNames] : \A n \in S : d[n] \in Displays[n]}
           R == {f \in [S -> Ratio] : \A n \in S : f[n] \in Given(n)}
           F(place, display, enabled, ratio) ==
               [n \in S |-> [id |-> place[n], display |-> display[n],
                             enabled |-> n \in enabled, ratio |-> ratio[n]]]
<1>0. Forms(S) = {F(place, display, enabled, ratio) :
                    place \in Orders(S), display \in D, enabled \in SUBSET S, ratio \in R}
  BY DEF Forms
<1> HIDE DEF D, R, F
<1>1. PICK place \in Orders(S), display \in D, enabled \in SUBSET S, ratio \in R :
        form = F(place, display, enabled, ratio)
  BY <1>0
<1> USE DEF D, R, F
<1>2. place \in [S -> 1 .. Cardinality(S)] /\ Cardinality(S) \in Nat
  BY IdsType DEF Orders
<1>3. ASSUME NEW n \in S
      PROVE  /\ form[n] \in Group
             /\ form[n].id > 0
             /\ form[n].display \in Displays[n]
             /\ form[n].ratio \in Given(n)
  <2>1. place[n] \in Nat /\ place[n] > 0
    BY <1>2
  <2>2. (n \in enabled) \in BOOLEAN
    OBVIOUS
  <2>3. form[n] = [id |-> place[n], display |-> display[n],
                   enabled |-> n \in enabled, ratio |-> ratio[n]]
    BY <1>1
  <2>4. QED
    BY <2>1, <2>2, <2>3 DEF Group
<1>4. QED
  BY <1>1, <1>3

\* What a PUT writes: groups, with an id when they are in the form or existed.
LEMMA UpsertedType ==
    ASSUME TypeOK, NEW S \in SUBSET Names, NEW form \in Forms(S)
    PROVE  /\ Upserted(form) \in [Names -> Group]
           /\ \A n \in S : /\ Upserted(form)[n].id > 0
                           /\ Upserted(form)[n].display = form[n].display
                           /\ Upserted(form)[n].ratio = form[n].ratio
           /\ \A n \in Names \ S : /\ Upserted(form)[n].id = groups[n].id
                                   /\ Upserted(form)[n].display = groups[n].display
                                   /\ Upserted(form)[n].ratio = groups[n].ratio
<1>1. groups \in [Names -> Group]
  BY DEF TypeOK
<1>2. ASSUME NEW n \in Names, n \in S
      PROVE  /\ Upserted(form)[n] \in Group
             /\ Upserted(form)[n].id > 0
             /\ Upserted(form)[n].display = form[n].display
             /\ Upserted(form)[n].ratio = form[n].ratio
  <2> DEFINE newer == {m \in DOMAIN form \ Existing : form[m].id <= form[n].id}
             id == IF n \in Existing THEN groups[n].id ELSE LastId + Cardinality(newer)
  <2>1. form[n] \in Group /\ form[n].id > 0 /\ n \in DOMAIN form
    BY <1>2, FormType
  <2>2. id \in Nat /\ id > 0
    <3>1. CASE n \in Existing
      BY <1>1, <3>1 DEF Existing, Group
    <3>2. CASE n \notin Existing
      <4>1. newer \in SUBSET Names /\ n \in newer
        BY <2>1, <3>2, FormType DEF Group
      <4>2. IsFiniteSet(newer) /\ Cardinality(newer) \in Nat
        BY <4>1, IdsType, GroupAssumption, FS_Subset
      <4>3. Cardinality(newer) # 0
        BY <4>1, <4>2, FS_EmptySet
      <4>4. QED
        BY <3>2, <4>2, <4>3, IdsType
    <3>3. QED
      BY <3>1, <3>2
  <2>3. Upserted(form)[n] = [form[n] EXCEPT !.id = id]
    BY <2>1 DEF Upserted
  <2>4. QED
    BY <2>1, <2>2, <2>3 DEF Group
<1>3. ASSUME NEW n \in Names, n \notin S
      PROVE  /\ Upserted(form)[n] \in Group
             /\ Upserted(form)[n].id = groups[n].id
             /\ Upserted(form)[n].display = groups[n].display
             /\ Upserted(form)[n].ratio = groups[n].ratio
  <2>1. Upserted(form)[n] = [groups[n] EXCEPT !.enabled = FALSE]
    BY <1>3, FormType DEF Upserted
  <2>2. QED
    BY <1>1, <2>1 DEF Group
<1>4. Upserted(form) \in [Names -> Group]
  BY <1>2, <1>3 DEF Upserted
<1>5. QED
  BY <1>2, <1>3, <1>4

\* A row that moves goes to a group of the form that goes by the name of the row.
LEMMA DestinationType ==
    ASSUME TypeOK, NEW S \in SUBSET Names, NEW form \in Forms(S), NEW r \in rows,
           Destination(r, form) # NoGroup
    PROVE  /\ r.group = NoGroup
           /\ Destination(r, form) \in S
           /\ Called(form, Destination(r, form), r.gname)
<1>1. r.group = NoGroup
  BY DEF Destination
<1>2. Destination(r, form) = First(form, {n \in DOMAIN form : Called(form, n, r.gname)})
  BY <1>1 DEF Destination
<1>3. Destination(r, form) \in {n \in DOMAIN form : Called(form, n, r.gname)}
  BY <1>2, FirstIn
<1>4. QED
  BY <1>1, <1>3, FormType

\* A PUT that is not refused moves rows without making two of one key.
LEMMA AttachedType ==
    ASSUME TypeOK, NEW S \in SUBSET Names, NEW form \in Forms(S), ~Conflict(form)
    PROVE  /\ Attached(form) \subseteq Row
           /\ \A r, s \in Attached(form) : r.group = s.group /\ r.ext = s.ext => r = s
<1> DEFINE Moved(r) == LET to == Destination(r, form)
                       IN IF to = NoGroup THEN r ELSE [r EXCEPT !.group = to, !.gname = to]
<1>1. Attached(form) = {Moved(r) : r \in rows}
  BY DEF Attached
<1>2. ASSUME NEW r \in rows
      PROVE  /\ Moved(r) \in Row
             /\ Moved(r).ext = r.ext
             /\ IF Destination(r, form) = NoGroup THEN Moved(r) = r
                ELSE Moved(r).group = Destination(r, form)
  <2>1. r \in Row
    BY RowsTyped
  <2>2. CASE Destination(r, form) = NoGroup
    BY <2>1, <2>2
  <2>3. CASE Destination(r, form) # NoGroup
    <3>1. Destination(r, form) \in Names
      BY <2>3, DestinationType
    <3>2. Moved(r) = [r EXCEPT !.group = Destination(r, form), !.gname = Destination(r, form)]
      BY <2>3
    <3>3. QED
      BY <2>1, <2>3, <3>1, <3>2, Constants DEF Row
  <2>4. QED
    BY <2>2, <2>3
<1>3. ASSUME NEW r \in rows, NEW s \in rows,
             Moved(r).group = Moved(s).group, Moved(r).ext = Moved(s).ext
      PROVE  Moved(r) = Moved(s)
  <2>1. r.ext = s.ext
    BY <1>2, <1>3
  <2>2. CASE Destination(r, form) = NoGroup /\ Destination(s, form) = NoGroup
    BY <1>2, <1>3, <2>2 DEF TypeOK
  <2>3. CASE Destination(r, form) # NoGroup /\ Destination(s, form) # NoGroup
    <3>1. r.group = s.group
      BY <2>3, DestinationType
    <3>2. r = s
      BY <2>1, <3>1 DEF TypeOK
    <3>3. QED
      BY <3>2
  <2>4. CASE Destination(r, form) # NoGroup /\ Destination(s, form) = NoGroup
    BY <1>2, <1>3, <2>1, <2>4 DEF Conflict
  <2>5. CASE Destination(r, form) = NoGroup /\ Destination(s, form) # NoGroup
    BY <1>2, <1>3, <2>1, <2>5 DEF Conflict
  <2>6. QED
    BY <2>2, <2>3, <2>4, <2>5
<1> HIDE DEF Moved
<1>4. QED
  BY <1>1, <1>2, <1>3

\* What can happen to a refresh.
RefreshOrFailure == Refresh \/ CutOff \/ \E item \in task.todo : SelectFails(item)

\* An item is written under an external id; that of a user's account, which finds
\* nothing but "account", as "account".
LEMMA SettledId ==
    ASSUME TypeOK, NEW item \in task.todo, SettleExternalID(item) \/ SelectFails(item)
    PROVE  \E ext \in ExternalId :
             /\ Settle(item, ext)
             /\ item.ext \in UserIds /\ (\A r \in rows : r.ext = "account") => ext = "account"
<1> DEFINE taken == {r.ext : r \in {s \in rows : s.group = item.group /\ s.ext \in AccountIds}}
           exts  == IF item.ext \in AccountIds THEN AccountExternalIds(item) ELSE {item.ext}
<1>1. item \in Row /\ OwnId(item.ext) \in ExternalId
  BY RowsTyped DEF Row, OwnId, ExternalId, AccountIds
<1>2. item.ext \in UserIds => OwnId(item.ext) = "account" /\ item.ext \in AccountIds
  BY DEF OwnId, AccountIds
<1>3. CASE SettleExternalID(item)
  <2>1. PICK ext \in exts : Settle(item, ext)
    BY <1>3 DEF SettleExternalID
  <2>2. AccountExternalIds(item) = IF taken = {} THEN {OwnId(item.ext)} ELSE taken
    BY DEF AccountExternalIds
  <2>3. \/ item.ext \notin AccountIds /\ ext = item.ext
        \/ ext = OwnId(item.ext)
        \/ ext \in taken
    BY <2>2
  <2>4. taken \subseteq ExternalId
    BY DEF ExternalId
  <2>5. ext \in ExternalId
    BY <1>1, <2>3, <2>4 DEF Row
  <2>6. item.ext \in UserIds /\ (\A r \in rows : r.ext = "account") => ext = "account"
    BY <1>2, <2>3
  <2>7. QED
    BY <2>1, <2>5, <2>6
<1>4. CASE SelectFails(item)
  BY <1>1, <1>2, <1>4 DEF SelectFails
<1>5. QED
  BY <1>3, <1>4

\* Each step of the refresh keeps the types and the keys.
LEMMA RefreshStepType ==
    ASSUME TypeOK, RefreshOrFailure
    PROVE  TypeOK'
<1>1. CASE Fetch
  <2>1. PICK report \in Reports(groups) :
          task' = [pc |-> "upserting", todo |-> report, writing |-> {}]
    BY <1>1 DEF Fetch
  <2>2. task' \in Task
    BY <2>1, ReportType DEF Task
  <2>3. QED
    BY <1>1, <2>2 DEF Fetch, TypeOK
<1>2. ASSUME NEW item \in task.todo, SettleExternalID(item) \/ SelectFails(item)
      PROVE  TypeOK'
  <2>1. item \in Row
    BY RowsTyped
  <2>2. PICK ext \in ExternalId : Settle(item, ext)
    BY <1>2, SettledId
  <2>3. task' = [task EXCEPT !.todo = @ \ {item}, !.writing = {[item EXCEPT !.ext = ext]}]
    BY <2>2 DEF Settle
  <2>4. [item EXCEPT !.ext = ext] \in Row
    BY <2>1 DEF Row
  <2>5. task' \in Task
    BY <2>3, <2>4, RowsTyped DEF Task, TypeOK
  <2>6. changes' \in 0 .. MaxChanges
    BY <1>2, GroupAssumption DEF SettleExternalID, SelectFails, TypeOK
  <2>7. QED
    BY <2>2, <2>5, <2>6 DEF Settle, TypeOK
<1>3. ASSUME NEW item \in task.writing, WriteItem(item) PROVE TypeOK'
  <2>1. item \in Row
    BY RowsTyped
  <2>2. rows' = {r \in rows : ~SameKey(r, item)} \cup {item}
    BY <1>3 DEF WriteItem
  <2>3. rows' \subseteq Row
    BY <2>1, <2>2, RowsTyped
  <2>4. \A r, s \in rows' : r.group = s.group /\ r.ext = s.ext => r = s
    BY <2>2 DEF SameKey, TypeOK
  <2>5. task' \in Task
    BY <1>3 DEF WriteItem, TypeOK, Task
  <2>6. QED
    BY <1>3, <2>3, <2>4, <2>5 DEF WriteItem, TypeOK
<1>4. CASE RefreshDone
  BY <1>4 DEF RefreshDone, TypeOK, Task, Idle
<1>5. CASE CutOff
  <2>1. changes + 1 \in 0 .. MaxChanges
    BY <1>5, GroupAssumption DEF CutOff, TypeOK
  <2>2. QED
    BY <1>5, <2>1 DEF CutOff, TypeOK, Task, Idle
<1>6. QED
  BY <1>1, <1>2, <1>3, <1>4, <1>5 DEF RefreshOrFailure, Refresh

\* PUT keeps the types and the keys.
LEMMA PutStepType ==
    ASSUME TypeOK, NEW S \in SUBSET Names, NEW form \in Forms(S), PutGroups(form)
    PROVE  TypeOK'
<1>1. changes + 1 \in 0 .. MaxChanges /\ changes' = changes + 1
  BY GroupAssumption DEF PutGroups, TypeOK
<1>2. CASE Conflict(form)
  BY <1>1, <1>2 DEF PutGroups, TypeOK
<1>3. CASE ~Conflict(form)
  <2>1. groups' = Upserted(form) /\ rows' = Attached(form)
    BY <1>3 DEF PutGroups
  <2>2. groups' \in [Names -> Group]
    BY <2>1, UpsertedType
  <2>3. rows' \subseteq Row /\ \A r, s \in rows' : r.group = s.group /\ r.ext = s.ext => r = s
    BY <1>3, <2>1, AttachedType
  <2>4. UNCHANGED <<mode, remote, task>>
    BY DEF PutGroups
  <2>5. QED
    BY <1>1, <2>2, <2>3, <2>4 DEF TypeOK
<1>4. QED
  BY <1>2, <1>3

\* What setting a ratio does to the groups and the rows.
LEMMA RatioStep ==
    ASSUME TypeOK, NEW n \in Names, NEW ratio \in Given(n), SetUpstreamGroupRatio(n, ratio)
    PROVE  /\ groups' \in [Names -> Group]
           /\ groups'[n].id > 0 /\ groups'[n].ratio = ratio
           /\ groups'[n].display = IF n \in Existing THEN groups[n].display ELSE n
           /\ \A m \in Names : m # n => groups'[m] = groups[m]
           /\ \A r \in rows' : \E s \in rows :
                /\ r \in Row /\ r.group = s.group /\ r.ext = s.ext /\ r.gname = s.gname
                /\ IF s.group = n \/ Called(groups', n, s.gname)
                   THEN r = [s EXCEPT !.ratio = ratio] /\ r.ratio = ratio ELSE r = s
<1>1. groups \in [Names -> Group] /\ ratio \in Ratio
  BY Constants DEF TypeOK
<1> DEFINE new == IF n \in Existing THEN [groups[n] EXCEPT !.ratio = ratio]
                  ELSE [id |-> LastId + 1, display |-> n, enabled |-> TRUE, ratio |-> ratio]
<1>2. groups' = [groups EXCEPT ![n] = new]
  BY DEF SetUpstreamGroupRatio
<1>3. new \in Group /\ new.id > 0 /\ new.ratio = ratio
      /\ new.display = IF n \in Existing THEN groups[n].display ELSE n
  <2>1. CASE n \in Existing
    BY <1>1, <2>1 DEF Existing, Group
  <2>2. CASE n \notin Existing
    BY <1>1, <2>2, IdsType, Constants DEF Group
  <2>3. QED
    BY <2>1, <2>2
<1> HIDE DEF new
<1>4. /\ groups' \in [Names -> Group] /\ groups'[n] = new
      /\ \A m \in Names : m # n => groups'[m] = groups[m]
  BY <1>1, <1>2, <1>3
<1>5. ASSUME NEW r \in rows'
      PROVE  \E s \in rows :
                /\ r \in Row /\ r.group = s.group /\ r.ext = s.ext /\ r.gname = s.gname
                /\ IF s.group = n \/ Called(groups', n, s.gname)
                   THEN r = [s EXCEPT !.ratio = ratio] /\ r.ratio = ratio ELSE r = s
  <2>1. PICK s \in rows : r = IF s.group = n \/ Called(groups', n, s.gname)
                              THEN [s EXCEPT !.ratio = ratio] ELSE s
    BY DEF SetUpstreamGroupRatio
  <2>2. s \in Row
    BY RowsTyped
  <2>3. QED
    BY <1>1, <2>1, <2>2 DEF Row
<1>6. QED
  BY <1>3, <1>4, <1>5

\* Setting a ratio keeps the types and the keys.
LEMMA RatioStepType ==
    ASSUME TypeOK, NEW n \in Names, NEW ratio \in Given(n), SetUpstreamGroupRatio(n, ratio)
    PROVE  TypeOK'
<1>1. changes + 1 \in 0 .. MaxChanges /\ changes' = changes + 1
  BY GroupAssumption DEF SetUpstreamGroupRatio, TypeOK
<1>2. groups' \in [Names -> Group] /\ rows' \subseteq Row
  BY RatioStep
<1>3. \A r, s \in rows' : r.group = s.group /\ r.ext = s.ext => r = s
  <2> SUFFICES ASSUME NEW r \in rows', NEW s \in rows', r.group = s.group, r.ext = s.ext
               PROVE  r = s
    OBVIOUS
  <2>1. PICK q \in rows :
          /\ r.group = q.group /\ r.ext = q.ext
          /\ r = IF q.group = n \/ Called(groups', n, q.gname)
                 THEN [q EXCEPT !.ratio = ratio] ELSE q
    BY RatioStep
  <2>2. PICK t \in rows :
          /\ s.group = t.group /\ s.ext = t.ext
          /\ s = IF t.group = n \/ Called(groups', n, t.gname)
                 THEN [t EXCEPT !.ratio = ratio] ELSE t
    BY RatioStep
  <2>3. q = t
    BY <2>1, <2>2 DEF TypeOK
  <2>4. QED
    BY <2>1, <2>2, <2>3
<1>4. UNCHANGED <<mode, remote, task>>
  BY DEF SetUpstreamGroupRatio
<1>5. QED
  BY <1>1, <1>2, <1>3, <1>4 DEF TypeOK

\* The variables keep their types, and the rows their unique keys, although PUT
\* moves rows under a refresh that looks for a row before it writes one.
THEOREM GroupsTypeCorrect == Spec => []TypeOK
<1>1. TypeOK /\ [Next]_vars => TypeOK'
  <2> SUFFICES ASSUME TypeOK, [Next]_vars PROVE TypeOK'
    OBVIOUS
  <2>1. CASE RefreshOrFailure
    BY <2>1, RefreshStepType
  <2>2. ASSUME NEW S \in (SUBSET Names) \ {{}}, NEW form \in Forms(S), PutGroups(form)
        PROVE  TypeOK'
    BY <2>2, PutStepType
  <2>3. ASSUME NEW n \in Names, NEW ratio \in Given(n), SetUpstreamGroupRatio(n, ratio)
        PROVE  TypeOK'
    BY <2>3, RatioStepType
  <2>4. CASE UNCHANGED vars
    BY <2>4 DEF vars, TypeOK
  <2>5. QED
    BY <2>1, <2>2, <2>3, <2>4 DEF Next, RefreshOrFailure
<1>2. QED
  BY <1>1, InitType, PTL DEF Spec

-----------------------------------------------------------------------------
(* One account row per group                                               *)

\* With a user's credential every account row is called "account", and what a
\* refresh is about to write is too; what it has yet to settle begins with "user:".
AccountInv ==
    mode = "user" =>
        /\ \A r \in rows \cup task.writing : r.ext = "account"
        /\ \A i \in task.todo : i.ext \in UserIds

\* Each step keeps the one external id.
LEMMA AccountStep ==
    ASSUME TypeOK, AccountInv, [Next]_vars
    PROVE  AccountInv'
<1> SUFFICES ASSUME mode' = "user"
             PROVE  /\ \A r \in rows' \cup task'.writing : r.ext = "account"
                    /\ \A i \in task'.todo : i.ext \in UserIds
  BY DEF AccountInv
<1>m. mode = "user"
  BY DEF Next, Refresh, Fetch, SettleExternalID, SelectFails, Settle, WriteItem,
         RefreshDone, CutOff, PutGroups, SetUpstreamGroupRatio, vars
<1>i. /\ \A r \in rows \cup task.writing : r.ext = "account"
      /\ \A i \in task.todo : i.ext \in UserIds
  BY <1>m DEF AccountInv
<1>1. CASE Fetch
  <2>1. PICK report \in Reports(groups) :
          task' = [pc |-> "upserting", todo |-> report, writing |-> {}]
    BY <1>1 DEF Fetch
  <2>2. report \in {UserItems(groups), CallOnlyItems(groups)}
    BY <1>m DEF Reports
  <2>3. \A i \in report : i.ext \in UserIds
    BY <2>2 DEF UserItems, CallOnlyItems, Item, UserIds
  <2>4. QED
    BY <1>1, <1>i, <2>1, <2>3 DEF Fetch
<1>2. ASSUME NEW item \in task.todo, SettleExternalID(item) \/ SelectFails(item)
      PROVE  /\ \A r \in rows' \cup task'.writing : r.ext = "account"
             /\ \A i \in task'.todo : i.ext \in UserIds
  <2>1. item.ext \in UserIds /\ \A r \in rows : r.ext = "account"
    BY <1>i
  <2>2. Settle(item, "account")
    BY <1>2, <2>1, SettledId
  <2>3. /\ task' = [task EXCEPT !.todo = @ \ {item},
                                !.writing = {[item EXCEPT !.ext = "account"]}]
        /\ rows' = rows
    BY <2>2 DEF Settle
  <2>4. item \in Row /\ task \in Task
    BY RowsTyped DEF TypeOK
  <2>5. [item EXCEPT !.ext = "account"].ext = "account"
    BY <2>4 DEF Row
  <2>6. task'.todo \subseteq task.todo /\ task'.writing = {[item EXCEPT !.ext = "account"]}
    BY <2>3, <2>4 DEF Task
  <2>7. QED
    BY <1>i, <2>3, <2>5, <2>6
<1>3. ASSUME NEW item \in task.writing, WriteItem(item)
      PROVE  /\ \A r \in rows' \cup task'.writing : r.ext = "account"
             /\ \A i \in task'.todo : i.ext \in UserIds
  BY <1>3, <1>i DEF WriteItem, TypeOK, Task
<1>4. CASE RefreshDone \/ CutOff
  BY <1>4, <1>i DEF RefreshDone, CutOff, Idle
<1>5. ASSUME NEW S \in (SUBSET Names) \ {{}}, NEW form \in Forms(S), PutGroups(form)
      PROVE  /\ \A r \in rows' \cup task'.writing : r.ext = "account"
             /\ \A i \in task'.todo : i.ext \in UserIds
  <2>1. ASSUME NEW r \in rows,
               NEW q, q = LET to == Destination(r, form)
                          IN IF to = NoGroup THEN r ELSE [r EXCEPT !.group = to, !.gname = to]
        PROVE  q.ext = "account"
    BY <1>i, <2>1, RowsTyped DEF Row
  <2>2. rows' \in {rows, Attached(form)} /\ task' = task
    BY <1>5 DEF PutGroups
  <2>3. \A r \in Attached(form) : r.ext = "account"
    BY <2>1 DEF Attached
  <2>4. QED
    BY <1>i, <2>2, <2>3
<1>6. ASSUME NEW n \in Names, NEW ratio \in Given(n), SetUpstreamGroupRatio(n, ratio)
      PROVE  /\ \A r \in rows' \cup task'.writing : r.ext = "account"
             /\ \A i \in task'.todo : i.ext \in UserIds
  <2>1. \A r \in rows' : \E s \in rows : r.ext = s.ext
    BY <1>6, RatioStep
  <2>2. QED
    BY <1>6, <1>i, <2>1 DEF SetUpstreamGroupRatio
<1>7. CASE UNCHANGED vars
  BY <1>7, <1>i DEF vars
<1>8. QED
  BY <1>1, <1>2, <1>3, <1>4, <1>5, <1>6, <1>7 DEF Next, Refresh

\* With a user's credential no group ever has two account rows, though the two ways
\* to report the account give it two ids and PUT moves rows between the two writes.
THEOREM OneAccountRow == Spec => []OneAccountRowPerGroup
<1>1. Init => AccountInv
  BY DEF Init, Idle, AccountInv
<1>2. TypeOK /\ AccountInv /\ [Next]_vars => AccountInv'
  BY AccountStep
<1>3. TypeOK /\ AccountInv => OneAccountRowPerGroup
  BY DEF TypeOK, AccountInv, OneAccountRowPerGroup
<1>4. QED
  BY <1>1, <1>2, <1>3, GroupsTypeCorrect, PTL DEF Spec

-----------------------------------------------------------------------------
(* A row never shows the ratio of another group                            *)

\* No display name is empty or the name of another group, display name or not.
NamesApart ==
    \A n \in Names : /\ Blank \notin Displays[n]
                     /\ \A m \in Names \ {n} : Displays[m] \cap Displays[n] = {}

\* The ratio of a row or item is that of its group or of a group it names.
Own(r) ==
    r.ratio # NoRatio => \/ r.ratio.of = r.group
                         \/ r.gname \in Displays[r.ratio.of]

\* A group bears its own ratios; one not yet created has none and is disabled.
OwnGroups(gs) ==
    \A n \in Names :
        /\ gs[n].ratio \in Given(n)
        /\ gs[n].id > 0 => gs[n].display \in Displays[n]
        /\ gs[n].id = 0 => gs[n].ratio = NoRatio

\* Own of the rows, and of what the refresh read when the groups were others.
RatioInv ==
    /\ OwnGroups(groups)
    /\ \A r \in rows \cup task.todo \cup task.writing : Own(r)

\* The ratio of a group is its own, and what goes by the name of an existing group
\* goes by one of its names.
LEMMA OwnGroup ==
    ASSUME NEW gs \in [Names -> Group], OwnGroups(gs), NEW n \in Names
    PROVE  /\ gs[n].ratio # NoRatio => gs[n].ratio.of = n /\ gs[n].id > 0
           /\ gs[n].id > 0 => \A name : Called(gs, n, name) => name \in Displays[n]
<1>1. gs[n].id \in Nat /\ n \in Displays[n]
  BY GroupAssumption DEF Group
<1>2. gs[n].ratio # NoRatio => gs[n].ratio.of = n
  BY DEF OwnGroups, Given
<1>3. QED
  BY <1>1, <1>2 DEF OwnGroups, Called

\* A ratio found by name belongs to a group of that name.
LEMMA ManualRatioOwn ==
    ASSUME NEW gs \in [Names -> Group], OwnGroups(gs), NEW name
    PROVE  LET ratio == ManualRatioForGroup(gs, name)
           IN ratio # NoRatio => name \in Displays[ratio.of]
<1> DEFINE S == {n \in Names : gs[n].ratio # NoRatio /\ Called(gs, n, name)}
           n == First(gs, S)
<1>1. ManualRatioForGroup(gs, name) = GroupRatio(gs, n)
  BY DEF ManualRatioForGroup
<1>2. CASE n = NoGroup
  BY <1>1, <1>2 DEF GroupRatio
<1>3. CASE n # NoGroup
  <2>1. n \in S
    BY <1>3, FirstIn
  <2>2. ManualRatioForGroup(gs, name) = gs[n].ratio
    BY <1>1, <1>3 DEF GroupRatio
  <2> HIDE DEF n
  <2>3. gs[n].ratio.of = n /\ name \in Displays[n]
    BY <2>1, OwnGroup
  <2>4. QED
    BY <2>2, <2>3
<1>4. QED
  BY <1>2, <1>3

\* The items of a report show ratios of their own groups.
LEMMA ReportOwn ==
    ASSUME TypeOK, OwnGroups(groups), NEW report \in Reports(groups), NEW i \in report
    PROVE  Own(i)
<1>g. groups \in [Names -> Group]
  BY DEF TypeOK
<1>r. ASSUME NEW n \in Names \cup {NoGroup}, NEW ext, NEW name
      PROVE  /\ Own(Item(n, ext, name, ManualRatioForGroup(groups, name)))
             /\ Own(Item(n, ext, name, GroupRatio(groups, n)))
  <2>1. Own(Item(n, ext, name, ManualRatioForGroup(groups, name)))
    BY <1>g, ManualRatioOwn DEF Own, Item
  <2>2. Own(Item(n, ext, name, GroupRatio(groups, n)))
    BY <1>g, OwnGroup DEF Own, Item, GroupRatio
  <2>3. QED
    BY <2>1, <2>2
<1>1. CASE report = UserItems(groups)
  <2> DEFINE name == IF remote["user"] = Blank THEN Default ELSE remote["user"]
  <2>1. i = Item(GroupForName(groups, name), "user:7", name,
                 ManualRatioForGroup(groups, name))
    BY <1>1 DEF UserItems
  <2>2. GroupForName(groups, name) \in Names \cup {NoGroup}
    BY EnabledType
  <2> HIDE DEF name
  <2>3. QED
    BY <2>1, <2>2, <1>r
<1>2. CASE report = CallOnlyItems(groups)
  <2>1. PICK n \in EnabledGroups(groups) :
          i = Item(n, "user:self", NameOf(n), ManualRatioForGroup(groups, NameOf(n)))
    BY <1>2 DEF CallOnlyItems
  <2>2. n \in Names \cup {NoGroup}
    BY EnabledType
  <2>3. QED
    BY <2>1, <2>2, <1>r
<1>3. CASE report = ChannelItems(groups)
  <2>1. PICK p \in EnabledGroups(groups) \X Channels :
          i = Item(p[1], p[2], NameOf(p[1]), GroupRatio(groups, p[1]))
    BY <1>3 DEF ChannelItems
  <2>2. p[1] \in Names \cup {NoGroup}
    BY EnabledType
  <2>3. QED
    BY <2>1, <2>2, <1>r
<1>4. CASE i \in AccountItems(groups)
  <2>1. PICK p \in EnabledGroups(groups) \X Accounts :
          i = Item(p[1], p[2],
                   IF p[1] = NoGroup /\ remote[p[2]] # Blank THEN remote[p[2]]
                   ELSE NameOf(p[1]),
                   GroupRatio(groups, p[1]))
    BY <1>4 DEF AccountItems
  <2>2. p[1] \in Names \cup {NoGroup}
    BY EnabledType
  <2>3. QED
    BY <2>1, <2>2, <1>r
<1>5. CASE i \in MonitorItems(groups)
  BY <1>5, <1>r DEF MonitorItems
<1>6. QED
  BY <1>1, <1>2, <1>3, <1>4, <1>5, ReportKinds

\* The steps of the refresh keep the invariant.
LEMMA RefreshStepOwn ==
    ASSUME TypeOK, RatioInv, RefreshOrFailure
    PROVE  RatioInv'
<1>i. OwnGroups(groups) /\ \A r \in rows \cup task.todo \cup task.writing : Own(r)
  BY DEF RatioInv
<1>1. CASE Fetch
  <2>1. PICK report \in Reports(groups) :
          task' = [pc |-> "upserting", todo |-> report, writing |-> {}]
    BY <1>1 DEF Fetch
  <2>2. \A i \in report : Own(i)
    BY <1>i, ReportOwn
  <2>3. QED
    BY <1>1, <1>i, <2>1, <2>2 DEF Fetch, RatioInv
<1>2. ASSUME NEW item \in task.todo, SettleExternalID(item) \/ SelectFails(item)
      PROVE  RatioInv'
  <2>1. PICK ext \in ExternalId : Settle(item, ext)
    BY <1>2, SettledId
  <2>2. item \in Row /\ task \in Task
    BY RowsTyped DEF TypeOK
  <2>3. /\ [item EXCEPT !.ext = ext].group = item.group
        /\ [item EXCEPT !.ext = ext].gname = item.gname
        /\ [item EXCEPT !.ext = ext].ratio = item.ratio
    BY <2>2 DEF Row
  <2>4. Own([item EXCEPT !.ext = ext])
    BY <1>i, <2>3 DEF Own
  <2>5. task'.todo \subseteq task.todo /\ task'.writing = {[item EXCEPT !.ext = ext]}
    BY <2>1, <2>2 DEF Settle, Task
  <2>6. UNCHANGED <<groups, rows>>
    BY <2>1 DEF Settle
  <2>7. QED
    BY <1>i, <2>4, <2>5, <2>6 DEF RatioInv
<1>3. ASSUME NEW item \in task.writing, WriteItem(item) PROVE RatioInv'
  <2>1. rows' \subseteq rows \cup {item} /\ groups' = groups
    BY <1>3 DEF WriteItem
  <2>2. task'.todo = task.todo /\ task'.writing = {}
    BY <1>3 DEF WriteItem, TypeOK, Task
  <2>3. QED
    BY <1>i, <2>1, <2>2 DEF RatioInv
<1>4. CASE RefreshDone \/ CutOff
  BY <1>4, <1>i DEF RefreshDone, CutOff, Idle, RatioInv
<1>5. QED
  BY <1>1, <1>2, <1>3, <1>4 DEF RefreshOrFailure, Refresh

\* A row a PUT moves keeps a ratio of its own: it goes where its ratio came from.
LEMMA MovedOwn ==
    ASSUME NamesApart, TypeOK, NEW S \in SUBSET Names, NEW form \in Forms(S),
           NEW r \in rows, Own(r), Destination(r, form) # NoGroup
    PROVE  Own([r EXCEPT !.group = Destination(r, form), !.gname = Destination(r, form)])
<1> DEFINE to == Destination(r, form)
           q  == [r EXCEPT !.group = to, !.gname = to]
<1>1. to \in Names /\ to \in S /\ r.group = NoGroup /\ Called(form, to, r.gname)
  BY DestinationType
<1>2. r.gname \in Displays[to]
  BY <1>1, FormType, GroupAssumption DEF Called
<1>3. r \in Row
  BY RowsTyped
<1> HIDE DEF to
<1>4. q.group = to /\ q.ratio = r.ratio
  BY <1>3 DEF Row
<1>5. r.ratio # NoRatio => r.ratio.of \in Names
  BY <1>3 DEF Row, Ratio, Given
<1>6. r.ratio # NoRatio => r.ratio.of = to
  BY <1>1, <1>2, <1>5, GroupAssumption DEF Own, NamesApart, NoGroup
<1>7. Own(q)
  BY <1>4, <1>6 DEF Own
<1>8. QED
  BY <1>7 DEF to

\* PUT keeps the invariant.
LEMMA PutStepOwn ==
    ASSUME NamesApart, TypeOK, RatioInv,
           NEW S \in SUBSET Names, NEW form \in Forms(S), PutGroups(form)
    PROVE  RatioInv'
<1>i. OwnGroups(groups) /\ \A r \in rows \cup task.todo \cup task.writing : Own(r)
  BY DEF RatioInv
<1>t. task' = task
  BY DEF PutGroups
<1>1. CASE Conflict(form)
  BY <1>1, <1>i, <1>t DEF PutGroups, RatioInv
<1>2. CASE ~Conflict(form)
  <2>1. groups' = Upserted(form) /\ rows' = Attached(form)
    BY <1>2 DEF PutGroups
  <2>2. ASSUME NEW n \in Names
        PROVE  /\ groups'[n].ratio \in Given(n)
               /\ groups'[n].id > 0 => groups'[n].display \in Displays[n]
               /\ groups'[n].id = 0 => groups'[n].ratio = NoRatio
    <3>1. CASE n \in S
      <4>1. form[n].display \in Displays[n] /\ form[n].ratio \in Given(n)
        BY <3>1, FormType
      <4>2. groups'[n].id > 0 /\ groups'[n].display = form[n].display
            /\ groups'[n].ratio = form[n].ratio
        BY <2>1, <3>1, UpsertedType
      <4>3. QED
        BY <4>1, <4>2
    <3>2. CASE n \notin S
      <4>1. groups'[n].id = groups[n].id /\ groups'[n].display = groups[n].display
            /\ groups'[n].ratio = groups[n].ratio
        BY <2>1, <3>2, UpsertedType
      <4>2. QED
        BY <1>i, <4>1 DEF OwnGroups
    <3>3. QED
      BY <3>1, <3>2
  <2>3. ASSUME NEW q \in rows' PROVE Own(q)
    <3>1. PICK r \in rows :
            q = LET to == Destination(r, form)
                IN IF to = NoGroup THEN r ELSE [r EXCEPT !.group = to, !.gname = to]
      BY <2>1 DEF Attached
    <3>2. QED
      BY <1>i, <3>1, MovedOwn
  <2>4. QED
    BY <1>i, <1>t, <2>2, <2>3 DEF RatioInv, OwnGroups
<1>3. QED
  BY <1>1, <1>2

\* Setting a ratio keeps the invariant.
LEMMA RatioStepOwn ==
    ASSUME TypeOK, RatioInv,
           NEW n \in Names, NEW ratio \in Given(n), SetUpstreamGroupRatio(n, ratio)
    PROVE  RatioInv'
<1>i. OwnGroups(groups) /\ \A r \in rows \cup task.todo \cup task.writing : Own(r)
  BY DEF RatioInv
<1>1. OwnGroups(groups')
  <2>1. groups'[n].display \in Displays[n]
    BY <1>i, RatioStep, GroupAssumption DEF OwnGroups, Existing
  <2>2. QED
    BY <1>i, <2>1, RatioStep DEF OwnGroups
<1>2. ASSUME NEW q \in rows' PROVE Own(q)
  <2>1. PICK s \in rows :
          /\ q.group = s.group /\ q.gname = s.gname
          /\ IF s.group = n \/ Called(groups', n, s.gname) THEN q.ratio = ratio ELSE q = s
    BY RatioStep
  <2>2. CASE s.group = n \/ Called(groups', n, s.gname)
    <3>1. q.ratio # NoRatio => q.ratio.of = n
      BY <2>1, <2>2 DEF Given
    <3>2. Called(groups', n, s.gname) => s.gname \in Displays[n]
      BY <1>1, RatioStep, OwnGroup
    <3>3. QED
      BY <2>1, <2>2, <3>1, <3>2 DEF Own
  <2>3. CASE ~(s.group = n \/ Called(groups', n, s.gname))
    BY <1>i, <2>1, <2>3
  <2>4. QED
    BY <2>2, <2>3
<1>3. task' = task
  BY DEF SetUpstreamGroupRatio
<1>4. QED
  BY <1>i, <1>1, <1>2, <1>3 DEF RatioInv

\* A row never shows the ratio of another group, however refreshes, cut-off
\* refreshes, PUTs and changes of ratio interleave, provided no display name is
\* empty or shared by two groups.
THEOREM RatioOfOwnGroup ==
    ASSUME NamesApart
    PROVE  Spec => []RatioFromOwnGroup
<1>1. Init => RatioInv
  <2> SUFFICES ASSUME Init PROVE RatioInv
    OBVIOUS
  <2>1. PICK n \in Names, enabled \in BOOLEAN : \E display \in Displays[n] :
          groups = [m \in Names |->
             IF m = n THEN [id |-> 1, display |-> display, enabled |-> enabled,
                            ratio |-> NoRatio]
             ELSE Absent]
    BY DEF Init
  <2>2. OwnGroups(groups)
    BY <2>1, Constants DEF OwnGroups, Absent
  <2>3. QED
    BY <2>2 DEF Init, Idle, RatioInv
<1>2. TypeOK /\ RatioInv /\ [Next]_vars => RatioInv'
  <2> SUFFICES ASSUME TypeOK, RatioInv, [Next]_vars PROVE RatioInv'
    OBVIOUS
  <2>1. CASE RefreshOrFailure
    BY <2>1, RefreshStepOwn
  <2>2. ASSUME NEW S \in (SUBSET Names) \ {{}}, NEW form \in Forms(S), PutGroups(form)
        PROVE  RatioInv'
    BY <2>2, PutStepOwn
  <2>3. ASSUME NEW n \in Names, NEW ratio \in Given(n), SetUpstreamGroupRatio(n, ratio)
        PROVE  RatioInv'
    BY <2>3, RatioStepOwn
  <2>4. CASE UNCHANGED vars
    BY <2>4 DEF vars, RatioInv, OwnGroups, Own
  <2>5. QED
    BY <2>1, <2>2, <2>3, <2>4 DEF Next, RefreshOrFailure
<1>3. TypeOK /\ RatioInv => RatioFromOwnGroup
  <2> SUFFICES ASSUME TypeOK, RatioInv, NEW r \in rows, r.ratio # NoRatio
               PROVE  \/ r.ratio.of = r.group
                      \/ r.gname \in ({r.ratio.of} \cup Displays[r.ratio.of]) \ {Blank}
    BY DEF RatioFromOwnGroup
  <2>1. r.ratio.of \in Names
    BY RowsTyped DEF Row, Ratio, Given
  <2>2. QED
    BY <2>1 DEF RatioInv, Own, NamesApart
<1>4. QED
  BY <1>1, <1>2, <1>3, GroupsTypeCorrect, PTL DEF Spec
=============================================================================
