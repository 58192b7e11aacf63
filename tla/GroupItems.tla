----------------------------- MODULE GroupItems -----------------------------
(***************************************************************************)
(* The groups of one upstream and its rows of monitor_items: which row a   *)
(* reported item ends up in and which ratio it shows.  Parties: the        *)
(* refresh, which reads the groups once, builds its items from that copy   *)
(* (clients newapi and sub2api) and upserts them one by one; PUT           *)
(* /upstreams/:id with groups; PUT .../groups/:group_name/ratio.  One      *)
(* refresh at a time (theorem SingleFlight of PollerProofs).               *)
(*                                                                         *)
(* A group is never deleted nor renamed, so its name stands for it in a    *)
(* foreign key; its id gives its place in the store's lists.  A ratio      *)
(* bears a tag, the group the administrator gave it to.                    *)
(*                                                                         *)
(* An operator X_Fault is X with a bug its name tells; nothing uses it.    *)
(***************************************************************************)
EXTENDS Integers, FiniteSets

CONSTANTS
    Names,      \* group names
    Default,    \* "default", the name used when there is none
    Blank,      \* the empty string
    Displays,   \* the display names the administrator may give each group
    Accounts,   \* account ids a sub2api admin API reports
    Channels,   \* channel ids a new_api admin API reports
    Monitors,   \* channel monitor ids of a sub2api admin API
    Reported,   \* the group names it may report for each of them; Blank for none
    AdminFails, \* whether an admin API may fail to answer for a while
    Values,     \* the ratios the administrator enters
    NoValue,    \* the value of NoRatio
    MaxChanges  \* bound: changes by the administrator, cut-off refreshes, failed SELECTs

\* What can stand in a column for the name of a group.
GroupNames == Names \cup {Blank} \cup UNION {Displays[n] : n \in Names}

ASSUME GroupAssumption ==
    /\ IsFiniteSet(Names)
    /\ Default \in Names
    /\ Blank \notin Names
    /\ NoValue \notin Values
    /\ DOMAIN Displays = Names
    /\ \A n \in Names : n \in Displays[n]
    /\ \A v \in {"user"} \cup Accounts \cup Monitors : Reported[v] \subseteq GroupNames
    /\ AdminFails \in BOOLEAN
    /\ MaxChanges \in Nat

VARIABLES
    mode,       \* what the credential of the upstream gives access to
    remote,     \* the group the upstream reports for an account or monitor
    groups,     \* table upstream_groups
    rows,       \* table monitor_items
    task,       \* the refresh in progress
    changes     \* changes and failures so far (for the bound)

vars == <<mode, remote, groups, rows, task, changes>>

-----------------------------------------------------------------------------
Mode == {"user", "newapi_admin", "sub2api_admin"}

NoGroup == Blank                  \* upstream_group_id IS NULL

\* item_type and external_id in one.  Accounts written from a user's own view begin
\* with "user:" or are the "account" UpsertMonitorItem puts in their place.
UserIds    == {"user:self", "user:7"}
AccountIds == UserIds \cup {"account"} \cup Accounts
ExternalId == AccountIds \cup Channels \cup Monitors

\* manual_ratio, NULL for NoRatio.
NoRatio  == [of |-> Blank, value |-> NoValue]
Given(n) == {NoRatio} \cup {[of |-> n, value |-> v] : v \in Values}
Ratio    == UNION {Given(n) : n \in Names}

Group  == [id: Nat, display: GroupNames, enabled: BOOLEAN, ratio: Ratio]
Absent == [id |-> 0, display |-> Blank, enabled |-> FALSE, ratio |-> NoRatio]
Row    == [group: Names \cup {NoGroup}, ext: ExternalId, gname: GroupNames, ratio: Ratio]

\* writing: the item being upserted, its external id settled, if any.
Task == [pc: {"idle", "upserting"}, todo: SUBSET Row, writing: SUBSET Row]
Idle == [pc |-> "idle", todo |-> {}, writing |-> {}]

\* What a refresh can see of the upstream, apart from channels.
Visible(m) == (IF m = "user" \/ AdminFails THEN {"user"} ELSE {})
                  \cup (IF m = "sub2api_admin" THEN Accounts \cup Monitors ELSE {})

Existing == {n \in Names : groups[n].id > 0}

TypeOK ==
    /\ mode \in Mode
    /\ remote \in [Visible(mode) -> GroupNames]
    /\ groups \in [Names -> Group]
    /\ rows \subseteq Row
    /\ \A r, s \in rows : r.group = s.group /\ r.ext = s.ext => r = s
    /\ task \in Task
    /\ changes \in 0 .. MaxChanges

\* createUpstream has inserted one group and no item.
Init ==
    /\ mode \in Mode
    /\ remote \in [Visible(mode) -> GroupNames]
    /\ \A v \in Visible(mode) : remote[v] \in Reported[v]
    /\ \E n \in Names, enabled \in BOOLEAN : \E display \in Displays[n] :
         groups = [m \in Names |->
             IF m = n THEN [id |-> 1, display |-> display, enabled |-> enabled,
                            ratio |-> NoRatio]
             ELSE Absent]
    /\ rows = {}
    /\ task = Idle
    /\ changes = 0

-----------------------------------------------------------------------------
(* Which group and which ratio (upstream/helpers.go)                       *)

Called(gs, n, name) == name = n \/ name = gs[n].display

\* The first of S in the order of the list, if S has any.
First(gs, S) ==
    LET least == {n \in S : \A m \in S : gs[n].id <= gs[m].id}
    IN IF least = {} THEN NoGroup ELSE CHOOSE n \in least : TRUE

Enabled(gs) == {n \in Names : gs[n].enabled}

\* The groups a report has items for; none enabled counts as one without id.
EnabledGroups(gs) == IF Enabled(gs) = {} THEN {NoGroup} ELSE Enabled(gs)

NameOf(n) == IF n = NoGroup THEN Default ELSE n

GroupRatio(gs, n) == IF n = NoGroup THEN NoRatio ELSE gs[n].ratio

ManualRatioForGroup_FallsBack(gs, name) ==
    GroupRatio(gs, First(gs, {n \in Names : gs[n].ratio # NoRatio}))

\* The first group of that name or display name with a ratio, enabled or not.
ManualRatioForGroup(gs, name) ==
    GroupRatio(gs, First(gs, {n \in Names : gs[n].ratio # NoRatio /\ Called(gs, n, name)}))

\* The first enabled group so called, else the first enabled one, else none.
GroupForName(gs, name) ==
    LET called == {n \in Enabled(gs) : Called(gs, n, name)}
    IN First(gs, IF called # {} THEN called ELSE Enabled(gs))

-----------------------------------------------------------------------------
(* What a refresh reports                                                  *)

Item(group, ext, gname, ratio) ==
    [group |-> group, ext |-> ext, gname |-> gname, ratio |-> ratio]

\* userSelfResult and userProfileResult: the account of the credential.
UserItems(gs) ==
    LET name == IF remote["user"] = Blank THEN Default ELSE remote["user"]
    IN {Item(GroupForName(gs, name), "user:7", name, ManualRatioForGroup(gs, name))}

\* fetchCallOnly: the balance cannot be had, every group is tried with a call.
CallOnlyItems(gs) ==
    {Item(n, "user:self", NameOf(n), ManualRatioForGroup(gs, NameOf(n))) :
        n \in EnabledGroups(gs)}

\* newapi.Fetch: every channel in every group.
ChannelItems(gs) ==
    {Item(p[1], p[2], NameOf(p[1]), GroupRatio(gs, p[1])) :
        p \in EnabledGroups(gs) \X Channels}

\* sub2api.Fetch: every account in the groups it may belong to.
MayBelong(gs, a, n) == n = NoGroup \/ remote[a] = Blank \/ Called(gs, n, remote[a])

AccountItems(gs) ==
    {Item(p[1], p[2],
          IF p[1] = NoGroup /\ remote[p[2]] # Blank THEN remote[p[2]] ELSE NameOf(p[1]),
          GroupRatio(gs, p[1])) :
        p \in {q \in EnabledGroups(gs) \X Accounts : MayBelong(gs, q[2], q[1])}}

\* monitorItems: never in a group.
MonitorItems(gs) ==
    {Item(NoGroup, m, remote[m], ManualRatioForGroup(gs, remote[m])) : m \in Monitors}

\* What a refresh may report that has read the groups gs.  When the admin API does
\* not answer, the clients fall back to the user's own view.
Reports(gs) ==
    (IF mode = "user" \/ AdminFails THEN {UserItems(gs), CallOnlyItems(gs)} ELSE {})
    \cup (IF mode = "newapi_admin" THEN {ChannelItems(gs)} ELSE {})
    \cup (IF mode = "sub2api_admin" THEN {AccountItems(gs) \cup MonitorItems(gs)} ELSE {})
    \cup (IF mode = "sub2api_admin" /\ AdminFails THEN {AccountItems(gs)} ELSE {})

-----------------------------------------------------------------------------
(* The refresh                                                             *)

\* GetUpstream and Fetch, on one copy of the groups.
Fetch ==
    /\ task.pc = "idle"
    /\ \E report \in Reports(groups) :
         task' = [pc |-> "upserting", todo |-> report, writing |-> {}]
    /\ UNCHANGED <<mode, remote, groups, rows, changes>>

\* The order of a report: for an account or channel its groups in the order of their
\* list, monitors after the accounts.  (Accounts come in an order the upstream decides;
\* here theirs may mix.)
Before(i, j) ==
    \/ i.ext \in AccountIds /\ j.ext \in Monitors
    \/ i.ext = j.ext /\ i.group # j.group /\ groups[i.group].id < groups[j.group].id

IsNext(item) == item \in task.todo /\ \A i \in task.todo : ~Before(i, item)

\* The loop of RefreshUpstream has come to the item, which will be written as ext.
Settle(item, ext) ==
    /\ task.pc = "upserting"
    /\ task.writing = {}
    /\ IsNext(item)
    /\ task' = [task EXCEPT !.todo = @ \ {item}, !.writing = {[item EXCEPT !.ext = ext]}]
    /\ UNCHANGED <<mode, remote, groups, rows>>

SettleExternalID_Raw(item) == Settle(item, item.ext) /\ UNCHANGED changes

OwnId(ext) == IF ext \in UserIds THEN "account" ELSE ext

\* existingAccountExternalID: the external id of an account row of the group if there
\* is one, whichever account has that row.  (Of several the most recently updated;
\* here, any.)
AccountExternalIds(item) ==
    LET taken == {r.ext : r \in {s \in rows : s.group = item.group /\ s.ext \in AccountIds}}
    IN IF taken = {} THEN {OwnId(item.ext)} ELSE taken

\* UpsertMonitorItem before its INSERT.
SettleExternalID(item) ==
    /\ \E ext \in IF item.ext \in AccountIds THEN AccountExternalIds(item) ELSE {item.ext} :
         Settle(item, ext)
    /\ UNCHANGED changes

\* The SELECT of existingAccountExternalID fails, which UpsertMonitorItem takes for no
\* account row.
SelectFails(item) ==
    /\ changes < MaxChanges
    /\ changes' = changes + 1
    /\ item.ext \in AccountIds
    /\ Settle(item, OwnId(item.ext))

SameKey(r, s) == r.group = s.group /\ r.ext = s.ext

WriteItem_Inserts(item) ==
    /\ item \in task.writing
    /\ rows' = rows \cup {item}
    /\ task' = [task EXCEPT !.writing = {}]
    /\ UNCHANGED <<mode, remote, groups, changes>>

WriteItem_KeepsRow(item) ==
    /\ item \in task.writing
    /\ rows' = IF \E r \in rows : SameKey(r, item) THEN rows ELSE rows \cup {item}
    /\ task' = [task EXCEPT !.writing = {}]
    /\ UNCHANGED <<mode, remote, groups, changes>>

\* UpsertMonitorItem, INSERT ... ON CONFLICT DO UPDATE: group_name and ratio of
\* the row with the key of the item are replaced.
WriteItem(item) ==
    /\ item \in task.writing
    /\ rows' = {r \in rows : ~SameKey(r, item)} \cup {item}
    /\ task' = [task EXCEPT !.writing = {}]
    /\ UNCHANGED <<mode, remote, groups, changes>>

RefreshDone ==
    /\ task.pc = "upserting"
    /\ task.todo = {}
    /\ task.writing = {}
    /\ task' = Idle
    /\ UNCHANGED <<mode, remote, groups, rows, changes>>

\* An error or a restart ends the refresh after any of its writes.
CutOff ==
    /\ changes < MaxChanges
    /\ task.pc = "upserting"
    /\ changes' = changes + 1
    /\ task' = Idle
    /\ UNCHANGED <<mode, remote, groups, rows>>

-----------------------------------------------------------------------------
(* The administrator                                                       *)

\* upstream_groups_id_seq gives a new group an id above all others; only the order
\* of ids matters, so they are counted without gaps.
LastId == Cardinality(Existing)

\* A form is a list of groups: each name in it has a group, whose id is its place.
\* UpdateUpstream disables all groups, then writes those of the form one after the
\* other (upsertGroup): over the group of that name, or as a new one.
Upserted(form) ==
    [n \in Names |->
        IF n \notin DOMAIN form THEN [groups[n] EXCEPT !.enabled = FALSE]
        ELSE [form[n] EXCEPT !.id =
                 IF n \in Existing THEN groups[n].id
                 ELSE LastId + Cardinality({m \in DOMAIN form \ Existing : form[m].id <= @})]]

\* attachOrphanMonitorItemsToGroup, after each group: a row without group moves
\* into the first group of the form it names.  NoGroup: it stays, or has one.
Destination(r, form) ==
    IF r.group # NoGroup THEN NoGroup
    ELSE First(form, {n \in DOMAIN form : Called(form, n, r.gname)})

Attached(form) ==
    {LET to == Destination(r, form)
     IN IF to = NoGroup THEN r ELSE [r EXCEPT !.group = to, !.gname = to] : r \in rows}

\* The unique index on group, type and external id forbids a move.
Conflict(form) ==
    \E r, s \in rows :
        /\ Destination(r, form) # NoGroup
        /\ s.group = Destination(r, form)
        /\ s.ext = r.ext

\* UpdateUpstream with groups, one transaction: an error rolls it back.
PutGroups(form) ==
    /\ changes < MaxChanges
    /\ changes' = changes + 1
    /\ IF Conflict(form) THEN UNCHANGED <<groups, rows>>
       ELSE groups' = Upserted(form) /\ rows' = Attached(form)
    /\ UNCHANGED <<mode, remote, task>>

\* normalizeGroups: no name twice.
Orders(S) == {f \in [S -> 1 .. Cardinality(S)] : \A m, n \in S : f[m] = f[n] => m = n}

Forms(S) ==
    {[n \in S |-> [id |-> place[n], display |-> display[n], enabled |-> n \in enabled,
                   ratio |-> ratio[n]]] :
        place   \in Orders(S),
        display \in {d \in [S -> GroupNames] : \A n \in S : d[n] \in Displays[n]},
        enabled \in SUBSET S,
        ratio   \in {f \in [S -> Ratio] : \A n \in S : f[n] \in Given(n)}}

\* setGroupRatio: a group of that name is created when there is none; the rows
\* of the group, by id or by name, show the ratio at once.
SetUpstreamGroupRatio(n, ratio) ==
    /\ changes < MaxChanges
    /\ changes' = changes + 1
    /\ groups' = [groups EXCEPT ![n] =
           IF n \in Existing THEN [@ EXCEPT !.ratio = ratio]
           ELSE [id |-> LastId + 1, display |-> n, enabled |-> TRUE, ratio |-> ratio]]
    /\ rows' = {IF r.group = n \/ Called(groups', n, r.gname)
                THEN [r EXCEPT !.ratio = ratio] ELSE r : r \in rows}
    /\ UNCHANGED <<mode, remote, task>>

-----------------------------------------------------------------------------
Refresh ==
    \/ Fetch
    \/ \E item \in task.todo : SettleExternalID(item)
    \/ \E item \in task.writing : WriteItem(item)
    \/ RefreshDone

Next ==
    \/ Refresh
    \/ CutOff
    \/ \E item \in task.todo : SelectFails(item)
    \/ \E S \in (SUBSET Names) \ {{}} : \E form \in Forms(S) : PutGroups(form)
    \/ \E n \in Names : \E ratio \in Given(n) : SetUpstreamGroupRatio(n, ratio)

Spec == Init /\ [][Next]_vars

\* The ticker starts refresh after refresh and each goes on (theorem and run of
\* Poller); the administrator need not act.
FairSpec == Spec /\ WF_vars(Refresh)

-----------------------------------------------------------------------------
(* Properties                                                              *)

\* A row shows a ratio the administrator gave to the group of the row, the one it
\* is in or the one it names, and never that of another group, though groups are
\* changed between the reading of the groups and the last upsert, and rows move.
RatioFromOwnGroup ==
    \A r \in rows : r.ratio # NoRatio =>
        \/ r.ratio.of = r.group
        \/ r.gname \in ({r.ratio.of} \cup Displays[r.ratio.of]) \ {Blank}

\* With a user's credential an upstream has one account row per group, whether
\* the balance answers ("user:7") or only calls do ("user:self").
OneAccountRowPerGroup ==
    mode = "user" => \A r, s \in rows : r.group = s.group => r = s

IsAccount(i) == i.ext \in AccountIds

\* The row shows what the item says of group and ratio.
Shows(r, i) == r.group = i.group /\ r.gname = i.gname /\ r.ratio = i.ratio

\* The rows show what a refresh that reads the groups of now would report: each
\* channel and monitor has its row.  The accounts of one group have one row between
\* them, which shows one of them, for each takes the external id of the other.
UpToDate ==
    \E report \in Reports(groups) : \A i \in report :
        \E r \in rows, j \in report :
            /\ Shows(r, j)
            /\ IF IsAccount(i) THEN IsAccount(r) /\ IsAccount(j) /\ j.group = i.group
               ELSE r.ext = i.ext /\ j = i

\* A ratio a refresh in flight has put back, or one changed by PUT behind the
\* rows, heals: after the last change the rows are up to date again and again.
RatioHeals == []<>UpToDate

\* docs/05-frontend-api.md:399: the groups of an upstream become those the PUT
\* carries.  So a PUT that sends the groups back as they are is not refused.
PutGroupsAccepted == ~Conflict([n \in Existing |-> groups[n]])
=============================================================================
