\* Two groups, one of them with a label, a user's account, two accounts of an admin API
\* in the same group or not, a channel and a monitor, changes between any two steps.
SPECIFICATION FairSpec
CONSTANTS
    Names = {default, vip}
    Default = default
    Blank = Blank
    Label = Label
    Displays <- LabelDisplays
    Accounts = {a1, a2}
    Channels = {c1}
    Monitors = {m1}
    Member = a1
    Reported <- ReportedNames
    AdminFails = FALSE
    Values = {x}
    NoValue = NoValue
    MaxChanges = 2
INVARIANTS
    TypeOK
    RatioFromOwnGroup
    OneAccountRowPerGroup
PROPERTIES
    RatioHeals
