\* One group, enabled or not, a user's account, one PUT.
SPECIFICATION Spec
CONSTANTS
    Names = {default}
    Default = default
    Blank = Blank
    Label = Label
    Displays <- NameDisplays
    Accounts = {}
    Channels = {}
    Monitors = {}
    Member = Member
    Reported <- ReportedDefault
    AdminFails = FALSE
    Values = {x}
    NoValue = NoValue
    MaxChanges = 1
INVARIANTS
    PutGroupsAccepted
