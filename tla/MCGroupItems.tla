---------------------------- MODULE MCGroupItems ----------------------------
(* GroupItems on small instances. *)
EXTENDS GroupItems

\* The form of the dashboard sends the name as display name when there is none.
NameDisplays == [n \in Names |-> {n}]

\* Groups but Default may go by a name of their own, which the upstream reports.  Of
\* the accounts of an admin API, it always reports Member under that name.
CONSTANTS Label, Member

LabelDisplays == [n \in Names |-> IF n = Default THEN {n} ELSE {n, Label}]

ReportedNames ==
    [v \in {"user"} \cup Accounts \cup Monitors |->
        IF v \in Monitors \cup {Member} THEN {Label} ELSE {Label, Blank}]

\* The name of the first group, or none.
ReportedDefault == [v \in {"user"} \cup Accounts \cup Monitors |-> {Default, Blank}]
=============================================================================
