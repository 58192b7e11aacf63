-------------------------- MODULE RefreshContract --------------------------
(***************************************************************************)
(* What the refresh engine promises about one column pair, last_polled_at  *)
(* and last_error, to whoever reads the table: a refresh takes an upstream *)
(* alone, is stamped once with a time, publishes at most one result, with  *)
(* that stamp, and lets go.  Results of a row never go back in time.  A    *)
(* restart loses what is in progress and nothing that was published.       *)
(***************************************************************************)
EXTENDS Integers

CONSTANTS Upstreams, MaxTime

VARIABLES
    phase,   \* where the refresh of an upstream stands
    stamp,   \* the time it began
    row      \* the published result, or the absence of the row

cvars == <<phase, stamp, row>>

NoTime == 0
Phases == {"free", "taken", "stamped", "closing"}
NoRow  == [live |-> FALSE, polledAt |-> NoTime, lastError |-> FALSE]

Init ==
    /\ phase = [u \in Upstreams |-> "free"]
    /\ stamp = [u \in Upstreams |-> NoTime]
    /\ row = [u \in Upstreams |-> NoRow]

Take(u) ==
    /\ phase[u] = "free"
    /\ phase' = [phase EXCEPT ![u] = "taken"]
    /\ UNCHANGED <<stamp, row>>

\* The refresh reads the clock; it may find that there is nothing to do.
Stamp(u) ==
    /\ phase[u] = "taken"
    /\ \E t \in 1 .. MaxTime, p \in {"stamped", "closing"} :
         /\ t >= row[u].polledAt
         /\ stamp' = [stamp EXCEPT ![u] = t]
         /\ phase' = [phase EXCEPT ![u] = p]
    /\ UNCHANGED row

\* One result per refresh; the result of a deleted row goes nowhere, and a
\* result the store refuses is lost.
Publish(u) ==
    /\ phase[u] = "stamped"
    /\ phase' = [phase EXCEPT ![u] = "closing"]
    /\ \/ UNCHANGED row
       \/ /\ row[u].live
          /\ \E failed \in BOOLEAN :
               row' = [row EXCEPT ![u] = [live |-> TRUE, polledAt |-> stamp[u],
                                          lastError |-> failed]]
    /\ UNCHANGED stamp

LetGo(u) ==
    /\ phase[u] = "closing"
    /\ phase' = [phase EXCEPT ![u] = "free"]
    /\ stamp' = [stamp EXCEPT ![u] = NoTime]
    /\ UNCHANGED row

\* Rows come and go whatever the refreshes do.
Add(u) ==
    /\ ~row[u].live
    /\ row' = [row EXCEPT ![u].live = TRUE]
    /\ UNCHANGED <<phase, stamp>>

Remove(u) ==
    /\ row[u].live
    /\ row' = [row EXCEPT ![u] = NoRow]
    /\ UNCHANGED <<phase, stamp>>

Lose ==
    /\ phase' = [u \in Upstreams |-> "free"]
    /\ stamp' = [u \in Upstreams |-> NoTime]
    /\ UNCHANGED row

Next ==
    \/ \E u \in Upstreams :
         Take(u) \/ Stamp(u) \/ Publish(u) \/ LetGo(u) \/ Add(u) \/ Remove(u)
    \/ Lose

Spec == Init /\ [][Next]_cvars
=============================================================================
