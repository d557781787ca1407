------------------------------- MODULE Future -------------------------------
(***************************************************************************)
(* What an awaitable promises its waiters: one final outcome, and nobody   *)
(* who waits goes on without it or with another one.                       *)
(***************************************************************************)
CONSTANTS Waiter

Outcome == {"result", "exception"}

VARIABLES
    outcome,  \* "pending" until there is one
    task      \* "idle", "waiting", or the outcome the waiter went on with

vars == <<outcome, task>>

Init ==
    /\ outcome = "pending"
    /\ task = [t \in Waiter |-> "idle"]

Complete(r) ==
    /\ outcome = "pending"
    /\ outcome' = r
    /\ UNCHANGED task

Wait(t) ==
    /\ task[t] = "idle"
    /\ outcome = "pending"
    /\ task' = [task EXCEPT ![t] = "waiting"]
    /\ UNCHANGED outcome

GoOn(t) ==
    /\ task[t] \in {"idle", "waiting"}
    /\ outcome # "pending"
    /\ task' = [task EXCEPT ![t] = outcome]
    /\ UNCHANGED outcome

Next ==
    \/ \E r \in Outcome : Complete(r)
    \/ \E t \in Waiter : Wait(t) \/ GoOn(t)

Spec == Init /\ [][Next]_vars
=============================================================================
