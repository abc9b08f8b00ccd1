------------------------------- MODULE Approvals -------------------------------
(***************************************************************************)
(* What the confirmation of destructive tools promises: a call that was put   *)
(* to the user is decided once, by the first word that arrives in time, and   *)
(* only an approved call is executed, once.                                 *)
(***************************************************************************)
EXTENDS Naturals

CONSTANT Tokens

VARIABLES
    status, \* of each token
    runs    \* how often its call was executed

Statuses == {"fresh", "asked", "approved", "cancelled", "lapsed"}

Init == /\ status = [t \in Tokens |-> "fresh"]
        /\ runs = [t \in Tokens |-> 0]

Move(t, from, to) ==
    /\ status[t] = from
    /\ status' = [status EXCEPT ![t] = to]
    /\ UNCHANGED runs

Ask(t)     == Move(t, "fresh", "asked")
Approve(t) == Move(t, "asked", "approved")
Cancel(t)  == Move(t, "asked", "cancelled")

\* Time passes for all of them at once.
Lapse(S) ==
    /\ \A t \in S : status[t] = "asked"
    /\ status' = [t \in Tokens |-> IF t \in S THEN "lapsed" ELSE status[t]]
    /\ UNCHANGED runs

Execute(t) ==
    /\ status[t] = "approved"
    /\ runs[t] = 0
    /\ runs' = [runs EXCEPT ![t] = 1]
    /\ UNCHANGED status

Next == \/ \E t \in Tokens : Ask(t) \/ Approve(t) \/ Cancel(t) \/ Execute(t)
        \/ \E S \in SUBSET Tokens : Lapse(S)

Spec == Init /\ [][Next]_<<status, runs>>
===============================================================================
