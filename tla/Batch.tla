--------------------------------- MODULE Batch ---------------------------------
(***************************************************************************)
(* What a load test promises: every account is taken once and reported once,   *)
(* nothing is returned before all of them are, and what is returned counts     *)
(* exactly the outcomes that were reported.                                  *)
(***************************************************************************)
EXTENDS Naturals, Sequences, FiniteSets

CONSTANT Sizes \* the numbers of accounts of a load test

VARIABLES
    phase,
    waiting,  \* the accounts that nobody has taken
    underway, \* those that somebody runs
    outcomes, \* what was reported, in order
    answer    \* what is returned

NoAnswer == [success |-> 0, failure |-> 0]

Wins(log) == {i \in 1..Len(log) : log[i].success}
Count(log) == [success |-> Cardinality(Wins(log)), failure |-> Len(log) - Cardinality(Wins(log))]

Init == /\ phase = "none"
        /\ waiting = {} /\ underway = {} /\ outcomes = <<>> /\ answer = NoAnswer

Start == /\ phase # "running"
         /\ \E n \in Sizes : waiting' = 1..n
         /\ phase' = "running"
         /\ underway' = {} /\ outcomes' = <<>> /\ answer' = NoAnswer

Take == /\ phase = "running"
        /\ \E a \in waiting : waiting' = waiting \ {a} /\ underway' = underway \cup {a}
        /\ UNCHANGED <<phase, outcomes, answer>>

Report == /\ phase = "running"
          /\ \E a \in underway, success \in BOOLEAN :
                 /\ underway' = underway \ {a}
                 /\ outcomes' = Append(outcomes, [account |-> a, success |-> success])
          /\ UNCHANGED <<phase, waiting, answer>>

Return == /\ phase = "running"
          /\ waiting = {} /\ underway = {}
          /\ phase' = "done" /\ answer' = Count(outcomes)
          /\ UNCHANGED <<waiting, underway, outcomes>>

\* The process dies.
Crash == /\ phase = "running"
         /\ phase' = "crashed"
         /\ UNCHANGED <<waiting, underway, outcomes, answer>>

Next == Start \/ Take \/ Report \/ Return \/ Crash

Spec == Init /\ [][Next]_<<phase, waiting, underway, outcomes, answer>>
================================================================================
