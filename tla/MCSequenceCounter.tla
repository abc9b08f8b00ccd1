-------------------------- MODULE MCSequenceCounter --------------------------
(* Instances of SequenceCounter: adjoining, overlapping and unbounded ranges. *)
EXTENDS SequenceCounter, TLC

MCFirstList     == <<[from |-> 1, to |-> 2], [from |-> 2, to |-> 0]>>
MCOtherList     == <<[from |-> 1, to |-> 3], [from |-> 2, to |-> 3]>>
MCResponseLists == {MCFirstList, MCOtherList}

\* By its description, one response for the first call and one for all others.
MCDescribedList  == <<[from |-> 1, to |-> 1], [from |-> 2, to |-> 0]>>
MCDescribedLists == {MCDescribedList}

Symmetry == Permutations(Requests) \cup Permutations(Resets) \cup Permutations(Pods)
            \cup Permutations(Keys)
==============================================================================
