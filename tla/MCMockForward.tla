---------------------------- MODULE MCMockForward ----------------------------
(* Instances of MockForward: each seed document has a scope of its own.      *)
EXTENDS MockForward, FiniteSets

CONSTANTS d1, d2, p1, p2, h1, t1

MCSeedScope == [d \in Seeds |-> [prefix |-> IF d = d1 THEN p1 ELSE p2, shape |-> h1]]

(* The one key of this instance.                                            *)
MCTextOf == [k \in Keys |-> t1]
MCNamed  == [p \in Prefixes |-> Texts]

AnySettings == {[active |-> TRUE, seq |-> FALSE], [active |-> TRUE, seq |-> TRUE],
                [active |-> FALSE, seq |-> FALSE]}
==============================================================================
