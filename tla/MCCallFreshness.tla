---------------------------- MODULE MCCallFreshness ----------------------------
(* Instances of CallFreshness: each seed document has a scope of its own.    *)
EXTENDS CallFreshness, FiniteSets, TLC

CONSTANTS d1, d2, p1, p2, h1, a1, t1, t2, t3

MCSeedScope == [d \in Seeds |-> [prefix |-> IF d = d1 THEN p1 ELSE p2, shape |-> h1]]

(* p1 is scenario "s" and p2 scenario "s:x" of one feature, a1 is account "a" *)
(* and a2 account "x:a": p1 with a2 reads like p2 with a1, and the pattern   *)
(* of p1 matches every key.                                                 *)
MCTextOf == [k \in Keys |->
               IF k.scope.prefix = p1 THEN IF k.account = a1 THEN t1 ELSE t2
               ELSE IF k.account = a1 THEN t2 ELSE t3]
MCNamed  == [p \in Prefixes |-> IF p = p1 THEN Texts ELSE {t2, t3}]

Switched    == {[active |-> a, seq |-> FALSE] : a \in BOOLEAN}

(* Bounds: three of the calls and handlers run, and the calls ask for the two *)
(* keys that read alike and for one that does not.                           *)
ThreeRuns ==
    Cardinality({r \in Requests : pc'[r] # "idle"}) +
    Cardinality({w \in Writers : wpc'[w] # "idle"}) <= 3

ThreeKeys ==
    \A r \in Requests : on'[r] # None => TextOf[on'[r][2]] # t1

Symmetry == Permutations(Requests) \cup Permutations(Writers) \cup Permutations(Pods)
==============================================================================
