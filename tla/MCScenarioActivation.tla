------------------------ MODULE MCScenarioActivation ------------------------
(* Instances of ScenarioActivation: small sets of model values, the features *)
(* and names of the scenario documents, and the symmetry of the requests and *)
(* of the accounts.                                                          *)
EXTENDS ScenarioActivation, Naturals, FiniteSets, TLC

CONSTANTS f1, f2, s1, s2, t1

(* s1 and s2 belong to f1; t1 belongs to f2 and has the name of s1.          *)
MCFeatureOf == [s \in Scenarios |-> IF s = t1 THEN f2 ELSE f1]
MCNameOf    == [s \in Scenarios |-> IF s = s2 THEN "beta" ELSE "happy"]

(* Bounds: a plain activation is the HTTP handler's without a previous       *)
(* scenario.  At least one run is one, or not yet started; at most one run   *)
(* deletes, at most one is a forwarded call or a tool's deactivation, and at *)
(* most one is any other activation.                                       *)
Runs(ops) == {r \in Requests : arg'[r] # None /\ arg'[r].op \in ops}
Plain     == {r \in Runs({"activate"}) : arg'[r].prev = None}
MostlyActivations ==
    /\ Cardinality(Runs(AllOps) \ Plain) < Cardinality(Requests)
    /\ Cardinality(Runs(DeleteOps)) <= 1
    /\ Cardinality(Runs(ClearOps \cup {"forward"})) <= 1
    /\ Cardinality(Runs(ActivateOps) \ Plain) <= 1

Symmetry == Permutations(Requests) \cup Permutations(Accounts)
==============================================================================
