------------------------------- MODULE MCCatalog -------------------------------
(* An instance of Catalog: two admins, two names of features and of scenarios, three
   features and two scenarios at a time, pages of one and two documents. *)
EXTENDS Catalog, TLC

Symmetry == Permutations(Admins) \cup Permutations(Names) \cup Permutations(ScenarioNames)
===============================================================================
