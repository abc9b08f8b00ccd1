------------------------------ MODULE MCGRPCMock ------------------------------
(* An instance of GRPCMock: two documents, two routes of one service, a route of the
   same service with an empty method, and another service without a mock. *)
EXTENDS GRPCMock, TLC

CONSTANTS r1, r2, n1, s1, s2

MCServiceOf == [r \in Routes |-> s1]

Symmetry == Permutations(Admins) \cup Permutations(Ids) \cup Permutations({r1, r2})
===============================================================================
