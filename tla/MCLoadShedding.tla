--------------------------- MODULE MCLoadShedding ---------------------------
(* An instance of LoadShedding.  Durations are in half milliseconds, so that an
   average above the threshold may still be the same number of milliseconds. *)
EXTENDS LoadShedding

MCPings == {2, 5, 9}
==============================================================================
