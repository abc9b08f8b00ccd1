------------------------------ MODULE MCSlackBot ------------------------------
(* An instance of SlackBot: one thread, two tokens.  There is no
   symmetry, since the run checks liveness. *)
EXTENDS SlackBot
===============================================================================
