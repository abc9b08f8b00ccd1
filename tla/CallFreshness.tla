----------------------------- MODULE CallFreshness -----------------------------
(***************************************************************************)
(* What the client of a forwarded call may rely on, against changes of the  *)
(* mock that run beside the call: how old an answer can be.  The steps are   *)
(* those of MockForward; this module adds what a client and an admin could   *)
(* have written down while they watched.                                    *)
(***************************************************************************)
EXTENDS MockForward

VARIABLES
    since,     \* history: what the scopes with the key of each call have had since it arrived
    behind,    \* history: the call that led the flight which each call joined
    excused    \* history: calls whose cache hit had one of the reasons to be stale

history     == <<since, behind, excused>>
watchedVars == <<vars, history>>

Contained(s) == {ContentOf(d) : d \in Matching(s)}
Running(r)   == pc[r] \in {"get", "do", "wait", "incr"}
Leader(l, f) == pc[l] = "wait" /\ FlightOf(l) = f /\ behind[l] = {}

(* What a call may be answered with: the contents of the scopes whose keys   *)
(* read like its own.                                                       *)
Alike        == [t \in Texts |-> {k.scope : k \in {k \in Keys : TextOf[k] = t}}]
InReach(r)   == UNION {Contained(s) : s \in Alike[Text(r)]}

Seeing ==
    since' = [r \in Requests |->
                IF Running(r)' THEN since[r] \cup InReach(r)' ELSE since[r]]

Joining ==
    behind' = [r \in Requests |->
                 IF pc[r] = "do" /\ pc'[r] = "wait" THEN {l \in Requests : Leader(l, FlightOf(r))}
                 ELSE behind[r]]

Hitting ==
    excused' = excused \cup {r \in Requests : /\ pc[r] = "get" /\ pc'[r] = "answered"
                                              /\ cached[Text(r)] # None
                                              /\ Excused(Text(r))}

WatchedInit == /\ Init
             /\ since = [r \in Requests |-> {}]
             /\ behind = [r \in Requests |-> {}]
             /\ excused = {}

WatchedNext == Next /\ Seeing /\ Joining /\ Hitting

WatchedSpec == WatchedInit /\ [][WatchedNext]_watchedVars

(* A call is answered with what its scope, or one whose key reads alike, had *)
(* at some moment between its own arrival and its answer; or, when it joined the flight of another call,     *)
(* between that call's arrival and its answer; or it hit a cache entry that   *)
(* had one of the reasons of StaleExplained at that moment.  After a change   *)
(* that was invalidated cleanly and that no fetch was overtaken by, only a    *)
(* call that joins a fetch already under way can still get the old mock.      *)
AnswerWasCurrent ==
    \A r \in Requests : pc[r] = "answered" =>
        \/ \E l \in {r} \cup behind[r] : answer[r] \in since[l]
        \/ r \in excused
===============================================================================
