------------------------------ MODULE SlidingLog ------------------------------
(***************************************************************************)
(* What a sliding window promises, of a limiter that forgets nothing: it      *)
(* keeps the stamp of every call it has allowed and judges a call by the      *)
(* stamps in its window.  A window that lies before what the limiter has       *)
(* already closed may let a call through that it should have denied; no call  *)
(* is denied by mistake.                                                    *)
(***************************************************************************)
EXTENDS Integers, FiniteSets

CONSTANTS Callers, Keys, NoKey, Limit, Window

VARIABLES
    now,
    log,   \* per key, the stamps of all calls it has allowed
    seen,  \* per key, the time before which windows are closed
    call   \* what each caller asks and was told

vars == <<now, log, seen, call>>

NoCall == [key |-> NoKey, stamp |-> 0, verdict |-> "none"]

Init == /\ now = 1
        /\ log = [k \in Keys |-> {}]
        /\ seen = [k \in Keys |-> 0]
        /\ call = [r \in Callers |-> NoCall]

Ask(r, k) ==
    /\ call[r] = NoCall
    /\ call' = [call EXCEPT ![r] = [key |-> k, stamp |-> now, verdict |-> "open"]]
    /\ UNCHANGED <<now, log, seen>>

Full(k, n) == Cardinality({s \in log[k] : s > n - Window}) >= Limit

\* Windows can be closed up to what was seen, and once the whole log has left the window of
\* the present, up to any time that all of it had left.
Closable(k) == {seen[k]} \cup {h \in 1..now : \A s \in log[k] : s + Window <= h}

Close(k, h, n) == seen' = [seen EXCEPT ![k] = IF n > h THEN n ELSE h]

\* The caller is told, unless the answer gets lost.
Told(r, v) == call' = [call EXCEPT ![r].verdict = v]

Admit(k, n, h) == /\ ~Full(k, n) \/ n < h
                  /\ log' = [log EXCEPT ![k] = @ \cup {n}]
                  /\ Close(k, h, n)

Refuse(k, n, h) == /\ Full(k, n)
                   /\ Close(k, h, n)
                   /\ UNCHANGED log

Judge(r) ==
    /\ call[r].verdict = "open"
    /\ \E h \in Closable(call[r].key) :
          \/ /\ Admit(call[r].key, call[r].stamp, h)
             /\ Told(r, "allowed") \/ UNCHANGED call
          \/ /\ Refuse(call[r].key, call[r].stamp, h)
             /\ Told(r, "denied") \/ UNCHANGED call
    /\ UNCHANGED now

Leave(r) ==
    /\ call' = [call EXCEPT ![r] = NoCall]
    /\ UNCHANGED <<now, log, seen>>

Tick == /\ now' = now + 1
        /\ UNCHANGED <<log, seen, call>>

Next == \/ Tick
        \/ \E r \in Callers : Judge(r) \/ Leave(r) \/ \E k \in Keys : Ask(r, k)

Spec == Init /\ [][Next]_vars
===============================================================================
