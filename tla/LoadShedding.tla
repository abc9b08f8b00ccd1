----------------------------- MODULE LoadShedding -----------------------------
(***************************************************************************)
(* The first middleware of the forward server and the monitor that feeds it. *)
(* A request is turned away when the server already holds maxCurrency        *)
(* requests; otherwise it takes a slot, asks package health for its verdict   *)
(* and is served, delayed or shed.  The monitor pings MongoDB and writes the  *)
(* verdict: a flag and the last average latency above the threshold, two      *)
(* words that are stored and loaded one by one.                              *)
(***************************************************************************)
EXTENDS Naturals, FiniteSets

CONSTANTS
    Requests,       \* goroutines of the server; each serves one call after another
    maxCurrency,
    warningLatency, \* in milliseconds
    maxLatency,     \* in milliseconds
    threshold,      \* of the monitor, in units of time.Duration
    Millisecond,    \* the units in a millisecond
    windowSize,     \* samples before the monitor's first verdict; 5 in the code
    Pings,          \* latencies a ping may have, in units
    MaxPings        \* bound: pings that succeed

ASSUME RequestsAssumption == IsFiniteSet(Requests)
ASSUME LimitsAssumption == /\ maxCurrency \in Nat
                           /\ warningLatency \in Nat
                           /\ maxLatency \in Nat
ASSUME MonitorAssumption == /\ threshold \in Nat
                            /\ Millisecond \in Nat \ {0}
                            /\ windowSize \in Nat \ {0}
                            /\ Pings \subseteq Nat
                            /\ MaxPings \in Nat

VARIABLES
    pc,                \* where each request is
    current,           \* requests that hold a slot, as the middleware counts them
    overloaded,        \* the flag of package health
    latencyOverloaded, \* its latency, in milliseconds
    mpc,               \* where the monitor is
    sum, samples,      \* the latencies it collected
    overtaken,         \* history: a slot was taken between this request's check and its own
    verdict,           \* history: what the monitor last found
    seen,              \* history: the verdict when the request read the flag
    worst              \* history: the largest average the monitor found too slow, in milliseconds

health  == <<overloaded, latencyOverloaded>>
monitor == <<mpc, sum, samples, verdict, worst>>
vars    == <<pc, current, health, monitor, overtaken, seen>>

Holding  == {"counted", "flag_clear", "sleeping", "next", "shed"}
Verdicts == {"none", "slow", "fast", "error"}
Holders  == {r \in Requests : pc[r] \in Holding}

TypeOK ==
    /\ pc \in [Requests -> {"idle", "passed", "turned_away"} \cup Holding]
    /\ current \in Nat
    /\ overloaded \in BOOLEAN
    /\ latencyOverloaded \in Nat
    /\ mpc \in {"ping", "store"}
    /\ sum \in Nat
    /\ samples \in 0..MaxPings
    /\ mpc = "store" => samples > 0
    /\ overtaken \in [Requests -> BOOLEAN]
    /\ verdict \in Verdicts
    /\ seen \in [Requests -> Verdicts]
    /\ worst \in Nat

Init ==
    /\ pc = [r \in Requests |-> "idle"]
    /\ current = 0
    /\ overloaded = FALSE
    /\ latencyOverloaded = 0
    /\ mpc = "ping"
    /\ sum = 0
    /\ samples = 0
    /\ overtaken = [r \in Requests |-> FALSE]
    /\ verdict = "none"
    /\ seen = [r \in Requests |-> "none"]
    /\ worst = 0

-------------------------------------------------------------------------------
(* A request. *)

Goto(r, l) == pc' = [pc EXCEPT ![r] = l]

Full_OffByOne == current > maxCurrency
Full == current >= maxCurrency

Arrive(r) ==
    /\ pc[r] = "idle"
    /\ Goto(r, IF Full THEN "turned_away" ELSE "passed")
    /\ UNCHANGED <<current, health, monitor, overtaken, seen>>

\* The check is not repeated: AddInt64 is a second operation.
TakeSlot(r) ==
    /\ pc[r] = "passed"
    /\ current' = current + 1
    /\ Goto(r, "counted")
    /\ overtaken' = [q \in Requests |-> overtaken[q] \/ (q # r /\ pc[q] = "passed")]
    /\ UNCHANGED <<health, monitor, seen>>

ReadFlag(r) ==
    /\ pc[r] = "counted"
    /\ Goto(r, IF overloaded THEN "shed" ELSE "flag_clear")
    /\ seen' = [seen EXCEPT ![r] = verdict]
    /\ UNCHANGED <<current, health, monitor, overtaken>>

Status_Warning(latency) == IF latency > warningLatency THEN "shed" ELSE "next"
Status(latency) ==
    CASE latency >= maxLatency -> "shed"
      [] latency < maxLatency /\ latency > warningLatency -> "sleeping"
      [] OTHER -> "next"

ReadLatency(r) ==
    /\ pc[r] = "flag_clear"
    /\ Goto(r, Status(latencyOverloaded))
    /\ UNCHANGED <<current, health, monitor, overtaken, seen>>

WakeUp(r) ==
    /\ pc[r] = "sleeping"
    /\ Goto(r, "next")
    /\ UNCHANGED <<current, health, monitor, overtaken, seen>>

\* The call is answered; its history goes with it.
Done(r) ==
    /\ Goto(r, "idle")
    /\ overtaken' = [overtaken EXCEPT ![r] = FALSE]
    /\ seen' = [seen EXCEPT ![r] = "none"]
    /\ UNCHANGED <<health, monitor>>

\* The answer of the rest of the chain, or 503; the deferred decrement runs in both cases.
Leave_NextOnly(r) ==
    /\ pc[r] \in {"next", "shed"}
    /\ current' = IF pc[r] = "next" THEN current - 1 ELSE current
    /\ Done(r)

Leave(r) ==
    /\ pc[r] \in {"next", "shed"}
    /\ current' = current - 1
    /\ Done(r)

\* 503 without a slot: this return comes before the defer.
TurnAway(r) ==
    /\ pc[r] = "turned_away"
    /\ UNCHANGED current
    /\ Done(r)

Serve(r) == TakeSlot(r) \/ ReadFlag(r) \/ ReadLatency(r) \/ WakeUp(r) \/ Leave(r) \/ TurnAway(r)

-------------------------------------------------------------------------------
(* The monitor.  Its average is over all samples since the start. *)

Average == sum \div samples
Millis(d) == d \div Millisecond

PingFails ==
    /\ mpc = "ping"
    /\ overloaded' = TRUE
    /\ verdict' = "error"
    /\ UNCHANGED <<pc, current, latencyOverloaded, mpc, sum, samples, overtaken, seen, worst>>

Collect(d) ==
    /\ mpc = "ping"
    /\ samples < MaxPings
    /\ sum' = sum + d
    /\ samples' = samples + 1
    /\ UNCHANGED <<pc, current, latencyOverloaded, overtaken, seen>>

TooFewSamples(d) ==
    /\ Collect(d)
    /\ samples' < windowSize
    /\ UNCHANGED <<overloaded, mpc, verdict, worst>>

\* SetLatencyOverloaded(true, avg) stores the flag first and the latency second.
FindSlow(d) ==
    /\ Collect(d)
    /\ samples' >= windowSize
    /\ Average' > threshold
    /\ overloaded' = TRUE
    /\ mpc' = "store"
    /\ verdict' = "slow"
    /\ worst' = IF Millis(Average') > worst THEN Millis(Average') ELSE worst

StoreLatency ==
    /\ mpc = "store"
    /\ latencyOverloaded' = Millis(Average)
    /\ mpc' = "ping"
    /\ UNCHANGED <<pc, current, overloaded, sum, samples, overtaken, verdict, seen, worst>>

\* SetOverloaded(false): the latency keeps its value.
FindFast(d) ==
    /\ Collect(d)
    /\ samples' >= windowSize
    /\ Average' < threshold
    /\ overloaded' = FALSE
    /\ verdict' = "fast"
    /\ UNCHANGED <<mpc, worst>>

FindNeither(d) ==
    /\ Collect(d)
    /\ samples' >= windowSize
    /\ Average' = threshold
    /\ UNCHANGED <<overloaded, mpc, verdict, worst>>

Monitor == \/ PingFails
           \/ StoreLatency
           \/ \E d \in Pings : TooFewSamples(d) \/ FindSlow(d) \/ FindFast(d) \/ FindNeither(d)

Next == (\E r \in Requests : Arrive(r) \/ Serve(r)) \/ Monitor

Spec == Init /\ [][Next]_vars

-------------------------------------------------------------------------------
(* Correctness *)

\* Every path out of the middleware gives back exactly the slots it took: the
\* counter is the number of requests inside, whatever was turned away or shed.
CounterIsExact == current = Cardinality(Holders)

\* The requests inside that were overtaken between the check and the increment.
Racers == {r \in Holders : overtaken[r]}

\* The limit is passed only by requests that lost the race between the check and
\* the increment: there are at least as many of them inside as slots in excess.
OvershootNeedsRace == current <= maxCurrency + Cardinality(Racers)

\* While the monitor's last verdict is slow or error no request that asks for the
\* verdict goes through, not even between the two stores of the verdict.
TroubleIsShed ==
    \A r \in Requests : pc[r] \in {"flag_clear", "sleeping", "next"} => seen[r] \in {"none", "fast"}

\* A request is shed only if the monitor had found trouble when it asked, or if
\* some earlier average reached maxLatency: that latency is never cleared, so it
\* sheds requests although MongoDB has become fast.
ShedExplained ==
    \A r \in Requests : pc[r] = "shed" => seen[r] \in {"slow", "error"} \/ worst >= maxLatency
==============================================================================
