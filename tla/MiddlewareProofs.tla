--------------------------- MODULE MiddlewareProofs ---------------------------
(*****************************************************************************)
(* Proofs about the two middlewares in front of every forwarded call: module  *)
(* LoadShedding, for any finite number of requests, any limits, any threshold *)
(* and window of the monitor and any latencies of its pings, and module       *)
(* RateLimiter, for any callers and keys, any limit, any window and any length*)
(* of a second.                                                               *)
(*****************************************************************************)
EXTENDS LoadShedding, RateLimiter, FiniteSetTheorems, TLAPS

-------------------------------------------------------------------------------
(*****************************************************************************)
(* LoadShedding.                                                              *)
(*****************************************************************************)

(* A request that passed the check and was not overtaken still fits.         *)
PassedFits ==
    \A r \in Requests : pc[r] = "passed" /\ ~overtaken[r] => current < maxCurrency + Cardinality(Racers)

(* The flag is what the monitor last found.                                  *)
FlagIsVerdict == overloaded <=> verdict \in {"slow", "error"}

(* The stored latency, and the one about to be stored, are in worst.          *)
WorstBounds == /\ latencyOverloaded <= worst
               /\ mpc = "store" => Millis(Average) <= worst

IInv == /\ TypeOK
        /\ CounterIsExact
        /\ OvershootNeedsRace
        /\ PassedFits
        /\ FlagIsVerdict
        /\ WorstBounds
        /\ TroubleIsShed
        /\ ShedExplained

USE DEF Goto, health, monitor

-------------------------------------------------------------------------------
(* The sets of requests.                                                    *)

LEMMA HoldersFinite ==
    /\ IsFiniteSet(Holders) /\ Cardinality(Holders) \in Nat
    /\ IsFiniteSet(Racers) /\ Cardinality(Racers) \in Nat
<1>1. Holders \in SUBSET Requests /\ Racers \in SUBSET Requests
  BY DEF Holders, Racers
<1> QED
  BY <1>1, RequestsAssumption, FS_Subset, FS_CardinalityType

LEMMA TakeSlotSets ==
    ASSUME TypeOK, NEW r \in Requests, TakeSlot(r)
    PROVE  /\ Cardinality(Holders)' = Cardinality(Holders) + 1
           /\ Cardinality(Racers)' = Cardinality(Racers) + (IF overtaken[r] THEN 1 ELSE 0)
<1>1. Holders' = Holders \cup {r} /\ r \notin Holders
  BY DEF TakeSlot, TypeOK, Holders, Holding
<1>2. CASE overtaken[r]
  <2>1. Racers' = Racers \cup {r} /\ r \notin Racers
    BY <1>1, <1>2 DEF TakeSlot, TypeOK, Racers, Holders, Holding
  <2> QED
    BY <1>1, <1>2, <2>1, HoldersFinite, FS_AddElement
<1>3. CASE ~overtaken[r]
  <2>1. Racers' = Racers
    BY <1>1, <1>3 DEF TakeSlot, TypeOK, Racers, Holders, Holding
  <2>2. Cardinality(Racers)' = Cardinality(Racers)
    BY <2>1
  <2>3. Cardinality(Holders)' = Cardinality(Holders) + 1
    BY <1>1, HoldersFinite, FS_AddElement
  <2> QED
    BY <1>3, <2>2, <2>3, HoldersFinite
<1> QED
  BY <1>2, <1>3

LEMMA LeaveSets ==
    ASSUME TypeOK, NEW r \in Requests, Leave(r)
    PROVE  /\ Cardinality(Holders) > 0
           /\ Cardinality(Holders)' = Cardinality(Holders) - 1
           /\ Cardinality(Racers)' \in {Cardinality(Racers), Cardinality(Racers) - 1}
           /\ ~overtaken[r] => Cardinality(Racers)' = Cardinality(Racers)
<1>1. Holders' = Holders \ {r} /\ r \in Holders
  BY DEF Leave, Done, TypeOK, Holders, Holding
<1>2. Racers' = Racers \ {r} /\ (~overtaken[r] => r \notin Racers)
  BY <1>1 DEF Leave, Done, TypeOK, Racers, Holders, Holding
<1>3. Cardinality(Holders) # 0
  BY <1>1, HoldersFinite, FS_EmptySet
<1>4. Cardinality(Holders)' = Cardinality(Holders) - 1
  BY <1>1, HoldersFinite, FS_RemoveElement
<1>5. /\ Cardinality(Racers)' \in {Cardinality(Racers), Cardinality(Racers) - 1}
      /\ ~overtaken[r] => Cardinality(Racers)' = Cardinality(Racers)
  <2>1. Cardinality(Racers)' = Cardinality(Racers \ {r})
    BY <1>2
  <2> QED
    BY <1>2, <2>1, HoldersFinite, FS_RemoveElement
<1> QED
  BY <1>3, <1>4, <1>5, HoldersFinite

(* The other steps move no request across the boundary.                      *)
LEMMA QuietSets ==
    ASSUME TypeOK,
           \/ \E r \in Requests : Arrive(r) \/ ReadFlag(r) \/ ReadLatency(r) \/ WakeUp(r) \/ TurnAway(r)
           \/ Monitor
    PROVE  Holders' = Holders /\ Racers' = Racers /\ current' = current
<1>1. ASSUME NEW r \in Requests, Arrive(r) \/ ReadFlag(r) \/ ReadLatency(r) \/ WakeUp(r)
      PROVE  Holders' = Holders /\ Racers' = Racers /\ current' = current
  <2>1. Holders' = Holders /\ overtaken' = overtaken /\ current' = current
    BY <1>1 DEF Arrive, ReadFlag, ReadLatency, WakeUp, Status, TypeOK, Holders, Holding
  <2> QED
    BY <2>1 DEF Racers
<1>2. ASSUME NEW r \in Requests, TurnAway(r)
      PROVE  Holders' = Holders /\ Racers' = Racers /\ current' = current
  <2>1. Holders' = Holders /\ r \notin Holders /\ current' = current
    BY <1>2 DEF TurnAway, Done, TypeOK, Holders, Holding
  <2>2. \A q \in Holders : overtaken'[q] = overtaken[q]
    BY <1>2, <2>1 DEF TurnAway, Done, TypeOK, Holders
  <2> QED
    BY <2>1, <2>2 DEF Racers
<1>3. CASE Monitor
  BY <1>3 DEF Monitor, PingFails, StoreLatency, TooFewSamples, FindSlow, FindFast, FindNeither,
              Collect, Holders, Racers
<1> QED
  BY <1>1, <1>2, <1>3

LEMMA AverageType ==
    ASSUME NEW s \in Nat, NEW n \in Nat, n > 0
    PROVE  s \div n \in Nat /\ Millis(s \div n) \in Nat
BY MonitorAssumption DEF Millis

-------------------------------------------------------------------------------
(* Each part of the invariant is preserved.                                 *)

LEMMA InitInv == Init => IInv
<1> SUFFICES ASSUME Init PROVE IInv
  OBVIOUS
<1>1. Holders = {} /\ Racers = {}
  BY DEF Init, Holders, Racers, Holding
<1>2. Cardinality(Holders) = 0 /\ Cardinality(Racers) = 0
  BY <1>1, FS_EmptySet
<1>3. TypeOK
  <2>1. overtaken \in [Requests -> BOOLEAN]
    BY Zenon DEF Init
  <2>2. samples \in 0..MaxPings
    BY MonitorAssumption DEF Init
  <2> QED
    BY <2>1, <2>2 DEF Init, TypeOK, Verdicts
<1>4. CounterIsExact /\ OvershootNeedsRace
  BY <1>2, LimitsAssumption DEF Init, CounterIsExact, OvershootNeedsRace
<1>5. PassedFits /\ FlagIsVerdict /\ WorstBounds /\ TroubleIsShed /\ ShedExplained
  BY DEF Init, PassedFits, FlagIsVerdict, WorstBounds, TroubleIsShed, ShedExplained
<1> QED
  BY <1>3, <1>4, <1>5 DEF IInv

LEMMA CollectFacts ==
    ASSUME TypeOK, NEW d \in Pings, Collect(d)
    PROVE  /\ sum' \in Nat /\ samples' \in 0..MaxPings /\ samples' > 0
           /\ Average' \in Nat /\ Millis(Average') \in Nat
<1>1. sum' \in Nat /\ samples' \in 0..MaxPings /\ samples' > 0
  BY MonitorAssumption DEF TypeOK, Collect
<1>2. Average' = sum' \div samples'
  BY DEF Average
<1>3. sum' \div samples' \in Nat /\ Millis(sum' \div samples') \in Nat
  <2>1. samples' \in Nat
    BY <1>1
  <2> QED
    BY <1>1, <2>1, AverageType
<1> QED
  BY <1>1, <1>2, <1>3

LEMMA RequestType ==
    ASSUME TypeOK, CounterIsExact, NEW r \in Requests, Arrive(r) \/ Serve(r)
    PROVE  TypeOK'
<1>1. CASE Arrive(r)
  BY <1>1 DEF Arrive, TypeOK
<1>2. CASE TakeSlot(r)
  BY <1>2 DEF TakeSlot, TypeOK, Holding
<1>3. CASE ReadFlag(r)
  BY <1>3 DEF ReadFlag, TypeOK, Holding
<1>4. CASE ReadLatency(r)
  <2>1. Status(latencyOverloaded) \in Holding
    BY LimitsAssumption DEF Status, Holding, TypeOK
  <2> QED
    BY <1>4, <2>1 DEF ReadLatency, TypeOK
<1>5. CASE WakeUp(r)
  BY <1>5 DEF WakeUp, TypeOK, Holding
<1>6. CASE Leave(r)
  <2>1. current' \in Nat
    BY <1>6, LeaveSets, HoldersFinite DEF Leave, CounterIsExact
  <2> QED
    BY <1>6, <2>1 DEF Leave, Done, TypeOK, Verdicts
<1>7. CASE TurnAway(r)
  BY <1>7 DEF TurnAway, Done, TypeOK, Verdicts
<1> QED
  BY <1>1, <1>2, <1>3, <1>4, <1>5, <1>6, <1>7 DEF Serve

LEMMA MonitorType ==
    ASSUME TypeOK, Monitor
    PROVE  TypeOK'
<1>1. CASE PingFails
  BY <1>1 DEF PingFails, TypeOK, Verdicts
<1>2. CASE StoreLatency
  <2>1. Millis(Average) \in Nat
    BY <1>2, AverageType DEF StoreLatency, TypeOK, Average
  <2> QED
    BY <1>2, <2>1 DEF StoreLatency, TypeOK
<1>3. ASSUME NEW d \in Pings, TooFewSamples(d) \/ FindSlow(d) \/ FindFast(d) \/ FindNeither(d)
      PROVE  TypeOK'
  <2>1. Collect(d)
    BY <1>3 DEF TooFewSamples, FindSlow, FindFast, FindNeither
  <2> QED
    BY <1>3, <2>1, CollectFacts
    DEF TooFewSamples, FindSlow, FindFast, FindNeither, Collect, TypeOK, Verdicts
<1> QED
  BY <1>1, <1>2, <1>3 DEF Monitor

LEMMA CountersStep ==
    ASSUME TypeOK, CounterIsExact, OvershootNeedsRace, PassedFits, Next
    PROVE  CounterIsExact' /\ OvershootNeedsRace' /\ PassedFits'
<1>1. ASSUME NEW r \in Requests, TakeSlot(r)
      PROVE  CounterIsExact' /\ OvershootNeedsRace' /\ PassedFits'
  <2>1. current' = current + 1
    BY <1>1 DEF TakeSlot
  <2>2. CounterIsExact'
    BY <1>1, <2>1, TakeSlotSets DEF CounterIsExact
  <2>3. ~overtaken[r] => current < maxCurrency + Cardinality(Racers)
    BY <1>1 DEF TakeSlot, PassedFits
  <2>4. OvershootNeedsRace'
    BY <1>1, <2>1, <2>3, TakeSlotSets, HoldersFinite, LimitsAssumption
    DEF OvershootNeedsRace, TypeOK
  <2>5. \A q \in Requests : pc'[q] = "passed" => overtaken'[q]
    BY <1>1 DEF TakeSlot, TypeOK
  <2> QED
    BY <2>2, <2>4, <2>5 DEF PassedFits
<1>2. ASSUME NEW r \in Requests, Leave(r)
      PROVE  CounterIsExact' /\ OvershootNeedsRace' /\ PassedFits'
  <2>1. current' = current - 1
    BY <1>2 DEF Leave
  <2>2. CounterIsExact'
    BY <1>2, <2>1, LeaveSets DEF CounterIsExact
  <2>3. Cardinality(Racers)' >= Cardinality(Racers) - 1 /\ Cardinality(Racers)' \in Int
    BY <1>2, LeaveSets, HoldersFinite
  <2>4. OvershootNeedsRace'
    BY <2>1, <2>3, HoldersFinite, LimitsAssumption DEF OvershootNeedsRace, TypeOK
  <2>5. \A q \in Requests : pc'[q] = "passed" /\ ~overtaken'[q] => pc[q] = "passed" /\ ~overtaken[q]
    BY <1>2 DEF Leave, Done, TypeOK
  <2>6. PassedFits'
    BY <2>1, <2>3, <2>5, HoldersFinite, LimitsAssumption DEF PassedFits, TypeOK
  <2> QED
    BY <2>2, <2>4, <2>6
<1>3. ASSUME \/ \E r \in Requests : \/ Arrive(r) \/ ReadFlag(r) \/ ReadLatency(r)
                                     \/ WakeUp(r) \/ TurnAway(r)
             \/ Monitor
      PROVE  CounterIsExact' /\ OvershootNeedsRace' /\ PassedFits'
  <2>1. /\ current' = current
        /\ Cardinality(Holders)' = Cardinality(Holders)
        /\ Cardinality(Racers)' = Cardinality(Racers)
    BY <1>3, QuietSets
  <2>2. \A q \in Requests : pc'[q] = "passed" /\ ~overtaken'[q] =>
            (pc[q] = "passed" /\ ~overtaken[q]) \/ current < maxCurrency
    BY <1>3, LimitsAssumption
    DEF Arrive, Full, ReadFlag, ReadLatency, Status, WakeUp, TurnAway, Done, Monitor, PingFails, StoreLatency,
        TooFewSamples, FindSlow, FindFast, FindNeither, Collect, TypeOK
  <2>3. PassedFits'
    BY <2>1, <2>2, HoldersFinite, LimitsAssumption DEF PassedFits, TypeOK
  <2> QED
    BY <2>1, <2>3 DEF CounterIsExact, OvershootNeedsRace
<1> QED
  BY <1>1, <1>2, <1>3 DEF Next, Serve

LEMMA VerdictStep ==
    ASSUME IInv, Next
    PROVE  FlagIsVerdict' /\ WorstBounds' /\ TroubleIsShed' /\ ShedExplained'
<1> USE DEF IInv
<1>1. ASSUME NEW r \in Requests, Arrive(r) \/ Serve(r)
      PROVE  FlagIsVerdict' /\ WorstBounds' /\ TroubleIsShed' /\ ShedExplained'
  <2>1. UNCHANGED <<overloaded, latencyOverloaded, mpc, sum, samples, verdict, worst>>
    BY <1>1 DEF Arrive, Serve, TakeSlot, ReadFlag, ReadLatency, WakeUp, Leave, TurnAway, Done
  <2>2. FlagIsVerdict' /\ WorstBounds'
    BY <2>1 DEF FlagIsVerdict, WorstBounds, Average
  <2>3. CASE ReadFlag(r)
    <3>1. seen'[r] = verdict /\ pc'[r] = IF overloaded THEN "shed" ELSE "flag_clear"
      BY <2>3 DEF ReadFlag, TypeOK
    <3>2. \A q \in Requests \ {r} : pc'[q] = pc[q] /\ seen'[q] = seen[q]
      BY <2>3 DEF ReadFlag, TypeOK
    <3>3. TroubleIsShed'
      BY <3>1, <3>2 DEF TroubleIsShed, FlagIsVerdict, TypeOK, Verdicts
    <3>4. ShedExplained'
      BY <2>1, <3>1, <3>2 DEF ShedExplained, FlagIsVerdict
    <3> QED
      BY <2>2, <3>3, <3>4
  <2>4. CASE ReadLatency(r)
    <3>1. pc'[r] = "shed" => worst >= maxLatency
      BY <2>4, LimitsAssumption DEF ReadLatency, Status, WorstBounds, TypeOK
    <3>2. pc[r] = "flag_clear" /\ seen' = seen
      BY <2>4 DEF ReadLatency
    <3>3. \A q \in Requests \ {r} : pc'[q] = pc[q]
      BY <2>4 DEF ReadLatency, TypeOK
    <3>4. TroubleIsShed'
      BY <3>2, <3>3 DEF TroubleIsShed
    <3>5. ShedExplained'
      BY <2>1, <3>1, <3>2, <3>3 DEF ShedExplained
    <3> QED
      BY <2>2, <3>4, <3>5
  <2>5. CASE WakeUp(r)
    BY <2>1, <2>2, <2>5 DEF WakeUp, TroubleIsShed, ShedExplained, TypeOK
  <2>6. CASE Arrive(r) \/ TakeSlot(r) \/ Leave(r) \/ TurnAway(r)
    <3>1. pc'[r] \notin {"flag_clear", "sleeping", "next", "shed"}
      BY <2>6 DEF Arrive, TakeSlot, Leave, TurnAway, Done, TypeOK
    <3>2. \A q \in Requests \ {r} : pc'[q] = pc[q] /\ seen'[q] = seen[q]
      BY <2>6 DEF Arrive, TakeSlot, Leave, TurnAway, Done, TypeOK
    <3>3. TroubleIsShed' /\ ShedExplained'
      BY <2>1, <3>1, <3>2 DEF TroubleIsShed, ShedExplained
    <3> QED
      BY <2>2, <3>3
  <2> QED
    BY <1>1, <2>3, <2>4, <2>5, <2>6 DEF Serve
<1>2. CASE Monitor
  <2>1. UNCHANGED <<pc, seen>> /\ (worst' >= worst) /\ worst' \in Nat
    <3>1. CASE PingFails \/ StoreLatency
      BY <3>1 DEF PingFails, StoreLatency, TypeOK
    <3>2. ASSUME NEW d \in Pings, TooFewSamples(d) \/ FindSlow(d) \/ FindFast(d) \/ FindNeither(d)
          PROVE  UNCHANGED <<pc, seen>> /\ (worst' >= worst) /\ worst' \in Nat
      <4>1. Collect(d)
        BY <3>2 DEF TooFewSamples, FindSlow, FindFast, FindNeither
      <4> QED
        BY <3>2, <4>1, CollectFacts
        DEF TooFewSamples, FindSlow, FindFast, FindNeither, Collect, TypeOK
    <3> QED
      BY <1>2, <3>1, <3>2 DEF Monitor
  <2>2. TroubleIsShed' /\ ShedExplained'
    BY <2>1, LimitsAssumption DEF TroubleIsShed, ShedExplained, TypeOK
  <2>3. FlagIsVerdict'
    BY <1>2 DEF Monitor, PingFails, StoreLatency, TooFewSamples, FindSlow, FindFast, FindNeither,
                FlagIsVerdict, Collect
  <2>4. WorstBounds'
    <3>1. CASE PingFails
      BY <3>1 DEF PingFails, WorstBounds
    <3>2. CASE StoreLatency
      BY <3>2 DEF StoreLatency, WorstBounds
    <3>3. ASSUME NEW d \in Pings, FindSlow(d)
          PROVE  WorstBounds'
      <4>1. Collect(d) /\ latencyOverloaded' = latencyOverloaded
        BY <3>3 DEF FindSlow, Collect
      <4>2. Millis(Average') <= worst'
        BY <3>3, <4>1, CollectFacts DEF FindSlow, TypeOK
      <4>3. Millis(Average)' = Millis(Average')
        BY DEF Millis, Average
      <4> QED
        BY <2>1, <4>1, <4>2, <4>3 DEF WorstBounds, TypeOK
    <3>4. ASSUME NEW d \in Pings, TooFewSamples(d) \/ FindFast(d) \/ FindNeither(d)
          PROVE  WorstBounds'
      <4>1. mpc' = "ping" /\ latencyOverloaded' = latencyOverloaded /\ worst' = worst
        BY <3>4 DEF TooFewSamples, FindFast, FindNeither, Collect
      <4> QED
        BY <4>1 DEF WorstBounds
    <3> QED
      BY <1>2, <3>1, <3>2, <3>3, <3>4 DEF Monitor
  <2> QED
    BY <2>2, <2>3, <2>4
<1> QED
  BY <1>1, <1>2 DEF Next

-------------------------------------------------------------------------------
(* The theorems.                                                            *)

LEMMA Invariance == Spec => []IInv
<1>1. IInv /\ [Next]_vars => IInv'
  <2> SUFFICES ASSUME IInv, [Next]_vars PROVE IInv'
    OBVIOUS
  <2>1. CASE Next
    <3>1. TypeOK'
      BY <2>1, RequestType, MonitorType DEF IInv, Next
    <3> QED
      BY <2>1, <3>1, CountersStep, VerdictStep DEF IInv
  <2>2. CASE UNCHANGED vars
    BY <2>2 DEF vars, IInv, TypeOK, CounterIsExact, OvershootNeedsRace, PassedFits, FlagIsVerdict,
                WorstBounds, TroubleIsShed, ShedExplained, Holders, Racers, Average
  <2> QED
    BY <2>1, <2>2
<1> QED
  BY <1>1, InitInv, PTL DEF Spec

(* The state of the middleware and of the monitor is well typed; in particular *)
(* the counter of IsOverload never goes below zero.                          *)
THEOREM TypeCorrect == Spec => []TypeOK
<1>1. IInv => TypeOK
  BY DEF IInv
<1> QED
  BY <1>1, Invariance, PTL

(* The middleware's counter is the number of requests between its increment   *)
(* and its deferred decrement, on every path.                                *)
THEOREM CounterExact == Spec => []CounterIsExact
<1>1. IInv => CounterIsExact
  BY DEF IInv
<1> QED
  BY <1>1, Invariance, PTL

(* More than maxCurrency requests are inside only with at least so many that   *)
(* were overtaken between LoadInt64 and AddInt64.                            *)
THEOREM OvershootBounded == Spec => []OvershootNeedsRace
<1>1. IInv => OvershootNeedsRace
  BY DEF IInv
<1> QED
  BY <1>1, Invariance, PTL

(* No request that reads the flag after the monitor found MongoDB slow or      *)
(* unreachable, and before it found it fast, passes IsOverload.              *)
THEOREM TroubleShed == Spec => []TroubleIsShed
<1>1. IInv => TroubleIsShed
  BY DEF IInv
<1> QED
  BY <1>1, Invariance, PTL

(* A request that IsOverload sheds read the flag during trouble, or the monitor *)
(* had once found an average of maxLatency or more.                          *)
THEOREM ShedHasReason == Spec => []ShedExplained
<1>1. IInv => ShedExplained
  BY DEF IInv
<1> QED
  BY <1>1, Invariance, PTL

-------------------------------------------------------------------------------
(*****************************************************************************)
(* RateLimiter.                                                               *)
(*****************************************************************************)

(* What Redis holds was stored, and no stamp is from the future.             *)
EntriesStored == \A k \in Keys : entries[k] \subseteq stored[k] /\ entries[k] \subseteq 1..clock

(* A stamp that was on time raised the horizon to itself.                    *)
OnTimePassed == \A k \in Keys : onTime[k] \subseteq stored[k] /\ \A s \in onTime[k] : s <= horizon[k]

(* The stamps that a script on time can still meet in its window are all there. *)
WindowKept == \A k \in Keys : \A s \in stored[k] : s > horizon[k] - Window => s \in entries[k]

LimiterInv ==
    /\ LimiterTypeOK
    /\ EntriesStored
    /\ OnTimePassed
    /\ WindowKept
    /\ ExpiryDropsOnlyOld
    /\ OnTimeWithinLimit
    /\ DenialJustified

HIDE DEF Goto, health, monitor
USE DEF Move, redis

-------------------------------------------------------------------------------
(* Numbers and finite sets.                                                 *)

LEMMA TTLCovers == TTL \in Nat /\ Window <= TTL
<1> DEFINE a == Window + Second - 1
           q == a \div Second
<1>1. a \in Nat /\ Second \in Nat /\ Second > 0
  BY TimeAssumption
<1>2. q \in Nat /\ a = Second * q + (a % Second) /\ a % Second \in 0..(Second - 1)
  <2> HIDE DEF a
  <2> QED
    BY <1>1
<1>3. q * Second \in Nat /\ q * Second = Second * q
  <2> HIDE DEF q
  <2> QED
    BY <1>1, <1>2
<1>4. TTL = q * Second
  BY DEF TTL
<1>5. a = Window + Second - 1
  OBVIOUS
<1> HIDE DEF a, q
<1> QED
  BY <1>1, <1>2, <1>3, <1>4, <1>5, TimeAssumption

LEMMA StampsFinite ==
    ASSUME NEW S \in SUBSET Times
    PROVE  IsFiniteSet(S) /\ Cardinality(S) \in Nat
<1>1. IsFiniteSet(Times)
  BY FS_Interval, TimeAssumption DEF Times
<1> QED
  BY <1>1, FS_Subset, FS_CardinalityType

LEMMA StampsSubset ==
    ASSUME NEW S \in SUBSET Times, NEW T \in SUBSET S
    PROVE  Cardinality(T) <= Cardinality(S) /\ Cardinality(T) \in Nat /\ Cardinality(S) \in Nat
BY StampsFinite, FS_Subset

-------------------------------------------------------------------------------
(* The script.                                                              *)

LEMMA RemainingFacts ==
    ASSUME LimiterTypeOK, NEW k \in Keys, NEW n \in Times
    PROVE  /\ Remaining(k, n) \subseteq entries[k]
           /\ Remaining(k, n) \in SUBSET Times
           /\ \A s \in Remaining(k, n) : s > n - Window
           /\ Cardinality(Remaining(k, n)) \in Nat
<1>1. Remaining(k, n) \subseteq entries[k] /\ entries[k] \in SUBSET Times
  BY DEF Remaining, LimiterTypeOK
<1> QED
  BY <1>1, StampsFinite DEF Remaining

LEMMA PassedFacts ==
    ASSUME LimiterTypeOK, NEW k \in Keys
    PROVE  /\ Passed(k) \in Nat
           /\ Passed(k) >= horizon[k]
           /\ Expired(k) => Passed(k) >= expireAt[k]
BY DEF LimiterTypeOK, Passed

(* What the script leaves alone.                                            *)
LEMMA ScriptLocal ==
    ASSUME LimiterTypeOK, NEW k \in Keys, NEW n \in Times, SlidingWindowScript(k, n),
           NEW j \in Keys, j # k
    PROVE  /\ entries'[j] = entries[j] /\ expireAt'[j] = expireAt[j]
           /\ horizon'[j] = horizon[j] /\ stored'[j] = stored[j] /\ onTime'[j] = onTime[j]
BY DEF SlidingWindowScript, LimiterTypeOK

(* What it does to its key.                                                 *)
Effect(k, n) ==
    /\ horizon'[k] = IF n > Passed(k) THEN n ELSE Passed(k)
    /\ HasRoom(k, n) => /\ entries'[k] = Remaining(k, n) \cup {n}
                        /\ expireAt'[k] = clock + TTL
                        /\ stored'[k] = stored[k] \cup {n}
                        /\ onTime'[k] = IF n >= Passed(k) THEN onTime[k] \cup {n} ELSE onTime[k]
    /\ ~HasRoom(k, n) => /\ entries'[k] = Remaining(k, n)
                         /\ expireAt'[k] = expireAt[k]
                         /\ stored'[k] = stored[k]
                         /\ onTime'[k] = onTime[k]

LEMMA ScriptEffect ==
    ASSUME LimiterTypeOK, NEW k \in Keys, NEW n \in Times, SlidingWindowScript(k, n)
    PROVE  Effect(k, n)
BY DEF SlidingWindowScript, LimiterTypeOK, Effect

LEMMA ScriptType ==
    ASSUME LimiterTypeOK, NEW k \in Keys, NEW n \in Times, SlidingWindowScript(k, n)
    PROVE  /\ entries' \in [Keys -> SUBSET Times]
           /\ expireAt' \in [Keys -> Nat]
           /\ horizon' \in [Keys -> Nat]
           /\ stored' \in [Keys -> SUBSET Times]
           /\ onTime' \in [Keys -> SUBSET Times]
<1>1. n \in Nat /\ clock + TTL \in Nat
  BY TTLCovers DEF LimiterTypeOK, Times
<1>2. Remaining(k, n) \cup {n} \in SUBSET Times /\ Remaining(k, n) \in SUBSET Times
  BY RemainingFacts
<1> QED
  BY <1>1, <1>2, PassedFacts DEF SlidingWindowScript, LimiterTypeOK

LEMMA ScriptKeeps ==
    ASSUME LimiterInv, NEW k \in Keys, NEW n \in Times, n <= clock, SlidingWindowScript(k, n),
           clock' = clock
    PROVE  EntriesStored' /\ OnTimePassed' /\ WindowKept' /\ ExpiryDropsOnlyOld'
<1> USE DEF LimiterInv
<1>e. Effect(k, n)
  BY ScriptEffect
<1>r. /\ Remaining(k, n) \subseteq entries[k] /\ Remaining(k, n) \in SUBSET Times
      /\ \A s \in Remaining(k, n) : s > n - Window
  BY RemainingFacts
<1>p. Passed(k) \in Nat /\ Passed(k) >= horizon[k] /\ (Expired(k) => Passed(k) >= expireAt[k])
  BY PassedFacts
<1>1. LimiterTypeOK /\ n \in Nat /\ n >= 1 /\ clock \in Nat /\ Window \in Nat /\ horizon[k] \in Nat
  BY TimeAssumption DEF LimiterTypeOK, Times
<1>2. EntriesStored'
  <2>1. entries'[k] \subseteq stored'[k] /\ entries'[k] \subseteq 1..clock
    BY <1>1, <1>e, <1>r DEF EntriesStored, Effect
  <2> QED
    BY <2>1, ScriptLocal DEF EntriesStored
<1>3. OnTimePassed'
  <2>1. horizon'[k] >= n /\ horizon'[k] >= horizon[k] /\ horizon'[k] \in Nat
    BY <1>1, <1>e, <1>p DEF Effect
  <2>2. \A s \in onTime'[k] : s \in stored'[k] /\ s <= horizon'[k]
    <3>1. \A s \in onTime'[k] : s \in onTime[k] \/ (s = n /\ HasRoom(k, n))
      BY <1>e DEF Effect
    <3>2. stored[k] \subseteq stored'[k] /\ (HasRoom(k, n) => n \in stored'[k])
      BY <1>e DEF Effect
    <3>3. \A s \in onTime[k] : s \in stored[k] /\ s <= horizon[k] /\ s \in Nat
      BY DEF OnTimePassed, LimiterTypeOK, Times
    <3> QED
      BY <1>1, <2>1, <3>1, <3>2, <3>3
  <2> QED
    BY <2>2, ScriptLocal DEF OnTimePassed
<1>4. WindowKept'
  <2>1. ASSUME NEW s \in stored[k], s > horizon'[k] - Window
        PROVE  s \in Remaining(k, n)
    <3>1. s \in Nat
      BY DEF LimiterTypeOK, Times
    <3>2. horizon'[k] \in Nat /\ horizon'[k] >= n /\ horizon'[k] >= Passed(k) /\ Passed(k) \in Nat
      BY <1>1, <1>e, <1>p DEF Effect
    <3>3. s > horizon[k] - Window /\ s > n - Window /\ s > Passed(k) - Window
      BY <1>1, <2>1, <3>1, <3>2, <1>p
    <3>4. s \in entries[k]
      BY <3>3 DEF WindowKept
    <3>5. s + Window <= expireAt[k] /\ expireAt[k] \in Nat
      BY <3>4 DEF ExpiryDropsOnlyOld, LimiterTypeOK
    <3>6. ~Expired(k)
      BY <1>1, <3>1, <3>2, <3>3, <3>5, <1>p
    <3> QED
      BY <3>3, <3>4, <3>6 DEF Remaining
  <2>2. \A s \in stored'[k] : s > horizon'[k] - Window => s \in entries'[k]
    BY <2>1, <1>e DEF Effect
  <2> QED
    BY <2>2, ScriptLocal DEF WindowKept
<1>5. ExpiryDropsOnlyOld'
  <2>1. \A s \in 1..clock : s + Window <= clock + TTL
    BY <1>1, TTLCovers
  <2>2. \A s \in entries'[k] : s + Window <= expireAt'[k]
    <3>1. CASE HasRoom(k, n)
      BY <1>2, <2>1, <3>1, <1>e DEF EntriesStored, Effect
    <3>2. CASE ~HasRoom(k, n)
      BY <3>2, <1>e, <1>r DEF ExpiryDropsOnlyOld, Effect
    <3> QED
      BY <3>1, <3>2
  <2> QED
    BY <2>2, ScriptLocal DEF ExpiryDropsOnlyOld
<1> QED
  BY <1>2, <1>3, <1>4, <1>5

(* A script on time sees its whole window and leaves it within the limit; the *)
(* windows that end earlier are not touched.                                *)
LEMMA ScriptWithinLimit ==
    ASSUME LimiterInv, NEW k \in Keys, NEW n \in Times, n <= clock, SlidingWindowScript(k, n),
           clock' = clock
    PROVE  OnTimeWithinLimit'
<1> USE DEF LimiterInv
<1> DEFINE W(T, m) == {s \in T : m - Window < s /\ s <= m}
<1>e. Effect(k, n)
  BY ScriptEffect
<1>p. Passed(k) \in Nat /\ Passed(k) >= horizon[k]
  BY PassedFacts
<1>1. OnTimePassed' /\ WindowKept'
  BY ScriptKeeps
<1>2. n \in Nat /\ Window \in Nat /\ horizon[k] \in Nat /\ Limit \in Nat
  BY TimeAssumption, LimitAssumption DEF LimiterTypeOK, Times
<1>3. ASSUME HasRoom(k, n), n >= Passed(k), n \notin onTime[k]
      PROVE  \A m \in onTime'[k] : Cardinality(W(onTime'[k], m)) <= Limit
  <2>1. onTime'[k] = onTime[k] \cup {n}
    BY <1>3, <1>e DEF Effect
  <2>2. n >= horizon[k]
    BY <1>2, <1>3, <1>p
  <2>3. \A s \in onTime[k] : s \in Nat /\ s < n
    BY <1>2, <1>3, <2>2 DEF OnTimePassed, LimiterTypeOK, Times
  <2>4. ASSUME NEW m \in onTime[k]
        PROVE  Cardinality(W(onTime'[k], m)) <= Limit
    <3>1. W(onTime'[k], m) = W(onTime[k], m)
      BY <1>2, <2>1, <2>3
    <3> QED
      BY <3>1 DEF OnTimeWithinLimit
  <2>5. Cardinality(W(onTime'[k], n)) <= Limit
    <3>1. W(onTime'[k], n) \subseteq Remaining(k, n) \cup {n}
      <4> SUFFICES ASSUME NEW s \in onTime[k], s > n - Window
                   PROVE  s \in Remaining(k, n)
        BY <2>1
      <4>1. horizon'[k] = n
        BY <1>2, <1>3, <1>p, <1>e DEF Effect
      <4>2. s \in stored'[k]
        BY <1>e DEF OnTimePassed, Effect
      <4>3. s \in entries'[k]
        BY <1>1, <4>1, <4>2 DEF WindowKept
      <4> QED
        BY <1>3, <2>3, <4>3, <1>e DEF Effect
    <3>2. Remaining(k, n) \in SUBSET Times /\ Cardinality(Remaining(k, n)) \in Nat
      BY RemainingFacts
    <3>3. IsFiniteSet(Remaining(k, n))
      BY <3>2, StampsFinite
    <3>4. Cardinality(Remaining(k, n) \cup {n}) <= Cardinality(Remaining(k, n)) + 1
      <4> DEFINE R == Remaining(k, n)
      <4>1. Cardinality(R \cup {n}) = IF n \in R THEN Cardinality(R) ELSE Cardinality(R) + 1
        BY <3>3, FS_AddElement
      <4>2. Cardinality(R) \in Nat
        BY <3>2
      <4> HIDE DEF R
      <4>3. Cardinality(R \cup {n}) <= Cardinality(R) + 1
        BY <4>1, <4>2
      <4> QED
        BY <4>3 DEF R
    <3>5. Cardinality(Remaining(k, n)) + 1 <= Limit
      BY <1>2, <1>3, <3>2 DEF HasRoom
    <3>6. /\ Cardinality(W(onTime'[k], n)) <= Cardinality(Remaining(k, n) \cup {n})
          /\ Cardinality(W(onTime'[k], n)) \in Nat
          /\ Cardinality(Remaining(k, n) \cup {n}) \in Nat
      <4>1. Remaining(k, n) \cup {n} \in SUBSET Times
        BY <3>2
      <4> HIDE DEF W
      <4> QED
        BY <3>1, <4>1, StampsSubset
    <3> HIDE DEF W
    <3> QED
      BY <1>2, <3>2, <3>4, <3>5, <3>6
  <2> QED
    BY <2>1, <2>4, <2>5
<1>4. ASSUME ~(HasRoom(k, n) /\ n >= Passed(k) /\ n \notin onTime[k])
      PROVE  \A m \in onTime'[k] : Cardinality(W(onTime'[k], m)) <= Limit
  <2>1. onTime'[k] = onTime[k]
    BY <1>4, <1>e DEF Effect
  <2> QED
    BY <2>1 DEF OnTimeWithinLimit
<1>5. ASSUME NEW j \in Keys, j # k
      PROVE  \A m \in onTime'[j] : Cardinality(W(onTime'[j], m)) <= Limit
  <2>1. onTime'[j] = onTime[j]
    BY <1>5, ScriptLocal
  <2> QED
    BY <2>1 DEF OnTimeWithinLimit
<1> QED
  BY <1>3, <1>4, <1>5 DEF OnTimeWithinLimit

(* What is stored stays stored.                                             *)
LEMMA StoredGrows ==
    ASSUME LimiterTypeOK, NEW k \in Keys, NEW n \in Times, SlidingWindowScript(k, n), NEW j \in Keys
    PROVE  stored[j] \subseteq stored'[j]
<1>1. CASE j = k
  BY <1>1, ScriptEffect DEF Effect
<1>2. CASE j # k
  BY <1>2, ScriptLocal
<1> QED
  BY <1>1, <1>2

-------------------------------------------------------------------------------
(* The steps.                                                               *)

Younger(r) == {s \in stored[key[r]] : s > stamp[r] - Window}

LEMMA LimiterInvInit == LimiterInit => LimiterInv
<1> SUFFICES ASSUME LimiterInit PROVE LimiterInv
  OBVIOUS
<1>1. LimiterTypeOK
  BY TimeAssumption DEF LimiterInit, LimiterTypeOK, Times
<1>2. EntriesStored /\ OnTimePassed /\ WindowKept /\ ExpiryDropsOnlyOld /\ OnTimeWithinLimit
  BY DEF LimiterInit, EntriesStored, OnTimePassed, WindowKept, ExpiryDropsOnlyOld, OnTimeWithinLimit
<1>3. DenialJustified
  BY DEF LimiterInit, DenialJustified
<1> QED
  BY <1>1, <1>2, <1>3 DEF LimiterInv

LEMMA Stamped ==
    ASSUME LimiterTypeOK, NEW r \in Callers, phase[r] \in {"stamped", "denied"}
    PROVE  key[r] \in Keys /\ stamp[r] \in Times /\ stamp[r] <= clock
BY DEF LimiterTypeOK, Times

LEMMA TypeStep ==
    ASSUME LimiterTypeOK, LimiterNext
    PROVE  LimiterTypeOK'
<1>1. CASE Tick
  <2>1. clock' \in Times /\ clock' >= clock
    BY <1>1, TimeAssumption DEF Tick, LimiterTypeOK, Times
  <2> QED
    BY <1>1, <2>1 DEF Tick, LimiterTypeOK, Times
<1>2. ASSUME NEW r \in Callers, NEW k \in CallersKeys, RateLimitMiddleware(r, k)
      PROVE  LimiterTypeOK'
  <2>1. k \in Keys \cup {NoKey}
    BY DEF CallersKeys
  <2> QED
    BY <1>2, <2>1 DEF RateLimitMiddleware, LimiterTypeOK
<1>3. ASSUME NEW r \in Callers, TakeStamp(r)
      PROVE  LimiterTypeOK'
  <2>1. clock \in 0..MaxTime /\ clock \in 1..clock
    BY DEF LimiterTypeOK, Times
  <2> QED
    BY <1>3, <2>1 DEF TakeStamp, LimiterTypeOK
<1>4. ASSUME NEW r \in Callers, Allow(r)
      PROVE  LimiterTypeOK'
  <2>1. key[r] \in Keys /\ stamp[r] \in Times
    BY <1>4, Stamped DEF Allow
  <2>2. SlidingWindowScript(key[r], stamp[r])
    BY <1>4 DEF Allow
  <2>3. /\ entries' \in [Keys -> SUBSET Times] /\ expireAt' \in [Keys -> Nat]
        /\ horizon' \in [Keys -> Nat]
        /\ stored' \in [Keys -> SUBSET Times] /\ onTime' \in [Keys -> SUBSET Times]
    BY <2>1, <2>2, ScriptType
  <2> QED
    BY <1>4, <2>3 DEF Allow, LimiterTypeOK
<1>5. ASSUME NEW r \in Callers, ReplyLost(r)
      PROVE  LimiterTypeOK'
  <2>1. key[r] \in Keys /\ stamp[r] \in Times
    BY <1>5, Stamped DEF ReplyLost
  <2>2. SlidingWindowScript(key[r], stamp[r])
    BY <1>5 DEF ReplyLost
  <2>3. /\ entries' \in [Keys -> SUBSET Times] /\ expireAt' \in [Keys -> Nat]
        /\ horizon' \in [Keys -> Nat]
        /\ stored' \in [Keys -> SUBSET Times] /\ onTime' \in [Keys -> SUBSET Times]
    BY <2>1, <2>2, ScriptType
  <2> QED
    BY <1>5, <2>3 DEF ReplyLost, LimiterTypeOK
<1>6. ASSUME NEW r \in Callers, EvalFails(r)
      PROVE  LimiterTypeOK'
  BY <1>6 DEF EvalFails, LimiterTypeOK
<1>7. ASSUME NEW r \in Callers, Return(r)
      PROVE  LimiterTypeOK'
  BY <1>7, TimeAssumption DEF Return, LimiterTypeOK
<1> QED
  BY <1>1, <1>2, <1>3, <1>4, <1>5, <1>6, <1>7 DEF LimiterNext

(* A denial stays justified: what is stored stays.                          *)
LEMMA JustifiedStays ==
    ASSUME LimiterTypeOK, LimiterTypeOK', DenialJustified, \A k \in Keys : stored[k] \subseteq stored'[k],
           NEW r \in Callers, phase[r] = "denied", key'[r] = key[r], stamp'[r] = stamp[r]
    PROVE  Cardinality(Younger(r)') >= Limit
<1>1. key[r] \in Keys
  BY Stamped
<1>2. Younger(r) \subseteq Younger(r)' /\ Younger(r)' \in SUBSET Times
  BY <1>1 DEF Younger, LimiterTypeOK
<1>3. Cardinality(Younger(r)) >= Limit
  BY DEF DenialJustified, Younger
<1> QED
  BY <1>2, <1>3, StampsSubset, LimitAssumption

LEMMA DenialStep ==
    ASSUME LimiterInv, LimiterTypeOK', LimiterNext
    PROVE  DenialJustified'
<1> USE DEF LimiterInv
<1>1. \A k \in Keys : stored[k] \subseteq stored'[k]
  <2>1. ASSUME NEW r \in Callers, Allow(r) \/ ReplyLost(r)
        PROVE  \A k \in Keys : stored[k] \subseteq stored'[k]
    <3>1. /\ key[r] \in Keys /\ stamp[r] \in Times
          /\ SlidingWindowScript(key[r], stamp[r])
      BY <2>1, Stamped DEF Allow, ReplyLost
    <3> QED
      BY <3>1, StoredGrows
  <2>2. CASE stored' = stored
    BY <2>2
  <2> QED
    BY <2>1, <2>2 DEF LimiterNext, Tick, RateLimitMiddleware, TakeStamp, EvalFails, Return
<1>2. ASSUME NEW q \in Callers, phase'[q] = "denied", phase[q] = "denied"
      PROVE  Cardinality(Younger(q)') >= Limit
  <2>1. key'[q] = key[q] /\ stamp'[q] = stamp[q]
    BY <1>2 DEF LimiterNext, Tick, RateLimitMiddleware, TakeStamp, Allow, ReplyLost, EvalFails, Return, LimiterTypeOK
  <2> QED
    BY <1>1, <1>2, <2>1, JustifiedStays
<1>3. ASSUME NEW q \in Callers, phase'[q] = "denied", phase[q] # "denied"
      PROVE  Cardinality(Younger(q)') >= Limit
  <2>1. Allow(q) /\ ~HasRoom(key[q], stamp[q])
    BY <1>3 DEF LimiterNext, Tick, RateLimitMiddleware, TakeStamp, Allow, ReplyLost, EvalFails, Return, LimiterTypeOK
  <2>2. /\ key[q] \in Keys /\ stamp[q] \in Times
        /\ SlidingWindowScript(key[q], stamp[q])
        /\ key' = key /\ stamp' = stamp
    BY <2>1, Stamped DEF Allow
  <2>3. Remaining(key[q], stamp[q]) \subseteq Younger(q)'
    <3>1. stored[key[q]] \subseteq stored'[key[q]] /\ entries[key[q]] \subseteq stored[key[q]]
      BY <1>1, <2>2 DEF EntriesStored
    <3>2. /\ Remaining(key[q], stamp[q]) \subseteq entries[key[q]]
          /\ \A s \in Remaining(key[q], stamp[q]) : s > stamp[q] - Window
      BY <2>2, RemainingFacts
    <3> QED
      BY <2>2, <3>1, <3>2 DEF Younger
  <2>4. /\ Cardinality(Remaining(key[q], stamp[q])) \in Nat
        /\ Cardinality(Remaining(key[q], stamp[q])) >= Limit
    BY <2>1, <2>2, RemainingFacts, LimitAssumption DEF HasRoom
  <2>5. Younger(q)' \in SUBSET Times
    BY <2>2 DEF Younger, LimiterTypeOK
  <2> QED
    BY <2>3, <2>4, <2>5, StampsSubset, LimitAssumption
<1> QED
  BY <1>2, <1>3 DEF DenialJustified, Younger

LEMMA RedisStep ==
    ASSUME LimiterInv, LimiterNext
    PROVE  EntriesStored' /\ OnTimePassed' /\ WindowKept' /\ ExpiryDropsOnlyOld' /\ OnTimeWithinLimit'
<1> USE DEF LimiterInv
<1>1. ASSUME NEW r \in Callers, Allow(r) \/ ReplyLost(r)
      PROVE  EntriesStored' /\ OnTimePassed' /\ WindowKept' /\ ExpiryDropsOnlyOld' /\ OnTimeWithinLimit'
  <2>1. /\ key[r] \in Keys /\ stamp[r] \in Times /\ stamp[r] <= clock
        /\ SlidingWindowScript(key[r], stamp[r]) /\ clock' = clock
    BY <1>1, Stamped DEF Allow, ReplyLost
  <2> QED
    BY <2>1, ScriptKeeps, ScriptWithinLimit
<1>2. CASE UNCHANGED redis /\ clock' \in {clock, clock + 1}
  <2>1. 1..clock \subseteq 1..clock'
    BY <1>2 DEF LimiterTypeOK, Times
  <2>2. EntriesStored'
    BY <1>2, <2>1 DEF EntriesStored
  <2> QED
    BY <1>2, <2>2 DEF OnTimePassed, WindowKept, ExpiryDropsOnlyOld, OnTimeWithinLimit
<1> QED
  BY <1>1, <1>2 DEF LimiterNext, Tick, RateLimitMiddleware, TakeStamp, EvalFails, Return

LEMMA LimiterInvariance == LimiterSpec => []LimiterInv
<1>1. LimiterInv /\ [LimiterNext]_limiterVars => LimiterInv'
  <2> SUFFICES ASSUME LimiterInv, [LimiterNext]_limiterVars PROVE LimiterInv'
    OBVIOUS
  <2>1. CASE LimiterNext
    <3>1. LimiterTypeOK'
      BY <2>1, TypeStep DEF LimiterInv
    <3> QED
      BY <2>1, <3>1, DenialStep, RedisStep DEF LimiterInv
  <2>2. CASE UNCHANGED limiterVars
    BY <2>2 DEF limiterVars, LimiterInv, LimiterTypeOK, EntriesStored, OnTimePassed, WindowKept, ExpiryDropsOnlyOld,
                OnTimeWithinLimit, DenialJustified
  <2> QED
    BY <2>1, <2>2
<1> QED
  BY <1>1, LimiterInvInit, PTL DEF LimiterSpec

-------------------------------------------------------------------------------
(* The theorems.                                                            *)

(* The state of the rate limiter is well typed; a request without an account   *)
(* never runs the script.                                                   *)
THEOREM LimiterTypeCorrect == LimiterSpec => []LimiterTypeOK
<1>1. LimiterInv => LimiterTypeOK
  BY DEF LimiterInv
<1> QED
  BY <1>1, LimiterInvariance, PTL

(* The stamps that SlidingWindowScript stored on time are at most Limit in every *)
(* window, whatever is late, sent again, or expires in between.              *)
THEOREM LimitHolds == LimiterSpec => []OnTimeWithinLimit
<1>1. LimiterInv => OnTimeWithinLimit
  BY DEF LimiterInv
<1> QED
  BY <1>1, LimiterInvariance, PTL

(* Every 429 of the middleware has Limit stamps of its own key behind it that   *)
(* are younger than its window.                                             *)
THEOREM DenialsJustified == LimiterSpec => []DenialJustified
<1>1. LimiterInv => DenialJustified
  BY DEF LimiterInv
<1> QED
  BY <1>1, LimiterInvariance, PTL

(* The EXPIRE of the script, in whole seconds, never takes an entry that a      *)
(* window could still hold.                                                 *)
THEOREM ExpirySafe == LimiterSpec => []ExpiryDropsOnlyOld
<1>1. LimiterInv => ExpiryDropsOnlyOld
  BY DEF LimiterInv
<1> QED
  BY <1>1, LimiterInvariance, PTL

-------------------------------------------------------------------------------
(*****************************************************************************)
(* RateLimiter implements SlidingLog.                                         *)
(*****************************************************************************)
Calls == [r \in Callers |-> CallOf(r)]

(* What has left the set of a key has left every window that is still open.  *)
LEMMA PassedClosable ==
    ASSUME LimiterInv, NEW k \in Keys
    PROVE  Passed(k) \in Log!Closable(k)
<1> USE DEF LimiterInv
<1>1. /\ clock \in Nat /\ Window \in Nat /\ horizon[k] \in Nat /\ expireAt[k] \in Nat
      /\ \A s \in stored[k] : s \in Nat
  BY TimeAssumption DEF LimiterTypeOK, Times
<1>2. CASE Expired(k) /\ expireAt[k] > horizon[k]
  <2>1. Passed(k) = expireAt[k] /\ expireAt[k] \in 1..clock
    BY <1>1, <1>2 DEF Passed, Expired
  <2>2. ASSUME NEW s \in stored[k]
        PROVE  s + Window <= expireAt[k]
    <3>1. CASE s \in entries[k]
      BY <3>1 DEF ExpiryDropsOnlyOld
    <3>2. CASE s \notin entries[k]
      <4>1. ~(s > horizon[k] - Window)
        BY <3>2 DEF WindowKept
      <4> QED
        BY <1>1, <1>2, <4>1
    <3> QED
      BY <3>1, <3>2
  <2> QED
    BY <2>1, <2>2 DEF Log!Closable
<1>3. CASE ~(Expired(k) /\ expireAt[k] > horizon[k])
  BY <1>3 DEF Passed, Log!Closable
<1> QED
  BY <1>2, <1>3

(* The removal and the expiry keep the verdict: what the script counts is in   *)
(* the window of the log, and for a script on time it is all of it.           *)
LEMMA VerdictKept ==
    ASSUME LimiterInv, NEW k \in Keys, NEW n \in Times
    PROVE  /\ ~HasRoom(k, n) => Log!Full(k, n)
           /\ HasRoom(k, n) /\ n >= Passed(k) => ~Log!Full(k, n)
<1> USE DEF LimiterInv
<1> DEFINE Win == {s \in stored[k] : s > n - Window}
<1>r. /\ Remaining(k, n) \subseteq entries[k] /\ Cardinality(Remaining(k, n)) \in Nat
      /\ \A s \in Remaining(k, n) : s > n - Window
  BY RemainingFacts
<1>p. Passed(k) \in Nat /\ Passed(k) >= horizon[k] /\ (Expired(k) => Passed(k) >= expireAt[k])
  BY PassedFacts
<1>1. /\ n \in Nat /\ Window \in Nat /\ Limit \in Nat /\ horizon[k] \in Nat /\ expireAt[k] \in Nat
      /\ \A s \in stored[k] : s \in Nat
  BY TimeAssumption, LimitAssumption DEF LimiterTypeOK, Times
<1>2. Win \in SUBSET Times
  BY DEF LimiterTypeOK
<1>3. Log!Full(k, n) <=> Cardinality(Win) >= Limit
  BY DEF Log!Full, Log!Cardinality, Cardinality, Log!IsFiniteSet, IsFiniteSet
<1>4. Remaining(k, n) \subseteq Win
  BY <1>r DEF EntriesStored
<1>5. ASSUME n >= Passed(k)
      PROVE  Win \subseteq Remaining(k, n)
  <2> SUFFICES ASSUME NEW s \in stored[k], s > n - Window
               PROVE  s \in Remaining(k, n)
    OBVIOUS
  <2>1. s \in entries[k]
    <3>1. s > horizon[k] - Window
      BY <1>1, <1>5, <1>p
    <3> QED
      BY <3>1 DEF WindowKept
  <2>2. ~Expired(k)
    <3>1. s + Window <= expireAt[k]
      BY <2>1 DEF ExpiryDropsOnlyOld
    <3> QED
      BY <1>1, <1>5, <1>p, <3>1
  <2> QED
    BY <2>1, <2>2 DEF Remaining
<1>6. Cardinality(Remaining(k, n)) <= Cardinality(Win) /\ Cardinality(Win) \in Nat
  BY <1>2, <1>4, StampsSubset
<1>7. n >= Passed(k) => Win = Remaining(k, n)
  BY <1>4, <1>5
<1> HIDE DEF Win
<1> QED
  BY <1>1, <1>3, <1>6, <1>7, <1>r DEF HasRoom

(* So the script admits or refuses like the log.                            *)
LEMMA ScriptJudges ==
    ASSUME LimiterInv, NEW k \in Keys, NEW n \in Times, SlidingWindowScript(k, n)
    PROVE  \/ HasRoom(k, n)  /\ Log!Admit(k, n, Passed(k))
           \/ ~HasRoom(k, n) /\ Log!Refuse(k, n, Passed(k))
<1> USE DEF LimiterInv
<1>1. Log!Close(k, Passed(k), n)
  BY DEF SlidingWindowScript, Log!Close
<1>2. n \in Nat /\ Passed(k) \in Nat
  BY PassedFacts DEF Times
<1>3. CASE HasRoom(k, n)
  <2>1. stored' = [stored EXCEPT ![k] = @ \cup {n}]
    BY <1>3 DEF SlidingWindowScript
  <2>2. ~Log!Full(k, n) \/ n < Passed(k)
    BY <1>2, <1>3, VerdictKept
  <2> QED
    BY <1>1, <1>3, <2>1, <2>2 DEF Log!Admit
<1>4. CASE ~HasRoom(k, n)
  <2>1. stored' = stored
    BY <1>4 DEF SlidingWindowScript
  <2>2. Log!Full(k, n)
    BY <1>4, VerdictKept
  <2> QED
    BY <1>1, <1>4, <2>1, <2>2 DEF Log!Refuse
<1> QED
  BY <1>3, <1>4

(* A request that moves changes its own call only.                          *)
LEMMA CallsMove ==
    ASSUME NEW r \in Callers, NEW l, LimiterTypeOK,
           phase' = [phase EXCEPT ![r] = l],
           \A q \in Callers \ {r} : key'[q] = key[q] /\ stamp'[q] = stamp[q]
    PROVE  Calls' = [Calls EXCEPT ![r] = CallOf(r)']
<1>1. \A q \in Callers \ {r} : CallOf(q)' = CallOf(q)
  BY DEF CallOf, LimiterTypeOK
<1> QED
  BY <1>1 DEF Calls

LEMMA JudgeStep ==
    ASSUME LimiterInv, NEW r \in Callers, Allow(r) \/ ReplyLost(r)
    PROVE  Log!Judge(r)
<1>1. /\ key[r] \in Keys /\ key[r] # NoKey /\ stamp[r] \in Times
      /\ SlidingWindowScript(key[r], stamp[r]) /\ phase[r] = "stamped" /\ clock' = clock
      /\ key' = key /\ stamp' = stamp
  BY Stamped, KeysAssumption DEF Allow, ReplyLost, LimiterInv
<1>2. CallOf(r) = [key |-> key[r], stamp |-> stamp[r], verdict |-> "open"]
  BY <1>1 DEF CallOf
<1>3. Calls[r].verdict = "open" /\ Calls[r].key = key[r] /\ Calls[r].stamp = stamp[r]
  BY <1>2 DEF Calls
<1>4. \/ HasRoom(key[r], stamp[r])  /\ Log!Admit(key[r], stamp[r], Passed(key[r]))
      \/ ~HasRoom(key[r], stamp[r]) /\ Log!Refuse(key[r], stamp[r], Passed(key[r]))
  BY <1>1, ScriptJudges
<1>5. Passed(key[r]) \in Log!Closable(key[r])
  BY <1>1, PassedClosable
<1>6. ASSUME NEW v \in {"allowed", "denied"}, phase' = [phase EXCEPT ![r] = v]
      PROVE  Calls' = [Calls EXCEPT ![r].verdict = v]
  <2>1. CallOf(r)' = [key |-> key[r], stamp |-> stamp[r], verdict |-> v]
    BY <1>1, <1>6 DEF CallOf, LimiterInv, LimiterTypeOK
  <2>2. Calls' = [Calls EXCEPT ![r] = CallOf(r)']
    BY <1>1, <1>6, CallsMove DEF LimiterInv
  <2> DEFINE c == Calls[r]
  <2>3. c = CallOf(r) /\ [c EXCEPT !.verdict = v] = CallOf(r)'
    BY <1>2, <2>1 DEF Calls
  <2> QED
    BY <2>2, <2>3
<1>7. CASE Allow(r)
  <2>1. CASE HasRoom(key[r], stamp[r])
    <3>1. Calls' = [Calls EXCEPT ![r].verdict = "allowed"]
      BY <1>6, <1>7, <2>1 DEF Allow
    <3> QED
      BY <1>1, <1>3, <1>4, <1>5, <2>1, <3>1 DEF Log!Judge, Log!Told, Calls
  <2>2. CASE ~HasRoom(key[r], stamp[r])
    <3>1. Calls' = [Calls EXCEPT ![r].verdict = "denied"]
      BY <1>6, <1>7, <2>2 DEF Allow
    <3> QED
      BY <1>1, <1>3, <1>4, <1>5, <2>2, <3>1 DEF Log!Judge, Log!Told, Calls
  <2> QED
    BY <2>1, <2>2
<1>8. CASE ReplyLost(r)
  <2>1. Calls' = Calls
    BY <1>8 DEF ReplyLost, Calls, CallOf
  <2> QED
    BY <1>1, <1>3, <1>4, <1>5, <2>1 DEF Log!Judge, Calls
<1> QED
  BY <1>7, <1>8

LEMMA LogStep ==
    ASSUME LimiterInv, [LimiterNext]_limiterVars
    PROVE  [Log!Next]_<<clock, stored, horizon, Calls>>
<1> USE DEF LimiterInv
<1>1. CASE Tick
  BY <1>1 DEF Tick, Log!Next, Log!Tick, Calls, CallOf
<1>2. ASSUME NEW r \in Callers, NEW k \in CallersKeys, RateLimitMiddleware(r, k)
      PROVE  UNCHANGED <<clock, stored, horizon, Calls>>
  <2>1. CallOf(r) = CallOf(r)'
    BY <1>2 DEF RateLimitMiddleware, CallOf, LimiterTypeOK
  <2>2. \A q \in Callers \ {r} : CallOf(q)' = CallOf(q)
    BY <1>2 DEF RateLimitMiddleware, CallOf, LimiterTypeOK
  <2> QED
    BY <1>2, <2>1, <2>2 DEF RateLimitMiddleware, Calls
<1>3. ASSUME NEW r \in Callers, TakeStamp(r)
      PROVE  Log!Next
  <2>1. key[r] \in Keys /\ key[r] # NoKey /\ Calls[r] = Log!NoCall
    BY <1>3, KeysAssumption DEF TakeStamp, LimiterTypeOK, Calls, CallOf, Log!NoCall
  <2>2. CallOf(r)' = [key |-> key[r], stamp |-> clock, verdict |-> "open"]
    BY <1>3, <2>1 DEF TakeStamp, CallOf, LimiterTypeOK
  <2>3. Calls' = [Calls EXCEPT ![r] = CallOf(r)']
    BY <1>3, CallsMove DEF TakeStamp, LimiterTypeOK
  <2>4. Log!Ask(r, key[r])
    BY <1>3, <2>1, <2>2, <2>3 DEF TakeStamp, Log!Ask, Calls
  <2> QED
    BY <2>1, <2>4 DEF Log!Next
<1>4. ASSUME NEW r \in Callers, Allow(r) \/ ReplyLost(r)
      PROVE  Log!Next
  BY <1>4, JudgeStep DEF Log!Next
<1>5. ASSUME NEW r \in Callers, EvalFails(r) \/ Return(r)
      PROVE  Log!Next
  <2>1. CallOf(r)' = Log!NoCall
    BY <1>5 DEF EvalFails, Return, CallOf, Log!NoCall, LimiterTypeOK
  <2>2. Calls' = [Calls EXCEPT ![r] = CallOf(r)']
    BY <1>5, CallsMove DEF EvalFails, Return, LimiterTypeOK
  <2>3. Log!Leave(r)
    BY <1>5, <2>1, <2>2 DEF EvalFails, Return, Log!Leave, Calls
  <2> QED
    BY <2>3 DEF Log!Next
<1>6. CASE UNCHANGED limiterVars
  BY <1>6 DEF limiterVars, Calls, CallOf
<1> QED
  BY <1>1, <1>2, <1>3, <1>4, <1>5, <1>6 DEF LimiterNext

(* The Redis script, with its removals and its expiry, implements a limiter that *)
(* keeps every stamp: a call is denied only when the whole log has Limit stamps  *)
(* in its window, and allowed against the log only when it arrived after windows *)
(* later than its own had been closed.                                       *)
THEOREM LimiterImplements == LimiterSpec => ImplementsSlidingLog
<1>1. LimiterInit => Log!Init
  BY DEF LimiterInit, Log!Init, Log!NoCall, Calls, CallOf
<1>2. LimiterInv /\ [LimiterNext]_limiterVars => [Log!Next]_<<clock, stored, horizon, Calls>>
  BY LogStep
<1> QED
  BY <1>1, <1>2, LimiterInvariance, PTL
     DEF LimiterSpec, ImplementsSlidingLog, Log!Spec, Log!vars, Calls
===============================================================================
