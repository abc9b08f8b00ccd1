----------------------------- MODULE RateLimiter -----------------------------
(***************************************************************************)
(* The sliding window of the rate-limit middleware.  A request reads the      *)
(* clock of its server, then a Lua script runs in Redis: it drops the entries *)
(* that have left the window, counts the rest, and adds the request's own     *)
(* time stamp when there is room.  The stamp is score and member at once, so   *)
(* the sorted set is a set of stamps.  The key expires by itself.            *)
(*                                                                          *)
(* Scripts reach Redis in any order and any time after their stamp was taken, *)
(* and one whose reply is lost is run again.  There is one clock; a server   *)
(* whose clock is behind shows as a script that arrives late.                *)
(***************************************************************************)
EXTENDS Integers, FiniteSets

CONSTANTS
    Callers,     \* goroutines of the servers; each serves one call after another
    Keys,        \* accounts or addresses
    NoKey,
    LimitOption, \* "account_id", "ip", or anything else for no limit
    Limit,
    Window,      \* in milliseconds
    Second,      \* milliseconds in a second
    MaxTime      \* bound: the clock

ASSUME KeysAssumption == NoKey \notin Keys
ASSUME LimitAssumption == Limit \in Nat
ASSUME TimeAssumption == /\ Window \in Nat
                         /\ Second \in Nat \ {0}
                         /\ MaxTime \in Nat \ {0}

VARIABLES
    clock,
    phase,    \* where each request is
    key,      \* what it is limited by
    stamp,    \* its time
    entries,  \* the sorted sets in Redis
    expireAt, \* when they expire
    horizon,  \* history: no script with an older stamp is on time: the latest stamp of
              \* a script that ran for the key, or an expiry that a script found
    stored,   \* history: every stamp the key ever held
    onTime    \* history: those whose script was not late

redis       == <<entries, expireAt, horizon, stored, onTime>>
limiterVars == <<clock, phase, key, stamp, redis>>

\* A stamp is a reading of the clock; the clock of the first one is 1.
Times == 1..MaxTime

LimiterTypeOK ==
    /\ clock \in Times
    /\ phase \in [Callers -> {"idle", "limited", "stamped", "allowed", "denied", "failed"}]
    /\ key \in [Callers -> Keys \cup {NoKey}]
    /\ stamp \in [Callers -> 0..MaxTime]
    /\ \A r \in Callers :
          /\ phase[r] \in {"limited", "stamped", "denied", "failed"} => key[r] \in Keys
          /\ phase[r] \in {"stamped", "denied"} => stamp[r] \in 1..clock
    /\ entries \in [Keys -> SUBSET Times]
    /\ expireAt \in [Keys -> Nat]
    /\ horizon \in [Keys -> Nat]
    /\ stored \in [Keys -> SUBSET Times]
    /\ onTime \in [Keys -> SUBSET Times]

LimiterInit ==
    /\ clock = 1
    /\ phase = [r \in Callers |-> "idle"]
    /\ key = [r \in Callers |-> NoKey]
    /\ stamp = [r \in Callers |-> 0]
    /\ entries = [k \in Keys |-> {}]
    /\ expireAt = [k \in Keys |-> 0]
    /\ horizon = [k \in Keys |-> 0]
    /\ stored = [k \in Keys |-> {}]
    /\ onTime = [k \in Keys |-> {}]

-------------------------------------------------------------------------------
(* The script. *)

\* Variant: whole seconds, rounded down.
TTL_RoundedDown == (Window \div Second) * Second

TTL == ((Window + Second - 1) \div Second) * Second

Expired(k) == clock >= expireAt[k]

\* ZREMRANGEBYSCORE 0 .. n - Window
Remaining_All(k, n) == IF Expired(k) THEN {} ELSE entries[k]
Remaining(k, n) == IF Expired(k) THEN {} ELSE {s \in entries[k] : s > n - Window}

HasRoom_OffByOne(k, n) == Cardinality(Remaining(k, n)) <= Limit
HasRoom(k, n) == Cardinality(Remaining(k, n)) < Limit

\* What the removal and the expiry may have taken away by now.
Passed(k) == IF Expired(k) /\ expireAt[k] > horizon[k] THEN expireAt[k] ELSE horizon[k]

\* ZADD and EXPIRE when there is room; the removal stays in any case.
SlidingWindowScript(k, n) ==
    /\ IF HasRoom(k, n)
       THEN /\ entries'  = [entries EXCEPT ![k] = Remaining(k, n) \cup {n}]
            /\ expireAt' = [expireAt EXCEPT ![k] = clock + TTL]
            /\ stored'   = [stored EXCEPT ![k] = @ \cup {n}]
            /\ onTime'   = IF n >= Passed(k) THEN [onTime EXCEPT ![k] = @ \cup {n}] ELSE onTime
       ELSE /\ entries'  = [entries EXCEPT ![k] = Remaining(k, n)]
            /\ UNCHANGED <<expireAt, stored, onTime>>
    /\ horizon' = [horizon EXCEPT ![k] = IF n > Passed(k) THEN n ELSE Passed(k)]

-------------------------------------------------------------------------------
(* The middleware. *)

Move(r, l) == phase' = [phase EXCEPT ![r] = l]

\* An account header may be missing; an address never is.
CallersKeys ==
    CASE LimitOption = "account_id" -> Keys \cup {NoKey}
      [] LimitOption = "ip"         -> Keys
      [] OTHER                      -> {NoKey}

RateLimitMiddleware(r, k) ==
    /\ phase[r] = "idle"
    /\ key' = [key EXCEPT ![r] = k]
    /\ Move(r, IF k = NoKey THEN "allowed" ELSE "limited")
    /\ UNCHANGED <<clock, stamp, redis>>

\* time.Now() in Allow
TakeStamp(r) ==
    /\ phase[r] = "limited"
    /\ stamp' = [stamp EXCEPT ![r] = clock]
    /\ Move(r, "stamped")
    /\ UNCHANGED <<clock, key, redis>>

Allow(r) ==
    /\ phase[r] = "stamped"
    /\ SlidingWindowScript(key[r], stamp[r])
    /\ Move(r, IF HasRoom(key[r], stamp[r]) THEN "allowed" ELSE "denied")
    /\ UNCHANGED <<clock, key, stamp>>

\* The script ran, its reply is lost, and the client will send it again or give up.
ReplyLost(r) ==
    /\ phase[r] = "stamped"
    /\ SlidingWindowScript(key[r], stamp[r])
    /\ UNCHANGED <<clock, phase, key, stamp>>

EvalFails(r) ==
    /\ phase[r] = "stamped"
    /\ Move(r, "failed")
    /\ UNCHANGED <<clock, key, stamp, redis>>

\* 429, 500, or the answer of the next handler
Return(r) ==
    /\ phase[r] \in {"allowed", "denied", "failed"}
    /\ Move(r, "idle")
    /\ key' = [key EXCEPT ![r] = NoKey]
    /\ stamp' = [stamp EXCEPT ![r] = 0]
    /\ UNCHANGED <<clock, redis>>

Tick ==
    /\ clock < MaxTime
    /\ clock' = clock + 1
    /\ UNCHANGED <<phase, key, stamp, redis>>

LimiterNext ==
    \/ Tick
    \/ \E r \in Callers :
          \/ \E k \in CallersKeys : RateLimitMiddleware(r, k)
          \/ TakeStamp(r) \/ Allow(r) \/ ReplyLost(r) \/ EvalFails(r) \/ Return(r)

LimiterSpec == LimiterInit /\ [][LimiterNext]_limiterVars

-------------------------------------------------------------------------------
(* Correctness *)

\* No window holds more than Limit stamps that were stored on time.  What exceeds
\* the limit is late: such a script finds the entries of its own window removed by a
\* newer script or by the expiry of the key, and is given their place.  The window
\* counts stamps, so calls within one millisecond are one.
OnTimeWithinLimit ==
    \A k \in Keys : \A n \in onTime[k] :
        Cardinality({s \in onTime[k] : n - Window < s /\ s <= n}) <= Limit

\* A call is denied only when Limit stamps of its own key are younger than its
\* window: no call is charged for another key or for an entry that has left.
DenialJustified ==
    \A r \in Callers :
        phase[r] = "denied" => Cardinality({s \in stored[key[r]] : s > stamp[r] - Window}) >= Limit

\* The key outlives its entries: what expiry drops has left the window of every
\* stamp that is taken from then on, whatever was late.
ExpiryDropsOnlyOld ==
    \A k \in Keys : \A s \in entries[k] : s + Window <= expireAt[k]

\* The call of a request as SlidingLog sees it: from the reading of the clock to the answer.
CallOf(r) ==
    IF key[r] # NoKey /\ phase[r] \in {"stamped", "allowed", "denied"}
    THEN [key |-> key[r], stamp |-> stamp[r],
          verdict |-> IF phase[r] = "stamped" THEN "open" ELSE phase[r]]
    ELSE [key |-> NoKey, stamp |-> 0, verdict |-> "none"]

Log == INSTANCE SlidingLog WITH now <- clock, log <- stored, seen <- horizon,
                                call <- [r \in Callers |-> CallOf(r)]

\* The script in Redis implements a limiter that forgets nothing: what it removes and what
\* expires never changes a verdict, except that a script that arrives late may be allowed.
ImplementsSlidingLog == Log!Spec
==============================================================================
