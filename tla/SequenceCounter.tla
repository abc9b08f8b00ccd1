--------------------------- MODULE SequenceCounter ---------------------------
(***************************************************************************)
(* The call counters of sequence mocks.  A mock with a list of responses is  *)
(* not cached: each call fetches it through the singleflight of its pod,     *)
(* increments a counter in Redis that belongs to the mock and the account,   *)
(* and answers with the response whose range holds the count.  The first     *)
(* increment gives the counter its TTL in a second command.  Counters go     *)
(* away when they expire, when an admin resets the mock, and when a pod      *)
(* starts, which purges every key of the program.                            *)
(*                                                                          *)
(* The model follows one sequence mock; a key stands for one account and     *)
(* body of its calls.                                                       *)
(***************************************************************************)
EXTENDS Naturals, Sequences, FiniteSets

CONSTANTS
    Requests,      \* forwarded calls; each runs once
    Resets,        \* runs of the reset handlers; each runs once
    Pods,          \* processes that serve forwarded calls
    Keys,          \* the counters of the mock
    ResponseLists, \* what admins set the mock's responses to
    FirstList,     \* the responses at the start
    None,
    MaxUpdates,    \* bound: updates of the mock
    MaxResends,    \* bound: INCR commands that are sent again
    MaxRestarts    \* bound: restarts of pods

Ranges == [from : Nat, to : Nat]

ASSUME ListsAssumption == /\ ResponseLists \subseteq Seq(Ranges)
                          /\ FirstList \in ResponseLists
                          /\ None \notin ResponseLists
ASSUME BoundAssumption == MaxUpdates \in Nat /\ MaxResends \in Nat /\ MaxRestarts \in Nat

Flights == Pods \X Keys
Fetch   == [found : ResponseLists \cup {None}, done : BOOLEAN]

ASSUME NoneAssumption == None \notin Flights /\ None \notin Fetch

VARIABLES
    responses, \* the list that MongoDB has
    flight,    \* the singleflight calls of every pod, by key
    pc,        \* where each call is
    on,        \* its pod and key
    list,      \* the responses that its flight found
    count,     \* the count it got
    reply,     \* which response it was answered with; 0: the default
    counter,   \* the counters in Redis; 0: no key
    ttl,       \* which of them have a TTL
    wpc, left, \* where each reset is, and the keys its scan will still delete
    updates, resends, restarts,
    epoch,     \* history: how often each counter went away
    age,       \* history: the epoch in which each call counted
    nobody,    \* history: the counts that no call got
    earlier,   \* history: the counters that existed when a reset began
    lost       \* history: the calls whose EXPIRE was never executed

vars == <<responses, flight, pc, on, list, count, reply, counter, ttl, wpc, left,
          updates, resends, restarts, epoch, age, nobody, earlier, lost>>
resetting == <<wpc, left, earlier>>
bounded   == <<responses, updates, restarts>>
counting  == <<count, counter, age, nobody, resends>>

Lives == Keys \X Nat    \* a counter, and how often it had gone away

TypeOK ==
    /\ responses \in ResponseLists
    /\ flight \in [Flights -> Fetch \cup {None}]
    /\ pc \in [Requests -> {"idle", "do", "wait", "incr", "expire", "match",
                            "answered", "failed"}]
    /\ on \in [Requests -> Flights \cup {None}]
    /\ \A r \in Requests : pc[r] \notin {"idle", "failed"} => on[r] \in Flights
    /\ list \in [Requests -> ResponseLists \cup {None}]
    /\ \A r \in Requests : pc[r] \in {"incr", "expire", "match", "answered"}
                              => list[r] \in ResponseLists
    /\ count \in [Requests -> Nat]
    /\ reply \in [Requests -> Nat]
    /\ counter \in [Keys -> Nat]
    /\ ttl \in [Keys -> BOOLEAN]
    /\ wpc \in [Resets -> {"idle", "find", "delete", "ok", "none", "partial", "failed"}]
    /\ left \in [Resets -> SUBSET Keys]
    /\ updates \in 0..MaxUpdates
    /\ resends \in 0..MaxResends
    /\ restarts \in 0..MaxRestarts
    /\ epoch \in [Keys -> Nat]
    /\ age \in [Requests -> Nat]
    /\ nobody \subseteq Lives \X Nat
    /\ earlier \in [Resets -> SUBSET Lives]
    /\ lost \subseteq Requests

Init ==
    /\ responses = FirstList
    /\ flight = [f \in Flights |-> None]
    /\ pc = [r \in Requests |-> "idle"]
    /\ on = [r \in Requests |-> None]
    /\ list = [r \in Requests |-> None]
    /\ count = [r \in Requests |-> 0]
    /\ reply = [r \in Requests |-> 0]
    /\ counter = [k \in Keys |-> 0]
    /\ ttl = [k \in Keys |-> FALSE]
    /\ wpc = [w \in Resets |-> "idle"]
    /\ left = [w \in Resets |-> {}]
    /\ updates = 0
    /\ resends = 0
    /\ restarts = 0
    /\ epoch = [k \in Keys |-> 0]
    /\ age = [r \in Requests |-> 0]
    /\ nobody = {}
    /\ earlier = [w \in Resets |-> {}]
    /\ lost = {}

(***************************************************************************)
(* Forwarded calls.                                                        *)
(***************************************************************************)
KeyOf(r) == on[r][2]
Life(k)  == <<k, epoch[k]>>
Goto(r, p) == pc' = [pc EXCEPT ![r] = p]

(* Arrival and cache lookup; a sequence mock is never in the cache.          *)
Arrive(r) ==
    /\ pc[r] = "idle"
    /\ \E f \in Flights : on' = [on EXCEPT ![r] = f]
    /\ Goto(r, "do")
    /\ UNCHANGED <<flight, list, reply, ttl, epoch, lost, counting, resetting, bounded>>

(* Lead the flight of the key in this pod, or join it.                       *)
Do(r) ==
    /\ pc[r] = "do"
    /\ flight' = [flight EXCEPT ![on[r]] =
                    IF @ = None THEN [found |-> None, done |-> FALSE] ELSE @]
    /\ Goto(r, "wait")
    /\ UNCHANGED <<on, list, reply, ttl, epoch, lost, counting, resetting, bounded>>

(* The fetch finds the mock's responses, or fails.                           *)
Find(f) ==
    /\ flight[f] # None /\ ~flight[f].done
    /\ \E found \in {responses, None} :
          flight' = [flight EXCEPT ![f] = [found |-> found, done |-> TRUE]]
    /\ UNCHANGED <<pc, on, list, reply, ttl, epoch, lost, counting, resetting, bounded>>

Onward(f, next) == IF flight[f].found = None THEN "failed" ELSE next

(* Every caller of the flight gets the same list.                           *)
Deliver(f, next) ==
    LET waiting == {r \in Requests : pc[r] = "wait" /\ on[r] = f} IN
    /\ flight[f] # None /\ flight[f].done
    /\ flight' = [flight EXCEPT ![f] = None]
    /\ list' = [r \in Requests |-> IF r \in waiting THEN flight[f].found ELSE list[r]]
    /\ pc' = [r \in Requests |-> IF r \in waiting THEN Onward(f, next) ELSE pc[r]]
    /\ UNCHANGED <<on, reply, ttl, epoch, lost, nobody, resends, resetting, bounded>>

(* Variant: the call is counted inside the shared fetch.                     *)
Return_Counts(f) ==
    /\ Deliver(f, "match")
    /\ IF flight[f].found = None THEN UNCHANGED <<counter, count, age>>
       ELSE LET new == {r \in Requests : pc[r] # pc'[r]} IN
            /\ counter' = [counter EXCEPT ![f[2]] = @ + 1]
            /\ count' = [r \in Requests |-> IF r \in new THEN counter[f[2]] + 1 ELSE count[r]]
            /\ age' = [r \in Requests |-> IF r \in new THEN epoch[f[2]] ELSE age[r]]

(* Each caller then counts for itself.                                      *)
Return(f) == Deliver(f, "incr") /\ UNCHANGED <<counter, count, age>>

(* Variant: the count is taken for the value before the increment.           *)
IsFirst_OldValue(n) == n = 0

IsFirst(n) == n = 1

(* IncrWithTTL, first command.  When the reply gets lost the client sends    *)
(* INCR again, and nobody gets the first count; when it gives up, or the     *)
(* caller has gone away, the call fails.                                    *)
Incr(r) ==
    /\ pc[r] = "incr"
    /\ LET k == KeyOf(r)
           n == counter[k] + 1
       IN  \/ /\ counter' = [counter EXCEPT ![k] = n]
              /\ count' = [count EXCEPT ![r] = n]
              /\ age' = [age EXCEPT ![r] = epoch[k]]
              /\ Goto(r, IF IsFirst(n) THEN "expire" ELSE "match")
              /\ UNCHANGED <<nobody, resends>>
           \/ /\ resends < MaxResends
              /\ resends' = resends + 1
              /\ counter' = [counter EXCEPT ![k] = n]
              /\ nobody' = nobody \cup {<<Life(k), n>>}
              /\ UNCHANGED <<pc, count, age>>
           \/ Goto(r, "failed") /\ UNCHANGED counting
    /\ UNCHANGED <<flight, on, list, reply, ttl, epoch, lost, resetting, bounded>>

(* IncrWithTTL, second command: EXPIRE of a key that is gone does nothing,   *)
(* and an error is logged and forgotten.                                    *)
Expire(r) ==
    /\ pc[r] = "expire"
    /\ \/ /\ ttl' = [ttl EXCEPT ![KeyOf(r)] = counter[KeyOf(r)] # 0]
          /\ UNCHANGED lost
       \/ /\ lost' = lost \cup {r}
          /\ UNCHANGED ttl
    /\ Goto(r, "match")
    /\ UNCHANGED <<flight, on, list, reply, epoch, counting, resetting, bounded>>

InRange(e, n) == n >= e.from /\ (e.to = 0 \/ n < e.to)

(* i is the first response whose range holds n; 0 when there is none.        *)
MatchingResponse(s, n, i) ==
    /\ i # 0 => InRange(s[i], n)
    /\ \A j \in 1..Len(s) : (i = 0 \/ j < i) => ~InRange(s[j], n)

Answer(r) ==
    /\ pc[r] = "match"
    /\ \E i \in 0..Len(list[r]) :
          /\ MatchingResponse(list[r], count[r], i)
          /\ reply' = [reply EXCEPT ![r] = i]
    /\ Goto(r, "answered")
    /\ UNCHANGED <<flight, on, list, ttl, epoch, lost, counting, resetting, bounded>>

(***************************************************************************)
(* What removes counters.                                                  *)
(***************************************************************************)
calls == <<flight, pc, on, list, reply, lost, count, age, nobody, resends>>

Forget(gone) ==
    /\ counter' = [k \in Keys |-> IF k \in gone THEN 0 ELSE counter[k]]
    /\ ttl' = [k \in Keys |-> k \notin gone /\ ttl[k]]
    /\ epoch' = [k \in Keys |-> IF k \in gone /\ counter[k] # 0 THEN epoch[k] + 1 ELSE epoch[k]]

Expiry(k) ==
    /\ ttl[k]
    /\ Forget({k})
    /\ UNCHANGED <<calls, resetting, bounded>>

(* A pod dies and starts again; the start purges all keys, or fails to       *)
(* delete some of them.                                                     *)
Restart(p) ==
    /\ restarts < MaxRestarts
    /\ restarts' = restarts + 1
    /\ flight' = [f \in Flights |-> IF f[1] = p THEN None ELSE flight[f]]
    /\ LET dying == {r \in Requests : /\ pc[r] \in {"do", "wait", "incr", "expire", "match"}
                                      /\ on[r][1] = p}
       IN  /\ pc' = [r \in Requests |-> IF r \in dying THEN "failed" ELSE pc[r]]
           /\ lost' = lost \cup {r \in dying : pc[r] = "expire"}
    /\ \E gone \in SUBSET Keys : Forget(gone)
    /\ UNCHANGED <<responses, updates, on, list, reply, count, age, nobody, resends, resetting>>

(***************************************************************************)
(* Admin handlers.                                                         *)
(***************************************************************************)
WGoto(w, p) == wpc' = [wpc EXCEPT ![w] = p]

(* The list is replaced; its counters stay, whatever the scenario's          *)
(* invalidation deletes, because their keys have a prefix of their own.      *)
Update ==
    /\ updates < MaxUpdates
    /\ updates' = updates + 1
    /\ responses' \in ResponseLists
    /\ UNCHANGED <<calls, counter, ttl, epoch, restarts, resetting>>

BeginReset(w) ==
    /\ wpc[w] = "idle"
    /\ earlier' = [earlier EXCEPT ![w] = {Life(k) : k \in {j \in Keys : counter[j] # 0}}]
    /\ WGoto(w, "find")
    /\ UNCHANGED <<calls, counter, ttl, epoch, left, bounded>>

(* Variant: the pattern names one account.                                  *)
Pattern_OneKey == {CHOOSE k \in Keys : TRUE}

(* The pattern has a wildcard for the account and for the hash of the body.  *)

Pattern == Keys

(* The mock is read to build the pattern.  When the read fails the HTTP      *)
(* handler does not notice: its pattern is made of empty names, matches no   *)
(* key, and it reports success ("none"); the tool, which looks up the same   *)
(* way by name, does so too.                                                *)
FindMock(w) ==
    /\ wpc[w] = "find"
    /\ \/ /\ left' = [left EXCEPT ![w] = Pattern]
          /\ WGoto(w, "delete")
       \/ /\ WGoto(w, "none")
          /\ UNCHANGED left
    /\ UNCHANGED <<calls, counter, ttl, epoch, earlier, bounded>>

(* SCAN and DEL go through the keys in batches, in any order.                *)
DeleteBatch(w) ==
    /\ wpc[w] = "delete"
    /\ \E batch \in SUBSET left[w] \ {{}} :
          /\ Forget(batch)
          /\ left' = [left EXCEPT ![w] = @ \ batch]
    /\ UNCHANGED <<calls, wpc, earlier, bounded>>

(* The handler reports success, also when the scan stopped with an error.    *)
EndReset(w) ==
    /\ wpc[w] = "delete"
    /\ WGoto(w, IF left[w] = {} THEN "ok" ELSE "partial")
    /\ UNCHANGED <<calls, counter, ttl, epoch, left, earlier, bounded>>

ResetDies(w) ==
    /\ wpc[w] \in {"find", "delete"}
    /\ WGoto(w, "failed")
    /\ UNCHANGED <<calls, counter, ttl, epoch, left, earlier, bounded>>

AllReturned ==
    /\ \A r \in Requests : pc[r] \in {"answered", "failed"}
    /\ \A w \in Resets : wpc[w] \in {"ok", "none", "partial", "failed"}
    /\ UNCHANGED vars

Next ==
    \/ \E r \in Requests : Arrive(r) \/ Do(r) \/ Incr(r) \/ Expire(r) \/ Answer(r)
    \/ \E f \in Flights : Find(f) \/ Return(f)
    \/ \E k \in Keys : Expiry(k)
    \/ \E p \in Pods : Restart(p)
    \/ Update
    \/ \E w \in Resets :
          BeginReset(w) \/ FindMock(w) \/ DeleteBatch(w) \/ EndReset(w) \/ ResetDies(w)
    \/ AllReturned

Spec == Init /\ [][Next]_vars

(***************************************************************************)
(* Properties.                                                             *)
(***************************************************************************)

(* Within the life of a counter its calls get 1, 2, 3, ... without           *)
(* repetition, and without gap but for the increments whose reply was lost,  *)
(* whichever pods serve them and however they share fetches: IncrWithTTL is  *)
(* called once per caller, outside the shared fetch.                         *)
CallsOf(k) == {r \in Requests : count[r] # 0 /\ KeyOf(r) = k /\ age[r] = epoch[k]}
Taken(k)   == {count[r] : r \in CallsOf(k)}
Untaken(k) == {n \in 1..counter[k] : <<Life(k), n>> \in nobody}
CountsAreDense ==
    \A k \in Keys :
        /\ Taken(k) \cup Untaken(k) = 1..counter[k]
        /\ Taken(k) \cap Untaken(k) = {}
        /\ \A q, r \in CallsOf(k) : count[q] = count[r] => q = r

(* "Each entry matches call counts in [from, to]", and to is the "last call   *)
(* count" (handlers_apis.go:182, 187): a call is answered with the first       *)
(* response of which this holds.                                            *)
Described(e, n) == n >= e.from /\ (e.to = 0 \/ n <= e.to)
AnsweredAsDescribed ==
    \A r \in Requests : pc[r] = "answered" =>
        \A i \in DOMAIN list[r] :
            /\ Described(list[r][i], count[r])
            /\ \A j \in 1..(i - 1) : ~Described(list[r][j], count[r])
            => reply[r] = i

(* A response with from and to answers at most to - from calls in the life    *)
(* of a counter, as the code reads its range, which leaves out the end.        *)
ServedBy(k, n, s, i) == {r \in Requests : /\ pc[r] = "answered" /\ KeyOf(r) = k
                                          /\ age[r] = n /\ list[r] = s /\ reply[r] = i}
ResponseServesItsShare ==
    \A k \in Keys, s \in ResponseLists : \A n \in 0..epoch[k] : \A i \in 1..Len(s) :
        s[i].to > s[i].from =>
            Cardinality(ServedBy(k, n, s, i)) <= s[i].to - s[i].from

(* "Reset the sequence-response counter ... so the next call starts from the *)
(* first sequence entry" (handlers_apis.go): no counter that existed when a  *)
(* reset began is left after it, if its read and its scan succeeded.         *)
GoneSince(w) == \A k \in Keys : counter[k] # 0 => Life(k) \notin earlier[w]
CleanResetStartsOver == \A w \in Resets : wpc[w] = "ok" => GoneSince(w)

(* A counter without TTL, which would stay for ever, is one whose first call *)
(* is between its two commands, or lost the second to an error or a crash,   *)
(* or whose first increment had to be sent again.                           *)
MissingTTLExplained ==
    \A k \in Keys : (counter[k] # 0 /\ ~ttl[k]) =>
        \/ \E r \in CallsOf(k) : count[r] = 1 /\ (pc[r] = "expire" \/ r \in lost)
        \/ 1 \in Untaken(k)

=============================================================================
