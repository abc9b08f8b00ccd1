------------------------ MODULE SequenceCounterProofs ------------------------
(***************************************************************************)
(* Proofs about SequenceCounter, for any number of calls, resets, pods,     *)
(* counters and response lists, and any bound on updates, repeated INCRs     *)
(* and restarts.                                                           *)
(***************************************************************************)
EXTENDS SequenceCounter, SequenceTheorems, FiniteSetTheorems, TLAPS

USE DEF Goto, WGoto, resetting, bounded, counting, calls

-------------------------------------------------------------------------------
(* Types.                                                                  *)

LEMMA TypeInit == Init => TypeOK
BY ListsAssumption, BoundAssumption DEF Init, TypeOK, Lives

LEMMA OnFlight ==
    ASSUME TypeOK, NEW r \in Requests, pc[r] \notin {"idle", "failed"}
    PROVE  /\ on[r] \in Flights
           /\ KeyOf(r) \in Keys
           /\ on[r][1] \in Pods
           /\ on[r] = <<on[r][1], KeyOf(r)>>
BY DEF TypeOK, KeyOf, Flights

LEMMA LifeType ==
    ASSUME TypeOK, NEW k \in Keys
    PROVE  Life(k) \in Lives
BY DEF TypeOK, Life, Lives

(* Forgetting counters keeps their types.                                  *)
LEMMA ForgetType ==
    ASSUME TypeOK, NEW gone, Forget(gone)
    PROVE  /\ counter' \in [Keys -> Nat]
           /\ ttl' \in [Keys -> BOOLEAN]
           /\ epoch' \in [Keys -> Nat]
BY DEF TypeOK, Forget

LEMMA CallType ==
    ASSUME TypeOK, NEW r \in Requests, Arrive(r) \/ Do(r) \/ Incr(r) \/ Expire(r) \/ Answer(r)
    PROVE  TypeOK'
<1>1. CASE Arrive(r)
  BY <1>1 DEF Arrive, TypeOK
<1>2. CASE Do(r)
  BY <1>2, OnFlight DEF Do, TypeOK, Fetch
<1>3. CASE Incr(r)
  <2> DEFINE k == KeyOf(r)
  <2>1. k \in Keys /\ counter[k] + 1 \in Nat
    BY <1>3, OnFlight DEF Incr, TypeOK
  <2>2. <<Life(k), counter[k] + 1>> \in Lives \X Nat
    BY <2>1, LifeType
  <2> HIDE DEF k
  <2> QED
    BY <1>3, <2>1, <2>2, BoundAssumption DEF Incr, TypeOK, k
<1>4. CASE Expire(r)
  BY <1>4, OnFlight DEF Expire, TypeOK
<1>5. CASE Answer(r)
  <2>1. list[r] \in Seq(Ranges)
    BY <1>5, ListsAssumption DEF Answer, TypeOK
  <2>2. \A i \in 0..Len(list[r]) : i \in Nat
    BY <2>1, LenProperties
  <2> QED
    BY <1>5, <2>2 DEF Answer, TypeOK
<1> QED
  BY <1>1, <1>2, <1>3, <1>4, <1>5

LEMMA FlightType ==
    ASSUME TypeOK, NEW f \in Flights, Find(f) \/ Return(f)
    PROVE  TypeOK'
<1>1. CASE Find(f)
  BY <1>1 DEF Find, TypeOK, Fetch
<1>2. CASE Return(f)
  <2>1. flight[f] \in Fetch
    BY <1>2 DEF Return, Deliver, TypeOK
  <2>2. flight[f].found \in ResponseLists \cup {None}
    BY <2>1 DEF Fetch
  <2>3. flight[f].found # None => flight[f].found \in ResponseLists
    BY <2>2
  <2> QED
    BY <1>2, <2>2, <2>3 DEF Return, Deliver, Onward, TypeOK
<1> QED
  BY <1>1, <1>2

LEMMA RemovalType ==
    ASSUME TypeOK,
           \/ \E k \in Keys : Expiry(k)
           \/ \E p \in Pods : Restart(p)
           \/ \E w \in Resets : DeleteBatch(w)
    PROVE  TypeOK'
<1>1. ASSUME NEW k \in Keys, Expiry(k) PROVE TypeOK'
  <2>1. Forget({k})
    BY <1>1 DEF Expiry
  <2> QED
    BY <1>1, <2>1, ForgetType DEF Expiry, TypeOK
<1>2. ASSUME NEW p \in Pods, Restart(p) PROVE TypeOK'
  <2>1. PICK gone \in SUBSET Keys : Forget(gone)
    BY <1>2 DEF Restart
  <2> QED
    BY <1>2, <2>1, ForgetType, BoundAssumption DEF Restart, TypeOK
<1>3. ASSUME NEW w \in Resets, DeleteBatch(w) PROVE TypeOK'
  <2>1. PICK batch \in SUBSET left[w] : Forget(batch) /\ left' = [left EXCEPT ![w] = @ \ batch]
    BY <1>3 DEF DeleteBatch
  <2> QED
    BY <1>3, <2>1, ForgetType DEF DeleteBatch, TypeOK
<1> QED
  BY <1>1, <1>2, <1>3

LEMMA AdminType ==
    ASSUME TypeOK,
           \/ Update
           \/ \E w \in Resets : BeginReset(w) \/ FindMock(w) \/ EndReset(w) \/ ResetDies(w)
    PROVE  TypeOK'
<1>1. CASE Update
  BY <1>1, BoundAssumption DEF Update, TypeOK
<1>2. ASSUME NEW w \in Resets, BeginReset(w) PROVE TypeOK'
  BY <1>2, LifeType DEF BeginReset, TypeOK
<1>3. ASSUME NEW w \in Resets, FindMock(w) PROVE TypeOK'
  BY <1>3 DEF FindMock, Pattern, TypeOK
<1>4. ASSUME NEW w \in Resets, EndReset(w) PROVE TypeOK'
  BY <1>4 DEF EndReset, TypeOK
<1>5. ASSUME NEW w \in Resets, ResetDies(w) PROVE TypeOK'
  BY <1>5 DEF ResetDies, TypeOK
<1> QED
  BY <1>1, <1>2, <1>3, <1>4, <1>5

LEMMA TypeStep == TypeOK /\ [Next]_vars => TypeOK'
<1> SUFFICES ASSUME TypeOK, [Next]_vars PROVE TypeOK'
  OBVIOUS
<1>1. CASE UNCHANGED vars
  BY <1>1 DEF vars, TypeOK
<1> QED
  BY <1>1, CallType, FlightType, RemovalType, AdminType DEF Next, AllReturned

(* Every state of the counters of a sequence mock is well typed.             *)
THEOREM TypeCorrect == Spec => []TypeOK
BY TypeInit, TypeStep, PTL DEF Spec

-------------------------------------------------------------------------------
(* Counts.                                                                 *)

(* A call has no count before its INCR, and has one after it; the one that   *)
(* still owes its EXPIRE has the first.                                     *)
HasCount(r) ==
    /\ pc[r] \in {"idle", "do", "wait", "incr"} => count[r] = 0
    /\ pc[r] \in {"expire", "match", "answered"} => count[r] # 0
    /\ pc[r] = "expire" => count[r] = 1
    /\ count[r] # 0 => on[r] \in Flights /\ age[r] <= epoch[KeyOf(r)]

(* Over all lives of all counters, no count is handed out twice.             *)
CountsAreUnique ==
    \A q, r \in Requests :
        (/\ count[q] # 0 /\ count[q] = count[r]
         /\ KeyOf(q) = KeyOf(r) /\ age[q] = age[r]) => q = r

(* A count that no call got belongs to a life that began, and the counter    *)
(* has passed it.                                                          *)
NobodyLived ==
    \A k \in Keys, e, n \in Nat :
        <<<<k, e>>, n>> \in nobody => e <= epoch[k] /\ (e = epoch[k] => n <= counter[k])

Dense(k) == /\ Taken(k) \cup Untaken(k) = 1..counter[k]
            /\ Taken(k) \cap Untaken(k) = {}

Counting == /\ \A r \in Requests : HasCount(r)
            /\ CountsAreUnique
            /\ NobodyLived
            /\ \A k \in Keys : Dense(k)

LEMMA CountingInit == Init => Counting
BY DEF Init, Counting, HasCount, CountsAreUnique, NobodyLived, Dense, Taken, Untaken, CallsOf

(* What matters of a step that leaves the counters alone.                    *)
KeepsCounts ==
    /\ UNCHANGED <<counter, count, age, nobody, epoch>>
    /\ \A r \in Requests :
          /\ count[r] # 0 => on'[r] = on[r]
          /\ \/ pc'[r] = pc[r]
             \/ pc'[r] = "failed"
             \/ pc[r] \in {"idle", "do", "wait"} /\ pc'[r] \in {"do", "wait", "incr"}
             \/ pc[r] \in {"expire", "match"} /\ pc'[r] \in {"match", "answered"}

LEMMA KeepsCountsStep ==
    ASSUME TypeOK, Counting, KeepsCounts
    PROVE  Counting'
<1>1. \A r \in Requests : HasCount(r)'
  BY DEF Counting, KeepsCounts, HasCount, KeyOf
<1>2. \A r \in Requests : count[r] # 0 => KeyOf(r)' = KeyOf(r)
  BY DEF KeepsCounts, KeyOf
<1>3. CountsAreUnique'
  BY <1>2 DEF Counting, CountsAreUnique, KeepsCounts
<1>4. NobodyLived'
  BY DEF Counting, NobodyLived, KeepsCounts
<1>5. ASSUME NEW k \in Keys PROVE Dense(k)'
  <2>1. CallsOf(k)' = CallsOf(k)
    BY <1>2 DEF CallsOf, KeepsCounts
  <2>2. Taken(k)' = Taken(k) /\ Untaken(k)' = Untaken(k)
    BY <2>1 DEF Taken, Untaken, Life, KeepsCounts
  <2> QED
    BY <2>2 DEF Counting, Dense, KeepsCounts
<1> QED
  BY <1>1, <1>3, <1>4, <1>5 DEF Counting

(* A counter that goes away starts a life in which no count is taken.        *)
LEMMA ForgetCounting ==
    ASSUME TypeOK, Counting, NEW gone, Forget(gone),
           UNCHANGED <<count, age, nobody, on>>,
           \A r \in Requests : pc'[r] = pc[r] \/ pc'[r] = "failed"
    PROVE  Counting'
<1>1. \A k \in Keys : epoch'[k] \in Nat /\ epoch[k] \in Nat /\ epoch[k] <= epoch'[k]
  BY DEF TypeOK, Forget
<1>2. \A r \in Requests : KeyOf(r)' = KeyOf(r)
  BY DEF KeyOf
<1>3. \A r \in Requests : HasCount(r)'
  <2> SUFFICES ASSUME NEW r \in Requests PROVE HasCount(r)'
    OBVIOUS
  <2>1. HasCount(r) /\ age[r] \in Nat
    BY DEF Counting, TypeOK
  <2>2. on[r] \in Flights => KeyOf(r) \in Keys
    BY DEF Flights, KeyOf
  <2> QED
    BY <1>1, <1>2, <2>1, <2>2 DEF HasCount
<1>4. CountsAreUnique'
  BY <1>2 DEF Counting, CountsAreUnique
<1>5. NobodyLived'
  <2> SUFFICES ASSUME NEW k \in Keys, NEW e \in Nat, NEW n \in Nat, <<<<k, e>>, n>> \in nobody
               PROVE  e <= epoch'[k] /\ (e = epoch'[k] => n <= counter'[k])
    BY DEF NobodyLived
  <2>1. e <= epoch[k] /\ (e = epoch[k] => n <= counter[k])
    BY DEF Counting, NobodyLived
  <2> QED
    BY <2>1 DEF Forget, TypeOK
<1>6. ASSUME NEW k \in Keys PROVE Dense(k)'
  <2>1. CASE k \in gone /\ counter[k] # 0
    <3>1. counter'[k] = 0 /\ epoch'[k] = epoch[k] + 1
      BY <2>1 DEF Forget
    <3>2. CallsOf(k)' = {}
      <4> SUFFICES ASSUME NEW r \in Requests, count[r] # 0, KeyOf(r) = k, age[r] = epoch'[k]
                   PROVE  FALSE
        BY <1>2 DEF CallsOf
      <4> QED
        BY <1>1, <3>1 DEF Counting, HasCount, TypeOK
    <3>3. 1..counter'[k] = {}
      BY <3>1
    <3>4. Taken(k)' = {} /\ Untaken(k)' = {}
      BY <3>2, <3>3 DEF Taken, Untaken
    <3> QED
      BY <3>3, <3>4 DEF Dense
  <2>2. CASE ~(k \in gone /\ counter[k] # 0)
    <3>1. counter'[k] = counter[k] /\ epoch'[k] = epoch[k]
      BY <2>2 DEF Forget, TypeOK
    <3>2. CallsOf(k)' = CallsOf(k)
      BY <1>2, <3>1 DEF CallsOf
    <3>3. Taken(k)' = Taken(k) /\ Untaken(k)' = Untaken(k)
      BY <3>1, <3>2 DEF Taken, Untaken, Life
    <3> QED
      BY <3>1, <3>3 DEF Counting, Dense
  <2> QED
    BY <2>1, <2>2
<1> QED
  BY <1>3, <1>4, <1>5, <1>6 DEF Counting

(* An INCR of a call that has no count takes the next one.                   *)
LEMMA IncrCounting ==
    ASSUME TypeOK, Counting, NEW r \in Requests, Incr(r)
    PROVE  Counting'
<1>1. PICK k \in Keys : /\ k = KeyOf(r) /\ on[r] \in Flights
                        /\ counter[k] \in Nat /\ epoch[k] \in Nat
                        /\ count[r] = 0
  BY OnFlight DEF Incr, TypeOK, Counting, HasCount
<1>2. PICK n \in Nat : /\ n = counter[k] + 1
                       /\ n # 0 /\ n > counter[k]
                       /\ (1..counter[k]) \cup {n} = 1..n
  BY <1>1
<1>3. UNCHANGED <<on, epoch>>
  BY DEF Incr
<1>4. \A q \in Requests : KeyOf(q)' = KeyOf(q)
  BY <1>3 DEF KeyOf
<1>5. \A q \in CallsOf(k) : count[q] # n
  BY <1>1, <1>2 DEF Counting, Dense, Taken
<1>6. <<Life(k), n>> \notin nobody
  BY <1>1, <1>2 DEF Counting, NobodyLived, Life
<1>7. Life(k)' = Life(k)
  BY <1>3 DEF Life
<1>8. ASSUME counter'[k] = n, nobody' = nobody
      PROVE  Untaken(k)' = Untaken(k)
  BY <1>1, <1>2, <1>6, <1>7, <1>8 DEF Untaken
<1>9. ASSUME counter'[k] = n, nobody' = nobody \cup {<<Life(k), n>>}
      PROVE  Untaken(k)' = Untaken(k) \cup {n}
  BY <1>1, <1>2, <1>7, <1>9 DEF Untaken
<1>10. CASE /\ counter' = [counter EXCEPT ![k] = n]
           /\ count' = [count EXCEPT ![r] = n]
           /\ age' = [age EXCEPT ![r] = epoch[k]]
           /\ Goto(r, IF IsFirst(n) THEN "expire" ELSE "match")
           /\ UNCHANGED <<nobody, resends>>
  <2>1. /\ counter'[k] = n /\ count'[r] = n /\ age'[r] = epoch[k]
        /\ pc'[r] \in {"expire", "match"} /\ (pc'[r] = "expire" => n = 1)
        /\ \A j \in Keys \ {k} : counter'[j] = counter[j]
        /\ \A q \in Requests \ {r} :
              count'[q] = count[q] /\ age'[q] = age[q] /\ pc'[q] = pc[q]
    BY <1>1, <1>10 DEF TypeOK, IsFirst
  <2>2. \A q \in Requests : HasCount(q)'
    <3> TAKE q \in Requests
    <3>1. CASE q = r
      BY <3>1, <2>1, <1>1, <1>2, <1>3, <1>4 DEF HasCount
    <3>2. CASE q # r
      BY <3>2, <2>1, <1>3, <1>4 DEF Counting, HasCount
    <3> QED
      BY <3>1, <3>2
  <2>3. CountsAreUnique'
    <3> SUFFICES ASSUME NEW q \in Requests, NEW p \in Requests,
                        count'[q] # 0, count'[q] = count'[p],
                        KeyOf(q) = KeyOf(p), age'[q] = age'[p]
                 PROVE  q = p
      BY <1>4 DEF CountsAreUnique
    <3>1. \A x \in Requests \ {r} :
             ~(count[x] = n /\ KeyOf(x) = k /\ age[x] = epoch[k])
      BY <1>2, <1>5 DEF CallsOf
    <3> QED
      BY <3>1, <2>1, <1>1 DEF Counting, CountsAreUnique
  <2>4. NobodyLived'
    BY <1>1, <1>2, <1>3, <1>10, <2>1 DEF Counting, NobodyLived
  <2>5. \A j \in Keys : Dense(j)'
    <3> TAKE j \in Keys
    <3>1. CASE j = k
      <4>1. CallsOf(k)' = CallsOf(k) \cup {r}
        BY <1>1, <1>2, <1>3, <1>4, <2>1 DEF CallsOf
      <4>2. Taken(k)' = Taken(k) \cup {n}
        BY <1>1, <4>1, <2>1 DEF Taken, CallsOf
      <4>3. Untaken(k)' = Untaken(k)
        BY <1>8, <1>10, <2>1
      <4>4. n \notin Untaken(k)
        BY <1>1, <1>2 DEF Untaken
      <4>5. Dense(k)
        BY <1>1 DEF Counting
      <4> QED
        BY <3>1, <4>2, <4>3, <4>4, <4>5, <2>1, <1>2 DEF Dense
    <3>2. CASE j # k
      <4>1. CallsOf(j)' = CallsOf(j)
        BY <3>2, <1>1, <1>3, <1>4, <2>1 DEF CallsOf
      <4>2. Taken(j)' = Taken(j) /\ Untaken(j)' = Untaken(j)
        BY <3>2, <4>1, <1>1, <1>3, <1>10, <2>1 DEF Taken, Untaken, Life, CallsOf
      <4> QED
        BY <3>2, <4>2, <2>1 DEF Counting, Dense
    <3> QED
      BY <3>1, <3>2
  <2> QED
    BY <2>2, <2>3, <2>4, <2>5 DEF Counting
<1>11. CASE /\ counter' = [counter EXCEPT ![k] = n]
           /\ nobody' = nobody \cup {<<Life(k), n>>}
           /\ UNCHANGED <<pc, count, age>>
  <2>1. counter'[k] = n /\ \A j \in Keys \ {k} : counter'[j] = counter[j]
    BY <1>1, <1>11 DEF TypeOK
  <2>2. \A q \in Requests : HasCount(q)'
    BY <1>3, <1>4, <1>11 DEF Counting, HasCount
  <2>3. CountsAreUnique'
    BY <1>4, <1>11 DEF Counting, CountsAreUnique
  <2>4. NobodyLived'
    <3> SUFFICES ASSUME NEW j \in Keys, NEW e \in Nat, NEW m \in Nat, <<<<j, e>>, m>> \in nobody'
                 PROVE  e <= epoch[j] /\ (e = epoch[j] => m <= counter'[j])
      BY <1>3 DEF NobodyLived
    <3>1. CASE <<<<j, e>>, m>> \in nobody
      <4>1. e <= epoch[j] /\ (e = epoch[j] => m <= counter[j])
        BY <3>1 DEF Counting, NobodyLived
      <4>2. counter[j] \in Nat /\ counter'[j] \in Nat /\ counter[j] <= counter'[j]
        BY <2>1, <1>1, <1>2 DEF TypeOK
      <4> QED
        BY <4>1, <4>2
    <3>2. CASE <<<<j, e>>, m>> = <<Life(k), n>>
      BY <3>2, <2>1, <1>1, <1>2 DEF Life
    <3> QED
      BY <3>1, <3>2, <1>11
  <2>5. \A j \in Keys : Dense(j)'
    <3> TAKE j \in Keys
    <3>1. CallsOf(j)' = CallsOf(j) /\ Taken(j)' = Taken(j)
      BY <1>3, <1>4, <1>11 DEF CallsOf, Taken
    <3>2. CASE j = k
      <4>1. Untaken(k)' = Untaken(k) \cup {n}
        BY <1>9, <1>11, <2>1
      <4>2. n \notin Taken(k)
        BY <1>5 DEF Taken
      <4>3. Dense(k)
        BY <1>1 DEF Counting
      <4> QED
        BY <3>1, <3>2, <4>1, <4>2, <4>3, <2>1, <1>2 DEF Dense
    <3>3. CASE j # k
      <4>1. Untaken(j)' = Untaken(j)
        BY <3>3, <1>1, <1>3, <1>11, <2>1 DEF Untaken, Life
      <4> QED
        BY <3>1, <3>3, <4>1, <2>1 DEF Counting, Dense
    <3> QED
      BY <3>2, <3>3
  <2> QED
    BY <2>2, <2>3, <2>4, <2>5 DEF Counting
<1>12. CASE Goto(r, "failed") /\ UNCHANGED <<count, counter, age, nobody>>
  <2>1. KeepsCounts
    BY <1>3, <1>12 DEF KeepsCounts, TypeOK
  <2> QED
    BY <2>1, KeepsCountsStep
<1> QED
  BY <1>1, <1>2, <1>10, <1>11, <1>12 DEF Incr

LEMMA CountingStep == TypeOK /\ Counting /\ [Next]_vars => Counting'
<1> SUFFICES ASSUME TypeOK, Counting, [Next]_vars PROVE Counting'
  OBVIOUS
<1> USE DEF TypeOK
<1>1. ASSUME NEW r \in Requests, Arrive(r) PROVE KeepsCounts
  BY <1>1 DEF Arrive, KeepsCounts, Counting, HasCount
<1>2. ASSUME NEW r \in Requests, Do(r) PROVE KeepsCounts
  BY <1>2 DEF Do, KeepsCounts
<1>3. ASSUME NEW r \in Requests, Expire(r) PROVE KeepsCounts
  BY <1>3 DEF Expire, KeepsCounts
<1>4. ASSUME NEW r \in Requests, Answer(r) PROVE KeepsCounts
  BY <1>4 DEF Answer, KeepsCounts
<1>5. ASSUME NEW f \in Flights, Find(f) PROVE KeepsCounts
  BY <1>5 DEF Find, KeepsCounts
<1>6. ASSUME NEW f \in Flights, Return(f) PROVE KeepsCounts
  BY <1>6 DEF Return, Deliver, Onward, KeepsCounts
<1>7. ASSUME Update PROVE KeepsCounts
  BY <1>7 DEF Update, KeepsCounts
<1>8. ASSUME NEW w \in Resets, BeginReset(w) \/ FindMock(w) \/ EndReset(w) \/ ResetDies(w)
      PROVE  KeepsCounts
  BY <1>8 DEF BeginReset, FindMock, EndReset, ResetDies, KeepsCounts
<1>9. ASSUME UNCHANGED vars PROVE KeepsCounts
  BY <1>9 DEF vars, KeepsCounts
<1> USE DEF Next, AllReturned
<1>10. ASSUME NEW k \in Keys, Expiry(k) PROVE Counting'
  BY <1>10, ForgetCounting DEF Expiry
<1>11. ASSUME NEW p \in Pods, Restart(p) PROVE Counting'
  <2>1. PICK gone \in SUBSET Keys : Forget(gone)
    BY <1>11 DEF Restart
  <2> QED
    BY <1>11, <2>1, ForgetCounting DEF Restart
<1>12. ASSUME NEW w \in Resets, DeleteBatch(w) PROVE Counting'
  <2>1. PICK batch \in SUBSET left[w] : Forget(batch)
    BY <1>12 DEF DeleteBatch
  <2> QED
    BY <1>12, <2>1, ForgetCounting DEF DeleteBatch
<1> QED
  BY <1>1, <1>2, <1>3, <1>4, <1>5, <1>6, <1>7, <1>8, <1>9, <1>10, <1>11, <1>12,
     IncrCounting, KeepsCountsStep

LEMMA CountingIsDense == TypeOK /\ Counting => CountsAreDense
BY DEF Counting, CountsAreDense, CountsAreUnique, Dense, CallsOf

(* Within each life of a counter its calls get 1, 2, 3, ... without          *)
(* repetition, whatever else happens.                                      *)
THEOREM CountsDense == Spec => []CountsAreDense
<1>1. Init => TypeOK /\ Counting
  BY TypeInit, CountingInit
<1>2. TypeOK /\ Counting /\ [Next]_vars => (TypeOK /\ Counting)'
  BY TypeStep, CountingStep
<1> QED
  BY <1>1, <1>2, CountingIsDense, PTL DEF Spec

-------------------------------------------------------------------------------
(* Resets.                                                                 *)

(* The counters that existed when a reset began belong to lives that have    *)
(* begun, and to lives that are over if the counter is gone now.             *)
EarlierPast ==
    \A w \in Resets, k \in Keys, n \in Nat :
        <<k, n>> \in earlier[w] => n <= epoch[k] /\ (counter[k] = 0 => n < epoch[k])

Gone(w, k) == counter[k] # 0 => Life(k) \notin earlier[w]

(* A scan has removed the earlier counters that it will not visit any more.   *)
Scanned == \A w \in Resets : wpc[w] = "delete" => \A k \in Keys \ left[w] : Gone(w, k)

Resetting == EarlierPast /\ Scanned /\ CleanResetStartsOver

LEMMA ResettingInit == Init => Resetting
BY DEF Init, Resetting, EarlierPast, Scanned, CleanResetStartsOver

(* What a step may do to a counter: leave it gone only if it was, or end the  *)
(* life it had.                                                            *)
Onwards(k) ==
    \/ epoch'[k] = epoch[k] /\ (counter'[k] = 0 => counter[k] = 0)
    \/ epoch'[k] = epoch[k] + 1 /\ counter[k] # 0 /\ counter'[k] = 0

LEMMA ForgetOnwards ==
    ASSUME TypeOK, NEW gone, Forget(gone), NEW k \in Keys
    PROVE  Onwards(k) /\ (k \in gone => counter'[k] = 0)
BY DEF Forget, Onwards, TypeOK

LEMMA StepOnwards == TypeOK /\ [Next]_vars => \A k \in Keys : Onwards(k)
<1> SUFFICES ASSUME TypeOK, [Next]_vars, NEW k \in Keys PROVE Onwards(k)
  OBVIOUS
<1>1. ASSUME NEW r \in Requests, Arrive(r) \/ Do(r) \/ Expire(r) \/ Answer(r) PROVE Onwards(k)
  BY <1>1 DEF Arrive, Do, Expire, Answer, Onwards
<1>2. ASSUME NEW r \in Requests, Incr(r) PROVE Onwards(k)
  BY <1>2, OnFlight DEF Incr, Onwards, TypeOK
<1>3. ASSUME NEW f \in Flights, Find(f) \/ Return(f) PROVE Onwards(k)
  BY <1>3 DEF Find, Return, Deliver, Onwards
<1>4. ASSUME NEW j \in Keys, Expiry(j) PROVE Onwards(k)
  BY <1>4, ForgetOnwards DEF Expiry
<1>5. ASSUME NEW p \in Pods, Restart(p) PROVE Onwards(k)
  BY <1>5, ForgetOnwards DEF Restart
<1>6. ASSUME NEW w \in Resets, DeleteBatch(w) PROVE Onwards(k)
  BY <1>6, ForgetOnwards DEF DeleteBatch
<1>7. ASSUME NEW w \in Resets, BeginReset(w) \/ FindMock(w) \/ EndReset(w) \/ ResetDies(w)
      PROVE  Onwards(k)
  BY <1>7 DEF BeginReset, FindMock, EndReset, ResetDies, Onwards
<1>8. ASSUME Update PROVE Onwards(k)
  BY <1>8 DEF Update, Onwards
<1>9. ASSUME UNCHANGED vars PROVE Onwards(k)
  BY <1>9 DEF vars, Onwards
<1> QED
  BY <1>1, <1>2, <1>3, <1>4, <1>5, <1>6, <1>7, <1>8, <1>9 DEF Next, AllReturned

(* What a reset has got rid of stays away: a new counter is a new life.      *)
LEMMA GoneStays ==
    ASSUME TypeOK, EarlierPast, NEW w \in Resets, earlier'[w] = earlier[w],
           NEW k \in Keys, Onwards(k)
    PROVE  /\ Gone(w, k) => Gone(w, k)'
           /\ \A n \in Nat : <<k, n>> \in earlier[w]
                 => n <= epoch'[k] /\ (counter'[k] = 0 => n < epoch'[k])
<1>1. counter[k] \in Nat /\ epoch[k] \in Nat
  BY DEF TypeOK
<1>2. \A n \in Nat : <<k, n>> \in earlier[w]
         => n <= epoch[k] /\ (counter[k] = 0 => n < epoch[k])
  BY DEF EarlierPast
<1>3. CASE epoch'[k] = epoch[k] /\ (counter'[k] = 0 => counter[k] = 0)
  <2>1. Life(k)' = Life(k)
    BY <1>3 DEF Life
  <2>2. counter[k] = 0 => Life(k) \notin earlier[w]
    BY <1>1, <1>2 DEF Life
  <2> QED
    BY <1>2, <1>3, <2>1, <2>2 DEF Gone
<1>4. CASE epoch'[k] = epoch[k] + 1 /\ counter[k] # 0 /\ counter'[k] = 0
  BY <1>1, <1>2, <1>4 DEF Gone
<1> QED
  BY <1>3, <1>4 DEF Onwards

LEMMA ResettingStep == TypeOK /\ Resetting /\ [Next]_vars => Resetting'
<1> SUFFICES ASSUME TypeOK, Resetting, [Next]_vars PROVE Resetting'
  OBVIOUS
<1> USE DEF Resetting
<1>1. \A k \in Keys : Onwards(k)
  BY StepOnwards
<1>2. \A w \in Resets : wpc[w] = "ok" => \A k \in Keys : Gone(w, k)
  BY DEF CleanResetStartsOver, GoneSince, Gone
<1>3. ASSUME UNCHANGED resetting PROVE Resetting'
  <2>1. \A w \in Resets, k \in Keys : Gone(w, k) => Gone(w, k)'
    BY <1>1, <1>3, GoneStays
  <2>2. EarlierPast'
    BY <1>1, <1>3, GoneStays DEF EarlierPast
  <2>3. Scanned'
    BY <1>3, <2>1 DEF Scanned
  <2>4. CleanResetStartsOver'
    BY <1>2, <1>3, <2>1 DEF CleanResetStartsOver, GoneSince, Gone
  <2> QED
    BY <2>2, <2>3, <2>4
<1>4. ASSUME NEW w \in Resets, UNCHANGED <<counter, epoch>>,
             BeginReset(w) \/ FindMock(w) \/ EndReset(w) \/ ResetDies(w)
      PROVE  Resetting'
  <2>1. \A v \in Resets, k \in Keys : earlier'[v] = earlier[v] => (Gone(v, k)' <=> Gone(v, k))
    BY <1>4 DEF Gone, Life
  <2>2. CASE BeginReset(w)
    <3>1. /\ wpc'[w] = "find" /\ left' = left
          /\ earlier'[w] = {Life(k) : k \in {j \in Keys : counter[j] # 0}}
          /\ \A v \in Resets \ {w} : wpc'[v] = wpc[v] /\ earlier'[v] = earlier[v]
      BY <2>2 DEF BeginReset, TypeOK
    <3>2. EarlierPast'
      <4> SUFFICES ASSUME NEW v \in Resets, NEW k \in Keys, NEW n \in Nat, <<k, n>> \in earlier'[v]
                   PROVE  n <= epoch[k] /\ (counter[k] = 0 => n < epoch[k])
        BY <1>4 DEF EarlierPast
      <4>1. CASE v = w
        BY <3>1, <4>1 DEF Life, TypeOK
      <4>2. CASE v # w
        BY <3>1, <4>2 DEF EarlierPast
      <4> QED
        BY <4>1, <4>2
    <3>3. Scanned'
      BY <2>1, <3>1 DEF Scanned
    <3>4. CleanResetStartsOver'
      BY <1>2, <2>1, <3>1 DEF CleanResetStartsOver, GoneSince, Gone
    <3> QED
      BY <3>2, <3>3, <3>4
  <2>3. CASE FindMock(w) \/ EndReset(w) \/ ResetDies(w)
    <3>1. earlier' = earlier
      BY <2>3 DEF FindMock, EndReset, ResetDies
    <3>2. EarlierPast'
      BY <1>4, <3>1 DEF EarlierPast
    <3>3. Scanned'
      BY <2>1, <2>3, <3>1 DEF Scanned, FindMock, EndReset, ResetDies, Pattern, TypeOK
    <3>4. ASSUME NEW v \in Resets, wpc'[v] = "ok", NEW k \in Keys
          PROVE  Gone(v, k)
      BY <1>2, <2>3, <3>4 DEF FindMock, EndReset, ResetDies, Scanned, TypeOK
    <3>5. CleanResetStartsOver'
      BY <2>1, <3>1, <3>4 DEF CleanResetStartsOver, GoneSince, Gone
    <3> QED
      BY <3>2, <3>3, <3>5
  <2> QED
    BY <1>4, <2>2, <2>3
<1>5. ASSUME NEW w \in Resets, DeleteBatch(w) PROVE Resetting'
  <2>1. PICK batch \in SUBSET left[w] : Forget(batch) /\ left' = [left EXCEPT ![w] = @ \ batch]
    BY <1>5 DEF DeleteBatch
  <2>2. wpc' = wpc /\ earlier' = earlier
    BY <1>5 DEF DeleteBatch
  <2>3. \A v \in Resets, k \in Keys : Gone(v, k) => Gone(v, k)'
    BY <1>1, <2>2, GoneStays
  <2>4. EarlierPast'
    BY <1>1, <2>2, GoneStays DEF EarlierPast
  <2>5. \A v \in Resets, k \in batch : k \in Keys => Gone(v, k)'
    BY <2>1, ForgetOnwards DEF Gone
  <2>6. Scanned'
    BY <2>1, <2>2, <2>3, <2>5 DEF Scanned, TypeOK
  <2>7. CleanResetStartsOver'
    BY <1>2, <2>2, <2>3 DEF CleanResetStartsOver, GoneSince, Gone
  <2> QED
    BY <2>4, <2>6, <2>7
<1>6. ASSUME NEW r \in Requests, Arrive(r) \/ Do(r) \/ Incr(r) \/ Expire(r) \/ Answer(r)
      PROVE  UNCHANGED resetting
  BY <1>6 DEF Arrive, Do, Incr, Expire, Answer
<1>7. ASSUME NEW f \in Flights, Find(f) \/ Return(f) PROVE UNCHANGED resetting
  BY <1>7 DEF Find, Return, Deliver
<1>8. ASSUME \/ Update \/ UNCHANGED vars
             \/ \E k \in Keys : Expiry(k)
             \/ \E p \in Pods : Restart(p)
      PROVE  UNCHANGED resetting
  BY <1>8 DEF Update, vars, Expiry, Restart
<1>9. ASSUME NEW w \in Resets, BeginReset(w) \/ FindMock(w) \/ EndReset(w) \/ ResetDies(w)
      PROVE  UNCHANGED <<counter, epoch>>
  BY <1>9 DEF BeginReset, FindMock, EndReset, ResetDies
<1> HIDE DEF Resetting
<1> QED
  BY <1>3, <1>4, <1>5, <1>6, <1>7, <1>8, <1>9 DEF Next, AllReturned

(* A reset that could read the mock and scan to the end leaves no counter     *)
(* that existed when it began, however many others run beside it.            *)
THEOREM ResetIsClean == Spec => []CleanResetStartsOver
<1>1. Init => TypeOK /\ Resetting
  BY TypeInit, ResettingInit
<1>2. TypeOK /\ Resetting /\ [Next]_vars => (TypeOK /\ Resetting)'
  BY TypeStep, ResettingStep
<1>3. Resetting => CleanResetStartsOver
  BY DEF Resetting
<1> QED
  BY <1>1, <1>2, <1>3, PTL DEF Spec

-------------------------------------------------------------------------------
(* Counters without TTL.                                                   *)

(* The call with the first count still owes the EXPIRE, or has lost it.       *)
Owing(r)     == count[r] = 1 /\ (pc[r] = "expire" \/ r \in lost)
Explained(k) == (counter[k] # 0 /\ ~ttl[k]) =>
                    (\E r \in CallsOf(k) : Owing(r)) \/ 1 \in Untaken(k)

LEMMA ExplainedAll == MissingTTLExplained <=> \A k \in Keys : Explained(k)
BY DEF MissingTTLExplained, Explained, Owing

(* A step that leaves a counter alone leaves it explained, if those that owe  *)
(* an EXPIRE go on owing or losing it.                                      *)
LEMMA ExplainedStays ==
    ASSUME TypeOK, Counting, NEW k \in Keys, Explained(k),
           counter'[k] = counter[k], epoch'[k] = epoch[k],
           ttl[k] => ttl'[k], nobody \subseteq nobody',
           \A r \in CallsOf(k) : Owing(r) =>
               ttl'[k] \/ (/\ Owing(r)' /\ on'[r] = on[r] /\ age'[r] = age[r])
    PROVE  Explained(k)'
<1> SUFFICES ASSUME counter'[k] # 0, ~ttl'[k]
             PROVE  (\E r \in CallsOf(k)' : Owing(r)') \/ 1 \in Untaken(k)'
  BY DEF Explained
<1>1. (\E r \in CallsOf(k) : Owing(r)) \/ 1 \in Untaken(k)
  BY DEF Explained
<1>2. CASE 1 \in Untaken(k)
  BY <1>2 DEF Untaken, Life
<1>3. ASSUME NEW r \in CallsOf(k), Owing(r) PROVE r \in CallsOf(k)' /\ Owing(r)'
  BY <1>3 DEF CallsOf, KeyOf, Owing
<1> QED
  BY <1>1, <1>2, <1>3

LEMMA ForgetExplained ==
    ASSUME TypeOK, Counting, NEW gone, Forget(gone), NEW k \in Keys, Explained(k),
           UNCHANGED <<on, count, age, nobody>>,
           \A r \in Requests : (pc[r] = "expire" => pc'[r] = "expire" \/ r \in lost'),
           lost \subseteq lost'
    PROVE  Explained(k)'
<1>1. CASE k \in gone
  BY <1>1 DEF Forget, Explained
<1>2. CASE k \notin gone
  <2>1. counter'[k] = counter[k] /\ epoch'[k] = epoch[k] /\ (ttl[k] => ttl'[k])
    BY <1>2 DEF Forget, TypeOK
  <2>2. \A r \in CallsOf(k) : Owing(r) => Owing(r)'
    BY DEF Owing, CallsOf
  <2> QED
    BY <2>1, <2>2, ExplainedStays
<1> QED
  BY <1>1, <1>2

LEMMA IncrExplained ==
    ASSUME TypeOK, Counting, NEW r \in Requests, Incr(r), NEW k \in Keys, Explained(k)
    PROVE  Explained(k)'
<1>1. /\ KeyOf(r) \in Keys /\ count[r] = 0 /\ pc[r] = "incr"
      /\ counter[k] \in Nat
  BY OnFlight DEF Incr, TypeOK, Counting, HasCount
<1>2. UNCHANGED <<on, ttl, epoch, lost>>
  BY DEF Incr
<1>3. /\ \A q \in Requests \ {r} :
            count'[q] = count[q] /\ age'[q] = age[q] /\ pc'[q] = pc[q]
      /\ nobody \subseteq nobody'
      /\ \A j \in Keys \ {KeyOf(r)} : counter'[j] = counter[j]
  BY DEF Incr, TypeOK
<1>4. \A q \in CallsOf(k) : Owing(q) => Owing(q)' /\ on'[q] = on[q] /\ age'[q] = age[q]
  BY <1>1, <1>2, <1>3 DEF Owing, CallsOf
<1>5. CASE counter'[k] = counter[k]
  BY <1>2, <1>3, <1>4, <1>5, ExplainedStays
<1>6. CASE k = KeyOf(r) /\ counter[k] # 0
  <2> SUFFICES ASSUME ~ttl'[k]
               PROVE  (\E q \in CallsOf(k)' : Owing(q)') \/ 1 \in Untaken(k)'
    BY DEF Explained
  <2>1. (\E q \in CallsOf(k) : Owing(q)) \/ 1 \in Untaken(k)
    BY <1>2, <1>6 DEF Explained
  <2>2. ASSUME NEW q \in CallsOf(k), Owing(q) PROVE q \in CallsOf(k)' /\ Owing(q)'
    BY <1>2, <1>4, <2>2 DEF CallsOf, KeyOf, Owing
  <2>3. CASE 1 \in Untaken(k)
    <3>1. counter'[k] \in Nat /\ counter'[k] >= counter[k]
      BY <1>1, <1>6 DEF Incr, TypeOK
    <3>2. Life(k)' = Life(k)
      BY <1>2 DEF Life
    <3> QED
      BY <1>1, <1>3, <2>3, <3>1, <3>2 DEF Untaken
  <2> QED
    BY <2>1, <2>2, <2>3
<1>7. CASE k = KeyOf(r) /\ counter[k] = 0
  <2>1. \/ counter'[k] = 0
        \/ /\ count'[r] = 1 /\ pc'[r] = "expire" /\ age'[r] = epoch[k]
        \/ counter'[k] = 1 /\ <<Life(k), 1>> \in nobody'
    BY <1>7 DEF Incr, IsFirst, TypeOK
  <2>2. ASSUME count'[r] = 1, pc'[r] = "expire", age'[r] = epoch[k]
        PROVE  r \in CallsOf(k)' /\ Owing(r)'
    BY <1>2, <1>7, <2>2 DEF CallsOf, KeyOf, Owing
  <2>3. ASSUME counter'[k] = 1, <<Life(k), 1>> \in nobody' PROVE 1 \in Untaken(k)'
    BY <1>2, <2>3 DEF Untaken, Life
  <2> QED
    BY <2>1, <2>2, <2>3 DEF Explained
<1> QED
  BY <1>1, <1>3, <1>5, <1>6, <1>7

LEMMA ExpireExplained ==
    ASSUME TypeOK, Counting, NEW r \in Requests, Expire(r), NEW k \in Keys, Explained(k)
    PROVE  Explained(k)'
<1>1. KeyOf(r) \in Keys
  BY OnFlight DEF Expire
<1>2. UNCHANGED <<on, count, age, nobody, counter, epoch>>
  BY DEF Expire
<1>3. \A q \in Requests \ {r} : pc'[q] = pc[q]
  BY DEF Expire, TypeOK
<1>4. \/ lost' = lost \cup {r} /\ ttl' = ttl
      \/ lost' = lost /\ ttl' = [ttl EXCEPT ![KeyOf(r)] = counter[KeyOf(r)] # 0]
  BY DEF Expire
<1>5. CASE counter[k] = 0
  BY <1>2, <1>5 DEF Explained
<1>6. CASE counter[k] # 0
  <2>1. ttl[k] => ttl'[k]
    BY <1>1, <1>4, <1>6 DEF TypeOK
  <2>2. ASSUME NEW q \in CallsOf(k), Owing(q) PROVE ttl'[k] \/ Owing(q)'
    <3>1. CASE q # r
      BY <1>2, <1>3, <1>4, <2>2, <3>1 DEF Owing, CallsOf
    <3>2. CASE q = r
      BY <1>1, <1>2, <1>4, <1>6, <2>2, <3>2 DEF Owing, CallsOf, TypeOK
    <3> QED
      BY <3>1, <3>2
  <2> QED
    BY <1>2, <2>1, <2>2, ExplainedStays
<1> QED
  BY <1>5, <1>6

LEMMA ExplainedStep ==
    TypeOK /\ Counting /\ MissingTTLExplained /\ [Next]_vars => MissingTTLExplained'
<1> SUFFICES ASSUME TypeOK, Counting, [Next]_vars, NEW k \in Keys, Explained(k)
             PROVE  Explained(k)'
  BY ExplainedAll DEF MissingTTLExplained, Explained, Owing
<1> DEFINE Same == /\ UNCHANGED <<counter, ttl, epoch, count, age, nobody, lost>>
                   /\ \A r \in Requests : count[r] # 0 => on'[r] = on[r]
                   /\ \A r \in Requests : pc[r] = "expire" => pc'[r] = "expire"
<1>1. ASSUME Same PROVE Explained(k)'
  <2>1. \A r \in CallsOf(k) : Owing(r) => Owing(r)' /\ on'[r] = on[r] /\ age'[r] = age[r]
    BY <1>1 DEF Owing, CallsOf
  <2> QED
    BY <1>1, <2>1, ExplainedStays
<1>2. ASSUME NEW r \in Requests, Arrive(r) PROVE Same
  BY <1>2 DEF Arrive, TypeOK, Counting, HasCount
<1>3. ASSUME NEW r \in Requests, Do(r) \/ Answer(r) PROVE Same
  BY <1>3 DEF Do, Answer, TypeOK
<1>4. ASSUME NEW f \in Flights, Find(f) PROVE Same
  BY <1>4 DEF Find
<1>5. ASSUME NEW f \in Flights, Return(f) PROVE Same
  BY <1>5 DEF Return, Deliver
<1>6. ASSUME NEW w \in Resets, BeginReset(w) \/ FindMock(w) \/ EndReset(w) \/ ResetDies(w)
      PROVE  Same
  BY <1>6 DEF BeginReset, FindMock, EndReset, ResetDies
<1>7. ASSUME Update \/ UNCHANGED vars PROVE Same
  BY <1>7 DEF Update, vars
<1>8. ASSUME NEW j \in Keys, Expiry(j) PROVE Explained(k)'
  BY <1>8, ForgetExplained DEF Expiry
<1>9. ASSUME NEW p \in Pods, Restart(p) PROVE Explained(k)'
  <2>1. PICK gone \in SUBSET Keys : Forget(gone)
    BY <1>9 DEF Restart
  <2>2. \A r \in Requests : pc[r] = "expire" => pc'[r] = "expire" \/ r \in lost'
    BY <1>9 DEF Restart, TypeOK
  <2>3. UNCHANGED <<on, count, age, nobody>> /\ lost \subseteq lost'
    BY <1>9 DEF Restart
  <2> QED
    BY <2>1, <2>2, <2>3, ForgetExplained
<1>10. ASSUME NEW w \in Resets, DeleteBatch(w) PROVE Explained(k)'
  <2>1. PICK batch \in SUBSET left[w] : Forget(batch)
    BY <1>10 DEF DeleteBatch
  <2> QED
    BY <1>10, <2>1, ForgetExplained DEF DeleteBatch
<1> HIDE DEF Same
<1> QED
  BY <1>1, <1>2, <1>3, <1>4, <1>5, <1>6, <1>7, <1>8, <1>9, <1>10,
     IncrExplained, ExpireExplained DEF Next, AllReturned

(* A counter that will never expire has one of the named causes.             *)
THEOREM MissingTTLHasReason == Spec => []MissingTTLExplained
<1>1. Init => TypeOK /\ Counting /\ MissingTTLExplained
  <2>1. Init => MissingTTLExplained
    BY DEF Init, MissingTTLExplained
  <2> QED
    BY <2>1, TypeInit, CountingInit
<1>2. /\ TypeOK /\ Counting /\ MissingTTLExplained /\ [Next]_vars
      => (TypeOK /\ Counting /\ MissingTTLExplained)'
  BY TypeStep, CountingStep, ExplainedStep
<1> QED
  BY <1>1, <1>2, PTL DEF Spec

-------------------------------------------------------------------------------
(* Responses.                                                              *)

(* A response answers only calls whose count lies in its range.              *)
Served ==
    \A r \in Requests : pc[r] = "answered" /\ reply[r] # 0 =>
        reply[r] \in 1..Len(list[r]) /\ InRange(list[r][reply[r]], count[r])

LEMMA ServedStep == TypeOK /\ Counting /\ Served /\ [Next]_vars => Served'
<1> SUFFICES ASSUME TypeOK, Counting, Served, [Next]_vars,
                    NEW q \in Requests, pc'[q] = "answered", reply'[q] # 0
             PROVE  reply'[q] \in 1..Len(list'[q]) /\ InRange(list'[q][reply'[q]], count'[q])
  BY DEF Served, InRange
<1> DEFINE Stays == /\ pc[q] = "answered"
                    /\ reply'[q] = reply[q] /\ list'[q] = list[q] /\ count'[q] = count[q]
<1>1. ASSUME Stays PROVE reply'[q] \in 1..Len(list'[q]) /\ InRange(list'[q][reply'[q]], count'[q])
  BY <1>1 DEF Served
<1>2. ASSUME NEW r \in Requests, Answer(r), q # r PROVE Stays
  BY <1>2 DEF Answer, TypeOK
<1>3. CASE Answer(q)
  <2>1. PICK i \in 0..Len(list[q]) : /\ MatchingResponse(list[q], count[q], i)
                                    /\ reply' = [reply EXCEPT ![q] = i]
    BY <1>3 DEF Answer
  <2>2. reply'[q] = i /\ list' = list /\ count' = count
    BY <1>3, <2>1 DEF Answer, TypeOK
  <2>3. list[q] \in Seq(Ranges)
    BY <1>3, ListsAssumption DEF Answer, TypeOK
  <2>4. i \in 1..Len(list[q])
    BY <2>1, <2>2, <2>3, LenProperties
  <2>5. InRange(list[q][i], count[q])
    BY <2>1, <2>2 DEF MatchingResponse
  <2> QED
    BY <2>2, <2>4, <2>5
<1>4. ASSUME NEW r \in Requests, Arrive(r) \/ Do(r) \/ Expire(r) PROVE Stays
  BY <1>4 DEF Arrive, Do, Expire, TypeOK
<1>5. ASSUME NEW r \in Requests, Incr(r) PROVE Stays
  BY <1>5 DEF Incr, TypeOK
<1>6. ASSUME NEW f \in Flights, Find(f) \/ Return(f) PROVE Stays
  BY <1>6 DEF Find, Return, Deliver, Onward, TypeOK
<1>7. ASSUME Update \/ UNCHANGED vars \/ \E k \in Keys : Expiry(k) PROVE Stays
  BY <1>7 DEF Update, vars, Expiry
<1>8. ASSUME NEW w \in Resets, \/ BeginReset(w) \/ FindMock(w) \/ DeleteBatch(w)
                               \/ EndReset(w) \/ ResetDies(w)
      PROVE  Stays
  BY <1>8 DEF BeginReset, FindMock, DeleteBatch, EndReset, ResetDies
<1>9. ASSUME NEW p \in Pods, Restart(p) PROVE Stays
  BY <1>9 DEF Restart
<1> HIDE DEF Stays
<1> QED
  BY <1>1, <1>2, <1>3, <1>4, <1>5, <1>6, <1>7, <1>8, <1>9 DEF Next, AllReturned

(* The calls of a life that a response has answered have different counts,    *)
(* all in its range.                                                       *)
LEMMA ShareOfRange ==
    ASSUME TypeOK, Counting, Served, NEW k \in Keys, NEW s \in ResponseLists,
           NEW n \in Nat, NEW i \in 1..Len(s), s[i].to > s[i].from
    PROVE  Cardinality(ServedBy(k, n, s, i)) <= s[i].to - s[i].from
<1> DEFINE S == ServedBy(k, n, s, i)
           f == [r \in S |-> count[r]]
<1>1. s \in Seq(Ranges)
  BY ListsAssumption
<1>2. s[i] \in Ranges
  BY <1>1, ElementOfSeq
<1>3. PICK from \in Nat, to \in Nat : s[i].from = from /\ s[i].to = to
  BY <1>2 DEF Ranges
<1>4. i # 0
  BY <1>1, LenProperties
<1>5. \A r \in S : /\ r \in Requests /\ count[r] # 0 /\ count[r] \in from..(to - 1)
                   /\ KeyOf(r) = k /\ age[r] = n
  <2> TAKE r \in S
  <2>1. /\ r \in Requests /\ pc[r] = "answered" /\ KeyOf(r) = k
        /\ age[r] = n /\ list[r] = s /\ reply[r] = i
    BY DEF ServedBy
  <2>2. count[r] \in Nat /\ count[r] # 0
    BY <2>1 DEF TypeOK, Counting, HasCount
  <2>3. InRange(s[i], count[r])
    BY <2>1, <1>4 DEF Served
  <2> QED
    BY <1>3, <2>1, <2>2, <2>3 DEF InRange
<1>6. f \in Injection(S, from..(to - 1))
  <2>1. f \in [S -> from..(to - 1)]
    BY <1>5
  <2>2. \A q, r \in S : f[q] = f[r] => q = r
    BY <1>5 DEF Counting, CountsAreUnique
  <2> QED
    BY <2>1, <2>2 DEF Injection, IsInjective
<1>7. IsFiniteSet(from..(to - 1)) /\ Cardinality(from..(to - 1)) = to - from
  <2>1. from \in Int /\ to - 1 \in Int /\ ~(from > to - 1) /\ (to - 1) - from + 1 = to - from
    BY <1>3
  <2> QED
    BY <2>1, FS_Interval
<1> HIDE DEF S, f
<1>8. Cardinality(S) <= Cardinality(from..(to - 1))
  BY <1>6, <1>7, FS_Injection
<1> QED
  BY <1>3, <1>7, <1>8 DEF S

(* No response is served more often, in one life of a counter, than its       *)
(* range is long in the reading of findMatchingResponse, which leaves out    *)
(* its end; the description of the range counts the end (see                 *)
(* AnsweredAsDescribed).                                                   *)
THEOREM ResponsesServeShare == Spec => []ResponseServesItsShare
<1>1. Init => TypeOK /\ Counting /\ Served
  <2>1. Init => Served
    BY DEF Init, Served
  <2> QED
    BY <2>1, TypeInit, CountingInit
<1>2. TypeOK /\ Counting /\ Served /\ [Next]_vars => (TypeOK /\ Counting /\ Served)'
  BY TypeStep, CountingStep, ServedStep
<1>3. TypeOK /\ Counting /\ Served => ResponseServesItsShare
  <2> SUFFICES ASSUME TypeOK, Counting, Served,
                      NEW k \in Keys, NEW s \in ResponseLists, NEW n \in 0..epoch[k],
                      NEW i \in 1..Len(s), s[i].to > s[i].from
               PROVE  Cardinality(ServedBy(k, n, s, i)) <= s[i].to - s[i].from
    BY DEF ResponseServesItsShare
  <2>1. n \in Nat
    BY DEF TypeOK
  <2> QED
    BY <2>1, ShareOfRange
<1> QED
  BY <1>1, <1>2, <1>3, PTL DEF Spec

-------------------------------------------------------------------------------
(* Flights.                                                                *)

(* The calls that wait for a shared fetch.                                   *)
Waits(r, f)   == pc[r] = "wait" /\ on[r] = f
Awaited(f)    == flight[f] # None <=> \E r \in Requests : Waits(r, f)
FlightsAwaited == \A f \in Flights : Awaited(f)

(* A flight that is neither started nor ended keeps its callers.             *)
LEMMA AwaitedStays ==
    ASSUME NEW f \in Flights, Awaited(f), flight'[f] = None <=> flight[f] = None,
           \A r \in Requests : Waits(r, f)' <=> Waits(r, f)
    PROVE  Awaited(f)'
BY DEF Awaited

LEMMA AwaitedAside ==
    ASSUME FlightsAwaited, UNCHANGED <<flight, on>>,
           \A r \in Requests : pc'[r] = "wait" <=> pc[r] = "wait"
    PROVE  FlightsAwaited'
<1>1. \A f \in Flights, r \in Requests : Waits(r, f)' <=> Waits(r, f)
  BY DEF Waits
<1> QED
  BY <1>1, AwaitedStays DEF FlightsAwaited

LEMMA AwaitedStep == TypeOK /\ FlightsAwaited /\ [Next]_vars => FlightsAwaited'
<1> SUFFICES ASSUME TypeOK, FlightsAwaited, [Next]_vars PROVE FlightsAwaited'
  OBVIOUS
<1>1. ASSUME NEW r \in Requests, Arrive(r) PROVE FlightsAwaited'
  <2>1. pc[r] = "idle" /\ pc' = [pc EXCEPT ![r] = "do"] /\ flight' = flight
        /\ \A q \in Requests \ {r} : on'[q] = on[q]
    BY <1>1 DEF Arrive, TypeOK
  <2>2. \A f \in Flights, q \in Requests : Waits(q, f)' <=> Waits(q, f)
    BY <2>1 DEF Waits, TypeOK
  <2> QED
    BY <2>1, <2>2, AwaitedStays DEF FlightsAwaited
<1>2. ASSUME NEW r \in Requests, Do(r) PROVE FlightsAwaited'
  <2>1. PICK f \in Flights : f = on[r]
    BY <1>2 DEF Do, TypeOK
  <2>2. /\ pc[r] = "do" /\ pc'[r] = "wait" /\ on' = on
        /\ \A q \in Requests \ {r} : pc'[q] = pc[q]
        /\ \A g \in Flights \ {f} : flight'[g] = flight[g]
    BY <1>2, <2>1 DEF Do, TypeOK
  <2>3. flight'[f] # None
    <3>1. [found |-> None, done |-> FALSE] \in Fetch
      BY DEF Fetch
    <3>2. flight'[f] = IF flight[f] = None THEN [found |-> None, done |-> FALSE] ELSE flight[f]
      BY <1>2, <2>1 DEF Do, TypeOK
    <3> QED
      BY <3>1, <3>2, NoneAssumption
  <2>4. Awaited(f)'
    BY <2>1, <2>2, <2>3 DEF Awaited, Waits
  <2>5. ASSUME NEW g \in Flights \ {f} PROVE Awaited(g)'
    <3>1. \A q \in Requests : Waits(q, g)' <=> Waits(q, g)
      BY <2>1, <2>2 DEF Waits
    <3> QED
      BY <2>2, <3>1, AwaitedStays DEF FlightsAwaited
  <2> QED
    BY <2>4, <2>5 DEF FlightsAwaited
<1>3. ASSUME NEW r \in Requests, Incr(r) \/ Expire(r) \/ Answer(r) PROVE FlightsAwaited'
  BY <1>3, AwaitedAside DEF Incr, Expire, Answer, TypeOK
<1>4. ASSUME NEW f \in Flights, Find(f) PROVE FlightsAwaited'
  <2>1. \A found \in {responses, None} : [found |-> found, done |-> TRUE] \in Fetch
    BY DEF Fetch, TypeOK
  <2>2. \A g \in Flights : flight'[g] = None <=> flight[g] = None
    BY <1>4, <2>1, NoneAssumption DEF Find, TypeOK
  <2>3. \A g \in Flights, q \in Requests : Waits(q, g)' <=> Waits(q, g)
    BY <1>4 DEF Find, Waits
  <2> QED
    BY <2>2, <2>3, AwaitedStays DEF FlightsAwaited
<1>5. ASSUME NEW f \in Flights, Return(f) PROVE FlightsAwaited'
  <2>1. /\ flight'[f] = None /\ on' = on
        /\ \A g \in Flights \ {f} : flight'[g] = flight[g]
    BY <1>5 DEF Return, Deliver, TypeOK
  <2>2. \A q \in Requests : pc'[q] = IF Waits(q, f) THEN Onward(f, "incr") ELSE pc[q]
    BY <1>5 DEF Return, Deliver, Waits
  <2>3. Onward(f, "incr") # "wait"
    BY DEF Onward
  <2>4. Awaited(f)'
    BY <2>1, <2>2, <2>3 DEF Awaited, Waits
  <2>5. ASSUME NEW g \in Flights \ {f} PROVE Awaited(g)'
    <3>1. \A q \in Requests : Waits(q, g)' <=> Waits(q, g)
      BY <2>1, <2>2 DEF Waits
    <3> QED
      BY <2>1, <3>1, AwaitedStays DEF FlightsAwaited
  <2> QED
    BY <2>4, <2>5 DEF FlightsAwaited
<1>6. ASSUME NEW p \in Pods, Restart(p) PROVE FlightsAwaited'
  <2>1. /\ on' = on
        /\ \A g \in Flights : flight'[g] = IF g[1] = p THEN None ELSE flight[g]
        /\ \A q \in Requests : pc'[q] = IF /\ pc[q] \in {"do", "wait", "incr", "expire", "match"}
                                           /\ on[q][1] = p
                                        THEN "failed" ELSE pc[q]
    BY <1>6 DEF Restart
  <2>2. ASSUME NEW g \in Flights PROVE Awaited(g)'
    <3>1. CASE g[1] = p
      BY <2>1, <3>1 DEF Awaited, Waits
    <3>2. CASE g[1] # p
      <4>1. \A q \in Requests : Waits(q, g)' <=> Waits(q, g)
        BY <2>1, <3>2 DEF Waits
      <4> QED
        BY <2>1, <3>2, <4>1, AwaitedStays DEF FlightsAwaited
    <3> QED
      BY <3>1, <3>2
  <2> QED
    BY <2>2 DEF FlightsAwaited
<1>7. CASE UNCHANGED <<flight, pc, on>>
  BY <1>7, AwaitedAside
<1> QED
  BY <1>1, <1>2, <1>3, <1>4, <1>5, <1>6, <1>7
  DEF Next, AllReturned, vars, Expiry, Update, BeginReset, FindMock, DeleteBatch, EndReset, ResetDies

(* The calls of a sequence mock that share a fetch go on together: one waits   *)
(* exactly while there is a fetch for it, also when the fetch fails or its     *)
(* pod dies, and none is left to answer later calls with an old list.         *)
THEOREM NobodyIsForgotten == Spec => []FlightsAwaited
<1>1. Init => FlightsAwaited
  BY DEF Init, FlightsAwaited, Awaited, Waits
<1> QED
  BY <1>1, TypeInit, TypeStep, AwaitedStep, PTL DEF Spec
=============================================================================
